----------------------------- MODULE MCConnect ------------------------------
(* The values of the constants are model values, given in the .cfg files.  *)
EXTENDS Connect
=============================================================================
