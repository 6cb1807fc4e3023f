------------------------------- MODULE Base64 -------------------------------
(***************************************************************************)
(* src/sdk/security/base64: b64_encode and b64_decode_ex, on bytes 0..255. *)
(* Both work on groups, of three bytes and of four characters; what is     *)
(* missing in the last group counts as zero.                               *)
(***************************************************************************)
EXTENDS Naturals, Sequences, FiniteSetsExt

PAD == 61   \* '='

\* b64_table: A-Z, a-z, 0-9, '+', '/'.
b64_table ==
  [v \in 0 .. 63 |-> IF v < 26 THEN 65 + v
                     ELSE IF v < 52 THEN 97 + v - 26
                     ELSE IF v < 62 THEN 48 + v - 52
                     ELSE IF v = 62 THEN 43 ELSE 47]

\* The i-th element of s, or the zero that fills the last group.
OrZero(s, i) == IF i \in DOMAIN s THEN s[i] ELSE 0

\* The group of three bytes after position g, six bits at a time.
Sextets(s, g) ==
  <<OrZero(s, g + 1) \div 4,
    (OrZero(s, g + 1) % 4) * 16 + OrZero(s, g + 2) \div 16,
    (OrZero(s, g + 2) % 16) * 4 + OrZero(s, g + 3) \div 64,
    OrZero(s, g + 3) % 64>>

b64_encode(src) ==
  [j \in 1 .. 4 * ((Len(src) + 2) \div 3) |->
     LET g == 3 * ((j - 1) \div 4)
         k == (j - 1) % 4
     IN  IF g + k > Len(src) THEN PAD ELSE b64_table[Sextets(src, g)[k + 1]]]

\* The characters before the first that is not one of the table.
Valid(src) ==
  LET bad == {i \in DOMAIN src : src[i] \notin {b64_table[v] : v \in 0 .. 63}}
  IN  IF bad = {} THEN src ELSE SubSeq(src, 1, Min(bad) - 1)

\* The bytes of the group of four values after position g.
Octets(v, g) ==
  <<(OrZero(v, g + 1) * 4 + OrZero(v, g + 2) \div 16) % 256,
    ((OrZero(v, g + 2) % 16) * 16 + OrZero(v, g + 3) \div 4) % 256,
    ((OrZero(v, g + 3) % 4) * 64 + OrZero(v, g + 4)) % 256>>

\* A last group of r characters holds r - 1 bytes.
b64_decode_ex(src) ==
  LET chars == Valid(src)
      v == [i \in DOMAIN chars |-> CHOOSE x \in 0 .. 63 : b64_table[x] = chars[i]]
      r == Len(chars) % 4
      size == 3 * (Len(chars) \div 4) + IF r > 0 THEN r - 1 ELSE 0
  IN  [j \in 1 .. size |-> Octets(v, 4 * ((j - 1) \div 3))[((j - 1) % 3) + 1]]
=============================================================================
