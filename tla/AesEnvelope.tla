----------------------------- MODULE AesEnvelope -----------------------------
(***************************************************************************)
(* OCPSecurityAES_encrypt_to_string and OCPSecurityAES_decrypt of          *)
(* src/sdk/security/aes/OCPSecurityAES.c: padding, initialization vector   *)
(* in front, base64 if the header format is JSON.  The block cipher is     *)
(* vendored; all the envelope relies on is that it keeps the length and    *)
(* can be undone, so it is an addition of the key and the vector here.     *)
(***************************************************************************)
EXTENDS Base64

CONSTANT KEY   \* a byte

ASSUME EnvelopeAssumption == KEY \in 0 .. 255

IV_LEN == 16
BLOCK == 16

Encipher(iv, text) ==
  [i \in DOMAIN text |-> (text[i] + KEY + iv[((i - 1) % IV_LEN) + 1]) % 256]
Decipher(iv, text) ==
  [i \in DOMAIN text |-> (text[i] + 512 - KEY - iv[((i - 1) % IV_LEN) + 1]) % 256]

\* PKCS5: as many bytes as are missing, or a whole block, each the number of them.
Padded(text) ==
  text \o [i \in 1 .. BLOCK - (Len(text) % BLOCK) |-> BLOCK - (Len(text) % BLOCK)]

encrypt_to_string(header_format, text, iv) ==
  LET data == iv \o Encipher(iv, Padded(text))
  IN  IF header_format = "J" THEN b64_encode(data) ELSE data

\* <<>> stands for NULL: nothing follows the vector, the padding is not one, or no
\* text is left.
decrypt(header_format, encrypted) ==
  LET in == IF header_format = "J" THEN b64_decode_ex(encrypted) ELSE encrypted
      text == Decipher(SubSeq(in, 1, IV_LEN), SubSeq(in, IV_LEN + 1, Len(in)))
      padding == text[Len(text)]
  IN  IF \/ Len(in) <= IV_LEN \/ padding \notin 1 .. 16 \/ Len(text) - padding < 1
      THEN <<>> ELSE SubSeq(text, 1, Len(text) - padding)
=============================================================================
