------------------------- MODULE MessagePathProofs -------------------------
(***************************************************************************)
(* Proofs about MessagePath for every text, key, vector, name, number of   *)
(* the message's date and size from which a message is compressed: first   *)
(* that each conversion is undone by its counterpart, then that what       *)
(* arrives is what was asked for.                                          *)
(***************************************************************************)
EXTENDS MessagePath, SequenceTheorems, FiniteSetTheorems, WellFoundedInduction, TLAPS

-----------------------------------------------------------------------------
(* Base64                                                                  *)

Byte == 0 .. 255

\* No value is encoded as the padding, and no two alike.
LEMMA TableType ==
  ASSUME NEW v \in 0 .. 63
  PROVE  b64_table[v] \in Nat /\ b64_table[v] # PAD /\ b64_table[v] <= 127
BY DEF b64_table, PAD

LEMMA TableInjective ==
  ASSUME NEW v \in 0 .. 63, NEW w \in 0 .. 63, b64_table[v] = b64_table[w]
  PROVE  v = w
BY DEF b64_table

\* What the value of a character is, as b64_decode_ex looks it up.
LEMMA TableInverse ==
  ASSUME NEW v \in 0 .. 63
  PROVE  (CHOOSE x \in 0 .. 63 : b64_table[x] = b64_table[v]) = v
BY TableInjective

\* Three bytes from the four values they were cut into.
LEMMA FirstByte ==
  ASSUME NEW a \in Byte, NEW b \in Byte
  PROVE  ((a \div 4) * 4 + ((a % 4) * 16 + b \div 16) \div 16) % 256 = a
BY DEF Byte

LEMMA SecondByte ==
  ASSUME NEW a \in Byte, NEW b \in Byte, NEW c \in Byte
  PROVE  ((((a % 4) * 16 + b \div 16) % 16) * 16 + ((b % 16) * 4 + c \div 64) \div 4) % 256 = b
BY DEF Byte

LEMMA ThirdByte ==
  ASSUME NEW b \in Byte, NEW c \in Byte
  PROVE  ((((b % 16) * 4 + c \div 64) % 4) * 64 + (c % 64)) % 256 = c
BY DEF Byte

LEMMA OrZeroType ==
  ASSUME NEW s \in Seq(Byte), NEW i \in Int
  PROVE  OrZero(s, i) \in Byte
<1>1. CASE i \in DOMAIN s
  <2>1. s[i] \in Byte
    BY <1>1
  <2> QED BY <1>1, <2>1 DEF OrZero
<1>2. CASE i \notin DOMAIN s
  BY <1>2 DEF OrZero, Byte
<1> QED BY <1>1, <1>2

LEMMA SextetsType ==
  ASSUME NEW s \in Seq(Byte), NEW g \in Nat, NEW k \in 0 .. 3
  PROVE  Sextets(s, g)[k + 1] \in 0 .. 63
<1>1. PICK a, b, c : a = OrZero(s, g + 1) /\ b = OrZero(s, g + 2) /\ c = OrZero(s, g + 3)
  OBVIOUS
<1>2. a \in Byte /\ b \in Byte /\ c \in Byte
  BY <1>1, OrZeroType
<1>3. Sextets(s, g) = <<a \div 4, (a % 4) * 16 + b \div 16, (b % 16) * 4 + c \div 64, c % 64>>
  BY <1>1 DEF Sextets
<1>4. /\ a \div 4 \in 0 .. 63 /\ (a % 4) * 16 + b \div 16 \in 0 .. 63
      /\ (b % 16) * 4 + c \div 64 \in 0 .. 63 /\ c % 64 \in 0 .. 63
  BY <1>2 DEF Byte
<1>5. k = 0 \/ k = 1 \/ k = 2 \/ k = 3
  OBVIOUS
<1>6. CASE k = 0
  BY <1>3, <1>4, <1>6
<1>7. CASE k = 1
  BY <1>3, <1>4, <1>7
<1>8. CASE k = 2
  BY <1>3, <1>4, <1>8
<1>9. CASE k = 3
  BY <1>3, <1>4, <1>9
<1> QED BY <1>5, <1>6, <1>7, <1>8, <1>9

\* How many characters carry bytes: the rest is padding.
Carrying(n) == 4 * (n \div 3) + (IF n % 3 = 0 THEN 0 ELSE (n % 3) + 1)

\* The groups of n bytes, and the characters that stand for them.
LEMMA Groups ==
  ASSUME NEW n \in Nat
  PROVE  \E q \in Nat, r \in 0 .. 2 :
           /\ n = 3 * q + r /\ n \div 3 = q /\ n % 3 = r
           /\ 4 * ((n + 2) \div 3) = IF r = 0 THEN 4 * q ELSE 4 * q + 4
           /\ Carrying(n) = IF r = 0 THEN 4 * q ELSE 4 * q + r + 1
<1>1. PICK q \in Nat, r \in 0 .. 2 : n = 3 * q + r
  <2>1. n \div 3 \in Nat /\ n % 3 \in 0 .. 2
    OBVIOUS
  <2>2. n = 3 * (n \div 3) + (n % 3)
    OBVIOUS
  <2> QED BY <2>1, <2>2
<1>2. n \div 3 = q /\ n % 3 = r
  BY <1>1
<1>3. (n + 2) \div 3 = IF r = 0 THEN q ELSE q + 1
  BY <1>1
<1> QED BY <1>1, <1>2, <1>3 DEF Carrying

LEMMA CarryingType ==
  ASSUME NEW n \in Nat
  PROVE  Carrying(n) \in Nat /\ Carrying(n) <= 4 * ((n + 2) \div 3)
BY DEF Carrying

\* The character at place i stands for six bits, or is the first of the padding.
LEMMA EncodedCharacter ==
  ASSUME NEW s \in Seq(Byte), NEW i \in 1 .. Carrying(Len(s))
  PROVE  /\ i \in 1 .. Len(b64_encode(s))
         /\ Sextets(s, 3 * ((i - 1) \div 4))[((i - 1) % 4) + 1] \in 0 .. 63
         /\ b64_encode(s)[i] = b64_table[Sextets(s, 3 * ((i - 1) \div 4))[((i - 1) % 4) + 1]]
<1>1. PICK n : n = Len(s)
  OBVIOUS
<1>2. PICK g, k : g = (i - 1) \div 4 /\ k = (i - 1) % 4
  OBVIOUS
<1>3. n \in Nat /\ i \in Nat /\ 1 <= i /\ i <= Carrying(n)
  BY <1>1, CarryingType
<1>4. g \in Nat /\ k \in 0 .. 3 /\ i - 1 = 4 * g + k
  BY <1>2, <1>3
<1>5. i <= 4 * ((n + 2) \div 3) /\ 3 * g + k <= n
  BY <1>3, <1>4 DEF Carrying
<1>6. Sextets(s, 3 * g)[k + 1] \in 0 .. 63
  <2>1. 3 * g \in Nat
    BY <1>4
  <2> QED BY <1>4, <2>1, SextetsType
<1>7. i \in 1 .. 4 * ((Len(s) + 2) \div 3) /\ ~(3 * g + k > Len(s))
  BY <1>1, <1>3, <1>4, <1>5
<1>8. /\ DOMAIN b64_encode(s) = 1 .. 4 * ((Len(s) + 2) \div 3)
      /\ Len(b64_encode(s)) = 4 * ((Len(s) + 2) \div 3)
  BY DEF b64_encode
<1>9. b64_encode(s)[i] = b64_table[Sextets(s, 3 * g)[k + 1]]
  BY <1>2, <1>7 DEF b64_encode
<1> QED BY <1>2, <1>6, <1>7, <1>8, <1>9

LEMMA MinIs ==
  ASSUME NEW S \in SUBSET Int, NEW x \in S, \A y \in S : x <= y
  PROVE  Min(S) = x
<1>1. Min(S) \in S /\ \A y \in S : Min(S) <= y
  BY DEF Min
<1>2. Min(S) \in Int /\ x \in Int
  BY <1>1
<1>3. Min(S) <= x /\ x <= Min(S)
  BY <1>1
<1> HIDE DEF Min
<1> QED BY <1>2, <1>3

\* Reading stops where the padding begins.
LEMMA ValidEncoded ==
  ASSUME NEW s \in Seq(Byte)
  PROVE  /\ DOMAIN Valid(b64_encode(s)) = 1 .. Carrying(Len(s))
         /\ Len(Valid(b64_encode(s))) = Carrying(Len(s))
         /\ \A i \in 1 .. Carrying(Len(s)) : Valid(b64_encode(s))[i] = b64_encode(s)[i]
<1> DEFINE table == {b64_table[v] : v \in 0 .. 63}
<1>0. PICK e : e = b64_encode(s)
  OBVIOUS
<1>1. PICK n \in Nat, c \in Nat : e = b64_encode(s) /\ n = Len(s) /\ c = Carrying(n)
  BY <1>0, CarryingType
<1>2. c <= Len(e) /\ Len(e) \in Nat /\ DOMAIN e = 1 .. Len(e)
  <2>1. DOMAIN e = 1 .. 4 * ((n + 2) \div 3) /\ Len(e) = 4 * ((n + 2) \div 3)
    BY <1>1 DEF b64_encode
  <2> QED BY <1>1, <2>1, CarryingType
<1>3. \A i \in 1 .. c : e[i] \in table
  BY <1>1, EncodedCharacter
<1>4. CASE c = Len(e)
  <2>1. {i \in DOMAIN e : e[i] \notin table} = {}
    BY <1>2, <1>3, <1>4
  <2>2. Valid(e) = e
    BY <2>1 DEF Valid
  <2> QED BY <1>1, <1>2, <1>4, <2>2
<1>5. CASE c < Len(e)
  <2>1. PICK g, k : g = c \div 4 /\ k = c % 4
    OBVIOUS
  <2>2. g \in Nat /\ k \in 0 .. 3 /\ 3 * g + k > n
    <3>1. PICK q \in Nat, r \in 0 .. 2 :
            /\ n = 3 * q + r
            /\ 4 * ((n + 2) \div 3) = IF r = 0 THEN 4 * q ELSE 4 * q + 4
            /\ c = IF r = 0 THEN 4 * q ELSE 4 * q + r + 1
      BY <1>1, <1>2, Groups
    <3>2. Len(e) = 4 * ((n + 2) \div 3)
      BY <1>1, <1>2 DEF b64_encode
    <3>3. r # 0 /\ c = 4 * q + r + 1
      BY <1>5, <3>1, <3>2
    <3>4. g = q /\ k = r + 1
      BY <2>1, <3>3
    <3> QED BY <3>1, <3>3, <3>4
  <2>3. e[c + 1] = PAD
    <3>1. c + 1 \in 1 .. 4 * ((n + 2) \div 3) /\ (c + 1) - 1 = c
      BY <1>1, <1>2, <1>5 DEF b64_encode
    <3> QED BY <1>1, <2>1, <2>2, <3>1 DEF b64_encode
  <2>4. e[c + 1] \notin table
    BY <2>3, TableType
  <2> DEFINE bad == {i \in DOMAIN e : e[i] \notin table}
  <2>5. bad \subseteq Int /\ c + 1 \in bad
    <3>1. c + 1 \in DOMAIN e /\ DOMAIN e \subseteq Int
      BY <1>2, <1>5
    <3> HIDE DEF table
    <3> QED BY <2>4, <3>1
  <2>8. ASSUME NEW i \in bad PROVE c + 1 <= i
    <3>1. i \in Nat /\ i >= 1 /\ i \notin 1 .. c
      <4> HIDE DEF table
      <4> QED BY <1>2, <1>3
    <3> QED BY <1>2, <3>1
  <2>6. Min(bad) = c + 1 /\ bad # {}
    <3> HIDE DEF bad
    <3>1. bad \in SUBSET Int /\ \A i \in bad : c + 1 <= i
      BY <2>5, <2>8, Zenon
    <3> QED BY <2>5, <3>1, MinIs, Zenon
  <2>7. Valid(e) = SubSeq(e, 1, c)
    <3>1. (c + 1) - 1 = c
      BY <1>2
    <3> QED BY <2>6, <3>1, Zenon DEF Valid
  <2> QED BY <1>1, <1>2, <2>7
<1> QED BY <1>1, <1>2, <1>4, <1>5

\* b64_decode_ex undoes b64_encode, for bytes of any number.
LEMMA Base64RoundTrip ==
  ASSUME NEW s \in Seq(Byte)
  PROVE  b64_decode_ex(b64_encode(s)) = s
<1> DEFINE chars == Valid(b64_encode(s))
           six(i) == Sextets(s, 3 * ((i - 1) \div 4))[((i - 1) % 4) + 1]
           v == [i \in DOMAIN chars |-> CHOOSE x \in 0 .. 63 : b64_table[x] = chars[i]]
           n == Len(s)
           c == Carrying(n)
<1>1. n \in Nat /\ c \in Nat
  BY CarryingType
<1>2. DOMAIN chars = 1 .. c /\ Len(chars) = c
  BY ValidEncoded
<1>3. ASSUME NEW i \in 1 .. c PROVE v[i] = six(i) /\ six(i) \in 0 .. 63
  <2>1. chars[i] = b64_table[six(i)] /\ six(i) \in 0 .. 63
    BY ValidEncoded, EncodedCharacter
  <2>2. v[i] = CHOOSE x \in 0 .. 63 : b64_table[x] = chars[i]
    BY <1>2
  <2> HIDE DEF six, chars, v
  <2> QED BY <2>1, <2>2, TableInverse
<1>4. 3 * (c \div 4) + (IF c % 4 > 0 THEN (c % 4) - 1 ELSE 0) = n
  <2>1. PICK q \in Nat, r \in 0 .. 2 :
          n = 3 * q + r /\ c = IF r = 0 THEN 4 * q ELSE 4 * q + r + 1
    BY <1>1, Groups
  <2> HIDE DEF n, c
  <2>2. c \div 4 = q /\ c % 4 = IF r = 0 THEN 0 ELSE r + 1
    BY <2>1
  <2> QED BY <2>1, <2>2
<1>5. b64_decode_ex(b64_encode(s)) = [j \in 1 .. n |-> Octets(v, 4 * ((j - 1) \div 3))[((j - 1) % 3) + 1]]
  BY <1>2, <1>4 DEF b64_decode_ex
<1>6. ASSUME NEW j \in 1 .. n
      PROVE Octets(v, 4 * ((j - 1) \div 3))[((j - 1) % 3) + 1] = s[j]
  <2>1. PICK g \in Nat, k \in 0 .. 2 : g = (j - 1) \div 3 /\ k = (j - 1) % 3 /\ j = 3 * g + k + 1
    <3>1. j - 1 \in Nat
      OBVIOUS
    <3>2. (j - 1) \div 3 \in Nat /\ (j - 1) % 3 \in 0 .. 2
      BY <3>1
    <3>3. j - 1 = 3 * ((j - 1) \div 3) + ((j - 1) % 3)
      BY <3>1
    <3> QED BY <3>1, <3>2, <3>3
  <2>2. PICK x \in Byte, y \in Byte, z \in Byte :
          x = OrZero(s, 3 * g + 1) /\ y = OrZero(s, 3 * g + 2) /\ z = OrZero(s, 3 * g + 3)
    BY OrZeroType
  <2>3. Sextets(s, 3 * g) = <<x \div 4, (x % 4) * 16 + y \div 16, (y % 16) * 4 + z \div 64, z % 64>>
    BY <2>2 DEF Sextets
  <2>4. ASSUME NEW m \in 0 .. 3, 4 * g + m + 1 <= c
        PROVE  OrZero(v, 4 * g + m + 1) = Sextets(s, 3 * g)[m + 1]
    <3>1. 4 * g + m + 1 \in 1 .. c
      BY <1>1, <2>4
    <3>2. ((4 * g + m + 1) - 1) \div 4 = g /\ ((4 * g + m + 1) - 1) % 4 = m
      OBVIOUS
    <3>3. six(4 * g + m + 1) = Sextets(s, 3 * g)[m + 1]
      BY <3>2
    <3>4. 4 * g + m + 1 \in DOMAIN v
      BY <1>2, <3>1
    <3> HIDE DEF six, v, c
    <3> QED BY <1>3, <3>1, <3>3, <3>4 DEF OrZero
  <2>5. \E q \in Nat, r \in 0 .. 2 : n = 3 * q + r /\ c = IF r = 0 THEN 4 * q ELSE 4 * q + r + 1
    BY <1>1, Groups
  <2>6. 4 * g + k + 2 <= c
    <3> HIDE DEF n, c
    <3> QED BY <1>1, <2>1, <2>5
  <2> HIDE DEF v, c, n
  <2>7. s[j] = OrZero(s, j)
    BY DEF OrZero, n
  <2>8. CASE k = 0
    <3>1. /\ OrZero(v, 4 * g + 1) = x \div 4
          /\ OrZero(v, 4 * g + 2) = (x % 4) * 16 + y \div 16
      BY <1>1, <2>3, <2>4, <2>6, <2>8
    <3>2. Octets(v, 4 * g)[1] = ((x \div 4) * 4 + ((x % 4) * 16 + y \div 16) \div 16) % 256
      BY <3>1 DEF Octets
    <3>3. s[j] = x
      BY <2>1, <2>2, <2>7, <2>8
    <3> QED BY <2>1, <2>8, <3>2, <3>3, FirstByte
  <2>9. CASE k = 1
    <3>1. /\ OrZero(v, 4 * g + 2) = (x % 4) * 16 + y \div 16
          /\ OrZero(v, 4 * g + 3) = (y % 16) * 4 + z \div 64
      BY <1>1, <2>3, <2>4, <2>6, <2>9
    <3>2. Octets(v, 4 * g)[2] = ((((x % 4) * 16 + y \div 16) % 16) * 16 + ((y % 16) * 4 + z \div 64) \div 4) % 256
      BY <3>1 DEF Octets
    <3>3. s[j] = y
      BY <2>1, <2>2, <2>7, <2>9
    <3> QED BY <2>1, <2>9, <3>2, <3>3, SecondByte
  <2>10. CASE k = 2
    <3>1. /\ OrZero(v, 4 * g + 3) = (y % 16) * 4 + z \div 64
          /\ OrZero(v, 4 * g + 4) = z % 64
      BY <1>1, <2>3, <2>4, <2>6, <2>10
    <3>2. Octets(v, 4 * g)[3] = ((((y % 16) * 4 + z \div 64) % 4) * 64 + (z % 64)) % 256
      BY <3>1 DEF Octets
    <3>3. s[j] = z
      BY <2>1, <2>2, <2>7, <2>10
    <3> QED BY <2>1, <2>10, <3>2, <3>3, ThirdByte
  <2> QED BY <2>1, <2>8, <2>9, <2>10
<1> QED BY <1>1, <1>5, <1>6

-----------------------------------------------------------------------------
(* The envelope                                                            *)

Vector == [1 .. IV_LEN -> Byte]

LEMMA EncodedType ==
  ASSUME NEW s \in Seq(Byte)
  PROVE  /\ b64_encode(s) \in Seq(Nat) /\ Len(b64_encode(s)) >= Len(s)
         /\ \A j \in DOMAIN b64_encode(s) : ~(b64_encode(s)[j] > 127)
<1>1. PICK n \in Nat : n = Len(s)
  OBVIOUS
<1>2. 4 * ((n + 2) \div 3) \in Nat /\ 4 * ((n + 2) \div 3) >= n
  OBVIOUS
<1>3. ASSUME NEW j \in 1 .. 4 * ((n + 2) \div 3)
      PROVE  b64_encode(s)[j] \in Nat /\ ~(b64_encode(s)[j] > 127)
  <2>1. PICK g \in Nat, k \in 0 .. 3 : g = (j - 1) \div 4 /\ k = (j - 1) % 4
    <3>1. j - 1 \in Nat
      OBVIOUS
    <3> QED BY <3>1
  <2>2. Sextets(s, 3 * g)[k + 1] \in 0 .. 63
    <3>1. 3 * g \in Nat
      OBVIOUS
    <3> QED BY <3>1, SextetsType
  <2>3. /\ PAD \in Nat /\ b64_table[Sextets(s, 3 * g)[k + 1]] \in Nat
        /\ ~(PAD > 127) /\ ~(b64_table[Sextets(s, 3 * g)[k + 1]] > 127)
    <3>1. PICK v \in 0 .. 63 : v = Sextets(s, 3 * g)[k + 1]
      BY <2>2
    <3>2. b64_table[v] \in Nat /\ b64_table[v] <= 127
      BY TableType
    <3> QED BY <3>1, <3>2 DEF PAD
  <2>4. b64_encode(s)[j] = IF 3 * g + k > Len(s) THEN PAD ELSE b64_table[Sextets(s, 3 * g)[k + 1]]
    BY <1>1, <2>1 DEF b64_encode
  <2> QED BY <2>3, <2>4
<1>4. DOMAIN b64_encode(s) = 1 .. 4 * ((n + 2) \div 3) /\ Len(b64_encode(s)) = 4 * ((n + 2) \div 3)
  BY <1>1, <1>2 DEF b64_encode
<1>5. b64_encode(s) = [j \in 1 .. 4 * ((n + 2) \div 3) |-> b64_encode(s)[j]]
  BY <1>1 DEF b64_encode
<1> QED BY <1>1, <1>2, <1>3, <1>4, <1>5

\* The cipher keeps the length and is undone with the same vector.
LEMMA CipherRoundTrip ==
  ASSUME NEW text \in Seq(Byte), NEW iv \in Vector
  PROVE  /\ Encipher(iv, text) \in Seq(Byte)
         /\ Len(Encipher(iv, text)) = Len(text)
         /\ Decipher(iv, Encipher(iv, text)) = text
<1>1. ASSUME NEW i \in DOMAIN text
      PROVE  /\ Encipher(iv, text)[i] \in Byte
             /\ (Encipher(iv, text)[i] + 512 - KEY - iv[((i - 1) % IV_LEN) + 1]) % 256 = text[i]
  <2>1. ((i - 1) % IV_LEN) + 1 \in 1 .. IV_LEN
    <3>1. PICK k \in Nat : k = i - 1
      OBVIOUS
    <3>2. (k % 16) + 1 \in 1 .. 16
      OBVIOUS
    <3>3. IV_LEN = 16
      BY DEF IV_LEN
    <3> QED BY <3>1, <3>2, <3>3, Zenon
  <2>2. PICK t \in Byte, v \in Byte : t = text[i] /\ v = iv[((i - 1) % IV_LEN) + 1]
    BY <2>1 DEF Vector
  <2>3. Encipher(iv, text)[i] = (t + KEY + v) % 256
    BY <2>2 DEF Encipher
  <2>4. (((t + KEY + v) % 256) + 512 - KEY - v) % 256 = t /\ (t + KEY + v) % 256 \in Byte
    BY EnvelopeAssumption DEF Byte
  <2> QED BY <2>2, <2>3, <2>4
<1>2. DOMAIN Encipher(iv, text) = DOMAIN text /\ Len(text) \in Nat /\ DOMAIN text = 1 .. Len(text)
  BY DEF Encipher
<1>3. Encipher(iv, text) \in [1 .. Len(text) -> Byte]
  BY <1>1, <1>2 DEF Encipher
<1>4. Encipher(iv, text) \in Seq(Byte) /\ Len(Encipher(iv, text)) = Len(text)
  BY <1>2, <1>3
<1>5. Decipher(iv, Encipher(iv, text)) =
        [i \in DOMAIN text |-> (Encipher(iv, text)[i] + 512 - KEY - iv[((i - 1) % IV_LEN) + 1]) % 256]
  BY <1>2 DEF Decipher
<1>6. Decipher(iv, Encipher(iv, text)) = [i \in DOMAIN text |-> text[i]]
  BY <1>1, <1>5
<1> QED BY <1>4, <1>6

\* The padding says how long it is, and fills the last block.
LEMMA PaddedText ==
  ASSUME NEW text \in Seq(Byte)
  PROVE  \E p \in 1 .. 16 :
           /\ Padded(text) \in Seq(Byte) /\ Len(Padded(text)) = Len(text) + p
           /\ Padded(text)[Len(text) + p] = p
           /\ \A i \in 1 .. Len(text) : Padded(text)[i] = text[i]
<1>1. PICK p \in 1 .. 16 : p = BLOCK - (Len(text) % BLOCK)
  BY DEF BLOCK
<1>2. PICK fill : fill = [i \in 1 .. p |-> p]
  OBVIOUS
<1>3. fill \in Seq(Byte) /\ Len(fill) = p
  BY <1>2 DEF Byte
<1>4. Padded(text) = text \o fill
  BY <1>1, <1>2 DEF Padded
<1>5. text \o fill \in Seq(Byte) /\ Len(text \o fill) = Len(text) + p
  BY <1>3
<1>6. (text \o fill)[Len(text) + p] = p
  BY <1>2, <1>3
<1>7. \A i \in 1 .. Len(text) : (text \o fill)[i] = text[i]
  BY <1>3
<1> QED BY <1>4, <1>5, <1>6, <1>7

\* What is encrypted in either header format is longer than the text, and gives back
\* the text, whatever its bytes, when it is decrypted.
THEOREM EnvelopeRoundTrip ==
  ASSUME NEW format \in {"J", "D"}, NEW text \in Seq(Byte), text # <<>>, NEW iv \in Vector
  PROVE  /\ encrypt_to_string(format, text, iv) \in Seq(Nat)
         /\ Len(encrypt_to_string(format, text, iv)) > Len(text)
         /\ decrypt(format, encrypt_to_string(format, text, iv)) = text
         /\ format = "J" => encrypt_to_string(format, text, iv) \notin NotUtf8
<1>0. PICK n \in Nat : n = Len(text)
  OBVIOUS
<1>1. PICK p \in 1 .. 16 :
        /\ n = Len(text)
        /\ Padded(text) \in Seq(Byte) /\ Len(Padded(text)) = n + p
        /\ Padded(text)[n + p] = p
        /\ \A i \in 1 .. n : Padded(text)[i] = text[i]
  BY <1>0, PaddedText
<1>2. n > 0
  BY <1>1
<1>3. PICK body : /\ body = Encipher(iv, Padded(text))
                  /\ body \in Seq(Byte) /\ Len(body) = n + p
                  /\ Decipher(iv, body) = Padded(text)
  BY <1>1, CipherRoundTrip
<1>4. iv \in Seq(Byte) /\ Len(iv) = 16
  <2>1. iv \in [1 .. 16 -> Byte]
    BY DEF Vector, IV_LEN
  <2>2. iv \in UNION {[1 .. m -> Byte] : m \in Nat}
    BY <2>1
  <2>3. iv \in Seq(Byte)
    BY <2>2, SeqDef
  <2> QED BY <2>1, <2>3, LenProperties
<1>5. PICK data \in Seq(Byte) : data = iv \o body
  BY <1>3, <1>4, ConcatProperties
<1>6. /\ Len(data) = 16 + (n + p) /\ n + p \in Nat
      /\ \A i \in 1 .. 16 + (n + p) : data[i] = IF i <= 16 THEN iv[i] ELSE body[i - 16]
  <2>1. /\ Len(data) = Len(iv) + Len(body)
        /\ \A i \in 1 .. Len(iv) + Len(body) :
             data[i] = IF i <= Len(iv) THEN iv[i] ELSE body[i - Len(iv)]
    <3>1. iv \in Seq(Byte) /\ body \in Seq(Byte) /\ data = iv \o body
      BY <1>3, <1>4, <1>5
    <3> QED BY <3>1, ConcatProperties, Zenon
  <2>2. n + p \in Nat
    OBVIOUS
  <2> QED BY <1>3, <1>4, <2>1, <2>2
<1>7. SubSeq(data, 1, IV_LEN) = iv
  <2>1. \A i \in 1 .. 16 : data[i] = iv[i]
    BY <1>6
  <2>2. SubSeq(data, 1, 16) = [i \in 1 .. 16 |-> data[i]]
    BY <1>6
  <2>3. iv = [i \in 1 .. 16 |-> iv[i]]
    BY <1>4
  <2> QED BY <2>1, <2>2, <2>3 DEF IV_LEN
<1>8. SubSeq(data, IV_LEN + 1, Len(data)) = body
  BY <1>3, <1>4, <1>5, <1>6, SMTT(30) DEF IV_LEN
<1>9. SubSeq(Padded(text), 1, (n + p) - p) = text
  BY <1>1
<1>10. encrypt_to_string(format, text, iv) = IF format = "J" THEN b64_encode(data) ELSE data
  BY <1>3, <1>5 DEF encrypt_to_string
<1>11. /\ data \in Seq(Nat) /\ b64_encode(data) \in Seq(Nat)
       /\ Len(b64_encode(data)) >= Len(data)
       /\ \A j \in DOMAIN b64_encode(data) : ~(b64_encode(data)[j] > 127)
  <2>1. Byte \subseteq Nat
    BY DEF Byte
  <2> QED BY <2>1, EncodedType, SeqMonotonic
<1>12. (IF format = "J" THEN b64_decode_ex(encrypt_to_string(format, text, iv))
                        ELSE encrypt_to_string(format, text, iv)) = data
  BY <1>10, Base64RoundTrip
<1>13. decrypt(format, encrypt_to_string(format, text, iv)) =
         IF \/ Len(data) <= IV_LEN \/ p \notin 1 .. 16 \/ (n + p) - p < 1
         THEN <<>> ELSE SubSeq(Padded(text), 1, (n + p) - p)
  BY <1>1, <1>3, <1>7, <1>8, <1>12 DEF decrypt
<1>14. Len(data) > Len(text) /\ (n + p) - p = n /\ ~(Len(data) <= IV_LEN)
  BY <1>0, <1>2, <1>6 DEF IV_LEN
<1>15. decrypt(format, encrypt_to_string(format, text, iv)) = text
  BY <1>2, <1>9, <1>13, <1>14
<1>16. Len(encrypt_to_string(format, text, iv)) > Len(text)
  <2>1. Len(data) \in Nat /\ Len(b64_encode(data)) \in Nat /\ Len(text) \in Nat
    BY <1>11
  <2>2. Len(b64_encode(data)) > Len(text)
    BY <1>11, <1>14, <2>1
  <2> QED BY <1>10, <1>14, <2>2
<1>17. encrypt_to_string(format, text, iv) \in Seq(Nat)
  BY <1>10, <1>11
<1>18. format = "J" => encrypt_to_string(format, text, iv) \notin NotUtf8
  BY <1>10, <1>11, ConvertersAssumption
<1> QED BY <1>15, <1>16, <1>17, <1>18
-----------------------------------------------------------------------------
(* Recursion over the natural numbers: the least-number principle, and a   *)
(* function whose value at n comes from its value at down[n] below n.      *)

\* Every non-empty set of natural numbers has a least element.
LEMMA LeastNumber ==
  ASSUME NEW T \in SUBSET Nat, T # {}
  PROVE  \E x \in T : \A y \in T : x <= y
<1> DEFINE F == {1..n : n \in T}
<1>1. F \subseteq FiniteSubsetsOf(Nat) /\ F # {}
  <2>1. ASSUME NEW n \in T PROVE IsFiniteSet(1..n) /\ 1..n \in SUBSET Nat
    BY FS_Interval
  <2> QED BY <2>1 DEF FiniteSubsetsOf
<1>2. \E s \in F : \A t \in F : <<t, s>> \notin StrictSubsetOrdering(Nat)
  BY <1>1, FS_StrictSubsetOrderingWellFounded, WFMin
<1>3. PICK x \in T : \A y \in T : <<1..y, 1..x>> \notin StrictSubsetOrdering(Nat)
  BY <1>2
<1>4. ASSUME NEW y \in T, y < x PROVE FALSE
  <2>1. 1..y \in SUBSET Nat /\ 1..x \in SUBSET Nat /\ 1..y \subseteq 1..x
    BY <1>4
  <2>2. x \in 1..x /\ x \notin 1..y
    BY <1>4
  <2>3. <<1..y, 1..x>> \in StrictSubsetOrdering(Nat)
    BY <2>1, <2>2 DEF StrictSubsetOrdering
  <2> QED BY <1>3, <2>3
<1> QED BY <1>4

Descends(down, stop) == \A n \in Nat : n \notin stop => down[n] < n
Follows(f, stop, base, step, down) ==
  \A n \in Nat : f[n] = IF n \in stop THEN base[n] ELSE step[<<f[down[n]], n>>]

LEMMA RecursiveFunction ==
  ASSUME NEW S, NEW stop, NEW base, NEW step, NEW down,
         base \in [Nat -> S], step \in [S \X Nat -> S], down \in [Nat -> Nat],
         Descends(down, stop)
  PROVE  \E f \in [Nat -> S] : Follows(f, stop, base, step, down)
<1> USE DEF Descends
<1> DEFINE Val(f, n) == IF n \in stop THEN base[n] ELSE step[<<f[down[n]], n>>]
           UpTo(n) == {f \in [0 .. n -> S] : \A k \in 0 .. n : f[k] = Val(f, k)}
<1>1. ASSUME NEW n \in Nat PROVE UpTo(n) # {}
  <2> DEFINE T == {k \in Nat : UpTo(k) = {}}
  <2>1. CASE T = {}
    BY <2>1
  <2>2. CASE T # {}
    <3>1. PICK x \in T : \A y \in T : x <= y
      <4>1. T \in SUBSET Nat
        OBVIOUS
      <4> HIDE DEF T
      <4> QED BY <2>2, <4>1, LeastNumber
    <3>0. x \in Nat /\ UpTo(x) = {} /\ \A y \in Nat : y < x => UpTo(y) # {}
      <4> HIDE DEF UpTo
      <4>1. x \in Nat /\ UpTo(x) = {}
        BY <3>1
      <4>2. ASSUME NEW y \in Nat, y < x, UpTo(y) = {} PROVE FALSE
        <5>1. y \in T
          BY <4>2
        <5>2. x <= y
          BY <3>1, <5>1
        <5> QED BY <4>1, <4>2, <5>2
      <4> QED BY <4>1, <4>2
    <3>2. CASE x = 0
      <4>1. 0 \in stop
        BY <3>2
      <4> DEFINE f == [k \in 0 .. 0 |-> base[0]]
      <4>2. f \in [0 .. 0 -> S]
        OBVIOUS
      <4>3. \A k \in 0 .. 0 : f[k] = Val(f, k)
        BY <4>1
      <4>4. f \in UpTo(0)
        BY <4>2, <4>3
      <4> HIDE DEF UpTo
      <4> QED BY <3>0, <3>2, <4>4
    <3>3. CASE x > 0
      <4>1. x - 1 \in Nat /\ UpTo(x - 1) # {}
        <5>1. x - 1 \in Nat /\ x - 1 < x
          BY <3>0, <3>3
        <5> HIDE DEF UpTo, T
        <5> QED BY <3>0, <5>1
      <4>2. PICK g : g \in UpTo(x - 1)
        BY <4>1
      <4>3. PICK f : f = [k \in 0 .. x |-> IF k < x THEN g[k] ELSE Val(g, x)]
        OBVIOUS
      <4>4. ASSUME NEW k \in 0 .. x
            PROVE  /\ Val(g, k) \in S /\ f[k] = Val(g, k)
                   /\ Val(f, k) = Val(g, k)
        <5>1. k \notin stop => down[k] \in 0 .. x - 1 /\ down[k] < x
          BY <3>1
        <5>2. k \notin stop => g[down[k]] \in S /\ f[down[k]] = g[down[k]]
          <6>1. SUFFICES ASSUME k \notin stop PROVE g[down[k]] \in S /\ f[down[k]] = g[down[k]]
            OBVIOUS
          <6>2. down[k] \in 0 .. x - 1 /\ down[k] \in 0 .. x /\ down[k] < x
            BY <3>0, <5>1, <6>1
          <6>3. g \in [0 .. x - 1 -> S]
            BY <4>2
          <6> HIDE DEF Val
          <6> QED BY <4>3, <6>2, <6>3
        <5>3. Val(g, k) \in S
          <6>1. CASE k \in stop
            BY <3>0, <6>1
          <6>2. CASE k \notin stop
            <7>1. k \in Nat /\ g[down[k]] \in S
              BY <3>0, <5>2, <6>2
            <7>2. step[<<g[down[k]], k>>] \in S
              BY <7>1
            <7> QED BY <6>2, <7>2
          <6> QED BY <6>1, <6>2
        <5>4. Val(f, k) = Val(g, k)
          <6>1. CASE k \in stop
            BY <6>1
          <6>2. CASE k \notin stop
            BY <5>2, <6>2
          <6> QED BY <6>1, <6>2
        <5>5. f[k] = Val(g, k)
          <6>1. CASE k < x
            <7>1. k \in 0 .. x - 1
              BY <3>1, <6>1
            <7> QED BY <4>2, <4>3, <6>1, <7>1
          <6>2. CASE ~(k < x)
            <7>1. k = x
              BY <3>1, <6>2
            <7> HIDE DEF Val
            <7> QED BY <4>3, <6>2, <7>1
          <6> QED BY <6>1, <6>2
        <5> QED BY <5>3, <5>4, <5>5
      <4>5. f \in UpTo(x)
        <5> HIDE DEF Val
        <5> QED BY <4>3, <4>4
      <4> HIDE DEF UpTo
      <4> QED BY <3>0, <4>5
    <3>4. x = 0 \/ x > 0
      BY <3>0
    <3> HIDE DEF UpTo, T
    <3> QED BY <3>2, <3>3, <3>4
  <2> QED BY <2>1, <2>2
<1>2. ASSUME NEW n \in Nat, NEW m \in Nat, NEW f \in UpTo(n), NEW g \in UpTo(m),
             NEW k \in Nat, k <= n, k <= m
      PROVE  f[k] = g[k]
  <2> DEFINE T == {j \in Nat : j <= n /\ j <= m /\ f[j] # g[j]}
  <2>1. CASE T = {}
    BY <1>2, <2>1
  <2>2. CASE T # {}
    <3>1. PICK x \in T : \A y \in T : x <= y
      <4>1. T \in SUBSET Nat
        OBVIOUS
      <4> HIDE DEF T
      <4> QED BY <2>2, <4>1, LeastNumber
    <3>1a. x \in 0 .. n /\ x \in 0 .. m /\ f[x] # g[x]
      BY <3>1
    <3>2. f[x] = Val(f, x) /\ g[x] = Val(g, x) /\ f[x] # g[x]
      <4> HIDE DEF Val, T
      <4> QED BY <3>1a
    <3>3. x \notin stop
      BY <3>2
    <3>4. down[x] \in Nat /\ down[x] < x
      BY <3>1, <3>3
    <3>5. f[down[x]] = g[down[x]]
      BY <3>1, <3>4
    <3> QED BY <3>2, <3>5
  <2> QED BY <2>1, <2>2
<1>3. PICK F : F = [n \in Nat |-> CHOOSE f \in UpTo(n) : TRUE]
  OBVIOUS
<1>4. ASSUME NEW n \in Nat PROVE F[n] \in UpTo(n)
  <2> HIDE DEF UpTo
  <2> QED BY <1>1, <1>3
<1>5. PICK h : h = [n \in Nat |-> F[n][n]]
  OBVIOUS
<1>6. ASSUME NEW n \in Nat PROVE h[n] \in S /\ h[n] = Val(h, n)
  <2>1. F[n] \in [0 .. n -> S] /\ F[n][n] = Val(F[n], n) /\ n \in 0 .. n
    <3>1. PICK f : f = F[n] /\ f \in UpTo(n)
      BY <1>4
    <3>2. n \in 0 .. n
      OBVIOUS
    <3>3. f \in [0 .. n -> S] /\ f[n] = Val(f, n)
      <4> HIDE DEF Val
      <4> QED BY <3>1, <3>2
    <3> HIDE DEF Val
    <3> QED BY <3>1, <3>2, <3>3
  <2>2. n \notin stop => F[n][down[n]] = h[down[n]]
    <3>1. SUFFICES ASSUME n \notin stop PROVE F[n][down[n]] = F[down[n]][down[n]]
      BY <1>5
    <3>2. down[n] \in Nat /\ down[n] <= n /\ down[n] <= down[n]
      BY <3>1
    <3> HIDE DEF UpTo
    <3> QED BY <1>2, <1>4, <3>2
  <2> QED BY <1>5, <2>1, <2>2
<1>7. h \in [Nat -> S]
  BY <1>5, <1>6
<1> QED BY <1>6, <1>7 DEF Follows
-----------------------------------------------------------------------------
(* Numbers in decimal                                                      *)

Decimal == 48 .. 57

\* Digits is the function its definition describes.
LEMMA DigitsDef ==
  \A n \in Nat : Digits[n] = IF n < 10 THEN <<48 + n>> ELSE Append(Digits[n \div 10], 48 + (n % 10))
<1> DEFINE S == Seq(Decimal)
           base == [n \in Nat |-> IF n < 10 THEN <<48 + n>> ELSE <<>>]
           step == [p \in S \X Nat |-> Append(p[1], 48 + (p[2] % 10))]
           down == [n \in Nat |-> n \div 10]
           eq(f) == [n \in Nat |-> IF n < 10 THEN <<48 + n>> ELSE Append(f[n \div 10], 48 + (n % 10))]
<1>1. base \in [Nat -> S]
  <2>1. ASSUME NEW n \in Nat PROVE (IF n < 10 THEN <<48 + n>> ELSE <<>>) \in S
    <3>1. CASE n < 10
      <4>1. 48 + n \in Decimal
        BY <3>1 DEF Decimal
      <4> QED BY <3>1, <4>1
    <3>2. CASE ~(n < 10)
      BY <3>2
    <3> QED BY <3>1, <3>2
  <2> QED BY <2>1
<1>2. step \in [S \X Nat -> S]
  <2>1. ASSUME NEW s \in S, NEW n \in Nat PROVE Append(s, 48 + (n % 10)) \in S
    <3>1. 48 + (n % 10) \in Decimal
      BY DEF Decimal
    <3> QED BY <3>1
  <2> HIDE DEF S
  <2> QED BY <2>1
<1>3. down \in [Nat -> Nat] /\ \A n \in Nat \ (0 .. 9) : down[n] < n
  OBVIOUS
<1>4. PICK f \in [Nat -> S] :
        \A n \in Nat : f[n] = IF n \in 0 .. 9 THEN base[n] ELSE step[<<f[down[n]], n>>]
  <2>1. PICK stop : stop = 0 .. 9
    OBVIOUS
  <2>2. Descends(down, stop)
    BY <1>3, <2>1 DEF Descends
  <2>3. down \in [Nat -> Nat]
    BY <1>3
  <2> HIDE DEF S, base, step, down
  <2>4. \E f \in [Nat -> S] : Follows(f, stop, base, step, down)
    BY <1>1, <1>2, <2>2, <2>3, RecursiveFunction
  <2> QED BY <2>1, <2>4 DEF Follows
<1>5. ASSUME NEW n \in Nat
      PROVE  f[n] = IF n < 10 THEN <<48 + n>> ELSE Append(f[n \div 10], 48 + (n % 10))
  <2>1. CASE n < 10
    <3>1. f[n] = base[n]
      <4>1. n \in 0 .. 9
        BY <2>1
      <4> HIDE DEF base, step, S
      <4> QED BY <1>4, <4>1
    <3> QED BY <2>1, <3>1
  <2>2. CASE ~(n < 10)
    <3>1. f[n] = step[<<f[down[n]], n>>] /\ down[n] = n \div 10 /\ n \div 10 \in Nat
      <4>1. n \notin 0 .. 9 /\ n \div 10 \in Nat
        BY <2>2
      <4>2. down[n] = n \div 10
        OBVIOUS
      <4> HIDE DEF step, base, S, down
      <4> QED BY <1>4, <4>1, <4>2
    <3>2. f[n \div 10] \in S
      <4> HIDE DEF S
      <4> QED BY <3>1
    <3>3. step[<<f[n \div 10], n>>] = Append(f[n \div 10], 48 + (n % 10))
      <4> HIDE DEF S
      <4> QED BY <3>2
    <3> QED BY <2>2, <3>1, <3>3
  <2> QED BY <2>1, <2>2
<1>6. f = eq(f)
  BY <1>5
<1>7. Digits = eq(Digits)
  <2>1. Digits = CHOOSE g : g = eq(g)
    BY Zenon DEF Digits
  <2> HIDE DEF eq
  <2> QED BY <1>6, <2>1
<1> QED BY <1>7, Zenon

LEMMA DigitsType ==
  ASSUME NEW n \in Nat
  PROVE  Digits[n] \in Seq(Decimal)
<1> DEFINE T == {k \in Nat : Digits[k] \notin Seq(Decimal)}
<1>1. CASE T = {}
  BY <1>1
<1>2. CASE T # {}
  <2>1. PICK x \in T : \A y \in T : x <= y
    <3>1. T \in SUBSET Nat
      OBVIOUS
    <3> HIDE DEF T
    <3> QED BY <1>2, <3>1, LeastNumber
  <2>2. CASE x < 10
    <3>1. x \in Nat /\ Digits[x] \notin Seq(Decimal)
      BY <2>1
    <3>2. Digits[x] = <<48 + x>>
      BY <2>2, <3>1, DigitsDef
    <3>3. 48 + x \in Decimal
      BY <2>2, <3>1 DEF Decimal
    <3>4. <<48 + x>> \in Seq(Decimal)
      BY <3>3
    <3> QED BY <3>1, <3>2, <3>4
  <2>3. CASE ~(x < 10)
    <3>1. x \div 10 \in Nat /\ x \div 10 < x /\ 48 + (x % 10) \in Decimal
      BY <2>3 DEF Decimal
    <3>2. Digits[x \div 10] \in Seq(Decimal)
      BY <2>1, <3>1
    <3>3. Digits[x] = Append(Digits[x \div 10], 48 + (x % 10))
      BY <2>3, DigitsDef
    <3>4. Digits[x] \in Seq(Decimal)
      BY <3>1, <3>2, <3>3
    <3> QED BY <2>1, <3>4
  <2> QED BY <2>2, <2>3
<1> QED BY <1>1, <1>2
\* The totals atoi_custom goes through.
Totals(t, text) == t[0] = 0 /\ \A k \in 1 .. Len(text) : t[k] = t[k - 1] * 10 + text[k] - 48

LEMMA NumberDef ==
  ASSUME NEW text \in Seq(Decimal)
  PROVE  \E t : Totals(t, text) /\ Number(text) = t[Len(text)]
<1> DEFINE n == Len(text)
           stop == {0}
           base == [k \in Nat |-> 0]
           step == [p \in Int \X Nat |-> p[1] * 10 + (IF p[2] \in 1 .. n THEN text[p[2]] ELSE 0) - 48]
           down == [k \in Nat |-> IF k = 0 THEN 0 ELSE k - 1]
           eq(f) == [k \in 0 .. n |-> IF k = 0 THEN 0 ELSE f[k - 1] * 10 + text[k] - 48]
<1>1. n \in Nat /\ \A k \in 1 .. n : text[k] \in Int
  BY DEF Decimal
<1>2. base \in [Nat -> Int] /\ down \in [Nat -> Nat] /\ Descends(down, stop)
  BY DEF Descends
<1>3. step \in [Int \X Nat -> Int]
  <2>1. ASSUME NEW p \in Int \X Nat
        PROVE  p[1] * 10 + (IF p[2] \in 1 .. n THEN text[p[2]] ELSE 0) - 48 \in Int
    <3>1. (IF p[2] \in 1 .. n THEN text[p[2]] ELSE 0) \in Int
      BY <1>1
    <3> QED BY <3>1
  <2> QED BY <2>1
<1>4. PICK f \in [Nat -> Int] : Follows(f, stop, base, step, down)
  <2> HIDE DEF base, step, down, stop
  <2> QED BY <1>2, <1>3, RecursiveFunction
<1>5. f[0] = 0
  BY <1>4 DEF Follows
<1>6. ASSUME NEW k \in 1 .. n PROVE f[k] = f[k - 1] * 10 + text[k] - 48
  <2>1. k \in Nat /\ k - 1 \in Nat /\ k \notin stop /\ down[k] = k - 1
    BY <1>1
  <2>2. f[k] = step[<<f[k - 1], k>>]
    <3> HIDE DEF step, base, down, stop
    <3> QED BY <1>4, <2>1 DEF Follows
  <2>3. f[k - 1] \in Int
    BY <2>1
  <2> QED BY <2>1, <2>2, <2>3
<1>7. PICK g : g = [k \in 0 .. n |-> f[k]]
  OBVIOUS
<1>8. g = eq(g)
  <2>1. ASSUME NEW k \in 0 .. n
        PROVE  f[k] = IF k = 0 THEN 0 ELSE g[k - 1] * 10 + text[k] - 48
    <3>1. CASE k = 0
      BY <1>5, <3>1
    <3>2. CASE k # 0
      <4>1. k \in 1 .. n /\ k - 1 \in 0 .. n
        BY <1>1, <3>2
      <4> HIDE DEF n
      <4> QED BY <1>6, <1>7, <3>2, <4>1
    <3> QED BY <3>1, <3>2
  <2> QED BY <1>7, <2>1
<1>9. PICK t : t = (CHOOSE u : u = eq(u))
  OBVIOUS
<1>10. t = eq(t)
  <2> HIDE DEF eq
  <2> QED BY <1>8, <1>9
<1>11. Number(text) = t[n]
  BY <1>9, Zenon DEF Number
<1>12. Totals(t, text)
  <2>1. t[0] = 0
    <3>1. 0 \in 0 .. n
      BY <1>1
    <3> QED BY <1>10, <3>1
  <2>2. ASSUME NEW k \in 1 .. n PROVE t[k] = t[k - 1] * 10 + text[k] - 48
    <3>1. k \in 0 .. n /\ k # 0
      BY <1>1
    <3> HIDE DEF n
    <3> QED BY <1>10, <3>1
  <2> QED BY <2>1, <2>2 DEF Totals
<1> QED BY <1>11, <1>12

\* Every total is an integer, and follows from the characters so far.
LEMMA TotalsAgree ==
  ASSUME NEW a \in Seq(Decimal), NEW b \in Seq(Decimal), NEW t, NEW u, Totals(t, a), Totals(u, b),
         NEW m \in Nat, m <= Len(a), m <= Len(b), \A k \in 1 .. m : a[k] = b[k]
  PROVE  t[m] = u[m] /\ t[m] \in Int
<1> DEFINE T == {k \in Nat : k <= m /\ ~(t[k] = u[k] /\ t[k] \in Int)}
<1>1. CASE T = {}
  BY <1>1
<1>2. CASE T # {}
  <2>1. PICK x \in T : \A y \in T : x <= y
    <3>1. T \in SUBSET Nat
      OBVIOUS
    <3> HIDE DEF T
    <3> QED BY <1>2, <3>1, LeastNumber
  <2>2. x \in Nat /\ x <= m /\ ~(t[x] = u[x] /\ t[x] \in Int)
    BY <2>1
  <2>3. x # 0
    BY <2>2 DEF Totals
  <2>4. x - 1 \in Nat /\ x - 1 <= m /\ x - 1 < x /\ x \in 1 .. Len(a) /\ x \in 1 .. Len(b) /\ x \in 1 .. m
    BY <2>2, <2>3
  <2>5. x - 1 \notin T
    <3> HIDE DEF T
    <3> QED BY <2>1, <2>2, <2>4
  <2>6. t[x - 1] = u[x - 1] /\ t[x - 1] \in Int
    BY <2>4, <2>5
  <2>7. a[x] = b[x] /\ a[x] \in Int
    BY <2>4 DEF Decimal
  <2>8. t[x] = t[x - 1] * 10 + a[x] - 48 /\ u[x] = u[x - 1] * 10 + b[x] - 48
    BY <2>4 DEF Totals
  <2> QED BY <2>2, <2>6, <2>7, <2>8
<1> QED BY <1>1, <1>2

LEMMA NumberAppend ==
  ASSUME NEW text \in Seq(Decimal), NEW c \in Decimal
  PROVE  /\ Number(text) \in Int
         /\ Number(Append(text, c)) = Number(text) * 10 + c - 48
<1>1. PICK n \in Nat : n = Len(text)
  OBVIOUS
<1>2. PICK more : more = Append(text, c)
  OBVIOUS
<1>3. /\ more \in Seq(Decimal) /\ Len(more) = n + 1 /\ more[n + 1] = c
      /\ \A k \in 1 .. n : text[k] = more[k]
  BY <1>1, <1>2, AppendProperties
<1>4. PICK t : Totals(t, text) /\ Number(text) = t[n]
  BY <1>1, NumberDef
<1>5. PICK u : Totals(u, more) /\ Number(more) = u[n + 1]
  BY <1>3, NumberDef
<1>6. t[n] = u[n] /\ t[n] \in Int
  <2>1. n <= Len(text) /\ n <= Len(more)
    BY <1>1, <1>3
  <2> QED BY <1>3, <1>4, <1>5, <2>1, TotalsAgree
<1>7. u[n + 1] = u[n] * 10 + c - 48
  <2>1. n + 1 \in 1 .. Len(more) /\ (n + 1) - 1 = n
    BY <1>3
  <2> QED BY <1>3, <1>5, <2>1 DEF Totals
<1> QED BY <1>2, <1>4, <1>5, <1>6, <1>7

LEMMA NumberOfOne ==
  ASSUME NEW c \in Decimal
  PROVE  Number(<<c>>) = c - 48
<1>1. PICK text : text = <<c>>
  OBVIOUS
<1>2. text \in Seq(Decimal) /\ Len(text) = 1 /\ text[1] = c
  BY <1>1
<1>3. PICK t : Totals(t, text) /\ Number(text) = t[1]
  BY <1>2, NumberDef
<1>4. t[1] = t[0] * 10 + c - 48 /\ t[0] = 0
  <2>1. 1 \in 1 .. Len(text) /\ 1 - 1 = 0
    BY <1>2
  <2> QED BY <1>2, <1>3, <2>1 DEF Totals
<1> QED BY <1>1, <1>3, <1>4 DEF Decimal

\* A number is read back from its digits: msgDate and datalen, of any size.
THEOREM DecimalRoundTrip ==
  ASSUME NEW n \in Nat
  PROVE  Number(Digits[n]) = n
<1> DEFINE T == {k \in Nat : Number(Digits[k]) # k}
<1>1. CASE T = {}
  BY <1>1
<1>2. CASE T # {}
  <2>1. PICK x \in T : \A y \in T : x <= y
    <3>1. T \in SUBSET Nat
      OBVIOUS
    <3> HIDE DEF T
    <3> QED BY <1>2, <3>1, LeastNumber
  <2>2. x \in Nat /\ Number(Digits[x]) # x
    BY <2>1
  <2>3. CASE x < 10
    <3>0. Digits[x] = <<48 + x>>
      BY <2>2, <2>3, DigitsDef
    <3>1. Digits[x] = <<48 + x>> /\ 48 + x \in Decimal
      BY <2>2, <2>3, <3>0 DEF Decimal
    <3>2. Number(<<48 + x>>) = (48 + x) - 48
      BY <3>1, NumberOfOne
    <3> QED BY <2>2, <3>1, <3>2
  <2>4. CASE ~(x < 10)
    <3>1. PICK q \in Nat, r \in 0 .. 9 : q = x \div 10 /\ r = x % 10 /\ x = q * 10 + r /\ q < x
      <4>1. x \div 10 \in Nat /\ x % 10 \in 0 .. 9 /\ x \div 10 < x
        BY <2>2, <2>4
      <4>2. x = (x \div 10) * 10 + (x % 10)
        BY <2>2
      <4> QED BY <4>1, <4>2
    <3>2. Digits[x] = Append(Digits[q], 48 + r)
      BY <2>2, <2>4, <3>1, DigitsDef
    <3>3. 48 + r \in Decimal /\ Digits[q] \in Seq(Decimal)
      BY DigitsType DEF Decimal
    <3>4. Number(Digits[q]) = q
      <4>1. q \notin T
        <5> HIDE DEF T
        <5> QED BY <2>1, <2>2, <3>1
      <4> QED BY <4>1
    <3>5. Number(Append(Digits[q], 48 + r)) = Number(Digits[q]) * 10 + (48 + r) - 48
      BY <3>3, NumberAppend
    <3>6. Number(Digits[x]) = q * 10 + (48 + r) - 48
      BY <3>2, <3>4, <3>5, Zenon
    <3>7. q * 10 + (48 + r) - 48 = x
      BY <3>1
    <3> QED BY <2>2, <3>6, <3>7, Zenon
  <2> QED BY <2>3, <2>4
<1> QED BY <1>1, <1>2
-----------------------------------------------------------------------------
(* The delimiter format                                                    *)

Bytes == Seq(Nat)

\* Where the bytes of a concatenation come from.
Joined(st, s, n, t) ==
  /\ st \in Bytes /\ Len(st) = n + Len(t)
  /\ \A i \in 1 .. n : st[i] = s[i]
  /\ \A i \in 1 .. Len(t) : st[n + i] = t[i]
LEMMA ConcatBytes ==
  ASSUME NEW s \in Bytes, NEW t \in Bytes
  PROVE  Joined(s \o t, s, Len(s), t)
<1>0. PICK n \in Nat : n = Len(s)
  BY DEF Bytes
<1>1. s \in Seq(Nat) /\ t \in Seq(Nat)
  BY DEF Bytes
<1>2. /\ s \o t \in Seq(Nat) /\ Len(s \o t) = Len(s) + Len(t)
      /\ \A i \in 1 .. Len(s) + Len(t) :
           (s \o t)[i] = IF i <= Len(s) THEN s[i] ELSE t[i - Len(s)]
  BY <1>1, ConcatProperties, Zenon
<1>3. PICK k \in Nat : k = Len(t)
  BY <1>1
<1>4. PICK st : st = s \o t
  OBVIOUS
<1>5. /\ Len(st) = n + k
      /\ \A i \in 1 .. n + k : st[i] = IF i <= n THEN s[i] ELSE t[i - n]
  <2>1. /\ Len(st) = Len(s) + Len(t)
        /\ \A i \in 1 .. Len(s) + Len(t) : st[i] = IF i <= Len(s) THEN s[i] ELSE t[i - Len(s)]
    BY <1>2, <1>4, Zenon
  <2> QED BY <1>0, <1>3, <2>1
<1>6. \A i \in 1 .. n : st[i] = s[i]
  BY <1>5
<1>7. ASSUME NEW i \in 1 .. k PROVE st[n + i] = t[i]
  <2>1. n + i \in 1 .. n + k /\ ~(n + i <= n) /\ (n + i) - n = i
    OBVIOUS
  <2> QED BY <1>5, <2>1
<1> QED BY <1>0, <1>2, <1>3, <1>4, <1>5, <1>6, <1>7 DEF Bytes, Joined

LEMMA FieldParts ==
  ASSUME NEW text \in Seq(Nat \ {BAR}), NEW rest \in Bytes
  PROVE  /\ Field(text, rest) \in Bytes
         /\ Len(Field(text, rest)) = Len(text) + 1 + Len(rest)
         /\ \A i \in 1 .. Len(text) : Field(text, rest)[i] = text[i] /\ text[i] # BAR
         /\ Field(text, rest)[Len(text) + 1] = BAR
         /\ \A i \in 1 .. Len(rest) : Field(text, rest)[Len(text) + 1 + i] = rest[i]
<1>1. text \in Bytes /\ <<BAR>> \in Bytes /\ Len(<<BAR>>) = 1
  BY DEF Bytes, BAR
<1>2. PICK n \in Nat : n = Len(text)
  OBVIOUS
<1>3. PICK head : head = text \o <<BAR>>
  OBVIOUS
<1>4. /\ head \in Bytes /\ Len(head) = n + 1
      /\ \A i \in 1 .. n : head[i] = text[i]
      /\ head[n + 1] = BAR
  <2>1. /\ head \in Bytes /\ Len(head) = n + 1
        /\ \A i \in 1 .. n : head[i] = text[i]
        /\ \A i \in 1 .. 1 : head[n + i] = <<BAR>>[i]
    <3>1. Joined(head, text, n, <<BAR>>)
      BY <1>1, <1>2, <1>3, ConcatBytes
    <3> QED BY <1>1, <3>1 DEF Joined
  <2>2. head[n + 1] = <<BAR>>[1]
    BY <2>1
  <2> QED BY <2>1, <2>2
<1>5. Field(text, rest) = head \o rest
  BY <1>3 DEF Field
<1>6. /\ head \o rest \in Bytes /\ Len(head \o rest) = n + 1 + Len(rest)
      /\ \A i \in 1 .. n + 1 : (head \o rest)[i] = head[i]
      /\ \A i \in 1 .. Len(rest) : (head \o rest)[n + 1 + i] = rest[i]
  <2>1. Joined(head \o rest, head, n + 1, rest)
    BY <1>4, ConcatBytes
  <2> QED BY <2>1 DEF Joined
<1>7. \A i \in 1 .. n : text[i] # BAR
  BY <1>2
<1> QED BY <1>2, <1>4, <1>5, <1>6, <1>7

\* strsep_custom finds the end of a field that holds no delimiter.
LEMMA StrsepField ==
  ASSUME NEW text \in Seq(Nat \ {BAR}), NEW rest \in Bytes
  PROVE  /\ strsep[Field(text, rest)].token = text
         /\ strsep[Field(text, rest)].rest = rest
<1>1. PICK n \in Nat : n = Len(text)
  OBVIOUS
<1>2. PICK all : all = Field(text, rest)
  OBVIOUS
<1>3. /\ all \in Bytes /\ Len(all) = n + 1 + Len(rest)
      /\ \A i \in 1 .. n : all[i] = text[i] /\ all[i] # BAR
      /\ all[n + 1] = BAR
      /\ \A i \in 1 .. Len(rest) : all[n + 1 + i] = rest[i]
  <2>1. \A i \in 1 .. n : text[i] # BAR
    BY <1>1
  <2> QED BY <1>1, <1>2, <2>1, FieldParts, Zenon
<1> DEFINE delimiters == {i \in DOMAIN all : all[i] = BAR}
<1>4. n + 1 \in delimiters /\ delimiters \in SUBSET Int /\ \A i \in delimiters : n + 1 <= i
  BY <1>3 DEF Bytes
<1>5. Min(delimiters) = n + 1 /\ delimiters # {}
  <2> HIDE DEF delimiters
  <2> QED BY <1>4, MinIs
<1>6. strsep[all] = [token |-> SubSeq(all, 1, (n + 1) - 1), rest |-> SubSeq(all, (n + 1) + 1, Len(all))]
  <2>1. strsep[all] =
          IF delimiters = {} THEN [token |-> all, rest |-> <<>>]
          ELSE [token |-> SubSeq(all, 1, Min(delimiters) - 1), rest |-> SubSeq(all, Min(delimiters) + 1, Len(all))]
    BY <1>3 DEF strsep, Bytes
  <2> HIDE DEF delimiters
  <2> QED BY <1>5, <2>1, Zenon
<1>7. SubSeq(all, 1, (n + 1) - 1) = text
  BY <1>1, <1>3 DEF Bytes
<1>8. SubSeq(all, (n + 1) + 1, Len(all)) = rest
  BY <1>3 DEF Bytes
<1> QED BY <1>2, <1>6, <1>7, <1>8

\* A message: the texts of its header, of which the library writes two itself, and data.
Message ==
  [msgType : CleanText, thingName : HeaderText, tId : HeaderText, msgCode : HeaderText,
   msgId : HeaderText, msgDate : Nat, encType : CleanText, authToken : HeaderText,
   datalen : Nat, data : Bytes]

\* What the library writes is a text without a delimiter, and UTF-8.
LEMMA CleanIs ==
  ASSUME NEW text \in CleanText
  PROVE  text \in HeaderText /\ ~HoldsBar(text) /\ text \notin NotUtf8
<1>1. text \in HeaderText
  <2>1. (1 .. 127) \ {BAR} \subseteq 1 .. 255
    OBVIOUS
  <2> QED BY <2>1, SeqMonotonic DEF CleanText, HeaderText
<1>2. \A i \in DOMAIN text : text[i] \in 1 .. 127 /\ text[i] # BAR
  BY DEF CleanText
<1>3. ~HoldsBar(text)
  BY <1>2 DEF HoldsBar
<1>4. \A i \in DOMAIN text : ~(text[i] > 127)
  BY <1>2
<1> QED BY <1>1, <1>3, <1>4, ConvertersAssumption

LEMMA HeaderTextBytes ==
  ASSUME NEW text \in HeaderText, ~HoldsBar(text)
  PROVE  text \in Seq(Nat \ {BAR})
<1>1. PICK n \in Nat : n = Len(text) /\ DOMAIN text = 1 .. n /\ text = [i \in 1 .. n |-> text[i]]
  BY DEF HeaderText
<1>2. \A i \in 1 .. n : text[i] \in Nat \ {BAR}
  <2>1. \A i \in 1 .. n : text[i] \in 1 .. 255
    BY <1>1 DEF HeaderText
  <2>2. \A i \in 1 .. n : text[i] # BAR
    BY <1>1 DEF HoldsBar
  <2> QED BY <2>1, <2>2
<1>3. text \in [1 .. n -> Nat \ {BAR}]
  BY <1>1, <1>2
<1>4. text \in UNION {[1 .. m -> Nat \ {BAR}] : m \in Nat}
  BY <1>3
<1> QED BY <1>4, SeqDef

LEMMA DigitsBytes ==
  ASSUME NEW n \in Nat
  PROVE  Digits[n] \in Seq(Nat \ {BAR})
<1>1. Decimal \subseteq Nat \ {BAR}
  BY DEF Decimal, BAR
<1> QED BY <1>1, DigitsType, SeqMonotonic

\* The fields of the payload are those of the message, if no text of its header holds a
\* delimiter: the data end where datalen says, so that they may hold some.
THEOREM DelimiterRoundTrip ==
  ASSUME NEW m \in Message, m.datalen = Len(m.data), \A f \in HeaderFields : ~HoldsBar(m[f])
  PROVE  delimiterFields(delimiterPayload(m)) = m
<1>1. /\ m.msgType \in Seq(Nat \ {BAR}) /\ m.thingName \in Seq(Nat \ {BAR})
      /\ m.tId \in Seq(Nat \ {BAR}) /\ m.msgCode \in Seq(Nat \ {BAR})
      /\ m.msgId \in Seq(Nat \ {BAR}) /\ m.encType \in Seq(Nat \ {BAR})
      /\ m.authToken \in Seq(Nat \ {BAR})
  <2>1. /\ m.thingName \in HeaderText /\ m.tId \in HeaderText /\ m.msgCode \in HeaderText
        /\ m.msgId \in HeaderText /\ m.authToken \in HeaderText
        /\ m.msgType \in HeaderText /\ m.encType \in HeaderText
    BY CleanIs DEF Message
  <2>2. /\ ~HoldsBar(m.msgType) /\ ~HoldsBar(m.thingName) /\ ~HoldsBar(m.tId)
        /\ ~HoldsBar(m.msgCode) /\ ~HoldsBar(m.msgId) /\ ~HoldsBar(m.encType)
        /\ ~HoldsBar(m.authToken)
    BY DEF HeaderFields
  <2> QED BY <2>1, <2>2, HeaderTextBytes
<1>2. m.msgDate \in Nat /\ m.datalen \in Nat /\ m.data \in Bytes
  BY DEF Message
<1>3. Digits[m.msgDate] \in Seq(Nat \ {BAR}) /\ Digits[m.datalen] \in Seq(Nat \ {BAR})
  BY <1>2, DigitsBytes
<1>4. PICK r9 : r9 = Field(Digits[m.datalen], m.data) /\ r9 \in Bytes
  BY <1>2, <1>3, FieldParts
<1>5. PICK r8 : r8 = Field(m.authToken, r9) /\ r8 \in Bytes
  BY <1>1, <1>4, FieldParts
<1>6. PICK r7 : r7 = Field(m.encType, r8) /\ r7 \in Bytes
  BY <1>1, <1>5, FieldParts
<1>7. PICK r6 : r6 = Field(Digits[m.msgDate], r7) /\ r6 \in Bytes
  BY <1>3, <1>6, FieldParts
<1>8. PICK r5 : r5 = Field(m.msgId, r6) /\ r5 \in Bytes
  BY <1>1, <1>7, FieldParts
<1>9. PICK r4 : r4 = Field(m.msgCode, r5) /\ r4 \in Bytes
  BY <1>1, <1>8, FieldParts
<1>10. PICK r3 : r3 = Field(m.tId, r4) /\ r3 \in Bytes
  BY <1>1, <1>9, FieldParts
<1>11. PICK r2 : r2 = Field(m.thingName, r3) /\ r2 \in Bytes
  BY <1>1, <1>10, FieldParts
<1>12. PICK r1 : r1 = Field(m.msgType, r2) /\ r1 \in Bytes
  BY <1>1, <1>11, FieldParts
<1>13. delimiterPayload(m) = r1
  BY <1>4, <1>5, <1>6, <1>7, <1>8, <1>9, <1>10, <1>11, <1>12 DEF delimiterPayload
<1>14. /\ strsep[r1].token = m.msgType /\ strsep[r1].rest = r2
       /\ strsep[r2].token = m.thingName /\ strsep[r2].rest = r3
       /\ strsep[r3].token = m.tId /\ strsep[r3].rest = r4
  <2>1. strsep[r1].token = m.msgType /\ strsep[r1].rest = r2
    BY <1>1, <1>11, <1>12, StrsepField
  <2>2. strsep[r2].token = m.thingName /\ strsep[r2].rest = r3
    BY <1>1, <1>10, <1>11, StrsepField
  <2>3. strsep[r3].token = m.tId /\ strsep[r3].rest = r4
    BY <1>1, <1>9, <1>10, StrsepField
  <2> QED BY <2>1, <2>2, <2>3
<1>15. /\ strsep[r4].token = m.msgCode /\ strsep[r4].rest = r5
       /\ strsep[r5].token = m.msgId /\ strsep[r5].rest = r6
       /\ strsep[r6].token = Digits[m.msgDate] /\ strsep[r6].rest = r7
  <2>1. strsep[r4].token = m.msgCode /\ strsep[r4].rest = r5
    BY <1>1, <1>8, <1>9, StrsepField
  <2>2. strsep[r5].token = m.msgId /\ strsep[r5].rest = r6
    BY <1>1, <1>7, <1>8, StrsepField
  <2>3. strsep[r6].token = Digits[m.msgDate] /\ strsep[r6].rest = r7
    BY <1>3, <1>6, <1>7, StrsepField
  <2> QED BY <2>1, <2>2, <2>3
<1>16. /\ strsep[r7].token = m.encType /\ strsep[r7].rest = r8
       /\ strsep[r8].token = m.authToken /\ strsep[r8].rest = r9
       /\ strsep[r9].token = Digits[m.datalen] /\ strsep[r9].rest = m.data
  <2>1. strsep[r7].token = m.encType /\ strsep[r7].rest = r8
    BY <1>1, <1>5, <1>6, StrsepField
  <2>2. strsep[r8].token = m.authToken /\ strsep[r8].rest = r9
    BY <1>1, <1>4, <1>5, StrsepField
  <2>3. strsep[r9].token = Digits[m.datalen] /\ strsep[r9].rest = m.data
    BY <1>2, <1>3, <1>4, StrsepField
  <2> QED BY <2>1, <2>2, <2>3
<1>17. Number(Digits[m.msgDate]) = m.msgDate /\ Number(Digits[m.datalen]) = m.datalen
  BY <1>2, DecimalRoundTrip
<1>18. delimiterBody(m.data, m.datalen) = m.data
  BY <1>2 DEF delimiterBody, Bytes
<1>19. delimiterFields(delimiterPayload(m)) =
         [msgType |-> m.msgType, thingName |-> m.thingName, tId |-> m.tId, msgCode |-> m.msgCode,
          msgId |-> m.msgId, msgDate |-> m.msgDate, encType |-> m.encType,
          authToken |-> m.authToken, datalen |-> m.datalen, data |-> m.data]
  BY <1>13, <1>14, <1>15, <1>16, <1>17, <1>18 DEF delimiterFields
<1> QED BY <1>19 DEF Message
-----------------------------------------------------------------------------
(* Compression                                                             *)

\* What is packed is recognised, and unpacking it gives the data back.
LEMMA PackRoundTrip ==
  ASSUME NEW data \in Bytes, data # <<>>
  PROVE  /\ Pack(data) \in Bytes /\ Pack(data) # <<>>
         /\ Packed(Pack(data))
         /\ Unpack(Pack(data)) = data
<1>1. PICK n \in Nat : n = Len(data) /\ n > 0 /\ DOMAIN data = 1 .. n
  BY DEF Bytes
<1>2. MAGIC \in Bytes /\ Len(MAGIC) = 4
  BY DEF MAGIC, Bytes
<1>3. CASE \A i \in DOMAIN data : data[i] = data[1]
  <2>1. PICK d \in Nat : d = data[1]
    BY <1>1 DEF Bytes
  <2>2. PICK all : all = MAGIC \o <<0, n, d>>
    OBVIOUS
  <2>3. Pack(data) = all
    BY <1>1, <1>3, <2>1, <2>2 DEF Pack
  <2>4. /\ all \in Bytes /\ Len(all) = 7
        /\ \A i \in 1 .. 4 : all[i] = MAGIC[i]
        /\ all[5] = 0 /\ all[6] = n /\ all[7] = d
    <3>1. PICK tail : tail = <<0, n, d>>
      OBVIOUS
    <3>2. tail \in Bytes /\ Len(tail) = 3
      BY <1>1, <2>1, <3>1 DEF Bytes
    <3>3. Joined(all, MAGIC, 4, tail)
      BY <1>2, <2>2, <3>1, <3>2, ConcatBytes
    <3>4. all[4 + 1] = tail[1] /\ all[4 + 2] = tail[2] /\ all[4 + 3] = tail[3]
      BY <3>2, <3>3 DEF Joined
    <3> QED BY <3>1, <3>2, <3>3, <3>4 DEF Joined
  <2>5. SubSeq(all, 1, 4) = MAGIC
    BY <1>2, <2>4 DEF Bytes
  <2>6. Packed(all) /\ all # <<>>
    BY <2>4, <2>5, SMTT(30) DEF Packed
  <2>7. Unpack(all) = [i \in 1 .. n |-> d]
    BY <2>4 DEF Unpack
  <2>8. data = [i \in 1 .. n |-> data[i]]
    BY <1>1 DEF Bytes
  <2>9. \A i \in 1 .. n : data[i] = d
    BY <1>1, <1>3, <2>1
  <2> QED BY <2>3, <2>4, <2>6, <2>7, <2>8, <2>9
<1>4. CASE ~ \A i \in DOMAIN data : data[i] = data[1]
  <2>1. n > 1
    BY <1>1, <1>4
  <2>2. PICK head : head = MAGIC \o <<1>>
    OBVIOUS
  <2>3. /\ head \in Bytes /\ Len(head) = 5
        /\ \A i \in 1 .. 4 : head[i] = MAGIC[i]
        /\ head[5] = 1
    <3>1. PICK tail : tail = <<1>>
      OBVIOUS
    <3>2. tail \in Bytes /\ Len(tail) = 1
      BY <3>1 DEF Bytes
    <3>3. Joined(head, MAGIC, 4, tail)
      BY <1>2, <2>2, <3>1, <3>2, ConcatBytes
    <3>4. head[4 + 1] = tail[1]
      BY <3>2, <3>3 DEF Joined
    <3> QED BY <3>1, <3>2, <3>3, <3>4 DEF Joined
  <2>4. PICK all : all = head \o data
    OBVIOUS
  <2>5. Pack(data) = all
    BY <1>4, <2>2, <2>4 DEF Pack
  <2>6. /\ all \in Bytes /\ Len(all) = 5 + n
        /\ \A i \in 1 .. 5 : all[i] = head[i]
        /\ \A i \in 1 .. n : all[5 + i] = data[i]
    <3>1. Joined(all, head, 5, data)
      BY <2>3, <2>4, ConcatBytes
    <3> QED BY <1>1, <3>1 DEF Joined
  <2>7. SubSeq(all, 1, 4) = MAGIC
    <3>1. \A i \in 1 .. 4 : all[i] = MAGIC[i]
      BY <2>3, <2>6
    <3> QED BY <1>2, <2>1, <2>6, <3>1, SMTT(30) DEF Bytes
  <2>8. SubSeq(all, 6, Len(all)) = data
    BY <1>1, <2>6, SMTT(30) DEF Bytes
  <2>9. Packed(all) /\ all # <<>>
    BY <2>1, <2>6, <2>7 DEF Packed
  <2>10. Unpack(all) = data
    BY <2>3, <2>6, <2>8 DEF Unpack
  <2> QED BY <2>5, <2>6, <2>9, <2>10
<1> QED BY <1>3, <1>4

\* One more character of encType, which says that the data are compressed.
LEMMA LabelParts ==
  ASSUME NEW text \in CleanText
  PROVE  /\ <<Z>> \o text \in CleanText
         /\ Len(<<Z>> \o text) = Len(text) + 1
         /\ <<Z>> \o text # <<>>
         /\ (<<Z>> \o text)[1] = Z
         /\ Tail(<<Z>> \o text) = text
<1> DEFINE Character == (1 .. 127) \ {BAR}
<1>1. PICK z : z = <<Z>> /\ z \in Seq(Character) /\ Len(z) = 1 /\ z[1] = Z
  <2>1. <<Z>> \in Seq(Character) /\ Len(<<Z>>) = 1 /\ <<Z>>[1] = Z
    BY DEF Z, BAR
  <2> QED BY <2>1
<1>2. text \in Seq(Character)
  BY DEF CleanText
<1>3. PICK label : label = z \o text
  OBVIOUS
<1> HIDE DEF Character
<1>4. /\ label \in Seq(Character) /\ Len(label) = Len(z) + Len(text)
      /\ \A i \in 1 .. Len(z) + Len(text) : label[i] = IF i <= Len(z) THEN z[i] ELSE text[i - Len(z)]
  <2>1. /\ z \o text \in Seq(Character) /\ Len(z \o text) = Len(z) + Len(text)
        /\ \A i \in 1 .. Len(z) + Len(text) :
             (z \o text)[i] = IF i <= Len(z) THEN z[i] ELSE text[i - Len(z)]
    <3>1. z \in Seq(Character)
      BY <1>1
    <3> QED BY <1>2, <3>1, ConcatProperties, Zenon
  <2> QED BY <1>3, <2>1, Zenon
<1>5. PICK n \in Nat : n = Len(text)
  BY <1>2
<1>6. Len(label) = n + 1 /\ \A i \in 1 .. 1 + n : label[i] = IF i <= 1 THEN z[i] ELSE text[i - 1]
  BY <1>1, <1>4, <1>5
<1>7. label # <<>> /\ label[1] = Z
  BY <1>1, <1>6
<1>8. Tail(label) = text
  <2>1. Tail(label) \in Seq(Character) /\ Len(Tail(label)) = n
    BY <1>4, <1>6, <1>7
  <2>2. ASSUME NEW i \in 1 .. n PROVE Tail(label)[i] = text[i]
    <3>1. i + 1 \in 1 .. 1 + n /\ ~(i + 1 <= 1) /\ (i + 1) - 1 = i
      OBVIOUS
    <3>2. Tail(label)[i] = label[i + 1]
      BY <1>4, <1>6
    <3> QED BY <1>6, <3>1, <3>2
  <2> QED BY <1>2, <1>5, <2>1, <2>2
<1> QED BY <1>1, <1>3, <1>4, <1>5, <1>6, <1>7, <1>8 DEF CleanText, Character

\* The compressed message can be written, and reading it undoes the compression.
LEMMA PeelCompressed ==
  ASSUME NEW m \in Message, m.datalen = Len(m.data), m.data # <<>>
  PROVE  /\ compressed(m) \in Message
         /\ compressed(m).datalen = Len(compressed(m).data)
         /\ compressed(m).data # <<>>
         /\ compressed(m).encType = <<Z>> \o m.encType
         /\ Len(compressed(m).encType) = Len(m.encType) + 1
         /\ Peel(compressed(m)) = m
<1>1. PICK c : c = compressed(m)
  OBVIOUS
<1>2. PICK packed \in Bytes : packed = Pack(m.data) /\ packed # <<>> /\ Packed(packed) /\ Unpack(packed) = m.data
  BY PackRoundTrip DEF Message
<1>3. PICK label \in CleanText : /\ label = <<Z>> \o m.encType /\ Len(label) = Len(m.encType) + 1
                                 /\ label # <<>> /\ label[1] = Z /\ Tail(label) = m.encType
  BY LabelParts DEF Message
<1>4. c = [m EXCEPT !.encType = label, !.data = packed, !.datalen = Len(packed)]
  BY <1>1, <1>2, <1>3 DEF compressed
<1>5. c.encType = label /\ c.data = packed /\ c.datalen = Len(packed)
  BY <1>4 DEF Message
<1>6. c \in Message
  <2>1. Len(packed) \in Nat
    BY <1>2 DEF Bytes
  <2> QED BY <1>2, <1>3, <1>4, <2>1 DEF Message
<1>7. decompressed(c) = [c EXCEPT !.encType = m.encType, !.data = m.data, !.datalen = m.datalen]
  BY <1>2, <1>3, <1>5 DEF decompressed
<1>8. decompressed(c) = m
  BY <1>4, <1>7 DEF Message
<1>9. IsCompressed(c)
  BY <1>3, <1>5 DEF IsCompressed
<1> QED BY <1>1, <1>2, <1>3, <1>5, <1>6, <1>8, <1>9 DEF Peel
-----------------------------------------------------------------------------
(* The JSON format, and compression once more with every try               *)

\* What the JSON format loses: the texts of the header that are not UTF-8, and the data
\* of a message that is labelled plain.
Kept(text) == IF text \in NotUtf8 THEN <<>> ELSE text
Read(m) ==
  LET data == IF m.encType = PLAIN THEN <<>> ELSE m.data
  IN  [msgType |-> m.msgType, thingName |-> Kept(m.thingName), tId |-> Kept(m.tId),
       msgCode |-> Kept(m.msgCode), msgId |-> Kept(m.msgId), msgDate |-> m.msgDate,
       encType |-> m.encType, authToken |-> Kept(m.authToken), datalen |-> Len(data),
       data |-> data]

LEMMA JsonRoundTrip ==
  ASSUME NEW m \in Message, m.encType = AES128 => m.data \notin NotUtf8,
         m.encType \in {PLAIN, AES128}
  PROVE  jsonMessage(jsonPayload(m)) = Read(m)
<1> DEFINE text(payload, f) == IF f \in DOMAIN payload THEN payload[f] ELSE <<>>
<1>1. DOMAIN m = Fields
  BY DEF Message, Fields
<1>2. PICK payload : payload = jsonPayload(m)
  OBVIOUS
<1>3. /\ DOMAIN payload = {f \in Fields \ {"datalen"} : f = "msgDate" \/ m[f] \notin NotUtf8}
      /\ \A f \in DOMAIN payload : payload[f] = m[f]
  BY <1>1, <1>2 DEF jsonPayload
<1>4. \A f \in Fields \ {"datalen", "msgDate"} : text(payload, f) = Kept(m[f])
  BY <1>3 DEF Kept
<1>5. payload.msgDate = m.msgDate
  BY <1>3 DEF Fields
<1>6. /\ text(payload, "thingName") = Kept(m.thingName) /\ text(payload, "tId") = Kept(m.tId)
      /\ text(payload, "msgCode") = Kept(m.msgCode) /\ text(payload, "msgId") = Kept(m.msgId)
      /\ text(payload, "authToken") = Kept(m.authToken) /\ text(payload, "data") = Kept(m.data)
      /\ text(payload, "msgType") = Kept(m.msgType) /\ text(payload, "encType") = Kept(m.encType)
  BY <1>4 DEF Fields
<1>7. Kept(m.msgType) = m.msgType /\ Kept(m.encType) = m.encType
  BY CleanIs DEF Message, Kept
<1>8. m.encType # PLAIN => Kept(m.data) = m.data
  BY DEF Kept
<1>9. PICK data : data = IF m.encType = PLAIN THEN <<>> ELSE m.data
  OBVIOUS
<1>10. data = IF text(payload, "encType") = PLAIN THEN <<>> ELSE text(payload, "data")
  BY <1>6, <1>7, <1>8, <1>9
<1>11. jsonMessage(payload) =
         [msgType |-> text(payload, "msgType"), thingName |-> text(payload, "thingName"),
          tId |-> text(payload, "tId"), msgCode |-> text(payload, "msgCode"),
          msgId |-> text(payload, "msgId"), msgDate |-> payload.msgDate,
          encType |-> text(payload, "encType"), authToken |-> text(payload, "authToken"),
          datalen |-> Len(data), data |-> data]
  BY <1>10 DEF jsonMessage
<1> HIDE DEF text
<1>12. Read(m) =
         [msgType |-> m.msgType, thingName |-> Kept(m.thingName), tId |-> Kept(m.tId),
          msgCode |-> Kept(m.msgCode), msgId |-> Kept(m.msgId), msgDate |-> m.msgDate,
          encType |-> m.encType, authToken |-> Kept(m.authToken), datalen |-> Len(data),
          data |-> data]
  BY <1>9 DEF Read
<1> QED BY <1>2, <1>5, <1>6, <1>7, <1>11, <1>12, Zenon

\* The message after n tries have compressed it.
Layers(b, n) ==
  IF n = 0 THEN b
  ELSE IF n = 1 THEN compressed(b)
  ELSE IF n = 2 THEN compressed(compressed(b))
  ELSE IF n = 3 THEN compressed(compressed(compressed(b)))
  ELSE compressed(compressed(compressed(compressed(b))))

\* A message as a builder leaves it: it is not compressed.
Fresh(b) ==
  b \in Message /\ b.datalen = Len(b.data) /\ b.encType \in {PLAIN, AES128}

LEMMA LayersNext ==
  ASSUME NEW b, NEW n \in 0 .. Tries - 1
  PROVE  Layers(b, n + 1) = compressed(Layers(b, n))
BY DEF Layers, Tries

\* A compressed message that can be written, and what each compression keeps.
Written(m, b, n) ==
  /\ m \in Message /\ m.datalen = Len(m.data) /\ m.data # <<>>
  /\ Len(m.encType) = n + 1
  /\ m.msgType = b.msgType /\ m.thingName = b.thingName /\ m.tId = b.tId
  /\ m.msgCode = b.msgCode /\ m.msgId = b.msgId /\ m.msgDate = b.msgDate
  /\ m.authToken = b.authToken

LEMMA WrittenNext ==
  ASSUME NEW m, NEW b, NEW n \in Nat, Written(m, b, n)
  PROVE  Written(compressed(m), b, n + 1) /\ Peel(compressed(m)) = m
<1>1. m \in Message /\ m.datalen = Len(m.data) /\ m.data # <<>>
  BY DEF Written
<1>2. /\ compressed(m) \in Message
      /\ compressed(m).datalen = Len(compressed(m).data)
      /\ compressed(m).data # <<>>
      /\ Len(compressed(m).encType) = Len(m.encType) + 1
      /\ Peel(compressed(m)) = m
  BY <1>1, PeelCompressed
<1>3. /\ compressed(m).msgType = m.msgType /\ compressed(m).thingName = m.thingName
      /\ compressed(m).tId = m.tId /\ compressed(m).msgCode = m.msgCode
      /\ compressed(m).msgId = m.msgId /\ compressed(m).msgDate = m.msgDate
      /\ compressed(m).authToken = m.authToken
  BY <1>1 DEF compressed, Message
<1> QED BY <1>2, <1>3 DEF Written

LEMMA PeelFresh ==
  ASSUME NEW b, Fresh(b)
  PROVE  Peel(b) = b
BY DEF Fresh, Peel, IsCompressed, PLAIN, AES128, Z

LEMMA LayersWritten ==
  ASSUME NEW b, Fresh(b), b.data # <<>>, NEW n \in 0 .. Tries
  PROVE  /\ Written(Layers(b, n), b, n)
         /\ Peel(Layers(b, n)) = IF n = 0 THEN b ELSE Layers(b, n - 1)
         /\ Peeled(Layers(b, n)) = b
<1>0. Len(b.encType) = 0 + 1
  BY DEF Fresh, PLAIN, AES128
<1>1. Written(b, b, 0)
  BY <1>0 DEF Fresh, Written
<1> DEFINE c1 == compressed(b)
           c2 == compressed(c1)
           c3 == compressed(c2)
           c4 == compressed(c3)
<1>2. Written(c1, b, 0 + 1) /\ Peel(c1) = b
  BY <1>1, WrittenNext
<1> HIDE DEF c1
<1>3. Written(c2, b, 1 + 1) /\ Peel(c2) = c1
  BY <1>2, WrittenNext
<1> HIDE DEF c2
<1>4. Written(c3, b, 2 + 1) /\ Peel(c3) = c2
  BY <1>3, WrittenNext
<1> HIDE DEF c3
<1>5. Written(c4, b, 3 + 1) /\ Peel(c4) = c3
  BY <1>4, WrittenNext
<1> HIDE DEF c4
<1>6. Peel(b) = b
  BY PeelFresh
<1>7. /\ Layers(b, 0) = b /\ Layers(b, 1) = c1 /\ Layers(b, 2) = c2
      /\ Layers(b, 3) = c3 /\ Layers(b, 4) = c4
  BY DEF Layers, c1, c2, c3, c4
<1>8. n \in {0, 1, 2, 3, 4}
  BY DEF Tries
<1> QED BY <1>1, <1>2, <1>3, <1>4, <1>5, <1>6, <1>7, <1>8 DEF Peeled
-----------------------------------------------------------------------------
(* What the builders make                                                  *)

\* Data that stand for the text: encrypted, as base64 in the JSON format, which is always
\* UTF-8, or the text itself, which is taken for
\* encrypted data at the other end only where it is none or that of an answer.
Stands(data, text, encType, msgType, encrypted, settings) ==
  /\ data \in Bytes
  /\ settings.format = "J" /\ encType = AES128 => data \notin NotUtf8
  /\ IF encrypted
     THEN /\ settings.bAES128Used /\ encType = AES128
          /\ text # <<>> /\ Len(data) > Len(text)
          /\ decrypt(settings.format, data) = text
     ELSE /\ data = text
          /\ settings.bAES128Used /\ encType = AES128 /\ data # <<>> =>
               msgType = ANSWER /\ decrypt(settings.format, data) = <<>>

\* What the header says, for what was asked for.
Names(header, thing, msgCode, msgId) ==
  /\ header.tId \in HeaderText /\ header.msgCode \in HeaderText
  /\ header.tId \in IF thing = NULL THEN {OWN, <<>>} ELSE {thing}
  /\ header.msgCode \in IF msgCode = NULL THEN CleanText ELSE {msgCode}
  /\ header.msgType = IF msgId = NULL THEN REQUEST ELSE ANSWER
  /\ header.msgId = IF msgId = NULL THEN UUID ELSE msgId
  /\ header.encType \in {PLAIN, AES128}

\* The header of a message: made from names, all of them strings.
LEMMA BuiltNames ==
  ASSUME NEW header, NEW msgType, NEW msgCode, NEW tId, NEW msgId, NEW encType, NEW data,
         header \in Built(msgType, msgCode, tId, msgId, encType, data)
  PROVE  /\ header.msgType = msgType /\ header.msgCode = msgCode /\ header.tId = tId
         /\ header.msgId = msgId /\ header.encType = encType /\ header.data = data
BY DEF Built

LEMMA Strings ==
  /\ OWN \in HeaderText /\ UUID \in HeaderText /\ MsgId \in HeaderText /\ <<>> \in HeaderText
  /\ NULL \notin HeaderText /\ UUID \in CleanText
  /\ \A c \in CodeNames : Code(c) \in HeaderText /\ Code(c) \in CleanText
  /\ PLAIN \in CleanText /\ AES128 \in CleanText
  /\ REQUEST \in CleanText /\ ANSWER \in CleanText
<1>1. /\ OWN \in HeaderText /\ UUID \in HeaderText /\ MsgId \in HeaderText
      /\ UUID \in CleanText
      /\ \A c \in CodeNames : Code(c) \in HeaderText /\ Code(c) \in CleanText
  BY MessagePathAssumption, CleanIs
<1>2. <<>> \in HeaderText /\ PLAIN \in CleanText /\ AES128 \in CleanText
  BY DEF HeaderText, CleanText, PLAIN, AES128, BAR
<1>3. REQUEST \in CleanText /\ ANSWER \in CleanText
  BY DEF CleanText, REQUEST, ANSWER, BAR
<1>4. ASSUME NULL \in HeaderText PROVE FALSE
  <2>1. PICK text \in Seq(1 .. 255) : text = NULL
    BY <1>4 DEF HeaderText
  <2>2. Len(text) = 1 /\ text[1] = 0
    BY <2>1 DEF NULL
  <2>3. \A i \in 1 .. Len(text) : text[i] \in 1 .. 255
    BY ElementOfSeq
  <2>4. 1 \in 1 .. Len(text)
    BY <2>2
  <2>5. text[1] \in 1 .. 255
    BY <2>3, <2>4, Zenon
  <2>6. 0 \notin 1 .. 255
    OBVIOUS
  <2> QED BY <2>2, <2>5, <2>6, Zenon
<1> QED BY <1>1, <1>2, <1>3, <1>4

\* What a text is, and what is sent for it.
LEMMA TextType ==
  ASSUME NEW text \in Text \union {DUMMY}
  PROVE  text \in Seq(Byte) /\ text \in Bytes /\ text # <<>>
<1>1. text \in Seq(1 .. 255) /\ text # <<>>
  <2>1. CASE text \in Text
    BY <2>1, MessagePathAssumption
  <2>2. CASE text = DUMMY
    BY <2>2 DEF DUMMY
  <2> QED BY <2>1, <2>2
<1>2. 1 .. 255 \subseteq Byte /\ Byte \subseteq Nat
  BY DEF Byte
<1> QED BY <1>1, <1>2, SeqMonotonic DEF Bytes

LEMMA SealedStands ==
  ASSUME conf.format \in {"J", "D"}, conf.bAES128Used \in BOOLEAN,
         NEW text \in Text \union {DUMMY}, NEW data \in Sealed(text), NEW msgType
  PROVE  Stands(data, text, Label, msgType, conf.bAES128Used, conf) /\ data # <<>>
<1>1. text \in Seq(Byte) /\ text \in Bytes /\ text # <<>>
  BY TextType
<1>2. CASE conf.bAES128Used
  <2>1. PICK iv \in IV : data = encrypt_to_string(conf.format, text, iv)
    BY <1>2 DEF Sealed
  <2>2. iv \in Vector
    <3>1. iv \in [1 .. IV_LEN -> 1 .. 255]
      BY MessagePathAssumption
    <3>2. 1 .. 255 \subseteq Byte
      BY DEF Byte
    <3> QED BY <3>1, <3>2 DEF Vector
  <2>3. /\ data \in Seq(Nat) /\ Len(data) > Len(text) /\ decrypt(conf.format, data) = text
        /\ conf.format = "J" => data \notin NotUtf8
    BY <1>1, <2>1, <2>2, EnvelopeRoundTrip
  <2>4. data # <<>>
    BY <1>1, <2>3
  <2>5. Label = AES128
    BY <1>2 DEF Label
  <2> QED BY <1>1, <1>2, <2>3, <2>4, <2>5 DEF Stands, Bytes
<1>3. CASE ~conf.bAES128Used
  <2>1. data = text /\ Label # AES128
    BY <1>3 DEF Sealed, Label, PLAIN, AES128
  <2> QED BY <1>1, <1>3, <2>1 DEF Stands
<1> QED BY <1>2, <1>3

\* An answer labelled encrypted that is not is no envelope.
LEMMA DummyIsNone ==
  ASSUME NEW format \in {"J", "D"}
  PROVE  decrypt(format, DUMMY) = <<>> /\ DUMMY \notin NotUtf8
<1>0. \A i \in DOMAIN DUMMY : ~(DUMMY[i] > 127)
  BY DEF DUMMY
<1>1. format = "D" => decrypt(format, DUMMY) = <<>>
  <2>1. Len(DUMMY) <= IV_LEN
    BY DEF DUMMY, IV_LEN
  <2> QED BY <2>1 DEF decrypt
<1>2. format = "J" => decrypt(format, DUMMY) = <<>>
  <2> DEFINE table == {b64_table[v] : v \in 0 .. 63}
             bad == {i \in DOMAIN DUMMY : DUMMY[i] \notin table}
  <2>1. Len(DUMMY) = 2 /\ DUMMY[1] = 123 /\ 123 \notin table
    BY DEF DUMMY, b64_table
  <2>2. 1 \in bad /\ bad \in SUBSET Int /\ \A i \in bad : 1 <= i
    BY <2>1 DEF DUMMY
  <2>3. Min(bad) = 1 /\ bad # {}
    <3> HIDE DEF bad
    <3> QED BY <2>2, MinIs, Zenon
  <2>4. Valid(DUMMY) = SubSeq(DUMMY, 1, 1 - 1)
    BY <2>3 DEF Valid
  <2>5. Len(Valid(DUMMY)) = 0
    BY <2>4 DEF DUMMY
  <2>6. Len(b64_decode_ex(DUMMY)) = 0
    BY <2>5 DEF b64_decode_ex
  <2> QED BY <2>6 DEF decrypt, IV_LEN
<1> QED BY <1>0, <1>1, <1>2, ConvertersAssumption
-----------------------------------------------------------------------------
(* The invariant                                                           *)

\* A message as its builder left it, for what was asked for.
Original(b, wish, settings) ==
  /\ Fresh(b) /\ b.thingName = OWN /\ b.msgDate = NOW
  /\ Names(b, wish.thing, wish.msgCode, wish.msgId)
  /\ Stands(b.data, wish.text, b.encType, b.msgType, wish.encrypted, settings)

\* What the tries so far have made of one, a compression each at the most.
Descendant(m, b, n, wish, settings) ==
  /\ Original(b, wish, settings)
  /\ n > 0 => b.data # <<>> /\ settings.format = "D"
  /\ m = Layers(b, n)

\* The message the converter at the other end reads.
Arrived(m, format) == IF format = "D" THEN Peel(m) ELSE Read(m)

OnItsWay == {"send", "sent", "received", "dropped", "garbled", "delivered", "broken"}

\* ReadsBack alone is not inductive: it needs to know what the message is before it
\* arrives, and that thread_sender has not given up when it tries again.
Inv ==
  /\ conf \in [format : {"J", "D"}, bAES128Used : BOOLEAN, minCompressionSize : MinSizes]
  /\ tries \in 0 .. Tries
  /\ pc \in OnItsWay \union {"call", "invalid", "refused"}
  /\ pc = "call" => tries = 0
  /\ pc = "send" => tries < Tries
  /\ pc \in {"sent", "received"} => tries > 0
  /\ pc \in OnItsWay => \E b, n : n \in 0 .. tries /\ Descendant(message, b, n, asked, conf)
  /\ pc = "sent" =>
       wire = IF conf.format = "D" THEN delimiterPayload(message) ELSE jsonPayload(message)
  /\ pc = "received" => got = Arrived(message, conf.format)
  /\ ReadsBack

LEMMA InitInv == Init => Inv
BY DEF Init, Inv, OnItsWay, ReadsBack, Tries

LEMMA MadeOriginal ==
  ASSUME NEW header, NEW token \in Tokens, NEW wish, NEW settings,
         Names(header, wish.thing, wish.msgCode, wish.msgId),
         Stands(header.data, wish.text, header.encType, header.msgType, wish.encrypted, settings),
         wish.msgId \in HeaderText \union {NULL}
  PROVE  Original(made(header, token), wish, settings)
<1>1. /\ header.tId \in HeaderText /\ header.msgCode \in HeaderText
      /\ header.msgId \in HeaderText /\ header.msgType \in CleanText
      /\ header.encType \in {PLAIN, AES128} /\ header.encType \in CleanText
  BY Strings DEF Names
<1>2. OrEmpty(header.tId) = header.tId /\ OrEmpty(header.msgCode) = header.msgCode
      /\ OrEmpty(header.msgId) = header.msgId
  BY <1>1, Strings DEF OrEmpty
<1>3. header.data \in Bytes /\ Len(header.data) \in Nat
  BY DEF Stands, Bytes
<1>4. token \in HeaderText /\ OWN \in HeaderText /\ NOW \in Nat
  BY MessagePathAssumption
<1>5. PICK b : b = made(header, token)
  OBVIOUS
<1>6. b = [msgType |-> header.msgType, thingName |-> OWN, tId |-> header.tId,
           msgCode |-> header.msgCode, msgId |-> header.msgId, msgDate |-> NOW,
           encType |-> header.encType, authToken |-> token, datalen |-> Len(header.data),
           data |-> header.data]
  BY <1>2, <1>5 DEF made
<1>7. b \in Message
  BY <1>1, <1>3, <1>4, <1>6 DEF Message
<1>8. /\ b.msgType = header.msgType /\ b.thingName = OWN /\ b.tId = header.tId
      /\ b.msgCode = header.msgCode /\ b.msgId = header.msgId /\ b.msgDate = NOW
      /\ b.encType = header.encType /\ b.datalen = Len(header.data) /\ b.data = header.data
  BY <1>6
<1>9. Fresh(b)
  BY <1>1, <1>7, <1>8 DEF Fresh
<1>10. Names(b, wish.thing, wish.msgCode, wish.msgId)
  BY <1>8 DEF Names
<1>11. Stands(b.data, wish.text, b.encType, b.msgType, wish.encrypted, settings)
  BY <1>8
<1> QED BY <1>5, <1>8, <1>9, <1>10, <1>11 DEF Original

\* What each builder has to be given and to give.
Fits(built, thing, msgCode, msgId, text, encrypted, settings) ==
  \A header \in built :
    /\ Names(header, thing, msgCode, msgId)
    /\ Stands(header.data, text, header.encType, header.msgType, encrypted, settings)

LEMMA MakeInv ==
  ASSUME Inv, pc = "call",
         NEW built, NEW thing, NEW msgCode, NEW msgId \in HeaderText \union {NULL}, NEW text, NEW encrypted,
         Make(built, thing, msgCode, msgId, text, encrypted),
         Fits(built, thing, msgCode, msgId, text, encrypted, conf)
  PROVE  Inv'
<1>1. PICK wish : wish = [thing |-> thing, msgCode |-> msgCode, msgId |-> msgId, text |-> text,
                          encrypted |-> encrypted]
  OBVIOUS
<1>2. /\ asked' = wish /\ conf' = conf /\ tries' = tries /\ wire' = wire /\ got' = got
      /\ tries = 0
  BY <1>1 DEF Make, Inv
<1>3. CASE pc' = "refused"
  BY <1>2, <1>3 DEF Inv, OnItsWay, ReadsBack, Tries
<1>4. CASE pc' # "refused"
  <2>1. PICK header \in built, token \in Tokens : pc' = "send" /\ message' = made(header, token)
    BY <1>4 DEF Make
  <2>2. PICK b : b = made(header, token)
    OBVIOUS
  <2>3. PICK settings : settings = conf
    OBVIOUS
  <2>4. Original(b, wish, settings)
    <3>1. /\ Names(header, wish.thing, wish.msgCode, wish.msgId)
          /\ Stands(header.data, wish.text, header.encType, header.msgType, wish.encrypted, settings)
          /\ wish.msgId \in HeaderText \union {NULL}
      BY <1>1, <2>3 DEF Fits
    <3> QED BY <2>2, <3>1, MadeOriginal
  <2>5. Descendant(message', b, 0, asked', conf')
    BY <1>2, <2>1, <2>2, <2>3, <2>4 DEF Descendant, Layers
  <2> QED BY <1>2, <2>1, <2>5 DEF Inv, OnItsWay, ReadsBack, Tries
<1> QED BY <1>3, <1>4

\* A builder that needs its arguments gives what it has built, or nothing; a request of
\* this client is no answer and has this message's identifier.
LEMMA RequestFits ==
  ASSUME NEW built, NEW arguments, NEW data, NEW msgCode, NEW tId, NEW encType,
         built \in {Request(msgCode, tId, encType, data),
                   Needs(arguments, data, Request(msgCode, tId, encType, data))},
         NEW thing, NEW code, NEW text, NEW encrypted, NEW settings,
         built # {} => tId \in HeaderText /\ msgCode \in HeaderText,
         built # {} => tId \in IF thing = NULL THEN {OWN, <<>>} ELSE {thing},
         msgCode \in IF code = NULL THEN CleanText ELSE {code},
         encType \in {PLAIN, AES128},
         Stands(data, text, encType, REQUEST, encrypted, settings)
  PROVE  Fits(built, thing, code, NULL, text, encrypted, settings)
<1>1. ASSUME NEW header \in built
      PROVE  /\ Names(header, thing, code, NULL)
             /\ Stands(header.data, text, header.encType, header.msgType, encrypted, settings)
  <2>1. header \in Built(REQUEST, msgCode, tId, UUID, encType, data) /\ built # {}
    BY <1>1 DEF Request, Needs
  <2>2. /\ header.msgType = REQUEST /\ header.msgCode = msgCode /\ header.tId = tId
        /\ header.msgId = UUID /\ header.encType = encType /\ header.data = data
    BY <2>1, BuiltNames
  <2>3. Names(header, thing, code, NULL)
    BY <2>1, <2>2 DEF Names
  <2> QED BY <2>2, <2>3
<1> QED BY <1>1 DEF Fits

LEMMA AnswerFits ==
  ASSUME NEW data, NEW msgCode \in CleanText, NEW tId \in HeaderText, NEW encType \in {PLAIN, AES128},
         NEW thing, NEW code \in {NULL, msgCode}, NEW text, NEW encrypted, NEW settings,
         tId \in IF thing = NULL THEN {OWN, <<>>} ELSE {thing},
         Stands(data, text, encType, ANSWER, encrypted, settings)
  PROVE  Fits(Built(ANSWER, msgCode, tId, MsgId, encType, data),
              thing, code, MsgId, text, encrypted, settings)
<1>1. ASSUME NEW header \in Built(ANSWER, msgCode, tId, MsgId, encType, data)
      PROVE  /\ Names(header, thing, code, MsgId)
             /\ Stands(header.data, text, header.encType, header.msgType, encrypted, settings)
  <2>1. /\ header.msgType = ANSWER /\ header.msgCode = msgCode /\ header.tId = tId
        /\ header.msgId = MsgId /\ header.encType = encType /\ header.data = data
    BY BuiltNames
  <2>2. MsgId # NULL /\ msgCode \in HeaderText
    BY Strings, CleanIs
  <2>3. Names(header, thing, code, MsgId)
    BY <2>1, <2>2 DEF Names
  <2> QED BY <2>1, <2>3
<1> QED BY <1>1 DEF Fits

\* What a call of the application that is not turned down asks for.
Accepted(call, text) ==
  /\ text # <<>>
  /\ \/ /\ call.type \in {1, 9} /\ call.thing \in Things \union {OWN} /\ call.msgCode \in HeaderText
     \/ /\ call.type = 3 /\ call.thing \in HeaderText /\ call.msgCode = NULL
     \/ /\ call.type = 5 /\ call.thing \in HeaderText /\ call.msgCode = NULL
     \/ /\ call.type \in {2, 6} /\ call.thing = NULL /\ call.msgCode = NULL
     \/ /\ call.type \in {4, 7, 8} /\ call.thing = OWN /\ call.msgCode = NULL

LEMMA AttributesAccepted ==
  ASSUME NEW text, NEW code \in MsgCodes, NEW thing \in Things \union {OWN}, NEW type \in {1, 9},
         ~Attributes(type, thing, code, text).invalid
  PROVE  Accepted(Attributes(type, thing, code, text), text)
<1>1. text # <<>>
  BY DEF Attributes, Missing
<1>2. (IF Missing(code) THEN Code("Basic-AttrGroup") ELSE code) \in HeaderText
  <2>1. Code("Basic-AttrGroup") \in HeaderText
    BY Strings DEF CodeNames
  <2>2. code \in HeaderText \union {NULL}
    BY MessagePathAssumption
  <2> QED BY <2>1, <2>2 DEF Missing
<1> QED BY <1>1, <1>2 DEF Attributes, Accepted

LEMMA FormattedAccepted ==
  ASSUME NEW text, NEW thing \in Things, NEW type \in {3, 5},
         ~Formatted(type, text # <<>> /\ ~Missing(thing), thing).invalid
  PROVE  Accepted(Formatted(type, text # <<>> /\ ~Missing(thing), thing), text)
<1>1. text # <<>> /\ ~Missing(thing)
  BY DEF Formatted
<1>2. thing \in HeaderText
  BY <1>1, MessagePathAssumption DEF Missing
<1> QED BY <1>1, <1>2 DEF Formatted, Accepted

LEMMA NamelessAccepted ==
  ASSUME NEW text, NEW type, NEW thing,
         (type \in {2, 6} /\ thing = NULL) \/ (type \in {4, 7} /\ thing = OWN),
         ~Formatted(type, text # <<>>, thing).invalid
  PROVE  Accepted(Formatted(type, text # <<>>, thing), text)
<1>1. text # <<>>
  BY DEF Formatted
<1> QED BY <1>1 DEF Formatted, Accepted

LEMMA CallAccepted ==
  ASSUME NEW text, NEW call \in Calls(text), ~call.invalid
  PROVE  Accepted(call, text)
<1>1. CASE \E c \in MsgCodes, t \in Things \union {OWN}, type \in {1, 9} :
             call = Attributes(type, t, c, text)
  BY <1>1, AttributesAccepted
<1>2. CASE \E t \in Things, type \in {3, 5} :
             call = Formatted(type, text # <<>> /\ ~Missing(t), t)
  BY <1>2, FormattedAccepted
<1>3. CASE \E type \in {2, 6} : call = Formatted(type, text # <<>>, NULL)
  BY <1>3, NamelessAccepted
<1>4. CASE \E type \in {4, 7} : call = Formatted(type, text # <<>>, OWN)
  BY <1>4, NamelessAccepted
<1>5. CASE text # <<>> /\ call = requestWbcMc
  BY <1>5 DEF requestWbcMc, Formatted, Accepted
<1>6. \/ \E c \in MsgCodes : call = sendAttributes(c, text)
      \/ \E c \in MsgCodes : call = sendAttributesInDelimiter(c, text)
      \/ \E t \in Things, c \in MsgCodes : call = sendAttributesForLeaf(t, c, text)
      \/ \E t \in Things, c \in MsgCodes : call = sendAttributesForLeafInDelimiter(t, c, text)
      \/ \E t \in Things : call \in {registerLeafThing(t, text # <<>>),
                                    activateThingForLeaf(t, text # <<>>),
                                    requestFirmwareUpgradeComplete(t, text # <<>>)}
      \/ call \in {activateThing(text # <<>>), requestFirmwareLatestVersion(text # <<>>),
                   requestFirmwareSignData(text # <<>>), requestFileUploadComplete(text # <<>>)}
      \/ (text # <<>> /\ call = requestWbcMc)
  <2>1. \/ call \in {sendAttributes(c, text) : c \in MsgCodes}
        \/ call \in {sendAttributesInDelimiter(c, text) : c \in MsgCodes}
        \/ call \in {sendAttributesForLeaf(t, c, text) : t \in Things, c \in MsgCodes}
        \/ call \in {sendAttributesForLeafInDelimiter(t, c, text) : t \in Things, c \in MsgCodes}
        \/ call \in UNION {{registerLeafThing(t, text # <<>>), activateThingForLeaf(t, text # <<>>),
                           requestFirmwareUpgradeComplete(t, text # <<>>)} : t \in Things}
        \/ call \in {activateThing(text # <<>>), requestFirmwareLatestVersion(text # <<>>),
                    requestFirmwareSignData(text # <<>>), requestFileUploadComplete(text # <<>>)}
        \/ call \in IF text # <<>> THEN {requestWbcMc} ELSE {}
    BY DEF Calls
  <2>2. CASE \/ call \in {sendAttributes(c, text) : c \in MsgCodes}
             \/ call \in {sendAttributesInDelimiter(c, text) : c \in MsgCodes}
             \/ call \in {sendAttributesForLeaf(t, c, text) : t \in Things, c \in MsgCodes}
             \/ call \in {sendAttributesForLeafInDelimiter(t, c, text) : t \in Things, c \in MsgCodes}
    BY <2>2
  <2>3. CASE call \in UNION {{registerLeafThing(t, text # <<>>), activateThingForLeaf(t, text # <<>>),
                             requestFirmwareUpgradeComplete(t, text # <<>>)} : t \in Things}
    BY <2>3
  <2> QED BY <2>1, <2>2, <2>3
<1>7. CASE \/ \E c \in MsgCodes : call = sendAttributes(c, text)
           \/ \E c \in MsgCodes : call = sendAttributesInDelimiter(c, text)
           \/ \E t \in Things, c \in MsgCodes : call = sendAttributesForLeaf(t, c, text)
           \/ \E t \in Things, c \in MsgCodes : call = sendAttributesForLeafInDelimiter(t, c, text)
  BY <1>1, <1>7
  DEF sendAttributes, sendAttributesInDelimiter, sendAttributesForLeaf,
      sendAttributesForLeafInDelimiter
<1>8. CASE \E t \in Things : call \in {registerLeafThing(t, text # <<>>),
                                    activateThingForLeaf(t, text # <<>>),
                                    requestFirmwareUpgradeComplete(t, text # <<>>)}
  BY <1>2, <1>8 DEF registerLeafThing, activateThingForLeaf, requestFirmwareUpgradeComplete
<1>9. CASE call \in {activateThing(text # <<>>), requestFirmwareLatestVersion(text # <<>>),
                     requestFirmwareSignData(text # <<>>), requestFileUploadComplete(text # <<>>)}
  BY <1>3, <1>4, <1>9
  DEF activateThing, requestFirmwareLatestVersion, requestFirmwareSignData,
      requestFileUploadComplete
<1> QED BY <1>5, <1>6, <1>7, <1>8, <1>9

LEMMA MakeMessageFits ==
  ASSUME NEW call, NEW text, Accepted(call, text), NEW encType \in {PLAIN, AES128}, NEW data,
         NEW encrypted, NEW settings, Stands(data, text, encType, REQUEST, encrypted, settings)
  PROVE  Fits(makeMessage(call.type, encType, data, call.thing, call.msgCode),
              call.thing, call.msgCode, NULL, text, encrypted, settings)
<1>0. /\ OWN \in HeaderText /\ OWN # NULL /\ NULL \notin HeaderText
      /\ \A c \in CodeNames : Code(c) \in HeaderText /\ Code(c) \in CleanText
      /\ Things \subseteq HeaderText \union {NULL}
  BY Strings, MessagePathAssumption
<1>1. PICK type, thing, code : type = call.type /\ thing = call.thing /\ code = call.msgCode
  OBVIOUS
<1>2. PICK built : built = makeMessage(type, encType, data, thing, code)
  OBVIOUS
<1>3. CASE type \in {1, 9} /\ thing \in Things \union {OWN} /\ code \in HeaderText
  <2>1. built = Needs({thing, code}, data, Request(code, thing, encType, data))
    BY <1>2, <1>3 DEF makeMessage, register_data_message
  <2>2. built # {} => thing \in HeaderText /\ thing # NULL
    BY <1>0, <1>3, <2>1 DEF Needs
  <2>3. Fits(built, thing, code, NULL, text, encrypted, settings)
    <3>1. CASE built = {}
      BY <3>1 DEF Fits
    <3>2. CASE built # {}
      <4>1. /\ thing \in HeaderText /\ code \in HeaderText
            /\ code \in IF code = NULL THEN CleanText ELSE {code}
            /\ thing \in IF thing = NULL THEN {OWN, <<>>} ELSE {thing}
        BY <1>0, <1>3, <2>2, <3>2
      <4>2. PICK arguments : arguments = {thing, code}
        OBVIOUS
      <4> QED BY <2>1, <4>1, <4>2, RequestFits
    <3> QED BY <3>1, <3>2
  <2> QED BY <1>1, <1>2, <2>3
<1>4. CASE type = 3 /\ thing \in HeaderText /\ code = NULL
  <2>1. built = Needs({}, data, Request(Code("MSGBA0110003"), thing, encType, data))
    BY <1>2, <1>4 DEF makeMessage, register_edgething_message
  <2>2. Code("MSGBA0110003") \in HeaderText /\ Code("MSGBA0110003") \in CleanText /\ thing # NULL
    BY <1>0, <1>4, Strings DEF CodeNames
  <2>3. Fits(built, thing, code, NULL, text, encrypted, settings)
    BY <1>4, <2>1, <2>2, RequestFits
  <2> QED BY <1>1, <1>2, <2>3
<1>5. CASE type = 5 /\ thing \in HeaderText /\ code = NULL
  <2>1. built = Needs({thing}, data, Request(Code("MSGBA0420005"), thing, encType, data))
    BY <1>2, <1>5 DEF makeMessage, firmware_upgraderesult_message
  <2>2. Code("MSGBA0420005") \in HeaderText /\ Code("MSGBA0420005") \in CleanText /\ thing # NULL
    BY <1>0, <1>5, Strings DEF CodeNames
  <2>3. Fits(built, thing, code, NULL, text, encrypted, settings)
    BY <1>5, <2>1, <2>2, RequestFits
  <2> QED BY <1>1, <1>2, <2>3
<1>6. CASE type \in {2, 6} /\ thing = NULL /\ code = NULL
  <2>1. PICK name \in CodeNames : built = Needs({}, data, Request(Code(name), OWN, encType, data))
    <3>1. CASE type = 2
      BY <1>2, <3>1 DEF makeMessage, activate_rootthing_message, CodeNames
    <3>2. CASE type = 6
      BY <1>2, <3>2 DEF makeMessage, signedfirmware_message, CodeNames
    <3> QED BY <1>6, <3>1, <3>2
  <2>2. Fits(built, thing, code, NULL, text, encrypted, settings)
    <3>1. Code(name) \in HeaderText /\ Code(name) \in CleanText /\ OWN \in IF thing = NULL THEN {OWN, <<>>} ELSE {thing}
      BY <1>0, <1>6
    <3> QED BY <1>0, <1>6, <2>1, <3>1, RequestFits
  <2> QED BY <1>1, <1>2, <2>2
<1>7. CASE type \in {4, 7, 8} /\ thing = OWN /\ code = NULL
  <2>1. PICK name \in CodeNames :
          built = Needs({thing}, data, Request(Code(name), thing, encType, data))
    <3>1. CASE type = 4
      BY <1>2, <3>1 DEF makeMessage, request_activefirmware_message, CodeNames
    <3>2. CASE type = 7
      BY <1>2, <3>2 DEF makeMessage, fileupload_result_message, CodeNames
    <3>3. CASE type = 8
      BY <1>2, <3>3 DEF makeMessage, wbc_mc, CodeNames
    <3> QED BY <1>7, <3>1, <3>2, <3>3
  <2>2. Fits(built, thing, code, NULL, text, encrypted, settings)
    <3>1. Code(name) \in HeaderText /\ Code(name) \in CleanText
      BY <1>0
    <3> QED BY <1>0, <1>7, <2>1, <3>1, RequestFits
  <2> QED BY <1>1, <1>2, <2>2
<1> QED BY <1>1, <1>3, <1>4, <1>5, <1>6, <1>7 DEF Accepted

LEMMA AskInv == Inv /\ Ask => Inv'
<1> SUFFICES ASSUME Inv, Ask PROVE Inv'
  OBVIOUS
<1>1. PICK text \in Text \union {<<>>} : \E call \in Calls(text) :
        IF call.invalid
        THEN pc' = "invalid" /\ UNCHANGED <<conf, asked, message, tries, wire, got>>
        ELSE \E data \in Sealed(text) :
               Make(makeMessage(call.type, Label, data, call.thing, call.msgCode),
                    call.thing, call.msgCode, NULL, text, conf.bAES128Used)
  BY DEF Ask
<1>2. PICK call \in Calls(text) :
        IF call.invalid
        THEN pc' = "invalid" /\ UNCHANGED <<conf, asked, message, tries, wire, got>>
        ELSE \E data \in Sealed(text) :
               Make(makeMessage(call.type, Label, data, call.thing, call.msgCode),
                    call.thing, call.msgCode, NULL, text, conf.bAES128Used)
  BY <1>1
<1>3. CASE call.invalid
  BY <1>2, <1>3 DEF Inv, OnItsWay, ReadsBack, Tries
<1>4. CASE ~call.invalid
  <2>1. PICK data \in Sealed(text) :
          Make(makeMessage(call.type, Label, data, call.thing, call.msgCode),
               call.thing, call.msgCode, NULL, text, conf.bAES128Used)
    BY <1>2, <1>4
  <2>2. Accepted(call, text) /\ text \in Text
    <3>1. Accepted(call, text)
      BY <1>4, CallAccepted
    <3> QED BY <3>1 DEF Accepted
  <2>3. conf.format \in {"J", "D"} /\ conf.bAES128Used \in BOOLEAN
    BY DEF Inv
  <2>4. PICK label, encrypted, settings :
          label = Label /\ encrypted = conf.bAES128Used /\ settings = conf
    OBVIOUS
  <2>5. label \in {PLAIN, AES128}
    BY <2>4 DEF Label
  <2>6. Stands(data, text, label, REQUEST, encrypted, settings)
    <3>1. Stands(data, text, Label, REQUEST, conf.bAES128Used, conf)
      BY <2>2, <2>3, SealedStands
    <3> QED BY <2>4, <3>1
  <2>7. PICK built : built = makeMessage(call.type, label, data, call.thing, call.msgCode)
    OBVIOUS
  <2>8. Fits(built, call.thing, call.msgCode, NULL, text, encrypted, settings)
    BY <2>2, <2>5, <2>6, <2>7, MakeMessageFits
  <2>9. Make(built, call.thing, call.msgCode, NULL, text, encrypted) /\ pc = "call"
    BY <2>1, <2>4, <2>7 DEF Ask
  <2>10. Fits(built, call.thing, call.msgCode, NULL, text, encrypted, conf)
    BY <2>4, <2>8
  <2> QED BY <2>9, <2>10, MakeInv
<1> QED BY <1>3, <1>4

\* A request that the caller gives no code for.
LEMMA CodelessFits ==
  ASSUME NEW msgCode \in CleanText, NEW tId \in HeaderText, NEW encType \in {PLAIN, AES128}, NEW data,
         NEW thing, tId \in IF thing = NULL THEN {OWN, <<>>} ELSE {thing},
         NEW text, NEW encrypted, NEW settings, Stands(data, text, encType, REQUEST, encrypted, settings)
  PROVE  Fits(Request(msgCode, tId, encType, data), thing, NULL, NULL, text, encrypted, settings)
<1>1. ASSUME NEW header \in Request(msgCode, tId, encType, data)
      PROVE  /\ Names(header, thing, NULL, NULL)
             /\ Stands(header.data, text, header.encType, header.msgType, encrypted, settings)
  <2>1. header \in Built(REQUEST, msgCode, tId, UUID, encType, data)
    BY <1>1 DEF Request
  <2>2. /\ header.msgType = REQUEST /\ header.msgCode = msgCode /\ header.tId = tId
        /\ header.msgId = UUID /\ header.encType = encType /\ header.data = data
    BY <2>1, BuiltNames
  <2>3. Names(header, thing, NULL, NULL)
    BY <2>2, CleanIs DEF Names
  <2> QED BY <2>2, <2>3
<1> QED BY <1>1 DEF Fits

LEMMA NeedsFits ==
  ASSUME NEW arguments, NEW data, NEW built, NEW thing, NEW code, NEW msgId, NEW text,
         NEW encrypted, NEW settings, Fits(built, thing, code, msgId, text, encrypted, settings)
  PROVE  Fits(Needs(arguments, data, built), thing, code, msgId, text, encrypted, settings)
BY DEF Needs, Fits

\* What is not encrypted stands for itself; labelled encrypted, it is none.
LEMMA PlainStands ==
  ASSUME NEW text \in Text \union {<<>>, DUMMY}, NEW settings, NEW msgType
  PROVE  Stands(text, text, PLAIN, msgType, FALSE, settings)
<1>1. text \in Bytes
  <2>1. CASE text = <<>>
    BY <2>1 DEF Bytes
  <2>2. CASE text # <<>>
    BY <2>2, TextType
  <2> QED BY <2>1, <2>2
<1>2. PLAIN # AES128
  BY DEF PLAIN, AES128
<1> QED BY <1>1, <1>2 DEF Stands

LEMMA UploadInv == Inv /\ requestFileUploadUri => Inv'
<1> SUFFICES ASSUME Inv, requestFileUploadUri PROVE Inv'
  OBVIOUS
<1>1. PICK label, built, settings : label = Label /\ settings = conf
        /\ built = Needs({OWN}, DUMMY, Request(Code("MSGBA0410001"), OWN, label, <<>>))
  OBVIOUS
<1>2. Make(built, OWN, NULL, NULL, <<>>, FALSE) /\ pc = "call"
  BY <1>1 DEF requestFileUploadUri, fileuploaduri_request_message
<1>3. label \in {PLAIN, AES128}
  BY <1>1 DEF Label
<1>4. Stands(<<>>, <<>>, label, REQUEST, FALSE, settings)
  <2>1. <<>> \notin NotUtf8
    BY ConvertersAssumption
  <2> QED BY <2>1 DEF Stands, Bytes
<1>5. Fits(built, OWN, NULL, NULL, <<>>, FALSE, settings)
  <2>1. OWN \in HeaderText /\ OWN # NULL /\ Code("MSGBA0410001") \in CleanText
    BY Strings DEF CodeNames
  <2>2. PICK code : code = Code("MSGBA0410001")
    OBVIOUS
  <2>3. Fits(Request(code, OWN, label, <<>>), OWN, NULL, NULL, <<>>, FALSE, settings)
    BY <1>3, <1>4, <2>1, <2>2, CodelessFits
  <2> QED BY <1>1, <2>2, <2>3, NeedsFits
<1>6. Fits(built, OWN, NULL, NULL, <<>>, FALSE, conf)
  BY <1>1, <1>5
<1> QED BY <1>2, <1>6, MakeInv

LEMMA PlainInv == Inv /\ Plain => Inv'
<1> SUFFICES ASSUME Inv, Plain PROVE Inv'
  OBVIOUS
<1>0. /\ OWN \in HeaderText /\ OWN # NULL /\ <<>> \in HeaderText
      /\ NULL \notin HeaderText /\ NULL \in HeaderText \union {NULL}
      /\ \A c \in CodeNames : Code(c) \in CleanText
      /\ PLAIN \in {PLAIN, AES128} /\ DUMMY \in Text \union {<<>>, DUMMY}
      /\ Things \subseteq HeaderText \union {NULL} /\ pc = "call"
  BY Strings, MessagePathAssumption DEF Plain
<1> DEFINE Code0 == Code("MSGAUTH00000")
           Code2 == Code("MSGAUTH00002")
           CodeH == Code("MSGBA0030001")
           CodeI == Code("MSGBA0120001")
           CodeB == Code("MSGBA0210011")
<1>1. {Code0, Code2, CodeH, CodeI, CodeB} \subseteq CleanText
  BY <1>0 DEF CodeNames
<1> HIDE DEF Code0, Code2, CodeH, CodeI, CodeB
<1>2. PICK settings : settings = conf
  OBVIOUS
<1>3. CASE \E text \in Text \union {<<>>} :
             Make(authorize_message(PLAIN, text), OWN, NULL, NULL, text, FALSE)
  <2>1. PICK text \in Text \union {<<>>, DUMMY} :
          Make(authorize_message(PLAIN, text), OWN, NULL, NULL, text, FALSE)
    BY <1>3
  <2>2. PICK built : built = Request(Code2, OWN, PLAIN, text)
    OBVIOUS
  <2>3. Make(built, OWN, NULL, NULL, text, FALSE)
    BY <2>1, <2>2 DEF authorize_message, Code2
  <2>4. Stands(text, text, PLAIN, REQUEST, FALSE, settings)
    BY PlainStands
  <2>5. Fits(built, OWN, NULL, NULL, text, FALSE, settings)
    <3>1. Fits(Request(Code2, OWN, PLAIN, text), OWN, NULL, NULL, text, FALSE, settings)
      BY <1>0, <1>1, <2>4, CodelessFits
    <3> QED BY <2>2, <3>1
  <2> QED BY <1>0, <1>2, <2>3, <2>5, MakeInv
<1>4. ASSUME NEW code \in {Code0, CodeH}, Make(Request(code, <<>>, PLAIN, DUMMY), NULL, NULL, NULL, DUMMY, FALSE)
      PROVE  Inv'
  <2>1. PICK built : built = Request(code, <<>>, PLAIN, DUMMY)
    OBVIOUS
  <2>2. Make(built, NULL, NULL, NULL, DUMMY, FALSE)
    BY <1>4, <2>1
  <2>3. Stands(DUMMY, DUMMY, PLAIN, REQUEST, FALSE, settings)
    BY PlainStands
  <2>4. Fits(built, NULL, NULL, NULL, DUMMY, FALSE, settings)
    <3>1. Fits(Request(code, <<>>, PLAIN, DUMMY), NULL, NULL, NULL, DUMMY, FALSE, settings)
      BY <1>0, <1>1, <2>3, CodelessFits
    <3> QED BY <2>1, <3>1
  <2> QED BY <1>0, <1>2, <2>2, <2>4, MakeInv
<1>5. CASE \E t \in Things : Make(inactivate_thing_message(t), t, NULL, NULL, DUMMY, FALSE)
  <2>1. PICK t \in Things : Make(inactivate_thing_message(t), t, NULL, NULL, DUMMY, FALSE)
    BY <1>5
  <2>2. PICK built : built = Needs({t}, DUMMY, Request(CodeI, t, PLAIN, DUMMY))
    OBVIOUS
  <2>3. Make(built, t, NULL, NULL, DUMMY, FALSE)
    BY <2>1, <2>2 DEF inactivate_thing_message, CodeI
  <2>4. Stands(DUMMY, DUMMY, PLAIN, REQUEST, FALSE, settings)
    BY PlainStands
  <2>5. Fits(built, t, NULL, NULL, DUMMY, FALSE, settings)
    <3>1. CASE built = {}
      BY <3>1 DEF Fits
    <3>2. CASE built # {}
      <4>1. t \in HeaderText /\ t # NULL /\ built = Request(CodeI, t, PLAIN, DUMMY)
        BY <1>0, <2>2, <3>2 DEF Needs
      <4>2. t \in IF t = NULL THEN {OWN, <<>>} ELSE {t}
        BY <4>1
      <4>3. Fits(Request(CodeI, t, PLAIN, DUMMY), t, NULL, NULL, DUMMY, FALSE, settings)
        BY <1>0, <1>1, <2>4, <4>1, <4>2, CodelessFits
      <4> QED BY <4>1, <4>3
    <3> QED BY <3>1, <3>2
  <2> QED BY <1>0, <1>2, <2>3, <2>5, MakeInv
<1>6. CASE \E text \in Text : Make(bulk_insert_message(PLAIN, text), OWN, NULL, NULL, text, FALSE)
  <2>1. PICK text \in Text \union {<<>>, DUMMY} :
          Make(bulk_insert_message(PLAIN, text), OWN, NULL, NULL, text, FALSE)
    BY <1>6
  <2>2. PICK built : built = Needs({}, text, Request(CodeB, OWN, PLAIN, text))
    OBVIOUS
  <2>3. Make(built, OWN, NULL, NULL, text, FALSE)
    BY <2>1, <2>2 DEF bulk_insert_message, CodeB
  <2>4. Stands(text, text, PLAIN, REQUEST, FALSE, settings)
    BY PlainStands
  <2>5. Fits(built, OWN, NULL, NULL, text, FALSE, settings)
    <3>1. Fits(Request(CodeB, OWN, PLAIN, text), OWN, NULL, NULL, text, FALSE, settings)
      BY <1>0, <1>1, <2>4, CodelessFits
    <3> QED BY <2>2, <3>1, NeedsFits
  <2> QED BY <1>0, <1>2, <2>3, <2>5, MakeInv
<1> QED
  BY <1>3, <1>4, <1>5, <1>6
  DEF Plain, heartbeat_message, preauthorize_message, Code0, CodeH

LEMMA AnswerInv == Inv /\ AnswerRequest => Inv'
<1> SUFFICES ASSUME Inv, AnswerRequest PROVE Inv'
  OBVIOUS
<1>0. /\ conf.format \in {"J", "D"} /\ conf.bAES128Used \in BOOLEAN /\ pc = "call"
      /\ MsgId \in HeaderText \union {NULL}
  BY Strings DEF Inv, AnswerRequest
<1> DEFINE data(t, encrypted) == IF encrypted THEN Sealed(t) ELSE {t}
           label(encrypted) == IF encrypted THEN AES128 ELSE PLAIN
<1>1. PICK encrypted \in {FALSE, conf.bAES128Used}, text \in Text :
        \/ \E d \in data(text, encrypted) :
             Make(response_passivefirmware_message(label(encrypted), d, MsgId, OWN),
                  OWN, NULL, MsgId, text, encrypted)
        \/ \E d \in data(text, encrypted) :
             Make(response_notirequest_message(label(encrypted), d, MsgId),
                  NULL, NULL, MsgId, text, encrypted)
        \/ \E d \in data(DUMMY, encrypted),
              code \in {Code("Basic-AttrGroup"), Code("Basic-Provisioning")} :
             Make(answer_message(AES128, d, MsgId, code), OWN, code, MsgId, DUMMY, encrypted)
  BY DEF AnswerRequest
<1>2. PICK settings : settings = conf
  OBVIOUS
<1>3. encrypted \in BOOLEAN
  BY <1>0
<1>4. ASSUME NEW t \in Text \union {DUMMY}, NEW d \in data(t, encrypted)
      PROVE  Stands(d, t, label(encrypted), ANSWER, encrypted, settings)
  <2>1. CASE encrypted
    <3>1. conf.bAES128Used /\ Label = AES128 /\ d \in Sealed(t)
      BY <1>1, <1>4, <2>1 DEF Label
    <3>2. Stands(d, t, Label, ANSWER, conf.bAES128Used, conf)
      BY <1>0, <3>1, SealedStands
    <3> QED BY <1>2, <2>1, <3>1, <3>2 DEF Stands
  <2>2. CASE ~encrypted
    <3>1. d = t
      BY <1>4, <2>2
    <3>2. Stands(t, t, PLAIN, ANSWER, FALSE, settings)
      BY PlainStands
    <3> QED BY <2>2, <3>1, <3>2 DEF Stands
  <2> QED BY <2>1, <2>2
<1>5. ASSUME NEW d \in data(DUMMY, encrypted)
      PROVE  Stands(d, DUMMY, AES128, ANSWER, encrypted, settings)
  <2>1. CASE encrypted
    BY <1>4, <2>1
  <2>2. CASE ~encrypted
    <3>1. d = DUMMY /\ DUMMY \in Bytes
      BY <1>5, <2>2, TextType
    <3>2. decrypt(settings.format, DUMMY) = <<>> /\ DUMMY \notin NotUtf8
      BY <1>0, <1>2, DummyIsNone
    <3> QED BY <2>2, <3>1, <3>2 DEF Stands
  <2> QED BY <2>1, <2>2
<1>6. /\ OWN \in HeaderText /\ OWN # NULL /\ <<>> \in HeaderText
      /\ Code("MSGBA0420004") \in CleanText /\ Code("MSGBA0300002") \in CleanText
      /\ Code("Basic-AttrGroup") \in CleanText /\ Code("Basic-Provisioning") \in CleanText
      /\ NULL \notin HeaderText
      /\ label(encrypted) \in {PLAIN, AES128}
  BY Strings DEF CodeNames
<1>7. CASE \E d \in data(text, encrypted) :
             Make(response_passivefirmware_message(label(encrypted), d, MsgId, OWN),
                  OWN, NULL, MsgId, text, encrypted)
  <2>1. PICK d \in data(text, encrypted) :
             Make(response_passivefirmware_message(label(encrypted), d, MsgId, OWN),
                  OWN, NULL, MsgId, text, encrypted)
    BY <1>7
  <2>2. Stands(d, text, label(encrypted), ANSWER, encrypted, settings)
    BY <1>4
  <2>3. PICK l, code : l = label(encrypted) /\ code = Code("MSGBA0420004")
    OBVIOUS
  <2>4. PICK built : built = Needs({OWN, MsgId}, d, Built(ANSWER, code, OWN, MsgId, l, d))
    OBVIOUS
  <2>5. Make(built, OWN, NULL, MsgId, text, encrypted)
    BY <2>1, <2>3, <2>4 DEF response_passivefirmware_message
  <2>6. Fits(built, OWN, NULL, MsgId, text, encrypted, settings)
    BY <1>6, <2>2, <2>3, <2>4, AnswerFits, NeedsFits
  <2> QED BY <1>0, <1>2, <2>5, <2>6, MakeInv
<1>8. CASE \E d \in data(text, encrypted) :
             Make(response_notirequest_message(label(encrypted), d, MsgId),
                  NULL, NULL, MsgId, text, encrypted)
  <2>1. PICK d \in data(text, encrypted) :
             Make(response_notirequest_message(label(encrypted), d, MsgId),
                  NULL, NULL, MsgId, text, encrypted)
    BY <1>8
  <2>2. Stands(d, text, label(encrypted), ANSWER, encrypted, settings)
    BY <1>4
  <2>3. PICK l, code : l = label(encrypted) /\ code = Code("MSGBA0300002")
    OBVIOUS
  <2>4. PICK built : built = Needs({MsgId}, d, Built(ANSWER, code, <<>>, MsgId, l, d))
    OBVIOUS
  <2>5. Make(built, NULL, NULL, MsgId, text, encrypted)
    BY <2>1, <2>3, <2>4 DEF response_notirequest_message
  <2>6. Fits(built, NULL, NULL, MsgId, text, encrypted, settings)
    BY <1>6, <2>2, <2>3, <2>4, AnswerFits, NeedsFits
  <2> QED BY <1>0, <1>2, <2>5, <2>6, MakeInv
<1>9. CASE \E d \in data(DUMMY, encrypted),
              code \in {Code("Basic-AttrGroup"), Code("Basic-Provisioning")} :
             Make(answer_message(AES128, d, MsgId, code), OWN, code, MsgId, DUMMY, encrypted)
  <2>1. PICK d \in data(DUMMY, encrypted),
              code \in {Code("Basic-AttrGroup"), Code("Basic-Provisioning")} :
             Make(answer_message(AES128, d, MsgId, code), OWN, code, MsgId, DUMMY, encrypted)
    BY <1>9
  <2>2. Stands(d, DUMMY, AES128, ANSWER, encrypted, settings)
    BY <1>5
  <2>3. code \in CleanText
    BY <1>6, <2>1
  <2>4. PICK built : built = Needs({MsgId}, d, Built(ANSWER, code, OWN, MsgId, AES128, d))
    OBVIOUS
  <2>5. Make(built, OWN, code, MsgId, DUMMY, encrypted)
    BY <2>1, <2>4 DEF answer_message
  <2>6. Fits(built, OWN, code, MsgId, DUMMY, encrypted, settings)
    BY <1>6, <2>2, <2>3, <2>4, AnswerFits, NeedsFits
  <2> QED BY <1>0, <1>2, <2>5, <2>6, MakeInv
<1> QED BY <1>1, <1>7, <1>8, <1>9

\* A try compresses the message once more, or leaves it.
LEMMA PreparedDescends ==
  ASSUME Inv, pc = "send"
  PROVE  \E b, n : n \in 0 .. tries + 1 /\ Descendant(Prepared, b, n, asked, conf)
<1>1. PICK b, n : n \in 0 .. tries /\ Descendant(message, b, n, asked, conf)
  BY DEF Inv, OnItsWay
<1>2. tries \in Nat /\ tries < Tries /\ n \in Nat /\ n < Tries
  BY <1>1 DEF Inv, Tries
<1>3. CASE Prepared = message
  BY <1>1, <1>2, <1>3
<1>4. CASE Prepared # message
  <2>1. conf.format = "D" /\ Prepared = compressed(message) /\ message.datalen > 0
    BY <1>4 DEF Prepared, Converted, needCompress
  <2>2. Fresh(b) /\ message = Layers(b, n) /\ (n > 0 => b.data # <<>>)
    BY <1>1 DEF Descendant, Original
  <2>3. b.data # <<>>
    <3>1. CASE n = 0
      BY <2>1, <2>2, <3>1 DEF Layers, Fresh
    <3> QED BY <1>2, <2>2, <3>1
  <2>4. Prepared = Layers(b, n + 1)
    <3>1. n \in 0 .. Tries - 1
      BY <1>2 DEF Tries
    <3> QED BY <2>1, <2>2, <3>1, LayersNext
  <2>5. n + 1 \in 0 .. tries + 1
    BY <1>1, <1>2
  <2>6. Descendant(Prepared, b, n + 1, asked, conf)
    BY <1>1, <2>1, <2>3, <2>4 DEF Descendant
  <2> QED BY <2>5, <2>6
<1> QED BY <1>3, <1>4

LEMMA SendFailsInv == Inv /\ SendFails => Inv'
<1> SUFFICES ASSUME Inv, SendFails PROVE Inv'
  OBVIOUS
<1>1. /\ pc = "send" /\ message' = Prepared /\ tries' = tries + 1
      /\ conf' = conf /\ asked' = asked
      /\ pc' = IF tries' = Tries THEN "dropped" ELSE "send"
  BY DEF SendFails
<1>2. PICK b, n : n \in 0 .. tries' /\ Descendant(message', b, n, asked', conf')
  BY <1>1, PreparedDescends
<1>3. tries \in 0 .. Tries /\ tries < Tries
  BY <1>1 DEF Inv
<1> QED BY <1>1, <1>2, <1>3 DEF Inv, OnItsWay, ReadsBack, Tries

LEMMA SendOkInv == Inv /\ SendOk => Inv'
<1> SUFFICES ASSUME Inv, SendOk PROVE Inv'
  OBVIOUS
<1>1. /\ pc = "send" /\ pc' = "sent" /\ message' = Prepared /\ tries' = tries + 1
      /\ conf' = conf /\ asked' = asked /\ wire' = Payload
  BY DEF SendOk
<1>2. PICK b, n : n \in 0 .. tries' /\ Descendant(message', b, n, asked', conf')
  BY <1>1, PreparedDescends
<1>3. tries \in 0 .. Tries /\ tries < Tries
  BY <1>1 DEF Inv
<1>4. wire' = IF conf'.format = "D" THEN delimiterPayload(message') ELSE jsonPayload(message')
  BY <1>1 DEF Payload
<1> QED BY <1>1, <1>2, <1>3, <1>4 DEF Inv, OnItsWay, ReadsBack, Tries

\* A message on its way can be written and has the fields of its original.
LEMMA OnItsWayType ==
  ASSUME NEW m, NEW b, NEW n \in 0 .. Tries, NEW wish, NEW settings, Descendant(m, b, n, wish, settings)
  PROVE  /\ m \in Message /\ m.datalen = Len(m.data) /\ Len(m.encType) = n + 1
         /\ m.thingName = b.thingName /\ m.msgDate = b.msgDate /\ m.authToken = b.authToken
         /\ m.tId = b.tId /\ m.msgCode = b.msgCode /\ m.msgId = b.msgId
         /\ Peel(m) = IF n = 0 THEN b ELSE Layers(b, n - 1)
         /\ Peeled(m) = b
<1>1. Fresh(b) /\ m = Layers(b, n) /\ (n > 0 => b.data # <<>>)
  BY DEF Descendant, Original
<1>2. CASE b.data # <<>>
  <2>1. /\ Written(Layers(b, n), b, n)
        /\ Peel(Layers(b, n)) = IF n = 0 THEN b ELSE Layers(b, n - 1)
        /\ Peeled(Layers(b, n)) = b
    BY <1>1, <1>2, LayersWritten
  <2> QED BY <1>1, <2>1 DEF Written
<1>3. CASE b.data = <<>>
  <2>1. n = 0 /\ m = b
    BY <1>1, <1>3 DEF Layers
  <2>2. Len(b.encType) = 1
    BY <1>1 DEF Fresh, PLAIN, AES128
  <2> QED BY <1>1, <2>1, <2>2, PeelFresh DEF Fresh, Peeled
<1> QED BY <1>2, <1>3

\* What holds a delimiter is a text the library has been given.
LEMMA GarbleInv == Inv /\ Garble => Inv'
<1> SUFFICES ASSUME Inv, Garble PROVE Inv'
  OBVIOUS
<1>1. /\ pc = "sent" /\ pc' = "garbled" /\ conf.format = "D"
      /\ conf' = conf /\ asked' = asked /\ message' = message /\ tries' = tries
      /\ wire' = wire /\ got' = got
  BY DEF Garble, Shifted
<1>2. PICK field \in HeaderFields : HoldsBar(message[field])
  BY DEF Garble, Shifted
<1>3. PICK b, n : n \in 0 .. tries /\ Descendant(message, b, n, asked, conf)
  BY <1>1 DEF Inv, OnItsWay
<1>4. n \in 0 .. Tries
  BY <1>3 DEF Inv, Tries
<1>5. /\ message \in Message /\ message.thingName = b.thingName /\ message.tId = b.tId
      /\ message.msgCode = b.msgCode /\ message.msgId = b.msgId
  BY <1>3, <1>4, OnItsWayType
<1>6. ~HoldsBar(message.msgType) /\ ~HoldsBar(message.encType)
  BY <1>5, CleanIs DEF Message
<1>7. field \in {"thingName", "tId", "msgCode", "msgId", "authToken"}
  BY <1>2, <1>6 DEF HeaderFields
<1>8. /\ b.thingName = OWN
      /\ b.tId \in IF asked.thing = NULL THEN {OWN, <<>>} ELSE {asked.thing}
      /\ b.msgCode \in IF asked.msgCode = NULL THEN CleanText ELSE {asked.msgCode}
      /\ b.msgId = IF asked.msgId = NULL THEN UUID ELSE asked.msgId
  BY <1>3 DEF Descendant, Original, Names
<1>9. ~HoldsBar(<<>>) /\ ~HoldsBar(UUID) /\ \A text \in CleanText : ~HoldsBar(text)
  BY CleanIs, Strings DEF HoldsBar
<1>10. \E text \in {OWN, asked.thing, asked.msgCode, asked.msgId, message.authToken} : HoldsBar(text)
  <2>1. CASE field = "thingName"
    BY <1>2, <1>5, <1>8, <2>1
  <2>2. CASE field = "tId"
    BY <1>2, <1>5, <1>8, <1>9, <2>2
  <2>3. CASE field = "msgCode"
    BY <1>2, <1>5, <1>8, <1>9, <2>3
  <2>4. CASE field = "msgId"
    BY <1>2, <1>5, <1>8, <1>9, <2>4
  <2>5. CASE field = "authToken"
    BY <1>2, <2>5
  <2> QED BY <1>7, <2>1, <2>2, <2>3, <2>4, <2>5
<1> QED BY <1>1, <1>3, <1>10 DEF Inv, OnItsWay, ReadsBack

LEMMA ArriveInv == Inv /\ onMessageArrive => Inv'
<1> SUFFICES ASSUME Inv, onMessageArrive PROVE Inv'
  OBVIOUS
<1>1. /\ pc = "sent" /\ pc' = "received"
      /\ conf' = conf /\ asked' = asked /\ message' = message /\ tries' = tries /\ wire' = wire
      /\ got' = IF conf.format = "D" THEN delimiterMessage(wire) ELSE jsonMessage(wire)
      /\ wire = IF conf.format = "D" THEN delimiterPayload(message) ELSE jsonPayload(message)
  BY DEF onMessageArrive, Inv
<1>2. PICK b, n : n \in 0 .. tries /\ Descendant(message, b, n, asked, conf)
  BY <1>1 DEF Inv, OnItsWay
<1>3. n \in 0 .. Tries
  BY <1>2 DEF Inv, Tries
<1>4. message \in Message /\ message.datalen = Len(message.data)
  BY <1>2, <1>3, OnItsWayType
<1>5. conf.format = "D" => delimiterMessage(delimiterPayload(message)) = Peel(message)
  <2> SUFFICES ASSUME conf.format = "D"
               PROVE  delimiterMessage(delimiterPayload(message)) = Peel(message)
    OBVIOUS
  <2>1. \A f \in HeaderFields : ~HoldsBar(message[f])
    BY DEF onMessageArrive, Shifted
  <2>2. delimiterFields(delimiterPayload(message)) = message
    BY <1>4, <2>1, DelimiterRoundTrip
  <2> QED BY <2>2 DEF delimiterMessage, Peel
<1>6. conf.format # "D" => jsonMessage(jsonPayload(message)) = Read(message)
  <2> SUFFICES ASSUME conf.format # "D"
               PROVE  jsonMessage(jsonPayload(message)) = Read(message)
    OBVIOUS
  <2>1. message = b /\ conf.format = "J"
    BY <1>2, <1>3 DEF Descendant, Layers, Inv
  <2>2. b.encType \in {PLAIN, AES128} /\ (b.encType = AES128 => b.data \notin NotUtf8)
    BY <1>2, <2>1 DEF Descendant, Original, Fresh, Stands
  <2> QED BY <1>4, <2>1, <2>2, JsonRoundTrip
<1>7. got' = Arrived(message', conf'.format)
  BY <1>1, <1>5, <1>6 DEF Arrived
<1> QED BY <1>1, <1>2, <1>7 DEF Inv, OnItsWay, ReadsBack

\* A message that is not compressed is its own original.
LEMMA PeeledPlain ==
  ASSUME NEW m, m.encType \in {PLAIN, AES128}
  PROVE  Peeled(m) = m
<1>1. Peel(m) = m
  BY DEF Peel, IsCompressed, PLAIN, AES128, Z
<1> QED BY <1>1 DEF Peeled

\* What is said of the header at the other end, whatever becomes of the data.
HeaderReads(m, b) ==
  /\ m.msgDate = b.msgDate /\ m.encType = b.encType /\ m.msgType = b.msgType
  /\ m.thingName = Carried(b.thingName) /\ m.authToken = Carried(b.authToken)
  /\ m.tId = Carried(b.tId) /\ m.msgCode = Carried(b.msgCode) /\ m.msgId = Carried(b.msgId)

\* The three forms in which a message arrives: without what the JSON format loses, as its
\* builder left it, or compressed, which an encrypted label no longer shows.
LEMMA Arrivals ==
  ASSUME Inv, pc = "received", NEW b, NEW n \in 0 .. tries, Descendant(message, b, n, asked, conf)
  PROVE  \/ /\ conf.format = "J" /\ b.encType = PLAIN
            /\ HeaderReads(got, b) /\ got.data = <<>> /\ got.datalen = 0
         \/ /\ conf.format = "D" \/ b.encType = AES128
            /\ HeaderReads(got, b) /\ got.data = b.data /\ got.datalen = b.datalen
            /\ DOMAIN got = Fields
         \/ /\ conf.format = "D" /\ Peeled(got) = b /\ got.encType # AES128
            /\ got.datalen = Len(got.data) /\ Len(got.encType) <= tries
<1>1. Fresh(b) /\ message = Layers(b, n) /\ (n > 0 => b.data # <<>> /\ conf.format = "D")
  BY DEF Descendant, Original
<1>2. got = Arrived(message, conf.format) /\ conf.format \in {"J", "D"} /\ tries \in 0 .. Tries
  BY DEF Inv
<1>3. CASE conf.format = "J"
  <2>1. message = b
    BY <1>1, <1>3 DEF Layers
  <2>2. got = Read(b)
    BY <1>2, <1>3, <2>1 DEF Arrived
  <2>3. \A text : Carried(text) = Kept(text)
    BY <1>3 DEF Carried, Kept
  <2>4. HeaderReads(got, b) /\ DOMAIN got = Fields
    BY <2>2, <2>3 DEF Read, HeaderReads, Fields
  <2>5. CASE b.encType = PLAIN
    BY <1>3, <2>2, <2>4, <2>5 DEF Read
  <2>6. CASE b.encType # PLAIN
    <3>1. got.data = b.data /\ got.datalen = Len(b.data) /\ b.encType = AES128
      BY <1>1, <2>2, <2>6 DEF Read, Fresh
    <3> QED BY <1>1, <2>4, <3>1 DEF Fresh
  <2> QED BY <2>5, <2>6
<1>4. CASE conf.format = "D"
  <2>1. got = Peel(message) /\ n \in 0 .. Tries
    BY <1>2, <1>4 DEF Arrived, Tries
  <2>2. got = IF n = 0 THEN b ELSE Layers(b, n - 1)
    BY <2>1, OnItsWayType
  <2>3. CASE n \in {0, 1}
    <3>1. got = b
      BY <2>2, <2>3 DEF Layers
    <3>2. HeaderReads(b, b) /\ DOMAIN b = Fields
      BY <1>1, <1>4 DEF HeaderReads, Carried, Fresh, Message, Fields
    <3> QED BY <1>4, <3>1, <3>2
  <2>4. CASE n \notin {0, 1}
    <3>1. n - 1 \in 0 .. Tries /\ n - 1 > 0 /\ (n - 1) + 1 <= tries /\ b.data # <<>>
      BY <1>1, <1>2, <2>1, <2>4 DEF Tries
    <3>2. PICK k \in 0 .. Tries : k = n - 1
      BY <3>1
    <3>3. got = Layers(b, k)
      BY <2>2, <2>4, <3>2
    <3>4. Written(got, b, k) /\ Peeled(got) = b
      BY <1>1, <3>1, <3>2, <3>3, LayersWritten
    <3>5. Len(got.encType) = k + 1 /\ got.datalen = Len(got.data)
      BY <3>4 DEF Written
    <3>6. Len(AES128) = 1
      BY DEF AES128
    <3>7. got.encType # AES128 /\ Len(got.encType) <= tries
      <4>1. k \in Nat /\ k + 1 > 1 /\ k + 1 <= tries
        BY <3>1, <3>2 DEF Tries
      <4>2. Len(got.encType) # Len(AES128)
        BY <3>5, <3>6, <4>1
      <4> QED BY <3>5, <4>1, <4>2
    <3> QED BY <1>4, <3>4, <3>5, <3>7
  <2> QED BY <2>3, <2>4
<1> QED BY <1>2, <1>3, <1>4

\* What ReadsBack says of the header.
ReadableHeader(m, sent, b) ==
  /\ m.msgDate = sent.msgDate /\ m.encType = b.encType
  /\ m.thingName = Carried(OWN) /\ m.authToken = Carried(sent.authToken)
  /\ m.tId \in IF asked.thing = NULL THEN {Carried(OWN), <<>>} ELSE {Carried(asked.thing)}
  /\ asked.msgCode # NULL => m.msgCode = Carried(asked.msgCode)
  /\ m.msgType = IF asked.msgId = NULL THEN REQUEST ELSE ANSWER
  /\ m.msgId = IF asked.msgId = NULL THEN UUID ELSE Carried(asked.msgId)

LEMMA HeaderIsAsked ==
  ASSUME NEW m, NEW b, HeaderReads(m, b), NEW n, Descendant(message, b, n, asked, conf),
         message.msgDate = b.msgDate, message.authToken = b.authToken
  PROVE  ReadableHeader(m, message, b)
<1>1. b.thingName = OWN /\ Names(b, asked.thing, asked.msgCode, asked.msgId)
  BY DEF Descendant, Original
<1>2. Carried(<<>>) = <<>> /\ Carried(UUID) = UUID
  BY Strings, CleanIs DEF Carried
<1>3. m.tId \in IF asked.thing = NULL THEN {Carried(OWN), <<>>} ELSE {Carried(asked.thing)}
  <2>1. b.tId \in IF asked.thing = NULL THEN {OWN, <<>>} ELSE {asked.thing}
    BY <1>1 DEF Names
  <2>2. m.tId = Carried(b.tId)
    BY DEF HeaderReads
  <2> QED BY <1>2, <2>1, <2>2
<1>4. asked.msgCode # NULL => m.msgCode = Carried(asked.msgCode)
  BY <1>1 DEF Names, HeaderReads
<1>5. m.msgId = IF asked.msgId = NULL THEN UUID ELSE Carried(asked.msgId)
  BY <1>1, <1>2 DEF Names, HeaderReads
<1>6. m.msgType = IF asked.msgId = NULL THEN REQUEST ELSE ANSWER
  BY <1>1 DEF Names, HeaderReads
<1> QED BY <1>1, <1>3, <1>4, <1>5, <1>6 DEF HeaderReads, ReadableHeader

LEMMA DeliveredReadsBack ==
  ASSUME Inv, pc = "received", pc' = "delivered", UNCHANGED <<conf, asked, message, tries, wire>>,
         NEW b, NEW n \in 0 .. tries, Descendant(message, b, n, asked, conf),
         NEW m, m = Peeled(got'), HeaderReads(m, b), Len(got'.encType) <= tries,
         (IF asked.encrypted /\ ~(asked.encrypted /\ got'.encType = AES128)
          THEN decrypt(conf.format, m.data) ELSE m.data) =
           IF conf.format = "J" /\ b.encType = PLAIN THEN <<>> ELSE asked.text,
         IF asked.encrypted /\ got'.encType = AES128
         THEN got'.datalen > Len(got'.data) ELSE got'.datalen = Len(got'.data)
  PROVE  ReadsBack'
<1>1. n \in 0 .. Tries
  BY DEF Inv, Tries
<1>2. /\ message.thingName = b.thingName /\ message.msgDate = b.msgDate
      /\ message.authToken = b.authToken /\ Peeled(message) = b
  BY <1>1, OnItsWayType
<1>3. ReadableHeader(m, message, b)
  BY <1>2, HeaderIsAsked
<1>4. ReadableHeader(m, message, b)'
  BY <1>3 DEF ReadableHeader, Carried
<1> QED BY <1>2, <1>4 DEF ReadsBack, ReadableHeader

LEMMA BrokenReadsBack ==
  ASSUME Inv, pc = "received", pc' = "broken", got' = got,
         UNCHANGED <<conf, asked, message, tries, wire>>,
         NEW b, NEW n \in 0 .. tries, Descendant(message, b, n, asked, conf),
         NEW m, m = Peeled(got), HeaderReads(m, b), Len(got.encType) <= tries,
         conf.bAES128Used, ~asked.encrypted, got.encType = AES128, b.msgType = ANSWER
  PROVE  ReadsBack'
<1>1. n \in 0 .. Tries
  BY DEF Inv, Tries
<1>2. /\ message.thingName = b.thingName /\ message.msgDate = b.msgDate
      /\ message.authToken = b.authToken /\ Peeled(message) = b
  BY <1>1, OnItsWayType
<1>3. ReadableHeader(m, message, b)
  BY <1>2, HeaderIsAsked
<1>4. ReadableHeader(m, message, b)'
  BY <1>3 DEF ReadableHeader, Carried
<1>5. m.msgType = ANSWER
  BY DEF HeaderReads
<1> QED BY <1>2, <1>4, <1>5 DEF ReadsBack, ReadableHeader

LEMMA DecryptInv == Inv /\ Decrypt => Inv'
<1> SUFFICES ASSUME Inv, Decrypt PROVE Inv'
  OBVIOUS
<1>1. /\ pc = "received" /\ pc' \in {"delivered", "broken"}
      /\ UNCHANGED <<conf, asked, message, tries, wire>>
  BY DEF Decrypt
<1>2. PICK b, n : n \in 0 .. tries /\ Descendant(message, b, n, asked, conf)
  BY <1>1 DEF Inv, OnItsWay
<1>3. /\ Fresh(b) /\ tries \in Nat /\ tries > 0
      /\ Stands(b.data, asked.text, b.encType, b.msgType, asked.encrypted, conf)
  BY <1>1, <1>2 DEF Inv, Tries, Descendant, Original
<1>4. /\ b \in Message /\ b.datalen = Len(b.data) /\ b.encType \in {PLAIN, AES128}
      /\ Len(b.encType) = 1 /\ PLAIN # AES128
  BY <1>3 DEF Fresh, PLAIN, AES128
<1>5. ReadsBack'
  <2>1. CASE /\ conf.format = "J" /\ b.encType = PLAIN
             /\ HeaderReads(got, b) /\ got.data = <<>> /\ got.datalen = 0
    <3>1. got.encType = PLAIN
      BY <2>1 DEF HeaderReads
    <3>2. pc' = "delivered" /\ got' = got
      BY <2>1, <3>1 DEF Decrypt
    <3>3. Peeled(got) = got
      BY <1>4, <3>1, PeeledPlain
    <3>4. ~asked.encrypted
      BY <1>3, <1>4, <2>1 DEF Stands
    <3>5. Len(got.encType) <= tries /\ got.datalen = Len(got.data)
      <4>1. Len(PLAIN) = 1 /\ Len(<<>>) = 0
        BY DEF PLAIN
      <4> QED BY <1>3, <2>1, <3>1, <4>1
    <3> QED BY <1>1, <1>2, <2>1, <3>1, <3>2, <3>3, <3>4, <3>5, DeliveredReadsBack
  <2>2. CASE /\ conf.format = "D" /\ Peeled(got) = b /\ got.encType # AES128
             /\ got.datalen = Len(got.data) /\ Len(got.encType) <= tries
    <3>1. pc' = "delivered" /\ got' = got
      BY <2>2 DEF Decrypt
    <3>2. HeaderReads(b, b)
      BY <2>2 DEF HeaderReads, Carried
    <3>3. CASE asked.encrypted
      <4>1. decrypt(conf.format, b.data) = asked.text
        BY <1>3, <3>3 DEF Stands
      <4> QED BY <1>1, <1>2, <2>2, <3>1, <3>2, <3>3, <4>1, DeliveredReadsBack
    <3>4. CASE ~asked.encrypted
      <4>1. b.data = asked.text
        BY <1>3, <3>4 DEF Stands
      <4> QED BY <1>1, <1>2, <2>2, <3>1, <3>2, <3>4, <4>1, DeliveredReadsBack
    <3> QED BY <3>3, <3>4
  <2>3. CASE /\ conf.format = "D" \/ b.encType = AES128
             /\ HeaderReads(got, b) /\ got.data = b.data /\ got.datalen = b.datalen
             /\ DOMAIN got = Fields
    <3>1. /\ Peeled(got) = got /\ got.encType = b.encType /\ got.msgType = b.msgType
          /\ Len(got.encType) <= tries /\ ~(conf.format = "J" /\ b.encType = PLAIN)
      <4>1. got.encType = b.encType /\ got.msgType = b.msgType /\ Len(got.encType) = 1
        BY <1>4, <2>3 DEF HeaderReads
      <4>2. Peeled(got) = got
        BY <1>4, <4>1, PeeledPlain
      <4>3. Len(got.encType) <= tries
        BY <1>3, <4>1
      <4>4. ~(conf.format = "J" /\ b.encType = PLAIN)
        <5>1. conf.format = "D" => conf.format # "J"
          OBVIOUS
        <5> QED BY <1>4, <2>3, <5>1, Zenon
      <4> QED BY <4>1, <4>2, <4>3, <4>4
    <3>2. CASE asked.encrypted
      <4>1. /\ conf.bAES128Used /\ b.encType = AES128 /\ b.data \in Bytes
            /\ asked.text # <<>> /\ Len(b.data) > Len(asked.text)
            /\ decrypt(conf.format, b.data) = asked.text
        BY <1>3, <3>2 DEF Stands
      <4>2. b.data # <<>>
        BY <4>1 DEF decrypt
      <4>3. pc' = "delivered" /\ got' = [got EXCEPT !.data = asked.text]
        BY <2>3, <3>1, <4>1, <4>2 DEF Decrypt
      <4>4. PICK m : m = [got EXCEPT !.data = asked.text]
        OBVIOUS
      <4>5. m.data = asked.text /\ m.datalen = Len(b.data) /\ m.encType = AES128 /\ HeaderReads(m, b)
        <5>1. m.data = asked.text /\ \A f \in Fields \ {"data"} : m[f] = got[f]
          BY <2>3, <4>4 DEF Fields
        <5>2. /\ m.datalen = got.datalen /\ m.encType = got.encType /\ m.msgDate = got.msgDate
              /\ m.msgType = got.msgType /\ m.thingName = got.thingName /\ m.tId = got.tId
              /\ m.msgCode = got.msgCode /\ m.msgId = got.msgId /\ m.authToken = got.authToken
          BY <5>1 DEF Fields
        <5>3. HeaderReads(m, b)
          BY <2>3, <5>2 DEF HeaderReads
        <5> QED BY <1>4, <2>3, <3>1, <4>1, <5>1, <5>2, <5>3
      <4>6. Peeled(m) = m
        BY <4>5, PeeledPlain
      <4> QED BY <1>1, <1>2, <1>3, <3>1, <3>2, <4>1, <4>3, <4>4, <4>5, <4>6, DeliveredReadsBack
    <3>3. CASE ~asked.encrypted
      <4>1. b.data = asked.text
        BY <1>3, <3>3 DEF Stands
      <4>2. CASE conf.bAES128Used /\ b.encType = AES128 /\ b.data # <<>>
        <5>1. b.msgType = ANSWER /\ decrypt(conf.format, b.data) = <<>>
          BY <1>3, <3>3, <4>2 DEF Stands
        <5>2. pc' = "broken" /\ got' = got
          BY <2>3, <3>1, <4>2, <5>1 DEF Decrypt
        <5> QED BY <1>1, <1>2, <2>3, <3>1, <3>3, <4>2, <5>1, <5>2, BrokenReadsBack
      <4>3. CASE ~(conf.bAES128Used /\ b.encType = AES128 /\ b.data # <<>>)
        <5>1. pc' = "delivered" /\ got' = got
          BY <2>3, <3>1, <4>3 DEF Decrypt
        <5> QED BY <1>1, <1>2, <1>4, <2>3, <3>1, <3>3, <4>1, <5>1, DeliveredReadsBack
      <4> QED BY <4>2, <4>3
    <3> QED BY <3>2, <3>3
  <2> QED BY <1>1, <1>2, <2>1, <2>2, <2>3, Arrivals, Zenon
<1> QED BY <1>1, <1>2, <1>5 DEF Inv, OnItsWay

\* Every step keeps the invariant.
LEMMA NextInv == Inv /\ [Next]_vars => Inv'
<1> SUFFICES ASSUME Inv, [Next]_vars PROVE Inv'
  OBVIOUS
<1>1. CASE UNCHANGED vars
  BY <1>1 DEF vars, Inv, OnItsWay, ReadsBack, Carried
<1> QED
  BY <1>1, AskInv, UploadInv, PlainInv, AnswerInv, SendFailsInv, SendOkInv, GarbleInv, ArriveInv,
     DecryptInv
  DEF Next

LEMMA InvType == Inv => TypeOK
<1> SUFFICES ASSUME Inv PROVE TypeOK
  OBVIOUS
<1>1. ASSUME pc \in OnItsWay
      PROVE  /\ DOMAIN message = Fields
             /\ message.datalen = Len(message.data)
             /\ Len(message.encType) < 8
  <2>1. PICK b, n : n \in 0 .. tries /\ Descendant(message, b, n, asked, conf)
    BY <1>1 DEF Inv
  <2>2. n \in 0 .. Tries
    BY <2>1 DEF Inv, Tries
  <2>3. message \in Message /\ message.datalen = Len(message.data) /\ Len(message.encType) = n + 1
    BY <2>1, <2>2, OnItsWayType
  <2> QED BY <2>2, <2>3 DEF Message, Fields, Tries
<1> QED BY <1>1 DEF Inv, OnItsWay, TypeOK

\* The message has datalen bytes of data, and encType stays within its eight bytes, however
\* often thread_sender tries (thread_sender converts the message again with every try).
THEOREM MessagePathTypeCorrect == Spec => []TypeOK
BY InitInv, NextInv, InvType, PTL DEF Spec

\* What arrives is what was asked for, for every text, key and vector and every name and
\* code, with delimiters or not and UTF-8 or not, whatever is encrypted and however often it
\* is compressed, but for the exceptions ReadsBack names.
THEOREM MessagePathReadsBack == Spec => []ReadsBack
<1>1. Inv => ReadsBack
  BY DEF Inv
<1> QED BY <1>1, InitInv, NextInv, PTL DEF Spec
=============================================================================
