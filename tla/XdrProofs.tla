------------------------------ MODULE XdrProofs ------------------------------
(***************************************************************************)
(* Proofs about Xdr, for every set of messages, words and opaque data that *)
(* fit into a fragment.                                                    *)
(*                                                                         *)
(* What a field is packed as depends neither on the fields before it nor   *)
(* on where it begins, as every field begins at a multiple of four bytes.  *)
(* So there are places in the packer's buffer between which the fields     *)
(* lie, and the unpacker, as long as nothing fails, has what lies after    *)
(* one of them.                                                            *)
(***************************************************************************)
EXTENDS Xdr, SequenceTheorems, TLAPS

-----------------------------------------------------------------------------
(* Words *)

LEMMA ByteBounds == \A x : x \in Byte <=> x \in Int /\ 0 <= x /\ x <= 255
  BY SMT DEF Byte

LEMMA WordRange ==
    /\ MaxWord \in Nat
    /\ \A x : x \in Word <=> x \in Int /\ -MaxWord - 1 <= x /\ x <= MaxWord
<1>1. MaxWord \in Nat
  BY SMT DEF MaxWord
<1>2. \A m \in Int : \A x : x \in (-m - 1)..m <=> x \in Int /\ -m - 1 <= x /\ x <= m
  BY SMT
<1>3. QED
  BY <1>1, <1>2 DEF Word

LEMMA WordBounds ==
    \A x : x \in Word <=> x \in Int /\ -2147483647 - 1 <= x /\ x <= 2147483647
<1>1. MaxWord = 2147483647
  BY SMT DEF MaxWord
<1>2. QED
  BY <1>1, WordRange, SMT

LEMMA DigitsMakeTheWord ==
    ASSUME NEW x \in Word
    PROVE  (((((x \div 16777216) % 256) + 128) % 256) - 128) * 16777216
              + ((x \div 65536) % 256) * 65536 + ((x \div 256) % 256) * 256 + (x % 256) = x
<1> DEFINE q1 == x \div 256
           q2 == x \div 65536
           q3 == x \div 16777216
<1>0. x \in Int /\ x >= -2147483647 - 1 /\ x <= 2147483647
  BY WordBounds
<1>1. q1 \in Int /\ x = 256 * q1 + (x % 256) /\ x % 256 >= 0 /\ x % 256 <= 255 /\ x % 256 \in Int
  BY <1>0, SMT
<1>2. q2 \in Int /\ x >= 65536 * q2 /\ x <= 65536 * q2 + 65535
  BY <1>0, SMT
<1>3. q3 \in Int /\ x >= 16777216 * q3 /\ x <= 16777216 * q3 + 16777215
  BY <1>0, SMT
<1> HIDE DEF q1, q2, q3
<1>4. q1 - 256 * q2 >= 0 /\ q1 - 256 * q2 <= 255
  BY <1>0, <1>1, <1>2, SMT
<1>5. q2 - 256 * q3 >= 0 /\ q2 - 256 * q3 <= 255
  BY <1>0, <1>2, <1>3, SMT
<1>6. q3 >= -128 /\ q3 <= 127
  BY <1>0, <1>3, SMT
<1>7. \A a \in Int, b \in Int : a - 256 * b >= 0 /\ a - 256 * b <= 255 => a % 256 = a - 256 * b
  BY SMT
<1>8a. q1 % 256 = q1 - 256 * q2
  BY <1>1, <1>2, <1>4, <1>7
<1>8b. q2 % 256 = q2 - 256 * q3
  BY <1>2, <1>3, <1>5, <1>7
<1>9. (((q3 % 256) + 128) % 256) - 128 = q3
  BY <1>3, <1>6, SMT
<1>10. q3 * 16777216 + (q2 - 256 * q3) * 65536 + (q1 - 256 * q2) * 256 + (x % 256) = x
  BY <1>0, <1>1, <1>2, <1>3, SMT
<1>11. ((((q3 % 256) + 128) % 256) - 128) * 16777216 + (q2 % 256) * 65536 + (q1 % 256) * 256 + (x % 256) = x
  BY <1>8a, <1>8b, <1>9, <1>10, SMT
<1>12. QED
  BY <1>11, SMT DEF q1, q2, q3

LEMMA BytesOfWord ==
    ASSUME NEW x \in Int
    PROVE  BE(x) \in Seq(Byte) /\ Len(BE(x)) = 4
<1>1. /\ (x \div 16777216) % 256 \in Byte /\ (x \div 65536) % 256 \in Byte
      /\ (x \div 256) % 256 \in Byte /\ x % 256 \in Byte
  BY ByteBounds, SMT
<1>2. QED
  BY <1>1, SMT DEF BE

LEMMA ValueIsWord ==
    ASSUME NEW s \in Seq(Byte), Len(s) >= 4
    PROVE  Value(s) \in Word
<1>1. s[1] \in Byte /\ s[2] \in Byte /\ s[3] \in Byte /\ s[4] \in Byte
  BY SMT
<1> DEFINE h == ((s[1] + 128) % 256) - 128
           b == s[2]
           c == s[3]
           d == s[4]
<1>2. h \in Int /\ h >= -128 /\ h <= 127
  <2>1. \A x \in Int : ((x + 128) % 256) - 128 >= -128 /\ ((x + 128) % 256) - 128 <= 127
    BY SMT
  <2>2. \A x \in Int : ((x + 128) % 256) - 128 \in Int
    BY SMT
  <2>3. s[1] \in Int
    BY <1>1, ByteBounds
  <2>4. QED
    BY <2>1, <2>2, <2>3
<1>3. b \in Int /\ 0 <= b /\ b <= 255 /\ c \in Int /\ 0 <= c /\ c <= 255
  BY <1>1, ByteBounds
<1>4. d \in Int /\ 0 <= d /\ d <= 255
  BY <1>1, ByteBounds
<1>5. Value(s) = h * 16777216 + b * 65536 + c * 256 + d
  BY SMT DEF Value
<1> HIDE DEF h, b, c, d
<1>6. h * 16777216 + b * 65536 + c * 256 + d \in Int
  BY <1>2, <1>3, <1>4, SMT
<1>7. h * 16777216 + b * 65536 + c * 256 + d >= -2147483647 - 1
  BY <1>2, <1>3, <1>4, SMT
<1>8. h * 16777216 + b * 65536 + c * 256 + d <= 2147483647
  BY <1>2, <1>3, <1>4, SMT
<1>9. QED
  BY <1>5, <1>6, <1>7, <1>8, WordBounds, SMT

LEMMA ValueOfWord ==
    ASSUME NEW x \in Word, NEW s \in Seq(Byte)
    PROVE  Value(BE(x) \o s) = x
<1>1. x \in Int
  BY WordBounds
<1>2. BE(x) \in Seq(Byte) /\ Len(BE(x)) = 4
  BY <1>1, BytesOfWord
<1>3. /\ (BE(x) \o s)[1] = BE(x)[1] /\ (BE(x) \o s)[2] = BE(x)[2]
      /\ (BE(x) \o s)[3] = BE(x)[3] /\ (BE(x) \o s)[4] = BE(x)[4]
  <2>1. \A i \in 1..Len(BE(x)) + Len(s) :
           (BE(x) \o s)[i] = IF i <= Len(BE(x)) THEN BE(x)[i] ELSE s[i - Len(BE(x))]
    BY <1>2, ConcatProperties
  <2>2. Len(s) \in Nat
    BY LenProperties
  <2>3. \A i \in {1, 2, 3, 4} : i \in 1..Len(BE(x)) + Len(s) /\ i <= Len(BE(x))
    BY <1>2, <2>2, SMT
  <2>4. \A i \in {1, 2, 3, 4} : (BE(x) \o s)[i] = BE(x)[i]
    BY <2>1, <2>3
  <2>5. QED
    BY <2>4
<1>4. /\ BE(x)[1] = (x \div 16777216) % 256 /\ BE(x)[2] = (x \div 65536) % 256
      /\ BE(x)[3] = (x \div 256) % 256 /\ BE(x)[4] = x % 256
  BY SMT DEF BE
<1>5. Value(BE(x) \o s) = ((((BE(x)[1] + 128) % 256) - 128) * 16777216)
                           + BE(x)[2] * 65536 + BE(x)[3] * 256 + BE(x)[4]
  BY <1>3, SMT DEF Value
<1>6. QED
  BY <1>4, <1>5, DigitsMakeTheWord, SMT

-----------------------------------------------------------------------------
(* Sequences of bytes *)

\* The two parts of a concatenation.
LEMMA Parts ==
    ASSUME NEW T, NEW s \in Seq(T), NEW t \in Seq(T)
    PROVE  /\ SubSeq(s \o t, 1, Len(s)) = s
           /\ SubSeq(s \o t, Len(s) + 1, Len(s \o t)) = t
<1>1. /\ s \o t \in Seq(T) /\ Len(s \o t) = Len(s) + Len(t)
      /\ \A i \in 1..Len(s) : (s \o t)[i] = s[i]
      /\ \A i \in 1..Len(t) : (s \o t)[Len(s) + i] = t[i]
  BY SMT
<1>2. SubSeq(s \o t, 1, Len(s)) = s
  <2>1. \A i \in 1..Len(s) : (s \o t)[i] \in T
    BY <1>1
  <2>2. /\ SubSeq(s \o t, 1, Len(s)) \in Seq(T)
        /\ Len(SubSeq(s \o t, 1, Len(s))) = Len(s)
        /\ \A i \in 1..Len(s) : SubSeq(s \o t, 1, Len(s))[i] = (s \o t)[i]
    BY <1>1, <2>1, SubSeqProperties
  <2>3. QED
    BY <1>1, <2>2, SeqEqual
<1>3. SubSeq(s \o t, Len(s) + 1, Len(s \o t)) = t
  <2>1. \A i \in (Len(s) + 1)..Len(s \o t) : (s \o t)[i] \in T
    BY <1>1
  <2>2. /\ SubSeq(s \o t, Len(s) + 1, Len(s \o t)) \in Seq(T)
        /\ Len(SubSeq(s \o t, Len(s) + 1, Len(s \o t))) = Len(t)
        /\ \A i \in 1..Len(t) : SubSeq(s \o t, Len(s) + 1, Len(s \o t))[i] = (s \o t)[Len(s) + i]
    <3>1. /\ Len(s) \in Nat /\ Len(t) \in Nat
          /\ Len(s) + 1 \in Int /\ Len(s \o t) \in Int
          /\ Len(s \o t) - (Len(s) + 1) + 1 = Len(t)
          /\ Len(s) + 1 <= Len(s \o t) <=> Len(t) # 0
      BY <1>1
    <3> DEFINE u == SubSeq(s \o t, Len(s) + 1, Len(s \o t))
    <3>2. /\ u \in Seq(T)
          /\ Len(u) = IF Len(s) + 1 <= Len(s \o t) THEN Len(s \o t) - (Len(s) + 1) + 1 ELSE 0
          /\ \A i \in 1..(Len(s \o t) - (Len(s) + 1) + 1) : u[i] = (s \o t)[(Len(s) + 1) + i - 1]
      BY <2>1, <3>1, SubSeqProperties
    <3> HIDE DEF u
    <3>3. Len(u) = Len(t)
      BY <3>1, <3>2
    <3>4. \A i \in 1..Len(t) : u[i] = (s \o t)[Len(s) + i]
      <4>1. \A i \in 1..Len(t) : (Len(s) + 1) + i - 1 = Len(s) + i
        BY <3>1
      <4>2. QED
        BY <3>1, <3>2, <4>1
    <3>5. QED
      BY <3>2, <3>3, <3>4 DEF u
  <2>3. QED
    BY <1>1, <2>2, SeqEqual
<1>4. QED
  BY <1>2, <1>3

\* What a sequence begins with, and what it ends with.
LEMMA Front ==
    ASSUME NEW T, NEW s \in Seq(T), NEW m \in 0..Len(s)
    PROVE  /\ SubSeq(s, 1, m) \in Seq(T)
           /\ Len(SubSeq(s, 1, m)) = m
           /\ \A i \in 1..m : SubSeq(s, 1, m)[i] = s[i]
<1>1. Len(s) \in Nat /\ \A i \in 1..m : s[i] \in T
  BY LenProperties
<1>2. /\ SubSeq(s, 1, m) \in Seq(T)
      /\ Len(SubSeq(s, 1, m)) = IF 1 <= m THEN m - 1 + 1 ELSE 0
      /\ \A i \in 1..(m - 1 + 1) : SubSeq(s, 1, m)[i] = s[1 + i - 1]
  BY <1>1, SubSeqProperties
<1>3. m \in Nat /\ m - 1 + 1 = m /\ \A i \in 1..m : 1 + i - 1 = i
  BY <1>1
<1>4. Len(SubSeq(s, 1, m)) = m
  BY <1>2, <1>3
<1>5. QED
  BY <1>2, <1>3, <1>4

LEMMA Back ==
    ASSUME NEW T, NEW s \in Seq(T), NEW m \in 0..Len(s)
    PROVE  /\ SubSeq(s, m + 1, Len(s)) \in Seq(T)
           /\ Len(SubSeq(s, m + 1, Len(s))) = Len(s) - m
           /\ \A i \in 1..(Len(s) - m) : SubSeq(s, m + 1, Len(s))[i] = s[m + i]
<1>1. Len(s) \in Nat /\ m \in Nat /\ m <= Len(s) /\ \A i \in (m + 1)..Len(s) : s[i] \in T
  BY LenProperties
<1>2. /\ SubSeq(s, m + 1, Len(s)) \in Seq(T)
      /\ Len(SubSeq(s, m + 1, Len(s))) =
           IF m + 1 <= Len(s) THEN Len(s) - (m + 1) + 1 ELSE 0
      /\ \A i \in 1..(Len(s) - (m + 1) + 1) : SubSeq(s, m + 1, Len(s))[i] = s[(m + 1) + i - 1]
  BY <1>1, SubSeqProperties
<1>3. Len(s) - (m + 1) + 1 = Len(s) - m /\ \A i \in Int : (m + 1) + i - 1 = m + i
  BY <1>1
<1>4. Len(SubSeq(s, m + 1, Len(s))) = Len(s) - m
  <2>1. \A l, k \in Nat : k <= l =>
           (IF k + 1 <= l THEN l - (k + 1) + 1 ELSE 0) = l - k
    BY SMT
  <2>2. (IF m + 1 <= Len(s) THEN Len(s) - (m + 1) + 1 ELSE 0) = Len(s) - m
    BY <1>1, <2>1
  <2>3. QED
    BY <1>2, <2>2
<1>5. ASSUME NEW i \in 1..(Len(s) - m) PROVE SubSeq(s, m + 1, Len(s))[i] = s[m + i]
  <2>1. i \in 1..(Len(s) - (m + 1) + 1) /\ (m + 1) + i - 1 = m + i
    BY <1>1, <1>3
  <2>2. QED
    BY <1>2, <2>1
<1>6. QED
  BY <1>2, <1>4, <1>5

-----------------------------------------------------------------------------
(* Fields *)

Kinds == {"word", "status", "bool", "opaque"}
Val   == Int \cup BOOLEAN \cup Seq(Byte)

\* The values that a field of a kind may have.
Fits(kind, v) ==
    CASE kind = "opaque" -> v \in Seq(Byte) /\ Len(v) <= MaxOpaque
      [] kind = "bool"   -> v \in BOOLEAN
      [] OTHER           -> v \in Word

Padding(data) == Zeros((4 - (Len(data) % 4)) % 4)

\* What a field is packed as, wherever it begins.
Enc(kind, v) ==
    CASE kind = "opaque" -> (BE(Len(v)) \o v) \o Padding(v)
      [] kind = "bool"   -> PackBool(v)
      [] OTHER           -> BE(v)

Aligned(s) == s \in Seq(Byte) /\ Len(s) % 4 = 0

\* Two sequences of bytes, one after the other.
LEMMA Joined ==
    \A s, t \in Seq(Byte) : s \o t \in Seq(Byte) /\ Len(s \o t) = Len(s) + Len(t)
  BY ConcatProperties

LEMMA Assoc == \A r, s, t \in Seq(Byte) : (r \o s) \o t = r \o (s \o t)
  BY ConcatAssociative

LEMMA Shift4 == \A m, n \in Nat : m % 4 = 0 => (m + n) % 4 = n % 4
  BY SMT

LEMMA ZerosAreBytes ==
    ASSUME NEW n \in Nat
    PROVE  Zeros(n) \in Seq(Byte) /\ Len(Zeros(n)) = n
<1>1. 0 \in Byte
  BY ByteBounds, SMT
<1>2. QED
  BY <1>1, SMT DEF Zeros

\* Data with its length before it and zeros behind it.
LEMMA OpaqueShape ==
    ASSUME NEW v \in Seq(Byte), Len(v) <= MaxOpaque
    PROVE  /\ Len(v) \in Nat /\ Len(v) \in Word
           /\ BE(Len(v)) \in Seq(Byte) /\ Len(BE(Len(v))) = 4
           /\ Padding(v) \in Seq(Byte) /\ Len(Padding(v)) \in Nat /\ Len(Padding(v)) <= 3
           /\ (Len(v) + Len(Padding(v))) % 4 = 0
           /\ (BE(Len(v)) \o v) \o Padding(v) \in Seq(Byte)
           /\ Len((BE(Len(v)) \o v) \o Padding(v)) = 4 + Len(v) + Len(Padding(v))
           /\ Len((BE(Len(v)) \o v) \o Padding(v)) % 4 = 0
<1>1. Len(v) \in Nat
  BY LenProperties
<1>2. Len(v) <= 67108864
  BY <1>1, SMT DEF MaxOpaque
<1>3. Len(v) \in Word
  BY <1>1, <1>2, WordBounds, SMT
<1>4. BE(Len(v)) \in Seq(Byte) /\ Len(BE(Len(v))) = 4
  BY <1>1, BytesOfWord
<1> DEFINE p == (4 - (Len(v) % 4)) % 4
<1>5. p \in Nat /\ p <= 3 /\ (Len(v) + p) % 4 = 0
  BY <1>1, SMT
<1>6. Padding(v) \in Seq(Byte) /\ Len(Padding(v)) = p
  BY <1>5, ZerosAreBytes DEF Padding
<1>7. BE(Len(v)) \o v \in Seq(Byte) /\ Len(BE(Len(v)) \o v) = Len(BE(Len(v))) + Len(v)
  BY <1>4, Joined
<1> HIDE DEF p
<1>8. /\ (BE(Len(v)) \o v) \o Padding(v) \in Seq(Byte)
      /\ Len((BE(Len(v)) \o v) \o Padding(v)) = Len(BE(Len(v)) \o v) + Len(Padding(v))
  BY <1>6, <1>7, Joined
<1>9. Len((BE(Len(v)) \o v) \o Padding(v)) = 4 + Len(v) + Len(Padding(v))
  BY <1>1, <1>4, <1>5, <1>6, <1>7, <1>8
<1>10. Len((BE(Len(v)) \o v) \o Padding(v)) % 4 = 0
  BY <1>1, <1>5, <1>6, <1>9, SMT
<1>11. QED
  BY <1>1, <1>3, <1>4, <1>5, <1>6, <1>8, <1>9, <1>10

LEMMA BoolIsWord ==
    ASSUME NEW v \in BOOLEAN
    PROVE  /\ (IF v THEN 1 ELSE 0) \in Word
           /\ PackBool(v) = BE(IF v THEN 1 ELSE 0)
<1>1. 0 \in Word /\ 1 \in Word
  BY WordBounds, SMT
<1>2. QED
  BY <1>1 DEF PackBool

LEMMA EncIsAligned ==
    ASSUME NEW kind \in Kinds, NEW v, Fits(kind, v)
    PROVE  /\ Aligned(Enc(kind, v))
           /\ Len(Enc(kind, v)) >= 4
           /\ kind # "opaque" => Len(Enc(kind, v)) = 4
<1>1. CASE kind = "opaque"
  <2>1. v \in Seq(Byte) /\ Len(v) <= MaxOpaque
    BY <1>1 DEF Fits
  <2>2. Enc(kind, v) = (BE(Len(v)) \o v) \o Padding(v)
    BY <1>1 DEF Enc
  <2>3. /\ Enc(kind, v) \in Seq(Byte) /\ Len(Enc(kind, v)) = 4 + Len(v) + Len(Padding(v))
        /\ Len(Enc(kind, v)) % 4 = 0 /\ Len(v) \in Nat
        /\ Len(Padding(v)) \in Nat /\ Len(Padding(v)) <= 3
    BY <2>1, <2>2, OpaqueShape
  <2>4. Len(Enc(kind, v)) >= 4
    BY <2>3, SMT
  <2>5. QED
    BY <1>1, <2>3, <2>4 DEF Aligned
<1>2. CASE kind # "opaque"
  <2>1. PICK x \in Word : Enc(kind, v) = BE(x)
    <3>1. CASE kind = "bool"
      BY <3>1, BoolIsWord DEF Enc, Fits
    <3>2. CASE kind # "bool"
      BY <1>2, <3>2 DEF Enc, Fits, Kinds
    <3>3. QED
      BY <3>1, <3>2
  <2>2. Enc(kind, v) \in Seq(Byte) /\ Len(Enc(kind, v)) = 4
    BY <2>1, WordBounds, BytesOfWord
  <2>3. QED
    BY <2>2, SMT DEF Aligned
<1>3. QED
  BY <1>1, <1>2

\* A field with its length and its padding is at most eight bytes longer than MaxOpaque.
LEMMA EncIsBounded ==
    ASSUME NEW kind \in Kinds, NEW v, Fits(kind, v)
    PROVE  Len(Enc(kind, v)) <= 67108872
<1>1. CASE kind = "opaque"
  <2>1. v \in Seq(Byte) /\ Len(v) <= MaxOpaque
    BY <1>1, SMT DEF Fits
  <2>2. Enc(kind, v) = (BE(Len(v)) \o v) \o Padding(v)
    BY <1>1, SMT DEF Enc
  <2>3. /\ Len(Enc(kind, v)) = 4 + Len(v) + Len(Padding(v)) /\ Len(v) \in Nat
        /\ Len(Padding(v)) \in Nat /\ Len(Padding(v)) <= 3
    BY <2>1, <2>2, OpaqueShape
  <2>4. Len(v) <= 67108864
    BY <2>1, <2>3, SMT DEF MaxOpaque
  <2>5. QED
    BY <2>3, <2>4, SMT
<1>2. CASE kind # "opaque"
  <2>1. Len(Enc(kind, v)) = 4
    BY <1>2, EncIsAligned
  <2>2. QED
    BY <2>1, SMT
<1>3. QED
  BY <1>1, <1>2, SMT

\* To pack a field is to append what it is packed as: the buffer was aligned.
LEMMA PackIsEnc ==
    ASSUME NEW kind \in Kinds, NEW v, Fits(kind, v), NEW buff, Aligned(buff)
    PROVE  Pack(buff, kind, v) = buff \o Enc(kind, v)
<1>1. CASE kind = "opaque"
  <2>1. v \in Seq(Byte) /\ Len(v) <= MaxOpaque
    BY <1>1 DEF Fits
  <2>2. Len(v) \in Nat /\ BE(Len(v)) \in Seq(Byte) /\ Len(BE(Len(v))) = 4 /\ Padding(v) \in Seq(Byte)
    BY <2>1, OpaqueShape
  <2>3. /\ buff \in Seq(Byte) /\ Len(buff) \in Nat /\ Len(buff) % 4 = 0
    BY LenProperties DEF Aligned
  <2> DEFINE b == (buff \o BE(Len(v))) \o v
  <2>4. /\ buff \o BE(Len(v)) \in Seq(Byte)
        /\ Len(buff \o BE(Len(v))) = Len(buff) + Len(BE(Len(v)))
    BY <2>2, <2>3, Joined
  <2>5. Len(b) = Len(buff \o BE(Len(v))) + Len(v)
    BY <2>1, <2>4, Joined
  <2>6. b = buff \o (BE(Len(v)) \o v)
    <3> DEFINE h == BE(Len(v))
    <3>1. h \in Seq(Byte)
      BY <2>2
    <3> HIDE DEF h
    <3>2. (buff \o h) \o v = buff \o (h \o v)
      BY <2>1, <2>3, <3>1, Assoc
    <3>3. QED
      BY <3>2 DEF h
  <2>7. BE(Len(v)) \o v \in Seq(Byte)
    BY <2>1, <2>2, Joined
  <2>8. Pack(buff, kind, v) = b \o Zeros((4 - (Len(b) % 4)) % 4)
    BY <1>1 DEF Pack, PackOpaque
  <2> HIDE DEF b
  <2>9. Len(b) % 4 = Len(v) % 4
    <3>1. Len(b) = (Len(buff) + 4) + Len(v)
      BY <2>2, <2>4, <2>5
    <3>2. Len(buff) + 4 \in Nat /\ (Len(buff) + 4) % 4 = 0
      BY <2>3, Shift4
    <3>3. QED
      BY <2>2, <3>1, <3>2, Shift4
  <2>10. Pack(buff, kind, v) = b \o Padding(v)
    BY <2>8, <2>9 DEF Padding
  <2>11. b \o Padding(v) = buff \o ((BE(Len(v)) \o v) \o Padding(v))
    <3> DEFINE x == BE(Len(v)) \o v
    <3>1. b = buff \o x /\ x \in Seq(Byte)
      BY <2>6, <2>7
    <3> HIDE DEF x
    <3>2. (buff \o x) \o Padding(v) = buff \o (x \o Padding(v))
      BY <2>2, <2>3, <3>1, Assoc
    <3>3. QED
      BY <3>1, <3>2 DEF x
  <2>12. QED
    BY <1>1, <2>10, <2>11 DEF Enc
<1>2. CASE kind # "opaque"
  BY <1>2 DEF Pack, Enc, Kinds
<1>3. QED
  BY <1>1, <1>2

\* A word that was packed is read, and what lies behind it is left.
LEMMA WordIsRead ==
    ASSUME NEW x \in Word, NEW s \in Seq(Byte)
    PROVE  UnpackWord(BE(x) \o s) = Ok(x, s)
<1>1. BE(x) \in Seq(Byte) /\ Len(BE(x)) = 4
  BY WordBounds, BytesOfWord
<1>2. Len(BE(x) \o s) = Len(BE(x)) + Len(s) /\ Len(s) \in Nat
  BY <1>1, Joined, LenProperties
<1>3. SubSeq(BE(x) \o s, Len(BE(x)) + 1, Len(BE(x) \o s)) = s
  BY <1>1, Parts
<1>4. SubSeq(BE(x) \o s, 5, Len(BE(x) \o s)) = s
  BY <1>1, <1>3
<1>5. ~(Len(BE(x) \o s) < 4)
  BY <1>1, <1>2
<1>6. Value(BE(x) \o s) = x
  BY ValueOfWord
<1>7. QED
  BY <1>4, <1>5, <1>6 DEF UnpackWord

\* Every field is read as it was packed, and what lies behind its padding is left.
LEMMA UnpackEnc ==
    ASSUME NEW kind \in Kinds, NEW v, Fits(kind, v), NEW s, Aligned(s)
    PROVE  Unpack(Enc(kind, v) \o s, kind) = Ok(v, s)
<1>1. s \in Seq(Byte) /\ Len(s) % 4 = 0 /\ Len(s) \in Nat
  BY LenProperties DEF Aligned
<1>2. CASE kind = "opaque"
  <2>1. v \in Seq(Byte) /\ Len(v) <= MaxOpaque
    BY <1>2 DEF Fits
  <2> DEFINE n == Len(v)
             p == Padding(v)
             t == v \o (p \o s)
  <2>2. /\ n \in Nat /\ n \in Word /\ BE(n) \in Seq(Byte) /\ p \in Seq(Byte)
        /\ Len(p) \in Nat /\ Len(p) <= 3
    BY <2>1, OpaqueShape
  <2>3. /\ p \o s \in Seq(Byte) /\ Len(p \o s) = Len(p) + Len(s)
        /\ v \o p \in Seq(Byte) /\ Len(v \o p) = Len(v) + Len(p)
    BY <1>1, <2>1, <2>2, Joined
  <2>4. t \in Seq(Byte) /\ Len(t) = Len(v) + Len(p \o s)
    BY <2>1, <2>3, Joined
  <2>5. Enc(kind, v) \o s = BE(n) \o t
    <3>1. BE(n) \o v \in Seq(Byte)
      BY <2>1, <2>2, Joined
    <3>2. ((BE(n) \o v) \o p) \o s = (BE(n) \o v) \o (p \o s)
      BY <1>1, <2>2, <3>1, Assoc
    <3>3. (BE(n) \o v) \o (p \o s) = BE(n) \o t
      BY <2>1, <2>2, <2>3, Assoc
    <3>4. QED
      BY <1>2, <3>2, <3>3 DEF Enc
  <2>6. t = (v \o p) \o s
    BY <1>1, <2>1, <2>2, Assoc
  <2>7. SubSeq(t, 1, n) = v
    BY <2>1, <2>3, Parts
  <2>8. SubSeq(t, Len(v \o p) + 1, Len(t)) = s
    BY <1>1, <2>3, <2>6, Parts
  <2>9. UnpackWord(BE(n) \o t) = Ok(n, t)
    BY <2>2, <2>4, WordIsRead
  <2> HIDE DEF n, p, t
  <2>10. n = Len(v)
    BY DEF n
  <2>11. n \in 0..Len(t) /\ Len(t) - n = Len(s) + Len(p)
    BY <1>1, <2>2, <2>3, <2>4, <2>10
  <2>12. (Len(t) - n) % 4 = Len(p)
    <3>1. Len(p) % 4 = Len(p)
      BY <2>2
    <3>2. (Len(s) + Len(p)) % 4 = Len(p) % 4
      BY <1>1, <2>2, Shift4
    <3>3. QED
      BY <2>11, <3>1, <3>2
  <2>13. SubSeq(t, n + ((Len(t) - n) % 4) + 1, Len(t)) = s
    BY <2>3, <2>8, <2>10, <2>12
  <2>14. UnpackOpaque(BE(n) \o t) = Ok(v, s)
    <3> DEFINE w == UnpackWord(BE(n) \o t)
    <3>1. w.how = "ok" /\ w.val = n /\ w.rest = t
      BY <2>9 DEF Ok
    <3>2. UnpackOpaque(BE(n) \o t) =
            IF w.how # "ok" THEN w
            ELSE IF w.val \notin 0..Len(w.rest) THEN Fails("panicked", w.rest)
            ELSE Ok(SubSeq(w.rest, 1, w.val),
                    SubSeq(w.rest, w.val + ((Len(w.rest) - w.val) % 4) + 1, Len(w.rest)))
      BY DEF UnpackOpaque
    <3> HIDE DEF w
    <3>3. UnpackOpaque(BE(n) \o t) =
            Ok(SubSeq(t, 1, n), SubSeq(t, n + ((Len(t) - n) % 4) + 1, Len(t)))
      BY <2>11, <3>1, <3>2
    <3>4. QED
      BY <2>7, <2>13, <3>3
  <2>15. QED
    BY <1>2, <2>5, <2>14 DEF Unpack
<1>3. CASE kind = "bool"
  <2> DEFINE x == IF v THEN 1 ELSE 0
  <2>1. v \in BOOLEAN
    BY <1>3 DEF Fits
  <2>2. x \in Word /\ Enc(kind, v) = BE(x)
    BY <1>3, <2>1, BoolIsWord DEF Enc
  <2>3. UnpackWord(BE(x) \o s) = Ok(x, s)
    BY <1>1, <2>2, WordIsRead
  <2>4. x \in {0, 1} /\ (x = 1) = v
    BY <2>1
  <2> HIDE DEF x
  <2>5. UnpackBool(BE(x) \o s) = Ok(v, s)
    BY <2>3, <2>4 DEF UnpackBool, Ok
  <2>6. QED
    BY <1>3, <2>2, <2>5 DEF Unpack
<1>4. CASE kind \in {"word", "status"}
  <2>1. v \in Word /\ Enc(kind, v) = BE(v)
    BY <1>4 DEF Fits, Enc
  <2>2. UnpackWord(BE(v) \o s) = Ok(v, s)
    BY <1>1, <2>1, WordIsRead
  <2>3. QED
    BY <1>4, <2>1, <2>2 DEF Unpack
<1>5. QED
  BY <1>2, <1>3, <1>4 DEF Kinds

\* u is the beginning of e, and not all of it.
Begins(u, e) == Len(u) < Len(e) /\ \A i \in 1..Len(u) : u[i] = e[i]

\* Of a field that is cut at a multiple of four bytes nothing is read; the unpacker
\* panics in opaque data that are too short, and in nothing else.
LEMMA UnpackCut ==
    ASSUME NEW kind \in Kinds, NEW v, Fits(kind, v), NEW u, Aligned(u),
           Begins(u, Enc(kind, v))
    PROVE  \/ Unpack(u, kind).how = "err"
           \/ Unpack(u, kind).how = "panicked" /\ kind = "opaque"
<1>1. u \in Seq(Byte) /\ Len(u) % 4 = 0 /\ Len(u) \in Nat
  BY LenProperties DEF Aligned
<1>2. CASE Len(u) < 4
  <2>1. UnpackWord(u).how = "err" /\ UnpackWord(u) = Fails("err", u)
    BY <1>2 DEF UnpackWord, Fails
  <2>2. Unpack(u, kind) = UnpackWord(u)
    BY <2>1 DEF Unpack, UnpackOpaque, UnpackBool, Kinds
  <2>3. QED
    BY <2>1, <2>2
<1>3. CASE Len(u) >= 4
  <2>1. kind = "opaque"
    <3>1. Len(u) < Len(Enc(kind, v))
      BY DEF Begins
    <3>2. kind # "opaque" => Len(Enc(kind, v)) = 4
      BY EncIsAligned
    <3>3. ~(Len(u) < 4) /\ Len(u) \in Nat
      BY <1>1, <1>3
    <3>4. QED
      BY <3>1, <3>2, <3>3
  <2>2. v \in Seq(Byte) /\ Len(v) <= MaxOpaque
    BY <2>1 DEF Fits
  <2> DEFINE n == Len(v)
             p == Padding(v)
             e == (BE(n) \o v) \o p
  <2>3. /\ n \in Nat /\ n \in Word /\ BE(n) \in Seq(Byte) /\ p \in Seq(Byte)
        /\ Len(p) \in Nat /\ Len(p) <= 3 /\ Len(e) = 4 + n + Len(p) /\ (n + Len(p)) % 4 = 0
    BY <2>2, OpaqueShape
  <2>4. Enc(kind, v) = e
    BY <2>1 DEF Enc
  <2>5. Value(e) = n
    <3>1. e = BE(n) \o (v \o p) /\ v \o p \in Seq(Byte)
      <4> DEFINE h == BE(n)
      <4>1. h \in Seq(Byte) /\ p \in Seq(Byte)
        BY <2>3
      <4> HIDE DEF h, p
      <4>2. (h \o v) \o p = h \o (v \o p) /\ v \o p \in Seq(Byte)
        BY <2>2, <4>1, Assoc, Joined
      <4>3. QED
        BY <4>2 DEF h
    <3>2. QED
      BY <2>3, <3>1, ValueOfWord
  <2>6. Value(u) = Value(e)
    <3>1. \A i \in {1, 2, 3, 4} : i \in 1..Len(u)
      BY <1>1, <1>3
    <3>2. \A i \in 1..Len(u) : u[i] = Enc(kind, v)[i]
      BY DEF Begins
    <3> HIDE DEF e
    <3>3. u[1] = e[1] /\ u[2] = e[2] /\ u[3] = e[3] /\ u[4] = e[4]
      BY <2>4, <3>1, <3>2
    <3>4. QED
      BY <3>3, SMT DEF Value
  <2> HIDE DEF n, p, e
  <2>7. UnpackWord(u) = Ok(n, SubSeq(u, 5, Len(u)))
    BY <1>1, <1>3, <2>5, <2>6 DEF UnpackWord
  <2>8. Len(SubSeq(u, 5, Len(u))) = Len(u) - 4
    <3>1. 4 \in 0..Len(u) /\ 4 + 1 = 5
      BY <1>1, <1>3
    <3>2. Len(SubSeq(u, 4 + 1, Len(u))) = Len(u) - 4
      BY <1>1, <3>1, Back
    <3>3. QED
      BY <3>1, <3>2
  <2>9. Len(u) - 4 < n
    <3>1. Len(u) < 4 + n + Len(p)
      BY <2>3, <2>4 DEF Begins
    <3>2. n + Len(p) \in Nat /\ Len(u) < 4 + (n + Len(p))
      BY <1>1, <2>3, <3>1
    <3>3. \A a, b \in Nat : (a % 4 = 0 /\ b % 4 = 0 /\ a < 4 + b) => a <= b
      BY SMT
    <3>4. Len(u) <= n + Len(p)
      BY <1>1, <2>3, <3>2, <3>3
    <3>5. n \in Int /\ Len(p) \in Int /\ Len(p) <= 3
      BY <2>3
    <3>6. Len(u) \in Int
      BY <1>1
    <3>7. QED
      BY <3>4, <3>5, <3>6
  <2>10. n \notin 0..Len(SubSeq(u, 5, Len(u)))
    <3>1. \A m \in Int : m < n => n \notin 0..m
      BY <2>3
    <3>2. Len(u) - 4 \in Int
      BY <1>1
    <3>3. QED
      BY <2>8, <2>9, <3>1, <3>2
  <2>11. UnpackOpaque(u).how = "panicked"
    BY <2>7, <2>10 DEF UnpackOpaque, Ok, Fails
  <2>12. QED
    BY <2>1, <2>11 DEF Unpack
<1>4. QED
  BY <1>1, <1>2, <1>3

\* Whatever is in the buffer, it stays aligned, and the unpacker panics in a boolean
\* or in opaque data only.
LEMMA UnpackTypes ==
    ASSUME NEW kind \in Kinds, NEW u, Aligned(u)
    PROVE  LET r == Unpack(u, kind)
           IN  /\ Aligned(r.rest)
               /\ r.how \in {"ok", "err", "panicked"}
               /\ r.how = "ok" => r.val \in Val
               /\ r.how = "panicked" => kind \in {"bool", "opaque"}
<1>1. u \in Seq(Byte) /\ Len(u) % 4 = 0 /\ Len(u) \in Nat
  BY LenProperties DEF Aligned
<1> DEFINE w == UnpackWord(u)
<1>2. /\ w.how \in {"ok", "err"} /\ Aligned(w.rest)
      /\ w.how = "ok" => w.val \in Int
  <2>1. CASE Len(u) < 4
    BY <2>1 DEF UnpackWord, Fails
  <2>2. CASE ~(Len(u) < 4)
    <3>1. w = Ok(Value(u), SubSeq(u, 5, Len(u)))
      BY <2>2 DEF UnpackWord
    <3>2. Value(u) \in Int
      BY <1>1, <2>2, ValueIsWord, WordBounds, SMT
    <3>3. 4 \in 0..Len(u) /\ 4 + 1 = 5
      BY <1>1, <2>2
    <3>4. SubSeq(u, 4 + 1, Len(u)) \in Seq(Byte) /\ Len(SubSeq(u, 4 + 1, Len(u))) = Len(u) - 4
      BY <1>1, <3>3, Back
    <3>5. \A n \in Nat : n % 4 = 0 => (n - 4) % 4 = 0
      BY SMT
    <3>6. Aligned(SubSeq(u, 5, Len(u)))
      BY <1>1, <3>3, <3>4, <3>5 DEF Aligned
    <3>7. QED
      BY <3>1, <3>2, <3>6 DEF Ok
  <2>3. QED
    BY <2>1, <2>2
<1>3. CASE kind \in {"word", "status"}
  BY <1>2, <1>3 DEF Unpack, Val
<1>4. CASE kind = "bool"
  <2>1. Unpack(u, kind) = UnpackBool(u)
    BY <1>4 DEF Unpack
  <2>2. CASE w.how # "ok"
    BY <1>2, <2>1, <2>2 DEF UnpackBool
  <2>3. CASE w.how = "ok" /\ w.val \in {0, 1}
    <3>1. UnpackBool(u) = Ok(w.val = 1, w.rest)
      BY <2>3 DEF UnpackBool
    <3>2. (w.val = 1) \in Val
      BY DEF Val
    <3>3. QED
      BY <1>2, <2>1, <3>1, <3>2 DEF Ok
  <2>4. CASE w.how = "ok" /\ w.val \notin {0, 1}
    <3>1. UnpackBool(u) = Fails("panicked", w.rest)
      BY <2>4 DEF UnpackBool
    <3>2. QED
      BY <1>2, <1>4, <2>1, <3>1 DEF Fails
  <2>5. QED
    BY <2>2, <2>3, <2>4
<1>5. CASE kind = "opaque"
  <2>1. Unpack(u, kind) = UnpackOpaque(u)
    BY <1>5 DEF Unpack
  <2>2. CASE w.how # "ok"
    BY <1>2, <2>1, <2>2 DEF UnpackOpaque
  <2>3. CASE w.how = "ok" /\ w.val \notin 0..Len(w.rest)
    <3>1. UnpackOpaque(u) = Fails("panicked", w.rest)
      BY <2>3 DEF UnpackOpaque
    <3>2. QED
      BY <1>2, <1>5, <2>1, <3>1 DEF Fails
  <2>4. CASE w.how = "ok" /\ w.val \in 0..Len(w.rest)
    <3> DEFINE s == w.rest
               n == w.val
               m == n + ((Len(s) - n) % 4)
    <3>1. UnpackOpaque(u) = Ok(SubSeq(s, 1, n), SubSeq(s, m + 1, Len(s)))
      BY <2>4 DEF UnpackOpaque
    <3>2. s \in Seq(Byte) /\ Len(s) \in Nat /\ n \in 0..Len(s)
      BY <1>2, <2>4, LenProperties DEF Aligned
    <3> HIDE DEF s, n
    <3>3. m \in 0..Len(s) /\ (Len(s) - m) % 4 = 0
      <4>1. \A k \in Nat : k % 4 \in Nat /\ k % 4 <= k /\ (k - (k % 4)) % 4 = 0
        BY SMT
      <4>2. Len(s) - n \in Nat
        BY <3>2
      <4>3. Len(s) - m = (Len(s) - n) - ((Len(s) - n) % 4)
        BY <3>2, <4>1, <4>2
      <4>4. (Len(s) - m) % 4 = 0
        BY <4>1, <4>2, <4>3
      <4>5. m \in 0..Len(s)
        BY <3>2, <4>1, <4>2
      <4>6. QED
        BY <4>4, <4>5
    <3> HIDE DEF m
    <3>4. SubSeq(s, m + 1, Len(s)) \in Seq(Byte) /\ Len(SubSeq(s, m + 1, Len(s))) = Len(s) - m
      BY <3>2, <3>3, Back
    <3>5. Aligned(SubSeq(s, m + 1, Len(s)))
      BY <3>3, <3>4 DEF Aligned
    <3>6. SubSeq(s, 1, n) \in Val
      BY <3>2, Front DEF Val
    <3>7. QED
      BY <2>1, <3>1, <3>5, <3>6 DEF Ok
  <2>5. QED
    BY <2>2, <2>3, <2>4
<1>6. QED
  BY <1>3, <1>4, <1>5 DEF Kinds

-----------------------------------------------------------------------------
(* Messages *)

\* The names of the fields, and the fields; of a reply no field is a boolean.
Labels == {"xid", "mtype", "rpcvers", "prog", "vers", "proc", "cred", "cred body",
           "verf", "verf body", "reply_stat", "accept_stat", "prot", "port", "args",
           "id", "lock_device", "lock_timeout", "device", "link", "timeout", "flags",
           "data", "request_size", "term_char", "host_addr", "host_port", "prog_num",
           "prog_vers", "prog_family", "enable", "handle", "cmd", "network_order",
           "datasize", "data_in", "error", "abort_port", "max_recv_size", "size",
           "reason", "stb", "data_out"}
Field  == [field : Labels, kind : Kinds]
Plain  == {f \in Field : f.kind # "bool"}

\* A message has at most eight fields after its header.
BodyOf(T) == {s \in Seq(T) : Len(s) <= 8}

LEMMA Tuples ==
    ASSUME NEW T
    PROVE  /\ \A a \in T : <<a>> \in BodyOf(T)
           /\ \A a, b \in T : <<a, b>> \in BodyOf(T)
           /\ \A a, b, c \in T : <<a, b, c>> \in BodyOf(T)
           /\ \A a, b, c, d \in T : <<a, b, c, d>> \in BodyOf(T)
           /\ \A a, b, c, d, e \in T : <<a, b, c, d, e>> \in BodyOf(T)
           /\ \A a, b, c, d, e, f \in T : <<a, b, c, d, e, f>> \in BodyOf(T)
           /\ \A a, b, c, d, e, f, g, h \in T : <<a, b, c, d, e, f, g, h>> \in BodyOf(T)
BY DEF BodyOf

LEMMA TenTuples ==
    ASSUME NEW T
    PROVE  \A a, b, c, d, e, f, g, h, i, j \in T : <<a, b, c, d, e, f, g, h, i, j>> \in Seq(T)
OBVIOUS

LEMMA FieldKinds ==
    /\ \A f \in Labels : W(f) \in Plain /\ O(f) \in Plain /\ S(f) \in Plain /\ B(f) \in Field
    /\ Plain \subseteq Field
BY DEF W, B, O, S, Field, Kinds, Plain

LEMMA HeaderFields ==
    /\ CallHeader \in Seq(Plain) /\ Len(CallHeader) = 10
    /\ ReplyHeader \in Seq(Plain) /\ Len(ReplyHeader) = 6
<1>1. CallHeader \in Seq(Plain)
  BY FieldKinds, TenTuples, ZenonT(60) DEF CallHeader, Labels
<1>2. ReplyHeader \in Seq(Plain)
  BY FieldKinds, Tuples, Zenon DEF ReplyHeader, Labels, BodyOf
<1>3. Len(CallHeader) = 10
  BY DEF CallHeader
<1>4. Len(ReplyHeader) = 6
  BY DEF ReplyHeader
<1>5. QED
  BY <1>1, <1>2, <1>3, <1>4

CallBodies  == {Mapping, CallArgs, CreateLink, DeviceWrite, DeviceRead, Generic, RemoteFunc,
                EnableSrq, Lock, DoCmd, SrqParms, <<W("link")>>}
ReplyBodies == {CreateLinkResp, WriteResp, ReadResp, StbResp, DoCmdResp, <<W("error")>>,
                <<W("port")>>}

LEMMA BodyFields ==
    /\ \A b \in CallBodies : b \in BodyOf(Field)
    /\ \A b \in ReplyBodies : b \in BodyOf(Plain)
<1>1. Mapping \in BodyOf(Field)
  BY FieldKinds, Tuples, Zenon DEF Mapping, Labels
<1>2. CallArgs \in BodyOf(Field)
  BY FieldKinds, Tuples, Zenon DEF CallArgs, Labels
<1>3. CreateLink \in BodyOf(Field)
  BY FieldKinds, Tuples, Zenon DEF CreateLink, Labels
<1>4. DeviceWrite \in BodyOf(Field)
  BY FieldKinds, Tuples, Zenon DEF DeviceWrite, Labels
<1>5. DeviceRead \in BodyOf(Field)
  BY FieldKinds, Tuples, Zenon DEF DeviceRead, Labels
<1>6. Generic \in BodyOf(Field)
  BY FieldKinds, Tuples, Zenon DEF Generic, Labels
<1>7. RemoteFunc \in BodyOf(Field)
  BY FieldKinds, Tuples, Zenon DEF RemoteFunc, Labels
<1>8. EnableSrq \in BodyOf(Field)
  BY FieldKinds, Tuples, Zenon DEF EnableSrq, Labels
<1>9. Lock \in BodyOf(Field)
  BY FieldKinds, Tuples, Zenon DEF Lock, Labels
<1>10. DoCmd \in BodyOf(Field)
  BY FieldKinds, Tuples, Zenon DEF DoCmd, Labels
<1>11. <<W("link")>> \in BodyOf(Field) /\ SrqParms \in BodyOf(Field)
  BY FieldKinds, Tuples, Zenon DEF SrqParms, Labels
<1>12. CreateLinkResp \in BodyOf(Plain)
  BY FieldKinds, Tuples, Zenon DEF CreateLinkResp, Labels
<1>13. WriteResp \in BodyOf(Plain)
  BY FieldKinds, Tuples, Zenon DEF WriteResp, Labels
<1>14. ReadResp \in BodyOf(Plain)
  BY FieldKinds, Tuples, Zenon DEF ReadResp, Labels
<1>15. StbResp \in BodyOf(Plain)
  BY FieldKinds, Tuples, Zenon DEF StbResp, Labels
<1>16. DoCmdResp \in BodyOf(Plain)
  BY FieldKinds, Tuples, Zenon DEF DoCmdResp, Labels
<1>17. <<W("error")>> \in BodyOf(Plain) /\ <<W("port")>> \in BodyOf(Plain)
  BY FieldKinds, Tuples, Zenon DEF Labels
<1>18. \A b \in CallBodies : b \in BodyOf(Field)
  BY <1>1, <1>2, <1>3, <1>4, <1>5, <1>6, <1>7, <1>8, <1>9, <1>10, <1>11, Zenon DEF CallBodies
<1>19. \A b \in ReplyBodies : b \in BodyOf(Plain)
  BY <1>12, <1>13, <1>14, <1>15, <1>16, <1>17, Zenon DEF ReplyBodies
<1>20. QED
  BY <1>18, <1>19

LEMMA Messages ==
    ASSUME NEW n \in DOMAIN Written
    PROVE  \/ Written[n].header = CallHeader /\ Written[n].body \in CallBodies
           \/ Written[n].header = ReplyHeader /\ Written[n].body \in ReplyBodies
BY DEF Written, Args, Reply, CallBodies, ReplyBodies

\* A client unpacks of a reply what is packed into it.
LEMMA ReadsAsWritten ==
    ASSUME NEW n \in DOMAIN Written
    PROVE  Reads(n) = Written[n].body
BY DEF Reads, Written, Args, Reply, CreateLinkReads, WriteReads, ReadReads, DestroyLinkReads,
       GetPortReads, CreateLinkResp, WriteResp, ReadResp

\* The fields of a message are the same at both ends.
LEMMA MessageFields ==
    ASSUME NEW n \in DOMAIN Written
    PROVE  /\ In(n) = Out(n)
           /\ Out(n) \in Seq(Field)
           /\ Len(Out(n)) <= 18
           /\ Written[n].header \in {CallHeader, ReplyHeader}
           /\ Len(Written[n].header) \in Nat /\ Len(Written[n].header) <= 10
           /\ Written[n].header = ReplyHeader => Out(n) \in Seq(Plain)
           /\ \A i \in 1..Len(Out(n)) : i <= Len(Written[n].header) =>
                 Out(n)[i] = Written[n].header[i]
<1> DEFINE h == Written[n].header
           b == Written[n].body
<1>1. In(n) = Out(n)
  BY ReadsAsWritten DEF In, Out
<1>2. h \in {CallHeader, ReplyHeader} /\ b \in Seq(Field) /\ Len(b) <= 8
  <2>1. b \in BodyOf(Plain) => b \in BodyOf(Field)
    BY FieldKinds, SeqMonotonic DEF BodyOf
  <2>2. QED
    BY <2>1, Messages, BodyFields DEF BodyOf
<1>3. h = ReplyHeader => b \in Seq(Plain)
  <2>1. Len(CallHeader) # Len(ReplyHeader)
    BY HeaderFields
  <2>2. QED
    BY <2>1, Messages, BodyFields DEF BodyOf
<1>4. h \in Seq(Plain) /\ h \in Seq(Field) /\ Len(h) \in Nat /\ Len(h) <= 10
  <2>1. h \in Seq(Plain)
    BY <1>2, HeaderFields
  <2>2. Len(h) \in Nat /\ Len(h) <= 10
    <3>1. CASE h = CallHeader
      BY <3>1, HeaderFields
    <3>2. CASE h = ReplyHeader
      BY <3>2, HeaderFields
    <3>3. QED
      BY <1>2, <3>1, <3>2
  <2>3. h \in Seq(Field)
    BY <2>1, FieldKinds, SeqMonotonic
  <2>4. QED
    BY <2>1, <2>2, <2>3
<1>5. Out(n) = h \o b
  BY DEF Out
<1> HIDE DEF h, b
<1>6. /\ Out(n) \in Seq(Field) /\ Len(Out(n)) = Len(h) + Len(b)
      /\ \A i \in 1..Len(h) + Len(b) : Out(n)[i] = IF i <= Len(h) THEN h[i] ELSE b[i - Len(h)]
  BY <1>2, <1>4, <1>5, ConcatProperties
<1>7. Len(Out(n)) <= 18
  <2>1. Len(h) <= 10 /\ Len(h) \in Nat
    BY <1>4
  <2>2. Len(b) <= 8 /\ Len(b) \in Nat
    BY <1>2, LenProperties
  <2>3. QED
    BY <1>6, <2>1, <2>2
<1>8. h = ReplyHeader => Out(n) \in Seq(Plain)
  BY <1>3, <1>4, <1>5, ConcatProperties
<1>9. QED
  BY <1>1, <1>2, <1>4, <1>6, <1>7, <1>8 DEF h

-----------------------------------------------------------------------------
(* The inductive invariant *)

Header == Written[name].header

\* What has been packed and unpacked, and when.
FieldsInv ==
    /\ sent \in Seq(Val) /\ Len(sent) <= Len(Out(name))
    /\ \A i \in 1..Len(sent) : Fits(Out(name)[i].kind, sent[i])
    /\ got \in Seq(Val) /\ Len(got) <= Len(In(name))
    /\ pc = "packing" =>
          unpacker = << >> /\ stream = << >> /\ got = << >> /\ cut = "no"
    /\ pc # "packing" => Len(sent) = Len(Out(name))
    /\ pc = "reading" => got = << >> /\ cut # "short"
    /\ cut = "unaligned" => Header = ReplyHeader

\* b says where in the buffer each field that was packed ends, and so where the next
\* one begins.
Laid(b) ==
    /\ b \in [0..Len(sent) -> 0..Len(packer)]
    /\ b[0] = 0 /\ b[Len(sent)] = Len(packer)
    /\ \A i \in 1..Len(sent) :
          /\ b[i - 1] < b[i]
          /\ SubSeq(packer, b[i - 1] + 1, b[i]) = Enc(Out(name)[i].kind, sent[i])

\* Each field adds at most this to the buffer, so that its length keeps to 31 bits.
SizeInv == Len(packer) <= Len(sent) * 67108872

\* The fragments that do_call has not read, and what it has read.
ReadingInv ==
    (pc = "reading" /\ cut = "no") =>
        \/ /\ unpacker = << >>
           /\ \E at \in 0..Len(packer) :
                /\ at % 4 = 0
                /\ stream = Fragment(SubSeq(packer, 1, at), FALSE)
                            \o Fragment(SubSeq(packer, at + 1, Len(packer)), TRUE)
        \/ \E at \in 0..Len(packer) :
                /\ at % 4 = 0
                /\ unpacker = SubSeq(packer, 1, at)
                /\ stream = Fragment(SubSeq(packer, at + 1, Len(packer)), TRUE)

\* The unpacker has what lies after the fields that have been unpacked, up to the end
\* of the message or to where it was cut.
UnpackingInv(b) ==
    (pc \in {"unpacking"} \cup Ended /\ cut # "unaligned") =>
        /\ \A i \in 1..Len(got) : got[i] = sent[i]
        /\ pc = "unpacking" =>
              /\ stream = << >>
              /\ \E end \in 0..Len(packer) :
                    /\ cut = "no" => end = Len(packer)
                    /\ b[Len(got)] <= end
                    /\ unpacker = SubSeq(packer, b[Len(got)] + 1, end)

\* How a message ends that arrived whole.
EndInv ==
    (pc \in Ended /\ cut = "no") =>
        \/ pc = "ok" /\ unpacker = << >> /\ stream = << >>
        \/ pc = "err" /\ \E j \in 1..Len(sent) : ~Accepts(Out(name)[j], sent[j])

IInv ==
    /\ TypeOK /\ FieldsInv /\ SizeInv /\ ReadingInv /\ EndInv /\ PanicsOnlyWhenCut
    /\ \E b : Laid(b) /\ UnpackingInv(b)

LEMMA InitInv == Init => IInv
<1> SUFFICES ASSUME Init PROVE IInv
  OBVIOUS
<1> USE DEF Init
<1>1. << >> \in Seq(Byte) /\ << >> \in Seq(Val) /\ Len(<< >>) = 0
  OBVIOUS
<1>2. name \in DOMAIN Written
  BY NamesAssumption
<1>3. TypeOK
  BY <1>1, <1>2 DEF TypeOK
<1>4. FieldsInv
  <2>1. Len(Out(name)) \in Nat /\ Len(In(name)) \in Nat
    BY <1>2, MessageFields, LenProperties
  <2>2. QED
    BY <1>1, <2>1 DEF FieldsInv
<1>5. SizeInv
  BY SMT DEF SizeInv
<1>6. ReadingInv /\ EndInv /\ PanicsOnlyWhenCut
  BY DEF ReadingInv, EndInv, PanicsOnlyWhenCut, Ended
<1>7. Laid([i \in 0..0 |-> 0])
  BY DEF Laid
<1>8. UnpackingInv([i \in 0..0 |-> 0])
  BY DEF UnpackingInv, Ended
<1>9. QED
  BY <1>3, <1>4, <1>5, <1>6, <1>7, <1>8 DEF IInv

\* The values that a message is made of fit its fields.
LEMMA ChosenFits ==
    ASSUME name \in DOMAIN Written, NEW i \in 1..Len(Out(name)), NEW v \in Chosen(i)
    PROVE  Fits(Out(name)[i].kind, v) /\ v \in Val
<1> DEFINE kind == Out(name)[i].kind
<1>1. Out(name) \in Seq(Field) /\ Len(Out(name)) <= 18 /\ Len(Header) \in Nat
  BY MessageFields DEF Header
<1>2. kind \in Kinds
  <2>1. Out(name)[i] \in Field
    BY <1>1, ElementOfSeq
  <2>2. QED
    BY <2>1 DEF Field
<1>3. i \in Word
  <2>1. i \in Int /\ 1 <= i /\ i <= 18
    BY <1>1, LenProperties
  <2>2. QED
    BY <2>1, WordBounds, SMT
<1>4. Fits("opaque", << >>)
  <2>1. MaxOpaque >= 0
    BY SMT DEF MaxOpaque
  <2>2. QED
    BY <2>1 DEF Fits
<1>5. Chosen(i) = IF i > Len(Header) THEN Values(kind)
                  ELSE IF kind = "word" THEN {i}
                  ELSE IF kind = "opaque" /\ Header = CallHeader THEN {<< >>}
                  ELSE Values(kind)
  BY DEF Chosen, Header
<1> HIDE DEF kind
<1>6. Fits(kind, v)
  <2>1. v \in Values(kind) => Fits(kind, v)
    BY <1>2, ConstantsAssumption DEF Values, Fits, Kinds
  <2>2. kind = "word" /\ v = i => Fits(kind, v)
    BY <1>3 DEF Fits
  <2>3. QED
    BY <1>4, <1>5, <2>1, <2>2
<1>7. v \in Val
  <2>1. Word \subseteq Int
    BY WordBounds
  <2>2. QED
    BY <1>2, <1>6, <2>1 DEF Fits, Val, Kinds
<1>8. QED
  BY <1>6, <1>7 DEF kind

\* A field is laid behind those that are there.
LEMMA LaidStep ==
    ASSUME sent \in Seq(Val), packer \in Seq(Byte), NEW b, Laid(b),
           NEW v \in Val, NEW e \in Seq(Byte), Len(e) >= 4,
           e = Enc(Out(name)[Len(sent) + 1].kind, v),
           name' = name, sent' = Append(sent, v), packer' = packer \o e
    PROVE  \E c : Laid(c)'
<1> DEFINE n == Len(sent)
<1>0. PICK c : c = [i \in 0..(n + 1) |-> IF i <= n THEN b[i] ELSE Len(packer')]
  OBVIOUS
<1>1. /\ n \in Nat /\ Len(packer) \in Nat /\ Len(e) \in Nat
      /\ Len(packer') = Len(packer) + Len(e) /\ packer' \in Seq(Byte)
  BY Joined, LenProperties
<1>2. /\ Len(sent') = n + 1 /\ sent'[n + 1] = v
      /\ \A i \in 1..n : sent'[i] = sent[i]
  BY AppendProperties
<1>3. /\ \A i \in 0..n : b[i] \in 0..Len(packer)
      /\ b[0] = 0 /\ b[n] = Len(packer)
  BY DEF Laid
<1>4. ASSUME NEW i \in 1..n
      PROVE  /\ c[i - 1] < c[i]
             /\ SubSeq(packer', c[i - 1] + 1, c[i]) = Enc(Out(name)'[i].kind, sent'[i])
  <2>1. /\ b[i - 1] < b[i]
        /\ SubSeq(packer, b[i - 1] + 1, b[i]) = Enc(Out(name)[i].kind, sent[i])
    BY DEF Laid
  <2>2. i \in 0..n /\ i - 1 \in 0..n
    BY <1>1
  <2>3. c[i - 1] = b[i - 1] /\ c[i] = b[i]
    BY <1>0, <1>1, <2>2
  <2>4. b[i - 1] \in 0..Len(packer) /\ b[i] \in 0..Len(packer)
    BY <1>3, <2>2
  <2>5. b[i - 1] + 1 \in 1..Len(packer) /\ b[i] \in 1..Len(packer)
    <3>1. \A l \in Nat : \A x, y \in 0..l : x < y => x + 1 \in 1..l /\ y \in 1..l
      OBVIOUS
    <3>2. QED
      BY <1>1, <2>1, <2>4, <3>1
  <2>6. SubSeq(packer', b[i - 1] + 1, b[i]) = SubSeq(packer, b[i - 1] + 1, b[i])
    BY <2>5, SubSeqOfConcat1
  <2>7. Out(name)' = Out(name)
    BY DEF Out
  <2>8. QED
    BY <1>2, <2>1, <2>3, <2>6, <2>7
<1>5. /\ c[n] < c[n + 1]
      /\ SubSeq(packer', c[n] + 1, c[n + 1]) = Enc(Out(name)'[n + 1].kind, sent'[n + 1])
  <2>1. c[n] = Len(packer) /\ c[n + 1] = Len(packer')
    BY <1>0, <1>1, <1>3
  <2>2. SubSeq(packer', Len(packer) + 1, Len(packer')) = e
    BY Parts
  <2>3. Out(name)' = Out(name)
    BY DEF Out
  <2>4. c[n] < c[n + 1]
    BY <1>1, <2>1
  <2>5. SubSeq(packer', c[n] + 1, c[n + 1]) = Enc(Out(name)'[n + 1].kind, sent'[n + 1])
    BY <1>2, <2>1, <2>2, <2>3
  <2>6. QED
    BY <2>4, <2>5
<1>6. c \in [0..Len(sent') -> 0..Len(packer')]
  <2>1. \A i \in 0..(n + 1) : (IF i <= n THEN b[i] ELSE Len(packer')) \in 0..Len(packer')
    BY <1>1, <1>3
  <2>2. QED
    BY <1>0, <1>2, <2>1
<1>7. c[0] = 0 /\ c[Len(sent')] = Len(packer')
  BY <1>0, <1>1, <1>2, <1>3
<1>8. \A i \in 1..Len(sent') :
         /\ c[i - 1] < c[i]
         /\ SubSeq(packer', c[i - 1] + 1, c[i]) = Enc(Out(name)'[i].kind, sent'[i])
  <2>1. \A i \in 1..Len(sent') : i \in 1..n \/ (i = n + 1 /\ i - 1 = n)
    BY <1>1, <1>2
  <2>2. QED
    BY <1>4, <1>5, <2>1
<1>9. Laid(c)'
  BY <1>6, <1>7, <1>8 DEF Laid
<1>10. QED
  BY <1>9

\* What the buffer of the packer is, whenever.
LEMMA PackerIsAligned ==
    ASSUME TypeOK
    PROVE  /\ name \in DOMAIN Written /\ Aligned(packer) /\ packer \in Seq(Byte)
           /\ Len(packer) \in Nat /\ Len(packer) % 4 = 0
           /\ Aligned(unpacker) /\ unpacker \in Seq(Byte) /\ stream \in Seq(Byte)
BY LenProperties DEF TypeOK, Aligned

LEMMA PackFieldStep == IInv /\ PackField => IInv'
<1> SUFFICES ASSUME IInv, PackField PROVE IInv'
  OBVIOUS
<1>1. /\ pc = "packing" /\ pc' = "packing" /\ Len(sent) < Len(Out(name))
      /\ name' = name /\ unpacker' = unpacker /\ stream' = stream /\ cut' = cut /\ got' = got
  BY DEF PackField
<1> DEFINE i == Len(sent) + 1
           kind == Out(name)[i].kind
<1>2. PICK v \in Chosen(i) : sent' = Append(sent, v) /\ packer' = Pack(packer, kind, v)
  BY DEF PackField
<1>3. /\ TypeOK /\ FieldsInv /\ SizeInv
      /\ name \in DOMAIN Written /\ Aligned(packer) /\ packer \in Seq(Byte)
      /\ Len(packer) \in Nat /\ Len(packer) % 4 = 0
  BY PackerIsAligned DEF IInv
<1>4. /\ Out(name) \in Seq(Field) /\ Len(Out(name)) \in Nat /\ In(name) = Out(name)
  BY <1>3, MessageFields, LenProperties
<1>5. sent \in Seq(Val) /\ Len(sent) \in Nat
  BY <1>3, LenProperties DEF FieldsInv
<1>6. i \in 1..Len(Out(name))
  BY <1>1, <1>4, <1>5
<1>7. kind \in Kinds
  <2>1. Out(name)[i] \in Field
    BY <1>4, <1>6, ElementOfSeq
  <2>2. QED
    BY <2>1 DEF Field
<1>8. Fits(kind, v) /\ v \in Val
  BY <1>3, <1>6, ChosenFits
<1> HIDE DEF kind
<1> DEFINE e == Enc(kind, v)
<1>9. /\ e \in Seq(Byte) /\ Len(e) \in Nat /\ Len(e) % 4 = 0 /\ Len(e) >= 4
  BY <1>7, <1>8, EncIsAligned, LenProperties DEF Aligned
<1>10. packer' = packer \o e
  BY <1>2, <1>3, <1>7, <1>8, PackIsEnc
<1>11. Len(e) <= 67108872
  BY <1>7, <1>8, EncIsBounded
<1>12. e = Enc(Out(name)[Len(sent) + 1].kind, v)
  BY DEF kind
<1> HIDE DEF e
<1>13. /\ packer' \in Seq(Byte) /\ Len(packer') = Len(packer) + Len(e)
       /\ Len(packer') % 4 = 0
  <2>1. packer' \in Seq(Byte) /\ Len(packer') = Len(packer) + Len(e)
    BY <1>3, <1>9, <1>10, Joined
  <2>2. Len(packer') % 4 = 0
    BY <1>3, <1>9, <2>1, Shift4
  <2>3. QED
    BY <2>1, <2>2
<1>14. /\ sent' \in Seq(Val) /\ Len(sent') = i /\ sent'[i] = v
       /\ \A j \in 1..Len(sent) : sent'[j] = sent[j]
  BY <1>2, <1>5, <1>8, AppendProperties
<1>15. TypeOK'
  BY <1>1, <1>3, <1>13 DEF TypeOK
<1>16. FieldsInv'
  <2>1. Len(sent') <= Len(Out(name))
    BY <1>6, <1>14
  <2>2. \A j \in 1..Len(sent') : Fits(Out(name)[j].kind, sent'[j])
    <3>1. \A j \in 1..Len(sent') : j \in 1..Len(sent) \/ j = i
      BY <1>5, <1>14
    <3>2. \A j \in 1..Len(sent) : Fits(Out(name)[j].kind, sent[j])
      BY <1>3 DEF FieldsInv
    <3>3. QED
      BY <1>8, <1>14, <3>1, <3>2 DEF kind
  <2>3. Out(name)' = Out(name) /\ In(name)' = In(name) /\ Header' = Header
    BY <1>1 DEF Out, In, Header
  <2>4. QED
    BY <1>1, <1>3, <1>14, <2>1, <2>2, <2>3 DEF FieldsInv
<1>17. SizeInv'
  <2>1. Len(packer) <= Len(sent) * 67108872
    BY <1>3, SMT DEF SizeInv
  <2>2. \A m, k, n \in Int : m <= n * 67108872 /\ k <= 67108872 => m + k <= (n + 1) * 67108872
    BY SMT
  <2>3. Len(packer) \in Int /\ Len(e) \in Int /\ Len(sent) \in Int
    BY <1>3, <1>5, <1>9
  <2>4. Len(packer) + Len(e) <= (Len(sent) + 1) * 67108872
    BY <1>11, <2>1, <2>2, <2>3, SMT
  <2>5. Len(packer') = Len(packer) + Len(e) /\ Len(sent') = Len(sent) + 1
    BY <1>13, <1>14
  <2>6. QED
    BY <2>4, <2>5, SMT DEF SizeInv
<1>18. ReadingInv' /\ EndInv' /\ PanicsOnlyWhenCut'
  BY <1>1 DEF ReadingInv, EndInv, PanicsOnlyWhenCut, Ended
<1>19. \E c : Laid(c)'
  <2>1. PICK b : Laid(b)
    BY DEF IInv
  <2>2. QED
    BY <1>1, <1>2, <1>3, <1>5, <1>8, <1>9, <1>10, <1>12, <2>1, LaidStep
<1>20. \A c : UnpackingInv(c)'
  BY <1>1 DEF UnpackingInv, Ended
<1>21. QED
  BY <1>15, <1>16, <1>17, <1>18, <1>19, <1>20 DEF IInv

\* The end of packing: what the steps that send have in common.
LEMMA SendSteps ==
    ASSUME IInv, Packed, pc' \in {"reading", "unpacking"},
           name' = name, sent' = sent, packer' = packer, got' = got,
           cut' \in {"no", "short", "unaligned"},
           Aligned(unpacker'), stream' \in Seq(Byte),
           cut' = "unaligned" => Header = ReplyHeader,
           pc' = "reading" => cut' # "short"
    PROVE  /\ TypeOK' /\ FieldsInv' /\ SizeInv' /\ EndInv' /\ PanicsOnlyWhenCut'
           /\ \E b : Laid(b) /\ Laid(b)'
           /\ got = << >> /\ stream = << >> /\ unpacker = << >> /\ cut = "no"
<1>1. TypeOK /\ FieldsInv /\ SizeInv /\ pc = "packing" /\ Len(sent) = Len(Out(name))
  BY DEF IInv, Packed
<1>2. got = << >> /\ stream = << >> /\ unpacker = << >> /\ cut = "no"
  BY <1>1 DEF FieldsInv
<1>3. Out(name)' = Out(name) /\ In(name)' = In(name) /\ Header' = Header
  BY DEF Out, In, Header
<1>4. TypeOK'
  BY <1>1 DEF TypeOK, Aligned
<1>5. FieldsInv'
  BY <1>1, <1>2, <1>3 DEF FieldsInv
<1>6. SizeInv'
  BY <1>1, SMT DEF SizeInv
<1>7. EndInv' /\ PanicsOnlyWhenCut'
  BY DEF EndInv, PanicsOnlyWhenCut, Ended
<1>8. \E b : Laid(b) /\ Laid(b)'
  <2>1. PICK b : Laid(b)
    BY DEF IInv
  <2>2. Laid(b)'
    BY <1>3, <2>1 DEF Laid
  <2>3. QED
    BY <2>1, <2>2
<1>9. QED
  BY <1>2, <1>4, <1>5, <1>6, <1>7, <1>8

LEMMA TransmitStep == ASSUME IInv, NEW n \in 0..(Len(packer) \div 4), Transmit(n) PROVE IInv'
<1>1. /\ Packed /\ n * 4 <= Len(packer)
      /\ unpacker' = SubSeq(packer, 1, n * 4) /\ pc' = "unpacking"
      /\ cut' = IF n * 4 < Len(packer) THEN "short" ELSE "no"
      /\ name' = name /\ sent' = sent /\ packer' = packer /\ stream' = stream /\ got' = got
  BY DEF Transmit
<1>2. packer \in Seq(Byte) /\ Len(packer) \in Nat /\ stream \in Seq(Byte)
  BY PackerIsAligned DEF IInv
<1>3. n * 4 \in 0..Len(packer) /\ (n * 4) % 4 = 0
  BY <1>1, <1>2
<1>4. Aligned(unpacker')
  BY <1>1, <1>2, <1>3, Front DEF Aligned
<1>5. /\ TypeOK' /\ FieldsInv' /\ SizeInv' /\ EndInv' /\ PanicsOnlyWhenCut'
      /\ \E b : Laid(b) /\ Laid(b)'
      /\ got = << >> /\ stream = << >>
  BY <1>1, <1>2, <1>4, SendSteps
<1>6. PICK b : Laid(b) /\ Laid(b)'
  BY <1>5
<1>7. UnpackingInv(b)'
  <2>1. b[Len(got')] = 0 /\ Len(got') = 0
    BY <1>1, <1>5, <1>6 DEF Laid
  <2>2. cut' = "no" => n * 4 = Len(packer)
    BY <1>1, <1>3
  <2>3. \A i \in 1..Len(got') : got'[i] = sent'[i]
    BY <2>1
  <2>4. /\ b[Len(got')] <= n * 4
        /\ unpacker' = SubSeq(packer', b[Len(got')] + 1, n * 4)
    BY <1>1, <1>3, <2>1
  <2>5. QED
    BY <1>1, <1>3, <1>5, <2>2, <2>3, <2>4 DEF UnpackingInv
<1>8. ReadingInv'
  BY <1>1 DEF ReadingInv
<1>9. QED
  BY <1>5, <1>6, <1>7, <1>8 DEF IInv

\* The length of the fragment that a stream begins with, and its units of four bytes.
FragmentLength(s) == IF Value(s) < 0 THEN (Value(s) + MaxWord) + 1 ELSE Value(s)
Units(s) == (FragmentLength(s) \div 4) + (IF FragmentLength(s) % 4 = 0 THEN 0 ELSE 1)

LEMMA FragmentBytes ==
    ASSUME NEW bytes \in Seq(Byte), NEW last \in BOOLEAN
    PROVE  Fragment(bytes, last) \in Seq(Byte)
<1> DEFINE x == IF last THEN (Len(bytes) - MaxWord) - 1 ELSE Len(bytes)
<1>1. x \in Int
  <2>1. MaxWord \in Int
    BY WordRange
  <2>2. Len(bytes) \in Nat
    BY LenProperties
  <2>3. \A m \in Int, n \in Nat : (n - m) - 1 \in Int /\ n \in Int
    BY SMT
  <2>4. (Len(bytes) - MaxWord) - 1 \in Int /\ Len(bytes) \in Int
    BY <2>1, <2>2, <2>3
  <2>5. QED
    BY <2>4
<1>2. Fragment(bytes, last) = BE(x) \o bytes
  BY DEF Fragment
<1> HIDE DEF x
<1>3. QED
  BY <1>1, <1>2, BytesOfWord, Joined

\* A fragment is read to its end, and no further.
LEMMA FragmentRead ==
    ASSUME NEW bytes, Aligned(bytes), Len(bytes) <= MaxWord,
           NEW last \in BOOLEAN, NEW more \in Seq(Byte)
    PROVE  LET s == Fragment(bytes, last) \o more
           IN  /\ Value(s) < 0 <=> last
               /\ ~(Len(s) < 4 \/ (Len(s) - 4) \div 4 < Units(s))
               /\ SubSeq(s, 5, 4 + Units(s) * 4) = bytes
               /\ SubSeq(s, 5 + Units(s) * 4, Len(s)) = more
<1> DEFINE l == Len(bytes)
           x == IF last THEN (l - MaxWord) - 1 ELSE l
           s == Fragment(bytes, last) \o more
<1>1. /\ bytes \in Seq(Byte) /\ l \in Nat /\ l % 4 = 0 /\ Len(more) \in Nat
  BY LenProperties DEF Aligned
<1>2. MaxWord \in Int
  BY WordRange
<1>3. \A n \in Nat, m \in Int : n <= m =>
         /\ (n - m) - 1 \in Int /\ -m - 1 <= (n - m) - 1 /\ (n - m) - 1 < 0
         /\ (((n - m) - 1) + m) + 1 = n
  BY SMT
<1>4. /\ (l - MaxWord) - 1 \in Int /\ -MaxWord - 1 <= (l - MaxWord) - 1
      /\ (l - MaxWord) - 1 < 0 /\ (((l - MaxWord) - 1) + MaxWord) + 1 = l
  BY <1>1, <1>2, <1>3
<1>5. (l - MaxWord) - 1 \in Word /\ l \in Word
  <2>1. (l - MaxWord) - 1 <= MaxWord /\ -MaxWord - 1 <= l
    BY <1>1, <1>2, <1>4, WordRange
  <2>2. QED
    BY <1>1, <1>4, <2>1, WordRange
<1>6. x \in Word /\ (x < 0 <=> last) /\ (IF x < 0 THEN (x + MaxWord) + 1 ELSE x) = l
  <2>1. CASE last
    BY <1>4, <1>5, <2>1
  <2>2. CASE ~last
    BY <1>1, <1>5, <2>2
  <2>3. QED
    BY <2>1, <2>2
<1>7. Fragment(bytes, last) = BE(x) \o bytes
  BY DEF Fragment
<1> HIDE DEF x
<1>8. BE(x) \in Seq(Byte) /\ Len(BE(x)) = 4
  BY <1>6, WordBounds, BytesOfWord
<1> DEFINE f == Fragment(bytes, last)
<1>9. /\ f \in Seq(Byte) /\ Len(f) = 4 + l
      /\ bytes \o more \in Seq(Byte)
  <2>1. f \in Seq(Byte) /\ Len(f) = Len(BE(x)) + Len(bytes)
    BY <1>1, <1>7, <1>8, Joined
  <2>2. bytes \o more \in Seq(Byte)
    BY <1>1, Joined
  <2>3. QED
    BY <1>8, <2>1, <2>2
<1>10. s = BE(x) \o (bytes \o more)
  <2> DEFINE h == BE(x)
  <2>1. h \in Seq(Byte) /\ f = h \o bytes
    BY <1>7, <1>8
  <2> HIDE DEF h
  <2>2. (h \o bytes) \o more = h \o (bytes \o more)
    BY <1>1, <2>1, Assoc
  <2>3. QED
    BY <2>1, <2>2 DEF h
<1>11. Value(s) = x
  BY <1>6, <1>9, <1>10, ValueOfWord
<1>12. s \in Seq(Byte) /\ Len(s) = (4 + l) + Len(more)
  <2>1. s \in Seq(Byte) /\ Len(s) = Len(f) + Len(more)
    BY <1>9, Joined
  <2>2. QED
    BY <1>9, <2>1
<1>13. SubSeq(s, (4 + l) + 1, Len(s)) = more
  <2>1. SubSeq(f \o more, Len(f) + 1, Len(f \o more)) = more
    BY <1>9, Parts
  <2>2. QED
    BY <1>9, <2>1
<1>14. SubSeq(s, 5, 4 + l) = bytes
  <2>1. SubSeq(f, 5, 4 + l) = bytes
    <3>1. SubSeq(BE(x) \o bytes, Len(BE(x)) + 1, Len(BE(x) \o bytes)) = bytes
      BY <1>1, <1>8, Parts
    <3>2. Len(BE(x)) + 1 = 5 /\ BE(x) \o bytes = f
      BY <1>7, <1>8
    <3>3. QED
      BY <1>9, <3>1, <3>2
  <2> HIDE DEF f
  <2>2. s = f \o more
    BY DEF f
  <2> HIDE DEF s
  <2>3. CASE l = 0
    <3>1. bytes = << >>
      BY <1>1, <2>3, EmptySeq
    <3>2. SubSeq(s, 5, 4 + l) = << >>
      <4>1. 5 > 4 + l
        BY <1>1, <2>3
      <4>2. QED
        BY <1>1, <1>12, <4>1, SMT
    <3>3. QED
      BY <3>1, <3>2
  <2>4. CASE l # 0
    <3>1. 5 \in 1..(4 + l) /\ 4 + l \in 1..(4 + l)
      BY <1>1, <2>4
    <3>2. SubSeq(f \o more, 5, 4 + l) = SubSeq(f, 5, 4 + l)
      BY <1>9, <3>1, SubSeqOfConcat1
    <3>3. QED
      BY <2>1, <2>2, <3>2
  <2>5. QED
    BY <2>3, <2>4
<1>15. FragmentLength(s) = l
  BY <1>6, <1>11 DEF FragmentLength
<1> HIDE DEF s, l
<1>16. Units(s) * 4 = l /\ Units(s) \in Nat
  <2>1. \A n \in Nat : n % 4 = 0 => (n \div 4) * 4 = n /\ n \div 4 \in Nat
    BY SMT
  <2>2. Units(s) = l \div 4
    BY <1>1, <1>15 DEF Units
  <2>3. QED
    BY <1>1, <2>1, <2>2
<1>17. ~(Len(s) < 4 \/ (Len(s) - 4) \div 4 < Units(s))
  <2>1. \A m, k, u \in Nat : m = (4 + u * 4) + k => ~(m < 4) /\ ~((m - 4) \div 4 < u)
    BY SMT
  <2>2. Len(s) \in Nat
    BY <1>1, <1>12
  <2>3. QED
    BY <1>1, <1>12, <1>16, <2>1, <2>2
<1>18. 5 + Units(s) * 4 = (4 + l) + 1
  BY <1>1, <1>16
<1>19. QED
  BY <1>6, <1>11, <1>13, <1>14, <1>16, <1>17, <1>18 DEF s

LEMMA SendRecordStep == IInv /\ SendRecord => IInv'
<1> SUFFICES ASSUME IInv, SendRecord PROVE IInv'
  OBVIOUS
<1>1. /\ Packed /\ stream' = Fragment(packer, TRUE) /\ pc' = "reading"
      /\ name' = name /\ sent' = sent /\ packer' = packer /\ unpacker' = unpacker
      /\ cut' = cut /\ got' = got
  BY DEF SendRecord
<1>2. /\ packer \in Seq(Byte) /\ Len(packer) \in Nat /\ Aligned(unpacker)
      /\ cut \in {"no", "short", "unaligned"}
  BY PackerIsAligned DEF IInv, TypeOK
<1>3. stream' \in Seq(Byte)
  BY <1>1, <1>2, FragmentBytes
<1>4. cut = "no"
  BY <1>1 DEF IInv, FieldsInv, Packed
<1>5. /\ TypeOK' /\ FieldsInv' /\ SizeInv' /\ EndInv' /\ PanicsOnlyWhenCut'
      /\ \E b : Laid(b) /\ Laid(b)'
      /\ unpacker = << >>
  <2>1. /\ pc' \in {"reading", "unpacking"} /\ cut' \in {"no", "short", "unaligned"}
        /\ Aligned(unpacker') /\ (cut' = "unaligned" => Header = ReplyHeader)
        /\ (pc' = "reading" => cut' # "short")
    BY <1>1, <1>2, <1>4
  <2>2. QED
    BY <1>1, <1>3, <2>1, SendSteps
<1>6. ReadingInv'
  <2>1. SubSeq(packer, 1, 0) = << >> /\ SubSeq(packer, 0 + 1, Len(packer)) = packer
    BY <1>2, SMT
  <2>2. 0 \in 0..Len(packer) /\ 0 % 4 = 0
    BY <1>2
  <2>3. /\ unpacker' = SubSeq(packer', 1, 0)
        /\ stream' = Fragment(SubSeq(packer', 0 + 1, Len(packer')), TRUE)
    BY <1>1, <1>5, <2>1
  <2>4. QED
    BY <1>1, <2>2, <2>3 DEF ReadingInv
<1>7. \A b : UnpackingInv(b)'
  BY <1>1 DEF UnpackingInv, Ended
<1>8. QED
  BY <1>5, <1>6, <1>7 DEF IInv

LEMMA SendFragmentsStep ==
    ASSUME IInv, NEW at \in 1..Len(packer), SendFragments(at) PROVE IInv'
<1> DEFINE front == SubSeq(packer, 1, at)
           back  == SubSeq(packer, at + 1, Len(packer))
<1>1. /\ Packed /\ Header = ReplyHeader
      /\ stream' = Fragment(front, FALSE) \o Fragment(back, TRUE)
      /\ cut' = IF at % 4 = 0 THEN "no" ELSE "unaligned"
      /\ pc' = "reading"
      /\ name' = name /\ sent' = sent /\ packer' = packer /\ unpacker' = unpacker
      /\ got' = got
  BY DEF SendFragments, Header
<1>2. packer \in Seq(Byte) /\ Len(packer) \in Nat /\ Aligned(unpacker)
  BY PackerIsAligned DEF IInv
<1>3. at \in 0..Len(packer)
  BY <1>2
<1>4. front \in Seq(Byte) /\ back \in Seq(Byte)
  BY <1>2, <1>3, Front, Back
<1>5. stream' \in Seq(Byte)
  BY <1>1, <1>4, FragmentBytes, Joined
<1>6. /\ TypeOK' /\ FieldsInv' /\ SizeInv' /\ EndInv' /\ PanicsOnlyWhenCut'
      /\ \E b : Laid(b) /\ Laid(b)'
      /\ unpacker = << >>
  <2>1. /\ pc' \in {"reading", "unpacking"} /\ cut' \in {"no", "short", "unaligned"}
        /\ Aligned(unpacker') /\ (cut' = "unaligned" => Header = ReplyHeader)
        /\ (pc' = "reading" => cut' # "short")
    BY <1>1, <1>2
  <2>2. QED
    BY <1>1, <1>5, <2>1, SendSteps
<1>7. ReadingInv'
  <2>1. cut' = "no" => at % 4 = 0
    BY <1>1
  <2>2. stream' = Fragment(SubSeq(packer', 1, at), FALSE)
                  \o Fragment(SubSeq(packer', at + 1, Len(packer')), TRUE)
    BY <1>1
  <2>3. QED
    BY <1>1, <1>3, <1>6, <2>1, <2>2 DEF ReadingInv
<1>8. \A b : UnpackingInv(b)'
  BY <1>1 DEF UnpackingInv, Ended
<1>9. QED
  BY <1>6, <1>7, <1>8 DEF IInv

\* The length of a message has 31 bits.
LEMMA PackerFits ==
    ASSUME IInv PROVE Len(packer) <= MaxWord
<1>1. Len(sent) \in Nat /\ Len(sent) <= Len(Out(name)) /\ name \in DOMAIN Written
  BY LenProperties DEF IInv, FieldsInv, TypeOK
<1>2. Len(Out(name)) <= 18 /\ Len(Out(name)) \in Nat
  BY <1>1, MessageFields, LenProperties
<1>3. Len(packer) \in Nat
  BY PackerIsAligned DEF IInv
<1>4. Len(packer) <= Len(sent) * 67108872
  BY SMT DEF IInv, SizeInv
<1>5. \A l, s \in Int : l <= s * 67108872 /\ s <= 18 => l <= 2147483647
  BY SMT
<1>6. MaxWord = 2147483647
  BY SMT DEF MaxWord
<1>7. Len(sent) <= 18
  BY <1>1, <1>2
<1>8. QED
  BY <1>1, <1>3, <1>4, <1>5, <1>6, <1>7, SMT

\* The two parts of what has been packed, when it is cut between two words.
LEMMA Halves ==
    ASSUME Aligned(packer), NEW at \in 0..Len(packer), at % 4 = 0
    PROVE  /\ Aligned(SubSeq(packer, 1, at)) /\ Len(SubSeq(packer, 1, at)) <= Len(packer)
           /\ Aligned(SubSeq(packer, at + 1, Len(packer)))
           /\ Len(SubSeq(packer, at + 1, Len(packer))) <= Len(packer)
           /\ SubSeq(packer, 1, at) \o SubSeq(packer, at + 1, Len(packer)) = packer
<1>1. packer \in Seq(Byte) /\ Len(packer) \in Nat /\ Len(packer) % 4 = 0
  BY LenProperties DEF Aligned
<1>2. SubSeq(packer, 1, at) \in Seq(Byte) /\ Len(SubSeq(packer, 1, at)) = at
  BY <1>1, Front
<1>3. /\ SubSeq(packer, at + 1, Len(packer)) \in Seq(Byte)
      /\ Len(SubSeq(packer, at + 1, Len(packer))) = Len(packer) - at
  BY <1>1, Back
<1>4. at \in Nat /\ at <= Len(packer) /\ Len(packer) - at <= Len(packer)
  BY <1>1
<1>5. (Len(packer) - at) % 4 = 0
  <2>1. \A m, n \in Nat : m % 4 = 0 /\ n % 4 = 0 => (m - n) % 4 = 0
    BY SMT
  <2>2. QED
    BY <1>1, <1>4, <2>1
<1>6. SubSeq(packer, 1, at) \o SubSeq(packer, at + 1, Len(packer)) = packer
  <2>1. /\ 1 \in 1..Len(packer) + 1 /\ at \in (1 - 1)..Len(packer)
        /\ Len(packer) \in at..Len(packer)
    BY <1>1
  <2>2. SubSeq(packer, 1, at) \o SubSeq(packer, at + 1, Len(packer))
           = SubSeq(packer, 1, Len(packer))
    BY <1>1, <2>1, ConcatAdjacentSubSeq
  <2>3. QED
    BY <1>1, <2>2, SubSeqFull
<1>7. QED
  BY <1>2, <1>3, <1>4, <1>5, <1>6 DEF Aligned

\* Whatever a stream has, bytes are read from it in units of four.
LEMMA FragmentTypes ==
    ASSUME NEW s \in Seq(Byte),
           ~(Len(s) < 4 \/ (Len(s) - 4) \div 4 < Units(s))
    PROVE  /\ Aligned(SubSeq(s, 5, 4 + Units(s) * 4))
           /\ SubSeq(s, 5 + Units(s) * 4, Len(s)) \in Seq(Byte)
<1>1. Len(s) \in Nat /\ Len(s) >= 4
  BY LenProperties
<1>2. Value(s) \in Word
  BY <1>1, ValueIsWord
<1>3. FragmentLength(s) \in Nat
  <2>1. Value(s) \in Int /\ MaxWord \in Int /\ -MaxWord - 1 <= Value(s)
    BY <1>2, WordRange
  <2>2. \A x, m \in Int : -m - 1 <= x => (IF x < 0 THEN (x + m) + 1 ELSE x) \in Nat
    BY SMT
  <2>3. QED
    BY <2>1, <2>2 DEF FragmentLength
<1>4. Units(s) \in Nat
  <2>1. \A n \in Nat : (n \div 4) + (IF n % 4 = 0 THEN 0 ELSE 1) \in Nat
    BY SMT
  <2>2. QED
    BY <1>3, <2>1 DEF Units
<1> DEFINE u == Units(s)
           m == 4 + u * 4
<1> HIDE DEF u
<1>5. u \in Nat /\ ~(Len(s) < 4) /\ ~((Len(s) - 4) \div 4 < u)
  BY <1>4 DEF u
<1>6. m \in 0..Len(s) /\ m \in Nat /\ m <= Len(s) /\ m - 4 = u * 4 /\ (u * 4) % 4 = 0
  <2>1. \A l, k \in Nat : l >= 4 /\ ~((l - 4) \div 4 < k) => 4 + k * 4 <= l
    BY SMT
  <2>2. m <= Len(s)
    BY <1>1, <1>5, <2>1
  <2>3. QED
    BY <1>1, <1>5, <2>2
<1>7. SubSeq(s, m + 1, Len(s)) \in Seq(Byte)
  BY <1>6, Back
<1>8. m + 1 = 5 + u * 4
  BY <1>5
<1>9. Aligned(SubSeq(s, 5, m))
  <2> DEFINE f == SubSeq(s, 1, m)
  <2>1. f \in Seq(Byte) /\ Len(f) = m
    BY <1>6, Front
  <2>2. 4 \in 0..Len(f) /\ 4 + 1 = 5
    BY <1>5, <2>1
  <2>3. SubSeq(f, 4 + 1, Len(f)) \in Seq(Byte) /\ Len(SubSeq(f, 4 + 1, Len(f))) = Len(f) - 4
    BY <2>1, <2>2, Back
  <2> HIDE DEF m
  <2>4. Aligned(SubSeq(f, 5, m))
    BY <1>6, <2>1, <2>2, <2>3 DEF Aligned
  <2>5. SubSeq(f, 5, m) = SubSeq(s, 5, m)
    <3>1. CASE u = 0
      <4>1. m < 5 /\ m \in Int /\ 5 \in Int
        BY <1>6, <3>1
      <4>2. QED
        BY <4>1, SubSeqEmpty
    <3>2. CASE u # 0
      <4>1. /\ 1 \in 1..Len(s) /\ m \in 1..Len(s)
            /\ 5 \in 1..(m - 1 + 1) /\ m \in 1..(m - 1 + 1)
            /\ 1 + 5 - 1 = 5 /\ 1 + m - 1 = m
        BY <1>1, <1>5, <1>6, <3>2
      <4>2. SubSeq(SubSeq(s, 1, m), 5, m) = SubSeq(s, 1 + 5 - 1, 1 + m - 1)
        BY <4>1, SubSeqOfSubSeq
      <4>3. QED
        BY <4>1, <4>2
    <3>3. QED
      BY <3>1, <3>2
  <2>6. QED
    BY <2>4, <2>5
<1>10. QED
  BY <1>7, <1>8, <1>9 DEF u

LEMMA ReadFragmentStep == IInv /\ ReadFragment => IInv'
<1> SUFFICES ASSUME IInv, ReadFragment PROVE IInv'
  OBVIOUS
<1> DEFINE short == Len(stream) < 4 \/ (Len(stream) - 4) \div 4 < Units(stream)
           taken == SubSeq(stream, 5, 4 + Units(stream) * 4)
           left  == SubSeq(stream, 5 + Units(stream) * 4, Len(stream))
<1>1. /\ pc = "reading"
      /\ name' = name /\ sent' = sent /\ packer' = packer /\ cut' = cut /\ got' = got
  BY DEF ReadFragment
<1>2. IF short THEN pc' = "err" /\ unpacker' = unpacker /\ stream' = stream
      ELSE /\ unpacker' = unpacker \o taken /\ stream' = left
           /\ pc' = IF Value(stream) < 0 THEN "unpacking" ELSE "reading"
  BY DEF ReadFragment, Units, FragmentLength
<1>3. /\ TypeOK /\ FieldsInv /\ SizeInv /\ Aligned(packer) /\ packer \in Seq(Byte)
      /\ Len(packer) \in Nat /\ Aligned(unpacker) /\ stream \in Seq(Byte)
  BY PackerIsAligned DEF IInv
<1>4. got = << >> /\ cut # "short" /\ Len(sent) = Len(Out(name))
  BY <1>1, <1>3 DEF FieldsInv
<1>5. ~short => Aligned(taken) /\ left \in Seq(Byte)
  BY <1>3, FragmentTypes
<1> HIDE DEF short, taken, left
<1>6. Aligned(unpacker') /\ stream' \in Seq(Byte)
  <2>1. CASE short
    BY <1>2, <1>3, <2>1
  <2>2. CASE ~short
    <3>1. /\ unpacker \in Seq(Byte) /\ Len(unpacker) \in Nat /\ Len(unpacker) % 4 = 0
          /\ taken \in Seq(Byte) /\ Len(taken) \in Nat /\ Len(taken) % 4 = 0
      BY <1>3, <1>5, <2>2, LenProperties DEF Aligned
    <3>2. unpacker' \in Seq(Byte) /\ Len(unpacker') = Len(unpacker) + Len(taken)
      BY <1>2, <2>2, <3>1, Joined
    <3>3. Len(unpacker') % 4 = 0
      BY <3>1, <3>2, Shift4
    <3>4. QED
      BY <1>2, <1>5, <2>2, <3>2, <3>3 DEF Aligned
  <2>3. QED
    BY <2>1, <2>2
<1>7. pc' \in {"reading", "unpacking", "err"}
  BY <1>2
<1>8. TypeOK'
  BY <1>1, <1>3, <1>6, <1>7 DEF TypeOK, Ended, Aligned
<1>9. Out(name)' = Out(name) /\ In(name)' = In(name) /\ Header' = Header
  BY <1>1 DEF Out, In, Header
<1>10. FieldsInv'
  BY <1>1, <1>3, <1>4, <1>7, <1>9 DEF FieldsInv
<1>11. SizeInv'
  BY <1>1, <1>3, SMT DEF SizeInv
<1>12. PanicsOnlyWhenCut'
  BY <1>7 DEF PanicsOnlyWhenCut
<1>13. PICK b : Laid(b) /\ Laid(b)'
  <2>1. PICK b : Laid(b)
    BY DEF IInv
  <2>2. Laid(b)'
    BY <1>1, <1>9, <2>1 DEF Laid
  <2>3. QED
    BY <2>1, <2>2
<1>14. CASE cut # "no"
  <2>1. ReadingInv' /\ EndInv' /\ UnpackingInv(b)'
    BY <1>1, <1>3, <1>4, <1>14 DEF ReadingInv, EndInv, UnpackingInv, TypeOK
  <2>2. QED
    BY <1>8, <1>10, <1>11, <1>12, <1>13, <2>1 DEF IInv
<1>15. CASE cut = "no"
  <2>1. \A at \in 0..Len(packer) : at % 4 = 0 =>
           /\ Aligned(SubSeq(packer, 1, at)) /\ Len(SubSeq(packer, 1, at)) <= MaxWord
           /\ Aligned(SubSeq(packer, at + 1, Len(packer)))
           /\ Len(SubSeq(packer, at + 1, Len(packer))) <= MaxWord
           /\ SubSeq(packer, 1, at) \o SubSeq(packer, at + 1, Len(packer)) = packer
    <3>1. Len(packer) <= MaxWord /\ MaxWord \in Int
      BY PackerFits, WordRange
    <3>2. \A k, l, m \in Int : k <= l /\ l <= m => k <= m
      BY SMT
    <3>3. \A s : Aligned(s) => Len(s) \in Int
      BY LenProperties DEF Aligned
    <3>4. QED
      BY <1>3, <3>1, <3>2, <3>3, Halves
  <2>2. CASE \E at \in 0..Len(packer) :
                /\ at % 4 = 0 /\ unpacker = << >>
                /\ stream = Fragment(SubSeq(packer, 1, at), FALSE)
                            \o Fragment(SubSeq(packer, at + 1, Len(packer)), TRUE)
    <3>1. PICK at \in 0..Len(packer) :
                /\ at % 4 = 0 /\ unpacker = << >>
                /\ stream = Fragment(SubSeq(packer, 1, at), FALSE)
                            \o Fragment(SubSeq(packer, at + 1, Len(packer)), TRUE)
      BY <2>2
    <3> DEFINE front == SubSeq(packer, 1, at)
               more  == Fragment(SubSeq(packer, at + 1, Len(packer)), TRUE)
    <3>2. Aligned(front) /\ Len(front) <= MaxWord /\ front \in Seq(Byte)
      BY <2>1, <3>1 DEF Aligned
    <3>3. more \in Seq(Byte)
      <4>1. SubSeq(packer, at + 1, Len(packer)) \in Seq(Byte)
        BY <2>1, <3>1 DEF Aligned
      <4>2. QED
        BY <4>1, FragmentBytes
    <3>4. stream = Fragment(front, FALSE) \o more
      BY <3>1
    <3> HIDE DEF front, more
    <3>5. ~(Value(stream) < 0) /\ ~short /\ taken = front /\ left = more
      BY <3>2, <3>3, <3>4, FragmentRead DEF short, taken, left
    <3>6. pc' = "reading" /\ stream' = more /\ unpacker' = front
      <4>1. << >> \o front = front
        BY <3>2, ConcatEmptySeq
      <4>2. QED
        BY <1>2, <3>1, <3>5, <4>1
    <3>7. ReadingInv'
      BY <1>1, <3>1, <3>6 DEF ReadingInv, front, more
    <3>8. EndInv' /\ UnpackingInv(b)'
      BY <3>6 DEF EndInv, UnpackingInv, Ended
    <3>9. QED
      BY <1>8, <1>10, <1>11, <1>12, <1>13, <3>7, <3>8 DEF IInv
  <2>3. CASE \E at \in 0..Len(packer) :
                /\ at % 4 = 0
                /\ unpacker = SubSeq(packer, 1, at)
                /\ stream = Fragment(SubSeq(packer, at + 1, Len(packer)), TRUE)
    <3>1. PICK at \in 0..Len(packer) :
                /\ at % 4 = 0
                /\ unpacker = SubSeq(packer, 1, at)
                /\ stream = Fragment(SubSeq(packer, at + 1, Len(packer)), TRUE)
      BY <2>3
    <3> DEFINE back == SubSeq(packer, at + 1, Len(packer))
    <3>2. Aligned(back) /\ Len(back) <= MaxWord /\ unpacker \o back = packer
      BY <2>1, <3>1
    <3>3. << >> \in Seq(Byte) /\ Fragment(back, TRUE) \in Seq(Byte)
      <4>1. back \in Seq(Byte)
        BY <3>2 DEF Aligned
      <4> HIDE DEF back
      <4>2. Fragment(back, TRUE) \in Seq(Byte)
        BY <4>1, FragmentBytes
      <4>3. << >> \in Seq(Byte)
        BY EmptySeq
      <4>4. QED
        BY <4>2, <4>3
    <3>4. stream = Fragment(back, TRUE) \o << >>
      BY <3>1, <3>3, ConcatEmptySeq
    <3> HIDE DEF back
    <3>5. Value(stream) < 0 /\ ~short /\ taken = back /\ left = << >>
      BY <3>2, <3>3, <3>4, FragmentRead DEF short, taken, left
    <3>6. pc' = "unpacking" /\ stream' = << >> /\ unpacker' = packer
      BY <1>2, <3>2, <3>5
    <3>7. ReadingInv' /\ EndInv'
      BY <3>6 DEF ReadingInv, EndInv, Ended
    <3>8. UnpackingInv(b)'
      <4>1. Len(got') = 0 /\ b[Len(got')] = 0
        BY <1>1, <1>4, <1>13 DEF Laid
      <4>2. SubSeq(packer, 0 + 1, Len(packer)) = packer
        BY <1>3, SubSeqFull
      <4>3. unpacker' = SubSeq(packer', b[Len(got')] + 1, Len(packer'))
        BY <1>1, <3>6, <4>1, <4>2
      <4>4. Len(packer') \in 0..Len(packer') /\ b[Len(got')] <= Len(packer')
        BY <1>1, <1>3, <4>1
      <4>5. \A i \in 1..Len(got') : got'[i] = sent'[i]
        BY <4>1
      <4>6. QED
        BY <3>6, <4>3, <4>4, <4>5 DEF UnpackingInv
    <3>9. QED
      BY <1>8, <1>10, <1>11, <1>12, <1>13, <3>7, <3>8 DEF IInv
  <2>4. QED
    BY <1>1, <1>15, <2>2, <2>3 DEF IInv, ReadingInv
<1>16. QED
  BY <1>14, <1>15

\* The bytes of a sequence between two places.
LEMMA Piece ==
    ASSUME NEW s \in Seq(Byte), NEW l \in 0..Len(s), NEW m \in 0..Len(s), l <= m
    PROVE  /\ SubSeq(s, l + 1, m) \in Seq(Byte)
           /\ Len(SubSeq(s, l + 1, m)) = m - l
           /\ \A i \in 1..(m - l) : SubSeq(s, l + 1, m)[i] = s[l + i]
<1>1. Len(s) \in Nat /\ l \in Nat /\ m \in Nat /\ m <= Len(s)
  BY LenProperties
<1>2. \A i \in (l + 1)..m : s[i] \in Byte
  <2>1. \A i \in (l + 1)..m : i \in 1..Len(s)
    BY <1>1
  <2>2. QED
    BY <2>1, ElementOfSeq
<1> DEFINE t == SubSeq(s, l + 1, m)
<1>3. /\ t \in Seq(Byte)
      /\ Len(t) = IF l + 1 <= m THEN m - (l + 1) + 1 ELSE 0
      /\ \A i \in 1..(m - (l + 1) + 1) : t[i] = s[(l + 1) + i - 1]
  BY <1>1, <1>2, SubSeqProperties
<1> HIDE DEF t
<1>4. Len(t) = m - l
  BY <1>1, <1>3
<1>5. m - (l + 1) + 1 = m - l /\ \A i \in Int : (l + 1) + i - 1 = l + i
  BY <1>1
<1>6. \A i \in 1..(m - l) : t[i] = s[l + i]
  BY <1>3, <1>5
<1>7. QED
  BY <1>3, <1>4, <1>6 DEF t

LEMMA Pieces ==
    ASSUME NEW s \in Seq(Byte), NEW l \in 0..Len(s), NEW m \in 0..Len(s), NEW n \in 0..Len(s),
           l <= m, m <= n
    PROVE  SubSeq(s, l + 1, n) = SubSeq(s, l + 1, m) \o SubSeq(s, m + 1, n)
<1>1. Len(s) \in Nat
  BY LenProperties
<1>2. l + 1 \in 1..(Len(s) + 1) /\ m \in ((l + 1) - 1)..Len(s) /\ n \in m..Len(s)
  BY <1>1
<1>3. QED
  BY <1>2, ConcatAdjacentSubSeq

LEMMA UnpackFieldStep == IInv /\ UnpackField => IInv'
<1> SUFFICES ASSUME IInv, UnpackField PROVE IInv'
  OBVIOUS
<1> DEFINE n == Len(got)
           f == In(name)[n + 1]
           kind == f.kind
           r == Unpack(unpacker, kind)
<1>1. /\ pc = "unpacking" /\ n < Len(In(name))
      /\ name' = name /\ sent' = sent /\ packer' = packer /\ stream' = stream /\ cut' = cut
  BY DEF UnpackField
<1>2. /\ unpacker' = r.rest
      /\ IF r.how = "ok" /\ Accepts(f, r.val)
         THEN got' = Append(got, r.val) /\ pc' = pc
         ELSE pc' = (IF r.how = "panicked" THEN "panicked" ELSE "err") /\ got' = got
  BY DEF UnpackField
<1>3. /\ TypeOK /\ FieldsInv /\ SizeInv /\ Aligned(packer) /\ packer \in Seq(Byte)
      /\ Len(packer) \in Nat /\ Aligned(unpacker) /\ unpacker \in Seq(Byte)
      /\ stream \in Seq(Byte) /\ name \in DOMAIN Written
  BY PackerIsAligned DEF IInv
<1>4. /\ got \in Seq(Val) /\ n \in Nat /\ Len(sent) = Len(Out(name))
      /\ Out(name) \in Seq(Field) /\ In(name) = Out(name) /\ Len(Out(name)) \in Nat
  BY <1>1, <1>3, MessageFields, LenProperties DEF FieldsInv
<1>5. n + 1 \in 1..Len(sent) /\ n + 1 \in 1..Len(In(name))
  BY <1>1, <1>4
<1>6. f \in Field /\ kind \in Kinds
  <2>1. f \in Field
    BY <1>4, <1>5, ElementOfSeq
  <2>2. QED
    BY <2>1 DEF Field
<1> HIDE DEF f, kind
<1>7. /\ Aligned(r.rest) /\ r.how \in {"ok", "err", "panicked"}
      /\ r.how = "ok" => r.val \in Val
      /\ r.how = "panicked" => kind \in {"bool", "opaque"}
  BY <1>3, <1>6, UnpackTypes
<1> HIDE DEF r
<1>8. pc' \in {"unpacking", "err", "panicked"}
  BY <1>1, <1>2
<1>9. TypeOK'
  BY <1>1, <1>2, <1>3, <1>7, <1>8 DEF TypeOK, Ended, Aligned
<1>10. Out(name)' = Out(name) /\ In(name)' = In(name) /\ Header' = Header
  BY <1>1 DEF Out, In, Header
<1>11. FieldsInv'
  <2>1. got' \in Seq(Val) /\ Len(got') <= Len(In(name))
    <3>1. CASE got' = got
      BY <1>3, <3>1 DEF FieldsInv
    <3>2. CASE r.how = "ok" /\ got' = Append(got, r.val)
      <4>1. got' \in Seq(Val) /\ Len(got') = n + 1
        BY <1>4, <1>7, <3>2, AppendProperties
      <4>2. QED
        BY <1>5, <4>1
    <3>3. QED
      BY <1>2, <3>1, <3>2
  <2>2. QED
    BY <1>1, <1>3, <1>8, <1>10, <2>1 DEF FieldsInv
<1>12. SizeInv'
  BY <1>1, <1>3, SMT DEF SizeInv
<1>13. ReadingInv'
  BY <1>8 DEF ReadingInv
<1>14. PICK b : Laid(b) /\ UnpackingInv(b)
  BY DEF IInv
<1>15. Laid(b)'
  BY <1>1, <1>10, <1>14 DEF Laid
<1>16. ASSUME cut # "no", pc' = "panicked" => kind = "opaque" PROVE PanicsOnlyWhenCut'
  <2>1. pc' = "panicked" => got' = got
    BY <1>1, <1>2
  <2>2. QED
    BY <1>1, <1>10, <1>16, <2>1 DEF PanicsOnlyWhenCut, kind, f
<1>17. CASE cut = "unaligned"
  <2>1. kind # "bool"
    <3>1. In(name) \in Seq(Plain)
      BY <1>3, <1>17, MessageFields DEF FieldsInv, Header
    <3>2. f \in Plain
      BY <1>5, <3>1, ElementOfSeq DEF f
    <3>3. QED
      BY <3>2 DEF Plain, kind
  <2>2. PanicsOnlyWhenCut'
    <3>1. pc' = "panicked" => r.how = "panicked"
      BY <1>1, <1>2
    <3>2. QED
      BY <1>7, <1>16, <1>17, <2>1, <3>1
  <2>3. EndInv' /\ UnpackingInv(b)'
    BY <1>1, <1>17 DEF EndInv, UnpackingInv
  <2>4. QED
    BY <1>9, <1>11, <1>12, <1>13, <1>15, <2>2, <2>3 DEF IInv
<1>18. CASE cut # "unaligned"
  <2> DEFINE v == sent[n + 1]
             e == Enc(kind, v)
             from == b[n]
             to == b[n + 1]
  <2>1. stream = << >> /\ \A i \in 1..n : got[i] = sent[i]
    BY <1>1, <1>14, <1>18 DEF UnpackingInv
  <2>2. PICK end \in 0..Len(packer) :
           /\ cut = "no" => end = Len(packer)
           /\ from <= end /\ unpacker = SubSeq(packer, from + 1, end)
    BY <1>1, <1>14, <1>18 DEF UnpackingInv
  <2>3. Fits(kind, v)
    BY <1>3, <1>4, <1>5 DEF FieldsInv, kind, f
  <2>4. /\ from \in 0..Len(packer) /\ to \in 0..Len(packer) /\ from < to
        /\ SubSeq(packer, from + 1, to) = e
    <3>1. (n + 1) - 1 = n /\ n \in 0..Len(sent) /\ n + 1 \in 0..Len(sent)
      BY <1>4, <1>5
    <3>2. /\ b[(n + 1) - 1] < b[n + 1]
          /\ SubSeq(packer, b[(n + 1) - 1] + 1, b[n + 1]) = Enc(Out(name)[n + 1].kind, sent[n + 1])
      BY <1>5, <1>14 DEF Laid
    <3>3. kind = Out(name)[n + 1].kind
      BY <1>4 DEF kind, f
    <3>4. from \in 0..Len(packer) /\ to \in 0..Len(packer)
      BY <1>14, <3>1 DEF Laid
    <3>5. QED
      BY <3>1, <3>2, <3>3, <3>4
  <2>5. Aligned(e) /\ e \in Seq(Byte) /\ Len(e) \in Nat /\ Len(e) % 4 = 0
    BY <1>6, <2>3, EncIsAligned, LenProperties DEF Aligned
  <2> HIDE DEF v, e, from, to
  <2>6. from <= to /\ from \in Nat /\ to \in Nat /\ end \in Nat
    BY <1>3, <2>4
  <2>7. CASE to <= end
    <3> DEFINE rest == SubSeq(packer, to + 1, end)
    <3>1. unpacker = e \o rest
      <4>1. SubSeq(packer, from + 1, end) = SubSeq(packer, from + 1, to) \o rest
        BY <1>3, <2>4, <2>6, <2>7, Pieces
      <4>2. QED
        BY <2>2, <2>4, <4>1
    <3>2. rest \in Seq(Byte) /\ Len(rest) \in Nat
      BY <1>3, <2>4, <2>7, Piece, LenProperties
    <3> HIDE DEF rest
    <3>3. Aligned(rest)
      <4>1. Len(unpacker) = Len(e) + Len(rest)
        BY <2>5, <3>1, <3>2, Joined
      <4>2. Len(unpacker) % 4 = Len(rest) % 4
        BY <2>5, <3>2, <4>1, Shift4
      <4>3. QED
        BY <1>3, <3>2, <4>2 DEF Aligned
    <3>4. r = Ok(v, rest)
      BY <1>6, <2>3, <3>1, <3>3, UnpackEnc DEF e, r
    <3>5. r.how = "ok" /\ r.val = v /\ r.rest = rest
      BY <3>4 DEF Ok
    <3>6. CASE Accepts(f, v)
      <4>1. got' = Append(got, v) /\ pc' = "unpacking" /\ unpacker' = rest
        BY <1>1, <1>2, <3>5, <3>6
      <4>2. /\ Len(got') = n + 1 /\ got'[n + 1] = v
            /\ \A i \in 1..n : got'[i] = got[i]
        BY <1>4, <1>7, <3>5, <4>1, AppendProperties
      <4>3. \A i \in 1..Len(got') : got'[i] = sent'[i]
        <5>1. \A i \in 1..Len(got') : i \in 1..n \/ i = n + 1
          BY <1>4, <4>2
        <5>2. QED
          BY <1>1, <2>1, <4>2, <5>1 DEF v
      <4>4. /\ b[Len(got')] <= end
            /\ unpacker' = SubSeq(packer', b[Len(got')] + 1, end)
        BY <1>1, <2>7, <4>1, <4>2 DEF rest, to
      <4>5. UnpackingInv(b)'
        BY <1>1, <2>1, <2>2, <4>3, <4>4 DEF UnpackingInv
      <4>6. EndInv' /\ PanicsOnlyWhenCut'
        BY <4>1 DEF EndInv, PanicsOnlyWhenCut, Ended
      <4>7. QED
        BY <1>9, <1>11, <1>12, <1>13, <1>15, <4>5, <4>6 DEF IInv
    <3>7. CASE ~Accepts(f, v)
      <4>1. pc' = "err" /\ got' = got
        BY <1>2, <3>5, <3>7
      <4>2. UnpackingInv(b)'
        BY <1>1, <2>1, <4>1 DEF UnpackingInv
      <4>3. EndInv'
        <5>1. ~Accepts(Out(name)[n + 1], sent[n + 1])
          BY <1>4, <3>7 DEF f, v
        <5>2. \E j \in 1..Len(sent') : ~Accepts(Out(name)'[j], sent'[j])
          BY <1>1, <1>5, <1>10, <5>1
        <5>3. QED
          BY <4>1, <5>2 DEF EndInv
      <4>4. PanicsOnlyWhenCut'
        BY <4>1 DEF PanicsOnlyWhenCut
      <4>5. QED
        BY <1>9, <1>11, <1>12, <1>13, <1>15, <4>2, <4>3, <4>4 DEF IInv
    <3>8. QED
      BY <3>6, <3>7
  <2>8. CASE end < to
    <3>1. cut # "no"
      <4>1. to <= Len(packer)
        BY <1>3, <2>4
      <4>2. QED
        BY <1>3, <2>2, <2>6, <2>8, <4>1
    <3>2. Begins(unpacker, e)
      <4>1. /\ Len(unpacker) = end - from
            /\ \A i \in 1..(end - from) : unpacker[i] = packer[from + i]
        BY <1>3, <2>2, <2>4, Piece
      <4>2. /\ Len(e) = to - from
            /\ \A i \in 1..(to - from) : e[i] = packer[from + i]
        BY <1>3, <2>4, <2>6, Piece
      <4>3. end - from < to - from /\ \A i \in 1..(end - from) : i \in 1..(to - from)
        BY <2>6, <2>8
      <4>4. QED
        BY <4>1, <4>2, <4>3 DEF Begins
    <3>3. r.how = "err" \/ (r.how = "panicked" /\ kind = "opaque")
      BY <1>3, <1>6, <2>3, <3>2, UnpackCut DEF e, r
    <3>4. got' = got /\ pc' \in {"err", "panicked"} /\ (pc' = "panicked" => kind = "opaque")
      BY <1>2, <3>3
    <3>5. PanicsOnlyWhenCut'
      BY <1>16, <3>1, <3>4
    <3>6. UnpackingInv(b)'
      BY <1>1, <2>1, <3>4 DEF UnpackingInv
    <3>7. EndInv'
      BY <1>1, <3>1 DEF EndInv
    <3>8. QED
      BY <1>9, <1>11, <1>12, <1>13, <1>15, <3>5, <3>6, <3>7 DEF IInv
  <2>9. QED
    BY <2>6, <2>7, <2>8
<1>19. QED
  BY <1>17, <1>18

LEMMA FinishStep == IInv /\ Finish => IInv'
<1> SUFFICES ASSUME IInv, Finish PROVE IInv'
  OBVIOUS
<1>1. /\ pc = "unpacking" /\ Len(got) = Len(In(name))
      /\ pc' = IF name = "port" /\ unpacker # << >> THEN "err" ELSE "ok"
      /\ name' = name /\ sent' = sent /\ packer' = packer /\ unpacker' = unpacker
      /\ stream' = stream /\ cut' = cut /\ got' = got
  BY DEF Finish
<1>2. /\ TypeOK /\ FieldsInv /\ SizeInv /\ name \in DOMAIN Written
      /\ packer \in Seq(Byte) /\ Len(packer) \in Nat
  BY PackerIsAligned DEF IInv
<1>3. pc' \in {"ok", "err"}
  BY <1>1
<1>4. Out(name)' = Out(name) /\ In(name)' = In(name) /\ Header' = Header
  BY <1>1 DEF Out, In, Header
<1>5. TypeOK'
  BY <1>1, <1>2, <1>3 DEF TypeOK, Ended
<1>6. FieldsInv'
  BY <1>1, <1>2, <1>3, <1>4 DEF FieldsInv
<1>7. SizeInv'
  BY <1>1, <1>2, SMT DEF SizeInv
<1>8. ReadingInv' /\ PanicsOnlyWhenCut'
  BY <1>3 DEF ReadingInv, PanicsOnlyWhenCut
<1>9. PICK b : Laid(b) /\ UnpackingInv(b)
  BY DEF IInv
<1>10. Laid(b)'
  BY <1>1, <1>4, <1>9 DEF Laid
<1>11. UnpackingInv(b)'
  BY <1>1, <1>3, <1>9 DEF UnpackingInv
<1>12. EndInv'
  <2>1. CASE cut # "no"
    BY <1>1, <2>1 DEF EndInv
  <2>2. CASE cut = "no"
    <3>1. /\ stream = << >>
          /\ unpacker = SubSeq(packer, b[Len(got)] + 1, Len(packer))
      BY <1>1, <1>9, <2>2 DEF UnpackingInv
    <3>2. b[Len(got)] = Len(packer)
      <4>1. Len(got) = Len(sent)
        BY <1>1, <1>2, MessageFields DEF FieldsInv
      <4>2. QED
        BY <1>9, <4>1 DEF Laid
    <3>3. unpacker = << >>
      <4>1. Len(packer) < Len(packer) + 1 /\ Len(packer) + 1 \in Int
        BY <1>2
      <4>2. SubSeq(packer, Len(packer) + 1, Len(packer)) = << >>
        BY <1>2, <4>1, SubSeqEmpty
      <4>3. QED
        BY <3>1, <3>2, <4>2
    <3>4. QED
      BY <1>1, <3>1, <3>3 DEF EndInv
  <2>3. QED
    BY <2>1, <2>2
<1>13. QED
  BY <1>5, <1>6, <1>7, <1>8, <1>10, <1>11, <1>12 DEF IInv

LEMMA StutterStep == IInv /\ UNCHANGED vars => IInv'
<1> SUFFICES ASSUME IInv, UNCHANGED vars PROVE IInv'
  OBVIOUS
<1>1. /\ name' = name /\ sent' = sent /\ packer' = packer /\ unpacker' = unpacker
      /\ stream' = stream /\ cut' = cut /\ got' = got /\ pc' = pc
  BY DEF vars
<1>2. Out(name)' = Out(name) /\ In(name)' = In(name) /\ Header' = Header
  BY <1>1 DEF Out, In, Header
<1>3. TypeOK' /\ FieldsInv' /\ PanicsOnlyWhenCut'
  BY <1>1, <1>2 DEF IInv, TypeOK, FieldsInv, PanicsOnlyWhenCut
<1>4. SizeInv'
  BY <1>1, SMT DEF IInv, SizeInv
<1>5. ReadingInv'
  BY <1>1 DEF IInv, ReadingInv
<1>6. EndInv'
  BY <1>1, <1>2 DEF IInv, EndInv
<1>7. PICK b : Laid(b) /\ UnpackingInv(b)
  BY DEF IInv
<1>8. Laid(b)'
  BY <1>1, <1>2, <1>7 DEF Laid
<1>9. UnpackingInv(b)'
  BY <1>1, <1>7 DEF UnpackingInv
<1>10. QED
  BY <1>3, <1>4, <1>5, <1>6, <1>8, <1>9 DEF IInv

LEMMA Inductive == IInv /\ [Next]_vars => IInv'
<1> SUFFICES ASSUME IInv, [Next]_vars PROVE IInv'
  OBVIOUS
<1>1. CASE PackField
  BY <1>1, PackFieldStep
<1>2. CASE \E n \in 0..(Len(packer) \div 4) : Transmit(n)
  BY <1>2, TransmitStep
<1>3. CASE SendRecord
  BY <1>3, SendRecordStep
<1>4. CASE \E at \in 1..Len(packer) : SendFragments(at)
  BY <1>4, SendFragmentsStep
<1>5. CASE ReadFragment
  BY <1>5, ReadFragmentStep
<1>6. CASE UnpackField
  BY <1>6, UnpackFieldStep
<1>7. CASE Finish
  BY <1>7, FinishStep
<1>8. CASE UNCHANGED vars
  BY <1>8, StutterStep
<1>9. QED
  BY <1>1, <1>2, <1>3, <1>4, <1>5, <1>6, <1>7, <1>8 DEF Next

-----------------------------------------------------------------------------
(* Theorems *)

THEOREM Invariant == Spec => []IInv
<1>1. QED
  BY InitInv, Inductive, PTL DEF Spec

\* The buffers of the packer and of the unpacker are bytes, a multiple of four of them,
\* whatever is packed and however it is cut on its way.
THEOREM TypeCorrect == Spec => []TypeOK
<1>1. IInv => TypeOK
  BY DEF IInv
<1>2. QED
  BY <1>1, Invariant, PTL

\* Every field that is unpacked has the value that was packed under its name, of every
\* message, whatever its fields hold, over a datagram or a stream.
THEOREM FieldsAreRead == Spec => []ReadsWhatWasPacked
<1>1. IInv => ReadsWhatWasPacked
  <2> SUFFICES ASSUME IInv, cut # "unaligned", NEW i \in DOMAIN got
               PROVE  \E j \in DOMAIN sent :
                         /\ Out(name)[j].field = In(name)[i].field
                         /\ j > Len(Written[name].header) <=> i > Len(Written[name].header)
                         /\ got[i] = sent[j]
    BY DEF ReadsWhatWasPacked
  <2>1. /\ got \in Seq(Val) /\ Len(got) <= Len(In(name)) /\ sent \in Seq(Val)
        /\ name \in DOMAIN Written
    BY DEF IInv, FieldsInv, TypeOK
  <2>2. In(name) = Out(name) /\ Len(Out(name)) \in Nat
    BY <2>1, MessageFields, LenProperties
  <2>3. i \in 1..Len(got) /\ DOMAIN sent = 1..Len(sent) /\ Len(got) \in Nat /\ Len(sent) \in Nat
    BY <2>1, LenProperties
  <2>4. pc \in {"unpacking"} \cup Ended
    <3>1. Len(got) # 0
      BY <2>3
    <3>2. got # << >>
      BY <3>1, EmptySeq
    <3>3. QED
      BY <3>2 DEF IInv, FieldsInv, TypeOK
  <2>5. got[i] = sent[i]
    BY <2>3, <2>4 DEF IInv, UnpackingInv
  <2>6. i \in DOMAIN sent
    <3>1. Len(sent) = Len(Out(name))
      BY <2>4 DEF IInv, FieldsInv, Ended
    <3>2. QED
      BY <2>1, <2>2, <2>3, <3>1
  <2>7. QED
    BY <2>2, <2>5, <2>6
<1>2. QED
  BY <1>1, Invariant, PTL

\* A message that arrives whole is unpacked to its last byte, and nothing fails.
THEOREM WholeMessages == Spec => []WholeMessageUnpacks
<1>1. IInv => WholeMessageUnpacks
  <2> SUFFICES ASSUME IInv, pc \in Ended, cut = "no",
                      \A j \in DOMAIN sent : Accepts(Out(name)[j], sent[j])
               PROVE  pc = "ok" /\ unpacker = << >> /\ stream = << >>
    BY DEF WholeMessageUnpacks
  <2>1. DOMAIN sent = 1..Len(sent)
    BY LenProperties DEF IInv, FieldsInv
  <2>2. QED
    BY <2>1 DEF IInv, EndInv
<1>2. QED
  BY <1>1, Invariant, PTL

\* Only opaque data that a cut message ends inside of make the unpacker panic.
THEOREM PanicsAreCuts == Spec => []PanicsOnlyWhenCut
<1>1. IInv => PanicsOnlyWhenCut
  BY DEF IInv
<1>2. QED
  BY <1>1, Invariant, PTL
=============================================================================
