----------------------------- MODULE UartProofs -----------------------------
(***************************************************************************)
(* Proofs about Uart and Compare, for any number of frames, signals,       *)
(* samples a symbol, and idle symbols between the frames: what the scan    *)
(* finds of the line, what the decoder makes of it, and what the           *)
(* comparison of two channels measures.                                    *)
(***************************************************************************)
EXTENDS Compare, SequenceTheorems, WellFoundedInduction, TLAPS

-----------------------------------------------------------------------------
(* Numbers *)

\* A set of natural numbers that is not empty has a least element.
LEMMA NatMin ==
    ASSUME NEW T \in SUBSET Nat, T # {}
    PROVE  \E x \in T : \A y \in T : x <= y
<1> DEFINE R == {s \in Nat \X Nat : s[1] < s[2]}
<1>1. IsWellFoundedOn(R, Nat)
  BY NatLessThanWellFounded, Zenon DEF OpToRel
<1> HIDE DEF R
<1>2. PICK x \in T : \A y \in T : <<y, x>> \notin R
  BY <1>1, WFMin
<1>3. ASSUME NEW y \in T, y < x
      PROVE  FALSE
  <2>1. <<y, x>> \in Nat \X Nat /\ <<y, x>>[1] = y /\ <<y, x>>[2] = x
    OBVIOUS
  <2>2. <<y, x>> \in R
    BY <2>1, <1>3, Zenon DEF R
  <2>3. QED
    BY <1>2, <2>2
<1>4. QED
  BY <1>3

\* Finitely many integers that lie between two have a least and a greatest.
LEMMA MinMax ==
    ASSUME NEW a \in Int, NEW b \in Int, NEW T \in SUBSET Int, T # {},
           \A y \in T : a <= y /\ y <= b
    PROVE  /\ Min(T) \in T /\ \A y \in T : Min(T) <= y
           /\ Max(T) \in T /\ \A y \in T : Max(T) >= y
<1> DEFINE D == {y - a : y \in T}
           U == {b - y : y \in T}
<1>1. D # {} /\ U # {}
  OBVIOUS
<1>2. \A d \in D : d \in Nat
  OBVIOUS
<1>3. \A d \in U : d \in Nat
  OBVIOUS
<1>4. \E x \in T : \A y \in T : x <= y
  <2>1. PICK d \in D : \A y \in D : d <= y
    BY <1>1, <1>2, NatMin
  <2>2. PICK x \in T : d = x - a
    OBVIOUS
  <2>3. \A y \in T : d <= y - a
    BY <2>1
  <2>4. \A y \in T : x <= y
    BY <2>2, <2>3
  <2>5. QED
    BY <2>4
<1>5. \E x \in T : \A y \in T : x >= y
  <2>1. PICK d \in U : \A y \in U : d <= y
    BY <1>1, <1>3, NatMin
  <2>2. PICK x \in T : d = b - x
    OBVIOUS
  <2>3. \A y \in T : d <= b - y
    BY <2>1
  <2>4. \A y \in T : x >= y
    BY <2>2, <2>3
  <2>5. QED
    BY <2>4
<1>6. Min(T) \in T /\ \A y \in T : Min(T) <= y
  BY <1>4 DEF Min
<1>7. Max(T) \in T /\ \A y \in T : Max(T) >= y
  BY <1>5 DEF Max
<1>8. QED
  BY <1>6, <1>7

\* The place values of a byte, and the one that no longer fits.
LEMMA Powers ==
    /\ 2^0 = 1 /\ 2^1 = 2 /\ 2^2 = 4 /\ 2^3 = 8 /\ 2^4 = 16 /\ 2^5 = 32 /\ 2^6 = 64
    /\ 2^7 = 128 /\ 2^8 = 256
  OBVIOUS

LEMMA PowerDoubles ==
    ASSUME NEW i \in 0..7
    PROVE  2^i \in 1..128 /\ 2^(i + 1) = 2^i * 2
<1>1. CASE i = 0
  BY <1>1, Powers
<1>2. CASE i = 1
  BY <1>2, Powers
<1>3. CASE i = 2
  BY <1>3, Powers
<1>4. CASE i = 3
  BY <1>4, Powers
<1>5. CASE i = 4
  BY <1>5, Powers
<1>6. CASE i = 5
  BY <1>6, Powers
<1>7. CASE i = 6
  BY <1>7, Powers
<1>8. CASE i = 7
  BY <1>8, Powers
<1>9. QED
  BY <1>1, <1>2, <1>3, <1>4, <1>5, <1>6, <1>7, <1>8

\* Division with remainder ...
LEMMA DivMod ==
    ASSUME NEW M \in Nat \ {0}, NEW a \in Nat
    PROVE  /\ a \div M \in Nat
           /\ a % M \in 0..M-1
           /\ a = M * (a \div M) + (a % M)
  BY SMTT(30)

\* ... is unique.
LEMMA DivUnique ==
    ASSUME NEW M \in Nat \ {0}, NEW q \in Nat, NEW r \in 0..M-1
    PROVE  (M * q + r) \div M = q /\ (M * q + r) % M = r
  BY SMTT(30)

\* What comes after a number: the next remainder, or the next quotient.
LEMMA DivNext ==
    ASSUME NEW M \in Nat \ {0}, NEW a \in Nat
    PROVE  \/ /\ a % M < M - 1
              /\ (a + 1) \div M = a \div M
              /\ (a + 1) % M = (a % M) + 1
           \/ /\ a % M = M - 1
              /\ (a + 1) \div M = (a \div M) + 1
              /\ (a + 1) % M = 0
<1> DEFINE q == a \div M
           r == a % M
<1>1. q \in Nat /\ r \in 0..M-1 /\ a = M * q + r
  BY DivMod
<1> HIDE DEF q, r
<1>2. CASE r < M - 1
  <2>1. a + 1 = M * q + (r + 1) /\ r + 1 \in 0..M-1
    BY <1>1, <1>2
  <2>2. (a + 1) \div M = q /\ (a + 1) % M = r + 1
    BY <1>1, <2>1, DivUnique
  <2>3. QED
    BY <1>2, <2>2 DEF q, r
<1>3. CASE r = M - 1
  <2>1. a + 1 = M * (q + 1) + 0 /\ 0 \in 0..M-1 /\ q + 1 \in Nat
    BY <1>1, <1>3
  <2>2. (M * (q + 1) + 0) \div M = q + 1 /\ (M * (q + 1) + 0) % M = 0
    BY <2>1, DivUnique
  <2>3. (a + 1) \div M = q + 1 /\ (a + 1) % M = 0
    BY <2>1, <2>2
  <2>4. QED
    BY <1>3, <2>3 DEF q, r
<1>4. QED
  BY <1>1, <1>2, <1>3

\* Quotients grow with the number.
LEMMA DivBound ==
    ASSUME NEW M \in Nat \ {0}, NEW a \in Nat, NEW k \in Nat, a < M * k
    PROVE  a \div M < k
<1> DEFINE q == a \div M
           r == a % M
<1>1. q \in Nat /\ r \in 0..M-1 /\ a = M * q + r
  BY DivMod
<1> HIDE DEF q, r
<1>2. CASE q >= k
  <2>1. PICK d \in Nat : q = k + d
    <3>1. q - k \in Nat /\ q = k + (q - k)
      BY <1>1, <1>2
    <3>2. QED
      BY <3>1
  <2>2. M * q = M * k + M * d /\ M * d \in Nat
    BY <2>1
  <2>3. QED
    BY <1>1, <2>2
<1>3. QED
  BY <1>1, <1>2 DEF q

\* A function on 1..n is a sequence.
LEMMA SequenceOf ==
    ASSUME NEW n \in Nat, NEW T, NEW g, g = [i \in 1..n |-> g[i]], \A i \in 1..n : g[i] \in T
    PROVE  g \in Seq(T) /\ Len(g) = n
<1>1. g \in [1..n -> T]
  OBVIOUS
<1>2. QED
  BY <1>1

\* Arithmetic in an i8 stays there, and changes nothing that fits.
LEMMA I8IsInt8 ==
    ASSUME NEW x \in Int
    PROVE  I8(x) \in Int8
  BY DEF I8, Int8

LEMMA I8Fits ==
    ASSUME NEW x \in Int8
    PROVE  I8(x) = x
  BY DEF I8, Int8

LEMMA QuotientInt ==
    ASSUME NEW x \in Int, NEW k \in Nat \ {0}
    PROVE  Quotient(x, k) \in Int
  BY DEF Quotient

\* What is in a sequence that is put together of two, or has one element more.
LEMMA Concatenated ==
    ASSUME NEW s \in Seq({0, 1}), NEW g \in Seq({0, 1})
    PROVE  /\ s \o g \in Seq({0, 1}) /\ Len(s \o g) = Len(s) + Len(g)
           /\ \A i \in 1..Len(s) : (s \o g)[i] = s[i]
           /\ \A i \in 1..Len(g) : (s \o g)[Len(s) + i] = g[i]
  BY ConcatProperties

LEMMA Appended ==
    ASSUME NEW T, NEW s \in Seq(T), NEW x \in T
    PROVE  /\ Append(s, x) \in Seq(T) /\ Len(s) \in Nat /\ Len(Append(s, x)) = Len(s) + 1
           /\ \A i \in 1..Len(s) : Append(s, x)[i] = s[i] /\ s[i] \in T
           /\ Append(s, x)[Len(s) + 1] = x
  BY AppendProperties

LEMMA Shortened ==
    ASSUME NEW T, NEW s \in Seq(T), s # << >>
    PROVE  /\ Tail(s) \in Seq(T) /\ Len(s) \in Nat \ {0} /\ Len(Tail(s)) = Len(s) - 1
           /\ \A i \in 1..Len(s) - 1 : Tail(s)[i] = s[i + 1]
           /\ Head(s) = s[1] /\ s[1] \in T
<1>1. Len(s) \in Nat \ {0}
  BY EmptySeq
<1>2. Head(s) = s[1] /\ s[1] \in T
  BY <1>1
<1>3. Tail(s) \in Seq(T) /\ Len(Tail(s)) = Len(s) - 1
  BY HeadTailProperties
<1>4. \A i \in 1..Len(s) - 1 : Tail(s)[i] = s[i + 1]
  BY <1>1
<1>5. QED
  BY <1>1, <1>2, <1>3, <1>4

-----------------------------------------------------------------------------
(* The line, and types *)

Frame == [byte : Bytes, idle : Idles, stop : Stops]

\* The line is a lead, the rest, and the frames, of which st has the places; the last
\* of these is the end of the line.
LaidOut(frames, symbols, lead, st) ==
    /\ st \in Seq(Nat) /\ Len(st) = Len(frames) + 1
    /\ st[1] = Len(lead) + 12 /\ st[Len(st)] = Len(symbols)
    /\ \A j \in 1..12 : symbols[Len(lead) + j] = 1
    /\ \A k \in 1..Len(st) : st[k] <= Len(symbols)
    /\ \A k \in 1..Len(frames) :
          /\ st[k + 1] = st[k] + 10 + frames[k].idle
          /\ \A i \in 1..10 + frames[k].idle :
                symbols[st[k] + i] = FrameSymbols(frames[k])[i]

Laid(lead, st) == LaidOut(sent, line, lead, st)

LineInv ==
    /\ sent \in Seq(Frame) /\ Len(sent) <= Frames
    /\ line \in Seq({0, 1})
    /\ \E lead \in Leads, st \in Seq(Nat) : Laid(lead, st)

\* What is still as it was when the capture began.
FreshInv ==
    /\ level \in Levels
    /\ data = << >> \/ (Len(sent) = Frames /\ data = Samples)
    /\ pc = "sending" => data = << >>
    /\ pc \in {"sending", "measure"} => idx = 1 /\ transitions = << >>
    /\ pc \in {"sending", "measure", "scan"} => pulses = << >>
    /\ pc \in {"sending", "measure", "scan", "search"} =>
          bit = 0 /\ need_start_bit /\ ~need_stop_bit /\ ans = << >>

\* Transitions come in order, each at a sample that was looked at.
OrderInv ==
    \A i \in 1..Len(transitions) :
        /\ transitions[i].at + 1 < idx
        /\ i > 1 => transitions[i-1].at <= transitions[i].at

\* What a frame puts on the line.
LEMMA FrameOnLine ==
    ASSUME NEW f \in Frame
    PROVE  /\ f.idle \in Nat /\ f.byte \in UInt8 /\ f.stop \in {0, 1}
           /\ FrameSymbols(f) \in Seq({0, 1}) /\ Len(FrameSymbols(f)) = 10 + f.idle
           /\ FrameSymbols(f)[1] = 0
           /\ \A i \in 0..7 : FrameSymbols(f)[i + 2] = Bit(f.byte, i)
           /\ FrameSymbols(f)[10] = f.stop
           /\ \A i \in 11..10 + f.idle : FrameSymbols(f)[i] = 1
<1>1. f.idle \in Nat /\ f.byte \in UInt8 /\ f.stop \in {0, 1}
  <2>1. f.idle \in Idles /\ f.byte \in Bytes /\ f.stop \in Stops
    BY DEF Frame
  <2>2. Idles \subseteq Nat /\ Bytes \subseteq UInt8 /\ Stops \subseteq {0, 1}
    BY ConstantsAssumption
  <2>3. QED
    BY <2>1, <2>2
<1>2. \A i \in 0..7 : Bit(f.byte, i) \in {0, 1}
  <2> SUFFICES ASSUME NEW i \in 0..7 PROVE Bit(f.byte, i) \in {0, 1}
    OBVIOUS
  <2>1. 2^i \in Nat \ {0}
    <3>1. 2^i \in 1..128
      BY PowerDoubles
    <3>2. QED
      BY <3>1
  <2>2. f.byte \div 2^i \in Nat
    <3>1. f.byte \in Nat
      BY <1>1 DEF UInt8
    <3>2. QED
      BY <2>1, <3>1, DivMod
  <2>3. QED
    BY <2>2 DEF Bit
<1>3. \A i \in 1..10 + f.idle : FrameSymbols(f)[i] \in {0, 1}
  BY <1>1, <1>2 DEF FrameSymbols
<1>4. FrameSymbols(f) \in Seq({0, 1}) /\ Len(FrameSymbols(f)) = 10 + f.idle
  <2>1. FrameSymbols(f) = [i \in 1..10 + f.idle |-> FrameSymbols(f)[i]] /\ 10 + f.idle \in Nat
    BY <1>1 DEF FrameSymbols
  <2> HIDE DEF FrameSymbols
  <2>2. QED
    BY <1>3, <2>1, SequenceOf
<1>5. FrameSymbols(f)[1] = 0 /\ FrameSymbols(f)[10] = f.stop
  BY <1>1 DEF FrameSymbols
<1>6. \A i \in 0..7 : FrameSymbols(f)[i + 2] = Bit(f.byte, i)
  BY <1>1 DEF FrameSymbols
<1>7. \A i \in 11..10 + f.idle : FrameSymbols(f)[i] = 1
  BY <1>1 DEF FrameSymbols
<1>8. QED
  BY <1>1, <1>4, <1>5, <1>6, <1>7

\* The line at the start, and with one more frame.
LEMMA LineStarts == Init => LineInv
<1> SUFFICES ASSUME Init PROVE LineInv
  OBVIOUS
<1>1. PICK lead \in Leads : line = lead \o Rest
  BY DEF Init
<1>2. lead \in Seq({0, 1}) /\ Len(lead) \in Nat
  <2>1. lead \in Seq({0, 1})
    BY ConstantsAssumption
  <2>2. QED
    BY <2>1
<1>3. Rest \in Seq({0, 1}) /\ Len(Rest) = 12 /\ \A j \in 1..12 : Rest[j] = 1
  BY DEF Rest
<1>4. /\ line \in Seq({0, 1}) /\ Len(line) = Len(lead) + 12
      /\ \A j \in 1..12 : line[Len(lead) + j] = 1
  <2> HIDE DEF Rest
  <2>1. /\ line \in Seq({0, 1}) /\ Len(line) = Len(lead) + Len(Rest)
        /\ \A j \in 1..Len(Rest) : line[Len(lead) + j] = Rest[j]
    BY <1>1, <1>2, <1>3, Concatenated
  <2>2. \A j \in 1..12 : line[Len(lead) + j] = Rest[j]
    BY <2>1, <1>3
  <2>3. QED
    BY <2>1, <2>2, <1>3
<1>5. sent = << >> /\ Frames \in Nat
  BY ConstantsAssumption DEF Init
<1>6. Laid(lead, <<Len(lead) + 12>>)
  BY <1>2, <1>4, <1>5 DEF Laid, LaidOut
<1>7. <<Len(lead) + 12>> \in Seq(Nat)
  BY <1>2
<1>8. sent \in Seq(Frame) /\ Len(sent) <= Frames
  BY <1>5
<1>9. QED
  BY <1>4, <1>6, <1>7, <1>8 DEF LineInv

LEMMA LineGrows ==
    ASSUME LineInv, SendFrame
    PROVE  LineInv'
<1>1. PICK f \in Frame : sent' = Append(sent, f) /\ line' = line \o FrameSymbols(f)
  BY DEF SendFrame, Frame
<1>2. PICK lead \in Leads, st \in Seq(Nat) : Laid(lead, st)
  BY DEF LineInv
<1>3. sent \in Seq(Frame) /\ line \in Seq({0, 1}) /\ Len(sent) < Frames
  BY DEF LineInv, SendFrame
<1> DEFINE g == FrameSymbols(f)
<1>4. f.idle \in Nat /\ g \in Seq({0, 1}) /\ Len(g) = 10 + f.idle
  BY FrameOnLine
<1> HIDE DEF g
<1>5. /\ line' = line \o g /\ line' \in Seq({0, 1}) /\ Len(line') = Len(line) + 10 + f.idle
      /\ \A i \in 1..Len(line) : line'[i] = line[i]
      /\ \A i \in 1..10 + f.idle : line'[Len(line) + i] = g[i]
  <2>1. line' = line \o g
    BY <1>1 DEF g
  <2>2. /\ line' \in Seq({0, 1}) /\ Len(line') = Len(line) + Len(g)
        /\ \A i \in 1..Len(line) : line'[i] = line[i]
        /\ \A i \in 1..Len(g) : line'[Len(line) + i] = g[i]
    BY <2>1, <1>3, <1>4, Concatenated
  <2>3. Len(line') = Len(line) + 10 + f.idle
    BY <2>2, <1>3, <1>4
  <2>4. QED
    BY <2>1, <2>2, <2>3, <1>4
<1>6. /\ Len(sent) \in Nat /\ Len(sent') = Len(sent) + 1 /\ sent' \in Seq(Frame)
      /\ sent'[Len(sent) + 1] = f
      /\ \A k \in 1..Len(sent) : sent'[k] = sent[k] /\ sent[k] \in Frame
  BY <1>1, <1>3, Appended
<1>7. PICK st2 : st2 = Append(st, Len(line'))
  OBVIOUS
<1>8. /\ st2 \in Seq(Nat) /\ Len(st2) = Len(sent) + 2
      /\ st2[Len(sent) + 2] = Len(line')
      /\ \A k \in 1..Len(sent) + 1 : st2[k] = st[k] /\ st[k] \in Nat
  <2>1. Len(line') \in Nat /\ Len(st) = Len(sent) + 1
    <3>1. Len(st) = Len(sent) + 1
      BY <1>2, Zenon DEF Laid, LaidOut
    <3>2. QED
      BY <3>1, <1>5
  <2>2. /\ st2 \in Seq(Nat) /\ Len(st2) = Len(st) + 1 /\ st2[Len(st) + 1] = Len(line')
        /\ \A k \in 1..Len(st) : st2[k] = st[k] /\ st[k] \in Nat
    BY <1>7, <2>1, Appended
  <2>3. Len(st) + 1 = Len(sent) + 2
    BY <2>1, <1>6
  <2>4. QED
    BY <2>1, <2>2, <2>3
<1>9. Len(lead) \in Nat
  BY ConstantsAssumption
<1>10. st[1] = Len(lead) + 12 /\ st[Len(sent) + 1] = Len(line) /\ st[1] <= Len(line)
  <2>1. Len(st) = Len(sent) + 1 /\ 1 \in 1..Len(st)
    BY <1>2, <1>6 DEF Laid, LaidOut
  <2>2. QED
    BY <1>2, <2>1 DEF Laid, LaidOut
<1>11. Laid(lead, st2)'
  <2>1. Len(st2) = Len(sent') + 1
    BY <1>6, <1>8
  <2>2. st2[1] = Len(lead) + 12 /\ st2[Len(st2)] = Len(line')
    BY <1>6, <1>8, <1>10
  <2>3. ASSUME NEW j \in 1..12 PROVE line'[Len(lead) + j] = 1
    <3>1. line[Len(lead) + j] = 1 /\ Len(lead) + 12 <= Len(line)
      BY <1>2, <1>10 DEF Laid, LaidOut
    <3>2. Len(lead) + j \in 1..Len(line)
      BY <1>3, <1>9, <3>1
    <3>3. QED
      BY <1>5, <3>1, <3>2
  <2>4. ASSUME NEW k \in 1..Len(st2) PROVE st2[k] <= Len(line')
    <3>1. CASE k = Len(sent) + 2
      <4>1. Len(line') \in Nat
        BY <1>5
      <4>2. QED
        BY <3>1, <4>1, <1>8
    <3>2. CASE k \in 1..Len(sent) + 1
      <4>1. st[k] <= Len(line) /\ Len(line) \in Nat
        BY <3>2, <1>2, <1>3 DEF Laid, LaidOut
      <4>2. QED
        BY <3>2, <4>1, <1>4, <1>5, <1>8, SMTT(30)
    <3>3. QED
      BY <3>1, <3>2, <1>6, <1>8
  <2>5. ASSUME NEW k \in 1..Len(sent')
        PROVE  /\ st2[k + 1] = st2[k] + 10 + sent'[k].idle
               /\ \A i \in 1..10 + sent'[k].idle : line'[st2[k] + i] = FrameSymbols(sent'[k])[i]
    <3>1. CASE k = Len(sent) + 1
      <4>1. k + 1 = Len(sent) + 2 /\ k \in 1..Len(sent) + 1
        BY <3>1, <1>6
      <4>2. sent'[k] = f /\ st2[k] = Len(line) /\ st2[k + 1] = Len(line')
        BY <3>1, <4>1, <1>6, <1>8, <1>10
      <4>3. st2[k + 1] = st2[k] + 10 + sent'[k].idle
        BY <4>2, <1>3, <1>4, <1>5
      <4>4. \A i \in 1..10 + f.idle : line'[Len(line) + i] = FrameSymbols(f)[i]
        BY <1>5 DEF g
      <4>5. QED
        BY <4>2, <4>3, <4>4
    <3>2. CASE k \in 1..Len(sent)
      <4>1. k \in 1..Len(sent) + 1 /\ k + 1 \in 1..Len(sent) + 1
        BY <3>2, <1>6
      <4>2. /\ sent'[k] = sent[k] /\ st2[k] = st[k] /\ st2[k + 1] = st[k + 1]
            /\ st[k] \in Nat /\ st[k + 1] \in Nat
        BY <3>2, <4>1, <1>6, <1>8
      <4>3. /\ st[k + 1] = st[k] + 10 + sent[k].idle /\ st[k + 1] <= Len(line)
            /\ \A i \in 1..10 + sent[k].idle : line[st[k] + i] = FrameSymbols(sent[k])[i]
        <5>1. Len(st) = Len(sent) + 1
          BY <1>2 DEF Laid, LaidOut
        <5>2. k + 1 \in 1..Len(st)
          BY <4>1, <5>1
        <5>3. QED
          BY <3>2, <5>2, <1>2 DEF Laid, LaidOut
      <4>4. ASSUME NEW i \in 1..10 + sent[k].idle
            PROVE  line'[st[k] + i] = FrameSymbols(sent[k])[i]
        <5>1. sent[k].idle \in Nat
          BY <3>2, <1>6, FrameOnLine
        <5>2. st[k] + i \in 1..Len(line)
          <6>1. Len(line) \in Nat /\ st[k] + 10 + sent[k].idle <= Len(line)
            BY <4>3, <1>3
          <6>2. \A p, w, l \in Nat : \A j \in 1..10 + w : p + 10 + w <= l => p + j \in 1..l
            OBVIOUS
          <6>3. QED
            BY <5>1, <6>1, <6>2, <4>2
        <5>3. QED
          BY <5>2, <4>3, <1>5
      <4>5. QED
        BY <4>2, <4>3, <4>4
    <3>3. QED
      BY <3>1, <3>2, <1>6
  <2>6. st2 \in Seq(Nat)
    BY <1>8
  <2>7. QED
    BY <2>1, <2>2, <2>3, <2>4, <2>5, <2>6 DEF Laid, LaidOut
<1>12. Len(sent') <= Frames
  BY <1>3, <1>6, ConstantsAssumption
<1>13. line' \in Seq({0, 1}) /\ sent' \in Seq(Frame) /\ st2 \in Seq(Nat)
  BY <1>5, <1>6, <1>8
<1>14. QED
  BY <1>11, <1>12, <1>13 DEF LineInv


\* Other steps leave the line alone.
LEMMA LineStays ==
    ASSUME LineInv, UNCHANGED <<sent, line>>
    PROVE  LineInv'
  BY DEF LineInv, Laid, LaidOut

\* The samples are i8, on either side of the levels.
LEMMA LevelsAreI8 ==
    ASSUME level \in Levels
    PROVE  /\ level.ripple \in Nat /\ level.skew \in Nat
           /\ level.lo \in Int /\ level.hi \in Int
           /\ level.lo \in Int8 /\ level.hi \in Int8
           /\ level.lo + level.ripple \in Int8 /\ level.hi - level.ripple \in Int8
<1>1. /\ {level.lo, level.hi, level.lo + level.ripple, level.hi - level.ripple} \subseteq Int8
      /\ level.ripple \in Nat /\ level.skew \in Nat
  BY ConstantsAssumption
<1>2. Int8 \subseteq Int
  BY DEF Int8
<1>3. QED
  BY <1>1, <1>2

LEMMA SamplesType ==
    ASSUME level \in Levels, line \in Seq({0, 1})
    PROVE  /\ Samples \in Seq(Int8)
           /\ Len(Samples) = SymbolLen * Len(line)
           /\ \A t \in 1..SymbolLen * Len(line) :
                 Samples[t] = IF High(t) THEN level.hi - Ripple(t) ELSE level.lo + Ripple(t)
<1>1. SymbolLen * Len(line) \in Nat
  BY ConstantsAssumption
<1>2. \A t \in 1..SymbolLen * Len(line) :
         Samples[t] = IF High(t) THEN level.hi - Ripple(t) ELSE level.lo + Ripple(t)
  BY <1>1 DEF Samples
<1>3. \A t \in 1..SymbolLen * Len(line) : Samples[t] \in Int8
  <2> SUFFICES ASSUME NEW t \in 1..SymbolLen * Len(line)
               PROVE  Samples[t] \in Int8
    OBVIOUS
  <2>1. Ripple(t) = level.ripple \/ Ripple(t) = 0
    BY DEF Ripple
  <2>2. Samples[t] \in {level.hi - Ripple(t), level.lo + Ripple(t)}
    BY <1>2
  <2>3. level.lo + 0 = level.lo /\ level.hi - 0 = level.hi
    BY LevelsAreI8
  <2>4. QED
    BY <2>1, <2>2, <2>3, LevelsAreI8
<1>4. Samples = [t \in 1..SymbolLen * Len(line) |-> Samples[t]]
  BY DEF Samples
<1>5. Samples \in Seq(Int8) /\ Len(Samples) = SymbolLen * Len(line)
  BY <1>1, <1>3, <1>4, SequenceOf
<1>6. QED
  BY <1>2, <1>5

TypeInv == TypeOK /\ LineInv /\ FreshInv /\ OrderInv

LEMMA TypeInit == Init => TypeInv
<1> SUFFICES ASSUME Init PROVE TypeInv
  OBVIOUS
<1>1. TypeOK
  <2>1. place_val \in {2^i : i \in 0..7}
    BY Powers DEF Init
  <2>2. overflow_checks \in BOOLEAN
    BY ConstantsAssumption DEF Init
  <2>3. /\ data \in Seq(Int8) /\ transitions \in Seq(Transition)
        /\ pulses \in Seq(Pulse) /\ ans \in Seq(UInt8)
    BY DEF Init
  <2>4. lo_thres \in Int8 /\ hi_thres \in Int8 /\ current_byte \in UInt8
    BY DEF Init, Int8, UInt8
  <2>5. idx \in 1..Len(data) + 1 /\ bit \in Nat
    BY DEF Init
  <2>6. /\ pc \in {"sending", "measure", "scan", "search", "decode"} \cup Ended
        /\ {overflow_checks, currently_high, need_start_bit, need_stop_bit} \subseteq BOOLEAN
    BY <2>2 DEF Init
  <2>7. QED
    BY <2>1, <2>3, <2>4, <2>5, <2>6 DEF TypeOK
<1>2. FreshInv
  BY DEF Init, FreshInv
<1>3. OrderInv
  BY DEF Init, OrderInv
<1>4. QED
  BY <1>1, <1>2, <1>3, LineStarts DEF TypeInv

LEMMA TypeSendFrame ==
    ASSUME TypeInv, SendFrame
    PROVE  TypeInv'
<1>1. LineInv'
  BY LineGrows DEF TypeInv
<1>2. TypeOK'
  BY DEF TypeInv, TypeOK, SendFrame, scanVars, frameVars
<1>3. FreshInv'
  BY DEF TypeInv, FreshInv, SendFrame, scanVars, frameVars
<1>4. OrderInv'
  BY DEF TypeInv, OrderInv, SendFrame, scanVars
<1>5. QED
  BY <1>1, <1>2, <1>3, <1>4 DEF TypeInv

LEMMA TypeCapture ==
    ASSUME TypeInv, Capture
    PROVE  TypeInv'
<1>1. LineInv'
  BY LineStays DEF TypeInv, Capture
<1>2. data' = Samples \/ data' = << >>
  BY DEF Capture
<1>3. data' \in Seq(Int8)
  <2>1. level \in Levels /\ line \in Seq({0, 1})
    BY DEF TypeInv, LineInv, FreshInv
  <2>2. Samples \in Seq(Int8)
    BY <2>1, SamplesType
  <2>3. << >> \in Seq(Int8)
    OBVIOUS
  <2>4. QED
    BY <1>2, <2>2, <2>3, Zenon
<1>4. Samples' = Samples
  BY DEF Samples, High, Ripple, Capture
<1>5. FreshInv'
  BY <1>4 DEF TypeInv, FreshInv, Capture, scanVars, frameVars
<1>6. TypeOK'
  <2>1. idx' = 1 /\ idx = 1
    BY DEF TypeInv, FreshInv, Capture, scanVars
  <2>2. idx' \in 1..Len(data') + 1
    BY <1>3, <2>1
  <2>3. QED
    BY <1>3, <2>2 DEF TypeInv, TypeOK, Capture, scanVars, frameVars
<1>7. OrderInv'
  BY DEF TypeInv, OrderInv, Capture, scanVars
<1>8. QED
  BY <1>1, <1>5, <1>6, <1>7 DEF TypeInv

\* What is known of a transition.
LEMMA TransitionAt ==
    ASSUME TypeInv
    PROVE  /\ Len(transitions) \in Nat
           /\ \A i \in 1..Len(transitions) :
                 /\ transitions[i] \in Transition
                 /\ transitions[i].at \in Nat /\ transitions[i].was \in BOOLEAN
                 /\ transitions[i].at + 1 < idx
                 /\ i > 1 => transitions[i-1].at <= transitions[i].at
<1>1. transitions \in Seq(Transition)
  BY DEF TypeInv, TypeOK
<1>2. \A i \in 1..Len(transitions) : transitions[i] \in Transition
  BY <1>1
<1>3. \A x \in Transition : x.at \in Nat /\ x.was \in BOOLEAN
  BY DEF Transition
<1>4. Len(transitions) \in Nat
  BY <1>1
<1>5. OrderInv
  BY DEF TypeInv
<1>6. QED
  BY <1>2, <1>3, <1>4, <1>5 DEF OrderInv

\* What a step that leaves the signal alone preserves by that.
LEMMA SignalStays ==
    ASSUME TypeInv, UNCHANGED signalVars
    PROVE  /\ LineInv'
           /\ level' \in Levels
           /\ data' = << >> \/ (Len(sent') = Frames /\ data' = Samples')
           /\ data' \in Seq(Int8) /\ overflow_checks' \in BOOLEAN
<1>1. sent' = sent /\ line' = line /\ level' = level /\ data' = data
      /\ overflow_checks' = overflow_checks
  BY DEF signalVars
<1>2. LineInv'
  BY <1>1, LineStays DEF TypeInv
<1>3. Samples' = Samples
  BY <1>1 DEF Samples, High, Ripple
<1>4. QED
  BY <1>1, <1>2, <1>3 DEF TypeInv, FreshInv, TypeOK

LEMMA TypeEnds ==
    ASSUME TypeInv, NEW how \in Ended, Ends(how)
    PROVE  TypeInv'
<1>1. UNCHANGED signalVars /\ UNCHANGED scanVars /\ UNCHANGED pulses /\ UNCHANGED frameVars /\ pc' = how
  BY DEF Ends
<1>2. LineInv' /\ data' \in Seq(Int8)
  BY <1>1, SignalStays
<1>3. FreshInv'
  BY <1>1, SignalStays DEF FreshInv, Ended
<1>4. OrderInv'
  BY <1>1 DEF OrderInv, TypeInv, scanVars
<1>5. TypeOK'
  BY <1>1 DEF TypeOK, TypeInv, Ended, signalVars, scanVars, frameVars
<1>6. QED
  BY <1>2, <1>3, <1>4, <1>5 DEF TypeInv

LEMMA TypeMeasure ==
    ASSUME TypeInv, Measure
    PROVE  TypeInv'
<1>1. UNCHANGED signalVars /\ pc = "measure" /\ pc' = "scan" /\ UNCHANGED <<idx, transitions>>
      /\ UNCHANGED pulses /\ UNCHANGED frameVars
  BY DEF Measure
<1>2. /\ LineInv' /\ level' \in Levels /\ data' \in Seq(Int8) /\ overflow_checks' \in BOOLEAN
      /\ data' = << >> \/ (Len(sent') = Frames /\ data' = Samples')
  BY <1>1, SignalStays
<1>3. Lo \in Int /\ Margin \in Int /\ Hi \in Int
  <2>1. data # << >> /\ data \in Seq(Int8)
    BY DEF Measure, MeasurePanics, TypeInv, TypeOK
  <2>2. ToSet(data) # {} /\ ToSet(data) \subseteq Int8
    BY <2>1 DEF ToSet
  <2>3. PICK a \in Int, b \in Int : \A y \in Int8 : y \in Int /\ a <= y /\ y <= b
    <3>1. -128 \in Int /\ 127 \in Int /\ \A y \in Int8 : y \in Int /\ -128 <= y /\ y <= 127
      BY DEF Int8
    <3>2. QED
      BY <3>1, Zenon
  <2>4. /\ ToSet(data) \in SUBSET Int
        /\ Min(ToSet(data)) \in ToSet(data) /\ Max(ToSet(data)) \in ToSet(data)
    <3>1. ToSet(data) \in SUBSET Int /\ \A y \in ToSet(data) : a <= y /\ y <= b
      BY <2>2, <2>3
    <3>2. QED
      BY <2>2, <2>3, <3>1, MinMax
  <2>5. Lo \in Int /\ Hi \in Int
    BY <2>4 DEF Lo, Hi
  <2>6. I8(Hi - Lo) \in Int
    BY <2>5, I8IsInt8 DEF Int8
  <2>7. QED
    BY <2>5, <2>6, QuotientInt DEF Margin
<1>4. lo_thres' \in Int8 /\ hi_thres' \in Int8
  BY <1>3, I8IsInt8 DEF Measure
<1>5. currently_high' \in BOOLEAN
  BY DEF Measure
<1>6. FreshInv'
  BY <1>1, <1>2 DEF FreshInv, TypeInv, frameVars
<1>7. OrderInv'
  BY <1>1 DEF OrderInv, TypeInv
<1>8. TypeOK'
  BY <1>1, <1>2, <1>4, <1>5 DEF TypeOK, TypeInv, signalVars, frameVars
<1>9. QED
  BY <1>2, <1>6, <1>7, <1>8 DEF TypeInv

LEMMA TypeScan ==
    ASSUME TypeInv, Scan
    PROVE  TypeInv'
<1>1. /\ UNCHANGED signalVars /\ pc = "scan" /\ pc' = pc /\ idx' = idx + 1 /\ idx <= Len(data)
      /\ UNCHANGED <<lo_thres, hi_thres, pulses>> /\ UNCHANGED frameVars
  BY DEF Scan
<1>2. /\ LineInv' /\ level' \in Levels /\ data' \in Seq(Int8) /\ overflow_checks' \in BOOLEAN
      /\ data' = << >> \/ (Len(sent') = Frames /\ data' = Samples')
  BY <1>1, SignalStays
<1>3. /\ data' = data /\ Len(data) \in Nat /\ idx \in Nat /\ idx \in 1..Len(data) + 1
      /\ currently_high \in BOOLEAN
      /\ transitions \in Seq(Transition)
  BY <1>1 DEF TypeInv, TypeOK, signalVars
<1>4. idx' \in 1..Len(data') + 1
  BY <1>1, <1>3
<1> DEFINE x == [at |-> idx - 1, was |-> currently_high]
<1>5. CASE transitions' = Append(transitions, x) /\ currently_high' = ~currently_high
  <2>1. x \in Transition /\ x.at = idx - 1
    BY <1>3 DEF Transition
  <2> HIDE DEF x
  <2>2. /\ transitions' \in Seq(Transition) /\ Len(transitions) \in Nat
        /\ Len(transitions') = Len(transitions) + 1
        /\ \A i \in 1..Len(transitions) : transitions'[i] = transitions[i]
        /\ transitions'[Len(transitions) + 1] = x
    BY <1>3, <1>5, <2>1, Appended
  <2>3. ASSUME NEW i \in 1..Len(transitions')
        PROVE  transitions'[i].at + 1 < idx' /\ (i > 1 => transitions'[i-1].at <= transitions'[i].at)
    <3>1. CASE i = Len(transitions) + 1
      <4>1. transitions'[i].at = idx - 1
        BY <2>1, <2>2, <3>1
      <4>2. CASE i > 1
        <5>1. i - 1 \in 1..Len(transitions)
          BY <2>2, <3>1, <4>2
        <5>2. transitions[i-1].at + 1 < idx /\ transitions'[i-1] = transitions[i-1]
              /\ transitions[i-1].at \in Nat
          BY <5>1, <2>2, TransitionAt
        <5>3. QED
          BY <4>1, <5>2, <1>1, <1>3
      <4>3. QED
        BY <4>1, <4>2, <1>1, <1>3
    <3>2. CASE i \in 1..Len(transitions)
      <4>1. transitions'[i] = transitions[i] /\ transitions[i].at \in Nat
            /\ transitions[i].at + 1 < idx
            /\ (i > 1 => transitions[i-1].at <= transitions[i].at)
        BY <3>2, <2>2, TransitionAt
      <4>2. i > 1 => transitions'[i-1] = transitions[i-1]
        <5>1. i > 1 => i - 1 \in 1..Len(transitions)
          BY <3>2
        <5>2. QED
          BY <5>1, <2>2
      <4>3. QED
        BY <4>1, <4>2, <1>1, <1>3
    <3>3. QED
      BY <3>1, <3>2, <2>2
  <2>4. OrderInv'
    BY <2>3 DEF OrderInv
  <2>5. currently_high' \in BOOLEAN
    BY <1>5
  <2>6. QED
    BY <2>2, <2>4, <2>5, <1>1, <1>2, <1>4
       DEF TypeInv, TypeOK, FreshInv, signalVars, frameVars
<1>6. CASE UNCHANGED <<transitions, currently_high>>
  <2>1. OrderInv'
    <3>1. ASSUME NEW i \in 1..Len(transitions)
          PROVE  transitions[i].at + 1 < idx + 1
      <4>1. transitions[i].at \in Nat /\ transitions[i].at + 1 < idx
        BY TransitionAt
      <4>2. QED
        BY <4>1, <1>3
    <3>2. QED
      BY <1>1, <1>6, <3>1 DEF TypeInv, OrderInv
  <2>2. QED
    BY <2>1, <1>1, <1>2, <1>4, <1>6
       DEF TypeInv, TypeOK, FreshInv, signalVars, frameVars
<1>7. QED
  BY <1>5, <1>6 DEF Scan

LEMMA TypeToPulses ==
    ASSUME TypeInv, ToPulses
    PROVE  TypeInv'
<1>1. /\ UNCHANGED signalVars /\ pc = "scan" /\ pc' = "search"
      /\ UNCHANGED scanVars /\ UNCHANGED frameVars
  BY DEF ToPulses
<1>2. /\ LineInv' /\ level' \in Levels /\ data' \in Seq(Int8) /\ overflow_checks' \in BOOLEAN
      /\ data' = << >> \/ (Len(sent') = Frames /\ data' = Samples')
  BY <1>1, SignalStays
<1>3. transitions \in Seq(Transition) /\ Len(transitions) \in Nat
  BY DEF TypeInv, TypeOK
<1>4. ASSUME NEW i \in 1..Len(transitions)
      PROVE  [len   |-> transitions[i].at - (IF i = 1 THEN 0 ELSE transitions[i-1].at),
              logic |-> transitions[i].was] \in Pulse
  <2>1. transitions[i].at \in Nat /\ transitions[i].was \in BOOLEAN
    BY TransitionAt
  <2>2. CASE i > 1
    <3>1. i - 1 \in 1..Len(transitions)
      BY <2>2, <1>3
    <3>2. transitions[i-1].at \in Nat /\ transitions[i-1].at <= transitions[i].at
      BY <3>1, <2>2, TransitionAt
    <3>3. QED
      BY <2>1, <2>2, <3>2 DEF Pulse
  <2>3. CASE i = 1
    BY <2>1, <2>3 DEF Pulse
  <2>4. QED
    BY <2>2, <2>3
<1>5. pulses' \in Seq(Pulse)
  <2>1. DOMAIN transitions = 1..Len(transitions)
    BY <1>3
  <2>2. pulses' = [i \in 1..Len(transitions) |->
             [len   |-> transitions[i].at - (IF i = 1 THEN 0 ELSE transitions[i-1].at),
              logic |-> transitions[i].was]]
    BY <2>1 DEF ToPulses
  <2>3. pulses' \in [1..Len(transitions) -> Pulse]
    BY <1>4, <2>2
  <2>4. QED
    BY <2>3, <1>3
<1>6. FreshInv' /\ OrderInv'
  BY <1>1, <1>2 DEF TypeInv, FreshInv, OrderInv, scanVars, frameVars
<1>7. TypeOK'
  BY <1>1, <1>2, <1>5 DEF TypeInv, TypeOK, signalVars, scanVars, frameVars
<1>8. QED
  BY <1>2, <1>6, <1>7 DEF TypeInv

\* A step of Search or Decode that goes on.
LEMMA TypeConsume ==
    ASSUME TypeInv, UNCHANGED signalVars, UNCHANGED scanVars,
           pc \in {"search", "decode"}, pc' = "decode" \/ (pc' = pc /\ UNCHANGED frameVars),
           pulses' = pulses \/ (pulses # << >> /\ pulses' = Tail(pulses)),
           bit' \in Nat, current_byte' \in UInt8, place_val' \in {2^i : i \in 0..7},
           need_start_bit' \in BOOLEAN, need_stop_bit' \in BOOLEAN, ans' \in Seq(UInt8)
    PROVE  TypeInv'
<1>1. /\ LineInv' /\ level' \in Levels /\ data' \in Seq(Int8) /\ overflow_checks' \in BOOLEAN
      /\ data' = << >> \/ (Len(sent') = Frames /\ data' = Samples')
  BY SignalStays
<1>2. pulses' \in Seq(Pulse)
  <2>1. pulses \in Seq(Pulse)
    BY DEF TypeInv, TypeOK
  <2>2. pulses # << >> => Tail(pulses) \in Seq(Pulse)
    BY <2>1, Shortened
  <2>3. QED
    BY <2>1, <2>2
<1>3. FreshInv'
  BY <1>1 DEF TypeInv, FreshInv, scanVars, frameVars
<1>4. OrderInv'
  BY DEF TypeInv, OrderInv, scanVars
<1>5. TypeOK'
  BY <1>1, <1>2 DEF TypeInv, TypeOK, signalVars, scanVars
<1>6. QED
  BY <1>1, <1>3, <1>4, <1>5 DEF TypeInv

\* The step from one symbol to the next.
LEMMA TypeNextSymbol ==
    ASSUME TypeInv, NextSymbol, pulses # << >>
    PROVE  bit' \in Nat /\ (pulses' = pulses \/ (pulses # << >> /\ pulses' = Tail(pulses)))
  BY DEF NextSymbol, TypeInv, TypeOK

LEMMA TypeDecode ==
    ASSUME TypeInv, Decode
    PROVE  TypeInv'
<1>1. /\ bit \in Nat /\ current_byte \in UInt8 /\ place_val \in {2^i : i \in 0..7}
      /\ need_start_bit \in BOOLEAN /\ need_stop_bit \in BOOLEAN /\ ans \in Seq(UInt8)
  BY DEF TypeInv, TypeOK
<1>2. ASSUME NEW x \in Int PROVE x % 256 \in UInt8
  BY DEF UInt8
<1>3. Sum \in Int
  <2>1. PICK i \in 0..7 : place_val = 2^i
    BY <1>1
  <2>2. 2^i \in 1..128
    BY PowerDoubles
  <2>3. place_val \in Int /\ current_byte \in Int
    BY <1>1, <2>1, <2>2 DEF UInt8
  <2>4. QED
    BY <2>3 DEF Sum
<1>4. CASE StartBit
  <2>1. 2^(PulseLen - 1) \in {2^i : i \in 0..7}
    <3>1. PulseLen \in 1..8
      BY <1>4 DEF StartBit, PlaceFits
    <3>2. PulseLen - 1 \in 0..7
      BY <3>1
    <3>3. QED
      BY <3>2
  <2>2. 0 \in UInt8
    BY DEF UInt8
  <2>3. QED
    BY <1>1, <1>4, <2>1, <2>2, TypeConsume DEF StartBit, AtPulse
<1>5. CASE StartBitFails
  BY <1>5, TypeEnds DEF StartBitFails, Ended
<1>6. CASE StopBit
  <2>1. ans' \in Seq(UInt8)
    BY <1>1, <1>6, Appended DEF StopBit
  <2>2. QED
    BY <1>1, <1>6, <2>1, TypeConsume DEF StopBit, AtPulse
<1>7. CASE StopBitFails
  BY <1>7, TypeEnds DEF StopBitFails, Ended
<1>8. CASE EmptyPulse
  BY <1>1, <1>8, TypeConsume DEF EmptyPulse, InFrame, AtPulse, frameVars
<1>9. CASE DataBit
  <2>1. place_val' \in {2^i : i \in 0..7}
    <3>1. PICK i \in 0..7 : place_val = 2^i
      BY <1>1
    <3>2. i # 7
      <4>1. place_val * 2 < 256
        BY <1>9 DEF DataBit
      <4>2. i = 7 => place_val = 128
        BY <3>1, Powers
      <4>3. QED
        BY <4>1, <4>2
    <3>3. i + 1 \in 0..7 /\ 2^(i + 1) = 2^i * 2
      <4>1. 2^(i + 1) = 2^i * 2
        BY PowerDoubles
      <4>2. QED
        BY <3>2, <4>1
    <3>4. place_val' = 2^(i + 1)
      BY <1>9, <3>1, <3>3 DEF DataBit
    <3>5. QED
      BY <3>3, <3>4
  <2>2. current_byte' \in UInt8
    BY <1>2, <1>3, <1>9 DEF DataBit
  <2>3. bit' \in Nat /\ (pulses' = pulses \/ (pulses # << >> /\ pulses' = Tail(pulses)))
    BY <1>9, TypeNextSymbol DEF DataBit, InFrame, AtPulse
  <2>4. QED
    BY <1>1, <1>9, <2>1, <2>2, <2>3, TypeConsume DEF DataBit, InFrame, AtPulse
<1>10. CASE LastDataBit
  <2>1. place_val' \in {2^i : i \in 0..7}
    BY <1>10, Powers DEF LastDataBit
  <2>2. current_byte' \in UInt8
    BY <1>2, <1>3, <1>10 DEF LastDataBit
  <2>3. bit' \in Nat /\ (pulses' = pulses \/ (pulses # << >> /\ pulses' = Tail(pulses)))
    BY <1>10, TypeNextSymbol DEF LastDataBit, InFrame, AtPulse
  <2>4. ans' \in Seq(UInt8) /\ need_start_bit' \in BOOLEAN /\ need_stop_bit' \in BOOLEAN
    <3>1. CASE LastOfPulse
      BY <1>1, <1>10, <3>1 DEF LastDataBit
    <3>2. CASE ~LastOfPulse
      <4>1. Append(ans, current_byte') \in Seq(UInt8)
        BY <1>1, <2>2, Appended
      <4>2. QED
        BY <1>10, <3>2, <4>1 DEF LastDataBit
    <3>3. QED
      BY <3>1, <3>2
  <2>5. QED
    BY <1>10, <2>1, <2>2, <2>3, <2>4, TypeConsume DEF LastDataBit, InFrame, AtPulse
<1>11. CASE DataBitFails
  BY <1>11, TypeEnds DEF DataBitFails, Ended
<1>12. CASE Done
  BY <1>12, TypeEnds DEF Done, Ended
<1>13. QED
  BY <1>4, <1>5, <1>6, <1>7, <1>8, <1>9, <1>10, <1>11, <1>12 DEF Decode

LEMMA TypeSearch ==
    ASSUME TypeInv, Search
    PROVE  TypeInv'
<1>1. /\ bit \in Nat /\ current_byte \in UInt8 /\ place_val \in {2^i : i \in 0..7}
      /\ need_start_bit \in BOOLEAN /\ need_stop_bit \in BOOLEAN /\ ans \in Seq(UInt8)
  BY DEF TypeInv, TypeOK
<1>2. /\ UNCHANGED signalVars /\ UNCHANGED scanVars /\ UNCHANGED frameVars /\ pc = "search"
      /\ pc' \in {"search", "decode"}
      /\ pulses' = pulses \/ (pulses # << >> /\ pulses' = Tail(pulses))
  BY DEF Search
<1>3. /\ bit' = bit /\ current_byte' = current_byte /\ place_val' = place_val /\ ans' = ans
      /\ need_start_bit' = need_start_bit /\ need_stop_bit' = need_stop_bit
  BY <1>2 DEF frameVars
<1>4. QED
  BY <1>1, <1>2, <1>3, TypeConsume

LEMMA TypeStep ==
    ASSUME TypeInv, [Next]_vars
    PROVE  TypeInv'
<1>1. CASE SendFrame
  BY <1>1, TypeSendFrame
<1>2. CASE Capture
  BY <1>2, TypeCapture
<1>3. CASE MeasureFails
  BY <1>3, TypeEnds DEF MeasureFails, Ended
<1>4. CASE Measure
  BY <1>4, TypeMeasure
<1>5. CASE Scan
  BY <1>5, TypeScan
<1>6. CASE ToPulses
  BY <1>6, TypeToPulses
<1>7. CASE Search
  BY <1>7, TypeSearch
<1>8. CASE Decode
  BY <1>8, TypeDecode
<1>9. CASE UNCHANGED vars
  <2>1. UNCHANGED signalVars /\ UNCHANGED scanVars /\ UNCHANGED <<pc, pulses>> /\ UNCHANGED frameVars
    BY <1>9 DEF vars
  <2>2. LineInv'
    BY <2>1, SignalStays
  <2>3. OrderInv'
    BY <2>1 DEF TypeInv, OrderInv, scanVars
  <2>4. FreshInv'
    <3>1. level' \in Levels /\ (data' = << >> \/ (Len(sent') = Frames /\ data' = Samples'))
      BY <2>1, SignalStays
    <3>2. /\ data' = data /\ pc' = pc /\ pulses' = pulses /\ idx' = idx /\ transitions' = transitions
          /\ bit' = bit /\ need_start_bit' = need_start_bit /\ need_stop_bit' = need_stop_bit
          /\ ans' = ans
      BY <2>1 DEF signalVars, scanVars, frameVars
    <3>3. QED
      BY <3>1, <3>2 DEF TypeInv, FreshInv
  <2>5. TypeOK'
    BY <2>1 DEF TypeInv, TypeOK, signalVars, scanVars, frameVars
  <2>6. QED
    BY <2>2, <2>3, <2>4, <2>5 DEF TypeInv
<1>10. QED
  BY <1>1, <1>2, <1>3, <1>4, <1>5, <1>6, <1>7, <1>8, <1>9 DEF Next

LEMMA TypeInvariant == Spec => []TypeInv
<1>1. TypeInv /\ [Next]_vars => TypeInv'
  BY TypeStep
<1>2. QED
  BY TypeInit, <1>1, PTL DEF Spec

\* Every variable has its type; in particular the place value stays below 2^8, and the
\* byte in a u8 (uart, protocol_decode.rs:39).
THEOREM TypeCorrect == Spec => []TypeOK
<1>1. TypeInv => TypeOK
  BY DEF TypeInv
<1>2. QED
  BY TypeInvariant, <1>1, PTL

-----------------------------------------------------------------------------
(* The samples *)

\* Samples are numbered from 1: sample S * q + r + 1 is in symbol q + 1.
LEMMA SampleOfSymbol ==
    ASSUME TypeInv, NEW q \in Nat, NEW r \in 0..SymbolLen - 1, q < Len(line)
    PROVE  SymbolLen * q + r + 1 \in 1..SymbolLen * Len(line)
<1>1. SymbolLen \in Nat \ {0} /\ Len(line) \in Nat
  BY ConstantsAssumption DEF TypeInv, LineInv
<1>2. PICK d \in Nat : Len(line) = q + 1 + d
  <2>1. Len(line) - q - 1 \in Nat /\ Len(line) = q + 1 + (Len(line) - q - 1)
    BY <1>1
  <2>2. QED
    BY <2>1
<1>3. SymbolLen * Len(line) = SymbolLen * q + SymbolLen + SymbolLen * d
      /\ SymbolLen * d \in Nat /\ SymbolLen * q \in Nat
  BY <1>1, <1>2
<1>4. QED
  BY <1>1, <1>3

\* A sample is high in a high symbol, and in the first samples after one.
LEMMA HighIs ==
    ASSUME TypeInv, NEW q \in Nat, NEW r \in 0..SymbolLen - 1, q < Len(line),
           level.skew < SymbolLen
    PROVE  High(SymbolLen * q + r + 1)
             <=> line[q + 1] = 1 \/ (q >= 1 /\ r < level.skew /\ line[q] = 1)
<1> DEFINE S == SymbolLen
           t == S * q + r + 1
<1>1. S \in Nat \ {0} /\ level.skew \in Nat /\ S * q \in Nat /\ r \in Nat /\ r < S
  BY ConstantsAssumption, LevelsAreI8 DEF TypeInv, FreshInv
<1>2. ASSUME NEW k \in 0..r
      PROVE  (t - 1 - k) \div S + 1 = q + 1
  <2>1. t - 1 - k = S * q + (r - k) /\ r - k \in 0..S-1
    BY <1>1
  <2>2. (S * q + (r - k)) \div S = q
    BY <1>1, <2>1, DivUnique
  <2>3. QED
    BY <2>1, <2>2
<1>3. ASSUME NEW k \in r + 1..level.skew, q >= 1
      PROVE  (t - 1 - k) \div S + 1 = q
  <2>1. PICK p \in Nat : q = p + 1
    <3>1. q - 1 \in Nat /\ q = (q - 1) + 1
      BY <1>3
    <3>2. QED
      BY <3>1
  <2>2. S * q = S * p + S /\ S * p \in Nat
    BY <1>1, <2>1
  <2>3. t - 1 - k = S * p + (S + r - k) /\ S + r - k \in 0..S-1
    BY <1>1, <2>2
  <2>4. (S * p + (S + r - k)) \div S = p
    BY <1>1, <2>3, DivUnique
  <2>5. QED
    BY <2>1, <2>3, <2>4
<1>4. ASSUME line[q + 1] = 1 PROVE High(t)
  <2>1. 0 \in 0..level.skew /\ 0 \in 0..r /\ 0 < t
    BY <1>1
  <2>2. (t - 1 - 0) \div S + 1 = q + 1
    BY <2>1, <1>2
  <2>3. QED
    BY <2>1, <2>2, <1>4 DEF High
<1>5. ASSUME q >= 1, r < level.skew, line[q] = 1 PROVE High(t)
  <2>1. r + 1 \in 0..level.skew /\ r + 1 \in r + 1..level.skew
    BY <1>1, <1>5
  <2>2. (t - 1 - (r + 1)) \div S + 1 = q
    BY <2>1, <1>3, <1>5
  <2>3. r + 1 < t
    <3>1. S * q >= S
      BY <1>1, <1>5
    <3>2. QED
      BY <1>1, <3>1
  <2>4. QED
    BY <2>1, <2>2, <2>3, <1>5 DEF High
<1>6. ASSUME High(t) PROVE line[q + 1] = 1 \/ (q >= 1 /\ r < level.skew /\ line[q] = 1)
  <2>1. PICK k \in 0..level.skew : k < t /\ line[(t - 1 - k) \div S + 1] = 1
    BY <1>6 DEF High
  <2>2. CASE k <= r
    <3>1. k \in 0..r
      BY <2>2, <1>1
    <3>2. QED
      BY <3>1, <2>1, <1>2
  <2>3. CASE k > r
    <3>1. q >= 1
      <4>1. q = 0 => t = r + 1
        BY <1>1
      <4>2. QED
        BY <4>1, <2>1, <2>3, <1>1
    <3>2. k \in r + 1..level.skew /\ r < level.skew
      BY <2>3, <1>1
    <3>3. QED
      BY <3>1, <3>2, <2>1, <1>3
  <2>4. QED
    BY <2>2, <2>3, <1>1
<1>7. QED
  BY <1>4, <1>5, <1>6

\* What is on the line of a capture.
LEMMA OnLine ==
    ASSUME TypeInv, data # << >>, NEW lead \in Leads, NEW st \in Seq(Nat), Laid(lead, st)
    PROVE  /\ Len(sent) = Frames /\ Frames \in Nat \ {0}
           /\ Len(lead) \in Nat /\ Len(lead) < 10 /\ Len(line) \in Nat
           /\ st[1] = Len(lead) + 12 /\ st[Frames + 1] = Len(line)
           /\ \A j \in 1..12 : line[Len(lead) + j] = 1
           /\ \A k \in 1..Frames :
                 /\ sent[k].idle \in Nat /\ sent[k].byte \in UInt8 /\ sent[k].stop \in {0, 1}
                 /\ st[k] \in Nat /\ st[k + 1] \in Nat /\ st[k + 1] <= Len(line)
                 /\ st[k + 1] = st[k] + 10 + sent[k].idle
                 /\ line[st[k] + 1] = 0
                 /\ \A i \in 0..7 : line[st[k] + (i + 2)] = Bit(sent[k].byte, i)
                 /\ line[st[k] + 10] = sent[k].stop
                 /\ \A i \in 11..10 + sent[k].idle : line[st[k] + i] = 1
<1>1. Len(sent) = Frames /\ Frames \in Nat \ {0}
  BY ConstantsAssumption DEF TypeInv, FreshInv
<1>2. Len(lead) \in Nat /\ Len(lead) < 10 /\ Len(line) \in Nat
  BY ConstantsAssumption DEF TypeInv, LineInv
<1>3. Len(st) = Frames + 1
  BY <1>1 DEF Laid, LaidOut
<1>4. st[1] = Len(lead) + 12 /\ st[Frames + 1] = Len(line) /\ \A j \in 1..12 : line[Len(lead) + j] = 1
  BY <1>1, <1>3 DEF Laid, LaidOut
<1>5. ASSUME NEW k \in 1..Frames
      PROVE  /\ sent[k].idle \in Nat /\ sent[k].byte \in UInt8 /\ sent[k].stop \in {0, 1}
             /\ st[k] \in Nat /\ st[k + 1] \in Nat /\ st[k + 1] <= Len(line)
             /\ st[k + 1] = st[k] + 10 + sent[k].idle
             /\ line[st[k] + 1] = 0
             /\ \A i \in 0..7 : line[st[k] + (i + 2)] = Bit(sent[k].byte, i)
             /\ line[st[k] + 10] = sent[k].stop
             /\ \A i \in 11..10 + sent[k].idle : line[st[k] + i] = 1
  <2> DEFINE f == sent[k]
  <2>1. f \in Frame
    BY <1>1 DEF TypeInv, LineInv
  <2>2. k \in 1..Len(st) /\ k + 1 \in 1..Len(st)
    BY <1>1, <1>3
  <2>3. st[k] \in Nat /\ st[k + 1] \in Nat /\ st[k + 1] <= Len(line)
    <3>1. \A j \in 1..Len(st) : st[j] \in Nat
      OBVIOUS
    <3>2. \A j \in 1..Len(st) : st[j] <= Len(line)
      BY Zenon DEF Laid, LaidOut
    <3>3. QED
      BY <2>2, <3>1, <3>2
  <2>4. /\ st[k + 1] = st[k] + 10 + f.idle
        /\ \A i \in 1..10 + f.idle : line[st[k] + i] = FrameSymbols(f)[i]
    BY <1>1 DEF Laid, LaidOut
  <2>5. /\ f.idle \in Nat /\ f.byte \in UInt8 /\ f.stop \in {0, 1}
        /\ FrameSymbols(f)[1] = 0
        /\ \A i \in 0..7 : FrameSymbols(f)[i + 2] = Bit(f.byte, i)
        /\ FrameSymbols(f)[10] = f.stop
        /\ \A i \in 11..10 + f.idle : FrameSymbols(f)[i] = 1
    BY <2>1, FrameOnLine
  <2> HIDE DEF f
  <2>6. 1 \in 1..10 + f.idle /\ 10 \in 1..10 + f.idle
    BY <2>5
  <2>7. line[st[k] + 1] = 0 /\ line[st[k] + 10] = f.stop
    BY <2>4, <2>5, <2>6
  <2>8. ASSUME NEW i \in 0..7 PROVE line[st[k] + (i + 2)] = Bit(f.byte, i)
    <3>1. i + 2 \in 1..10 + f.idle
      BY <2>5
    <3>2. QED
      BY <3>1, <2>4, <2>5
  <2>9. ASSUME NEW i \in 11..10 + f.idle PROVE line[st[k] + i] = 1
    <3>1. i \in 1..10 + f.idle
      BY <2>5
    <3>2. line[st[k] + i] = FrameSymbols(f)[i]
      BY <3>1, <2>4
    <3>3. QED
      BY <3>2, <2>5
  <2>10. QED
    BY <2>3, <2>4, <2>5, <2>7, <2>8, <2>9 DEF f
<1>6. QED
  BY <1>1, <1>2, <1>4, <1>5

\* The extremes of a capture are the levels of its signal, which shows both for at
\* least two samples in a row.
LEMMA Extremes ==
    ASSUME TypeInv, data # << >>, level.skew + 1 < SymbolLen, level.lo + level.ripple <= level.hi
    PROVE  Min(ToSet(data)) = level.lo /\ Max(ToSet(data)) = level.hi
<1> DEFINE S == SymbolLen
           L == Len(line)
           T == ToSet(data)
<1>1. /\ S \in Nat /\ S > 1 /\ level.skew \in Nat /\ level.ripple \in Nat
      /\ level.lo \in Int /\ level.hi \in Int
  BY ConstantsAssumption, LevelsAreI8 DEF TypeInv, FreshInv
<1>2. /\ Len(data) = S * L /\ data \in Seq(Int8) /\ L \in Nat
      /\ \A t \in 1..S * L : data[t] = IF High(t) THEN level.hi - Ripple(t) ELSE level.lo + Ripple(t)
  BY SamplesType DEF TypeInv, LineInv, FreshInv
<1>3. T = {data[t] : t \in 1..S * L}
  BY <1>2 DEF ToSet
<1>4. ASSUME NEW t \in Nat PROVE Ripple(t) \in {0, level.ripple} /\ (t % 2 = 1 => Ripple(t) = 0)
  BY DEF Ripple
<1>5. PICK lead \in Leads, st \in Seq(Nat) : Laid(lead, st)
  BY DEF TypeInv, LineInv
<1> DEFINE p == Len(lead) + 12
<1>6. p \in Nat /\ p >= 12 /\ p < L /\ line[p] = 1 /\ line[p + 1] = 0
  <2>1. 1 \in 1..Frames
    BY <1>5, OnLine, SMTT(30)
  <2>2. /\ Len(lead) \in Nat /\ st[1] = Len(lead) + 12 /\ line[st[1] + 1] = 0
        /\ st[2] = st[1] + 10 + sent[1].idle /\ sent[1].idle \in Nat /\ st[2] <= L
        /\ line[Len(lead) + 12] = 1
    BY <1>5, <2>1, OnLine
  <2>3. QED
    BY <2>2, <1>2, SMTT(30)
<1> HIDE DEF p
<1>7. ASSUME NEW t \in Nat PROVE t % 2 = 1 \/ (t + 1) % 2 = 1
  OBVIOUS
<1>8. level.hi \in T
  <2>1. PICK q \in Nat : p = q + 1
    <3>1. p - 1 \in Nat /\ p = (p - 1) + 1
      BY <1>6
    <3>2. QED
      BY <3>1
  <2>2. q < L /\ line[q + 1] = 1 /\ 0 \in 0..S-1 /\ 1 \in 0..S-1 /\ level.skew < S
    BY <1>1, <1>2, <1>6, <2>1
  <2>3. /\ High(S * q + 0 + 1) /\ S * q + 0 + 1 \in 1..S * L
        /\ High(S * q + 1 + 1) /\ S * q + 1 + 1 \in 1..S * L
    BY <2>2, HighIs, SampleOfSymbol
  <2>4. S * q + 0 + 1 \in Nat /\ S * q + 1 + 1 = (S * q + 0 + 1) + 1 /\ S * q + 1 + 1 \in Nat
    BY <1>1, SMTT(30)
  <2>5. PICK t \in 1..S * L : High(t) /\ t % 2 = 1
    BY <2>3, <2>4, <1>7
  <2>6. data[t] = level.hi - 0
    BY <1>2, <1>4, <2>5
  <2>7. QED
    BY <1>1, <1>3, <2>6
<1>9. level.lo \in T
  <2>1. p < L /\ line[p + 1] # 1 /\ level.skew \in 0..S-1 /\ level.skew + 1 \in 0..S-1
    BY <1>1, <1>6, SMTT(30)
  <2>2. /\ ~High(S * p + level.skew + 1) /\ S * p + level.skew + 1 \in 1..S * L
        /\ ~High(S * p + (level.skew + 1) + 1) /\ S * p + (level.skew + 1) + 1 \in 1..S * L
    <3>1. level.skew < S /\ ~(level.skew < level.skew) /\ ~(level.skew + 1 < level.skew)
      BY <1>1
    <3>2. QED
      BY <2>1, <3>1, <1>6, HighIs, SampleOfSymbol
  <2>3. /\ S * p + level.skew + 1 \in Nat /\ S * p + (level.skew + 1) + 1 \in Nat
        /\ S * p + (level.skew + 1) + 1 = (S * p + level.skew + 1) + 1
    <3>1. S * p \in Nat
      BY <1>1, <1>6
    <3>2. \A x, y \in Nat : x + y + 1 \in Nat /\ x + (y + 1) + 1 \in Nat /\ x + (y + 1) + 1 = (x + y + 1) + 1
      OBVIOUS
    <3>3. QED
      BY <1>1, <3>1, <3>2
  <2>4. PICK t \in 1..S * L : ~High(t) /\ t % 2 = 1
    BY <2>2, <2>3, <1>7
  <2>5. data[t] = level.lo + 0
    BY <1>2, <1>4, <2>4
  <2>6. QED
    BY <1>1, <1>3, <2>5
<1>10. ASSUME NEW y \in T PROVE y \in Int /\ level.lo <= y /\ y <= level.hi
  <2>1. PICK t \in 1..S * L : y = data[t]
    BY <1>3
  <2>2. t \in Nat
    OBVIOUS
  <2>3. Ripple(t) \in {0, level.ripple}
    BY <1>4, <2>2
  <2>4. y = level.hi - Ripple(t) \/ y = level.lo + Ripple(t)
    BY <1>2, <2>1
  <2>5. QED
    BY <1>1, <2>3, <2>4, SMTT(30)
<1>11. /\ Min(T) \in T /\ \A y \in T : Min(T) <= y
       /\ Max(T) \in T /\ \A y \in T : Max(T) >= y
  <2>1. T \in SUBSET Int /\ T # {}
    BY <1>8, <1>10
  <2>2. QED
    BY <2>1, <1>1, <1>10, MinMax
<1>12. QED
  <2>1. Min(T) <= level.lo /\ level.lo <= Min(T) /\ Min(T) \in Int
    BY <1>8, <1>9, <1>10, <1>11
  <2>2. Max(T) >= level.hi /\ level.hi >= Max(T) /\ Max(T) \in Int
    BY <1>8, <1>9, <1>10, <1>11
  <2>3. QED
    BY <2>1, <2>2, <1>1

-----------------------------------------------------------------------------
(* Readable signals *)

\* The distance of a threshold from its level, and how late a transition may be.
Fifth == (level.hi - level.lo) \div 5

Delay == level.skew + (IF level.ripple < Fifth THEN 0 ELSE 1)

Signal == data # << >> /\ Readable(level)

LEMMA ReadableMeans ==
    ASSUME TypeInv, Readable(level)
    PROVE  /\ SymbolLen \in Nat /\ SymbolLen > 1 /\ level.skew + 1 < SymbolLen
           /\ level.lo \in Int /\ level.hi \in Int /\ level.skew \in Nat /\ level.ripple \in Nat
           /\ level.lo + level.ripple <= level.hi /\ level.hi - level.lo \in Int8
           /\ level.hi - level.lo >= 0
           /\ Fifth \in Nat /\ Fifth >= 1 /\ level.ripple + Fifth <= level.hi - level.lo
           /\ Delay \in Nat /\ 2 * Delay < SymbolLen /\ level.skew <= Delay
           /\ Delay <= level.skew + 1 /\ (Delay = level.skew => level.ripple < Fifth)
<1> DEFINE s == level.hi - level.lo
<1>1. /\ level.lo \in Int /\ level.hi \in Int /\ level.skew \in Nat /\ level.ripple \in Nat
      /\ SymbolLen \in Nat
  BY ConstantsAssumption, LevelsAreI8 DEF TypeInv, FreshInv
<1>2. SymbolLen > 1 /\ s \in 5..127 /\ 5 * level.ripple < 4 * s /\ 2 * Delay < SymbolLen
  BY DEF Readable, Delay, Fifth
<1>3. s \in Int8 /\ s \in Nat /\ s >= 5
  BY <1>2 DEF Int8
<1>4. Fifth = s \div 5
  BY DEF Fifth
<1> HIDE DEF s
<1>5. Fifth \in Nat /\ Fifth >= 1 /\ 5 * Fifth <= s
  BY <1>3, <1>4
<1>6. level.ripple + Fifth <= s
  BY <1>1, <1>2, <1>3, <1>5
<1>7. /\ Delay \in Nat /\ level.skew <= Delay /\ Delay <= level.skew + 1
      /\ Delay = level.skew => level.ripple < Fifth
  BY <1>1 DEF Delay
<1>8. level.skew + 1 < SymbolLen
  BY <1>1, <1>2, <1>7
<1>9. s = level.hi - level.lo
  BY DEF s
<1>10. level.lo + level.ripple <= level.hi
  BY <1>1, <1>5, <1>6, <1>9
<1>11. QED
  BY <1>1, <1>2, <1>3, <1>5, <1>6, <1>7, <1>8, <1>9, <1>10

ThresholdsInv ==
    pc = "scan" /\ Signal =>
        lo_thres = level.lo + Fifth /\ hi_thres = level.hi - Fifth

LEMMA Thresholds ==
    ASSUME TypeInv, Measure, Signal
    PROVE  lo_thres' = level.lo + Fifth /\ hi_thres' = level.hi - Fifth
<1>1. /\ level.lo \in Int /\ level.hi \in Int /\ level.hi - level.lo \in Int8
      /\ Fifth \in Nat /\ level.ripple \in Nat /\ level.hi - level.lo >= 0
      /\ level.ripple + Fifth <= level.hi - level.lo
  BY ReadableMeans DEF Signal
<1>2. Lo = level.lo /\ Hi = level.hi
  BY Extremes, ReadableMeans DEF Signal, Lo, Hi
<1>3. I8(level.hi - level.lo) = level.hi - level.lo
  BY <1>1, I8Fits
<1>4. Margin = Fifth
  BY <1>1, <1>2, <1>3 DEF Margin, Fifth, Quotient
<1>5. level.lo \in Int8 /\ level.hi \in Int8
  BY LevelsAreI8 DEF TypeInv, FreshInv
<1>6. level.lo + Fifth \in Int8 /\ level.hi - Fifth \in Int8
  <2>1. \A x \in Int : x \in Int8 <=> -128 <= x /\ x <= 127
    BY DEF Int8
  <2>2. -128 <= level.lo /\ level.hi <= 127
    BY <1>1, <1>5, <2>1
  <2>3. level.lo + Fifth \in Int /\ -128 <= level.lo + Fifth /\ level.lo + Fifth <= 127
    BY <1>1, <2>2
  <2>4. level.hi - Fifth \in Int /\ -128 <= level.hi - Fifth /\ level.hi - Fifth <= 127
    BY <1>1, <2>2
  <2>5. QED
    BY <2>1, <2>3, <2>4
<1>7. QED
  BY <1>2, <1>4, <1>6, I8Fits DEF Measure

LEMMA NoPanic ==
    ASSUME TypeInv, Signal
    PROVE  ~MeasureFails
<1>1. Lo = level.lo /\ Hi = level.hi
  BY Extremes, ReadableMeans DEF Signal, Lo, Hi
<1>2. IsI8(level.hi - level.lo)
  BY ReadableMeans DEF Signal, IsI8
<1>3. overflow_checks => IsI8(level.hi + level.lo)
  BY DEF Signal, Readable
<1>4. QED
  BY <1>1, <1>2, <1>3 DEF MeasureFails, MeasurePanics, Signal

\* Which samples cross a threshold: none that is on the side of the scan, and on the
\* other side all, except that ripple may hide one of every two.
LEMMA WhoCrosses ==
    ASSUME TypeInv, Signal, ThresholdsInv, Scan
    PROVE  /\ High(idx) = currently_high => ~Crosses(data[idx])
           /\ (High(idx) # currently_high /\ (idx % 2 = 1 \/ Delay = level.skew)) => Crosses(data[idx])
<1>1. /\ level.lo \in Int /\ level.hi \in Int /\ level.ripple \in Nat
      /\ Fifth \in Nat /\ Fifth >= 1 /\ level.ripple + Fifth <= level.hi - level.lo
      /\ Delay = level.skew => level.ripple < Fifth
  BY ReadableMeans DEF Signal
<1>2. lo_thres = level.lo + Fifth /\ hi_thres = level.hi - Fifth
  BY DEF ThresholdsInv, Scan
<1>3. /\ idx \in 1..SymbolLen * Len(line)
      /\ data[idx] = IF High(idx) THEN level.hi - Ripple(idx) ELSE level.lo + Ripple(idx)
  <2>1. data = Samples
    BY DEF TypeInv, FreshInv, Signal
  <2>2. idx \in 1..Len(data) + 1 /\ idx <= Len(data) /\ data \in Seq(Int8)
    BY DEF TypeInv, TypeOK, Scan
  <2>3. idx \in 1..Len(data)
    BY <2>2
  <2>4. QED
    BY <2>1, <2>3, SamplesType DEF TypeInv, FreshInv, LineInv
<1>4. Ripple(idx) = 0 \/ (Ripple(idx) = level.ripple /\ idx % 2 # 1)
  BY DEF Ripple
<1>5. High(idx) \in BOOLEAN /\ currently_high \in BOOLEAN
  BY DEF High, TypeInv, TypeOK
<1>6. CASE High(idx)
  <2>1. data[idx] = level.hi - Ripple(idx)
    BY <1>3, <1>6
  <2>2. ~(data[idx] < lo_thres)
    BY <1>1, <1>2, <1>4, <2>1
  <2>3. idx % 2 = 1 \/ Delay = level.skew => data[idx] > hi_thres
    BY <1>1, <1>2, <1>4, <2>1
  <2>4. QED
    BY <1>5, <1>6, <2>2, <2>3 DEF Crosses
<1>7. CASE ~High(idx)
  <2>1. data[idx] = level.lo + Ripple(idx)
    BY <1>3, <1>7
  <2>2. ~(data[idx] > hi_thres)
    BY <1>1, <1>2, <1>4, <2>1
  <2>3. idx % 2 = 1 \/ Delay = level.skew => data[idx] < lo_thres
    BY <1>1, <1>2, <1>4, <2>1
  <2>4. QED
    BY <1>5, <1>7, <2>2, <2>3 DEF Crosses
<1>8. QED
  BY <1>6, <1>7

-----------------------------------------------------------------------------
(* The scan *)

Sym(b) == IF b THEN 1 ELSE 0

Steady(from, to, b) == \A j \in from + 1..to : line[j] = Sym(b)

\* How many symbols are before a transition.
Edge(i) == IF i = 0 THEN 0 ELSE transitions[i].at \div SymbolLen

LastEdge == Edge(Len(transitions))

EdgeOk(i) ==
    /\ transitions[i].at % SymbolLen <= Delay
    /\ Steady(Edge(i - 1), Edge(i), transitions[i].was)
    /\ i > 1 => Edge(i - 1) < Edge(i) /\ transitions[i].was = ~transitions[i-1].was

\* Between two transitions the line has one symbol, the other one than before.
EdgesInv ==
    /\ \A i \in 1..Len(transitions) : EdgeOk(i)
    /\ Len(transitions) > 0 => currently_high = ~transitions[Len(transitions)].was

\* The sample that was looked at last is the r-th of the symbol after q: the transition
\* to this symbol, if there is one, has been found, or is late.
Late == IF currently_high THEN level.skew ELSE 0

Looked(q, r) ==
    /\ LastEdge <= q
    /\ Steady(LastEdge, q, currently_high)
    /\ \/ /\ line[q + 1] = Sym(currently_high)
          /\ q >= 1 /\ line[q] = 1 /\ line[q + 1] = 0 => r >= level.skew
       \/ /\ LastEdge < q
          /\ line[q + 1] # Sym(currently_high)
          /\ r < Late \/ (r = Late /\ Delay > level.skew /\ (idx - 1) % 2 = 0)

\* ... and before the sample at idx, which is the r-th of the symbol after q.
Ready(q, r) ==
    /\ LastEdge <= q
    /\ Steady(LastEdge, q, currently_high)
    /\ \/ /\ line[q + 1] = Sym(currently_high)
          /\ q >= 1 /\ line[q] = 1 /\ line[q + 1] = 0 => r >= level.skew
       \/ /\ LastEdge < q
          /\ line[q + 1] # Sym(currently_high)
          /\ r <= Late \/ (r = Late + 1 /\ Delay > level.skew /\ idx % 2 = 1)

ScanInv ==
    pc = "scan" /\ Signal =>
        /\ EdgesInv
        /\ idx = 1 => transitions = << >>
        /\ idx > 1 => Looked((idx - 2) \div SymbolLen, (idx - 2) % SymbolLen)

\* Where the scan is on the line.
LEMMA AtSymbol ==
    ASSUME TypeInv, Signal, Scan
    PROVE  /\ idx - 1 \in Nat /\ idx \in Nat
           /\ (idx - 1) \div SymbolLen \in Nat /\ (idx - 1) % SymbolLen \in 0..SymbolLen - 1
           /\ idx = SymbolLen * ((idx - 1) \div SymbolLen) + ((idx - 1) % SymbolLen) + 1
           /\ (idx - 1) \div SymbolLen < Len(line)
           /\ \A j \in 1..Len(line) : line[j] \in {0, 1}
           /\ Len(line) \in Nat /\ SymbolLen \in Nat \ {0}
<1>1. SymbolLen \in Nat \ {0}
  BY ConstantsAssumption
<1>2. /\ Len(line) \in Nat /\ \A j \in 1..Len(line) : line[j] \in {0, 1}
  BY DEF TypeInv, LineInv
<1>3. idx \in Nat /\ idx >= 1 /\ idx <= SymbolLen * Len(line)
  <2>1. data = Samples /\ level \in Levels /\ line \in Seq({0, 1})
    BY DEF TypeInv, FreshInv, LineInv, Signal
  <2>2. Len(data) = SymbolLen * Len(line)
    BY <2>1, SamplesType
  <2>3. SymbolLen * Len(line) \in Nat
    BY <1>1, <1>2
  <2>4. idx \in 1..Len(data) + 1 /\ idx <= Len(data)
    BY DEF TypeInv, TypeOK, Scan
  <2>5. QED
    BY <2>2, <2>3, <2>4
<1>4. idx - 1 \in Nat /\ idx - 1 < SymbolLen * Len(line)
  BY <1>1, <1>2, <1>3
<1>5. (idx - 1) \div SymbolLen < Len(line)
  BY <1>1, <1>2, <1>4, DivBound
<1>6. /\ (idx - 1) \div SymbolLen \in Nat /\ (idx - 1) % SymbolLen \in 0..SymbolLen - 1
      /\ idx - 1 = SymbolLen * ((idx - 1) \div SymbolLen) + ((idx - 1) % SymbolLen)
  BY <1>1, <1>4, DivMod
<1>7. idx = SymbolLen * ((idx - 1) \div SymbolLen) + ((idx - 1) % SymbolLen) + 1
  <2> DEFINE q == (idx - 1) \div SymbolLen
             r == (idx - 1) % SymbolLen
  <2>1. q \in Nat /\ r \in 0..SymbolLen - 1 /\ idx - 1 = SymbolLen * q + r
    BY <1>6
  <2> HIDE DEF q, r
  <2>2. idx = SymbolLen * q + r + 1
    BY <2>1, <1>1, <1>3
  <2>3. QED
    BY <2>2 DEF q, r
<1>8. QED
  BY <1>1, <1>2, <1>3, <1>4, <1>5, <1>6, <1>7

\* Transitions are in symbols of the line.
LEMMA EdgeNat ==
    ASSUME TypeInv, NEW i \in 0..Len(transitions)
    PROVE  Edge(i) \in Nat
<1>1. CASE i = 0
  BY <1>1 DEF Edge
<1>2. CASE i # 0
  <2>1. i \in 1..Len(transitions)
    BY <1>2, TransitionAt
  <2>2. transitions[i].at \in Nat /\ SymbolLen \in Nat \ {0}
    BY <2>1, TransitionAt, ConstantsAssumption
  <2>3. transitions[i].at \div SymbolLen \in Nat
    BY <2>2, DivMod
  <2>4. QED
    BY <1>2, <2>3 DEF Edge
<1>3. QED
  BY <1>1, <1>2

\* A transition that is found.
LEMMA EdgeFound ==
    ASSUME TypeInv, Signal, EdgesInv, Scan, Crosses(data[idx]),
           NEW q \in Nat, NEW r \in 0..SymbolLen - 1, idx - 1 = SymbolLen * q + r,
           r <= Delay, Steady(LastEdge, q, currently_high),
           LastEdge < q \/ transitions = << >>
    PROVE  EdgesInv' /\ LastEdge' = q
<1>1. PICK n \in Nat : n = Len(transitions)
  BY DEF TypeInv, TypeOK
<1> DEFINE x == [at |-> idx - 1, was |-> currently_high]
<1>2. /\ currently_high' = ~currently_high /\ transitions' = Append(transitions, x)
      /\ line' = line /\ level' = level
  BY DEF Scan, signalVars
<1>3. transitions \in Seq(Transition) /\ currently_high \in BOOLEAN
  BY DEF TypeInv, TypeOK
<1>4. x \in Transition /\ x.at = idx - 1 /\ x.was = currently_high
  BY <1>3, AtSymbol DEF Transition
<1> HIDE DEF x
<1>5. /\ n \in Nat /\ Len(transitions') = n + 1 /\ transitions'[n + 1] = x
      /\ \A i \in 1..n : transitions'[i] = transitions[i]
  BY <1>1, <1>2, <1>3, <1>4, Appended
<1>6. \A i \in 0..n : Edge(i)' = Edge(i)
  BY <1>5 DEF Edge
<1>7. Edge(n + 1)' = q /\ transitions'[n + 1].at % SymbolLen = r
  <2>1. (idx - 1) \div SymbolLen = q /\ (idx - 1) % SymbolLen = r
    BY DivUnique, ConstantsAssumption
  <2>2. QED
    BY <2>1, <1>4, <1>5 DEF Edge
<1>8. Delay' = Delay
  BY <1>2 DEF Delay, Fifth
<1>9. LastEdge = Edge(n)
  BY <1>1 DEF LastEdge
<1>10. ASSUME NEW i \in 1..n PROVE EdgeOk(i)'
  <2>1. EdgeOk(i)
    BY <1>1 DEF EdgesInv
  <2>2. i - 1 \in 0..n /\ i \in 0..n /\ (i > 1 => i - 1 \in 1..n)
    BY <1>5
  <2>3. /\ Edge(i - 1)' = Edge(i - 1) /\ Edge(i)' = Edge(i) /\ transitions'[i] = transitions[i]
        /\ i > 1 => transitions'[i-1] = transitions[i-1]
    BY <2>2, <1>5, <1>6
  <2>4. QED
    BY <2>1, <2>3, <1>2, <1>8 DEF EdgeOk, Steady
<1>11. EdgeOk(n + 1)'
  <2>1. (n + 1) - 1 = n /\ n \in 0..n
    BY <1>5
  <2>2. Edge((n + 1) - 1)' = Edge(n)
    BY <2>1, <1>6
  <2>3. Steady(Edge((n + 1) - 1), Edge(n + 1), transitions[n + 1].was)'
    BY <2>2, <1>2, <1>4, <1>5, <1>7, <1>9 DEF Steady
  <2>4. transitions'[n + 1].at % SymbolLen <= Delay'
    BY <1>7, <1>8
  <2>5. ASSUME n + 1 > 1
        PROVE  Edge(n) < q /\ transitions'[n + 1].was = ~transitions'[n].was
    <3>1. n > 0 /\ n \in 1..n
      BY <2>5, <1>5
    <3>2. transitions # << >>
      BY <3>1, <1>1
    <3>3. currently_high = ~transitions[n].was
      BY <3>1, <1>1 DEF EdgesInv
    <3>4. QED
      BY <3>1, <3>2, <3>3, <1>4, <1>5, <1>9
  <2>6. QED
    BY <2>1, <2>2, <2>3, <2>4, <2>5, <1>7 DEF EdgeOk
<1>12. currently_high' = ~transitions'[n + 1].was
  BY <1>2, <1>4, <1>5
<1>13. EdgesInv'
  <2>1. \A i \in 1..n + 1 : i \in 1..n \/ i = n + 1
    BY <1>5
  <2>2. \A i \in 1..n + 1 : EdgeOk(i)'
    BY <2>1, <1>10, <1>11
  <2>3. QED
    BY <2>2, <1>5, <1>12 DEF EdgesInv
<1>14. QED
  BY <1>5, <1>7, <1>13 DEF LastEdge

LEMMA GetsReady ==
    ASSUME TypeInv, Signal, ScanInv, Scan, idx > 1,
           NEW q \in Nat, NEW r \in 0..SymbolLen - 1, idx - 1 = SymbolLen * q + r
    PROVE  Ready(q, r)
<1>1. PICK a \in Nat : a = idx - 2
  <2>1. idx - 2 \in Nat
    <3>1. idx \in Nat
      BY AtSymbol
    <3>2. QED
      BY <3>1
  <2>2. QED
    BY <2>1
<1>2. SymbolLen \in Nat \ {0} /\ idx \in Nat /\ a + 1 = idx - 1
  BY <1>1, AtSymbol, SMTT(30)
<1>3. PICK q0 \in Nat, r0 \in 0..SymbolLen - 1 : q0 = a \div SymbolLen /\ r0 = a % SymbolLen
  BY <1>2, DivMod
<1>4. (a + 1) \div SymbolLen = q /\ (a + 1) % SymbolLen = r
  BY <1>2, DivUnique
<1>5. \/ r0 < SymbolLen - 1 /\ q = q0 /\ r = r0 + 1
      \/ r0 = SymbolLen - 1 /\ q = q0 + 1 /\ r = 0
  BY <1>2, <1>3, <1>4, DivNext
<1>6. Looked(q0, r0)
  BY <1>1, <1>3 DEF ScanInv, Scan
<1>7. level.skew \in Nat /\ level.skew + 1 < SymbolLen
  BY ReadableMeans DEF Signal
<1>8. Late \in Nat /\ Late <= level.skew
  BY <1>7 DEF Late
<1>9. LastEdge \in Nat
  <2>1. Len(transitions) \in Nat
    BY DEF TypeInv, TypeOK
  <2>2. Len(transitions) \in 0..Len(transitions)
    BY <2>1
  <2>3. QED
    BY <2>2, EdgeNat DEF LastEdge
<1>10. CASE r0 < SymbolLen - 1
  <2>1. q = q0 /\ r = r0 + 1
    BY <1>5, <1>10
  <2>2. (idx - 1) % 2 = 0 => idx % 2 = 1
    BY <1>2
  <2>3. LastEdge <= q /\ Steady(LastEdge, q, currently_high)
    BY <1>6, <2>1 DEF Looked
  <2>4. CASE line[q + 1] = Sym(currently_high)
    <3>1. (q >= 1 /\ line[q] = 1 /\ line[q + 1] = 0) => r0 >= level.skew
      BY <1>6, <2>1, <2>4 DEF Looked
    <3>2. r0 >= level.skew => r >= level.skew
      BY <2>1, <1>7
    <3>3. QED
      BY <2>3, <2>4, <3>1, <3>2 DEF Ready
  <2>5. CASE line[q + 1] # Sym(currently_high)
    <3>1. /\ LastEdge < q
          /\ r0 < Late \/ (r0 = Late /\ Delay > level.skew /\ (idx - 1) % 2 = 0)
      BY <1>6, <2>1, <2>5 DEF Looked
    <3>2. r <= Late \/ (r = Late + 1 /\ Delay > level.skew /\ idx % 2 = 1)
      <4>1. r0 < Late => r <= Late
        BY <2>1, <1>8
      <4>2. r0 = Late => r = Late + 1
        BY <2>1
      <4>3. QED
        BY <3>1, <4>1, <4>2, <2>2
    <3>3. QED
      BY <2>3, <2>5, <3>1, <3>2 DEF Ready
  <2>6. QED
    BY <2>4, <2>5
<1>11. CASE r0 = SymbolLen - 1
  <2>1. q = q0 + 1 /\ r = 0 /\ q >= 1
    BY <1>5, <1>11, <1>2
  <2>2. ~(r0 < Late) /\ r0 # Late
    BY <1>2, <1>7, <1>8, <1>11
  <2>3. line[q] = Sym(currently_high) /\ LastEdge <= q0 /\ Steady(LastEdge, q0, currently_high)
    BY <1>6, <2>1, <2>2 DEF Looked
  <2>4. Steady(LastEdge, q, currently_high)
    <3>1. \A j \in LastEdge + 1..q : j \in LastEdge + 1..q0 \/ j = q
      BY <2>1, <1>9
    <3>2. QED
      BY <3>1, <2>3 DEF Steady
  <2>5. LastEdge < q /\ 0 <= Late
    BY <2>1, <2>3, <1>8, <1>9
  <2>6. Sym(currently_high) = 1 => Sym(currently_high) # 0
    OBVIOUS
  <2>7. CASE line[q + 1] = Sym(currently_high)
    BY <2>3, <2>4, <2>5, <2>6, <2>7, <1>9 DEF Ready
  <2>8. CASE line[q + 1] # Sym(currently_high)
    BY <2>1, <2>4, <2>5, <2>8, <1>9 DEF Ready
  <2>9. QED
    BY <2>7, <2>8
<1>12. QED
  BY <1>5, <1>10, <1>11

\* What the sample at idx makes of it.
LEMMA LooksOn ==
    ASSUME TypeInv, Signal, ThresholdsInv, EdgesInv, Scan,
           NEW q \in Nat, NEW r \in 0..SymbolLen - 1, idx - 1 = SymbolLen * q + r,
           Ready(q, r) \/ (idx = 1 /\ transitions = << >>)
    PROVE  EdgesInv' /\ Looked(q, r)'
<1>1. /\ idx \in Nat /\ SymbolLen \in Nat \ {0} /\ q < Len(line) /\ Len(line) \in Nat
      /\ \A j \in 1..Len(line) : line[j] \in {0, 1}
      /\ idx = SymbolLen * q + r + 1
  <2>1. (idx - 1) \div SymbolLen = q
    BY AtSymbol, DivUnique
  <2>2. /\ idx \in Nat /\ SymbolLen \in Nat \ {0} /\ q < Len(line) /\ Len(line) \in Nat
        /\ \A j \in 1..Len(line) : line[j] \in {0, 1}
    BY <2>1, AtSymbol
  <2>3. SymbolLen * q \in Nat
    BY <2>2
  <2>4. idx = SymbolLen * q + r + 1
    BY <2>2, <2>3
  <2>5. QED
    BY <2>2, <2>4
<1>2. /\ level.skew \in Nat /\ level.skew < SymbolLen /\ Delay \in Nat
      /\ level.skew <= Delay
  BY ReadableMeans DEF Signal
<1>3. High(idx) <=> line[q + 1] = 1 \/ (q >= 1 /\ r < level.skew /\ line[q] = 1)
  BY <1>1, <1>2, HighIs
<1>4. /\ High(idx) = currently_high => ~Crosses(data[idx])
      /\ (High(idx) # currently_high /\ (idx % 2 = 1 \/ Delay = level.skew)) => Crosses(data[idx])
  BY WhoCrosses
<1>5. High(idx) \in BOOLEAN /\ currently_high \in BOOLEAN
  BY DEF High, TypeInv, TypeOK
<1>6. line[q + 1] \in {0, 1} /\ (q >= 1 => line[q] \in {0, 1})
  <2>1. q + 1 \in 1..Len(line) /\ (q >= 1 => q \in 1..Len(line))
    BY <1>1
  <2>2. QED
    BY <2>1, <1>1
<1>7. LastEdge \in Nat /\ Late \in Nat /\ Late <= level.skew
  <2>1. Len(transitions) \in Nat
    BY DEF TypeInv, TypeOK
  <2>2. Len(transitions) \in 0..Len(transitions)
    BY <2>1
  <2>3. LastEdge \in Nat
    BY <2>2, EdgeNat DEF LastEdge
  <2>4. QED
    BY <2>3, <1>2 DEF Late
<1>8. line' = line /\ level' = level /\ idx' = idx + 1 /\ Delay' = Delay
  BY DEF Scan, signalVars, Delay, Fifth
<1>9. idx = 1 => q = 0 /\ r = 0
  <2>1. idx = 1 => SymbolLen * q + r = 0
    BY <1>1
  <2>2. q >= 1 => SymbolLen * q >= 1
    BY <1>1
  <2>3. SymbolLen * q \in Nat /\ r \in Nat
    BY <1>1
  <2>4. QED
    BY <2>1, <2>2, <2>3
<1>10. ASSUME ~Crosses(data[idx])
       PROVE  /\ currently_high' = currently_high /\ transitions' = transitions
              /\ EdgesInv' /\ LastEdge' = LastEdge /\ Late' = Late
              /\ Steady(LastEdge, q, currently_high) => Steady(LastEdge, q, currently_high)'
  <2>1. currently_high' = currently_high /\ transitions' = transitions
    BY <1>10 DEF Scan
  <2>2. LastEdge' = LastEdge /\ Late' = Late
    BY <2>1, <1>8 DEF LastEdge, Edge, Late
  <2>3. EdgesInv'
    BY <2>1, <1>8 DEF EdgesInv, EdgeOk, Edge, Steady
  <2>4. Steady(LastEdge, q, currently_high) => Steady(LastEdge, q, currently_high)'
    BY <2>1, <2>2, <1>8 DEF Steady
  <2>5. QED
    BY <2>1, <2>2, <2>3, <2>4
<1>11. ASSUME Crosses(data[idx]), r <= Delay, Steady(LastEdge, q, currently_high),
              LastEdge < q \/ transitions = << >>, line[q + 1] # Sym(currently_high),
              (q >= 1 /\ line[q] = 1 /\ line[q + 1] = 0) => r >= level.skew
       PROVE  EdgesInv' /\ Looked(q, r)'
  <2>1. EdgesInv' /\ LastEdge' = q
    BY <1>11, EdgeFound
  <2>2. currently_high' = ~currently_high
    BY <1>11 DEF Scan
  <2>3. Steady(LastEdge, q, currently_high)'
    BY <2>1 DEF Steady
  <2>4. line'[q + 1] = Sym(currently_high')
    BY <1>5, <1>6, <1>8, <1>11, <2>2 DEF Sym
  <2>5. (q >= 1 /\ line'[q] = 1 /\ line'[q + 1] = 0) => r >= level'.skew
    BY <1>8, <1>11
  <2>6. LastEdge' <= q
    BY <2>1
  <2>7. QED
    BY <2>1, <2>3, <2>4, <2>5, <2>6 DEF Looked
<1>12. ASSUME ~Crosses(data[idx]), LastEdge <= q, Steady(LastEdge, q, currently_high),
              line[q + 1] = Sym(currently_high),
              (q >= 1 /\ line[q] = 1 /\ line[q + 1] = 0) => r >= level.skew
       PROVE  EdgesInv' /\ Looked(q, r)'
  <2>1. line'[q + 1] = Sym(currently_high') /\ LastEdge' <= q
    BY <1>8, <1>10, <1>12
  <2>2. (q >= 1 /\ line'[q] = 1 /\ line'[q + 1] = 0) => r >= level'.skew
    BY <1>8, <1>12
  <2>3. EdgesInv' /\ Steady(LastEdge, q, currently_high)'
    BY <1>10, <1>12
  <2>4. QED
    BY <2>1, <2>2, <2>3 DEF Looked
<1>13. CASE idx = 1 /\ transitions = << >>
  <2>1. q = 0 /\ r = 0 /\ LastEdge = 0
    BY <1>9, <1>13 DEF LastEdge, Edge
  <2>2. Steady(LastEdge, q, currently_high)
    BY <2>1 DEF Steady
  <2>3. High(idx) <=> line[q + 1] = 1
    BY <1>3, <2>1
  <2>4. idx % 2 = 1 /\ r <= Delay /\ ~(q >= 1) /\ LastEdge <= q
    BY <1>2, <1>13, <2>1
  <2>5. CASE line[q + 1] = Sym(currently_high)
    <3>1. High(idx) = currently_high
      BY <1>5, <2>3, <2>5 DEF Sym
    <3>2. QED
      BY <3>1, <1>4, <1>12, <2>2, <2>4, <2>5
  <2>6. CASE line[q + 1] # Sym(currently_high)
    <3>1. High(idx) # currently_high
      BY <1>5, <1>6, <2>3, <2>6 DEF Sym
    <3>2. QED
      BY <3>1, <1>4, <1>11, <1>13, <2>2, <2>4, <2>6
  <2>7. QED
    BY <2>5, <2>6
<1>14. CASE Ready(q, r)
  <2>1. LastEdge <= q /\ Steady(LastEdge, q, currently_high)
    BY <1>14 DEF Ready
  <2>2. CASE line[q + 1] = Sym(currently_high)
    <3>1. (q >= 1 /\ line[q] = 1 /\ line[q + 1] = 0) => r >= level.skew
      BY <1>14, <2>2 DEF Ready
    <3>2. High(idx) = currently_high
      <4>1. CASE currently_high
        BY <4>1, <2>2, <1>3, <1>5 DEF Sym
      <4>2. CASE ~currently_high
        <5>1. line[q + 1] = 0
          BY <4>2, <2>2 DEF Sym
        <5>2. ~High(idx)
          BY <5>1, <3>1, <1>2, <1>3
        <5>3. QED
          BY <5>2, <4>2, <1>5
      <4>3. QED
        BY <4>1, <4>2
    <3>3. QED
      BY <3>1, <3>2, <1>4, <1>12, <2>1, <2>2
  <2>3. CASE line[q + 1] # Sym(currently_high)
    <3>1. /\ LastEdge < q
          /\ r <= Late \/ (r = Late + 1 /\ Delay > level.skew /\ idx % 2 = 1)
      BY <1>14, <2>3 DEF Ready
    <3>2. q >= 1 /\ line[q] = Sym(currently_high)
      <4>1. q >= 1 /\ q \in LastEdge + 1..q
        BY <3>1, <1>7
      <4>2. QED
        BY <4>1, <2>1 DEF Steady
    <3>3. High(idx) = currently_high <=> r < Late
      <4>1. CASE currently_high
        <5>1. line[q + 1] # 1 /\ line[q] = 1 /\ Late = level.skew
          BY <4>1, <2>3, <3>2 DEF Sym, Late
        <5>2. High(idx) <=> r < level.skew
          BY <5>1, <3>2, <1>3
        <5>3. QED
          BY <4>1, <5>1, <5>2, <1>5
      <4>2. CASE ~currently_high
        <5>1. line[q + 1] = 1 /\ Late = 0
          BY <4>2, <2>3, <1>6 DEF Sym, Late
        <5>2. High(idx) /\ ~(r < Late)
          BY <5>1, <1>3
        <5>3. QED
          BY <4>2, <5>2, <1>5
      <4>3. QED
        BY <4>1, <4>2
    <3>4. CASE r < Late
      <4>1. ~Crosses(data[idx])
        BY <3>3, <3>4, <1>4
      <4>2. line'[q + 1] # Sym(currently_high') /\ LastEdge' < q /\ r < Late' /\ LastEdge' <= q
        BY <4>1, <1>8, <1>10, <2>1, <2>3, <3>1, <3>4
      <4>3. EdgesInv' /\ Steady(LastEdge, q, currently_high)'
        BY <4>1, <1>10, <2>1
      <4>4. QED
        BY <4>2, <4>3 DEF Looked
    <3>5. CASE ~(r < Late) /\ Crosses(data[idx])
      <4>1. r <= Delay
        BY <3>1, <1>2, <1>7
      <4>2. (q >= 1 /\ line[q] = 1 /\ line[q + 1] = 0) => r >= level.skew
        <5>1. line[q] = 1 => Late = level.skew
          BY <3>2 DEF Sym, Late
        <5>2. QED
          BY <5>1, <3>5, <1>2, <1>7
      <4>3. QED
        BY <3>5, <3>1, <4>1, <4>2, <1>11, <2>1, <2>3
    <3>6. CASE ~(r < Late) /\ ~Crosses(data[idx])
      <4>1. High(idx) # currently_high
        BY <3>6, <3>3
      <4>2. idx % 2 # 1 /\ Delay # level.skew
        BY <3>6, <4>1, <1>4
      <4>3. r = Late /\ Delay > level.skew /\ (idx' - 1) % 2 = 0
        <5>1. Delay > level.skew
          BY <4>2, <1>2
        <5>2. r = Late
          BY <3>1, <3>6, <4>2, <1>7
        <5>3. idx' - 1 = idx /\ idx % 2 = 0
          BY <4>2, <1>1, <1>8
        <5>4. QED
          BY <5>1, <5>2, <5>3
      <4>4. /\ line'[q + 1] # Sym(currently_high') /\ LastEdge' < q /\ LastEdge' <= q
            /\ r = Late' /\ Delay' > level'.skew
        BY <3>6, <4>3, <1>8, <1>10, <2>1, <2>3, <3>1
      <4>5. EdgesInv' /\ Steady(LastEdge, q, currently_high)'
        BY <3>6, <1>10, <2>1
      <4>6. QED
        BY <4>3, <4>4, <4>5 DEF Looked
    <3>7. QED
      BY <3>4, <3>5, <3>6
  <2>4. QED
    BY <2>2, <2>3
<1>15. QED
  BY <1>13, <1>14

LEMMA SignalSame ==
    ASSUME UNCHANGED signalVars
    PROVE  Signal' = Signal /\ Fifth' = Fifth /\ Delay' = Delay
<1>1. sent' = sent /\ line' = line /\ level' = level /\ data' = data
      /\ overflow_checks' = overflow_checks
  BY DEF signalVars
<1>2. QED
  BY <1>1 DEF Signal, Readable, Fifth, Delay

LEMMA ScanStep ==
    ASSUME TypeInv, ThresholdsInv, ScanInv, [Next]_vars
    PROVE  ThresholdsInv' /\ ScanInv'
<1>1. CASE Measure
  <2>1. Signal' = Signal /\ Fifth' = Fifth
    BY <1>1, SignalSame DEF Measure
  <2>2. level' = level /\ pc = "measure" /\ idx' = idx /\ transitions' = transitions
    BY <1>1 DEF Measure, signalVars
  <2>3. idx' = 1 /\ transitions' = << >>
    BY <2>2 DEF TypeInv, FreshInv
  <2>4. EdgesInv'
    BY <2>3 DEF EdgesInv
  <2>5. ThresholdsInv'
    BY <1>1, <2>1, <2>2, Thresholds DEF ThresholdsInv
  <2>6. QED
    BY <2>3, <2>4, <2>5 DEF ScanInv
<1>2. CASE Scan
  <2>1. Signal' = Signal /\ Fifth' = Fifth
    BY <1>2, SignalSame DEF Scan
  <2>2. /\ level' = level /\ pc = "scan" /\ pc' = pc /\ lo_thres' = lo_thres /\ hi_thres' = hi_thres
        /\ idx' = idx + 1
    BY <1>2 DEF Scan, signalVars
  <2>3. ThresholdsInv'
    BY <2>1, <2>2 DEF ThresholdsInv
  <2>4. ASSUME Signal PROVE ScanInv'
    <3>1. idx \in Nat /\ idx - 1 \in Nat /\ SymbolLen \in Nat \ {0}
      BY <1>2, <2>4, AtSymbol
    <3>2. PICK q \in Nat, r \in 0..SymbolLen - 1 :
              q = (idx - 1) \div SymbolLen /\ r = (idx - 1) % SymbolLen
                 /\ idx - 1 = SymbolLen * q + r
      BY <3>1, DivMod
    <3>3. EdgesInv /\ (idx = 1 => transitions = << >>)
      BY <2>2, <2>4 DEF ScanInv
    <3>4. idx > 1 => Ready(q, r)
      BY <1>2, <2>4, <3>2, GetsReady
    <3>5. Ready(q, r) \/ (idx = 1 /\ transitions = << >>)
      <4>1. idx = 1 \/ idx > 1
        BY <3>1
      <4>2. QED
        BY <4>1, <3>3, <3>4
    <3>6. EdgesInv' /\ Looked(q, r)'
      BY <1>2, <2>4, <3>2, <3>3, <3>5, LooksOn
    <3>7. idx' - 2 = idx - 1 /\ idx' # 1
      BY <2>2, <3>1
    <3>8. (idx' - 2) \div SymbolLen = q /\ (idx' - 2) % SymbolLen = r
      BY <3>2, <3>7
    <3>9. Looked((idx - 2) \div SymbolLen, (idx - 2) % SymbolLen)'
      BY <3>6, <3>8 DEF Looked
    <3>10. QED
      BY <3>6, <3>7, <3>9 DEF ScanInv
  <2>5. QED
    BY <2>1, <2>3, <2>4 DEF ScanInv
<1>3. CASE UNCHANGED vars
  <2>1. UNCHANGED signalVars /\ UNCHANGED scanVars /\ pc' = pc /\ level' = level /\ line' = line
    BY <1>3 DEF vars, signalVars
  <2>2. /\ lo_thres' = lo_thres /\ hi_thres' = hi_thres /\ idx' = idx
        /\ currently_high' = currently_high /\ transitions' = transitions
    BY <2>1 DEF scanVars
  <2>3. Signal' = Signal /\ Fifth' = Fifth /\ Delay' = Delay
    BY <2>1, SignalSame
  <2>4. ThresholdsInv'
    BY <2>1, <2>2, <2>3 DEF ThresholdsInv
  <2>5. ScanInv'
    BY <2>1, <2>2, <2>3
       DEF ScanInv, EdgesInv, EdgeOk, Edge, LastEdge, Steady, Looked, Late
  <2>6. QED
    BY <2>4, <2>5
<1>4. CASE Next /\ ~Measure /\ ~Scan
  <2>1. pc' # "scan"
    BY <1>4 DEF Next, Decode, SendFrame, Capture, MeasureFails, ToPulses, Search, StartBit,
                StartBitFails, StopBit, StopBitFails, EmptyPulse, DataBit, LastDataBit,
                DataBitFails, Done, Ends, AtPulse, InFrame, TypeInv, TypeOK
  <2>2. QED
    BY <2>1 DEF ThresholdsInv, ScanInv
<1>5. QED
  BY <1>1, <1>2, <1>3, <1>4

-----------------------------------------------------------------------------
(* The pulses *)

\* Every transition of the line has been found.
Found ==
    /\ EdgesInv
    /\ LastEdge < Len(line)
    /\ Steady(LastEdge, Len(line), currently_high)

FoundInv == pc \in {"search", "decode"} /\ Signal => Found

\* The transitions that the consumed pulses ended with.
Taken == Len(transitions) - Len(pulses)

At(i) == IF i = 0 THEN 0 ELSE transitions[i].at

PulseOf(i) == [len |-> At(i) - At(i - 1), logic |-> transitions[i].was]

PulsesInv ==
    pc \in {"search", "decode"} =>
        /\ Len(pulses) <= Len(transitions)
        /\ \A i \in 1..Len(pulses) : pulses[i] = PulseOf(Taken + i)

LEMMA GetsFound ==
    ASSUME TypeInv, Signal, ScanInv, ToPulses
    PROVE  Found
<1>1. /\ SymbolLen \in Nat \ {0} /\ Len(line) \in Nat /\ level.skew \in Nat
      /\ level.skew + 1 < SymbolLen
  BY ReadableMeans, ConstantsAssumption DEF Signal, TypeInv, LineInv
<1>2. Len(data) = SymbolLen * Len(line) /\ Len(data) \in Nat \ {0} /\ idx = Len(data) + 1
  <2>1. data = Samples /\ level \in Levels /\ line \in Seq({0, 1})
    BY DEF TypeInv, FreshInv, LineInv, Signal
  <2>2. Len(data) = SymbolLen * Len(line)
    BY <2>1, SamplesType
  <2>3. data \in Seq(Int8) /\ data # << >> /\ idx \in 1..Len(data) + 1 /\ idx > Len(data)
    BY DEF TypeInv, TypeOK, ToPulses, Signal
  <2>4. Len(data) \in Nat \ {0}
    BY <2>3, EmptySeq
  <2>5. QED
    BY <2>2, <2>3, <2>4
<1>3. PICK q \in Nat : Len(line) = q + 1
  <2>1. Len(line) # 0
    BY <1>1, <1>2
  <2>2. Len(line) - 1 \in Nat /\ Len(line) = (Len(line) - 1) + 1
    BY <1>1, <2>1
  <2>3. QED
    BY <2>2
<1>4. PICK r \in 0..SymbolLen - 1 : r = SymbolLen - 1
  BY <1>1
<1>5. idx - 2 = SymbolLen * q + r
  BY <1>1, <1>2, <1>3, <1>4
<1>6. (idx - 2) \div SymbolLen = q /\ (idx - 2) % SymbolLen = r
  BY <1>1, <1>5, DivUnique
<1>7. EdgesInv /\ Looked(q, r)
  <2>1. idx > 1 /\ pc = "scan"
    BY <1>2 DEF ToPulses
  <2>2. QED
    BY <1>6, <2>1 DEF ScanInv
<1>8. Late \in Nat /\ Late <= level.skew
  BY <1>1 DEF Late
<1>9. ~(r < Late) /\ r # Late
  BY <1>1, <1>4, <1>8
<1>10. LastEdge <= q /\ Steady(LastEdge, q, currently_high) /\ line[q + 1] = Sym(currently_high)
  BY <1>7, <1>9 DEF Looked
<1>11. LastEdge \in Nat
  <2>1. Len(transitions) \in 0..Len(transitions)
    BY TransitionAt
  <2>2. QED
    BY <2>1, EdgeNat DEF LastEdge
<1>12. Steady(LastEdge, Len(line), currently_high)
  <2>1. \A j \in LastEdge + 1..q + 1 : j \in LastEdge + 1..q \/ j = q + 1
    BY <1>11
  <2>2. QED
    BY <2>1, <1>3, <1>10 DEF Steady
<1>13. LastEdge < Len(line)
  BY <1>3, <1>10, <1>11
<1>14. QED
  BY <1>7, <1>12, <1>13 DEF Found

\* Steps after the scan leave what was found.
LEMMA FoundSame ==
    ASSUME UNCHANGED signalVars, UNCHANGED scanVars
    PROVE  Found' = Found /\ Signal' = Signal /\ line' = line /\ transitions' = transitions
<1>1. line' = line /\ level' = level /\ transitions' = transitions
      /\ currently_high' = currently_high
  BY DEF signalVars, scanVars
<1>2. Signal' = Signal /\ Delay' = Delay
  BY SignalSame
<1>3. LastEdge' = LastEdge
  BY <1>1 DEF LastEdge, Edge
<1>4. Steady(LastEdge, Len(line), currently_high)' = Steady(LastEdge, Len(line), currently_high)
  BY <1>1, <1>3 DEF Steady
<1>5. EdgesInv' = EdgesInv
  BY <1>1, <1>2 DEF EdgesInv, EdgeOk, Edge, Steady
<1>6. QED
  BY <1>1, <1>2, <1>3, <1>4, <1>5 DEF Found

LEMMA PulsesStart ==
    ASSUME TypeInv, ToPulses
    PROVE  PulsesInv' /\ Taken' = 0
<1>1. transitions \in Seq(Transition) /\ transitions' = transitions /\ Len(transitions) \in Nat
  BY DEF TypeInv, TypeOK, ToPulses, scanVars
<1>2. DOMAIN transitions = 1..Len(transitions)
  BY <1>1
<1>3. pulses' = [i \in 1..Len(transitions) |->
          [len   |-> transitions[i].at - (IF i = 1 THEN 0 ELSE transitions[i-1].at),
           logic |-> transitions[i].was]]
  BY <1>2 DEF ToPulses
<1>4. Len(pulses') = Len(transitions)
  <2>1. pulses' \in Seq(Pulse)
    BY TypeToPulses DEF TypeInv, TypeOK
  <2>2. DOMAIN pulses' = 1..Len(transitions)
    BY <1>3
  <2>3. QED
    BY <1>1, <2>1, <2>2
<1>5. ASSUME NEW i \in 1..Len(transitions)
      PROVE  pulses'[i] = PulseOf(i)'
  <2>1. i - 1 = 0 <=> i = 1
    OBVIOUS
  <2>2. i # 0
    OBVIOUS
  <2>3. pulses'[i] = [len   |-> transitions[i].at - (IF i = 1 THEN 0 ELSE transitions[i-1].at),
                      logic |-> transitions[i].was]
    BY <1>3
  <2>4. QED
    BY <1>1, <2>1, <2>2, <2>3, Zenon DEF PulseOf, At
<1>6. Taken' = 0
  BY <1>1, <1>4 DEF Taken
<1>7. ASSUME NEW i \in 1..Len(transitions)
      PROVE  PulseOf(Taken + i)' = PulseOf(i)'
  <2>1. Taken' + i = i
    BY <1>6
  <2>2. QED
    BY <2>1 DEF PulseOf, At
<1>8. QED
  BY <1>1, <1>4, <1>5, <1>6, <1>7 DEF PulsesInv

LEMMA PulsesGoOn ==
    ASSUME TypeInv, PulsesInv, pc \in {"search", "decode"}, UNCHANGED scanVars,
           pulses' = pulses \/ (pulses # << >> /\ pulses' = Tail(pulses))
    PROVE  /\ PulsesInv'
           /\ pulses' = pulses => Taken' = Taken
           /\ pulses' # pulses => Taken' = Taken + 1
           /\ Taken \in Nat /\ Taken' \in Nat
<1>1. /\ pulses \in Seq(Pulse) /\ transitions' = transitions
      /\ Len(pulses) \in Nat /\ Len(transitions) \in Nat
  BY DEF TypeInv, TypeOK, scanVars
<1>2. /\ Len(pulses) <= Len(transitions)
      /\ \A i \in 1..Len(pulses) : pulses[i] = PulseOf(Taken + i)
  BY DEF PulsesInv
<1>3. Taken \in Nat
  BY <1>1, <1>2 DEF Taken
<1>4. CASE pulses' = pulses
  <2>1. Taken' = Taken
    BY <1>1, <1>4 DEF Taken
  <2>2. ASSUME NEW i \in 1..Len(pulses) PROVE PulseOf(Taken + i)' = PulseOf(Taken + i)
    BY <1>1, <2>1 DEF PulseOf, At
  <2>3. PulsesInv'
    BY <1>1, <1>2, <1>4, <2>2 DEF PulsesInv
  <2>4. QED
    BY <1>3, <1>4, <2>1, <2>3
<1>5. CASE pulses # << >> /\ pulses' = Tail(pulses)
  <2>1. /\ Len(pulses) \in Nat \ {0} /\ Len(pulses') = Len(pulses) - 1
        /\ \A i \in 1..Len(pulses) - 1 : pulses'[i] = pulses[i + 1]
    BY <1>1, <1>5, Shortened
  <2>2. Taken' = Taken + 1
    BY <1>1, <2>1 DEF Taken
  <2>3. ASSUME NEW i \in 1..Len(pulses) - 1 PROVE pulses'[i] = PulseOf(Taken + i)'
    <3>1. i + 1 \in 1..Len(pulses) /\ Taken' + i = Taken + (i + 1)
      BY <2>1, <2>2, <1>3
    <3>2. pulses'[i] = PulseOf(Taken + (i + 1))
      BY <3>1, <2>1, <1>2
    <3>3. PulseOf(Taken + i)' = PulseOf(Taken + (i + 1))
      BY <3>1, <1>1 DEF PulseOf, At
    <3>4. QED
      BY <3>2, <3>3
  <2>4. Len(pulses') <= Len(transitions')
    BY <1>1, <1>2, <2>1
  <2>5. PulsesInv'
    BY <2>1, <2>3, <2>4 DEF PulsesInv
  <2>6. pulses' # pulses
    BY <1>1, <2>1
  <2>7. QED
    BY <1>3, <2>2, <2>5, <2>6
<1>6. QED
  BY <1>4, <1>5

\* The samples between two transitions, which are both late by less than half a symbol,
\* round to the symbols between them.
LEMMA Rounds ==
    ASSUME NEW S \in Nat \ {0}, NEW D \in Nat, 2 * D < S,
           NEW q1 \in Nat, NEW q2 \in Nat, q1 <= q2,
           NEW r1 \in 0..D, NEW r2 \in 0..D
    PROVE  (2 * ((S * q2 + r2) - (S * q1 + r1)) + S) \div (2 * S) = q2 - q1
<1>1. PICK k \in Nat : q2 = q1 + k
  <2>1. q2 - q1 \in Nat /\ q2 = q1 + (q2 - q1)
    OBVIOUS
  <2>2. QED
    BY <2>1
<1>2. S * q2 = S * q1 + S * k /\ S * q1 \in Nat /\ S * k \in Nat
  BY <1>1
<1>3. PICK r \in 0..2 * S - 1 : r = 2 * r2 - 2 * r1 + S
  <2>1. 2 * r2 - 2 * r1 + S \in 0..2 * S - 1
    OBVIOUS
  <2>2. QED
    BY <2>1
<1>4. 2 * (S * k) = (2 * S) * k
  OBVIOUS
<1>5. 2 * ((S * q2 + r2) - (S * q1 + r1)) + S = (2 * S) * k + r
  BY <1>2, <1>3, <1>4
<1>6. ((2 * S) * k + r) \div (2 * S) = k
  <2>1. 2 * S \in Nat \ {0}
    OBVIOUS
  <2>2. QED
    BY <2>1, DivUnique
<1>7. q2 - q1 = k
  BY <1>1
<1>8. QED
  BY <1>5, <1>6, <1>7

\* Where a transition is.
LEMMA AtEdge ==
    ASSUME TypeInv, Signal, EdgesInv, NEW i \in 0..Len(transitions)
    PROVE  /\ Edge(i) \in Nat
           /\ \E r \in 0..Delay : At(i) = SymbolLen * Edge(i) + r
<1>1. Edge(i) \in Nat
  BY EdgeNat
<1>2. Delay \in Nat /\ SymbolLen \in Nat \ {0}
  BY ReadableMeans, ConstantsAssumption DEF Signal
<1>3. CASE i = 0
  <2>1. At(i) = SymbolLen * Edge(i) + 0 /\ 0 \in 0..Delay
    BY <1>2, <1>3 DEF At, Edge
  <2>2. QED
    BY <1>1, <2>1
<1>4. CASE i # 0
  <2>1. i \in 1..Len(transitions)
    BY <1>4, TransitionAt
  <2>2. transitions[i].at \in Nat /\ transitions[i].at % SymbolLen <= Delay
    BY <2>1, TransitionAt DEF EdgesInv, EdgeOk
  <2>3. At(i) = transitions[i].at /\ Edge(i) = transitions[i].at \div SymbolLen
    BY <1>4 DEF At, Edge
  <2>4. /\ transitions[i].at % SymbolLen \in 0..SymbolLen - 1
        /\ transitions[i].at = SymbolLen * (transitions[i].at \div SymbolLen) + (transitions[i].at % SymbolLen)
    BY <1>2, <2>2, DivMod
  <2>5. transitions[i].at % SymbolLen \in 0..Delay
    BY <2>2, <2>4, <1>2
  <2>6. At(i) = SymbolLen * Edge(i) + (transitions[i].at % SymbolLen)
    BY <2>3, <2>4
  <2>7. QED
    BY <1>1, <2>5, <2>6
<1>5. QED
  BY <1>3, <1>4

\* The pulse that comes next: how long it is, what it covers of the line, and that the
\* symbol after it is another.
LEMMA NextPulse ==
    ASSUME TypeInv, Signal, Found, PulsesInv, pc \in {"search", "decode"}, pulses # << >>
    PROVE  /\ Taken \in Nat /\ Taken + 1 \in 1..Len(transitions)
           /\ Edge(Taken) \in Nat /\ Edge(Taken + 1) \in Nat
           /\ Edge(Taken) <= Edge(Taken + 1) /\ Edge(Taken + 1) < Len(line)
           /\ Taken > 0 => Edge(Taken) < Edge(Taken + 1)
           /\ logic \in BOOLEAN /\ logic = transitions[Taken + 1].was
           /\ Steady(Edge(Taken), Edge(Taken + 1), logic)
           /\ line[Edge(Taken + 1) + 1] = Sym(~logic)
           /\ PulseLen = Edge(Taken + 1) - Edge(Taken)
           /\ \E r1, r2 \in 0..Delay :
                Head(pulses).len = (SymbolLen * Edge(Taken + 1) + r2) - (SymbolLen * Edge(Taken) + r1)
<1>1. /\ pulses \in Seq(Pulse) /\ Len(pulses) \in Nat \ {0} /\ Head(pulses) = pulses[1]
      /\ Len(transitions) \in Nat
  BY Shortened DEF TypeInv, TypeOK
<1>2. Len(pulses) <= Len(transitions) /\ pulses[1] = PulseOf(Taken + 1)
  BY <1>1 DEF PulsesInv
<1>3. Taken \in Nat /\ Taken + 1 \in 1..Len(transitions)
  BY <1>1, <1>2 DEF Taken
<1>4. PICK m \in Nat : m = Taken
  BY <1>3
<1>5. /\ m + 1 \in 1..Len(transitions) /\ m + 1 \in 0..Len(transitions) /\ m \in 0..Len(transitions)
      /\ (m + 1) - 1 = m /\ m + 1 # 0
  BY <1>1, <1>3, <1>4
<1>6. EdgeOk(m + 1) /\ EdgesInv
  BY <1>5 DEF Found, EdgesInv
<1>7. Edge(m) \in Nat /\ Edge(m + 1) \in Nat
  BY <1>5, EdgeNat
<1>8. logic = transitions[m + 1].was /\ Head(pulses).len = At(m + 1) - At(m)
  BY <1>1, <1>2, <1>4, <1>5 DEF logic, PulseOf
<1>9. logic \in BOOLEAN
  BY <1>5, <1>8, TransitionAt
<1>10. Steady(Edge(m), Edge(m + 1), logic) /\ (m + 1 > 1 => Edge(m) < Edge(m + 1))
  BY <1>5, <1>6, <1>8 DEF EdgeOk
<1>11. m > 0 => Edge(m) < Edge(m + 1)
  <2>1. m > 0 => m + 1 > 1
    OBVIOUS
  <2>2. QED
    BY <2>1, <1>10
<1>12. Edge(m) <= Edge(m + 1)
  <2>1. m = 0 => Edge(m) = 0
    BY DEF Edge
  <2>2. QED
    BY <2>1, <1>7, <1>11
<1>13. Edge(m + 1) < Len(line) /\ line[Edge(m + 1) + 1] = Sym(~logic)
  <2>1. CASE m + 1 = Len(transitions)
    <3>1. LastEdge = Edge(m + 1)
      BY <2>1 DEF LastEdge
    <3>2. LastEdge < Len(line) /\ Steady(LastEdge, Len(line), currently_high)
      BY DEF Found
    <3>3. currently_high = ~transitions[Len(transitions)].was
      BY <1>6, <1>5, <1>1, <2>1 DEF EdgesInv
    <3>4. currently_high = ~logic
      BY <3>3, <2>1, <1>8
    <3>5. LastEdge \in Nat /\ Len(line) \in Nat
      BY <3>1, <1>7 DEF TypeInv, LineInv
    <3>6. LastEdge + 1 \in LastEdge + 1..Len(line)
      BY <3>2, <3>5
    <3>7. line[LastEdge + 1] = Sym(currently_high)
      BY <3>2, <3>6 DEF Steady
    <3>8. QED
      BY <3>1, <3>2, <3>4, <3>7
  <2>2. CASE m + 1 # Len(transitions)
    <3>1. PICK k \in Nat : k = m + 1
      OBVIOUS
    <3>2. k + 1 \in 1..Len(transitions) /\ k + 1 \in 0..Len(transitions) /\ (k + 1) - 1 = k /\ k + 1 > 1
      BY <3>1, <2>2, <1>1, <1>5
    <3>3. EdgeOk(k + 1)
      BY <3>2, <1>6 DEF EdgesInv
    <3>4. /\ Edge(k) < Edge(k + 1) /\ transitions[k + 1].was = ~transitions[k].was
          /\ Steady(Edge(k), Edge(k + 1), transitions[k + 1].was)
      BY <3>2, <3>3 DEF EdgeOk
    <3>5. Edge(k) \in Nat /\ Edge(k + 1) \in Nat
      BY <1>7, <3>1, <3>2, EdgeNat
    <3>6. Edge(k) + 1 \in Edge(k) + 1..Edge(k + 1)
      BY <3>4, <3>5
    <3>7. line[Edge(k) + 1] = Sym(transitions[k + 1].was)
      BY <3>4, <3>6 DEF Steady
    <3>8. line[Edge(k) + 1] = Sym(~logic)
      BY <3>1, <3>4, <3>7, <1>8
    <3>9. Edge(k) < Len(line)
      <4>1. /\ SymbolLen \in Nat \ {0} /\ Len(line) \in Nat /\ Len(data) = SymbolLen * Len(line)
        <5>1. data = Samples /\ level \in Levels /\ line \in Seq({0, 1}) /\ Len(line) \in Nat
          BY DEF TypeInv, FreshInv, LineInv, Signal
        <5>2. Len(data) = SymbolLen * Len(line)
          BY <5>1, SamplesType
        <5>3. QED
          BY <5>1, <5>2, ConstantsAssumption
      <4>2. transitions[k].at \in Nat /\ transitions[k].at + 1 < idx
        BY <3>1, <1>5, TransitionAt
      <4>3. idx \in 1..Len(data) + 1
        BY DEF TypeInv, TypeOK
      <4>4. transitions[k].at < SymbolLen * Len(line)
        <5>1. SymbolLen * Len(line) \in Nat
          BY <4>1
        <5>2. QED
          BY <4>1, <4>2, <4>3, <5>1
      <4>5. transitions[k].at \div SymbolLen < Len(line)
        BY <4>1, <4>2, <4>4, DivBound
      <4>6. QED
        BY <4>5, <3>1, <1>5 DEF Edge
    <3>10. QED
      BY <3>1, <3>8, <3>9
  <2>3. QED
    BY <2>1, <2>2
<1>14. PICK r1 \in 0..Delay : At(m) = SymbolLen * Edge(m) + r1
  BY <1>5, <1>6, AtEdge
<1>15. PICK r2 \in 0..Delay : At(m + 1) = SymbolLen * Edge(m + 1) + r2
  BY <1>5, <1>6, AtEdge
<1>16. Head(pulses).len = (SymbolLen * Edge(m + 1) + r2) - (SymbolLen * Edge(m) + r1)
  BY <1>8, <1>14, <1>15
<1>17. PulseLen = Edge(m + 1) - Edge(m)
  <2>1. SymbolLen \in Nat \ {0} /\ Delay \in Nat /\ 2 * Delay < SymbolLen
    BY ReadableMeans, ConstantsAssumption DEF Signal
  <2>2. (2 * ((SymbolLen * Edge(m + 1) + r2) - (SymbolLen * Edge(m) + r1)) + SymbolLen) \div (2 * SymbolLen)
           = Edge(m + 1) - Edge(m)
    <3>1. PICK S \in Nat \ {0}, D \in Nat, e1 \in Nat, e2 \in Nat :
              S = SymbolLen /\ D = Delay /\ e1 = Edge(m) /\ e2 = Edge(m + 1)
      BY <2>1, <1>7
    <3>2. 2 * D < S /\ e1 <= e2 /\ r1 \in 0..D /\ r2 \in 0..D
      BY <3>1, <2>1, <1>12
    <3>3. (2 * ((S * e2 + r2) - (S * e1 + r1)) + S) \div (2 * S) = e2 - e1
      BY <3>2, Rounds
    <3>4. QED
      BY <3>1, <3>3, Zenon
  <2>3. QED
    BY <2>2, <1>16 DEF PulseLen
<1>18. QED
  BY <1>3, <1>4, <1>7, <1>8, <1>9, <1>10, <1>11, <1>12, <1>13, <1>16, <1>17

-----------------------------------------------------------------------------
(* The search for the rest *)

\* Where the frames of the capture begin, and the last one ends.
PlacesOf(frames, symbols) ==
    CHOOSE st \in Seq(Nat) : \E lead \in Leads : LaidOut(frames, symbols, lead, st)

Places == PlacesOf(sent, line)

\* The search has not passed the end of the rest.
SearchInv == pc = "search" /\ Signal => Edge(Taken) < Places[1]

LEMMA PlacesAre ==
    ASSUME TypeInv, data # << >>
    PROVE  /\ Frames \in Nat \ {0} /\ Len(line) \in Nat
           /\ \E e \in Nat : e < 10 /\ Places[1] = e + 12 /\ \A j \in 1..12 : line[e + j] = 1
           /\ Places[Frames + 1] = Len(line)
           /\ \A k \in 1..Frames :
                 /\ sent[k].idle \in Nat /\ sent[k].byte \in UInt8 /\ sent[k].stop \in {0, 1}
                 /\ Places[k] \in Nat /\ Places[k + 1] \in Nat /\ Places[k + 1] <= Len(line)
                 /\ Places[k + 1] = Places[k] + 10 + sent[k].idle
                 /\ line[Places[k] + 1] = 0
                 /\ \A i \in 0..7 : line[Places[k] + (i + 2)] = Bit(sent[k].byte, i)
                 /\ line[Places[k] + 10] = sent[k].stop
                 /\ \A i \in 11..10 + sent[k].idle : line[Places[k] + i] = 1
<1>1. \E st \in Seq(Nat) : \E lead \in Leads : Laid(lead, st)
  BY DEF TypeInv, LineInv
<1>2. Places \in Seq(Nat) /\ \E lead \in Leads : Laid(lead, Places)
  BY <1>1, Zenon DEF Places, PlacesOf, Laid
<1>3. PICK lead \in Leads : Laid(lead, Places)
  BY <1>2
<1> HIDE DEF Places
<1>4. PICK st \in Seq(Nat) : st = Places
  BY <1>2
<1>5. Laid(lead, st)
  BY <1>3, <1>4, Zenon
<1>6. /\ Frames \in Nat \ {0} /\ Len(line) \in Nat
      /\ Len(lead) \in Nat /\ Len(lead) < 10 /\ st[1] = Len(lead) + 12
      /\ \A j \in 1..12 : line[Len(lead) + j] = 1
      /\ st[Frames + 1] = Len(line)
  BY <1>5, OnLine, Zenon
<1>7. \A k \in 1..Frames :
         /\ sent[k].idle \in Nat /\ sent[k].byte \in UInt8 /\ sent[k].stop \in {0, 1}
         /\ st[k] \in Nat /\ st[k + 1] \in Nat /\ st[k + 1] <= Len(line)
         /\ st[k + 1] = st[k] + 10 + sent[k].idle
         /\ line[st[k] + 1] = 0
         /\ \A i \in 0..7 : line[st[k] + (i + 2)] = Bit(sent[k].byte, i)
         /\ line[st[k] + 10] = sent[k].stop
         /\ \A i \in 11..10 + sent[k].idle : line[st[k] + i] = 1
  BY <1>5, OnLine, Zenon
<1>8. QED
  BY <1>4, <1>6, <1>7, Zenon

LEMMA PlacesSame ==
    ASSUME UNCHANGED signalVars
    PROVE  Places' = Places
<1>1. sent' = sent /\ line' = line
  BY DEF signalVars
<1>2. QED
  BY <1>1, Zenon DEF Places

LEMMA SearchStarts ==
    ASSUME TypeInv, ToPulses
    PROVE  SearchInv'
<1>1. UNCHANGED signalVars
  BY DEF ToPulses
<1>2. Places' = Places /\ Signal' = Signal
  BY <1>1, PlacesSame, SignalSame
<1>3. Edge(Taken)' = 0
  BY PulsesStart DEF Edge
<1>4. Signal => \E e \in Nat : Places[1] = e + 12
  BY PlacesAre DEF Signal
<1>5. Signal => 0 < Places[1]
  BY <1>4
<1>6. QED
  BY <1>2, <1>3, <1>5 DEF SearchInv

LEMMA SearchGoesOn ==
    ASSUME TypeInv, Signal, Found, PulsesInv, SearchInv, Search
    PROVE  /\ pc' = "search" => Edge(Taken)' < Places[1]
           /\ pc' = "decode" => Taken' \in Nat \ {0} /\ Edge(Taken)' = Places[1]
<1>1. PICK e \in Nat : e < 10 /\ Places[1] = e + 12 /\ \A j \in 1..12 : line[e + j] = 1
  BY PlacesAre DEF Signal
<1>2. PICK p \in Nat : e < 10 /\ p = Places[1] /\ p = e + 12 /\ \A j \in 1..12 : line[e + j] = 1
  <2>1. Places[1] \in Nat
    BY <1>1
  <2>2. QED
    BY <1>1, <2>1
<1>3. Len(line) \in Nat /\ line[p + 1] = 0 /\ p < Len(line) /\ line[p] = 1
  <2>1. 1 \in 1..Frames
    BY PlacesAre DEF Signal
  <2>2. line[p + 1] = 0 /\ Len(line) \in Nat
    BY <1>2, <2>1, PlacesAre DEF Signal
  <2>3. Places[1 + 1] <= Len(line) /\ Places[1 + 1] = p + 10 + sent[1].idle /\ sent[1].idle \in Nat
    BY <1>2, <2>1, PlacesAre DEF Signal
  <2>4. p < Len(line)
    BY <2>2, <2>3
  <2>5. line[e + 12] = 1
    BY <1>2
  <2>6. QED
    BY <2>2, <2>4, <2>5, <1>2
<1>4. pc = "search" /\ Edge(Taken) < p /\ Sym(TRUE) = 1 /\ Sym(FALSE) = 0
  BY <1>2 DEF Search, SearchInv, Sym
<1>5. pulses # << >>
  <2> SUFFICES ASSUME pulses = << >> PROVE FALSE
    OBVIOUS
  <2>1. Taken = Len(transitions)
    BY TransitionAt DEF Taken
  <2>2. LastEdge < p /\ Steady(LastEdge, Len(line), currently_high)
    BY <2>1, <1>4 DEF LastEdge, Found
  <2>3. LastEdge \in Nat
    <3>1. Len(transitions) \in 0..Len(transitions)
      BY TransitionAt
    <3>2. QED
      BY <3>1, EdgeNat DEF LastEdge
  <2>4. p \in LastEdge + 1..Len(line) /\ p + 1 \in LastEdge + 1..Len(line)
    BY <1>3, <2>2, <2>3
  <2>5. line[p] = Sym(currently_high) /\ line[p + 1] = Sym(currently_high)
    BY <2>2, <2>4 DEF Steady
  <2>6. QED
    BY <1>3, <2>5
<1>6. PICK m \in Nat, e1 \in Nat, e2 \in Nat : m = Taken /\ e1 = Edge(m) /\ e2 = Edge(m + 1)
  BY <1>4, <1>5, NextPulse
<1>7. /\ m + 1 \in 1..Len(transitions) /\ e1 <= e2 /\ (m > 0 => e1 < e2)
      /\ logic \in BOOLEAN /\ logic = transitions[m + 1].was
      /\ Steady(e1, e2, logic) /\ line[e2 + 1] = Sym(~logic)
  BY <1>4, <1>5, <1>6, NextPulse
<1>8. PICK r1 \in 0..Delay, r2 \in 0..Delay :
         Head(pulses).len = (SymbolLen * e2 + r2) - (SymbolLen * e1 + r1)
  BY <1>4, <1>5, <1>6, NextPulse
<1>9. SymbolLen \in Nat \ {0} /\ Delay \in Nat /\ Delay < SymbolLen
  BY ReadableMeans, ConstantsAssumption DEF Signal
<1>10. Taken' = m + 1 /\ Edge(Taken)' = e2 /\ Taken' \in Nat \ {0}
  <2>1. /\ pulses' = Tail(pulses) /\ UNCHANGED scanVars /\ transitions' = transitions
    BY <1>5 DEF Search, scanVars
  <2>2. pulses' # pulses
    <3>1. pulses \in Seq(Pulse)
      BY DEF TypeInv, TypeOK
    <3>2. Len(pulses) \in Nat /\ Len(Tail(pulses)) = Len(pulses) - 1
      BY <3>1, <1>5, Shortened
    <3>3. QED
      BY <3>2, <2>1, SMTT(30)
  <2>3. Taken' = m + 1
    BY <2>1, <2>2, <1>4, <1>5, <1>6, PulsesGoOn
  <2>4. Edge(Taken)' = Edge(m + 1)
    BY <2>1, <2>3 DEF Edge
  <2>5. QED
    BY <2>3, <2>4, <1>6
<1>11. e2 <= p
  <2> SUFFICES ASSUME e2 > p PROVE FALSE
    OBVIOUS
  <2>1. p \in e1 + 1..e2 /\ p + 1 \in e1 + 1..e2
    BY <1>4, <1>6
  <2>2. line[p] = Sym(logic) /\ line[p + 1] = Sym(logic)
    BY <2>1, <1>7 DEF Steady
  <2>3. QED
    BY <1>3, <2>2
<1>12. CASE e2 = p
  <2>1. logic
    <3>1. p \in e1 + 1..e2
      BY <1>4, <1>6, <1>12
    <3>2. line[p] = Sym(logic)
      BY <3>1, <1>7 DEF Steady
    <3>3. CASE logic = FALSE
      <4>1. Sym(logic) = 0
        BY <3>3 DEF Sym
      <4>2. QED
        BY <4>1, <3>2, <1>3
    <3>4. QED
      BY <3>3, <1>7
  <2>2. e1 <= e
    <3> SUFFICES ASSUME e1 > e PROVE FALSE
      BY <1>2, <1>6
    <3>1. e1 >= 1 /\ m # 0
      BY <1>2, <1>6 DEF Edge
    <3>2. m \in 1..Len(transitions) /\ m + 1 \in 1..Len(transitions) /\ m + 1 > 1 /\ (m + 1) - 1 = m
      BY <3>1, <1>7, TransitionAt
    <3>3. EdgeOk(m) /\ EdgeOk(m + 1)
      BY <3>2 DEF Found, EdgesInv
    <3>4. ~transitions[m].was
      <4>1. transitions[m + 1].was = ~transitions[m].was
        BY <3>2, <3>3 DEF EdgeOk
      <4>2. QED
        BY <4>1, <2>1, <1>7
    <3>5. PICK e0 \in Nat : e0 = Edge(m - 1) /\ e0 < e1
      <4>1. CASE m = 1
        BY <4>1, <3>1, <1>6 DEF Edge
      <4>2. CASE m > 1
        <5>1. m - 1 \in 0..Len(transitions)
          BY <4>2, <3>2, TransitionAt
        <5>2. Edge(m - 1) \in Nat /\ Edge(m - 1) < Edge(m)
          BY <5>1, <4>2, <3>3, EdgeNat DEF EdgeOk
        <5>3. QED
          BY <5>2, <1>6
      <4>3. QED
        BY <4>1, <4>2, <3>1
    <3>6. Steady(e0, e1, transitions[m].was)
      BY <3>3, <3>5, <1>6 DEF EdgeOk
    <3>7. e1 \in e0 + 1..e1
      BY <3>5, <1>6
    <3>8. line[e1] = Sym(transitions[m].was)
      BY <3>6, <3>7 DEF Steady
    <3>9. e1 - e \in 1..12 /\ e1 = e + (e1 - e)
      BY <1>2, <1>4, <1>6
    <3>10. line[e + (e1 - e)] = 1
      BY <3>9, <1>2
    <3>11. QED
      BY <3>4, <3>8, <3>9, <3>10 DEF Sym
  <2>3. Head(pulses).len > FrameSamples
    <3>1. PICK k \in Nat : e = e1 + k
      <4>1. e - e1 \in Nat /\ e = e1 + (e - e1)
        BY <2>2, <1>2, <1>6
      <4>2. QED
        BY <4>1
    <3>2. SymbolLen * e2 = SymbolLen * e1 + SymbolLen * k + 12 * SymbolLen
      <4>1. e2 = e1 + k + 12
        BY <3>1, <1>2, <1>12
      <4>2. QED
        BY <4>1, <1>9
    <3>3. SymbolLen * e1 \in Nat /\ SymbolLen * k \in Nat
      BY <1>9
    <3>4. Head(pulses).len > SymbolLen * 10
      BY <3>2, <3>3, <1>8, <1>9
    <3>5. QED
      BY <3>4 DEF FrameSamples
  <2>4. pc' = "decode"
    BY <2>1, <2>3, <1>5 DEF Search, logic
  <2>5. QED
    BY <2>4, <1>2, <1>10, <1>12
<1>13. CASE e2 < p
  <2>1. ~(logic /\ Head(pulses).len > FrameSamples)
    <3> SUFFICES ASSUME logic PROVE ~(Head(pulses).len > FrameSamples)
      OBVIOUS
    <3>1. line[e2 + 1] = 0
      BY <1>4, <1>7
    <3>2. ~(e2 + 1 > e)
      <4> SUFFICES ASSUME e2 + 1 > e PROVE FALSE
        OBVIOUS
      <4>1. (e2 + 1) - e \in 1..12 /\ e + ((e2 + 1) - e) = e2 + 1
        BY <1>2, <1>6, <1>13
      <4>2. line[e + ((e2 + 1) - e)] = 1
        BY <4>1, <1>2
      <4>3. QED
        BY <3>1, <4>1, <4>2
    <3>3. PICK k \in Nat : 9 = e2 + k
      <4>1. 9 - e2 \in Nat /\ 9 = e2 + (9 - e2)
        BY <3>2, <1>2, <1>6
      <4>2. QED
        BY <4>1
    <3>4. SymbolLen * 9 = SymbolLen * e2 + SymbolLen * k
      BY <3>3, <1>9
    <3>5. SymbolLen * e2 \in Nat /\ SymbolLen * k \in Nat /\ SymbolLen * e1 \in Nat
      BY <1>9
    <3>6. ~(Head(pulses).len > SymbolLen * 10)
      BY <3>4, <3>5, <1>8, <1>9
    <3>7. QED
      BY <3>6 DEF FrameSamples
  <2>2. pc' = "search"
    BY <2>1, <1>5 DEF Search, logic
  <2>3. QED
    BY <2>2, <1>2, <1>10, <1>13
<1>14. QED
  BY <1>11, <1>12, <1>13, <1>6

-----------------------------------------------------------------------------
(* The bytes *)

\* A byte is the sum of its bits.
LEMMA ByteBits ==
    ASSUME NEW b \in UInt8, NEW i \in 0..7
    PROVE  /\ b % 2^(i + 1) = (b % 2^i) + Bit(b, i) * 2^i
           /\ Bit(b, i) \in {0, 1}
           /\ b % 2^i \in Nat /\ b % 2^i < 2^i
<1>1. CASE i = 0
  BY <1>1, Powers, PowerDoubles DEF Bit, UInt8
<1>2. CASE i = 1
  BY <1>2, Powers, PowerDoubles DEF Bit, UInt8
<1>3. CASE i = 2
  BY <1>3, Powers, PowerDoubles DEF Bit, UInt8
<1>4. CASE i = 3
  BY <1>4, Powers, PowerDoubles DEF Bit, UInt8
<1>5. CASE i = 4
  BY <1>5, Powers, PowerDoubles DEF Bit, UInt8
<1>6. CASE i = 5
  BY <1>6, Powers, PowerDoubles DEF Bit, UInt8
<1>7. CASE i = 6
  BY <1>7, Powers, PowerDoubles DEF Bit, UInt8
<1>8. CASE i = 7
  BY <1>8, Powers, PowerDoubles DEF Bit, UInt8
<1>9. QED
  BY <1>1, <1>2, <1>3, <1>4, <1>5, <1>6, <1>7, <1>8

LEMMA WholeByte ==
    ASSUME NEW b \in UInt8
    PROVE  b % 2^8 = b /\ b % 2^0 = 0 /\ b \in 0..255
  BY Powers DEF UInt8

\* The bits of a byte before its first one.
LEMMA LowBits ==
    ASSUME NEW b \in UInt8, NEW i \in 0..8, \A j \in 0..7 : j < i => Bit(b, j) = 0
    PROVE  b % 2^i = 0
<1>1. b % 2^0 = 0
  BY WholeByte
<1>2. \A j \in 0..7 : j < i => b % 2^(j + 1) = b % 2^j
  <2> SUFFICES ASSUME NEW j \in 0..7, j < i PROVE b % 2^(j + 1) = b % 2^j
    OBVIOUS
  <2>1. 2^j \in 1..128 /\ b % 2^j \in Nat
    BY ByteBits, PowerDoubles
  <2>2. PICK p \in Nat : p = 2^j
    BY <2>1
  <2>3. PICK r \in Nat : p = 2^j /\ r = b % 2^j
    BY <2>1, <2>2
  <2>4. b % 2^(j + 1) = r + Bit(b, j) * p
    BY <2>3, ByteBits
  <2>5. Bit(b, j) = 0
    OBVIOUS
  <2>6. b % 2^(j + 1) = r
    BY <2>3, <2>4, <2>5
  <2>7. QED
    BY <2>3, <2>6
<1>3. /\ 0 < i => b % 2^1 = b % 2^0
      /\ 1 < i => b % 2^2 = b % 2^1
      /\ 2 < i => b % 2^3 = b % 2^2
      /\ 3 < i => b % 2^4 = b % 2^3
      /\ 4 < i => b % 2^5 = b % 2^4
      /\ 5 < i => b % 2^6 = b % 2^5
      /\ 6 < i => b % 2^7 = b % 2^6
      /\ 7 < i => b % 2^8 = b % 2^7
  BY <1>2
<1>4. i = 0 \/ i = 1 \/ i = 2 \/ i = 3 \/ i = 4 \/ i = 5 \/ i = 6 \/ i = 7 \/ i = 8
  OBVIOUS
<1>5. CASE i = 0
  BY <1>1, <1>3, <1>5
<1>6. CASE i = 1
  BY <1>1, <1>3, <1>6
<1>7. CASE i = 2
  BY <1>1, <1>3, <1>7
<1>8. CASE i = 3
  BY <1>1, <1>3, <1>8
<1>9. CASE i = 4
  BY <1>1, <1>3, <1>9
<1>10. CASE i = 5
  BY <1>1, <1>3, <1>10
<1>11. CASE i = 6
  BY <1>1, <1>3, <1>11
<1>12. CASE i = 7
  BY <1>1, <1>3, <1>12
<1>13. CASE i = 8
  BY <1>1, <1>3, <1>13
<1>14. QED
  BY <1>4, <1>5, <1>6, <1>7, <1>8, <1>9, <1>10, <1>11, <1>12, <1>13

\* A place value, of the eight that there are.
IsPower(i, p) ==
    \/ i = 0 /\ p = 1
    \/ i = 1 /\ p = 2
    \/ i = 2 /\ p = 4
    \/ i = 3 /\ p = 8
    \/ i = 4 /\ p = 16
    \/ i = 5 /\ p = 32
    \/ i = 6 /\ p = 64
    \/ i = 7 /\ p = 128

LEMMA PowerIs ==
    ASSUME NEW i \in 0..7
    PROVE  IsPower(i, 2^i)
<1>1. CASE i = 0
  BY <1>1, Powers DEF IsPower
<1>2. CASE i = 1
  BY <1>2, Powers DEF IsPower
<1>3. CASE i = 2
  BY <1>3, Powers DEF IsPower
<1>4. CASE i = 3
  BY <1>4, Powers DEF IsPower
<1>5. CASE i = 4
  BY <1>5, Powers DEF IsPower
<1>6. CASE i = 5
  BY <1>6, Powers DEF IsPower
<1>7. CASE i = 6
  BY <1>7, Powers DEF IsPower
<1>8. CASE i = 7
  BY <1>8, Powers DEF IsPower
<1>9. QED
  BY <1>1, <1>2, <1>3, <1>4, <1>5, <1>6, <1>7, <1>8

LEMMA PowerGrows ==
    ASSUME NEW i \in 0..7, NEW j \in 0..7, i <= j
    PROVE  2^i <= 2^j
<1>1. ASSUME NEW p, NEW r, IsPower(i, p), IsPower(j, r)
      PROVE  p <= r
  BY <1>1 DEF IsPower
<1>2. IsPower(i, 2^i) /\ IsPower(j, 2^j)
  BY PowerIs
<1>3. QED
  BY <1>1, <1>2

Good == Signal /\ \A k \in 1..Frames : Clean(sent[k])

LEMMA FrameAt ==
    ASSUME TypeInv, Good, NEW k \in 1..Frames
    PROVE  /\ Len(line) \in Nat /\ Frames \in Nat
           /\ sent[k].idle \in Nat /\ sent[k].byte \in UInt8
           /\ Places[k] \in Nat /\ Places[k + 1] \in Nat /\ Places[k + 1] <= Len(line)
           /\ Places[k + 1] = Places[k] + 10 + sent[k].idle
           /\ line[Places[k] + 1] = 0
           /\ \A i \in 0..7 : line[Places[k] + (i + 2)] = Bit(sent[k].byte, i)
           /\ \A i \in 10..10 + sent[k].idle : line[Places[k] + i] = 1
           /\ k < Frames => line[Places[k + 1] + 1] = 0
           /\ k = Frames => Places[k + 1] = Len(line)
           /\ sent[k].byte # 0
           /\ sent[k].byte >= 128 => sent[k].idle <= 6
           /\ sent[k].byte >= 128 /\ overflow_checks => sent[k].byte + 2^(sent[k].idle + 1) <= 256
<1>1. /\ Len(line) \in Nat /\ Frames \in Nat
      /\ sent[k].idle \in Nat /\ sent[k].byte \in UInt8
      /\ Places[k] \in Nat /\ Places[k + 1] \in Nat /\ Places[k + 1] <= Len(line)
      /\ Places[k + 1] = Places[k] + 10 + sent[k].idle
      /\ line[Places[k] + 1] = 0
      /\ \A i \in 0..7 : line[Places[k] + (i + 2)] = Bit(sent[k].byte, i)
      /\ line[Places[k] + 10] = sent[k].stop
      /\ \A i \in 11..10 + sent[k].idle : line[Places[k] + i] = 1
  BY PlacesAre DEF Good, Signal
<1>2. Clean(sent[k])
  BY DEF Good
<1>3. /\ sent[k].byte # 0 /\ sent[k].stop = 1
      /\ sent[k].byte >= 128 => sent[k].idle <= 6
      /\ sent[k].byte >= 128 /\ overflow_checks => sent[k].byte + 2^(sent[k].idle + 1) <= 256
  BY <1>2 DEF Clean
<1>4. ASSUME NEW i \in 10..10 + sent[k].idle PROVE line[Places[k] + i] = 1
  <2>1. i = 10 \/ i \in 11..10 + sent[k].idle
    BY <1>1
  <2>2. QED
    BY <2>1, <1>1, <1>3
<1>5. k < Frames => line[Places[k + 1] + 1] = 0
  <2>1. k < Frames => k + 1 \in 1..Frames
    <3>1. Frames \in Nat
      BY ConstantsAssumption
    <3>2. QED
      BY <3>1
  <2>2. QED
    BY <2>1, PlacesAre DEF Good, Signal
<1>6. k = Frames => Places[k + 1] = Len(line)
  BY PlacesAre DEF Good, Signal
<1>7. QED
  BY <1>1, <1>3, <1>4, <1>5, <1>6

-----------------------------------------------------------------------------
(* The decoder in a frame *)

\* The frame at hand, and how many symbols are before the one at hand.
Current == Len(ans) + 1
Here == Edge(Taken) + bit

AtStart ==
    /\ need_start_bit /\ ~need_stop_bit /\ bit = 0
    /\ Here = Places[Current]

InData ==
    /\ ~need_start_bit /\ ~need_stop_bit
    /\ \E i \in 0..7 :
          /\ Here = Places[Current] + 1 + i
          /\ place_val = 2^i
          /\ current_byte = sent[Current].byte % 2^i

AtStop ==
    /\ ~need_start_bit /\ need_stop_bit /\ bit = 0
    /\ Here = Places[Current] + 9
    /\ current_byte = sent[Current].byte

\* In a pulse that holds the eighth bit of a frame, its stop bit and idle symbols, the
\* loop over the symbols goes on to the end of the pulse, when the frame is done.
PastStop ==
    /\ need_start_bit /\ ~need_stop_bit /\ bit > 0
    /\ logic /\ Edge(Taken + 1) = Places[Current]
    /\ Len(ans) > 0 /\ sent[Len(ans)].byte >= 128
    /\ \E x \in 0..sent[Len(ans)].idle :
          /\ Here = Places[Len(ans)] + 9 + x
          /\ place_val = 2^x
          /\ overflow_checks => current_byte = sent[Len(ans)].byte + 2^x - 1

DecodeInv ==
    pc = "decode" /\ Good =>
        /\ Taken > 0
        /\ Current <= Frames
        /\ \A i \in 1..Len(ans) : ans[i] = sent[i].byte
        /\ bit > 0 => pulses # << >> /\ bit < Edge(Taken + 1) - Edge(Taken)
        /\ AtStart \/ InData \/ AtStop \/ PastStop

EndInv ==
    pc \in Ended /\ Good =>
        /\ pc = "ok" /\ Len(ans) = Frames - 1
        /\ \A i \in 1..Len(ans) : ans[i] = sent[i].byte

\* What the proofs about a step of the decoder start from.
Decoding == TypeInv /\ Good /\ Found /\ PulsesInv /\ DecodeInv /\ pc = "decode"

LEMMA DecodingMeans ==
    ASSUME Decoding
    PROVE  /\ Len(ans) \in Nat /\ Current \in 1..Frames /\ Frames \in Nat
           /\ Taken \in Nat \ {0} /\ bit \in Nat
           /\ \A i \in 1..Len(ans) : ans[i] = sent[i].byte
           /\ bit > 0 => pulses # << >> /\ bit < Edge(Taken + 1) - Edge(Taken)
           /\ AtStart \/ InData \/ AtStop \/ PastStop
           /\ overflow_checks \in BOOLEAN /\ need_start_bit \in BOOLEAN /\ need_stop_bit \in BOOLEAN
<1>1. ans \in Seq(UInt8) /\ bit \in Nat /\ overflow_checks \in BOOLEAN /\ Frames \in Nat
      /\ need_start_bit \in BOOLEAN /\ need_stop_bit \in BOOLEAN
  BY ConstantsAssumption DEF Decoding, TypeInv, TypeOK
<1>2. /\ Taken > 0 /\ Current <= Frames
      /\ \A i \in 1..Len(ans) : ans[i] = sent[i].byte
      /\ bit > 0 => pulses # << >> /\ bit < Edge(Taken + 1) - Edge(Taken)
      /\ AtStart \/ InData \/ AtStop \/ PastStop
  BY DEF Decoding, DecodeInv
<1>3. Len(pulses) \in Nat /\ Len(transitions) \in Nat /\ Len(ans) \in Nat
  BY <1>1 DEF Decoding, TypeInv, TypeOK
<1>4. Taken \in Nat \ {0}
  BY <1>2, <1>3 DEF Taken
<1>5. Current \in 1..Frames
  BY <1>1, <1>2, <1>3 DEF Current
<1>6. QED
  BY <1>1, <1>2, <1>3, <1>4, <1>5

\* The rest of the pulse at hand.
LEMMA PulseHere ==
    ASSUME Decoding, pulses # << >>
    PROVE  /\ Here \in Nat /\ Edge(Taken + 1) \in Nat /\ Edge(Taken) \in Nat
           /\ Here < Edge(Taken + 1) /\ Edge(Taken + 1) < Len(line)
           /\ logic \in BOOLEAN
           /\ Steady(Here, Edge(Taken + 1), logic)
           /\ line[Edge(Taken + 1) + 1] = Sym(~logic)
           /\ PulseLen = Edge(Taken + 1) - Edge(Taken) /\ bit < PulseLen
           /\ LastOfPulse <=> Edge(Taken + 1) = Here + 1
<1>1. /\ Taken \in Nat \ {0} /\ bit \in Nat
      /\ bit > 0 => bit < Edge(Taken + 1) - Edge(Taken)
  BY DecodingMeans
<1>2. TypeInv /\ Signal /\ Found /\ PulsesInv /\ pc \in {"search", "decode"}
  BY DEF Decoding, Good
<1>3. /\ Edge(Taken) \in Nat /\ Edge(Taken + 1) \in Nat
      /\ Edge(Taken + 1) < Len(line) /\ (Taken > 0 => Edge(Taken) < Edge(Taken + 1))
      /\ logic \in BOOLEAN /\ Steady(Edge(Taken), Edge(Taken + 1), logic)
      /\ line[Edge(Taken + 1) + 1] = Sym(~logic)
      /\ PulseLen = Edge(Taken + 1) - Edge(Taken)
  BY <1>2, NextPulse
<1>4. PICK b \in Nat, e1 \in Nat, e2 \in Nat : b = bit /\ e1 = Edge(Taken) /\ e2 = Edge(Taken + 1)
  BY <1>1, <1>3
<1>5. e1 < e2 /\ (b > 0 => b < e2 - e1)
  BY <1>1, <1>3, <1>4
<1>6. b < e2 - e1 /\ e1 + b \in Nat /\ e1 + b < e2
  BY <1>5
<1>7. Here = e1 + b /\ PulseLen = e2 - e1
  BY <1>3, <1>4 DEF Here
<1>8. Steady(e1 + b, e2, logic)
  <2>1. \A j \in (e1 + b) + 1..e2 : j \in e1 + 1..e2
    OBVIOUS
  <2>2. QED
    BY <2>1, <1>3, <1>4 DEF Steady
<1>9. b = (e2 - e1) - 1 <=> e2 = (e1 + b) + 1
  OBVIOUS
<1>10. LastOfPulse <=> e2 = Here + 1
  BY <1>4, <1>7, <1>9 DEF LastOfPulse
<1>11. QED
  BY <1>3, <1>4, <1>6, <1>7, <1>8, <1>10

\* A pulse that holds a stop bit goes on to the next start bit, and there is one.
LEMMA HighEnds ==
    ASSUME Decoding, pulses # << >>, logic, NEW k \in 1..Frames,
           Here <= Places[k] + 9, Edge(Taken + 1) >= Places[k] + 10
    PROVE  k < Frames /\ Edge(Taken + 1) = Places[k + 1]
<1>1. TypeInv /\ Good
  BY DEF Decoding
<1>2. PICK h \in Nat, e2 \in Nat : h = Here /\ e2 = Edge(Taken + 1)
  BY PulseHere
<1>3. PICK p \in Nat, q \in Nat, d \in Nat : p = Places[k] /\ q = Places[k + 1] /\ d = sent[k].idle
  BY <1>1, FrameAt
<1>4. /\ q = p + 10 + d /\ \A i \in 10..10 + d : line[p + i] = 1
      /\ k < Frames => line[q + 1] = 0
      /\ k = Frames => q = Len(line)
  BY <1>1, <1>3, FrameAt
<1>5. Steady(h, e2, logic) /\ line[e2 + 1] = 0 /\ e2 < Len(line) /\ Len(line) \in Nat
  <2>1. Steady(h, e2, logic) /\ line[e2 + 1] = Sym(~logic) /\ e2 < Len(line)
    BY <1>2, PulseHere
  <2>2. Len(line) \in Nat
    BY <1>1, FrameAt
  <2>3. QED
    BY <2>1, <2>2 DEF Sym
<1>6. h <= p + 9 /\ e2 >= p + 10
  BY <1>2, <1>3
<1>7. e2 >= q
  <2> SUFFICES ASSUME e2 < q PROVE FALSE
    OBVIOUS
  <2>1. e2 + 1 - p \in 10..10 + d /\ p + (e2 + 1 - p) = e2 + 1
    BY <1>4, <1>6
  <2>2. line[p + (e2 + 1 - p)] = 1
    BY <1>4, <2>1
  <2>3. QED
    BY <1>5, <2>1, <2>2
<1>8. k < Frames
  <2>1. k # Frames
    BY <1>4, <1>5, <1>7
  <2>2. Frames \in Nat
    BY ConstantsAssumption
  <2>3. QED
    BY <2>1, <2>2
<1>9. e2 <= q
  <2> SUFFICES ASSUME e2 > q PROVE FALSE
    OBVIOUS
  <2>1. q + 1 \in h + 1..e2
    BY <1>4, <1>6
  <2>2. line[q + 1] = Sym(logic)
    BY <1>5, <2>1 DEF Steady
  <2>3. QED
    BY <2>2, <1>4, <1>8 DEF Sym
<1>10. e2 = q
  BY <1>7, <1>9
<1>11. QED
  BY <1>2, <1>3, <1>8, <1>10

\* What a step of the decoder leaves.
LEMMA DecodeSame ==
    ASSUME UNCHANGED signalVars
    PROVE  /\ sent' = sent /\ line' = line /\ overflow_checks' = overflow_checks
           /\ Places' = Places /\ Good' = Good
<1>1. sent' = sent /\ line' = line /\ overflow_checks' = overflow_checks
  BY DEF signalVars
<1>2. Places' = Places /\ Signal' = Signal
  BY PlacesSame, SignalSame
<1>3. Good' = Good
  BY <1>1, <1>2 DEF Good, Clean
<1>4. QED
  BY <1>1, <1>2, <1>3

LEMMA Consumed ==
    ASSUME Decoding, pulses # << >>, UNCHANGED scanVars, pulses' = Tail(pulses)
    PROVE  Taken' = Taken + 1 /\ Taken' > 0 /\ Edge(Taken)' = Edge(Taken + 1)
<1>1. TypeInv /\ PulsesInv /\ pc \in {"search", "decode"} /\ transitions' = transitions
  BY DEF Decoding, scanVars
<1>2. pulses' # pulses
  <2>1. pulses \in Seq(Pulse)
    BY <1>1 DEF TypeInv, TypeOK
  <2>2. Len(pulses) \in Nat /\ Len(Tail(pulses)) = Len(pulses) - 1
    BY <2>1, Shortened
  <2>3. Len(Tail(pulses)) # Len(pulses)
    <3>1. \A n \in Nat : n - 1 # n
      OBVIOUS
    <3>2. QED
      BY <2>2, <3>1, Zenon
  <2>4. QED
    BY <2>3, Zenon
<1>3. Taken' = Taken + 1 /\ Taken \in Nat
  BY <1>1, <1>2, PulsesGoOn
<1>4. Edge(Taken)' = Edge(Taken + 1)
  BY <1>1, <1>3 DEF Edge
<1>5. QED
  BY <1>3, <1>4

LEMMA NextSymbolGoesOn ==
    ASSUME Decoding, pulses # << >>, UNCHANGED scanVars, NextSymbol
    PROVE  /\ Taken' > 0 /\ Here' = Here + 1
           /\ bit' > 0 => pulses' # << >> /\ bit' < (Edge(Taken + 1) - Edge(Taken))'
           /\ LastOfPulse => bit' = 0
           /\ ~LastOfPulse => /\ bit' > 0 /\ logic' = logic
                              /\ Edge(Taken + 1)' = Edge(Taken + 1)
<1>1. bit \in Nat /\ Taken \in Nat \ {0} /\ transitions' = transitions
  BY DecodingMeans DEF scanVars
<1>2. PICK b \in Nat, e1 \in Nat, e2 \in Nat :
          b = bit /\ e1 = Edge(Taken) /\ e2 = Edge(Taken + 1)
  BY <1>1, PulseHere
<1>3. Here = e1 + b /\ b < e2 - e1 /\ (LastOfPulse <=> e2 = e1 + b + 1)
  BY <1>2, PulseHere DEF Here
<1>4. CASE LastOfPulse
  <2>1. bit' = 0 /\ pulses' = Tail(pulses)
    BY <1>4 DEF NextSymbol
  <2>2. Taken' > 0 /\ Edge(Taken)' = e2
    BY <1>2, <2>1, Consumed
  <2>3. Here' = e2 + 0
    BY <2>1, <2>2 DEF Here
  <2>4. Here' = Here + 1
    BY <2>3, <1>3, <1>4
  <2>5. QED
    BY <1>4, <2>1, <2>2, <2>4
<1>5. CASE ~LastOfPulse
  <2>1. bit' = b + 1 /\ pulses' = pulses
    BY <1>2, <1>5 DEF NextSymbol
  <2>2. Taken' = Taken /\ logic' = logic
    BY <1>1, <2>1 DEF Taken, logic
  <2>3. Edge(Taken)' = e1 /\ Edge(Taken + 1)' = e2
    BY <1>1, <1>2, <2>2 DEF Edge
  <2>4. b + 1 < e2 - e1 /\ e1 + (b + 1) = (e1 + b) + 1 /\ b + 1 > 0
    BY <1>3, <1>5
  <2>5. Here' = Here + 1
    BY <2>1, <2>3, <2>4, <1>3 DEF Here
  <2>6. Taken' > 0
    BY <1>1, <2>2
  <2>7. QED
    BY <1>2, <1>5, <2>1, <2>2, <2>3, <2>4, <2>5, <2>6
<1>6. QED
  BY <1>4, <1>5

\* The symbol at hand is the next bit of the byte.
LEMMA DataHere ==
    ASSUME Decoding, pulses # << >>, NEW i \in 0..7,
           Here = Places[Current] + 1 + i, place_val = 2^i,
           current_byte = sent[Current].byte % 2^i
    PROVE  /\ Sum = sent[Current].byte % 2^(i + 1)
           /\ Sum \in Nat /\ Sum <= 255 /\ Sum % 256 = Sum
           /\ ~logic => Bit(sent[Current].byte, i) = 0
<1>1. TypeInv /\ Good
  BY DEF Decoding
<1>2. PICK k \in 1..Frames : k = Current
  BY DecodingMeans
<1>3. PICK b \in UInt8 : b = sent[k].byte
  BY <1>1, FrameAt
<1>4. PICK h \in Nat, e2 \in Nat, p \in Nat : h = Here /\ e2 = Edge(Taken + 1) /\ p = Places[k]
  BY <1>1, PulseHere, FrameAt
<1>5. line[h + 1] = Sym(logic) /\ logic \in BOOLEAN
  <2>1. Steady(h, e2, logic) /\ h < e2 /\ logic \in BOOLEAN
    BY <1>4, PulseHere
  <2>2. h + 1 \in h + 1..e2
    BY <2>1
  <2>3. QED
    BY <2>1, <2>2 DEF Steady
<1>6. line[h + 1] = Bit(b, i)
  <2>1. h + 1 = p + (i + 2)
    <3>1. h = p + 1 + i
      BY <1>2, <1>4, Zenon
    <3>2. QED
      BY <3>1
  <2>2. line[p + (i + 2)] = Bit(b, i)
    BY <1>1, <1>3, <1>4, FrameAt
  <2>3. QED
    BY <2>1, <2>2
<1>7. PICK v \in Nat : v = 2^i
  <2>1. 2^i \in 1..128
    BY PowerDoubles
  <2>2. QED
    BY <2>1
<1>8. PICK c \in Nat : c = b % v /\ c = current_byte
  <2>1. b % 2^i \in Nat
    BY ByteBits
  <2>2. QED
    BY <2>1, <1>2, <1>3, <1>7
<1>9. b % 2^(i + 1) = c + Bit(b, i) * v
  BY <1>7, <1>8, ByteBits
<1>10. Sum = b % 2^(i + 1) /\ Sum \in Nat
  <2>1. CASE logic
    <3>1. Bit(b, i) = 1
      BY <1>5, <1>6, <2>1 DEF Sym
    <3>2. b % 2^(i + 1) = c + v
      BY <3>1, <1>9
    <3>3. Sum = c + v
      BY <2>1, <1>7, <1>8 DEF Sum
    <3>4. QED
      BY <3>2, <3>3
  <2>2. CASE ~logic
    <3>1. Bit(b, i) = 0
      BY <1>5, <1>6, <2>2 DEF Sym
    <3>2. b % 2^(i + 1) = c
      BY <3>1, <1>9
    <3>3. Sum = c
      BY <2>2, <1>8 DEF Sum
    <3>4. QED
      BY <3>2, <3>3
  <2>3. QED
    BY <2>1, <2>2
<1>11. b % 2^(i + 1) <= 255
  <2>1. CASE i = 7
    <3>1. b % 2^8 = b /\ b \in 0..255
      BY WholeByte
    <3>2. i + 1 = 8
      BY <2>1
    <3>3. b % 2^(i + 1) = b
      BY <3>1, <3>2
    <3>4. QED
      BY <3>1, <3>3
  <2>2. CASE i # 7
    <3>1. PICK j \in 0..7 : j = i + 1
      BY <2>2
    <3>2. b % 2^j < 2^j /\ 2^j \in 1..128 /\ b % 2^j \in Nat
      BY ByteBits, PowerDoubles
    <3>3. b % 2^j <= 255
      BY <3>2, SMTT(30)
    <3>4. QED
      BY <3>1, <3>3
  <2>3. QED
    BY <2>1, <2>2
<1>12. Sum <= 255 /\ Sum % 256 = Sum
  <2>1. Sum <= 255
    BY <1>10, <1>11
  <2>2. QED
    BY <2>1, <1>10
<1>13. ~logic => Bit(b, i) = 0
  BY <1>5, <1>6 DEF Sym
<1>14. QED
  BY <1>2, <1>3, <1>10, <1>12, <1>13

-----------------------------------------------------------------------------
(* The steps of the decoder *)

\* Start and stop bits.
LEMMA StartHere ==
    ASSUME Decoding, AtPulse, bit = 0, need_start_bit
    PROVE  /\ Here = Places[Current] /\ ~logic
           /\ PulseLen \in 1..8 /\ Edge(Taken + 1) = Places[Current] + PulseLen
           /\ sent[Current].byte % 2^(PulseLen - 1) = 0
<1>1. TypeInv /\ Good /\ pulses # << >>
  BY DEF Decoding, AtPulse
<1>2. Here = Places[Current]
  BY DecodingMeans DEF AtStart, InData, AtStop, PastStop
<1>3. PICK k \in 1..Frames : k = Current
  BY DecodingMeans
<1>4. PICK b \in UInt8 : b = sent[k].byte /\ b # 0
  BY <1>1, FrameAt
<1>5. PICK h \in Nat, e2 \in Nat : h = Here /\ e2 = Edge(Taken + 1)
  BY <1>1, PulseHere
<1>6. Steady(h, e2, logic) /\ h < e2 /\ logic \in BOOLEAN /\ PulseLen = e2 - h
  <2>1. Steady(h, e2, logic) /\ h < e2 /\ logic \in BOOLEAN /\ PulseLen = e2 - Edge(Taken)
    BY <1>1, <1>5, PulseHere
  <2>2. Edge(Taken) \in Nat
    BY <1>1, PulseHere
  <2>3. h = Edge(Taken) + 0
    BY <1>5 DEF Here
  <2>4. h = Edge(Taken)
    BY <2>2, <2>3
  <2>5. QED
    BY <2>1, <2>4
<1>7. h = Places[k] /\ line[h + 1] = 0 /\ \A i \in 0..7 : line[h + (i + 2)] = Bit(b, i)
  <2>1. h = Places[k]
    BY <1>2, <1>3, <1>5
  <2>2. line[Places[k] + 1] = 0 /\ \A i \in 0..7 : line[Places[k] + (i + 2)] = Bit(b, i)
    BY <1>1, <1>4, FrameAt
  <2>3. QED
    BY <2>1, <2>2
<1>8. ~logic
  <2>1. h + 1 \in h + 1..e2
    BY <1>6
  <2>2. line[h + 1] = Sym(logic)
    BY <2>1, <1>6 DEF Steady
  <2>3. QED
    BY <2>2, <1>6, <1>7 DEF Sym
<1>9. \A j \in 0..7 : j + 2 <= e2 - h => Bit(b, j) = 0
  <2> SUFFICES ASSUME NEW j \in 0..7, j + 2 <= e2 - h PROVE Bit(b, j) = 0
    OBVIOUS
  <2>1. h + (j + 2) \in h + 1..e2
    OBVIOUS
  <2>2. line[h + (j + 2)] = Sym(logic)
    BY <2>1, <1>6 DEF Steady
  <2>3. QED
    BY <2>2, <1>7, <1>8 DEF Sym
<1>10. e2 - h <= 8
  <2> SUFFICES ASSUME e2 - h > 8 PROVE FALSE
    BY <1>6
  <2>1. \A j \in 0..7 : j < 8 => Bit(b, j) = 0
    BY <1>9
  <2>2. b % 2^8 = 0
    BY <2>1, LowBits
  <2>3. QED
    BY <2>2, <1>4, WholeByte
<1>11. PICK i \in 0..7 : i = e2 - h - 1
  BY <1>6, <1>10
<1>12. b % 2^i = 0
  <2>1. \A j \in 0..7 : j < i => Bit(b, j) = 0
    BY <1>9, <1>11
  <2>2. i \in 0..8
    OBVIOUS
  <2>3. QED
    BY <2>1, <2>2, LowBits
<1>13. PulseLen - 1 = i /\ PulseLen \in 1..8 /\ e2 = h + PulseLen
  BY <1>6, <1>11
<1>14. QED
  BY <1>2, <1>3, <1>4, <1>5, <1>8, <1>12, <1>13

LEMMA StepStart ==
    ASSUME Decoding, StartBit
    PROVE  DecodeInv'
<1>1. /\ AtPulse /\ bit = 0 /\ need_start_bit /\ pulses # << >>
      /\ UNCHANGED signalVars /\ UNCHANGED scanVars /\ pulses' = Tail(pulses)
      /\ ans' = ans /\ bit' = bit /\ ~need_start_bit' /\ need_stop_bit' = need_stop_bit
      /\ current_byte' = 0 /\ place_val' = 2^(PulseLen - 1)
  BY DEF StartBit, AtPulse
<1>2. sent' = sent /\ Places' = Places
  BY <1>1, DecodeSame
<1>3. /\ Current \in 1..Frames /\ Len(ans) \in Nat /\ Frames \in Nat
      /\ \A i \in 1..Len(ans) : ans[i] = sent[i].byte
  BY DecodingMeans
<1>4. ~need_stop_bit
  BY <1>1, DecodingMeans DEF AtStart, InData, AtStop, PastStop
<1>5. /\ PulseLen \in 1..8 /\ Edge(Taken + 1) = Places[Current] + PulseLen
      /\ sent[Current].byte % 2^(PulseLen - 1) = 0
  BY <1>1, StartHere
<1>6. Taken' > 0 /\ Edge(Taken)' = Edge(Taken + 1)
  BY <1>1, Consumed
<1>7. Current' = Current
  BY <1>1 DEF Current
<1>8. PICK i \in 0..7 : i = PulseLen - 1
  BY <1>5
<1>9. Here' = Places[Current] + 1 + i
  <2>1. Places[Current] \in Nat
    BY <1>3, FrameAt DEF Decoding
  <2>2. Here' = Edge(Taken + 1) + 0
    BY <1>1, <1>6 DEF Here
  <2>3. \A p \in Nat, n \in 1..8 : i = n - 1 => (p + n) + 0 = p + 1 + i
    OBVIOUS
  <2>4. QED
    BY <2>1, <2>2, <2>3, <1>5, <1>8
<1>10. InData'
  BY <1>1, <1>2, <1>4, <1>5, <1>7, <1>8, <1>9 DEF InData
<1>11. \A j \in 1..Len(ans') : ans'[j] = sent'[j].byte
  BY <1>1, <1>2, <1>3
<1>12. ~(bit' > 0) /\ Current' <= Frames
  BY <1>1, <1>3, <1>7
<1>13. QED
  BY <1>6, <1>10, <1>11, <1>12 DEF DecodeInv

LEMMA NoStartFailure ==
    ASSUME Decoding
    PROVE  ~StartBitFails
<1> SUFFICES ASSUME StartBitFails PROVE FALSE
  OBVIOUS
<1>1. AtPulse /\ bit = 0 /\ need_start_bit /\ (logic \/ ~PlaceFits)
  BY DEF StartBitFails
<1>2. ~logic /\ PulseLen \in 1..8
  BY <1>1, StartHere
<1>3. QED
  BY <1>1, <1>2 DEF PlaceFits

LEMMA StopHere ==
    ASSUME Decoding, AtPulse, bit = 0, ~need_start_bit, need_stop_bit
    PROVE  /\ logic /\ current_byte = sent[Current].byte
           /\ Current < Frames /\ Edge(Taken + 1) = Places[Current + 1]
<1>1. TypeInv /\ Good /\ pulses # << >>
  BY DEF Decoding, AtPulse
<1>2. Here = Places[Current] + 9 /\ current_byte = sent[Current].byte
  BY DecodingMeans DEF AtStart, InData, AtStop, PastStop
<1>3. PICK k \in 1..Frames : k = Current
  BY DecodingMeans
<1>4. PICK h \in Nat, e2 \in Nat, p \in Nat : h = Here /\ e2 = Edge(Taken + 1) /\ p = Places[k]
  BY <1>1, PulseHere, FrameAt
<1>5. h = p + 9
  BY <1>2, <1>3, <1>4, Zenon
<1>6. line[p + 10] = 1
  <2>1. 10 \in 10..10 + sent[k].idle
    BY <1>1, FrameAt
  <2>2. QED
    BY <2>1, <1>1, <1>4, FrameAt
<1>7. Steady(h, e2, logic) /\ h < e2 /\ logic \in BOOLEAN
  BY <1>1, <1>4, PulseHere
<1>8. logic
  <2>1. p + 10 \in h + 1..e2
    BY <1>5, <1>7
  <2>2. line[p + 10] = Sym(logic)
    BY <2>1, <1>7 DEF Steady
  <2>3. CASE logic = FALSE
    <3>1. Sym(logic) = 0
      BY <2>3 DEF Sym
    <3>2. QED
      BY <3>1, <2>2, <1>6
  <2>4. QED
    BY <2>3, <1>7
<1>9. Here <= Places[k] + 9 /\ Edge(Taken + 1) >= Places[k] + 10
  <2>1. h <= p + 9 /\ e2 >= p + 10
    BY <1>5, <1>7
  <2>2. QED
    BY <2>1, <1>4
<1>10. k < Frames /\ Edge(Taken + 1) = Places[k + 1]
  BY <1>1, <1>8, <1>9, HighEnds
<1>11. QED
  BY <1>2, <1>3, <1>8, <1>10

\* A byte that is complete, in a pulse that ends where the next frame starts.
LEMMA ByteEnds ==
    ASSUME Decoding, Current < Frames, sent' = sent, ans' = Append(ans, sent[Current].byte)
    PROVE  /\ Current' = Current + 1 /\ Current' <= Frames /\ Len(ans') = Current
           /\ \A i \in 1..Len(ans') : ans'[i] = sent'[i].byte
<1>1. /\ ans \in Seq(UInt8) /\ Len(ans) \in Nat /\ Current \in 1..Frames /\ Frames \in Nat
      /\ \A i \in 1..Len(ans) : ans[i] = sent[i].byte
  BY DecodingMeans DEF Decoding, TypeInv, TypeOK
<1>2. sent[Current].byte \in UInt8
  BY <1>1, FrameAt DEF Decoding
<1>3. PICK n \in Nat : n = Len(ans) /\ Current = n + 1
  BY <1>1 DEF Current
<1>4. /\ Len(ans') = n + 1
      /\ \A i \in 1..n : ans'[i] = ans[i]
      /\ ans'[n + 1] = sent[n + 1].byte
  BY <1>1, <1>2, <1>3, Appended
<1>5. Current' = n + 2
  BY <1>4 DEF Current
<1>6. \A i \in 1..n + 1 : ans'[i] = sent[i].byte
  <2>1. \A i \in 1..n + 1 : i \in 1..n \/ i = n + 1
    OBVIOUS
  <2>2. QED
    BY <2>1, <1>1, <1>3, <1>4
<1>7. n + 2 <= Frames /\ n + 2 = (n + 1) + 1
  BY <1>1, <1>3
<1>8. QED
  BY <1>3, <1>4, <1>5, <1>6, <1>7

LEMMA StepStop ==
    ASSUME Decoding, StopBit
    PROVE  DecodeInv'
<1>1. /\ AtPulse /\ bit = 0 /\ ~need_start_bit /\ need_stop_bit /\ pulses # << >>
      /\ UNCHANGED signalVars /\ UNCHANGED scanVars /\ pulses' = Tail(pulses)
      /\ ans' = Append(ans, current_byte) /\ bit' = bit /\ need_start_bit' /\ ~need_stop_bit'
  BY DEF StopBit, AtPulse
<1>2. sent' = sent /\ Places' = Places
  BY <1>1, DecodeSame
<1>3. /\ current_byte = sent[Current].byte
      /\ Current < Frames /\ Edge(Taken + 1) = Places[Current + 1]
  BY <1>1, StopHere
<1>4. /\ Current' = Current + 1 /\ Current' <= Frames
      /\ \A i \in 1..Len(ans') : ans'[i] = sent'[i].byte
  BY <1>1, <1>2, <1>3, ByteEnds
<1>5. Taken' > 0 /\ Edge(Taken)' = Edge(Taken + 1)
  BY <1>1, Consumed
<1>6. Here' = Places[Current + 1]
  <2>1. Edge(Taken + 1) \in Nat
    BY <1>1, PulseHere
  <2>2. Here' = Edge(Taken + 1) + 0
    BY <1>1, <1>5 DEF Here
  <2>3. QED
    BY <2>1, <2>2, <1>3
<1>7. AtStart'
  BY <1>1, <1>2, <1>4, <1>6 DEF AtStart
<1>8. ~(bit' > 0)
  BY <1>1
<1>9. QED
  BY <1>4, <1>5, <1>7, <1>8 DEF DecodeInv

LEMMA NoStopFailure ==
    ASSUME Decoding
    PROVE  ~StopBitFails
  BY StopHere DEF StopBitFails

LEMMA NoEmptyPulse ==
    ASSUME Decoding
    PROVE  ~EmptyPulse
<1> SUFFICES ASSUME EmptyPulse PROVE FALSE
  OBVIOUS
<1>1. pulses # << >> /\ PulseLen = 0
  BY DEF EmptyPulse, InFrame, AtPulse
<1>2. bit < PulseLen /\ bit \in Nat
  BY <1>1, PulseHere, DecodingMeans
<1>3. QED
  BY <1>1, <1>2

\* Data bits.
LEMMA FramePhase ==
    ASSUME Decoding, InFrame
    PROVE  pulses # << >> /\ (InData \/ PastStop)
<1>1. pulses # << >> /\ (bit > 0 \/ (~need_start_bit /\ ~need_stop_bit))
  BY DEF InFrame, AtPulse
<1>2. AtStart \/ InData \/ AtStop \/ PastStop
  BY DecodingMeans
<1>3. ~AtStart /\ ~AtStop
  BY <1>1, DecodingMeans DEF AtStart, AtStop
<1>4. QED
  BY <1>1, <1>2, <1>3

\* The loop past the end of a frame neither overflows nor completes another byte.
LEMMA PastStopHere ==
    ASSUME Decoding, pulses # << >>, NEW k \in 1..Frames, k = Len(ans), sent[k].byte >= 128,
           NEW x \in 0..sent[k].idle, place_val = 2^x,
           overflow_checks => current_byte = sent[k].byte + 2^x - 1, logic
    PROVE  /\ x \in 0..6 /\ sent[k].idle \in 0..6 /\ 2^(x + 1) = 2^x * 2
           /\ 2^x * 2 < 256
           /\ ~(overflow_checks /\ Sum > 255)
           /\ overflow_checks => Sum % 256 = sent[k].byte + 2^(x + 1) - 1
<1>1. TypeInv /\ Good
  BY DEF Decoding
<1>2. PICK d \in Nat : d = sent[k].idle /\ d \in 0..6 /\ x \in 0..d
  <2>1. sent[k].idle \in Nat /\ sent[k].idle <= 6
    BY <1>1, FrameAt
  <2>2. QED
    BY <2>1
<1>3. PICK b \in UInt8 : b = sent[k].byte /\ b >= 128 /\ (overflow_checks => b + 2^(d + 1) <= 256)
  BY <1>1, <1>2, FrameAt
<1>4. x \in 0..6 /\ x \in 0..7 /\ x + 1 \in 0..7 /\ d + 1 \in 0..7 /\ x + 1 <= d + 1
  BY <1>2, SMTT(30)
<1>5. PICK v \in 1..128 : v = 2^x
  BY <1>4, PowerDoubles
<1>6. 2^(x + 1) = v * 2 /\ v * 2 \in 1..128
  <2>1. 2^(x + 1) = 2^x * 2
    BY <1>4, PowerDoubles
  <2>2. 2^(x + 1) \in 1..128
    BY <1>4, PowerDoubles
  <2>3. QED
    BY <2>1, <2>2, <1>5
<1>7. 2^(x + 1) <= 2^(d + 1) /\ 2^(d + 1) \in 1..128
  BY <1>4, PowerGrows, PowerDoubles
<1>8. PICK w \in 1..128 : w = 2^(d + 1) /\ v * 2 <= w
  BY <1>6, <1>7
<1>9. ASSUME overflow_checks
      PROVE  Sum = b + v * 2 - 1 /\ Sum <= 255 /\ Sum \in Nat
  <2>1. current_byte = b + v - 1 /\ place_val = v
    BY <1>3, <1>5, <1>9
  <2>2. b \in Nat /\ b + w <= 256
    <3>1. b + w <= 256
      BY <1>3, <1>8, <1>9, Zenon
    <3>2. b \in Nat
      BY DEF UInt8
    <3>3. QED
      BY <3>1, <3>2
  <2>3. Sum = current_byte + place_val
    BY DEF Sum
  <2>4. Sum = b + v - 1 + v
    BY <2>1, <2>3
  <2>5. QED
    BY <2>2, <2>4, <1>8
<1>10. overflow_checks => Sum % 256 = b + v * 2 - 1
  <2>1. \A s \in Nat : s <= 255 => s % 256 = s
    OBVIOUS
  <2>2. overflow_checks => Sum % 256 = Sum
    BY <2>1, <1>9, Zenon
  <2>3. QED
    BY <2>2, <1>9, Zenon
<1>11. ~(overflow_checks /\ Sum > 255)
  BY <1>9
<1>12. v * 2 < 256
  BY <1>6
<1>13. QED
  BY <1>2, <1>3, <1>4, <1>5, <1>6, <1>10, <1>11, <1>12

LEMMA PastStopMeans ==
    ASSUME Decoding, PastStop
    PROVE  \E k \in 1..Frames : \E x \in 0..sent[k].idle :
              /\ k = Len(ans) /\ Current = k + 1 /\ sent[k].byte >= 128
              /\ Here = Places[k] + 9 + x
              /\ place_val = 2^x
              /\ overflow_checks => current_byte = sent[k].byte + 2^x - 1
<1>1. Len(ans) \in Nat /\ Current \in 1..Frames /\ Frames \in Nat
  BY DecodingMeans
<1>2. Len(ans) > 0 /\ Current = Len(ans) + 1
  BY DEF PastStop, Current
<1>3. PICK k \in 1..Frames : k = Len(ans)
  BY <1>1, <1>2
<1>4. /\ sent[k].byte >= 128
      /\ \E x \in 0..sent[k].idle :
            /\ Here = Places[k] + 9 + x
            /\ place_val = 2^x
            /\ overflow_checks => current_byte = sent[k].byte + 2^x - 1
  BY <1>3, Zenon DEF PastStop
<1>5. QED
  BY <1>2, <1>3, <1>4

LEMMA StepData ==
    ASSUME Decoding, DataBit
    PROVE  DecodeInv'
<1>1. /\ UNCHANGED signalVars /\ UNCHANGED scanVars /\ NextSymbol /\ InFrame
      /\ ans' = ans /\ need_start_bit' = need_start_bit /\ need_stop_bit' = need_stop_bit
      /\ place_val * 2 < 256 /\ current_byte' = Sum % 256 /\ place_val' = place_val * 2
  BY DEF DataBit
<1>2. /\ sent' = sent /\ Places' = Places /\ Current' = Current /\ Len(ans') = Len(ans)
      /\ overflow_checks' = overflow_checks
  BY <1>1, DecodeSame DEF Current
<1>3. pulses # << >> /\ (InData \/ PastStop)
  BY <1>1, FramePhase
<1>4. /\ Taken' > 0 /\ Here' = Here + 1
      /\ bit' > 0 => pulses' # << >> /\ bit' < (Edge(Taken + 1) - Edge(Taken))'
      /\ LastOfPulse => bit' = 0
      /\ ~LastOfPulse => bit' > 0 /\ logic' = logic /\ Edge(Taken + 1)' = Edge(Taken + 1)
  BY <1>1, <1>3, NextSymbolGoesOn
<1>5. /\ Current \in 1..Frames /\ Len(ans) \in Nat /\ Frames \in Nat
      /\ \A i \in 1..Len(ans) : ans[i] = sent[i].byte
  BY DecodingMeans
<1>6. InData => InData'
  <2> SUFFICES ASSUME InData PROVE InData'
    OBVIOUS
  <2>1. PICK i \in 0..7 :
            /\ Here = Places[Current] + 1 + i
            /\ place_val = 2^i
            /\ current_byte = sent[Current].byte % 2^i
    BY DEF InData
  <2>2. Sum = sent[Current].byte % 2^(i + 1) /\ Sum % 256 = Sum
    BY <1>3, <2>1, DataHere
  <2>3. i # 7
    <3>1. i = 7 => place_val = 128
      BY <2>1, Powers
    <3>2. QED
      BY <3>1, <1>1
  <2>4. PICK j \in 0..7 : j = i + 1
    BY <2>3
  <2>5. place_val' = 2^j
    <3>1. 2^(i + 1) = 2^i * 2
      BY PowerDoubles
    <3>2. QED
      BY <3>1, <2>1, <2>4, <1>1
  <2>6. current_byte' = sent[Current].byte % 2^j
    BY <2>2, <2>4, <1>1
  <2>7. Here' = Places[Current] + 1 + j
    <3>1. Places[Current] \in Nat
      BY <1>5, FrameAt DEF Decoding
    <3>2. \A p \in Nat : (p + 1 + i) + 1 = p + 1 + j
      BY <2>4
    <3>3. QED
      BY <3>1, <3>2, <2>1, <1>4
  <2>8. ~need_start_bit' /\ ~need_stop_bit'
    BY <1>1 DEF InData
  <2>9. QED
    BY <2>5, <2>6, <2>7, <2>8, <1>2 DEF InData
<1>7. PastStop => AtStart' \/ PastStop'
  <2> SUFFICES ASSUME PastStop PROVE AtStart' \/ PastStop'
    OBVIOUS
  <2>1. PICK k \in 1..Frames : \E x \in 0..sent[k].idle :
              /\ k = Len(ans) /\ Current = k + 1 /\ sent[k].byte >= 128
              /\ Here = Places[k] + 9 + x
              /\ place_val = 2^x
              /\ overflow_checks => current_byte = sent[k].byte + 2^x - 1
    BY PastStopMeans
  <2>2. PICK x \in 0..sent[k].idle :
              /\ k = Len(ans) /\ Current = k + 1 /\ sent[k].byte >= 128
              /\ Here = Places[k] + 9 + x
              /\ place_val = 2^x
              /\ overflow_checks => current_byte = sent[k].byte + 2^x - 1
    BY <2>1
  <2>3. logic /\ Edge(Taken + 1) = Places[Current] /\ need_start_bit /\ ~need_stop_bit
    BY DEF PastStop
  <2>4. /\ x \in 0..6 /\ sent[k].idle \in 0..6 /\ 2^(x + 1) = 2^x * 2
        /\ overflow_checks => Sum % 256 = sent[k].byte + 2^(x + 1) - 1
    BY <1>3, <2>2, <2>3, PastStopHere
  <2>5. PICK h \in Nat, p \in Nat, q \in Nat, d \in Nat :
            h = Here /\ p = Places[k] /\ q = Places[k + 1] /\ d = sent[k].idle /\ q = p + 10 + d
    <3>1. Here \in Nat
      BY <1>3, PulseHere
    <3>2. /\ Places[k] \in Nat /\ Places[k + 1] \in Nat /\ sent[k].idle \in Nat
          /\ Places[k + 1] = Places[k] + 10 + sent[k].idle
      BY FrameAt DEF Decoding
    <3>3. QED
      BY <3>1, <3>2, Zenon
  <2>6. h = p + 9 + x
    BY <2>2, <2>5, Zenon
  <2>7. LastOfPulse <=> q = h + 1
    BY <1>3, <2>2, <2>3, <2>5, PulseHere
  <2>8. CASE LastOfPulse
    <3>1. bit' = 0 /\ Here' = q
      BY <2>5, <2>7, <2>8, <1>4
    <3>2. Here' = Places'[Current']
      BY <3>1, <2>2, <2>5, <1>2
    <3>3. AtStart'
      BY <3>1, <3>2, <2>3, <1>1 DEF AtStart
    <3>4. QED
      BY <3>3
  <2>9. CASE ~LastOfPulse
    <3>1. /\ bit' > 0 /\ logic' /\ Edge(Taken + 1)' = Places'[Current']
          /\ need_start_bit' /\ ~need_stop_bit'
      BY <2>3, <2>9, <1>1, <1>2, <1>4
    <3>2. h < q
      BY <1>3, <2>2, <2>3, <2>5, PulseHere
    <3>3. PICK y \in 0..d : y = x + 1
      BY <3>2, <2>5, <2>6, <2>7, <2>9
    <3>4. Here' = Places'[k] + 9 + y
      <4>1. h + 1 = p + 9 + y
        BY <2>6, <3>3
      <4>2. QED
        BY <4>1, <2>5, <1>2, <1>4, Zenon
    <3>5. place_val' = 2^y
      BY <2>2, <2>4, <3>3, <1>1
    <3>6. overflow_checks' => current_byte' = sent'[k].byte + 2^y - 1
      BY <2>4, <3>3, <1>1, <1>2
    <3>7. Len(ans') = k /\ Len(ans') > 0 /\ sent'[k].byte >= 128 /\ y \in 0..sent'[k].idle
      BY <2>2, <2>5, <1>2
    <3>8. PastStop'
      BY <3>1, <3>4, <3>5, <3>6, <3>7 DEF PastStop
    <3>9. QED
      BY <3>8
  <2>10. QED
    BY <2>8, <2>9
<1>8. /\ \A i \in 1..Len(ans') : ans'[i] = sent'[i].byte
      /\ Current' <= Frames
  BY <1>1, <1>2, <1>5
<1>9. QED
  BY <1>3, <1>4, <1>6, <1>7, <1>8 DEF DecodeInv

LEMMA LastBitIs ==
    ASSUME NEW i \in 0..7, 2^i * 2 >= 256
    PROVE  i = 7 /\ 2^i = 128
<1>1. ASSUME NEW p \in Nat, IsPower(i, p), p * 2 >= 256
      PROVE  i = 7 /\ p = 128
  BY <1>1 DEF IsPower
<1>2. IsPower(i, 2^i) /\ 2^i \in Nat
  <2>1. IsPower(i, 2^i) /\ 2^i \in 1..128
    BY PowerIs, PowerDoubles
  <2>2. QED
    BY <2>1
<1>3. QED
  BY <1>1, <1>2

\* The eighth bit.
LEMMA LastBitHere ==
    ASSUME Decoding, InFrame, place_val * 2 >= 256
    PROVE  /\ InData /\ ~(overflow_checks /\ Sum > 255)
           /\ Here = Places[Current] + 8
           /\ Sum % 256 = sent[Current].byte
           /\ logic => sent[Current].byte >= 128
<1>1. pulses # << >> /\ (InData \/ PastStop)
  BY FramePhase
<1>2. ~PastStop
  <2> SUFFICES ASSUME PastStop PROVE FALSE
    OBVIOUS
  <2>1. PICK k \in 1..Frames : \E x \in 0..sent[k].idle :
              /\ k = Len(ans) /\ Current = k + 1 /\ sent[k].byte >= 128
              /\ Here = Places[k] + 9 + x
              /\ place_val = 2^x
              /\ overflow_checks => current_byte = sent[k].byte + 2^x - 1
    BY PastStopMeans
  <2>2. PICK x \in 0..sent[k].idle :
              /\ k = Len(ans) /\ sent[k].byte >= 128
              /\ place_val = 2^x
              /\ overflow_checks => current_byte = sent[k].byte + 2^x - 1
    BY <2>1
  <2>3. 2^x * 2 < 256 /\ x \in 0..6
    BY <1>1, <2>2, PastStopHere DEF PastStop
  <2>4. 2^x \in 1..128
    <3>1. x \in 0..7
      BY <2>3
    <3>2. QED
      BY <3>1, PowerDoubles, Zenon
  <2>5. PICK v \in 1..128 : v = 2^x
    BY <2>4
  <2>6. QED
    BY <2>2, <2>3, <2>5
<1>3. PICK i \in 0..7 :
          /\ Here = Places[Current] + 1 + i
          /\ place_val = 2^i
          /\ current_byte = sent[Current].byte % 2^i
  BY <1>1, <1>2 DEF InData
<1>4. i = 7 /\ place_val = 128
  BY <1>3, LastBitIs
<1>5. /\ Sum = sent[Current].byte % 2^(i + 1)
      /\ Sum \in Nat /\ Sum <= 255 /\ Sum % 256 = Sum
  BY <1>1, <1>3, DataHere
<1>6. sent[Current].byte \in UInt8 /\ Places[Current] \in Nat
  BY DecodingMeans, FrameAt DEF Decoding
<1>7. Sum = sent[Current].byte
  <2>1. i + 1 = 8
    BY <1>4
  <2>2. sent[Current].byte % 2^8 = sent[Current].byte
    BY <1>6, WholeByte
  <2>3. QED
    BY <2>1, <2>2, <1>5
<1>8. Here = Places[Current] + 8
  <2>1. \A p \in Nat : p + 1 + 7 = p + 8
    OBVIOUS
  <2>2. Here = Places[Current] + 1 + 7
    BY <1>3, <1>4
  <2>3. QED
    BY <2>1, <2>2, <1>6
<1>9. logic => Sum >= 128
  <2>1. current_byte \in Nat
    BY <1>6, <1>3, ByteBits
  <2>2. logic => Sum = current_byte + 128
    BY <1>4 DEF Sum
  <2>3. QED
    BY <2>1, <2>2
<1>10. ~(overflow_checks /\ Sum > 255)
  BY <1>5
<1>11. QED
  BY <1>1, <1>2, <1>5, <1>7, <1>8, <1>9, <1>10

LEMMA StepLastData ==
    ASSUME Decoding, LastDataBit
    PROVE  DecodeInv'
<1>1. /\ UNCHANGED signalVars /\ UNCHANGED scanVars /\ NextSymbol /\ InFrame
      /\ place_val * 2 >= 256 /\ current_byte' = Sum % 256 /\ place_val' = 1
      /\ LastOfPulse \/ logic
  BY DEF LastDataBit
<1>2. sent' = sent /\ Places' = Places /\ overflow_checks' = overflow_checks
  BY <1>1, DecodeSame
<1>3. pulses # << >>
  BY <1>1, FramePhase
<1>4. /\ Taken' > 0 /\ Here' = Here + 1
      /\ bit' > 0 => pulses' # << >> /\ bit' < (Edge(Taken + 1) - Edge(Taken))'
      /\ LastOfPulse => bit' = 0
      /\ ~LastOfPulse => bit' > 0 /\ logic' = logic /\ Edge(Taken + 1)' = Edge(Taken + 1)
  BY <1>1, <1>3, NextSymbolGoesOn
<1>5. PICK k \in 1..Frames : k = Current /\ \A i \in 1..Len(ans) : ans[i] = sent[i].byte
  BY DecodingMeans
<1>6. PICK p \in Nat, b \in UInt8 : p = Places[k] /\ b = sent[k].byte
  BY FrameAt DEF Decoding
<1>7. /\ InData /\ Here = p + 8 /\ current_byte' = b
      /\ logic => b >= 128
  BY <1>1, <1>5, <1>6, LastBitHere
<1>8. Here' = p + 9
  BY <1>4, <1>7
<1>9. CASE LastOfPulse
  <2>1. need_stop_bit' /\ ~need_start_bit' /\ ans' = ans
    BY <1>7, <1>9 DEF LastDataBit, InData
  <2>2. Current' = Current
    BY <2>1 DEF Current
  <2>3. AtStop'
    BY <2>1, <2>2, <1>2, <1>4, <1>5, <1>6, <1>7, <1>8, <1>9 DEF AtStop
  <2>4. Current' <= Frames /\ \A i \in 1..Len(ans') : ans'[i] = sent'[i].byte
    BY <2>1, <2>2, <1>2, <1>5, DecodingMeans
  <2>5. QED
    BY <2>3, <2>4, <1>4 DEF DecodeInv
<1>10. CASE ~LastOfPulse
  <2>1. logic /\ b >= 128
    BY <1>1, <1>7, <1>10
  <2>2. ans' = Append(ans, b) /\ ~need_stop_bit' /\ need_start_bit'
    BY <1>7, <1>10 DEF LastDataBit
  <2>3. Here <= p + 9 /\ Edge(Taken + 1) >= p + 10
    <3>1. PICK h \in Nat, e2 \in Nat : h = Here /\ e2 = Edge(Taken + 1)
      BY <1>3, PulseHere
    <3>2. h < e2 /\ e2 # h + 1
      BY <3>1, <1>3, <1>10, PulseHere
    <3>3. h = p + 8
      BY <3>1, <1>7
    <3>4. QED
      BY <3>1, <3>2, <3>3
  <2>4. k < Frames /\ Edge(Taken + 1) = Places[k + 1]
    BY <2>1, <2>3, <1>3, <1>6, HighEnds
  <2>5. /\ Current' = Current + 1 /\ Current' <= Frames /\ Len(ans') = Current
        /\ \A i \in 1..Len(ans') : ans'[i] = sent'[i].byte
    BY <2>2, <2>4, <1>2, <1>5, <1>6, ByteEnds
  <2>6. Edge(Taken + 1)' = Places'[Current'] /\ Len(ans') = k
    BY <2>4, <2>5, <1>2, <1>4, <1>5, <1>10
  <2>7. PICK x \in 0..sent[k].idle : x = 0
    <3>1. sent[k].idle \in Nat
      BY FrameAt DEF Decoding
    <3>2. QED
      BY <3>1
  <2>8. Here' = Places'[k] + 9 + x
    <3>1. p + 9 = p + 9 + x
      BY <2>7
    <3>2. QED
      BY <3>1, <1>2, <1>6, <1>8, Zenon
  <2>9. place_val' = 2^x
    BY <2>7, <1>1, Powers
  <2>10. current_byte' = sent'[k].byte + 2^x - 1
    <3>1. 2^x = 1 /\ b \in Nat
      BY <2>7, Powers DEF UInt8
    <3>2. b = b + 2^x - 1
      BY <3>1
    <3>3. QED
      BY <3>2, <1>2, <1>6, <1>7
  <2>11. k > 0 /\ sent'[k].byte >= 128 /\ x \in 0..sent'[k].idle
    BY <2>1, <1>2, <1>6
  <2>12. logic' /\ bit' > 0
    BY <2>1, <1>4, <1>10
  <2>13. PastStop'
    BY <2>2, <2>6, <2>8, <2>9, <2>10, <2>11, <2>12 DEF PastStop
  <2>14. QED
    BY <2>5, <2>13, <1>4 DEF DecodeInv
<1>11. QED
  BY <1>9, <1>10

LEMMA NoDataFailure ==
    ASSUME Decoding
    PROVE  ~DataBitFails
<1> SUFFICES ASSUME DataBitFails PROVE FALSE
  OBVIOUS
<1>1. InFrame /\ pulses # << >> /\ (InData \/ PastStop)
  <2>1. InFrame
    BY DEF DataBitFails
  <2>2. QED
    BY <2>1, FramePhase
<1>2. ~(overflow_checks /\ Sum > 255)
  <2>1. InData => ~(overflow_checks /\ Sum > 255)
    <3> SUFFICES ASSUME InData PROVE ~(overflow_checks /\ Sum > 255)
      OBVIOUS
    <3>1. PICK i \in 0..7 :
              /\ Here = Places[Current] + 1 + i
              /\ place_val = 2^i
              /\ current_byte = sent[Current].byte % 2^i
      BY DEF InData
    <3>2. Sum \in Nat /\ Sum <= 255
      BY <1>1, <3>1, DataHere
    <3>3. QED
      BY <3>2
  <2>2. PastStop => ~(overflow_checks /\ Sum > 255)
    <3> SUFFICES ASSUME PastStop PROVE ~(overflow_checks /\ Sum > 255)
      OBVIOUS
    <3>1. PICK k \in 1..Frames : \E x \in 0..sent[k].idle :
                /\ k = Len(ans) /\ Current = k + 1 /\ sent[k].byte >= 128
                /\ Here = Places[k] + 9 + x
                /\ place_val = 2^x
                /\ overflow_checks => current_byte = sent[k].byte + 2^x - 1
      BY PastStopMeans
    <3>2. QED
      BY <1>1, <3>1, PastStopHere DEF PastStop
  <2>3. QED
    BY <2>1, <2>2, <1>1
<1>3. place_val * 2 >= 256 /\ ~LastOfPulse /\ ~logic
  BY <1>2 DEF DataBitFails
<1>4. Here = Places[Current] + 8
  BY <1>1, <1>3, LastBitHere
<1>5. PICK k \in 1..Frames : k = Current
  BY DecodingMeans
<1>6. PICK h \in Nat, e2 \in Nat, p \in Nat : h = Here /\ e2 = Edge(Taken + 1) /\ p = Places[k]
  BY <1>1, PulseHere, FrameAt DEF Decoding
<1>7. h < e2 /\ e2 # h + 1 /\ Steady(h, e2, logic)
  BY <1>1, <1>3, <1>6, PulseHere
<1>8. h = p + 8
  BY <1>4, <1>5, <1>6, Zenon
<1>9. p + 10 \in h + 1..e2
  BY <1>7, <1>8
<1>10. line[p + 10] = 0
  BY <1>3, <1>7, <1>9 DEF Steady, Sym
<1>11. line[p + 10] = 1
  <2>1. 10 \in 10..10 + sent[k].idle
    BY FrameAt DEF Decoding
  <2>2. QED
    BY <2>1, <1>6, FrameAt DEF Decoding
<1>12. QED
  BY <1>10, <1>11

\* When the pulses are consumed, what is left of the line is the end of the last frame.
LEMMA OnlyLastIsLeft ==
    ASSUME Decoding, pulses = << >>
    PROVE  Current = Frames
<1>1. /\ Taken \in Nat \ {0} /\ bit = 0 /\ Frames \in Nat
      /\ AtStart \/ InData \/ AtStop
  <2>1. /\ bit \in Nat /\ ~(bit > 0) /\ Taken \in Nat \ {0} /\ Frames \in Nat
        /\ AtStart \/ InData \/ AtStop \/ PastStop
    BY DecodingMeans
  <2>2. ~PastStop
    BY <2>1, Zenon DEF PastStop
  <2>3. bit = 0
    BY <2>1
  <2>4. QED
    BY <2>1, <2>2, <2>3, Zenon
<1>2. PICK k \in 1..Frames : k = Current
  BY DecodingMeans
<1>3. PICK p \in Nat, q \in Nat, d \in Nat :
          p = Places[k] /\ q = Places[k + 1] /\ d = sent[k].idle /\ q = p + 10 + d
  <2>1. /\ Places[k] \in Nat /\ Places[k + 1] \in Nat /\ sent[k].idle \in Nat
        /\ Places[k + 1] = Places[k] + 10 + sent[k].idle
    BY FrameAt DEF Decoding
  <2>2. QED
    BY <2>1, Zenon
<1>4. Taken = Len(transitions)
  <2>1. Len(transitions) \in Nat /\ Len(pulses) = 0
    BY DEF Decoding, TypeInv, TypeOK
  <2>2. QED
    BY <2>1 DEF Taken
<1>5. PICK h \in Nat : h = Edge(Taken)
  <2>1. Len(transitions) \in 0..Len(transitions)
    BY TransitionAt DEF Decoding
  <2>2. QED
    BY <2>1, <1>4, EdgeNat DEF Decoding
<1>6. Here = h
  <2>1. Here = h + 0
    BY <1>1, <1>5 DEF Here
  <2>2. QED
    BY <2>1
<1>7. PICK L \in Nat : L = Len(line) /\ q <= L /\ Steady(h, L, currently_high)
  <2>1. Len(line) \in Nat /\ Places[k + 1] <= Len(line)
    BY FrameAt DEF Decoding
  <2>2. Steady(h, Len(line), currently_high)
    BY <1>4, <1>5 DEF Decoding, Found, LastEdge
  <2>3. QED
    BY <2>1, <2>2, <1>3, Zenon
<1>8. line[p + 1] = 0 /\ line[p + 10] = 1
  <2>1. 10 \in 10..10 + sent[k].idle
    BY <1>3
  <2>2. QED
    BY <2>1, <1>3, FrameAt DEF Decoding
<1>9. p <= h /\ h <= p + 9
  <2>1. CASE AtStart
    <3>1. h = p
      BY <2>1, <1>2, <1>3, <1>6 DEF AtStart
    <3>2. QED
      BY <3>1
  <2>2. CASE InData
    <3>1. PICK i \in 0..7 : h = p + 1 + i
      BY <2>2, <1>2, <1>3, <1>6, Zenon DEF InData
    <3>2. QED
      BY <3>1
  <2>3. CASE AtStop
    <3>1. h = p + 9
      BY <2>3, <1>2, <1>3, <1>6, Zenon DEF AtStop
    <3>2. QED
      BY <3>1
  <2>4. QED
    BY <2>1, <2>2, <2>3, <1>1
<1>10. line[p + 10] = Sym(currently_high)
  <2>1. p + 10 \in h + 1..L
    <3>1. q = p + 10 + d /\ q <= L /\ p <= h /\ h <= p + 9
      BY <1>3, <1>7, <1>9, Zenon
    <3>2. QED
      BY <3>1
  <2>2. QED
    BY <2>1, <1>7 DEF Steady
<1>11. k = Frames
  <2> SUFFICES ASSUME k # Frames PROVE FALSE
    OBVIOUS
  <2>1. PICK j \in 1..Frames : j = k + 1 /\ k < Frames
    BY <1>1
  <2>2. line[q + 1] = 0
    BY <2>1, <1>3, FrameAt DEF Decoding
  <2>3. q + 1 <= L
    <3>1. /\ Places[j + 1] \in Nat /\ Places[j + 1] <= Len(line) /\ sent[j].idle \in Nat
          /\ Places[j + 1] = Places[j] + 10 + sent[j].idle
      BY FrameAt DEF Decoding
    <3>2. Places[j] = q
      BY <2>1, <1>3
    <3>3. QED
      BY <3>1, <3>2, <1>7
  <2>4. q + 1 \in h + 1..L
    <3>1. q = p + 10 + d /\ p <= h /\ h <= p + 9
      BY <1>3, <1>9, Zenon
    <3>2. QED
      BY <2>3, <3>1
  <2>5. line[q + 1] = Sym(currently_high)
    BY <2>4, <1>7 DEF Steady
  <2>6. QED
    BY <2>2, <2>5, <1>8, <1>10
<1>12. QED
  BY <1>2, <1>11

LEMMA StepDone ==
    ASSUME Decoding, Done
    PROVE  EndInv'
<1>1. pulses = << >> /\ pc' = "ok" /\ UNCHANGED signalVars /\ ans' = ans
  BY DEF Done, Ends, frameVars
<1>2. sent' = sent
  BY <1>1, DecodeSame
<1>3. Current = Frames /\ Len(ans) \in Nat /\ Frames \in Nat
      /\ \A i \in 1..Len(ans) : ans[i] = sent[i].byte
  BY <1>1, OnlyLastIsLeft, DecodingMeans
<1>4. Len(ans) = Frames - 1
  BY <1>3 DEF Current
<1>5. QED
  BY <1>1, <1>2, <1>3, <1>4 DEF EndInv

LEMMA DecodeStarts ==
    ASSUME TypeInv, Good, Found, PulsesInv, SearchInv, Search, pc' = "decode"
    PROVE  DecodeInv'
<1>1. Taken' \in Nat \ {0} /\ Edge(Taken)' = Places[1]
  BY SearchGoesOn DEF Good
<1>2. UNCHANGED signalVars /\ UNCHANGED frameVars /\ pc = "search"
  BY DEF Search
<1>3. sent' = sent /\ Places' = Places
  BY <1>2, DecodeSame
<1>4. bit' = 0 /\ need_start_bit' /\ ~need_stop_bit' /\ ans' = << >>
  BY <1>2 DEF TypeInv, FreshInv, frameVars
<1>5. Current' = 1 /\ Len(ans') = 0
  BY <1>4 DEF Current
<1>6. Frames \in Nat \ {0} /\ 1 \in 1..Frames
  BY ConstantsAssumption
<1>7. Here' = Places[1]
  <2>1. Places[1] \in Nat
    BY <1>6, FrameAt
  <2>2. Here' = Places[1] + 0
    BY <1>1, <1>4 DEF Here
  <2>3. QED
    BY <2>1, <2>2
<1>8. AtStart'
  BY <1>3, <1>4, <1>5, <1>7 DEF AtStart
<1>9. Current' <= Frames /\ ~(bit' > 0) /\ Taken' > 0
  BY <1>1, <1>4, <1>5, <1>6
<1>10. \A i \in 1..Len(ans') : ans'[i] = sent'[i].byte
  BY <1>5
<1>11. QED
  BY <1>8, <1>9, <1>10 DEF DecodeInv

-----------------------------------------------------------------------------
(* The decoder *)

LEMMA DecodeFrame ==
    ASSUME Decode
    PROVE  /\ UNCHANGED signalVars /\ UNCHANGED scanVars /\ pc = "decode"
           /\ \/ pc' \in Ended
              \/ /\ pc' = "decode"
                 /\ pulses' = pulses \/ (pulses # << >> /\ pulses' = Tail(pulses))
<1>1. CASE StartBit
  BY <1>1 DEF StartBit, AtPulse
<1>2. CASE StartBitFails
  BY <1>2 DEF StartBitFails, Ends, Ended, AtPulse
<1>3. CASE StopBit
  BY <1>3 DEF StopBit, AtPulse
<1>4. CASE StopBitFails
  BY <1>4 DEF StopBitFails, Ends, Ended, AtPulse
<1>5. CASE EmptyPulse
  BY <1>5 DEF EmptyPulse, InFrame, AtPulse
<1>6. CASE DataBit
  BY <1>6 DEF DataBit, InFrame, AtPulse, NextSymbol
<1>7. CASE LastDataBit
  BY <1>7 DEF LastDataBit, InFrame, AtPulse, NextSymbol
<1>8. CASE DataBitFails
  BY <1>8 DEF DataBitFails, Ends, Ended, InFrame, AtPulse
<1>9. CASE Done
  BY <1>9 DEF Done, Ends, Ended
<1>10. QED
  BY <1>1, <1>2, <1>3, <1>4, <1>5, <1>6, <1>7, <1>8, <1>9 DEF Decode

LEMMA DecodeStep ==
    ASSUME TypeInv, FoundInv, PulsesInv, DecodeInv, Decode
    PROVE  FoundInv' /\ PulsesInv' /\ DecodeInv' /\ EndInv'
<1>1. /\ UNCHANGED signalVars /\ UNCHANGED scanVars /\ pc = "decode"
      /\ \/ pc' \in Ended
         \/ /\ pc' = "decode"
            /\ pulses' = pulses \/ (pulses # << >> /\ pulses' = Tail(pulses))
  BY DecodeFrame
<1>2. FoundInv'
  BY <1>1, FoundSame DEF FoundInv
<1>3. PulsesInv'
  <2>1. CASE pc' \in Ended
    BY <2>1 DEF PulsesInv, Ended
  <2>2. CASE pc' \notin Ended
    BY <1>1, <2>2, PulsesGoOn
  <2>3. QED
    BY <2>1, <2>2
<1>4. Good' = Good
  BY <1>1, DecodeSame
<1>5. ASSUME Good PROVE DecodeInv' /\ EndInv'
  <2>1. Decoding
    BY <1>1, <1>5 DEF Decoding, FoundInv, Good
  <2>2. /\ ~StartBitFails /\ ~StopBitFails /\ ~EmptyPulse /\ ~DataBitFails
    BY <2>1, NoStartFailure, NoStopFailure, NoEmptyPulse, NoDataFailure
  <2>3. CASE StartBit \/ StopBit \/ DataBit \/ LastDataBit
    <3>1. DecodeInv'
      BY <2>1, <2>3, StepStart, StepStop, StepData, StepLastData
    <3>2. pc' = pc
      BY <2>3 DEF StartBit, StopBit, DataBit, LastDataBit
    <3>3. EndInv'
      BY <3>2, <1>1 DEF EndInv, Ended
    <3>4. QED
      BY <3>1, <3>3
  <2>4. CASE Done
    <3>1. EndInv'
      BY <2>1, <2>4, StepDone
    <3>2. pc' = "ok"
      BY <2>4 DEF Done, Ends
    <3>3. QED
      BY <3>1, <3>2 DEF DecodeInv
  <2>5. QED
    BY <2>2, <2>3, <2>4 DEF Decode
<1>6. CASE ~Good
  <2>1. DecodeInv' /\ EndInv'
    BY <1>4, <1>6 DEF DecodeInv, EndInv
  <2>2. QED
    BY <1>2, <1>3, <2>1
<1>7. QED
  BY <1>2, <1>3, <1>5, <1>6

Inv ==
    /\ TypeInv /\ ThresholdsInv /\ ScanInv /\ FoundInv /\ PulsesInv
    /\ SearchInv /\ DecodeInv /\ EndInv

LEMMA InvInit == Init => Inv
<1> SUFFICES ASSUME Init PROVE Inv
  OBVIOUS
<1>1. pc = "sending"
  BY DEF Init
<1>2. TypeInv
  BY TypeInit
<1>3. QED
  BY <1>1, <1>2
     DEF Inv, ThresholdsInv, ScanInv, FoundInv, PulsesInv, SearchInv, DecodeInv, EndInv, Ended

LEMMA InvStep ==
    ASSUME Inv, [Next]_vars
    PROVE  Inv'
<1>1. /\ TypeInv /\ ThresholdsInv /\ ScanInv /\ FoundInv /\ PulsesInv
      /\ SearchInv /\ DecodeInv /\ EndInv
  BY DEF Inv
<1>2. TypeInv'
  BY <1>1, TypeStep
<1>3. ThresholdsInv' /\ ScanInv'
  BY <1>1, ScanStep
<1>4. CASE SendFrame \/ Capture \/ Measure \/ Scan
  <2>1. pc' \in {"sending", "measure", "scan"}
    BY <1>4 DEF SendFrame, Capture, Measure, Scan
  <2>2. FoundInv' /\ PulsesInv' /\ SearchInv' /\ DecodeInv' /\ EndInv'
    BY <2>1 DEF FoundInv, PulsesInv, SearchInv, DecodeInv, EndInv, Ended
  <2>3. QED
    BY <1>2, <1>3, <2>2 DEF Inv
<1>5. CASE MeasureFails
  <2>1. pc' = "panicked" /\ UNCHANGED signalVars
    BY <1>5 DEF MeasureFails, Ends
  <2>2. Good' = Good /\ ~Signal
    BY <1>1, <1>5, <2>1, DecodeSame, NoPanic
  <2>3. EndInv'
    BY <2>2 DEF EndInv, Good
  <2>4. FoundInv' /\ PulsesInv' /\ SearchInv' /\ DecodeInv'
    BY <2>1 DEF FoundInv, PulsesInv, SearchInv, DecodeInv
  <2>5. QED
    BY <1>2, <1>3, <2>3, <2>4 DEF Inv
<1>6. CASE ToPulses
  <2>1. pc' = "search" /\ UNCHANGED signalVars /\ UNCHANGED scanVars
    BY <1>6 DEF ToPulses
  <2>2. FoundInv'
    BY <1>1, <1>6, <2>1, GetsFound, FoundSame DEF FoundInv
  <2>3. PulsesInv' /\ SearchInv'
    BY <1>1, <1>6, PulsesStart, SearchStarts
  <2>4. DecodeInv' /\ EndInv'
    BY <2>1 DEF DecodeInv, EndInv, Ended
  <2>5. QED
    BY <1>2, <1>3, <2>2, <2>3, <2>4 DEF Inv
<1>7. CASE Search
  <2>1. /\ pc = "search" /\ pc' \in {"search", "decode"}
        /\ UNCHANGED signalVars /\ UNCHANGED scanVars
        /\ pulses' = pulses \/ (pulses # << >> /\ pulses' = Tail(pulses))
    BY <1>7 DEF Search
  <2>2. FoundInv'
    BY <1>1, <2>1, FoundSame DEF FoundInv
  <2>3. PulsesInv'
    BY <1>1, <2>1, PulsesGoOn
  <2>4. Signal' = Signal /\ Good' = Good /\ Places' = Places
    BY <2>1, SignalSame, DecodeSame
  <2>5. SearchInv'
    BY <1>1, <1>7, <2>1, <2>4, SearchGoesOn DEF SearchInv, FoundInv
  <2>6. DecodeInv'
    <3>1. CASE Good /\ pc' = "decode"
      BY <1>1, <1>7, <2>1, <3>1, DecodeStarts DEF FoundInv, Good
    <3>2. CASE ~(Good /\ pc' = "decode")
      BY <2>4, <3>2 DEF DecodeInv
    <3>3. QED
      BY <3>1, <3>2
  <2>7. EndInv'
    BY <2>1 DEF EndInv, Ended
  <2>8. QED
    BY <1>2, <1>3, <2>2, <2>3, <2>5, <2>6, <2>7 DEF Inv
<1>8. CASE Decode
  <2>1. FoundInv' /\ PulsesInv' /\ DecodeInv' /\ EndInv'
    BY <1>1, <1>8, DecodeStep
  <2>2. pc' # "search"
    BY <1>8, DecodeFrame DEF Ended
  <2>3. QED
    BY <1>2, <1>3, <2>1, <2>2 DEF Inv, SearchInv
<1>9. CASE UNCHANGED vars
  <2>1. /\ UNCHANGED signalVars /\ UNCHANGED scanVars /\ UNCHANGED frameVars
        /\ pc' = pc /\ pulses' = pulses
    BY <1>9 DEF vars
  <2>2. /\ bit' = bit /\ current_byte' = current_byte /\ place_val' = place_val /\ ans' = ans
        /\ need_start_bit' = need_start_bit /\ need_stop_bit' = need_stop_bit
        /\ transitions' = transitions
    BY <2>1 DEF frameVars, scanVars
  <2>3. /\ Signal' = Signal /\ Good' = Good /\ Places' = Places /\ sent' = sent
        /\ overflow_checks' = overflow_checks /\ Found' = Found
    BY <2>1, SignalSame, DecodeSame, FoundSame
  <2>4. /\ Taken' = Taken /\ Edge(Taken)' = Edge(Taken) /\ Edge(Taken + 1)' = Edge(Taken + 1)
        /\ Current' = Current /\ logic' = logic /\ Len(ans') = Len(ans)
    BY <2>1, <2>2 DEF Taken, Edge, Current, logic
  <2>5. Here' = Here
    BY <2>2, <2>4 DEF Here
  <2>6. FoundInv' /\ SearchInv'
    BY <1>1, <2>1, <2>3, <2>4 DEF FoundInv, SearchInv
  <2>7. PulsesInv'
    BY <1>1, <2>1, <2>2, <2>4 DEF PulsesInv, PulseOf, At
  <2>8. EndInv'
    BY <1>1, <2>1, <2>2, <2>3 DEF EndInv
  <2>9. (AtStart \/ InData \/ AtStop \/ PastStop)' = (AtStart \/ InData \/ AtStop \/ PastStop)
    <3>1. AtStart' = AtStart /\ AtStop' = AtStop
      BY <2>2, <2>3, <2>4, <2>5 DEF AtStart, AtStop
    <3>2. InData' = InData
      BY <2>2, <2>3, <2>4, <2>5, Zenon DEF InData
    <3>3. PastStop' = PastStop
      BY <2>2, <2>3, <2>4, <2>5, Zenon DEF PastStop
    <3>4. QED
      BY <3>1, <3>2, <3>3
  <2>10. DecodeInv'
    BY <1>1, <2>1, <2>2, <2>3, <2>4, <2>9 DEF DecodeInv
  <2>11. QED
    BY <1>2, <1>3, <2>6, <2>7, <2>8, <2>10 DEF Inv
<1>10. QED
  BY <1>4, <1>5, <1>6, <1>7, <1>8, <1>9 DEF Next

\* In every state the scan has found what the line shows, the pulses are what is between
\* the transitions, and the decoder is where its flags, its place value and its byte say
\* (uart, protocol_decode.rs:39).
THEOREM Invariant == Spec => []Inv
<1>1. Inv /\ [Next]_vars => Inv'
  BY InvStep
<1>2. QED
  BY InvInit, <1>1, PTL DEF Spec

\* Of a readable capture whose frames are clean, uart returns the bytes of all frames
\* but the last, for every symbol length, number of frames, level, ripple and lead
\* (protocol_decode.rs:39).
THEOREM DecoderCorrect == Spec => []DecodesAllButLast
<1>1. Inv => DecodesAllButLast
  <2> SUFFICES ASSUME Inv, pc \in Ended, Good
               PROVE  pc = "ok" /\ ans = [i \in 1..Frames - 1 |-> sent[i].byte]
    BY DEF DecodesAllButLast, Good, Signal
  <2>1. /\ pc = "ok" /\ Len(ans) = Frames - 1
        /\ \A i \in 1..Len(ans) : ans[i] = sent[i].byte
    BY DEF Inv, EndInv
  <2>2. ans \in Seq(UInt8)
    BY DEF Inv, TypeInv, TypeOK
  <2>3. ans = [i \in 1..Len(ans) |-> ans[i]]
    BY <2>2
  <2>4. ans = [i \in 1..Frames - 1 |-> sent[i].byte]
    BY <2>1, <2>3
  <2>5. QED
    BY <2>1, <2>4
<1>2. QED
  BY Invariant, <1>1, PTL

-----------------------------------------------------------------------------
(* The offset of two channels *)

\* A channel first exceeds a value at the least place where it does.
LEMMA CrossingIs ==
    ASSUME NEW ch \in Seq(Int), NEW mid \in Int,
           NEW x \in 1..Len(ch), ch[x] > mid, \A t \in 1..Len(ch) : ch[t] > mid => x <= t
    PROVE  Crossing(ch, mid) = x
<1>1. PICK n \in Int, T \in SUBSET Int :
         n = Len(ch) /\ T = {t \in 1..Len(ch) : ch[t] > mid}
  <2>1. Len(ch) \in Int /\ {t \in 1..Len(ch) : ch[t] > mid} \in SUBSET Int
    OBVIOUS
  <2>2. QED
    BY <2>1, Zenon
<1>2. Crossing(ch, mid) = IF T # {} THEN Min(T) ELSE 0
  BY <1>1 DEF Crossing, SelectInSeq
<1>3. x \in T /\ \A y \in T : 1 <= y /\ y <= n /\ x <= y
  BY <1>1
<1>4. Min(T) \in T /\ \A y \in T : Min(T) <= y
  <2>1. 1 \in Int /\ T # {} /\ \A y \in T : 1 <= y /\ y <= n
    BY <1>3
  <2>2. QED
    BY <2>1, MinMax
<1>5. Min(T) <= x /\ x <= Min(T) /\ Min(T) \in Int /\ x \in Int
  BY <1>3, <1>4
<1>6. Min(T) = x
  BY <1>5
<1>7. QED
  BY <1>2, <1>3, <1>6

\* The least place there is.
LEMMA FirstAbove ==
    ASSUME NEW ch \in Seq(Int), NEW mid \in Int, NEW n \in 1..Len(ch), ch[n] > mid
    PROVE  \E x \in 1..Len(ch) : ch[x] > mid /\ \A t \in 1..Len(ch) : ch[t] > mid => x <= t
<1> DEFINE T == {t \in 1..Len(ch) : ch[t] > mid}
<1>1. T \in SUBSET Nat /\ T # {}
  OBVIOUS
<1>2. PICK x \in T : \A y \in T : x <= y
  BY <1>1, NatMin
<1>3. QED
  BY <1>2

\* What the middle of a signal tells apart.
LEMMA MiddleOf ==
    ASSUME TypeInv, data # << >>, level.hi - level.lo <= 127,
           2 * (level.ripple + 1) <= level.hi - level.lo, level.skew + 1 < SymbolLen
    PROVE  /\ Midpoint(data) \in Int
           /\ IsI8(Max(ToSet(data)) - Min(ToSet(data)))
           /\ \A t \in 1..Len(data) :
                 /\ data[t] \in Int
                 /\ AboveMiddle(data[t]) <=> data[t] > Midpoint(data)
                 /\ ~AboveMiddle(data[t]) <=> data[t] < Midpoint(data)
<1>1. level \in Levels /\ line \in Seq({0, 1}) /\ data = Samples
  BY DEF TypeInv, FreshInv, LineInv
<1>2. PICK lo \in Int, hi \in Int, r \in Nat : lo = level.lo /\ hi = level.hi /\ r = level.ripple
  BY <1>1, LevelsAreI8
<1>3. hi - lo <= 127 /\ 2 * (r + 1) <= hi - lo
  BY <1>2
<1>4. Min(ToSet(data)) = lo /\ Max(ToSet(data)) = hi
  <2>1. lo + r <= hi
    BY <1>3
  <2>2. level.lo + level.ripple <= level.hi
    BY <2>1, <1>2
  <2>3. QED
    BY <2>2, <1>2, Extremes
<1>5. \A x \in Int : x \in Int8 <=> -128 <= x /\ x <= 127
  BY DEF Int8
<1>6. lo \in Int8 /\ hi \in Int8
  BY <1>1, <1>2, LevelsAreI8
<1>7. PICK m \in Nat : m = (hi - lo) \div 2 /\ 2 * m <= hi - lo /\ hi - lo <= 2 * m + 1
  <2>1. hi - lo \in Nat
    BY <1>3
  <2>2. \A s \in Nat : s \div 2 \in Nat /\ 2 * (s \div 2) <= s /\ s <= 2 * (s \div 2) + 1
    OBVIOUS
  <2>3. QED
    BY <2>1, <2>2
<1>8. hi - lo \in Int8 /\ lo + m \in Int8 /\ lo + m \in Int
  BY <1>3, <1>5, <1>6, <1>7
<1>9. Midpoint(data) = lo + m
  <2>1. I8(hi - lo) = hi - lo /\ I8(lo + m) = lo + m
    BY <1>8, I8Fits
  <2>2. Quotient(hi - lo, 2) = m
    BY <1>3, <1>7 DEF Quotient
  <2>3. QED
    BY <2>1, <2>2, <1>4 DEF Midpoint
<1>10. ASSUME NEW t \in 1..Len(data)
       PROVE  /\ data[t] \in Int
              /\ AboveMiddle(data[t]) <=> data[t] > lo + m
              /\ ~AboveMiddle(data[t]) <=> data[t] < lo + m
  <2>1. /\ Len(data) = SymbolLen * Len(line)
        /\ \A u \in 1..SymbolLen * Len(line) :
              data[u] = IF High(u) THEN level.hi - Ripple(u) ELSE level.lo + Ripple(u)
    BY <1>1, SamplesType
  <2>2. PICK w \in Nat : w = Ripple(t) /\ w <= r
    BY <1>2 DEF Ripple
  <2>3. data[t] = hi - w \/ data[t] = lo + w
    BY <2>1, <2>2, <1>2
  <2>4. AboveMiddle(data[t]) <=> 2 * data[t] > hi + lo
    BY <1>2 DEF AboveMiddle
  <2>5. CASE data[t] = hi - w
    <3>1. 2 * (hi - w) > hi + lo /\ hi - w > lo + m
      BY <2>2, <1>3, <1>7
    <3>2. QED
      BY <2>4, <2>5, <3>1, <1>8
  <2>6. CASE data[t] = lo + w
    <3>1. ~(2 * (lo + w) > hi + lo) /\ lo + w < lo + m
      BY <2>2, <1>3, <1>7
    <3>2. QED
      BY <2>4, <2>6, <3>1, <1>8
  <2>7. QED
    BY <2>3, <2>5, <2>6
<1>11. IsI8(Max(ToSet(data)) - Min(ToSet(data)))
  BY <1>4, <1>8 DEF IsI8
<1>12. QED
  BY <1>8, <1>9, <1>10, <1>11

\* Of one capture.
LEMMA DelayOfCapture ==
    ASSUME TypeInv
    PROVE  OffsetIsDelay
<1> SUFFICES ASSUME data # << >>, level.hi - level.lo <= 127,
                    2 * (level.ripple + 1) <= level.hi - level.lo, level.skew + 1 < SymbolLen,
                    NEW d \in 0..2 * SymbolLen
             PROVE  CompareChannels(Delayed(data, d), data) =
                       IF /\ ~AboveMiddle(Head(Delayed(data, d)))
                          /\ AboveMiddle(Last(Delayed(data, d)))
                       THEN Result("offset", -d) ELSE Result("reset", 0)
  BY DEF OffsetIsDelay
<1>1. PICK n \in Nat : n = Len(data) /\ d \in Nat /\ d < n
  <2>1. SymbolLen \in Nat \ {0} /\ Len(line) \in Nat /\ Len(data) = SymbolLen * Len(line)
    BY ConstantsAssumption, SamplesType DEF TypeInv, FreshInv, LineInv
  <2>2. PICK k \in Nat : Len(line) = k + 12
    <3>1. \E e \in Nat : e < 10 /\ Places[1] = e + 12
      BY PlacesAre
    <3>2. 1 \in 1..Frames
      BY PlacesAre
    <3>3. /\ Places[1 + 1] <= Len(line) /\ Places[1 + 1] = Places[1] + 10 + sent[1].idle
          /\ sent[1].idle \in Nat
      BY <3>2, PlacesAre
    <3>4. Len(line) - 12 \in Nat /\ Len(line) = (Len(line) - 12) + 12
      BY <3>1, <3>3, <2>1
    <3>5. QED
      BY <3>4
  <2>3. Len(data) = SymbolLen * k + 12 * SymbolLen /\ SymbolLen * k \in Nat
    BY <2>1, <2>2
  <2>4. d \in Nat /\ d <= 2 * SymbolLen
    BY <2>1
  <2>5. QED
    BY <2>1, <2>3, <2>4
<1>2. PICK mid \in Int : mid = Midpoint(data)
  BY MiddleOf
<1>3. /\ IsI8(Max(ToSet(data)) - Min(ToSet(data)))
      /\ \A t \in 1..n :
            /\ data[t] \in Int
            /\ AboveMiddle(data[t]) <=> data[t] > mid
            /\ ~AboveMiddle(data[t]) <=> data[t] < mid
  BY <1>1, <1>2, MiddleOf
<1>4. data \in Seq(Int) /\ DOMAIN data = 1..n /\ Head(data) = data[1] /\ 1 \in 1..n
  <2>1. data \in Seq(Int8)
    BY DEF TypeInv, TypeOK
  <2>2. DOMAIN data = 1..n /\ data = [t \in 1..n |-> data[t]]
    BY <2>1, <1>1
  <2>3. data \in Seq(Int)
    BY <2>2, <1>3, SequenceOf
  <2>4. 1 \in 1..n /\ Head(data) = data[1]
    BY <2>3, <1>1
  <2>5. QED
    BY <2>2, <2>3, <2>4
<1> DEFINE ch1 == Delayed(data, d)
<1>5. \A t \in 1..n : ch1[t] = IF t > d THEN data[t - d] ELSE data[1]
  BY <1>4 DEF Delayed
<1>6. \A t \in 1..n : t > d => t - d \in 1..n
  BY <1>1
<1>7. \A t \in 1..n :
         /\ ch1[t] \in Int
         /\ AboveMiddle(ch1[t]) <=> ch1[t] > mid
         /\ ~AboveMiddle(ch1[t]) <=> ch1[t] < mid
  <2> SUFFICES ASSUME NEW t \in 1..n
               PROVE  \E u \in 1..n : ch1[t] = data[u]
    BY <1>3
  <2>1. QED
    BY <1>4, <1>5, <1>6
<1>8. ch1 \in Seq(Int) /\ Len(ch1) = n
  <2>1. ch1 = [t \in 1..n |-> ch1[t]]
    BY <1>4 DEF Delayed
  <2> HIDE DEF ch1
  <2>2. QED
    BY <2>1, <1>7, SequenceOf
<1> HIDE DEF ch1
<1>9. Head(ch1) = data[1] /\ Last(ch1) = data[n - d] /\ n - d \in 1..n
  <2>1. n \in 1..n /\ 1 \in 1..n /\ n - d \in 1..n /\ n > d
    BY <1>1, <1>4
  <2>2. Head(ch1) = ch1[1] /\ Last(ch1) = ch1[n]
    BY <1>8, <2>1 DEF Last
  <2>3. ch1[1] = data[1]
    BY <1>1, <1>5, <2>1
  <2>4. ch1[n] = data[n - d]
    BY <1>5, <2>1
  <2>5. QED
    BY <2>1, <2>2, <2>3, <2>4
<1>10. /\ Head(ch1) > mid <=> AboveMiddle(Head(ch1))
       /\ Last(ch1) < mid <=> ~AboveMiddle(Last(ch1))
  BY <1>3, <1>4, <1>9
<1>11. CompareChannels(ch1, data) =
          IF Head(ch1) > mid \/ Last(ch1) < mid THEN Result("reset", 0)
          ELSE IF 0 \in {Crossing(ch1, mid), Crossing(data, mid)} THEN Result("err", 0)
          ELSE Result("offset", Crossing(data, mid) - Crossing(ch1, mid))
  BY <1>2, <1>3, Zenon DEF CompareChannels
<1>12. ASSUME ~AboveMiddle(Head(ch1)), AboveMiddle(Last(ch1))
       PROVE  CompareChannels(ch1, data) = Result("offset", -d)
  <2>1. data[n - d] > mid /\ ~(data[1] > mid)
    BY <1>3, <1>4, <1>9, <1>12
  <2>2. PICK x \in 1..n : data[x] > mid /\ \A t \in 1..n : data[t] > mid => x <= t
    BY <1>1, <1>4, <1>9, <2>1, FirstAbove
  <2>3. Crossing(data, mid) = x
    BY <1>1, <1>4, <2>2, CrossingIs
  <2>4. x <= n - d
    BY <1>9, <2>1, <2>2
  <2>5. PICK y \in 1..n : y = x + d /\ y > d /\ y - d = x
    BY <1>1, <2>4
  <2>6. ch1[y] > mid
    BY <1>5, <2>2, <2>5
  <2>7. ASSUME NEW t \in 1..n, ch1[t] > mid PROVE y <= t
    <3>1. t > d
      BY <1>1, <1>5, <2>1, <2>7
    <3>2. t - d \in 1..n /\ data[t - d] > mid
      BY <1>5, <1>6, <2>7, <3>1
    <3>3. x <= t - d
      BY <2>2, <3>2
    <3>4. QED
      BY <1>1, <2>5, <3>3
  <2>8. Crossing(ch1, mid) = y
    BY <1>8, <2>6, <2>7, CrossingIs
  <2>9. x # 0 /\ y # 0 /\ x - y = -d
    BY <1>1, <2>5
  <2>10. ~(Head(ch1) > mid \/ Last(ch1) < mid)
    BY <1>10, <1>12
  <2>11. 0 \notin {Crossing(ch1, mid), Crossing(data, mid)}
    BY <2>3, <2>8, <2>9
  <2>12. Crossing(data, mid) - Crossing(ch1, mid) = -d
    BY <2>3, <2>8, <2>9
  <2>13. QED
    BY <1>11, <2>10, <2>11, <2>12
<1>13. ASSUME ~(~AboveMiddle(Head(ch1)) /\ AboveMiddle(Last(ch1)))
       PROVE  CompareChannels(ch1, data) = Result("reset", 0)
  BY <1>10, <1>11, <1>13
<1>14. QED
  BY <1>12, <1>13 DEF ch1

\* Of two channels that differ by a delay the program measures that delay, wherever the
\* levels lie, for every symbol length and ripple that stays off the middle
\* (02_oscillator_compare.rs:96).
THEOREM DelayIsMeasured == Spec => []OffsetIsDelay
<1>1. TypeInv => OffsetIsDelay
  BY DelayOfCapture
<1>2. QED
  BY TypeInvariant, <1>1, PTL
=============================================================================
