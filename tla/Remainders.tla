----------------------------- MODULE Remainders -----------------------------
(***************************************************************************)
(* Counting modulo M, as the u32 transaction ids do: what the remainders   *)
(* tell of the numbers.                                                    *)
(***************************************************************************)
EXTENDS Naturals, TLAPS

\* Division with remainder.
LEMMA DivMod ==
    ASSUME NEW M \in Nat, M > 1, NEW a \in Nat
    PROVE  /\ a \div M \in Nat
           /\ a % M \in 0..M-1
           /\ a = M * (a \div M) + (a % M)
  BY SMTT(30)

\* ... is unique.
LEMMA ModUnique ==
    ASSUME NEW M \in Nat, M > 1, NEW q \in Nat, NEW r \in 0..M-1
    PROVE  (M * q + r) % M = r
  BY SMTT(30)

\* Counting modulo M is counting and then taking the remainder.
LEMMA ModSucc ==
    ASSUME NEW M \in Nat, M > 1, NEW a \in Nat
    PROVE  ((a % M) + 1) % M = (a + 1) % M
<1> DEFINE q == a \div M
           r == a % M
<1>1. q \in Nat /\ r \in 0..M-1 /\ a = M * q + r
  BY DivMod
<1> HIDE DEF q, r
<1>2. CASE r + 1 < M
  <2>1. a + 1 = M * q + (r + 1) /\ r + 1 \in 0..M-1
    BY <1>1, <1>2
  <2>2. (a + 1) % M = r + 1
    BY <1>1, <2>1, ModUnique
  <2>3. (M * 0 + (r + 1)) % M = r + 1 /\ M * 0 + (r + 1) = r + 1
    BY <2>1, ModUnique
  <2>4. QED
    BY <2>2, <2>3 DEF r
<1>3. CASE r + 1 = M
  <2>1. a + 1 = M * (q + 1) + 0 /\ M = M * 1 + 0 /\ 0 \in 0..M-1
    BY <1>1, <1>3
  <2>2. (a + 1) % M = 0 
    BY <1>1, <2>1, ModUnique
  <2>3. M % M = 0
    BY <2>1, ModUnique
  <2>4. QED
    BY <1>3, <2>2, <2>3 DEF r
<1>4. QED
  BY <1>1, <1>2, <1>3

\* Two numbers with one remainder are equal or M or more apart.
LEMMA ModWindow ==
    ASSUME NEW M \in Nat, M > 1, NEW a \in Nat, NEW b \in Nat,
           a <= b, a % M = b % M
    PROVE  a = b \/ a + M <= b
<1> DEFINE p == a \div M
           q == b \div M
           r == a % M
<1>1. p \in Nat /\ q \in Nat /\ r \in 0..M-1 /\ a = M * p + r /\ b = M * q + r
  BY DivMod
<1> HIDE DEF p, q, r
<1>2. CASE p = q
  BY <1>1, <1>2
<1>3. CASE p < q
  <2>1. PICK d \in Nat : q = p + 1 + d
    <3>1. q - p - 1 \in Nat /\ q = p + 1 + (q - p - 1)
      BY <1>1, <1>3
    <3>2. QED
      BY <3>1
  <2>2. M * q = M * p + M + M * d /\ M * d \in Nat
    BY <1>1, <2>1
  <2>3. QED
    BY <1>1, <2>2
<1>4. CASE p > q
  <2>1. PICK d \in Nat : p = q + 1 + d
    <3>1. p - q - 1 \in Nat /\ p = q + 1 + (p - q - 1)
      BY <1>1, <1>4
    <3>2. QED
      BY <3>1
  <2>2. M * p = M * q + M + M * d /\ M * d \in Nat
    BY <1>1, <2>1
  <2>3. QED
    BY <1>1, <2>2
<1>5. QED
  BY <1>1, <1>2, <1>3, <1>4

=============================================================================
