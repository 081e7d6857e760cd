--------------------------- MODULE TcpClientProofs ---------------------------
(***************************************************************************)
(* Proofs about TcpClient, for every number of transaction ids, every      *)
(* length of a reply and every set of reply headers.                       *)
(***************************************************************************)
EXTENDS TcpClient, Remainders, SequenceTheorems, FiniteSetTheorems, TLAPS

-----------------------------------------------------------------------------
(* The words of a reply *)

\* The words i+1 .. j of a reply are a sequence of words.
LEMMA WordsType ==
    ASSUME NEW r \in Reply,
           NEW i \in 0..ReplyLen, NEW j \in 0..ReplyLen, i <= j
    PROVE  /\ Words(r, i, j) \in Seq(Word)
           /\ Len(Words(r, i, j)) = j - i
           /\ \A k \in 1..(j - i) : Words(r, i, j)[k] = [of |-> r, n |-> i + k]
<1> DEFINE n == j - i
           w == [k \in 1..n |-> [of |-> r, n |-> i + k]]
<1>1. n \in Nat
  BY ConstantsAssumption DEF ConstantsAssumption
<1>2. ASSUME NEW k \in 1..n PROVE [of |-> r, n |-> i + k] \in Word
  BY <1>1, ConstantsAssumption DEF ConstantsAssumption, Word
<1>3. w \in [1..n -> Word]
  BY <1>2
<1>4. w \in Seq(Word) /\ Len(w) = n
  BY <1>1, <1>3
<1>5. QED
  BY <1>4 DEF Words

\* The first j words of a reply are a sequence of words.
LEMMA WordsFromStart ==
    ASSUME NEW r \in Reply, NEW j \in 0..ReplyLen
    PROVE  /\ Words(r, 0, j) \in Seq(Word)
           /\ Len(Words(r, 0, j)) = j
           /\ \A k \in 1..j : Words(r, 0, j)[k] = [of |-> r, n |-> k]
<1>1. 0 \in 0..ReplyLen /\ 0 <= j /\ j - 0 = j
  BY ConstantsAssumption DEF ConstantsAssumption
<1>2. /\ Words(r, 0, j) \in Seq(Word)
      /\ Len(Words(r, 0, j)) = j - 0
      /\ \A k \in 1..(j - 0) : Words(r, 0, j)[k] = [of |-> r, n |-> 0 + k]
  BY ONLY <1>1, WordsType
<1>3. ASSUME NEW k \in 1..j PROVE Words(r, 0, j)[k] = [of |-> r, n |-> k]
  <2>1. k \in 1..(j - 0) /\ 0 + k = k
    BY <1>1
  <2>2. QED
    BY <2>1, <1>2
<1>4. QED
  BY <1>1, <1>2, <1>3

\* Joined end to end, two stretches of a reply are one.
LEMMA WordsConcat ==
    ASSUME NEW r \in Reply,
           NEW i \in 0..ReplyLen, NEW j \in 0..ReplyLen, i <= j
    PROVE  Words(r, 0, i) \o Words(r, i, j) = Words(r, 0, j)
<1> DEFINE a == Words(r, 0, i)
           b == Words(r, i, j)
           c == Words(r, 0, j)
<1>1. /\ a \in Seq(Word) /\ Len(a) = i
      /\ \A k \in 1..i : a[k] = [of |-> r, n |-> k]
  BY WordsFromStart
<1>2. /\ b \in Seq(Word) /\ Len(b) = j - i
      /\ \A k \in 1..(j - i) : b[k] = [of |-> r, n |-> i + k]
  BY WordsType
<1>3. /\ c \in Seq(Word) /\ Len(c) = j
      /\ \A k \in 1..j : c[k] = [of |-> r, n |-> k]
  BY WordsFromStart
<1> HIDE DEF a, b, c
<1>4. /\ a \o b \in Seq(Word) /\ Len(a \o b) = Len(a) + Len(b)
      /\ \A k \in 1..Len(a) + Len(b) :
            (a \o b)[k] = IF k <= Len(a) THEN a[k] ELSE b[k - Len(a)]
  BY <1>1, <1>2, ConcatProperties
<1>5. Len(a) + Len(b) = j
  BY <1>1, <1>2
<1>6. ASSUME NEW k \in 1..j PROVE (a \o b)[k] = c[k]
  <2>1. CASE k <= i
    <3>1. (a \o b)[k] = a[k] /\ k \in 1..i
      BY <2>1, <1>1, <1>4, <1>5
    <3>2. QED
      BY <3>1, <1>1, <1>3
  <2>2. CASE k > i
    <3>1. k - i \in 1..(j - i) /\ i + (k - i) = k
      BY <2>2
    <3>2. (a \o b)[k] = b[k - i]
      BY <2>2, <1>1, <1>4, <1>5
    <3>3. b[k - i] = [of |-> r, n |-> k]
      BY <3>1, <1>2
    <3>4. c[k] = [of |-> r, n |-> k]
      BY <1>3
    <3>5. QED
      BY ONLY <3>2, <3>3, <3>4
  <2>3. k <= i \/ k > i
    BY ConstantsAssumption DEF ConstantsAssumption
  <2>4. QED
    BY ONLY <2>1, <2>2, <2>3
<1>7. a \o b = c
  BY <1>3, <1>4, <1>5, <1>6, SeqEqual
<1>8. QED
  BY <1>7 DEF a, b, c

\* A reply is cut into one fragment or two, of which the last ends it.
LEMMA FragmentsType ==
    ASSUME NEW r \in Reply, NEW cut \in 0..ReplyLen
    PROVE  /\ Fragments(r, cut) \in Seq(Fragment)
           /\ Len(Fragments(r, cut)) \in {1, 2}
           /\ \A i \in 1..Len(Fragments(r, cut)) : Fragments(r, cut)[i].of = r
           /\ Fragments(r, cut)[1].from = 0
           /\ Fragments(r, cut)[Len(Fragments(r, cut))].last
           /\ Fragments(r, cut)[Len(Fragments(r, cut))].upto = ReplyLen
           /\ Len(Fragments(r, cut)) = 2 =>
                 /\ ~Fragments(r, cut)[1].last
                 /\ Fragments(r, cut)[2].from = Fragments(r, cut)[1].upto
<1> USE ConstantsAssumption DEF ConstantsAssumption
<1>1. CASE cut = ReplyLen
  <2> DEFINE f == [of |-> r, from |-> 0, upto |-> ReplyLen, last |-> TRUE]
  <2>1. f \in Fragment
    BY DEF Fragment
  <2>2. Fragments(r, cut) = <<f>>
    BY <1>1 DEF Fragments
  <2>3. QED
    BY <2>1, <2>2
<1>2. CASE cut # ReplyLen
  <2> DEFINE f == [of |-> r, from |-> 0, upto |-> cut, last |-> FALSE]
             g == [of |-> r, from |-> cut, upto |-> ReplyLen, last |-> TRUE]
  <2>1. f \in Fragment /\ g \in Fragment
    BY DEF Fragment
  <2>2. Fragments(r, cut) = <<f, g>>
    BY <1>2 DEF Fragments
  <2>3. QED
    BY <2>1, <2>2
<1>3. QED
  BY <1>1, <1>2

\* What a fragment carries is a sequence of words.
LEMMA DataType ==
    ASSUME NEW f \in Fragment
    PROVE  Data(f) \in Seq(Word)
  BY WordsType DEF Data, Fragment

-----------------------------------------------------------------------------
(* Type correctness *)

LEMMA NextXidType == lastxid \in 0..XidMod-1 => NextXid \in 0..XidMod-1
  BY ConstantsAssumption DEF ConstantsAssumption, NextXid

LEMMA ReadRecordType ==
    ASSUME TypeOK, ReadRecord
    PROVE  /\ unpacker' \in Seq(Word) /\ record' \in Seq(Word)
           /\ stream' \in Seq(Fragment)
<1>1. Head(stream) \in Fragment /\ Tail(stream) \in Seq(Fragment)
  BY HeadTailProperties DEF TypeOK, ReadRecord
<1>2. Data(Head(stream)) \in Seq(Word)
  BY <1>1, DataType
<1>3. record \o Data(Head(stream)) \in Seq(Word)
  BY <1>2, ConcatProperties DEF TypeOK
<1>4. QED
  BY <1>1, <1>3 DEF ReadRecord

LEMMA TypeStep == TypeOK /\ [Next]_vars => TypeOK'
<1> SUFFICES ASSUME TypeOK, [Next]_vars PROVE TypeOK'
  OBVIOUS
<1>1. CASE StartCall
  <2>1. calls + 1 \in Nat /\ NextXid \in 0..XidMod-1
    BY NextXidType DEF TypeOK
  <2>2. packer' \in Seq(Call)
    <3> DEFINE c == [id |-> calls + 1, xid |-> NextXid]
    <3>1. c \in Call
      BY <2>1 DEF Call
    <3>2. packer' = <<c>>
      BY <1>1 DEF StartCall
    <3>3. QED
      BY ONLY <3>1, <3>2
  <2>3. QED
    BY <1>1, <2>1, <2>2 DEF StartCall, TypeOK, serverVars
<1>2. CASE StartCallOverflows
  BY <1>2 DEF StartCallOverflows, TypeOK, serverVars
<1>3. CASE GiveUp
  BY <1>3 DEF GiveUp, TypeOK, serverVars
<1>4. CASE SendCall
  <2>1. requests' \in Seq(Call)
    BY <1>4, ConcatProperties DEF SendCall, TypeOK
  <2>2. QED
    BY <1>4, <2>1 DEF SendCall, TypeOK, serverVars
<1>5. CASE SendFails
  BY <1>5 DEF SendFails, TypeOK, serverVars
<1>6. CASE ReadFragment
  <2>1. Head(stream) \in Fragment /\ Tail(stream) \in Seq(Fragment)
    BY <1>6, HeadTailProperties DEF ReadFragment, TypeOK
  <2>2. record \o Data(Head(stream)) \in Seq(Word)
    BY <2>1, DataType, ConcatProperties DEF TypeOK
  <2>3. QED
    BY <1>6, <2>1, <2>2 DEF ReadFragment, TypeOK, serverVars
<1>7. CASE ReadFails
  BY <1>7 DEF ReadFails, Return, TypeOK, serverVars
<1>8. CASE Accept \/ SkipPast \/ RejectFuture \/ RejectHeader
  <2>1. ReadRecord
    BY <1>8 DEF Accept, SkipPast, RejectFuture, RejectHeader
  <2>2. /\ unpacker' \in Seq(Word) /\ record' \in Seq(Word)
        /\ stream' \in Seq(Fragment)
    BY <2>1, ReadRecordType
  <2>3. pc' \in {pc, "idle"} /\ result' \in {result, "ok", "err"}
    BY <1>8 DEF Accept, SkipPast, RejectFuture, RejectHeader, Return
  <2>4. QED
    BY <2>1, <2>2, <2>3 DEF ReadRecord, TypeOK, serverVars
<1>9. ASSUME NEW h \in Headers, NEW cut \in 0..ReplyLen, Answer(h, cut)
      PROVE  TypeOK'
  <2> DEFINE c == Head(requests)
             r == [id |-> c.id, xid |-> c.xid, hdr |-> h]
  <2>1. c \in Call /\ Tail(requests) \in Seq(Call)
    BY <1>9, HeadTailProperties DEF Answer, TypeOK
  <2>2. r \in Reply
    BY <2>1 DEF Call, Reply
  <2>3. stream \o Fragments(r, cut) \in Seq(Fragment)
    BY <2>2, FragmentsType, ConcatProperties DEF TypeOK
  <2>4. c.id \in Nat
    BY <2>1 DEF Call
  <2>5. /\ latest' = r
        /\ stream' = stream \o Fragments(r, cut)
        /\ executed' = IF Executes(h) THEN executed \cup {c.id} ELSE executed
        /\ requests' = Tail(requests)
        /\ UNCHANGED <<clientVars, closed, dups, overflow_checks>>
    BY <1>9 DEF Answer
  <2> HIDE DEF c, r
  <2>6. QED
    BY <2>1, <2>2, <2>3, <2>4, <2>5 DEF TypeOK, clientVars
<1>10. ASSUME NEW cut \in 0..ReplyLen, Duplicate(cut)
       PROVE  TypeOK'
  <2>1. latest \in Reply
    BY <1>10 DEF Duplicate, TypeOK
  <2>2. stream \o Fragments(latest, cut) \in Seq(Fragment)
    BY <2>1, FragmentsType, ConcatProperties DEF TypeOK
  <2>3. QED
    BY <1>10, <2>2 DEF Duplicate, TypeOK, clientVars
<1>11. CASE Disconnect
  <2>1. requests' = << >> /\ requests' \in Seq(Call)
    BY <1>11 DEF Disconnect
  <2>2. stream' \in Seq(Fragment)
    BY <1>11, EmptySeq DEF Disconnect, TypeOK
  <2>3. executed' \subseteq Nat
    <3>1. CASE UNCHANGED executed
      BY <3>1 DEF TypeOK
    <3>2. CASE requests # << >> /\ executed' = executed \cup {Head(requests).id}
      <4>1. Head(requests) \in Call
        BY <3>2, HeadTailProperties DEF TypeOK
      <4>2. Head(requests).id \in Nat
        BY <4>1 DEF Call
      <4>3. QED
        BY <3>2, <4>2 DEF TypeOK
    <3>3. QED
      BY <1>11, <3>1, <3>2 DEF Disconnect
  <2>4. QED
    BY <1>11, <2>1, <2>2, <2>3 DEF Disconnect, TypeOK, clientVars
<1>12. CASE UNCHANGED vars
  BY <1>12 DEF vars, clientVars, serverVars, TypeOK
<1>13. QED
  BY <1>1, <1>2, <1>3, <1>4, <1>5, <1>6, <1>7, <1>8, <1>9, <1>10, <1>11, <1>12
  DEF Next, DoCall

LEMMA InitTypeOK == Init => TypeOK
<1>1. << >> \in Seq(Call) /\ << >> \in Seq(Word) /\ << >> \in Seq(Fragment)
  BY EmptySeq
<1>2. 0 \in 0..XidMod-1
  BY ConstantsAssumption DEF ConstantsAssumption
<1>3. SUFFICES ASSUME Init PROVE TypeOK
  OBVIOUS
<1>4. /\ packer \in Seq(Call) /\ requests \in Seq(Call)
      /\ record \in Seq(Word) /\ unpacker \in Seq(Word)
      /\ stream \in Seq(Fragment)
  BY <1>1, <1>3 DEF Init
<1>5. /\ calls \in Nat /\ lastxid \in 0..XidMod-1 /\ dups \in Nat
      /\ executed \subseteq Nat
  BY <1>2, <1>3 DEF Init
<1>6. /\ pc \in {"idle", "packed", "reading", "panicked"}
      /\ result \in {"none", "ok", "err"}
      /\ closed \in BOOLEAN /\ latest \in Reply \cup {NoReply}
      /\ overflow_checks \in BOOLEAN
  BY <1>3, ConstantsAssumption, Zenon DEF Init, ConstantsAssumption
<1>7. QED
  BY <1>4, <1>5, <1>6 DEF TypeOK

\* In every behaviour the variables keep their types: lastxid stays a
\* transaction id whatever the number of calls, and nothing but words of
\* replies reaches the unpacker.
THEOREM TypeCorrect == Spec => []TypeOK
  BY InitTypeOK, TypeStep, PTL DEF Spec

-----------------------------------------------------------------------------
(***************************************************************************)
(* The inductive invariant.  What do_call accepts is right because of what *)
(* can be in the stream: replies to earlier calls, in the order of the     *)
(* calls, each under the xid of its call, framed so that the record being  *)
(* read continues with the next fragment.                                  *)
(***************************************************************************)

\* The last call that may have left the client.
Newest == IF pc = "packed" THEN calls - 1 ELSE calls

\* The client's own bookkeeping; with overflow checks the xid never wraps.
ClientInv ==
    /\ lastxid = calls % XidMod
    /\ overflow_checks => calls < XidMod
    /\ pc \in {"packed", "reading"} => result = "none"
    /\ pc = "packed" => packer = << [id |-> calls, xid |-> lastxid] >>

\* Calls reach the server once and in order, before it answers or executes them.
RequestsInv ==
    /\ \A i \in 1..Len(requests) :
          /\ requests[i].id \in 1..Newest
          /\ requests[i].xid = requests[i].id % XidMod
          /\ latest.id < requests[i].id
          /\ \A c \in executed : c < requests[i].id
    /\ \A i, j \in 1..Len(requests) : i < j => requests[i].id < requests[j].id
    /\ executed \subseteq 1..Newest
    /\ latest.id <= Newest

\* r answers a call no later than newest, under its xid, and does not say Ok of
\* one that is not in done.
Answers(r, newest, done) ==
    /\ r.id \in 1..newest
    /\ r.xid = r.id % XidMod
    /\ Executes(r.hdr) => r.id \in done

StreamInv ==
    /\ latest # NoReply => Answers(latest, latest.id, executed)
    /\ \A i \in 1..Len(stream) : Answers(stream[i].of, latest.id, executed)
    /\ \A i, j \in 1..Len(stream) : i < j => stream[i].of.id <= stream[j].of.id

\* Each fragment continues the one before it, or starts a record after the last
\* of another.
Framed(s) ==
    /\ \A i \in 1..Len(s) : s[i].last => s[i].upto = ReplyLen
    /\ \A i \in 1..Len(s)-1 :
          IF s[i].last
          THEN s[i+1].from = 0
          ELSE s[i+1].of = s[i].of /\ s[i+1].from = s[i].upto
    /\ s # << >> => s[Len(s)].last

\* The stream continues what do_call has read.
FramingInv ==
    /\ Framed(stream)
    /\ stream # << >> =>
          /\ record = Words(stream[1].of, 0, stream[1].from)
          /\ pc # "reading" => stream[1].from = 0
    /\ stream = << >> /\ ~closed => record = << >>

OkInv ==
    result = "ok" =>
        /\ unpacker # << >>
        /\ unpacker = Words(unpacker[1].of, 0, ReplyLen)
        /\ unpacker[1].of.id \in executed
        /\ unpacker[1].of.id = calls \/ unpacker[1].of.id + XidMod <= calls
        /\ unpacker[1].of.id = calls =>
              /\ requests = << >>
              /\ latest.id = calls
              /\ \A i \in 1..Len(stream) : stream[i].of.id = calls

IInv == TypeOK /\ ClientInv /\ RequestsInv /\ StreamInv /\ FramingInv /\ OkInv

-----------------------------------------------------------------------------
(* Framing *)

LEMMA FramedAppend ==
    ASSUME NEW s \in Seq(Fragment), Framed(s),
           NEW r \in Reply, NEW cut \in 0..ReplyLen
    PROVE  Framed(s \o Fragments(r, cut))
<1> DEFINE t == Fragments(r, cut)
           u == s \o t
           n == Len(s)
<1>1. /\ t \in Seq(Fragment) /\ Len(t) \in {1, 2}
      /\ t[1].from = 0
      /\ t[Len(t)].last /\ t[Len(t)].upto = ReplyLen
      /\ \A i \in 1..Len(t) : t[i].of = r
      /\ Len(t) = 2 => ~t[1].last /\ t[2].from = t[1].upto
  BY FragmentsType
<1>2. n \in Nat
  BY LenProperties
<1> HIDE DEF t
<1>3. /\ u \in Seq(Fragment) /\ Len(u) = n + Len(t)
      /\ \A i \in 1..n + Len(t) : u[i] = IF i <= n THEN s[i] ELSE t[i - n]
  BY <1>1, ConcatProperties
<1> HIDE DEF u, n
<1>4. /\ \A i \in 1..n : u[i] = s[i]
      /\ u[n + 1] = t[1]
      /\ Len(t) = 2 => u[n + 2] = t[2]
  BY <1>1, <1>2, <1>3
<1>5. ASSUME NEW i \in 1..Len(u), u[i].last PROVE u[i].upto = ReplyLen
  <2>1. CASE i \in 1..n
    BY <2>1, <1>4, <1>5 DEF Framed, n
  <2>2. CASE i = n + 1
    BY <2>2, <1>1, <1>4, <1>5
  <2>3. CASE i = n + 2 /\ Len(t) = 2
    BY <2>3, <1>1, <1>4
  <2>4. QED
    BY <2>1, <2>2, <2>3, <1>1, <1>2, <1>3
<1>6. ASSUME NEW i \in 1..Len(u)-1
      PROVE  IF u[i].last
             THEN u[i+1].from = 0
             ELSE u[i+1].of = u[i].of /\ u[i+1].from = u[i].upto
  <2>1. CASE i \in 1..n-1
    <3>1. u[i] = s[i] /\ u[i+1] = s[i+1]
      BY <2>1, <1>2, <1>4
    <3>2. QED
      BY <2>1, <3>1 DEF Framed, n
  <2>2. CASE i = n
    <3>1. u[i] = s[n] /\ u[i+1] = t[1] /\ s[n].last
      <4>1. n \in 1..n /\ s # << >>
        BY <2>2, <1>2 DEF n
      <4>2. QED
        BY <2>2, <4>1, <1>4 DEF Framed, n
    <3>2. QED
      BY <3>1, <1>1
  <2>3. CASE i = n + 1 /\ Len(t) = 2
    <3>1. u[i] = t[1] /\ u[i+1] = t[2] /\ t[1].of = t[2].of
      <4>1. n + 1 + 1 = n + 2
        BY <1>2
      <4>2. QED
        BY <2>3, <4>1, <1>1, <1>4
    <3>2. QED
      BY <2>3, <3>1, <1>1
  <2>4. QED
    BY <2>1, <2>2, <2>3, <1>1, <1>2, <1>3
<1>7. u[Len(u)].last
  BY <1>1, <1>2, <1>3, <1>4
<1>8. QED
  BY <1>5, <1>6, <1>7 DEF Framed, u, t

LEMMA FramedTail ==
    ASSUME NEW s \in Seq(Fragment), Framed(s), s # << >>
    PROVE  Framed(Tail(s))
<1> DEFINE t == Tail(s)
<1>1. /\ t \in Seq(Fragment) /\ Len(t) = Len(s) - 1 /\ Len(s) \in Nat \ {0}
      /\ \A i \in 1..Len(t) : t[i] = s[i+1]
  BY HeadTailProperties, EmptySeq
<1> HIDE DEF t
<1>2. ASSUME NEW i \in 1..Len(t), t[i].last PROVE t[i].upto = ReplyLen
  <2>1. t[i] = s[i+1] /\ i + 1 \in 1..Len(s)
    BY <1>1
  <2>2. QED
    BY <2>1, <1>2 DEF Framed
<1>3. ASSUME NEW i \in 1..Len(t)-1
      PROVE  IF t[i].last
             THEN t[i+1].from = 0
             ELSE t[i+1].of = t[i].of /\ t[i+1].from = t[i].upto
  <2>1. t[i] = s[i+1] /\ t[i+1] = s[(i+1)+1] /\ i + 1 \in 1..Len(s)-1
    BY <1>1
  <2>2. QED
    BY <2>1 DEF Framed
<1>4. t # << >> => t[Len(t)].last
  <2> HAVE t # << >>
  <2>1. Len(t) \in 1..Len(t) /\ t[Len(t)] = s[Len(t) + 1] /\ Len(t) + 1 = Len(s)
    BY <1>1, EmptySeq
  <2>2. QED
    BY <2>1, <1>1 DEF Framed
<1>5. QED
  BY <1>2, <1>3, <1>4 DEF Framed, t

-----------------------------------------------------------------------------
(* The invariant is inductive, part by part *)

\* Each way do_call has of dealing with a record reads one first.
LEMMA ReadsRecord ==
    Accept \/ SkipPast \/ RejectFuture \/ RejectHeader =>
        /\ ReadRecord
        /\ pc' \in {"reading", "idle"}
        /\ pc' = "reading" => result' = result
  BY DEF Accept, SkipPast, RejectFuture, RejectHeader, Return, ReadRecord

LEMMA ClientStep == IInv /\ [Next]_vars => ClientInv'
<1> SUFFICES ASSUME IInv, [Next]_vars PROVE ClientInv'
  OBVIOUS
<1> USE DEF IInv, ClientInv
<1>1. CASE StartCall
  <2>1. calls \in Nat /\ XidMod \in Nat /\ XidMod > 1
    BY ConstantsAssumption DEF ConstantsAssumption, TypeOK
  <2>2. lastxid' = calls' % XidMod
    BY <1>1, <2>1, ModSucc DEF StartCall, NextXid
  <2>3. overflow_checks' => calls' < XidMod
    <3>1. SUFFICES ASSUME overflow_checks PROVE calls' < XidMod
      BY <1>1 DEF StartCall, serverVars
    <3>2. (XidMod * 0 + calls) % XidMod = calls /\ XidMod * 0 + calls = calls
      BY <2>1, <3>1, ModUnique
    <3>3. calls + 1 # XidMod /\ calls' = calls + 1
      BY <1>1, <3>1, <3>2 DEF StartCall
    <3>4. QED
      BY <2>1, <3>1, <3>3
  <2>4. /\ pc' = "packed" /\ result' = "none"
        /\ packer' = << [id |-> calls', xid |-> lastxid'] >>
    BY <1>1 DEF StartCall
  <2>5. QED
    BY <2>2, <2>3, <2>4
<1>2. CASE StartCallOverflows \/ GiveUp \/ SendFails
  BY <1>2 DEF StartCallOverflows, GiveUp, SendFails, serverVars
<1>3. CASE SendCall
  BY <1>3 DEF SendCall, serverVars
<1>4. CASE ReadFragment
  BY <1>4 DEF ReadFragment, serverVars
<1>5. CASE ReadFails
  BY <1>5 DEF ReadFails, Return, serverVars
<1>6. CASE Accept \/ SkipPast \/ RejectFuture \/ RejectHeader
  <2>1. /\ ReadRecord /\ pc' \in {"reading", "idle"}
        /\ pc' = "reading" => result' = result
    BY <1>6, ReadsRecord
  <2>2. QED
    BY <2>1 DEF ReadRecord, serverVars
<1>7. ASSUME NEW h \in Headers, NEW cut \in 0..ReplyLen, Answer(h, cut)
      PROVE  ClientInv'
  BY <1>7 DEF Answer, clientVars
<1>8. ASSUME NEW cut \in 0..ReplyLen, Duplicate(cut)
      PROVE  ClientInv'
  BY <1>8 DEF Duplicate, clientVars
<1>9. CASE Disconnect
  BY <1>9 DEF Disconnect, clientVars
<1>10. CASE UNCHANGED vars
  BY <1>10 DEF vars, clientVars, serverVars
<1>11. QED
  BY <1>1, <1>2, <1>3, <1>4, <1>5, <1>6, <1>7, <1>8, <1>9, <1>10
  DEF Next, DoCall

\* What the calls in flight know is kept when nothing they speak of changes but
\* that the newest call may have left the client.
LEMMA RequestsStutter ==
    ASSUME TypeOK, RequestsInv,
           Newest' >= Newest, Newest \in Int, Newest' \in Int,
           UNCHANGED <<requests, latest, executed>>
    PROVE  RequestsInv'
<1>1. 1..Newest \subseteq 1..Newest'
  OBVIOUS
<1>2. latest'.id <= Newest'
  BY DEF RequestsInv, TypeOK, Reply, NoReply
<1>3. executed' \subseteq 1..Newest'
  BY <1>1 DEF RequestsInv
<1>4. ASSUME NEW i \in 1..Len(requests')
      PROVE  /\ requests'[i].id \in 1..Newest'
             /\ requests'[i].xid = requests'[i].id % XidMod
             /\ latest'.id < requests'[i].id
             /\ \A c \in executed' : c < requests'[i].id
  BY <1>1 DEF RequestsInv
<1>5. ASSUME NEW i \in 1..Len(requests'), NEW j \in 1..Len(requests'), i < j
      PROVE  requests'[i].id < requests'[j].id
  BY <1>5 DEF RequestsInv
<1>6. QED
  BY <1>2, <1>3, <1>4, <1>5 DEF RequestsInv

LEMMA RequestsStep == IInv /\ [Next]_vars => RequestsInv'
<1> SUFFICES ASSUME IInv, [Next]_vars PROVE RequestsInv'
  OBVIOUS
<1> USE DEF IInv
<1>0. calls \in Nat /\ Newest \in Int
  BY DEF TypeOK, Newest
<1>1. CASE StartCall
  <2>1. Newest' = Newest
    BY <1>0, <1>1 DEF StartCall, Newest
  <2>2. QED
    BY <1>0, <1>1, <2>1, RequestsStutter DEF StartCall, serverVars
<1>2. CASE StartCallOverflows \/ GiveUp \/ SendFails
  <2>1. Newest' >= Newest /\ Newest' \in Int
    BY <1>0, <1>2 DEF StartCallOverflows, GiveUp, SendFails, Newest
  <2>2. UNCHANGED <<requests, latest, executed>>
    BY <1>2 DEF StartCallOverflows, GiveUp, SendFails, serverVars
  <2>3. QED
    BY <1>0, <2>1, <2>2, RequestsStutter
<1>3. CASE SendCall
  <2> DEFINE c == [id |-> calls, xid |-> lastxid]
  <2>1. Newest = calls - 1 /\ Newest' = calls
    BY <1>3 DEF SendCall, Newest
  <2>2. CASE closed
    <3>1. UNCHANGED <<requests, latest, executed>>
      BY <1>3, <2>2 DEF SendCall, serverVars
    <3>2. QED
      BY <1>0, <2>1, <3>1, RequestsStutter
  <2>3. CASE ~closed
    <3>1. c \in Call /\ lastxid = calls % XidMod
      BY DEF Call, TypeOK, ClientInv
    <3>2. /\ requests' = requests \o <<c>> /\ packer = <<c>>
          /\ UNCHANGED <<latest, executed>>
      BY <1>3, <2>3 DEF SendCall, ClientInv, serverVars
    <3> DEFINE n == Len(requests)
    <3>3. <<c>> \in Seq(Call) /\ Len(<<c>>) = 1 /\ <<c>>[1] = c
      BY <3>1
    <3>4. requests \in Seq(Call) /\ n \in Nat
      BY LenProperties DEF TypeOK
    <3>5. /\ Len(requests') = n + 1
          /\ \A i \in 1..n : requests'[i] = requests[i]
          /\ requests'[n + 1] = c
      <4>1. /\ Len(requests \o <<c>>) = n + 1
            /\ \A i \in 1..n + 1 : (requests \o <<c>>)[i] =
                  IF i <= n THEN requests[i] ELSE <<c>>[i - n]
        BY ONLY <3>3, <3>4, ConcatProperties
      <4>2. n + 1 \in 1..n + 1 /\ ~(n + 1 <= n) /\ n + 1 - n = 1
        BY <3>4
      <4>3. QED
        BY <3>2, <3>3, <3>4, <4>1, <4>2
    <3> HIDE DEF n
    <3>6. ASSUME NEW i \in 1..n + 1
          PROVE  /\ requests'[i].id \in 1..Newest'
                 /\ requests'[i].xid = requests'[i].id % XidMod
                 /\ latest'.id < requests'[i].id
                 /\ \A d \in executed' : d < requests'[i].id
      <4>1. CASE i \in 1..n
        BY <1>0, <2>1, <3>2, <3>5, <4>1 DEF RequestsInv, n
      <4>2. CASE i = n + 1
        <5>1. requests'[i].id = calls /\ requests'[i].xid = lastxid
          BY <3>5, <4>2
        <5>2. executed \subseteq 1..calls-1 /\ latest.id <= calls - 1
          BY <2>1 DEF RequestsInv
        <5>3. latest.id \in Int
          BY DEF TypeOK, Reply, NoReply
        <5>4. calls >= 1
          BY <5>1, <5>2, <1>0, <1>3, <5>3 DEF RequestsInv, TypeOK, SendCall, Reply, NoReply
        <5>5. calls \in 1..Newest' /\ latest'.id < calls
          BY <1>0, <2>1, <3>2, <5>2, <5>3, <5>4
        <5>6. \A d \in executed' : d < calls
          BY <1>0, <3>2, <5>2
        <5>7. QED
          BY ONLY <3>1, <5>1, <5>5, <5>6
      <4>3. QED
        BY <3>4, <4>1, <4>2 DEF n
    <3>7. ASSUME NEW i \in 1..n + 1, NEW j \in 1..n + 1, i < j
          PROVE  requests'[i].id < requests'[j].id
      <4>0. n \in Nat /\ i \in 1..n
        BY <3>4, <3>7 DEF n
      <4>1. CASE j \in 1..n
        BY <3>5, <3>7, <4>0, <4>1 DEF RequestsInv, n
      <4>2. CASE j = n + 1
        <5>1. requests'[i].id \in 1..calls-1 /\ requests'[j].id = calls
          BY <2>1, <3>5, <4>0, <4>2 DEF RequestsInv, n
        <5>2. QED
          BY <1>0, <5>1
      <4>3. QED
        BY <4>0, <4>1, <4>2
    <3>8. executed' \subseteq 1..Newest' /\ latest'.id <= Newest'
      <4>1. latest.id \in Int
        BY DEF TypeOK, Reply, NoReply
      <4>2. QED
        BY <1>0, <2>1, <3>2, <4>1 DEF RequestsInv
    <3>9. QED
      BY <3>5, <3>6, <3>7, <3>8 DEF RequestsInv
  <2>4. QED
    BY <2>2, <2>3
<1>4. CASE ReadFragment
  <2>1. UNCHANGED <<pc, calls, requests, latest, executed>>
    BY <1>4 DEF ReadFragment, serverVars
  <2>2. QED
    BY <1>0, <2>1, RequestsStutter DEF Newest
<1>5. CASE ReadFails
  <2>1. UNCHANGED <<calls, requests, latest, executed>> /\ Newest' = Newest
    BY <1>5 DEF ReadFails, Return, serverVars, Newest
  <2>2. QED
    BY <1>0, <2>1, RequestsStutter
<1>6. CASE Accept \/ SkipPast \/ RejectFuture \/ RejectHeader
  <2>1. ReadRecord /\ pc' \in {"reading", "idle"}
    BY <1>6, ReadsRecord
  <2>2. UNCHANGED <<calls, requests, latest, executed>> /\ Newest' = Newest
    BY <2>1 DEF ReadRecord, serverVars, Newest
  <2>3. QED
    BY <1>0, <2>2, RequestsStutter
<1>7. ASSUME NEW h \in Headers, NEW cut \in 0..ReplyLen, Answer(h, cut)
      PROVE  RequestsInv'
  <2>1. /\ requests # << >>
        /\ requests' = Tail(requests)
        /\ latest'.id = requests[1].id
        /\ executed' \subseteq executed \cup {requests[1].id}
        /\ Newest' = Newest
    BY <1>7 DEF Answer, clientVars, Newest
  <2>2. /\ Len(requests) \in Nat \ {0} /\ Len(requests') = Len(requests) - 1
        /\ \A i \in 1..Len(requests') : requests'[i] = requests[i+1]
    BY <2>1, HeadTailProperties, EmptySeq DEF TypeOK
  <2>3. requests[1].id \in 1..Newest
    BY <2>2 DEF RequestsInv
  <2>4. ASSUME NEW i \in 1..Len(requests')
        PROVE  /\ requests'[i].id \in 1..Newest'
               /\ requests'[i].xid = requests'[i].id % XidMod
               /\ latest'.id < requests'[i].id
               /\ \A d \in executed' : d < requests'[i].id
    <3>1. i + 1 \in 1..Len(requests) /\ requests'[i] = requests[i+1]
          /\ 1 \in 1..Len(requests) /\ 1 < i + 1
      BY <2>2
    <3>2. requests[1].id < requests[i+1].id
      BY <3>1 DEF RequestsInv
    <3>3. QED
      BY <2>1, <3>1, <3>2 DEF RequestsInv
  <2>5. ASSUME NEW i \in 1..Len(requests'), NEW j \in 1..Len(requests'), i < j
        PROVE  requests'[i].id < requests'[j].id
    <3>1. /\ i + 1 \in 1..Len(requests) /\ requests'[i] = requests[i+1]
          /\ j + 1 \in 1..Len(requests) /\ requests'[j] = requests[j+1]
          /\ i + 1 < j + 1
      BY <2>2, <2>5
    <3>2. QED
      BY <3>1 DEF RequestsInv
  <2>6. executed' \subseteq 1..Newest' /\ latest'.id <= Newest'
    BY <1>0, <2>1, <2>3 DEF RequestsInv
  <2>7. QED
    BY <2>4, <2>5, <2>6 DEF RequestsInv
<1>8. ASSUME NEW cut \in 0..ReplyLen, Duplicate(cut)
      PROVE  RequestsInv'
  <2>1. UNCHANGED <<pc, calls, requests, latest, executed>>
    BY <1>8 DEF Duplicate, clientVars
  <2>2. QED
    BY <1>0, <2>1, RequestsStutter DEF Newest
<1>9. CASE Disconnect
  <2>1. requests' = << >> /\ Len(requests') = 0 /\ Newest' = Newest /\ latest' = latest
    BY <1>9 DEF Disconnect, clientVars, Newest
  <2>2. executed' \subseteq 1..Newest
    <3>1. CASE requests # << >> /\ executed' = executed \cup {Head(requests).id}
      <4>1. 1 \in 1..Len(requests) /\ Head(requests) = requests[1]
        BY <3>1, EmptySeq DEF TypeOK
      <4>2. QED
        BY <3>1, <4>1 DEF RequestsInv
    <3>2. QED
      BY <1>9, <3>1 DEF Disconnect, RequestsInv
  <2>3. QED
    BY <2>1, <2>2 DEF RequestsInv
<1>10. CASE UNCHANGED vars
  BY <1>0, <1>10, RequestsStutter DEF vars, clientVars, serverVars, Newest
<1>11. QED
  BY <1>1, <1>2, <1>3, <1>4, <1>5, <1>6, <1>7, <1>8, <1>9, <1>10
  DEF Next, DoCall

LEMMA AnswersMonotone ==
    ASSUME NEW r, NEW n \in Int, NEW m \in Int, n <= m,
           NEW d, NEW e, d \subseteq e, Answers(r, n, d)
    PROVE  Answers(r, m, e)
  BY DEF Answers

\* The stream stays in order when a reply no older than the rest is appended.
LEMMA StreamAppend ==
    ASSUME TypeOK, TypeOK', StreamInv, latest.id <= latest'.id,
           executed \subseteq executed',
           latest' \in Reply, Answers(latest', latest'.id, executed'),
           NEW cut \in 0..ReplyLen,
           stream' = stream \o Fragments(latest', cut)
    PROVE  StreamInv'
<1> DEFINE t == Fragments(latest', cut)
           n == Len(stream)
<1>1. /\ t \in Seq(Fragment) /\ Len(t) \in {1, 2}
      /\ \A i \in 1..Len(t) : t[i].of = latest'
  BY FragmentsType
<1>2. stream \in Seq(Fragment) /\ n \in Nat
  BY LenProperties DEF TypeOK
<1>3. latest.id \in Int /\ latest'.id \in Int
  BY DEF TypeOK, Reply, NoReply
<1> HIDE DEF t
<1>4. /\ Len(stream') = n + Len(t)
      /\ \A i \in 1..n + Len(t) : stream'[i] = IF i <= n THEN stream[i] ELSE t[i - n]
  BY <1>1, <1>2, ConcatProperties DEF t
<1> HIDE DEF n
<1>5. ASSUME NEW i \in 1..n
      PROVE  /\ stream'[i] = stream[i]
             /\ Answers(stream'[i].of, latest'.id, executed')
             /\ stream'[i].of.id <= latest'.id
  <2>1. stream'[i] = stream[i]
    BY <1>1, <1>2, <1>4
  <2>2. Answers(stream[i].of, latest.id, executed)
    BY DEF StreamInv, n
  <2>3. Answers(stream[i].of, latest'.id, executed')
    BY <1>3, <2>2, AnswersMonotone
  <2>4. QED
    BY <1>3, <2>1, <2>3 DEF Answers
<1>6. ASSUME NEW i \in 1..n + Len(t), i > n
      PROVE  stream'[i].of = latest'
  <2>1. i - n \in 1..Len(t) /\ ~(i <= n)
    BY <1>1, <1>2, <1>6
  <2>2. QED
    BY <1>1, <1>4, <2>1
<1>7. ASSUME NEW i \in 1..n + Len(t)
      PROVE  Answers(stream'[i].of, latest'.id, executed')
  <2>1. i \in 1..n \/ i > n
    BY <1>1, <1>2
  <2>2. QED
    BY <1>5, <1>6, <2>1
<1>8. ASSUME NEW i \in 1..n + Len(t), NEW j \in 1..n + Len(t), i < j
      PROVE  stream'[i].of.id <= stream'[j].of.id
  <2>1. (i \in 1..n /\ j \in 1..n) \/ (i \in 1..n /\ j > n) \/ (i > n /\ j > n)
    BY <1>1, <1>2, <1>8
  <2>2. CASE i \in 1..n /\ j \in 1..n
    BY <1>5, <1>8, <2>2 DEF StreamInv, n
  <2>3. CASE i \in 1..n /\ j > n
    BY <1>5, <1>6, <2>3
  <2>4. CASE i > n /\ j > n
    <3>1. stream'[i].of = latest' /\ stream'[j].of = latest'
      BY <1>6, <2>4
    <3>2. latest'.id <= latest'.id
      BY <1>3
    <3>3. QED
      BY ONLY <3>1, <3>2
  <2>5. QED
    BY <2>1, <2>2, <2>3, <2>4
<1>9. QED
  BY <1>4, <1>7, <1>8 DEF StreamInv

\* ... and when it is read.
LEMMA StreamTail ==
    ASSUME TypeOK, StreamInv, stream # << >>, stream' = Tail(stream),
           UNCHANGED <<latest, executed>>
    PROVE  StreamInv'
<1>1. /\ Len(stream) \in Nat \ {0} /\ Len(stream') = Len(stream) - 1
      /\ \A i \in 1..Len(stream') : stream'[i] = stream[i+1]
  BY HeadTailProperties, EmptySeq DEF TypeOK
<1>2. ASSUME NEW i \in 1..Len(stream')
      PROVE  i + 1 \in 1..Len(stream) /\ stream'[i] = stream[i+1]
  BY <1>1
<1>3. ASSUME NEW i \in 1..Len(stream')
      PROVE  Answers(stream'[i].of, latest'.id, executed')
  BY <1>2 DEF StreamInv
<1>4. ASSUME NEW i \in 1..Len(stream'), NEW j \in 1..Len(stream'), i < j
      PROVE  stream'[i].of.id <= stream'[j].of.id
  <2>1. i + 1 < j + 1
    BY <1>1, <1>4
  <2>2. QED
    BY <1>2, <2>1 DEF StreamInv
<1>5. QED
  BY <1>3, <1>4 DEF StreamInv

\* What an answer says stays true when more calls have been executed.
LEMMA StreamStutter ==
    ASSUME TypeOK, StreamInv, UNCHANGED latest, executed \subseteq executed',
           stream' \in {stream, << >>}
    PROVE  StreamInv'
<1>1. latest.id \in Int /\ latest.id <= latest.id
  BY DEF TypeOK, Reply, NoReply
<1>2. latest' # NoReply => Answers(latest', latest'.id, executed')
  BY <1>1, AnswersMonotone DEF StreamInv
<1>3. CASE stream' = stream
  <2>1. ASSUME NEW i \in 1..Len(stream)
        PROVE  Answers(stream[i].of, latest.id, executed')
    <3>1. Answers(stream[i].of, latest.id, executed)
      BY DEF StreamInv
    <3>2. QED
      BY <1>1, <3>1, AnswersMonotone
  <2>2. QED
    BY <1>2, <1>3, <2>1 DEF StreamInv
<1>4. CASE stream' = << >>
  <2>1. Len(stream') = 0
    BY <1>4
  <2>2. QED
    BY <1>2, <2>1 DEF StreamInv
<1>5. QED
  BY <1>3, <1>4

LEMMA StreamStep == IInv /\ [Next]_vars => StreamInv'
<1> SUFFICES ASSUME IInv, [Next]_vars PROVE StreamInv'
  OBVIOUS
<1>0. TypeOK /\ TypeOK' /\ StreamInv
  BY TypeStep DEF IInv
<1>1. CASE StartCall \/ StartCallOverflows \/ GiveUp \/ SendCall \/ SendFails
  <2>1. UNCHANGED <<latest, executed, stream>>
    BY <1>1 DEF StartCall, StartCallOverflows, GiveUp, SendCall, SendFails, serverVars
  <2>2. QED
    BY <1>0, <2>1, StreamStutter
<1>2. CASE ReadFails
  BY <1>0, <1>2, StreamStutter DEF ReadFails, serverVars
<1>3. CASE ReadFragment
  BY <1>0, <1>3, StreamTail DEF ReadFragment, serverVars
<1>4. CASE Accept \/ SkipPast \/ RejectFuture \/ RejectHeader
  BY <1>0, <1>4, ReadsRecord, StreamTail DEF ReadRecord, serverVars
<1>5. ASSUME NEW h \in Headers, NEW cut \in 0..ReplyLen, Answer(h, cut)
      PROVE  StreamInv'
  <2> DEFINE c == requests[1]
  <2>1. requests # << >> /\ 1 \in 1..Len(requests) /\ c \in Call
    BY <1>0, <1>5, EmptySeq, ElementOfSeq DEF Answer, TypeOK
  <2>2. latest.id < c.id /\ c.xid = c.id % XidMod /\ c.id \in 1..Newest
    BY <2>1 DEF IInv, RequestsInv
  <2>3. /\ latest' = [id |-> c.id, xid |-> c.xid, hdr |-> h]
        /\ stream' = stream \o Fragments(latest', cut)
        /\ executed' = IF Executes(h) THEN executed \cup {c.id} ELSE executed
    <3>1. Head(requests) = c
      BY <2>1
    <3>2. QED
      BY <1>5, <3>1 DEF Answer
  <2>4. /\ latest'.id = c.id /\ latest'.xid = c.xid /\ latest'.hdr = h
        /\ latest' \in Reply
    BY <2>1, <2>3 DEF Call, Reply
  <2>5. latest.id <= latest'.id /\ latest'.id \in 1..latest'.id
    <3>1. latest.id \in Int
      BY <1>0 DEF TypeOK, Reply, NoReply
    <3>2. c.id \in Nat /\ c.id >= 1
      BY <2>1, <2>2 DEF Call
    <3>3. QED
      BY <2>2, <2>4, <3>1, <3>2
  <2>6. Answers(latest', latest'.id, executed')
    BY <2>2, <2>3, <2>4, <2>5 DEF Answers
  <2>7. executed \subseteq executed'
    BY <2>3
  <2>8. QED
    BY <1>0, <2>3, <2>4, <2>5, <2>6, <2>7, StreamAppend
<1>6. ASSUME NEW cut \in 0..ReplyLen, Duplicate(cut)
      PROVE  StreamInv'
  <2>1. /\ latest' = latest /\ latest \in Reply /\ executed' = executed
        /\ stream' = stream \o Fragments(latest', cut)
    BY <1>0, <1>6 DEF Duplicate, TypeOK
  <2>2. Answers(latest', latest'.id, executed') /\ latest.id <= latest'.id
    BY <1>0, <1>6, <2>1 DEF StreamInv, Duplicate, Reply
  <2>3. QED
    BY <1>0, <2>1, <2>2, StreamAppend
<1>7. CASE Disconnect
  BY <1>0, <1>7, StreamStutter DEF Disconnect
<1>8. CASE UNCHANGED vars
  BY <1>0, <1>8, StreamStutter DEF vars, serverVars
<1>9. QED
  BY <1>1, <1>2, <1>3, <1>4, <1>5, <1>6, <1>7, <1>8
  DEF Next, DoCall

\* No words at all.
LEMMA WordsNone == ASSUME NEW r \in Reply PROVE Words(r, 0, 0) = << >>
<1>1. 0 \in 0..ReplyLen
  BY ConstantsAssumption DEF ConstantsAssumption
<1>2. Words(r, 0, 0) \in Seq(Word) /\ Len(Words(r, 0, 0)) = 0
  BY <1>1, WordsFromStart
<1>3. QED
  BY <1>2, EmptySeq

\* The framing is kept by whatever leaves the stream and the record alone.
LEMMA FramingStutter ==
    ASSUME TypeOK, FramingInv, UNCHANGED <<record, stream>>,
           closed => closed', pc = "reading" => pc' = "reading" \/ stream = << >>
    PROVE  FramingInv'
  BY DEF FramingInv

\* Appending a reply keeps the framing.
LEMMA FramingAppend ==
    ASSUME TypeOK, FramingInv, ~closed, NEW r \in Reply, NEW cut \in 0..ReplyLen,
           stream' = stream \o Fragments(r, cut),
           UNCHANGED <<record, pc, closed>>
    PROVE  FramingInv'
<1> DEFINE t == Fragments(r, cut)
<1>1. t \in Seq(Fragment) /\ Len(t) \in {1, 2} /\ t[1].from = 0 /\ t[1].of = r
  BY FragmentsType
<1>2. stream \in Seq(Fragment) /\ Len(stream) \in Nat
  BY LenProperties DEF TypeOK
<1>3. Framed(stream')
  BY <1>2, FramedAppend DEF FramingInv
<1> HIDE DEF t
<1>4. /\ stream' \in Seq(Fragment) /\ Len(stream') = Len(stream) + Len(t)
      /\ \A i \in 1..Len(stream) + Len(t) :
            stream'[i] = IF i <= Len(stream) THEN stream[i] ELSE t[i - Len(stream)]
  BY <1>1, <1>2, ConcatProperties DEF t
<1>5. stream' # << >>
  BY <1>1, <1>2, <1>4
<1>6. CASE stream = << >>
  <2>1. stream'[1] = t[1]
    BY <1>1, <1>4, <1>6
  <2>2. record = << >>
    BY <1>6 DEF FramingInv
  <2>3. record' = Words(stream'[1].of, 0, stream'[1].from) /\ stream'[1].from = 0
    BY <1>1, <2>1, <2>2, WordsNone
  <2>4. QED
    BY <1>3, <1>5, <2>3 DEF FramingInv
<1>7. CASE stream # << >>
  <2>1. 1 \in 1..Len(stream)
    BY <1>2, <1>7, EmptySeq
  <2>2. stream'[1] = stream[1]
    BY <1>1, <1>2, <1>4, <2>1
  <2>3. QED
    BY <1>3, <1>5, <1>7, <2>2 DEF FramingInv
<1>8. QED
  BY <1>6, <1>7

\* What the record holds once the fragment at the head of the stream is added.
LEMMA RecordGrows ==
    ASSUME TypeOK, FramingInv, stream # << >>
    PROVE  /\ stream[1] \in Fragment /\ Head(stream) = stream[1]
           /\ record \o Data(stream[1]) = Words(stream[1].of, 0, stream[1].upto)
<1>1. stream[1] \in Fragment /\ Head(stream) = stream[1]
  BY EmptySeq, ElementOfSeq DEF TypeOK
<1>2. record = Words(stream[1].of, 0, stream[1].from)
  BY DEF FramingInv
<1>3. /\ stream[1].of \in Reply
      /\ stream[1].from \in 0..ReplyLen /\ stream[1].upto \in 0..ReplyLen
      /\ stream[1].from <= stream[1].upto
  BY <1>1 DEF Fragment
<1>4. record \o Words(stream[1].of, stream[1].from, stream[1].upto)
        = Words(stream[1].of, 0, stream[1].upto)
  BY <1>2, <1>3, WordsConcat
<1>5. QED
  BY <1>1, <1>4 DEF Data

LEMMA FramingStep == IInv /\ [Next]_vars => FramingInv'
<1> SUFFICES ASSUME IInv, [Next]_vars PROVE FramingInv'
  OBVIOUS
<1>0. TypeOK /\ FramingInv
  BY DEF IInv
<1>1. CASE StartCall \/ StartCallOverflows \/ GiveUp \/ SendFails \/ ReadFails
  BY <1>0, <1>1, FramingStutter
  DEF StartCall, StartCallOverflows, GiveUp, SendFails, ReadFails, serverVars
<1>2. CASE SendCall
  <2>1. pc = "packed" /\ record' = << >> /\ stream' = stream /\ closed' = closed
    BY <1>2 DEF SendCall
  <2>2. stream # << >> => record = << >>
    <3>1. SUFFICES ASSUME stream # << >> PROVE record = << >>
      OBVIOUS
    <3>2. stream[1].of \in Reply
      BY <1>0, <3>1, RecordGrows DEF Fragment
    <3>3. record = Words(stream[1].of, 0, 0)
      BY <1>0, <2>1, <3>1 DEF FramingInv
    <3>4. QED
      BY <3>2, <3>3, WordsNone
  <2>3. QED
    BY <1>0, <2>1, <2>2 DEF FramingInv
<1>3. CASE ReadFragment \/ Accept \/ SkipPast \/ RejectFuture \/ RejectHeader
  <2>1. /\ stream # << >> /\ stream' = Tail(stream) /\ pc = "reading"
        /\ IF stream[1].last THEN record' = << >>
                             ELSE record' = record \o Data(stream[1]) /\ pc' = pc
    <3>1. ReadFragment \/ ReadRecord
      BY <1>3, ReadsRecord
    <3>2. stream # << >>
      BY <3>1 DEF ReadFragment, ReadRecord
    <3>3. Head(stream) = stream[1]
      BY <1>0, <3>2, RecordGrows
    <3>4. QED
      BY <3>1, <3>2, <3>3 DEF ReadFragment, ReadRecord
  <2>2. /\ stream' \in Seq(Fragment) /\ Len(stream) \in Nat \ {0}
        /\ Len(stream') = Len(stream) - 1
        /\ \A i \in 1..Len(stream') : stream'[i] = stream[i+1]
    BY <1>0, <2>1, HeadTailProperties, EmptySeq DEF TypeOK
  <2>3. Framed(stream')
    BY <1>0, <2>1, FramedTail DEF TypeOK, FramingInv
  <2>4. CASE stream' = << >>
    <3>1. Len(stream) = 1
      BY <2>2, <2>4
    <3>2. stream[1].last
      BY <1>0, <2>1, <3>1 DEF FramingInv, Framed
    <3>3. QED
      BY <2>1, <2>3, <2>4, <3>2 DEF FramingInv
  <2>5. CASE stream' # << >>
    <3>1. 1 \in 1..Len(stream)-1 /\ stream'[1] = stream[1+1]
      BY <2>2, <2>5, EmptySeq
    <3>2. IF stream[1].last
          THEN stream'[1].from = 0
          ELSE stream'[1].of = stream[1].of /\ stream'[1].from = stream[1].upto
      BY <1>0, <3>1 DEF FramingInv, Framed
    <3>3. stream'[1].of \in Reply
      BY <2>2, <2>5, EmptySeq, ElementOfSeq DEF Fragment
    <3>4. record' = Words(stream'[1].of, 0, stream'[1].from)
      <4>1. CASE stream[1].last
        BY <2>1, <3>2, <3>3, <4>1, WordsNone
      <4>2. CASE ~stream[1].last
        BY <1>0, <2>1, <3>2, <4>2, RecordGrows
      <4>3. QED
        BY <4>1, <4>2
    <3>5. pc' # "reading" => stream'[1].from = 0
      BY <2>1, <3>2
    <3>6. QED
      BY <2>3, <2>5, <3>4, <3>5 DEF FramingInv
  <2>6. QED
    BY <2>4, <2>5
<1>4. ASSUME NEW h \in Headers, NEW cut \in 0..ReplyLen, Answer(h, cut)
      PROVE  FramingInv'
  <2> DEFINE c == Head(requests)
             r == [id |-> c.id, xid |-> c.xid, hdr |-> h]
  <2>1. r \in Reply
    <3>1. c \in Call
      BY <1>0, <1>4, HeadTailProperties DEF Answer, TypeOK
    <3>2. QED
      BY <3>1 DEF Call, Reply
  <2>2. ~closed /\ stream' = stream \o Fragments(r, cut) /\ UNCHANGED <<record, pc, closed>>
    BY <1>4 DEF Answer, clientVars
  <2> HIDE DEF r
  <2>3. QED
    BY <1>0, <2>1, <2>2, FramingAppend
<1>5. ASSUME NEW cut \in 0..ReplyLen, Duplicate(cut)
      PROVE  FramingInv'
  <2>1. /\ ~closed /\ latest \in Reply /\ stream' = stream \o Fragments(latest, cut)
        /\ UNCHANGED <<record, pc, closed>>
    BY <1>0, <1>5 DEF Duplicate, clientVars, TypeOK
  <2>2. QED
    BY <1>0, <2>1, FramingAppend
<1>6. CASE Disconnect
  <2>1. closed' /\ UNCHANGED <<record, pc>> /\ stream' \in {stream, << >>}
    BY <1>6 DEF Disconnect, clientVars
  <2>2. CASE stream' = stream
    BY <1>0, <2>1, <2>2 DEF FramingInv
  <2>3. CASE stream' = << >>
    <3>1. Framed(stream')
      BY <2>3 DEF Framed
    <3>2. QED
      BY <2>1, <2>3, <3>1 DEF FramingInv
  <2>4. QED
    BY <2>1, <2>2, <2>3
<1>7. CASE UNCHANGED vars
  BY <1>0, <1>7, FramingStutter DEF vars, clientVars
<1>8. QED
  BY <1>1, <1>2, <1>3, <1>4, <1>5, <1>6, <1>7
  DEF Next, DoCall

\* What do_call accepts: the loop over fragments has put one reply together, and
\* the loop over records has found it under the xid of the call.
LEMMA AcceptStep ==
    ASSUME IInv, Accept
    PROVE  OkInv'
<1> DEFINE f == stream[1]
<1>1. /\ TypeOK /\ stream # << >> /\ Head(stream) = f /\ f.last
      /\ unpacker' = record \o Data(f) /\ stream' = Tail(stream)
      /\ HeaderOk(unpacker') /\ Xid(unpacker') = lastxid
      /\ pc = "reading"
      /\ UNCHANGED <<calls, lastxid, requests, latest, executed>>
  <2>1. TypeOK /\ FramingInv
    BY DEF IInv
  <2>2. stream # << >>
    BY DEF Accept, ReadRecord
  <2>3. Head(stream) = f
    BY <2>1, <2>2, RecordGrows
  <2>4. QED
    BY <2>1, <2>2, <2>3 DEF Accept, ReadRecord, serverVars
<1>2. f \in Fragment /\ f.of \in Reply /\ f.of.id \in Nat
  BY <1>1, EmptySeq, ElementOfSeq DEF TypeOK, Fragment, Reply
<1>3. 1 \in 1..Len(stream) /\ f.upto = ReplyLen
  BY <1>1, EmptySeq DEF IInv, FramingInv, Framed, TypeOK
<1>4. unpacker' = Words(f.of, 0, ReplyLen)
  BY <1>1, <1>3, RecordGrows DEF IInv
<1>5. unpacker' # << >> /\ unpacker'[1].of = f.of
  <2>1. ReplyLen \in 0..ReplyLen /\ 1 \in 1..ReplyLen
    BY ConstantsAssumption DEF ConstantsAssumption
  <2>2. unpacker'[1] = [of |-> f.of, n |-> 1]
    BY <1>2, <1>4, <2>1, WordsFromStart
  <2>3. QED
    BY <1>1, <2>2 DEF HeaderOk
<1>6. Answers(f.of, latest.id, executed)
  BY <1>3 DEF IInv, StreamInv
<1>7. f.of.id \in executed
  <2>1. Executes(f.of.hdr)
    BY <1>1, <1>5 DEF HeaderOk, Executes
  <2>2. QED
    BY <1>6, <2>1 DEF Answers
<1>8. /\ calls \in Nat /\ latest.id \in Int /\ latest.id <= calls
      /\ f.of.id <= latest.id
  <2>1. calls \in Nat /\ latest.id \in Int
    BY <1>1 DEF TypeOK, Reply, NoReply
  <2>2. latest.id <= calls
    BY <1>1 DEF IInv, RequestsInv, Newest
  <2>3. QED
    BY <2>1, <2>2, <1>6 DEF Answers
<1>9. f.of.id = calls \/ f.of.id + XidMod <= calls
  <2>1. f.of.id % XidMod = calls % XidMod
    BY <1>1, <1>5, <1>6 DEF Xid, Answers, IInv, ClientInv
  <2>2. f.of.id <= calls
    BY <1>2, <1>8
  <2>3. XidMod \in Nat /\ XidMod > 1
    BY ConstantsAssumption DEF ConstantsAssumption
  <2>4. QED
    BY <1>2, <1>8, <2>1, <2>2, <2>3, ModWindow
<1>10. ASSUME f.of.id = calls
       PROVE  /\ requests = << >>
              /\ latest.id = calls
              /\ \A i \in 1..Len(stream') : stream'[i].of.id = calls
  <2>1. latest.id = calls
    BY <1>8, <1>10
  <2>2. requests = << >>
    <3>1. SUFFICES ASSUME requests # << >> PROVE FALSE
      OBVIOUS
    <3>2. 1 \in 1..Len(requests)
      BY <1>1, <3>1, EmptySeq DEF TypeOK
    <3>3. latest.id < requests[1].id /\ requests[1].id \in 1..calls
      BY <1>1, <3>2 DEF IInv, RequestsInv, Newest
    <3>4. QED
      BY <1>8, <2>1, <3>3
  <2>3. ASSUME NEW i \in 1..Len(stream')
        PROVE  stream'[i].of.id = calls
    <3>1. stream'[i] = stream[i+1] /\ i + 1 \in 1..Len(stream) /\ 1 < i + 1
      BY <1>1, HeadTailProperties, EmptySeq DEF TypeOK
    <3>2. f.of.id <= stream[i+1].of.id
      BY <1>3, <3>1 DEF IInv, StreamInv
    <3>3. stream[i+1].of.id \in 1..latest.id
      BY <3>1 DEF IInv, StreamInv, Answers
    <3>4. QED
      BY <1>8, <1>10, <2>1, <3>1, <3>2, <3>3
  <2>4. QED
    BY <2>1, <2>2, <2>3
<1> HIDE DEF f
<1>11. QED
  BY <1>1, <1>4, <1>5, <1>7, <1>9, <1>10 DEF OkInv

\* What an Ok call left behind stays as it is while nothing is appended.
LEMMA OkStutter ==
    ASSUME OkInv, UNCHANGED <<calls, unpacker, latest>>,
           result' = "ok" => result = "ok", executed \subseteq executed',
           requests' \in {requests, << >>}, stream' \in {stream, << >>}
    PROVE  OkInv'
<1>1. CASE stream' = stream
  BY <1>1 DEF OkInv
<1>2. CASE stream' = << >>
  <2>1. Len(stream') = 0
    BY <1>2
  <2>2. QED
    BY <1>2, <2>1 DEF OkInv
<1>3. QED
  BY <1>1, <1>2

LEMMA OkStep == IInv /\ [Next]_vars => OkInv'
<1> SUFFICES ASSUME IInv, [Next]_vars PROVE OkInv'
  OBVIOUS
<1>0. TypeOK /\ OkInv /\ (pc \in {"packed", "reading"} => result = "none")
  BY DEF IInv, ClientInv
<1>1. CASE StartCall
  BY <1>1 DEF StartCall, OkInv
<1>2. CASE StartCallOverflows
  BY <1>0, <1>2, OkStutter DEF StartCallOverflows, serverVars
<1>3. CASE GiveUp \/ SendFails \/ ReadFails
  BY <1>3 DEF GiveUp, SendFails, ReadFails, Return, OkInv
<1>4. CASE SendCall
  BY <1>0, <1>4 DEF SendCall, OkInv
<1>5. CASE ReadFragment
  BY <1>0, <1>5 DEF ReadFragment, OkInv
<1>6. CASE Accept
  BY <1>6, AcceptStep
<1>7. CASE SkipPast \/ RejectFuture \/ RejectHeader
  <2>1. result' # "ok"
    BY <1>0, <1>7 DEF SkipPast, RejectFuture, RejectHeader, Return, ReadRecord
  <2>2. QED
    BY <2>1 DEF OkInv
<1>8. ASSUME NEW h \in Headers, NEW cut \in 0..ReplyLen, Answer(h, cut)
      PROVE  OkInv'
  <2>1. /\ requests # << >> /\ executed \subseteq executed'
        /\ UNCHANGED <<calls, unpacker, result>>
    BY <1>8 DEF Answer, clientVars
  <2>2. QED
    BY <1>0, <2>1 DEF OkInv
<1>9. ASSUME NEW cut \in 0..ReplyLen, Duplicate(cut)
      PROVE  OkInv'
  <2> DEFINE t == Fragments(latest, cut)
             n == Len(stream)
  <2>1. /\ latest \in Reply /\ stream' = stream \o t
        /\ UNCHANGED <<calls, unpacker, result, requests, latest, executed>>
    BY <1>0, <1>9 DEF Duplicate, clientVars, TypeOK
  <2>2. /\ t \in Seq(Fragment) /\ Len(t) \in {1, 2}
        /\ \A i \in 1..Len(t) : t[i].of = latest
    BY <2>1, FragmentsType
  <2>3. stream \in Seq(Fragment) /\ n \in Nat
    BY <1>0, LenProperties DEF TypeOK
  <2> HIDE DEF t
  <2>4. /\ Len(stream') = n + Len(t)
        /\ \A i \in 1..n + Len(t) : stream'[i] = IF i <= n THEN stream[i] ELSE t[i - n]
    BY <2>1, <2>2, <2>3, ConcatProperties
  <2> HIDE DEF n
  <2>5. ASSUME latest.id = calls, \A i \in 1..n : stream[i].of.id = calls,
               NEW i \in 1..Len(stream')
        PROVE  stream'[i].of.id = calls
    <3>1. CASE i <= n
      BY <2>3, <2>4, <2>5, <3>1
    <3>2. CASE i > n
      <4>1. i - n \in 1..Len(t) /\ ~(i <= n) /\ i \in 1..n + Len(t)
        BY <2>2, <2>3, <2>4, <3>2
      <4>2. stream'[i] = t[i - n] /\ t[i - n].of = latest
        BY <2>2, <2>4, <4>1
      <4>3. QED
        BY <2>5, <4>2
    <3>3. i <= n \/ i > n
      BY <2>2, <2>3, <2>4
    <3>4. QED
      BY ONLY <3>1, <3>2, <3>3
  <2>6. QED
    BY <1>0, <2>1, <2>5 DEF OkInv, n
<1>10. CASE Disconnect
  BY <1>0, <1>10, OkStutter DEF Disconnect, clientVars
<1>11. CASE UNCHANGED vars
  BY <1>0, <1>11, OkStutter DEF vars, clientVars, serverVars
<1>12. QED
  BY <1>1, <1>2, <1>3, <1>4, <1>5, <1>6, <1>7, <1>8, <1>9, <1>10, <1>11
  DEF Next, DoCall

\* The invariant holds in every behaviour.
THEOREM Invariant == Spec => []IInv
<1>1. Init => IInv
  <2>1. SUFFICES ASSUME Init PROVE IInv
    OBVIOUS
  <2>2. TypeOK
    BY <2>1, InitTypeOK
  <2>3. ClientInv
    <3>1. (XidMod * 0 + 0) % XidMod = 0 /\ XidMod * 0 + 0 = 0 /\ 0 < XidMod
      BY ConstantsAssumption, ModUnique DEF ConstantsAssumption
    <3>2. QED
      BY <2>1, <3>1 DEF Init, ClientInv
  <2>4. Len(requests) = 0 /\ Len(stream) = 0
    BY <2>1 DEF Init
  <2>5. RequestsInv
    BY <2>1, <2>4 DEF Init, RequestsInv, Newest, NoReply
  <2>6. StreamInv
    BY <2>1, <2>4 DEF Init, StreamInv
  <2>7. FramingInv
    BY <2>1, <2>4 DEF Init, FramingInv, Framed
  <2>8. OkInv
    BY <2>1 DEF Init, OkInv
  <2>9. QED
    BY <2>2, <2>3, <2>5, <2>6, <2>7, <2>8 DEF IInv
<1>2. IInv /\ [Next]_vars => IInv'
  BY TypeStep, ClientStep, RequestsStep, StreamStep, FramingStep, OkStep DEF IInv
<1>3. QED
  BY <1>1, <1>2, PTL DEF Spec

\* When do_call has returned Ok the unpacker holds one whole reply of a call the
\* server executed, this one or one at least XidMod calls older.
THEOREM OkAnswerIsOurs == Spec => []OkIsOwnAnswer
<1>1. IInv => OkIsOwnAnswer
  BY DEF IInv, OkInv, OkIsOwnAnswer
<1>2. QED
  BY <1>1, Invariant, PTL

\* After an Ok on its own answer the client and the server are in step.
THEOREM OkLeavesNothingBehind == Spec => []InSyncAfterOk
<1>1. IInv => InSyncAfterOk
  <2>1. SUFFICES ASSUME IInv PROVE InSyncAfterOk
    OBVIOUS
  <2>2. DOMAIN stream = 1..Len(stream)
    BY <2>1, LenProperties DEF IInv, TypeOK
  <2>3. QED
    BY <2>1, <2>2 DEF IInv, OkInv, InSyncAfterOk
<1>2. QED
  BY <1>1, Invariant, PTL

\* In a build that checks overflow an Ok is always the answer to this very call.
THEOREM DebugBuildIsExact == Spec => []ExactInDebug
<1>1. IInv => ExactInDebug
  <2>1. SUFFICES ASSUME IInv, overflow_checks, result = "ok"
                 PROVE  unpacker[1].of.id = calls
    BY DEF ExactInDebug
  <2>2. calls < XidMod /\ calls \in Nat /\ XidMod \in Nat
    BY <2>1, ConstantsAssumption DEF IInv, ClientInv, TypeOK, ConstantsAssumption
  <2>3. unpacker[1].of.id \in Nat
    BY <2>1 DEF IInv, OkInv, TypeOK
  <2>4. unpacker[1].of.id = calls \/ unpacker[1].of.id + XidMod <= calls
    BY <2>1 DEF IInv, OkInv
  <2>5. QED
    BY <2>2, <2>3, <2>4
<1>2. QED
  BY <1>1, Invariant, PTL

-----------------------------------------------------------------------------
(* Refinement *)

\* A call sent is executed at most once: it is newer than all executed ones.
LEMMA HeadIsNew ==
    ASSUME IInv, requests # << >>
    PROVE  Head(requests).id \in 1..calls /\ Head(requests).id \notin executed
<1>1. 1 \in 1..Len(requests) /\ Head(requests) = requests[1]
  BY EmptySeq DEF IInv, TypeOK
<1>2. /\ requests[1].id \in 1..Newest
      /\ \A c \in executed : c < requests[1].id
  BY <1>1 DEF IInv, RequestsInv
<1>3. requests[1].id \in 1..calls
  BY <1>2 DEF Newest, IInv, TypeOK
<1>4. requests[1].id \notin executed
  BY <1>2, <1>3
<1>5. QED
  BY <1>1, <1>3, <1>4

LEMMA RefinementStep == IInv /\ IInv' /\ [Next]_vars => [Abstract!Next]_(Abstract!vars)
<1> SUFFICES ASSUME IInv, IInv', [Next]_vars
             PROVE  [Abstract!Next]_(Abstract!vars)
  OBVIOUS
<1>0. pc \in {"packed", "reading"} => result = "none"
  BY DEF IInv, ClientInv
<1>1. CASE StartCall
  <2>1. Abstract!Begin
    BY <1>1 DEF StartCall, Abstract!Begin, serverVars
  <2>2. QED
    BY <2>1 DEF Abstract!Next
<1>2. CASE StartCallOverflows
  BY <1>2 DEF StartCallOverflows, Abstract!vars, serverVars
<1>3. CASE GiveUp \/ SendFails \/ ReadFails \/ RejectFuture \/ RejectHeader
  <2>1. /\ pc \in {"packed", "reading"} /\ pc' = "idle" /\ result' = "err"
        /\ UNCHANGED <<calls, executed>>
    BY <1>3
    DEF GiveUp, SendFails, ReadFails, RejectFuture, RejectHeader, ReadRecord,
        Return, serverVars
  <2>2. Abstract!Fail
    BY <1>0, <2>1 DEF Abstract!Fail
  <2>3. QED
    BY <2>2 DEF Abstract!Next
<1>4. CASE SendCall \/ ReadFragment \/ SkipPast
  <2>1. /\ pc \in {"packed", "reading"} /\ pc' \in {"packed", "reading"}
        /\ UNCHANGED <<calls, executed, result>>
    BY <1>4 DEF SendCall, ReadFragment, SkipPast, ReadRecord, serverVars
  <2>2. QED
    BY <1>0, <2>1 DEF Abstract!vars
<1>5. CASE Accept
  <2> DEFINE a == unpacker'[1].of.id
  <2>1. /\ pc = "reading" /\ pc' = "idle" /\ result' = "ok"
        /\ UNCHANGED <<calls, executed>>
    BY <1>5 DEF Accept, ReadRecord, Return, serverVars
  <2>2. a \in executed /\ (a = calls \/ a + XidMod <= calls)
    BY <2>1 DEF IInv, OkInv
  <2> HIDE DEF a
  <2>3. Abstract!Succeed(a)
    BY <1>0, <2>1, <2>2 DEF Abstract!Succeed, Abstract!Recycled, a
  <2>4. QED
    BY <2>2, <2>3 DEF Abstract!Next
<1>6. ASSUME NEW h \in Headers, NEW cut \in 0..ReplyLen, Answer(h, cut)
      PROVE  [Abstract!Next]_(Abstract!vars)
  <2>1. /\ requests # << >> /\ UNCHANGED <<calls, pc, result, unpacker>>
        /\ executed' = IF Executes(h) THEN executed \cup {Head(requests).id}
                                      ELSE executed
    BY <1>6 DEF Answer, clientVars
  <2>2. CASE Executes(h)
    <3>1. Abstract!Execute(Head(requests).id)
      BY <2>1, <2>2, HeadIsNew DEF Abstract!Execute
    <3>2. QED
      BY <2>1, <3>1, HeadIsNew DEF Abstract!Next
  <2>3. CASE ~Executes(h)
    BY <2>1, <2>3 DEF Abstract!vars
  <2>4. QED
    BY <2>2, <2>3
<1>7. ASSUME NEW cut \in 0..ReplyLen, Duplicate(cut)
      PROVE  [Abstract!Next]_(Abstract!vars)
  BY <1>7 DEF Duplicate, clientVars, Abstract!vars
<1>8. CASE Disconnect
  <2>1. UNCHANGED <<calls, pc, result, unpacker>>
    BY <1>8 DEF Disconnect, clientVars
  <2>2. CASE UNCHANGED executed
    BY <2>1, <2>2 DEF Abstract!vars
  <2>3. CASE requests # << >> /\ executed' = executed \cup {Head(requests).id}
    <3>1. Abstract!Execute(Head(requests).id)
      BY <2>1, <2>3, HeadIsNew DEF Abstract!Execute
    <3>2. QED
      BY <2>3, <3>1, HeadIsNew DEF Abstract!Next
  <2>4. QED
    BY <1>8, <2>2, <2>3 DEF Disconnect
<1>9. CASE UNCHANGED vars
  BY <1>9 DEF vars, clientVars, serverVars, Abstract!vars
<1>10. QED
  BY <1>1, <1>2, <1>3, <1>4, <1>5, <1>6, <1>7, <1>8, <1>9
  DEF Next, DoCall

\* do_call implements the synchronous call of RpcCall: every step of the client
\* and of the server is a step of that specification or changes nothing of it.
THEOREM Refinement == Spec => ImplementsRpcCall
<1>1. Init => Abstract!Init
  BY DEF Init, Abstract!Init
<1>2. QED
  BY <1>1, RefinementStep, Invariant, PTL DEF Spec, ImplementsRpcCall, Abstract!Spec

-----------------------------------------------------------------------------
(***************************************************************************)
(* Errors.  On a connection that is up, when no reply was sent twice, the  *)
(* client and the server are in step: nothing is under way between calls,  *)
(* and only this call or its reply during one.                             *)
(***************************************************************************)

\* The reply to this call, or what is left of it, and nothing else is in the stream.
OnlyOwnReply ==
    /\ requests = << >> /\ stream # << >>
    /\ \A i \in 1..Len(stream) :
          /\ stream[i].of = stream[1].of
          /\ stream[i].last => i = Len(stream)
    /\ stream[1].of.id = calls
    /\ Executes(stream[1].of.hdr) \/ calls \notin executed

OnlyOwnCall == stream = << >> /\ Len(requests) = 1 /\ requests[1].id = calls

StepInv ==
    (dups = 0 /\ ~closed) =>
        /\ pc # "reading" => requests = << >> /\ stream = << >>
        /\ pc = "reading" => OnlyOwnCall \/ OnlyOwnReply
        /\ result = "err" => calls \notin executed

EInv == IInv /\ StepInv

\* The server says REPLY in the header of a call it executed.
HonestHeaders == \A h \in Headers : Executes(h) => h.mtype = "REPLY"

\* A record of this call's reply fails the call only when the server says that it
\* did not execute it.
LEMMA OwnRecord ==
    ASSUME IInv, OnlyOwnReply, ReadRecord, HonestHeaders
    PROVE  /\ stream' = << >> /\ requests' = << >>
           /\ HeaderOk(unpacker') => Xid(unpacker') = lastxid
           /\ ~HeaderOk(unpacker') => calls \notin executed
<1> DEFINE f == stream[1]
<1>1. /\ TypeOK /\ FramingInv /\ StreamInv /\ stream # << >> /\ Head(stream).last
      /\ stream' = Tail(stream) /\ unpacker' = record \o Data(Head(stream)) /\ requests' = requests
  BY DEF IInv, ReadRecord
<1>2. /\ f \in Fragment /\ Head(stream) = f
      /\ record \o Data(f) = Words(f.of, 0, f.upto)
  BY <1>1, RecordGrows
<1>3. Len(stream) \in Nat \ {0} /\ stream \in Seq(Fragment)
  BY <1>1, EmptySeq DEF TypeOK
<1>4. f.last /\ f.upto = ReplyLen /\ Len(stream) = 1
  <2>1. f.last /\ 1 \in 1..Len(stream)
    BY <1>1, <1>2, <1>3
  <2>2. 1 = Len(stream)
    BY <2>1 DEF OnlyOwnReply
  <2>3. f.upto = ReplyLen
    BY <1>1, <2>1 DEF FramingInv, Framed
  <2>4. QED
    BY <2>1, <2>2, <2>3
<1>5. f.of \in Reply /\ ReplyLen \in Nat /\ ReplyLen > 0 /\ ReplyLen \in 0..ReplyLen /\ 1 \in 1..ReplyLen
  BY <1>2, ConstantsAssumption DEF Fragment, ConstantsAssumption
<1>6. unpacker' = Words(f.of, 0, ReplyLen)
  BY <1>1, <1>2, <1>4
<1>7. unpacker' # << >> /\ unpacker'[1] = [of |-> f.of, n |-> 1]
  <2>1. /\ Words(f.of, 0, ReplyLen) \in Seq(Word) /\ Len(Words(f.of, 0, ReplyLen)) = ReplyLen
        /\ Words(f.of, 0, ReplyLen)[1] = [of |-> f.of, n |-> 1]
    BY <1>5, WordsFromStart
  <2>2. QED
    BY <1>5, <1>6, <2>1, EmptySeq
<1>8. Xid(unpacker') = lastxid
  <2>1. Answers(f.of, latest.id, executed) /\ f.of.id = calls
    BY <1>1, <1>3 DEF StreamInv, OnlyOwnReply
  <2>2. QED
    BY <1>7, <2>1 DEF Xid, Answers, IInv, ClientInv
<1>9. Executes(f.of.hdr) => HeaderOk(unpacker')
  BY <1>5, <1>7 DEF Executes, HeaderOk, HonestHeaders, Reply
<1>10. stream' = << >>
  BY <1>1, <1>3, <1>4
<1>11. QED
  BY <1>1, <1>8, <1>9, <1>10 DEF OnlyOwnReply

LEMMA ErrStep ==
    ASSUME HonestHeaders, EInv, [Next]_vars
    PROVE  StepInv'
<1> USE DEF EInv
<1>0. /\ TypeOK /\ calls \in Nat /\ dups \in Nat
      /\ \A c \in executed : c \in 1..Newest
  BY DEF IInv, TypeOK, RequestsInv
<1>1. CASE StartCall
  <2>1. calls' = calls + 1 /\ pc' = "packed" /\ result' = "none" /\ pc = "idle"
        /\ UNCHANGED <<requests, stream, closed, dups, executed>>
    BY <1>1 DEF StartCall, serverVars
  <2>2. QED
    BY <2>1 DEF StepInv
<1>2. CASE StartCallOverflows
  BY <1>2 DEF StartCallOverflows, serverVars, StepInv
<1>3. CASE GiveUp \/ SendFails
  <2>1. pc = "packed" /\ pc' = "idle" /\ UNCHANGED <<requests, stream, closed, dups, executed, calls>>
    BY <1>3 DEF GiveUp, SendFails, serverVars
  <2>2. calls \notin executed
    BY <1>0, <2>1 DEF Newest
  <2>3. QED
    BY <2>1, <2>2 DEF StepInv
<1>4. CASE SendCall
  <2>1. /\ pc = "packed" /\ pc' = "reading"
        /\ requests' = IF closed THEN requests ELSE requests \o packer
        /\ UNCHANGED <<stream, closed, dups, executed, calls, result>>
    BY <1>4 DEF SendCall, serverVars
  <2>2. packer = << [id |-> calls, xid |-> lastxid] >> /\ result = "none"
    BY <2>1 DEF IInv, ClientInv
  <2>3. (dups = 0 /\ ~closed) => stream = << >> /\ requests' = << [id |-> calls, xid |-> lastxid] >>
    BY <1>0, <2>1, <2>2 DEF StepInv, TypeOK
  <2>4. \A x : Len(<< x >>) = 1 /\ << x >>[1] = x
    OBVIOUS
  <2>5. QED
    BY <2>1, <2>2, <2>3, <2>4 DEF StepInv, OnlyOwnCall
<1>5. CASE ReadFails
  BY <1>5 DEF ReadFails, serverVars, StepInv
<1>6. CASE ReadFragment
  <2>1. /\ pc = "reading" /\ pc' = pc /\ stream # << >> /\ stream' = Tail(stream) /\ ~Head(stream).last
        /\ UNCHANGED <<requests, closed, dups, executed, calls, result>>
    BY <1>6 DEF ReadFragment, serverVars
  <2>2. /\ Len(stream) \in Nat \ {0} /\ Head(stream) = stream[1] /\ Len(stream') = Len(stream) - 1
        /\ \A i \in 1..Len(stream') : stream'[i] = stream[i + 1] /\ i + 1 \in 1..Len(stream)
        /\ stream' \in Seq(Fragment)
    BY <1>0, <2>1, EmptySeq DEF TypeOK
  <2>3. stream[Len(stream)].last
    BY <2>1 DEF IInv, FramingInv, Framed
  <2>4. Len(stream) > 1
    BY <2>1, <2>2, <2>3
  <2>5. stream' # << >> /\ 1 \in 1..Len(stream')
    BY <2>2, <2>4
  <2>6. OnlyOwnReply => OnlyOwnReply'
    <3>1. SUFFICES ASSUME OnlyOwnReply PROVE OnlyOwnReply'
      OBVIOUS
    <3>2. stream[2].of = stream[1].of /\ stream'[1] = stream[2]
      BY <2>2, <2>4, <2>5, <3>1 DEF OnlyOwnReply
    <3>3. ASSUME NEW i \in 1..Len(stream')
          PROVE  stream'[i].of = stream'[1].of /\ (stream'[i].last => i = Len(stream'))
      <4>1. stream'[i] = stream[i + 1] /\ i + 1 \in 1..Len(stream)
        BY <2>2
      <4>2. stream[i + 1].of = stream[1].of /\ (stream[i + 1].last => i + 1 = Len(stream))
        BY <3>1, <4>1 DEF OnlyOwnReply
      <4>3. QED
        BY <2>2, <3>2, <4>1, <4>2
    <3>4. QED
      BY <2>1, <2>5, <3>1, <3>2, <3>3 DEF OnlyOwnReply
  <2>7. QED
    BY <2>1, <2>6 DEF StepInv, OnlyOwnCall
<1>7. CASE Accept \/ SkipPast \/ RejectFuture \/ RejectHeader
  <2>1. /\ ReadRecord /\ pc = "reading" /\ stream # << >>
        /\ UNCHANGED <<requests, closed, dups, executed, calls>>
    BY <1>7 DEF Accept, SkipPast, RejectFuture, RejectHeader, ReadRecord, serverVars
  <2>2. lastxid \in Nat
    BY <1>0, ConstantsAssumption DEF TypeOK, ConstantsAssumption
  <2>3. SUFFICES ASSUME dups = 0, ~closed PROVE StepInv'
    BY <2>1 DEF StepInv
  <2>4. OnlyOwnReply
    BY <2>1, <2>3 DEF StepInv, OnlyOwnCall
  <2>5. /\ stream' = << >> /\ requests' = << >>
        /\ HeaderOk(unpacker') => Xid(unpacker') = lastxid
        /\ ~HeaderOk(unpacker') => calls \notin executed
    BY <2>1, <2>4, OwnRecord
  <2>6. pc' = "idle" /\ (result' = "err" => calls \notin executed)
    BY <1>7, <2>2, <2>5 DEF Accept, SkipPast, RejectFuture, RejectHeader, Return
  <2>7. QED
    BY <2>1, <2>5, <2>6 DEF StepInv
<1>8. ASSUME NEW h \in Headers, NEW cut \in 0..ReplyLen, Answer(h, cut)
      PROVE  StepInv'
  <2> DEFINE r == [id |-> Head(requests).id, xid |-> Head(requests).xid, hdr |-> h]
  <2>1. /\ requests # << >> /\ ~closed /\ requests' = Tail(requests)
        /\ stream' = stream \o Fragments(r, cut)
        /\ executed' = IF Executes(h) THEN executed \cup {Head(requests).id} ELSE executed
        /\ UNCHANGED <<pc, calls, result, closed, dups>>
    BY <1>8 DEF Answer, clientVars
  <2>2. SUFFICES ASSUME dups = 0 PROVE StepInv'
    BY <2>1 DEF StepInv
  <2>3. pc = "reading" /\ OnlyOwnCall
    BY <2>1, <2>2 DEF StepInv, OnlyOwnReply
  <2>4. Head(requests).id = calls /\ Head(requests) \in Call /\ requests' = << >>
    BY <1>0, <2>1, <2>3 DEF OnlyOwnCall, TypeOK
  <2>5. r \in Reply /\ r.id = calls /\ r.hdr = h
    BY <2>4 DEF Call, Reply
  <2> HIDE DEF r
  <2>6. stream' = Fragments(r, cut) /\ Fragments(r, cut) \in Seq(Fragment)
    BY <2>1, <2>3, <2>5, FragmentsType DEF OnlyOwnCall
  <2>7. /\ stream' # << >>
        /\ \A i \in 1..Len(stream') : stream'[i].of = r /\ (stream'[i].last => i = Len(stream'))
    <3>1. /\ Len(stream') \in {1, 2} /\ \A i \in 1..Len(stream') : stream'[i].of = r
      BY <2>5, <2>6, FragmentsType
    <3>2. Len(stream') = 2 => ~stream'[1].last
      BY <2>6 DEF Fragments
    <3>3. stream' # << >>
      BY <3>1
    <3>4. QED
      BY <3>1, <3>2, <3>3
  <2>8. 1 \in 1..Len(stream')
    BY <2>6, <2>7
  <2>9. calls \notin executed
    BY <1>0, <2>1, <2>3, <2>4, HeadIsNew
  <2>10. Executes(stream'[1].of.hdr) \/ calls' \notin executed'
    BY <2>1, <2>5, <2>7, <2>8, <2>9
  <2>11. OnlyOwnReply'
    BY <2>1, <2>4, <2>5, <2>7, <2>8, <2>10 DEF OnlyOwnReply
  <2>12. result = "none"
    BY <2>3 DEF IInv, ClientInv
  <2>13. QED
    BY <2>1, <2>3, <2>11, <2>12 DEF StepInv
<1>9. ASSUME NEW cut \in 0..ReplyLen, Duplicate(cut)
      PROVE  StepInv'
  BY <1>0, <1>9 DEF Duplicate, StepInv
<1>10. CASE Disconnect
  BY <1>10 DEF Disconnect, StepInv
<1>11. CASE UNCHANGED vars
  BY <1>11 DEF vars, clientVars, serverVars, StepInv, OnlyOwnCall, OnlyOwnReply
<1>12. QED
  BY <1>1, <1>2, <1>3, <1>4, <1>5, <1>6, <1>7, <1>8, <1>9, <1>10, <1>11 DEF Next, DoCall

\* A call that returned Err was not executed, on a connection that is up and over
\* which no reply came twice, whatever fragments and headers the server sent.
THEOREM ErrIsNotExecuted ==
    ASSUME HonestHeaders
    PROVE  Spec => []ErrMeansNotExecuted
<1>1. Init => StepInv
  BY DEF Init, StepInv
<1>2. IInv /\ IInv' /\ StepInv /\ [Next]_vars => StepInv'
  BY ErrStep DEF EInv
<1>3. IInv /\ StepInv => ErrMeansNotExecuted
  BY DEF StepInv, ErrMeansNotExecuted
<1>4. QED
  BY <1>1, <1>2, <1>3, Invariant, PTL DEF Spec

-----------------------------------------------------------------------------
(* How far the client lags behind *)

\* On a connection that is up, what is still to be read and to be answered is no
\* more than the replies sent twice, and one for the call under way.
LagInv ==
    ~closed =>
        Cardinality(Records(stream)) + Len(requests)
            <= dups + (IF pc = "reading" THEN 1 ELSE 0)

LEMMA RecordsFinite ==
    ASSUME NEW s \in Seq(Fragment)
    PROVE  IsFiniteSet(Records(s)) /\ Cardinality(Records(s)) \in Nat
<1>1. DOMAIN s = 1..Len(s) /\ Len(s) \in Nat
  BY LenProperties
<1>2. IsFiniteSet(1..Len(s))
  BY <1>1, FS_Interval
<1>3. Records(s) \in SUBSET (1..Len(s))
  BY <1>1 DEF Records
<1>4. IsFiniteSet(Records(s))
  BY <1>2, <1>3, FS_Subset
<1>5. QED
  BY <1>4, FS_CardinalityType

\* A reply is one record more, however it is cut.
LEMMA RecordsAppend ==
    ASSUME NEW s \in Seq(Fragment), NEW r \in Reply, NEW cut \in 0..ReplyLen
    PROVE  Cardinality(Records(s \o Fragments(r, cut))) = Cardinality(Records(s)) + 1
<1> DEFINE t == Fragments(r, cut)
           u == s \o t
           n == Len(s)
<1>1. /\ t \in Seq(Fragment) /\ Len(t) \in {1, 2}
      /\ t[Len(t)].last
      /\ Len(t) = 2 => ~t[1].last
  BY FragmentsType
<1>2. n \in Nat /\ DOMAIN s = 1..n
  BY LenProperties
<1> HIDE DEF t
<1>3. /\ u \in Seq(Fragment) /\ Len(u) = n + Len(t) /\ DOMAIN u = 1..Len(u)
      /\ \A i \in 1..n + Len(t) : u[i] = IF i <= n THEN s[i] ELSE t[i - n]
  BY <1>1, ConcatProperties, LenProperties
<1> HIDE DEF u, n
<1>4. /\ \A i \in 1..n : u[i] = s[i]
      /\ \A k \in 1..Len(t) : n + k \in 1..Len(u) /\ u[n + k] = t[k]
  <2>1. ASSUME NEW k \in 1..Len(t)
        PROVE  n + k \in 1..n + Len(t) /\ ~(n + k <= n) /\ (n + k) - n = k
    BY <1>1, <1>2
  <2>2. ASSUME NEW i \in 1..n PROVE i \in 1..n + Len(t) /\ i <= n
    BY <1>1, <1>2
  <2>3. QED
    BY <2>1, <2>2, <1>3
<1>5. ASSUME NEW i \in 1..Len(u), i \notin 1..n
      PROVE  \/ i = n + Len(t) /\ u[i].last
             \/ i # n + Len(t) /\ ~u[i].last
  <2>1. \/ i = n + 1 /\ Len(t) = 1
        \/ i = n + 2 /\ Len(t) = 2
        \/ i = n + 1 /\ Len(t) = 2
    BY <1>1, <1>2, <1>3, <1>5
  <2>2. QED
    BY <2>1, <1>1, <1>2, <1>4
<1>6. n + Len(t) \in 1..Len(u) /\ n + Len(t) \notin 1..n
  BY <1>1, <1>2, <1>3
<1>7. Records(u) = Records(s) \cup {n + Len(t)}
  <2>1. 1..n \subseteq 1..Len(u)
    BY <1>1, <1>2, <1>3
  <2>2. QED
    BY <2>1, <1>2, <1>3, <1>4, <1>5, <1>6 DEF Records
<1>8. n + Len(t) \notin Records(s)
  BY <1>2, <1>6 DEF Records
<1>9. QED
  BY <1>7, <1>8, RecordsFinite, FS_AddElement DEF u, t

\* What is read is a record less, if it ends one.
LEMMA RecordsTail ==
    ASSUME NEW s \in Seq(Fragment), s # << >>
    PROVE  Cardinality(Records(Tail(s))) =
               Cardinality(Records(s)) - (IF Head(s).last THEN 1 ELSE 0)
<1> DEFINE t == Tail(s)
           rest == Records(s) \ {1}
           f == [i \in Records(t) |-> i + 1]
<1>1. /\ t \in Seq(Fragment) /\ Len(t) = Len(s) - 1 /\ Len(s) \in Nat \ {0}
      /\ \A i \in 1..Len(t) : t[i] = s[i+1]
      /\ DOMAIN t = 1..Len(t) /\ DOMAIN s = 1..Len(s)
      /\ Head(s) = s[1]
  BY HeadTailProperties, EmptySeq, LenProperties
<1>2. IsFiniteSet(Records(s)) /\ IsFiniteSet(Records(t))
      /\ Cardinality(Records(s)) \in Nat
  BY <1>1, RecordsFinite
<1> HIDE DEF t
<1>3. 1 \in Records(s) <=> Head(s).last
  BY <1>1 DEF Records
<1>4. Cardinality(rest) = Cardinality(Records(s)) - (IF Head(s).last THEN 1 ELSE 0)
  <2>1. Cardinality(rest) =
            IF 1 \in Records(s) THEN Cardinality(Records(s)) - 1 ELSE Cardinality(Records(s))
    BY <1>2, FS_RemoveElement
  <2>2. Cardinality(Records(s)) - 0 = Cardinality(Records(s))
    BY <1>2
  <2>3. CASE 1 \in Records(s)
    BY <2>1, <2>3, <1>3
  <2>4. CASE 1 \notin Records(s)
    BY <2>1, <2>2, <2>4, <1>3
  <2>5. QED
    BY <2>3, <2>4
<1>5. \A i \in Records(t) : i \in 1..Len(t) /\ i + 1 \in rest
  BY <1>1 DEF Records
<1>6. ASSUME NEW j \in rest PROVE \E i \in Records(t) : i + 1 = j
  <2>1. j \in 1..Len(s) /\ j # 1 /\ s[j].last
    BY <1>1 DEF Records
  <2>2. j - 1 \in 1..Len(t) /\ (j - 1) + 1 = j
    BY <2>1, <1>1
  <2>3. j - 1 \in Records(t)
    BY <2>1, <2>2, <1>1 DEF Records
  <2>4. QED
    BY <2>2, <2>3
<1>7. f \in Bijection(Records(t), rest)
  <2>1. f \in [Records(t) -> rest]
    BY <1>5
  <2>2. \A a, b \in Records(t) : f[a] = f[b] => a = b
    BY <1>5
  <2>3. \A j \in rest : \E i \in Records(t) : f[i] = j
    BY <1>6
  <2>4. QED
    BY <2>1, <2>2, <2>3 DEF Bijection, Injection, Surjection, IsInjective
<1>8. ExistsBijection(Records(t), rest)
  BY <1>7 DEF ExistsBijection
<1>9. Cardinality(rest) = Cardinality(Records(t))
  BY <1>2, <1>8, FS_Bijection
<1>10. QED
  BY <1>4, <1>9 DEF t

LEMMA LagStep ==
    ASSUME IInv, LagInv, [Next]_vars
    PROVE  LagInv'
<1> USE DEF LagInv
<1>t. TypeOK
  BY DEF IInv
<1>1. /\ stream \in Seq(Fragment) /\ requests \in Seq(Call) /\ dups \in Nat
      /\ closed \in BOOLEAN
  BY <1>t DEF TypeOK
<1>2. Cardinality(Records(stream)) \in Nat /\ Len(requests) \in Nat
  BY <1>1, RecordsFinite, LenProperties
<1>3. CASE UNCHANGED vars
  BY <1>3 DEF vars, clientVars, serverVars
<1>4. CASE StartCall \/ StartCallOverflows \/ GiveUp
  BY <1>4 DEF StartCall, StartCallOverflows, GiveUp, serverVars
<1>5. CASE SendCall
  <2>1. /\ pc = "packed" /\ pc' = "reading" /\ stream' = stream
        /\ dups' = dups /\ closed' = closed
        /\ ~closed => requests' = requests \o packer
    BY <1>5 DEF SendCall, serverVars
  <2>2. packer \in Seq(Call) /\ Len(packer) = 1
    BY <2>1, <1>t DEF IInv, ClientInv, TypeOK
  <2>3. Len(requests \o packer) = Len(requests) + Len(packer)
    BY <2>2, <1>1, ConcatProperties
  <2>4. ~closed => Len(requests') = Len(requests) + 1
    BY <2>1, <2>2, <2>3
  <2>5. QED
    BY <2>1, <2>4, <1>1, <1>2
<1>6. CASE SendFails \/ ReadFails
  BY <1>6 DEF SendFails, ReadFails, serverVars
<1>7. CASE ReadFragment
  <2>1. /\ stream # << >> /\ ~Head(stream).last /\ stream' = Tail(stream)
        /\ UNCHANGED <<pc, requests, closed, dups>>
    BY <1>7 DEF ReadFragment, serverVars
  <2>2. Cardinality(Records(stream')) = Cardinality(Records(stream))
    BY <2>1, <1>1, <1>2, RecordsTail
  <2>3. QED
    BY <2>1, <2>2
<1>8. CASE Accept \/ SkipPast \/ RejectFuture \/ RejectHeader
  <2>1. ReadRecord
    BY <1>8, ReadsRecord
  <2>2. /\ pc = "reading"
        /\ stream # << >> /\ Head(stream).last /\ stream' = Tail(stream)
        /\ UNCHANGED <<requests, closed, dups>>
    BY <2>1 DEF ReadRecord, serverVars
  <2>3. Cardinality(Records(stream')) = Cardinality(Records(stream)) - 1
    BY <2>2, <1>1, RecordsTail
  <2>4. QED
    BY <2>2, <2>3, <1>1, <1>2
<1>9. ASSUME NEW h \in Headers, NEW cut \in 0..ReplyLen, Answer(h, cut)
      PROVE  LagInv'
  <2> DEFINE c == Head(requests)
             r == [id |-> c.id, xid |-> c.xid, hdr |-> h]
  <2>1. /\ requests # << >> /\ stream' = stream \o Fragments(r, cut)
        /\ requests' = Tail(requests)
        /\ UNCHANGED <<pc, closed, dups>>
    BY <1>9 DEF Answer, clientVars
  <2>2. Len(requests') = Len(requests) - 1
    BY <2>1, <1>1, HeadTailProperties
  <2>3. r \in Reply
    <3>1. c \in Call
      BY <2>1, <1>1, HeadTailProperties
    <3>2. QED
      BY <3>1 DEF Call, Reply
  <2>4. Cardinality(Records(stream')) = Cardinality(Records(stream)) + 1
    BY <2>1, <2>3, <1>1, RecordsAppend
  <2>5. QED
    BY <2>1, <2>2, <2>4, <1>2
<1>10. ASSUME NEW cut \in 0..ReplyLen, Duplicate(cut) PROVE LagInv'
  <2>1. /\ latest # NoReply /\ dups' = dups + 1
        /\ stream' = stream \o Fragments(latest, cut)
        /\ UNCHANGED <<pc, closed, requests>>
    BY <1>10 DEF Duplicate, clientVars
  <2>2. latest \in Reply
    BY <2>1, <1>t DEF TypeOK
  <2>3. Cardinality(Records(stream')) = Cardinality(Records(stream)) + 1
    BY <2>1, <2>2, <1>1, RecordsAppend
  <2>4. QED
    BY <2>1, <2>3, <1>1, <1>2
<1>11. CASE Disconnect
  BY <1>11 DEF Disconnect
<1>12. QED
  BY <1>3, <1>4, <1>5, <1>6, <1>7, <1>8, <1>9, <1>10, <1>11 DEF Next, DoCall

\* Between calls the client is behind by no more records than were sent twice,
\* however many of its calls have failed.
THEOREM LagIsBounded == Spec => []LagBounded
<1>1. Init => LagInv
  <2>1. SUFFICES ASSUME Init PROVE LagInv
    OBVIOUS
  <2>2. Len(requests) = 0 /\ dups = 0 /\ Records(stream) = {}
    BY <2>1 DEF Init, Records
  <2>3. Cardinality(Records(stream)) = 0
    BY <2>2, FS_EmptySet
  <2>4. QED
    BY <2>1, <2>2, <2>3 DEF Init, LagInv
<1>2. IInv /\ LagInv /\ [Next]_vars => LagInv'
  BY LagStep
<1>3. IInv /\ LagInv => LagBounded
  BY DEF IInv, TypeOK, LagInv, LagBounded
<1>4. QED
  BY <1>1, <1>2, <1>3, Invariant, PTL DEF Spec
=============================================================================
