------------------------ MODULE BroadcastClientProofs ------------------------
(***************************************************************************)
(* Proofs about BroadcastClient, for every set of servers, every number of *)
(* transaction ids and every bound.                                        *)
(***************************************************************************)
EXTENDS BroadcastClient, Remainders, SequenceTheorems, TLAPS

-----------------------------------------------------------------------------
(* The inductive invariant *)

\* q carries the id of a call up to n, and the xid of that call.
Numbered(q, n) == q.id <= n /\ q.xid = q.id % XidMod

\* Every request and every answer is numbered, and the client's xid is its own; with
\* overflow checks it never wraps.
NumberInv ==
    /\ lastxid = calls % XidMod
    /\ overflow_checks => calls < XidMod
    /\ \A q \in requests : Numbered(q, calls)
    /\ \A i \in DOMAIN inbox : Numbered(inbox[i], calls)

\* A good answer of server s to call n.
GoodAnswer(r, s, n) == r.from = s /\ r.id = n /\ r.accepted

\* A good answer that has arrived during a call is kept, or still in the socket; only
\* an error of the socket lets the call return Ok before the socket is empty.
ArrivedInv ==
    /\ pc = "receiving" =>
          /\ result = "none"
          /\ \A s \in arrived : \/ \E r \in kept : r.from = s /\ r.id = calls
                                \/ \E i \in DOMAIN inbox : GoodAnswer(inbox[i], s, calls)
    /\ OkKeptAllArrived

IInv == TypeOK /\ NumberInv /\ KeptAreAnswers /\ ArrivedInv

-----------------------------------------------------------------------------
LEMMA InitInv == Init => IInv
<1> SUFFICES ASSUME Init PROVE IInv
  OBVIOUS
<1> USE DEF Init
<1>0. overflow_checks \in BOOLEAN /\ interrupted \in BOOLEAN
  BY ConstantsAssumption, Zenon DEF ConstantsAssumption
<1>1. TypeOK
  BY <1>0, ConstantsAssumption DEF ConstantsAssumption, TypeOK
<1>2. (XidMod * 0 + 0) % XidMod = 0 /\ XidMod * 0 + 0 = 0
  BY ConstantsAssumption, ModUnique DEF ConstantsAssumption
<1>3. NumberInv
  BY <1>2, ConstantsAssumption DEF NumberInv, ConstantsAssumption
<1>4. QED
  BY <1>1, <1>3 DEF IInv, KeptAreAnswers, ArrivedInv, OkKeptAllArrived

\* The head of the inbox, and what is behind it.
LEMMA InboxHead ==
    ASSUME IInv, inbox # << >>
    PROVE  /\ Head(inbox) \in Reply /\ Numbered(Head(inbox), calls)
           /\ Tail(inbox) \in Seq(Reply)
           /\ \A i \in DOMAIN Tail(inbox) : Numbered(Tail(inbox)[i], calls)
           /\ \A i \in DOMAIN inbox :
                 inbox[i] = Head(inbox) \/ \E j \in DOMAIN Tail(inbox) : Tail(inbox)[j] = inbox[i]
<1>1. inbox \in Seq(Reply)
  BY DEF IInv, TypeOK
<1>2. /\ Head(inbox) = inbox[1] /\ 1 \in DOMAIN inbox
      /\ \A i \in DOMAIN Tail(inbox) : i + 1 \in DOMAIN inbox /\ Tail(inbox)[i] = inbox[i + 1]
      /\ \A i \in DOMAIN inbox : i = 1 \/ (i - 1 \in DOMAIN Tail(inbox) /\ Tail(inbox)[i - 1] = inbox[i])
  BY <1>1
<1>3. \A i \in DOMAIN inbox : Numbered(inbox[i], calls)
  BY DEF IInv, NumberInv
<1>4. QED
  BY <1>1, <1>2, <1>3

\* A call takes the next number, whether its request is sent or not.
LEMMA StartStep ==
    ASSUME IInv, MakeCall \/ SendFails
    PROVE  IInv'
<1> USE DEF IInv
<1>1. /\ calls \in Nat /\ XidMod \in Nat /\ XidMod > 1 /\ lastxid \in 0..XidMod-1
      /\ lastxid = calls % XidMod
  BY ConstantsAssumption DEF ConstantsAssumption, TypeOK, NumberInv
<1>2. NextXid = (calls + 1) % XidMod /\ NextXid \in 0..XidMod-1
  <2>1. NextXid = (calls + 1) % XidMod
    BY <1>1, ModSucc DEF NextXid
  <2>2. calls + 1 \in Nat
    BY <1>1
  <2>3. QED
    BY <1>1, <2>1, <2>2, DivMod
<1>3. \A r : Numbered(r, calls) /\ r.id \in Nat => Numbered(r, calls + 1)
  BY <1>1 DEF Numbered
<1> DEFINE new == [to : Servers, id : {calls + 1}, xid : {NextXid}]
<1>4. \A q \in new : q \in Request /\ Numbered(q, calls + 1)
  BY <1>1, <1>2 DEF Request, Numbered
<1>5. /\ calls' = calls + 1 /\ lastxid' = NextXid /\ kept' = {} /\ arrived' = {}
      /\ interrupted' = FALSE /\ UNCHANGED <<inbox, dups, overflow_checks>>
      /\ \/ pc' = "receiving" /\ result' = "none" /\ requests' = requests \cup new
         \/ pc = "idle" /\ pc' = pc /\ result' = "err" /\ requests' = requests
  BY DEF MakeCall, SendFails, StartCall
<1> HIDE DEF new
<1>6. TypeOK'
  <2>1. requests' \subseteq Request
    BY <1>4, <1>5 DEF TypeOK
  <2>2. calls + 1 \in Nat /\ pc' \in {"idle", "receiving", "panicked"}
        /\ result' \in {"none", "ok", "err"}
    BY <1>1, <1>5
  <2>3. /\ kept' \subseteq Reply /\ arrived' \subseteq Servers /\ interrupted' \in BOOLEAN
        /\ inbox' \in Seq(Reply) /\ dups' \in Nat /\ overflow_checks' \in BOOLEAN
    BY <1>5, Zenon DEF TypeOK
  <2>4. QED
    BY <1>2, <1>5, <2>1, <2>2, <2>3 DEF TypeOK
<1>7. NumberInv'
  <2>1. \A q \in requests' : Numbered(q, calls + 1)
    BY <1>3, <1>4, <1>5 DEF NumberInv, TypeOK, Request
  <2>2. \A i \in DOMAIN inbox : inbox[i] \in Reply
    BY DEF TypeOK
  <2>3. \A i \in DOMAIN inbox' : Numbered(inbox'[i], calls + 1)
    BY <1>3, <1>5, <2>2 DEF NumberInv, Reply
  <2>4. ASSUME overflow_checks PROVE calls + 1 < XidMod
    <3>1. calls < XidMod /\ lastxid + 1 # XidMod
      BY <2>4 DEF NumberInv, MakeCall, SendFails, StartCall, Overflows
    <3>2. (XidMod * 0 + calls) % XidMod = calls /\ XidMod * 0 + calls = calls
      BY <1>1, <3>1, ModUnique
    <3>3. QED
      BY <1>1, <3>1, <3>2
  <2>5. QED
    BY <1>2, <1>5, <2>1, <2>3, <2>4 DEF NumberInv
<1>8. ArrivedInv' /\ KeptAreAnswers'
  BY <1>5 DEF KeptAreAnswers, ArrivedInv, OkKeptAllArrived
<1>9. QED
  BY <1>6, <1>7, <1>8

\* A panic changes nothing but the control state.
LEMMA OverflowStep == ASSUME IInv, StartCallOverflows PROVE IInv'
<1>1. /\ pc' = "panicked"
      /\ UNCHANGED <<calls, lastxid, kept, result, requests, inbox, arrived, interrupted,
                     dups, overflow_checks>>
  BY DEF StartCallOverflows
<1>2. QED
  BY <1>1 DEF IInv, TypeOK, NumberInv, KeptAreAnswers, ArrivedInv, OkKeptAllArrived

\* The loop takes one datagram.
LEMMA ReceiveStep ==
    ASSUME IInv, Keep \/ Skip \/ RejectHeader
    PROVE  IInv'
<1> USE DEF IInv
<1> DEFINE h == Head(inbox)
<1>1. /\ pc = "receiving" /\ inbox # << >> /\ inbox' = Tail(inbox)
      /\ UNCHANGED <<calls, lastxid, requests, arrived, interrupted, dups, overflow_checks>>
  BY DEF Keep, Skip, RejectHeader, Receive
<1>2. /\ h \in Reply /\ Numbered(h, calls) /\ inbox' \in Seq(Reply)
      /\ \A i \in DOMAIN inbox' : Numbered(inbox'[i], calls)
      /\ \A i \in DOMAIN inbox : inbox[i] = h \/ \E j \in DOMAIN inbox' : inbox'[j] = inbox[i]
  BY <1>1, InboxHead
<1>3. NumberInv'
  BY <1>1, <1>2 DEF NumberInv
<1>4. h.id \in Nat /\ calls \in Nat /\ XidMod \in Nat /\ XidMod > 1 /\ lastxid = calls % XidMod
  BY <1>2, ConstantsAssumption DEF Reply, TypeOK, NumberInv, ConstantsAssumption
<1>5. CASE Keep
  <2>1. /\ pc' = pc /\ result' = result /\ kept' = kept \cup {h} /\ h.accepted /\ h.xid = lastxid
    BY <1>5 DEF Keep
  <2>2. h.id = calls \/ (~overflow_checks /\ h.id + XidMod <= calls)
    <3>1. h.id = calls \/ h.id + XidMod <= calls
      BY <1>2, <1>4, <2>1, ModWindow DEF Numbered
    <3>2. overflow_checks => ~(h.id + XidMod <= calls)
      BY <1>4 DEF NumberInv
    <3>3. QED
      BY <3>1, <3>2
  <2> HIDE DEF h
  <2>3. TypeOK'
    BY <1>1, <1>2, <2>1 DEF TypeOK
  <2>4. KeptAreAnswers'
    BY <1>1, <2>1, <2>2 DEF KeptAreAnswers
  <2>5. ArrivedInv'
    <3>1. result = "none"
      BY <1>1 DEF ArrivedInv
    <3>2. ASSUME NEW s \in arrived
          PROVE  \/ \E r \in kept' : r.from = s /\ r.id = calls
                 \/ \E i \in DOMAIN inbox' : GoodAnswer(inbox'[i], s, calls)
      BY <1>1, <1>2, <2>1 DEF ArrivedInv, GoodAnswer
    <3>3. QED
      BY <1>1, <2>1, <3>1, <3>2 DEF ArrivedInv, OkKeptAllArrived, GoodAnswer
  <2>6. QED
    BY <1>3, <2>3, <2>4, <2>5
<1>6. CASE Skip
  <2>1. /\ pc' = pc /\ result' = result /\ kept' = kept /\ h.xid # lastxid
    BY <1>6 DEF Skip
  <2>2. h.id # calls
    BY <1>2, <1>4, <2>1 DEF Numbered
  <2> HIDE DEF h
  <2>3. TypeOK'
    BY <1>1, <1>2, <2>1 DEF TypeOK
  <2>4. KeptAreAnswers'
    BY <1>1, <2>1 DEF KeptAreAnswers
  <2>5. ArrivedInv'
    <3>1. result = "none"
      BY <1>1 DEF ArrivedInv
    <3>2. ASSUME NEW s \in arrived
          PROVE  \/ \E r \in kept' : r.from = s /\ r.id = calls
                 \/ \E i \in DOMAIN inbox' : GoodAnswer(inbox'[i], s, calls)
      BY <1>1, <1>2, <2>1, <2>2 DEF ArrivedInv, GoodAnswer
    <3>3. QED
      BY <1>1, <2>1, <3>1, <3>2 DEF ArrivedInv, OkKeptAllArrived, GoodAnswer
  <2>6. QED
    BY <1>3, <2>3, <2>4, <2>5
<1>7. CASE RejectHeader
  <2>1. pc' = "idle" /\ result' = "err" /\ kept' = kept
    BY <1>7 DEF RejectHeader, Return
  <2>2. QED
    BY <1>1, <1>2, <1>3, <2>1 DEF TypeOK, KeptAreAnswers, ArrivedInv, OkKeptAllArrived
<1>8. QED
  BY <1>5, <1>6, <1>7

LEMMA TimeOutStep == ASSUME IInv, TimeOut PROVE IInv'
<1> USE DEF IInv
<1>1. /\ pc = "receiving" /\ inbox = << >> /\ pc' = "idle" /\ result' = "ok"
      /\ UNCHANGED <<calls, lastxid, kept, requests, inbox, arrived, interrupted, dups,
                     overflow_checks>>
  BY DEF TimeOut, Return
<1>2. OkKeptAllArrived'
  <2>1. \A s \in arrived : \E r \in kept : r.from = s /\ r.id = calls
    BY <1>1 DEF ArrivedInv
  <2>2. QED
    BY <1>1, <2>1 DEF OkKeptAllArrived
<1>3. QED
  BY <1>1, <1>2 DEF TypeOK, NumberInv, KeptAreAnswers, ArrivedInv

\* What has arrived and is not kept is left in the socket.
LEMMA FailStep == ASSUME IInv, ReceiveFails PROVE IInv'
<1> USE DEF IInv
<1>1. /\ pc = "receiving" /\ pc' = "idle" /\ result' = "ok" /\ interrupted' = TRUE
      /\ UNCHANGED <<calls, lastxid, kept, requests, inbox, arrived, dups, overflow_checks>>
  BY DEF ReceiveFails, Return
<1>2. OkKeptAllArrived'
  <2>1. \A s \in arrived : \/ \E r \in kept : r.from = s /\ r.id = calls
                          \/ \E i \in DOMAIN inbox : GoodAnswer(inbox[i], s, calls)
    BY <1>1 DEF ArrivedInv
  <2>2. QED
    BY <1>1, <2>1 DEF OkKeptAllArrived, GoodAnswer
<1>3. QED
  BY <1>1, <1>2 DEF TypeOK, NumberInv, KeptAreAnswers, ArrivedInv

LEMMA ServeStep ==
    ASSUME IInv, NEW q \in requests, NEW ok \in BOOLEAN, NEW again \in BOOLEAN, Serve(q, ok, again)
    PROVE  IInv'
<1> USE DEF IInv
<1> DEFINE r == [from |-> q.to, id |-> q.id, xid |-> q.xid, accepted |-> ok]
<1>1. q \in Request /\ Numbered(q, calls)
  BY DEF TypeOK, NumberInv
<1>2. /\ r \in Reply /\ Numbered(r, calls) /\ r.from = q.to /\ r.id = q.id /\ r.accepted = ok
  BY <1>1 DEF Request, Reply, Numbered
<1>3. /\ inbox' = Append(inbox, r) /\ UNCHANGED <<calls, lastxid, pc, kept, result, interrupted, overflow_checks>>
      /\ arrived' = IF ok /\ q.id = calls /\ pc = "receiving" THEN arrived \cup {q.to} ELSE arrived
      /\ requests' \subseteq requests /\ dups' \in Nat
  BY DEF Serve, TypeOK
<1> HIDE DEF r
<1>4. /\ inbox' \in Seq(Reply)
      /\ \A i \in DOMAIN inbox' : inbox'[i] = r \/ (i \in DOMAIN inbox /\ inbox'[i] = inbox[i])
      /\ \A i \in DOMAIN inbox : i \in DOMAIN inbox' /\ inbox'[i] = inbox[i]
      /\ \E i \in DOMAIN inbox' : inbox'[i] = r
  <2>1. inbox \in Seq(Reply)
    BY DEF TypeOK
  <2>2. Len(inbox) + 1 \in DOMAIN inbox' /\ inbox'[Len(inbox) + 1] = r
    BY <1>2, <1>3, <2>1
  <2>3. QED
    BY <1>2, <1>3, <2>1, <2>2
<1>5. TypeOK'
  <2>1. arrived' \subseteq Servers
    BY <1>1, <1>3 DEF TypeOK, Request
  <2>2. requests' \subseteq Request
    BY <1>3 DEF TypeOK
  <2>3. QED
    BY <1>3, <1>4, <2>1, <2>2 DEF TypeOK
<1>6. NumberInv'
  BY <1>2, <1>3, <1>4 DEF NumberInv
<1>7. KeptAreAnswers'
  BY <1>3 DEF KeptAreAnswers
<1>8. CASE pc = "receiving"
  <2>1. result = "none"
    BY <1>8 DEF ArrivedInv
  <2>2. ASSUME NEW s \in arrived'
        PROVE  \/ \E k \in kept : k.from = s /\ k.id = calls
               \/ \E i \in DOMAIN inbox' : GoodAnswer(inbox'[i], s, calls)
    <3>1. CASE s \in arrived
      BY <1>4, <1>8, <3>1 DEF ArrivedInv
    <3>2. CASE s \notin arrived
      <4>1. GoodAnswer(r, s, calls)
        BY <1>2, <1>3, <2>2, <3>2 DEF GoodAnswer
      <4>2. QED
        BY <1>4, <4>1
    <3>3. QED
      BY <3>1, <3>2
  <2>3. OkKeptAllArrived' /\ result' = "none"
    BY <1>3, <2>1 DEF OkKeptAllArrived
  <2>4. \A s \in arrived' :
           \/ \E k \in kept' : k.from = s /\ k.id = calls'
           \/ \E i \in DOMAIN inbox' : GoodAnswer(inbox'[i], s, calls')
    BY <1>3, <2>2 DEF GoodAnswer
  <2>5. ArrivedInv'
    BY <2>3, <2>4 DEF ArrivedInv
  <2>6. QED
    BY <1>5, <1>6, <1>7, <2>5
<1>9. CASE pc # "receiving"
  BY <1>3, <1>4, <1>5, <1>6, <1>7, <1>9 DEF ArrivedInv, OkKeptAllArrived
<1>10. QED
  BY <1>8, <1>9

LEMMA InvStep == IInv /\ [Next]_vars => IInv'
<1> SUFFICES ASSUME IInv, [Next]_vars PROVE IInv'
  OBVIOUS
<1>1. CASE UNCHANGED vars
  BY <1>1 DEF IInv, TypeOK, NumberInv, KeptAreAnswers, ArrivedInv, OkKeptAllArrived, GoodAnswer, vars
<1>2. CASE Next
  BY <1>2, StartStep, OverflowStep, ReceiveStep, TimeOutStep, FailStep, ServeStep DEF Next
<1>3. QED
  BY <1>1, <1>2

THEOREM Invariant == Spec => []IInv
  BY InitInv, InvStep, PTL DEF Spec

\* The variables of the client, the servers and the network keep their types.
THEOREM TypeCorrect == Spec => []TypeOK
<1>1. IInv => TypeOK
  BY DEF IInv
<1>2. QED
  BY <1>1, Invariant, PTL

\* What a call keeps are good answers to it, or, in a release build, to one
\* XidMod calls older.
THEOREM KeptAreOurs == Spec => []KeptAreAnswers
<1>1. IInv => KeptAreAnswers
  BY DEF IInv
<1>2. QED
  BY <1>1, Invariant, PTL

\* A call that returns Ok has kept every good answer that arrived while it received,
\* or, when an error of the socket ended its loop, left it in the socket.
THEOREM NoneIsMissed == Spec => []OkKeptAllArrived
<1>1. IInv => OkKeptAllArrived
  BY DEF IInv, ArrivedInv
<1>2. QED
  BY <1>1, Invariant, PTL
=============================================================================
