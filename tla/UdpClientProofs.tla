--------------------------- MODULE UdpClientProofs ---------------------------
(***************************************************************************)
(* Proofs about UdpClient, for every number of transaction ids, every set  *)
(* of listings and every bound on calls and duplicates.                    *)
(***************************************************************************)
EXTENDS UdpClient, Remainders, FiniteSetTheorems, SequenceTheorems, TLAPS

-----------------------------------------------------------------------------
(* The inductive invariant *)

\* q carries the id of a call up to n, and the xid of that call.
Numbered(q, n) == q.id <= n /\ q.xid = q.id % XidMod

\* Every request and every datagram is numbered, and the client's xid is its own;
\* with overflow checks it never wraps.
NumberInv ==
    /\ lastxid = calls % XidMod
    /\ overflow_checks => calls < XidMod
    /\ \A q \in requests : Numbered(q, calls)
    /\ \A i \in DOMAIN inbox : inbox[i] # Refused => Numbered(inbox[i], calls)

\* One datagram comes back at most for each request, but for those sent again.
CountInv ==
    /\ IsFiniteSet(requests)
    /\ Len(inbox) + Cardinality(requests) <= IF pc = "waiting" THEN dups + 1 ELSE dups

IInv == TypeOK /\ NumberInv /\ CountInv /\ (pc = "waiting" => result = "none") /\ OkIsOwnList

-----------------------------------------------------------------------------
LEMMA InitInv == Init => IInv
<1> SUFFICES ASSUME Init PROVE IInv
  OBVIOUS
<1> USE DEF Init
<1>0. overflow_checks \in BOOLEAN
  BY ConstantsAssumption, Zenon DEF ConstantsAssumption
<1>1. TypeOK
  BY <1>0, ConstantsAssumption DEF ConstantsAssumption, TypeOK
<1>2. (XidMod * 0 + 0) % XidMod = 0 /\ XidMod * 0 + 0 = 0
  BY ConstantsAssumption, ModUnique DEF ConstantsAssumption
<1>3. NumberInv
  BY <1>2, ConstantsAssumption DEF NumberInv, ConstantsAssumption
<1>4. IsFiniteSet(requests) /\ Cardinality(requests) = 0
  BY FS_EmptySet
<1>5. CountInv
  BY <1>4 DEF CountInv
<1>6. QED
  BY <1>1, <1>3, <1>5 DEF IInv, OkIsOwnList

\* The head of the inbox, and what is behind it.
LEMMA InboxHead ==
    ASSUME IInv, inbox # << >>
    PROVE  /\ Head(inbox) \in Reply \cup {Refused}
           /\ Head(inbox) # Refused => Numbered(Head(inbox), calls)
           /\ Tail(inbox) \in Seq(Reply \cup {Refused})
           /\ Len(Tail(inbox)) = Len(inbox) - 1
           /\ \A i \in DOMAIN Tail(inbox) : Tail(inbox)[i] # Refused => Numbered(Tail(inbox)[i], calls)
<1>1. inbox \in Seq(Reply \cup {Refused})
  BY DEF IInv, TypeOK
<1>2. /\ Head(inbox) = inbox[1] /\ 1 \in DOMAIN inbox
      /\ \A i \in DOMAIN Tail(inbox) : i + 1 \in DOMAIN inbox /\ Tail(inbox)[i] = inbox[i + 1]
  BY <1>1
<1>3. \A i \in DOMAIN inbox : inbox[i] # Refused => Numbered(inbox[i], calls)
  BY DEF IInv, NumberInv
<1>4. QED
  BY <1>1, <1>2, <1>3

\* A call takes the next number.
LEMMA DumpStep == ASSUME IInv, Dump PROVE IInv'
<1> USE DEF IInv
<1> DEFINE q == [id |-> calls + 1, xid |-> NextXid]
<1>1. /\ calls \in Nat /\ XidMod \in Nat /\ XidMod > 1 /\ lastxid \in 0..XidMod-1
      /\ lastxid = calls % XidMod
  BY ConstantsAssumption DEF ConstantsAssumption, TypeOK, NumberInv
<1>2. NextXid = (calls + 1) % XidMod /\ NextXid \in 0..XidMod-1
  <2>1. NextXid = (calls + 1) % XidMod
    BY <1>1, ModSucc DEF NextXid
  <2>2. calls + 1 \in Nat
    BY <1>1
  <2>3. QED
    BY <1>1, <2>1, <2>2, DivMod
<1>0. overflow_checks => calls + 1 < XidMod
  <2>1. SUFFICES ASSUME overflow_checks PROVE calls + 1 < XidMod
    OBVIOUS
  <2>2. calls < XidMod /\ lastxid + 1 # XidMod
    BY <2>1 DEF NumberInv, Dump, Overflows
  <2>3. (XidMod * 0 + calls) % XidMod = calls /\ XidMod * 0 + calls = calls
    BY <1>1, <2>2, ModUnique
  <2>4. QED
    BY <1>1, <2>2, <2>3
<1>3. q \in Request /\ q.id = calls + 1 /\ q.xid = (calls + 1) % XidMod
  BY <1>1, <1>2 DEF Request
<1>4. \A r : Numbered(r, calls) /\ r.id \in Nat => Numbered(r, calls + 1)
  BY <1>1 DEF Numbered
<1>5. CASE inbox # << >> /\ Head(inbox) = Refused
  <2>1. /\ calls' = calls + 1 /\ lastxid' = NextXid /\ listing' = << >> /\ result' = "err"
        /\ inbox' = Tail(inbox) /\ UNCHANGED <<pc, requests, unpacker, dups, lost, overflow_checks>> /\ pc = "idle"
    BY <1>5 DEF Dump
  <2>2. TypeOK'
    BY <1>1, <1>2, <2>1, <1>5, InboxHead DEF TypeOK
  <2>3. NumberInv'
    <3>1. \A r \in requests : Numbered(r, calls + 1)
      BY <1>4 DEF NumberInv, TypeOK, Request
    <3>2. \A i \in DOMAIN inbox' : inbox'[i] \in Reply \cup {Refused}
      BY <2>2 DEF TypeOK
    <3>3. \A i \in DOMAIN inbox' : inbox'[i] # Refused => Numbered(inbox'[i], calls + 1)
      BY <1>4, <1>5, <2>1, <3>2, InboxHead DEF Reply
    <3>4. QED
      BY <1>0, <1>2, <2>1, <3>1, <3>3 DEF NumberInv
  <2>4. CountInv'
    <3>1. Len(inbox') = Len(inbox) - 1 /\ Len(inbox) \in Nat
      BY <1>5, <2>1, InboxHead DEF TypeOK
    <3>2. Cardinality(requests) \in Nat /\ dups \in Nat
      BY FS_CardinalityType DEF CountInv, TypeOK
    <3>3. QED
      BY <2>1, <3>1, <3>2 DEF CountInv
  <2>5. QED
    BY <2>1, <2>2, <2>3, <2>4 DEF OkIsOwnList
<1>6. CASE ~(inbox # << >> /\ Head(inbox) = Refused)
  <2>1. /\ calls' = calls + 1 /\ lastxid' = NextXid /\ listing' = << >> /\ result' = "none"
        /\ pc' = "waiting" /\ requests' = requests \cup {q}
        /\ UNCHANGED <<inbox, unpacker, dups, lost, overflow_checks>> /\ pc = "idle"
    BY <1>6 DEF Dump
  <2>2. TypeOK'
    <3>1. requests' \subseteq Request
      BY <1>3, <2>1 DEF TypeOK
    <3>2. QED
      BY <1>1, <1>2, <2>1, <3>1 DEF TypeOK
  <2>3. NumberInv'
    <3>1. \A r \in requests' : Numbered(r, calls + 1)
      BY <1>1, <1>3, <1>4, <2>1 DEF NumberInv, TypeOK, Request, Numbered
    <3>2. \A i \in DOMAIN inbox : inbox[i] \in Reply \cup {Refused}
      BY DEF TypeOK
    <3>3. \A i \in DOMAIN inbox' : inbox'[i] # Refused => Numbered(inbox'[i], calls + 1)
      BY <1>4, <2>1, <3>2 DEF NumberInv, Reply
    <3>4. QED
      BY <1>0, <1>2, <2>1, <3>1, <3>3 DEF NumberInv
  <2>4. CountInv'
    <3>0. IsFiniteSet(requests)
      BY DEF CountInv
    <3> HIDE DEF q
    <3>1. /\ IsFiniteSet(requests') /\ Cardinality(requests') <= Cardinality(requests) + 1
          /\ Cardinality(requests') \in Nat /\ Cardinality(requests) \in Nat
      <4>1. /\ IsFiniteSet(requests \cup {q})
            /\ Cardinality(requests \cup {q}) \in {Cardinality(requests), Cardinality(requests) + 1}
        BY <3>0, FS_AddElement
      <4>2. Cardinality(requests) \in Nat
        BY <3>0, FS_CardinalityType
      <4>3. QED
        BY <2>1, <4>1, <4>2
    <3>2. Len(inbox) \in Nat /\ dups \in Nat
      BY DEF TypeOK
    <3>3. QED
      BY <2>1, <3>1, <3>2 DEF CountInv
  <2>5. QED
    BY <2>1, <2>2, <2>3, <2>4 DEF OkIsOwnList
<1>7. QED
  BY <1>5, <1>6

\* A panic changes nothing but the control state.
LEMMA OverflowStep == ASSUME IInv, DumpOverflows PROVE IInv'
<1>1. /\ pc = "idle" /\ pc' = "panicked"
      /\ UNCHANGED <<calls, lastxid, unpacker, result, listing, requests, inbox, dups, lost,
                     overflow_checks>>
  BY DEF DumpOverflows
<1>2. QED
  BY <1>1 DEF IInv, TypeOK, NumberInv, CountInv, OkIsOwnList

\* A datagram is taken out of the socket, and the call ends.
LEMMA ReceiveStep ==
    ASSUME IInv, DoCall
    PROVE  IInv'
<1> USE DEF IInv
<1>1. /\ pc = "waiting" /\ pc' = "idle" /\ inbox # << >> /\ inbox' = Tail(inbox)
      /\ result' \in {"ok", "err"}
      /\ UNCHANGED <<calls, lastxid, requests, dups, lost, overflow_checks>>
  BY DEF DoCall, ReceiveRefused, ReceiveOther, ReceiveAnswer, Receive, Return
<1>2. TypeOK'
  <2>1. inbox' \in Seq(Reply \cup {Refused})
    BY <1>1, InboxHead
  <2>2. unpacker' \in Reply \cup {NoReply}
    BY InboxHead DEF TypeOK, DoCall, ReceiveRefused, ReceiveOther, ReceiveAnswer
  <2>3. listing' \in {<< >>} \cup Listings
    BY InboxHead DEF TypeOK, DoCall, ReceiveRefused, ReceiveOther, ReceiveAnswer, Return, Reply
  <2>4. QED
    BY <1>1, <2>1, <2>2, <2>3 DEF TypeOK
<1>3. NumberInv'
  BY <1>1, InboxHead DEF NumberInv
<1>4. CountInv'
  <2>1. Len(inbox') = Len(inbox) - 1 /\ Len(inbox) \in Nat
    BY <1>1, InboxHead DEF TypeOK
  <2>2. Cardinality(requests) \in Nat /\ dups \in Nat
    BY FS_CardinalityType DEF CountInv, TypeOK
  <2>3. QED
    BY <1>1, <2>1, <2>2 DEF CountInv
<1>5. OkIsOwnList'
  <2>1. CASE ReceiveRefused \/ ReceiveOther
    BY <2>1 DEF ReceiveRefused, ReceiveOther, Return, OkIsOwnList
  <2>2. CASE ReceiveAnswer
    <3>1. /\ unpacker' = Head(inbox) /\ Head(inbox) \in Reply /\ Numbered(Head(inbox), calls)
          /\ unpacker'.xid = lastxid /\ unpacker'.whole /\ listing' = unpacker'.maps
      BY <2>2, InboxHead DEF ReceiveAnswer, Matches, Lists, Return
    <3>2. /\ unpacker'.id \in Nat /\ unpacker'.id <= calls /\ calls \in Nat
          /\ unpacker'.id % XidMod = calls % XidMod
      BY <3>1 DEF Reply, Numbered, NumberInv, TypeOK
    <3>3. unpacker'.id = calls \/ unpacker'.id + XidMod <= calls
      BY <3>2, ModWindow, ConstantsAssumption DEF ConstantsAssumption
    <3>5. overflow_checks => ~(unpacker'.id + XidMod <= calls)
      BY <3>2, ConstantsAssumption DEF ConstantsAssumption, NumberInv
    <3>4. QED
      BY <1>1, <3>1, <3>3, <3>5 DEF OkIsOwnList
  <2>3. QED
    BY <2>1, <2>2 DEF DoCall
<1>6. QED
  BY <1>1, <1>2, <1>3, <1>4, <1>5

\* A request leaves the network, and at most one datagram comes of it.
LEMMA NetworkStep ==
    ASSUME IInv, NEW q \in requests,
           (\E again \in BOOLEAN : Serve(q, again)) \/ Lose(q) \/ Refuse(q)
    PROVE  IInv'
<1> USE DEF IInv
<1>1. /\ UNCHANGED <<clientVars, overflow_checks>> /\ requests' \subseteq requests
      /\ q \in Request /\ Numbered(q, calls) /\ IsFiniteSet(requests)
  BY DEF Serve, Lose, Refuse, TypeOK, NumberInv, CountInv
<1>2. /\ IsFiniteSet(requests \ {q}) /\ Cardinality(requests \ {q}) = Cardinality(requests) - 1
      /\ Cardinality(requests) \in Nat /\ Len(inbox) \in Nat /\ dups \in Nat
  BY <1>1, FS_RemoveElement, FS_CardinalityType DEF TypeOK
<1>3. inbox \in Seq(Reply \cup {Refused})
      /\ \A i \in DOMAIN inbox : inbox[i] # Refused => Numbered(inbox[i], calls)
  BY DEF TypeOK, NumberInv
<1>4. ASSUME NEW again \in BOOLEAN, Serve(q, again)
      PROVE  IInv'
  <2>1. PICK r \in Reply : inbox' = Append(inbox, r) /\ r.id = q.id /\ r.xid = q.xid
    <3>1. PICK ok, whole \in BOOLEAN, maps \in Listings :
             inbox' = Append(inbox, [id |-> q.id, xid |-> q.xid, accepted |-> ok,
                                     maps |-> maps, whole |-> whole])
      BY <1>4 DEF Serve
    <3> DEFINE r == [id |-> q.id, xid |-> q.xid, accepted |-> ok, maps |-> maps, whole |-> whole]
    <3>2. r \in Reply /\ r.id = q.id /\ r.xid = q.xid
      BY <1>1 DEF Request, Reply
    <3>3. QED
      BY <3>1, <3>2
  <2>2. /\ inbox' \in Seq(Reply \cup {Refused}) /\ Len(inbox') = Len(inbox) + 1
        /\ \A i \in DOMAIN inbox' : inbox'[i] = r \/ (i \in DOMAIN inbox /\ inbox'[i] = inbox[i])
    BY <1>3, <2>1
  <2>3. TypeOK'
    <3>1. dups' \in Nat /\ lost' \in Nat
      BY <1>4 DEF Serve, TypeOK
    <3>2. requests' \subseteq Request
      BY <1>1 DEF TypeOK
    <3>3. QED
      BY <1>1, <2>2, <3>1, <3>2 DEF TypeOK, clientVars
  <2>4. NumberInv'
    <3>1. Numbered(r, calls)
      BY <1>1, <2>1 DEF Numbered
    <3>2. QED
      BY <1>1, <1>3, <2>2, <3>1 DEF NumberInv, clientVars
  <2>5. CountInv'
    <3>1. CASE again
      BY <1>1, <1>2, <1>4, <2>2, <3>1 DEF CountInv, Serve, clientVars
    <3>2. CASE ~again
      BY <1>1, <1>2, <1>4, <2>2, <3>2 DEF CountInv, Serve, clientVars
    <3>3. QED
      BY <3>1, <3>2
  <2>6. QED
    BY <1>1, <2>3, <2>4, <2>5 DEF clientVars, OkIsOwnList
<1>5. CASE Lose(q)
  <2>1. TypeOK'
    BY <1>1, <1>5 DEF Lose, TypeOK, clientVars
  <2>2. NumberInv'
    BY <1>1, <1>3, <1>5 DEF Lose, NumberInv, clientVars
  <2>3. CountInv'
    BY <1>1, <1>2, <1>5 DEF Lose, CountInv, clientVars
  <2>4. QED
    BY <1>1, <2>1, <2>2, <2>3 DEF clientVars, OkIsOwnList
<1>6. CASE Refuse(q)
  <2>1. inbox' = << Refused >> \o inbox /\ requests' = requests \ {q} /\ UNCHANGED <<dups, lost>>
    BY <1>6 DEF Refuse
  <2>2. /\ inbox' \in Seq(Reply \cup {Refused}) /\ Len(inbox') = Len(inbox) + 1
        /\ \A i \in DOMAIN inbox' :
              inbox'[i] = Refused \/ (i - 1 \in DOMAIN inbox /\ inbox'[i] = inbox[i - 1])
    BY <1>3, <2>1
  <2>3. TypeOK'
    BY <1>1, <2>1, <2>2 DEF TypeOK, clientVars
  <2>4. NumberInv'
    BY <1>1, <1>3, <2>2 DEF NumberInv, clientVars
  <2>5. CountInv'
    BY <1>1, <1>2, <2>1, <2>2 DEF CountInv, clientVars
  <2>6. QED
    BY <1>1, <2>3, <2>4, <2>5 DEF clientVars, OkIsOwnList
<1>7. QED
  BY <1>4, <1>5, <1>6

LEMMA InvStep == IInv /\ [Next]_vars => IInv'
<1> SUFFICES ASSUME IInv, [Next]_vars PROVE IInv'
  OBVIOUS
<1>1. CASE UNCHANGED vars
  BY <1>1 DEF IInv, TypeOK, NumberInv, CountInv, OkIsOwnList, vars, clientVars
<1>2. CASE Next
  BY <1>2, DumpStep, OverflowStep, ReceiveStep, NetworkStep DEF Next
<1>3. QED
  BY <1>1, <1>2

THEOREM Invariant == Spec => []IInv
  BY InitInv, InvStep, PTL DEF Spec

\* The variables of the client and of the network keep their types.
THEOREM TypeCorrect == Spec => []TypeOK
<1>1. IInv => TypeOK
  BY DEF IInv
<1>2. QED
  BY <1>1, Invariant, PTL

\* A dump that returns Ok returns the whole list of its own answer, or, in a
\* release build, of one XidMod calls older, whatever the network lost, repeated and
\* reordered.
THEOREM ListIsOwn == Spec => []OkIsOwnList
<1>1. IInv => OkIsOwnList
  BY DEF IInv
<1>2. QED
  BY <1>1, Invariant, PTL

\* Between two calls no more is under way than what was sent twice.
THEOREM LagIsBounded == Spec => []LagBounded
<1>1. IInv => LagBounded
  BY DEF IInv, CountInv, LagBounded
<1>2. QED
  BY <1>1, Invariant, PTL
=============================================================================
