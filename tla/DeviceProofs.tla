----------------------------- MODULE DeviceProofs -----------------------------
(***************************************************************************)
(* Proofs about CoreClient and about Device, for any number of clients,    *)
(* devices, links and operations; those about Device also when the         *)
(* instrument gives the id of a link that is gone to another client, and   *)
(* names a live link in a reply that says error.                           *)
(***************************************************************************)
EXTENDS Device, FiniteSetTheorems, SequenceTheorems, TLAPS

-----------------------------------------------------------------------------
(* CoreClient: the inductive invariants *)

\* The replies to each of the calls.
ReplyTo(op) ==
    CASE op = "create"  -> [error : {0, 9}, link : Ids]
      [] op = "write"   -> [error : {0, 4, 15}, size : {"all", "less"}]
      [] op = "read"    -> [error : {0, 4, 15}, reason : {0, 4}, data : Piece \cup {NoData}]
      [] op = "destroy" -> [error : {0, 4}]

\* A call under way is the last operation begun, on the link the client has, and a
\* reply is to it and came over a connection that is there.
CallInv(c) ==
    /\ pc[c] = "waiting" => call[c].n = ops[c]
    /\ (pc[c] = "waiting" /\ call[c].op = "create") => opt_link[c] = NoLink
    /\ (pc[c] = "waiting" /\ call[c].op # "create") =>
          opt_link[c] # NoLink /\ call[c].link = opt_link[c]
    /\ (pc[c] = "waiting" /\ asking[c]) => call[c].op \in {"write", "read"}
    /\ reply[c] # NoReply =>
          pc[c] = "waiting" /\ up[c] /\ reply[c] \in ReplyTo(call[c].op)

TInv == TypeOK /\ \A c \in Clients : CallInv(c)

-----------------------------------------------------------------------------
(* Types *)

LEMMA TypeInit == Init => TInv
<1> SUFFICES ASSUME Init PROVE TInv
  OBVIOUS
<1> USE ConstantsAssumption DEF ConstantsAssumption
<1>1. TypeOK
  BY DEF Init, TypeOK, Call, Results
<1>2. ASSUME NEW c \in Clients PROVE CallInv(c)
  BY DEF Init, CallInv
<1>3. QED
  BY <1>1, <1>2 DEF TInv

\* Each kind of reply is a reply.
LEMMA ReplyToIsReply ==
    ASSUME NEW op \in {"create", "write", "read", "destroy"}
    PROVE  ReplyTo(op) \subseteq Reply
  BY DEF ReplyTo, Reply

\* Begin
LEMMA TypeBegin ==
    ASSUME TInv, NEW c \in Clients, Begin(c)
    PROVE  TInv'
<1> USE DEF TInv
<1>1. CASE \E op \in {"create", "write", "read", "destroy"}, a \in BOOLEAN, link \in Ids \cup {NoLink} :
              /\ Send(c, op, link, a)
              /\ op = "create" => opt_link[c] = NoLink
              /\ op # "create" => opt_link[c] # NoLink /\ link = opt_link[c]
              /\ a => op = "write"
  <2> PICK op \in {"create", "write", "read", "destroy"}, a \in BOOLEAN, link \in Ids \cup {NoLink} :
              /\ Send(c, op, link, a)
              /\ op = "create" => opt_link[c] = NoLink
              /\ op # "create" => opt_link[c] # NoLink /\ link = opt_link[c]
              /\ a => op = "write"
    BY <1>1
  <2>1. TypeOK'
    <3>1. call' \in [Clients -> Call]
      BY DEF Send, TypeOK, Call
    <3>2. asking' \in [Clients -> BOOLEAN]
      BY DEF Send, TypeOK
    <3>3. pc' \in [Clients -> {"idle", "waiting"}]
      BY DEF Send, TypeOK
    <3>5. result' \in [Clients -> Results]
      BY DEF Send, TypeOK, Results
    <3>6. got' \in [Clients -> Piece \cup {NoData}]
      BY DEF Send, TypeOK
    <3>7. ops' \in [Clients -> Nat]
      BY DEF Send, TypeOK
    <3>4. QED
      BY <3>1, <3>2, <3>3, <3>5, <3>6, <3>7 DEF Send, TypeOK, instrumentVars
  <2>2. ASSUME NEW d \in Clients PROVE CallInv(d)'
    BY DEF Send, TypeOK, Call, CallInv, instrumentVars
  <2>3. QED
    BY <2>1, <2>2
<1>2. CASE \E why \in Results : Refuse(c, why)
  <2> PICK why \in Results : Refuse(c, why)
    BY <1>2
  <2>1. TypeOK'
    <3>1. asking' \in [Clients -> BOOLEAN]
      BY DEF Refuse, TypeOK
    <3>2. result' \in [Clients -> Results]
      BY DEF Refuse, TypeOK
    <3>3. got' \in [Clients -> Piece \cup {NoData}]
      BY DEF Refuse, TypeOK
    <3>4. ops' \in [Clients -> Nat]
      BY DEF Refuse, TypeOK
    <3>5. QED
      BY <3>1, <3>2, <3>3, <3>4 DEF Refuse, TypeOK, instrumentVars
  <2>2. ASSUME NEW d \in Clients PROVE CallInv(d)'
    BY DEF Refuse, TypeOK, Call, CallInv, instrumentVars
  <2>3. QED
    BY <2>1, <2>2
<1>3. opt_link[c] \in Ids \cup {NoLink}
  BY DEF TypeOK
<1>4. QED
  BY <1>1, <1>2, <1>3 DEF Begin, CreateLink, Write, Read, Ask, DestroyLink, OnLink, Results

\* The connection of client c stays as it is, or is closed by the client.
MayClose(c) == up' = up \/ up' = [up EXCEPT ![c] = FALSE]

\* The end of a call that stores nothing.
Closes(c, r) ==
    /\ Return(c, r)
    /\ reply' = [reply EXCEPT ![c] = NoReply]
    /\ MayClose(c)
    /\ UNCHANGED <<opt_link, call, asking, got, ops, instrumentVars>>

LEMMA ClosingSteps ==
    ASSUME TypeOK, NEW c \in Clients, MayClose(c),
           WriteFails(c) \/ WriteReturns(c) \/ ReadFails(c) \/ DestroyLinkReturns(c)
           \/ CallFails(c)
    PROVE  \E r \in {"ok", "err"} : Closes(c, r)
<1>1. CASE WriteFails(c)
  BY <1>1 DEF WriteFails, Received, Closes
<1>2. CASE WriteReturns(c)
  BY <1>2 DEF WriteReturns, Received, Closes
<1>3. CASE ReadFails(c)
  BY <1>3 DEF ReadFails, Received, Closes
<1>4. CASE DestroyLinkReturns(c)
  BY <1>4 DEF DestroyLinkReturns, Received, Closes
<1>5. CASE CallFails(c)
  <2>1. reply' = [reply EXCEPT ![c] = NoReply]
    BY <1>5 DEF CallFails, TypeOK
  <2>2. QED
    BY <1>5, <2>1 DEF CallFails, Closes
<1>6. QED
  BY <1>1, <1>2, <1>3, <1>4, <1>5

LEMMA TypeCloses ==
    ASSUME TInv, NEW c \in Clients, NEW r \in {"ok", "err"}, Closes(c, r)
    PROVE  TInv'
<1> USE DEF TInv, MayClose
<1>1. TypeOK'
  <2>1. pc' \in [Clients -> {"idle", "waiting"}]
    BY DEF Closes, Return, TypeOK
  <2>2. result' \in [Clients -> Results]
    BY DEF Closes, Return, TypeOK, Results
  <2>3. reply' \in [Clients -> Reply \cup {NoReply}]
    BY DEF Closes, TypeOK
  <2>4. QED
    BY <2>1, <2>2, <2>3 DEF Closes, TypeOK, instrumentVars
<1>2. ASSUME NEW d \in Clients PROVE CallInv(d)'
  BY DEF Closes, Return, TypeOK, CallInv, instrumentVars
<1>3. QED
  BY <1>1, <1>2

LEMMA TypeFinish ==
    ASSUME TInv, NEW c \in Clients, MayClose(c), Finish(c) \/ CallFails(c)
    PROVE  TInv'
<1> USE DEF TInv, MayClose
<1>1. CASE CreateLinkReturns(c)
  <2>1. reply[c] \in [error : {0, 9}, link : Ids]
    BY <1>1 DEF CreateLinkReturns, Received, CallInv, ReplyTo
  <2>2. TypeOK'
    <3>1. opt_link' \in [Clients -> Ids \cup {NoLink}]
      BY <1>1, <2>1 DEF CreateLinkReturns, TypeOK
    <3>2. pc' \in [Clients -> {"idle", "waiting"}]
      BY <1>1 DEF CreateLinkReturns, Return, TypeOK
    <3>3. result' \in [Clients -> Results]
      BY <1>1 DEF CreateLinkReturns, Return, TypeOK, Results
    <3>4. reply' \in [Clients -> Reply \cup {NoReply}]
      BY <1>1 DEF CreateLinkReturns, Received, TypeOK
    <3>5. QED
      BY <1>1, <3>1, <3>2, <3>3, <3>4 DEF CreateLinkReturns, TypeOK, instrumentVars
  <2>3. ASSUME NEW d \in Clients PROVE CallInv(d)'
    BY <1>1 DEF CreateLinkReturns, Received, Return, TypeOK, CallInv, instrumentVars
  <2>4. QED
    BY <2>2, <2>3
<1>2. CASE AskGoesOn(c)
  <2>1. call[c] \in Call
    BY DEF TypeOK
  <2>2. TypeOK'
    <3>1. call' \in [Clients -> Call]
      BY <1>2, <2>1 DEF AskGoesOn, TypeOK, Call
    <3>2. reply' \in [Clients -> Reply \cup {NoReply}]
      BY <1>2 DEF AskGoesOn, Received, TypeOK
    <3>3. QED
      BY <1>2, <3>1, <3>2 DEF AskGoesOn, TypeOK, instrumentVars
  <2>3. ASSUME NEW d \in Clients PROVE CallInv(d)'
    BY <1>2, <2>1 DEF AskGoesOn, Received, TypeOK, Call, CallInv, instrumentVars
  <2>4. QED
    BY <2>2, <2>3
<1>3. CASE ReadReturns(c)
  <2>1. reply[c] \in [error : {0, 4, 15}, reason : {0, 4}, data : Piece \cup {NoData}]
    BY <1>3 DEF ReadReturns, Received, CallInv, ReplyTo
  <2>2. TypeOK'
    <3>1. got' \in [Clients -> Piece \cup {NoData}]
      BY <1>3, <2>1 DEF ReadReturns, TypeOK
    <3>2. pc' \in [Clients -> {"idle", "waiting"}]
      BY <1>3 DEF ReadReturns, Return, TypeOK
    <3>3. result' \in [Clients -> Results]
      BY <1>3 DEF ReadReturns, Return, TypeOK, Results
    <3>4. reply' \in [Clients -> Reply \cup {NoReply}]
      BY <1>3 DEF ReadReturns, Received, TypeOK
    <3>5. QED
      BY <1>3, <3>1, <3>2, <3>3, <3>4 DEF ReadReturns, TypeOK, instrumentVars
  <2>3. ASSUME NEW d \in Clients PROVE CallInv(d)'
    BY <1>3 DEF ReadReturns, Received, Return, TypeOK, CallInv, instrumentVars
  <2>4. QED
    BY <2>2, <2>3
<1>4. QED
  BY <1>1, <1>2, <1>3, ClosingSteps, TypeCloses DEF Finish

\* The connection, and the links of one that is gone
LEMMA TypeLose ==
    ASSUME TInv, NEW c \in Clients, Lose(c) \/ Release(c)
    PROVE  TInv'
<1> USE DEF TInv
<1>1. CASE Lose(c)
  <2>1. up' \in [Clients -> BOOLEAN]
    BY <1>1 DEF Lose, TypeOK
  <2>2. reply' \in [Clients -> Reply \cup {NoReply}]
    BY <1>1 DEF Lose, TypeOK
  <2>3. TypeOK'
    BY <1>1, <2>1, <2>2 DEF Lose, TypeOK, clientVars, instrumentVars
  <2>4. ASSUME NEW d \in Clients PROVE CallInv(d)'
    BY <1>1 DEF Lose, TypeOK, CallInv, clientVars, instrumentVars
  <2>5. QED
    BY <2>3, <2>4
<1>2. CASE Release(c)
  <2>1. owner' \in [LinkIds -> Clients \cup {NoLink, Gone}]
    BY <1>2 DEF Release, Freed, TypeOK
  <2>2. TypeOK'
    BY <1>2, <2>1 DEF Release, TypeOK, clientVars
  <2>3. ASSUME NEW d \in Clients PROVE CallInv(d)'
    BY <1>2 DEF Release, TypeOK, CallInv, clientVars
  <2>4. QED
    BY <2>2, <2>3
<1>3. QED
  BY <1>1, <1>2

\* The instrument replies r to a call that has arrived.
Replies(c, r) ==
    /\ Arrived(c, call[c].op)
    /\ r \in ReplyTo(call[c].op)
    /\ Reply1(c, r)
    /\ UNCHANGED <<clientVars, up, keeps_output>>
    /\ owner' \in [LinkIds -> Clients \cup {NoLink, Gone}]
    /\ output' \in [LinkIds -> Seq(Piece)]
    /\ took' \in [Clients -> Seq(Nat)]

LEMMA TypeReplies ==
    ASSUME TInv, NEW c \in Clients, NEW r, Replies(c, r)
    PROVE  TInv'
<1> USE DEF TInv
<1>1. call[c].op \in {"create", "write", "read", "destroy"}
  BY DEF TypeOK, Call
<1>2. r \in Reply
  BY <1>1, ReplyToIsReply DEF Replies
<1>3. TypeOK'
  <2>1. reply' \in [Clients -> Reply \cup {NoReply}]
    BY <1>2 DEF Replies, Reply1, TypeOK
  <2>2. QED
    BY <2>1 DEF Replies, TypeOK, clientVars
<1>4. ASSUME NEW d \in Clients PROVE CallInv(d)'
  BY DEF Replies, Arrived, Reply1, TypeOK, CallInv, clientVars
<1>5. QED
  BY <1>3, <1>4

\* An answer has one piece or none.
LEMMA AnswerShape ==
    ASSUME NEW c \in Clients, call[c] \in Call, NEW a \in AnswersTo(c), a # << >>
    PROVE  /\ a = << Head(a) >> /\ Head(a) \in Piece
           /\ Head(a).client = c /\ Head(a).n = call[c].n
           /\ Head(a).whole = Head(a).last
<1> DEFINE P(all) == [client |-> c, n |-> call[c].n, whole |-> all, last |-> all]
<1>1. ASSUME NEW all \in BOOLEAN
      PROVE  /\ P(all) \in Piece /\ P(all).client = c /\ P(all).n = call[c].n
             /\ P(all).whole = P(all).last
  BY DEF Call, Piece
<1>2. a \in {<< P(TRUE) >>, << P(FALSE) >>}
  BY DEF AnswersTo
<1> HIDE DEF P
<1>3. a = << P(TRUE) >> \/ a = << P(FALSE) >>
  BY <1>2
<1>4. PICK all \in BOOLEAN : a = << P(all) >>
  BY <1>3
<1>5. Head(a) = P(all)
  BY <1>4
<1>6. QED
  BY <1>1, <1>4, <1>5

\* An answer is a sequence of pieces.
LEMMA AnswerType ==
    ASSUME NEW c \in Clients, call[c] \in Call, NEW a \in AnswersTo(c)
    PROVE  a \in Seq(Piece)
<1>1. CASE a = << >>
  BY <1>1, EmptySeq
<1>2. CASE a # << >>
  <2>1. a = << Head(a) >> /\ Head(a) \in Piece
    BY <1>2, AnswerShape
  <2>2. \A p \in Piece : << p >> \in Seq(Piece)
    OBVIOUS
  <2>3. QED
    BY <2>1, <2>2
<1>3. QED
  BY <1>1, <1>2

\* What comes after a piece is pieces of the same answer.
LEMMA AfterShape ==
    ASSUME NEW p \in Piece, NEW rest \in After(p)
    PROVE  /\ rest \in Seq(Piece)
           /\ p.last => rest = << >>
           /\ ~p.last => /\ Len(rest) = 1 /\ rest[1] \in Piece
                         /\ rest[1].client = p.client /\ rest[1].n = p.n
<1>1. CASE p.last
  BY <1>1, EmptySeq DEF After
<1>2. CASE ~p.last
  <2>1. PICK end \in BOOLEAN : rest = << [p EXCEPT !.last = end] >>
    BY <1>2 DEF After
  <2> DEFINE q == [p EXCEPT !.last = end]
  <2>2. q \in Piece /\ q.client = p.client /\ q.n = p.n
    BY DEF Piece
  <2>3. rest = << q >>
    BY <2>1
  <2> HIDE DEF q
  <2>4. QED
    BY <1>2, <2>2, <2>3
<1>3. QED
  BY <1>1, <1>2

LEMMA TypeExecute ==
    ASSUME TInv, NEW c \in Clients, Execute(c)
    PROVE  TInv'
<1> USE DEF TInv
<1>0. call[c] \in Call
  BY DEF TypeOK
<1>1. CASE ExecuteCreate(c)
  <2>1. CASE \E l \in LinkIds :
             /\ owner' = [owner EXCEPT ![l] = c]
             /\ output' = [output EXCEPT ![l] = << >>]
             /\ Reply1(c, [error |-> 0, link |-> l])
    <3> PICK l \in LinkIds :
             /\ owner' = [owner EXCEPT ![l] = c]
             /\ output' = [output EXCEPT ![l] = << >>]
             /\ Reply1(c, [error |-> 0, link |-> l])
      BY <2>1
    <3>1. owner' \in [LinkIds -> Clients \cup {NoLink, Gone}]
      BY DEF TypeOK
    <3>2. output' \in [LinkIds -> Seq(Piece)]
      BY DEF TypeOK
    <3>3. [error |-> 0, link |-> l] \in ReplyTo("create")
      BY DEF ReplyTo, Ids
    <3>4. Replies(c, [error |-> 0, link |-> l])
      BY <1>1, <3>1, <3>2, <3>3 DEF ExecuteCreate, Arrived, Replies, TypeOK
    <3>5. QED
      BY <3>4, TypeReplies
  <2>2. CASE /\ \E l \in ErrorLinks : Reply1(c, [error |-> 9, link |-> l])
             /\ UNCHANGED <<owner, output>>
    <3> PICK l \in ErrorLinks : Reply1(c, [error |-> 9, link |-> l])
      BY <2>2
    <3>1. [error |-> 9, link |-> l] \in ReplyTo("create")
      BY DEF ReplyTo, Ids
    <3>2. Replies(c, [error |-> 9, link |-> l])
      BY <1>1, <2>2, <3>1 DEF ExecuteCreate, Arrived, Replies, TypeOK
    <3>3. QED
      BY <3>2, TypeReplies
  <2>3. QED
    BY <1>1, <2>1, <2>2 DEF ExecuteCreate
<1>2. CASE ExecuteWrite(c)
  <2>1. CASE /\ Live(call[c].link)
             /\ took' = [took EXCEPT ![c] = Append(@, call[c].n)]
             /\ \E a \in AnswersTo(c) :
                   output' = [output EXCEPT ![call[c].link] = IF keeps_output THEN @ \o a ELSE a]
             /\ Reply1(c, [error |-> 0, size |-> "all"])
    <3>1. took' \in [Clients -> Seq(Nat)]
      BY <1>0, <2>1 DEF TypeOK, Call
    <3>2. output' \in [LinkIds -> Seq(Piece)]
      <4> PICK a \in AnswersTo(c) :
             output' = [output EXCEPT ![call[c].link] = IF keeps_output THEN @ \o a ELSE a]
        BY <2>1
      <4>1. a \in Seq(Piece) /\ output[call[c].link] \in Seq(Piece)
        BY <1>0, <2>1, AnswerType DEF Live, TypeOK
      <4>2. (IF keeps_output THEN output[call[c].link] \o a ELSE a) \in Seq(Piece)
        BY <4>1
      <4>3. QED
        BY <4>2 DEF TypeOK
    <3>3. [error |-> 0, size |-> "all"] \in ReplyTo("write")
      BY DEF ReplyTo
    <3>4. Replies(c, [error |-> 0, size |-> "all"])
      BY <1>2, <2>1, <3>1, <3>2, <3>3 DEF ExecuteWrite, Arrived, Replies, TypeOK
    <3>5. QED
      BY <3>4, TypeReplies
  <2>2. CASE /\ \E e \in {0, 4, 15}, s \in {"all", "less"} : Reply1(c, [error |-> e, size |-> s])
             /\ UNCHANGED <<output, took>>
    <3> PICK e \in {0, 4, 15}, s \in {"all", "less"} : Reply1(c, [error |-> e, size |-> s])
      BY <2>2
    <3>1. [error |-> e, size |-> s] \in ReplyTo("write")
      BY DEF ReplyTo
    <3>2. Replies(c, [error |-> e, size |-> s])
      BY <1>2, <2>2, <3>1 DEF ExecuteWrite, Arrived, Replies, TypeOK
    <3>3. QED
      BY <3>2, TypeReplies
  <2>3. QED
    BY <1>2, <2>1, <2>2 DEF ExecuteWrite
<1>3. CASE ExecuteRead(c)
  <2>1. CASE \E e \in {4, 15} :
             /\ Reply1(c, [error |-> e, reason |-> 0, data |-> NoData])
             /\ UNCHANGED output
    <3> PICK e \in {4, 15} : Reply1(c, [error |-> e, reason |-> 0, data |-> NoData])
      BY <2>1
    <3>1. [error |-> e, reason |-> 0, data |-> NoData] \in ReplyTo("read")
      BY DEF ReplyTo
    <3>2. Replies(c, [error |-> e, reason |-> 0, data |-> NoData])
      BY <1>3, <2>1, <3>1 DEF ExecuteRead, Arrived, Replies, TypeOK
    <3>3. QED
      BY <3>2, TypeReplies
  <2>2. CASE /\ Live(call[c].link)
             /\ output[call[c].link] # << >>
             /\ Reply1(c, [error  |-> 0,
                           reason |-> IF Head(output[call[c].link]).last THEN 4 ELSE 0,
                           data   |-> Head(output[call[c].link])])
             /\ \E rest \in After(Head(output[call[c].link])) :
                   output' = [output EXCEPT ![call[c].link] = rest \o Tail(@)]
    <3> DEFINE p == Head(output[call[c].link])
               r == [error |-> 0, reason |-> IF p.last THEN 4 ELSE 0, data |-> p]
    <3>1. p \in Piece /\ Tail(output[call[c].link]) \in Seq(Piece)
      BY <2>2 DEF Live, TypeOK
    <3>2. output' \in [LinkIds -> Seq(Piece)]
      <4> PICK rest \in After(p) : output' = [output EXCEPT ![call[c].link] = rest \o Tail(@)]
        BY <2>2
      <4>1. rest \o Tail(output[call[c].link]) \in Seq(Piece)
        BY <3>1, AfterShape
      <4>2. QED
        BY <4>1 DEF TypeOK
    <3>3. r \in ReplyTo("read")
      BY <3>1 DEF ReplyTo
    <3>4. Replies(c, r)
      BY <1>3, <2>2, <3>2, <3>3 DEF ExecuteRead, Arrived, Replies, TypeOK
    <3>5. QED
      BY <3>4, TypeReplies
  <2>3. QED
    BY <1>3, <2>1, <2>2 DEF ExecuteRead
<1>4. CASE ExecuteDestroy(c)
  <2> PICK e \in {0, 4} : Reply1(c, [error |-> e])
    BY <1>4 DEF ExecuteDestroy
  <2>1. owner' \in [LinkIds -> Clients \cup {NoLink, Gone}]
    BY <1>4 DEF ExecuteDestroy, Freed, TypeOK
  <2>2. [error |-> e] \in ReplyTo("destroy")
    BY DEF ReplyTo
  <2>3. Replies(c, [error |-> e])
    BY <1>4, <2>1, <2>2 DEF ExecuteDestroy, Arrived, Replies, TypeOK
  <2>4. QED
    BY <2>3, TypeReplies
<1>5. QED
  BY <1>1, <1>2, <1>3, <1>4 DEF Execute

LEMMA TypeStep == TInv /\ [Next]_vars => TInv'
<1> SUFFICES ASSUME TInv, [Next]_vars PROVE TInv'
  OBVIOUS
<1>1. CASE UNCHANGED vars
  BY <1>1 DEF TInv, TypeOK, CallInv, vars, clientVars, instrumentVars
<1>2. CASE Next
  BY <1>2, TypeBegin, TypeFinish, TypeLose, TypeExecute DEF Next, MayClose
<1>3. QED
  BY <1>1, <1>2

\* The variables of the clients and the instrument keep their types, for every set of
\* clients, link ids and bound.
THEOREM TypeCorrect == Spec => []TypeOK
<1>1. TInv => TypeOK
  BY DEF TInv
<1>2. QED
  BY TypeInit, TypeStep, <1>1, PTL DEF Spec
-----------------------------------------------------------------------------
(* Commands taken *)

\* The commands taken of client c are earlier than the one whose write has not been
\* executed, and a write confirmed in full was the last of them.
TookInv(c) ==
    /\ \A i \in DOMAIN took[c] : took[c][i] <= ops[c]
    /\ \A i, j \in DOMAIN took[c] : i < j => took[c][i] < took[c][j]
    /\ (up[c] /\ pc[c] = "waiting" /\ call[c].op = "write" /\ reply[c] = NoReply) =>
          \A i \in DOMAIN took[c] : took[c][i] < ops[c]
    /\ (pc[c] = "waiting" /\ call[c].op = "write" /\ reply[c] # NoReply /\ WriteOk(reply[c])) =>
          took[c] # << >> /\ took[c][Len(took[c])] = ops[c]
    /\ pc[c] = "waiting" => result[c] = "none"
    /\ (result[c] = "ok" /\ call[c].op = "write") =>
          took[c] # << >> /\ took[c][Len(took[c])] = ops[c]

KInv == TInv /\ \A c \in Clients : TookInv(c)

LEMMA TookInit == Init => \A c \in Clients : TookInv(c)
  BY DEF Init, TookInv

LEMMA TookBegin ==
    ASSUME KInv, NEW c \in Clients, Begin(c), NEW d \in Clients
    PROVE  TookInv(d)'
<1>1. CASE \E op \in {"create", "write", "read", "destroy"}, link \in Ids \cup {NoLink}, a \in BOOLEAN :
              Send(c, op, link, a)
  <2> PICK op \in {"create", "write", "read", "destroy"}, link \in Ids \cup {NoLink}, a \in BOOLEAN :
              Send(c, op, link, a)
    BY <1>1
  <2>1. took' = took /\ took[d] \in Seq(Nat) /\ ops[d] \in Nat /\ up' = up /\ reply' = reply
    BY DEF Send, KInv, TInv, TypeOK, instrumentVars
  <2>2. ops' = [ops EXCEPT ![c] = ops[c] + 1] /\ reply[c] = NoReply /\ ops \in [Clients -> Nat]
    BY DEF Send, KInv, TInv, TypeOK, CallInv
  <2>3. \A i \in DOMAIN took[d] : took[d][i] \in Nat
    BY <2>1
  <2>4. QED
    BY <2>1, <2>2, <2>3 DEF Send, KInv, TInv, TypeOK, TookInv
<1>2. CASE \E why \in Results \ {"ok"} : Refuse(c, why)
  <2> PICK why \in Results \ {"ok"} : Refuse(c, why)
    BY <1>2
  <2>1. took' = took /\ took[d] \in Seq(Nat) /\ ops[d] \in Nat /\ up' = up /\ reply' = reply
    BY DEF Refuse, KInv, TInv, TypeOK, instrumentVars
  <2>3. \A i \in DOMAIN took[d] : took[d][i] \in Nat
    BY <2>1
  <2>4. QED
    BY <2>1, <2>3 DEF Refuse, KInv, TInv, TypeOK, TookInv
<1>3. opt_link[c] \in Ids \cup {NoLink}
  BY DEF KInv, TInv, TypeOK
<1>4. QED
  BY <1>1, <1>2, <1>3 DEF Begin, CreateLink, Write, Read, Ask, DestroyLink, OnLink, Results

LEMMA TookFinish ==
    ASSUME KInv, NEW c \in Clients, MayClose(c), Finish(c) \/ CallFails(c), NEW d \in Clients
    PROVE  TookInv(d)'
<1> USE DEF KInv, TInv, MayClose
<1>1. CASE CreateLinkReturns(c)
  BY <1>1 DEF CreateLinkReturns, Received, Return, TypeOK, TookInv, instrumentVars
<1>2. CASE AskGoesOn(c)
  BY <1>2 DEF AskGoesOn, Received, TypeOK, Call, TookInv, instrumentVars
<1>3. CASE ReadReturns(c)
  BY <1>3 DEF ReadReturns, Received, Return, TypeOK, TookInv, instrumentVars
<1>4. CASE WriteReturns(c)
  BY <1>4 DEF WriteReturns, Received, Return, TypeOK, TookInv, instrumentVars
<1>5. CASE WriteFails(c)
  BY <1>5 DEF WriteFails, Received, Return, TypeOK, TookInv, instrumentVars
<1>6. CASE ReadFails(c)
  BY <1>6 DEF ReadFails, Received, Return, TypeOK, TookInv, instrumentVars
<1>7. CASE DestroyLinkReturns(c)
  BY <1>7 DEF DestroyLinkReturns, Received, Return, TypeOK, TookInv, instrumentVars
<1>8. CASE CallFails(c)
  BY <1>8 DEF CallFails, Return, TypeOK, TookInv, instrumentVars
<1>9. QED
  BY <1>1, <1>2, <1>3, <1>4, <1>5, <1>6, <1>7, <1>8 DEF Finish

LEMMA TookLose ==
    ASSUME KInv, NEW c \in Clients, Lose(c) \/ Release(c), NEW d \in Clients
    PROVE  TookInv(d)'
  BY DEF KInv, TInv, TypeOK, CallInv, TookInv, Lose, Release, clientVars, instrumentVars

LEMMA AppendGreater ==
    ASSUME NEW s \in Seq(Nat), NEW n \in Nat,
           \A i \in DOMAIN s : s[i] < n,
           \A i, j \in DOMAIN s : i < j => s[i] < s[j],
           NEW t, t = Append(s, n)
    PROVE  /\ \A i \in DOMAIN t : t[i] <= n
           /\ \A i, j \in DOMAIN t : i < j => t[i] < t[j]
           /\ t # << >> /\ t[Len(t)] = n
<1>1. /\ t \in Seq(Nat) /\ Len(t) = Len(s) + 1 /\ Len(s) \in Nat
      /\ DOMAIN t = 1 .. Len(s) + 1 /\ DOMAIN s = 1 .. Len(s)
      /\ \A i \in 1 .. Len(s) : t[i] = s[i] /\ s[i] \in Nat
      /\ t[Len(s) + 1] = n
  OBVIOUS
<1>2. \A i \in DOMAIN t : t[i] <= n
  BY <1>1
<1>3. \A i, j \in DOMAIN t : i < j => t[i] < t[j]
  BY <1>1
<1>4. t # << >> /\ t[Len(t)] = n
  BY <1>1
<1>5. QED
  BY <1>2, <1>3, <1>4

LEMMA TookExecute ==
    ASSUME KInv, NEW c \in Clients, Execute(c), NEW d \in Clients
    PROVE  TookInv(d)'
<1> USE DEF KInv, TInv
<1>1. CASE /\ Arrived(c, "write")
           /\ took' = [took EXCEPT ![c] = Append(@, call[c].n)]
           /\ Reply1(c, [error |-> 0, size |-> "all"])
           /\ UNCHANGED <<clientVars, up>>
  <2>1. CASE d # c
    BY <1>1, <2>1 DEF Arrived, Reply1, TypeOK, TookInv, clientVars
  <2>2. CASE d = c
    <3>1. took[c] \in Seq(Nat) /\ call[c].n = ops[c] /\ ops[c] \in Nat
      BY <1>1 DEF Arrived, TypeOK, CallInv
    <3>2. took'[c] = Append(took[c], ops[c]) /\ ops' = ops
      BY <1>1, <3>1 DEF TypeOK, clientVars
    <3>3. \A i \in DOMAIN took[c] : took[c][i] \in Nat /\ took[c][i] < ops[c]
      BY <1>1, <3>1 DEF Arrived, TookInv
    <3>4. reply'[c] # NoReply
      BY <1>1, ReplyAssumption DEF Reply1, TypeOK, Reply
    <3>5. \A i, j \in DOMAIN took[c] : i < j => took[c][i] < took[c][j]
      BY DEF TookInv
    <3> DEFINE t == Append(took[c], ops[c])
    <3>6. /\ \A i \in DOMAIN t : t[i] <= ops[c]
          /\ \A i, j \in DOMAIN t : i < j => t[i] < t[j]
          /\ t # << >> /\ t[Len(t)] = ops[c]
      BY <3>1, <3>3, <3>5, AppendGreater
    <3> HIDE DEF t
    <3>7. pc'[c] = "waiting" => result'[c] = "none"
      BY <1>1 DEF TookInv, clientVars
    <3>8. took'[c] = t /\ ops'[c] = ops[c]
      BY <3>2 DEF t
    <3>9. QED
      BY <2>2, <3>4, <3>6, <3>7, <3>8 DEF TookInv
  <2>3. QED
    BY <2>1, <2>2
<1>2. CASE /\ UNCHANGED <<clientVars, up, took>>
           /\ \E r : Reply1(c, r) /\ (call[c].op = "write" => ~WriteOk(r))
           /\ Arrived(c, call[c].op)
  BY <1>2 DEF Arrived, Reply1, TypeOK, TookInv, clientVars
<1>3. CASE ExecuteWrite(c)
  BY <1>1, <1>2, <1>3 DEF ExecuteWrite, Arrived, WriteOk
<1>4. CASE ExecuteCreate(c)
  BY <1>2, <1>4 DEF ExecuteCreate, Arrived
<1>5. CASE ExecuteRead(c)
  BY <1>2, <1>5 DEF ExecuteRead, Arrived
<1>6. CASE ExecuteDestroy(c)
  BY <1>2, <1>6 DEF ExecuteDestroy, Arrived
<1>7. QED
  BY <1>3, <1>4, <1>5, <1>6 DEF Execute

LEMMA TookStep == KInv /\ [Next]_vars => KInv'
<1> SUFFICES ASSUME KInv, [Next]_vars PROVE \A d \in Clients : TookInv(d)'
  BY TypeStep DEF KInv
<1>1. CASE UNCHANGED vars
  BY <1>1 DEF KInv, TookInv, vars, clientVars, instrumentVars
<1>2. CASE Next
  BY <1>2, TookBegin, TookFinish, TookLose, TookExecute DEF Next, MayClose
<1>3. QED
  BY <1>1, <1>2

LEMMA TookInvariant == Spec => []KInv
<1>1. Init => KInv
  BY TypeInit, TookInit DEF KInv
<1>2. QED
  BY <1>1, TookStep, PTL DEF Spec

\* No command of a client is taken twice, and none overtakes another.
THEOREM CommandsInOrder == Spec => []TakenOnceInOrder
<1>1. KInv => TakenOnceInOrder
  BY DEF KInv, TookInv, TakenOnceInOrder
<1>2. QED
  BY <1>1, TookInvariant, PTL

\* A write that returned Ok was taken, and nothing of this client after it.
THEOREM ConfirmedIsTaken == Spec => []WriteOkWasTaken
<1>1. KInv => WriteOkWasTaken
  BY DEF KInv, TookInv, WriteOkWasTaken
<1>2. QED
  BY <1>1, TookInvariant, PTL

-----------------------------------------------------------------------------
(* Links *)

\* The links the instrument holds for a client that is connected: the one the client
\* has, or the one of a create_link reply on its way.
LinkInv(c) == \A l \in LinkIds : (up[c] /\ owner[l] = c) =>
    \/ opt_link[c] = l
    \/ pc[c] = "waiting" /\ call[c].op = "create" /\ reply[c] # NoReply /\ reply[c].link = l

LInv == TInv /\ \A c \in Clients : LinkInv(c)

LEMMA LinkInit == Init => \A c \in Clients : LinkInv(c)
  BY ConstantsAssumption DEF ConstantsAssumption, Init, LinkInv

LEMMA LinkBegin ==
    ASSUME LInv, NEW c \in Clients, Begin(c), NEW d \in Clients
    PROVE  LinkInv(d)'
<1>1. pc[c] = "idle" /\ UNCHANGED <<opt_link, up, owner, reply>>
  BY DEF Begin, CreateLink, Write, Read, Ask, DestroyLink, OnLink, Send, Refuse, instrumentVars
<1>2. ASSUME NEW op, NEW link, NEW a, Send(c, op, link, a), d # c
      PROVE  pc'[d] = pc[d] /\ call'[d] = call[d]
  BY <1>2 DEF Send, LInv, TInv, TypeOK
<1>3. ASSUME NEW why, Refuse(c, why), d # c
      PROVE  pc'[d] = pc[d] /\ call'[d] = call[d]
  BY <1>3 DEF Refuse
<1>4. d # c => pc'[d] = pc[d] /\ call'[d] = call[d]
  BY <1>2, <1>3, Zenon DEF Begin, CreateLink, Write, Read, Ask, DestroyLink, OnLink
<1>5. QED
  BY <1>1, <1>4 DEF LInv, LinkInv

LEMMA LinkFinish ==
    ASSUME LInv, NEW c \in Clients, MayClose(c), Finish(c) \/ CallFails(c), NEW d \in Clients
    PROVE  LinkInv(d)'
<1> USE DEF LInv, TInv, MayClose
<1>1. CASE CreateLinkReturns(c)
  BY <1>1, ConstantsAssumption
     DEF ConstantsAssumption, CreateLinkReturns, Received, Return, TypeOK, CallInv, LinkInv, instrumentVars
<1>2. CASE AskGoesOn(c)
  BY <1>2 DEF AskGoesOn, Received, TypeOK, Call, LinkInv, instrumentVars
<1>3. CASE ReadReturns(c)
  BY <1>3 DEF ReadReturns, Received, Return, TypeOK, LinkInv, instrumentVars
<1>4. CASE \E r \in {"ok", "err"} : Closes(c, r) /\ (reply[c] # NoReply => call[c].op # "create")
  BY <1>4 DEF Closes, Return, TypeOK, LinkInv, instrumentVars
<1>5. (WriteFails(c) \/ WriteReturns(c) \/ ReadFails(c) \/ DestroyLinkReturns(c) \/ CallFails(c))
         => (reply[c] # NoReply => call[c].op # "create")
  BY DEF WriteFails, WriteReturns, ReadFails, DestroyLinkReturns, CallFails, Received
<1>6. QED
  BY <1>1, <1>2, <1>3, <1>4, <1>5, ClosingSteps DEF Finish

LEMMA LinkLose ==
    ASSUME LInv, NEW c \in Clients, Lose(c) \/ Release(c), NEW d \in Clients
    PROVE  LinkInv(d)'
<1> USE ConstantsAssumption DEF ConstantsAssumption, LInv, TInv
<1>1. CASE Lose(c)
  BY <1>1 DEF Lose, TypeOK, LinkInv, clientVars, instrumentVars
<1>2. CASE Release(c)
  BY <1>2 DEF Release, Freed, TypeOK, LinkInv, clientVars
<1>3. QED
  BY <1>1, <1>2

LEMMA LinkExecute ==
    ASSUME LInv, NEW c \in Clients, Execute(c), NEW d \in Clients
    PROVE  LinkInv(d)'
<1> USE ConstantsAssumption DEF ConstantsAssumption, LInv, TInv
<1>1. CASE ExecuteCreate(c) /\ ~UNCHANGED owner
  <2> PICK l \in LinkIds :
        /\ owner[l] = NoLink
        /\ owner' = [owner EXCEPT ![l] = c]
        /\ Reply1(c, [error |-> 0, link |-> l])
    BY <1>1 DEF ExecuteCreate
  <2> DEFINE r == [error |-> 0, link |-> l]
  <2>1. /\ pc[c] = "waiting" /\ call[c].op = "create" /\ reply[c] = NoReply
        /\ opt_link[c] = NoLink /\ up[c]
    BY <1>1 DEF ExecuteCreate, Arrived, CallInv
  <2>2. \A k \in LinkIds : owner[k] # c
    BY <2>1 DEF LinkInv
  <2>3. r # NoReply /\ r.link = l /\ reply' = [reply EXCEPT ![c] = r]
    BY ReplyAssumption DEF Reply1, Reply, Ids
  <2> HIDE DEF r
  <2>4. QED
    BY <1>1, <2>1, <2>2, <2>3 DEF ExecuteCreate, TypeOK, LinkInv, clientVars
<1>2. CASE /\ Arrived(c, call[c].op) /\ \E r : Reply1(c, r)
           /\ UNCHANGED <<clientVars, up>>
           /\ \A l \in LinkIds : owner'[l] \notin Clients \/ owner'[l] = owner[l]
  BY <1>2 DEF Arrived, Reply1, TypeOK, CallInv, LinkInv, clientVars
<1>3. CASE ExecuteCreate(c) /\ UNCHANGED owner
  BY <1>2, <1>3 DEF ExecuteCreate, Arrived, Reply1
<1>4. CASE ExecuteWrite(c)
  BY <1>2, <1>4 DEF ExecuteWrite, Arrived, Reply1
<1>5. CASE ExecuteRead(c)
  BY <1>2, <1>5 DEF ExecuteRead, Arrived, Reply1
<1>6. CASE ExecuteDestroy(c)
  BY <1>2, <1>6 DEF ExecuteDestroy, Freed, Arrived, Reply1, TypeOK
<1>7. QED
  BY <1>1, <1>3, <1>4, <1>5, <1>6 DEF Execute

LEMMA LinkStep == LInv /\ [Next]_vars => LInv'
<1> SUFFICES ASSUME LInv, [Next]_vars PROVE \A d \in Clients : LinkInv(d)'
  BY TypeStep DEF LInv
<1>1. CASE UNCHANGED vars
  BY <1>1 DEF LInv, LinkInv, vars, clientVars, instrumentVars
<1>2. CASE Next
  BY <1>2, LinkBegin, LinkFinish, LinkLose, LinkExecute DEF Next, MayClose
<1>3. QED
  BY <1>1, <1>2

\* The link a client has is one it is told of, and a create_link reply is on its way
\* only while it has none: so it never holds two.
LEMMA LinkIsOne == LInv => OneLinkPerClient
<1> SUFFICES ASSUME LInv, NEW c \in Clients, up[c]
             PROVE  Cardinality({l \in LinkIds : owner[l] = c}) <= 1
  BY DEF OneLinkPerClient
<1> DEFINE Owned == {l \in LinkIds : owner[l] = c}
<1>1. ASSUME NEW k \in Owned, NEW l \in Owned PROVE k = l
  BY ConstantsAssumption DEF ConstantsAssumption, LInv, LinkInv, TInv, CallInv
<1>2. CASE Owned = {}
  BY <1>2, FS_EmptySet
<1>3. CASE Owned # {}
  <2> PICK k \in Owned : TRUE
    BY <1>3
  <2>1. Owned = {k}
    BY <1>1
  <2>2. Cardinality({k}) = 1
    BY FS_Singleton
  <2>3. QED
    BY <2>1, <2>2
<1>4. QED
  BY <1>2, <1>3

\* While the connection of a client is up, the instrument holds at most one link for it.
THEOREM OneLink == Spec => []OneLinkPerClient
<1>1. Init => LInv
  BY TypeInit, LinkInit DEF LInv
<1>2. QED
  BY <1>1, LinkStep, LinkIsOne, PTL DEF Spec

-----------------------------------------------------------------------------
(* Asks *)

\* The whole answer to the last command of client c, in one piece.
WholeAnswer(c) == [client |-> c, n |-> ops[c], whole |-> TRUE, last |-> TRUE]

\* Between the write of an ask and its read, on a connection that is up, the output
\* queue of the link holds an answer to that write and nothing else.
OutputInv(c) ==
    LET l == call[c].link
    IN  (up[c] /\ pc[c] = "waiting" /\ asking[c] /\ Live(l)
         /\ (\/ call[c].op = "write" /\ reply[c] # NoReply /\ WriteOk(reply[c])
             \/ call[c].op = "read" /\ reply[c] = NoReply)) => output[l] \in AnswersTo(c)

\* What the read of an ask brings, and what the ask returns.
GotInv(c) ==
    /\ (pc[c] = "waiting" /\ asking[c] /\ call[c].op = "read" /\ reply[c] # NoReply /\ ReadOk(reply[c]))
          => reply[c].data = WholeAnswer(c)
    /\ (pc[c] = "idle" /\ asking[c] /\ result[c] = "ok") => got[c] = WholeAnswer(c)

AskInv(c) == ~keeps_output => OutputInv(c) /\ GotInv(c)

\* A call that arrives on a link that the instrument holds is from the client for which
\* it holds it: what makes AskInv inductive.
Mine(c) ==
    (up[c] /\ pc[c] = "waiting" /\ call[c].op \in {"write", "read"} /\ call[c].link \in LinkIds)
        => owner[call[c].link] \in {c, Gone}

AInv == TInv /\ \A c \in Clients : AskInv(c)

LEMMA AskInit == Init => \A c \in Clients : AskInv(c)
  BY DEF Init, AskInv, OutputInv, GotInv

LEMMA AskBegin ==
    ASSUME AInv, NEW c \in Clients, Begin(c), NEW d \in Clients
    PROVE  AskInv(d)'
<1> USE DEF AInv, TInv
<1>1. ASSUME NEW op, NEW link, NEW a \in BOOLEAN, Send(c, op, link, a), a => op = "write"
      PROVE  AskInv(d)'
  <2>1. CASE d # c
    BY <1>1, <2>1 DEF Send, TypeOK, AskInv, OutputInv, GotInv, WholeAnswer, AnswersTo,
                      Live, instrumentVars
  <2>2. CASE d = c
    <3>1. pc'[c] = "waiting" /\ reply'[c] = NoReply
      BY <1>1 DEF Send, TypeOK, CallInv, instrumentVars
    <3>2. call'[c].op = op /\ asking'[c] = a
      BY <1>1 DEF Send, TypeOK
    <3>3. GotInv(c)'
      BY <3>1 DEF GotInv
    <3>4. OutputInv(c)'
      BY <1>1, <3>1, <3>2 DEF OutputInv
    <3>5. QED
      BY <2>2, <3>3, <3>4 DEF AskInv
  <2>3. QED
    BY <2>1, <2>2
<1>2. ASSUME NEW why \in Results \ {"ok"}, Refuse(c, why)
      PROVE  AskInv(d)'
  BY <1>2 DEF Refuse, TypeOK, AskInv, OutputInv, GotInv, WholeAnswer, AnswersTo, Live, instrumentVars
<1>3. QED
  BY <1>1, <1>2, Zenon DEF Begin, CreateLink, Write, Read, Ask, DestroyLink, OnLink, Results

LEMMA AskFinish ==
    ASSUME AInv, NEW c \in Clients, MayClose(c), Finish(c) \/ CallFails(c), NEW d \in Clients
    PROVE  AskInv(d)'
<1> USE DEF AInv, TInv, MayClose
<1>1. CASE CreateLinkReturns(c)
  BY <1>1 DEF CreateLinkReturns, Received, Return, TypeOK, CallInv, AskInv, OutputInv, GotInv,
              WholeAnswer, AnswersTo, Live, instrumentVars
<1>2. CASE AskGoesOn(c)
  <2>1. CASE d # c
    BY <1>2, <2>1 DEF AskGoesOn, Received, TypeOK, AskInv, OutputInv, GotInv,
              WholeAnswer, AnswersTo, Live, instrumentVars
  <2>2. CASE d = c
    <3>1. call'[c].op = "read" /\ call'[c].n = call[c].n /\ call'[c].link = call[c].link
      BY <1>2 DEF AskGoesOn, TypeOK, Call
    <3>2. AnswersTo(c)' = AnswersTo(c)
      BY <3>1 DEF AnswersTo
    <3>3. reply'[c] = NoReply /\ pc[c] = "waiting" /\ UNCHANGED <<pc, opt_link, owner, output, keeps_output, asking>>
      BY <1>2 DEF AskGoesOn, Received, TypeOK, instrumentVars
    <3>0. up'[c] => up[c]
      BY DEF TypeOK
    <3>4. OutputInv(c) => OutputInv(c)'
      BY <1>2, <3>0, <3>1, <3>2, <3>3 DEF AskGoesOn, Received, OutputInv, Live
    <3>5. QED
      BY <2>2, <3>1, <3>3, <3>4 DEF AskInv, GotInv
  <2>3. QED
    BY <2>1, <2>2
<1>3. CASE ReadReturns(c)
  BY <1>3 DEF ReadReturns, Received, Return, TypeOK, AskInv, OutputInv, GotInv,
              WholeAnswer, AnswersTo, Live, instrumentVars
<1>4. CASE \E r \in {"ok", "err"} : Closes(c, r) /\ (r = "err" \/ ~asking[c])
  <2> PICK r \in {"ok", "err"} : Closes(c, r) /\ (r = "err" \/ ~asking[c])
    BY <1>4
  <2>1. UNCHANGED <<opt_link, call, asking, got, ops, owner, output, keeps_output>>
        /\ (up'[d] => up[d])
    BY DEF Closes, TypeOK, instrumentVars
  <2>2. CASE d # c
    <3>1. pc'[d] = pc[d] /\ result'[d] = result[d] /\ reply'[d] = reply[d]
      BY <2>2 DEF Closes, Return, TypeOK
    <3>2. QED
      BY <2>1, <3>1 DEF AskInv, OutputInv, GotInv, WholeAnswer, AnswersTo, Live
  <2>3. CASE d = c
    <3>1. pc'[c] = "idle" /\ result'[c] = r /\ reply'[c] = NoReply
      BY DEF Closes, Return, TypeOK
    <3>2. QED
      BY <2>1, <2>3, <3>1 DEF AskInv, OutputInv, GotInv
  <2>4. QED
    BY <2>2, <2>3
<1>5. CASE WriteFails(c)
  BY <1>4, <1>5 DEF WriteFails, Received, Closes
<1>6. CASE WriteReturns(c)
  BY <1>4, <1>6 DEF WriteReturns, Received, Closes
<1>7. CASE ReadFails(c)
  BY <1>4, <1>7 DEF ReadFails, Received, Closes
<1>8. CASE DestroyLinkReturns(c)
  BY <1>4, <1>8 DEF DestroyLinkReturns, Received, Closes, CallInv
<1>9. CASE CallFails(c)
  <2>1. reply' = [reply EXCEPT ![c] = NoReply]
    BY <1>9 DEF CallFails, TypeOK
  <2>2. QED
    BY <1>4, <1>9, <2>1 DEF CallFails, Closes
<1>10. QED
  BY <1>1, <1>2, <1>3, <1>5, <1>6, <1>7, <1>8, <1>9 DEF Finish

LEMMA AskLose ==
    ASSUME AInv, NEW c \in Clients, Lose(c) \/ Release(c), NEW d \in Clients
    PROVE  AskInv(d)'
<1> USE DEF AInv, TInv
<1>1. CASE Lose(c)
  <2>1. UNCHANGED <<pc, call, asking, result, got, ops, owner, output, keeps_output>>
    BY <1>1 DEF Lose, clientVars, instrumentVars
  <2>2. /\ reply'[d] = IF d = c THEN NoReply ELSE reply[d]
        /\ up'[d] => up[d] /\ d # c
    BY <1>1 DEF Lose, TypeOK
  <2>3. QED
    BY <2>1, <2>2 DEF AskInv, OutputInv, GotInv, WholeAnswer, AnswersTo, Live
<1>2. CASE Release(c)
  <2>1. UNCHANGED <<pc, call, asking, result, got, ops, output, keeps_output, reply, up>>
    BY <1>2 DEF Release, clientVars
  <2>2. \A l \in LinkIds : owner'[l] \in Clients => owner[l] \in Clients
    BY <1>2, ConstantsAssumption DEF ConstantsAssumption, Release, Freed
  <2>3. QED
    BY <2>1, <2>2 DEF AskInv, OutputInv, GotInv, WholeAnswer, AnswersTo, Live
<1>3. QED
  BY <1>1, <1>2

\* The first piece of an answer, when it is the last, is the whole of it.
LEMMA LastIsWhole ==
    ASSUME NEW c \in Clients, call[c] \in Call, call[c].n = ops[c],
           NEW a \in AnswersTo(c), a # << >>, Head(a).last
    PROVE  Head(a) = WholeAnswer(c)
<1>1. /\ Head(a) \in Piece /\ Head(a).client = c /\ Head(a).n = ops[c]
      /\ Head(a).whole = TRUE /\ Head(a).last = TRUE
  BY AnswerShape DEF Piece
<1>2. QED
  BY <1>1 DEF Piece, WholeAnswer

LEMMA AskExecute ==
    ASSUME AInv, \A e \in Clients : Mine(e), NEW c \in Clients, Execute(c), NEW d \in Clients
    PROVE  AskInv(d)'
<1> USE ConstantsAssumption DEF ConstantsAssumption, AInv, TInv
<1>1. UNCHANGED clientVars /\ up[c] /\ pc[c] = "waiting" /\ reply[c] = NoReply
      /\ keeps_output' = keeps_output /\ up' = up
  BY DEF Execute, ExecuteCreate, ExecuteWrite, ExecuteRead, ExecuteDestroy, Arrived
<1>2. \E r : reply' = [reply EXCEPT ![c] = r]
  BY DEF Execute, ExecuteCreate, ExecuteWrite, ExecuteRead, ExecuteDestroy, Reply1
<1>3. \A e \in Clients : AnswersTo(e)' = AnswersTo(e) /\ WholeAnswer(e)' = WholeAnswer(e)
  BY <1>1 DEF clientVars, AnswersTo, WholeAnswer
\* No link that has or had an owner gets another.
<1>4. \A l \in LinkIds : owner[l] # NoLink => owner'[l] = owner[l] \/ owner'[l] \notin Clients
  BY DEF Execute, ExecuteCreate, ExecuteWrite, ExecuteRead, ExecuteDestroy, Freed, TypeOK
\* The output of a link changes only when it is new, or by a call of its owner.
<1>5. \A l \in LinkIds : output'[l] # output[l] =>
         \/ owner[l] = NoLink
         \/ l = call[c].link /\ call[c].op \in {"write", "read"} /\ Live(l)
  BY DEF Execute, ExecuteCreate, ExecuteWrite, ExecuteRead, ExecuteDestroy, Arrived, TypeOK
<1>6. CASE d # c
  <2>1. reply'[d] = reply[d]
    BY <1>2, <1>6 DEF TypeOK
  <2>2. GotInv(d) => GotInv(d)'
    BY <1>1, <1>3, <2>1 DEF clientVars, GotInv
  <2>3. OutputInv(d) => OutputInv(d)'
    <3> SUFFICES ASSUME OutputInv(d), up[d], pc[d] = "waiting", asking[d], Live(call[d].link)'
                 PROVE  Live(call[d].link) /\ output'[call[d].link] = output[call[d].link]
      BY <1>1, <1>3, <2>1 DEF clientVars, OutputInv
    <3>1. call[d].op \in {"write", "read"} /\ call[d].link \in LinkIds
      BY <1>1 DEF clientVars, CallInv, Live
    <3>2. owner[call[d].link] = d
      BY <1>1, <1>4, <3>1 DEF clientVars, Mine, Live
    <3>3. (call[c].op \in {"write", "read"} /\ Live(call[c].link)) => owner[call[c].link] = c
      BY <1>1 DEF Mine, Live
    <3>4. QED
      BY <1>5, <1>6, <3>1, <3>2, <3>3 DEF Live
  <2>4. QED
    BY <1>1, <2>2, <2>3 DEF AskInv
<1>7. CASE d = c /\ ExecuteCreate(c)
  <2>1. call[c].op = "create"
    BY <1>7 DEF ExecuteCreate, Arrived
  <2>2. QED
    BY <1>1, <1>7, <2>1 DEF clientVars, AskInv, OutputInv, GotInv, CallInv
<1>8. CASE d = c /\ ~ExecuteCreate(c)
  <2>3. CASE ExecuteWrite(c)
    <3>1. call[c].op = "write"
      BY <2>3 DEF ExecuteWrite, Arrived
    <3>2. GotInv(c)'
      BY <1>1, <3>1 DEF clientVars, GotInv
    <3>3. ASSUME ~keeps_output, Live(call[c].link), WriteOk(reply'[c])
          PROVE  output'[call[c].link] \in AnswersTo(c)
      BY <2>3, <3>3 DEF ExecuteWrite, Reply1, WriteOk, Live, TypeOK
    <3>4. Live(call[c].link)' = Live(call[c].link)
      BY <1>1, <2>3 DEF ExecuteWrite, clientVars, Live
    <3>5. ~keeps_output => OutputInv(c)'
      BY <1>1, <1>3, <3>1, <3>3, <3>4 DEF clientVars, OutputInv
    <3>6. QED
      BY <1>1, <1>8, <3>2, <3>5 DEF AskInv
  <2>4. CASE ExecuteRead(c)
    <3>1. call[c].op = "read" /\ call[c].n = ops[c]
      BY <1>1, <2>4 DEF ExecuteRead, Arrived, CallInv
    <3>2. ASSUME ~keeps_output, asking[c], ReadOk(reply'[c])
          PROVE  reply'[c].data = WholeAnswer(c)
      <4>1. Live(call[c].link) /\ output[call[c].link] # << >>
        BY <2>4, <3>2 DEF ExecuteRead, Reply1, ReadOk, TypeOK
      <4>2. output[call[c].link] \in AnswersTo(c)
        BY <1>1, <3>1, <3>2, <4>1 DEF AskInv, OutputInv
      <4>3. Head(output[call[c].link]).last /\ reply'[c].data = Head(output[call[c].link])
        BY <2>4, <3>2, <4>1 DEF ExecuteRead, Reply1, ReadOk, TypeOK
      <4>4. QED
        BY <3>1, <4>1, <4>2, <4>3, LastIsWhole DEF TypeOK
    <3>3. reply'[c] # NoReply
      <4>1. ASSUME NEW e \in {4, 15} PROVE [error |-> e, reason |-> 0, data |-> NoData] # NoReply
        BY ReplyAssumption DEF Reply
      <4>2. ASSUME NEW p \in Piece, NEW n \in {0, 4} PROVE [error |-> 0, reason |-> n, data |-> p] # NoReply
        BY ReplyAssumption DEF Reply
      <4>3. (Live(call[c].link) /\ output[call[c].link] # << >>) => Head(output[call[c].link]) \in Piece
        BY DEF Live, TypeOK
      <4>4. \A r : Reply1(c, r) => reply'[c] = r
        BY DEF Reply1, TypeOK
      <4>5. QED
        BY <2>4, <4>1, <4>2, <4>3, <4>4 DEF ExecuteRead
    <3>4. ~keeps_output => GotInv(c)' /\ OutputInv(c)'
      BY <1>1, <1>3, <3>1, <3>2, <3>3 DEF clientVars, GotInv, OutputInv
    <3>5. QED
      BY <1>1, <1>8, <3>4 DEF AskInv
  <2>5. CASE ExecuteDestroy(c)
    <3>1. call[c].op = "destroy"
      BY <2>5 DEF ExecuteDestroy, Arrived
    <3>2. QED
      BY <1>1, <1>8, <3>1 DEF clientVars, AskInv, OutputInv, GotInv
  <2>6. QED
    BY <1>8, <2>3, <2>4, <2>5 DEF Execute
<1>9. QED
  BY <1>6, <1>7, <1>8

-----------------------------------------------------------------------------
(* ... on an instrument whose link ids do not come back *)

\* An error reply names no link.
FreshIds == ~RecyclesLinks /\ ErrorLinks \cap LinkIds = {}

\* The id a client has, or is told of, is the one of a link of its own, or of one that
\* was its own.
OwnInv(c) ==
    /\ opt_link[c] \in LinkIds => owner[opt_link[c]] \in {c, Gone}
    /\ (pc[c] = "waiting" /\ call[c].op = "create" /\ reply[c] # NoReply /\ reply[c].link \in LinkIds)
          => owner[reply[c].link] \in {c, Gone}

OInv == TInv /\ \A c \in Clients : OwnInv(c)

LEMMA OwnStep ==
    ASSUME FreshIds, OInv, [Next]_vars, NEW d \in Clients
    PROVE  OwnInv(d)'
<1> USE DEF OInv, TInv
<1>1. ASSUME NEW c \in Clients, Begin(c) PROVE OwnInv(d)'
  <2>1. pc[c] = "idle" /\ UNCHANGED <<opt_link, owner, reply>>
    BY <1>1 DEF Begin, CreateLink, Write, Read, Ask, DestroyLink, OnLink, Send, Refuse, instrumentVars
  <2>2. reply[c] = NoReply
    BY <2>1 DEF CallInv
  <2>3. ASSUME NEW op, NEW link, NEW a, Send(c, op, link, a), d # c
        PROVE  pc'[d] = pc[d] /\ call'[d] = call[d]
    BY <2>3 DEF Send, TypeOK
  <2>4. ASSUME NEW why, Refuse(c, why), d # c
        PROVE  pc'[d] = pc[d] /\ call'[d] = call[d]
    BY <2>4 DEF Refuse
  <2>5. d # c => pc'[d] = pc[d] /\ call'[d] = call[d]
    BY <1>1, <2>3, <2>4, Zenon DEF Begin, CreateLink, Write, Read, Ask, DestroyLink, OnLink
  <2>6. QED
    BY <2>1, <2>2, <2>5 DEF OwnInv
<1>2. ASSUME NEW c \in Clients, Finish(c) \/ CallFails(c) PROVE OwnInv(d)'
  <2>1. CASE CreateLinkReturns(c)
    BY <2>1 DEF CreateLinkReturns, Received, Return, TypeOK, OwnInv, instrumentVars
  <2>2. CASE AskGoesOn(c)
    BY <2>2 DEF AskGoesOn, Received, TypeOK, Call, OwnInv, instrumentVars
  <2>3. CASE ReadReturns(c)
    BY <2>3 DEF ReadReturns, Received, Return, TypeOK, OwnInv, instrumentVars
  <2>4. CASE WriteFails(c) \/ WriteReturns(c) \/ ReadFails(c) \/ DestroyLinkReturns(c)
    BY <2>4 DEF WriteFails, WriteReturns, ReadFails, DestroyLinkReturns, Received, Return, TypeOK,
                OwnInv, instrumentVars
  <2>5. CASE CallFails(c)
    BY <2>5 DEF CallFails, Return, TypeOK, OwnInv, instrumentVars
  <2>6. QED
    BY <1>2, <2>1, <2>2, <2>3, <2>4, <2>5 DEF Finish
<1>3. ASSUME NEW c \in Clients, Lose(c) PROVE OwnInv(d)'
  BY <1>3 DEF Lose, TypeOK, OwnInv, clientVars, instrumentVars
<1>4. ASSUME NEW c \in Clients, Release(c) PROVE OwnInv(d)'
  BY <1>4 DEF Release, Freed, FreshIds, TypeOK, CallInv, ReplyTo, OwnInv, clientVars
<1>5. ASSUME NEW c \in Clients, Execute(c) PROVE OwnInv(d)'
  <2> USE ConstantsAssumption DEF ConstantsAssumption
  <2>1. UNCHANGED clientVars /\ pc[c] = "waiting" /\ reply[c] = NoReply
    BY <1>5 DEF Execute, ExecuteCreate, ExecuteWrite, ExecuteRead, ExecuteDestroy, Arrived
  <2>2. \A l \in LinkIds : owner[l] # NoLink => owner'[l] \in {owner[l], Gone}
    BY <1>5 DEF Execute, ExecuteCreate, ExecuteWrite, ExecuteRead, ExecuteDestroy, Freed, FreshIds, TypeOK
  <2>3. opt_link'[d] \in LinkIds => owner'[opt_link'[d]] \in {d, Gone}
    BY <2>1, <2>2 DEF clientVars, OwnInv
  <2>4. CASE d # c
    <3>1. reply'[d] = reply[d]
      BY <1>5, <2>4 DEF Execute, ExecuteCreate, ExecuteWrite, ExecuteRead, ExecuteDestroy, Reply1, TypeOK
    <3>2. QED
      BY <2>1, <2>2, <2>3, <3>1 DEF clientVars, OwnInv
  <2>5. CASE d = c /\ ExecuteCreate(c)
    <3>1. reply'[c].link \in LinkIds => owner'[reply'[c].link] = c
      BY <2>5 DEF ExecuteCreate, Reply1, FreshIds, TypeOK
    <3>2. QED
      BY <2>3, <2>5, <3>1 DEF OwnInv
  <2>6. CASE d = c /\ ~ExecuteCreate(c)
    <3>1. call'[c].op # "create"
      BY <1>5, <2>1, <2>6 DEF Execute, ExecuteWrite, ExecuteRead, ExecuteDestroy, Arrived, clientVars
    <3>2. QED
      BY <2>3, <2>6, <3>1 DEF OwnInv
  <2>7. QED
    BY <2>4, <2>5, <2>6
<1>6. CASE UNCHANGED vars
  BY <1>6 DEF OwnInv, vars, clientVars, instrumentVars
<1>7. QED
  BY <1>1, <1>2, <1>3, <1>4, <1>5, <1>6 DEF Next

LEMMA OwnIsMine == OInv => \A c \in Clients : Mine(c)
  BY DEF OInv, TInv, OwnInv, CallInv, Mine

LEMMA AskStep ==
    ASSUME FreshIds, OInv, AInv, [Next]_vars
    PROVE  OInv' /\ AInv'
<1>1. TInv' /\ OInv'
  BY TypeStep, OwnStep DEF OInv
<1>2. ASSUME NEW d \in Clients PROVE AskInv(d)'
  <2>1. CASE UNCHANGED vars
    BY <2>1 DEF AInv, AskInv, OutputInv, GotInv, WholeAnswer, AnswersTo, Live,
                vars, clientVars, instrumentVars
  <2>2. CASE Next
    BY <2>2, AskBegin, AskFinish, AskLose, AskExecute, OwnIsMine DEF Next, MayClose
  <2>3. QED
    BY <2>1, <2>2
<1>3. QED
  BY <1>1, <1>2 DEF AInv

\* An ask that returns Ok returns the whole answer to its own command, on an instrument
\* that drops unread output and gives no link id twice.
THEOREM AskIsAnswered ==
    ASSUME FreshIds
    PROVE  Spec => []AskReturnsItsAnswer
<1>1. Init => OInv /\ AInv
  BY TypeInit, AskInit, ConstantsAssumption DEF OInv, AInv, OwnInv, Init, ConstantsAssumption
<1>2. OInv /\ AInv /\ [Next]_vars => OInv' /\ AInv'
  BY AskStep
<1>3. AInv => AskReturnsItsAnswer
  BY DEF AInv, AskInv, GotInv, WholeAnswer, AskReturnsItsAnswer
<1>4. QED
  BY <1>1, <1>2, <1>3, PTL DEF Spec

-----------------------------------------------------------------------------
(* Device: the inductive invariant *)

Sessions == {"none", "connected", "creating", "linked", "identifying", "open", "dropping"} \cup Ended

\* The call of a device is the one its session has come to.
CallOf(c) ==
    /\ session[c] \in {"none", "connected", "linked"} \cup Ended => pc[c] = "idle"
    /\ session[c] = "creating" => pc[c] = "waiting" /\ call[c].op = "create"
    /\ session[c] = "identifying" => pc[c] = "waiting"
    /\ (session[c] \in {"identifying", "open"} /\ pc[c] = "waiting") =>
          asking[c] /\ call[c].op \in {"write", "read"}
    /\ session[c] = "dropping" => pc[c] = "waiting" /\ call[c].op = "destroy"
    /\ session[c] \in Ended => ~up[c]
    /\ session[c] \in {"none", "connected"} => opt_link[c] = NoLink
    /\ session[c] \in {"linked", "identifying", "open", "dropping"} => opt_link[c] # NoLink

Holds(c, l) == l \in LinkIds /\ owner[l] = c

\* While the connection is up, the instrument holds the link of the device: from the
\* reply that names it until it has taken the destroy_link.
HoldsInv(c) == up[c] =>
    /\ session[c] \in {"linked", "identifying", "open"} => Holds(c, opt_link[c])
    /\ (session[c] = "creating" /\ reply[c] # NoReply /\ reply[c].error = 0) => Holds(c, reply[c].link)
    /\ (session[c] = "dropping" /\ reply[c] = NoReply) => Holds(c, opt_link[c])
    /\ (session[c] = "dropping" /\ reply[c] # NoReply) => reply[c].error = 0

DInv ==
    /\ TInv
    /\ DeviceTypeOK
    /\ \A c \in Clients : CallOf(c) /\ HoldsInv(c)

-----------------------------------------------------------------------------
LEMMA DeviceInitInv == DeviceInit => DInv
<1> SUFFICES ASSUME DeviceInit PROVE DInv
  OBVIOUS
<1>1. TInv
  BY TypeInit DEF DeviceInit
<1>2. DeviceTypeOK
  BY <1>1 DEF TInv, DeviceTypeOK, DeviceInit
<1>3. ASSUME NEW c \in Clients PROVE CallOf(c) /\ HoldsInv(c)
  BY DEF DeviceInit, Init, CallOf, HoldsInv, Ended
<1>4. QED
  BY <1>1, <1>2, <1>3 DEF DInv

\* What a session becomes is a session.
LEMMA SessionType ==
    ASSUME DInv, NEW c \in Clients, NEW s \in Sessions, Becomes(c, s)
    PROVE  session' \in [Clients -> Sessions]
  BY DEF DInv, DeviceTypeOK, Becomes, Sessions

LEMMA PortType ==
    ASSUME DInv, NEW c \in Clients,
           port' \in {port, [port EXCEPT ![c] = 0]}
           \/ \E p \in {CorePort} \cup OtherPorts : port' = [port EXCEPT ![c] = p]
    PROVE  port' \in [Clients -> {0, CorePort} \cup OtherPorts]
  BY DEF DInv, DeviceTypeOK

\* connect
LEMMA ConnectStep ==
    ASSUME DInv, NEW c \in Clients, Connect(c)
    PROVE  DInv'
<1>1. session[c] = "none" /\ UNCHANGED <<clientVars, reply, instrumentVars>>
  BY DEF Connect
<1>2. \E s \in {"failed", "connected"} :
         Becomes(c, s) /\ (s = "failed" => up' = [up EXCEPT ![c] = FALSE])
                       /\ (s = "connected" => up' = up)
  BY DEF Connect, Ends
<1>3. up' \in [Clients -> BOOLEAN] /\ \A d \in Clients : (up'[d] => up[d]) /\ (d # c => up'[d] = up[d])
  BY <1>2 DEF DInv, TInv, TypeOK
<1>4. TInv'
  <2>1. TypeOK'
    BY <1>1, <1>3 DEF DInv, TInv, TypeOK, clientVars, instrumentVars
  <2>2. pc[c] = "idle"
    BY <1>1 DEF DInv, CallOf
  <2>3. ASSUME NEW d \in Clients PROVE CallInv(d)'
    BY <1>1, <1>3, <2>2 DEF DInv, TInv, CallInv, clientVars, instrumentVars
  <2>4. QED
    BY <2>1, <2>3 DEF TInv
<1>5. session' \in [Clients -> Sessions]
  BY <1>2, SessionType DEF Sessions, Ended
<1>6. port' \in [Clients -> {0, CorePort} \cup OtherPorts]
  BY PortType DEF Connect, Ends
<1>7. ASSUME NEW d \in Clients PROVE CallOf(d)' /\ HoldsInv(d)'
  <2>1. CASE d # c
    BY <1>1, <1>2, <1>3, <2>1 DEF DInv, DeviceTypeOK, Becomes, CallOf, HoldsInv, Holds, clientVars, instrumentVars
  <2>2. CASE d = c
    <3>1. session'[c] \in {"failed", "connected"} /\ (session'[c] = "failed" => ~up'[c]) /\ pc'[c] = "idle"
          /\ opt_link'[c] = NoLink
      BY <1>1, <1>2 DEF DInv, TInv, TypeOK, DeviceTypeOK, Becomes, CallOf, clientVars
    <3>2. QED
      BY <2>2, <3>1 DEF CallOf, HoldsInv, Ended
  <2>3. QED
    BY <2>1, <2>2
<1>8. QED
  BY <1>4, <1>5, <1>6, <1>7 DEF DInv, DeviceTypeOK, Sessions, TInv

\* A device sends a call, on the link it has.
Sends(c, op, link, ask, to) ==
    /\ Send(c, op, link, ask)
    /\ session' = [session EXCEPT ![c] = to]
    /\ port' = port

LEMMA SendStep ==
    ASSUME DInv, NEW c \in Clients, Begin(c), NEW op, NEW link, NEW ask, NEW to,
           Sends(c, op, link, ask, to),
           \/ op = "create" /\ ~ask /\ session[c] = "connected" /\ to = "creating"
           \/ op = "write" /\ ask /\ session[c] = "linked" /\ to = "identifying"
           \/ op = "write" /\ ask /\ session[c] = "open" /\ to = "open"
           \/ op = "destroy" /\ ~ask /\ session[c] = "open" /\ to = "dropping"
    PROVE  DInv'
<1>1. TInv'
  BY TypeBegin DEF DInv
<1>2. /\ pc[c] = "idle" /\ UNCHANGED <<opt_link, up, reply, owner>>
      /\ reply[c] = NoReply
  BY DEF Sends, Send, instrumentVars, DInv, TInv, CallInv
<1>3. session' \in [Clients -> Sessions]
  BY SessionType DEF Sends, Becomes, Sessions
<1>4. port' \in [Clients -> {0, CorePort} \cup OtherPorts]
  BY PortType DEF Sends
<1>5. ASSUME NEW d \in Clients, d # c PROVE CallOf(d)' /\ HoldsInv(d)'
  <2>1. pc'[d] = pc[d] /\ call'[d] = call[d] /\ asking'[d] = asking[d] /\ session'[d] = session[d]
    BY <1>5 DEF Sends, Send, DInv, TInv, TypeOK, DeviceTypeOK
  <2>2. QED
    BY <1>2, <2>1 DEF DInv, CallOf, HoldsInv, Holds
<1>6. /\ pc'[c] = "waiting" /\ call'[c].op = op /\ asking'[c] = ask /\ session'[c] = to
  BY DEF Sends, Send, DInv, TInv, TypeOK, DeviceTypeOK
<1>7. CallOf(c)'
  BY <1>2, <1>6 DEF DInv, CallOf, Ended
<1>8. HoldsInv(c)'
  BY <1>2, <1>6 DEF DInv, HoldsInv, Holds
<1>9. QED
  BY <1>1, <1>3, <1>4, <1>5, <1>7, <1>8 DEF DInv, DeviceTypeOK, Sessions, TInv

LEMMA BeginsStep ==
    ASSUME DInv, NEW c \in Clients, Begins(c)
    PROVE  DInv'
<1>0. CallOf(c)
  BY DEF DInv
<1>1. CASE New(c)
  <2>1. session[c] = "connected" /\ Begin(c) /\ Sends(c, "create", NoLink, FALSE, "creating")
    BY <1>0, <1>1 DEF New, CreateLink, CallOf, Becomes, Sends, Begin
  <2>2. QED
    BY <2>1, SendStep
<1>2. CASE Identify(c)
  <2>1. session[c] = "linked" /\ Begin(c) /\ Sends(c, "write", opt_link[c], TRUE, "identifying")
    BY <1>0, <1>2 DEF Identify, Ask, OnLink, CallOf, Becomes, Sends, Begin
  <2>2. QED
    BY <2>1, SendStep
<1>3. CASE DeviceAsk(c)
  <2>1. session' = [session EXCEPT ![c] = "open"]
    BY <1>3 DEF DeviceAsk, DInv, DeviceTypeOK
  <2>2. session[c] = "open" /\ Begin(c) /\ Sends(c, "write", opt_link[c], TRUE, "open")
    BY <1>0, <1>3, <2>1 DEF DeviceAsk, Ask, OnLink, CallOf, Sends, Begin
  <2>3. QED
    BY <2>2, SendStep
<1>4. CASE Drop(c)
  <2>1. session[c] = "open" /\ Begin(c) /\ Sends(c, "destroy", opt_link[c], FALSE, "dropping")
    BY <1>0, <1>4 DEF Drop, DestroyLink, CallOf, Becomes, Sends, Begin
  <2>2. QED
    BY <2>1, SendStep
<1>5. QED
  BY <1>1, <1>2, <1>3, <1>4 DEF Begins

\* What becomes of the session of a device when its call ends, and of its connection.
Moves(c) ==
    \/ /\ up' = up /\ port' = port
       /\ \/ session' = session /\ session[c] \in {"open"}
          \/ session[c] = "creating" /\ result'[c] = "ok" /\ Becomes(c, "linked")
          \/ session[c] = "identifying" /\ result'[c] = "ok" /\ Becomes(c, "open")
    \/ \E s \in Ended : Ends(c, s)

LEMMA EndOfCallStep ==
    ASSUME DInv, NEW c \in Clients, Moves(c), pc'[c] = "idle",
           CreateLinkReturns(c) \/ AskEnds(c) \/ DestroyLinkReturns(c)
    PROVE  DInv'
<1>1. MayClose(c) /\ \A d \in Clients : (up'[d] => up[d]) /\ (d # c => up'[d] = up[d])
  BY DEF Moves, Ends, MayClose, DInv, TInv, TypeOK
<1>2. TInv'
  BY <1>1, TypeFinish DEF DInv, AskEnds, Finish
<1>3. session' \in [Clients -> Sessions]
  BY SessionType DEF Moves, Ends, Becomes, Sessions, Ended, DInv, DeviceTypeOK
<1>4. port' \in [Clients -> {0, CorePort} \cup OtherPorts]
  BY PortType DEF Moves, Ends
<1>5. owner' = owner /\ call' = call /\ asking' = asking
  BY DEF CreateLinkReturns, AskEnds, WriteFails, ReadReturns, ReadFails, CallFails,
         DestroyLinkReturns, instrumentVars
<1>6. ASSUME NEW d \in Clients, d # c PROVE CallOf(d)' /\ HoldsInv(d)'
  <2>1. opt_link'[d] = opt_link[d] /\ pc'[d] = pc[d] /\ reply'[d] = reply[d]
    BY <1>6 DEF CreateLinkReturns, AskEnds, WriteFails, ReadReturns, ReadFails, CallFails,
           DestroyLinkReturns, Received, Return, DInv, TInv, TypeOK
  <2>2. session'[d] = session[d]
    BY <1>6 DEF Moves, Ends, Becomes, DInv, DeviceTypeOK
  <2>3. QED
    BY <1>1, <1>5, <1>6, <2>1, <2>2 DEF DInv, CallOf, HoldsInv, Holds
<1>7. CASE \E s \in Ended : Ends(c, s)
  <2>1. session'[c] \in Ended /\ ~up'[c]
    BY <1>7 DEF Ends, Becomes, DInv, TInv, TypeOK, DeviceTypeOK
  <2>2. CallOf(c)' /\ HoldsInv(c)'
    BY <2>1 DEF CallOf, HoldsInv, Ended
  <2>3. QED
    BY <1>2, <1>3, <1>4, <1>6, <2>2 DEF DInv, DeviceTypeOK, Sessions, TInv
<1>8. CASE session[c] = "creating" /\ result'[c] = "ok" /\ Becomes(c, "linked") /\ up' = up
  <2>1. session'[c] = "linked" /\ pc[c] = "waiting" /\ call[c].op = "create"
    BY <1>8 DEF Becomes, DInv, DeviceTypeOK, CallOf
  <2>2. /\ CreateLinkReturns(c) /\ opt_link'[c] = reply[c].link /\ reply[c] # NoReply
        /\ reply[c].error = 0
    <3>1. CreateLinkReturns(c)
      BY <1>8, <2>1 DEF CreateLinkReturns, AskEnds, WriteFails, ReadReturns, ReadFails, CallFails,
             DestroyLinkReturns, Received, Return, DInv, TInv, TypeOK
    <3>2. QED
      BY <1>8, <3>1 DEF CreateLinkReturns, Received, Return, DInv, TInv, TypeOK
  <2>3. Holds(c, reply[c].link) \/ ~up[c]
    BY <1>8, <2>2 DEF DInv, HoldsInv
  <2>4. opt_link'[c] # NoLink
    BY <2>1, <2>2, ConstantsAssumption DEF ConstantsAssumption, DInv, TInv, CallInv, ReplyTo, Ids
  <2>5. CallOf(c)' /\ HoldsInv(c)'
    BY <1>5, <1>8, <2>1, <2>2, <2>3, <2>4 DEF CallOf, HoldsInv, Holds, Ended
  <2>6. QED
    BY <1>2, <1>3, <1>4, <1>6, <2>5 DEF DInv, DeviceTypeOK, Sessions, TInv
<1>9. CASE session[c] \in {"identifying", "open"} /\ session'[c] = "open" /\ up' = up
  <2>1. ~CreateLinkReturns(c) \/ call[c].op = "create"
    BY DEF CreateLinkReturns, Received
  <2>2. opt_link'[c] = opt_link[c]
    BY <1>9 DEF CreateLinkReturns, AskEnds, WriteFails, ReadReturns, ReadFails, CallFails,
             DestroyLinkReturns, Received, DInv, CallOf
  <2>3. CallOf(c)' /\ HoldsInv(c)'
    BY <1>5, <1>9, <2>2 DEF DInv, CallOf, HoldsInv, Holds, Ended
  <2>4. QED
    BY <1>2, <1>3, <1>4, <1>6, <2>3 DEF DInv, DeviceTypeOK, Sessions, TInv
<1>10. QED
  BY <1>7, <1>8, <1>9 DEF Moves, Becomes, DInv, DeviceTypeOK

LEMMA ContinuesStep ==
    ASSUME DInv, NEW c \in Clients, Continues(c)
    PROVE  DInv'
<1>1. CASE AskContinues(c)
  <2>1. AskGoesOn(c) /\ UNCHANGED <<up, session, port>>
    BY <1>1 DEF AskContinues
  <2>2. TInv'
    BY <2>1, TypeFinish DEF DInv, MayClose, Finish
  <2>3. /\ call' = [call EXCEPT ![c].op = "read"] /\ reply' = [reply EXCEPT ![c] = NoReply]
        /\ UNCHANGED <<opt_link, pc, asking, owner>> /\ asking[c] /\ call[c].op = "write"
    BY <2>1 DEF AskGoesOn, Received, instrumentVars
  <2>4. ASSUME NEW d \in Clients, d # c PROVE CallOf(d)' /\ HoldsInv(d)'
    <3>1. call'[d] = call[d] /\ reply'[d] = reply[d]
      BY <2>3, <2>4 DEF DInv, TInv, TypeOK
    <3>2. QED
      BY <2>1, <2>3, <3>1 DEF DInv, CallOf, HoldsInv, Holds
  <2>5. call'[c].op = "read"
    BY <2>3 DEF DInv, TInv, TypeOK, Call
  <2>6. CallOf(c)' /\ HoldsInv(c)'
    BY <2>1, <2>3, <2>5 DEF DInv, CallOf, HoldsInv, Holds
  <2>7. QED
    BY <2>1, <2>2, <2>4, <2>6 DEF DInv, DeviceTypeOK, TInv
<1>2. ASSUME CreateLinkReturns(c) \/ AskEnds(c) \/ DestroyLinkReturns(c)
      PROVE  pc'[c] = "idle"
  BY <1>2 DEF CreateLinkReturns, AskEnds, WriteFails, ReadReturns, ReadFails, CallFails,
              DestroyLinkReturns, Return, DInv, TInv, TypeOK
<1>3. CASE Linked(c)
  BY <1>2, <1>3, EndOfCallStep DEF Linked, AskEnds, Moves, Ended
<1>4. CASE Identified(c)
  BY <1>2, <1>4, EndOfCallStep DEF Identified, Moves, Ended
<1>5. CASE DeviceAsked(c)
  BY <1>2, <1>5, EndOfCallStep DEF DeviceAsked, Moves
<1>6. CASE Dropped(c)
  BY <1>2, <1>6, EndOfCallStep DEF Dropped, AskEnds, Moves, Ended
<1>7. QED
  BY <1>1, <1>3, <1>4, <1>5, <1>6 DEF Continues

\* The instrument, and losses
LEMMA EnvironmentStep ==
    ASSUME DInv, NEW c \in Clients, Environment(c)
    PROVE  DInv'
<1> USE ConstantsAssumption DEF ConstantsAssumption
<1>1. /\ Lose(c) \/ Release(c) \/ Execute(c)
      /\ UNCHANGED <<clientVars, session, port>>
  BY DEF Environment, Executes, Lose, Release, Execute, ExecuteCreate, ExecuteWrite,
         ExecuteRead, ExecuteDestroy
<1>2. TInv'
  BY <1>1, TypeLose, TypeExecute DEF DInv
<1>3. \A d \in Clients : (up'[d] => up[d]) /\ (d # c => up'[d] = up[d] /\ reply'[d] = reply[d])
  BY <1>1 DEF Lose, Release, Execute, ExecuteCreate, ExecuteWrite, ExecuteRead, ExecuteDestroy,
              Reply1, DInv, TInv, TypeOK
<1>4. ASSUME NEW d \in Clients PROVE CallOf(d)'
  BY <1>1, <1>3 DEF DInv, CallOf, clientVars
<1>5. CASE Lose(c)
  <2>1. owner' = owner /\ ~up'[c]
    BY <1>5 DEF Lose, instrumentVars, DInv, TInv, TypeOK
  <2>2. ASSUME NEW d \in Clients PROVE HoldsInv(d)'
    BY <1>1, <1>3, <2>1 DEF DInv, HoldsInv, Holds, clientVars
  <2>3. QED
    BY <1>1, <1>2, <1>4, <2>2 DEF DInv, DeviceTypeOK, TInv
<1>6. CASE Release(c)
  <2>1. /\ up' = up /\ reply' = reply /\ ~up[c]
        /\ \A d \in Clients : \A l : d # c /\ Holds(d, l) => l \in LinkIds /\ owner'[l] = d
    BY <1>6 DEF Release, Holds
  <2>2. ASSUME NEW d \in Clients PROVE HoldsInv(d)'
    BY <1>1, <2>1 DEF DInv, HoldsInv, Holds, clientVars
  <2>3. QED
    BY <1>1, <1>2, <1>4, <2>2 DEF DInv, DeviceTypeOK, TInv
<1>7. CASE Execute(c)
  <2>1. up[c] /\ up' = up /\ pc[c] = "waiting" /\ reply[c] = NoReply
    BY <1>7 DEF Execute, ExecuteCreate, ExecuteWrite, ExecuteRead, ExecuteDestroy, Arrived
  <2>2. CallOf(c) /\ HoldsInv(c) /\ CallInv(c)
    BY DEF DInv, TInv
  \* A link that is destroyed is the client's own.
  <2>3. ExecuteDestroy(c) => Holds(c, call[c].link) /\ session[c] = "dropping"
    BY <2>1, <2>2 DEF ExecuteDestroy, Arrived, CallOf, HoldsInv, CallInv, Ended, DInv,
                      DeviceTypeOK
  <2>4. \A d \in Clients : \A l : d # c /\ Holds(d, l) => l \in LinkIds /\ owner'[l] = d
    <3>1. CASE ExecuteCreate(c)
      BY <3>1 DEF ExecuteCreate, Holds, DInv, TInv, TypeOK
    <3>2. CASE ExecuteDestroy(c)
      BY <2>3, <3>2 DEF ExecuteDestroy, Holds, DInv, TInv, TypeOK
    <3>3. CASE ExecuteWrite(c) \/ ExecuteRead(c)
      BY <3>3 DEF ExecuteWrite, ExecuteRead, Holds
    <3>4. QED
      BY <1>7, <3>1, <3>2, <3>3 DEF Execute
  <2>5. ASSUME NEW d \in Clients, d # c PROVE HoldsInv(d)'
    BY <1>1, <1>3, <2>1, <2>4, <2>5 DEF DInv, HoldsInv, Holds, clientVars
  <2>6. HoldsInv(c)'
    <3>1. CASE ExecuteCreate(c)
      <4>1. session[c] = "creating"
        BY <2>1, <2>2, <3>1 DEF ExecuteCreate, Arrived, CallOf, Ended, DInv, DeviceTypeOK
      <4>2. reply'[c].error = 0 => reply'[c].link \in LinkIds /\ owner'[reply'[c].link] = c
        BY <3>1 DEF ExecuteCreate, Reply1, Holds, DInv, TInv, TypeOK
      <4>3. QED
        BY <1>1, <4>1, <4>2 DEF HoldsInv, Holds
    <3>2. CASE ExecuteDestroy(c)
      <4>1. Live(call[c].link) /\ session[c] = "dropping"
        BY <2>3, <3>2 DEF Holds, Live
      <4>2. reply' = [reply EXCEPT ![c] = [error |-> 0]]
        BY <3>2, <4>1 DEF ExecuteDestroy, Reply1
      <4>3. [error |-> 0] # NoReply
        BY ReplyAssumption DEF Reply
      <4>4. reply'[c].error = 0 /\ reply'[c] # NoReply
        BY <4>2, <4>3 DEF DInv, TInv, TypeOK
      <4>5. QED
        BY <1>1, <4>1, <4>4 DEF HoldsInv
    <3>3. CASE ExecuteWrite(c) \/ ExecuteRead(c)
      <4>1. session[c] \in {"identifying", "open"} /\ owner' = owner
        BY <2>1, <2>2, <3>3 DEF ExecuteWrite, ExecuteRead, Arrived, CallOf, Ended, DInv, DeviceTypeOK
      <4>2. QED
        BY <1>1, <2>1, <2>2, <4>1 DEF HoldsInv, Holds, clientVars
    <3>4. QED
      BY <1>7, <3>1, <3>2, <3>3 DEF Execute
  <2>7. QED
    BY <1>1, <1>2, <1>4, <2>5, <2>6 DEF DInv, DeviceTypeOK, TInv
<1>8. QED
  BY <1>1, <1>5, <1>6, <1>7

LEMMA DeviceStep == DInv /\ [DeviceNext]_deviceVars => DInv'
<1> SUFFICES ASSUME DInv, [DeviceNext]_deviceVars PROVE DInv'
  OBVIOUS
<1>1. CASE DeviceNext
  BY <1>1, ConnectStep, BeginsStep, ContinuesStep, EnvironmentStep DEF DeviceNext
<1>2. CASE UNCHANGED deviceVars
  <2>1. TInv'
    BY <1>2, TypeStep DEF DInv, deviceVars
  <2>2. ASSUME NEW c \in Clients PROVE CallOf(c)' /\ HoldsInv(c)'
    BY <1>2 DEF DInv, CallOf, HoldsInv, Holds, deviceVars, vars, clientVars, instrumentVars
  <2>3. QED
    BY <1>2, <2>1, <2>2 DEF DInv, DeviceTypeOK, TInv, deviceVars
<1>3. QED
  BY <1>1, <1>2

LEMMA DeviceInvariant == DeviceSpec => []DInv
<1>1. QED
  BY DeviceInitInv, DeviceStep, PTL DEF DeviceSpec

-----------------------------------------------------------------------------
\* The variables keep their types.
THEOREM DeviceTypeCorrect == DeviceSpec => []DeviceTypeOK
<1>1. DInv => DeviceTypeOK
  BY DEF DInv
<1>2. QED
  BY <1>1, DeviceInvariant, PTL

\* A device in its caller's hands, whose connection is there, names a link that the
\* instrument holds for it.
THEOREM DeviceOwnsItsLink == DeviceSpec => []OwnsItsLink
<1>1. DInv => OwnsItsLink
  BY DEF DInv, HoldsInv, Holds, OwnsItsLink
<1>2. QED
  BY <1>1, DeviceInvariant, PTL

\* No drop panics because the instrument says that the link does not exist.
THEOREM DropOnlyLosesCalls == DeviceSpec => DropIsNeverRefused
<1>1. ASSUME DInv, [DeviceNext]_deviceVars, NEW c \in Clients,
             session[c] = "dropping", session'[c] = "panicked"
      PROVE  reply[c] = NoReply
  <2>1. PICK d \in Clients : Connect(d) \/ Begins(d) \/ Continues(d) \/ Environment(d)
    BY <1>1 DEF DeviceNext, deviceVars
  <2>2. d = c
    BY <1>1, <2>1 DEF Connect, Begins, New, Identify, DeviceAsk, Drop, Continues, AskContinues,
         Linked, Identified, DeviceAsked, Dropped, Environment, Ends, Becomes, DInv, DeviceTypeOK
  <2>3. Dropped(c)
    BY <1>1, <2>1, <2>2 DEF Connect, Begins, New, Identify, DeviceAsk, Drop, Continues,
         AskContinues, Linked, Identified, DeviceAsked, Environment, Ends, Becomes, DInv, DeviceTypeOK
  <2>4. result'[c] # "ok"
    BY <1>1, <2>3 DEF Dropped, Ends, Becomes, DInv, DeviceTypeOK
  <2>5. CASE DestroyLinkReturns(c)
    <3>1. up[c] /\ reply[c].error = 0
      BY <1>1, <2>5 DEF DestroyLinkReturns, Received, DInv, TInv, CallInv, HoldsInv
    <3>2. QED
      BY <2>4, <2>5, <3>1, <1>1 DEF DestroyLinkReturns, Return, DInv, TInv, TypeOK
  <2>6. QED
    BY <2>3, <2>5 DEF Dropped, CallFails
<1>2. DInv /\ [DeviceNext]_deviceVars =>
        [\A c \in Clients : (session[c] = "dropping" /\ session'[c] = "panicked")
              => reply[c] = NoReply]_deviceVars
  BY <1>1
<1>3. QED
  BY <1>2, DeviceInvariant, PTL DEF DeviceSpec, DropIsNeverRefused

-----------------------------------------------------------------------------
(* Asks: what CoreClient promises only of ids that do not come back, devices have of      *)
(* every instrument.                                                                      *)

\* The calls that write and read are on the device's own link.
LEMMA DeviceMine == DInv => \A c \in Clients : Mine(c)
<1> SUFFICES ASSUME DInv, NEW c \in Clients, up[c], pc[c] = "waiting", call[c].op \in {"write", "read"}
             PROVE  owner[call[c].link] = c
  BY DEF Mine
<1>1. session[c] \in {"identifying", "open"}
  BY DEF DInv, CallOf, DeviceTypeOK, Ended
<1>2. QED
  BY <1>1 DEF DInv, TInv, CallInv, HoldsInv, Holds

LEMMA DeviceAskStep ==
    ASSUME DInv, AInv, [DeviceNext]_deviceVars, NEW d \in Clients
    PROVE  AskInv(d)'
<1>1. CASE UNCHANGED deviceVars
  BY <1>1 DEF AInv, AskInv, OutputInv, GotInv, WholeAnswer, AnswersTo, Live,
              deviceVars, vars, clientVars, instrumentVars
<1>2. ASSUME NEW c \in Clients, Connect(c) PROVE AskInv(d)'
  <2>1. UNCHANGED <<clientVars, reply, instrumentVars>>
    BY <1>2 DEF Connect
  <2>2. up'[d] => up[d]
    <3>1. MayClose(c)
      BY <1>2 DEF Connect, Ends, MayClose
    <3>2. QED
      BY <3>1 DEF MayClose, DInv, TInv, TypeOK
  <2>3. QED
    BY <2>1, <2>2 DEF AInv, AskInv, OutputInv, GotInv, WholeAnswer, AnswersTo, Live,
                clientVars, instrumentVars
<1>3. ASSUME NEW c \in Clients, Begins(c) PROVE AskInv(d)'
  <2>1. Begin(c)
    BY <1>3 DEF Begins, New, Identify, DeviceAsk, Drop, Begin
  <2>2. QED
    BY <2>1, AskBegin
<1>4. ASSUME NEW c \in Clients, Continues(c) PROVE AskInv(d)'
  <2>1. MayClose(c) /\ (Finish(c) \/ CallFails(c))
    BY <1>4 DEF Continues, AskContinues, Linked, Identified, DeviceAsked, Dropped, AskEnds, Ends,
                MayClose, Finish
  <2>2. QED
    BY <2>1, AskFinish
<1>5. ASSUME NEW c \in Clients, Environment(c) PROVE AskInv(d)'
  BY <1>5, DeviceMine, AskLose, AskExecute DEF Environment, Executes
<1>6. QED
  BY <1>1, <1>2, <1>3, <1>4, <1>5 DEF DeviceNext

\* An ask of a device that returns Ok returns the whole answer to its own command, on
\* an instrument that drops unread output, whatever it does with its link ids.
THEOREM DeviceAskIsAnswered == DeviceSpec => []AskReturnsItsAnswer
<1>1. DeviceInit => AInv
  BY TypeInit, AskInit DEF DeviceInit, AInv
<1>2. DInv /\ DInv' /\ AInv /\ [DeviceNext]_deviceVars => AInv'
  BY DeviceAskStep DEF DInv, AInv
<1>3. AInv => AskReturnsItsAnswer
  BY DEF AInv, AskInv, GotInv, WholeAnswer, AskReturnsItsAnswer
<1>4. QED
  BY <1>1, <1>2, <1>3, DeviceInvariant, PTL DEF DeviceSpec
-----------------------------------------------------------------------------
(* Refinement: what the session of a device is at each point of its life *)

\* The operations and the commands taken are those of the session so far; a link starts
\* without output; a read comes after its write was taken, and brings a piece.
SessionInv(c) ==
    /\ session[c] \in {"none", "connected"} => ops[c] = 0
    /\ session[c] \in {"creating", "linked"} => ops[c] = 1
    /\ session[c] = "identifying" => ops[c] = 2
    /\ session[c] = "open" => ops[c] >= 2 /\ (pc[c] = "waiting" => ops[c] >= 3)
    /\ session[c] \in {"none", "connected", "creating", "linked"} => took[c] = << >>
    /\ (session[c] = "creating" /\ reply[c] # NoReply /\ reply[c].error = 0
        /\ Holds(c, reply[c].link)) => output[reply[c].link] = << >>
    /\ (session[c] = "linked" /\ Holds(c, opt_link[c])) => output[opt_link[c]] = << >>
    /\ (InSession(c) /\ pc[c] = "waiting" /\ call[c].op = "read") =>
          took[c] # << >> /\ took[c][Len(took[c])] = ops[c]
    /\ (InSession(c) /\ reply[c] # NoReply /\ call[c].op = "read" /\ ReadOk(reply[c])) =>
          reply[c].data \in Piece

RInv == DInv /\ \A c \in Clients : TookInv(c) /\ SessionInv(c)

LEMMA SessionInit == DeviceInit => RInv
<1> SUFFICES ASSUME DeviceInit PROVE RInv
  OBVIOUS
<1>1. ASSUME NEW c \in Clients PROVE TookInv(c) /\ SessionInv(c)
  BY TookInit DEF DeviceInit, Init, SessionInv, InSession
<1>2. QED
  BY <1>1, DeviceInitInv DEF RInv

\* What a device has in the model, and the links the instrument has for it.
Keeps(d) ==
    /\ session'[d] = session[d]
    /\ opt_link'[d] = opt_link[d] /\ pc'[d] = pc[d] /\ call'[d] = call[d]
    /\ ops'[d] = ops[d] /\ got'[d] = got[d] /\ reply'[d] = reply[d] /\ took'[d] = took[d]
    /\ \A l \in LinkIds : owner'[l] = d <=> owner[l] = d
    /\ \A l \in LinkIds : owner[l] = d => output'[l] = output[l]

\* No step of a device touches another.
LEMMA OthersKeep ==
    ASSUME RInv, NEW c \in Clients, NEW d \in Clients, d # c,
           Connect(c) \/ Begins(c) \/ Continues(c) \/ Environment(c)
    PROVE  Keeps(d)
<1> USE DEF RInv, DInv, TInv, TypeOK, DeviceTypeOK
<1>1. CASE Connect(c)
  BY <1>1 DEF Connect, Ends, Becomes, Keeps, clientVars, instrumentVars
<1>2. CASE Begins(c)
  <2>1. session'[d] = session[d]
    BY <1>2 DEF Begins, New, Identify, DeviceAsk, Drop, Becomes
  <2>2. Begin(c)
    BY <1>2 DEF Begins, New, Identify, DeviceAsk, Drop, Begin
  <2>3. ASSUME NEW op, NEW link, NEW a, Send(c, op, link, a) PROVE Keeps(d)
    BY <2>1, <2>3 DEF Send, Keeps, instrumentVars
  <2>4. ASSUME NEW why, Refuse(c, why) PROVE Keeps(d)
    BY <2>1, <2>4 DEF Refuse, Keeps, instrumentVars
  <2>5. QED
    BY <2>2, <2>3, <2>4, Zenon DEF Begin, CreateLink, Write, Read, Ask, DestroyLink, OnLink
<1>3. CASE Continues(c)
  <2>1. session'[d] = session[d]
    BY <1>3 DEF Continues, AskContinues, Linked, Identified, DeviceAsked, Dropped, Ends, Becomes
  <2>2. Finish(c) \/ CallFails(c)
    BY <1>3 DEF Continues, AskContinues, Linked, Identified, DeviceAsked, Dropped, AskEnds, Finish
  <2>3. UNCHANGED instrumentVars /\ UNCHANGED ops
    BY <2>2 DEF Finish, CallFails, CreateLinkReturns, WriteFails, WriteReturns, AskGoesOn,
         ReadReturns, ReadFails, DestroyLinkReturns
  <2>4. /\ opt_link'[d] = opt_link[d] /\ pc'[d] = pc[d] /\ call'[d] = call[d]
        /\ got'[d] = got[d] /\ reply'[d] = reply[d]
    BY <2>2 DEF Finish, CallFails, CreateLinkReturns, WriteFails, WriteReturns, AskGoesOn,
         ReadReturns, ReadFails, DestroyLinkReturns, Received, Return
  <2>5. QED
    BY <2>1, <2>3, <2>4 DEF Keeps, instrumentVars
<1>4. CASE Environment(c)
  <2>1. UNCHANGED <<clientVars, session>>
    BY <1>4 DEF Environment, Executes, Lose, Release, Execute, ExecuteCreate, ExecuteWrite,
         ExecuteRead, ExecuteDestroy
  <2>2. reply'[d] = reply[d] /\ took'[d] = took[d]
    BY <1>4 DEF Environment, Executes, Lose, Release, Execute, ExecuteCreate, ExecuteWrite,
         ExecuteRead, ExecuteDestroy, Reply1, instrumentVars
  <2>3. (call[c].op \in {"write", "read"} /\ up[c] /\ pc[c] = "waiting" /\ Live(call[c].link))
           => owner[call[c].link] = c
    BY DeviceMine, ConstantsAssumption DEF Mine, Live, ConstantsAssumption
  <2>5. ExecuteDestroy(c) => owner[call[c].link] = c
    BY DEF ExecuteDestroy, Arrived, CallOf, HoldsInv, Holds, CallInv, Ended
  <2>6. ASSUME NEW l \in LinkIds
        PROVE  (owner'[l] = d <=> owner[l] = d) /\ (owner[l] = d => output'[l] = output[l])
    <3> USE ConstantsAssumption DEF ConstantsAssumption
    <3>1. CASE Lose(c) \/ Release(c)
      BY <3>1 DEF Lose, Release, Freed, instrumentVars
    <3>2. CASE ExecuteCreate(c)
      BY <3>2 DEF ExecuteCreate
    <3>3. CASE ExecuteWrite(c)
      BY <2>3, <3>3 DEF ExecuteWrite, Arrived
    <3>4. CASE ExecuteRead(c)
      BY <2>3, <3>4 DEF ExecuteRead, Arrived
    <3>5. CASE ExecuteDestroy(c)
      BY <2>5, <3>5 DEF ExecuteDestroy, Freed
    <3>6. QED
      BY <1>4, <3>1, <3>2, <3>3, <3>4, <3>5 DEF Environment, Executes, Execute
  <2>7. QED
    BY <2>1, <2>2, <2>6 DEF Keeps, clientVars
<1>5. QED
  BY <1>1, <1>2, <1>3, <1>4

\* ... and what it does not touch stays what it is, in the session too.
LEMMA KeepsSession ==
    ASSUME RInv, NEW d \in Clients, Keeps(d)
    PROVE  SessionInv(d)'
  BY DEF RInv, Keeps, SessionInv, InSession, Holds, ReadOk

LEMMA KeepsMapped ==
    ASSUME RInv, NEW d \in Clients, Keeps(d)
    PROVE  /\ PhaseOf(d)' = PhaseOf(d) /\ AsksOf(d)' = AsksOf(d) /\ TakenOf(d)' = TakenOf(d)
           /\ UnreadOf(d)' = UnreadOf(d) /\ AnswerOf(d)' = AnswerOf(d)
<1>1. InSession(d)' = InSession(d)
  BY DEF Keeps, InSession
<1>2. PhaseOf(d)' = PhaseOf(d)
  BY <1>1 DEF Keeps, PhaseOf
<1>3. AsksOf(d)' = AsksOf(d)
  BY <1>1 DEF Keeps, AsksOf
<1>4. TakenOf(d)' = TakenOf(d)
  BY <1>1 DEF Keeps, TakenOf
<1>5. AnswerOf(d)' = AnswerOf(d)
  BY <1>1 DEF Keeps, AnswerOf, AskOf
<1>6. Output(d)' = Output(d)
  BY DEF Keeps, Output
<1>7. OnTheWay(d)' = OnTheWay(d)
  BY DEF Keeps, OnTheWay, ReadOk
<1>8. UnreadOf(d)' = UnreadOf(d)
  BY <1>1, <1>6, <1>7 DEF UnreadOf, AskOf
<1>9. QED
  BY <1>2, <1>3, <1>4, <1>5, <1>8

-----------------------------------------------------------------------------
(* Refinement: the asks that pieces of answers belong to *)

LEMMA AsksInPieces ==
    ASSUME NEW c, NEW s \in Seq(Piece)
    PROVE  /\ AsksIn(c, s) = [i \in 1 .. Len(s) |-> AskOf(c, s[i])] /\ Len(s) \in Nat
           /\ AsksIn(c, s) \in Seq({AskOf(c, s[i]) : i \in 1 .. Len(s)})
           /\ Len(AsksIn(c, s)) = Len(s)
<1> DEFINE A(x) == AskOf(c, x)
           N == Len(s)
<1>1. AsksIn(c, s) = [i \in 1 .. N |-> A(s[i])] /\ N \in Nat
  BY DEF AsksIn
<1> HIDE DEF A, N
<1>2. [i \in 1 .. N |-> A(s[i])] \in Seq({A(s[i]) : i \in 1 .. N})
      /\ Len([i \in 1 .. N |-> A(s[i])]) = N
  BY <1>1
<1>3. QED
  BY <1>1, <1>2 DEF A, N

LEMMA AsksInOne ==
    ASSUME NEW c, NEW p
    PROVE  AsksIn(c, << p >>) = << AskOf(c, p) >> /\ AsksIn(c, << >>) = << >>
<1> DEFINE A(x) == AskOf(c, x)
           s == << p >>
<1>1. AsksIn(c, s) = [i \in DOMAIN s |-> A(s[i])] /\ AsksIn(c, << >>) = [i \in DOMAIN << >> |-> A(<< >>[i])]
  BY DEF AsksIn
<1> HIDE DEF A
<1>2. [i \in DOMAIN s |-> A(s[i])] = << A(p) >> /\ [i \in DOMAIN << >> |-> A(<< >>[i])] = << >>
  OBVIOUS
<1>3. QED
  BY <1>1, <1>2 DEF A

LEMMA AsksInConcat ==
    ASSUME NEW c, NEW s \in Seq(Piece), NEW t \in Seq(Piece)
    PROVE  AsksIn(c, s \o t) = AsksIn(c, s) \o AsksIn(c, t)
<1> DEFINE A(x) == AskOf(c, x)
           M == Len(s)
           N == Len(t)
           r == s \o t
           a == AsksIn(c, s)
           b == AsksIn(c, t)
<1>1. /\ r \in Seq(Piece) /\ Len(r) = M + N /\ M \in Nat /\ N \in Nat
      /\ \A i \in 1 .. M + N : r[i] = IF i <= M THEN s[i] ELSE t[i - M]
  OBVIOUS
<1>2. /\ a = [i \in 1 .. M |-> A(s[i])] /\ b = [i \in 1 .. N |-> A(t[i])]
      /\ a \in Seq({A(s[i]) : i \in 1 .. M}) /\ b \in Seq({A(t[i]) : i \in 1 .. N})
      /\ Len(a) = M /\ Len(b) = N
  BY AsksInPieces
<1>3. AsksIn(c, r) = [i \in 1 .. M + N |-> A(r[i])]
  BY <1>1, AsksInPieces
<1> HIDE DEF A, M, N, r, a, b
<1>4. a \o b = [i \in 1 .. M + N |-> IF i <= M THEN a[i] ELSE b[i - M]]
  BY <1>1, <1>2
<1>5. ASSUME NEW i \in 1 .. M + N PROVE A(r[i]) = IF i <= M THEN a[i] ELSE b[i - M]
  <2>1. CASE i <= M
    <3>1. i \in 1 .. M /\ r[i] = s[i]
      BY <1>1, <2>1
    <3>2. a[i] = A(s[i])
      BY <1>2, <3>1
    <3>3. QED
      BY <2>1, <3>1, <3>2
  <2>2. CASE ~(i <= M)
    <3>1. i - M \in 1 .. N /\ r[i] = t[i - M]
      BY <1>1, <2>2
    <3>2. b[i - M] = A(t[i - M])
      BY <1>2, <3>1
    <3>3. QED
      BY <2>2, <3>1, <3>2
  <2>3. QED
    BY <2>1, <2>2
<1>6. AsksIn(c, r) = a \o b
  BY <1>3, <1>4, <1>5
<1>7. QED
  BY <1>6 DEF r, a, b

\* A piece that comes first is the one that is read first.
LEMMA AsksInHead ==
    ASSUME NEW c, NEW p \in Piece, NEW s \in Seq(Piece)
    PROVE  /\ AsksIn(c, << p >> \o s) # << >>
           /\ Head(AsksIn(c, << p >> \o s)) = AskOf(c, p)
           /\ Tail(AsksIn(c, << p >> \o s)) = AsksIn(c, s)
<1>1. << p >> \in Seq(Piece)
  OBVIOUS
<1>2. AsksIn(c, << p >> \o s) = << AskOf(c, p) >> \o AsksIn(c, s)
  <2>1. AsksIn(c, << p >> \o s) = AsksIn(c, << p >>) \o AsksIn(c, s)
    BY <1>1, AsksInConcat
  <2>2. AsksIn(c, << p >>) = << AskOf(c, p) >>
    BY AsksInOne
  <2>3. QED
    BY <2>1, <2>2, Zenon
<1> DEFINE T == {AskOf(c, s[i]) : i \in 1 .. Len(s)} \cup {AskOf(c, p)}
<1>3. AsksIn(c, s) \in Seq(T) /\ AskOf(c, p) \in T
  <2> DEFINE A(x) == AskOf(c, x)
             N == Len(s)
  <2>1. AsksIn(c, s) = [i \in 1 .. N |-> A(s[i])] /\ N \in Nat
    BY AsksInPieces
  <2>2. A(p) \in T /\ \A i \in 1 .. N : A(s[i]) \in T
    OBVIOUS
  <2> HIDE DEF A, N, T
  <2>3. [i \in 1 .. N |-> A(s[i])] \in Seq(T)
    BY <2>1, <2>2
  <2>4. QED
    BY <2>1, <2>2, <2>3 DEF A
<1>4. \A x \in T, u \in Seq(T) : /\ << x >> \o u # << >> /\ Head(<< x >> \o u) = x
                                 /\ Tail(<< x >> \o u) = u
  OBVIOUS
<1> HIDE DEF T
<1>5. QED
  BY <1>2, <1>3, <1>4

-----------------------------------------------------------------------------
(* Refinement: what a step of Session is for the device that takes it *)

\* The other devices are what they were.
OthersStay(c) ==
    /\ keeps_output' = keeps_output
    /\ \A d \in Clients : d # c =>
          /\ PhaseOf(d)' = PhaseOf(d) /\ AsksOf(d)' = AsksOf(d) /\ TakenOf(d)' = TakenOf(d)
          /\ UnreadOf(d)' = UnreadOf(d) /\ AnswerOf(d)' = AnswerOf(d)

\* What a step leaves alone of the device that takes it.
SamePhase(c)  == PhaseOf(c)' = PhaseOf(c)
SameAsks(c)   == AsksOf(c)' = AsksOf(c)
SameTaken(c)  == TakenOf(c)' = TakenOf(c)
SameUnread(c) == UnreadOf(c)' = UnreadOf(c)
SameAnswer(c) == AnswerOf(c)' = AnswerOf(c)

LEMMA MapsStutter ==
    ASSUME NEW c \in Clients, OthersStay(c),
           SamePhase(c), SameAsks(c), SameTaken(c), SameUnread(c), SameAnswer(c)
    PROVE  UNCHANGED Abstract!vars
  BY DEF Abstract!vars, OthersStay, SamePhase, SameAsks, SameTaken, SameUnread, SameAnswer

LEMMA MapsAsk ==
    ASSUME NEW c \in Clients, OthersStay(c),
           PhaseOf(c) \in {"none", "open"}, PhaseOf(c)' = "asking",
           AsksOf(c)' = AsksOf(c) + 1, AnswerOf(c)' = 0, SameTaken(c), SameUnread(c)
    PROVE  Abstract!Ask(c)
  BY DEF Abstract!Ask, Abstract!Moves, OthersStay, SameTaken, SameUnread

LEMMA MapsTake ==
    ASSUME NEW c \in Clients, OthersStay(c), PhaseOf(c) = "asking", TakenOf(c) < AsksOf(c),
           TakenOf(c)' = AsksOf(c), SamePhase(c), SameAsks(c), SameAnswer(c),
           NEW a \in {<< >>, << AsksOf(c) >>},
           UnreadOf(c)' = (IF keeps_output THEN UnreadOf(c) ELSE << >>) \o a
    PROVE  Abstract!Take(c)
  BY DEF Abstract!Take, OthersStay, SamePhase, SameAsks, SameAnswer

LEMMA MapsLose ==
    ASSUME NEW c \in Clients, OthersStay(c), UnreadOf(c) # << >>,
           UnreadOf(c)' \in {<< >>, Tail(UnreadOf(c))},
           SamePhase(c), SameAsks(c), SameTaken(c), SameAnswer(c)
    PROVE  Abstract!Lose(c)
  BY DEF Abstract!Lose, OthersStay, SamePhase, SameAsks, SameTaken, SameAnswer

LEMMA MapsReturn ==
    ASSUME NEW c \in Clients, OthersStay(c), PhaseOf(c) = "asking", PhaseOf(c)' = "open",
           TakenOf(c) = AsksOf(c), UnreadOf(c) # << >>,
           AnswerOf(c)' = Head(UnreadOf(c)), UnreadOf(c)' = Tail(UnreadOf(c)),
           SameAsks(c), SameTaken(c)
    PROVE  Abstract!Return(c)
  BY DEF Abstract!Return, Abstract!Moves, OthersStay, SameAsks, SameTaken

LEMMA MapsFail ==
    ASSUME NEW c \in Clients, OthersStay(c), AsksOf(c) > 1,
           PhaseOf(c) = "asking", PhaseOf(c)' = "open",
           SameAsks(c), SameTaken(c), SameUnread(c), SameAnswer(c)
    PROVE  Abstract!Fail(c)
  BY DEF Abstract!Fail, Abstract!Moves, OthersStay, SameAsks, SameTaken, SameUnread, SameAnswer

LEMMA MapsEnd ==
    ASSUME NEW c \in Clients, OthersStay(c), PhaseOf(c)' = "ended",
           PhaseOf(c) \in {"none", "open"} \/ (AsksOf(c) = 1 /\ PhaseOf(c) = "asking"),
           AsksOf(c)' = 0, TakenOf(c)' = 0, UnreadOf(c)' = << >>, AnswerOf(c)' = 0
    PROVE  Abstract!End(c)
  BY DEF Abstract!End, Abstract!Moves, OthersStay
-----------------------------------------------------------------------------
(* Refinement: the steps of a device *)

Step(c) == Connect(c) \/ Begins(c) \/ Continues(c) \/ Environment(c)

LEMMA StepTook ==
    ASSUME RInv, NEW c \in Clients, Step(c), NEW d \in Clients
    PROVE  TookInv(d)'
<1>1. KInv
  BY DEF RInv, DInv, KInv
<1>2. CASE Connect(c)
  <2>1. UNCHANGED <<clientVars, reply, instrumentVars>> /\ MayClose(c)
    BY <1>2 DEF Connect, Ends, MayClose
  <2>2. up'[d] => up[d]
    BY <2>1 DEF MayClose, RInv, DInv, TInv, TypeOK
  <2>3. QED
    BY <2>1, <2>2 DEF RInv, TookInv, WriteOk, clientVars, instrumentVars
<1>3. CASE Begins(c)
  <2>1. Begin(c)
    BY <1>3 DEF Begins, New, Identify, DeviceAsk, Drop, Begin
  <2>2. QED
    BY <1>1, <2>1, TookBegin
<1>4. CASE Continues(c)
  <2>1. MayClose(c) /\ (Finish(c) \/ CallFails(c))
    BY <1>4 DEF Continues, AskContinues, Linked, Identified, DeviceAsked, Dropped, AskEnds, Ends,
                MayClose, Finish
  <2>2. QED
    BY <1>1, <2>1, TookFinish
<1>5. CASE Environment(c)
  BY <1>1, <1>5, TookLose, TookExecute DEF Environment, Executes
<1>6. QED
  BY <1>2, <1>3, <1>4, <1>5 DEF Step

\* The other devices stay what they are, and so does the kind of instrument.
LEMMA StepOthers ==
    ASSUME RInv, NEW c \in Clients, Step(c)
    PROVE  OthersStay(c) /\ \A d \in Clients : d # c => SessionInv(d)'
<1>1. keeps_output' = keeps_output
  <2>1. CASE Connect(c)
    BY <2>1 DEF Connect, instrumentVars
  <2>2. CASE Begins(c)
    BY <2>2 DEF Begins, New, Identify, DeviceAsk, Drop, CreateLink, Ask, OnLink, DestroyLink,
                Send, Refuse, instrumentVars
  <2>3. CASE Continues(c)
    <3>1. Finish(c) \/ CallFails(c)
      BY <2>3 DEF Continues, AskContinues, Linked, Identified, DeviceAsked, Dropped, AskEnds, Finish
    <3>2. QED
      BY <3>1 DEF Finish, CallFails, CreateLinkReturns, WriteFails, WriteReturns, AskGoesOn,
           ReadReturns, ReadFails, DestroyLinkReturns, instrumentVars
  <2>4. CASE Environment(c)
    BY <2>4 DEF Environment, Executes, Lose, Release, Execute, ExecuteCreate, ExecuteWrite,
         ExecuteRead, ExecuteDestroy, instrumentVars
  <2>5. QED
    BY <2>1, <2>2, <2>3, <2>4 DEF Step
<1>2. \A d \in Clients : d # c => Keeps(d)
  BY OthersKeep DEF Step
<1>3. ASSUME NEW d \in Clients, d # c
      PROVE  /\ PhaseOf(d)' = PhaseOf(d) /\ AsksOf(d)' = AsksOf(d) /\ TakenOf(d)' = TakenOf(d)
             /\ UnreadOf(d)' = UnreadOf(d) /\ AnswerOf(d)' = AnswerOf(d)
  BY <1>2, <1>3, KeepsMapped
<1>4. ASSUME NEW d \in Clients, d # c PROVE SessionInv(d)'
  BY <1>2, <1>4, KeepsSession
<1>5. QED
  BY <1>1, <1>3, <1>4 DEF OthersStay

\* A device that is not in session has asked nothing of it.
LEMMA OutOfSession ==
    ASSUME NEW c \in Clients, ~InSession(c)'
    PROVE  AsksOf(c)' = 0 /\ TakenOf(c)' = 0 /\ UnreadOf(c)' = << >> /\ AnswerOf(c)' = 0
  BY DEF AsksOf, TakenOf, UnreadOf, AnswerOf

\* connect
LEMMA SessionConnect ==
    ASSUME RInv, NEW c \in Clients, Connect(c)
    PROVE  SessionInv(c)' /\ (Abstract!End(c) \/ UNCHANGED Abstract!vars)
<1>0. OthersStay(c)
  BY StepOthers DEF Step
<1>1. session[c] = "none" /\ session'[c] \in {"failed", "connected"}
      /\ UNCHANGED <<clientVars, reply, instrumentVars>>
  BY DEF Connect, Ends, Becomes, RInv, DInv, DeviceTypeOK
<1>2. SessionInv(c)'
  BY <1>1 DEF RInv, SessionInv, InSession, clientVars, instrumentVars
<1>3. ~InSession(c) /\ ~InSession(c)' /\ PhaseOf(c) = "none"
  BY <1>1 DEF InSession, PhaseOf
<1>4. /\ AsksOf(c)' = 0 /\ TakenOf(c)' = 0 /\ UnreadOf(c)' = << >> /\ AnswerOf(c)' = 0
      /\ AsksOf(c) = 0 /\ TakenOf(c) = 0 /\ UnreadOf(c) = << >> /\ AnswerOf(c) = 0
  BY <1>3, OutOfSession DEF AsksOf, TakenOf, UnreadOf, AnswerOf
<1>5. CASE session'[c] = "failed"
  <2>1. PhaseOf(c)' = "ended"
    BY <1>3, <1>5 DEF PhaseOf
  <2>2. QED
    BY <1>0, <1>2, <1>3, <1>4, <2>1, MapsEnd
<1>6. CASE session'[c] = "connected"
  <2>1. PhaseOf(c)' = "none"
    BY <1>6 DEF PhaseOf, InSession
  <2>2. QED
    BY <1>0, <1>2, <1>3, <1>4, <2>1, MapsStutter
       DEF SamePhase, SameAsks, SameTaken, SameUnread, SameAnswer
<1>7. QED
  BY <1>1, <1>5, <1>6

\* A call is sent: by new, or for an ask or the drop.
Sent(c, op, from, to) ==
    /\ session[c] = from /\ session'[c] = to
    /\ pc[c] = "idle" /\ pc'[c] = "waiting" /\ call'[c].op = op /\ ops'[c] = ops[c] + 1
    /\ got'[c] = NoData /\ reply[c] = NoReply
    /\ UNCHANGED <<opt_link, reply, owner, output, took>>

LEMMA SendsSent ==
    ASSUME DInv, NEW c \in Clients, NEW op, NEW link, NEW ask, NEW from, NEW to,
           Sends(c, op, link, ask, to), session[c] = from
    PROVE  Sent(c, op, from, to)
  BY DEF Sent, Sends, Send, DInv, TInv, TypeOK, DeviceTypeOK, CallInv, instrumentVars

LEMMA SessionBegins ==
    ASSUME RInv, NEW c \in Clients, Begins(c)
    PROVE  /\ SessionInv(c)'
           /\ Abstract!Ask(c) \/ Abstract!End(c) \/ UNCHANGED Abstract!vars
<1> USE DEF RInv, DInv
<1>0. OthersStay(c) /\ CallOf(c) /\ SessionInv(c) /\ TookInv(c) /\ ops[c] \in Nat
  BY StepOthers DEF Step, TInv, TypeOK
<1>1. \/ Sent(c, "create", "connected", "creating")
      \/ Sent(c, "write", "linked", "identifying")
      \/ Sent(c, "write", "open", "open")
      \/ Sent(c, "destroy", "open", "dropping")
  <2>1. CASE New(c)
    <3>1. session[c] = "connected" /\ Sends(c, "create", NoLink, FALSE, "creating")
      BY <1>0, <2>1 DEF New, CreateLink, CallOf, Becomes, Sends
    <3>2. QED
      BY <3>1, SendsSent
  <2>2. CASE Identify(c)
    <3>1. session[c] = "linked" /\ Sends(c, "write", opt_link[c], TRUE, "identifying")
      BY <1>0, <2>2 DEF Identify, Ask, OnLink, CallOf, Becomes, Sends
    <3>2. QED
      BY <3>1, SendsSent
  <2>3. CASE DeviceAsk(c)
    <3>1. session' = [session EXCEPT ![c] = "open"]
      BY <2>3 DEF DeviceAsk, DeviceTypeOK
    <3>2. session[c] = "open" /\ Sends(c, "write", opt_link[c], TRUE, "open")
      BY <1>0, <2>3, <3>1 DEF DeviceAsk, Ask, OnLink, CallOf, Sends
    <3>3. QED
      BY <3>2, SendsSent
  <2>4. CASE Drop(c)
    <3>1. session[c] = "open" /\ Sends(c, "destroy", opt_link[c], FALSE, "dropping")
      BY <1>0, <2>4 DEF Drop, DestroyLink, CallOf, Becomes, Sends
    <3>2. QED
      BY <3>1, SendsSent
  <2>5. QED
    BY <2>1, <2>2, <2>3, <2>4 DEF Begins
<1> DEFINE to == session'[c]
<1>2. /\ pc[c] = "idle" /\ pc'[c] = "waiting" /\ ops'[c] = ops[c] + 1
      /\ got'[c] = NoData /\ reply[c] = NoReply
      /\ UNCHANGED <<opt_link, reply, owner, output, took>>
      /\ to \in {"creating", "dropping", "identifying", "open"}
      /\ InSession(c)' => call'[c].op = "write"
  BY <1>1 DEF Sent, InSession
<1>3. SessionInv(c)'
  BY <1>0, <1>1 DEF Sent, SessionInv, InSession, Holds
<1>4. CASE to = "creating"
  <2>1. ~InSession(c) /\ ~InSession(c)' /\ PhaseOf(c) = "none" /\ PhaseOf(c)' = "none"
    BY <1>1, <1>2, <1>4 DEF Sent, InSession, PhaseOf
  <2>2. /\ AsksOf(c)' = AsksOf(c) /\ TakenOf(c)' = TakenOf(c) /\ UnreadOf(c)' = UnreadOf(c)
        /\ AnswerOf(c)' = AnswerOf(c)
    BY <2>1, OutOfSession DEF AsksOf, TakenOf, UnreadOf, AnswerOf
  <2>3. QED
    BY <1>0, <1>3, <2>1, <2>2, MapsStutter
       DEF SamePhase, SameAsks, SameTaken, SameUnread, SameAnswer
<1>5. CASE to = "dropping"
  <2>1. PhaseOf(c) = "open" /\ PhaseOf(c)' = "ended" /\ ~InSession(c)'
    BY <1>1, <1>2, <1>5 DEF Sent, InSession, PhaseOf
  <2>2. QED
    BY <1>0, <1>3, <2>1, OutOfSession, MapsEnd
<1>6. CASE to \in {"identifying", "open"}
  <2>1. session[c] \in {"linked", "open"} /\ InSession(c)'
        /\ (session[c] = "open" <=> InSession(c))
    BY <1>1, <1>2, <1>6 DEF Sent, InSession
  <2>2. PhaseOf(c) = (IF session[c] = "open" THEN "open" ELSE "none")
    BY <1>2, <2>1 DEF PhaseOf
  <2>3. PhaseOf(c)' = "asking"
    BY <1>2, <1>6, <2>1 DEF PhaseOf
  <2>4. AsksOf(c)' = AsksOf(c) + 1
    BY <1>0, <1>2, <2>1 DEF AsksOf, SessionInv
  <2>5. AnswerOf(c)' = 0
    BY <1>2 DEF AnswerOf
  <2>6. TakenOf(c)' = TakenOf(c)
    BY <1>0, <1>2, <2>1 DEF TakenOf, SessionInv
  <2>7. OnTheWay(c)' = << >> /\ OnTheWay(c) = << >>
    BY <1>2 DEF OnTheWay
  <2>8. Output(c)' = Output(c)
    BY <1>2 DEF Output
  <2>9. UnreadOf(c)' = UnreadOf(c)
    <3>1. CASE session[c] = "open"
      BY <2>1, <2>7, <2>8, <3>1 DEF UnreadOf, AskOf
    <3>2. CASE session[c] = "linked"
      <4>1. Output(c) = << >>
        BY <1>0, <3>2 DEF Output, SessionInv, Holds
      <4>2. << >> \o << >> = << >>
        OBVIOUS
      <4>3. UnreadOf(c)' = << >>
        <5>1. OnTheWay(c)' \o Output(c)' = << >>
          BY <2>7, <2>8, <4>1, <4>2
        <5>2. QED
          BY <5>1, AsksInOne DEF UnreadOf
      <4>4. UnreadOf(c) = << >>
        BY <2>1, <3>2 DEF UnreadOf
      <4>5. QED
        BY <4>3, <4>4
    <3>3. QED
      BY <2>1, <3>1, <3>2
  <2>10. QED
    BY <1>0, <1>3, <2>1, <2>2, <2>3, <2>4, <2>5, <2>6, <2>9, MapsAsk DEF SameTaken, SameUnread
<1>7. QED
  BY <1>2, <1>4, <1>5, <1>6
\* A call ends.
Over(c) ==
    /\ pc[c] = "waiting" /\ pc'[c] = "idle" /\ reply'[c] = NoReply
    /\ UNCHANGED <<call, ops, owner, output, took>>

LEMMA EndsOver ==
    ASSUME DInv, NEW c \in Clients, CreateLinkReturns(c) \/ AskEnds(c) \/ DestroyLinkReturns(c)
    PROVE  Over(c)
<1>1. pc[c] = "waiting" /\ UNCHANGED <<call, ops, owner, output, took>>
  BY DEF CreateLinkReturns, AskEnds, WriteFails, ReadReturns, ReadFails, CallFails,
         DestroyLinkReturns, Received, instrumentVars
<1>2. pc'[c] = "idle" /\ reply'[c] = NoReply
  BY DEF CreateLinkReturns, AskEnds, WriteFails, ReadReturns, ReadFails, CallFails,
         DestroyLinkReturns, Received, Return, DInv, TInv, TypeOK
<1>3. QED
  BY <1>1, <1>2 DEF Over

\* The session ends with a call: of new, or of the drop, when it has ended already.
LEMMA SessionEnds ==
    ASSUME RInv, NEW c \in Clients, OthersStay(c), Over(c), NEW s \in Ended, Becomes(c, s),
           session[c] \in {"creating", "identifying", "dropping"}
    PROVE  SessionInv(c)' /\ (Abstract!End(c) \/ UNCHANGED Abstract!vars)
<1>1. session'[c] \in Ended
  BY DEF Becomes, RInv, DInv, DeviceTypeOK
<1>2. ~InSession(c)' /\ PhaseOf(c)' = "ended"
  BY <1>1 DEF InSession, PhaseOf, Ended
<1>3. SessionInv(c)'
  BY <1>1, <1>2 DEF SessionInv, Ended
<1>4. CASE session[c] = "creating"
  <2>1. PhaseOf(c) = "none"
    BY <1>4 DEF PhaseOf, InSession
  <2>2. QED
    BY <1>2, <1>3, <2>1, OutOfSession, MapsEnd
<1>5. CASE session[c] = "identifying"
  <2>1. PhaseOf(c) = "asking"
    BY <1>5 DEF PhaseOf, InSession, Over
  <2>2. AsksOf(c) = 1
    BY <1>5 DEF AsksOf, InSession, RInv, SessionInv
  <2>3. QED
    BY <1>2, <1>3, <2>1, <2>2, OutOfSession, MapsEnd
<1>6. CASE session[c] = "dropping"
  <2>1. ~InSession(c) /\ PhaseOf(c) = "ended"
    BY <1>6 DEF PhaseOf, InSession
  <2>2. AsksOf(c) = 0 /\ TakenOf(c) = 0 /\ UnreadOf(c) = << >> /\ AnswerOf(c) = 0
    BY <2>1 DEF AsksOf, TakenOf, UnreadOf, AnswerOf
  <2>3. QED
    BY <1>2, <1>3, <2>1, <2>2, OutOfSession, MapsStutter
       DEF SamePhase, SameAsks, SameTaken, SameUnread, SameAnswer
<1>7. QED
  BY <1>4, <1>5, <1>6

\* An ask is over, and the device is in its caller's hands.
LEMMA SessionAsked ==
    ASSUME RInv, NEW c \in Clients, OthersStay(c), Over(c), AskEnds(c),
           session[c] \in {"identifying", "open"}, session'[c] = "open",
           session[c] = "identifying" => result'[c] = "ok"
    PROVE  SessionInv(c)' /\ (Abstract!Return(c) \/ Abstract!Fail(c))
<1> USE DEF RInv, DInv
<1>0. CallOf(c) /\ SessionInv(c) /\ TookInv(c) /\ ops[c] \in Nat /\ took[c] \in Seq(Nat)
  BY DEF TInv, TypeOK
<1>1. InSession(c) /\ InSession(c)' /\ PhaseOf(c) = "asking" /\ PhaseOf(c)' = "open"
  BY DEF Over, InSession, PhaseOf
<1>2. SessionInv(c)'
  BY <1>0 DEF Over, SessionInv, InSession
<1>3. SameAsks(c) /\ SameTaken(c)
  BY <1>1 DEF Over, SameAsks, SameTaken, AsksOf, TakenOf
<1>4. opt_link'[c] = opt_link[c]
  BY DEF AskEnds, WriteFails, ReadReturns, ReadFails, CallFails
<1>5. Output(c)' = Output(c) /\ OnTheWay(c)' = << >>
  BY <1>4 DEF Over, Output, OnTheWay
<1>6. Output(c) \in Seq(Piece)
  BY EmptySeq DEF Output, TInv, TypeOK
<1>7. << >> \o Output(c) = Output(c)
  BY <1>6
<1>8. UnreadOf(c)' = AsksIn(c, Output(c))
  <2>1. OnTheWay(c)' \o Output(c)' = Output(c)
    BY <1>5, <1>7
  <2>2. QED
    BY <1>1, <2>1 DEF UnreadOf
<1>9. CASE ReadReturns(c)
  <2> DEFINE p == reply[c].data
  <2>1. call[c].op = "read" /\ reply[c] # NoReply /\ ReadOk(reply[c]) /\ got'[c] = p
    BY <1>9 DEF ReadReturns, Received, TInv, TypeOK
  <2>2. p \in Piece /\ p # NoData
    BY <1>0, <1>1, <2>1, ReplyAssumption DEF SessionInv
  <2>3. OnTheWay(c) = << p >>
    BY <2>1 DEF OnTheWay
  <2>4. AnswerOf(c)' = AskOf(c, p)
    BY <1>1, <2>1, <2>2 DEF AnswerOf
  <2> HIDE DEF p
  <2>5. UnreadOf(c) = AsksIn(c, << p >> \o Output(c))
    BY <1>1, <2>3 DEF UnreadOf
  <2>8. AnswerOf(c)' = Head(UnreadOf(c)) /\ UnreadOf(c)' = Tail(UnreadOf(c)) /\ UnreadOf(c) # << >>
    BY <1>6, <1>8, <2>2, <2>4, <2>5, AsksInHead
  <2>9. TakenOf(c) = AsksOf(c)
    BY <1>0, <1>1, <2>1 DEF Over, SessionInv, TakenOf, AsksOf
  <2>10. QED
    BY <1>1, <1>2, <1>3, <2>8, <2>9, MapsReturn
<1>10. CASE ~ReadReturns(c)
  <2>1. got'[c] = got[c] /\ result'[c] # "ok"
    BY <1>10 DEF AskEnds, WriteFails, ReadFails, CallFails, Return, TInv, TypeOK
  <2>2. SameAnswer(c)
    BY <1>1, <2>1 DEF SameAnswer, AnswerOf, AskOf
  <2>3. OnTheWay(c) = << >>
    BY <1>10 DEF AskEnds, WriteFails, ReadFails, CallFails, Received, OnTheWay
  <2>4. SameUnread(c)
    <3>1. OnTheWay(c) \o Output(c) = Output(c)
      BY <1>7, <2>3
    <3>2. UnreadOf(c) = AsksIn(c, Output(c))
      BY <1>1, <3>1 DEF UnreadOf
    <3>3. QED
      BY <1>8, <3>2 DEF SameUnread
  <2>5. AsksOf(c) > 1
    BY <1>0, <1>1, <2>1 DEF AsksOf, SessionInv, Over
  <2>6. QED
    BY <1>1, <1>2, <1>3, <2>2, <2>4, <2>5, MapsFail
<1>11. QED
  BY <1>9, <1>10

LEMMA SessionContinues ==
    ASSUME RInv, NEW c \in Clients, Continues(c)
    PROVE  /\ SessionInv(c)'
           /\ Abstract!Return(c) \/ Abstract!Fail(c) \/ Abstract!End(c) \/ UNCHANGED Abstract!vars
<1> USE DEF RInv, DInv
<1>0. OthersStay(c) /\ CallOf(c) /\ SessionInv(c) /\ TookInv(c)
  BY StepOthers DEF Step
<1>1. CASE AskContinues(c)
  <2>1. /\ pc[c] = "waiting" /\ call[c].op = "write" /\ asking[c]
        /\ reply[c] # NoReply /\ WriteOk(reply[c])
        /\ UNCHANGED <<opt_link, pc, got, ops, owner, output, took, session>>
    BY <1>1 DEF AskContinues, AskGoesOn, Received, instrumentVars
  <2>2. call'[c].op = "read" /\ reply'[c] = NoReply
    BY <1>1 DEF AskContinues, AskGoesOn, Received, TInv, TypeOK, Call
  <2>3. took[c] # << >> /\ took[c][Len(took[c])] = ops[c]
    BY <1>0, <2>1 DEF TookInv
  <2>4. session[c] \in {"identifying", "open"}
    BY <1>0, <2>1 DEF CallOf, DeviceTypeOK, Ended
  <2>5. SessionInv(c)'
    BY <1>0, <2>1, <2>2, <2>3, <2>4 DEF SessionInv, InSession
  <2>6. OnTheWay(c) = << >> /\ OnTheWay(c)' = << >> /\ Output(c)' = Output(c) /\ InSession(c)' = InSession(c)
    BY <2>1, <2>2 DEF OnTheWay, Output, InSession
  <2>7. SameUnread(c)
    BY <2>6 DEF SameUnread, UnreadOf, AskOf
  <2>8. SamePhase(c) /\ SameAsks(c) /\ SameTaken(c) /\ SameAnswer(c)
    BY <2>1, <2>6 DEF SamePhase, SameAsks, SameTaken, SameAnswer, PhaseOf, AsksOf, TakenOf, AnswerOf, AskOf
  <2>9. QED
    BY <1>0, <2>5, <2>7, <2>8, MapsStutter
<1>2. CASE Linked(c)
  <2>1. Over(c) /\ session[c] = "creating"
    BY <1>2, EndsOver DEF Linked, AskEnds
  <2>2. CASE \E s \in Ended : Becomes(c, s)
    BY <1>0, <2>1, <2>2, SessionEnds
  <2>3. CASE result'[c] = "ok" /\ Becomes(c, "linked")
    <3>1. session'[c] = "linked"
      BY <2>3 DEF Becomes, DeviceTypeOK
    <3>2. CreateLinkReturns(c)
      BY <1>2, <2>1, <2>3 DEF Linked, CallFails, Return, TInv, TypeOK
    <3>3. reply[c] # NoReply /\ reply[c].error = 0 /\ opt_link'[c] = reply[c].link
      BY <2>3, <3>2 DEF CreateLinkReturns, Received, Return, TInv, TypeOK
    <3>4. SessionInv(c)'
      BY <1>0, <2>1, <3>1, <3>3 DEF SessionInv, Holds, InSession, Over
    <3>5. ~InSession(c) /\ ~InSession(c)' /\ PhaseOf(c) = "none" /\ PhaseOf(c)' = "none"
      BY <2>1, <3>1 DEF InSession, PhaseOf
    <3>6. AsksOf(c) = 0 /\ TakenOf(c) = 0 /\ UnreadOf(c) = << >> /\ AnswerOf(c) = 0
      BY <3>5 DEF AsksOf, TakenOf, UnreadOf, AnswerOf
    <3>7. QED
      BY <1>0, <3>4, <3>5, <3>6, OutOfSession, MapsStutter
         DEF SamePhase, SameAsks, SameTaken, SameUnread, SameAnswer
  <2>4. QED
    BY <1>2, <2>2, <2>3 DEF Linked, Ends, Ended
<1>3. CASE Identified(c)
  <2>1. Over(c) /\ session[c] = "identifying" /\ AskEnds(c)
    BY <1>3, EndsOver DEF Identified
  <2>2. CASE \E s \in Ended : Becomes(c, s)
    BY <1>0, <2>1, <2>2, SessionEnds
  <2>3. CASE result'[c] = "ok" /\ Becomes(c, "open")
    <3>1. session'[c] = "open"
      BY <2>3 DEF Becomes, DeviceTypeOK
    <3>2. QED
      BY <1>0, <2>1, <2>3, <3>1, SessionAsked
  <2>4. QED
    BY <1>3, <2>2, <2>3 DEF Identified, Ends, Ended
<1>4. CASE DeviceAsked(c)
  <2>1. Over(c) /\ session[c] = "open" /\ session'[c] = "open" /\ AskEnds(c)
    BY <1>4, EndsOver DEF DeviceAsked
  <2>2. QED
    BY <1>0, <2>1, SessionAsked
<1>5. CASE Dropped(c)
  <2>1. Over(c) /\ session[c] = "dropping"
    BY <1>5, EndsOver DEF Dropped, AskEnds
  <2>2. \E s \in Ended : Becomes(c, s)
    BY <1>5 DEF Dropped, Ends, Ended
  <2>3. QED
    BY <1>0, <2>1, <2>2, SessionEnds
<1>6. QED
  BY <1>1, <1>2, <1>3, <1>4, <1>5 DEF Continues
\* A step that changes nothing of a device but what the instrument has for it, or has
\* sent it.
LEMMA SessionUnread ==
    ASSUME NEW c \in Clients, OthersStay(c), UNCHANGED <<clientVars, took, session>>,
           SameUnread(c) \/ (UnreadOf(c) # << >> /\ UnreadOf(c)' \in {<< >>, Tail(UnreadOf(c))})
    PROVE  Abstract!Lose(c) \/ UNCHANGED Abstract!vars
<1>1. InSession(c)' = InSession(c)
  BY DEF InSession
<1>2. SamePhase(c) /\ SameAsks(c) /\ SameTaken(c) /\ SameAnswer(c)
  BY <1>1 DEF clientVars, SamePhase, SameAsks, SameTaken, SameAnswer, PhaseOf, AsksOf, TakenOf,
              AnswerOf, AskOf
<1>3. QED
  BY <1>2, MapsStutter, MapsLose

\* The connection is lost, or the instrument notices that it is.
LEMMA SessionLoses ==
    ASSUME RInv, NEW c \in Clients, Environment(c), Lose(c) \/ Release(c)
    PROVE  SessionInv(c)' /\ (Abstract!Lose(c) \/ UNCHANGED Abstract!vars)
<1> USE DEF RInv, DInv
<1>0. OthersStay(c) /\ SessionInv(c) /\ CallInv(c)
  BY StepOthers DEF Step, TInv
<1>1. UNCHANGED <<clientVars, took, session, output>>
  BY DEF Environment, Lose, Release, instrumentVars
<1>2. Output(c) \in Seq(Piece)
  BY EmptySeq DEF Output, TInv, TypeOK
<1>3. << >> \o Output(c) = Output(c)
  BY <1>2
<1>4. InSession(c)' = InSession(c)
  BY <1>1 DEF InSession
<1>5. CASE Lose(c)
  <2>1. reply'[c] = NoReply /\ owner' = owner
    BY <1>5 DEF Lose, instrumentVars, TInv, TypeOK
  <2>2. SessionInv(c)'
    BY <1>0, <1>1, <2>1 DEF SessionInv, InSession, Holds, clientVars
  <2>3. OnTheWay(c)' = << >> /\ Output(c)' = Output(c)
    BY <1>1, <2>1 DEF OnTheWay, Output, clientVars
  <2>4. OnTheWay(c)' \o Output(c)' = Output(c)
    BY <1>3, <2>3
  <2>5. CASE ~InSession(c)
    <3>1. SameUnread(c)
      BY <1>4, <2>5 DEF SameUnread, UnreadOf
    <3>2. QED
      BY <1>0, <1>1, <2>2, <3>1, SessionUnread
  <2>6. CASE InSession(c) /\ OnTheWay(c) = << >>
    <3>1. OnTheWay(c) \o Output(c) = Output(c)
      BY <1>3, <2>6
    <3>2. UnreadOf(c)' = AsksIn(c, Output(c))
      BY <1>4, <2>4, <2>6 DEF UnreadOf
    <3>3. UnreadOf(c) = AsksIn(c, Output(c))
      BY <2>6, <3>1 DEF UnreadOf
    <3>4. QED
      BY <1>0, <1>1, <2>2, <3>2, <3>3, SessionUnread DEF SameUnread
  <2>7. CASE InSession(c) /\ OnTheWay(c) # << >>
    <3>1. OnTheWay(c) = << reply[c].data >> /\ reply[c].data \in Piece
      BY <1>0, <2>7 DEF OnTheWay, SessionInv
    <3>2. UnreadOf(c)' = AsksIn(c, Output(c))
      BY <1>4, <2>4, <2>7 DEF UnreadOf
    <3>3. UnreadOf(c) = AsksIn(c, << reply[c].data >> \o Output(c))
      BY <2>7, <3>1 DEF UnreadOf
    <3>4. UnreadOf(c) # << >> /\ UnreadOf(c)' = Tail(UnreadOf(c))
      BY <1>2, <3>1, <3>2, <3>3, AsksInHead
    <3>5. QED
      BY <1>0, <1>1, <2>2, <3>4, SessionUnread
  <2>8. QED
    BY <2>5, <2>6, <2>7
<1>6. CASE Release(c)
  <2>1. /\ reply' = reply /\ ~up[c]
        /\ \A l \in LinkIds : owner'[l] # c
    BY <1>6, ConstantsAssumption DEF Release, Freed, ConstantsAssumption
  <2>2. reply[c] = NoReply
    BY <1>0, <2>1 DEF CallInv
  <2>3. SessionInv(c)'
    BY <1>0, <1>1, <2>1, <2>2 DEF SessionInv, InSession, Holds, clientVars
  <2>4. OnTheWay(c)' = << >> /\ Output(c)' = << >>
    BY <2>1, <2>2 DEF OnTheWay, Output
  <2>5. << >> \o << >> = << >>
    OBVIOUS
  <2>6. OnTheWay(c)' \o Output(c)' = << >>
    BY <2>4, <2>5
  <2>7. UnreadOf(c)' = << >>
    BY <2>6, AsksInOne DEF UnreadOf
  <2>8. SameUnread(c) \/ UnreadOf(c) # << >>
    BY <2>7 DEF SameUnread
  <2>9. QED
    BY <1>0, <1>1, <2>3, <2>7, <2>8, SessionUnread
<1>7. QED
  BY <1>5, <1>6

\* The instrument takes a command, or says it has not.
LEMMA SessionWrite ==
    ASSUME RInv, NEW c \in Clients, Environment(c), ExecuteWrite(c)
    PROVE  SessionInv(c)' /\ (Abstract!Take(c) \/ UNCHANGED Abstract!vars)
<1> USE DEF RInv, DInv
<1>0. /\ OthersStay(c) /\ SessionInv(c) /\ CallInv(c) /\ CallOf(c) /\ HoldsInv(c) /\ TookInv(c)
      /\ ops[c] \in Nat /\ took[c] \in Seq(Nat) /\ call[c] \in Call
  BY StepOthers DEF Step, TInv, TypeOK
<1>1. /\ UNCHANGED <<clientVars, session, owner>>
      /\ up[c] /\ pc[c] = "waiting" /\ call[c].op = "write" /\ reply[c] = NoReply
  BY DEF Environment, ExecuteWrite, Arrived
<1>2. InSession(c) /\ InSession(c)' /\ PhaseOf(c) = "asking" /\ SamePhase(c) /\ SameAsks(c) /\ SameAnswer(c)
  <2>1. session[c] \in {"identifying", "open"}
    BY <1>0, <1>1 DEF CallOf, DeviceTypeOK, Ended
  <2>2. InSession(c) /\ InSession(c)'
    BY <1>1, <2>1 DEF InSession
  <2>3. PhaseOf(c) = "asking"
    BY <1>1, <2>2 DEF PhaseOf, InSession
  <2>4. SamePhase(c) /\ SameAsks(c) /\ SameAnswer(c)
    BY <1>1, <2>2 DEF SamePhase, SameAsks, SameAnswer, PhaseOf, AsksOf, AnswerOf, AskOf, clientVars, InSession
  <2>5. QED
    BY <2>2, <2>3, <2>4
<1> DEFINE l == call[c].link
<1>3. /\ l \in LinkIds /\ owner[l] = c /\ opt_link[c] = l /\ Live(l)
      /\ call[c].n = ops[c] /\ ops[c] >= 2
  BY <1>0, <1>1, <1>2 DEF CallInv, HoldsInv, Holds, InSession, Live, SessionInv
<1>4. Output(c) = output[l] /\ Output(c)' = output'[l]
  BY <1>1, <1>3 DEF Output, clientVars
<1>5. OnTheWay(c) = << >> /\ OnTheWay(c)' = << >>
  BY <1>1 DEF OnTheWay, clientVars
<1>6. output[l] \in Seq(Piece)
  BY <1>3 DEF TInv, TypeOK
<1>7. SessionInv(c)'
  <2>1. session[c] \in {"identifying", "open"}
    BY <1>2 DEF InSession
  <2>2. QED
    BY <1>0, <1>1, <2>1 DEF SessionInv, InSession, clientVars
<1>8. CASE UNCHANGED <<output, took>>
  <2>1. SameUnread(c)
    BY <1>2, <1>4, <1>5, <1>8 DEF SameUnread, UnreadOf, AskOf
  <2>2. SameTaken(c)
    BY <1>2, <1>8 DEF SameTaken, TakenOf
  <2>3. QED
    BY <1>0, <1>2, <1>7, <2>1, <2>2, MapsStutter
<1>9. CASE /\ took' = [took EXCEPT ![c] = Append(@, call[c].n)]
           /\ \E a \in AnswersTo(c) :
                 output' = [output EXCEPT ![l] = IF keeps_output THEN @ \o a ELSE a]
  <2>1. took'[c] = Append(took[c], ops[c])
    BY <1>3, <1>9 DEF TInv, TypeOK
  <2>2. took'[c] # << >> /\ took'[c][Len(took'[c])] = ops[c]
    BY <1>0, <2>1
  <2>3. TakenOf(c)' = AsksOf(c)
    BY <1>1, <1>2, <2>2 DEF TakenOf, AsksOf
  <2>4. TakenOf(c) < AsksOf(c)
    <3>1. CASE took[c] = << >>
      BY <1>0, <1>2, <1>3, <3>1 DEF TakenOf, AsksOf
    <3>2. CASE took[c] # << >>
      <4>1. Len(took[c]) \in DOMAIN took[c] /\ took[c][Len(took[c])] \in Nat
        BY <1>0, <3>2
      <4>2. took[c][Len(took[c])] < ops[c]
        BY <1>0, <1>1, <4>1 DEF TookInv
      <4>3. QED
        BY <1>0, <1>2, <3>2, <4>1, <4>2 DEF TakenOf, AsksOf
    <3>3. QED
      BY <3>1, <3>2
  <2>5. PICK a \in AnswersTo(c) : output'[l] = IF keeps_output THEN output[l] \o a ELSE a
    BY <1>3, <1>9 DEF TInv, TypeOK
  <2>6. a = << >> \/ (a = << Head(a) >> /\ Head(a) \in Piece /\ AskOf(c, Head(a)) = AsksOf(c))
    BY <1>0, <1>2, <1>3, AnswerShape DEF AskOf, AsksOf
  <2> DEFINE kept == IF keeps_output THEN output[l] ELSE << >>
  <2>7. kept \in Seq(Piece)
    BY <1>6, EmptySeq
  <2>8. kept \o a = output'[l]
    BY <1>0, <2>5, AnswerType
  <2>9. UnreadOf(c)' = AsksIn(c, kept) \o AsksIn(c, a)
    <3>1. UnreadOf(c)' = AsksIn(c, << >> \o output'[l])
      BY <1>2, <1>4, <1>5 DEF UnreadOf
    <3>2. << >> \o output'[l] = kept \o a
      BY <1>0, <2>7, <2>8, AnswerType
    <3>3. QED
      BY <1>0, <2>7, <3>1, <3>2, AnswerType, AsksInConcat
  <2>11. AsksIn(c, kept) = IF keeps_output THEN UnreadOf(c) ELSE << >>
    <3>1. UnreadOf(c) = AsksIn(c, << >> \o output[l])
      BY <1>2, <1>4, <1>5 DEF UnreadOf
    <3>2. << >> \o output[l] = output[l]
      BY <1>6
    <3>3. QED
      BY <3>1, <3>2, AsksInOne
  <2>12. AsksIn(c, a) \in {<< >>, << AsksOf(c) >>}
    BY <2>6, AsksInOne
  <2>13. QED
    BY <1>0, <1>2, <1>7, <2>3, <2>4, <2>9, <2>11, <2>12, MapsTake
<1>10. QED
  BY <1>3, <1>8, <1>9 DEF ExecuteWrite
\* A step that leaves the answers of a device unread, on the instrument or on their way.
LEMMA SessionStays ==
    ASSUME NEW c \in Clients, OthersStay(c), UNCHANGED <<clientVars, took, session>>,
           ~InSession(c) \/ AsksIn(c, OnTheWay(c) \o Output(c))' = AsksIn(c, OnTheWay(c) \o Output(c))
    PROVE  UNCHANGED Abstract!vars
<1>1. InSession(c)' = InSession(c)
  BY DEF InSession
<1>2. SamePhase(c) /\ SameAsks(c) /\ SameTaken(c) /\ SameAnswer(c)
  BY <1>1 DEF clientVars, SamePhase, SameAsks, SameTaken, SameAnswer, PhaseOf, AsksOf, TakenOf,
              AnswerOf, AskOf
<1>3. SameUnread(c)
  BY <1>1 DEF SameUnread, UnreadOf
<1>4. QED
  BY <1>2, <1>3, MapsStutter

\* The instrument sends a piece of the oldest answer, or says that it has none.
LEMMA SessionRead ==
    ASSUME RInv, NEW c \in Clients, Environment(c), ExecuteRead(c)
    PROVE  SessionInv(c)' /\ UNCHANGED Abstract!vars
<1> USE DEF RInv, DInv
<1>0. /\ OthersStay(c) /\ SessionInv(c) /\ CallInv(c) /\ CallOf(c) /\ HoldsInv(c)
  BY StepOthers DEF Step, TInv
<1>1. /\ UNCHANGED <<clientVars, session, owner, took>>
      /\ up[c] /\ pc[c] = "waiting" /\ call[c].op = "read" /\ reply[c] = NoReply
  BY DEF Environment, ExecuteRead, Arrived
<1>2. session[c] \in {"identifying", "open"} /\ InSession(c)
  BY <1>0, <1>1 DEF CallOf, DeviceTypeOK, Ended, InSession
<1> DEFINE l == call[c].link
           p == Head(output[l])
           T == Tail(output[l])
<1>3. l \in LinkIds /\ owner[l] = c /\ opt_link[c] = l /\ Live(l)
  BY <1>0, <1>1, <1>2 DEF CallInv, HoldsInv, Holds, Live
<1>4. Output(c) = output[l] /\ Output(c)' = output'[l] /\ OnTheWay(c) = << >>
  BY <1>1, <1>3 DEF Output, OnTheWay, clientVars
<1>5. output[l] \in Seq(Piece)
  BY <1>3 DEF TInv, TypeOK
<1>6. << >> \o output[l] = output[l]
  BY <1>5
<1>7. AsksIn(c, OnTheWay(c) \o Output(c)) = AsksIn(c, output[l])
  BY <1>4, <1>6
<1>8. OnTheWay(c)' = IF reply'[c] # NoReply /\ ReadOk(reply'[c]) THEN << reply'[c].data >> ELSE << >>
  BY <1>1 DEF OnTheWay, ReadOk, clientVars
\* What comes of it: the answers unread stay the same, and a last piece is a piece.
<1> DEFINE Kept == AsksIn(c, OnTheWay(c) \o Output(c))' = AsksIn(c, output[l])
           Sound == (reply'[c] # NoReply /\ ReadOk(reply'[c])) => reply'[c].data \in Piece
<1>9. Kept /\ Sound
  <2>1. CASE output[l] = << >>
    <3>1. reply'[c].error = 15 /\ output' = output
      BY <1>3, <2>1 DEF ExecuteRead, Reply1, TInv, TypeOK
    <3>2. OnTheWay(c)' = << >> /\ Sound
      BY <1>8, <3>1 DEF ReadOk
    <3>3. (OnTheWay(c) \o Output(c))' = output[l]
      BY <1>4, <1>6, <3>1, <3>2
    <3>4. QED
      BY <3>2, <3>3
  <2>2. CASE output[l] # << >>
    <3> DEFINE r == [error |-> 0, reason |-> IF p.last THEN 4 ELSE 0, data |-> p]
    <3>1. p \in Piece /\ T \in Seq(Piece) /\ output[l] = << p >> \o T
      BY <1>5, <2>2
    <3>2. r # NoReply
      BY <3>1, ReplyAssumption DEF Reply
    <3>3. Reply1(c, r)
      BY <1>3, <2>2 DEF ExecuteRead
    <3>4. reply'[c] = r
      BY <3>3 DEF Reply1, TInv, TypeOK
    <3>5. PICK rest \in After(p) : output' = [output EXCEPT ![l] = rest \o T]
      BY <1>3, <2>2 DEF ExecuteRead
    <3>6. output'[l] = rest \o T
      BY <1>3, <3>5 DEF TInv, TypeOK
    <3>7. CASE p.last
      <4>1. ReadOk(reply'[c]) /\ reply'[c].data = p /\ reply'[c] # NoReply
        BY <3>2, <3>4, <3>7 DEF ReadOk
      <4>2. OnTheWay(c)' = << p >>
        BY <1>8, <4>1
      <4>3. Output(c)' = T
        <5>1. rest = << >>
          BY <3>1, <3>7, AfterShape
        <5>2. << >> \o T = T
          BY <3>1
        <5>3. QED
          BY <1>4, <3>6, <5>1, <5>2
      <4> HIDE DEF p, T
      <4>4. (OnTheWay(c) \o Output(c))' = output[l]
        BY <3>1, <4>2, <4>3
      <4>5. QED
        BY <3>1, <4>1, <4>4
    <3>8. CASE ~p.last
      <4>1. ~ReadOk(reply'[c])
        BY <3>4, <3>8 DEF ReadOk
      <4>2. OnTheWay(c)' = << >>
        BY <1>8, <4>1
      <4>3. /\ rest \in Seq(Piece) /\ Len(rest) = 1
            /\ rest[1] \in Piece /\ rest[1].client = p.client /\ rest[1].n = p.n
        BY <3>1, <3>8, AfterShape
      <4> DEFINE q == rest[1]
      <4>4. rest = << q >> /\ q \in Piece /\ AskOf(c, q) = AskOf(c, p)
        BY <4>3 DEF AskOf
      <4> HIDE DEF p, q, T
      <4>5. Output(c)' = << q >> \o T
        BY <1>4, <3>6, <4>4
      <4>6. << q >> \in Seq(Piece) /\ << p >> \in Seq(Piece)
        BY <3>1, <4>4
      <4>7. << >> \o (<< q >> \o T) = << q >> \o T
        BY <3>1, <4>6
      <4>8. (OnTheWay(c) \o Output(c))' = << q >> \o T
        BY <4>2, <4>5, <4>7
      <4>9. AsksIn(c, << q >> \o T) = AsksIn(c, << q >>) \o AsksIn(c, T)
        BY <3>1, <4>6, AsksInConcat
      <4>10. AsksIn(c, << p >> \o T) = AsksIn(c, << p >>) \o AsksIn(c, T)
        BY <3>1, <4>6, AsksInConcat
      <4>11. AsksIn(c, << q >>) = AsksIn(c, << p >>)
        BY <4>4, AsksInOne
      <4>12. QED
        BY <3>1, <4>1, <4>8, <4>9, <4>10, <4>11
    <3>9. QED
      BY <3>7, <3>8
  <2>3. QED
    BY <2>1, <2>2
<1>10. SessionInv(c)'
  BY <1>0, <1>1, <1>2, <1>9 DEF SessionInv, InSession, clientVars
<1>11. UNCHANGED Abstract!vars
  BY <1>0, <1>1, <1>7, <1>9, SessionStays
<1>12. QED
  BY <1>10, <1>11

\* Links are created before the session, and destroyed after it.
LEMMA SessionLinks ==
    ASSUME RInv, NEW c \in Clients, Environment(c), ExecuteCreate(c) \/ ExecuteDestroy(c)
    PROVE  SessionInv(c)' /\ UNCHANGED Abstract!vars
<1> USE DEF RInv, DInv
<1>0. /\ OthersStay(c) /\ SessionInv(c) /\ CallInv(c) /\ CallOf(c) /\ HoldsInv(c)
  BY StepOthers DEF Step, TInv
<1>1. /\ UNCHANGED <<clientVars, session, took>> /\ pc[c] = "waiting" /\ reply[c] = NoReply
  BY DEF Environment, ExecuteCreate, ExecuteDestroy, Arrived
<1>2. session[c] \in {"creating", "dropping"} /\ ~InSession(c)
      /\ (session[c] = "creating" => ExecuteCreate(c))
  BY <1>0, <1>1 DEF ExecuteCreate, ExecuteDestroy, Arrived, CallOf, DeviceTypeOK, Ended, InSession
<1>3. UNCHANGED Abstract!vars
  BY <1>0, <1>1, <1>2, SessionStays
<1>4. CASE session[c] = "dropping"
  BY <1>0, <1>1, <1>3, <1>4 DEF SessionInv, InSession, clientVars
<1>5. CASE session[c] = "creating"
  <2>1. (reply'[c] # NoReply /\ reply'[c].error = 0) => output'[reply'[c].link] = << >>
    BY <1>2, <1>5 DEF ExecuteCreate, Reply1, TInv, TypeOK
  <2>2. SessionInv(c)'
    BY <1>0, <1>1, <1>5, <2>1 DEF SessionInv, InSession, clientVars
  <2>3. QED
    BY <1>3, <2>2
<1>6. QED
  BY <1>2, <1>4, <1>5
\* Every step of a device is one of its session, or changes nothing of it.
LEMMA SessionStep ==
    ASSUME RInv, [DeviceNext]_deviceVars
    PROVE  RInv' /\ [Abstract!Next]_(Abstract!vars)
<1>0. DInv'
  BY DeviceStep DEF RInv
<1>1. CASE DeviceNext
  <2> PICK c \in Clients : Step(c)
    BY <1>1 DEF DeviceNext, Step
  <2>1. SessionInv(c)' /\ [Abstract!Next]_(Abstract!vars)
    <3>1. CASE Connect(c)
      BY <3>1, SessionConnect DEF Abstract!Next
    <3>2. CASE Begins(c)
      BY <3>2, SessionBegins DEF Abstract!Next
    <3>3. CASE Continues(c)
      BY <3>3, SessionContinues DEF Abstract!Next
    <3>4. CASE Environment(c)
      <4>1. CASE Lose(c) \/ Release(c)
        BY <3>4, <4>1, SessionLoses DEF Abstract!Next
      <4>2. CASE ExecuteWrite(c)
        BY <3>4, <4>2, SessionWrite DEF Abstract!Next
      <4>3. CASE ExecuteRead(c)
        BY <3>4, <4>3, SessionRead
      <4>4. CASE ExecuteCreate(c) \/ ExecuteDestroy(c)
        BY <3>4, <4>4, SessionLinks
      <4>5. QED
        BY <3>4, <4>1, <4>2, <4>3, <4>4 DEF Environment, Executes, Execute
    <3>5. QED
      BY <3>1, <3>2, <3>3, <3>4 DEF Step
  <2>2. \A d \in Clients : SessionInv(d)' /\ TookInv(d)'
    BY <2>1, StepOthers, StepTook
  <2>3. QED
    BY <1>0, <2>1, <2>2 DEF RInv
<1>2. CASE UNCHANGED deviceVars
  <2>1. UNCHANGED <<vars, session>>
    BY <1>2 DEF deviceVars
  <2>2. \A d \in Clients : SessionInv(d)' /\ TookInv(d)'
    BY <2>1 DEF RInv, SessionInv, TookInv, InSession, Holds, vars, clientVars, instrumentVars
  <2>3. RInv'
    BY <1>0, <2>2 DEF RInv
  <2>4. ASSUME NEW d \in Clients PROVE Keeps(d)
    BY <2>1 DEF Keeps, vars, clientVars, instrumentVars
  <2>5. ASSUME NEW d \in Clients
        PROVE  /\ PhaseOf(d)' = PhaseOf(d) /\ AsksOf(d)' = AsksOf(d) /\ TakenOf(d)' = TakenOf(d)
               /\ UnreadOf(d)' = UnreadOf(d) /\ AnswerOf(d)' = AnswerOf(d)
    BY <2>4, KeepsMapped
  <2>6. keeps_output' = keeps_output
    BY <2>1 DEF vars, instrumentVars
  <2>7. UNCHANGED Abstract!vars
    BY <2>5, <2>6 DEF Abstract!vars
  <2>8. QED
    BY <2>3, <2>7
<1>3. QED
  BY <1>1, <1>2

LEMMA SessionStarts == DeviceInit => Abstract!Init
<1> SUFFICES ASSUME DeviceInit PROVE Abstract!Init
  OBVIOUS
<1>1. keeps_output \in BOOLEAN
  BY ConstantsAssumption DEF ConstantsAssumption, DeviceInit, Init
<1>2. ASSUME NEW c \in Clients
      PROVE  /\ PhaseOf(c) = "none" /\ AsksOf(c) = 0 /\ TakenOf(c) = 0
             /\ UnreadOf(c) = << >> /\ AnswerOf(c) = 0
  <2>1. session[c] = "none" /\ ~InSession(c)
    BY DEF DeviceInit, InSession
  <2>2. PhaseOf(c) = "none"
    BY <2>1 DEF PhaseOf
  <2>3. QED
    BY <2>1, <2>2 DEF AsksOf, TakenOf, UnreadOf, AnswerOf
<1>3. QED
  BY <1>1, <1>2 DEF Abstract!Init

\* Every device is a session: whatever its calls, losses of its connection and the other
\* devices do, each ask is taken at most once, and returns the oldest answer that was
\* given to this device and not read, or fails.
THEOREM DeviceIsSession == DeviceSpec => ImplementsSession
<1>1. DeviceInit => RInv /\ Abstract!Init
  BY SessionInit, SessionStarts
<1>2. RInv /\ [DeviceNext]_deviceVars => RInv' /\ [Abstract!Next]_(Abstract!vars)
  BY SessionStep
<1>3. QED
  BY <1>1, <1>2, PTL DEF DeviceSpec, ImplementsSession, Abstract!Spec
=============================================================================
