----------------------------- MODULE CoreClient -----------------------------
(***************************************************************************)
(* The VXI-11 core channel: clients, each with a connection and at most    *)
(* one link of its own, and the instrument they share.                     *)
(*                                                                         *)
(* A client is one thread and makes one remote call at a time.  The calls  *)
(* go through TcpClient::do_call, of which RpcCall says what it promises:  *)
(* Ok comes with the answer to this call, Err may hide an execution.  Here *)
(* the server repeats no reply, so Err hides one only when the connection  *)
(* is lost (TcpClient: ErrMeansNotExecuted).  What interleaves is the      *)
(* clients' calls at the instrument, and losses of their connections.      *)
(*                                                                         *)
(* The instrument is external.  It hands out link ids and takes them back, *)
(* keeps an output queue for each link, takes a written command as a whole *)
(* or not at all, and may hand its answer out in pieces.                   *)
(***************************************************************************)
EXTENDS Naturals, Sequences, FiniteSets

CONSTANTS
    Clients,
    LinkIds,         \* the ids the instrument gives to links
    ErrorLinks,      \* the ids in a create_link reply that says error
    KeepsOutput,     \* the instruments: whether unread output survives a command
    RecyclesLinks,   \* TRUE: the id of a link that is gone may come back
    NoLink,          \* opt_link = None
    Gone,            \* the owner of a link id that does not come back
    NoReply,
    NoData,
    MaxOps           \* bound on the operations of each client

ASSUME ConstantsAssumption ==
    /\ NoLink \notin LinkIds \cup ErrorLinks
    /\ {NoLink, Gone} \cap Clients = {} /\ NoLink # Gone
    /\ KeepsOutput \subseteq BOOLEAN
    /\ RecyclesLinks \in BOOLEAN
    /\ MaxOps \in [Clients -> Nat]

VARIABLES
    opt_link,   \* CoreClient.opt_link of each client
    pc,         \* idle, or waiting in do_call
    call,       \* the remote call being made
    asking,     \* TRUE inside ask, which is a write and then a read
    result,     \* what the last operation returned
    got,        \* the data the last read returned
    ops,        \* how many operations each client has begun
    up,         \* the connection is there
    reply,      \* the reply on its way to the client
    owner,      \* the client for which the instrument created a link
    output,     \* what it has to say on each link: of each answer, the next piece
    keeps_output, \* which kind of instrument it is
    took        \* history: the commands it took from each client, by number

clientVars == <<opt_link, pc, call, asking, result, got, ops>>
instrumentVars == <<owner, output, keeps_output, took>>
vars == <<clientVars, up, reply, instrumentVars>>

Ids == LinkIds \cup ErrorLinks

\* A piece of the answer to command n of client c; the last one has END set.
Piece == [client : Clients, n : Nat, whole : BOOLEAN, last : BOOLEAN]
Call == [op : {"create", "write", "read", "destroy"},
         link : Ids \cup {NoLink}, n : Nat]

\* What the unpacker holds, after the header, when do_call returns Ok.
Reply == [error : {0, 9}, link : Ids]
    \cup [error : {0, 4, 15}, size : {"all", "less"}]
    \cup [error : {0, 4, 15}, reason : {0, 4}, data : Piece \cup {NoData}]
    \cup [error : {0, 4}]

ASSUME ReplyAssumption == NoReply \notin Reply /\ NoData \notin Piece

Init ==
    /\ opt_link = [c \in Clients |-> NoLink]
    /\ pc = [c \in Clients |-> "idle"]
    /\ call = [c \in Clients |-> [op |-> "read", link |-> NoLink, n |-> 0]]
    /\ asking = [c \in Clients |-> FALSE]
    /\ result = [c \in Clients |-> "none"]
    /\ got = [c \in Clients |-> NoData]
    /\ ops = [c \in Clients |-> 0]
    /\ up = [c \in Clients |-> TRUE]
    /\ reply = [c \in Clients |-> NoReply]
    /\ owner = [l \in LinkIds |-> NoLink]
    /\ output = [l \in LinkIds |-> << >>]
    /\ keeps_output \in KeepsOutput
    /\ took = [c \in Clients |-> << >>]

-----------------------------------------------------------------------------
(* The operations of a client, up to the call they send *)

\* A new operation that sends a call.
Send(c, op, link, ask) ==
    /\ pc[c] = "idle"
    /\ ops[c] < MaxOps[c]
    /\ ops' = [ops EXCEPT ![c] = @ + 1]
    /\ pc' = [pc EXCEPT ![c] = "waiting"]
    /\ call' = [call EXCEPT ![c] = [op |-> op, link |-> link, n |-> ops[c] + 1]]
    /\ asking' = [asking EXCEPT ![c] = ask]
    /\ result' = [result EXCEPT ![c] = "none"]
    /\ got' = [got EXCEPT ![c] = NoData]
    /\ UNCHANGED <<opt_link, up, reply, instrumentVars>>

\* A new operation that returns an error instead.
Refuse(c, why) ==
    /\ pc[c] = "idle"
    /\ ops[c] < MaxOps[c]
    /\ ops' = [ops EXCEPT ![c] = @ + 1]
    /\ result' = [result EXCEPT ![c] = why]
    /\ asking' = [asking EXCEPT ![c] = FALSE]
    /\ got' = [got EXCEPT ![c] = NoData]
    /\ UNCHANGED <<opt_link, pc, call, up, reply, instrumentVars>>

\* A client that does not look at the link it has.
CreateLinkAgain(c) == Send(c, "create", NoLink, FALSE)

CreateLink(c) ==
    IF opt_link[c] # NoLink
    THEN Refuse(c, "Already connected to a link")
    ELSE Send(c, "create", NoLink, FALSE)

\* get_link()?
OnLink(c, op, ask) ==
    IF opt_link[c] = NoLink
    THEN Refuse(c, "No link")
    ELSE Send(c, op, opt_link[c], ask)

Write(c) == OnLink(c, "write", FALSE)
Read(c)  == OnLink(c, "read", FALSE)
Ask(c)   == OnLink(c, "write", TRUE)

\* The link stays in opt_link, also when destroy_link returns Ok.
DestroyLink(c) ==
    IF opt_link[c] = NoLink
    THEN Refuse(c, "No link to destroy")
    ELSE Send(c, "destroy", opt_link[c], FALSE)

-----------------------------------------------------------------------------
(* The operations of a client, once do_call has returned *)

Received(c, op) ==
    /\ pc[c] = "waiting"
    /\ call[c].op = op
    /\ reply[c] # NoReply
    /\ reply' = [reply EXCEPT ![c] = NoReply]

Return(c, r) ==
    /\ pc' = [pc EXCEPT ![c] = "idle"]
    /\ result' = [result EXCEPT ![c] = r]

\* A client that takes the first word of the reply for the link id.
CreateLinkReturnsSwapped(c) ==
    /\ Received(c, "create")
    /\ opt_link' = [opt_link EXCEPT ![c] = reply[c].error]
    /\ Return(c, IF reply[c].error = 0 THEN "ok" ELSE "err")
    /\ UNCHANGED <<call, asking, got, ops, instrumentVars>>

\* The link is stored before the error is looked at.
CreateLinkReturns(c) ==
    /\ Received(c, "create")
    /\ opt_link' = [opt_link EXCEPT ![c] = reply[c].link]
    /\ Return(c, IF reply[c].error = 0 THEN "ok" ELSE "err")
    /\ UNCHANGED <<call, asking, got, ops, instrumentVars>>

\* A client that trusts the error code of a write.
WriteAccepted(r) == r.error = 0
WriteOk(r) == r.size = "all" /\ r.error = 0

WriteFails(c) ==
    /\ Received(c, "write")
    /\ ~WriteOk(reply[c])
    /\ Return(c, "err")
    /\ UNCHANGED <<opt_link, call, asking, got, ops, instrumentVars>>

WriteReturns(c) ==
    /\ Received(c, "write")
    /\ WriteOk(reply[c])
    /\ ~asking[c]
    /\ Return(c, "ok")
    /\ UNCHANGED <<opt_link, call, asking, got, ops, instrumentVars>>

\* An ask that reads whatever became of its write.
AskGoesOnRegardless(c) ==
    /\ Received(c, "write")
    /\ asking[c]
    /\ call' = [call EXCEPT ![c].op = "read"]
    /\ UNCHANGED <<opt_link, pc, asking, result, got, ops, instrumentVars>>

\* The read of an ask.
AskGoesOn(c) ==
    /\ Received(c, "write")
    /\ WriteOk(reply[c])
    /\ asking[c]
    /\ call' = [call EXCEPT ![c].op = "read"]
    /\ UNCHANGED <<opt_link, pc, asking, result, got, ops, instrumentVars>>

ReadOk(r) == r.error = 0 /\ r.reason = 4

ReadReturns(c) ==
    /\ Received(c, "read")
    /\ ReadOk(reply[c])
    /\ got' = [got EXCEPT ![c] = reply[c].data]
    /\ Return(c, "ok")
    /\ UNCHANGED <<opt_link, call, asking, ops, instrumentVars>>

\* An ask that starts over when its read fails.
ReadFailsAsksAgain(c) ==
    /\ Received(c, "read")
    /\ ~ReadOk(reply[c])
    /\ IF asking[c]
       THEN /\ call' = [call EXCEPT ![c].op = "write"]
            /\ UNCHANGED <<pc, result>>
       ELSE Return(c, "err") /\ UNCHANGED call
    /\ UNCHANGED <<opt_link, asking, got, ops, instrumentVars>>

ReadFails(c) ==
    /\ Received(c, "read")
    /\ ~ReadOk(reply[c])
    /\ Return(c, "err")
    /\ UNCHANGED <<opt_link, call, asking, got, ops, instrumentVars>>

DestroyLinkReturns(c) ==
    /\ Received(c, "destroy")
    /\ Return(c, IF reply[c].error = 0 THEN "ok" ELSE "err")
    /\ UNCHANGED <<opt_link, call, asking, got, ops, instrumentVars>>

\* do_call returns Err: the connection is gone, or the server refused the call
\* in the reply header and did not execute it.
CallFails(c) ==
    /\ pc[c] = "waiting"
    /\ reply[c] = NoReply
    /\ Return(c, "err")
    /\ UNCHANGED <<opt_link, call, asking, got, ops, reply, instrumentVars>>

-----------------------------------------------------------------------------
(* The connection and the instrument *)

\* The connection is lost, and a reply on it.
Lose(c) ==
    /\ up[c]
    /\ up' = [up EXCEPT ![c] = FALSE]
    /\ reply' = [reply EXCEPT ![c] = NoReply]
    /\ UNCHANGED <<clientVars, instrumentVars>>

\* What becomes of the owner of a link that is freed.
Freed == IF RecyclesLinks THEN NoLink ELSE Gone

\* The instrument frees the links of a connection that is gone.
Release(c) ==
    /\ ~up[c]
    /\ \E l \in LinkIds : owner[l] = c
    /\ owner' = [l \in LinkIds |-> IF owner[l] = c THEN Freed ELSE owner[l]]
    /\ UNCHANGED <<clientVars, up, keeps_output, reply, output, took>>

Arrived(c, op) ==
    /\ up[c]
    /\ pc[c] = "waiting"
    /\ call[c].op = op
    /\ reply[c] = NoReply

Live(l) == l \in LinkIds /\ owner[l] \in Clients

Reply1(c, r) == reply' = [reply EXCEPT ![c] = r]

ExecuteCreate(c) ==
    /\ Arrived(c, "create")
    /\ \/ \E l \in LinkIds :
             /\ owner[l] = NoLink
             /\ owner' = [owner EXCEPT ![l] = c]
             /\ output' = [output EXCEPT ![l] = << >>]
             /\ Reply1(c, [error |-> 0, link |-> l])
       \/ /\ \E l \in ErrorLinks : Reply1(c, [error |-> 9, link |-> l])
          /\ UNCHANGED <<owner, output>>
    /\ UNCHANGED <<clientVars, up, keeps_output, took>>

\* No answer, one in a single piece, or the first piece of a longer one.
AnswersTo(c) ==
    LET P(all) == [client |-> c, n |-> call[c].n, whole |-> all, last |-> all]
    IN  {<< >>, << P(TRUE) >>, << P(FALSE) >>}

ExecuteWrite(c) ==
    /\ Arrived(c, "write")
    /\ IF Live(call[c].link)
       THEN LET l == call[c].link
            IN  \/ /\ took' = [took EXCEPT ![c] = Append(@, call[c].n)]
                   /\ \E a \in AnswersTo(c) :
                         output' = [output EXCEPT ![l] =
                                       IF keeps_output THEN @ \o a ELSE a]
                   /\ Reply1(c, [error |-> 0, size |-> "all"])
                \/ /\ \E e \in {0, 15} : Reply1(c, [error |-> e, size |-> "less"])
                   /\ UNCHANGED <<output, took>>
       ELSE /\ \E s \in {"all", "less"} : Reply1(c, [error |-> 4, size |-> s])
            /\ UNCHANGED <<output, took>>
    /\ UNCHANGED <<clientVars, up, keeps_output, owner>>

\* What comes after piece p of an answer: nothing, or a piece that may be the last.
After(p) == IF p.last THEN {<< >>} ELSE {<< [p EXCEPT !.last = end] >> : end \in BOOLEAN}

ExecuteRead(c) ==
    /\ Arrived(c, "read")
    /\ LET l == call[c].link
       IN  IF ~Live(l)
           THEN /\ Reply1(c, [error |-> 4, reason |-> 0, data |-> NoData])
                /\ UNCHANGED output
           ELSE IF output[l] = << >>
           THEN /\ Reply1(c, [error |-> 15, reason |-> 0, data |-> NoData])
                /\ UNCHANGED output
           ELSE LET p == Head(output[l])
                IN  /\ Reply1(c, [error |-> 0, reason |-> IF p.last THEN 4 ELSE 0, data |-> p])
                    /\ \E rest \in After(p) : output' = [output EXCEPT ![l] = rest \o Tail(@)]
    /\ UNCHANGED <<clientVars, up, keeps_output, owner, took>>

ExecuteDestroy(c) ==
    /\ Arrived(c, "destroy")
    /\ IF Live(call[c].link)
       THEN /\ owner' = [owner EXCEPT ![call[c].link] = Freed]
            /\ Reply1(c, [error |-> 0])
       ELSE /\ Reply1(c, [error |-> 4])
            /\ UNCHANGED owner
    /\ UNCHANGED <<clientVars, up, keeps_output, output, took>>

Execute(c) ==
    ExecuteCreate(c) \/ ExecuteWrite(c) \/ ExecuteRead(c) \/ ExecuteDestroy(c)

-----------------------------------------------------------------------------
Begin(c) == CreateLink(c) \/ Write(c) \/ Read(c) \/ Ask(c) \/ DestroyLink(c)

Finish(c) ==
    \/ CreateLinkReturns(c)
    \/ WriteFails(c) \/ WriteReturns(c) \/ AskGoesOn(c)
    \/ ReadReturns(c) \/ ReadFails(c)
    \/ DestroyLinkReturns(c)

Next == \E c \in Clients :
    \/ Begin(c) \/ Lose(c) \/ Release(c) \/ Execute(c)
    \/ (Finish(c) \/ CallFails(c)) /\ UNCHANGED up

Spec == Init /\ [][Next]_vars

-----------------------------------------------------------------------------
(* Properties *)

Results == {"none", "ok", "err", "No link", "No link to destroy",
            "Already connected to a link"}

TypeOK ==
    /\ opt_link \in [Clients -> Ids \cup {NoLink}]
    /\ pc \in [Clients -> {"idle", "waiting"}]
    /\ call \in [Clients -> Call]
    /\ asking \in [Clients -> BOOLEAN]
    /\ result \in [Clients -> Results]
    /\ got \in [Clients -> Piece \cup {NoData}]
    /\ ops \in [Clients -> Nat]
    /\ up \in [Clients -> BOOLEAN]
    /\ reply \in [Clients -> Reply \cup {NoReply}]
    /\ owner \in [LinkIds -> Clients \cup {NoLink, Gone}]
    /\ output \in [LinkIds -> Seq(Piece)]
    /\ keeps_output \in BOOLEAN
    /\ took \in [Clients -> Seq(Nat)]

\* An ask that returns Ok returns the whole answer to the command it sent, and
\* no other command's or client's, on an instrument that drops unread output when
\* a new command arrives.  (ask reads only when its write was confirmed in full.)
\* It needs ids that do not come back: opt_link keeps the id of a link that was
\* destroyed, and would name the link of another client.  Device shows it of
\* callers who use the client as the devices do, with ids that do come back.
AskReturnsItsAnswer == \A c \in Clients :
    (~keeps_output /\ asking[c] /\ pc[c] = "idle" /\ result[c] = "ok") =>
        got[c] = [client |-> c, n |-> ops[c], whole |-> TRUE, last |-> TRUE]

\* A write that returned Ok was taken, as the last command of this client.
WriteOkWasTaken == \A c \in Clients :
    (result[c] = "ok" /\ call[c].op = "write") =>
        took[c] # << >> /\ took[c][Len(took[c])] = ops[c]

\* No command is taken twice, and none overtakes another of the same client.
TakenOnceInOrder == \A c \in Clients :
    \A i, j \in DOMAIN took[c] : i < j => took[c][i] < took[c][j]

\* The instrument never holds two links for one client whose connection is up.
OneLinkPerClient == \A c \in Clients :
    up[c] => Cardinality({l \in LinkIds : owner[l] = c}) <= 1

\* "Already connected to a link" (vxi11/mod.rs:81): a client told so has a link.
AlreadyConnectedIsTrue == \A c \in Clients :
    (result[c] = "Already connected to a link" /\ up[c]) =>
        \E l \in LinkIds : owner[l] = c /\ opt_link[c] = l
=============================================================================
