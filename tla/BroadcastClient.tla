-------------------------- MODULE BroadcastClient --------------------------
(***************************************************************************)
(* BroadcastUdpClient: a call to every server on the network, and a loop   *)
(* that receives answers until none has come for five seconds, or the      *)
(* socket fails.                                                           *)
(*                                                                         *)
(* What the loop prints is kept here in a set.  The network reorders       *)
(* datagrams and may duplicate them, and answers to one call may arrive    *)
(* during the next.  A datagram that is lost is one that never arrives:    *)
(* its request is not served.                                              *)
(***************************************************************************)
EXTENDS Naturals, Sequences

CONSTANTS
    Servers,
    XidMod,          \* number of transaction ids: 2^32 in the code
    Builds,          \* whether arithmetic overflow panics, as in a debug build
    MaxCalls,        \* bound on the calls begun
    MaxDups,         \* bound on the answers sent once more
    MaxInbox         \* what fits in the socket's buffer; the rest is lost

ASSUME ConstantsAssumption ==
    /\ XidMod \in Nat /\ XidMod > 1
    /\ Builds \subseteq BOOLEAN
    /\ MaxCalls \in Nat
    /\ MaxDups \in Nat
    /\ MaxInbox \in Nat

VARIABLES
    calls,      \* history: the calls begun, lastxid without its wrap-around
    lastxid,    \* BroadcastUdpClient.lastxid
    pc,         \* idle, receiving in make_call, or panicked
    kept,       \* the answers make_call has printed for this call
    result,     \* what the last make_call returned
    requests,   \* the requests on their way to a server
    inbox,      \* what waits in the socket
    arrived,    \* history: the servers whose good answer to this call has arrived
    interrupted, \* history: an error of the socket, not the timeout, ended this call
    dups,       \* how many answers were sent once more
    overflow_checks \* the build that runs

vars == <<calls, lastxid, pc, kept, result, requests, inbox, arrived, interrupted,
          dups, overflow_checks>>

Request == [to : Servers, id : Nat, xid : 0..XidMod-1]
Reply == [from : Servers, id : Nat, xid : 0..XidMod-1, accepted : BOOLEAN]

Init ==
    /\ calls = 0
    /\ lastxid = 0
    /\ pc = "idle"
    /\ kept = {}
    /\ result = "none"
    /\ requests = {}
    /\ inbox = << >>
    /\ arrived = {}
    /\ interrupted = FALSE
    /\ dups = 0
    /\ overflow_checks \in Builds

-----------------------------------------------------------------------------
(* The client *)

NextXidUnwrapped == lastxid + 1

\* lastxid + 1, as a u32 of a release build.
NextXid == (lastxid + 1) % XidMod

Overflows == overflow_checks /\ lastxid + 1 = XidMod

\* start_call: a new call, of which nothing is known yet.
StartCall ==
    /\ pc = "idle"
    /\ calls < MaxCalls
    /\ ~Overflows
    /\ calls' = calls + 1
    /\ lastxid' = NextXid
    /\ kept' = {}
    /\ arrived' = {}
    /\ interrupted' = FALSE
    /\ UNCHANGED <<inbox, dups, overflow_checks>>

\* start_call, and send_to of make_call
MakeCall ==
    /\ StartCall
    /\ requests' = requests \cup [to : Servers, id : {calls + 1}, xid : {NextXid}]
    /\ pc' = "receiving"
    /\ result' = "none"

\* start_call, and an error of send_to: the xid is taken and nothing is sent.
SendFails ==
    /\ StartCall
    /\ result' = "err"
    /\ UNCHANGED <<pc, requests>>

\* lastxid += 1 when lastxid is u32::MAX and overflow is checked.
StartCallOverflows ==
    /\ pc = "idle"
    /\ calls < MaxCalls
    /\ Overflows
    /\ pc' = "panicked"
    /\ UNCHANGED <<calls, lastxid, kept, result, requests, inbox, arrived, interrupted,
                   dups, overflow_checks>>

Receive ==
    /\ pc = "receiving"
    /\ inbox # << >>
    /\ inbox' = Tail(inbox)
    /\ UNCHANGED <<calls, lastxid, requests, arrived, interrupted, dups, overflow_checks>>

Return(r) ==
    /\ pc' = "idle"
    /\ result' = r

\* A loop that keeps whatever it can unpack.
KeepAny ==
    /\ Receive
    /\ Head(inbox).accepted
    /\ kept' = kept \cup {Head(inbox)}
    /\ UNCHANGED <<pc, result>>

\* xid == self.lastxid
Keep ==
    /\ Receive
    /\ Head(inbox).accepted
    /\ Head(inbox).xid = lastxid
    /\ kept' = kept \cup {Head(inbox)}
    /\ UNCHANGED <<pc, result>>

\* A loop that ends at the first message that is not for it.
SkipEnds ==
    /\ Receive
    /\ Head(inbox).accepted
    /\ Head(inbox).xid # lastxid
    /\ Return("ok")
    /\ UNCHANGED kept

Skip ==
    /\ Receive
    /\ Head(inbox).accepted
    /\ Head(inbox).xid # lastxid
    /\ UNCHANGED <<pc, result, kept>>

\* unpack_replyheader(...)?, before any xid is compared
RejectHeader ==
    /\ Receive
    /\ ~Head(inbox).accepted
    /\ Return("err")
    /\ UNCHANGED kept

\* recv_from times out, which ends the loop.
TimeOut ==
    /\ pc = "receiving"
    /\ inbox = << >>
    /\ Return("ok")
    /\ UNCHANGED <<calls, lastxid, kept, requests, inbox, arrived, interrupted,
                   dups, overflow_checks>>

\* recv_from fails in any other way, which ends the loop as well: make_call returns
\* Ok, and what has arrived stays in the socket.
ReceiveFails ==
    /\ pc = "receiving"
    /\ interrupted' = TRUE
    /\ Return("ok")
    /\ UNCHANGED <<calls, lastxid, kept, requests, inbox, arrived, dups, overflow_checks>>

-----------------------------------------------------------------------------
(* The servers and the network *)

Serve(q, ok, again) ==
    /\ Len(inbox) < MaxInbox
    /\ again => dups < MaxDups
    /\ inbox' = Append(inbox, [from |-> q.to, id |-> q.id, xid |-> q.xid, accepted |-> ok])
    /\ arrived' = IF ok /\ q.id = calls /\ pc = "receiving"
                  THEN arrived \cup {q.to} ELSE arrived
    /\ requests' = IF again THEN requests ELSE requests \ {q}
    /\ dups' = IF again THEN dups + 1 ELSE dups
    /\ UNCHANGED <<calls, lastxid, pc, kept, result, interrupted, overflow_checks>>

-----------------------------------------------------------------------------
Next ==
    \/ MakeCall \/ SendFails \/ StartCallOverflows
    \/ Keep \/ Skip \/ RejectHeader \/ TimeOut \/ ReceiveFails
    \/ \E q \in requests, ok, again \in BOOLEAN : Serve(q, ok, again)

Spec == Init /\ [][Next]_vars

-----------------------------------------------------------------------------
(* Properties *)

TypeOK ==
    /\ calls \in Nat
    /\ lastxid \in 0..XidMod-1
    /\ pc \in {"idle", "receiving", "panicked"}
    /\ kept \subseteq Reply
    /\ result \in {"none", "ok", "err"}
    /\ requests \subseteq Request
    /\ inbox \in Seq(Reply)
    /\ arrived \subseteq Servers
    /\ interrupted \in BOOLEAN
    /\ dups \in Nat
    /\ overflow_checks \in BOOLEAN

\* What a call keeps are good answers to it, or, in a release build, where the xid
\* wraps around, to one XidMod calls older: nothing an earlier call left in the
\* socket, when it ended early, passes for an answer.
KeptAreAnswers ==
    \A r \in kept :
        /\ r.accepted
        /\ r.id = calls \/ (~overflow_checks /\ r.id + XidMod <= calls)

\* A call that returns Ok has kept the answer of every server whose answer arrived
\* while it was receiving, whatever else arrived before or between.  Only when an
\* error of the socket ended the loop can such an answer still wait in the socket.
OkKeptAllArrived ==
    result = "ok" =>
        \A s \in arrived :
            \/ \E r \in kept : r.from = s /\ r.id = calls
            \/ interrupted /\ \E i \in DOMAIN inbox : /\ inbox[i].from = s /\ inbox[i].id = calls
                                                      /\ inbox[i].accepted
=============================================================================
