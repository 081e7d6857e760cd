------------------------------ MODULE UdpClient ------------------------------
(***************************************************************************)
(* UdpClient::do_call, and UdpPortMapperClient::dump over it: one datagram *)
(* out, one datagram in, whatever it is.                                   *)
(*                                                                         *)
(* The network may lose, duplicate and reorder datagrams: a request waits  *)
(* in requests until the server answers it (perhaps more than once), it is *)
(* lost (the answer's loss is the same to the client), or comes back as    *)
(* refused.  What has arrived waits in the socket's buffer, inbox.         *)
(***************************************************************************)
EXTENDS Naturals, Sequences, FiniteSets

CONSTANTS
    XidMod,          \* number of transaction ids: 2^32 in the code
    Builds,          \* whether arithmetic overflow panics, as in a debug build
    Listings,        \* the lists of protocols a port mapper may hold
    NoReply,         \* the unpacker is empty
    Refused,         \* a pending socket error: port unreachable
    MaxCalls,        \* bound on the calls begun
    MaxDups          \* bound on the answers sent once more

ASSUME ConstantsAssumption ==
    /\ XidMod \in Nat /\ XidMod > 1
    /\ Builds \subseteq BOOLEAN
    /\ Listings \subseteq Seq({"TCP", "UDP", "other"})
    /\ MaxCalls \in Nat
    /\ MaxDups \in Nat

VARIABLES
    calls,      \* history: the calls begun, lastxid without its wrap-around
    lastxid,    \* UdpClient.lastxid
    pc,         \* idle, waiting in recv, or panicked
    unpacker,   \* the datagram loaded last
    result,     \* how the last dump ended
    listing,    \* the mappings the last dump returned
    requests,   \* the calls on their way to the server
    inbox,      \* what waits in the socket
    dups,       \* how many answers were sent once more
    lost,       \* history: how many requests or answers were lost
    overflow_checks \* the build that runs

clientVars == <<calls, lastxid, pc, unpacker, result, listing>>
vars == <<clientVars, requests, inbox, dups, lost, overflow_checks>>

Request == [id : Nat, xid : 0..XidMod-1]

\* whole: the datagram fits in the 8092 bytes of recv_buff, which are 2023 words
Reply == [id : Nat, xid : 0..XidMod-1, accepted : BOOLEAN,
          maps : Listings, whole : BOOLEAN]

Init ==
    /\ calls = 0
    /\ lastxid = 0
    /\ pc = "idle"
    /\ unpacker = NoReply
    /\ result = "none"
    /\ listing = << >>
    /\ requests = {}
    /\ inbox = << >>
    /\ dups = 0
    /\ lost = 0
    /\ overflow_checks \in Builds

-----------------------------------------------------------------------------
(* The client *)

NextXidUnwrapped == lastxid + 1

\* lastxid + 1, as a u32 of a release build.
NextXid == (lastxid + 1) % XidMod

Overflows == overflow_checks /\ lastxid + 1 = XidMod

\* start_call and send; a socket error that is pending is reported by send.
Dump ==
    /\ pc = "idle"
    /\ calls < MaxCalls
    /\ ~Overflows
    /\ calls' = calls + 1
    /\ lastxid' = NextXid
    /\ listing' = << >>
    /\ IF inbox # << >> /\ Head(inbox) = Refused
       THEN /\ result' = "err"
            /\ inbox' = Tail(inbox)
            /\ UNCHANGED <<pc, requests>>
       ELSE /\ result' = "none"
            /\ pc' = "waiting"
            /\ requests' = requests \cup {[id |-> calls + 1, xid |-> NextXid]}
            /\ UNCHANGED inbox
    /\ UNCHANGED <<unpacker, dups, lost, overflow_checks>>

\* lastxid += 1 when lastxid is u32::MAX and overflow is checked.
DumpOverflows ==
    /\ pc = "idle"
    /\ calls < MaxCalls
    /\ Overflows
    /\ pc' = "panicked"
    /\ UNCHANGED <<calls, lastxid, unpacker, result, listing,
                   requests, inbox, dups, lost, overflow_checks>>

Return(r, maps) ==
    /\ pc' = "idle"
    /\ result' = r
    /\ listing' = maps
    /\ UNCHANGED <<calls, lastxid, requests, dups, lost, overflow_checks>>

\* A client that takes the next datagram for the answer.
MatchesAny(r) == r.accepted

\* do_call returns Ok: the header unpacks and carries this xid.
Matches(r) == r.accepted /\ r.xid = lastxid

\* dump's loop ends at the 0 that ends the list: the datagram was not cut short,
\* and no protocol in it is unknown.
Lists(r) == r.whole /\ \A i \in DOMAIN r.maps : r.maps[i] # "other"

\* A client that leaves the datagram in the socket.
Peek(r) ==
    /\ pc = "waiting"
    /\ inbox # << >>
    /\ Head(inbox) = r
    /\ UNCHANGED inbox

Receive(r) ==
    /\ pc = "waiting"
    /\ inbox # << >>
    /\ Head(inbox) = r
    /\ inbox' = Tail(inbox)

ReceiveRefused ==
    /\ Receive(Refused)
    /\ Return("err", << >>)
    /\ UNCHANGED unpacker

\* A client that waits on for its own answer.
ReceiveOtherWaits ==
    /\ inbox # << >> /\ Head(inbox) # Refused
    /\ Receive(Head(inbox))
    /\ unpacker' = Head(inbox)
    /\ ~(Matches(unpacker') /\ Lists(unpacker'))
    /\ UNCHANGED <<calls, lastxid, pc, result, listing, requests, dups, lost, overflow_checks>>

\* A header that says error, another xid, or a list that does not unpack.
ReceiveOther ==
    /\ inbox # << >> /\ Head(inbox) # Refused
    /\ Receive(Head(inbox))
    /\ unpacker' = Head(inbox)
    /\ ~(Matches(unpacker') /\ Lists(unpacker'))
    /\ Return("err", << >>)

ReceiveAnswer ==
    /\ inbox # << >> /\ Head(inbox) # Refused
    /\ Receive(Head(inbox))
    /\ unpacker' = Head(inbox)
    /\ Matches(unpacker') /\ Lists(unpacker')
    /\ Return("ok", unpacker'.maps)

-----------------------------------------------------------------------------
(* The server and the network *)

\* The answer to request q; again: the answer arrives now, and once more later.
Serve(q, again) ==
    /\ q \in requests
    /\ again => dups < MaxDups
    /\ \E ok, whole \in BOOLEAN, maps \in Listings :
          inbox' = Append(inbox, [id |-> q.id, xid |-> q.xid, accepted |-> ok,
                                  maps |-> maps, whole |-> whole])
    /\ requests' = IF again THEN requests ELSE requests \ {q}
    /\ dups' = IF again THEN dups + 1 ELSE dups
    /\ UNCHANGED <<clientVars, lost, overflow_checks>>

Lose(q) ==
    /\ q \in requests
    /\ requests' = requests \ {q}
    /\ lost' = lost + 1
    /\ UNCHANGED <<clientVars, inbox, dups, overflow_checks>>

\* An error is reported before any datagram that waits.
Refuse(q) ==
    /\ q \in requests
    /\ requests' = requests \ {q}
    /\ inbox' = << Refused >> \o inbox
    /\ UNCHANGED <<clientVars, dups, lost, overflow_checks>>

-----------------------------------------------------------------------------
DoCall == ReceiveRefused \/ ReceiveOther \/ ReceiveAnswer

Next ==
    \/ Dump \/ DumpOverflows
    \/ DoCall
    \/ \E q \in requests : \/ \E again \in BOOLEAN : Serve(q, again)
                           \/ Lose(q)
                           \/ Refuse(q)

Spec == Init /\ [][Next]_vars

\* The thread runs, and the network and the server do something with every request.
Fairness ==
    /\ WF_vars(DoCall)
    /\ \A c \in 1..MaxCalls, x \in 0..XidMod-1 :
          LET q == [id |-> c, xid |-> x]
          IN  WF_vars(Serve(q, FALSE) \/ Lose(q) \/ Refuse(q))

FairSpec == Spec /\ Fairness

-----------------------------------------------------------------------------
(* Properties *)

TypeOK ==
    /\ calls \in Nat
    /\ lastxid \in 0..XidMod-1
    /\ pc \in {"idle", "waiting", "panicked"}
    /\ unpacker \in Reply \cup {NoReply}
    /\ result \in {"none", "ok", "err"}
    /\ listing \in {<< >>} \cup Listings
    /\ requests \subseteq Request
    /\ inbox \in Seq(Reply \cup {Refused})
    /\ dups \in Nat
    /\ lost \in Nat
    /\ overflow_checks \in BOOLEAN

\* A dump that returns Ok returns the list the port mapper answered to this call
\* with, all of it (or, in a release build, where the xid wraps around, to a call
\* XidMod calls older).  A late, duplicated or cut datagram never passes for it.
OkIsOwnList ==
    result = "ok" =>
        /\ unpacker.id = calls \/ (~overflow_checks /\ unpacker.id + XidMod <= calls)
        /\ listing = unpacker.maps
        /\ unpacker.whole

\* What is still under way between two calls is at most what was sent twice: one
\* datagram too many makes the client read one answer behind, from then on, and no
\* more than one for each (do_call reads one datagram for each it sends).
LagBounded ==
    pc = "idle" => Len(inbox) + Cardinality(requests) <= dups

\* A call returns unless a datagram is lost: it is the network that can make
\* recv wait for ever, as the socket has no timeout, and not a stale answer.
WaitsOnlyForLost == pc = "waiting" ~> (pc = "idle" \/ lost > 0)
=============================================================================
