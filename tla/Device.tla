------------------------------- MODULE Device -------------------------------
(***************************************************************************)
(* The devices SDS1202X, SDG2042X and SPD3303X, which share one life cycle *)
(* around a CoreClient of their own:                                       *)
(*   new   creates a link, asks *IDN?, and gives the device only to a      *)
(*         caller who has reached the right model;                         *)
(*   ask   (and ask_str, and every get and set over it) asks on the link;  *)
(*   drop  destroys the link, and panics if it cannot.                     *)
(* Where the CoreClient lets its caller use it in any order, a device does *)
(* not: no device outlives a create_link that failed, and none uses a link *)
(* it has destroyed.                                                       *)
(*                                                                         *)
(* CoreClient::new asks the port mapper for the port of the core channel,  *)
(* a u32 of which it connects to the lower half, whatever serves there.    *)
(*                                                                         *)
(* A CoreClient that is dropped, in whatever way new or the device ends,   *)
(* closes its connection.                                                  *)
(***************************************************************************)
EXTENDS CoreClient

CONSTANTS
    PortMapper,     \* the answers of the port mapper: u32, 0 for "not registered"
    CorePort,       \* where the instrument serves the core channel
    OtherPorts      \* where it serves something else

ASSUME PortsAssumption ==
    /\ PortMapper \subseteq Nat
    /\ {CorePort} \cup OtherPorts \subseteq 1..65535

VARIABLES
    session,    \* where each device is in its life
    port        \* the port its CoreClient is connected to, or 0

deviceVars == <<vars, session, port>>

Ended == {"failed", "closed", "panicked"}

DeviceInit ==
    /\ Init
    /\ session = [c \in Clients |-> "none"]
    /\ port = [c \in Clients |-> 0]

Becomes(c, s) == session' = [session EXCEPT ![c] = s]

\* An end that forgets to drop the CoreClient.
EndsKeepingConnection(c, s) == Becomes(c, s) /\ UNCHANGED <<up, port>>

\* The CoreClient is dropped, and its TcpStream with it.
Ends(c, s) ==
    /\ Becomes(c, s)
    /\ up' = [up EXCEPT ![c] = FALSE]
    /\ port' = [port EXCEPT ![c] = 0]

-----------------------------------------------------------------------------
(* new *)

\* CoreClient::new: get_port and a connection may fail; "port as u16" may name a port
\* that was not meant.
Connect(c) ==
    /\ session[c] = "none"
    /\ \/ Ends(c, "failed")
       \/ \E p \in PortMapper :
             /\ p % 65536 \in {CorePort} \cup OtherPorts
             /\ port' = [port EXCEPT ![c] = p % 65536]
             /\ Becomes(c, "connected") /\ UNCHANGED up
    /\ UNCHANGED <<clientVars, reply, instrumentVars>>

\* core.create_link()
New(c) ==
    /\ session[c] = "connected"
    /\ CreateLink(c)
    /\ Becomes(c, "creating")
    /\ UNCHANGED port

\* A new that goes on with whatever id is in opt_link.
LinkedRegardless(c) ==
    /\ session[c] = "creating"
    /\ CreateLinkReturns(c) \/ CallFails(c)
    /\ Becomes(c, "linked") /\ UNCHANGED <<up, port>>

\* create_link()?
Linked(c) ==
    /\ session[c] = "creating"
    /\ CreateLinkReturns(c) \/ CallFails(c)
    /\ IF result'[c] = "ok"
       THEN Becomes(c, "linked") /\ UNCHANGED <<up, port>>
       ELSE Ends(c, "failed")

\* core.ask(b"*IDN?")
Identify(c) ==
    /\ session[c] = "linked"
    /\ Ask(c)
    /\ Becomes(c, "identifying")
    /\ UNCHANGED port

\* The steps of an ask that leave it unfinished, and those that end it.
AskEnds(c) == WriteFails(c) \/ ReadReturns(c) \/ ReadFails(c) \/ CallFails(c)

AskContinues(c) == AskGoesOn(c) /\ UNCHANGED <<up, session, port>>

\* The answer may be of another model, or no UTF-8 at all.
Identified(c) ==
    /\ session[c] = "identifying"
    /\ AskEnds(c)
    /\ \/ result'[c] = "ok" /\ Becomes(c, "open") /\ UNCHANGED <<up, port>>
       \/ Ends(c, "failed")

-----------------------------------------------------------------------------
(* ask and drop *)

\* The bound on operations leaves one for the drop.
DeviceAsk(c) ==
    /\ session[c] = "open"
    /\ ops[c] + 1 < MaxOps[c]
    /\ Ask(c)
    /\ UNCHANGED <<session, port>>

DeviceAsked(c) ==
    /\ session[c] = "open"
    /\ AskEnds(c)
    /\ UNCHANGED <<session, up, port>>

\* The caller may drop the device as soon as no call is under way.
Drop(c) ==
    /\ session[c] = "open"
    /\ DestroyLink(c)
    /\ Becomes(c, "dropping")
    /\ UNCHANGED port

\* A device that outlives a destroy_link the caller asked for.
DroppedAndReused(c) ==
    /\ session[c] = "dropping"
    /\ DestroyLinkReturns(c) \/ CallFails(c)
    /\ Becomes(c, "open") /\ UNCHANGED <<up, port>>

\* destroy_link().expect(...); the fields are dropped after a panic too.
Dropped(c) ==
    /\ session[c] = "dropping"
    /\ DestroyLinkReturns(c) \/ CallFails(c)
    /\ Ends(c, IF result'[c] = "ok" THEN "closed" ELSE "panicked")

-----------------------------------------------------------------------------
Begins(c) == New(c) \/ Identify(c) \/ DeviceAsk(c) \/ Drop(c)

Continues(c) == AskContinues(c) \/ Linked(c) \/ Identified(c)
                \/ DeviceAsked(c) \/ Dropped(c)

\* Whoever serves another port refuses the calls of the core channel (CallFails).
Executes(c) == Execute(c) /\ port[c] = CorePort

Environment(c) == (Lose(c) \/ Release(c) \/ Executes(c)) /\ UNCHANGED <<session, port>>

DeviceNext == \E c \in Clients :
    Connect(c) \/ Begins(c) \/ Continues(c) \/ Environment(c)

DeviceSpec == DeviceInit /\ [][DeviceNext]_deviceVars

\* A thread keeps running; the instrument executes what arrives, or the call fails;
\* and it notices, in the end, that a connection is gone.  new goes on to create a
\* link and to identify by itself, while asks and the drop are up to the caller.
DeviceFairness == \A c \in Clients :
    /\ WF_deviceVars(Continues(c) \/ (Executes(c) /\ UNCHANGED <<session, port>>))
    /\ WF_deviceVars(New(c) \/ Identify(c))
    /\ WF_deviceVars(Release(c) /\ UNCHANGED <<session, port>>)

DeviceFairSpec == DeviceSpec /\ DeviceFairness

-----------------------------------------------------------------------------
(* Properties *)

DeviceTypeOK ==
    /\ TypeOK
    /\ session \in [Clients -> {"none", "connected", "creating", "linked",
                                "identifying", "open", "dropping"} \cup Ended]
    /\ port \in [Clients -> {0, CorePort} \cup OtherPorts]

\* A device in its caller's hands names a link that the instrument holds for it,
\* as long as its connection is there: no other client has destroyed it, and it is
\* not the id of a create_link that failed.
OwnsItsLink == \A c \in Clients :
    (up[c] /\ session[c] \in {"linked", "identifying", "open"}) =>
        /\ opt_link[c] \in LinkIds
        /\ owner[opt_link[c]] = c

\* The panic in drop is for calls that failed: no drop is ever told by the
\* instrument that its link does not exist.
DropIsNeverRefused == [][\A c \in Clients :
    (session[c] = "dropping" /\ session'[c] = "panicked") => reply[c] = NoReply]_deviceVars

\* new returns, with a device in its caller's hands or with the instrument holding
\* no link for it in the end; and the instrument gets the link of a device that is
\* dropped back, whether destroy_link succeeds or drop panics.
LinksAreReleased == \A c \in Clients :
    session[c] \in {"connected", "dropping"} ~>
        \/ session[c] = "open"
        \/ session[c] \in Ended /\ \A l \in LinkIds : owner[l] # c

-----------------------------------------------------------------------------
(* Refinement *)

InSession(c) == session[c] \in {"identifying", "open"}

\* The ask a piece of an answer belongs to: the first call is create_link.
AskOf(c, p) == IF p.client = c THEN p.n - 1 ELSE 0
AsksIn(c, pieces) == [i \in DOMAIN pieces |-> AskOf(c, pieces[i])]

\* The answers the instrument has for a device, and one of which the last piece is on
\* its way to it.
Output(c) == IF opt_link[c] \in LinkIds /\ owner[opt_link[c]] = c
             THEN output[opt_link[c]] ELSE << >>
OnTheWay(c) == IF reply[c] # NoReply /\ call[c].op = "read" /\ ReadOk(reply[c])
               THEN << reply[c].data >> ELSE << >>

PhaseOf(c) ==
    CASE session[c] \in {"none", "connected", "creating", "linked"} -> "none"
      [] InSession(c) /\ pc[c] = "waiting" -> "asking"
      [] InSession(c) /\ pc[c] = "idle"    -> "open"
      [] OTHER -> "ended"
AsksOf(c)   == IF InSession(c) THEN ops[c] - 1 ELSE 0
TakenOf(c)  == IF InSession(c) /\ took[c] # << >> THEN took[c][Len(took[c])] - 1 ELSE 0
UnreadOf(c) == IF InSession(c) THEN AsksIn(c, OnTheWay(c) \o Output(c)) ELSE << >>
AnswerOf(c) == IF InSession(c) /\ got[c] # NoData THEN AskOf(c, got[c]) ELSE 0

Abstract == INSTANCE Session WITH
    keeps  <- keeps_output,
    phase  <- [c \in Clients |-> PhaseOf(c)],
    asks   <- [c \in Clients |-> AsksOf(c)],
    taken  <- [c \in Clients |-> TakenOf(c)],
    unread <- [c \in Clients |-> UnreadOf(c)],
    answer <- [c \in Clients |-> AnswerOf(c)]

\* A device keeps the promises of Session: whatever its calls, the losses of its
\* connection and the other devices do, each ask is taken at most once and returns
\* the oldest answer that was given to this device and not read, or fails.  Also on an
\* instrument that keeps output nobody has read, and gives the id of a link that is
\* gone to another device, no device gets the answer to another's command.
ImplementsSession == Abstract!Spec
=============================================================================
