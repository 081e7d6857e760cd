------------------------------ MODULE TcpClient ------------------------------
(***************************************************************************)
(* TcpClient::do_call and the bookkeeping its callers do before it: a      *)
(* client that sends one ONC RPC call at a time over a TCP stream and      *)
(* reads records until one carries the transaction id of that call.        *)
(*                                                                         *)
(* The client is one thread; what it races with is the server, which       *)
(* answers calls in the order it reads them, may fragment each reply, may  *)
(* refuse a call in the reply header, may send its latest reply once more, *)
(* and may close or reset the connection between any two of its own steps. *)
(*                                                                         *)
(* A reply on the wire is ReplyLen words of four bytes, the first of them  *)
(* standing for the whole reply header.  Fragments are cut at word         *)
(* boundaries.                                                             *)
(***************************************************************************)
EXTENDS Naturals, Sequences, FiniteSets

CONSTANTS
    XidMod,          \* number of transaction ids: 2^32 in the code
    Builds,          \* whether arithmetic overflow panics, as in a debug build
    ReplyLen,        \* words in a reply
    Headers,         \* the reply headers this server sends
    MaxCalls,        \* bound on the calls begun
    MaxDups          \* bound on the replies sent once more

HeaderType == [mtype       : {"CALL", "REPLY"},
               reply_stat  : {"MSG_ACCEPTED", "MSG_DENIED"},
               accept_stat : {"SUCCESS", "PROG_UNAVAIL", "PROG_MISMATCH",
                              "PROC_UNAVAIL", "GARBAGE_ARGS"}]

ASSUME ConstantsAssumption ==
    /\ XidMod \in Nat /\ XidMod > 1
    /\ Builds \subseteq BOOLEAN
    /\ ReplyLen \in Nat /\ ReplyLen > 0
    /\ Headers \subseteq HeaderType
    /\ MaxCalls \in Nat
    /\ MaxDups \in Nat

VARIABLES
    calls,      \* history: the calls begun, lastxid without its wrap-around
    lastxid,    \* TcpClient.lastxid
    packer,     \* TcpClient.packer: the call packed last
    pc,         \* where the caller is: idle, packed, reading (in do_call), panicked
    record,     \* do_call's local "reply": the fragments of this record so far
    unpacker,   \* TcpClient.unpacker.buff as do_call last loaded it
    result,     \* what the last call that ended returned: none, ok or err
    requests,   \* the calls on their way to the server
    stream,     \* the fragments on their way to the client
    closed,     \* the connection is gone
    latest,     \* the reply the server sent last
    dups,       \* how many replies it has sent once more
    executed,   \* history: the calls the server has executed
    overflow_checks \* the build that runs

clientVars == <<calls, lastxid, packer, pc, record, unpacker, result>>
\* What no step of the client changes.
serverVars == <<latest, dups, executed, overflow_checks>>
vars == <<clientVars, serverVars, requests, stream, closed>>

-----------------------------------------------------------------------------
(* What is on the wire *)

Call  == [id : Nat, xid : 0..XidMod-1]
Reply == [id : Nat, xid : 0..XidMod-1, hdr : Headers]
NoReply == [id |-> 0]

Word     == [of : Reply, n : 1..ReplyLen]
\* A fragment holds the words from+1 .. upto of a reply.
Fragment == {f \in [of : Reply, from : 0..ReplyLen, upto : 0..ReplyLen,
                    last : BOOLEAN] : f.from <= f.upto}

Words(r, i, j) == [k \in 1..(j - i) |-> [of |-> r, n |-> i + k]]
Data(f) == Words(f.of, f.from, f.upto)

\* A reply whole, or cut in two after its first cut words.
Fragments(r, cut) ==
    IF cut = ReplyLen
    THEN << [of |-> r, from |-> 0, upto |-> ReplyLen, last |-> TRUE] >>
    ELSE << [of |-> r, from |-> 0, upto |-> cut, last |-> FALSE],
            [of |-> r, from |-> cut, upto |-> ReplyLen, last |-> TRUE] >>

Executes(h) == h.reply_stat = "MSG_ACCEPTED" /\ h.accept_stat = "SUCCESS"

\* A reader that takes the accept_stat for granted.
HeaderOkUnlessDenied(buff) ==
    /\ buff # << >>
    /\ buff[1].n = 1
    /\ buff[1].of.hdr.mtype = "REPLY"
    /\ buff[1].of.hdr.reply_stat = "MSG_ACCEPTED"

\* unpack_replyheader returns Ok: there is a first word, it is the header of
\* a reply, and neither status in it is an error.
HeaderOk(buff) ==
    /\ buff # << >>
    /\ buff[1].n = 1
    /\ buff[1].of.hdr.mtype = "REPLY"
    /\ buff[1].of.hdr.reply_stat = "MSG_ACCEPTED"
    /\ buff[1].of.hdr.accept_stat = "SUCCESS"

Xid(buff) == buff[1].of.xid

-----------------------------------------------------------------------------
Init ==
    /\ calls = 0
    /\ lastxid = 0
    /\ packer = << >>
    /\ pc = "idle"
    /\ record = << >>
    /\ unpacker = << >>
    /\ result = "none"
    /\ requests = << >>
    /\ stream = << >>
    /\ closed = FALSE
    /\ latest = NoReply
    /\ dups = 0
    /\ executed = {}
    /\ overflow_checks \in Builds

(***************************************************************************)
(* The client.                                                             *)
(***************************************************************************)

NextXidUnwrapped == lastxid + 1

\* lastxid + 1, as a u32 of a release build.
NextXid == (lastxid + 1) % XidMod

\* lastxid += 1, packer.reset() and the packing of the call.
StartCall ==
    /\ pc = "idle"
    /\ calls < MaxCalls
    /\ ~(overflow_checks /\ lastxid + 1 = XidMod)
    /\ calls' = calls + 1
    /\ lastxid' = NextXid
    /\ packer' = << [id |-> calls + 1, xid |-> NextXid] >>
    /\ pc' = "packed"
    /\ result' = "none"
    /\ UNCHANGED <<record, unpacker, requests, stream, closed, serverVars>>

\* lastxid += 1 when lastxid is u32::MAX and overflow is checked.
StartCallOverflows ==
    /\ pc = "idle"
    /\ calls < MaxCalls
    /\ overflow_checks /\ lastxid + 1 = XidMod
    /\ pc' = "panicked"
    /\ UNCHANGED <<calls, lastxid, packer, record, unpacker, result,
                   requests, stream, closed, serverVars>>

\* The caller returns an error between packing and sending: write and read
\* look for the link after they have taken an xid.
GiveUp ==
    /\ pc = "packed"
    /\ pc' = "idle"
    /\ result' = "err"
    /\ UNCHANGED <<calls, lastxid, packer, record, unpacker,
                   requests, stream, closed, serverVars>>

\* A client that sends the call a second time, for good measure.
SendCallTwice ==
    /\ pc = "packed"
    /\ requests' = IF closed THEN requests ELSE requests \o packer \o packer
    /\ record' = << >>
    /\ pc' = "reading"
    /\ UNCHANGED <<calls, lastxid, packer, unpacker, result,
                   stream, closed, serverVars>>

\* write_all succeeds; on a connection the peer has closed the bytes go nowhere.
SendCall ==
    /\ pc = "packed"
    /\ requests' = IF closed THEN requests ELSE requests \o packer
    /\ record' = << >>
    /\ pc' = "reading"
    /\ UNCHANGED <<calls, lastxid, packer, unpacker, result,
                   stream, closed, serverVars>>

SendFails ==
    /\ pc = "packed"
    /\ closed
    /\ pc' = "idle"
    /\ result' = "err"
    /\ UNCHANGED <<calls, lastxid, packer, record, unpacker,
                   requests, stream, closed, serverVars>>

\* A fragment that does not end its record.
ReadFragment ==
    /\ pc = "reading"
    /\ stream # << >>
    /\ ~Head(stream).last
    /\ record' = record \o Data(Head(stream))
    /\ stream' = Tail(stream)
    /\ UNCHANGED <<calls, lastxid, packer, pc, unpacker, result,
                   requests, closed, serverVars>>

\* The last fragment of a record, and unpacker.reset with the whole of it.
ReadRecord ==
    /\ pc = "reading"
    /\ stream # << >>
    /\ Head(stream).last
    /\ unpacker' = record \o Data(Head(stream))
    /\ record' = << >>
    /\ stream' = Tail(stream)
    /\ UNCHANGED <<calls, lastxid, packer, requests, closed, serverVars>>

Return(r) ==
    /\ pc' = "idle"
    /\ result' = r

\* A client that takes the past for the present.
AcceptPast ==
    /\ ReadRecord
    /\ HeaderOk(unpacker')
    /\ Xid(unpacker') <= lastxid
    /\ Return("ok")

\* xid == lastxid
Accept ==
    /\ ReadRecord
    /\ HeaderOk(unpacker')
    /\ Xid(unpacker') = lastxid
    /\ Return("ok")

\* xid < lastxid
SkipPast ==
    /\ ReadRecord
    /\ HeaderOk(unpacker')
    /\ Xid(unpacker') < lastxid
    /\ UNCHANGED <<pc, result>>

\* xid > lastxid
RejectFuture ==
    /\ ReadRecord
    /\ HeaderOk(unpacker')
    /\ Xid(unpacker') > lastxid
    /\ Return("err")

\* A client that skips replies it cannot use.
SkipHeader ==
    /\ ReadRecord
    /\ ~HeaderOk(unpacker')
    /\ UNCHANGED <<pc, result>>

\* unpack_replyheader returns Err, before any xid is compared.
RejectHeader ==
    /\ ReadRecord
    /\ ~HeaderOk(unpacker')
    /\ Return("err")

\* A stream with a read timeout.
ReadTimesOut ==
    /\ pc = "reading"
    /\ stream = << >>
    /\ Return("err")
    /\ UNCHANGED <<calls, lastxid, packer, record, unpacker,
                   requests, stream, closed, serverVars>>

\* read_u32 or read_exact returns Err: the connection ends here.
ReadFails ==
    /\ pc = "reading"
    /\ closed
    /\ stream = << >>
    /\ Return("err")
    /\ UNCHANGED <<calls, lastxid, packer, record, unpacker,
                   requests, stream, closed, serverVars>>

(***************************************************************************)
(* The server and the connection.                                          *)
(***************************************************************************)

Answer(h, cut) ==
    /\ ~closed
    /\ requests # << >>
    /\ LET c == Head(requests)
           r == [id |-> c.id, xid |-> c.xid, hdr |-> h]
       IN  /\ latest' = r
           /\ stream' = stream \o Fragments(r, cut)
           /\ executed' = IF Executes(h) THEN executed \cup {c.id} ELSE executed
    /\ requests' = Tail(requests)
    /\ UNCHANGED <<clientVars, closed, dups, overflow_checks>>

Duplicate(cut) ==
    /\ ~closed
    /\ latest # NoReply
    /\ dups < MaxDups
    /\ dups' = dups + 1
    /\ stream' = stream \o Fragments(latest, cut)
    /\ UNCHANGED <<clientVars, requests, closed, latest, executed, overflow_checks>>

\* The connection ends, perhaps between the execution of a call and its reply.
\* An orderly close leaves what was sent to be read, a reset discards it.
Disconnect ==
    /\ ~closed
    /\ closed' = TRUE
    /\ requests' = << >>
    /\ stream' \in {stream, << >>}
    /\ \/ UNCHANGED executed
       \/ /\ requests # << >>
          /\ executed' = executed \cup {Head(requests).id}
    /\ UNCHANGED <<clientVars, latest, dups, overflow_checks>>

-----------------------------------------------------------------------------
DoCall ==
    \/ SendCall \/ SendFails
    \/ ReadFragment \/ ReadFails
    \/ Accept \/ SkipPast \/ RejectFuture \/ RejectHeader

Next ==
    \/ StartCall \/ StartCallOverflows \/ GiveUp
    \/ DoCall
    \/ \E h \in Headers, cut \in 0..ReplyLen : Answer(h, cut)
    \/ \E cut \in 0..ReplyLen : Duplicate(cut)
    \/ Disconnect

Spec == Init /\ [][Next]_vars

\* The thread inside do_call keeps running, and the server answers each call
\* it has read (or the connection ends).  Nothing in the code makes the server
\* answer: the stream has no read timeout.
Fairness ==
    /\ WF_vars(DoCall)
    /\ WF_vars(\E h \in Headers, cut \in 0..ReplyLen : Answer(h, cut))

FairSpec == Spec /\ Fairness

-----------------------------------------------------------------------------
(* Properties *)

TypeOK ==
    /\ calls \in Nat
    /\ lastxid \in 0..XidMod-1
    /\ packer \in Seq(Call)
    /\ pc \in {"idle", "packed", "reading", "panicked"}
    /\ record \in Seq(Word)
    /\ unpacker \in Seq(Word)
    /\ result \in {"none", "ok", "err"}
    /\ requests \in Seq(Call)
    /\ stream \in Seq(Fragment)
    /\ closed \in BOOLEAN
    /\ latest \in Reply \cup {NoReply}
    /\ dups \in Nat
    /\ executed \subseteq Nat
    /\ overflow_checks \in BOOLEAN

\* When do_call has returned Ok the unpacker holds one reply, from its first
\* word to its last and with no word of another record between them, to a call
\* the server executed: this call, or one XidMod calls or more older.  (The
\* loops of do_call, over records and over the fragments of a record.)
OkIsOwnAnswer ==
    result = "ok" =>
        /\ unpacker = Words(unpacker[1].of, 0, ReplyLen)
        /\ unpacker[1].of.id \in executed
        /\ \/ unpacker[1].of.id = calls
           \/ unpacker[1].of.id + XidMod <= calls

\* In a build that checks overflow no xid is used twice, so Ok always comes with
\* the answer to this very call.  (lastxid += 1 panics where it would wrap.)
ExactInDebug == (overflow_checks /\ result = "ok") => unpacker[1].of.id = calls

\* A call that ends with Ok on its own answer leaves nothing older behind: the
\* server has no call left to answer, and what is still in the stream repeats
\* the answer just taken.  (continue 'outer drops what precedes the answer.)
InSyncAfterOk ==
    (result = "ok" /\ unpacker[1].of.id = calls) =>
        /\ requests = << >>
        /\ \A i \in DOMAIN stream : stream[i].of.id = calls

\* The places where a record ends.
Records(s) == {i \in DOMAIN s : s[i].last}

\* Between calls the client lags behind by no more records than the server has
\* sent twice, however many calls have failed: every call that gets as far as
\* reading takes at least one whole record out of the stream.
LagBounded ==
    pc = "idle" /\ ~closed =>
        Cardinality(Records(stream)) + Len(requests) <= dups

\* On a connection that is up and on which no reply was sent twice, a call that
\* returned Err was not executed, so the caller may repeat it.
ErrMeansNotExecuted ==
    (result = "err" /\ ~closed /\ dups = 0) => calls \notin executed

\* A call inside do_call returns, provided the server answers what it reads or
\* the connection ends: no sequence of stale records keeps it in the loop.
CallReturns == pc = "reading" ~> pc # "reading"

\* do_call implements the synchronous call of RpcCall.
Abstract == INSTANCE RpcCall WITH
    phase   <- IF pc \in {"packed", "reading"} THEN "active" ELSE "idle",
    outcome <- result,
    answer  <- IF result = "ok" THEN unpacker[1].of.id ELSE 0

ImplementsRpcCall == Abstract!Spec

\* "Load the response into the unpacker and make sure the xid matches"
\* (tcp_clients.rs:60): an error reply that fails a call is the reply to it.
HeaderErrorIsOurs == [][RejectHeader => unpacker'[1].of.id = calls]_vars
=============================================================================
