------------------------------- MODULE RpcCall -------------------------------
(***************************************************************************)
(* What a synchronous ONC RPC client promises its caller.                  *)
(*                                                                         *)
(* One call is outstanding at a time.  The server may execute a call at    *)
(* any moment after it was begun, also after the client has given it up,   *)
(* and executes it at most once.  The client ends a call with Ok or with   *)
(* Err.  It ends a call with Ok only on an answer to an executed call: to  *)
(* this very call, or -- the calls are told apart by a number that wraps   *)
(* around after XidMod of them -- to one begun XidMod calls or more ago.   *)
(* Err says nothing of whether the call was executed.                      *)
(***************************************************************************)
EXTENDS Naturals

CONSTANT XidMod      \* number of transaction ids: 2^32 in the code

VARIABLES
    calls,           \* number of calls begun; the last one is call number calls
    phase,           \* "idle", or "active" while the last call has not ended
    executed,        \* the calls the server has executed
    outcome,         \* how the last call that ended did: "none", "ok" or "err"
    answer           \* the call whose answer it returned, 0 if it returned none

vars == <<calls, phase, executed, outcome, answer>>

\* The call number a is too old to be told apart from call c by its xid.
Recycled(a, c) == a + XidMod <= c

Init ==
    /\ calls = 0
    /\ phase = "idle"
    /\ executed = {}
    /\ outcome = "none"
    /\ answer = 0

Begin ==
    /\ phase = "idle"
    /\ calls' = calls + 1
    /\ phase' = "active"
    /\ outcome' = "none"
    /\ answer' = 0
    /\ UNCHANGED executed

Execute(c) ==
    /\ c \in 1..calls
    /\ c \notin executed
    /\ executed' = executed \cup {c}
    /\ UNCHANGED <<calls, phase, outcome, answer>>

Succeed(a) ==
    /\ phase = "active"
    /\ a \in executed
    /\ a = calls \/ Recycled(a, calls)
    /\ answer' = a
    /\ outcome' = "ok"
    /\ phase' = "idle"
    /\ UNCHANGED <<calls, executed>>

Fail ==
    /\ phase = "active"
    /\ outcome' = "err"
    /\ phase' = "idle"
    /\ UNCHANGED <<calls, executed, answer>>

Next ==
    \/ Begin
    \/ \E c \in 1..calls : Execute(c)
    \/ \E a \in executed : Succeed(a)
    \/ Fail

Spec == Init /\ [][Next]_vars

=============================================================================
