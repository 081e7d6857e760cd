------------------------------- MODULE Session -------------------------------
(***************************************************************************)
(* What a device promises its caller: a session with an instrument, on     *)
(* which one ask is made after another, the first of them by new, to       *)
(* identify the instrument.                                                *)
(*                                                                         *)
(* The instrument takes the command of an ask once or not at all, and only *)
(* while the ask lasts.  What an ask returns is the oldest answer the      *)
(* instrument has given to this session and nobody has read: the answer to *)
(* its own command or, if the instrument keeps what is not read, to that   *)
(* of an ask that failed.  An ask that fails says nothing of whether its   *)
(* command was taken; the session goes on all the same, unless it was the  *)
(* first.                                                                  *)
(***************************************************************************)
EXTENDS Naturals, Sequences

CONSTANT Clients      \* the callers, each with a session of its own

VARIABLES
    keeps,    \* whether the instrument keeps output nobody has read
    phase,    \* none, asking, open and ended
    asks,     \* how many asks of the session have begun
    taken,    \* the last ask whose command the instrument has taken
    unread,   \* the asks whose answers nobody has read
    answer    \* the ask whose answer the last ask returned, 0 if none

vars == <<keeps, phase, asks, taken, unread, answer>>

Init ==
    /\ keeps \in BOOLEAN
    /\ phase = [c \in Clients |-> "none"]
    /\ asks = [c \in Clients |-> 0]
    /\ taken = [c \in Clients |-> 0]
    /\ unread = [c \in Clients |-> << >>]
    /\ answer = [c \in Clients |-> 0]

Moves(c, from, to) == phase[c] \in from /\ phase' = [phase EXCEPT ![c] = to]

Ask(c) ==
    /\ Moves(c, {"none", "open"}, "asking")
    /\ asks' = [asks EXCEPT ![c] = @ + 1]
    /\ answer' = [answer EXCEPT ![c] = 0]
    /\ UNCHANGED <<keeps, taken, unread>>

\* The command is taken, and may have an answer.
Take(c) ==
    /\ phase[c] = "asking"
    /\ taken[c] < asks[c]
    /\ taken' = [taken EXCEPT ![c] = asks[c]]
    /\ LET kept == IF keeps THEN unread[c] ELSE << >>
       IN  \E a \in {<< >>, << asks[c] >>} : unread' = [unread EXCEPT ![c] = kept \o a]
    /\ UNCHANGED <<keeps, phase, asks, answer>>

\* Answers are lost, with the connection.
Lose(c) ==
    /\ unread[c] # << >>
    /\ \E left \in {<< >>, Tail(unread[c])} : unread' = [unread EXCEPT ![c] = left]
    /\ UNCHANGED <<keeps, phase, asks, taken, answer>>

\* Only an ask whose command was taken returns.
Return(c) ==
    /\ Moves(c, {"asking"}, "open")
    /\ taken[c] = asks[c]
    /\ unread[c] # << >>
    /\ answer' = [answer EXCEPT ![c] = Head(unread[c])]
    /\ unread' = [unread EXCEPT ![c] = Tail(@)]
    /\ UNCHANGED <<keeps, asks, taken>>

Fail(c) ==
    /\ asks[c] > 1
    /\ Moves(c, {"asking"}, "open")
    /\ UNCHANGED <<keeps, asks, taken, unread, answer>>

\* No instrument, or the wrong one, or no further use for it.
End(c) ==
    /\ \/ Moves(c, {"none", "open"}, "ended")
       \/ asks[c] = 1 /\ Moves(c, {"asking"}, "ended")
    /\ asks' = [asks EXCEPT ![c] = 0]
    /\ taken' = [taken EXCEPT ![c] = 0]
    /\ unread' = [unread EXCEPT ![c] = << >>]
    /\ answer' = [answer EXCEPT ![c] = 0]
    /\ UNCHANGED keeps

Next == \E c \in Clients :
    Ask(c) \/ Take(c) \/ Lose(c) \/ Return(c) \/ Fail(c) \/ End(c)

Spec == Init /\ [][Next]_vars
=============================================================================
