--------------------------- MODULE OperationsProofs ---------------------------
(***************************************************************************)
(* Proofs about Operations, for every instrument, every set of operations  *)
(* and clients, and all bounds.  Those of the first part do not depend on  *)
(* which asks an operation is made of; those of the second are about the   *)
(* commands among them.                                                    *)
(***************************************************************************)
EXTENDS Operations, SequenceTheorems, TLAPS

-----------------------------------------------------------------------------
(* The inductive invariant *)

IsQueue(s) == \E T : s \in Seq(T)

Domains ==
    /\ keeps_output \in BOOLEAN
    /\ DOMAIN unread = Clients /\ DOMAIN todo = Clients /\ DOMAIN result = Clients
    /\ DOMAIN returned = Clients /\ DOMAIN clean = Clients /\ DOMAIN held = Clients
    /\ taken \in [Clients -> BOOLEAN]
    /\ fails \in [Clients -> Nat]

\* A client has, unread, the answers to the asks that failed at most, and that to the
\* ask it is in.
QueueInv(c) ==
    /\ IsQueue(unread[c])
    /\ taken[c] => Busy(c) /\ unread[c] # << >>
    /\ Len(unread[c]) <= IF taken[c] THEN fails[c] + 1 ELSE fails[c]

\* What ask q is told, when it is told what it asked for.
AnswerTo(q, v) == [key |-> IF q.query THEN q.key ELSE Done.key, val |-> v]

\* In one of the states h of the instrument it says v when asked k.
WasSo(h, k, v) == \E now \in h : Says(now, k) = v

\* All that is unread is an answer to q, true in one of the states h.
Told(u, q, h) == \E v : u = << AnswerTo(q, v) >> /\ (q.query => WasSo(h, q.key, v))

\* An operation that began with nothing unread has nothing unread but the answer to the
\* ask it is in, which the instrument gave during the operation.
FreshInv(c) == clean[c] =>
    /\ (Busy(c) /\ ~taken[c] /\ keeps_output) => unread[c] = << >>
    /\ taken[c] => Told(unread[c], Head(todo[c]), held[c])
    /\ result[c] # "panicked"
    /\ \A x \in returned[c] : WasSo(held[c], x[1], x[2])

\* The instrument as it is now is among what is remembered.
HeldInv(c) == Busy(c) => Now \in held[c]

OpInv == Domains /\ \A c \in Clients : QueueInv(c) /\ FreshInv(c) /\ HeldInv(c)

-----------------------------------------------------------------------------
\* Taking a command appends one answer.
LEMMA AppendOne ==
    ASSUME NEW s, IsQueue(s), NEW a
    PROVE  /\ IsQueue(Append(s, a)) /\ Append(s, a) # << >>
           /\ Len(Append(s, a)) = Len(s) + 1 /\ Len(s) \in Nat
<1>1. PICK T : s \in Seq(T)
  BY DEF IsQueue
<1>2. s \in Seq(T \cup {a}) /\ a \in T \cup {a}
  BY <1>1
<1>3. Append(s, a) \in Seq(T \cup {a}) /\ Append(s, a) # << >>
      /\ Len(Append(s, a)) = Len(s) + 1 /\ Len(s) \in Nat
  BY <1>2
<1>4. QED
  BY <1>3 DEF IsQueue

\* An ask that ends reads one.
LEMMA TailOne ==
    ASSUME NEW s, IsQueue(s), s # << >>
    PROVE  IsQueue(Tail(s)) /\ Len(Tail(s)) = Len(s) - 1 /\ Len(s) \in Nat
<1>1. PICK T : s \in Seq(T)
  BY DEF IsQueue
<1>2. Tail(s) \in Seq(T) /\ Len(Tail(s)) = Len(s) - 1 /\ Len(s) \in Nat
  BY <1>1
<1>3. QED
  BY <1>2 DEF IsQueue

LEMMA QueueOfNone ==
    ASSUME NEW s, s = << >>
    PROVE  IsQueue(s) /\ Len(s) = 0
<1>1. s \in Seq({})
  OBVIOUS
<1>2. IsQueue(s)
  BY <1>1, Zenon DEF IsQueue
<1>3. Len(s) = 0
  OBVIOUS
<1>4. QED
  BY <1>2, <1>3

LEMMA InitInv == Init => OpInv
<1> SUFFICES ASSUME Init PROVE OpInv
  OBVIOUS
<1>1. Domains
  BY ConstantsAssumption DEF Init, Domains, ConstantsAssumption
<1>2. ASSUME NEW c \in Clients PROVE QueueInv(c) /\ FreshInv(c) /\ HeldInv(c)
  <2>1. /\ unread[c] = << >> /\ ~Busy(c) /\ ~taken[c] /\ fails[c] = 0 /\ result[c] = "ok"
        /\ returned[c] = {}
    BY DEF Init, Busy
  <2>2. IsQueue(unread[c]) /\ Len(unread[c]) = 0
    BY <2>1, QueueOfNone
  <2>3. QED
    BY <2>1, <2>2 DEF QueueInv, FreshInv, HeldInv
<1>3. QED
  BY <1>1, <1>2 DEF OpInv

\* A client that a step leaves alone.
LEMMA Others ==
    ASSUME OpInv, NEW d \in Clients,
           keeps_output' = keeps_output, unread'[d] = unread[d], todo'[d] = todo[d],
           taken'[d] = taken[d], fails'[d] = fails[d], result'[d] = result[d],
           returned'[d] = returned[d], clean'[d] = clean[d], held[d] \subseteq held'[d],
           Busy(d) => Now' \in held'[d]
    PROVE  QueueInv(d)' /\ FreshInv(d)' /\ HeldInv(d)'
<1>1. Busy(d)' = Busy(d)
  BY DEF Busy
<1>2. QueueInv(d)' /\ HeldInv(d)'
  BY <1>1 DEF OpInv, QueueInv, HeldInv
<1>3. \A k, v : WasSo(held[d], k, v) => WasSo(held'[d], k, v)
  BY DEF WasSo
<1>4. \A u, q : Told(u, q, held[d]) => Told(u, q, held'[d])
  BY <1>3 DEF Told
<1>6. FreshInv(d)'
  BY <1>1, <1>3, <1>4 DEF OpInv, FreshInv
<1>5. QED
  BY <1>2, <1>6

LEMMA BeginStep ==
    ASSUME OpInv, NEW c \in Clients, NEW o, Begin(c, o)
    PROVE  OpInv'
<1>1. /\ UNCHANGED <<unread, taken, fails, keeps_output>> /\ Now' = Now
      /\ ~Busy(c)
  BY DEF Begin, instrumentVars, Now
<1>2. Domains'
  BY <1>1 DEF Begin, OpInv, Domains
<1>3. ASSUME NEW d \in Clients, d # c PROVE QueueInv(d)' /\ FreshInv(d)' /\ HeldInv(d)'
  BY <1>1, <1>3, Others DEF Begin, OpInv, HeldInv
<1>4. /\ ~taken[c] /\ returned'[c] = {} /\ result'[c] # "panicked" /\ Now \in held'[c]
      /\ clean'[c] = (~keeps_output \/ unread[c] = << >>)
  BY <1>1 DEF Begin, OpInv, Domains, QueueInv
<1>5. QueueInv(c)' /\ FreshInv(c)' /\ HeldInv(c)'
  BY <1>1, <1>4 DEF OpInv, QueueInv, FreshInv, HeldInv
<1>6. QED
  BY <1>2, <1>3, <1>5 DEF OpInv

LEMMA TakeStep ==
    ASSUME OpInv, NEW c \in Clients, Take(c)
    PROVE  OpInv'
<1> DEFINE q == Head(todo[c])
           a == IF q.query THEN [key |-> q.key, val |-> Says(Now, q.key)] ELSE Done
           v == a.val
           kept == IF keeps_output THEN unread[c] ELSE << >>
<1>1. /\ UNCHANGED <<keeps_output, todo, result, returned, fails, clean>>
      /\ Busy(c) /\ ~taken[c] /\ Remember
  BY DEF Take
<1>2. /\ taken' = [taken EXCEPT ![c] = TRUE]
      /\ unread' = [unread EXCEPT ![c] = Append(kept, a)]
  BY DEF Take
<1>3. Domains'
  BY <1>1, <1>2 DEF Remember, OpInv, Domains
<1>4. \A d \in Clients : held[d] \subseteq held'[d] /\ (Busy(d) => Now' \in held'[d])
  BY <1>1 DEF Remember
<1>5. ASSUME NEW d \in Clients, d # c PROVE QueueInv(d)' /\ FreshInv(d)' /\ HeldInv(d)'
  BY <1>1, <1>2, <1>4, <1>5, Others DEF OpInv, Domains
<1>6. taken'[c] /\ unread'[c] = Append(kept, a) /\ fails'[c] = fails[c]
  BY <1>1, <1>2 DEF OpInv, Domains
<1>7. Busy(c)' /\ HeldInv(c)'
  BY <1>1, <1>4 DEF Busy, HeldInv
<1>8. a = AnswerTo(q, v)
  BY DEF AnswerTo, Done
<1> HIDE DEF a, v
<1>9. QueueInv(c)'
  <2>1. fails[c] \in Nat
    BY DEF OpInv, Domains
  <2>2. IsQueue(unread[c]) /\ Len(unread[c]) <= fails[c]
    BY <1>1 DEF OpInv, QueueInv
  <2>3. kept = << >> => IsQueue(kept) /\ Len(kept) = 0
    BY QueueOfNone
  <2>4. IsQueue(kept) /\ Len(kept) <= fails[c]
    BY <2>1, <2>2, <2>3
  <2> HIDE DEF kept
  <2>5. QED
    BY <1>6, <1>7, <2>1, <2>4, AppendOne DEF QueueInv
<1>10. q.query => WasSo(held'[c], q.key, v)
  BY <1>1, <1>4 DEF OpInv, HeldInv, WasSo, v, a
<1>11. clean[c] => kept = << >>
  BY <1>1 DEF OpInv, FreshInv
<1>12. \A k, w : WasSo(held[c], k, w) => WasSo(held'[c], k, w)
  BY <1>4 DEF WasSo
<1>13. Append(<< >>, a) = << a >>
  OBVIOUS
<1> HIDE DEF q
<1>14. FreshInv(c)'
  <2> SUFFICES ASSUME clean[c] PROVE FreshInv(c)'
    BY <1>1 DEF FreshInv
  <2>1. /\ result'[c] # "panicked" /\ taken'[c]
        /\ \A x \in returned'[c] : WasSo(held'[c], x[1], x[2])
    BY <1>1, <1>6, <1>12 DEF OpInv, FreshInv
  <2>2. unread'[c] = << AnswerTo(q, v) >> /\ q = Head(todo'[c])
    BY <1>1, <1>6, <1>8, <1>11, <1>13 DEF q
  <2>3. Told(unread'[c], Head(todo'[c]), held'[c])
    BY <1>10, <2>2 DEF Told
  <2>4. QED
    BY <2>1, <2>3 DEF FreshInv
<1>15. QED
  BY <1>3, <1>5, <1>7, <1>9, <1>14 DEF OpInv

\* The end of an ask that reads an answer.
LEMMA AnsweredStep ==
    ASSUME OpInv, NEW c \in Clients, Answered(c)
    PROVE  OpInv'
<1> DEFINE q == Head(todo[c])
           a == Head(unread[c])
           v == ValueOf(q, a)
<1>1. /\ taken[c] /\ taken' = [taken EXCEPT ![c] = FALSE]
      /\ unread' = [unread EXCEPT ![c] = Tail(@)]
      /\ UNCHANGED <<keeps_output, fails, clean, held>> /\ Now' = Now
  BY DEF Answered, instrumentVars, historyVars, Now
<1>2. \E rest : /\ todo' = [todo EXCEPT ![c] = rest]
                /\ result' = [result EXCEPT ![c] = IF rest = << >> THEN "ok" ELSE @]
  BY DEF Answered
<1>3. returned' = [returned EXCEPT ![c] = IF q.query THEN @ \cup {<<q.key, v>>} ELSE @]
  BY DEF Answered
<1>4. Domains'
  BY <1>1, <1>2, <1>3 DEF OpInv, Domains
<1>5. ASSUME NEW d \in Clients, d # c PROVE QueueInv(d)' /\ FreshInv(d)' /\ HeldInv(d)'
  BY <1>1, <1>2, <1>3, <1>5, Others DEF OpInv, Domains, HeldInv
<1>6. /\ ~taken'[c] /\ unread'[c] = Tail(unread[c]) /\ Busy(c) /\ unread[c] # << >>
      /\ IsQueue(unread[c]) /\ Len(unread[c]) <= fails[c] + 1 /\ fails[c] \in Nat
  BY <1>1 DEF OpInv, Domains, QueueInv
<1>7. QueueInv(c)' /\ HeldInv(c)'
  <2>1. IsQueue(unread'[c]) /\ Len(unread'[c]) <= fails[c]
    BY <1>6, TailOne
  <2>2. QueueInv(c)'
    BY <1>1, <1>6, <2>1 DEF QueueInv
  <2>3. HeldInv(c)'
    BY <1>1, <1>6 DEF OpInv, HeldInv
  <2>4. QED
    BY <2>2, <2>3
<1> HIDE DEF v, a
<1>8. ASSUME clean[c]
      PROVE  unread'[c] = << >> /\ (q.query => WasSo(held[c], q.key, v))
  <2>1. PICK w : unread[c] = << AnswerTo(q, w) >> /\ (q.query => WasSo(held[c], q.key, w))
    BY <1>1, <1>8 DEF OpInv, FreshInv, Told
  <2>2. a = AnswerTo(q, w) /\ Tail(unread[c]) = << >>
    BY <2>1 DEF a
  <2>3. q.query => v = w
    BY <2>2 DEF v, ValueOf, AnswerTo
  <2>4. QED
    BY <1>6, <2>1, <2>2, <2>3
<1>9. FreshInv(c)'
  <2> SUFFICES ASSUME clean[c] PROVE FreshInv(c)'
    BY <1>1 DEF FreshInv
  <2>1. result'[c] # "panicked"
    BY <1>2 DEF OpInv, Domains, FreshInv
  <2>2. \A x \in returned'[c] : x \in returned[c] \/ (q.query /\ x = <<q.key, v>>)
    BY <1>3 DEF OpInv, Domains
  <2>3. \A x \in returned[c] : WasSo(held[c], x[1], x[2])
    BY DEF OpInv, FreshInv
  <2> HIDE DEF q
  <2>4. \A x \in returned'[c] : WasSo(held[c], x[1], x[2])
    BY <1>8, <2>2, <2>3
  <2>5. QED
    BY <1>1, <1>6, <1>8, <2>1, <2>4 DEF FreshInv
<1>10. QED
  BY <1>4, <1>5, <1>7, <1>9 DEF OpInv

\* An operation that gives up.
LEMMA EndsStep ==
    ASSUME OpInv, NEW c \in Clients, Misanswered(c) \/ Fails(c)
    PROVE  OpInv'
<1>1. PICK r : /\ Ends(c, r)
               /\ Fails(c) => r = "err"
               /\ ~Fails(c) => /\ taken[c] /\ Misanswered(c)
                               /\ r \in Outcomes(Head(todo[c]), Head(unread[c])) \ {"ok"}
  BY DEF Misanswered, Fails
<1>2. /\ taken' = [taken EXCEPT ![c] = FALSE]
      /\ todo' = [todo EXCEPT ![c] = << >>]
      /\ result' = [result EXCEPT ![c] = r]
      /\ returned' = [returned EXCEPT ![c] = {}]
      /\ held' = [held EXCEPT ![c] = {}]
      /\ UNCHANGED <<keeps_output, clean>> /\ Now' = Now
  BY <1>1 DEF Misanswered, Fails, Ends, instrumentVars, Now
<1>3. \/ unread' = unread /\ fails' = [fails EXCEPT ![c] = @ + 1]
      \/ taken[c] /\ unread' = [unread EXCEPT ![c] = Tail(@)] /\ fails' = fails
  BY <1>1 DEF Misanswered, Fails
<1>4. Domains'
  BY <1>2, <1>3 DEF OpInv, Domains
<1>5. ASSUME NEW d \in Clients, d # c PROVE QueueInv(d)' /\ FreshInv(d)' /\ HeldInv(d)'
  BY <1>2, <1>3, <1>5, Others DEF OpInv, Domains, HeldInv
<1>6. /\ ~taken'[c] /\ ~Busy(c)' /\ result'[c] = r /\ returned'[c] = {}
  BY <1>2 DEF OpInv, Domains, Busy
<1>7. QueueInv(c)'
  <2>1. /\ IsQueue(unread[c]) /\ fails[c] \in Nat /\ (taken[c] => unread[c] # << >>)
        /\ Len(unread[c]) <= fails[c] + 1
        /\ taken[c] \/ Len(unread[c]) <= fails[c]
    BY DEF OpInv, Domains, QueueInv
  <2>2. CASE unread' = unread /\ fails' = [fails EXCEPT ![c] = @ + 1]
    BY <1>6, <2>1, <2>2 DEF OpInv, Domains, QueueInv
  <2>3. CASE taken[c] /\ unread' = [unread EXCEPT ![c] = Tail(@)] /\ fails' = fails
    BY <1>6, <2>1, <2>3, TailOne DEF OpInv, Domains, QueueInv
  <2>4. QED
    BY <1>3, <2>2, <2>3
<1>8. ASSUME clean[c] PROVE r # "panicked"
  <2>1. CASE Fails(c)
    BY <1>1, <2>1
  <2>2. CASE ~Fails(c)
    <3>1. PICK w : unread[c] = << AnswerTo(Head(todo[c]), w) >>
      BY <1>1, <1>8, <2>2 DEF OpInv, FreshInv, Told
    <3>2. Head(unread[c]) = AnswerTo(Head(todo[c]), w)
      BY <3>1
    <3>3. Parses(Head(todo[c]), AnswerTo(Head(todo[c]), w))
      BY DEF Parses, AnswerTo
    <3>4. QED
      BY <1>1, <2>2, <3>2, <3>3 DEF Outcomes
  <2>3. QED
    BY <2>1, <2>2
<1>9. FreshInv(c)' /\ HeldInv(c)'
  BY <1>2, <1>6, <1>8 DEF FreshInv, HeldInv
<1>10. QED
  BY <1>4, <1>5, <1>7, <1>9 DEF OpInv

LEMMA AcquireStep == ASSUME OpInv, Acquire PROVE OpInv'
<1>1. /\ UNCHANGED <<keeps_output, unread, todo, taken, result, returned, fails, clean>>
      /\ Remember
  BY DEF Acquire
<1>2. Domains'
  BY <1>1 DEF Remember, OpInv, Domains
<1>3. \A d \in Clients : held[d] \subseteq held'[d] /\ (Busy(d) => Now' \in held'[d])
  BY <1>1 DEF Remember
<1>4. ASSUME NEW d \in Clients PROVE QueueInv(d)' /\ FreshInv(d)' /\ HeldInv(d)'
  BY <1>1, <1>3, Others
<1>5. QED
  BY <1>2, <1>4 DEF OpInv

LEMMA OpStep == OpInv /\ [Next]_vars => OpInv'
<1> SUFFICES ASSUME OpInv, [Next]_vars PROVE OpInv'
  OBVIOUS
<1>1. CASE Next
  BY <1>1, BeginStep, TakeStep, AnsweredStep, EndsStep, AcquireStep DEF Next
<1>2. CASE UNCHANGED vars
  <2>1. Domains' /\ Now' = Now
    BY <1>2 DEF vars, instrumentVars, historyVars, OpInv, Domains, Now
  <2>2. ASSUME NEW d \in Clients PROVE QueueInv(d)' /\ FreshInv(d)' /\ HeldInv(d)'
    BY <1>2, <2>1, Others DEF vars, instrumentVars, historyVars, OpInv, HeldInv
  <2>3. QED
    BY <2>1, <2>2 DEF OpInv
<1>3. QED
  BY <1>1, <1>2

THEOREM Invariant == Spec => []OpInv
  BY InitInv, OpStep, PTL DEF Spec

-----------------------------------------------------------------------------
\* What an operation that began with nothing unread returns was true of the instrument
\* during the call, of the setting it asked for.
THEOREM ValuesAreTrue == Spec => []ValuesWereHeld
<1>1. OpInv => ValuesWereHeld
  BY DEF OpInv, FreshInv, WasSo, ValuesWereHeld
<1>2. QED
  BY <1>1, Invariant, PTL

\* No operation panics that began with nothing unread.
THEOREM PanicsAreStale == Spec => []PanicsOnlyWhenStale
<1>1. OpInv => PanicsOnlyWhenStale
  BY DEF OpInv, FreshInv, PanicsOnlyWhenStale
<1>2. QED
  BY <1>1, Invariant, PTL

\* A client lags behind by no more answers than it has had asks fail.
THEOREM LagIsBounded == Spec => []LagBounded
<1>1. OpInv => LagBounded
  BY DEF OpInv, QueueInv, LagBounded
<1>2. QED
  BY <1>1, Invariant, PTL

-----------------------------------------------------------------------------
(* Commands *)

\* Setting k is to be v before operation o returns Ok: the operation commands it ...
Owes(o, k, v) ==
    \/ /\ o.name \in DOMAIN Set \ {"arm", "force_trigger"}
       /\ k = <<Set[o.name], o.ch>> /\ v = o.to
    \/ o.name = "arm_single" /\ k = <<"TRMD", 0>> /\ v = "SINGLE"
    \/ o.name = "set_operating_channel" /\ k = <<"INST", 0>> /\ v = Inst[o.ch]
    \/ o.name = "enable_output" /\ k = <<"OUTP", o.ch>> /\ v = "ON"
    \/ o.name = "disable_output" /\ k = <<"OUTP", o.ch>> /\ v = "OFF"

\* ... or looks, and commands it if need be.
Looks(o, k, v) ==
    \/ o.name = "set_output" /\ k = <<"OUTP", o.ch>> /\ v = o.to
    \/ o.name \in {"enable_output", "disable_output"} /\ k = <<"INST", 0>> /\ v = Inst[o.ch]

Commands(o) == o.name \in DOMAIN Set \cup {"arm_single", "set_operating_channel", "set_output",
                                          "enable_output", "disable_output"}

CommandTo(k, v) == [key |-> k, query |-> FALSE, to |-> v]

\* Among the asks t is the command that sets k to v, and has not been taken.
Pending(t, tk, k, v) == \E i \in DOMAIN t : t[i] = CommandTo(k, v) /\ (i = 1 => ~tk)

\* The ask under way is the query of k.
Looking(t, k) == t # << >> /\ Head(t).query /\ Head(t).key = k

\* What an operation owes has been so, or its command is still to be sent; and what it
\* looks at has been so, is being looked at, or is to be commanded.
DutyInv(c) ==
    /\ op[c] \in Requests[model] \/ op[c].name = "none"
    /\ Busy(c) => result[c] = "none" /\ ChanOk(op[c])
    /\ Commands(op[c]) => IsQueue(todo[c])
    /\ result[c] \in {"none", "ok"} => \A k, v :
          /\ Owes(op[c], k, v) => WasSo(held[c], k, v) \/ Pending(todo[c], taken[c], k, v)
          /\ (Looks(op[c], k, v) /\ clean[c]) =>
                \/ WasSo(held[c], k, v)
                \/ Pending(todo[c], taken[c], k, v)
                \/ Looking(todo[c], k)

InstrumentInv == model \in Models /\ DOMAIN setting = Settings(model) /\ DOMAIN op = Clients

CmdInv == OpInv /\ InstrumentInv /\ \A c \in Clients : DutyInv(c)

-----------------------------------------------------------------------------
LEMMA CmdInit == Init => CmdInv
<1> SUFFICES ASSUME Init PROVE CmdInv
  OBVIOUS
<1>1. InstrumentInv
  BY DEF Init, InstrumentInv
<1>2. ASSUME NEW c \in Clients PROVE DutyInv(c)
  <2>1. /\ op[c].name = "none" /\ todo[c] = << >>
    BY DEF Init
  <2>2. ~Commands(op[c])
    BY <2>1 DEF Commands, Set
  <2>3. \A k, v : ~Owes(op[c], k, v) /\ ~Looks(op[c], k, v)
    BY <2>2 DEF Owes, Looks, Commands
  <2>4. QED
    BY <2>1, <2>2, <2>3 DEF DutyInv, Busy
<1>3. QED
  BY <1>1, <1>2, InitInv DEF CmdInv

\* What RequestsAssumption says of each name.
LEMMA RequestsAreKnown ==
    ASSUME NEW m \in Models, NEW o \in Requests[m], ChanOk(o)
    PROVE  /\ o.name \in DOMAIN Get => <<Get[o.name], o.ch>> \in Keys(m)
           /\ o.name \in DOMAIN Set \ {"arm", "force_trigger"} =>
                 <<Set[o.name], o.ch>> \in Settings(m)
           /\ o.name \in {"arm", "force_trigger", "arm_single", "transfer_waveform"}
                         \cup Captures => m = "SDS"
           /\ o.name = "set_output" => m = "SDG"
           /\ o.name \in {"set_operating_channel", "enable_output", "disable_output"} =>
                 m = "SPD"
           /\ o.name \in {"transfer_waveform", "get_channel_state", "set_output",
                          "set_operating_channel", "enable_output", "disable_output"} =>
                 o.ch \in {1, 2}
           /\ o.name \in DOMAIN Get \cup DOMAIN Set \cup Captures
                  \cup {"arm_single", "transfer_waveform", "get_channel_state", "get_full_state",
                        "set_output", "set_operating_channel", "enable_output", "disable_output"}
<1>1. o.ch \in {0, 1, 2}
  BY DEF ChanOk
<1>2. \/ o.name \in DOMAIN Get /\ <<Get[o.name], o.ch>> \in Keys(m)
      \/ o.name \in DOMAIN Set \ {"arm", "force_trigger"} /\ <<Set[o.name], o.ch>> \in Settings(m)
      \/ o.name \in {"arm", "force_trigger", "arm_single"} \cup Captures /\ m = "SDS"
      \/ o.name = "transfer_waveform" /\ m = "SDS" /\ o.ch # 0
      \/ o.name = "get_channel_state" /\ o.ch # 0
      \/ o.name = "get_full_state"
      \/ o.name = "set_output" /\ m = "SDG" /\ o.ch # 0
      \/ /\ o.name \in {"set_operating_channel", "enable_output", "disable_output"}
         /\ m = "SPD" /\ o.ch # 0
  BY <1>1, RequestsAssumption DEF RequestsAssumption
<1>3. CASE o.name \in DOMAIN Get /\ <<Get[o.name], o.ch>> \in Keys(m)
  BY <1>3 DEF Get, Set, Captures
<1>4. CASE o.name \in DOMAIN Set \ {"arm", "force_trigger"} /\ <<Set[o.name], o.ch>> \in Settings(m)
  BY <1>4 DEF Get, Set, Captures
<1>5. CASE o.name \notin DOMAIN Get \cup (DOMAIN Set \ {"arm", "force_trigger"})
  BY <1>1, <1>2, <1>5 DEF Set, Captures
<1>6. QED
  BY <1>2, <1>3, <1>4, <1>5 DEF Get, Set, Captures

\* What an operation promises is about a setting of its model.
LEMMA DutiesAreSettings ==
    ASSUME NEW m \in Models, NEW o \in Requests[m], ChanOk(o), NEW k, NEW v,
           Owes(o, k, v) \/ Looks(o, k, v)
    PROVE  k \in Settings(m) /\ k[1] \notin {"WF", "SAST", "ARM"}
<1>1. k \in Settings(m)
  <2>1. m = "SDS" => <<"TRMD", 0>> \in Settings(m)
    BY DEF Settings, Keys, Global
  <2>2. m = "SPD" => <<"INST", 0>> \in Settings(m)
    BY DEF Settings, Keys, Global
  <2>3. CASE o.name \in DOMAIN Set \ {"arm", "force_trigger"} /\ k = <<Set[o.name], o.ch>>
    BY <2>3, RequestsAreKnown
  <2>4. CASE o.name = "arm_single" /\ k = <<"TRMD", 0>>
    BY <2>1, <2>4, RequestsAreKnown
  <2>5. CASE /\ o.name \in {"set_operating_channel", "enable_output", "disable_output"}
             /\ k = <<"INST", 0>>
    BY <2>2, <2>5, RequestsAreKnown
  <2>6. CASE /\ o.name \in {"set_output", "enable_output", "disable_output"}
             /\ k = <<"OUTP", o.ch>>
    <3>1. m \in {"SDG", "SPD"} /\ o.ch \in {1, 2}
      BY <2>6, RequestsAreKnown
    <3>2. QED
      BY <2>6, <3>1 DEF Settings, Keys, PerChannel
  <2>7. QED
    BY <2>3, <2>4, <2>5, <2>6 DEF Owes, Looks
<1>2. QED
  BY <1>1 DEF Settings

\* An instrument whose setting k is v says so.
LEMMA SaysSetting ==
    ASSUME NEW now, NEW k \in DOMAIN now.setting, k[1] \notin {"WF", "SAST"}
    PROVE  Says(now, k) = now.setting[k]
  BY DEF Says

\* The asks an operation begins with.
LEMMA PlanOfSet ==
    ASSUME NEW m, NEW o, o.name \in DOMAIN Set
    PROVE  Plan(m, o) = << Command(Set[o.name], o.ch, o.to) >>
<1>1. o.name \notin DOMAIN Get
  BY DEF Set, Get
<1>2. o.name \notin {"set_operating_channel", "set_output", "enable_output", "disable_output",
                    "get_channel_state", "get_full_state", "arm_single", "transfer_waveform",
                    "01_uart_decode", "02_oscillator_compare", "oscillator_resonance"}
  BY DEF Set
<1>3. QED
  BY <1>1, <1>2 DEF Plan

LEMMA PlanOfOthers ==
    ASSUME NEW m, NEW o
    PROVE  /\ o.name = "arm_single" => Plan(m, o) = ArmSingle
           /\ o.name = "set_operating_channel" => Plan(m, o) = << Command("INST", 0, Inst[o.ch]) >>
           /\ o.name = "set_output" => Plan(m, o) = << Query("OUTP", o.ch) >>
           /\ o.name = "enable_output" =>
                 Plan(m, o) = << Query("INST", 0), Command("OUTP", o.ch, "ON") >>
           /\ o.name = "disable_output" =>
                 Plan(m, o) = << Query("INST", 0), Command("OUTP", o.ch, "OFF") >>
<1>1. o.name \in {"arm_single", "set_operating_channel", "set_output", "enable_output",
                 "disable_output"} => o.name \notin DOMAIN Get \cup DOMAIN Set
  BY DEF Set, Get
<1>2. QED
  BY <1>1 DEF Plan

LEMMA PlanKeepsPromises ==
    ASSUME NEW m, NEW o, Commands(o), NEW t, t = Plan(m, o)
    PROVE  /\ IsQueue(t)
           /\ \A k, v : /\ Owes(o, k, v) => Pending(t, FALSE, k, v)
                        /\ Looks(o, k, v) => Looking(t, k)
<1>1. CASE o.name \in DOMAIN Set
  <2>1. t = << CommandTo(<<Set[o.name], o.ch>>, o.to) >>
    BY <1>1, PlanOfSet DEF Command, CommandTo
  <2>2. IsQueue(t)
    <3>1. t \in Seq({CommandTo(<<Set[o.name], o.ch>>, o.to)})
      BY <2>1
    <3>2. QED
      BY <3>1, Zenon DEF IsQueue
  <2>3. o.name \notin {"arm_single", "set_operating_channel", "set_output", "enable_output",
                      "disable_output"}
    BY <1>1 DEF Set
  <2>4. \A k, v : ~Looks(o, k, v) /\ (Owes(o, k, v) => k = <<Set[o.name], o.ch>> /\ v = o.to)
    BY <2>3 DEF Owes, Looks
  <2>5. \A k, v : Owes(o, k, v) => 1 \in DOMAIN t /\ t[1] = CommandTo(k, v)
    BY <2>1, <2>4
  <2>6. QED
    BY <2>2, <2>4, <2>5 DEF Pending
<1>2. CASE o.name = "arm_single"
  <2>1. t = << CommandTo(<<"TRMD", 0>>, "SINGLE"), CommandTo(<<"ARM", 0>>, "none") >>
    BY <1>2, PlanOfOthers DEF ArmSingle, Command, CommandTo
  <2>2. IsQueue(t)
    <3>1. t \in Seq({CommandTo(<<"TRMD", 0>>, "SINGLE"), CommandTo(<<"ARM", 0>>, "none")})
      BY <2>1
    <3>2. QED
      BY <3>1, Zenon DEF IsQueue
  <2>3. \A k, v : ~Looks(o, k, v) /\ (Owes(o, k, v) => k = <<"TRMD", 0>> /\ v = "SINGLE")
    BY <1>2 DEF Owes, Looks, Set
  <2>4. 1 \in DOMAIN t /\ t[1] = CommandTo(<<"TRMD", 0>>, "SINGLE")
    BY <2>1
  <2>5. QED
    BY <2>2, <2>3, <2>4 DEF Pending
<1>3. CASE o.name = "set_operating_channel"
  <2>1. t = << CommandTo(<<"INST", 0>>, Inst[o.ch]) >>
    BY <1>3, PlanOfOthers DEF Command, CommandTo
  <2>2. IsQueue(t)
    <3>1. t \in Seq({CommandTo(<<"INST", 0>>, Inst[o.ch])})
      BY <2>1
    <3>2. QED
      BY <3>1, Zenon DEF IsQueue
  <2>3. \A k, v : ~Looks(o, k, v) /\ (Owes(o, k, v) => k = <<"INST", 0>> /\ v = Inst[o.ch])
    BY <1>3 DEF Owes, Looks, Set
  <2>4. 1 \in DOMAIN t /\ t[1] = CommandTo(<<"INST", 0>>, Inst[o.ch])
    BY <2>1
  <2>5. QED
    BY <2>2, <2>3, <2>4 DEF Pending
<1>4. CASE o.name = "set_output"
  <2>1. t = << Query("OUTP", o.ch) >>
    BY <1>4, PlanOfOthers
  <2>2. IsQueue(t)
    <3>1. t \in Seq({Query("OUTP", o.ch)})
      BY <2>1
    <3>2. QED
      BY <3>1, Zenon DEF IsQueue
  <2>3. \A k, v : ~Owes(o, k, v) /\ (Looks(o, k, v) => k = <<"OUTP", o.ch>>)
    BY <1>4 DEF Owes, Looks, Set
  <2>4. Looking(t, <<"OUTP", o.ch>>)
    BY <2>1 DEF Looking, Query
  <2>5. QED
    BY <2>2, <2>3, <2>4
<1>5. ASSUME NEW to, \/ o.name = "enable_output" /\ to = "ON"
                     \/ o.name = "disable_output" /\ to = "OFF"
      PROVE  /\ IsQueue(t)
             /\ \A k, v : /\ Owes(o, k, v) => Pending(t, FALSE, k, v)
                          /\ Looks(o, k, v) => Looking(t, k)
  <2>1. t = << Query("INST", 0), CommandTo(<<"OUTP", o.ch>>, to) >>
    BY <1>5, PlanOfOthers DEF Command, CommandTo
  <2>2. IsQueue(t)
    <3>1. t \in Seq({Query("INST", 0), CommandTo(<<"OUTP", o.ch>>, to)})
      BY <2>1
    <3>2. QED
      BY <3>1, Zenon DEF IsQueue
  <2>3. \A k, v : /\ Owes(o, k, v) => k = <<"OUTP", o.ch>> /\ v = to
                  /\ Looks(o, k, v) => k = <<"INST", 0>>
    BY <1>5 DEF Owes, Looks, Set
  <2>4. Looking(t, <<"INST", 0>>)
    BY <2>1 DEF Looking, Query
  <2>5. 2 \in DOMAIN t /\ t[2] = CommandTo(<<"OUTP", o.ch>>, to)
    BY <2>1
  <2>6. \A k, v : Looks(o, k, v) => Looking(t, k)
    BY <2>3, <2>4, Zenon
  <2>7. \A k, v : Owes(o, k, v) => t[2] = CommandTo(k, v)
    BY <2>3, <2>5
  <2>8. \A k, v : Owes(o, k, v) => Pending(t, FALSE, k, v)
    BY <2>5, <2>7 DEF Pending
  <2>9. QED
    BY <2>2, <2>6, <2>8, Zenon
<1>6. CASE o.name = "enable_output"
  BY <1>5, <1>6, Zenon
<1>7. CASE o.name = "disable_output"
  BY <1>5, <1>7, Zenon
<1>8. QED
  BY <1>1, <1>2, <1>3, <1>4, <1>6, <1>7, Zenon DEF Commands

-----------------------------------------------------------------------------
\* A client that a step leaves alone.
LEMMA CmdOthers ==
    ASSUME NEW d \in Clients, DutyInv(d),
           model' = model, op'[d] = op[d], todo'[d] = todo[d], taken'[d] = taken[d],
           result'[d] = result[d], clean'[d] = clean[d], held[d] \subseteq held'[d]
    PROVE  DutyInv(d)'
<1>1. \A k, v : WasSo(held[d], k, v) => WasSo(held'[d], k, v)
  BY DEF WasSo
<1>2. (Busy(d) = Busy(d)') /\ (Busy(d)' => result'[d] = "none" /\ ChanOk(op'[d]))
  BY DEF DutyInv, Busy
<1>3. ASSUME result[d] \in {"none", "ok"}, NEW k, NEW v
      PROVE  /\ Owes(op[d], k, v) => \/ WasSo(held'[d], k, v)
                                     \/ Pending(todo[d], taken[d], k, v)
             /\ (Looks(op[d], k, v) /\ clean[d]) =>
                   \/ WasSo(held'[d], k, v)
                   \/ Pending(todo[d], taken[d], k, v)
                   \/ Looking(todo[d], k)
  BY <1>1, <1>3, Zenon DEF DutyInv
<1>4. QED
  BY <1>2, <1>3 DEF DutyInv

LEMMA CmdBegin ==
    ASSUME CmdInv, NEW c \in Clients, NEW o \in Requests[model], Begin(c, o)
    PROVE  InstrumentInv' /\ \A d \in Clients : DutyInv(d)'
<1>1. /\ UNCHANGED <<model, setting, taken>>
      /\ op' = [op EXCEPT ![c] = o]
      /\ todo' = [todo EXCEPT ![c] = IF ChanOk(o) THEN Plan(model, o) ELSE << >>]
      /\ result' = [result EXCEPT ![c] = IF ChanOk(o) THEN "none" ELSE "err"]
      /\ ~taken[c]
  BY DEF Begin, instrumentVars, CmdInv, OpInv, QueueInv
<1>2. InstrumentInv'
  BY <1>1 DEF InstrumentInv, CmdInv
<1>3. ASSUME NEW d \in Clients, d # c PROVE DutyInv(d)'
  BY <1>1, <1>3, CmdOthers DEF CmdInv, OpInv, Domains, InstrumentInv, Begin
<1>4. /\ op'[c] = o /\ ~taken'[c] /\ o \in Requests[model']
      /\ todo'[c] = IF ChanOk(o) THEN Plan(model, o) ELSE << >>
      /\ result'[c] = IF ChanOk(o) THEN "none" ELSE "err"
  BY <1>1 DEF CmdInv, OpInv, Domains, InstrumentInv
<1>5. CASE ~ChanOk(o)
  <2>1. todo'[c] = << >> /\ IsQueue(todo'[c]) /\ result'[c] = "err"
    BY <1>4, <1>5, QueueOfNone
  <2>2. QED
    BY <1>2, <1>3, <1>4, <2>1 DEF DutyInv, Busy
<1>6. CASE ChanOk(o)
  <2>1. todo'[c] = Plan(model, o) /\ result'[c] = "none"
    BY <1>4, <1>6
  <2>2. Commands(o) => IsQueue(todo'[c])
    BY <2>1, PlanKeepsPromises
  <2>3. ~Commands(o) => \A k, v : ~Owes(o, k, v) /\ ~Looks(o, k, v)
    BY DEF Commands, Owes, Looks
  <2>4. \A k, v : /\ Owes(o, k, v) => Pending(todo'[c], taken'[c], k, v)
                  /\ Looks(o, k, v) => Looking(todo'[c], k)
    <3>1. taken'[c] = FALSE
      BY <1>1, <1>4 DEF CmdInv, OpInv, Domains
    <3>2. QED
      BY <2>1, <2>3, <3>1, PlanKeepsPromises
  <2>5. DutyInv(c)'
    BY <1>4, <1>6, <2>1, <2>2, <2>4 DEF DutyInv
  <2>6. QED
    BY <1>2, <1>3, <2>5
<1>7. QED
  BY <1>5, <1>6

\* The instrument takes a command: that setting is as commanded.
LEMMA CmdTake ==
    ASSUME CmdInv, NEW c \in Clients, Take(c)
    PROVE  InstrumentInv' /\ \A d \in Clients : DutyInv(d)'
<1> DEFINE q == Head(todo[c])
<1>1. /\ UNCHANGED <<model, op, todo, result, clean>>
      /\ Busy(c) /\ ~taken[c] /\ Remember /\ Effect(q)
      /\ taken' = [taken EXCEPT ![c] = TRUE]
  BY DEF Take
<1>2. InstrumentInv'
  BY <1>1 DEF InstrumentInv, CmdInv, Effect
<1>3. \A d \in Clients : held[d] \subseteq held'[d]
  BY <1>1 DEF Remember
<1>4. ASSUME NEW d \in Clients, d # c PROVE DutyInv(d)'
  BY <1>1, <1>3, <1>4, CmdOthers DEF CmdInv, OpInv, Domains
<1>5. Now' \in held'[c] /\ taken'[c] = TRUE
  BY <1>1 DEF Remember, CmdInv, OpInv, Domains
<1>6. \A k, v : WasSo(held[c], k, v) => WasSo(held'[c], k, v)
  BY <1>3 DEF WasSo
<1>7. /\ result[c] = "none" /\ ChanOk(op[c])
      /\ op[c] \in Requests[model] \/ op[c].name = "none"
      /\ model \in Models
  BY <1>1 DEF CmdInv, DutyInv, InstrumentInv
<1>8. ASSUME NEW k, NEW v, Owes(op[c], k, v) \/ Looks(op[c], k, v),
             Pending(todo[c], taken[c], k, v)
      PROVE  WasSo(held'[c], k, v) \/ Pending(todo[c], TRUE, k, v)
  <2>1. PICK i \in DOMAIN todo[c] : todo[c][i] = CommandTo(k, v)
    BY <1>8 DEF Pending
  <2>2. CASE i # 1
    BY <2>1, <2>2 DEF Pending
  <2>3. CASE i = 1
    <3>1. op[c].name # "none"
      BY <1>8 DEF Owes, Looks, Set
    <3>2. k \in DOMAIN setting /\ k[1] \notin {"WF", "SAST", "ARM"}
      BY <1>7, <1>8, <3>1, DutiesAreSettings DEF CmdInv, InstrumentInv
    <3>3. q = CommandTo(k, v)
      BY <2>1, <2>3
    <3> HIDE DEF q
    <3>4. setting' = [setting EXCEPT ![k] = v]
      BY <1>1, <3>2, <3>3 DEF Effect, CommandTo
    <3>5. k \in DOMAIN Now'.setting /\ Now'.setting[k] = v
      BY <3>2, <3>4 DEF Now
    <3>6. Says(Now', k) = v
      BY <3>2, <3>5, SaysSetting
    <3>7. QED
      BY <1>5, <3>6 DEF WasSo
  <2>4. QED
    BY <2>2, <2>3
<1>9. ASSUME NEW k, NEW v
      PROVE  /\ Owes(op[c], k, v) =>
                   WasSo(held'[c], k, v) \/ Pending(todo[c], TRUE, k, v)
             /\ (Looks(op[c], k, v) /\ clean[c]) =>
                   \/ WasSo(held'[c], k, v)
                   \/ Pending(todo[c], TRUE, k, v)
                   \/ Looking(todo[c], k)
  <2>1. /\ Owes(op[c], k, v) =>
                 WasSo(held[c], k, v) \/ Pending(todo[c], taken[c], k, v)
        /\ (Looks(op[c], k, v) /\ clean[c]) =>
                 \/ WasSo(held[c], k, v)
                 \/ Pending(todo[c], taken[c], k, v)
                 \/ Looking(todo[c], k)
    BY <1>7 DEF CmdInv, DutyInv
  <2>2. QED
    BY <1>6, <1>8, <2>1, Zenon
<1>10. DutyInv(c)'
  <2>1. Busy(c)' => result'[c] = "none" /\ ChanOk(op'[c])
    BY <1>1, <1>7
  <2>2. Commands(op'[c]) => IsQueue(todo'[c])
    BY <1>1 DEF CmdInv, DutyInv
  <2>3. QED
    BY <1>1, <1>5, <1>7, <1>9, <2>1, <2>2 DEF DutyInv
<1>11. QED
  BY <1>2, <1>4, <1>10

-----------------------------------------------------------------------------
\* A command that waits behind the ask under way is still there when that is gone, and
\* when another has come in its place.
LEMMA PendingInTail ==
    ASSUME NEW t, IsQueue(t), t # << >>, NEW k, NEW v, Pending(t, TRUE, k, v)
    PROVE  Pending(Tail(t), FALSE, k, v)
<1>1. PICK T : t \in Seq(T)
  BY DEF IsQueue
<1>2. PICK i \in DOMAIN t : t[i] = CommandTo(k, v) /\ i # 1
  BY DEF Pending
<1>3. i - 1 \in DOMAIN Tail(t) /\ Tail(t)[i - 1] = t[i]
  BY <1>1, <1>2
<1>4. QED
  BY <1>2, <1>3 DEF Pending

LEMMA PendingBehind ==
    ASSUME NEW t, IsQueue(t), NEW x, NEW k, NEW v
    PROVE  /\ IsQueue(<< x >> \o t)
           /\ Pending(t, FALSE, k, v) => Pending(<< x >> \o t, FALSE, k, v)
           /\ x = CommandTo(k, v) => Pending(<< x >> \o t, FALSE, k, v)
<1>1. PICK T : t \in Seq(T)
  BY DEF IsQueue
<1>2. << x >> \in Seq(T \cup {x}) /\ t \in Seq(T \cup {x})
  BY <1>1
<1>3. << x >> \o t \in Seq(T \cup {x})
  BY <1>2
<1>4. IsQueue(<< x >> \o t)
  BY <1>3, Zenon DEF IsQueue
<1>5. \A i \in DOMAIN t : i + 1 \in DOMAIN (<< x >> \o t) /\ (<< x >> \o t)[i + 1] = t[i]
  BY <1>2
<1>6. 1 \in DOMAIN (<< x >> \o t) /\ (<< x >> \o t)[1] = x
  BY <1>2
<1>7. Pending(t, FALSE, k, v) => Pending(<< x >> \o t, FALSE, k, v)
  BY <1>5 DEF Pending
<1>8. x = CommandTo(k, v) => Pending(<< x >> \o t, FALSE, k, v)
  BY <1>6 DEF Pending
<1>9. QED
  BY <1>4, <1>7, <1>8

LEMMA PendingAlone ==
    ASSUME NEW k, NEW v
    PROVE  IsQueue(<< CommandTo(k, v) >>) /\ Pending(<< CommandTo(k, v) >>, FALSE, k, v)
<1>1. << CommandTo(k, v) >> \in Seq({CommandTo(k, v)})
  OBVIOUS
<1>2. IsQueue(<< CommandTo(k, v) >>)
  BY <1>1, Zenon DEF IsQueue
<1>3. QED
  BY <1>2 DEF Pending

\* What is left of an operation, whatever the answer.
LEMMA RestForms ==
    ASSUME NEW o, NEW q, NEW v, NEW t
    PROVE  \/ Rest(o, q, v, t) = << q >> \o t
           \/ o.name = "set_output" /\ Rest(o, q, v, t) = << CommandTo(<<"OUTP", o.ch>>, o.to) >>
           \/ Rest(o, q, v, t) = << CommandTo(<<"INST", 0>>, Inst[o.ch]) >> \o t
           \/ Rest(o, q, v, t) = t
<1>1. /\ Command("OUTP", o.ch, o.to) = CommandTo(<<"OUTP", o.ch>>, o.to)
      /\ Command("INST", 0, Inst[o.ch]) = CommandTo(<<"INST", 0>>, Inst[o.ch])
  BY DEF Command, CommandTo
<1>2. CASE q.key[1] = "SAST" /\ v # "Stop" /\ o.name # "set_output"
  BY <1>1, <1>2 DEF Rest
<1>3. CASE q.key[1] = "SAST" /\ v # "Stop" /\ o.name = "set_output"
  BY <1>1, <1>3 DEF Rest
<1>4. CASE ~(q.key[1] = "SAST" /\ v # "Stop")
  BY <1>1, <1>4 DEF Rest
<1>5. QED
  BY <1>2, <1>3, <1>4

\* What an operation owes is still to be commanded after the answer, if it was before;
\* and what it has looked at is as it should be, or is commanded next.
LEMMA RestKeepsPromises ==
    ASSUME NEW o, Commands(o), NEW t, IsQueue(t), t # << >>, NEW w, NEW r,
           r = Rest(o, Head(t), w, Tail(t))
    PROVE  /\ IsQueue(r)
           /\ \A k, v : (/\ Owes(o, k, v) \/ Looks(o, k, v)
                         /\ Pending(t, TRUE, k, v)) => Pending(r, FALSE, k, v)
           /\ \A k, v : Looks(o, k, v) /\ Looking(t, k) => w = v \/ Pending(r, FALSE, k, v)
<1>1. IsQueue(Tail(t))
  BY TailOne
<1>2. \/ r = << CommandTo(<<"OUTP", o.ch>>, o.to) >> /\ o.name = "set_output"
      \/ r = << Head(t) >> \o Tail(t)
      \/ r = << CommandTo(<<"INST", 0>>, Inst[o.ch]) >> \o Tail(t)
      \/ r = Tail(t)
  <2> DEFINE q == Head(t)
             u == Tail(t)
  <2> HIDE DEF q, u
  <2>1. \/ Rest(o, q, w, u) = << q >> \o u
        \/ o.name = "set_output" /\ Rest(o, q, w, u) = << CommandTo(<<"OUTP", o.ch>>, o.to) >>
        \/ Rest(o, q, w, u) = << CommandTo(<<"INST", 0>>, Inst[o.ch]) >> \o u
        \/ Rest(o, q, w, u) = u
    BY RestForms
  <2>2. r = Rest(o, q, w, u)
    BY DEF q, u
  <2>3. QED
    BY <2>1, <2>2, Zenon DEF q, u
<1>3. IsQueue(r)
  <2>1. IsQueue(<< CommandTo(<<"OUTP", o.ch>>, o.to) >>)
    BY PendingAlone
  <2>2. \A x : IsQueue(<< x >> \o Tail(t))
    BY <1>1, PendingBehind
  <2>3. QED
    BY <1>1, <1>2, <2>1, <2>2, Zenon
<1>4. ASSUME NEW k, NEW v, Owes(o, k, v) \/ Looks(o, k, v), Pending(t, TRUE, k, v)
      PROVE  Pending(r, FALSE, k, v)
  <2>1. Pending(Tail(t), FALSE, k, v)
    BY <1>4, PendingInTail
  <2>2. CASE r = << CommandTo(<<"OUTP", o.ch>>, o.to) >> /\ o.name = "set_output"
    <3>1. k = <<"OUTP", o.ch>> /\ v = o.to
      BY <1>4, <2>2 DEF Owes, Looks, Set
    <3>2. QED
      BY <2>2, <3>1, PendingAlone
  <2>3. CASE \/ r = << Head(t) >> \o Tail(t)
             \/ r = << CommandTo(<<"INST", 0>>, Inst[o.ch]) >> \o Tail(t)
             \/ r = Tail(t)
    BY <1>1, <2>1, <2>3, PendingBehind
  <2>4. QED
    BY <1>2, <2>2, <2>3, Zenon
<1>5. ASSUME NEW k, NEW v, Looks(o, k, v), Looking(t, k), w # v
      PROVE  Pending(r, FALSE, k, v)
  <2>1. Head(t).query /\ Head(t).key = k
    BY <1>5 DEF Looking
  <2>2. CASE o.name = "set_output"
    <3>1. k = <<"OUTP", o.ch>> /\ v = o.to
      BY <1>5, <2>2 DEF Looks
    <3>2. r = << Command("OUTP", o.ch, o.to) >>
      BY <1>5, <2>1, <2>2, <3>1 DEF Rest
    <3>3. Command("OUTP", o.ch, o.to) = CommandTo(k, v)
      BY <3>1 DEF Command, CommandTo
    <3>4. QED
      BY <3>2, <3>3, PendingAlone
  <2>3. CASE o.name \in {"enable_output", "disable_output"}
    <3>1. k = <<"INST", 0>> /\ v = Inst[o.ch]
      BY <1>5, <2>3 DEF Looks
    <3>2. r = << CommandTo(k, v) >> \o Tail(t)
      BY <1>5, <2>1, <2>3, <3>1 DEF Rest, Command, CommandTo
    <3>3. QED
      BY <1>1, <3>2, PendingBehind
  <2>4. QED
    BY <1>5, <2>2, <2>3 DEF Looks
<1>6. QED
  BY <1>3, <1>4, <1>5

-----------------------------------------------------------------------------
LEMMA CmdAnswered ==
    ASSUME CmdInv, NEW c \in Clients, Answered(c)
    PROVE  InstrumentInv' /\ \A d \in Clients : DutyInv(d)'
<1> DEFINE q == Head(todo[c])
           a == Head(unread[c])
           w == ValueOf(q, a)
           r == Rest(op[c], q, w, Tail(todo[c]))
<1>1. /\ UNCHANGED <<model, setting, op, clean, held>> /\ taken[c]
      /\ taken' = [taken EXCEPT ![c] = FALSE]
      /\ todo' = [todo EXCEPT ![c] = r]
      /\ result' = [result EXCEPT ![c] = IF r = << >> THEN "ok" ELSE @]
  BY DEF Answered, instrumentVars, historyVars
<1>2. InstrumentInv'
  BY <1>1 DEF InstrumentInv, CmdInv
<1>3. ASSUME NEW d \in Clients, d # c PROVE DutyInv(d)'
  BY <1>1, <1>3, CmdOthers DEF CmdInv, OpInv, Domains
<1>4. /\ taken[c] = TRUE /\ taken'[c] = FALSE /\ todo'[c] = r /\ todo[c] # << >>
      /\ result[c] = "none" /\ result'[c] = IF r = << >> THEN "ok" ELSE "none"
      /\ ChanOk(op[c])
  BY <1>1 DEF CmdInv, OpInv, Domains, QueueInv, DutyInv, Busy
<1>5. (clean[c] /\ q.query) => WasSo(held[c], q.key, w)
  <2> SUFFICES ASSUME clean[c], q.query PROVE WasSo(held[c], q.key, w)
    OBVIOUS
  <2>1. PICK x : unread[c] = << AnswerTo(q, x) >> /\ WasSo(held[c], q.key, x)
    BY <1>4 DEF CmdInv, OpInv, FreshInv, Told
  <2>2. a = AnswerTo(q, x)
    BY <2>1
  <2> HIDE DEF a, q
  <2>3. w = x
    BY <2>2 DEF ValueOf, AnswerTo
  <2>4. QED
    BY <2>1, <2>3
<1>6. CASE ~Commands(op[c])
  <2>1. \A k, v : ~Owes(op[c], k, v) /\ ~Looks(op[c], k, v)
    BY <1>6 DEF Commands, Owes, Looks
  <2> HIDE DEF r
  <2>2. DutyInv(c)'
    BY <1>1, <1>4, <1>6, <2>1 DEF CmdInv, DutyInv, Busy
  <2>3. QED
    BY <1>2, <1>3, <2>2
<1>7. CASE Commands(op[c])
  <2>1. IsQueue(todo[c])
    BY <1>7 DEF CmdInv, DutyInv
  <2>2. /\ IsQueue(r)
        /\ \A k, v : (/\ Owes(op[c], k, v) \/ Looks(op[c], k, v)
                      /\ Pending(todo[c], TRUE, k, v)) => Pending(r, FALSE, k, v)
        /\ \A k, v : Looks(op[c], k, v) /\ Looking(todo[c], k)
                        => w = v \/ Pending(r, FALSE, k, v)
    <3> HIDE DEF w
    <3>1. r = Rest(op[c], Head(todo[c]), w, Tail(todo[c]))
      OBVIOUS
    <3> HIDE DEF r
    <3>2. QED
      BY <1>4, <1>7, <2>1, <3>1, RestKeepsPromises
  <2> HIDE DEF r, w
  <2>3. \A k : Looking(todo[c], k) => q.query /\ q.key = k
    BY DEF Looking
  <2> HIDE DEF q
  <2>4. ASSUME NEW k, NEW v
        PROVE  /\ Owes(op[c], k, v) => WasSo(held[c], k, v) \/ Pending(r, FALSE, k, v)
               /\ (Looks(op[c], k, v) /\ clean[c]) =>
                     WasSo(held[c], k, v) \/ Pending(r, FALSE, k, v)
    <3>1. /\ Owes(op[c], k, v) =>
                   WasSo(held[c], k, v) \/ Pending(todo[c], TRUE, k, v)
          /\ (Looks(op[c], k, v) /\ clean[c]) =>
                   \/ WasSo(held[c], k, v)
                   \/ Pending(todo[c], TRUE, k, v)
                   \/ Looking(todo[c], k)
      BY <1>4 DEF CmdInv, DutyInv
    <3>2. Owes(op[c], k, v) => WasSo(held[c], k, v) \/ Pending(r, FALSE, k, v)
      BY <2>2, <3>1, Zenon
    <3>3. (Looks(op[c], k, v) /\ Looking(todo[c], k) /\ clean[c]) =>
              WasSo(held[c], k, v) \/ Pending(r, FALSE, k, v)
      <4>1. (clean[c] /\ Looking(todo[c], k)) => WasSo(held[c], k, w)
        BY <1>5, <2>3
      <4>2. QED
        BY <2>2, <4>1, Zenon
    <3>4. QED
      BY <2>2, <3>1, <3>2, <3>3, Zenon
  <2>5. DutyInv(c)'
    <3>1. op'[c] = op[c] /\ clean'[c] = clean[c] /\ held'[c] = held[c] /\ model' = model
      BY <1>1
    <3>2. op[c] \in Requests[model] \/ op[c].name = "none"
      BY DEF CmdInv, DutyInv
    <3>3. Busy(c)' => result'[c] = "none"
      BY <1>4 DEF Busy
    <3>4. QED
      BY <1>4, <2>2, <2>4, <3>1, <3>2, <3>3 DEF DutyInv
  <2>6. QED
    BY <1>2, <1>3, <2>5
<1>8. QED
  BY <1>6, <1>7

LEMMA CmdEnds ==
    ASSUME CmdInv, NEW c \in Clients, Misanswered(c) \/ Fails(c)
    PROVE  InstrumentInv' /\ \A d \in Clients : DutyInv(d)'
<1>1. PICK r \in {"err", "panicked"} : Ends(c, r)
  BY DEF Misanswered, Fails, Outcomes
<1>2. /\ taken' = [taken EXCEPT ![c] = FALSE]
      /\ todo' = [todo EXCEPT ![c] = << >>]
      /\ result' = [result EXCEPT ![c] = r]
      /\ held' = [held EXCEPT ![c] = {}]
      /\ UNCHANGED <<model, setting, op, clean>>
  BY <1>1 DEF Misanswered, Fails, Ends, instrumentVars
<1>3. InstrumentInv'
  BY <1>2 DEF InstrumentInv, CmdInv
<1>4. ASSUME NEW d \in Clients, d # c PROVE DutyInv(d)'
  BY <1>2, <1>4, CmdOthers DEF CmdInv, OpInv, Domains
<1>5. todo'[c] = << >> /\ result'[c] = r
  BY <1>2 DEF CmdInv, OpInv, Domains
<1>6. IsQueue(todo'[c])
  BY <1>5, QueueOfNone
<1>7. DutyInv(c)'
  BY <1>2, <1>5, <1>6 DEF CmdInv, DutyInv, Busy
<1>8. QED
  BY <1>3, <1>4, <1>7

LEMMA CmdAcquire ==
    ASSUME CmdInv, Acquire
    PROVE  InstrumentInv' /\ \A d \in Clients : DutyInv(d)'
<1>1. UNCHANGED <<model, op, todo, taken, result, clean>> /\ Remember
  BY DEF Acquire
<1>2. InstrumentInv'
  BY <1>1 DEF Acquire, InstrumentInv, CmdInv
<1>3. \A d \in Clients : held[d] \subseteq held'[d]
  BY <1>1 DEF Remember
<1>4. QED
  BY <1>1, <1>2, <1>3, CmdOthers DEF CmdInv

LEMMA CmdStep == CmdInv /\ [Next]_vars => CmdInv'
<1> SUFFICES ASSUME CmdInv, [Next]_vars PROVE CmdInv'
  OBVIOUS
<1>1. OpInv'
  BY OpStep DEF CmdInv
<1>2. CASE Next
  <2>1. InstrumentInv' /\ \A d \in Clients : DutyInv(d)'
    BY <1>2, CmdBegin, CmdTake, CmdAnswered, CmdEnds, CmdAcquire DEF Next
  <2>2. QED
    BY <1>1, <2>1 DEF CmdInv
<1>3. CASE UNCHANGED vars
  <2>1. InstrumentInv'
    BY <1>3 DEF vars, instrumentVars, InstrumentInv, CmdInv
  <2>2. \A d \in Clients : DutyInv(d)'
    BY <1>3, CmdOthers DEF vars, instrumentVars, historyVars, CmdInv
  <2>3. QED
    BY <1>1, <2>1, <2>2 DEF CmdInv
<1>4. QED
  BY <1>2, <1>3

\* Ok means that the setting was as commanded at some moment of the call, whatever
\* other clients do: of a command always, and of what set_output, enable_output and
\* disable_output look at if nothing was unread when they began.
THEOREM OkIsCommanded == Spec => []OkMeansCommanded
<1>1. CmdInv => OkMeansCommanded
  <2> SUFFICES ASSUME CmdInv PROVE OkMeansCommanded
    OBVIOUS
  <2>1. ASSUME NEW c \in Clients, result[c] = "ok"
        PROVE  \A k, v : /\ Owes(op[c], k, v) => WasSo(held[c], k, v)
                         /\ Looks(op[c], k, v) /\ clean[c] => WasSo(held[c], k, v)
    <3>1. todo[c] = << >>
      BY <2>1 DEF CmdInv, DutyInv, Busy
    <3>2. \A k, v : ~Pending(todo[c], taken[c], k, v) /\ ~Looking(todo[c], k)
      BY <3>1 DEF Pending, Looking
    <3>3. QED
      BY <2>1, <3>2 DEF CmdInv, DutyInv
  <2>2. ASSUME NEW c \in Clients, result[c] = "ok", NEW o, o = op[c]
        PROVE  /\ (o.name \in DOMAIN Set \ {"arm", "force_trigger"}) =>
                     WasSo(held[c], <<Set[o.name], o.ch>>, o.to)
               /\ o.name = "arm_single" => WasSo(held[c], <<"TRMD", 0>>, "SINGLE")
               /\ o.name = "set_operating_channel" => WasSo(held[c], <<"INST", 0>>, Inst[o.ch])
               /\ o.name = "set_output" /\ clean[c] => WasSo(held[c], <<"OUTP", o.ch>>, o.to)
               /\ o.name = "enable_output" => WasSo(held[c], <<"OUTP", o.ch>>, "ON")
               /\ o.name = "disable_output" => WasSo(held[c], <<"OUTP", o.ch>>, "OFF")
               /\ o.name \in {"enable_output", "disable_output"} /\ clean[c] =>
                     WasSo(held[c], <<"INST", 0>>, Inst[o.ch])
    BY <2>1, <2>2 DEF Owes, Looks
  <2>3. QED
    BY <2>2 DEF OkMeansCommanded, WasSo
<1>2. Spec => []CmdInv
  BY CmdInit, CmdStep, PTL DEF Spec
<1>3. QED
  BY <1>1, <1>2, PTL

-----------------------------------------------------------------------------
(* Captures *)

\* The asks a capture is made of, of which some arm the trigger.
CaptureAsks ==
    {CommandTo(<<"TRMD", 0>>, "SINGLE"), CommandTo(<<"ARM", 0>>, "none"),
     CommandTo(<<"FRTR", 0>>, "none"), Query("SAST", 0), Query("SARA", 0),
     Query("WF", 1), Query("WF", 2)}

Arms(q)  == ~q.query /\ q.key[1] \in {"TRMD", "ARM"}
Waits(q) == q.key[1] = "SAST"
Reads(q) == q.key[1] = "WF"

\* It arms before anything else, then waits, and reads waveforms after that.
InOrder(t) ==
    /\ \A i, j \in DOMAIN t : i < j =>
          /\ Arms(t[j]) => Arms(t[i])
          /\ Waits(t[j]) => ~Reads(t[i])
    /\ (\E i \in DOMAIN t : Arms(t[i])) => \E i \in DOMAIN t : Waits(t[i])

\* No ask of t is still to arm the trigger; none is still to wait for it.
Armed(t, tk) == \A i \in DOMAIN t : Arms(t[i]) => i = 1 /\ tk
Waited(t)    == \A i \in DOMAIN t : ~Waits(t[i])

Mode == setting[<<"TRMD", 0>>]

\* An oscilloscope that a capture armed, and nobody else has commanded since, has
\* made no acquisition yet, or one and has stopped; and it has stopped once the
\* capture has been told so, so that every waveform it reads is of that acquisition.
ArmedInv(c) ==
    /\ Mode = "SINGLE" => acquisition = armed.after
    /\ Mode = "STOP" => acquisition = armed.after + 1
    /\ Waited(todo[c]) =>
          /\ Mode = "STOP"
          /\ \A x \in returned[c] : x[1][1] = "WF" => x[2] = acquisition
    /\ taken[c] =>
          /\ Waits(Head(todo[c])) /\ Head(unread[c]).val = "Stop" => Mode = "STOP"
          /\ Reads(Head(todo[c])) => Head(unread[c]).val = acquisition

CaptureInv(c) ==
    op[c].name \in Captures /\ result[c] \in {"none", "ok"} =>
        /\ model = "SDS"
        /\ todo[c] \in Seq(CaptureAsks) /\ InOrder(todo[c])
        /\ ~Waited(todo[c]) => \A x \in returned[c] : x[1][1] # "WF"
        /\ (Armed(todo[c], taken[c]) /\ clean[c] /\ armed.by = {c}) => ArmedInv(c)

TriggerInv == acquisition \in Nat /\ armed.after \in Nat

CapInv == CmdInv /\ TriggerInv /\ \A c \in Clients : CaptureInv(c)

\* What each capture asks for.
LEMMA PlanOfCapture ==
    ASSUME NEW m, NEW o
    PROVE  /\ o.name = "01_uart_decode" => Plan(m, o) = CaptureUart
           /\ o.name = "02_oscillator_compare" => Plan(m, o) = CaptureCompare
           /\ o.name = "oscillator_resonance" => Plan(m, o) = CaptureResonance
<1>1. o.name \in Captures => o.name \notin DOMAIN Get \cup DOMAIN Set
  BY DEF Set, Get, Captures
<1>2. QED
  BY <1>1 DEF Plan, Captures

\* Which asks do what.
LEMMA KindsOfAsks ==
    /\ Arms(CommandTo(<<"TRMD", 0>>, "SINGLE")) /\ Arms(CommandTo(<<"ARM", 0>>, "none"))
    /\ \A q \in CaptureAsks \ {CommandTo(<<"TRMD", 0>>, "SINGLE"), CommandTo(<<"ARM", 0>>, "none")} :
          ~Arms(q)
    /\ \A q \in CaptureAsks : /\ Waits(q) <=> q = Query("SAST", 0)
                              /\ Reads(q) <=> q \in {Query("WF", 1), Query("WF", 2)}
  BY DEF CaptureAsks, CommandTo, Query, Arms, Waits, Reads

LEMMA TwoAndFour ==
    ASSUME NEW a, NEW b, NEW c, NEW d, NEW e, NEW f
    PROVE  <<a, b>> \o <<c, d, e, f>> = <<a, b, c, d, e, f>>
<1> DEFINE U == {a, b, c, d, e, f}
           x == <<a, b>>
           y == <<c, d, e, f>>
           z == <<a, b, c, d, e, f>>
<1>1. /\ x \in Seq(U) /\ Len(x) = 2 /\ x[1] = a /\ x[2] = b
      /\ y \in Seq(U) /\ Len(y) = 4 /\ y[1] = c /\ y[2] = d /\ y[3] = e /\ y[4] = f
      /\ z \in Seq(U) /\ Len(z) = 6
      /\ z[1] = a /\ z[2] = b /\ z[3] = c /\ z[4] = d /\ z[5] = e /\ z[6] = f
  OBVIOUS
<1> HIDE DEF U, x, y, z
<1>2. /\ x \o y \in Seq(U) /\ Len(x \o y) = 6
      /\ \A i \in 1..6 : (x \o y)[i] = IF i <= 2 THEN x[i] ELSE y[i - 2]
  <2>1. /\ x \o y \in Seq(U) /\ Len(x \o y) = Len(x) + Len(y)
        /\ \A i \in 1..Len(x) + Len(y) :
              (x \o y)[i] = IF i <= Len(x) THEN x[i] ELSE y[i - Len(x)]
    BY <1>1, ConcatProperties
  <2>2. Len(x) + Len(y) = 6 /\ Len(x) = 2
    BY <1>1
  <2>3. QED
    BY <2>1, <2>2
<1>3. ASSUME NEW i \in 1..6 PROVE (x \o y)[i] = z[i]
  <2>1. i = 1 \/ i = 2 \/ i = 3 \/ i = 4 \/ i = 5 \/ i = 6
    OBVIOUS
  <2>2. /\ (x \o y)[1] = x[1] /\ (x \o y)[2] = x[2] /\ (x \o y)[3] = y[1]
        /\ (x \o y)[4] = y[2] /\ (x \o y)[5] = y[3] /\ (x \o y)[6] = y[4]
    <3> DEFINE At(j) == IF j <= 2 THEN x[j] ELSE y[j - 2]
    <3>1. \A j \in 1..6 : (x \o y)[j] = At(j)
      BY <1>2, Zenon
    <3>2. /\ At(1) = x[1] /\ At(2) = x[2] /\ At(3) = y[1]
          /\ At(4) = y[2] /\ At(5) = y[3] /\ At(6) = y[4]
      OBVIOUS
    <3> HIDE DEF At
    <3>3. 1 \in 1..6 /\ 2 \in 1..6 /\ 3 \in 1..6 /\ 4 \in 1..6 /\ 5 \in 1..6 /\ 6 \in 1..6
      OBVIOUS
    <3>4. QED
      BY <3>1, <3>2, <3>3, Zenon
  <2>3. /\ (x \o y)[1] = z[1] /\ (x \o y)[2] = z[2] /\ (x \o y)[3] = z[3]
        /\ (x \o y)[4] = z[4] /\ (x \o y)[5] = z[5] /\ (x \o y)[6] = z[6]
    BY <1>1, <2>2, Zenon
  <2>4. QED
    BY <2>1, <2>3, Zenon
<1>4. x \o y = z
  BY <1>1, <1>2, <1>3, SeqEqual
<1>5. QED
  BY <1>4 DEF x, y, z

LEMMA PlanIsInOrder ==
    ASSUME NEW m, NEW o, o.name \in Captures, NEW t, t = Plan(m, o)
    PROVE  /\ t \in Seq(CaptureAsks) /\ InOrder(t)
           /\ ~Armed(t, FALSE)
<1> DEFINE T == CommandTo(<<"TRMD", 0>>, "SINGLE")
           A == CommandTo(<<"ARM", 0>>, "none")
           F == CommandTo(<<"FRTR", 0>>, "none")
           S == Query("SAST", 0)
           R == Query("SARA", 0)
           V == Query("WF", 1)
           W == Query("WF", 2)
<1>1. /\ {T, A, F, S, R, V, W} = CaptureAsks
      /\ Arms(T) /\ Arms(A)
      /\ ~Arms(F) /\ ~Arms(S) /\ ~Arms(R) /\ ~Arms(V) /\ ~Arms(W)
      /\ Waits(S) /\ ~Waits(T) /\ ~Waits(A) /\ ~Waits(F) /\ ~Waits(R) /\ ~Waits(V) /\ ~Waits(W)
      /\ ~Reads(T) /\ ~Reads(A) /\ ~Reads(F) /\ ~Reads(S)
  BY DEF CaptureAsks, CommandTo, Query, Arms, Waits, Reads
<1>2. /\ Command("TRMD", 0, "SINGLE") = T /\ Command("ARM", 0, "none") = A
      /\ Command("FRTR", 0, "none") = F
  BY DEF Command, CommandTo
<1>3. \/ t = <<T, S, R, V>>
      \/ t = <<T, S, V, W, R>>
      \/ t = <<T, A, F, S, V, W>>
  <2>1. CaptureUart = <<T, S, R, V>> /\ CaptureCompare = <<T, S, V, W, R>>
    BY <1>2 DEF CaptureUart, CaptureCompare
  <2>2. CaptureResonance = <<T, A, F, S, V, W>>
    <3> HIDE DEF T, A, F, S, V, W
    <3>1. <<T, A>> \o <<F, S, V, W>> = <<T, A, F, S, V, W>>
      BY TwoAndFour
    <3>2. QED
      BY <1>2, <3>1 DEF CaptureResonance, ArmSingle, F, S, V, W
  <2>3. QED
    BY <2>1, <2>2, PlanOfCapture DEF Captures
<1> HIDE DEF T, A, F, S, R, V, W
<1>4. CASE t = <<T, S, R, V>>
  <2>1. /\ t \in Seq(CaptureAsks) /\ DOMAIN t = 1..4
        /\ t[1] = T /\ t[2] = S /\ t[3] = R /\ t[4] = V
    BY <1>1, <1>4
  <2>2. \A i \in 1..4 : i = 1 \/ i = 2 \/ i = 3 \/ i = 4
    OBVIOUS
  <2>3. QED
    BY <1>1, <2>1, <2>2 DEF InOrder, Armed
<1>5. CASE t = <<T, S, V, W, R>>
  <2>1. /\ t \in Seq(CaptureAsks) /\ DOMAIN t = 1..5
        /\ t[1] = T /\ t[2] = S /\ t[3] = V /\ t[4] = W /\ t[5] = R
    BY <1>1, <1>5
  <2>2. \A i \in 1..5 : i = 1 \/ i = 2 \/ i = 3 \/ i = 4 \/ i = 5
    OBVIOUS
  <2>3. QED
    BY <1>1, <2>1, <2>2 DEF InOrder, Armed
<1>6. CASE t = <<T, A, F, S, V, W>>
  <2>1. /\ t \in Seq(CaptureAsks) /\ DOMAIN t = 1..6
        /\ t[1] = T /\ t[2] = A /\ t[3] = F /\ t[4] = S /\ t[5] = V /\ t[6] = W
    BY <1>1, <1>6
  <2>2. \A i \in 1..6 : i = 1 \/ i = 2 \/ i = 3 \/ i = 4 \/ i = 5 \/ i = 6
    OBVIOUS
  <2>3. QED
    BY <1>1, <2>1, <2>2 DEF InOrder, Armed
<1>7. QED
  BY <1>3, <1>4, <1>5, <1>6

\* What is left of a capture is in order too, and as far as before.
LEMMA CaptureTail ==
    ASSUME NEW t \in Seq(CaptureAsks), InOrder(t), t # << >>
    PROVE  /\ Tail(t) \in Seq(CaptureAsks) /\ InOrder(Tail(t)) /\ Head(t) \in CaptureAsks
           /\ Armed(Tail(t), FALSE) => Armed(t, TRUE)
           /\ Waited(Tail(t)) => Waited(t) \/ Waits(Head(t))
           /\ ~Waited(Tail(t)) => ~Waited(t) /\ ~Reads(Head(t))
<1> DEFINE u == Tail(t)
<1>1. /\ u \in Seq(CaptureAsks) /\ Len(t) \in Nat /\ DOMAIN t = 1..Len(t)
      /\ DOMAIN u = 1..Len(t) - 1 /\ 1 \in DOMAIN t
      /\ Head(t) = t[1] /\ Head(t) \in CaptureAsks
      /\ \A i \in DOMAIN u : u[i] = t[i+1]
  BY HeadTailProperties, LenProperties, EmptySeq
<1> HIDE DEF u
<1>2. \A i \in DOMAIN u : i + 1 \in DOMAIN t /\ u[i] = t[i+1] /\ 1 < i + 1 /\ i \in Int
  BY <1>1
<1>3. \A i \in DOMAIN t : i # 1 => i - 1 \in DOMAIN u /\ u[i-1] = t[i]
  <2> SUFFICES ASSUME NEW i \in DOMAIN t, i # 1 PROVE i - 1 \in DOMAIN u /\ u[i-1] = t[i]
    OBVIOUS
  <2>1. i - 1 \in DOMAIN u /\ (i - 1) + 1 = i
    BY <1>1
  <2>2. QED
    BY <2>1, <1>2
<1>4. \A i, j \in DOMAIN u : i < j => i + 1 < j + 1
  BY <1>2
<1>5. ASSUME NEW i \in DOMAIN u, NEW j \in DOMAIN u, i < j
      PROVE  (Arms(u[j]) => Arms(u[i])) /\ (Waits(u[j]) => ~Reads(u[i]))
  BY <1>2, <1>4, <1>5 DEF InOrder
<1>6. ASSUME NEW i \in DOMAIN u, Arms(u[i])
      PROVE  \E j \in DOMAIN u : Waits(u[j])
  <2>1. Arms(t[i+1]) /\ i + 1 \in DOMAIN t /\ 1 < i + 1
    BY <1>2, <1>6
  <2>2. Arms(t[1])
    BY <1>1, <2>1 DEF InOrder
  <2>3. PICK j \in DOMAIN t : Waits(t[j])
    BY <2>1 DEF InOrder
  <2>4. j # 1
    BY <2>2, <2>3 DEF Arms, Waits
  <2>5. QED
    BY <1>3, <2>3, <2>4
<1>7. InOrder(u)
  BY <1>5, <1>6 DEF InOrder
<1>8. Armed(u, FALSE) => Armed(t, TRUE)
  BY <1>3 DEF Armed
<1>9. Waited(u) => Waited(t) \/ Waits(t[1])
  BY <1>3 DEF Waited
<1>10. ~Waited(u) => ~Waited(t) /\ ~Reads(t[1])
  BY <1>1, <1>2 DEF Waited, InOrder
<1>11. QED
  BY <1>1, <1>7, <1>8, <1>9, <1>10 DEF u

\* The first ask of what is left says how far the capture is.
LEMMA CaptureHead ==
    ASSUME NEW t \in Seq(CaptureAsks), InOrder(t), t # << >>
    PROVE  /\ Head(t) \in CaptureAsks
           /\ Arms(Head(t)) => ~Waited(t)
           /\ ~Arms(Head(t)) => Armed(t, FALSE)
           /\ Reads(Head(t)) => Waited(t)
<1>1. /\ Head(t) = t[1] /\ Head(t) \in CaptureAsks /\ 1 \in DOMAIN t
      /\ \A i \in DOMAIN t : i = 1 \/ 1 < i
  BY HeadTailProperties, LenProperties, EmptySeq
<1>2. Arms(t[1]) => ~Waited(t)
  BY <1>1 DEF InOrder, Waited
<1>3. ~Arms(t[1]) => \A i \in DOMAIN t : ~Arms(t[i])
  BY <1>1 DEF InOrder
<1>4. Reads(t[1]) => ~Waits(t[1])
  BY DEF Reads, Waits
<1>5. Reads(t[1]) => \A i \in DOMAIN t : ~Waits(t[i])
  BY <1>1, <1>4 DEF InOrder
<1>6. QED
  BY <1>1, <1>2, <1>3, <1>5 DEF Armed, Waited

-----------------------------------------------------------------------------
LEMMA CapInit == Init => CapInv
<1> SUFFICES ASSUME Init PROVE CapInv
  OBVIOUS
<1>1. TriggerInv
  BY DEF Init, TriggerInv
<1>2. ASSUME NEW c \in Clients PROVE CaptureInv(c)
  <2>1. op[c].name = "none"
    BY DEF Init
  <2>2. QED
    BY <2>1 DEF CaptureInv, Captures
<1>3. QED
  BY <1>1, <1>2, CmdInit DEF CapInv

LEMMA TriggerStep == ASSUME TriggerInv, [Next]_vars PROVE TriggerInv'
<1> USE DEF TriggerInv
<1>1. CASE Acquire
  BY <1>1 DEF Acquire
<1>2. ASSUME NEW c \in Clients, Take(c) PROVE TriggerInv'
  BY <1>2 DEF Take
<1>3. CASE ~Acquire /\ ~\E c \in Clients : Take(c)
  <2>1. UNCHANGED <<acquisition, armed>>
    BY <1>3 DEF Next, Begin, Answered, Misanswered, Fails, Ends, vars, instrumentVars, historyVars
  <2>2. QED
    BY <2>1
<1>4. QED
  BY <1>1, <1>2, <1>3

\* A client that a step leaves alone, unless another has armed the trigger.
LEMMA CaptureOthers ==
    ASSUME NEW d \in Clients, CaptureInv(d),
           model' = model, op'[d] = op[d], todo'[d] = todo[d], taken'[d] = taken[d],
           result'[d] = result[d], clean'[d] = clean[d], unread'[d] = unread[d],
           returned'[d] = returned[d],
           \/ armed'.by # {d}
           \/ Mode' = Mode /\ acquisition' = acquisition /\ armed' = armed
    PROVE  CaptureInv(d)'
<1>1. CASE armed'.by # {d}
  BY <1>1 DEF CaptureInv
<1>2. CASE Mode' = Mode /\ acquisition' = acquisition /\ armed' = armed
  <2>1. ArmedInv(d)' <=> ArmedInv(d)
    BY <1>2 DEF ArmedInv
  <2>2. QED
    BY <1>2, <2>1 DEF CaptureInv
<1>3. QED
  BY <1>1, <1>2

LEMMA CaptureBegin ==
    ASSUME CapInv, NEW c \in Clients, NEW o \in Requests[model], Begin(c, o)
    PROVE  \A d \in Clients : CaptureInv(d)'
<1>1. /\ UNCHANGED <<model, setting, acquisition, armed, taken, unread>>
      /\ op' = [op EXCEPT ![c] = o]
      /\ todo' = [todo EXCEPT ![c] = IF ChanOk(o) THEN Plan(model, o) ELSE << >>]
      /\ result' = [result EXCEPT ![c] = IF ChanOk(o) THEN "none" ELSE "err"]
      /\ returned' = [returned EXCEPT ![c] = {}]
      /\ ~taken[c]
  BY DEF Begin, instrumentVars, CapInv, CmdInv, OpInv, QueueInv
<1>2. Mode' = Mode
  BY <1>1 DEF Mode
<1>3. ASSUME NEW d \in Clients, d # c PROVE CaptureInv(d)'
  <2>1. clean'[d] = clean[d]
    BY <1>3 DEF Begin, CapInv, CmdInv, OpInv, Domains
  <2>2. /\ op'[d] = op[d] /\ todo'[d] = todo[d] /\ result'[d] = result[d]
        /\ returned'[d] = returned[d]
    BY <1>1, <1>3 DEF CapInv, CmdInv, OpInv, Domains, InstrumentInv
  <2>3. CaptureInv(d)
    BY DEF CapInv
  <2>4. QED
    BY <1>1, <1>2, <2>1, <2>2, <2>3, CaptureOthers
<1>4. /\ op'[c] = o
      /\ todo'[c] = IF ChanOk(o) THEN Plan(model, o) ELSE << >>
      /\ result'[c] = IF ChanOk(o) THEN "none" ELSE "err"
      /\ returned'[c] = {} /\ model \in Models
      /\ taken'[c] = FALSE
  BY <1>1 DEF CapInv, CmdInv, OpInv, Domains, InstrumentInv
<1>5. CaptureInv(c)'
  <2> SUFFICES ASSUME o.name \in Captures, ChanOk(o) PROVE CaptureInv(c)'
    BY <1>4 DEF CaptureInv
  <2>1. model' = "SDS"
    BY <1>1, <1>4, RequestsAreKnown
  <2>2. /\ todo'[c] \in Seq(CaptureAsks) /\ InOrder(todo'[c])
        /\ ~Armed(todo'[c], FALSE)
    BY <1>4, PlanIsInOrder
  <2>3. QED
    BY <1>4, <2>1, <2>2 DEF CaptureInv
<1>6. QED
  BY <1>3, <1>5

\* What a command does to the trigger.
LEMMA TakeEffect ==
    ASSUME NEW c \in Clients, Take(c), <<"TRMD", 0>> \in DOMAIN setting,
           NEW q, q = Head(todo[c])
    PROVE  /\ acquisition' = acquisition
           /\ Arms(q) => armed' = [by |-> {c}, after |-> acquisition]
           /\ ~Arms(q) => armed' = armed /\ Mode' = Mode
<1>1. /\ acquisition' = acquisition
      /\ armed' = IF Arms(q) THEN [by |-> {c}, after |-> acquisition] ELSE armed
      /\ Effect(q)
  BY DEF Take, Arms
<1>2. ~Arms(q) => Mode' = Mode
  <2> SUFFICES ASSUME ~Arms(q) PROVE Mode' = Mode
    OBVIOUS
  <2>1. ~q.query => q.key[1] # "ARM" /\ q.key # <<"TRMD", 0>>
    BY DEF Arms
  <2>2. CASE ~q.query /\ q.key \in DOMAIN setting
    <3>1. setting' = [setting EXCEPT ![q.key] = q.to]
      BY <1>1, <2>1, <2>2 DEF Effect
    <3>2. QED
      BY <2>1, <2>2, <3>1 DEF Mode
  <2>3. CASE ~(~q.query /\ q.key \in DOMAIN setting)
    <3>1. setting' = setting
      BY <1>1, <2>1, <2>3 DEF Effect
    <3>2. QED
      BY <3>1 DEF Mode
  <2>4. QED
    BY <2>2, <2>3
<1>3. QED
  BY <1>1, <1>2

\* The two commands that arm leave the oscilloscope running.
LEMMA ArmEffect ==
    ASSUME NEW c \in Clients, Take(c), model = "SDS", DOMAIN setting = Settings(model),
           NEW q \in CaptureAsks, q = Head(todo[c]), Arms(q)
    PROVE  Mode' # "STOP"
<1>1. Effect(q)
  BY DEF Take
<1>2. <<"TRMD", 0>> \in DOMAIN setting /\ <<"ARM", 0>> \notin DOMAIN setting
  BY DEF Settings, Keys, Global, PerChannel
<1>3. CASE q = CommandTo(<<"TRMD", 0>>, "SINGLE")
  <2>1. ~q.query /\ q.key = <<"TRMD", 0>> /\ q.key[1] # "ARM" /\ q.to = "SINGLE"
    BY <1>3 DEF CommandTo
  <2>2. setting' = [setting EXCEPT ![<<"TRMD", 0>>] = "SINGLE"]
    BY <1>1, <1>2, <2>1 DEF Effect
  <2>3. QED
    BY <1>2, <2>2 DEF Mode
<1>4. CASE q = CommandTo(<<"ARM", 0>>, "none")
  <2>0. q.query = FALSE /\ q.key = <<"ARM", 0>> /\ q.key[1] = "ARM"
    BY <1>4 DEF CommandTo
  <2>1. CASE Mode = "STOP"
    <3>1. setting' = [setting EXCEPT ![<<"TRMD", 0>>] = "SINGLE"]
      BY <1>1, <1>2, <2>0, <2>1 DEF Effect, Mode
    <3>2. QED
      BY <1>2, <3>1 DEF Mode
  <2>2. CASE Mode # "STOP"
    <3>1. setting' = setting
      BY <1>1, <1>2, <2>0, <2>2 DEF Effect, Mode
    <3>2. QED
      BY <2>2, <3>1 DEF Mode
  <2>3. QED
    BY <2>1, <2>2
<1>5. QED
  BY <1>3, <1>4, KindsOfAsks

LEMMA CaptureTake ==
    ASSUME CapInv, NEW c \in Clients, Take(c)
    PROVE  \A d \in Clients : CaptureInv(d)'
<1> DEFINE q == Head(todo[c])
<1>1. /\ UNCHANGED <<model, op, todo, result, returned, clean>>
      /\ todo[c] # << >> /\ ~taken[c]
      /\ taken' = [taken EXCEPT ![c] = TRUE]
      /\ \E a : unread' = [unread EXCEPT ![c] = a]
  BY DEF Take, Busy
<1>2. <<"TRMD", 0>> \in DOMAIN setting \/ model # "SDS"
  BY DEF CapInv, CmdInv, InstrumentInv, Settings, Keys, Global
<1>3. CASE model # "SDS"
  <2>1. \A d \in Clients : op[d].name \in Captures => result[d] \notin {"none", "ok"}
    BY <1>3 DEF CapInv, CaptureInv
  <2>2. QED
    BY <1>1, <2>1 DEF CaptureInv
<1>4. CASE model = "SDS"
  <2>1. /\ acquisition' = acquisition
        /\ Arms(q) => armed' = [by |-> {c}, after |-> acquisition]
        /\ ~Arms(q) => armed' = armed /\ Mode' = Mode
    BY <1>2, <1>4, TakeEffect
  <2> HIDE DEF q
  <2>2. ASSUME NEW d \in Clients, d # c PROVE CaptureInv(d)'
    <3>1. taken'[d] = taken[d] /\ unread'[d] = unread[d]
      BY <1>1, <2>2 DEF CapInv, CmdInv, OpInv, Domains
    <3>2. Arms(q) => armed'.by # {d}
      BY <2>1, <2>2
    <3>3. CaptureInv(d)
      BY DEF CapInv
    <3>4. QED
      BY <1>1, <2>1, <3>1, <3>2, <3>3, CaptureOthers
  <2>3. CaptureInv(c)'
    <3> SUFFICES ASSUME op[c].name \in Captures, result[c] \in {"none", "ok"}
                 PROVE  CaptureInv(c)'
      BY <1>1 DEF CaptureInv
    <3>1. /\ todo[c] \in Seq(CaptureAsks) /\ InOrder(todo[c])
          /\ ~Waited(todo[c]) => \A x \in returned[c] : x[1][1] # "WF"
          /\ (Armed(todo[c], taken[c]) /\ clean[c] /\ armed.by = {c}) => ArmedInv(c)
      BY DEF CapInv, CaptureInv
    <3>2. taken[c] = FALSE /\ taken'[c] = TRUE
      BY <1>1 DEF CapInv, CmdInv, OpInv, Domains
    <3>3. /\ q \in CaptureAsks
          /\ Arms(q) => ~Waited(todo[c])
          /\ ~Arms(q) => Armed(todo[c], FALSE)
          /\ Reads(q) => Waited(todo[c])
      BY <1>1, <3>1, CaptureHead DEF q
    <3>4. ASSUME clean[c], Arms(q) PROVE ArmedInv(c)'
      <4>1. Mode' # "STOP"
        BY <1>4, <3>3, <3>4, ArmEffect DEF CapInv, CmdInv, InstrumentInv, q
      <4>2. acquisition' = armed'.after
        BY <2>1, <3>4
      <4>3. ~Waits(q) /\ ~Reads(q)
        BY <3>4 DEF Arms, Waits, Reads, CaptureAsks, Query, CommandTo
      <4>4. ~Waited(todo'[c]) /\ Head(todo'[c]) = q
        BY <1>1, <3>3, <3>4 DEF q
      <4>5. QED
        BY <4>1, <4>2, <4>3, <4>4 DEF ArmedInv
    <3>5. ASSUME clean[c], ~Arms(q), armed'.by = {c} PROVE ArmedInv(c)'
      <4>1. ArmedInv(c)
        BY <2>1, <3>1, <3>2, <3>3, <3>5
      <4>2. Waits(q) \/ Reads(q) => Head(unread'[c]).val = Says(Now, q.key)
        <5>1. Waits(q) \/ Reads(q) => q.query
          BY <3>3 DEF Waits, Reads, CaptureAsks, Query, CommandTo
        <5>2. keeps_output => unread[c] = << >>
          BY <1>1, <3>2, <3>5 DEF CapInv, CmdInv, OpInv, FreshInv, Busy
        <5>3. q.query => unread'[c] = Append(<< >>, [key |-> q.key, val |-> Says(Now, q.key)])
          BY <5>2 DEF Take, CapInv, CmdInv, OpInv, Domains, q
        <5>4. \A a : Head(Append(<< >>, a)) = a
          OBVIOUS
        <5>5. QED
          BY <5>1, <5>3, <5>4
      <4>0. Waits(q) \/ Reads(q) => q.key \notin DOMAIN setting
        BY DEF CapInv, CmdInv, InstrumentInv, Settings, Waits, Reads
      <4>3. Waits(q) => Says(Now, q.key) = IF Mode = "STOP" THEN "Stop" ELSE "Run"
        BY <4>0 DEF Says, Now, Mode, Waits
      <4>4. Reads(q) => Says(Now, q.key) = acquisition
        BY <4>0 DEF Says, Now, Reads
      <4>5. /\ Mode' = Mode /\ acquisition' = acquisition /\ armed' = armed
            /\ todo'[c] = todo[c] /\ returned'[c] = returned[c]
            /\ Head(todo'[c]) = q
        BY <1>1, <2>1, <3>5 DEF q
      <4>6. Waits(q) /\ Head(unread'[c]).val = "Stop" => Mode = "STOP"
        BY <4>2, <4>3
      <4>7. Reads(q) => Head(unread'[c]).val = acquisition
        BY <4>2, <4>4
      <4>8. QED
        BY <4>1, <4>5, <4>6, <4>7 DEF ArmedInv
    <3>6. QED
      BY <1>1, <1>4, <3>1, <3>4, <3>5 DEF CaptureInv
  <2>4. QED
    BY <2>2, <2>3
<1>5. QED
  BY <1>3, <1>4

LEMMA CaptureAnswered ==
    ASSUME CapInv, NEW c \in Clients, Answered(c)
    PROVE  \A d \in Clients : CaptureInv(d)'
<1> DEFINE q == Head(todo[c])
           a == Head(unread[c])
           v == ValueOf(q, a)
           r == Rest(op[c], q, v, Tail(todo[c]))
<1>1. /\ UNCHANGED <<model, setting, acquisition, armed, op, clean>> /\ taken[c]
      /\ taken' = [taken EXCEPT ![c] = FALSE]
      /\ unread' = [unread EXCEPT ![c] = Tail(@)]
      /\ todo' = [todo EXCEPT ![c] = r]
      /\ returned' = [returned EXCEPT ![c] = IF q.query THEN @ \cup {<<q.key, v>>} ELSE @]
      /\ result' = [result EXCEPT ![c] = IF r = << >> THEN "ok" ELSE @]
  BY DEF Answered, instrumentVars, historyVars
<1> HIDE DEF r
<1>2. Mode' = Mode
  BY <1>1 DEF Mode
<1>3. ASSUME NEW d \in Clients, d # c PROVE CaptureInv(d)'
  <2>1. /\ taken'[d] = taken[d] /\ unread'[d] = unread[d] /\ todo'[d] = todo[d]
        /\ result'[d] = result[d] /\ returned'[d] = returned[d]
    BY <1>1, <1>3 DEF CapInv, CmdInv, OpInv, Domains
  <2>2. CaptureInv(d)
    BY DEF CapInv
  <2>3. QED
    BY <1>1, <1>2, <2>1, <2>2, CaptureOthers
<1>4. /\ taken[c] = TRUE /\ taken'[c] = FALSE /\ todo'[c] = r /\ todo[c] # << >>
      /\ result[c] = "none"
      /\ \A x \in returned'[c] : x \in returned[c] \/ x = <<q.key, v>>
      /\ \A x \in returned[c] : x \in returned'[c]
  BY <1>1 DEF CapInv, CmdInv, OpInv, Domains, QueueInv, DutyInv, Busy
<1>5. CaptureInv(c)'
  <2> SUFFICES ASSUME op[c].name \in Captures PROVE CaptureInv(c)'
    BY <1>1 DEF CaptureInv
  <2>1. /\ model = "SDS" /\ todo[c] \in Seq(CaptureAsks) /\ InOrder(todo[c])
        /\ ~Waited(todo[c]) => \A x \in returned[c] : x[1][1] # "WF"
        /\ (Armed(todo[c], TRUE) /\ clean[c] /\ armed.by = {c}) => ArmedInv(c)
    BY <1>4 DEF CapInv, CaptureInv
  <2>2. /\ q \in CaptureAsks
        /\ Arms(q) => ~Waited(todo[c])
        /\ ~Arms(q) => Armed(todo[c], FALSE)
        /\ Reads(q) => Waited(todo[c])
    BY <1>4, <2>1, CaptureHead
  <2>3. /\ Tail(todo[c]) \in Seq(CaptureAsks) /\ InOrder(Tail(todo[c]))
        /\ Armed(Tail(todo[c]), FALSE) => Armed(todo[c], TRUE)
        /\ Waited(Tail(todo[c])) => Waited(todo[c]) \/ Waits(q)
        /\ ~Waited(Tail(todo[c])) => ~Waited(todo[c]) /\ ~Reads(q)
    BY <1>4, <2>1, CaptureTail
  \* The answer is to this ask.
  <2>4. ASSUME clean[c], q.query, Waits(q) \/ Reads(q) PROVE v = a.val
    <3>1. PICK w : unread[c] = << AnswerTo(q, w) >>
      BY <1>4, <2>4 DEF CapInv, CmdInv, OpInv, FreshInv, Told
    <3>2. a = AnswerTo(q, w)
      BY <3>1
    <3> HIDE DEF a, q
    <3>3. a.key = q.key
      BY <2>4, <3>2 DEF AnswerTo
    <3>4. QED
      BY <3>3 DEF ValueOf
  <2>5. Waits(q) \/ Reads(q) => q.query
    BY <2>2 DEF Waits, Reads, CaptureAsks, Query, CommandTo
  <2>6. \/ Waits(q) /\ v # "Stop" /\ r = todo[c]
        \/ ~(Waits(q) /\ v # "Stop") /\ r = Tail(todo[c])
    <3>1. op[c].name \notin {"set_output", "enable_output", "disable_output"}
      BY DEF Captures
    <3>2. << q >> \o Tail(todo[c]) = todo[c]
      BY <1>4, <2>1, HeadTailProperties
    <3> HIDE DEF q, v
    <3>3. CASE Waits(q) /\ v # "Stop"
      BY <3>1, <3>2, <3>3 DEF r, Rest, Waits
    <3>4. CASE ~(Waits(q) /\ v # "Stop")
      BY <3>1, <3>4 DEF r, Rest, Waits
    <3>5. QED
      BY <3>3, <3>4
  <2> HIDE DEF v, a
  <2>7. CASE Waits(q) /\ v # "Stop" /\ r = todo[c]
    <3>1. \A x \in returned'[c] : x \in returned[c] \/ x[1][1] # "WF"
      <4>1. Waits(q) => <<q.key, v>>[1][1] # "WF"
        BY DEF Waits
      <4> HIDE DEF q
      <4>2. QED
        BY <1>4, <2>7, <4>1
    <3>2. ~Arms(q) /\ ~Reads(q)
      BY <2>2, <2>7 DEF Waits, Arms, Reads, CaptureAsks, Query, CommandTo
    <3> HIDE DEF q
    <3>3. Armed(todo[c], TRUE)
      BY <2>2, <3>2 DEF Armed
    <3>4. (clean[c] /\ armed.by = {c}) => ArmedInv(c)'
      BY <1>1, <1>2, <1>4, <2>1, <2>7, <3>1, <3>3 DEF ArmedInv
    <3>5. QED
      BY <1>1, <1>4, <2>1, <2>7, <3>1, <3>4 DEF CaptureInv
  <2>8. CASE ~(Waits(q) /\ v # "Stop") /\ r = Tail(todo[c])
    <3>1. \A x \in returned'[c] : x \in returned[c] \/ x[1][1] # "WF" \/ (Reads(q) /\ x[2] = v)
      <4>1. <<q.key, v>>[1] = q.key /\ <<q.key, v>>[2] = v
        OBVIOUS
      <4> HIDE DEF q
      <4>2. QED
        BY <1>4, <4>1 DEF Reads
    <3>2. ~Waited(todo'[c]) => \A x \in returned'[c] : x[1][1] # "WF"
      BY <1>4, <2>1, <2>3, <2>8, <3>1
    <3>3. ASSUME Armed(todo'[c], FALSE), clean[c], armed.by = {c} PROVE ArmedInv(c)'
      <4>1. ArmedInv(c)
        BY <1>4, <2>1, <2>3, <2>8, <3>3
      <4>2. Waits(q) => Mode = "STOP"
        BY <1>4, <2>4, <2>5, <2>8, <3>3, <4>1 DEF ArmedInv, a
      <4>3. Reads(q) => v = acquisition
        BY <1>4, <2>4, <2>5, <3>3, <4>1 DEF ArmedInv, a
      <4>4. Waited(todo'[c]) => Mode = "STOP"
        BY <1>4, <2>3, <2>8, <4>1, <4>2 DEF ArmedInv
      <4>5. ASSUME Waited(todo'[c]), NEW x \in returned'[c], x[1][1] = "WF"
            PROVE  x[2] = acquisition
        <5>1. CASE x \in returned[c]
          <6>1. Waited(todo[c])
            BY <2>1, <4>5, <5>1
          <6>2. QED
            BY <4>1, <4>5, <5>1, <6>1 DEF ArmedInv
        <5>2. CASE Reads(q) /\ x[2] = v
          BY <4>3, <5>2
        <5>3. QED
          BY <3>1, <4>5, <5>1, <5>2
      <4>6. QED
        BY <1>1, <1>2, <1>4, <4>1, <4>4, <4>5 DEF ArmedInv
    <3>4. QED
      BY <1>1, <1>4, <2>1, <2>3, <2>8, <3>2, <3>3 DEF CaptureInv
  <2>9. QED
    BY <2>6, <2>7, <2>8
<1>6. QED
  BY <1>3, <1>5

LEMMA CaptureEnds ==
    ASSUME CapInv, NEW c \in Clients, Misanswered(c) \/ Fails(c)
    PROVE  \A d \in Clients : CaptureInv(d)'
<1>1. PICK r \in {"err", "panicked"} : Ends(c, r)
  BY DEF Misanswered, Fails, Outcomes
<1>2. /\ taken' = [taken EXCEPT ![c] = FALSE]
      /\ todo' = [todo EXCEPT ![c] = << >>]
      /\ result' = [result EXCEPT ![c] = r]
      /\ returned' = [returned EXCEPT ![c] = {}]
      /\ unread' = unread \/ unread' = [unread EXCEPT ![c] = Tail(@)]
      /\ UNCHANGED <<model, setting, acquisition, armed, op, clean>>
  BY <1>1 DEF Misanswered, Fails, Ends, instrumentVars
<1>3. Mode' = Mode
  BY <1>2 DEF Mode
<1>4. ASSUME NEW d \in Clients, d # c PROVE CaptureInv(d)'
  <2>1. /\ taken'[d] = taken[d] /\ unread'[d] = unread[d] /\ todo'[d] = todo[d]
        /\ result'[d] = result[d] /\ returned'[d] = returned[d]
    BY <1>2, <1>4 DEF CapInv, CmdInv, OpInv, Domains
  <2>2. CaptureInv(d)
    BY DEF CapInv
  <2>3. QED
    BY <1>2, <1>3, <2>1, <2>2, CaptureOthers
<1>5. result'[c] = r
  BY <1>2 DEF CapInv, CmdInv, OpInv, Domains
<1>6. CaptureInv(c)'
  BY <1>5 DEF CaptureInv
<1>7. QED
  BY <1>4, <1>6

\* The signal comes: the acquisition that was waited for, if it was.
LEMMA CaptureAcquire ==
    ASSUME CapInv, Acquire
    PROVE  \A d \in Clients : CaptureInv(d)'
<1>1. /\ UNCHANGED <<model, op, todo, taken, result, returned, clean, unread, armed>>
      /\ Mode # "STOP" /\ acquisition' = acquisition + 1
      /\ setting' = IF Mode = "SINGLE" THEN [setting EXCEPT ![<<"TRMD", 0>>] = "STOP"] ELSE setting
      /\ model = "SDS"
  BY DEF Acquire, Mode
<1>2. <<"TRMD", 0>> \in DOMAIN setting
  BY <1>1 DEF CapInv, CmdInv, InstrumentInv, Settings, Keys, Global
<1>3. Mode' = IF Mode = "SINGLE" THEN "STOP" ELSE Mode
  BY <1>1, <1>2 DEF Mode
<1>4. SUFFICES ASSUME NEW d \in Clients, op[d].name \in Captures, result[d] \in {"none", "ok"}
               PROVE  CaptureInv(d)'
  BY <1>1 DEF CaptureInv
<1>5. /\ todo[d] \in Seq(CaptureAsks) /\ InOrder(todo[d])
      /\ ~Waited(todo[d]) => \A x \in returned[d] : x[1][1] # "WF"
      /\ (Armed(todo[d], taken[d]) /\ clean[d] /\ armed.by = {d}) => ArmedInv(d)
  BY <1>4 DEF CapInv, CaptureInv
<1>6. ASSUME Armed(todo[d], taken[d]), clean[d], armed.by = {d} PROVE ArmedInv(d)'
  <2>1. ArmedInv(d)
    BY <1>5, <1>6
  <2>2. ~Waited(todo[d])
    BY <1>1, <2>1 DEF ArmedInv
  <2>3. taken[d] => ~Reads(Head(todo[d]))
    <3>1. taken[d] => todo[d] # << >>
      BY DEF CapInv, CmdInv, OpInv, QueueInv, Busy
    <3>2. QED
      BY <1>5, <2>2, <3>1, CaptureHead
  <2>4. taken[d] /\ Waits(Head(todo[d])) => Head(unread[d]).val # "Stop"
    BY <1>1, <2>1 DEF ArmedInv
  <2>5. /\ Mode' = "SINGLE" => acquisition' = armed'.after
        /\ Mode' = "STOP" => acquisition' = armed'.after + 1
    BY <1>1, <1>3, <2>1 DEF ArmedInv
  <2>6. QED
    BY <1>1, <2>2, <2>3, <2>4, <2>5 DEF ArmedInv
<1>7. QED
  BY <1>1, <1>5, <1>6 DEF CaptureInv

LEMMA CapStep == CapInv /\ [Next]_vars => CapInv'
<1> SUFFICES ASSUME CapInv, [Next]_vars PROVE CapInv'
  OBVIOUS
<1>1. CmdInv' /\ TriggerInv'
  BY CmdStep, TriggerStep DEF CapInv
<1>2. CASE Next
  <2>1. \A d \in Clients : CaptureInv(d)'
    BY <1>2, CaptureBegin, CaptureTake, CaptureAnswered, CaptureEnds, CaptureAcquire DEF Next
  <2>2. QED
    BY <1>1, <2>1 DEF CapInv
<1>3. CASE UNCHANGED vars
  <2>1. Mode' = Mode
    BY <1>3 DEF Mode, vars, instrumentVars
  <2>2. \A d \in Clients : CaptureInv(d)'
    BY <1>3, <2>1, CaptureOthers DEF vars, instrumentVars, historyVars, CapInv
  <2>3. QED
    BY <1>1, <2>2 DEF CapInv
<1>4. QED
  BY <1>2, <1>3

\* A capture that began with nothing unread, on an oscilloscope that nobody else has
\* triggered since it armed, has both channels of one acquisition, and one that began
\* after it armed.
THEOREM CapturesAreFresh == Spec => []CaptureIsFresh
<1>1. CapInv => CaptureIsFresh
  <2> SUFFICES ASSUME CapInv, NEW c \in Clients, op[c].name \in Captures, result[c] = "ok",
                      clean[c], armed.by = {c}
               PROVE  \E n \in armed.after + 1 .. acquisition :
                          \A x \in returned[c] : x[1][1] = "WF" => x[2] = n
    BY DEF CaptureIsFresh
  <2>1. todo[c] = << >>
    BY DEF CapInv, CmdInv, DutyInv, Busy
  <2>2. Armed(todo[c], taken[c]) /\ Waited(todo[c])
    BY <2>1 DEF Armed, Waited
  <2>3. ArmedInv(c)
    BY <2>2 DEF CapInv, CaptureInv
  <2>4. /\ acquisition = armed.after + 1
        /\ \A x \in returned[c] : x[1][1] = "WF" => x[2] = acquisition
    BY <2>2, <2>3 DEF ArmedInv
  <2>5. acquisition \in armed.after + 1 .. acquisition
    BY <2>4 DEF CapInv, TriggerInv
  <2>6. QED
    BY <2>4, <2>5
<1>2. Spec => []CapInv
  BY CapInit, CapStep, PTL DEF Spec
<1>3. QED
  BY <1>1, <1>2, PTL

-----------------------------------------------------------------------------
(* Types *)

Commanded == {Set[n] : n \in DOMAIN Set} \cup {"OUTP", "INST"}

\* What is asked of this instrument can be asked of it, and is commanded to a text.
Asks == [key : Keys(model), query : {TRUE}, to : {"none"}]
        \cup [key : Commanded \X {0, 1, 2}, query : {FALSE}, to : Texts]

\* A waveform has a number, and all else a text.
Fits(k, v) == IF k[1] = "WF" THEN v \in Nat ELSE v \in Texts

Answers == {a \in [key : Keys(model) \cup {Done.key}, val : Nat \cup Texts] : Fits(a.key, a.val)}

ClientTypes(c) ==
    /\ todo[c] \in Seq(Asks)
    /\ unread[c] \in Seq(Answers)
    /\ \A x \in returned[c] : x[1] \in Keys(model) /\ Fits(x[1], x[2])
    /\ held[c] \subseteq [setting : [Settings(model) -> Texts], acquisition : Nat]

InstrumentTypes ==
    /\ model \in Models
    /\ setting \in [Settings(model) -> Texts]
    /\ acquisition \in Nat
    /\ armed \in [by : SUBSET Clients, after : Nat]

RunTypes ==
    /\ result \in [Clients -> {"none", "ok", "err", "panicked"}]
    /\ ops \in Nat
    /\ clean \in [Clients -> BOOLEAN]

TypesInv == InstrumentTypes /\ RunTypes /\ \A c \in Clients : ClientTypes(c)

LEMMA SaysFits ==
    ASSUME InstrumentTypes, NEW k \in Keys(model)
    PROVE  Fits(k, Says(Now, k))
<1>1. k \in Settings(model) => k[1] \notin {"WF", "SAST"}
  BY DEF Settings
<1>2. Now.setting = setting /\ Now.acquisition = acquisition /\ DOMAIN setting = Settings(model)
  BY DEF Now, InstrumentTypes
<1>3. CASE k[1] = "WF"
  <2>1. Says(Now, k) = acquisition
    BY <1>1, <1>2, <1>3 DEF Says
  <2>2. QED
    BY <1>3, <2>1 DEF Fits, InstrumentTypes
<1>4. CASE k[1] = "SAST"
  <2>1. Says(Now, k) \in {"Stop", "Run"}
    BY <1>1, <1>2, <1>4 DEF Says
  <2>2. QED
    BY <1>4, <2>1 DEF Fits, Texts
<1>5. CASE k \in Settings(model)
  <2>1. Says(Now, k) = setting[k]
    BY <1>1, <1>2, <1>5 DEF Says
  <2>2. QED
    BY <1>1, <1>5, <2>1 DEF Fits, InstrumentTypes
<1>6. CASE k[1] \notin {"WF", "SAST"} /\ k \notin Settings(model)
  <2>1. Says(Now, k) = InitialValue(k)
    BY <1>2, <1>6 DEF Says
  <2>2. InitialValue(k) \in Texts
    BY DEF InitialValue, Texts
  <2>3. QED
    BY <1>6, <2>1, <2>2 DEF Fits
<1>7. QED
  BY <1>3, <1>4, <1>5, <1>6

\* What a parser lets pass is of the kind that was asked for.
LEMMA ParsedFits ==
    ASSUME NEW q \in Asks, q.query, NEW a \in Answers, "ok" \in Outcomes(q, a)
    PROVE  q.key \in Keys(model) /\ Fits(q.key, ValueOf(q, a))
<1>1. q.key \in Keys(model)
  BY DEF Asks
<1>2. Fits(a.key, a.val)
  BY DEF Answers
<1>3. Parses(q, a)
  BY DEF Outcomes
<1>4. CASE q.key[1] \in AnyText
  <2>1. q.key[1] # "WF"
    BY <1>4 DEF AnyText
  <2>2. CASE a.key = q.key
    BY <1>1, <1>2, <2>1, <2>2 DEF ValueOf, Fits
  <2>3. CASE a.key # q.key
    BY <1>1, <1>4, <2>1, <2>3 DEF ValueOf, Fits, Texts
  <2>4. QED
    BY <2>2, <2>3
<1>5. CASE q.key[1] \notin AnyText
  <2>1. ValueOf(q, a) = a.val
    BY <1>5 DEF ValueOf
  <2>2. q.key[1] = "WF" <=> a.key[1] = "WF"
    BY <1>3, <1>5 DEF Parses, Form
  <2>3. QED
    BY <1>1, <1>2, <2>1, <2>2 DEF Fits
<1>6. QED
  BY <1>4, <1>5

LEMMA QueryIsAsk == \A n, ch : <<n, ch>> \in Keys(model) => Query(n, ch) \in Asks
  BY DEF Query, Asks

LEMMA CommandIsAsk ==
    ASSUME NEW n \in Commanded, NEW ch \in {0, 1, 2}, NEW to \in Texts
    PROVE  Command(n, ch, to) \in Asks
<1>1. <<n, ch>> \in Commanded \X {0, 1, 2}
  OBVIOUS
<1>2. QED
  BY <1>1 DEF Command, Asks

\* The names and the texts that plans have of their own.
LEMMA OwnCommands ==
    /\ {"TRMD", "ARM", "FRTR", "OUTP", "INST"} \subseteq Commanded
    /\ {"none", "ON", "OFF", "SINGLE", "CH1", "CH2"} \subseteq Texts
<1>1. /\ "set_trigger_mode" \in DOMAIN Set /\ Set["set_trigger_mode"] = "TRMD"
      /\ "arm" \in DOMAIN Set /\ Set["arm"] = "ARM"
      /\ "force_trigger" \in DOMAIN Set /\ Set["force_trigger"] = "FRTR"
  BY DEF Set
<1>2. {"TRMD", "ARM", "FRTR"} \subseteq Commanded
  BY <1>1 DEF Commanded
<1>3. QED
  BY <1>2 DEF Commanded, Texts

\* What each model can be asked.
LEMMA SomeKeys ==
    /\ model = "SDS" => \A ch \in {1, 2} :
          {<<"VDIV", ch>>, <<"OFST", ch>>, <<"TRA", ch>>, <<"WF", ch>>} \subseteq Keys(model)
    /\ model = "SDS" =>
          {<<"IDN", 0>>, <<"TDIV", 0>>, <<"SARA", 0>>, <<"TRMD", 0>>, <<"SAST", 0>>}
              \subseteq Keys(model)
    /\ model = "SDG" => \A ch \in {1, 2} : {<<"OUTP", ch>>, <<"BSWV", ch>>} \subseteq Keys(model)
    /\ model = "SDG" => <<"IDN", 0>> \in Keys(model)
    /\ model = "SPD" => \A ch \in {1, 2} :
          {<<"VOLT", ch>>, <<"CURR", ch>>, <<"MEAS", ch>>} \subseteq Keys(model)
    /\ model = "SPD" => {<<"IDN", 0>>, <<"INST", 0>>} \subseteq Keys(model)
  BY DEF Keys, PerChannel, Global

LEMMA ChannelStateIsAsks ==
    ASSUME model \in Models, NEW ch \in {1, 2}
    PROVE  ChannelState(model, ch) \in Seq(Asks)
<1>1. model \in {"SDS", "SDG", "SPD"}
  BY ConstantsAssumption DEF ConstantsAssumption
<1>2. CASE model = "SDS"
  <2>1. {Query("VDIV", ch), Query("OFST", ch), Query("TRA", ch)} \subseteq Asks
    BY <1>2, SomeKeys, QueryIsAsk
  <2>2. QED
    BY <1>2, <2>1 DEF ChannelState
<1>3. CASE model = "SDG"
  <2>1. Query("BSWV", ch) \in Asks
    BY <1>3, SomeKeys, QueryIsAsk
  <2>2. QED
    BY <1>3, <2>1 DEF ChannelState
<1>4. CASE model = "SPD"
  <2>1. {Query("CURR", ch), Query("VOLT", ch), Query("MEAS", ch)} \subseteq Asks
    BY <1>4, SomeKeys, QueryIsAsk
  <2>2. QED
    BY <1>4, <2>1 DEF ChannelState
<1>5. QED
  BY <1>1, <1>2, <1>3, <1>4

LEMMA FullStateIsAsks == ASSUME model \in Models PROVE FullState(model) \in Seq(Asks)
<1> DEFINE own == CASE model = "SDS" -> << Query("TDIV", 0), Query("TRMD", 0) >>
                    [] model = "SDG" -> << >>
                    [] model = "SPD" -> << Query("INST", 0) >>
<1>1. model \in {"SDS", "SDG", "SPD"}
  BY ConstantsAssumption DEF ConstantsAssumption
<1>2. << Query("IDN", 0) >> \in Seq(Asks)
  BY <1>1, SomeKeys, QueryIsAsk
<1>3. own \in Seq(Asks)
  <2>1. CASE model = "SDS"
    <3>1. Query("TDIV", 0) \in Asks /\ Query("TRMD", 0) \in Asks
      BY <2>1, SomeKeys, QueryIsAsk
    <3>2. QED
      BY <2>1, <3>1
  <2>2. CASE model = "SDG"
    BY <2>2
  <2>3. CASE model = "SPD"
    <3>1. Query("INST", 0) \in Asks
      BY <2>3, SomeKeys, QueryIsAsk
    <3>2. QED
      BY <2>3, <3>1
  <2>4. QED
    BY <1>1, <2>1, <2>2, <2>3
<1>4. ChannelState(model, 1) \in Seq(Asks) /\ ChannelState(model, 2) \in Seq(Asks)
  BY ChannelStateIsAsks
<1> HIDE DEF own
<1>5. << Query("IDN", 0) >> \o own \o ChannelState(model, 1) \o ChannelState(model, 2) \in Seq(Asks)
  BY <1>2, <1>3, <1>4, ConcatProperties
<1>6. QED
  BY <1>5 DEF FullState, own

LEMMA PlanOfGet ==
    ASSUME NEW m, NEW o, o.name \in DOMAIN Get
    PROVE  Plan(m, o) = << Query(Get[o.name], o.ch) >>
<1>1. o.name \notin DOMAIN Set
  BY DEF Set, Get
<1>2. o.name \notin {"set_operating_channel", "set_output", "enable_output", "disable_output",
                    "get_channel_state", "get_full_state", "arm_single", "transfer_waveform",
                    "01_uart_decode", "02_oscillator_compare", "oscillator_resonance"}
  BY DEF Get
<1>3. QED
  BY <1>1, <1>2 DEF Plan

LEMMA PlanOfStates ==
    ASSUME NEW m, NEW o
    PROVE  /\ o.name = "get_channel_state" => Plan(m, o) = ChannelState(m, o.ch)
           /\ o.name = "get_full_state" => Plan(m, o) = FullState(m)
           /\ o.name = "transfer_waveform" =>
                 Plan(m, o) = << Query("WF", o.ch), Query("VDIV", o.ch), Query("OFST", o.ch),
                                 Query("SARA", 0) >>
<1>1. o.name \in {"get_channel_state", "get_full_state", "transfer_waveform"} =>
          o.name \notin DOMAIN Get \cup DOMAIN Set
  BY DEF Set, Get
<1>2. QED
  BY <1>1 DEF Plan, TransferWaveform

LEMMA InstIsAsk ==
    ASSUME NEW ch \in {1, 2}
    PROVE  Command("INST", 0, Inst[ch]) \in Asks
<1>1. Inst[ch] \in {"CH1", "CH2"}
  BY DEF Inst
<1>2. Inst[ch] \in Texts /\ "INST" \in Commanded
  BY <1>1, OwnCommands
<1>3. QED
  BY <1>2, CommandIsAsk

\* An operation asks what its model can be asked.
LEMMA PlanIsAsks ==
    ASSUME model \in Models, NEW o \in Requests[model], ChanOk(o)
    PROVE  Plan(model, o) \in Seq(Asks)
<1>1. o.ch \in {0, 1, 2} /\ o.to \in Texts
  BY DEF ChanOk, Texts
<1>2. CASE o.name \in DOMAIN Get
  <2>1. Query(Get[o.name], o.ch) \in Asks
    BY <1>2, RequestsAreKnown, QueryIsAsk
  <2>2. Plan(model, o) = << Query(Get[o.name], o.ch) >>
    BY <1>2, PlanOfGet
  <2>3. QED
    BY <2>1, <2>2
<1>3. CASE o.name \in DOMAIN Set
  <2>1. Set[o.name] \in Commanded
    BY <1>3 DEF Commanded
  <2>2. Command(Set[o.name], o.ch, o.to) \in Asks
    BY <1>1, <2>1, CommandIsAsk
  <2>3. Plan(model, o) = << Command(Set[o.name], o.ch, o.to) >>
    BY <1>3, PlanOfSet
  <2>4. QED
    BY <2>2, <2>3
<1>4. CASE o.name = "arm_single"
  <2>1. Command("TRMD", 0, "SINGLE") \in Asks /\ Command("ARM", 0, "none") \in Asks
    BY OwnCommands, CommandIsAsk
  <2>2. Plan(model, o) = ArmSingle
    BY <1>4, PlanOfOthers
  <2>3. QED
    BY <2>1, <2>2 DEF ArmSingle
<1>5. CASE o.name = "set_operating_channel"
  <2>1. o.ch \in {1, 2}
    BY <1>5, RequestsAreKnown
  <2>2. Command("INST", 0, Inst[o.ch]) \in Asks
    BY <2>1, InstIsAsk
  <2>3. Plan(model, o) = << Command("INST", 0, Inst[o.ch]) >>
    BY <1>5, PlanOfOthers
  <2>4. QED
    BY <2>2, <2>3
<1>6. CASE o.name = "set_output"
  <2>1. model = "SDG" /\ o.ch \in {1, 2}
    BY <1>6, RequestsAreKnown
  <2>2. Query("OUTP", o.ch) \in Asks
    BY <2>1, SomeKeys, QueryIsAsk
  <2>3. Plan(model, o) = << Query("OUTP", o.ch) >>
    BY <1>6, PlanOfOthers
  <2>4. QED
    BY <2>2, <2>3
<1>7. CASE o.name \in {"enable_output", "disable_output"}
  <2>1. model = "SPD"
    BY <1>7, RequestsAreKnown
  <2>2. Query("INST", 0) \in Asks
    BY <2>1, SomeKeys, QueryIsAsk
  <2>3. Command("OUTP", o.ch, "ON") \in Asks /\ Command("OUTP", o.ch, "OFF") \in Asks
    BY <1>1, OwnCommands, CommandIsAsk
  <2>4. \/ Plan(model, o) = << Query("INST", 0), Command("OUTP", o.ch, "ON") >>
        \/ Plan(model, o) = << Query("INST", 0), Command("OUTP", o.ch, "OFF") >>
    BY <1>7, PlanOfOthers
  <2>5. \A a, b \in Asks : <<a, b>> \in Seq(Asks)
    OBVIOUS
  <2>6. QED
    BY <2>2, <2>3, <2>4, <2>5
<1>8. CASE o.name = "get_channel_state"
  <2>1. o.ch \in {1, 2}
    BY <1>8, RequestsAreKnown
  <2>2. ChannelState(model, o.ch) \in Seq(Asks)
    BY <2>1, ChannelStateIsAsks
  <2>3. Plan(model, o) = ChannelState(model, o.ch)
    BY <1>8, PlanOfStates
  <2>4. QED
    BY <2>2, <2>3
<1>9. CASE o.name = "get_full_state"
  BY <1>9, FullStateIsAsks, PlanOfStates
<1>10. CASE o.name = "transfer_waveform"
  <2>1. /\ Query("WF", o.ch) \in Asks /\ Query("VDIV", o.ch) \in Asks
        /\ Query("OFST", o.ch) \in Asks /\ Query("SARA", 0) \in Asks
    <3>1. model = "SDS" /\ o.ch \in {1, 2}
      BY <1>10, RequestsAreKnown
    <3>2. QED
      BY <3>1, SomeKeys, QueryIsAsk
  <2>2. Plan(model, o) = << Query("WF", o.ch), Query("VDIV", o.ch), Query("OFST", o.ch),
                            Query("SARA", 0) >>
    BY <1>10, PlanOfStates
  <2>3. QED
    BY <2>1, <2>2
<1>11. CASE o.name \in Captures
  <2>1. Plan(model, o) \in Seq(CaptureAsks)
    BY <1>11, PlanIsInOrder
  <2>2. CaptureAsks \subseteq Asks
    <3>1. /\ Command("TRMD", 0, "SINGLE") \in Asks /\ Command("ARM", 0, "none") \in Asks
          /\ Command("FRTR", 0, "none") \in Asks
      BY OwnCommands, CommandIsAsk
    <3>2. /\ Query("SAST", 0) \in Asks /\ Query("SARA", 0) \in Asks
          /\ Query("WF", 1) \in Asks /\ Query("WF", 2) \in Asks
      BY <1>11, RequestsAreKnown, SomeKeys, QueryIsAsk
    <3>3. QED
      BY <3>1, <3>2 DEF CaptureAsks, Command, CommandTo
  <2>3. QED
    BY <2>1, <2>2, SeqMonotonic
<1>12. QED
  BY <1>2, <1>3, <1>4, <1>5, <1>6, <1>7, <1>8, <1>9, <1>10, <1>11, RequestsAreKnown

LEMMA RestIsAsks ==
    ASSUME model \in Models, NEW o, o \in Requests[model] \/ o.name = "none", ChanOk(o),
           NEW q \in Asks, NEW v, NEW t \in Seq(Asks)
    PROVE  Rest(o, q, v, t) \in Seq(Asks)
<1>1. << q >> \o t \in Seq(Asks)
  BY ConcatProperties
<1>2. ASSUME o.name = "set_output"
      PROVE  << Command("OUTP", o.ch, o.to) >> \in Seq(Asks)
  <2>1. o.to \in Texts /\ o.ch \in {0, 1, 2}
    BY <1>2 DEF Texts, ChanOk
  <2>2. Command("OUTP", o.ch, o.to) \in Asks
    BY <2>1, OwnCommands, CommandIsAsk
  <2>3. QED
    BY <2>2
<1>3. ASSUME o.name \in {"enable_output", "disable_output"}
      PROVE  << Command("INST", 0, Inst[o.ch]) >> \o t \in Seq(Asks)
  <2>1. o \in Requests[model]
    BY <1>3
  <2>2. o.ch \in {1, 2}
    BY <1>3, <2>1, RequestsAreKnown
  <2>3. Command("INST", 0, Inst[o.ch]) \in Asks
    BY <2>2, InstIsAsk
  <2>4. << Command("INST", 0, Inst[o.ch]) >> \in Seq(Asks)
    BY <2>3
  <2>5. QED
    BY <2>4, ConcatProperties
<1>4. \/ Rest(o, q, v, t) = << q >> \o t
      \/ o.name = "set_output" /\ Rest(o, q, v, t) = << Command("OUTP", o.ch, o.to) >>
      \/ /\ o.name \in {"enable_output", "disable_output"}
         /\ Rest(o, q, v, t) = << Command("INST", 0, Inst[o.ch]) >> \o t
      \/ Rest(o, q, v, t) = t
  <2> DEFINE p == << q >> \o t
             i == << Command("INST", 0, Inst[o.ch]) >> \o t
             w == << Command("OUTP", o.ch, o.to) >>
  <2>1. Rest(o, q, v, t) =
          CASE q.key[1] = "SAST" /\ v # "Stop" -> p
            [] o.name = "set_output" /\ q.query /\ v # o.to -> w
            [] o.name \in {"enable_output", "disable_output"} /\ q.query /\ v # Inst[o.ch] -> i
            [] OTHER -> t
    BY DEF Rest
  <2> HIDE DEF p, i, w
  <2>2. QED
    BY <2>1 DEF p, i, w
<1>5. QED
  BY <1>1, <1>2, <1>3, <1>4

-----------------------------------------------------------------------------
LEMMA TypesInit == Init => TypesInv
<1> SUFFICES ASSUME Init PROVE TypesInv
  OBVIOUS
<1>1. InstrumentTypes
  <2>1. \A k : InitialValue(k) \in Texts
    BY DEF InitialValue, Texts
  <2>2. QED
    BY <2>1 DEF Init, InstrumentTypes
<1>2. RunTypes
  BY DEF Init, RunTypes
<1>3. ASSUME NEW c \in Clients PROVE ClientTypes(c)
  <2>1. todo[c] = << >> /\ unread[c] = << >> /\ returned[c] = {} /\ held[c] = {}
    BY <1>3 DEF Init
  <2>2. << >> \in Seq(Asks) /\ << >> \in Seq(Answers)
    BY EmptySeq
  <2>3. QED
    BY <2>1, <2>2 DEF ClientTypes
<1>4. QED
  BY <1>1, <1>2, <1>3 DEF TypesInv

\* The types depend on the model only.
LEMMA SameTypes ==
    ASSUME model' = model
    PROVE  Asks' = Asks /\ Answers' = Answers /\ Texts' = Texts
           /\ \A k, v : Fits(k, v)' <=> Fits(k, v)
<1>1. Texts' = Texts
  BY DEF Texts
<1>2. \A k, v : Fits(k, v)' <=> Fits(k, v)
  BY <1>1 DEF Fits
<1>3. Asks' = Asks /\ Answers' = Answers
  BY <1>1, <1>2 DEF Asks, Answers
<1>4. QED
  BY <1>1, <1>2, <1>3

\* What a client remembers of the instrument.
LEMMA NowTyped ==
    InstrumentTypes => Now \in [setting : [Settings(model) -> Texts], acquisition : Nat]
  BY DEF InstrumentTypes, Now

LEMMA TypesOthers ==
    ASSUME NEW d \in Clients, ClientTypes(d), InstrumentTypes', model' = model,
           todo'[d] = todo[d], unread'[d] = unread[d], returned'[d] = returned[d],
           held'[d] \subseteq held[d] \cup {Now'}
    PROVE  ClientTypes(d)'
<1>1. Asks' = Asks /\ Answers' = Answers /\ Texts' = Texts
      /\ \A k, v : Fits(k, v)' <=> Fits(k, v)
  BY SameTypes
<1>2. Now' \in [setting : [Settings(model) -> Texts], acquisition : Nat]
  BY <1>1 DEF InstrumentTypes, Now
<1>3. todo'[d] \in Seq(Asks') /\ unread'[d] \in Seq(Answers')
  BY <1>1 DEF ClientTypes
<1>4. \A x \in returned'[d] : x[1] \in Keys(model') /\ Fits(x[1], x[2])'
  BY <1>1 DEF ClientTypes
<1>5. held'[d] \subseteq [setting : [Settings(model') -> Texts'], acquisition : Nat]
  BY <1>1, <1>2 DEF ClientTypes
<1>6. QED
  BY <1>3, <1>4, <1>5 DEF ClientTypes

LEMMA TypesBegin ==
    ASSUME CmdInv, TypesInv, NEW c \in Clients, NEW o \in Requests[model], Begin(c, o)
    PROVE  TypesInv'
<1>1. /\ UNCHANGED <<model, setting, acquisition, armed, unread>> /\ ops' = ops + 1
      /\ Now' = Now
      /\ todo' = [todo EXCEPT ![c] = IF ChanOk(o) THEN Plan(model, o) ELSE << >>]
      /\ result' = [result EXCEPT ![c] = IF ChanOk(o) THEN "none" ELSE "err"]
      /\ returned' = [returned EXCEPT ![c] = {}]
      /\ held' = [held EXCEPT ![c] = {Now}]
  BY DEF Begin, instrumentVars, Now
<1>2. InstrumentTypes'
  BY <1>1, SameTypes DEF TypesInv, InstrumentTypes
<1>3. RunTypes'
  BY <1>1 DEF Begin, TypesInv, RunTypes
<1>4. ASSUME NEW d \in Clients, d # c PROVE ClientTypes(d)'
  <2>1. /\ todo'[d] = todo[d] /\ returned'[d] = returned[d] /\ unread'[d] = unread[d]
        /\ held'[d] \subseteq held[d] \cup {Now'}
    BY <1>1, <1>4 DEF CmdInv, OpInv, Domains
  <2>2. QED
    BY <1>1, <1>2, <2>1, TypesOthers DEF TypesInv
<1>5. ClientTypes(c)'
  <2>1. /\ todo'[c] = IF ChanOk(o) THEN Plan(model, o) ELSE << >>
        /\ returned'[c] = {} /\ held'[c] = {Now} /\ unread'[c] = unread[c]
    BY <1>1 DEF CmdInv, OpInv, Domains
  <2>2. todo'[c] \in Seq(Asks)
    <3>1. CASE ChanOk(o)
      BY <2>1, <3>1, PlanIsAsks DEF TypesInv, InstrumentTypes
    <3>2. CASE ~ChanOk(o)
      BY <2>1, <3>2, EmptySeq
    <3>3. QED
      BY <3>1, <3>2
  <2>3. QED
    BY <1>1, <2>1, <2>2, SameTypes, NowTyped DEF TypesInv, ClientTypes
<1>6. QED
  BY <1>2, <1>3, <1>4, <1>5 DEF TypesInv

LEMMA TypesTake ==
    ASSUME CmdInv, TypesInv, NEW c \in Clients, Take(c)
    PROVE  TypesInv'
<1> DEFINE q == Head(todo[c])
           a == IF q.query THEN [key |-> q.key, val |-> Says(Now, q.key)] ELSE Done
           kept == IF keeps_output THEN unread[c] ELSE << >>
<1>1. /\ UNCHANGED <<model, acquisition, todo, result, returned, ops, clean>>
      /\ todo[c] # << >> /\ Remember /\ Effect(q)
      /\ unread' = [unread EXCEPT ![c] = Append(kept, a)]
      /\ armed' = armed \/ armed' = [by |-> {c}, after |-> acquisition]
  BY DEF Take, Busy
<1>2. q \in Asks
  BY <1>1, HeadTailProperties DEF TypesInv, ClientTypes
<1>3. a \in Answers
  <2>1. CASE q.query
    <3>1. q.key \in Keys(model)
      BY <1>2, <2>1 DEF Asks
    <3>2. Fits(q.key, Says(Now, q.key))
      BY <3>1, SaysFits DEF TypesInv
    <3>3. Says(Now, q.key) \in Nat \cup Texts
      BY <3>2 DEF Fits
    <3> HIDE DEF q
    <3>4. QED
      BY <2>1, <3>1, <3>2, <3>3 DEF Answers
  <2>2. CASE ~q.query
    <3>1. Done.key[1] # "WF" /\ Done.val \in Texts
      BY DEF Done, Texts
    <3>2. a = Done /\ Done = [key |-> Done.key, val |-> Done.val]
      BY <2>2 DEF Done
    <3>3. QED
      BY <3>1, <3>2 DEF Answers, Fits
  <2>3. QED
    BY <2>1, <2>2
<1>4. setting' \in [Settings(model) -> Texts]
  <2>1. setting \in [Settings(model) -> Texts] /\ "SINGLE" \in Texts
    BY DEF TypesInv, InstrumentTypes, Texts
  <2>2. ~q.query => q.to \in Texts
    BY <1>2 DEF Asks
  <2> HIDE DEF q
  <2>3. \/ setting' = [setting EXCEPT ![<<"TRMD", 0>>] = "SINGLE"]
        \/ ~q.query /\ setting' = [setting EXCEPT ![q.key] = q.to]
        \/ setting' = setting
    BY <1>1 DEF Effect
  <2>4. QED
    BY <2>1, <2>2, <2>3
<1> HIDE DEF q, a
<1>5. InstrumentTypes'
  BY <1>1, <1>4, SameTypes DEF TypesInv, InstrumentTypes
<1>6. RunTypes'
  BY <1>1 DEF TypesInv, RunTypes
<1>7. \A d \in Clients : held'[d] \subseteq held[d] \cup {Now'}
  BY <1>1 DEF Remember
<1>8. ASSUME NEW d \in Clients, d # c PROVE ClientTypes(d)'
  <2>1. unread'[d] = unread[d]
    BY <1>1, <1>8 DEF CmdInv, OpInv, Domains
  <2>2. QED
    BY <1>1, <1>5, <1>7, <2>1, TypesOthers DEF TypesInv
<1>9. ClientTypes(c)'
  <2>1. unread'[c] = Append(kept, a)
    BY <1>1 DEF CmdInv, OpInv, Domains
  <2>2. kept \in Seq(Answers)
    BY EmptySeq DEF TypesInv, ClientTypes
  <2> HIDE DEF kept
  <2>3. unread'[c] \in Seq(Answers)
    BY <1>3, <2>1, <2>2
  <2>4. Asks' = Asks /\ Answers' = Answers /\ Texts' = Texts
        /\ \A k, v : Fits(k, v)' <=> Fits(k, v)
    BY <1>1, SameTypes
  <2>5. Now' \in [setting : [Settings(model) -> Texts], acquisition : Nat]
    BY <1>4, <1>1 DEF Now, TypesInv, InstrumentTypes
  <2>6. held'[c] \subseteq [setting : [Settings(model') -> Texts'], acquisition : Nat]
    BY <1>1, <1>7, <2>4, <2>5 DEF TypesInv, ClientTypes
  <2>7. todo'[c] \in Seq(Asks') /\ unread'[c] \in Seq(Answers')
    BY <1>1, <2>3, <2>4 DEF TypesInv, ClientTypes
  <2>8. \A x \in returned'[c] : x[1] \in Keys(model') /\ Fits(x[1], x[2])'
    BY <1>1, <2>4 DEF TypesInv, ClientTypes
  <2>9. QED
    BY <2>6, <2>7, <2>8 DEF ClientTypes
<1>10. QED
  BY <1>5, <1>6, <1>8, <1>9 DEF TypesInv

LEMMA TypesAnswered ==
    ASSUME CmdInv, TypesInv, NEW c \in Clients, Answered(c)
    PROVE  TypesInv'
<1> DEFINE q == Head(todo[c])
           a == Head(unread[c])
           v == ValueOf(q, a)
           r == Rest(op[c], q, v, Tail(todo[c]))
<1>1. /\ UNCHANGED <<model, setting, acquisition, armed, ops, clean, held>> /\ taken[c]
      /\ Now' = Now
      /\ unread' = [unread EXCEPT ![c] = Tail(@)]
      /\ todo' = [todo EXCEPT ![c] = r]
      /\ returned' = [returned EXCEPT ![c] = IF q.query THEN @ \cup {<<q.key, v>>} ELSE @]
      /\ result' = [result EXCEPT ![c] = IF r = << >> THEN "ok" ELSE @]
      /\ "ok" \in Outcomes(q, a)
  BY DEF Answered, instrumentVars, historyVars, Now
<1>2. todo[c] # << >> /\ unread[c] # << >>
  BY <1>1 DEF CmdInv, OpInv, QueueInv, Busy
<1>3. q \in Asks /\ Tail(todo[c]) \in Seq(Asks) /\ a \in Answers /\ Tail(unread[c]) \in Seq(Answers)
  BY <1>2, HeadTailProperties DEF TypesInv, ClientTypes
<1>4. r \in Seq(Asks)
  <2>1. model \in Models /\ (op[c] \in Requests[model] \/ op[c].name = "none") /\ ChanOk(op[c])
    BY <1>2 DEF CmdInv, InstrumentInv, DutyInv, Busy
  <2> HIDE DEF q, v
  <2>2. QED
    BY <1>3, <2>1, RestIsAsks
<1>5. q.query => q.key \in Keys(model) /\ Fits(q.key, v)
  BY <1>1, <1>3, ParsedFits
<1> HIDE DEF q, a, v, r
<1>6. InstrumentTypes'
  BY <1>1, SameTypes DEF TypesInv, InstrumentTypes
<1>7. RunTypes'
  BY <1>1 DEF TypesInv, RunTypes
<1>8. ASSUME NEW d \in Clients, d # c PROVE ClientTypes(d)'
  <2>1. /\ todo'[d] = todo[d] /\ returned'[d] = returned[d] /\ unread'[d] = unread[d]
        /\ held'[d] \subseteq held[d] \cup {Now'}
    BY <1>1, <1>8 DEF CmdInv, OpInv, Domains
  <2>2. QED
    BY <1>1, <1>6, <2>1, TypesOthers DEF TypesInv
<1>9. ClientTypes(c)'
  <2>1. /\ todo'[c] = r /\ unread'[c] = Tail(unread[c])
        /\ \A x \in returned'[c] : x \in returned[c] \/ (q.query /\ x = <<q.key, v>>)
    BY <1>1 DEF CmdInv, OpInv, Domains
  <2>2. Asks' = Asks /\ Answers' = Answers /\ Texts' = Texts
        /\ \A k, w : Fits(k, w)' <=> Fits(k, w)
    BY <1>1, SameTypes
  <2>3. todo'[c] \in Seq(Asks') /\ unread'[c] \in Seq(Answers')
    BY <1>3, <1>4, <2>1, <2>2
  <2>4. \A x \in returned'[c] : x[1] \in Keys(model') /\ Fits(x[1], x[2])'
    BY <1>1, <1>5, <2>1, <2>2 DEF TypesInv, ClientTypes
  <2>5. held'[c] \subseteq [setting : [Settings(model') -> Texts'], acquisition : Nat]
    BY <1>1, <2>2 DEF TypesInv, ClientTypes
  <2>6. QED
    BY <2>3, <2>4, <2>5 DEF ClientTypes
<1>10. QED
  BY <1>6, <1>7, <1>8, <1>9 DEF TypesInv

LEMMA TypesEnds ==
    ASSUME CmdInv, TypesInv, NEW c \in Clients, Misanswered(c) \/ Fails(c)
    PROVE  TypesInv'
<1>1. PICK r \in {"err", "panicked"} : Ends(c, r)
  BY DEF Misanswered, Fails, Outcomes
<1>2. /\ todo' = [todo EXCEPT ![c] = << >>]
      /\ result' = [result EXCEPT ![c] = r]
      /\ returned' = [returned EXCEPT ![c] = {}]
      /\ held' = [held EXCEPT ![c] = {}]
      /\ \/ unread' = unread
         \/ taken[c] /\ unread' = [unread EXCEPT ![c] = Tail(@)]
      /\ UNCHANGED <<model, setting, acquisition, armed, ops, clean>> /\ Now' = Now
  BY <1>1 DEF Misanswered, Fails, Ends, instrumentVars, Now
<1>3. InstrumentTypes'
  BY <1>2, SameTypes DEF TypesInv, InstrumentTypes
<1>4. RunTypes'
  BY <1>2 DEF TypesInv, RunTypes
<1>5. ASSUME NEW d \in Clients, d # c PROVE ClientTypes(d)'
  <2>1. /\ todo'[d] = todo[d] /\ returned'[d] = returned[d] /\ unread'[d] = unread[d]
        /\ held'[d] \subseteq held[d] \cup {Now'}
    BY <1>2, <1>5 DEF CmdInv, OpInv, Domains
  <2>2. QED
    BY <1>2, <1>3, <2>1, TypesOthers DEF TypesInv
<1>6. ClientTypes(c)'
  <2>1. todo'[c] = << >> /\ returned'[c] = {} /\ held'[c] = {}
    BY <1>2 DEF CmdInv, OpInv, Domains
  <2>2. unread'[c] \in Seq(Answers)
    <3>1. CASE unread' = unread
      BY <3>1 DEF TypesInv, ClientTypes
    <3>2. CASE taken[c] /\ unread' = [unread EXCEPT ![c] = Tail(@)]
      <4>1. unread[c] # << >> /\ unread'[c] = Tail(unread[c])
        BY <3>2 DEF CmdInv, OpInv, Domains, QueueInv
      <4>2. QED
        BY <4>1, HeadTailProperties DEF TypesInv, ClientTypes
    <3>3. QED
      BY <1>2, <3>1, <3>2
  <2>3. << >> \in Seq(Asks) /\ Asks' = Asks /\ Answers' = Answers
    BY <1>2, SameTypes, EmptySeq
  <2>4. QED
    BY <2>1, <2>2, <2>3 DEF ClientTypes
<1>7. QED
  BY <1>3, <1>4, <1>5, <1>6 DEF TypesInv

LEMMA TypesAcquire ==
    ASSUME CmdInv, TypesInv, Acquire
    PROVE  TypesInv'
<1>1. /\ UNCHANGED <<model, todo, unread, result, returned, ops, clean, armed>> /\ Remember
      /\ acquisition' = acquisition + 1
      /\ setting' = setting \/ setting' = [setting EXCEPT ![<<"TRMD", 0>>] = "STOP"]
  BY DEF Acquire
<1>2. InstrumentTypes'
  <2>1. "STOP" \in Texts
    BY DEF Texts
  <2>2. setting' \in [Settings(model) -> Texts]
    BY <1>1, <2>1 DEF TypesInv, InstrumentTypes
  <2>3. QED
    BY <1>1, <2>2, SameTypes DEF TypesInv, InstrumentTypes
<1>3. RunTypes'
  BY <1>1 DEF TypesInv, RunTypes
<1>4. \A d \in Clients : held'[d] \subseteq held[d] \cup {Now'}
  BY <1>1 DEF Remember
<1>5. ASSUME NEW d \in Clients PROVE ClientTypes(d)'
  BY <1>1, <1>2, <1>4, TypesOthers DEF TypesInv
<1>6. QED
  BY <1>2, <1>3, <1>5 DEF TypesInv

LEMMA TypesStep == CmdInv /\ TypesInv /\ [Next]_vars => TypesInv'
<1> SUFFICES ASSUME CmdInv, TypesInv, [Next]_vars PROVE TypesInv'
  OBVIOUS
<1>1. CASE Next
  BY <1>1, TypesBegin, TypesTake, TypesAnswered, TypesEnds, TypesAcquire DEF Next
<1>2. CASE UNCHANGED vars
  <2>1. InstrumentTypes'
    BY <1>2, SameTypes DEF vars, instrumentVars, historyVars, TypesInv, InstrumentTypes
  <2>2. RunTypes'
    BY <1>2 DEF vars, historyVars, TypesInv, RunTypes
  <2>3. ASSUME NEW d \in Clients PROVE ClientTypes(d)'
    BY <1>2, <2>1, TypesOthers DEF vars, instrumentVars, historyVars, TypesInv
  <2>4. QED
    BY <2>1, <2>2, <2>3 DEF TypesInv
<1>3. QED
  BY <1>1, <1>2

\* What is asked can be asked of the instrument, every value that is read is of the kind
\* that was asked for, and the settings keep to what was requested.
THEOREM TypeCorrect == Spec => []TypeOK
<1>1. CmdInv /\ TypesInv => TypeOK
  <2> SUFFICES ASSUME CmdInv, TypesInv PROVE TypeOK
    OBVIOUS
  <2>1. ASSUME NEW c \in Clients
        PROVE  /\ op[c] \in Requests[model] \/ op[c].name = "none"
               /\ \A i \in DOMAIN todo[c] :
                     todo[c][i].query => todo[c][i].key \in Keys(model)
               /\ \A i \in DOMAIN unread[c] :
                     unread[c][i].key \in Keys(model) \cup {Done.key}
               /\ \A x \in returned[c] :
                     /\ x[1] \in Keys(model)
                     /\ IF x[1][1] = "WF" THEN x[2] \in Nat ELSE x[2] \in Texts
               /\ held[c] \subseteq [setting : [Settings(model) -> Texts], acquisition : Nat]
    <3>1. op[c] \in Requests[model] \/ op[c].name = "none"
      BY DEF CmdInv, DutyInv
    <3>2. \A i \in DOMAIN todo[c] : todo[c][i] \in Asks
      BY LenProperties, ElementOfSeq DEF TypesInv, ClientTypes
    <3>3. \A i \in DOMAIN unread[c] : unread[c][i] \in Answers
      BY LenProperties, ElementOfSeq DEF TypesInv, ClientTypes
    <3>4. \A q \in Asks : q.query => q.key \in Keys(model)
      BY DEF Asks
    <3>5. \A a \in Answers : a.key \in Keys(model) \cup {Done.key}
      BY DEF Answers
    <3>6. /\ \A x \in returned[c] :
                /\ x[1] \in Keys(model)
                /\ IF x[1][1] = "WF" THEN x[2] \in Nat ELSE x[2] \in Texts
          /\ held[c] \subseteq [setting : [Settings(model) -> Texts], acquisition : Nat]
      BY DEF TypesInv, ClientTypes, Fits
    <3>7. QED
      BY <3>1, <3>2, <3>3, <3>4, <3>5, <3>6
  <2>2. /\ model \in Models /\ keeps_output \in BOOLEAN
        /\ setting \in [Settings(model) -> Texts] /\ acquisition \in Nat
        /\ taken \in [Clients -> BOOLEAN] /\ fails \in [Clients -> Nat]
        /\ result \in [Clients -> {"none", "ok", "err", "panicked"}]
        /\ ops \in Nat /\ clean \in [Clients -> BOOLEAN]
        /\ armed \in [by : SUBSET Clients, after : Nat]
    BY DEF CmdInv, OpInv, Domains, TypesInv, InstrumentTypes, RunTypes
  <2>3. QED
    BY <2>1, <2>2 DEF TypeOK
<1>2. Spec => []CmdInv
  BY CmdInit, CmdStep, PTL DEF Spec
<1>3. QED
  BY <1>1, <1>2, TypesInit, TypesStep, PTL DEF Spec
=============================================================================
