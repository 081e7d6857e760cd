----------------------------- MODULE Operations -----------------------------
(***************************************************************************)
(* The operations of the devices SDS1202X, SDG2042X and SPD3303X, and the  *)
(* capture loops of the programs: sequences of asks, some of which depend  *)
(* on the answers to those before.                                         *)
(*                                                                         *)
(* An ask is what Session promises of it: the instrument takes the command *)
(* and queues an answer to it (Take); then the ask returns what heads the  *)
(* queue, or fails.  Between the two, and between two asks, other clients  *)
(* of the instrument act, each with a device of its own, and the trigger   *)
(* of an oscilloscope may come.  An answer that a failed ask left behind   *)
(* is read by the next one, on an instrument that keeps its output.        *)
(*                                                                         *)
(* Answers have the wording the regular expressions are written for.  A    *)
(* value is a member of a small set, a waveform the number of the          *)
(* acquisition it shows.                                                   *)
(***************************************************************************)
EXTENDS Naturals, Sequences

CONSTANTS
    Clients,
    Models,          \* the instruments, some of "SDS", "SDG" and "SPD"
    KeepsOutput,     \* ... and whether unread output survives a command
    Requests,        \* for each model the operations its callers ask for
    MaxOps,          \* for each model a bound on the operations
    MaxFails,        \* bound on the asks of each client that fail
    MaxAcquisitions  \* bound on the acquisitions

ASSUME ConstantsAssumption ==
    /\ Models \subseteq {"SDS", "SDG", "SPD"}
    /\ KeepsOutput \subseteq BOOLEAN
    /\ \A m \in Models : MaxOps[m] \in Nat
    /\ {MaxFails, MaxAcquisitions} \subseteq Nat

VARIABLES
    model,        \* the instrument
    keeps_output,
    setting,      \* its settings, by name and channel (0 for the whole of it)
    acquisition,  \* the number of the acquisition in its memory
    unread,       \* the answers it has queued for each client
    op,           \* the operation each client is in, or was in last
    todo,         \* the asks that are left of it
    taken,        \* the instrument has taken the command of the first of them
    result,       \* what it returned
    returned,     \* the values it has read
    ops,          \* how many operations have begun
    fails,        \* how many of its asks have failed
    clean,        \* history: no answer was left unread when the operation began
    held,         \* history: how the instrument has been since it began, until it fails
    armed         \* history: who commanded the trigger last, after which acquisition

instrumentVars == <<model, keeps_output, setting, acquisition>>
historyVars == <<clean, held, armed>>
vars == <<instrumentVars, unread, op, todo, taken, result, returned, ops, fails,
          historyVars>>

-----------------------------------------------------------------------------
(* The instrument *)

PerChannel == [SDS |-> {"VDIV", "OFST", "TRA", "WF"},
               SDG |-> {"OUTP", "BSWV"},
               SPD |-> {"VOLT", "CURR", "MEAS", "OUTP"}]
Global     == [SDS |-> {"IDN", "TDIV", "SARA", "TRMD", "SAST", "CYMT"},
               SDG |-> {"IDN", "OPC"},
               SPD |-> {"IDN", "INST"}]

\* What can be asked of a model, and what of it can be commanded.
Keys(m)     == (PerChannel[m] \X {1, 2}) \cup (Global[m] \X {0})
Settings(m) == {k \in Keys(m) : k[1] \in {"VDIV", "OFST", "TRA", "TDIV", "TRMD", "OUTP",
                                          "BSWV", "VOLT", "CURR", "INST"}}

InitialValue(k) ==
    CASE k[1] = "TRMD"            -> "STOP"
      [] k[1] \in {"OUTP", "TRA"} -> "OFF"
      [] k[1] = "INST"            -> "CH1"
      [] OTHER                    -> "initial"

\* The instrument as it is at one moment, and what it then says when asked.
Now == [setting |-> setting, acquisition |-> acquisition]

Says(now, k) ==
    CASE k[1] = "WF"   -> now.acquisition
      [] k[1] = "SAST" -> IF now.setting[<<"TRMD", 0>>] = "STOP" THEN "Stop" ELSE "Run"
      [] k \in DOMAIN now.setting -> now.setting[k]
      [] OTHER         -> InitialValue(k)

-----------------------------------------------------------------------------
(* Asks and operations *)

Query(n, ch)       == [key |-> <<n, ch>>, query |-> TRUE, to |-> "none"]
Command(n, ch, to) == [key |-> <<n, ch>>, query |-> FALSE, to |-> to]

Inst == << "CH1", "CH2" >>

\* The operations of one ask each.
Get == [get_time_division |-> "TDIV", get_sample_rate |-> "SARA",
        get_trigger_mode |-> "TRMD", read_cymometer |-> "CYMT", wait |-> "SAST",
        get_voltage_div |-> "VDIV", get_voltage_ofs |-> "OFST",
        get_trace_display_enabled |-> "TRA", transfer_waveform_raw |-> "WF",
        get_output |-> "OUTP", opc |-> "OPC",
        get_voltage |-> "VOLT", get_current |-> "CURR", measure_current |-> "MEAS",
        get_operating_channel |-> "INST"]
Set == [set_time_division |-> "TDIV", set_trigger_mode |-> "TRMD", arm |-> "ARM",
        force_trigger |-> "FRTR", set_voltage_div |-> "VDIV",
        set_voltage_ofs |-> "OFST", set_trace_display_enabled |-> "TRA",
        set_basic_wavetype |-> "BSWV", set_voltage |-> "VOLT",
        set_current |-> "CURR"]

\* A channel state that counts channels from zero.
ChannelStateFromZero(m, ch) == << Query("CURR", ch - 1) >>

ChannelState(m, ch) ==
    CASE m = "SDS" -> << Query("VDIV", ch), Query("OFST", ch), Query("TRA", ch) >>
      [] m = "SDG" -> << Query("BSWV", ch) >>
      [] m = "SPD" -> << Query("CURR", ch), Query("VOLT", ch), Query("MEAS", ch) >>

FullState(m) ==
    << Query("IDN", 0) >>
    \o (CASE m = "SDS" -> << Query("TDIV", 0), Query("TRMD", 0) >>
          [] m = "SDG" -> << >>
          [] m = "SPD" -> << Query("INST", 0) >>)
    \o ChannelState(m, 1) \o ChannelState(m, 2)

ArmSingle == << Command("TRMD", 0, "SINGLE"), Command("ARM", 0, "none") >>

TransferWaveform(ch) == << Query("WF", ch), Query("VDIV", ch), Query("OFST", ch),
                           Query("SARA", 0) >>

\* What the programs do to capture, each time around their loops.
CaptureUart == << Command("TRMD", 0, "SINGLE"), Query("SAST", 0),
                  Query("SARA", 0), Query("WF", 1) >>
CaptureCompare == << Command("TRMD", 0, "SINGLE"), Query("SAST", 0),
                     Query("WF", 1), Query("WF", 2), Query("SARA", 0) >>
CaptureResonance == ArmSingle \o << Command("FRTR", 0, "none"), Query("SAST", 0),
                                    Query("WF", 1), Query("WF", 2) >>

\* The asks of an operation as it begins.
Plan(m, o) ==
    CASE o.name \in DOMAIN Get -> << Query(Get[o.name], o.ch) >>
      [] o.name \in DOMAIN Set -> << Command(Set[o.name], o.ch, o.to) >>
      [] o.name = "set_operating_channel" -> << Command("INST", 0, Inst[o.ch]) >>
      [] o.name = "set_output"        -> << Query("OUTP", o.ch) >>
      [] o.name = "enable_output"     -> << Query("INST", 0), Command("OUTP", o.ch, "ON") >>
      [] o.name = "disable_output"    -> << Query("INST", 0), Command("OUTP", o.ch, "OFF") >>
      [] o.name = "get_channel_state" -> ChannelState(m, o.ch)
      [] o.name = "get_full_state"    -> FullState(m)
      [] o.name = "arm_single"        -> ArmSingle
      [] o.name = "transfer_waveform" -> TransferWaveform(o.ch)
      [] o.name = "01_uart_decode"        -> CaptureUart
      [] o.name = "02_oscillator_compare" -> CaptureCompare
      [] o.name = "oscillator_resonance"  -> CaptureResonance

\* The programs that capture.
Captures == {"01_uart_decode", "02_oscillator_compare", "oscillator_resonance"}

\* A device has the operations of its model, for the channels or for the whole of it.
ASSUME RequestsAssumption == \A m \in Models : \A o \in Requests[m] : o.ch \in {0, 1, 2} =>
    \/ o.name \in DOMAIN Get /\ <<Get[o.name], o.ch>> \in Keys(m)
    \/ o.name \in DOMAIN Set \ {"arm", "force_trigger"} /\ <<Set[o.name], o.ch>> \in Settings(m)
    \/ o.name \in {"arm", "force_trigger", "arm_single"} \cup Captures /\ m = "SDS"
    \/ o.name = "transfer_waveform" /\ m = "SDS" /\ o.ch # 0
    \/ o.name = "get_channel_state" /\ o.ch # 0
    \/ o.name = "get_full_state"
    \/ o.name = "set_output" /\ m = "SDG" /\ o.ch # 0
    \/ o.name \in {"set_operating_channel", "enable_output", "disable_output"} /\ m = "SPD" /\ o.ch # 0

\* A set_output that gives up where it should act.
RestNeverActs(o, q, v, rest) ==
    IF q.key[1] = "SAST" /\ v # "Stop" THEN << q >> \o rest ELSE rest

\* A wait that asks once.
RestPollsOnce(o, q, v, rest) == rest

\* A wait that does not know the answer it waits for.
RestPollsForever(o, q, v, rest) == IF q.key[1] = "SAST" THEN << q >> \o rest ELSE rest

\* What is left of an operation when the answer to ask q says v: wait asks again,
\* set_output acts on a difference, and the output of an SPD3303X is commanded on
\* the operating channel.
Rest(o, q, v, rest) ==
    CASE q.key[1] = "SAST" /\ v # "Stop" -> << q >> \o rest
      [] o.name = "set_output" /\ q.query /\ v # o.to -> << Command("OUTP", o.ch, o.to) >>
      [] o.name \in {"enable_output", "disable_output"} /\ q.query /\ v # Inst[o.ch] ->
            << Command("INST", 0, Inst[o.ch]) >> \o rest
      [] OTHER -> rest

-----------------------------------------------------------------------------
(* What an operation makes of an answer *)

Done == [key |-> <<"done", 0>>, val |-> "none"]

\* The parsers look at the form of an answer, and not at the channel in it; the
\* numbers of an SPD3303X have no name in them.
Form(k) == IF k[1] \in {"VOLT", "CURR", "MEAS"} THEN "number" ELSE k[1]

\* These accept whatever they are told.
AnyText == {"SAST", "OPC", "CYMT"}

\* These unwrap a match or a number that may not be there.
Unwraps == {"IDN", "TDIV", "SARA", "TRMD", "VDIV", "OFST", "OUTP", "WF"}

Parses(q, a) ==
    \/ ~q.query
    \/ q.key[1] \in AnyText
    \/ Form(q.key) = Form(a.key)
    \/ q.key[1] = "IDN" /\ a.key[1] \in {"BSWV", "OUTP"}  \* four fields and more

\* A waveform is no UTF-8, or happens to be.
Outcomes(q, a) ==
    {IF Parses(q, a) THEN "ok" ELSE IF q.key[1] \in Unwraps THEN "panicked" ELSE "err"}
    \cup {r \in {"err"} : a.key[1] = "WF" /\ q.key[1] \notin {"WF", "IDN"}}

ValueOf(q, a) ==
    IF q.key[1] \in AnyText /\ a.key # q.key THEN "other" ELSE a.val

-----------------------------------------------------------------------------
Init ==
    /\ model \in Models
    /\ keeps_output \in KeepsOutput
    /\ setting = [k \in Settings(model) |-> InitialValue(k)]
    /\ acquisition = 0
    /\ unread = [c \in Clients |-> << >>]
    /\ op = [c \in Clients |-> [name |-> "none", ch |-> 0, to |-> "none"]]
    /\ todo = [c \in Clients |-> << >>]
    /\ taken = [c \in Clients |-> FALSE]
    /\ result = [c \in Clients |-> "ok"]
    /\ returned = [c \in Clients |-> {}]
    /\ ops = 0
    /\ fails = [c \in Clients |-> 0]
    /\ clean = [c \in Clients |-> TRUE]
    /\ held = [c \in Clients |-> {}]
    /\ armed = [by |-> {}, after |-> 0]

Busy(c) == todo[c] # << >>

\* chan_ok; an operation on the whole instrument has channel 0.
ChanOk(o) == o.ch \in {0, 1, 2}

Begin(c, o) ==
    /\ ~Busy(c) /\ result[c] # "panicked"
    /\ ops < MaxOps[model]
    /\ ops' = ops + 1
    /\ op' = [op EXCEPT ![c] = o]
    /\ todo' = [todo EXCEPT ![c] = IF ChanOk(o) THEN Plan(model, o) ELSE << >>]
    /\ result' = [result EXCEPT ![c] = IF ChanOk(o) THEN "none" ELSE "err"]
    /\ returned' = [returned EXCEPT ![c] = {}]
    /\ clean' = [clean EXCEPT ![c] = ~keeps_output \/ unread[c] = << >>]
    /\ held' = [held EXCEPT ![c] = {Now}]
    /\ UNCHANGED <<instrumentVars, unread, taken, fails, armed>>

\* What has been true is remembered for the operations that are under way.
Remember == held' = [d \in Clients |-> IF Busy(d) THEN held[d] \cup {Now'} ELSE held[d]]

\* ARM starts one more acquisition if the oscilloscope has stopped.
Effect(q) ==
    setting' = CASE ~q.query /\ q.key[1] = "ARM" /\ setting[<<"TRMD", 0>>] = "STOP" ->
                      [setting EXCEPT ![<<"TRMD", 0>>] = "SINGLE"]
                 [] ~q.query /\ q.key \in DOMAIN setting ->
                      [setting EXCEPT ![q.key] = q.to]
                 [] OTHER -> setting

\* The instrument takes a command, or a query, and queues its answer.
Take(c) ==
    /\ Busy(c) /\ ~taken[c]
    /\ taken' = [taken EXCEPT ![c] = TRUE]
    /\ LET q == Head(todo[c])
           a == IF q.query THEN [key |-> q.key, val |-> Says(Now, q.key)] ELSE Done
       IN  /\ Effect(q)
           /\ unread' = [unread EXCEPT ![c] =
                            Append(IF keeps_output THEN @ ELSE << >>, a)]
           /\ armed' = IF ~q.query /\ q.key[1] \in {"TRMD", "ARM"}
                       THEN [by |-> {c}, after |-> acquisition] ELSE armed
    /\ UNCHANGED <<model, keeps_output, acquisition, op, todo, result, returned,
                   ops, fails, clean>>
    /\ Remember

\* An operation ends without a value; what it has read is dropped.
Ends(c, r) ==
    /\ todo' = [todo EXCEPT ![c] = << >>]
    /\ result' = [result EXCEPT ![c] = r]
    /\ returned' = [returned EXCEPT ![c] = {}]
    /\ held' = [held EXCEPT ![c] = {}]
    /\ UNCHANGED <<clean, armed>>

\* An ask that leaves in the queue what it cannot parse.
MisansweredUnread(c) ==
    /\ taken[c]
    /\ \E r \in Outcomes(Head(todo[c]), Head(unread[c])) \ {"ok"} : Ends(c, r)
    /\ taken' = [taken EXCEPT ![c] = FALSE]
    /\ UNCHANGED <<instrumentVars, unread, op, ops, fails>>

\* An ask returns, and the operation goes on, or returns ok.
Answered(c) ==
    /\ taken[c]
    /\ LET q == Head(todo[c])
           a == Head(unread[c])
           v == ValueOf(q, a)
           rest == Rest(op[c], q, v, Tail(todo[c]))
       IN  /\ "ok" \in Outcomes(q, a)
           /\ todo' = [todo EXCEPT ![c] = rest]
           /\ returned' = [returned EXCEPT ![c] =
                              IF q.query THEN @ \cup {<<q.key, v>>} ELSE @]
           /\ result' = [result EXCEPT ![c] = IF rest = << >> THEN "ok" ELSE @]
    /\ unread' = [unread EXCEPT ![c] = Tail(@)]
    /\ taken' = [taken EXCEPT ![c] = FALSE]
    /\ UNCHANGED <<instrumentVars, op, ops, fails, historyVars>>

\* An ask returns something else than it was asked for: ? returns the error, and
\* unwrap panics.
Misanswered(c) ==
    /\ taken[c]
    /\ \E r \in Outcomes(Head(todo[c]), Head(unread[c])) \ {"ok"} : Ends(c, r)
    /\ unread' = [unread EXCEPT ![c] = Tail(@)]
    /\ taken' = [taken EXCEPT ![c] = FALSE]
    /\ UNCHANGED <<instrumentVars, op, ops, fails>>

\* An ask that is repeated when it fails.
FailsAsksAgain(c) ==
    /\ Busy(c)
    /\ fails[c] < MaxFails
    /\ fails' = [fails EXCEPT ![c] = @ + 1]
    /\ taken' = [taken EXCEPT ![c] = FALSE]
    /\ UNCHANGED <<instrumentVars, unread, op, todo, result, returned, ops, historyVars>>

\* An ask fails, before or after the instrument has taken its command, and the
\* operation returns the error.
Fails(c) ==
    /\ Busy(c)
    /\ fails[c] < MaxFails
    /\ fails' = [fails EXCEPT ![c] = @ + 1]
    /\ Ends(c, "err")
    /\ taken' = [taken EXCEPT ![c] = FALSE]
    /\ UNCHANGED <<instrumentVars, unread, op, ops>>

\* The signal triggers an oscilloscope that has not stopped.
Acquire ==
    /\ model = "SDS"
    /\ setting[<<"TRMD", 0>>] # "STOP"
    /\ acquisition < MaxAcquisitions
    /\ acquisition' = acquisition + 1
    /\ setting' = IF setting[<<"TRMD", 0>>] = "SINGLE"
                  THEN [setting EXCEPT ![<<"TRMD", 0>>] = "STOP"] ELSE setting
    /\ UNCHANGED <<model, keeps_output, unread, op, todo, taken, result, returned,
                   ops, fails, clean, armed>>
    /\ Remember

Next ==
    \/ \E c \in Clients : \/ \E o \in Requests[model] : Begin(c, o)
                          \/ Take(c) \/ Answered(c) \/ Misanswered(c) \/ Fails(c)
    \/ Acquire

Spec == Init /\ [][Next]_vars

\* A thread keeps running, and an ask is answered or fails (Device).  Nothing makes
\* the signal trigger.
Fairness == \A c \in Clients : WF_vars(Take(c) \/ Answered(c) \/ Misanswered(c))

FairSpec == Spec /\ Fairness

-----------------------------------------------------------------------------
(* Properties *)

Texts == {"initial", "other", "none", "ON", "OFF", "CH1", "CH2", "Run", "Stop",
          "AUTO", "NORM", "SINGLE", "STOP"} \cup {o.to : o \in Requests[model]}

TypeOK ==
    /\ model \in Models
    /\ keeps_output \in BOOLEAN
    /\ setting \in [Settings(model) -> Texts]
    /\ acquisition \in Nat
    /\ \A c \in Clients :
          /\ op[c] \in Requests[model] \/ op[c].name = "none"
          /\ \A i \in DOMAIN todo[c] : todo[c][i].query => todo[c][i].key \in Keys(model)
          /\ \A i \in DOMAIN unread[c] : unread[c][i].key \in Keys(model) \cup {Done.key}
          /\ \A x \in returned[c] :
                /\ x[1] \in Keys(model)
                /\ IF x[1][1] = "WF" THEN x[2] \in Nat ELSE x[2] \in Texts
          /\ held[c] \subseteq [setting : [Settings(model) -> Texts], acquisition : Nat]
    /\ taken \in [Clients -> BOOLEAN]
    /\ result \in [Clients -> {"none", "ok", "err", "panicked"}]
    /\ ops \in Nat
    /\ fails \in [Clients -> Nat]
    /\ clean \in [Clients -> BOOLEAN]
    /\ armed \in [by : SUBSET Clients, after : Nat]

\* What an operation that began with nothing unread returns was true of the setting
\* it was asked for at some moment of the call: no value is another channel's or
\* another query's, though the parsers look neither at the channel nor, for an
\* SPD3303X, at the name.  (The TODOs at sds1202x/mod.rs:223, sdg2042x.rs:130.)
ValuesWereHeld == \A c \in Clients :
    (result[c] = "ok" /\ clean[c]) =>
        \A x \in returned[c] : \E now \in held[c] : Says(now, x[1]) = x[2]

\* Ok means that the setting was as commanded at some moment of the call, whatever
\* other clients do, and also when set_output finds nothing to do.  Stale answers can
\* deceive only what looks before it acts: set_output about the output, and
\* enable_output and disable_output about the operating channel.
OkMeansCommanded == \A c \in Clients :
    LET o == op[c]
        Held(n, ch, v) == \E now \in held[c] : Says(now, <<n, ch>>) = v
    IN  result[c] = "ok" =>
            /\ (o.name \in DOMAIN Set \ {"arm", "force_trigger"}) => Held(Set[o.name], o.ch, o.to)
            /\ o.name = "arm_single" => Held("TRMD", 0, "SINGLE")
            /\ o.name = "set_operating_channel" => Held("INST", 0, Inst[o.ch])
            /\ o.name = "set_output" /\ clean[c] => Held("OUTP", o.ch, o.to)
            /\ o.name = "enable_output" => Held("OUTP", o.ch, "ON")
            /\ o.name = "disable_output" => Held("OUTP", o.ch, "OFF")
            /\ o.name \in {"enable_output", "disable_output"} /\ clean[c] =>
                  Held("INST", 0, Inst[o.ch])

\* The unwraps panic only on an answer that an earlier operation left unread.
PanicsOnlyWhenStale == \A c \in Clients : result[c] = "panicked" => ~clean[c]

\* A client lags behind by no more answers than it has had asks fail: an operation
\* that returns early, on an answer it cannot use, leaves nothing unread.
LagBounded == \A c \in Clients : ~Busy(c) => Len(unread[c]) <= fails[c]

\* A program that captures, on an oscilloscope that no other client triggers, gets
\* both channels of one acquisition, and one that began after it armed.
CaptureIsFresh == \A c \in Clients :
    (op[c].name \in Captures /\ result[c] = "ok" /\ clean[c] /\ armed.by = {c}) =>
        \E n \in armed.after + 1 .. acquisition :
            \A x \in returned[c] : x[1][1] = "WF" => x[2] = n

\* The only operation that may never return is wait, and it does only when the
\* oscilloscope runs on for ever, also when wait reads answers to earlier polls.
WaitsOnlyForTrigger == \A c \in Clients :
    \/ []<>(~Busy(c))
    \/ <>[](Busy(c) /\ Head(todo[c]).key[1] = "SAST" /\ setting[<<"TRMD", 0>>] # "STOP")
=============================================================================
