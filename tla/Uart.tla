-------------------------------- MODULE Uart --------------------------------
(***************************************************************************)
(* protocol_decode::uart: from the samples of one channel to the bytes a   *)
(* serial line carried.  The algorithm finds the two levels, the places    *)
(* where the signal crosses from one to the other, the pulses between      *)
(* them, a pause longer than a frame, and then decodes pulse after pulse.  *)
(*                                                                         *)
(* The input is what a line of SymbolLen samples a symbol shows of frames  *)
(* (a start bit, eight data bits, a stop bit, and idle symbols), on which  *)
(* the decoder is judged.  Samples and thresholds are i8, bytes are u8.    *)
(***************************************************************************)
EXTENDS Integers, Sequences, FiniteSetsExt, SequencesExt

CONSTANTS
    Builds,          \* whether arithmetic overflow panics: TRUE is a debug build
    SymbolLen,       \* samples_per_symbol
    Bytes, Idles,    \* what frames carry, and the idle symbols after them
    Stops,           \* their stop bits: 0 is a framing error
    Leads,           \* symbols before the pause: the end of an earlier frame
    Levels,          \* the signals: [lo, hi, ripple, skew]
    Frames           \* number of frames in a capture

Int8 == -128..127
UInt8 == 0..255

ASSUME ConstantsAssumption ==
    /\ Builds \subseteq BOOLEAN
    /\ SymbolLen \in Nat \ {0}
    /\ Bytes \subseteq UInt8
    /\ Idles \subseteq Nat
    /\ Stops \subseteq {0, 1}
    /\ \A l \in Leads : l \in Seq({0, 1}) /\ Len(l) < 10
    /\ \A l \in Levels : {l.lo, l.hi, l.lo + l.ripple, l.hi - l.ripple} \subseteq Int8
                        /\ l.ripple \in Nat /\ l.skew \in Nat
    /\ Frames \in Nat \ {0}

VARIABLES
    overflow_checks,  \* the build that runs
    sent, line,       \* history: the frames, and the symbols on the line
    level,            \* history: the signal
    data,             \* the samples
    pc,
    lo_thres, hi_thres,
    idx,              \* the sample all_transitions is at
    currently_high,
    transitions,      \* the crossings so far
    pulses,           \* the pulses not consumed yet
    bit,              \* the symbol of the pulse at hand that comes next
    current_byte, place_val, need_start_bit, need_stop_bit,
    ans

signalVars == <<overflow_checks, sent, line, level, data>>
scanVars == <<lo_thres, hi_thres, idx, currently_high, transitions>>
frameVars == <<bit, current_byte, place_val, need_start_bit, need_stop_bit, ans>>
vars == <<signalVars, pc, scanVars, pulses, frameVars>>

Ended == {"ok", "err", "panicked"}

-----------------------------------------------------------------------------
(* The line *)

Bit(b, i) == (b \div 2^i) % 2

FrameSymbols(f) ==
    [i \in 1..10 + f.idle |-> CASE i = 1      -> 0
                              [] i \in 2..9 -> Bit(f.byte, i - 2)
                              [] i = 10     -> f.stop
                              [] OTHER      -> 1]

\* The line rests for more than a frame before the first start bit.
Rest == [i \in 1..12 |-> 1]

\* Falling edges are late by skew samples, which shortens the low pulses.
High(t) == \E k \in 0..level.skew : k < t /\ line[(t - 1 - k) \div SymbolLen + 1] = 1

Ripple(t) == IF t % 2 = 0 THEN level.ripple ELSE 0

Samples ==
    [t \in 1..SymbolLen * Len(line) |->
        IF High(t) THEN level.hi - Ripple(t) ELSE level.lo + Ripple(t)]

Init ==
    /\ overflow_checks \in Builds
    /\ level \in Levels
    /\ sent = << >>
    /\ \E lead \in Leads : line = lead \o Rest
    /\ data = << >>
    /\ pc = "sending"
    /\ lo_thres = 0 /\ hi_thres = 0
    /\ idx = 1
    /\ currently_high = FALSE
    /\ transitions = << >>
    /\ pulses = << >>
    /\ bit = 0
    /\ current_byte = 0
    /\ place_val = 1
    /\ need_start_bit = TRUE
    /\ need_stop_bit = FALSE
    /\ ans = << >>

SendFrame ==
    /\ pc = "sending"
    /\ Len(sent) < Frames
    /\ \E f \in [byte : Bytes, idle : Idles, stop : Stops] :
          /\ sent' = Append(sent, f)
          /\ line' = line \o FrameSymbols(f)
    /\ UNCHANGED <<overflow_checks, level, data, pc, scanVars, pulses, frameVars>>

\* Of the whole line, or of nothing.
Capture ==
    /\ pc = "sending"
    /\ \/ Len(sent) = Frames /\ data' = Samples
       \/ sent = << >> /\ data' = << >>
    /\ pc' = "measure"
    /\ UNCHANGED <<overflow_checks, sent, line, level, scanVars, pulses, frameVars>>

-----------------------------------------------------------------------------
(* Levels and transitions *)

IsI8(x) == x \in Int8
I8(x) == ((x + 128) % 256) - 128

\* Division of integers in Rust rounds towards zero.
Quotient(x, n) == IF x >= 0 THEN x \div n ELSE -((-x) \div n)

Ends(how) ==
    /\ pc' = how
    /\ UNCHANGED <<signalVars, scanVars, pulses, frameVars>>

Lo == Min(ToSet(data))
Hi == Max(ToSet(data))
Margin == Quotient(I8(Hi - Lo), 5)

\* An empty capture has no minimum; in a debug build the differences and the sum
\* must fit.  (Thresholds between Lo and Hi fit when the difference does.)
MeasurePanics ==
    IF data = << >> THEN TRUE
    ELSE overflow_checks /\ ~(IsI8(Hi - Lo) /\ IsI8(Hi + Lo))

MeasureFails ==
    /\ pc = "measure"
    /\ MeasurePanics
    /\ Ends("panicked")

Measure ==
    /\ pc = "measure"
    /\ ~MeasurePanics
    /\ lo_thres' = I8(Lo + Margin)
    /\ hi_thres' = I8(Hi - Margin)
    /\ currently_high' = (data[1] > Quotient(I8(hi_thres' + lo_thres'), 2))
    /\ pc' = "scan"
    /\ UNCHANGED <<signalVars, idx, transitions, pulses, frameVars>>

\* Thresholds that coincide.
CrossesMiddle(x) ==
    IF currently_high THEN x < Quotient(hi_thres + lo_thres, 2)
                      ELSE x > Quotient(hi_thres + lo_thres, 2)

Crosses(x) == IF currently_high THEN x < lo_thres ELSE x > hi_thres

\* One sample in all_transitions.
Scan ==
    /\ pc = "scan"
    /\ idx <= Len(data)
    /\ IF Crosses(data[idx])
       THEN /\ currently_high' = ~currently_high
            /\ transitions' = Append(transitions, [at |-> idx - 1, was |-> currently_high])
       ELSE UNCHANGED <<currently_high, transitions>>
    /\ idx' = idx + 1
    /\ UNCHANGED <<signalVars, pc, lo_thres, hi_thres, pulses, frameVars>>

\* transitions_to_pulses; what follows the last transition is no pulse.
ToPulses ==
    /\ pc = "scan"
    /\ idx > Len(data)
    /\ pulses' = [i \in DOMAIN transitions |->
          [len   |-> transitions[i].at - (IF i = 1 THEN 0 ELSE transitions[i-1].at),
           logic |-> transitions[i].was]]
    /\ pc' = "search"
    /\ UNCHANGED <<signalVars, scanVars, frameVars>>

FrameSamples == SymbolLen * (8 + 2)

\* The pulses up to the first high one that is longer than a frame are dropped.
Search ==
    /\ pc = "search"
    /\ IF pulses = << >>
       THEN pc' = "decode" /\ UNCHANGED pulses
       ELSE /\ pulses' = Tail(pulses)
            /\ pc' = IF Head(pulses).logic /\ Head(pulses).len > FrameSamples
                     THEN "decode" ELSE "search"
    /\ UNCHANGED <<signalVars, scanVars, frameVars>>

-----------------------------------------------------------------------------
(* Pulses to bytes *)

logic == Head(pulses).logic

\* f32::round of len / samples_per_symbol
PulseLen == (2 * Head(pulses).len + SymbolLen) \div (2 * SymbolLen)

AtPulse == pc = "decode" /\ pulses # << >>

\* A place value that is not checked.
PlaceFitsUnchecked == PulseLen >= 1

\* checked_pow: the place value of the next bit is at most 2^7.
PlaceFits == PulseLen \in 1..8

\* A low pulse when a start bit is due: the start bit, and the zeros after it.
StartBit ==
    /\ AtPulse /\ bit = 0 /\ need_start_bit
    /\ ~logic /\ PlaceFits
    /\ need_start_bit' = FALSE
    /\ current_byte' = 0
    /\ place_val' = 2^(PulseLen - 1)
    /\ pulses' = Tail(pulses)
    /\ UNCHANGED <<signalVars, pc, scanVars, bit, need_stop_bit, ans>>

\* A high pulse there, a place value past 2^7, or pulse_len - 1 below zero.
StartBitFails ==
    /\ AtPulse /\ bit = 0 /\ need_start_bit
    /\ logic \/ ~PlaceFits
    /\ Ends(IF overflow_checks /\ ~logic /\ PulseLen = 0 THEN "panicked" ELSE "err")

StopBit ==
    /\ AtPulse /\ bit = 0 /\ ~need_start_bit /\ need_stop_bit
    /\ logic
    /\ ans' = Append(ans, current_byte)
    /\ need_stop_bit' = FALSE
    /\ need_start_bit' = TRUE
    /\ pulses' = Tail(pulses)
    /\ UNCHANGED <<signalVars, pc, scanVars, bit, current_byte, place_val>>

StopBitFails ==
    /\ AtPulse /\ bit = 0 /\ ~need_start_bit /\ need_stop_bit
    /\ ~logic
    /\ Ends("err")

\* The loop over the symbols of a pulse, which goes on to the pulse's end also
\* when the byte is complete.
InFrame == AtPulse /\ (bit > 0 \/ (~need_start_bit /\ ~need_stop_bit))

\* A pulse that rounds to no symbol at all.
EmptyPulse ==
    /\ InFrame
    /\ PulseLen = 0
    /\ pulses' = Tail(pulses)
    /\ UNCHANGED <<signalVars, pc, scanVars, frameVars>>

Sum == IF logic THEN current_byte + place_val ELSE current_byte

LastOfPulse == bit = PulseLen - 1

NextSymbol ==
    IF LastOfPulse THEN bit' = 0 /\ pulses' = Tail(pulses)
                   ELSE bit' = bit + 1 /\ UNCHANGED pulses

\* A data bit that is not the eighth.
DataBit ==
    /\ InFrame /\ bit < PulseLen
    /\ ~(overflow_checks /\ Sum > 255)
    /\ place_val * 2 < 256
    /\ current_byte' = Sum % 256
    /\ place_val' = place_val * 2
    /\ NextSymbol
    /\ UNCHANGED <<signalVars, pc, scanVars, need_start_bit, need_stop_bit, ans>>

\* The eighth: what follows is the stop bit, in the next pulse or in this one.
LastDataBit ==
    /\ InFrame /\ bit < PulseLen
    /\ ~(overflow_checks /\ Sum > 255)
    /\ place_val * 2 >= 256
    /\ LastOfPulse \/ logic
    /\ current_byte' = Sum % 256
    /\ place_val' = 1
    /\ IF LastOfPulse
       THEN need_stop_bit' = TRUE /\ UNCHANGED <<need_start_bit, ans>>
       ELSE /\ ans' = Append(ans, current_byte')
            /\ need_stop_bit' = FALSE
            /\ need_start_bit' = TRUE
    /\ NextSymbol
    /\ UNCHANGED <<signalVars, pc, scanVars>>

\* The stop bit would be low, or current_byte += place_val overflows.
DataBitFails ==
    /\ InFrame /\ bit < PulseLen
    /\ \/ overflow_checks /\ Sum > 255 /\ Ends("panicked")
       \/ ~(overflow_checks /\ Sum > 255)
          /\ place_val * 2 >= 256 /\ ~LastOfPulse /\ ~logic /\ Ends("err")

Done ==
    /\ pc = "decode"
    /\ pulses = << >>
    /\ Ends("ok")

-----------------------------------------------------------------------------
Decode ==
    \/ StartBit \/ StartBitFails
    \/ StopBit \/ StopBitFails
    \/ EmptyPulse \/ DataBit \/ LastDataBit \/ DataBitFails
    \/ Done

Next == SendFrame \/ Capture \/ MeasureFails \/ Measure \/ Scan \/ ToPulses \/ Search \/ Decode

Spec == Init /\ [][Next]_vars

-----------------------------------------------------------------------------
(* Properties *)

\* was is the level before the transition, at which sample.
Transition == [at : Nat, was : BOOLEAN]
Pulse == [len : Nat, logic : BOOLEAN]

TypeOK ==
    /\ data \in Seq(Int8)
    /\ pc \in {"sending", "measure", "scan", "search", "decode"} \cup Ended
    /\ lo_thres \in Int8 /\ hi_thres \in Int8
    /\ idx \in 1..Len(data) + 1
    /\ transitions \in Seq(Transition)
    /\ pulses \in Seq(Pulse)
    /\ bit \in Nat
    /\ current_byte \in UInt8
    /\ place_val \in {2^i : i \in 0..7}
    /\ ans \in Seq(UInt8)
    /\ {overflow_checks, currently_high, need_start_bit, need_stop_bit} \subseteq BOOLEAN

\* A frame that the decoder takes to its end and no further: its low pulses are no
\* longer than eight symbols, and a high eighth bit is not followed, in the same
\* pulse, by a stop bit and idle symbols that make another byte (or, in a debug
\* build, that overflow this one).
Clean(f) ==
    /\ f.byte # 0
    /\ f.stop = 1
    /\ f.byte >= 128 => f.idle <= 6
    /\ (f.byte >= 128 /\ overflow_checks) => f.byte + 2^(f.idle + 1) <= 256

\* A signal the thresholds fit: the swing fits in an i8, and a fifth of it is at least
\* one, so that a sample can be beyond a threshold; ripple does not reach the other
\* threshold; and edges are less than half a symbol late, with a sample more for ripple
\* that hides the first sample after an edge.  With more than one sample a symbol each level
\* is seen without ripple.
Readable(l) ==
    LET swing == l.hi - l.lo
    IN  /\ SymbolLen > 1
        /\ swing \in 5..127
        /\ overflow_checks => IsI8(l.hi + l.lo)
        /\ 5 * l.ripple < 4 * swing
        /\ 2 * (l.skew + (IF l.ripple < swing \div 5 THEN 0 ELSE 1)) < SymbolLen

\* Of a readable capture whose frames are clean, uart returns the bytes, all but the
\* last: no transition ends the last frame's last pulse.  Ripple that crosses the
\* middle, late edges, sums of thresholds that wrap, and a capture that begins
\* inside a frame make no difference.
DecodesAllButLast ==
    (/\ pc \in Ended
     /\ data # << >>
     /\ Readable(level)
     /\ \A i \in 1..Frames : Clean(sent[i])) =>
        /\ pc = "ok"
        /\ ans = [i \in 1..Frames - 1 |-> sent[i].byte]

\* "It's okay if it's not the last clock cycle of this pulse because it can stay high
\* longer than one clock width in between frames" (protocol_decode.rs:108): idle
\* symbols after a frame add no bytes.
IdleAddsNoBytes == Len(ans) <= Len(sent)

\* "this is the start bit we were waiting for, plus potentially a few data bits"
\* (protocol_decode.rs:76): a low pulse of a start bit and up to eight data bits is taken.
StartPulseIsTaken == [][StartBitFails => logic \/ PulseLen \notin 1..9]_vars
=============================================================================
