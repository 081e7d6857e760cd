------------------------------ MODULE Compare ------------------------------
(***************************************************************************)
(* What 02_oscillator_compare makes of a capture: the offset between the   *)
(* edges of its two channels, a reset of the counters when the edge of     *)
(* channel 1 is not in view, or an error.                                  *)
(*                                                                         *)
(* The captures are those of Uart: channel 2 is data, and channel 1 the    *)
(* same signal, later.                                                     *)
(***************************************************************************)
EXTENDS Uart

\* The mean, from a sum that may not fit in an i8.
MidpointOfSum(ch) == Quotient(I8(Min(ToSet(ch)) + Max(ToSet(ch))), 2)

\* ch2_min + ((ch2_max - ch2_min) / 2), in a release build
Midpoint(ch) ==
    LET lo == Min(ToSet(ch))
    IN  I8(lo + Quotient(I8(Max(ToSet(ch)) - lo), 2))

\* Where a channel first exceeds the midpoint; 0 if nowhere.
Crossing(ch, mid) == SelectInSeq(ch, LAMBDA x : x > mid)

Result(how, dt) == [how |-> how, dt |-> dt]

\* dt is in samples: the division by the sample rate is left out.
CompareChannels(ch1, ch2) ==
    IF ch2 = << >> THEN Result("err", 0)
    ELSE IF overflow_checks /\ ~IsI8(Max(ToSet(ch2)) - Min(ToSet(ch2)))
    THEN Result("panicked", 0)
    ELSE LET mid == Midpoint(ch2)
             x1 == Crossing(ch1, mid)
             x2 == Crossing(ch2, mid)
         IN  IF Head(ch1) > mid \/ Last(ch1) < mid THEN Result("reset", 0)
             ELSE IF 0 \in {x1, x2} THEN Result("err", 0)
             ELSE Result("offset", x2 - x1)

-----------------------------------------------------------------------------
Delayed(ch, d) == [t \in DOMAIN ch |-> IF t > d THEN ch[t - d] ELSE Head(ch)]

AboveMiddle(x) == 2 * x > level.hi + level.lo

\* Of two channels that differ by a delay the program measures that delay, wherever
\* the levels lie and whatever the ripple, if the edge is in view: the capture starts
\* low and ends high.  If it is not, the counters are reset and nothing is recorded.
\* The ripple must stay off the middle by one, as the middle is rounded, the line must
\* have an edge, and the swing must fit in an i8: "This way avoids the overflow risk"
\* (02_oscillator_compare.rs:96) holds of the sum of the levels, and not of their
\* difference.
OffsetIsDelay ==
    (/\ pc = "measure" /\ data # << >>
     /\ level.hi - level.lo <= 127 /\ 2 * (level.ripple + 1) <= level.hi - level.lo
     /\ level.skew + 1 < SymbolLen) =>
        \A d \in 0..2 * SymbolLen :
            LET ch1 == Delayed(data, d)
            IN  CompareChannels(ch1, data) =
                    IF ~AboveMiddle(Head(ch1)) /\ AboveMiddle(Last(ch1))
                    THEN Result("offset", -d) ELSE Result("reset", 0)
=============================================================================
