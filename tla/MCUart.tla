------------------------------- MODULE MCUart -------------------------------
(* Captures of two frames, with four samples a symbol, on signals that are   *)
(* centred, with ripple and late edges, off centre so that sums of levels    *)
(* wrap, and with a swing that does not fit in an i8.                        *)
EXTENDS Compare

Level(l, h, r, s) == [lo |-> l, hi |-> h, ripple |-> r, skew |-> s]

MCLevels == {Level(-50, 50, 60, 0), Level(10, 110, 8, 1), Level(-120, -30, 0, 0),
             Level(-60, 60, 0, 3), Level(-100, 100, 0, 0)}
Centred == {Level(-60, 60, 0, 0), Level(-50, 50, 60, 0)}
MCLeads == {<< >>, <<0, 1, 0, 0, 1, 0>>}
NoLead  == {<< >>}
=============================================================================
