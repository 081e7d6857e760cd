------------------------------ MODULE MCDevice ------------------------------
(* Device on a small instance: two devices on one instrument, whose link ids  *)
(* come back, and whose failed replies may name a live link.  The port mapper *)
(* does not know the core channel, knows it, or names a number whose lower    *)
(* half is its port, or another's.                                            *)
EXTENDS Device, TLC

CONSTANTS c1, c2

\* Both identify the instrument; the first asks twice after that, so that an answer an
\* ask leaves behind is there for the next.
MCMaxOps == (c1 :> 5) @@ (c2 :> 3)

MCPortMapper == {0, CorePort, CorePort + 3 * 65536, 80}

=============================================================================
