---------------------------- MODULE MCCoreClient ----------------------------
(* CoreClient on a small instance: the callers use its operations in any      *)
(* order, as the library lets them.                                           *)
EXTENDS CoreClient, TLC

Symmetry == Permutations(Clients) \cup Permutations(LinkIds)

MCMaxOps == [c \in Clients |-> 3]

=============================================================================
