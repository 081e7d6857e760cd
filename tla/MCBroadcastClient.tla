-------------------------- MODULE MCBroadcastClient --------------------------
(* BroadcastClient with two servers that cannot be told apart.                *)
EXTENDS BroadcastClient, TLC

Symmetry == Permutations(Servers)

=============================================================================
