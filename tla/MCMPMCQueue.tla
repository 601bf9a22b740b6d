----------------------------- MODULE MCMPMCQueue -----------------------------
(***************************************************************************)
(* MPMCQueue for TLC.  Which node an allocation returns and which entry an *)
(* enqueue is given make no difference, so both sets are symmetric; the    *)
(* threads differ in their roles.                                          *)
(***************************************************************************)
EXTENDS MPMCQueue, TLC

Symmetry == Permutations(Nodes) \cup Permutations(Values)
=============================================================================
