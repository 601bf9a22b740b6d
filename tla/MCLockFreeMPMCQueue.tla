------------------------ MODULE MCLockFreeMPMCQueue ------------------------
(***************************************************************************)
(* LockFreeMPMCQueue for TLC.  Threads of one kind and the values are      *)
(* interchangeable.                                                        *)
(***************************************************************************)
EXTENDS LockFreeMPMCQueue, TLC

Symmetry == Permutations(Values) \cup Permutations(Producers)
                \cup Permutations(Consumers)
=============================================================================
