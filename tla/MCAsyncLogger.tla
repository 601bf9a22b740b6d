---------------------------- MODULE MCAsyncLogger ----------------------------
(***************************************************************************)
(* AsyncLogger for TLC.  Writers and entries are interchangeable.          *)
(***************************************************************************)
EXTENDS AsyncLogger, TLC

Symmetry == Permutations(Writers) \cup Permutations(Entries)
=============================================================================
