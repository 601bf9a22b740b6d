------------------------------ MODULE MCSystem ------------------------------
(***************************************************************************)
(* System for TLC: one load test, and naive clients that upload, download  *)
(* and delete the same file.                                               *)
(***************************************************************************)
EXTENDS System

CONSTANTS u1, d1, r1

MCChunks == [c \in Uploads |-> IF c = u1 THEN 2 ELSE 1]

MCOldFile == <<Hole, Hole, Hole>>

MCLoadTests == {<<u1, d1, r1>>}
=============================================================================
