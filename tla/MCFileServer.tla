---------------------------- MODULE MCFileServer ----------------------------
(***************************************************************************)
(* FileServer for TLC: two uploads of different lengths, a download and a  *)
(* deletion of one file.                                                   *)
(***************************************************************************)
EXTENDS FileServer

CONSTANTS u1, u2

MCChunks == [c \in Uploads |-> IF c = u1 THEN 2 ELSE 1]

MCOldFile == <<Hole, Hole, Hole>>
=============================================================================
