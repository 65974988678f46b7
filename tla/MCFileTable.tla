----------------------------- MODULE MCFileTable -----------------------------
(***************************************************************************)
(* FileTable for TLC: two threads with two descriptors each, one of which  *)
(* the kernel refuses, and two slots.                                      *)
(***************************************************************************)
EXTENDS FileTable

CONSTANTS t1, t2

MCOwns == [t \in Threads |-> IF t = t1 THEN {3, 4} ELSE {5, 6}]

\* Vectors that fit, that do not, that hold a descriptor twice, and that fail at the
\* second element because the kernel refuses it (6).
MCLists == {<<3>>, <<4>>, <<3, 4>>, <<4, 3>>, <<3, 3>>, <<5>>, <<5, 6>>}
=============================================================================
