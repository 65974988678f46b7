---------------------------- MODULE MCDirectRing ----------------------------
(***************************************************************************)
(* DirectRing for TLC: a few requests, by name.                            *)
(***************************************************************************)
EXTENDS DirectRing

CONSTANTS r1, r2, r3, r4
=============================================================================
