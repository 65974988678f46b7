------------------------------ MODULE MCIoUring ------------------------------
(***************************************************************************)
(* IoUring for TLC: two application threads, three requests.               *)
(***************************************************************************)
EXTENDS IoUring, TLC

CONSTANTS t1, t2, r1, r2, r3

\* IoUring never takes IoSink's Elsewhere, so this set is not enumerated by a step.
MCPendingSqe == -2 .. 6

\* The threads are alike; the requests are not.
ThreadSymmetry == Permutations({t1, t2})
=============================================================================
