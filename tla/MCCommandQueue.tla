--------------------------- MODULE MCCommandQueue ---------------------------
(* Instances of CommandQueue for TLC: three commands for the game thread   *)
(* and one answered on the pipe thread, a queue that two stalled commands  *)
(* fill.                                                                   *)
EXTENDS CommandQueue

CONSTANTS r1, r2, r3, s1

MCRequests == {r1, r2, r3, s1}
MCInline   == {s1}
=============================================================================
