--------------------------- MODULE MCCommandQueue ---------------------------
(* A small instance of CommandQueue for TLC. *)
EXTENDS CommandQueue, TLC

CONSTANTS w1, w2, p1, p2

TwoWriters == {w1, w2}
TwoPolls == {p1, p2}
=============================================================================
