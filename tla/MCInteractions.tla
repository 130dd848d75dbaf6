--------------------------- MODULE MCInteractions ---------------------------
(* Two windows of one thread: f1 may start turns, f2 observes.             *)
EXTENDS Interactions

CONSTANTS f1, f2, r1
=============================================================================
