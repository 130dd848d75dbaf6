--------------------------- MODULE MCTaskService ---------------------------
(* Instances of TaskService for TLC.                                       *)
EXTENDS TaskService, TLC

\* Messages of the same window differ in name only.
Windows == Permutations(Msgs \ Guests)
=============================================================================
