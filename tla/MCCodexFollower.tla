-------------------------- MODULE MCCodexFollower --------------------------
(* Instances of CodexFollower for TLC.                                     *)
EXTENDS CodexFollower

\* Threads another front end never archives differ in name only.
Alike == Permutations(Threads \ Archivable)
=============================================================================
