-------------------------- MODULE MCTerminalOutbox --------------------------
(* Behaviours of TerminalOutbox for TLC.                                   *)
EXTENDS TerminalOutbox

\* An id that has left no trace.
Untouched(i) ==
  /\ ~Recorded(i) /\ sess[i] = "none" /\ shown[i] = {}
  /\ \A c \in Cards : cards[i][c] = "none"

\* Either the task or the notices and replays have begun: the sessions and the
\* competition for a slot are explored side by side (a constraint of the run).
Apart ==
  (\A i \in TaskIds : Untouched(i)) \/ (\A i \in Ids \ TaskIds : Untouched(i))
=============================================================================
