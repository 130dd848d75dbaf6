------------------------------ MODULE CodexHost ------------------------------
(***************************************************************************)
(* The shared Codex host with everything that stops, starts and writes to  *)
(* it: turns, account switches and restarts of the service.                *)
(***************************************************************************)
EXTENDS CodexAccountSwitch, CodexRestart

CodexHostNext == HostNext \/ SwitchNext \/ RestartNext
CodexHostSpec == HostInit /\ [][CodexHostNext]_hostVars

\* A message is answered by the account the index names: whatever the Codex application logs in as and whichever host
\* died and came back, a turn that is written to the host it was checked on runs there as the active profile.  Two windows
\* are left: a save, or a use of the account in use, that read the account of a host replaced before its generation was
\* read, and a host that is replaced between the check of a turn and its turn/start, which is not checked again
\* (codex_app_server_turn.go:78-129).  The service itself opens the second one only by force (NoTurnCut).
TurnsRunAsActive ==
  \A t \in Running : turn[t].acct = turn[t].active \/ turn[t].gen \in misread \/ turn[t].vetted # turn[t].gen

\* A switch that ended badly, or that a stop of the service cut short, keeps the gate shut: the only ways past it are
\* an offline switch and a forced restart.
UnsafeStaysShut ==
  service = "up" /\ op.kind = "none" /\ idx.status \in Unsafe => gate.state = "failed" \/ reopened

\* What the account doctor and the comment on beginForcedExclusive say: after an unsafe end the gate stays failed until
\* an offline switch, also when a forced restart that took the gate does not come to its end.
ShutUntilRepaired ==
  service = "up" /\ op.kind = "none" /\ idx.status \in Unsafe => gate.state = "failed"

\* Messages are admitted again only when the host a restart recorded as stopped is gone, wherever the restart broke off.
OldHostGone ==
  service = "up" /\ entry = "open" /\ host.up => host.gen \notin condemned

\* Only force, and a host that dies by itself, takes the host away from a turn: neither a switch nor an idle restart stops it
\* while a turn that was admitted before runs there, or was checked on it and is about to be written.
NoTurnCut ==
  [][op.kind \in {"use", "sync", "restart"} /\ ~op.force /\ host.up /\ ~host'.up /\ upsets' = upsets
     => \A t \in Turns : turn[t].stage \notin {"ready", "running"}]_hostVars

\* Whatever switch or restart was cut short, messages are let in only to a host that is the right one: the active account's,
\* behind an open gate, and not one already recorded as stopped.
HostSound == TurnsRunAsActive /\ UnsafeStaysShut /\ OldHostGone
=============================================================================
