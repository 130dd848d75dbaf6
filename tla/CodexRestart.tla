---------------------------- MODULE CodexRestart ----------------------------
(***************************************************************************)
(* Restarting the service together with the shared host                    *)
(* (messaging/runtime_restart.go, runtime_restart_offline.go, shutdown.go, *)
(* agent/codex_restart.go).                                                *)
(*                                                                         *)
(* The service closes its entry, proves the host idle, records the         *)
(* generation it is about to stop, stops it, and exits; the next service   *)
(* opens its entry only once that generation was replaced.  With force the *)
(* host is stopped whatever runs on it.                                    *)
(***************************************************************************)
EXTENDS CodexHostGate

RAt(at) == op.kind = "restart" /\ op.at = at /\ service = "up"
Rest == UNCHANGED <<auth, idx, misread, logins>>

\* The intent in the file: a generation and whether the host was, or is being, stopped.
Snap(gen) == [kind |-> "snap", gen |-> gen, stopped |-> TRUE]
Prepared(gen, unsafe) == [asked |-> "no", prepared |-> TRUE, unsafe |-> unsafe, snap |-> Snap(gen)]

-----------------------------------------------------------------------------
(* Preparing.                                                              *)

\* Drain closes the entry; without force a running task refuses.  Then the file says a restart is being prepared.
PrepareRuntimeRestart(force) ==
  /\ service = "up" /\ ~rst.prepared /\ ops < MaxOps /\ entry = "open"
  /\ force \/ \A t \in Turns : turn[t].stage = "off"
  /\ entry' = "closed" /\ file' = [NoFile EXCEPT !.kind = "preparing"]
  /\ rst' = [rst EXCEPT !.asked = IF force THEN "force" ELSE "idle"] /\ ops' = ops + 1
  /\ UNCHANGED <<gate, adm, turn, host, meta, op, service, condemned, reopened>> /\ Rest /\ Calm

\* The mutex is waited for, behind a turn or a switch, and the gate taken; a forced restart takes a failed gate and one
\* with turns in flight too.
AtGate == service = "up" /\ adm = "free" /\ rst.asked # "no"
Forced == rst.asked = "force"
MayTake == IF Forced THEN MayForce ELSE MayBegin
TakeGate ==
  /\ AtGate /\ MayTake
  /\ adm' = "op" /\ gate' = Draining /\ rst' = [rst EXCEPT !.asked = "no"]
  /\ op' = [Idle EXCEPT !.kind = "restart", !.at = IF Forced THEN "plan" ELSE "idle", !.force = Forced]
  /\ UNCHANGED <<turn, host, meta, service, entry, file, condemned, reopened, ops>> /\ Rest /\ Calm

\* Without force: the host runs, is the one recorded, and its threads are idle.
ProveIdle ==
  /\ RAt("idle") /\ EnsureStarted
  /\ op' = [op EXCEPT !.at = "persist"]
  /\ UNCHANGED <<gate, adm, turn, service, entry, file, rst, condemned, reopened, ops>> /\ Rest /\ Calm

\* The generation to stop is on disk before any process is touched.
PersistIntent ==
  /\ \/ RAt("persist") /\ Managed /\ op' = [op EXCEPT !.at = "halt", !.gen = meta.gen]
     \/ RAt("plan") /\ op' = [op EXCEPT !.at = "halt", !.gen = IF Managed THEN meta.gen ELSE 0]
  /\ file' = Snap(op'.gen) /\ condemned' = condemned \cup ({op'.gen} \ {0})
  /\ rst' = IF op.force THEN Prepared(op'.gen, FALSE) ELSE rst
  /\ UNCHANGED <<gate, adm, turn, host, meta, service, entry, reopened, ops>> /\ Rest /\ Calm

\* A check or a write fails with nothing stopped: the file is removed and the entry opened again.
Blocked ==
  /\ \/ AtGate /\ ~MayTake /\ Calm /\ UNCHANGED <<gate, adm>>
     \/ /\ op.kind = "restart" /\ op.at \in {"plan", "idle", "persist"} /\ service = "up" /\ Upset
        /\ gate' = Finish(TRUE) /\ adm' = "free"
     \/ RAt("persist") /\ ~Managed /\ Calm /\ gate' = Finish(TRUE) /\ adm' = "free"
     \/ RAt("halt") /\ ~op.force /\ Upset /\ gate' = Finish(TRUE) /\ adm' = "free"
  /\ reopened' = (reopened \/ (op.force /\ gate'.state = "running"))
  /\ file' = NoFile /\ entry' = "open" /\ op' = Idle /\ condemned' = condemned \ {op.gen}
  /\ rst' = [rst EXCEPT !.asked = "no"]
  /\ UNCHANGED <<turn, host, meta, service, ops>> /\ Rest

\* The host is stopped and the gate left failed until the service exits or the restart is cancelled.
HaltHost ==
  /\ RAt("halt") /\ (op.force \/ Managed)
  /\ IF host.up THEN Stopped ELSE UNCHANGED <<host, meta, turn>>
  /\ rst' = Prepared(op.gen, FALSE)
  /\ gate' = Finish(FALSE) /\ adm' = "free" /\ op' = Idle
  /\ UNCHANGED <<service, entry, file, condemned, reopened, ops>> /\ Rest /\ Calm

\* Whether the host stopped cannot be established: the entry stays closed.  A forced attempt leaves the gate as it
\* found the host, available.
HaltUnknown(stopped) ==
  /\ RAt("halt")
  /\ IF op.force THEN Upset ELSE (IF Managed THEN Upset ELSE Calm)
  /\ IF stopped /\ host.up THEN Stopped ELSE UNCHANGED <<host, meta, turn>>
  /\ rst' = Prepared(op.gen, TRUE)
  /\ gate' = Finish(op.force) /\ adm' = "free" /\ op' = Idle
  /\ reopened' = (reopened \/ (op.force /\ gate'.state = "running"))
  /\ UNCHANGED <<service, entry, file, condemned, ops>> /\ Rest

\* A later --force completes it.
ForceComplete(ok) ==
  /\ service = "up" /\ op.kind = "none" /\ adm = "free" /\ rst.unsafe
  /\ Happens(ok)
  /\ IF host.up /\ ok THEN Stopped ELSE UNCHANGED <<host, meta, turn>>
  /\ rst' = [rst EXCEPT !.unsafe = ~ok]
  /\ UNCHANGED <<gate, adm, op, service, entry, file, condemned, reopened, ops>> /\ Rest

-----------------------------------------------------------------------------
(* Cancelling and recovering.                                              *)

\* verifyStartedCodexHost: a host of the recorded generation is replaced, any other accepted.
AcceptAny(gen) == EnsureStarted /\ UNCHANGED turn   \* mutant: a running host is enough
Replaced(gen) ==
  IF host.up /\ (gen = 0 \/ meta.gen # gen)
  THEN UNCHANGED <<host, meta, turn>>
  ELSE /\ host.gen < MaxHosts
       /\ host' = Fresh.host /\ meta' = Fresh.meta /\ turn' = Interrupted

\* The outer restart failed: the host is built again before the gate and the entry open.
CancelRuntimeRestart ==
  /\ service = "up" /\ op.kind = "none" /\ adm = "free" /\ rst.prepared
  /\ Replaced(rst.snap.gen)
  /\ gate' = Reopened /\ rst' = NoRestart /\ file' = NoFile /\ entry' = "open"
  /\ reopened' = (reopened \/ idx.status \in Unsafe)
  /\ UNCHANGED <<adm, op, service, condemned, ops>> /\ Rest /\ Calm

\* The service exits, for a restart or because it is killed.
ServiceStops ==
  /\ service # "down"
  /\ IF op.kind = "none" /\ rst.prepared /\ ~rst.unsafe THEN Calm ELSE Upset
  /\ service' = "down" /\ entry' = "closed" /\ adm' = "free" /\ op' = Idle /\ rst' = NoRestart
  /\ turn' = [t \in Turns |-> Waiting] /\ gate' = [state |-> "failed", cause |-> TRUE]
  /\ UNCHANGED <<host, meta, file, condemned, reopened, ops>> /\ Rest

Boot ==
  /\ service = "down" /\ service' = "booting" /\ gate' = FirstGate /\ reopened' = FALSE
  /\ UNCHANGED <<adm, turn, host, meta, op, entry, file, rst, condemned, ops>> /\ Rest /\ Calm

\* Before any listener starts a recorded generation is replaced; a forced stop that is still pending refuses.
RecoverRuntimeRestart ==
  /\ service = "booting" /\ file.kind # "pending"
  /\ IF file.kind = "none" THEN UNCHANGED <<host, meta, turn>>
     ELSE Replaced(IF file.stopped THEN file.gen ELSE 0)
  /\ service' = "up" /\ entry' = "open" /\ file' = NoFile
  /\ UNCHANGED <<gate, adm, op, rst, condemned, reopened, ops>> /\ Rest /\ Calm

-----------------------------------------------------------------------------
(* Stopping a host with the service down.                                  *)

\* The file says so first, and keeps a generation recorded earlier.
OfflineForce ==
  /\ service = "down" /\ file.kind # "pending" /\ ops < MaxOps
  /\ LET gen == IF file.gen # 0 THEN file.gen ELSE IF Managed THEN meta.gen ELSE 0
     IN /\ file' = [kind |-> "pending", gen |-> gen, stopped |-> TRUE]
        /\ condemned' = condemned \cup ({gen} \ {0})
  /\ ops' = ops + 1
  /\ UNCHANGED <<gate, adm, turn, host, meta, op, service, entry, rst, reopened>> /\ Rest /\ Calm

OfflineStopped ==
  /\ service = "down" /\ file.kind = "pending"
  /\ IF host.up THEN Stopped ELSE UNCHANGED <<host, meta, turn>>
  /\ file' = [file EXCEPT !.kind = "snap"]
  /\ UNCHANGED <<gate, adm, op, service, entry, rst, condemned, reopened, ops>> /\ Rest /\ Calm

RestartNext ==
  \/ \E force \in BOOLEAN : PrepareRuntimeRestart(force)
  \/ TakeGate \/ ProveIdle \/ PersistIntent \/ Blocked \/ HaltHost \/ CancelRuntimeRestart
  \/ \E ok \in BOOLEAN : HaltUnknown(ok) \/ ForceComplete(ok)
  \/ ServiceStops \/ Boot \/ RecoverRuntimeRestart \/ OfflineForce \/ OfflineStopped
=============================================================================
