----------------------------- MODULE ActiveTask -----------------------------
(***************************************************************************)
(* One active task (activeAgentTask, messaging/task_state.go): what the    *)
(* methods that run under its mutex do to it.  A task is the run of a      *)
(* message in this process, the observation of a Codex turn that somebody  *)
(* else started, or a change of the settings of a Claude session.          *)
(***************************************************************************)
EXTENDS Naturals

CONSTANTS
  Msgs,      \* the messages of the conversation; a message that is run names its task
  Guests,    \* those of another window bound to the same Claude session
  Watches,   \* observations of external Codex turns
  Settings,  \* changes of the model or effort of a Claude session
  NoMsg,     \* the empty pending slot
  NoTask,    \* no active task
  Agent,     \* "codex" or "claude"
  Platform   \* "feishu" or "wechat"

Tasks == Msgs \cup Watches \cup Settings

ASSUME TaskConstants ==
  /\ Guests \subseteq Msgs
  /\ Msgs \cap (Watches \cup Settings) = {}
  /\ Watches \cap Settings = {}
  /\ NoMsg \notin Msgs
  /\ NoTask \notin Tasks
  /\ Agent \in {"codex", "claude"}
  /\ Platform \in {"feishu", "wechat"}

Phases == {"reserved", "running", "stopping", "disconnected", "terminal"}

\* Where the goroutine of the task is.
Pcs == {"idle", "reserved", "start", "exec", "recheck", "watch", "reconcile",
        "claim", "deliver", "unlock", "complete", "end"}

Task ==
  [phase : Phases, detached : BOOLEAN, stopRequested : BOOLEAN,
   pending : Msgs \cup {NoMsg}, pendingSteering : BOOLEAN,
   owner : {"weclaw", "desktop", "unknown"},
   turn : BOOLEAN,        \* codexTurnID is known
   control : BOOLEAN,     \* the observation may control the turn
   ready : BOOLEAN,       \* the observer reported that it is attached
   canceled : BOOLEAN,    \* its context was canceled
   observed : BOOLEAN,    \* nobody asked the observer to let go of the turn
   preserve : BOOLEAN,    \* preserveRecoveryOnDrain
   pc : Pcs,
   closes : Nat,          \* how often its done channel was closed
   \* Observations for the properties.
   verdict : {"none", "completed", "failed", "interrupted", "stopped"},
   released : BOOLEAN,    \* its window gave it up
   asked : BOOLEAN,       \* somebody asked to stop it
   cut : BOOLEAN]         \* its turn accepted an interrupt

\* newActiveAgentTask, for the run of a message.
NewTask ==
  [phase |-> "running", detached |-> FALSE, stopRequested |-> FALSE,
   pending |-> NoMsg, pendingSteering |-> FALSE, owner |-> "unknown",
   turn |-> FALSE, control |-> FALSE, ready |-> FALSE, canceled |-> FALSE,
   observed |-> TRUE, preserve |-> FALSE, pc |-> "start", closes |-> 0,
   verdict |-> "none", released |-> FALSE, asked |-> FALSE, cut |-> FALSE]

Unused == [NewTask EXCEPT !.pc = "idle"]

\* What matters of a task whose goroutine has ended and that is not in the index.
Retired(k) == [Unused EXCEPT !.pc = "end", !.closes = k.closes, !.phase = k.phase]

\* createExternalCodexTaskReservationLocked
Reservation(controllable) ==
  [NewTask EXCEPT !.phase = "reserved", !.pc = "reserved", !.turn = TRUE,
                  !.control = controllable,
                  !.owner = IF controllable THEN "weclaw" ELSE "unknown"]

InProcessCodex(t) == Agent = "codex" /\ t \in Msgs

\* codexTaskUsesReadOnlySynchronization
ReadOnly(t, k) == t \in Watches /\ ~k.control

\* taskIsRunningForStatusLocked
Running(k) == ~k.detached /\ k.phase # "terminal"

\* canControlExternalCodexLocked
CanControl(k) == k.turn /\ k.phase = "running" /\ k.owner = "weclaw"

\* canResolveExternalCodexControlLocked
CanResolve(t, k) ==
  \/ CanControl(k)
  \/ InProcessCodex(t) /\ k.turn /\ k.phase = "running" /\ k.owner = "unknown"

-----------------------------------------------------------------------------
(* The pending slot: one message, kept while a guide is sending it.        *)

SlotTaken(k) == k.pending # NoMsg \/ k.pendingSteering

QueuePending(k, m) == [k EXCEPT !.pending = m]

ClearPending(k) == [k EXCEPT !.pending = NoMsg]

\* takeExternalCodexGuideExpected
TakeGuide(k) == [k EXCEPT !.pendingSteering = TRUE]

\* finishExternalCodexGuide, always with delivered = true
FinishGuide(k) ==
  IF k.pendingSteering
  THEN [k EXCEPT !.pendingSteering = FALSE, !.pending = NoMsg]
  ELSE k

\* Handing over a message although a guide is sending it.
PromotableAnyway(k) == k.pending

\* What a task that ends hands over to the next one.
Promotable(k) == IF k.pendingSteering THEN NoMsg ELSE k.pending

-----------------------------------------------------------------------------
(* Phases.                                                                 *)

\* claimTerminalLocked
ClaimTerminal(k) == [k EXCEPT !.stopRequested = FALSE, !.phase = "terminal"]

Settled(k) == k.phase \in {"terminal", "stopping"}

\* markCodexDisconnected, markCodexObservationInterrupted
MarkDisconnected(k) ==
  IF Settled(k) THEN k ELSE [k EXCEPT !.phase = "disconnected", !.owner = "unknown"]

\* markCodexRunning
MarkRunning(k, runtime) ==
  IF Settled(k) THEN k ELSE [k EXCEPT !.phase = "running", !.owner = runtime]

\* refreshExternalCodexTurn
RefreshTurn(k, runtime) ==
  IF k.phase = "running" THEN [k EXCEPT !.owner = runtime, !.turn = TRUE] ELSE k

\* beginStopRequest refuses a second request, and one for a task that ended.
StopRefused(k) == k.stopRequested \/ Settled(k)

BeginLocalStop(k) ==
  [k EXCEPT !.detached = FALSE, !.phase = "stopping", !.canceled = TRUE]

BeginRemoteStop(k) == [k EXCEPT !.stopRequested = TRUE]

\* commitRemoteStop, the order without its check that the terminal stands.
CommitStopUnchecked(k) == [k EXCEPT !.stopRequested = FALSE, !.phase = "stopping"]

\* commitRemoteStop
CommitRemoteStop(k) ==
  [k EXCEPT !.stopRequested = FALSE,
            !.phase = IF @ = "terminal" THEN @ ELSE "stopping"]

\* rollbackRemoteStop
RollbackRemoteStop(k) == [k EXCEPT !.stopRequested = FALSE]

\* stoppedByRequest without the question whether a stop was accepted.
StoppedByAnyHalt(k, result) == result = "halt"

\* stoppedByRequest: result "halt" is a canceled context, an aborted rollout or
\* an interrupted turn.
StoppedByRequest(k, result) == k.phase = "stopping" /\ result = "halt"

\* "interrupted" is reported as a failure.
Verdict(k, result) ==
  CASE StoppedByRequest(k, result) -> "stopped"
    [] result = "ok" -> "completed"
    [] result = "error" -> "failed"
    [] OTHER -> "interrupted"

=============================================================================
