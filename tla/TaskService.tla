---------------------------- MODULE TaskService ----------------------------
(***************************************************************************)
(* The task service of one conversation (messaging/task_service.go): the   *)
(* active task, admission of messages, the goroutine that runs a message   *)
(* or observes a Codex turn, the commands /guide, /cancel and /stop, the   *)
(* release of a window and the drain before a restart.  The keys of the    *)
(* index are independent of each other except for the drain, which treats  *)
(* every task alike, so the model has one key.                             *)
(***************************************************************************)
EXTENDS ActiveTask

CONSTANTS
  Faults,      \* which of the faults below can happen
  MaxCommands  \* how many commands are issued: bounds the model

ASSUME FaultsKnown ==
  /\ Faults \subseteq
       {"observer",     \* an observer that does not become ready
        "reservation",  \* a reservation that is canceled
        "reopen",       \* an entry that opens again while tasks are winding down
        "lateStop",     \* a /stop, or a /guide, that acts on a later state than
        "lateGuide"}    \* the one it looked at
  /\ MaxCommands \in Nat

VARIABLES
  task,      \* the tasks
  active,    \* tasks.active[key]
  draining,  \* tasks.draining
  msg,       \* where each message is, and at which task
  control,   \* the submission that holds the thread control lock
  guide,     \* the /guide command that holds it
  stop,      \* the /stop command that talks to the Codex host
  \* Observations for the properties.
  fate,      \* what happened to each message
  cards,     \* the control cards that were issued
  issued     \* how many commands were

vars == <<task, active, draining, msg, control, guide, stop, fate, cards, issued>>

MsgPcs == {"new", "submit", "preflight", "await", "admit", "queued", "steering",
           "guideWait", "running", "end"}

\* Run once, run twice, steered into a turn, hit by a card of another message.
Fates == {"run", "rerun", "steered", "astray"}

At(pc, t) == [pc |-> pc, at |-> t]

StopIdle == [pc |-> "idle", task |-> NoTask]

GuideIdle == [pc |-> "idle", task |-> NoTask, msg |-> NoMsg]

NoCard == [task |-> NoTask, msg |-> NoMsg]

Init ==
  /\ task = [t \in Tasks |-> Unused]
  /\ active = NoTask
  /\ draining = FALSE
  /\ msg = [m \in Msgs |-> At("new", NoTask)]
  /\ control = NoMsg
  /\ guide = GuideIdle
  /\ stop = StopIdle
  /\ fate = [m \in Msgs |-> {}]
  /\ cards = {}
  /\ issued = 0

Issue == issued < MaxCommands /\ issued' = issued + 1

ControlFree == control = NoMsg /\ guide = GuideIdle

Step(t, k) == task' = [task EXCEPT ![t] = k]

Became(m, what) == fate' = [fate EXCEPT ![m] = @ \cup what]

\* The message leaves the service: it was carried out, or its sender was told.
Leaves(m, what) ==
  /\ msg' = [msg EXCEPT ![m] = At("end", NoTask)]
  /\ Became(m, what)

-----------------------------------------------------------------------------
(* Removing a task from the index closes its done channel.                 *)

Closed(k) == [k EXCEPT !.closes = @ + 1]

Ended(k) == IF k.pc = "end" THEN Retired(k) ELSE k

\* finishActiveTask: the pending message is not looked at.
FinishActive(t, k) ==
  IF active = t /\ k.phase # "terminal"
  THEN /\ task' = [task EXCEPT ![t] = Ended(Closed(k))]
       /\ active' = NoTask
  ELSE /\ task' = [task EXCEPT ![t] = IF active = t THEN k ELSE Ended(k)]
       /\ UNCHANGED active

\* The goroutine ends and leaves the index alone.
Stops(t) ==
  task' = [task EXCEPT ![t] = IF active = t THEN [@ EXCEPT !.pc = "end"] ELSE Retired(@)]

\* finishClaimedActiveTask, or completeActiveTask for a task that nobody claimed:
\* the pending message is promoted in the same critical section.
Promote(t, k) ==
  /\ msg' = [x \in Msgs |->
               IF active = t /\ x = Promotable(k) THEN At("submit", NoTask)
               ELSE IF x = t THEN At("end", NoTask) ELSE msg[x]]
  /\ task' = [task EXCEPT ![t] =
                Retired(IF active = t THEN Closed(ClaimTerminal(k)) ELSE k)]
  /\ active' = IF active = t THEN NoTask ELSE active

-----------------------------------------------------------------------------
(* A message arrives, is steered into the running turn, starts a task or   *)
(* is queued (startCodexAgentTask, startAgentTask).                        *)

Send(m) ==
  /\ msg[m].pc = "new"
  /\ msg' = [msg EXCEPT ![m] = At("submit", NoTask)]
  /\ UNCHANGED <<task, active, draining, control, guide, stop, fate, cards, issued>>

\* A settings change holds the binding lock of its window to the end.
BindingFree(m) ==
  m \in Guests \/ \A s \in Settings : task[s].pc # "exec"

\* Binding, workspace or route is not usable, or the control lock timed out.
Refuse(m) ==
  /\ msg[m].pc = "submit"
  /\ Leaves(m, {})
  /\ UNCHANGED <<task, active, draining, control, guide, stop, cards, issued>>

\* preflightCodexTaskStart: Feishu queues what it could control, everything else
\* goes to the live turn of the task if it is on the thread of the message.  Which
\* thread that is, the model leaves open.
SteersFirst ==
  /\ Agent = "codex"
  /\ active # NoTask
  /\ Platform = "feishu" => ReadOnly(active, task[active])

SteerBegin(m) ==
  /\ msg[m].pc = "submit" /\ ControlFree /\ SteersFirst
  /\ control' = m
  /\ msg' = [msg EXCEPT ![m] = At("preflight", active)]
  /\ UNCHANGED <<task, active, draining, guide, stop, fate, cards, issued>>

\* SteerCodexInput answers: accepted, an error, or no active turn.
SteerReturns(m) ==
  /\ msg[m].pc = "preflight"
  /\ \/ /\ Leaves(m, {"steered"}) /\ control' = NoMsg
        /\ Step(msg[m].at, [task[msg[m].at] EXCEPT !.turn = TRUE])
     \/ Leaves(m, {}) /\ control' = NoMsg /\ UNCHANGED task
     \/ /\ ~ReadOnly(msg[m].at, task[msg[m].at])
        /\ msg' = [msg EXCEPT ![m].pc = "await"]
        /\ UNCHANGED <<task, fate, control>>
  /\ UNCHANGED <<active, draining, guide, stop, cards, issued>>

\* The turn is over: wait until its task is, or give up.
AwaitDone(m) ==
  /\ msg[m].pc = "await" /\ task[msg[m].at].closes > 0
  /\ msg' = [msg EXCEPT ![m] = At("admit", NoTask)]
  /\ UNCHANGED <<task, active, draining, control, guide, stop, fate, cards, issued>>

AwaitTimesOut(m) ==
  /\ msg[m].pc = "await"
  /\ Leaves(m, {})
  /\ control' = NoMsg
  /\ UNCHANGED <<task, active, draining, guide, stop, cards, issued>>

\* A session that lets every window queue on the task of another.
NoForeignWriter(m) == FALSE

\* The active task of the session belongs to another window.
ForeignWriter(m) ==
  Agent = "claude" /\ ~(m \in Guests <=> active \in Guests)

\* An admission that takes the control lock again: the locks are not reentrant.
LocksTwice(m) == msg[m].pc \in {"submit", "admit"} /\ control = m /\ ControlFree

\* A message whose turn it is to be admitted; it holds the locks.
Admitting(m) ==
  \/ msg[m].pc = "submit" /\ ControlFree /\ BindingFree(m)
  \/ msg[m].pc = "admit"

Unlocked(m) == control' = IF control = m THEN NoMsg ELSE control

\* beginOrQueueActiveTask and beginOrQueueClaudeTask, in one critical section.
AdmitRefused(m) ==
  /\ Admitting(m)
  /\ \/ draining
     \/ active # NoTask /\ (ForeignWriter(m) \/ SlotTaken(task[active]))
  /\ Leaves(m, {})
  /\ Unlocked(m)
  /\ UNCHANGED <<task, active, draining, guide, stop, cards, issued>>

AdmitStarts(m) ==
  /\ Admitting(m) /\ ~draining /\ active = NoTask
  /\ task' = [task EXCEPT ![m] = NewTask]
  /\ active' = m
  /\ msg' = [msg EXCEPT ![m] = At("running", m)]
  /\ Became(m, IF "run" \in fate[m] THEN {"rerun"} ELSE {"run"})
  /\ Unlocked(m)
  /\ UNCHANGED <<draining, guide, stop, cards, issued>>

CanQueue(m) ==
  /\ Admitting(m) /\ ~draining /\ active # NoTask
  /\ ~ForeignWriter(m) /\ ~SlotTaken(task[active])

\* sendPendingTaskControlCard: the card names the task and the message it stores.
CardsFor(t, m) == IF Platform = "feishu" THEN {[task |-> t, msg |-> m]} ELSE {}

AdmitQueues(m) ==
  /\ CanQueue(m)
  /\ task' = [task EXCEPT ![active] = QueuePending(@, m)]
  /\ msg' = [msg EXCEPT ![m] = At("queued", active)]
  /\ cards' = cards \cup CardsFor(active, m)
  /\ Unlocked(m)
  /\ UNCHANGED <<active, draining, guide, stop, fate, issued>>

-----------------------------------------------------------------------------
(* The goroutine that runs a message (runCodexAgentTask, runAgentTask).    *)

\* The execution lock of the key is held from the start to the unlock.
ExecFree ==
  \A t \in Msgs : task[t].pc \notin {"exec", "recheck", "claim", "deliver", "unlock"}

RunBegin(t) ==
  /\ t \in Msgs /\ task[t].pc = "start" /\ ExecFree
  /\ Step(t, [task[t] EXCEPT !.pc = "exec"])
  /\ UNCHANGED <<active, draining, msg, control, guide, stop, fate, cards, issued>>

\* OnTurnStarted, OnTurnSteered: from now on the turn can be controlled remotely.
TurnStarted(t) ==
  /\ InProcessCodex(t) /\ task[t].pc = "exec" /\ ~task[t].turn
  /\ Step(t, [task[t] EXCEPT !.turn = TRUE])
  /\ UNCHANGED <<active, draining, msg, control, guide, stop, fate, cards, issued>>

\* The stream of the turn breaks: executeCodexAgentTurn looks the turn up in the
\* rollout of its thread.
TurnInterrupted(t) ==
  /\ InProcessCodex(t) /\ task[t].pc = "exec" /\ task[t].turn
  /\ Step(t, [MarkDisconnected(task[t]) EXCEPT !.pc = "recheck"])
  /\ UNCHANGED <<active, draining, msg, control, guide, stop, fate, cards, issued>>

\* finishAgentTaskLifecycle up to the claim: the outcome is decided.
RunReturns(t) ==
  /\ t \in Msgs /\ task[t].pc \in {"exec", "recheck"}
  /\ \E result \in {"ok", "error", "halt"} :
       Step(t, [task[t] EXCEPT !.pc = "claim", !.verdict = Verdict(task[t], result)])
  /\ UNCHANGED <<active, draining, msg, control, guide, stop, fate, cards, issued>>

\* ErrCodexObserverDetached: the turn goes on without this process.
RunDetaches(t) ==
  /\ t \in Msgs /\ task[t].pc = "exec" /\ ~task[t].observed
  /\ FinishActive(t, [task[t] EXCEPT !.pc = "unlock"])
  /\ UNCHANGED <<draining, msg, control, guide, stop, fate, cards, issued>>

\* claimActiveTaskTerminal
Claims(t) == active = t /\ ~task[t].detached /\ task[t].phase # "terminal"

Claim(t) ==
  /\ task[t].pc = "claim"
  /\ IF Claims(t)
     THEN Step(t, [ClaimTerminal(task[t]) EXCEPT !.pc = "deliver"])
     ELSE IF t \in Msgs THEN Step(t, [task[t] EXCEPT !.pc = "unlock"]) ELSE Stops(t)
  /\ UNCHANGED <<active, draining, msg, control, guide, stop, fate, cards, issued>>

\* finishAndSendProgressReply
Deliver(t) ==
  /\ task[t].pc = "deliver"
  /\ Step(t, [task[t] EXCEPT !.pc = IF t \in Msgs THEN "unlock" ELSE "complete"])
  /\ UNCHANGED <<active, draining, msg, control, guide, stop, fate, cards, issued>>

Unlock(t) ==
  /\ task[t].pc = "unlock"
  /\ Step(t, [task[t] EXCEPT !.pc = "complete"])
  /\ UNCHANGED <<active, draining, msg, control, guide, stop, fate, cards, issued>>

\* completeAgentTaskLifecycle; the last step of an observation.
Complete(t) ==
  /\ task[t].pc = "complete"
  /\ Promote(t, task[t])
  /\ UNCHANGED <<draining, control, guide, stop, fate, cards, issued>>

-----------------------------------------------------------------------------
(* The observation of an external turn (codex_external_task*.go).          *)

\* reserveExternalCodexTask; an equal reservation is reused as it is.
Reserve(x) ==
  /\ x \in Watches /\ Agent = "codex" /\ task[x].pc = "idle"
  /\ ~draining /\ active = NoTask
  /\ \E controllable \in BOOLEAN : Step(x, Reservation(controllable))
  /\ active' = x
  /\ UNCHANGED <<draining, msg, control, guide, stop, fate, cards, issued>>

\* claimExternalCodexTaskReservationActivation
Activate(x) ==
  /\ task[x].pc = "reserved" /\ active = x /\ task[x].phase = "reserved"
  /\ Step(x, [task[x] EXCEPT !.phase = "running", !.pc = "watch"])
  /\ UNCHANGED <<active, draining, msg, control, guide, stop, fate, cards, issued>>

\* The handle of a reservation that was canceled or whose task was released.
ActivateFails(x) ==
  /\ task[x].pc = "reserved" /\ (active # x \/ task[x].phase # "reserved")
  /\ Stops(x)
  /\ UNCHANGED <<active, draining, msg, control, guide, stop, fate, cards, issued>>

\* cancelReservedExternalCodexTask: the cursor of the follower was not written.
CancelReservation(x) ==
  /\ "reservation" \in Faults
  /\ task[x].pc = "reserved" /\ active = x /\ task[x].phase = "reserved"
  /\ Step(x, Retired(Closed(ClaimTerminal(task[x]))))
  /\ active' = NoTask
  /\ UNCHANGED <<draining, msg, control, guide, stop, fate, cards, issued>>

ObserverReady(x) ==
  /\ x \in Watches /\ task[x].pc = "watch" /\ ~task[x].ready
  /\ Step(x, [task[x] EXCEPT !.ready = TRUE])
  /\ UNCHANGED <<active, draining, msg, control, guide, stop, fate, cards, issued>>

\* The attachment changed meanwhile, or the stream ended before it was ready.
ObserverNotReady(x) ==
  /\ "observer" \in Faults
  /\ x \in Watches /\ task[x].pc = "watch" /\ ~task[x].ready
  /\ FinishActive(x, [task[x] EXCEPT !.pc = "end"])
  /\ UNCHANGED <<draining, msg, control, guide, stop, fate, cards, issued>>

\* The stream of a ready observer breaks: it follows the rollout,
Disconnect(x) ==
  /\ x \in Watches /\ task[x].pc = "watch" /\ task[x].ready /\ task[x].phase = "running"
  /\ Step(x, MarkDisconnected(task[x]))
  /\ UNCHANGED <<active, draining, msg, control, guide, stop, fate, cards, issued>>

\* until the host, asked under the control lock, knows the turn again.
Reconnect(x) ==
  /\ x \in Watches /\ task[x].pc = "watch" /\ task[x].phase = "disconnected" /\ ControlFree
  /\ \E runtime \in {"weclaw", "desktop"} : Step(x, MarkRunning(task[x], runtime))
  /\ UNCHANGED <<active, draining, msg, control, guide, stop, fate, cards, issued>>

\* The turn reached its end; what the host confirmed is first reconciled.
WatchReturns(x) ==
  /\ x \in Watches /\ task[x].pc = "watch"
  /\ \E result \in {"ok", "error", "halt"}, confirmed \in BOOLEAN :
       /\ confirmed \/ result = "error"
       /\ Step(x, [task[x] EXCEPT
                     !.verdict = Verdict(task[x], result),
                     !.pc = IF confirmed /\ task[x].control THEN "reconcile" ELSE "claim"])
  /\ UNCHANGED <<active, draining, msg, control, guide, stop, fate, cards, issued>>

\* The context was canceled: before it was ready, or for a drain, the observer
\* leaves the task; on request the task is stopped; otherwise nobody observes it.
WatchCanceled(x) ==
  /\ x \in Watches /\ task[x].pc = "watch" /\ task[x].canceled
  /\ IF task[x].preserve \/ ~task[x].ready
     THEN FinishActive(x, [task[x] EXCEPT !.pc = "end"])
     ELSE /\ IF task[x].phase = "stopping"
             THEN Step(x, [task[x] EXCEPT !.pc = "claim", !.verdict = "stopped"])
             ELSE Stops(x)
          /\ UNCHANGED active
  /\ UNCHANGED <<draining, msg, control, guide, stop, fate, cards, issued>>

\* reconcileExternalCodexTerminal, under the control lock; a conflict is a failure.
Reconcile(x) ==
  /\ task[x].pc = "reconcile" /\ ControlFree
  /\ \/ Step(x, [task[x] EXCEPT !.pc = "claim"])
     \/ Step(x, [task[x] EXCEPT !.pc = "claim", !.verdict = "failed"])
  /\ UNCHANGED <<active, draining, msg, control, guide, stop, fate, cards, issued>>

ReconcileTimesOut(x) ==
  /\ task[x].pc = "reconcile" /\ ~ControlFree
  /\ Step(x, [task[x] EXCEPT !.pc = "claim"])
  /\ UNCHANGED <<active, draining, msg, control, guide, stop, fate, cards, issued>>

-----------------------------------------------------------------------------
(* Settings of a Claude session (setCurrentClaudeSessionSetting).          *)

SettingsBegin(s) ==
  /\ s \in Settings /\ Agent = "claude" /\ task[s].pc = "idle"
  /\ \A r \in Settings : task[r].pc # "exec"
  /\ ~draining /\ active = NoTask
  /\ Step(s, [NewTask EXCEPT !.pc = "exec"])
  /\ active' = s
  /\ UNCHANGED <<draining, msg, control, guide, stop, fate, cards, issued>>

SettingsEnd(s) ==
  /\ s \in Settings /\ task[s].pc = "exec"
  /\ FinishActive(s, [task[s] EXCEPT !.pc = "end"])
  /\ UNCHANGED <<draining, msg, control, guide, stop, fate, cards, issued>>

-----------------------------------------------------------------------------
(* /guide, /cancel and /stop, typed or chosen on a control card.           *)

\* matchesPendingTaskControlLocked that only compares the task.
MatchesTask(card, t) == card = NoCard \/ card.task = t

\* matchesPendingTaskControlLocked: task, revision and fingerprint.
Matches(card, t) ==
  card = NoCard \/ (card.task = t /\ card.msg = task[t].pending)

\* A card acts on its message, a typed command on whichever is queued.
ActedOn(card, m) == Became(m, IF card \in {NoCard, [card EXCEPT !.msg = m]} THEN {} ELSE {"astray"})

\* clearPendingGuideExpected
Cancel(card) ==
  /\ Issue
  /\ active # NoTask /\ Matches(card, active)
  /\ task[active].pending # NoMsg
  /\ LET m == task[active].pending IN
     /\ Step(active, ClearPending(task[active]))
     /\ msg' = IF msg[m].pc = "queued" THEN [msg EXCEPT ![m] = At("end", NoTask)] ELSE msg
     /\ ActedOn(card, m)
  /\ UNCHANGED <<active, draining, control, guide, stop, cards>>

\* /guide and /stop act on the task itself when its turn is not known.  They look in
\* one critical section and act in the next, on whatever is active by then.
ActsLocally(late) ==
  active # NoTask /\ (~task[active].turn \/ late \in Faults)

\* detachPendingGuideExpected: stop the run, and send the message when it ended.
GuideLocal(card) ==
  /\ Issue
  /\ Agent = "codex" /\ ActsLocally("lateGuide")
  /\ Matches(card, active) /\ task[active].pending # NoMsg
  /\ LET m == task[active].pending IN
     /\ Step(active, [ClearPending(task[active]) EXCEPT !.detached = TRUE, !.canceled = TRUE])
     /\ msg' = [msg EXCEPT ![m] = At("guideWait", active)]
     /\ ActedOn(card, m)
  /\ UNCHANGED <<active, draining, control, guide, stop, cards>>

GuideResend(m) ==
  /\ msg[m].pc = "guideWait" /\ task[msg[m].at].closes > 0
  /\ msg' = [msg EXCEPT ![m] = At("submit", NoTask)]
  /\ UNCHANGED <<task, active, draining, control, guide, stop, fate, cards, issued>>

\* The context of the command ended first.
GuideAbandoned(m) ==
  /\ msg[m].pc = "guideWait"
  /\ Leaves(m, {})
  /\ UNCHANGED <<task, active, draining, control, guide, stop, cards, issued>>

\* resolveExternalCodexControlLocked, under the control lock
GuideResolve ==
  /\ Issue
  /\ Agent = "codex" /\ active # NoTask /\ ControlFree
  /\ CanResolve(active, task[active])
  /\ guide' = [GuideIdle EXCEPT !.pc = "resolved"]
  /\ \E runtime \in {"weclaw", "desktop"} :
       Step(active, RefreshTurn(task[active], runtime))
  /\ UNCHANGED <<active, draining, msg, control, stop, fate, cards>>

\* takeExternalCodexGuideExpected, of the task that is active by now
GuideTake(card) ==
  /\ guide.pc = "resolved"
  /\ active # NoTask /\ Matches(card, active) /\ CanControl(task[active])
  /\ task[active].pending # NoMsg /\ ~task[active].pendingSteering
  /\ LET m == task[active].pending IN
     /\ Step(active, TakeGuide(task[active]))
     /\ msg' = [msg EXCEPT ![m] = At("steering", active)]
     /\ guide' = [pc |-> "sending", task |-> active, msg |-> m]
     /\ ActedOn(card, m)
  /\ UNCHANGED <<active, draining, control, stop, cards, issued>>

GuideFails ==
  /\ guide.pc = "resolved"
  /\ guide' = GuideIdle
  /\ UNCHANGED <<task, active, draining, msg, control, stop, fate, cards, issued>>

\* The submission was attempted: whatever the answer, it is never queued again.
GuideDone ==
  /\ guide.pc = "sending"
  /\ Step(guide.task, FinishGuide(task[guide.task]))
  /\ \E what \in {{"steered"}, {}} : Became(guide.msg, what)
  /\ msg' = IF msg[guide.msg].pc = "steering"
            THEN [msg EXCEPT ![guide.msg] = At("end", NoTask)] ELSE msg
  /\ guide' = GuideIdle
  /\ UNCHANGED <<active, draining, control, stop, cards, issued>>

MarksAsked(k, card, t) == [k EXCEPT !.asked = @ \/ card = NoCard \/ card.task = t]

\* cancelActiveTaskExpected
StopLocal(card) ==
  /\ Issue
  /\ ActsLocally("lateStop") /\ Matches(card, active)
  /\ ~StopRefused(task[active])
  /\ Step(active, MarksAsked(BeginLocalStop(task[active]), card, active))
  /\ UNCHANGED <<active, draining, msg, control, guide, stop, fate, cards>>

\* interruptExternalCodexTask: find the turn under the control lock,
StopResolve ==
  /\ Issue
  /\ stop = StopIdle /\ Agent = "codex" /\ active # NoTask /\ ControlFree
  /\ CanResolve(active, task[active])
  /\ Step(active, RefreshTurn(task[active], "weclaw"))
  /\ stop' = [pc |-> "resolved", task |-> active]
  /\ UNCHANGED <<active, draining, msg, control, guide, fate, cards>>

\* register the intent,
StopBegin(card) ==
  /\ stop.pc = "resolved" /\ Matches(card, stop.task)
  /\ ~StopRefused(task[stop.task])
  /\ Step(stop.task, MarksAsked(BeginRemoteStop(task[stop.task]), card, stop.task))
  /\ stop' = [stop EXCEPT !.pc = "asking"]
  /\ UNCHANGED <<active, draining, msg, control, guide, fate, cards, issued>>

StopGivesUp ==
  /\ stop.pc = "resolved"
  /\ stop' = StopIdle
  /\ UNCHANGED <<task, active, draining, msg, control, guide, fate, cards, issued>>

\* interrupt the turn, which from then on may end at any time,
StopInterrupts ==
  /\ stop.pc = "asking"
  /\ Step(stop.task, [task[stop.task] EXCEPT !.cut = task[stop.task].verdict = "none"])
  /\ stop' = [stop EXCEPT !.pc = "accepted"]
  /\ UNCHANGED <<active, draining, msg, control, guide, fate, cards, issued>>

StopRejected ==
  /\ stop.pc = "asking"
  /\ Step(stop.task, RollbackRemoteStop(task[stop.task]))
  /\ stop' = StopIdle
  /\ UNCHANGED <<active, draining, msg, control, guide, fate, cards, issued>>

\* and let the stop stand unless the task has ended.
StopCommit ==
  /\ stop.pc = "accepted"
  /\ Step(stop.task, CommitRemoteStop(task[stop.task]))
  /\ stop' = StopIdle
  /\ UNCHANGED <<active, draining, msg, control, guide, fate, cards, issued>>

-----------------------------------------------------------------------------
(* Release of the window, and drain.                                       *)

\* The pending message goes with its task, unless a guide is sending it.
DropQueued(k) ==
  LET m == k.pending IN
  IF m # NoMsg /\ msg[m].pc = "queued"
  THEN Leaves(m, {})
  ELSE UNCHANGED <<msg, fate>>

\* detachCodexFrontendTaskWithOptions
Release ==
  /\ Issue
  /\ Agent = "codex" /\ active # NoTask /\ task[active].phase # "terminal"
  /\ LET k == task[active] IN
     /\ Step(active, Closed([k EXCEPT
          !.detached = TRUE, !.pending = NoMsg, !.pendingSteering = FALSE,
          !.canceled = @ \/ active \in Watches,
          !.observed = @ /\ active \in Watches,
          !.released = TRUE]))
     /\ DropQueued(k)
  /\ active' = NoTask
  /\ UNCHANGED <<draining, control, guide, stop, cards>>

\* Drain without force.  It opens the entry also when another drain closed it.
DrainRefused ==
  /\ Issue
  /\ active # NoTask /\ Running(task[active])
  /\ draining => "reopen" \in Faults
  /\ draining' = FALSE
  /\ UNCHANGED <<task, active, msg, control, guide, stop, fate, cards>>

DrainIdle ==
  /\ Issue
  /\ active # NoTask => ~Running(task[active])
  /\ draining' = TRUE
  /\ UNCHANGED <<task, active, msg, control, guide, stop, fate, cards>>

\* A forced drain that cancels the observer as it cancels everything else.
DrainedWithoutPreserve(t, k) == [k EXCEPT !.pending = NoMsg, !.canceled = TRUE]

\* What a forced drain does to a task: the observer of a Codex turn lets go of
\* it, everything else is stopped.
DrainedTask(t, k) ==
  IF Agent = "codex"
  THEN [k EXCEPT !.preserve = TRUE, !.pending = NoMsg,
                 !.canceled = @ \/ t \in Watches, !.observed = @ /\ t \in Watches]
  ELSE [k EXCEPT !.phase = "stopping", !.stopRequested = TRUE, !.pending = NoMsg,
                 !.canceled = TRUE, !.asked = TRUE]

DrainForce ==
  /\ Issue
  /\ active # NoTask /\ Running(task[active])
  /\ draining' = TRUE
  /\ Step(active, DrainedTask(active, task[active]))
  /\ DropQueued(task[active])
  /\ UNCHANGED <<active, control, guide, stop, cards>>

\* CancelDrain: the restart that the drain was for failed.
CancelDrain ==
  /\ draining
  /\ active # NoTask => "reopen" \in Faults
  /\ draining' = FALSE
  /\ UNCHANGED <<task, active, msg, control, guide, stop, fate, cards, issued>>

-----------------------------------------------------------------------------
(* The specification.                                                      *)

SubmitStep(m) ==
  SteerBegin(m) \/ AdmitRefused(m) \/ AdmitStarts(m) \/ AdmitQueues(m)

MsgStep(m) ==
  \/ Send(m) \/ Refuse(m) \/ SubmitStep(m) \/ SteerReturns(m)
  \/ AwaitDone(m) \/ AwaitTimesOut(m) \/ GuideResend(m) \/ GuideAbandoned(m)

\* What a goroutine of a task does of its own accord.
Progresses(t) ==
  \/ RunBegin(t) \/ RunReturns(t) \/ Claim(t) \/ Deliver(t) \/ Unlock(t) \/ Complete(t)
  \/ Activate(t) \/ ActivateFails(t) \/ WatchReturns(t)
  \/ Reconcile(t) \/ ReconcileTimesOut(t) \/ SettingsEnd(t)

TaskStep(t) ==
  \/ Progresses(t)
  \/ TurnStarted(t) \/ TurnInterrupted(t) \/ RunDetaches(t)
  \/ Reserve(t) \/ CancelReservation(t) \/ ObserverReady(t) \/ ObserverNotReady(t)
  \/ Disconnect(t) \/ Reconnect(t) \/ WatchCanceled(t) \/ SettingsBegin(t)

CardStep(card) ==
  Cancel(card) \/ GuideLocal(card) \/ GuideTake(card) \/ StopLocal(card) \/ StopBegin(card)

Command ==
  \/ GuideResolve \/ GuideFails \/ GuideDone
  \/ StopResolve \/ StopGivesUp \/ StopInterrupts \/ StopRejected \/ StopCommit
  \/ Release \/ DrainRefused \/ DrainIdle \/ DrainForce \/ CancelDrain

Next ==
  \/ \E m \in Msgs : MsgStep(m)
  \/ \E t \in Tasks : TaskStep(t)
  \/ \E card \in cards \cup {NoCard} : CardStep(card)
  \/ Command

Spec == Init /\ [][Next]_vars

\* Goroutines that can run do, calls to the host return because their contexts
\* have deadlines, and a submission that keeps waiting for the locks gets them.
\* That the turns end is contextWithTaskTimeout for a run, and an assumption about
\* the other client for an observation.
Fairness ==
  /\ \A t \in Tasks : WF_vars(Progresses(t))
  /\ \A m \in Msgs :
       /\ SF_vars(SubmitStep(m))
       /\ WF_vars(SteerReturns(m))
       /\ WF_vars(AwaitDone(m) \/ AwaitTimesOut(m))
       /\ WF_vars(GuideResend(m) \/ GuideAbandoned(m))
  /\ WF_vars(GuideFails \/ GuideDone)

FairSpec == Spec /\ Fairness

-----------------------------------------------------------------------------
(* Properties.                                                             *)

TaskTypeOK ==
  /\ task \in [Tasks -> Task]
  /\ active \in Tasks \cup {NoTask}
  /\ draining \in BOOLEAN
  /\ msg \in [Msgs -> [pc : MsgPcs, at : Tasks \cup {NoTask}]]
  /\ control \in Msgs \cup {NoMsg}
  /\ guide \in [pc : {"idle", "resolved", "sending"}, task : Tasks \cup {NoTask},
                msg : Msgs \cup {NoMsg}]
  /\ stop \in [pc : {"idle", "resolved", "asking", "accepted"}, task : Tasks \cup {NoTask}]
  /\ fate \in [Msgs -> SUBSET Fates]
  /\ cards \subseteq [task : Tasks, msg : Msgs]
  /\ issued \in 0..MaxCommands

\* The done channel of a task is closed when, and only when, the task leaves the
\* index, and never twice (a second close would panic): finishActiveTask,
\* finishClaimedActiveTask, claimAndCompleteActiveTask, the release of a window and
\* the cancellation of a reservation all race for it.
DoneClosedOnce ==
  \A t \in Tasks : task[t].pc # "idle" =>
    task[t].closes = IF active = t THEN 0 ELSE 1

\* A task in the index has a goroutine that will take it out, or a follower that
\* still has to activate it: no conversation is blocked by a task nobody runs.
ActiveHasRunner == active # NoTask => task[active].pc \notin {"idle", "end"}

\* A message that was told "queued, runs when the current task has ended" is in the
\* slot of the active task, from where the end of that task promotes it.
QueuedHasHome ==
  \A m \in Msgs : msg[m].pc = "queued" =>
    /\ active = msg[m].at
    /\ active # NoTask => task[active].pending = m

\* An input reaches the agent at most once: it is not run twice, and what was
\* steered into a turn is not run as well, whichever way the end of the task, a guide
\* in flight and a promotion interleave.
InputOnce ==
  \A m \in Msgs : "rerun" \notin fate[m] /\ ~({"run", "steered"} \subseteq fate[m])

\* A window that was released gets no final reply of the task it gave up, although the
\* goroutine of that task runs to its end.
ReleasedWindowSilent ==
  \A t \in Tasks : task[t].pc = "deliver" => ~task[t].released

\* A task that reached its terminal phase keeps it: the answer to a remote stop, a
\* reconnect or a drain that comes late does not reopen it.
TerminalStands ==
  [][\A t \in Tasks : task[t].phase = "terminal" => task'[t].phase = "terminal"]_vars

\* A task is reported as stopped only if somebody asked to stop that task; an
\* interruption for another reason is a failure.
StoppedOnlyIfAsked == \A t \in Tasks : task[t].verdict = "stopped" => task[t].asked

\* A control card acts on the message it was issued for and on no later one.
CardsActOnTheirMessage == \A m \in Msgs : "astray" \notin fate[m]

\* A turn that accepted the interrupt of a /stop, of which the user was told that the
\* stop was accepted, is not reported as a failure when it then ends interrupted.
StopReported ==
  \A t \in Tasks :
    task[t].cut /\ task[t].phase = "stopping" => task[t].verdict # "interrupted"

\* Every message that was sent is answered, run or refused in the end (startCodexAgentTask, startAgentTask), also when
\* the task that it waits for is the settings change of another window.
EveryInputSettles == \A m \in Msgs : msg[m].pc = "submit" ~> msg[m].pc = "end"

\* Nobody waits for nobody: an active task has a runner, and a queued message is in the slot its end will look into
\* (beginOrQueueActiveTask, finishActiveTask).  The end of a change of Claude settings looks into no slot: only the
\* binding lock, for the window that changes them, and the refusal of foreign writers, for the others, keep it empty.
NobodyForgotten == QueuedHasHome /\ ActiveHasRunner

\* What is over stays over, however its end, a stop, a release and a card pressed late interleave: done is closed once,
\* a released window hears nothing more, and a card acts on its own message only (finishActiveTask,
\* claimAndCompleteActiveTask, matchesPendingTaskControlLocked).
OverIsOver == DoneClosedOnce /\ ReleasedWindowSilent /\ CardsActOnTheirMessage
=============================================================================
