------------------------- MODULE TaskServiceSafety --------------------------
(***************************************************************************)
(* Types and safety of TaskService, for every set of messages,             *)
(* observations and settings changes, every combination of faults and      *)
(* every bound.                                                            *)
(***************************************************************************)
EXTENDS TaskService, TLAPS

--------------------
(* What the operators on tasks return.                                     *)

\* The builders of tasks return tasks.
LEMMA TaskBuilders ==
  /\ NewTask \in Task
  /\ Unused \in Task
  /\ \A k \in Task : Retired(k) \in Task
  /\ \A c \in BOOLEAN : Reservation(c) \in Task
<1>1. NewTask \in Task BY DEF NewTask, Task, Phases, Pcs
<1>2. Unused \in Task BY <1>1 DEF Unused, Task, Pcs
<1>3. ASSUME NEW k \in Task PROVE Retired(k) \in Task BY <1>2 DEF Retired, Task, Pcs
<1>4. ASSUME NEW c \in BOOLEAN PROVE Reservation(c) \in Task
  BY <1>1 DEF Reservation, Task, Phases, Pcs
<1> QED BY <1>1, <1>2, <1>3, <1>4

\* A step of the goroutine of a task keeps its type.
LEMMA GoroutineUpdates ==
  ASSUME NEW k \in Task
  PROVE  /\ \A pc \in Pcs : [k EXCEPT !.pc = pc] \in Task
         /\ Closed(k) \in Task
         /\ Ended(k) \in Task
         /\ ClaimTerminal(k) \in Task
         /\ MarkDisconnected(k) \in Task
         /\ \A r \in {"weclaw", "desktop"} : MarkRunning(k, r) \in Task
         /\ \A r \in {"ok", "error", "halt"}, pc \in Pcs :
              [k EXCEPT !.pc = pc, !.verdict = Verdict(k, r)] \in Task
<1>1. ASSUME NEW pc \in Pcs PROVE [k EXCEPT !.pc = pc] \in Task BY DEF Task
<1>2. Closed(k) \in Task BY DEF Closed, Task
<1>3. Ended(k) \in Task BY TaskBuilders DEF Ended
<1>4. ClaimTerminal(k) \in Task BY DEF ClaimTerminal, Task, Phases
<1>5. MarkDisconnected(k) \in Task
  <2>1. CASE Settled(k) BY <2>1 DEF MarkDisconnected
  <2>2. CASE ~Settled(k) BY <2>2 DEF MarkDisconnected, Task, Phases
  <2> QED BY <2>1, <2>2
<1>6. ASSUME NEW r \in {"weclaw", "desktop"} PROVE MarkRunning(k, r) \in Task
  <2>1. CASE Settled(k) BY <2>1 DEF MarkRunning
  <2>2. CASE ~Settled(k) BY <2>2 DEF MarkRunning, Task, Phases
  <2> QED BY <2>1, <2>2
<1>7. ASSUME NEW r \in {"ok", "error", "halt"}, NEW pc \in Pcs
      PROVE  [k EXCEPT !.pc = pc, !.verdict = Verdict(k, r)] \in Task
  BY DEF Verdict, Task
<1> QED BY <1>1, <1>2, <1>3, <1>4, <1>5, <1>6, <1>7

\* claimTerminal writes the phase and leaves the count of closed channels.
LEMMA ClaimFields ==
  ASSUME NEW k \in Task
  PROVE  ClaimTerminal(k) \in Task /\ ClaimTerminal(k).phase = "terminal"
         /\ ClaimTerminal(k).closes = k.closes
<1>1. ClaimTerminal(k) \in Task BY GoroutineUpdates
<1>2. ClaimTerminal(k).phase = "terminal" /\ ClaimTerminal(k).closes = k.closes
  BY DEF ClaimTerminal, Task
<1> QED BY <1>1, <1>2

\* What the commands do to a task keeps its type.
LEMMA CommandUpdates ==
  ASSUME NEW k \in Task
  PROVE  /\ \A m \in Msgs : QueuePending(k, m) \in Task
         /\ ClearPending(k) \in Task
         /\ TakeGuide(k) \in Task
         /\ FinishGuide(k) \in Task
         /\ \A r \in {"weclaw", "desktop"} : RefreshTurn(k, r) \in Task
         /\ BeginLocalStop(k) \in Task
         /\ BeginRemoteStop(k) \in Task
         /\ CommitRemoteStop(k) \in Task
         /\ RollbackRemoteStop(k) \in Task
         /\ \A card, t : MarksAsked(k, card, t) \in Task
         /\ \A t : DrainedTask(t, k) \in Task
<1>1. ASSUME NEW m \in Msgs PROVE QueuePending(k, m) \in Task BY DEF QueuePending, Task
<1>2. ClearPending(k) \in Task /\ TakeGuide(k) \in Task /\ FinishGuide(k) \in Task
  <2>1. [k EXCEPT !.pendingSteering = FALSE, !.pending = NoMsg] \in Task BY DEF Task
  <2>2. FinishGuide(k) \in Task BY <2>1 DEF FinishGuide
  <2> QED BY <2>2 DEF ClearPending, TakeGuide, Task
<1>3. ASSUME NEW r \in {"weclaw", "desktop"} PROVE RefreshTurn(k, r) \in Task
  <2>1. [k EXCEPT !.owner = r, !.turn = TRUE] \in Task BY DEF Task
  <2> QED BY <2>1 DEF RefreshTurn
<1>4. BeginLocalStop(k) \in Task /\ BeginRemoteStop(k) \in Task
      /\ RollbackRemoteStop(k) \in Task
  BY DEF BeginLocalStop, BeginRemoteStop, RollbackRemoteStop, Task, Phases
<1>5. CommitRemoteStop(k) \in Task BY DEF CommitRemoteStop, Task, Phases
<1>6. ASSUME NEW card, NEW t PROVE MarksAsked(k, card, t) \in Task
  BY DEF Task, MarksAsked
<1>7. ASSUME NEW t PROVE DrainedTask(t, k) \in Task
  <2> DEFINE c == k.canceled \/ t \in Watches
             o == k.observed /\ t \in Watches
  <2>1. c \in BOOLEAN /\ o \in BOOLEAN BY DEF Task
  <2>2. CASE Agent = "codex"
    <3>1. DrainedTask(t, k) = [k EXCEPT !.preserve = TRUE, !.pending = NoMsg,
                                        !.canceled = c, !.observed = o]
      BY <2>2 DEF DrainedTask
    <3> HIDE DEF c, o
    <3> QED BY <2>1, <3>1 DEF Task
  <2>3. CASE Agent # "codex" BY <2>3 DEF DrainedTask, Task, Phases
  <2> QED BY <2>2, <2>3
<1> QED BY <1>1, <1>2, <1>3, <1>4, <1>5, <1>6, <1>7

--------------------
(* What the building blocks of the actions do to the variables.            *)

\* A step of one task; of a name that is no task it changes nothing.
LEMMA StepType ==
  ASSUME TaskTypeOK, NEW t, NEW k, t \in Tasks => k \in Task, Step(t, k)
  PROVE  task' \in [Tasks -> Task]
BY DEF TaskTypeOK, Step

\* The end of a goroutine, with or without the removal of its task.
LEMMA EndType ==
  ASSUME TaskTypeOK, NEW t \in Tasks
  PROVE  /\ \A k \in Task : FinishActive(t, k) =>
              task' \in [Tasks -> Task] /\ active' \in Tasks \cup {NoTask}
         /\ Stops(t) => task' \in [Tasks -> Task]
         /\ \A k \in Task : Promote(t, k) =>
              /\ task' \in [Tasks -> Task] /\ active' \in Tasks \cup {NoTask}
              /\ msg' \in [Msgs -> [pc : MsgPcs, at : Tasks \cup {NoTask}]]
<1>1. ASSUME NEW k \in Task, FinishActive(t, k)
      PROVE  task' \in [Tasks -> Task] /\ active' \in Tasks \cup {NoTask}
  <2>1. k \in Task /\ Ended(k) \in Task /\ Ended(Closed(k)) \in Task BY GoroutineUpdates
  <2> QED BY <1>1, <2>1 DEF FinishActive, TaskTypeOK
<1>2. ASSUME Stops(t) PROVE task' \in [Tasks -> Task]
  BY GoroutineUpdates, TaskBuilders, <1>2 DEF TaskTypeOK, Pcs, Stops
<1>3. ASSUME NEW k \in Task, Promote(t, k)
      PROVE  /\ task' \in [Tasks -> Task] /\ active' \in Tasks \cup {NoTask}
             /\ msg' \in [Msgs -> [pc : MsgPcs, at : Tasks \cup {NoTask}]]
  BY GoroutineUpdates, TaskBuilders, <1>3 DEF Promote, TaskTypeOK, At, MsgPcs
<1> QED BY <1>1, <1>2, <1>3

\* A message moves, and something is noted about it.
LEMMA MessageType ==
  ASSUME TaskTypeOK, NEW m
  PROVE  /\ \A pc \in MsgPcs, t \in Tasks \cup {NoTask} :
              msg' = [msg EXCEPT ![m] = At(pc, t)]
              => msg' \in [Msgs -> [pc : MsgPcs, at : Tasks \cup {NoTask}]]
         /\ \A what \in SUBSET Fates :
              Became(m, what) => fate' \in [Msgs -> SUBSET Fates]
<1>1. ASSUME NEW pc \in MsgPcs, NEW t \in Tasks \cup {NoTask},
             msg' = [msg EXCEPT ![m] = At(pc, t)]
      PROVE  msg' \in [Msgs -> [pc : MsgPcs, at : Tasks \cup {NoTask}]]
  BY <1>1 DEF At, TaskTypeOK
<1>2. ASSUME NEW what \in SUBSET Fates, Became(m, what)
      PROVE  fate' \in [Msgs -> SUBSET Fates]
  BY <1>2 DEF Became, TaskTypeOK
<1> QED BY <1>1, <1>2

\* A message that leaves keeps what is known of it.
LEMMA LeaveType ==
  ASSUME TaskTypeOK, NEW m, NEW what \in SUBSET Fates, Leaves(m, what)
  PROVE  /\ msg' \in [Msgs -> [pc : MsgPcs, at : Tasks \cup {NoTask}]]
         /\ fate' \in [Msgs -> SUBSET Fates]
<1>1. "end" \in MsgPcs BY DEF MsgPcs
<1> QED BY <1>1, MessageType DEF Leaves

--------------------
(* The actions.                                                            *)

\* The fates and positions that the actions name.
LEMMA Names ==
  /\ {"new", "submit", "preflight", "await", "admit", "queued", "steering",
      "guideWait", "running", "end"} = MsgPcs
  /\ {"run", "rerun", "steered", "astray"} = Fates
  /\ {"idle", "reserved", "start", "exec", "recheck", "watch", "reconcile",
      "claim", "deliver", "unlock", "complete", "end"} = Pcs
BY DEF MsgPcs, Fates, Pcs

\* The steps of a submission.
LEMMA TypeMsg ==
  ASSUME TaskTypeOK, NEW m \in Msgs, MsgStep(m)
  PROVE  TaskTypeOK'
<1>0. msg[m] \in [pc : MsgPcs, at : Tasks \cup {NoTask}] /\ m \in Tasks
  BY DEF TaskTypeOK, Tasks
<1>1. CASE Send(m) BY <1>1, MessageType, Names DEF Send, TaskTypeOK
<1>2. CASE Refuse(m) BY <1>2, LeaveType DEF Refuse, TaskTypeOK
<1>3. CASE SteerBegin(m) BY Names, <1>3, MessageType DEF TaskTypeOK, SteerBegin
<1>4. CASE AdmitRefused(m) BY <1>4, LeaveType DEF AdmitRefused, Unlocked, TaskTypeOK
<1>5. CASE AdmitStarts(m)
  BY <1>5, TaskBuilders, Names, MessageType, <1>0 DEF AdmitStarts, Unlocked, TaskTypeOK
<1>6. CASE AdmitQueues(m)
  <2>1. control' \in Msgs \cup {NoMsg} BY <1>6 DEF AdmitQueues, Unlocked, TaskTypeOK
  <2>2. active \in Tasks /\ task[active] \in Task
    BY <1>6 DEF AdmitQueues, CanQueue, TaskTypeOK
  <2>3. task' \in [Tasks -> Task]
    BY <1>6, <2>2, CommandUpdates DEF AdmitQueues, TaskTypeOK
  <2>4. msg' \in [Msgs -> [pc : MsgPcs, at : Tasks \cup {NoTask}]]
    BY <1>6, <2>2, MessageType, Names DEF AdmitQueues
  <2>5. cards' \subseteq [task : Tasks, msg : Msgs]
    BY <1>6, <2>2 DEF AdmitQueues, CardsFor, TaskTypeOK
  <2> QED BY <1>6, <2>1, <2>3, <2>4, <2>5 DEF AdmitQueues, TaskTypeOK
<1>7. CASE SteerReturns(m)
  <2>1. CASE Leaves(m, {"steered"}) /\ control' = NoMsg
             /\ Step(msg[m].at, [task[msg[m].at] EXCEPT !.turn = TRUE])
    <3>1. {"steered"} \in SUBSET Fates BY Names
    <3>2. ASSUME msg[m].at \in Tasks PROVE [task[msg[m].at] EXCEPT !.turn = TRUE] \in Task
      <4>1. task[msg[m].at] \in Task BY <3>2 DEF TaskTypeOK
      <4> QED BY <4>1 DEF Task
    <3>3. task' \in [Tasks -> Task] BY <2>1, <3>2, StepType
    <3> QED BY <1>7, <2>1, <3>1, <3>3, LeaveType DEF SteerReturns, TaskTypeOK
  <2>2. CASE Leaves(m, {}) /\ control' = NoMsg /\ UNCHANGED task
    BY <1>7, <2>2, LeaveType DEF SteerReturns, TaskTypeOK
  <2>3. CASE msg' = [msg EXCEPT ![m].pc = "await"] /\ UNCHANGED <<task, fate, control>>
    BY <1>7, <2>3, Names DEF SteerReturns, TaskTypeOK
  <2> QED BY <1>7, <2>1, <2>2, <2>3 DEF SteerReturns
<1>8. CASE AwaitDone(m) BY <1>8, MessageType, Names DEF AwaitDone, TaskTypeOK
<1>9. CASE AwaitTimesOut(m) BY <1>9, LeaveType DEF AwaitTimesOut, TaskTypeOK
<1>10. CASE GuideResend(m) BY <1>10, MessageType, Names DEF GuideResend, TaskTypeOK
<1>11. CASE GuideAbandoned(m) BY <1>11, LeaveType DEF GuideAbandoned, TaskTypeOK
<1> QED
  BY <1>1, <1>2, <1>3, <1>4, <1>5, <1>6, <1>7, <1>8, <1>9, <1>10, <1>11
  DEF MsgStep, SubmitStep

\* The steps of the goroutine of a task that write that task only.
LEMMA TypeOneTask ==
  ASSUME TaskTypeOK, NEW t \in Tasks, NEW k \in Task, Step(t, k),
         UNCHANGED <<active, draining, msg, control, guide, stop, fate, cards, issued>>
  PROVE  TaskTypeOK'
BY StepType DEF TaskTypeOK

\* The steps of the goroutine of a task.
LEMMA TypeTask ==
  ASSUME TaskTypeOK, NEW t \in Tasks, TaskStep(t)
  PROVE  TaskTypeOK'
<1>0. task[t] \in Task BY DEF TaskTypeOK
<1>1. \A pc \in Pcs : [task[t] EXCEPT !.pc = pc] \in Task BY <1>0, GoroutineUpdates
<1>2. CASE RunBegin(t) BY <1>1, <1>2, TypeOneTask, Names DEF RunBegin
<1>3. CASE RunReturns(t)
  BY <1>0, <1>3, GoroutineUpdates, TypeOneTask, Names DEF RunReturns
<1>4. CASE Claim(t)
  <2>1. [ClaimTerminal(task[t]) EXCEPT !.pc = "deliver"] \in Task
    BY <1>0, GoroutineUpdates, Names
  <2>2. CASE Claims(t) BY <1>4, <2>1, <2>2, TypeOneTask DEF Claim
  <2>3. CASE ~Claims(t) /\ t \in Msgs BY <1>1, <1>4, <2>3, TypeOneTask, Names DEF Claim
  <2>4. CASE ~Claims(t) /\ t \notin Msgs BY <1>4, <2>4, EndType DEF Claim, TaskTypeOK
  <2> QED BY <2>2, <2>3, <2>4
<1>5. CASE Deliver(t) BY <1>1, <1>5, TypeOneTask, Names DEF Deliver
<1>6. CASE Unlock(t) BY <1>1, <1>6, TypeOneTask, Names DEF Unlock
<1>7. CASE Complete(t) BY <1>0, <1>7, EndType DEF Complete, TaskTypeOK
<1>8. CASE Activate(t) BY <1>0, <1>8, TypeOneTask DEF Task, Phases, Pcs, Activate
<1>9. CASE ActivateFails(t) BY <1>9, EndType DEF ActivateFails, TaskTypeOK
<1>10. CASE WatchReturns(t)
  <2>1. PICK r \in {"ok", "error", "halt"}, c \in BOOLEAN :
          Step(t, [task[t] EXCEPT !.verdict = Verdict(task[t], r),
                     !.pc = IF c /\ task[t].control THEN "reconcile" ELSE "claim"])
    BY <1>10 DEF WatchReturns
  <2>2. ASSUME NEW pc \in Pcs
        PROVE  [task[t] EXCEPT !.verdict = Verdict(task[t], r), !.pc = pc] \in Task
    BY <1>0 DEF Verdict, Task
  <2> QED BY <1>10, <2>1, <2>2, TypeOneTask, Names DEF WatchReturns
<1>11. CASE Reconcile(t)
  <2>1. [task[t] EXCEPT !.pc = "claim", !.verdict = "failed"] \in Task
    BY <1>0, Names DEF Task
  <2> QED BY <1>1, <1>11, <2>1, TypeOneTask, Names DEF Reconcile
<1>12. CASE ReconcileTimesOut(t)
  BY <1>1, <1>12, TypeOneTask, Names DEF ReconcileTimesOut
<1>13. CASE SettingsEnd(t) BY <1>1, Names, <1>13, EndType DEF SettingsEnd, TaskTypeOK
<1>14. CASE TurnStarted(t) BY <1>0, <1>14, TypeOneTask DEF Task, TurnStarted
<1>15. CASE TurnInterrupted(t)
  BY <1>0, GoroutineUpdates, Names, <1>15, TypeOneTask DEF TurnInterrupted
<1>16. CASE RunDetaches(t) BY <1>1, Names, <1>16, EndType DEF RunDetaches, TaskTypeOK
<1>17. CASE Reserve(t) BY <1>17, StepType, TaskBuilders DEF Reserve, TaskTypeOK
<1>18. CASE CancelReservation(t)
  BY <1>0, GoroutineUpdates, TaskBuilders, <1>18, StepType DEF CancelReservation, TaskTypeOK
<1>19. CASE ObserverReady(t) BY <1>0, <1>19, TypeOneTask DEF Task, ObserverReady
<1>20. CASE ObserverNotReady(t)
  BY <1>1, Names, <1>20, EndType DEF ObserverNotReady, TaskTypeOK
<1>21. CASE Disconnect(t) BY <1>0, <1>21, GoroutineUpdates, TypeOneTask DEF Disconnect
<1>22. CASE Reconnect(t) BY <1>0, <1>22, GoroutineUpdates, TypeOneTask DEF Reconnect
<1>23. CASE WatchCanceled(t)
  <2>1. [task[t] EXCEPT !.pc = "end"] \in Task BY <1>1, Names
  <2>2. [task[t] EXCEPT !.pc = "claim", !.verdict = "stopped"] \in Task
    BY <1>0, Names DEF Task
  <2>3. CASE task[t].preserve \/ ~task[t].ready
    BY <1>23, <2>1, <2>3, EndType DEF WatchCanceled, TaskTypeOK
  <2>4. CASE ~(task[t].preserve \/ ~task[t].ready) /\ task[t].phase = "stopping"
    BY <1>23, <2>2, <2>4, TypeOneTask DEF WatchCanceled
  <2>5. CASE ~(task[t].preserve \/ ~task[t].ready) /\ task[t].phase # "stopping"
    BY <1>23, <2>5, EndType DEF WatchCanceled, TaskTypeOK
  <2> QED BY <2>3, <2>4, <2>5
<1>24. CASE SettingsBegin(t)
  BY TaskBuilders, GoroutineUpdates, Names, <1>24, StepType DEF SettingsBegin, TaskTypeOK
<1> QED BY <1>2, <1>3, <1>4, <1>5, <1>6, <1>7, <1>8, <1>9, <1>10, <1>11, <1>12, <1>13, <1>14,
     <1>15, <1>16, <1>17, <1>18, <1>19, <1>20, <1>21, <1>22, <1>23, <1>24
  DEF TaskStep, Progresses

\* A command was counted.
LEMMA IssueType == ASSUME TaskTypeOK, Issue PROVE issued' \in 0 .. MaxCommands
BY FaultsKnown DEF Issue, TaskTypeOK

\* The commands that a card or a typed command starts or continues.
LEMMA TypeCard ==
  ASSUME TaskTypeOK, NEW card, CardStep(card)
  PROVE  TaskTypeOK'
<1>0. \A t \in Tasks : task[t] \in Task BY DEF TaskTypeOK
<1>1. \A m : ActedOn(card, m) => fate' \in [Msgs -> SUBSET Fates]
  BY Names, MessageType DEF ActedOn
<1>2. active # NoTask => active \in Tasks BY DEF TaskTypeOK
<1>3. CASE Cancel(card)
  BY <1>0, <1>2, <1>3, CommandUpdates, StepType, Names, MessageType, <1>1, IssueType DEF Cancel, TaskTypeOK
<1>4. CASE GuideLocal(card)
  <2>1. active \in Tasks BY <1>2, <1>4 DEF GuideLocal, ActsLocally
  <2>2. [ClearPending(task[active]) EXCEPT !.detached = TRUE, !.canceled = TRUE] \in Task
    <3>1. ClearPending(task[active]) \in Task BY <1>0, <2>1, CommandUpdates
    <3> HIDE DEF ClearPending
    <3> QED BY <3>1 DEF Task
  <2>3. task' \in [Tasks -> Task] BY <1>4, <2>2, StepType DEF GuideLocal
  <2>4. msg' \in [Msgs -> [pc : MsgPcs, at : Tasks \cup {NoTask}]]
    BY <1>4, <2>1, MessageType, Names DEF GuideLocal
  <2> QED BY <1>1, <1>4, <2>3, <2>4, IssueType DEF GuideLocal, TaskTypeOK
<1>5. CASE GuideTake(card)
  <2>1. active \in Tasks /\ task[active] \in Task BY <1>0, <1>2, <1>5 DEF GuideTake
  <2>2. task' \in [Tasks -> Task] BY <1>5, <2>1, CommandUpdates, StepType DEF GuideTake
  <2>3. msg' \in [Msgs -> [pc : MsgPcs, at : Tasks \cup {NoTask}]]
    BY <1>5, <2>1, MessageType, Names DEF GuideTake
  <2>4. task[active].pending \in Msgs BY <1>5, <2>1 DEF GuideTake, Task
  <2>5. guide' \in [pc : {"idle", "resolved", "sending"}, task : Tasks \cup {NoTask},
                   msg : Msgs \cup {NoMsg}]
    BY <1>5, <2>1, <2>4 DEF GuideTake
  <2> QED BY <1>1, <1>5, <2>2, <2>3, <2>5 DEF GuideTake, TaskTypeOK
<1>6. CASE StopLocal(card)
  BY <1>2, <1>6, <1>0, CommandUpdates, StepType, IssueType DEF StopLocal, ActsLocally, TaskTypeOK
<1>7. CASE StopBegin(card)
  BY <1>0, CommandUpdates, <1>7, StepType DEF StopBegin, TaskTypeOK
<1> QED BY <1>3, <1>4, <1>5, <1>6, <1>7 DEF CardStep

\* What a release or a drain does to the message of the task.
LEMMA DropType ==
  ASSUME TaskTypeOK, NEW k, DropQueued(k)
  PROVE  /\ msg' \in [Msgs -> [pc : MsgPcs, at : Tasks \cup {NoTask}]]
         /\ fate' \in [Msgs -> SUBSET Fates]
<1>1. CASE Leaves(k.pending, {}) BY <1>1, LeaveType
<1>2. CASE UNCHANGED <<msg, fate>> BY <1>2 DEF TaskTypeOK
<1> QED BY <1>1, <1>2 DEF DropQueued

\* The rest of the commands, the release and the drain.
LEMMA TypeCommand ==
  ASSUME TaskTypeOK, Command
  PROVE  TaskTypeOK'
<1>0. \A t \in Tasks : task[t] \in Task BY DEF TaskTypeOK
<1>1. active # NoTask => active \in Tasks BY DEF TaskTypeOK
<1>2. CASE GuideResolve
  BY <1>0, <1>1, <1>2, CommandUpdates, StepType, IssueType DEF GuideResolve, GuideIdle, TaskTypeOK
<1>3. CASE GuideFails BY <1>3 DEF GuideFails, GuideIdle, TaskTypeOK
<1>4. CASE GuideDone
  BY <1>0, <1>4, CommandUpdates, StepType, Names, MessageType DEF GuideDone, TaskTypeOK, GuideIdle
<1>5. CASE StopResolve
  BY <1>0, <1>1, <1>5, CommandUpdates, StepType, IssueType DEF StopResolve, TaskTypeOK
<1>6. CASE StopGivesUp BY <1>6 DEF StopGivesUp, StopIdle, TaskTypeOK
<1>7. CASE StopInterrupts
  <2>1. ASSUME stop.task \in Tasks
        PROVE  [task[stop.task] EXCEPT !.cut = task[stop.task].verdict = "none"] \in Task
    <3>1. (task[stop.task].verdict = "none") \in BOOLEAN /\ task[stop.task] \in Task
      BY <1>0, <2>1
    <3> QED BY <3>1 DEF Task
  <2>2. task' \in [Tasks -> Task] BY <1>7, <2>1, StepType DEF StopInterrupts
  <2> QED BY <1>7, <2>2 DEF StopInterrupts, TaskTypeOK
<1>8. CASE StopRejected
  BY <1>0, <1>8, CommandUpdates, StepType DEF StopRejected, StopIdle, TaskTypeOK
<1>9. CASE StopCommit
  BY <1>0, <1>9, CommandUpdates, StepType DEF StopCommit, StopIdle, TaskTypeOK
<1>10. CASE Release
  <2> DEFINE k == task[active]
             c == k.canceled \/ active \in Watches
             o == k.observed /\ active \in Watches
             r == [k EXCEPT !.detached = TRUE, !.pending = NoMsg,
                            !.pendingSteering = FALSE, !.canceled = c, !.observed = o,
                            !.released = TRUE]
  <2>1. k \in Task /\ c \in BOOLEAN /\ o \in BOOLEAN
    BY <1>0, <1>1, <1>10 DEF Release, Task
  <2>2. Step(active, Closed(r)) /\ DropQueued(k) BY <1>10 DEF Release
  <2> HIDE DEF c, o, k
  <2>3. r \in Task BY <2>1 DEF Task
  <2> HIDE DEF r
  <2>4. task' \in [Tasks -> Task] BY <2>2, <2>3, GoroutineUpdates, StepType
  <2> QED BY <1>10, <2>2, <2>4, DropType, IssueType DEF Release, TaskTypeOK
<1>11. CASE DrainRefused \/ DrainIdle \/ CancelDrain
  BY <1>11, IssueType DEF DrainRefused, DrainIdle, CancelDrain, TaskTypeOK
<1>12. CASE DrainForce
  BY <1>0, <1>1, <1>12, CommandUpdates, StepType, DropType, IssueType DEF DrainForce, TaskTypeOK
<1> QED BY <1>2, <1>3, <1>4, <1>5, <1>6, <1>7, <1>8, <1>9, <1>10, <1>11, <1>12 DEF Command

--------------------

\* The initial state is well typed.
LEMMA TaskTypeInit == Init => TaskTypeOK
<1> SUFFICES ASSUME Init PROVE TaskTypeOK OBVIOUS
<1>1. task \in [Tasks -> Task] BY TaskBuilders DEF Init
<1>2. msg \in [Msgs -> [pc : MsgPcs, at : Tasks \cup {NoTask}]] BY Names DEF Init, At
<1>3. fate \in [Msgs -> SUBSET Fates] BY DEF Init
<1>4. issued \in 0 .. MaxCommands BY FaultsKnown DEF Init
<1> QED BY <1>1, <1>2, <1>3, <1>4 DEF Init, GuideIdle, StopIdle, TaskTypeOK

\* Every step keeps the types.
LEMMA TaskTypeNext == TaskTypeOK /\ [Next]_vars => TaskTypeOK'
<1> SUFFICES ASSUME TaskTypeOK, [Next]_vars PROVE TaskTypeOK' OBVIOUS
<1>1. CASE UNCHANGED vars BY <1>1 DEF vars, TaskTypeOK
<1>2. CASE Next BY <1>2, TypeMsg, TypeTask, TypeCard, TypeCommand DEF Next
<1> QED BY <1>1, <1>2

\* Whatever messages, observations, commands and faults there are, a task keeps to
\* the phases, owners and verdicts of activeAgentTask, and the index, the locks and
\* the commands in flight name tasks and messages that exist.
THEOREM TaskTypeSafe == Spec => []TaskTypeOK
<1> QED BY TaskTypeInit, TaskTypeNext, PTL DEF Spec

--------------------
(* The inductive invariant.                                                *)

\* The task in the index was started.
ActiveKnown == active # NoTask => task[active].pc # "idle"

\* A message that still waits for its turn has not been run.
WaitingNotRun ==
  \A m \in Msgs : msg[m].pc \notin {"running", "end"} => task[m].pc = "idle"

\* A pending message waits at its task, or the guide that took it is sending it.
Held(t) ==
  task[t].pending # NoMsg =>
    \/ msg[task[t].pending] = At("queued", t)
    \/ /\ msg[task[t].pending] = At("steering", t)
       /\ guide = [pc |-> "sending", task |-> t, msg |-> task[t].pending]
       /\ task[t].pendingSteering

PendingHeld == \A t \in Tasks : Held(t)

\* A task that is being delivered is terminal, and its window has not given it up.
DeliveryClaimed ==
  \A t \in Tasks :
    /\ task[t].pc = "deliver" => task[t].phase = "terminal"
    /\ task[t].released => active # t /\ task[t].pc # "deliver"

\* A task that is stopping, or that a stop is talking to the host about, was asked to.
StopsAsked ==
  /\ \A t \in Tasks :
       /\ task[t].phase = "stopping" /\ task[t].pc # "end" => task[t].asked
       /\ task[t].verdict = "stopped" => task[t].asked
  /\ stop.pc # "idle" => stop.task \in Tasks /\ task[stop.task].pc # "idle"
  /\ stop.pc \in {"asking", "accepted"} =>
       task[stop.task].pc = "end" \/ task[stop.task].asked

\* A task that was not started yet has not ended either.
IdleFresh == \A t \in Tasks : task[t].pc = "idle" => task[t].phase # "terminal"

\* A guide holds the slot only of a task whose turn is known.
SteeredTurnKnown == \A t \in Tasks : task[t].pendingSteering => task[t].turn

SafeInv ==
  /\ TaskTypeOK
  /\ IdleFresh
  /\ DoneClosedOnce
  /\ ActiveKnown
  /\ WaitingNotRun
  /\ PendingHeld
  /\ DeliveryClaimed
  /\ StopsAsked
  /\ SteeredTurnKnown

\* Where no guide is late: what waits was neither run nor steered, and a message that
\* a guide is sending stays where the guide put it.
WaitingNotSeen ==
  \A m \in Msgs :
    msg[m].pc \notin {"running", "end"} => fate[m] \cap {"run", "steered"} = {}

SentIsSteering ==
  guide.pc = "sending" => guide.msg \in Msgs /\ msg[guide.msg].pc = "steering"

OnceInv == InputOnce /\ WaitingNotSeen /\ SentIsSteering

--------------------
(* How one step may change one task.                                       *)

\* What every change of a task that was started respects.
Moves(k, k2) ==
  /\ (k2.pc = "idle") <=> (k.pc = "idle")
  /\ k.pc = "end" => k2.pc = "end"
  /\ k.phase = "terminal" => k2.phase = "terminal"
  /\ k2.pc = "idle" => k2.phase # "terminal"
  /\ k2.pc = "deliver" => k2.phase = "terminal" /\ ~k2.released
  /\ k2.phase = "stopping" /\ k2.pc # "end" => k2.asked
  /\ k2.verdict = "stopped" => k2.asked
  /\ k.asked => k2.asked \/ k2.pc = "end"
  /\ k2.pendingSteering => k2.turn

\* The task stays in the index or out of it.
Stays(k, k2) == k2.closes = k.closes /\ (k2.released => k.released)

\* The slot keeps what it has or is emptied.
KeepsSlot(k, k2) ==
  \/ k2.pending = NoMsg
  \/ k2.pending = k.pending /\ k2.pendingSteering = k.pendingSteering

\* The part of StopsAsked about the command in flight.
StopKnown ==
  /\ stop.pc # "idle" => stop.task \in Tasks /\ task[stop.task].pc # "idle"
  /\ stop.pc \in {"asking", "accepted"} =>
       task[stop.task].pc = "end" \/ task[stop.task].asked

\* No task leaves its terminal phase.
KeepsTerminal ==
  \A t \in Tasks : task[t].phase = "terminal" => task'[t].phase = "terminal"

\* One task moves and may leave the index: the parts about tasks are kept.
LEMMA TaskMoves ==
  ASSUME SafeInv, NEW t \in Tasks, NEW k \in Task, Step(t, k), Moves(task[t], k),
         \/ UNCHANGED active /\ Stays(task[t], k)
         \/ active = t /\ active' = NoTask /\ k.closes = task[t].closes + 1
  PROVE  /\ IdleFresh' /\ DoneClosedOnce' /\ ActiveKnown' /\ DeliveryClaimed' /\ KeepsTerminal
         /\ SteeredTurnKnown'
         /\ UNCHANGED stop => StopsAsked'
         /\ StopKnown' => StopsAsked'
<1> USE DEF Step
<1>0. task \in [Tasks -> Task] /\ active \in Tasks \cup {NoTask} /\ NoTask \notin Tasks
  BY TaskConstants DEF SafeInv, TaskTypeOK
<1>1. task'[t] = k /\ \A u \in Tasks : u # t => task'[u] = task[u] BY <1>0
<1>2. task[t].pc # "idle" => task[t].closes = IF active = t THEN 0 ELSE 1
  BY DEF SafeInv, DoneClosedOnce
<1>3. IdleFresh' BY <1>1 DEF SafeInv, IdleFresh, Moves
<1>4. DoneClosedOnce'
  <2> SUFFICES ASSUME NEW u \in Tasks, task'[u].pc # "idle"
               PROVE  task'[u].closes = IF active' = u THEN 0 ELSE 1
    BY DEF DoneClosedOnce
  <2>1. CASE u = t BY <1>0, <1>1, <1>2, <2>1 DEF Moves, Stays
  <2>2. CASE u # t BY <1>0, <1>1, <2>2 DEF SafeInv, DoneClosedOnce
  <2> QED BY <2>1, <2>2
<1>5. ActiveKnown' BY <1>0, <1>1 DEF SafeInv, ActiveKnown, Moves
<1>6. DeliveryClaimed'
  <2> SUFFICES ASSUME NEW u \in Tasks
               PROVE  /\ task'[u].pc = "deliver" => task'[u].phase = "terminal"
                      /\ task'[u].released => active' # u /\ task'[u].pc # "deliver"
    BY DEF DeliveryClaimed
  <2>1. CASE u = t BY <1>0, <1>1, <2>1 DEF SafeInv, DeliveryClaimed, Moves, Stays
  <2>2. CASE u # t BY <1>0, <1>1, <2>2 DEF SafeInv, DeliveryClaimed
  <2> QED BY <2>1, <2>2
<1>7. \A u \in Tasks :
        /\ task'[u].phase = "stopping" /\ task'[u].pc # "end" => task'[u].asked
        /\ task'[u].verdict = "stopped" => task'[u].asked
  BY <1>1 DEF SafeInv, StopsAsked, Moves
<1>8. ASSUME UNCHANGED stop PROVE StopKnown'
  BY <1>1, <1>8 DEF SafeInv, StopsAsked, StopKnown, Moves
<1>9. KeepsTerminal BY <1>1 DEF KeepsTerminal, Moves
<1>10. SteeredTurnKnown' BY <1>1 DEF SafeInv, SteeredTurnKnown, Moves
<1> QED BY <1>3, <1>4, <1>5, <1>6, <1>7, <1>8, <1>9, <1>10 DEF StopsAsked, StopKnown

\* Only messages that wait nowhere, or at task t, are moved, and none is revived.
MessagesFlow(t) ==
  \A x \in Msgs :
    \/ msg'[x] = msg[x]
    \/ /\ msg[x].pc \notin {"queued", "steering"} \/ msg[x].at = t
       /\ msg[x].pc \in {"running", "end"} => msg'[x].pc \in {"running", "end"}

\* A guide that is sending the message of another task is left alone.
GuideFlows(t) == UNCHANGED guide \/ guide.pc # "sending" \/ guide.task = t

\* Messages are tasks, and what is pending is a message.
LEMMA SlotTypes ==
  ASSUME TaskTypeOK
  PROVE  /\ Msgs \subseteq Tasks
         /\ \A t \in Tasks : task[t] \in Task
         /\ \A t \in Tasks : task[t].pending # NoMsg => task[t].pending \in Msgs
         /\ active \in Tasks \/ active = NoTask
         /\ NoTask \notin Tasks
<1>1. \A t \in Tasks : task[t] \in Task BY DEF TaskTypeOK
<1>2. \A k \in Task : k.pending \in Msgs \cup {NoMsg} BY DEF Task
<1> QED BY <1>1, <1>2, TaskConstants DEF TaskTypeOK, Tasks

\* One task moves, and messages that waited nowhere or at this task.
LEMMA MessagesMove ==
  ASSUME SafeInv, NEW t \in Tasks, NEW k \in Task, Step(t, k), Moves(task[t], k),
         MessagesFlow(t)
  PROVE  /\ WaitingNotRun'
         /\ GuideFlows(t) /\ Held(t)' => PendingHeld'
<1>0. task'[t] = k /\ \A u \in Tasks : u # t => task'[u] = task[u]
  BY DEF Step, SafeInv, TaskTypeOK
<1>s. Msgs \subseteq Tasks /\ \A u \in Tasks : task[u].pending # NoMsg => task[u].pending \in Msgs
  BY SlotTypes DEF SafeInv
<1>1. WaitingNotRun'
  <2> SUFFICES ASSUME NEW x \in Msgs, msg'[x].pc \notin {"running", "end"}
               PROVE  task'[x].pc = "idle"
    BY DEF WaitingNotRun
  <2>1. task[x].pc = "idle" BY DEF MessagesFlow, SafeInv, WaitingNotRun
  <2> QED BY <1>0, <1>s, <2>1 DEF Moves
<1>2. ASSUME GuideFlows(t), Held(t)' PROVE PendingHeld'
  <2> SUFFICES ASSUME NEW u \in Tasks, u # t, task'[u].pending # NoMsg
               PROVE  Held(u)'
    BY <1>2 DEF PendingHeld, Held
  <2> DEFINE x == task[u].pending
  <2>1. task'[u] = task[u] /\ x \in Msgs /\ x # NoMsg BY <1>0, <1>s
  <2>2. CASE msg[x] = At("queued", u) BY <2>1, <2>2 DEF MessagesFlow, Held, At
  <2>3. CASE /\ msg[x] = At("steering", u) /\ task[u].pendingSteering
             /\ guide = [pc |-> "sending", task |-> u, msg |-> x]
    BY <2>1, <2>3, <1>2 DEF MessagesFlow, At, GuideFlows, Held
  <2> QED BY <2>1, <2>2, <2>3 DEF SafeInv, PendingHeld, Held
<1> QED BY <1>1, <1>2

\* What a step of a goroutine or a command amounts to.
LEMMA OneTaskMoves ==
  ASSUME SafeInv, TaskTypeOK', NEW t \in Tasks, NEW k \in Task, Step(t, k),
         Moves(task[t], k),
         \/ UNCHANGED active /\ Stays(task[t], k)
         \/ active = t /\ active' = NoTask /\ k.closes = task[t].closes + 1,
         UNCHANGED stop \/ StopKnown',
         MessagesFlow(t), GuideFlows(t), Held(t)'
  PROVE  SafeInv' /\ KeepsTerminal
<1>1. IdleFresh' /\ DoneClosedOnce' /\ ActiveKnown' /\ DeliveryClaimed' /\ StopsAsked'
      /\ KeepsTerminal /\ SteeredTurnKnown'
  BY TaskMoves
<1>2. WaitingNotRun' /\ PendingHeld' BY MessagesMove
<1> QED BY <1>1, <1>2 DEF SafeInv

\* The same for a step that leaves the messages alone and at most empties the slot.
LEMMA OneTaskOnly ==
  ASSUME SafeInv, TaskTypeOK', NEW t \in Tasks, NEW k \in Task, Step(t, k),
         Moves(task[t], k), KeepsSlot(task[t], k),
         \/ UNCHANGED active /\ Stays(task[t], k)
         \/ active = t /\ active' = NoTask /\ k.closes = task[t].closes + 1,
         UNCHANGED stop \/ StopKnown',
         UNCHANGED <<msg, guide>>
  PROVE  SafeInv' /\ KeepsTerminal
<1>1. task'[t] = k BY DEF Step, SafeInv, TaskTypeOK
<1>2. Held(t) BY DEF SafeInv, PendingHeld
<1>3. Held(t)' BY <1>1, <1>2 DEF Held, KeepsSlot
<1> QED BY <1>3, OneTaskMoves DEF MessagesFlow, GuideFlows

\* A step that moves no task.
LEMMA NoTaskMoves ==
  ASSUME SafeInv, TaskTypeOK', UNCHANGED <<task, active>>,
         UNCHANGED stop \/ StopKnown',
         \A x \in Msgs :
           \/ msg'[x] = msg[x]
           \/ msg[x].pc \notin {"queued", "steering", "running", "end"},
         UNCHANGED guide \/ guide.pc # "sending"
  PROVE  SafeInv' /\ KeepsTerminal
<1>1. IdleFresh' /\ DoneClosedOnce' /\ ActiveKnown' /\ DeliveryClaimed' /\ SteeredTurnKnown'
  BY DEF SafeInv, IdleFresh, DoneClosedOnce, ActiveKnown, DeliveryClaimed, SteeredTurnKnown
<1>2. StopsAsked' BY DEF SafeInv, StopsAsked, StopKnown
<1>3. WaitingNotRun' BY DEF SafeInv, WaitingNotRun
<1>4. PendingHeld'
  <2> SUFFICES ASSUME NEW u \in Tasks, task[u].pending # NoMsg
               PROVE  Held(u)'
    BY DEF PendingHeld, Held
  <2>1. task[u].pending \in Msgs BY SlotTypes DEF SafeInv
  <2> QED BY <2>1 DEF SafeInv, PendingHeld, Held, At
<1> QED BY <1>1, <1>2, <1>3, <1>4 DEF SafeInv, KeepsTerminal

\* A task starts.
LEMMA TaskStarts ==
  ASSUME SafeInv, TaskTypeOK', NEW t \in Tasks, NEW k \in Task,
         task' = [task EXCEPT ![t] = k], active = NoTask, active' = t,
         task[t].pc = "idle", k.pc \notin {"idle", "deliver"}, k.closes = 0,
         ~k.released, k.phase # "stopping", k.verdict # "stopped", k.pending = NoMsg,
         ~k.pendingSteering,
         UNCHANGED <<guide, stop>>,
         \A x \in Msgs :
           \/ msg'[x] = msg[x] /\ x # t
           \/ msg[x].pc \notin {"queued", "steering"} /\ msg'[x].pc = "running"
  PROVE  SafeInv' /\ KeepsTerminal
<1>0. task'[t] = k /\ \A u \in Tasks : u # t => task'[u] = task[u]
  BY DEF SafeInv, TaskTypeOK
<1>s. Msgs \subseteq Tasks /\ NoTask \notin Tasks
      /\ \A u \in Tasks : task[u].pending # NoMsg => task[u].pending \in Msgs
  BY SlotTypes DEF SafeInv
<1>1. IdleFresh' /\ ActiveKnown' BY <1>0 DEF SafeInv, IdleFresh, ActiveKnown
<1>2. DoneClosedOnce' BY <1>0, <1>s DEF SafeInv, DoneClosedOnce
<1>3. DeliveryClaimed' BY <1>0 DEF SafeInv, DeliveryClaimed
<1>4. StopsAsked' BY <1>0 DEF SafeInv, StopsAsked
<1>5. WaitingNotRun' BY <1>0, <1>s DEF SafeInv, WaitingNotRun
<1>6. PendingHeld'
  <2> SUFFICES ASSUME NEW u \in Tasks, task'[u].pending # NoMsg
               PROVE  Held(u)'
    BY DEF PendingHeld, Held
  <2>1. u # t /\ task'[u] = task[u] /\ task[u].pending \in Msgs BY <1>0, <1>s
  <2> QED BY <2>1 DEF SafeInv, PendingHeld, Held, At
<1>7. KeepsTerminal /\ SteeredTurnKnown'
  BY <1>0 DEF SafeInv, IdleFresh, KeepsTerminal, SteeredTurnKnown
<1> QED BY <1>1, <1>2, <1>3, <1>4, <1>5, <1>6, <1>7 DEF SafeInv

--------------------
(* The goroutines.                                                         *)

\* What is known of a task under the invariant.
LEMMA TaskFacts ==
  ASSUME SafeInv, NEW t \in Tasks
  PROVE  /\ task[t] \in Task
         /\ task[t].pc = "deliver" => task[t].phase = "terminal" /\ ~task[t].released
         /\ task[t].released => active # t
         /\ task[t].phase = "stopping" /\ task[t].pc # "end" => task[t].asked
         /\ task[t].verdict = "stopped" => task[t].asked
         /\ task[t].pc = "idle" => task[t].phase # "terminal"
         /\ task[t].pendingSteering => task[t].turn
BY SlotTypes DEF SafeInv, DeliveryClaimed, StopsAsked, IdleFresh, SteeredTurnKnown

\* Retiring a task is a move of it.
LEMMA RetiredMoves ==
  ASSUME NEW k0 \in Task, NEW k \in Task, k0.pc # "idle",
         k0.phase = "terminal" => k.phase = "terminal"
  PROVE  /\ Moves(k0, Retired(k)) /\ KeepsSlot(k0, Retired(k))
         /\ Retired(k).closes = k.closes /\ ~Retired(k).released
BY DEF Moves, KeepsSlot, Retired, Unused, NewTask

\* finishActiveTask: the task leaves the index, or it does not.
LEMMA FinishSafe ==
  ASSUME SafeInv, TaskTypeOK', NEW t \in Tasks, NEW k \in Task, FinishActive(t, k),
         task[t].pc # "idle", Moves(task[t], k), KeepsSlot(task[t], k),
         k.closes = task[t].closes, k.released = task[t].released,
         UNCHANGED <<msg, guide, stop>>
  PROVE  SafeInv' /\ KeepsTerminal
<1>0. task[t] \in Task BY TaskFacts
<1>1. CASE active = t /\ k.phase # "terminal"
  <2> DEFINE c == Closed(k)
  <2>1. c \in Task /\ c.closes = task[t].closes + 1 /\ Moves(task[t], c)
        /\ KeepsSlot(task[t], c) /\ c.phase = k.phase
    BY DEF Closed, Moves, KeepsSlot, Task
  <2> HIDE DEF c
  <2>2. Ended(c) \in Task /\ Ended(c).closes = task[t].closes + 1 /\ Moves(task[t], Ended(c))
        /\ KeepsSlot(task[t], Ended(c))
    BY <1>0, <2>1, RetiredMoves, TaskBuilders DEF Ended, Moves
  <2>3. Step(t, Ended(c)) /\ active' = NoTask BY <1>1 DEF FinishActive, Step, c
  <2> QED BY <1>1, <2>2, <2>3, OneTaskOnly
<1>2. CASE ~(active = t /\ k.phase # "terminal")
  <2> DEFINE c == IF active = t THEN k ELSE Ended(k)
  <2>1. c \in Task /\ Stays(task[t], c) /\ Moves(task[t], c) /\ KeepsSlot(task[t], c)
    BY <1>0, RetiredMoves, TaskBuilders DEF Ended, Moves, Stays
  <2>2. Step(t, c) /\ UNCHANGED active BY <1>2 DEF FinishActive, Step
  <2> HIDE DEF c
  <2> QED BY <2>1, <2>2, OneTaskOnly
<1> QED BY <1>1, <1>2

\* The goroutine ends and leaves the index alone.
LEMMA StopsSafe ==
  ASSUME SafeInv, TaskTypeOK', NEW t \in Tasks, Stops(t), task[t].pc # "idle",
         UNCHANGED <<active, msg, guide, stop>>
  PROVE  SafeInv' /\ KeepsTerminal
<1>0. task[t] \in Task BY TaskFacts
<1>1. CASE active = t
  <2> DEFINE e == [task[t] EXCEPT !.pc = "end"]
  <2>1. e \in Task BY <1>0, GoroutineUpdates, Names
  <2>2. Stays(task[t], e) /\ Moves(task[t], e) /\ KeepsSlot(task[t], e)
    BY <1>0, TaskFacts DEF Stays, Moves, KeepsSlot, Task
  <2>3. Step(t, e) BY <1>1 DEF Stops, Step
  <2> HIDE DEF e
  <2> QED BY <2>1, <2>2, <2>3, OneTaskOnly
<1>2. CASE active # t
  BY <1>2, <1>0, RetiredMoves, TaskBuilders, OneTaskOnly DEF Stops, Step, Stays
<1> QED BY <1>1, <1>2

\* finishClaimedActiveTask and completeActiveTask: the pending message is promoted.
LEMMA PromoteSafe ==
  ASSUME SafeInv, TaskTypeOK', NEW t \in Tasks, Promote(t, task[t]), task[t].pc # "idle",
         UNCHANGED <<guide, stop>>
  PROVE  SafeInv' /\ KeepsTerminal
<1> DEFINE k == IF active = t THEN Closed(ClaimTerminal(task[t])) ELSE task[t]
<1>0. task[t] \in Task BY TaskFacts
<1>1. k \in Task /\ (task[t].phase = "terminal" => k.phase = "terminal")
      /\ k.closes = IF active = t THEN task[t].closes + 1 ELSE task[t].closes
  <2>1. CASE active = t
    <3>1. ClaimTerminal(task[t]) \in Task /\ ClaimTerminal(task[t]).phase = "terminal"
          /\ ClaimTerminal(task[t]).closes = task[t].closes
      BY <1>0, ClaimFields
    <3> DEFINE c == ClaimTerminal(task[t])
    <3> HIDE DEF c
    <3>2. Closed(c) \in Task /\ Closed(c).phase = c.phase /\ Closed(c).closes = c.closes + 1
      BY <3>1, GoroutineUpdates DEF Closed, Task, c
    <3>3. k = Closed(c) BY <2>1 DEF c
    <3> HIDE DEF k
    <3> QED BY <2>1, <3>1, <3>2, <3>3 DEF c
  <2>2. CASE active # t BY <1>0, <2>2
  <2> QED BY <2>1, <2>2
<1>2. Step(t, Retired(k)) /\ active' = IF active = t THEN NoTask ELSE active
  BY DEF Promote, Step
<1> HIDE DEF k
<1>3. Retired(k) \in Task /\ Moves(task[t], Retired(k)) /\ Retired(k).closes = k.closes
      /\ ~Retired(k).released /\ Retired(k).pending = NoMsg
  BY <1>0, <1>1, RetiredMoves, TaskBuilders DEF Retired, Unused, NewTask
<1>4. task'[t] = Retired(k) BY <1>2 DEF Step, SafeInv, TaskTypeOK
<1>5. Held(t)' BY <1>3, <1>4 DEF Held
<1>6. MessagesFlow(t)
  <2> SUFFICES ASSUME NEW x \in Msgs
               PROVE  \/ msg'[x] = msg[x]
                      \/ /\ msg[x].pc \notin {"queued", "steering"} \/ msg[x].at = t
                         /\ msg[x].pc \in {"running", "end"} => msg'[x].pc \in {"running", "end"}
    BY DEF MessagesFlow
  <2>1. msg'[x] = IF active = t /\ x = Promotable(task[t]) THEN At("submit", NoTask)
                  ELSE IF x = t THEN At("end", NoTask) ELSE msg[x]
    BY DEF Promote
  <2>2. CASE active = t /\ x = Promotable(task[t])
    <3>1. x # NoMsg BY TaskConstants
    <3>2. task[t].pending = x /\ ~task[t].pendingSteering BY <2>2, <3>1 DEF Promotable
    <3>3. msg[x] = At("queued", t) BY <3>1, <3>2 DEF SafeInv, PendingHeld, Held
    <3> QED BY <3>3 DEF At
  <2>3. CASE ~(active = t /\ x = Promotable(task[t])) /\ x = t
    BY <2>3, <2>1 DEF SafeInv, WaitingNotRun, At
  <2> QED BY <2>1, <2>2, <2>3
<1> QED BY <1>1, <1>2, <1>3, <1>5, <1>6, OneTaskMoves DEF GuideFlows, Stays

\* A goroutine that is at work goes on to its next step.
LEMMA PcMoves ==
  ASSUME SafeInv, NEW t \in Tasks, task[t].pc \notin {"idle", "end"},
         NEW pc \in Pcs \ {"idle", "deliver"}
  PROVE  LET k == [task[t] EXCEPT !.pc = pc]
         IN  /\ k \in Task /\ Moves(task[t], k) /\ KeepsSlot(task[t], k)
             /\ Stays(task[t], k) /\ k.closes = task[t].closes
             /\ k.released = task[t].released /\ k.turn = task[t].turn
<1>0. task[t] \in Task BY TaskFacts
<1>1. [task[t] EXCEPT !.pc = pc] \in Task BY <1>0, GoroutineUpdates
<1> QED BY <1>0, <1>1, TaskFacts DEF Moves, KeepsSlot, Stays, Task

\* It decides the outcome, which is "stopped" only for a task that was asked to stop.
LEMMA VerdictMoves ==
  ASSUME SafeInv, NEW t \in Tasks, task[t].pc \notin {"idle", "end"},
         NEW pc \in Pcs \ {"idle", "deliver"},
         NEW v \in {"none", "completed", "failed", "interrupted", "stopped"},
         v = "stopped" => task[t].asked
  PROVE  LET k == [task[t] EXCEPT !.pc = pc, !.verdict = v]
         IN  k \in Task /\ Moves(task[t], k) /\ KeepsSlot(task[t], k) /\ Stays(task[t], k)
<1>0. task[t] \in Task BY TaskFacts
<1>1. [task[t] EXCEPT !.pc = pc, !.verdict = v] \in Task BY <1>0 DEF Task
<1> QED BY <1>0, <1>1, TaskFacts DEF Moves, KeepsSlot, Stays, Task

\* The verdict about a task is a verdict, and "stopped" if the task is stopping.
LEMMA VerdictFacts ==
  ASSUME SafeInv, NEW t \in Tasks, task[t].pc # "end", NEW r \in {"ok", "error", "halt"}
  PROVE  /\ Verdict(task[t], r) \in {"none", "completed", "failed", "interrupted", "stopped"}
         /\ Verdict(task[t], r) = "stopped" => task[t].asked
<1>1. Verdict(task[t], r) = "stopped" => task[t].phase = "stopping"
  BY DEF Verdict, StoppedByRequest
<1>2. Verdict(task[t], r) \in {"none", "completed", "failed", "interrupted", "stopped"}
  BY DEF Verdict
<1> QED BY <1>1, <1>2, TaskFacts

\* A step that changes one task and nothing that the invariant relates it to.
LEMMA QuietStep ==
  ASSUME SafeInv, TaskTypeOK', NEW t \in Tasks, NEW k \in Task, Step(t, k),
         Moves(task[t], k), KeepsSlot(task[t], k), Stays(task[t], k),
         UNCHANGED <<active, msg, guide, stop>>
  PROVE  SafeInv' /\ KeepsTerminal
BY OneTaskOnly

\* Disconnecting, connecting and naming the turn are moves of a task.
LEMMA LinkMoves ==
  ASSUME SafeInv, NEW t \in Tasks, task[t].pc \notin {"idle", "end"}
  PROVE  /\ \A k \in {MarkDisconnected(task[t]), MarkRunning(task[t], "weclaw"),
                       MarkRunning(task[t], "desktop")} :
              k \in Task /\ Moves(task[t], k) /\ KeepsSlot(task[t], k) /\ Stays(task[t], k)
         /\ LET k == [MarkDisconnected(task[t]) EXCEPT !.pc = "recheck"]
            IN k \in Task /\ Moves(task[t], k) /\ KeepsSlot(task[t], k) /\ Stays(task[t], k)
<1>0. task[t] \in Task BY TaskFacts
<1>f. /\ task[t].pc = "deliver" => task[t].phase = "terminal" /\ ~task[t].released
      /\ task[t].phase = "stopping" => task[t].asked
      /\ task[t].verdict = "stopped" => task[t].asked
      /\ task[t].pendingSteering => task[t].turn
  BY TaskFacts
<1>1. ASSUME NEW k \in {MarkDisconnected(task[t]), MarkRunning(task[t], "weclaw"),
                       MarkRunning(task[t], "desktop")}
      PROVE  k \in Task /\ Moves(task[t], k) /\ KeepsSlot(task[t], k) /\ Stays(task[t], k)
  <2>0. k \in Task BY <1>0, GoroutineUpdates
  <2>1. CASE Settled(task[t])
    BY <2>1, <1>0, <1>f DEF MarkDisconnected, MarkRunning, Moves, KeepsSlot, Stays
  <2>2. CASE ~Settled(task[t])
    <3>1. PICK p \in {"disconnected", "running"}, o \in {"weclaw", "desktop", "unknown"} :
            k = [task[t] EXCEPT !.phase = p, !.owner = o]
      BY <2>2 DEF MarkDisconnected, MarkRunning
    <3>2. task[t].phase # "terminal" BY <2>2 DEF Settled
    <3> QED BY <1>0, <1>f, <2>0, <3>1, <3>2 DEF Moves, KeepsSlot, Stays, Task
  <2> QED BY <2>1, <2>2
<1>2. LET k == [MarkDisconnected(task[t]) EXCEPT !.pc = "recheck"]
      IN k \in Task /\ Moves(task[t], k) /\ KeepsSlot(task[t], k) /\ Stays(task[t], k)
  <2> DEFINE d == MarkDisconnected(task[t])
  <2>1. d \in Task /\ Moves(task[t], d) /\ KeepsSlot(task[t], d) /\ Stays(task[t], d)
    BY <1>1
  <2>2. d.pc = task[t].pc /\ (d.phase = "stopping" => d.asked)
    BY <1>0, <1>f, <2>1 DEF MarkDisconnected, Settled, Moves, Task
  <2> HIDE DEF d
  <2>3. [d EXCEPT !.pc = "recheck"] \in Task BY <2>1, GoroutineUpdates, Names
  <2>4. ASSUME NEW k, k = [d EXCEPT !.pc = "recheck"]
        PROVE  Moves(task[t], k) /\ KeepsSlot(task[t], k) /\ Stays(task[t], k)
    BY <2>1, <2>4, <2>2 DEF Task, Moves, KeepsSlot, Stays
  <2> QED BY <2>3, <2>4 DEF d
<1> QED BY <1>1, <1>2

\* The steps of the goroutine of a task.
LEMMA SafeTask ==
  ASSUME SafeInv, TaskTypeOK', NEW t \in Tasks, TaskStep(t)
  PROVE  SafeInv' /\ KeepsTerminal
<1>0. task[t] \in Task BY TaskFacts
<1>1. CASE RunBegin(t) BY <1>1, PcMoves, QuietStep, Names DEF RunBegin
<1>2. CASE RunReturns(t)
  <2>1. task[t].pc \notin {"idle", "end"} /\ UNCHANGED <<active, msg, guide, stop>>
    BY <1>2 DEF RunReturns
  <2>2. PICK r \in {"ok", "error", "halt"} :
          Step(t, [task[t] EXCEPT !.pc = "claim", !.verdict = Verdict(task[t], r)])
    BY <1>2 DEF RunReturns
  <2> DEFINE v == Verdict(task[t], r)
  <2>3. v \in {"none", "completed", "failed", "interrupted", "stopped"}
        /\ (v = "stopped" => task[t].asked)
    BY <2>1, VerdictFacts
  <2> HIDE DEF v
  <2>4. Step(t, [task[t] EXCEPT !.pc = "claim", !.verdict = v]) BY <2>2 DEF v
  <2> QED BY <2>1, <2>3, <2>4, VerdictMoves, QuietStep, Names
<1>3. CASE Claim(t)
  <2>1. task[t].pc = "claim" /\ UNCHANGED <<active, msg, guide, stop>> BY <1>3 DEF Claim
  <2>2. CASE Claims(t)
    <3> DEFINE k == [ClaimTerminal(task[t]) EXCEPT !.pc = "deliver"]
    <3>1. Step(t, k) BY <1>3, <2>2 DEF Claim
    <3>2. k \in Task BY <1>0, GoroutineUpdates, Names
    <3>3. ~task[t].released BY <2>2, TaskFacts DEF Claims
    <3>4. /\ k.pc = "deliver" /\ k.phase = "terminal" /\ k.asked = task[t].asked
          /\ k.verdict = task[t].verdict /\ k.pending = task[t].pending
          /\ k.closes = task[t].closes /\ k.pendingSteering = task[t].pendingSteering
          /\ k.released = task[t].released /\ k.turn = task[t].turn
      BY <1>0 DEF ClaimTerminal, Task
    <3> HIDE DEF k
    <3>5. Moves(task[t], k) /\ KeepsSlot(task[t], k) /\ Stays(task[t], k)
      BY <2>1, <3>3, <3>4, TaskFacts DEF Moves, KeepsSlot, Stays
    <3> QED BY <2>1, <3>1, <3>2, <3>5, QuietStep
  <2>3. CASE ~Claims(t) /\ t \in Msgs
    BY <1>3, <2>3, <2>1, PcMoves, QuietStep, Names DEF Claim
  <2>4. CASE ~Claims(t) /\ t \notin Msgs BY <1>3, <2>4, <2>1, StopsSafe DEF Claim
  <2> QED BY <2>2, <2>3, <2>4
<1>4. CASE Deliver(t) BY <1>4, PcMoves, QuietStep, Names DEF Deliver
<1>5. CASE Unlock(t) BY <1>5, PcMoves, QuietStep, Names DEF Unlock
<1>6. CASE Complete(t) BY <1>6, PromoteSafe DEF Complete
<1>7. CASE Activate(t)
  <2> DEFINE k == [task[t] EXCEPT !.phase = "running", !.pc = "watch"]
  <2>1. k \in Task BY <1>0 DEF Task, Phases, Pcs
  <2>2. Moves(task[t], k) /\ KeepsSlot(task[t], k) /\ Stays(task[t], k)
    BY <1>0, <1>7, TaskFacts DEF Activate, Moves, KeepsSlot, Stays, Task
  <2> HIDE DEF k
  <2>3. Step(t, k) /\ UNCHANGED <<active, msg, guide, stop>> BY <1>7 DEF Activate, k
  <2> QED BY <2>1, <2>2, <2>3, QuietStep
<1>8. CASE ActivateFails(t) BY <1>8, StopsSafe DEF ActivateFails
<1>9. CASE WatchReturns(t)
  <2>1. task[t].pc \notin {"idle", "end"} /\ UNCHANGED <<active, msg, guide, stop>>
    BY <1>9 DEF WatchReturns
  <2>2. PICK r \in {"ok", "error", "halt"}, pc \in {"reconcile", "claim"} :
          Step(t, [task[t] EXCEPT !.verdict = Verdict(task[t], r), !.pc = pc])
    BY <1>9 DEF WatchReturns
  <2> DEFINE v == Verdict(task[t], r)
  <2>3. v \in {"none", "completed", "failed", "interrupted", "stopped"}
        /\ (v = "stopped" => task[t].asked)
    BY <2>1, VerdictFacts
  <2> HIDE DEF v
  <2>4. Step(t, [task[t] EXCEPT !.pc = pc, !.verdict = v])
    BY <1>0, <2>2 DEF v, Task, Step
  <2>5. pc \in Pcs \ {"idle", "deliver"} BY Names
  <2> QED BY <2>1, <2>3, <2>4, <2>5, VerdictMoves, QuietStep
<1>10. CASE Reconcile(t) BY <1>10, PcMoves, QuietStep, Names, VerdictMoves DEF Reconcile
<1>11. CASE ReconcileTimesOut(t)
  BY <1>11, PcMoves, QuietStep, Names DEF ReconcileTimesOut
<1>12. CASE SettingsEnd(t) \/ ObserverNotReady(t)
  BY <1>12, PcMoves, FinishSafe, Names DEF SettingsEnd, ObserverNotReady
<1>13. CASE RunDetaches(t) BY <1>13, PcMoves, FinishSafe, Names DEF RunDetaches
<1>14. CASE TurnStarted(t)
  <2> DEFINE k == [task[t] EXCEPT !.turn = TRUE]
  <2>1. k \in Task BY <1>0 DEF Task
  <2>2. Moves(task[t], k) /\ KeepsSlot(task[t], k) /\ Stays(task[t], k)
    BY <1>0, TaskFacts DEF Moves, KeepsSlot, Stays, Task
  <2> HIDE DEF k
  <2>3. Step(t, k) /\ UNCHANGED <<active, msg, guide, stop>> BY <1>14 DEF TurnStarted, k
  <2> QED BY <2>1, <2>2, <2>3, QuietStep
<1>15. CASE TurnInterrupted(t) BY <1>15, LinkMoves, QuietStep DEF TurnInterrupted
<1>16. CASE Reserve(t)
  <2>1. PICK c \in BOOLEAN : Step(t, Reservation(c)) BY <1>16 DEF Reserve
  <2>2. Reservation(c) \in Task BY TaskBuilders
  <2> DEFINE k == Reservation(c)
  <2>3. /\ k.pc = "reserved" /\ k.closes = 0 /\ ~k.released /\ k.phase = "reserved"
        /\ k.verdict = "none" /\ k.pending = NoMsg /\ ~k.pendingSteering
    BY DEF Reservation, NewTask
  <2> HIDE DEF k
  <2>4. task' = [task EXCEPT ![t] = k] BY <2>1 DEF Step, k
  <2>5. t \notin Msgs BY <1>16, TaskConstants DEF Reserve
  <2> QED BY <1>16, <2>2, <2>3, <2>4, <2>5, TaskStarts DEF Reserve, k
<1>17. CASE CancelReservation(t)
  <2> DEFINE c == ClaimTerminal(task[t])
             d == Closed(c)
  <2>1. c \in Task /\ c.phase = "terminal" /\ c.closes = task[t].closes
    BY <1>0, ClaimFields
  <2> HIDE DEF c
  <2>2. d \in Task /\ d.phase = c.phase /\ d.closes = c.closes + 1
    BY <2>1, GoroutineUpdates DEF Closed, Task
  <2> HIDE DEF d
  <2>3. Step(t, Retired(d)) /\ active = t /\ active' = NoTask /\ task[t].pc = "reserved"
        /\ UNCHANGED <<msg, guide, stop>>
    BY <1>17 DEF CancelReservation, c, d
  <2>4. Retired(d) \in Task /\ Moves(task[t], Retired(d)) /\ KeepsSlot(task[t], Retired(d))
        /\ Retired(d).closes = task[t].closes + 1
    BY <1>0, <2>1, <2>2, <2>3, RetiredMoves, TaskBuilders
  <2> QED BY <2>3, <2>4, OneTaskOnly
<1>18. CASE ObserverReady(t)
  <2> DEFINE k == [task[t] EXCEPT !.ready = TRUE]
  <2>1. k \in Task BY <1>0 DEF Task
  <2>2. Moves(task[t], k) /\ KeepsSlot(task[t], k) /\ Stays(task[t], k)
    BY <1>0, TaskFacts DEF Moves, KeepsSlot, Stays, Task
  <2> HIDE DEF k
  <2>3. Step(t, k) /\ UNCHANGED <<active, msg, guide, stop>>
    BY <1>18 DEF ObserverReady, k
  <2> QED BY <2>1, <2>2, <2>3, QuietStep
<1>19. CASE Disconnect(t) BY <1>19, LinkMoves, QuietStep DEF Disconnect
<1>20. CASE Reconnect(t)
  <2>1. PICK r \in {"weclaw", "desktop"} : Step(t, MarkRunning(task[t], r))
    BY <1>20 DEF Reconnect
  <2> QED BY <1>20, <2>1, LinkMoves, QuietStep DEF Reconnect
<1>21. CASE WatchCanceled(t)
  BY <1>21, PcMoves, FinishSafe, Names, TaskFacts, VerdictMoves, QuietStep, StopsSafe DEF WatchCanceled
<1>22. CASE SettingsBegin(t)
  <2> DEFINE k == [NewTask EXCEPT !.pc = "exec"]
  <2>1. k \in Task BY TaskBuilders, GoroutineUpdates, Names
  <2>2. /\ k.pc = "exec" /\ k.closes = 0 /\ ~k.released /\ k.phase = "running"
        /\ k.verdict = "none" /\ k.pending = NoMsg /\ ~k.pendingSteering
    BY DEF NewTask
  <2>3. task' = [task EXCEPT ![t] = k] /\ t \notin Msgs
    BY <1>22, TaskConstants DEF SettingsBegin, Step
  <2> HIDE DEF k
  <2> QED BY <1>22, <2>1, <2>2, <2>3, TaskStarts DEF SettingsBegin
<1> QED BY <1>1, <1>2, <1>3, <1>4, <1>5, <1>6, <1>7, <1>8, <1>9, <1>10, <1>11, <1>12, <1>13,
     <1>14, <1>15, <1>16, <1>17, <1>18, <1>19, <1>20, <1>21, <1>22
  DEF TaskStep, Progresses

--------------------
(* The messages and the commands.                                          *)

\* The steps of a submission.
LEMMA SafeMsg ==
  ASSUME SafeInv, TaskTypeOK', NEW m \in Msgs, MsgStep(m)
  PROVE  SafeInv' /\ KeepsTerminal
<1>0. msg \in [Msgs -> [pc : MsgPcs, at : Tasks \cup {NoTask}]] /\ m \in Tasks
  BY SlotTypes DEF SafeInv, TaskTypeOK
<1> DEFINE Moved == \A x \in Msgs : x # m => msg'[x] = msg[x]
<1>w. \/ ~ \/ Send(m) \/ Refuse(m) \/ SteerBegin(m) \/ AwaitDone(m) \/ AwaitTimesOut(m)
           \/ GuideResend(m) \/ GuideAbandoned(m) \/ AdmitRefused(m)
      \/ /\ UNCHANGED <<task, active, guide, stop>> /\ Moved
         /\ msg[m].pc \notin {"queued", "steering", "running", "end"}
  BY <1>0 DEF Send, Refuse, SteerBegin, AwaitDone, AwaitTimesOut, GuideResend,
              GuideAbandoned, AdmitRefused, Admitting, Leaves
<1>1. CASE \/ Send(m) \/ Refuse(m) \/ SteerBegin(m) \/ AwaitDone(m) \/ AwaitTimesOut(m)
           \/ GuideResend(m) \/ GuideAbandoned(m) \/ AdmitRefused(m)
  BY <1>1, <1>w, NoTaskMoves
<1>2. CASE AdmitStarts(m)
  BY <1>2, TaskBuilders, <1>0, TaskStarts DEF AdmitStarts, Admitting, SafeInv, WaitingNotRun, NewTask, At
<1>3. CASE AdmitQueues(m)
  <2> DEFINE k == QueuePending(task[active], m)
  <2>1. msg[m].pc \in {"submit", "admit"} /\ active \in Tasks /\ task[active] \in Task
    BY <1>3, SlotTypes DEF AdmitQueues, CanQueue, Admitting, SafeInv
  <2>2. Step(active, k) /\ UNCHANGED <<active, guide, stop>>
    BY <1>3 DEF AdmitQueues, Step
  <2>3. k \in Task BY <2>1, CommandUpdates
  <2>4. Moves(task[active], k) /\ Stays(task[active], k) /\ k.pending = m
    BY <2>1, TaskFacts DEF QueuePending, Moves, Stays, Task
  <2> HIDE DEF k
  <2>5. msg'[m] = At("queued", active) /\ Moved BY <1>0, <1>3 DEF AdmitQueues
  <2>6. task'[active] = k BY <2>1, <2>2 DEF Step, SafeInv, TaskTypeOK
  <2>7. Held(active)' BY <2>2, <2>4, <2>5, <2>6 DEF Held
  <2>8. MessagesFlow(active) BY <2>1, <2>5 DEF MessagesFlow
  <2> QED BY <2>1, <2>2, <2>3, <2>4, <2>7, <2>8, OneTaskMoves DEF GuideFlows
<1>4. CASE SteerReturns(m)
  <2>0. msg[m].pc = "preflight" /\ UNCHANGED <<active, guide, stop>>
    BY <1>4 DEF SteerReturns
  <2>1. Moved BY <1>0, <1>4 DEF SteerReturns, Leaves
  <2>2. CASE UNCHANGED task BY <2>0, <2>1, <2>2, NoTaskMoves
  <2>3. CASE task' # task
    <3>0. PICK t : t = msg[m].at OBVIOUS
    <3> DEFINE k == [task[t] EXCEPT !.turn = TRUE]
    <3>1. Step(t, k) BY <1>4, <2>3, <3>0 DEF SteerReturns
    <3>2. t \in Tasks BY <2>3, <3>1 DEF Step, SafeInv, TaskTypeOK
    <3>3. task[t] \in Task BY <3>2, TaskFacts
    <3>4. k \in Task BY <3>3 DEF Task
    <3>5. Moves(task[t], k) /\ Stays(task[t], k) /\ KeepsSlot(task[t], k)
      BY <3>2, <3>3, TaskFacts DEF Moves, Stays, KeepsSlot, Task
    <3>6. task'[t] = k BY <3>1, <3>2 DEF Step, SafeInv, TaskTypeOK
    <3> HIDE DEF k
    <3>7. MessagesFlow(t) BY <2>0, <2>1 DEF MessagesFlow
    <3>8. Held(t)'
      BY <3>2, <3>4, <3>5, SlotTypes, <2>0, <2>1, <3>6 DEF SafeInv, PendingHeld, KeepsSlot, Held, At
    <3> QED BY <2>0, <3>1, <3>2, <3>4, <3>5, <3>7, <3>8, OneTaskMoves DEF GuideFlows
  <2> QED BY <2>2, <2>3
<1> QED BY <1>1, <1>2, <1>3, <1>4 DEF MsgStep, SubmitStep

\* A stop, of which the task was told, is a move of it; so is what undoes a request.
LEMMA StopMoves ==
  ASSUME SafeInv, NEW t \in Tasks, task[t].pc # "idle"
  PROVE  /\ \A card : ~StopRefused(task[t]) /\ (card = NoCard \/ card.task = t) =>
              /\ LET k == MarksAsked(BeginLocalStop(task[t]), card, t)
                 IN  k \in Task /\ Moves(task[t], k) /\ KeepsSlot(task[t], k)
                     /\ Stays(task[t], k)
              /\ LET k == MarksAsked(BeginRemoteStop(task[t]), card, t)
                 IN  k \in Task /\ Moves(task[t], k) /\ KeepsSlot(task[t], k)
                     /\ Stays(task[t], k) /\ k.asked
         /\ LET k == RollbackRemoteStop(task[t])
            IN  k \in Task /\ Moves(task[t], k) /\ KeepsSlot(task[t], k) /\ Stays(task[t], k)
         /\ LET k == [task[t] EXCEPT !.cut = task[t].verdict = "none"]
            IN  k \in Task /\ Moves(task[t], k) /\ KeepsSlot(task[t], k) /\ Stays(task[t], k)
         /\ task[t].pc = "end" \/ task[t].asked =>
              LET k == CommitRemoteStop(task[t])
              IN  k \in Task /\ Moves(task[t], k) /\ KeepsSlot(task[t], k) /\ Stays(task[t], k)
<1>0. task[t] \in Task BY TaskFacts
<1>1. ASSUME NEW card, ~StopRefused(task[t]), card = NoCard \/ card.task = t
      PROVE  LET k == MarksAsked(BeginLocalStop(task[t]), card, t)
             IN  k \in Task /\ Moves(task[t], k) /\ KeepsSlot(task[t], k) /\ Stays(task[t], k)
  <2> DEFINE k == MarksAsked(BeginLocalStop(task[t]), card, t)
  <2>1. k \in Task BY <1>0, CommandUpdates
  <2>2. /\ k.pc = task[t].pc /\ k.phase = "stopping" /\ k.asked = TRUE
        /\ k.verdict = task[t].verdict /\ k.pending = task[t].pending
        /\ k.closes = task[t].closes /\ k.pendingSteering = task[t].pendingSteering
        /\ k.released = task[t].released /\ k.turn = task[t].turn
    BY <1>0, <1>1 DEF MarksAsked, BeginLocalStop, Task
  <2> HIDE DEF k
  <2>3. task[t].phase # "terminal" BY <1>1 DEF StopRefused, Settled
  <2>4. Moves(task[t], k) /\ KeepsSlot(task[t], k) /\ Stays(task[t], k)
    BY <2>2, <2>3, TaskFacts DEF Moves, KeepsSlot, Stays
  <2> QED BY <2>1, <2>4 DEF k
<1>2. ASSUME NEW card, ~StopRefused(task[t]), card = NoCard \/ card.task = t
      PROVE  LET k == MarksAsked(BeginRemoteStop(task[t]), card, t)
             IN  k \in Task /\ Moves(task[t], k) /\ KeepsSlot(task[t], k) /\ Stays(task[t], k)
                 /\ k.asked
  <2> DEFINE k == MarksAsked(BeginRemoteStop(task[t]), card, t)
  <2>1. k \in Task BY <1>0, CommandUpdates
  <2>2. /\ k.pc = task[t].pc /\ k.phase = task[t].phase /\ k.asked = TRUE
        /\ k.verdict = task[t].verdict /\ k.pending = task[t].pending
        /\ k.closes = task[t].closes /\ k.pendingSteering = task[t].pendingSteering
        /\ k.released = task[t].released /\ k.turn = task[t].turn
    BY <1>0, <1>2 DEF MarksAsked, BeginRemoteStop, Task
  <2> HIDE DEF k
  <2>3. Moves(task[t], k) /\ KeepsSlot(task[t], k) /\ Stays(task[t], k)
    BY <2>2, TaskFacts DEF Moves, KeepsSlot, Stays
  <2> QED BY <2>1, <2>2, <2>3 DEF k
<1>3. LET k == RollbackRemoteStop(task[t])
      IN  k \in Task /\ Moves(task[t], k) /\ KeepsSlot(task[t], k) /\ Stays(task[t], k)
  BY <1>0, CommandUpdates, TaskFacts DEF RollbackRemoteStop, Moves, KeepsSlot, Stays, Task
<1>4. LET k == [task[t] EXCEPT !.cut = task[t].verdict = "none"]
      IN  k \in Task /\ Moves(task[t], k) /\ KeepsSlot(task[t], k) /\ Stays(task[t], k)
  <2> DEFINE c == task[t].verdict = "none"
             k == [task[t] EXCEPT !.cut = c]
  <2>1. c \in BOOLEAN OBVIOUS
  <2> HIDE DEF c
  <2>2. k \in Task BY <1>0, <2>1 DEF Task
  <2>3. Moves(task[t], k) /\ KeepsSlot(task[t], k) /\ Stays(task[t], k)
    BY <1>0, TaskFacts DEF Moves, KeepsSlot, Stays, Task
  <2> QED BY <2>2, <2>3 DEF c
<1>5. ASSUME task[t].pc = "end" \/ task[t].asked
      PROVE  LET k == CommitRemoteStop(task[t])
             IN  k \in Task /\ Moves(task[t], k) /\ KeepsSlot(task[t], k) /\ Stays(task[t], k)
  <2> DEFINE k == CommitRemoteStop(task[t])
  <2>1. k \in Task BY <1>0, CommandUpdates
  <2>2. /\ k.pc = task[t].pc /\ k.asked = task[t].asked
        /\ k.phase = IF task[t].phase = "terminal" THEN "terminal" ELSE "stopping"
        /\ k.verdict = task[t].verdict /\ k.pending = task[t].pending
        /\ k.closes = task[t].closes /\ k.pendingSteering = task[t].pendingSteering
        /\ k.released = task[t].released /\ k.turn = task[t].turn
    BY <1>0 DEF CommitRemoteStop, Task
  <2> HIDE DEF k
  <2>3. Moves(task[t], k) /\ KeepsSlot(task[t], k) /\ Stays(task[t], k)
    BY <1>5, <2>2, TaskFacts DEF Moves, KeepsSlot, Stays
  <2> QED BY <2>1, <2>3 DEF k
<1> QED BY <1>1, <1>2, <1>3, <1>4, <1>5

\* Asking the host again for the turn is a move of the task.
LEMMA RefreshMoves ==
  ASSUME SafeInv, NEW t \in Tasks, NEW r \in {"weclaw", "desktop"}
  PROVE  LET k == RefreshTurn(task[t], r)
         IN  k \in Task /\ Moves(task[t], k) /\ KeepsSlot(task[t], k) /\ Stays(task[t], k)
<1>0. task[t] \in Task /\ RefreshTurn(task[t], r) \in Task BY TaskFacts, CommandUpdates
<1>1. CASE task[t].phase = "running"
  BY <1>1, <1>0, TaskFacts DEF RefreshTurn, Moves, KeepsSlot, Stays, Task
<1>2. CASE task[t].phase # "running"
  BY <1>2, <1>0, TaskFacts DEF RefreshTurn, Moves, KeepsSlot, Stays
<1> QED BY <1>1, <1>2

\* The steps of a stop, on the task itself or by way of the Codex host.
LEMMA SafeStop ==
  ASSUME SafeInv, TaskTypeOK', NEW card,
         \/ StopLocal(card) \/ StopBegin(card) \/ StopResolve \/ StopGivesUp
         \/ StopInterrupts \/ StopRejected \/ StopCommit
  PROVE  SafeInv' /\ KeepsTerminal
<1>0. /\ active # NoTask => active \in Tasks /\ task[active].pc # "idle"
      /\ stop.pc # "idle" => stop.task \in Tasks /\ task[stop.task].pc # "idle"
      /\ stop.pc \in {"asking", "accepted"} =>
           task[stop.task].pc = "end" \/ task[stop.task].asked
      /\ stop \in [pc : {"idle", "resolved", "asking", "accepted"}, task : Tasks \cup {NoTask}]
  BY SlotTypes DEF SafeInv, ActiveKnown, StopsAsked, TaskTypeOK
<1>1. CASE StopLocal(card)
  <2>1. PICK t : t = active OBVIOUS
  <2>2. t \in Tasks /\ task[t].pc # "idle" /\ ~StopRefused(task[t])
        /\ (card = NoCard \/ card.task = t)
    BY <1>0, <1>1, <2>1 DEF StopLocal, ActsLocally, Matches
  <2>3. Step(t, MarksAsked(BeginLocalStop(task[t]), card, t))
        /\ UNCHANGED <<active, msg, guide, stop>>
    BY <1>1, <2>1 DEF StopLocal
  <2> QED BY <2>2, <2>3, StopMoves, QuietStep
<1>2. CASE StopBegin(card)
  <2>1. PICK t : t = stop.task OBVIOUS
  <2> DEFINE k == MarksAsked(BeginRemoteStop(task[t]), card, t)
  <2>2. t \in Tasks /\ task[t].pc # "idle" /\ ~StopRefused(task[t])
        /\ (card = NoCard \/ card.task = t)
    BY <1>0, <1>2, <2>1 DEF StopBegin, Matches
  <2>3. Step(t, k) /\ UNCHANGED <<active, msg, guide>>
        /\ stop' = [stop EXCEPT !.pc = "asking"]
    BY <1>2, <2>1 DEF StopBegin
  <2>4. k \in Task /\ Moves(task[t], k) /\ KeepsSlot(task[t], k) /\ Stays(task[t], k)
        /\ k.asked
    BY <2>2, StopMoves
  <2> HIDE DEF k
  <2>5. task'[t] = k /\ stop'.task = t
    BY <1>0, <2>1, <2>2, <2>3 DEF Step, SafeInv, TaskTypeOK
  <2>6. StopKnown' BY <2>2, <2>4, <2>5 DEF StopKnown, Moves
  <2> QED BY <2>2, <2>3, <2>4, <2>6, OneTaskOnly
<1>3. CASE StopResolve
  <2>1. PICK t : t = active OBVIOUS
  <2> DEFINE k == RefreshTurn(task[t], "weclaw")
  <2>2. t \in Tasks /\ task[t].pc # "idle" BY <1>0, <1>3, <2>1 DEF StopResolve
  <2>3. Step(t, k) /\ UNCHANGED <<active, msg, guide>>
        /\ stop' = [pc |-> "resolved", task |-> t]
    BY <1>3, <2>1 DEF StopResolve
  <2>4. k \in Task /\ Moves(task[t], k) /\ KeepsSlot(task[t], k) /\ Stays(task[t], k)
    BY <2>2, RefreshMoves
  <2> HIDE DEF k
  <2>5. task'[t] = k BY <2>2, <2>3 DEF Step, SafeInv, TaskTypeOK
  <2>6. StopKnown' BY <2>2, <2>3, <2>4, <2>5 DEF StopKnown, Moves
  <2> QED BY <2>2, <2>3, <2>4, <2>6, OneTaskOnly
<1>4. CASE StopGivesUp BY <1>4, NoTaskMoves DEF StopGivesUp, StopIdle, StopKnown
<1>5. CASE StopInterrupts
  <2>1. PICK t : t = stop.task OBVIOUS
  <2> DEFINE k == [task[t] EXCEPT !.cut = task[t].verdict = "none"]
  <2>2. t \in Tasks /\ task[t].pc # "idle" /\ (task[t].pc = "end" \/ task[t].asked)
    BY <1>0, <1>5, <2>1 DEF StopInterrupts
  <2>3. Step(t, k) /\ UNCHANGED <<active, msg, guide>>
        /\ stop' = [stop EXCEPT !.pc = "accepted"]
    BY <1>5, <2>1 DEF StopInterrupts
  <2>4. k \in Task /\ Moves(task[t], k) /\ KeepsSlot(task[t], k) /\ Stays(task[t], k)
    BY <2>2, StopMoves
  <2> HIDE DEF k
  <2>5. task'[t] = k /\ stop'.task = t
    BY <1>0, <2>1, <2>2, <2>3 DEF Step, SafeInv, TaskTypeOK
  <2>6. StopKnown' BY <2>2, <2>4, <2>5 DEF StopKnown, Moves
  <2> QED BY <2>2, <2>3, <2>4, <2>6, OneTaskOnly
<1>6. CASE StopRejected \/ StopCommit
  <2>1. PICK t : t = stop.task OBVIOUS
  <2>2. t \in Tasks /\ task[t].pc # "idle" /\ (task[t].pc = "end" \/ task[t].asked)
    BY <1>0, <1>6, <2>1 DEF StopRejected, StopCommit
  <2>3. PICK k \in Task : /\ Step(t, k) /\ Moves(task[t], k) /\ KeepsSlot(task[t], k)
                          /\ Stays(task[t], k)
    BY <1>6, <2>1, <2>2, StopMoves DEF StopRejected, StopCommit
  <2>4. StopKnown' /\ UNCHANGED <<active, msg, guide>>
    BY <1>6 DEF StopRejected, StopCommit, StopIdle, StopKnown
  <2> QED BY <2>2, <2>3, <2>4, OneTaskOnly
<1> QED BY <1>1, <1>2, <1>3, <1>4, <1>5, <1>6

\* A pending message waits at its task, also when a guide is sending it.
LEMMA PendingPlace ==
  ASSUME SafeInv, NEW t \in Tasks, task[t].pending # NoMsg
  PROVE  /\ task[t].pending \in Msgs
         /\ msg[task[t].pending].at = t
         /\ msg[task[t].pending].pc \in {"queued", "steering"}
<1>1. Held(t) BY DEF SafeInv, PendingHeld
<1> QED BY <1>1, SlotTypes DEF Held, At, SafeInv

\* /cancel, and a /guide on the task itself, take the message out of the slot.
LEMMA SafeSlot ==
  ASSUME SafeInv, TaskTypeOK', NEW card, Cancel(card) \/ GuideLocal(card)
  PROVE  SafeInv' /\ KeepsTerminal
<1>1. PICK t : t = active OBVIOUS
<1>2. t \in Tasks /\ task[t] \in Task /\ task[t].pending # NoMsg /\ UNCHANGED <<active, guide, stop>>
  BY <1>1, SlotTypes DEF Cancel, GuideLocal, ActsLocally, SafeInv
<1>3. PICK m \in Msgs : m = task[t].pending /\ msg[m].at = t /\ msg[m].pc \in {"queued", "steering"}
  BY <1>2, PendingPlace
<1>4. \A x \in Msgs : x # m => msg'[x] = msg[x]
  BY <1>1, <1>3 DEF Cancel, GuideLocal, SafeInv, TaskTypeOK
<1>5. MessagesFlow(t) BY <1>3, <1>4 DEF MessagesFlow
<1>6. PICK k \in Task : /\ Step(t, k) /\ Moves(task[t], k) /\ Stays(task[t], k)
                        /\ k.pending = NoMsg
  <2> DEFINE c == ClearPending(task[t])
             d == [c EXCEPT !.detached = TRUE, !.canceled = TRUE]
  <2>1. c \in Task BY <1>2, CommandUpdates
  <2>2. Moves(task[t], c) /\ Stays(task[t], c) /\ c.pending = NoMsg /\ c.pc = task[t].pc
        /\ c.phase = task[t].phase /\ c.asked = task[t].asked /\ c.turn = task[t].turn
        /\ c.pendingSteering = task[t].pendingSteering
    BY <1>2, TaskFacts DEF ClearPending, Moves, Stays, Task
  <2>3. Step(t, c) \/ Step(t, d) BY <1>1 DEF Cancel, GuideLocal
  <2> HIDE DEF c
  <2>4. d \in Task BY <2>1 DEF Task
  <2>5. Moves(task[t], d) /\ Stays(task[t], d) /\ d.pending = NoMsg
    BY <2>1, <2>2 DEF Moves, Stays, Task
  <2> QED BY <2>1, <2>2, <2>3, <2>4, <2>5
<1>7. Held(t)' BY <1>2, <1>6 DEF Held, Step, SafeInv, TaskTypeOK
<1> QED BY <1>2, <1>5, <1>6, <1>7, OneTaskMoves DEF GuideFlows

\* takeExternalCodexGuideExpected: from now on the guide holds the message.
LEMMA SafeTake ==
  ASSUME SafeInv, TaskTypeOK', NEW card, GuideTake(card)
  PROVE  SafeInv' /\ KeepsTerminal
<1>1. PICK t : t = active OBVIOUS
<1> DEFINE k == TakeGuide(task[t])
<1>2. t \in Tasks /\ task[t] \in Task /\ task[t].pending # NoMsg
      /\ UNCHANGED <<active, stop>> /\ guide.pc = "resolved" /\ Step(t, k)
      /\ task[t].turn
  BY <1>1, SlotTypes DEF GuideTake, CanControl, SafeInv
<1>3. PICK m \in Msgs : m = task[t].pending /\ msg[m].at = t /\ msg[m].pc \in {"queued", "steering"}
  BY <1>2, PendingPlace
<1>4. /\ msg'[m] = At("steering", t) /\ guide' = [pc |-> "sending", task |-> t, msg |-> m]
      /\ \A x \in Msgs : x # m => msg'[x] = msg[x]
  BY <1>1, <1>3 DEF GuideTake, SafeInv, TaskTypeOK
<1>5. k \in Task BY <1>2, CommandUpdates
<1>6. Moves(task[t], k) /\ Stays(task[t], k) /\ k.pending = m /\ k.pendingSteering = TRUE
  BY <1>2, <1>3, TaskFacts DEF TakeGuide, Moves, Stays, Task
<1> HIDE DEF k
<1>7. task'[t] = k BY <1>2 DEF Step, SafeInv, TaskTypeOK
<1>8. Held(t)' BY <1>4, <1>6, <1>7 DEF Held
<1>9. MessagesFlow(t) BY <1>3, <1>4 DEF MessagesFlow
<1> QED BY <1>2, <1>5, <1>6, <1>8, <1>9, OneTaskMoves DEF GuideFlows

\* finishExternalCodexGuide empties the slot only if the guide still holds it.
LEMMA SafeDone ==
  ASSUME SafeInv, TaskTypeOK', GuideDone
  PROVE  SafeInv' /\ KeepsTerminal
<1>1. PICK t : t = guide.task OBVIOUS
<1> DEFINE k == FinishGuide(task[t])
<1>2. Step(t, k) /\ UNCHANGED <<active, stop>> /\ guide.pc = "sending"
  BY <1>1 DEF GuideDone
<1>3. \A x \in Msgs :
        \/ msg'[x] = msg[x]
        \/ msg[x].pc = "steering" /\ msg'[x].pc = "end"
  BY DEF GuideDone, At, SafeInv, TaskTypeOK
<1>4. \A u \in Tasks : u # t => task'[u] = task[u] BY <1>2 DEF Step, SafeInv, TaskTypeOK
<1>5. ASSUME NEW u \in Tasks, u # t PROVE Held(u)'
  BY <1>4, <1>5, <1>1, SlotTypes, <1>3 DEF SafeInv, PendingHeld, Held, At
<1>6. CASE t \notin Tasks
  BY <1>2, <1>6, <1>5, <1>3 DEF Step, SafeInv, TaskTypeOK, PendingHeld, WaitingNotRun, IdleFresh, DoneClosedOnce, ActiveKnown,
     DeliveryClaimed, StopsAsked, SteeredTurnKnown, KeepsTerminal
<1>7. CASE t \in Tasks
  <2>0. task[t] \in Task /\ k \in Task BY <1>7, TaskFacts, CommandUpdates
  <2>1. task'[t] = k BY <1>2, <1>7 DEF Step, SafeInv, TaskTypeOK
  <2>2. Moves(task[t], k) /\ Stays(task[t], k)
        /\ (k.pending = NoMsg \/ (k = task[t] /\ ~task[t].pendingSteering))
    <3>1. CASE task[t].pendingSteering
      BY <3>1, <1>7, <2>0, TaskFacts DEF FinishGuide, Moves, Stays, Task
    <3>2. CASE ~task[t].pendingSteering
      <4>1. k = task[t] BY <3>2 DEF FinishGuide
      <4> HIDE DEF k
      <4> QED BY <1>7, <2>0, <3>2, <4>1, TaskFacts DEF Moves, Stays
    <3> QED BY <3>1, <3>2
  <2> HIDE DEF k
  <2>3. Held(t)' BY <2>1, <1>7, SlotTypes, <1>3, <2>2 DEF Held, SafeInv, PendingHeld, At
  <2>4. PendingHeld' BY <1>5, <2>3 DEF PendingHeld
  <2>5. WaitingNotRun'
    <3> SUFFICES ASSUME NEW x \in Msgs, msg'[x].pc \notin {"running", "end"}
                 PROVE  task'[x].pc = "idle"
      BY DEF WaitingNotRun
    <3>1. task[x].pc = "idle" /\ x \in Tasks
      BY <1>3, SlotTypes DEF SafeInv, WaitingNotRun
    <3> QED BY <1>4, <2>1, <2>2, <3>1 DEF Moves
  <2>6. IdleFresh' /\ DoneClosedOnce' /\ ActiveKnown' /\ DeliveryClaimed' /\ StopsAsked'
        /\ KeepsTerminal /\ SteeredTurnKnown'
    BY <1>2, <1>7, <2>0, <2>2, TaskMoves
  <2> QED BY <2>4, <2>5, <2>6 DEF SafeInv
<1> QED BY <1>6, <1>7

\* What a release or a drain does to the pending message of the active task.
LEMMA DropFlows ==
  ASSUME SafeInv, NEW t \in Tasks, DropQueued(task[t])
  PROVE  MessagesFlow(t)
<1>1. CASE UNCHANGED msg BY <1>1 DEF MessagesFlow
<1>2. CASE task[t].pending # NoMsg /\ Leaves(task[t].pending, {})
  BY <1>2, PendingPlace DEF Leaves, SafeInv, TaskTypeOK, MessagesFlow
<1> QED BY <1>1, <1>2 DEF DropQueued

\* detachCodexFrontendTaskWithOptions
LEMMA SafeRelease ==
  ASSUME SafeInv, TaskTypeOK', Release
  PROVE  SafeInv' /\ KeepsTerminal
<1>1. PICK t : t = active OBVIOUS
<1> DEFINE c == task[t].canceled \/ t \in Watches
           o == task[t].observed /\ t \in Watches
           r == [task[t] EXCEPT !.detached = TRUE, !.pending = NoMsg,
                                !.pendingSteering = FALSE, !.canceled = c, !.observed = o,
                                !.released = TRUE]
           k == Closed(r)
<1>2. t \in Tasks /\ task[t] \in Task /\ task[t].phase # "terminal" /\ task[t].pc # "idle"
  BY <1>1, SlotTypes DEF Release, SafeInv, ActiveKnown
<1>3. Step(t, k) /\ DropQueued(task[t]) /\ active' = NoTask /\ UNCHANGED <<guide, stop>>
  BY <1>1 DEF Release
<1>4. c \in BOOLEAN /\ o \in BOOLEAN BY <1>2 DEF Task
<1> HIDE DEF c, o
<1>5. r \in Task BY <1>2, <1>4 DEF Task
<1>6. /\ r.pc = task[t].pc /\ r.phase = task[t].phase /\ r.asked = task[t].asked
      /\ r.verdict = task[t].verdict /\ r.closes = task[t].closes /\ r.pending = NoMsg
      /\ r.pendingSteering = FALSE
  BY <1>2 DEF Task
<1> HIDE DEF r
<1>7. k \in Task BY <1>5, GoroutineUpdates
<1>8. /\ k.closes = task[t].closes + 1 /\ k.pc = task[t].pc /\ k.phase = task[t].phase /\ k.asked = task[t].asked
      /\ k.verdict = task[t].verdict /\ k.pending = NoMsg /\ k.pendingSteering = FALSE
  BY <1>5, <1>6 DEF Closed, Task
<1> HIDE DEF k
<1>9. task[t].pc # "deliver" BY <1>2, TaskFacts
<1>10. Moves(task[t], k) BY <1>2, <1>8, <1>9, TaskFacts DEF Moves
<1>11. Held(t)' BY <1>2, <1>3, <1>8 DEF Held, Step, SafeInv, TaskTypeOK
<1> QED BY <1>1, <1>2, <1>3, <1>7, <1>8, <1>10, <1>11, DropFlows, OneTaskMoves DEF GuideFlows

\* A forced drain.
LEMMA SafeDrain ==
  ASSUME SafeInv, TaskTypeOK', DrainForce
  PROVE  SafeInv' /\ KeepsTerminal
<1>1. PICK t : t = active OBVIOUS
<1> DEFINE k == DrainedTask(t, task[t])
<1>2. t \in Tasks /\ task[t] \in Task /\ task[t].phase # "terminal" /\ task[t].pc # "idle"
  BY <1>1, SlotTypes DEF DrainForce, Running, SafeInv, ActiveKnown
<1>3. Step(t, k) /\ DropQueued(task[t]) /\ UNCHANGED <<active, guide, stop>>
  BY <1>1 DEF DrainForce
<1>4. k \in Task BY <1>2, CommandUpdates
<1>5. /\ k.pc = task[t].pc /\ k.released = task[t].released /\ k.pending = NoMsg
      /\ k.verdict = task[t].verdict /\ k.closes = task[t].closes /\ k.turn = task[t].turn
      /\ k.pendingSteering = task[t].pendingSteering
      /\ (k.phase = task[t].phase /\ k.asked = task[t].asked) \/ k.asked = TRUE
  BY <1>2 DEF DrainedTask, Task
<1> HIDE DEF k
<1>6. task[t].pc # "deliver" BY <1>2, TaskFacts
<1>7. Moves(task[t], k) /\ Stays(task[t], k)
  BY <1>2, <1>5, <1>6, TaskFacts DEF Moves, Stays
<1>8. Held(t)' BY <1>2, <1>3, <1>5 DEF Held, Step, SafeInv, TaskTypeOK
<1> QED BY <1>2, <1>3, <1>4, <1>7, <1>8, DropFlows, OneTaskMoves DEF GuideFlows

\* The rest of /guide, the release of a window and the drains.
LEMMA SafeCommand ==
  ASSUME SafeInv, TaskTypeOK', Command
  PROVE  SafeInv' /\ KeepsTerminal
<1>1. CASE GuideResolve
  <2>1. PICK t : t = active OBVIOUS
  <2>2. t \in Tasks /\ guide.pc = "idle" /\ UNCHANGED <<active, msg, stop>>
    BY <1>1, <2>1, SlotTypes DEF GuideResolve, ControlFree, GuideIdle, SafeInv
  <2>3. PICK r \in {"weclaw", "desktop"} : Step(t, RefreshTurn(task[t], r))
    BY <1>1, <2>1 DEF GuideResolve
  <2> DEFINE k == RefreshTurn(task[t], r)
  <2>4. k \in Task /\ Moves(task[t], k) /\ KeepsSlot(task[t], k) /\ Stays(task[t], k)
    BY <2>2, RefreshMoves
  <2>5. Step(t, k) BY <2>3
  <2> HIDE DEF k
  <2>6. Held(t)'
    BY <2>2, <2>5, <2>4 DEF Step, SafeInv, PendingHeld, TaskTypeOK, Held, KeepsSlot
  <2> QED BY <2>2, <2>4, <2>5, <2>6, OneTaskMoves DEF MessagesFlow, GuideFlows
<1>2. CASE GuideFails \/ DrainRefused \/ DrainIdle \/ CancelDrain
  BY <1>2, NoTaskMoves DEF GuideFails, DrainRefused, DrainIdle, CancelDrain
<1> QED BY <1>1, <1>2, SafeDone, SafeStop, SafeRelease, SafeDrain DEF Command

--------------------

\* The initial state satisfies the invariant.
LEMMA SafeInit == Init => SafeInv
<1> SUFFICES ASSUME Init PROVE SafeInv OBVIOUS
<1>1. \A t \in Tasks : /\ task[t].pc = "idle" /\ task[t].phase = "running"
                       /\ task[t].pending = NoMsg /\ ~task[t].released
                       /\ task[t].verdict = "none" /\ ~task[t].pendingSteering
  BY DEF Init, Unused, NewTask
<1>2. active = NoTask /\ stop.pc = "idle" BY DEF Init, StopIdle
<1>3. IdleFresh /\ DoneClosedOnce /\ ActiveKnown /\ DeliveryClaimed /\ SteeredTurnKnown
  BY <1>1, <1>2 DEF IdleFresh, DoneClosedOnce, ActiveKnown, DeliveryClaimed, SteeredTurnKnown
<1>4. PendingHeld /\ StopsAsked BY <1>1, <1>2 DEF PendingHeld, Held, StopsAsked
<1>5. WaitingNotRun BY <1>1 DEF WaitingNotRun, Tasks
<1> QED BY <1>3, <1>4, <1>5, TaskTypeInit DEF SafeInv

\* Every step keeps it.
LEMMA SafeNext == SafeInv /\ [Next]_vars => SafeInv' /\ KeepsTerminal
<1> SUFFICES ASSUME SafeInv, [Next]_vars PROVE SafeInv' /\ KeepsTerminal OBVIOUS
<1>0. TaskTypeOK' BY TaskTypeNext DEF SafeInv
<1>1. CASE UNCHANGED vars BY <1>0, <1>1, NoTaskMoves DEF vars
<1>2. ASSUME NEW m \in Msgs, MsgStep(m) PROVE SafeInv' /\ KeepsTerminal
  BY <1>0, <1>2, SafeMsg
<1>3. ASSUME NEW t \in Tasks, TaskStep(t) PROVE SafeInv' /\ KeepsTerminal
  BY <1>0, <1>3, SafeTask
<1>4. ASSUME NEW card, CardStep(card) PROVE SafeInv' /\ KeepsTerminal
  BY <1>0, <1>4, SafeSlot, SafeTake, SafeStop DEF CardStep
<1>5. CASE Command BY <1>0, <1>5, SafeCommand
<1> QED BY <1>1, <1>2, <1>3, <1>4, <1>5 DEF Next

\* The invariant holds in every behaviour.
LEMMA SafeAlways == Spec => []SafeInv
BY SafeInit, SafeNext, PTL DEF Spec

\* However the end of a run, the release of its window, the cancellation of a
\* reservation and the end of an observer race, the done channel of a task is closed
\* exactly once, in the critical section that takes the task out of the index.
THEOREM DoneSafe == Spec => []DoneClosedOnce
<1>1. SafeInv => DoneClosedOnce BY DEF SafeInv
<1> QED BY <1>1, SafeAlways, PTL

\* A window that was released never gets the final reply of the task it gave up:
\* claimActiveTaskTerminal and the release exclude each other.
THEOREM ReleasedSilent == Spec => []ReleasedWindowSilent
<1>1. SafeInv => ReleasedWindowSilent
  BY DEF SafeInv, DeliveryClaimed, ReleasedWindowSilent
<1> QED BY <1>1, SafeAlways, PTL

\* A task is reported as stopped only if a /stop for that task, or a drain, came first,
\* also when the answer of the host to a remote stop arrives after the task has ended.
THEOREM StopsWereAsked == Spec => []StoppedOnlyIfAsked
<1>1. SafeInv => StoppedOnlyIfAsked BY DEF SafeInv, StopsAsked, StoppedOnlyIfAsked
<1> QED BY <1>1, SafeAlways, PTL

\* A task that reached its terminal phase keeps it: neither the answer to a remote stop
\* nor a reconnect nor a drain that comes late reopens it.
THEOREM TerminalsStand == Spec => TerminalStands
<1>1. SafeInv /\ [Next]_vars =>
        [\A t \in Tasks : task[t].phase = "terminal" => task'[t].phase = "terminal"]_vars
  BY SafeNext DEF KeepsTerminal
<1> QED BY <1>1, SafeAlways, PTL DEF Spec, TerminalStands

--------------------
(* Every input at most once.                                               *)

\* A step that revives no message, notes nothing about being run or steered and
\* leaves the message of a guide in flight alone.
LEMMA OnceKeeps ==
  ASSUME OnceInv,
         \A x \in Msgs :
           /\ msg[x].pc \in {"running", "end"} => msg'[x].pc \in {"running", "end"}
           /\ \A w \in {"run", "rerun", "steered"} : w \in fate'[x] => w \in fate[x],
         guide'.pc = "sending" =>
           guide' = guide /\ (guide.msg \in Msgs => msg'[guide.msg] = msg[guide.msg])
  PROVE  OnceInv'
<1>1. InputOnce' BY DEF OnceInv, InputOnce
<1>2. WaitingNotSeen' BY DEF OnceInv, WaitingNotSeen
<1>3. SentIsSteering' BY DEF OnceInv, SentIsSteering
<1> QED BY <1>1, <1>2, <1>3 DEF OnceInv

\* What is noted about a message.
LEMMA Notes ==
  ASSUME TaskTypeOK, NEW m, NEW what, Became(m, what)
  PROVE  \A x \in Msgs : fate'[x] = IF x = m THEN fate[x] \cup what ELSE fate[x]
BY DEF Became, TaskTypeOK

\* A message that was neither run nor steered is run, or steered.
LEMMA OneNote ==
  ASSUME InputOnce, NEW m \in Msgs, NEW what \in {{}, {"run"}, {"steered"}},
         fate[m] \cap {"run", "steered"} = {}, "rerun" \notin fate[m],
         \A x \in Msgs : fate'[x] = IF x = m THEN fate[x] \cup what ELSE fate[x]
  PROVE  InputOnce'
<1> SUFFICES ASSUME NEW x \in Msgs
             PROVE  "rerun" \notin fate'[x] /\ ~("run" \in fate'[x] /\ "steered" \in fate'[x])
  BY DEF InputOnce
<1>1. CASE x # m BY <1>1 DEF InputOnce
<1>2. CASE x = m
  <2>1. "rerun" \notin what /\ ~("run" \in what /\ "steered" \in what) OBVIOUS
  <2>2. "run" \notin fate[m] /\ "steered" \notin fate[m] OBVIOUS
  <2>3. \A w : w \in fate'[m] <=> w \in fate[m] \/ w \in what OBVIOUS
  <2> QED BY <1>2, <2>1, <2>2, <2>3
<1> QED BY <1>1, <1>2

\* A command acts on a message and notes nothing but that its card went astray.
LEMMA ActedNotes ==
  ASSUME TaskTypeOK, NEW card, NEW m, ActedOn(card, m)
  PROVE  \A x \in Msgs, w \in {"run", "rerun", "steered"} : w \in fate'[x] => w \in fate[x]
<1>1. PICK what \in {{}, {"astray"}} : Became(m, what) BY DEF ActedOn
<1>2. \A x \in Msgs : fate'[x] = IF x = m THEN fate[x] \cup what ELSE fate[x]
  BY <1>1, Notes
<1>3. "run" \notin what /\ "rerun" \notin what /\ "steered" \notin what BY <1>1
<1> QED BY <1>2, <1>3

\* The goroutines: only a promotion touches messages, and none that a guide is sending.
LEMMA OnceTask ==
  ASSUME SafeInv, OnceInv, NEW t \in Tasks, TaskStep(t)
  PROVE  OnceInv'
<1>1. UNCHANGED <<guide, fate>> /\ (UNCHANGED msg \/ Complete(t))
  BY DEF TaskStep, Progresses, RunBegin, RunReturns, Claim, Deliver, Unlock, Complete,
         Activate, ActivateFails, WatchReturns, Reconcile, ReconcileTimesOut, SettingsEnd,
         TurnStarted, TurnInterrupted, RunDetaches, Reserve, CancelReservation,
         ObserverReady, ObserverNotReady, Disconnect, Reconnect, WatchCanceled,
         SettingsBegin
<1>2. CASE UNCHANGED msg BY <1>1, <1>2, OnceKeeps
<1>3. CASE Complete(t)
  <2>1. task[t].pc = "complete" BY <1>3 DEF Complete
  <2>2. ASSUME NEW x \in Msgs
        PROVE  \/ msg'[x] = msg[x]
               \/ msg[x].pc = "queued"
               \/ msg[x].pc \in {"running", "end"} /\ msg'[x].pc = "end"
    <3>1. msg'[x] = IF active = t /\ x = Promotable(task[t]) THEN At("submit", NoTask)
                    ELSE IF x = t THEN At("end", NoTask) ELSE msg[x]
      BY <1>3 DEF Complete, Promote
    <3>2. CASE active = t /\ x = Promotable(task[t])
      <4>1. x # NoMsg BY TaskConstants
      <4>2. task[t].pending = x /\ ~task[t].pendingSteering BY <3>2, <4>1 DEF Promotable
      <4>3. msg[x] = At("queued", t) BY <4>1, <4>2 DEF SafeInv, PendingHeld, Held
      <4> QED BY <4>3 DEF At
    <3>3. CASE ~(active = t /\ x = Promotable(task[t])) /\ x = t
      BY <2>1, <3>1, <3>3 DEF SafeInv, WaitingNotRun, At
    <3> QED BY <3>1, <3>2, <3>3
  <2>3. guide.pc = "sending" => msg'[guide.msg] = msg[guide.msg]
    BY <2>2 DEF OnceInv, SentIsSteering
  <2> QED BY <1>1, <2>2, <2>3, OnceKeeps
<1> QED BY <1>1, <1>2, <1>3

\* The submissions: a message is run, or steered, from where it waits.
LEMMA OnceMsg ==
  ASSUME SafeInv, OnceInv, NEW m \in Msgs, MsgStep(m)
  PROVE  OnceInv'
<1>0. TaskTypeOK /\ msg \in [Msgs -> [pc : MsgPcs, at : Tasks \cup {NoTask}]]
  BY DEF SafeInv, TaskTypeOK
<1>1. /\ UNCHANGED guide /\ msg[m].pc \notin {"queued", "steering", "running", "end"}
      /\ \A x \in Msgs : x # m => msg'[x] = msg[x]
  BY <1>0 DEF MsgStep, SubmitStep, Send, Refuse, SteerBegin, AdmitRefused, AdmitStarts,
              AdmitQueues, CanQueue, Admitting, SteerReturns, AwaitDone, AwaitTimesOut,
              GuideResend, GuideAbandoned, Leaves
<1>2. PICK what : /\ \/ UNCHANGED fate /\ what = {}
                     \/ Became(m, what)
                  /\ \/ what = {}
                     \/ what \in {{"run"}, {"steered"}} /\ msg'[m].pc \in {"running", "end"}
  <2>1. CASE AdmitStarts(m)
    BY <1>1, <1>0, <2>1 DEF OnceInv, WaitingNotSeen, AdmitStarts, At
  <2>2. CASE SteerReturns(m) BY <1>0, <2>2 DEF Leaves, At, SteerReturns
  <2>3. CASE ~AdmitStarts(m) /\ ~SteerReturns(m)
    BY <2>3 DEF MsgStep, SubmitStep, Send, Refuse, SteerBegin, AdmitRefused,
                AdmitQueues, AwaitDone, AwaitTimesOut, GuideResend, GuideAbandoned, Leaves
  <2> QED BY <2>1, <2>2, <2>3
<1>3. \A x \in Msgs : fate'[x] = IF x = m THEN fate[x] \cup what ELSE fate[x]
  BY <1>0, <1>2, Notes
<1>4. fate[m] \cap {"run", "steered"} = {} /\ "rerun" \notin fate[m]
  BY <1>1 DEF OnceInv, WaitingNotSeen, InputOnce
<1>5. InputOnce' BY <1>2, <1>3, <1>4, OneNote DEF OnceInv
<1>6. WaitingNotSeen' BY <1>1, <1>2, <1>3, <1>4 DEF OnceInv, WaitingNotSeen
<1>7. SentIsSteering' BY <1>1 DEF OnceInv, SentIsSteering
<1> QED BY <1>5, <1>6, <1>7 DEF OnceInv

\* The commands that a card or a typed command starts, where no guide is late.
LEMMA OnceCard ==
  ASSUME SafeInv, OnceInv, "lateGuide" \notin Faults, NEW card, CardStep(card)
  PROVE  OnceInv'
<1>0. TaskTypeOK /\ msg \in [Msgs -> [pc : MsgPcs, at : Tasks \cup {NoTask}]]
  BY DEF SafeInv, TaskTypeOK
<1>1. CASE StopLocal(card) \/ StopBegin(card)
  BY <1>1, OnceKeeps DEF StopLocal, StopBegin
<1>2. CASE Cancel(card) \/ GuideLocal(card)
  <2>1. PICK t : t = active OBVIOUS
  <2>2. t \in Tasks /\ task[t].pending # NoMsg /\ UNCHANGED guide
        /\ ActedOn(card, task[t].pending)
    BY <1>2, <2>1, SlotTypes DEF Cancel, GuideLocal, ActsLocally, SafeInv
  <2>3. PICK m \in Msgs : m = task[t].pending BY <2>2, PendingPlace
  <2>4. msg'[m] = msg[m] \/ msg[m].pc = "queued"
    <3>1. CASE Cancel(card) BY <2>1, <2>3, <3>1 DEF Cancel
    <3>2. CASE GuideLocal(card)
      <4>1. ~task[t].pendingSteering
        BY <2>1, <2>2, <3>2, TaskFacts DEF GuideLocal, ActsLocally
      <4>2. msg[m] = At("queued", t) BY <2>2, <2>3, <4>1 DEF SafeInv, PendingHeld, Held
      <4> QED BY <4>2 DEF At
    <3> QED BY <1>2, <3>1, <3>2
  <2>5. \A x \in Msgs : x # m => msg'[x] = msg[x]
    BY <1>0, <1>2, <2>1, <2>3 DEF Cancel, GuideLocal
  <2>6. \A x \in Msgs, w \in {"run", "rerun", "steered"} : w \in fate'[x] => w \in fate[x]
    BY <1>0, <2>2, ActedNotes
  <2>7. guide.pc = "sending" => msg'[guide.msg] = msg[guide.msg]
    BY <2>4, <2>5 DEF OnceInv, SentIsSteering
  <2> QED BY <2>2, <2>4, <2>5, <2>6, <2>7, OnceKeeps
<1>3. CASE GuideTake(card)
  <2>1. PICK t : t = active OBVIOUS
  <2>2. t \in Tasks /\ task[t].pending # NoMsg /\ ActedOn(card, task[t].pending)
    BY <1>3, <2>1, SlotTypes DEF GuideTake, SafeInv
  <2>3. PICK m \in Msgs : m = task[t].pending /\ msg[m].pc \in {"queued", "steering"}
    BY <2>2, PendingPlace
  <2>4. /\ msg'[m].pc = "steering" /\ guide'.msg = m
        /\ \A x \in Msgs : x # m => msg'[x] = msg[x]
    BY <1>0, <1>3, <2>1, <2>3 DEF GuideTake, At
  <2>5. \A x \in Msgs, w \in {"run", "rerun", "steered"} : w \in fate'[x] => w \in fate[x]
    BY <1>0, <2>2, ActedNotes
  <2>6. InputOnce' BY <2>5 DEF OnceInv, InputOnce
  <2>7. WaitingNotSeen' BY <2>3, <2>4, <2>5 DEF OnceInv, WaitingNotSeen
  <2>8. SentIsSteering' BY <2>3, <2>4 DEF SentIsSteering
  <2> QED BY <2>6, <2>7, <2>8 DEF OnceInv
<1> QED BY <1>1, <1>2, <1>3 DEF CardStep

\* The rest of the commands: a guide that was sent settles the message it holds.
LEMMA OnceCommand ==
  ASSUME SafeInv, OnceInv, Command
  PROVE  OnceInv'
<1>0. TaskTypeOK /\ msg \in [Msgs -> [pc : MsgPcs, at : Tasks \cup {NoTask}]]
  BY DEF SafeInv, TaskTypeOK
<1>1. CASE GuideDone
  <2>1. PICK what \in {{"steered"}, {}} : Became(guide.msg, what) BY <1>1 DEF GuideDone
  <2>2. PICK m \in Msgs : m = guide.msg /\ msg[m].pc = "steering"
    BY <1>1 DEF GuideDone, OnceInv, SentIsSteering
  <2>3. \A x \in Msgs : fate'[x] = IF x = m THEN fate[x] \cup what ELSE fate[x]
    BY <1>0, <2>1, <2>2, Notes
  <2>4. /\ msg'[m].pc = "end" /\ guide'.pc = "idle"
        /\ \A x \in Msgs : x # m => msg'[x] = msg[x]
    BY <1>0, <1>1, <2>2 DEF GuideDone, GuideIdle, At
  <2>5. fate[m] \cap {"run", "steered"} = {} /\ "rerun" \notin fate[m]
    BY <2>2 DEF OnceInv, WaitingNotSeen, InputOnce
  <2>6. InputOnce' BY <2>1, <2>3, <2>5, OneNote DEF OnceInv
  <2>7. WaitingNotSeen' BY <2>3, <2>4 DEF OnceInv, WaitingNotSeen
  <2>8. SentIsSteering' BY <2>4 DEF SentIsSteering
  <2> QED BY <2>6, <2>7, <2>8 DEF OnceInv
<1>2. CASE Release \/ DrainForce
  <2>1. PICK t : t = active OBVIOUS
  <2>2. t \in Tasks /\ DropQueued(task[t]) /\ UNCHANGED guide
    BY <1>2, <2>1, SlotTypes DEF Release, DrainForce, SafeInv
  <2>3. \A x \in Msgs : msg'[x] = msg[x] \/ msg[x].pc = "queued"
    BY <1>0, <2>2 DEF DropQueued, Leaves
  <2>4. \A x \in Msgs : fate'[x] = fate[x]
    <3>1. CASE UNCHANGED fate BY <3>1
    <3>2. CASE Became(task[t].pending, {}) BY <1>0, <3>2, Notes
    <3> QED BY <2>2, <3>1, <3>2 DEF DropQueued, Leaves
  <2>5. guide.pc = "sending" => msg'[guide.msg] = msg[guide.msg]
    BY <2>3 DEF OnceInv, SentIsSteering
  <2> QED BY <2>2, <2>3, <2>4, <2>5, OnceKeeps
<1>3. CASE ~GuideDone /\ ~Release /\ ~DrainForce
  BY <1>3, OnceKeeps DEF Command, GuideResolve, GuideFails, StopResolve, StopGivesUp, StopInterrupts, StopRejected, StopCommit,
     DrainRefused, DrainIdle, CancelDrain, GuideIdle
<1> QED BY <1>1, <1>2, <1>3

\* Unless a guide acts on a later state than it looked at, an input reaches the agent at
\* most once: it is not run twice, and what was steered into a turn is not run as well,
\* whichever way the end of the task, a guide in flight and a promotion interleave.
THEOREM InputsOnce ==
  ASSUME "lateGuide" \notin Faults
  PROVE  Spec => []InputOnce
<1>1. Init => OnceInv
  BY DEF Init, GuideIdle, OnceInv, InputOnce, WaitingNotSeen, SentIsSteering
<1>2. SafeInv /\ OnceInv /\ [Next]_vars => OnceInv'
  <2> SUFFICES ASSUME SafeInv, OnceInv, [Next]_vars PROVE OnceInv' OBVIOUS
  <2>1. CASE UNCHANGED vars BY <2>1, OnceKeeps DEF vars
  <2>2. CASE Next BY <2>2, OnceTask, OnceMsg, OnceCard, OnceCommand DEF Next
  <2> QED BY <2>1, <2>2
<1>3. OnceInv => InputOnce BY DEF OnceInv
<1> QED BY <1>1, <1>2, <1>3, SafeAlways, PTL DEF Spec

--------------------
(* A card acts on its own message.                                         *)

\* A note that does not say "astray" keeps every card on its message.
LEMMA NoteKeepsCards ==
  ASSUME TaskTypeOK, CardsActOnTheirMessage, NEW m, NEW what, "astray" \notin what, Became(m, what)
  PROVE  CardsActOnTheirMessage'
BY Notes DEF CardsActOnTheirMessage

\* matchesPendingTaskControlLocked: a card that matches names the pending message.
LEMMA MatchingCardKeeps ==
  ASSUME TaskTypeOK, CardsActOnTheirMessage, NEW card \in cards \cup {NoCard}, NEW t,
         Matches(card, t), ActedOn(card, task[t].pending)
  PROVE  CardsActOnTheirMessage'
<1>1. card \in {NoCard, [card EXCEPT !.msg = task[t].pending]}
  BY DEF Matches, TaskTypeOK
<1>2. Became(task[t].pending, {}) BY <1>1 DEF ActedOn
<1> QED BY <1>2, NoteKeepsCards

\* Every step keeps every card on its message.
LEMMA CardsNext ==
  ASSUME TaskTypeOK, CardsActOnTheirMessage, [Next]_vars
  PROVE  CardsActOnTheirMessage'
<1>1. CASE UNCHANGED fate BY <1>1 DEF CardsActOnTheirMessage
<1>2. ASSUME NEW m \in Msgs, MsgStep(m) PROVE CardsActOnTheirMessage'
  <2>1. CASE AdmitStarts(m)
    <3>1. PICK what \in {{"run"}, {"rerun"}} : Became(m, what) BY <2>1 DEF AdmitStarts
    <3>2. "astray" \notin what OBVIOUS
    <3> QED BY <3>1, <3>2, NoteKeepsCards
  <2>2. CASE Leaves(m, {}) \/ Leaves(m, {"steered"})
    <3>1. PICK what \in {{}, {"steered"}} : Became(m, what) BY <2>2 DEF Leaves
    <3>2. "astray" \notin what OBVIOUS
    <3> QED BY <3>1, <3>2, NoteKeepsCards
  <2>3. UNCHANGED fate \/ AdmitStarts(m) \/ Leaves(m, {}) \/ Leaves(m, {"steered"})
    BY <1>2 DEF MsgStep, SubmitStep, Send, Refuse, SteerBegin, AdmitRefused, SteerReturns,
                AdmitQueues, AwaitDone, AwaitTimesOut, GuideResend, GuideAbandoned
  <2> QED BY <1>1, <2>1, <2>2, <2>3
<1>3. ASSUME NEW t \in Tasks, TaskStep(t) PROVE CardsActOnTheirMessage'
  <2>1. UNCHANGED fate
    BY <1>3 DEF TaskStep, Progresses, RunBegin, RunReturns, Claim, Deliver, Unlock, Complete,
         Activate, ActivateFails, WatchReturns, Reconcile, ReconcileTimesOut, SettingsEnd,
         TurnStarted, TurnInterrupted, RunDetaches, Reserve, CancelReservation,
         ObserverReady, ObserverNotReady, Disconnect, Reconnect, WatchCanceled, SettingsBegin
  <2> QED BY <1>1, <2>1
<1>4. ASSUME NEW card \in cards \cup {NoCard}, CardStep(card) PROVE CardsActOnTheirMessage'
  BY MatchingCardKeeps, <1>1, <1>4 DEF Cancel, GuideLocal, GuideTake, StopLocal, StopBegin, CardStep
<1>5. CASE Command
  <2>1. CASE GuideDone
    <3>1. PICK what \in {{"steered"}, {}} : Became(guide.msg, what)
      BY <2>1 DEF GuideDone
    <3>2. "astray" \notin what OBVIOUS
    <3> QED BY <3>1, <3>2, NoteKeepsCards
  <2>2. CASE Release \/ DrainForce
    BY <2>2, <1>1, NoteKeepsCards DEF Release, DrainForce, DropQueued, Leaves
  <2>3. CASE ~GuideDone /\ ~Release /\ ~DrainForce
    BY <1>5, <2>3, <1>1 DEF Command, GuideResolve, GuideFails, StopResolve, StopGivesUp, StopInterrupts, StopRejected,
       StopCommit, DrainRefused, DrainIdle, CancelDrain
  <2> QED BY <2>1, <2>2, <2>3
<1>6. CASE UNCHANGED vars BY <1>1, <1>6 DEF vars
<1> QED BY <1>2, <1>3, <1>4, <1>5, <1>6 DEF Next

\* What is over stays over, in any number of tasks, messages and commands and with every
\* fault: done is closed once, a released window hears nothing more, and a card pressed
\* late acts on its own message or on none (matchesPendingTaskControlLocked).
THEOREM OverStaysOver == Spec => []OverIsOver
<1>1. Init => CardsActOnTheirMessage BY DEF Init, CardsActOnTheirMessage
<1>2. SafeInv /\ CardsActOnTheirMessage /\ [Next]_vars => CardsActOnTheirMessage'
  BY CardsNext DEF SafeInv
<1>3. Spec => []CardsActOnTheirMessage BY <1>1, <1>2, SafeAlways, PTL DEF Spec
<1>4. DoneClosedOnce /\ ReleasedWindowSilent /\ CardsActOnTheirMessage => OverIsOver
  BY DEF OverIsOver
<1> QED BY <1>3, <1>4, DoneSafe, ReleasedSilent, PTL

--------------------
(* Nobody waits for nobody.                                                *)

\* A task in the index whose goroutine will take it out: no later step ends the goroutine
\* and leaves the task where it is.
Sound(t, k) ==
  /\ k.pc \notin {"idle", "end"}
  /\ k.pc \notin {"deliver", "unlock", "complete"} => k.phase # "terminal"
  /\ k.pc = "reserved" => t \in Watches /\ k.phase = "reserved"
  /\ t \in Watches => Agent = "codex" /\ k.turn /\ ~k.detached /\ (k.canceled => k.preserve)
  /\ t \in Settings => Agent = "claude" /\ k.pc = "exec"
  /\ ~k.observed => k.preserve

\* A task that a drain told to let go of its turn leaves the index without a look at its
\* slot; the entry stays closed until then.
ActiveSound ==
  active # NoTask => Sound(active, task[active]) /\ (task[active].preserve => draining)

\* The slot from which the end of the task promotes message m.
Promises(k, m) == k.pending = m /\ ~k.pendingSteering /\ ~k.preserve

QueuedPromised ==
  \A m \in Msgs : msg[m].pc = "queued" =>
    /\ active # NoTask /\ msg[m].at = active /\ active \notin Settings
    /\ Promises(task[active], m)

SteersAreCodex == \A m \in Msgs : msg[m].pc \in {"preflight", "await", "admit"} => Agent = "codex"

StopActivated == stop.pc # "idle" => task[stop.task].pc # "reserved"

HomeInv == ActiveSound /\ QueuedPromised /\ SteersAreCodex /\ StopActivated

\* What the types say of the task in the index.
LEMMA ActiveFacts ==
  ASSUME SafeInv, HomeInv, active # NoTask
  PROVE  active \in Tasks /\ task[active] \in Task /\ Sound(active, task[active])
BY SlotTypes DEF SafeInv, HomeInv, ActiveSound

\* One task moves and the index stays as it is.
LEMMA HomeStep ==
  ASSUME SafeInv, HomeInv, NEW t \in Tasks, NEW k \in Task, Step(t, k), UNCHANGED active,
         t = active => Sound(t, k) /\ (k.preserve => draining'),
         t # active => (draining => draining'),
         \A x \in Msgs : msg'[x].pc = "queued" => msg'[x] = msg[x] /\ (t = active => Promises(k, x)),
         SteersAreCodex', k.pc = "reserved" => task[t].pc = "reserved", UNCHANGED stop \/ StopActivated'
  PROVE  HomeInv'
<1>0. task'[t] = k /\ \A u \in Tasks : u # t => task'[u] = task[u]
  BY DEF Step, SafeInv, TaskTypeOK
<1>1. active # NoTask => active \in Tasks BY SlotTypes DEF SafeInv
<1>2. ActiveSound' BY <1>0, <1>1 DEF HomeInv, ActiveSound
<1>3. QueuedPromised' BY <1>0, <1>1 DEF HomeInv, QueuedPromised
<1>4. StopActivated' BY <1>0 DEF HomeInv, StopActivated, SafeInv, StopsAsked
<1> QED BY <1>2, <1>3, <1>4 DEF HomeInv

\* The task in the index leaves it, and no message is queued.
LEMMA HomeLeaves ==
  ASSUME SafeInv, HomeInv, NEW t \in Tasks, NEW k, Step(t, k), active' = NoTask,
         \A x \in Msgs : msg'[x].pc # "queued",
         SteersAreCodex', k.pc # "reserved", UNCHANGED stop
  PROVE  HomeInv'
<1>0. task'[t] = k /\ \A u \in Tasks : u # t => task'[u] = task[u]
  BY DEF Step, SafeInv, TaskTypeOK
<1>1. StopActivated' BY <1>0 DEF HomeInv, StopActivated, SafeInv, StopsAsked
<1> QED BY <1>1 DEF HomeInv, ActiveSound, QueuedPromised

\* A task starts: no message was queued before.
LEMMA HomeStarts ==
  ASSUME SafeInv, HomeInv, NEW t \in Tasks, NEW k, Step(t, k), active = NoTask, active' = t,
         task[t].pc = "idle", Sound(t, k), ~k.preserve,
         \A x \in Msgs : msg'[x].pc = "queued" => msg'[x] = msg[x],
         SteersAreCodex', UNCHANGED stop
  PROVE  HomeInv'
<1>0. task'[t] = k /\ \A u \in Tasks : u # t => task'[u] = task[u]
  BY DEF Step, SafeInv, TaskTypeOK
<1>1. StopActivated' BY <1>0 DEF HomeInv, StopActivated, SafeInv, StopsAsked
<1>2. QueuedPromised' BY DEF HomeInv, QueuedPromised
<1> QED BY <1>0, <1>1, <1>2 DEF HomeInv, ActiveSound

\* No task moves.
LEMMA HomeStill ==
  ASSUME SafeInv, HomeInv, UNCHANGED <<task, active>>, active # NoTask => (draining => draining'),
         \A x \in Msgs : msg'[x].pc = "queued" => msg'[x] = msg[x],
         SteersAreCodex', UNCHANGED stop \/ StopActivated'
  PROVE  HomeInv'
BY DEF HomeInv, ActiveSound, QueuedPromised, StopActivated

\* A step of a goroutine that touches the task alone.
LEMMA HomeQuiet ==
  ASSUME SafeInv, HomeInv, NEW t \in Tasks, NEW k \in Task, Step(t, k),
         UNCHANGED <<active, draining, msg, stop>>,
         t = active => Sound(t, k), k.pc # "reserved",
         k.pending = task[t].pending, k.pendingSteering = task[t].pendingSteering, k.preserve = task[t].preserve
  PROVE  HomeInv'
<1>1. \A x \in Msgs : msg[x].pc = "queued" => (t = active => Promises(k, x))
  BY DEF HomeInv, QueuedPromised, Promises
<1>2. t = active => (k.preserve => draining) BY TaskConstants DEF HomeInv, ActiveSound
<1>3. SteersAreCodex' BY DEF HomeInv, SteersAreCodex
<1> QED BY <1>1, <1>2, <1>3, HomeStep

\* finishActiveTask, where the task of the index is not terminal and has no message queued.
LEMMA HomeFinishes ==
  ASSUME SafeInv, HomeInv, NEW t \in Tasks, NEW k \in Task, FinishActive(t, k), k.pc # "reserved",
         active = t => k.phase # "terminal" /\ \A x \in Msgs : msg[x].pc # "queued",
         UNCHANGED <<draining, msg, stop>>
  PROVE  HomeInv'
<1>0. SteersAreCodex' BY DEF HomeInv, SteersAreCodex
<1>1. CASE active = t
  <2>1. Step(t, Ended(Closed(k))) /\ active' = NoTask BY <1>1 DEF FinishActive, Step
  <2>2. Ended(Closed(k)).pc # "reserved"
    BY DEF Ended, Closed, Retired, Unused, NewTask, Task
  <2> QED BY <1>0, <1>1, <2>1, <2>2, HomeLeaves
<1>2. CASE active # t
  BY <1>2, TaskBuilders, <1>0, HomeStep DEF FinishActive, Step, Ended, Retired, Unused, NewTask
<1> QED BY <1>1, <1>2

\* The goroutine of a task outside the index ends.
LEMMA HomeStops ==
  ASSUME SafeInv, HomeInv, NEW t \in Tasks, Stops(t), active # t, UNCHANGED <<active, draining, msg, stop>>
  PROVE  HomeInv'
<1>1. task[t] \in Task /\ Step(t, Retired(task[t])) BY TaskFacts DEF Stops, Step
<1>2. Retired(task[t]) \in Task /\ Retired(task[t]).pc # "reserved"
  BY <1>1, TaskBuilders DEF Retired, Unused, NewTask
<1>3. SteersAreCodex' BY DEF HomeInv, SteersAreCodex
<1>4. \A x \in Msgs : msg'[x].pc = "queued" => msg'[x] = msg[x] /\ (t = active => Promises(Retired(task[t]), x))
  OBVIOUS
<1> QED BY <1>1, <1>2, <1>3, <1>4, HomeStep

\* A task that a drain told to let go has no message queued.
LEMMA PreservedEmpty ==
  ASSUME HomeInv, active # NoTask, task[active].preserve \/ active \in Settings, NEW x \in Msgs
  PROVE  msg[x].pc # "queued"
BY DEF HomeInv, QueuedPromised, Promises

\* A step of a goroutine keeps the marks that releases, drains and guides leave.
Walks(k, k2) ==
  /\ k2.turn = k.turn /\ k2.detached = k.detached /\ k2.canceled = k.canceled
  /\ k2.preserve = k.preserve /\ k2.observed = k.observed
  /\ k2.pending = k.pending /\ k2.pendingSteering = k.pendingSteering

\* The steps of the goroutine of a task, where no observer fails and no reservation is canceled.
LEMMA HomeTask ==
  ASSUME SafeInv, HomeInv, Faults = {}, NEW t \in Tasks, TaskStep(t)
  PROVE  HomeInv'
<1>0. task[t] \in Task /\ NoTask \notin Tasks BY TaskFacts, SlotTypes DEF SafeInv
<1>s. \A k : Step(t, k) => task'[t] = k /\ Step(t, task'[t])
  BY DEF Step, SafeInv, TaskTypeOK
<1>n. TaskTypeOK' BY TaskTypeNext DEF SafeInv, Next
<1>a. t = active => Sound(t, task[t]) BY <1>0, ActiveFacts
<1>k. t \notin Msgs => t \in Watches \/ t \in Settings BY DEF Tasks
<1>q. ASSUME NEW k, Step(t, k), UNCHANGED <<active, draining, msg, stop>>, k \in Task,
             t = active => Sound(t, k), k.pc # "reserved",
             k.pending = task[t].pending, k.pendingSteering = task[t].pendingSteering, k.preserve = task[t].preserve
      PROVE  HomeInv'
  BY <1>q, HomeQuiet
<1>1. CASE RunBegin(t)
  <2> DEFINE k == [task[t] EXCEPT !.pc = "exec"]
  <2>1. k \in Task BY <1>0 DEF Task, Phases, Pcs
  <2>2. /\ t = active => Sound(t, k)
        /\ k.pc # "reserved" /\ k.pending = task[t].pending
        /\ k.pendingSteering = task[t].pendingSteering /\ k.preserve = task[t].preserve
    BY <1>0, <1>a, <1>1, TaskConstants DEF Sound, RunBegin, InProcessCodex, Task
  <2> HIDE DEF k
  <2>3. Step(t, k) /\ UNCHANGED <<active, draining, msg, stop>> BY <1>1 DEF RunBegin, k
  <2> QED BY <1>q, <2>1, <2>2, <2>3
<1>2. CASE Deliver(t)
  <2> DEFINE k == [task[t] EXCEPT !.pc = IF t \in Msgs THEN "unlock" ELSE "complete"]
  <2>1. k \in Task BY <1>0 DEF Task, Phases, Pcs
  <2>2. /\ t = active => Sound(t, k)
        /\ k.pc # "reserved" /\ k.pending = task[t].pending
        /\ k.pendingSteering = task[t].pendingSteering /\ k.preserve = task[t].preserve
    BY <1>0, <1>a, <1>2, TaskConstants DEF Sound, Deliver, InProcessCodex, Task
  <2> HIDE DEF k
  <2>3. Step(t, k) /\ UNCHANGED <<active, draining, msg, stop>> BY <1>2 DEF Deliver, k
  <2> QED BY <1>q, <2>1, <2>2, <2>3
<1>3. CASE Unlock(t)
  <2> DEFINE k == [task[t] EXCEPT !.pc = "complete"]
  <2>1. k \in Task BY <1>0 DEF Task, Phases, Pcs
  <2>2. /\ t = active => Sound(t, k)
        /\ k.pc # "reserved" /\ k.pending = task[t].pending
        /\ k.pendingSteering = task[t].pendingSteering /\ k.preserve = task[t].preserve
    BY <1>0, <1>a, <1>3, TaskConstants DEF Sound, Unlock, InProcessCodex, Task
  <2> HIDE DEF k
  <2>3. Step(t, k) /\ UNCHANGED <<active, draining, msg, stop>> BY <1>3 DEF Unlock, k
  <2> QED BY <1>q, <2>1, <2>2, <2>3
<1>4. CASE Activate(t)
  <2> DEFINE k == [task[t] EXCEPT !.phase = "running", !.pc = "watch"]
  <2>1. k \in Task BY <1>0 DEF Task, Phases, Pcs
  <2>2. /\ t = active => Sound(t, k)
        /\ k.pc # "reserved" /\ k.pending = task[t].pending
        /\ k.pendingSteering = task[t].pendingSteering /\ k.preserve = task[t].preserve
    BY <1>0, <1>a, <1>4, TaskConstants DEF Sound, Activate, InProcessCodex, Task
  <2> HIDE DEF k
  <2>3. Step(t, k) /\ UNCHANGED <<active, draining, msg, stop>> BY <1>4 DEF Activate, k
  <2> QED BY <1>q, <2>1, <2>2, <2>3
<1>5. CASE ReconcileTimesOut(t)
  <2> DEFINE k == [task[t] EXCEPT !.pc = "claim"]
  <2>1. k \in Task BY <1>0 DEF Task, Phases, Pcs
  <2>2. /\ t = active => Sound(t, k)
        /\ k.pc # "reserved" /\ k.pending = task[t].pending
        /\ k.pendingSteering = task[t].pendingSteering /\ k.preserve = task[t].preserve
    BY <1>0, <1>a, <1>5, TaskConstants DEF Sound, ReconcileTimesOut, InProcessCodex, Task
  <2> HIDE DEF k
  <2>3. Step(t, k) /\ UNCHANGED <<active, draining, msg, stop>>
    BY <1>5 DEF ReconcileTimesOut, k
  <2> QED BY <1>q, <2>1, <2>2, <2>3
<1>6. CASE TurnStarted(t)
  <2> DEFINE k == [task[t] EXCEPT !.turn = TRUE]
  <2>1. k \in Task BY <1>0 DEF Task, Phases, Pcs
  <2>2. /\ t = active => Sound(t, k)
        /\ k.pc # "reserved" /\ k.pending = task[t].pending
        /\ k.pendingSteering = task[t].pendingSteering /\ k.preserve = task[t].preserve
    BY <1>0, <1>a, <1>6, TaskConstants DEF Sound, TurnStarted, InProcessCodex, Task
  <2> HIDE DEF k
  <2>3. Step(t, k) /\ UNCHANGED <<active, draining, msg, stop>>
    BY <1>6 DEF TurnStarted, k
  <2> QED BY <1>q, <2>1, <2>2, <2>3
<1>7. CASE ObserverReady(t)
  <2> DEFINE k == [task[t] EXCEPT !.ready = TRUE]
  <2>1. k \in Task BY <1>0 DEF Task, Phases, Pcs
  <2>2. /\ t = active => Sound(t, k)
        /\ k.pc # "reserved" /\ k.pending = task[t].pending
        /\ k.pendingSteering = task[t].pendingSteering /\ k.preserve = task[t].preserve
    BY <1>0, <1>a, <1>7, TaskConstants DEF Sound, ObserverReady, InProcessCodex, Task
  <2> HIDE DEF k
  <2>3. Step(t, k) /\ UNCHANGED <<active, draining, msg, stop>>
    BY <1>7 DEF ObserverReady, k
  <2> QED BY <1>q, <2>1, <2>2, <2>3
<1>8. CASE RunReturns(t)
  <2>0. PICK r \in {"ok", "error", "halt"} : Step(t, [task[t] EXCEPT !.pc = "claim", !.verdict = Verdict(task[t], r)])
    BY <1>8 DEF RunReturns
  <2>1. task'[t] = [task[t] EXCEPT !.pc = "claim", !.verdict = Verdict(task[t], r)] /\ Step(t, task'[t])
    BY <2>0, <1>s DEF RunReturns
  <2>2. t \in Msgs /\ task[t].pc \in {"exec", "recheck"} /\ UNCHANGED <<active, draining, msg, stop>> /\ task'[t] \in Task
    BY <1>n, <1>8 DEF RunReturns, InProcessCodex, TaskTypeOK
  <2>3. Walks(task[t], task'[t]) /\ task'[t].pc = "claim" /\ task'[t].phase = task[t].phase
    BY <1>0, <2>1, <2>2 DEF Walks, Task
  <2>4. t = active => Sound(t, task'[t])
    BY <1>a, <2>2, <2>3, TaskConstants DEF Sound, Walks
  <2>5. task'[t].pc # "reserved" BY <2>2, <2>3
  <2> QED BY <1>q, <2>1, <2>2, <2>3, <2>4, <2>5 DEF Walks
<1>9. CASE WatchReturns(t)
  <2>0. PICK r \in {"ok", "error", "halt"}, pc \in {"claim", "reconcile"} : Step(t, [task[t] EXCEPT !.verdict = Verdict(task[t], r), !.pc = pc])
    BY <1>9 DEF WatchReturns
  <2>1. task'[t] = [task[t] EXCEPT !.verdict = Verdict(task[t], r), !.pc = pc] /\ Step(t, task'[t])
    BY <2>0, <1>s DEF WatchReturns
  <2>2. t \in Watches /\ task[t].pc = "watch" /\ UNCHANGED <<active, draining, msg, stop>> /\ task'[t] \in Task
    BY <1>n, <1>9 DEF WatchReturns, InProcessCodex, TaskTypeOK
  <2>3. Walks(task[t], task'[t]) /\ task'[t].pc = pc /\ task'[t].phase = task[t].phase
    BY <1>0, <2>1, <2>2 DEF Walks, Task
  <2>4. t = active => Sound(t, task'[t])
    BY <1>a, <2>2, <2>3, TaskConstants DEF Sound, Walks
  <2>5. task'[t].pc # "reserved" BY <2>2, <2>3
  <2> QED BY <1>q, <2>1, <2>2, <2>3, <2>4, <2>5 DEF Walks
<1>10. CASE TurnInterrupted(t)
  <2>1. task'[t] = [MarkDisconnected(task[t]) EXCEPT !.pc = "recheck"] /\ Step(t, task'[t])
    BY <1>10, <1>s DEF TurnInterrupted
  <2>2. t \in Msgs /\ task[t].pc = "exec" /\ UNCHANGED <<active, draining, msg, stop>> /\ task'[t] \in Task
    BY <1>n, <1>10 DEF TurnInterrupted, InProcessCodex, TaskTypeOK
  <2>3. Walks(task[t], task'[t]) /\ task'[t].pc = "recheck" /\ (task[t].phase # "terminal" => task'[t].phase # "terminal")
    BY <1>0, <2>1, <2>2 DEF Walks, MarkDisconnected, Settled, Task
  <2>4. t = active => Sound(t, task'[t])
    BY <1>a, <2>2, <2>3, TaskConstants DEF Sound, Walks
  <2>5. task'[t].pc # "reserved" BY <2>2, <2>3
  <2> QED BY <1>q, <2>1, <2>2, <2>3, <2>4, <2>5 DEF Walks
<1>11. CASE Disconnect(t)
  <2>1. task'[t] = MarkDisconnected(task[t]) /\ Step(t, task'[t])
    BY <1>11, <1>s DEF Disconnect
  <2>2. t \in Watches /\ task[t].pc = "watch" /\ UNCHANGED <<active, draining, msg, stop>> /\ task'[t] \in Task
    BY <1>n, <1>11 DEF Disconnect, InProcessCodex, TaskTypeOK
  <2>3. Walks(task[t], task'[t]) /\ task'[t].pc = "watch" /\ (task[t].phase # "terminal" => task'[t].phase # "terminal")
    BY <1>0, <2>1, <2>2 DEF Walks, MarkDisconnected, Settled, Task
  <2>4. t = active => Sound(t, task'[t])
    BY <1>a, <2>2, <2>3, TaskConstants DEF Sound, Walks
  <2>5. task'[t].pc # "reserved" BY <2>2, <2>3
  <2> QED BY <1>q, <2>1, <2>2, <2>3, <2>4, <2>5 DEF Walks
<1>12. CASE Reconnect(t)
  <2>0. PICK r \in {"weclaw", "desktop"} : Step(t, MarkRunning(task[t], r))
    BY <1>12 DEF Reconnect
  <2>1. task'[t] = MarkRunning(task[t], r) /\ Step(t, task'[t])
    BY <2>0, <1>s DEF Reconnect
  <2>2. t \in Watches /\ task[t].pc = "watch" /\ UNCHANGED <<active, draining, msg, stop>> /\ task'[t] \in Task
    BY <1>n, <1>12 DEF Reconnect, InProcessCodex, TaskTypeOK
  <2>3. Walks(task[t], task'[t]) /\ task'[t].pc = "watch" /\ (task[t].phase # "terminal" => task'[t].phase # "terminal")
    BY <1>0, <2>1, <2>2 DEF Walks, MarkRunning, Settled, Task
  <2>4. t = active => Sound(t, task'[t])
    BY <1>a, <2>2, <2>3, TaskConstants DEF Sound, Walks
  <2>5. task'[t].pc # "reserved" BY <2>2, <2>3
  <2> QED BY <1>q, <2>1, <2>2, <2>3, <2>4, <2>5 DEF Walks
<1>13. CASE Reconcile(t)
  <2>1. /\ task'[t] = [task[t] EXCEPT !.pc = "claim"] \/ task'[t] = [task[t] EXCEPT !.pc = "claim", !.verdict = "failed"]
        /\ Step(t, task'[t])
    BY <1>13, <1>s DEF Reconcile
  <2>2. task[t].pc = "reconcile" /\ UNCHANGED <<active, draining, msg, stop>> /\ task'[t] \in Task
    BY <1>n, <1>13 DEF Reconcile, TaskTypeOK
  <2>3. Walks(task[t], task'[t]) /\ task'[t].pc = "claim" /\ task'[t].phase = task[t].phase
    BY <1>0, <2>1 DEF Walks, Task
  <2>4. t = active => Sound(t, task'[t])
    BY <1>a, <2>2, <2>3, TaskConstants DEF Sound, Walks
  <2> QED BY <1>q, <2>1, <2>2, <2>3, <2>4 DEF Walks
<1>14. CASE Claim(t)
  <2>1. task[t].pc = "claim" /\ UNCHANGED <<active, draining, msg, stop>> /\ task'[t] \in Task
    BY <1>n, <1>14 DEF Claim, TaskTypeOK
  <2>2. CASE Claims(t) \/ t \in Msgs
    <3>1. /\ Step(t, task'[t])
          /\ \/ task'[t] = [ClaimTerminal(task[t]) EXCEPT !.pc = "deliver"]
             \/ task'[t] = [task[t] EXCEPT !.pc = "unlock"] /\ t \in Msgs
      BY <1>s, <1>14, <2>2 DEF Claim
    <3>2. /\ Walks(task[t], task'[t])
          /\ \/ task'[t].pc = "deliver"
             \/ task'[t].pc = "unlock" /\ t \in Msgs
      BY <1>0, <3>1 DEF Walks, ClaimTerminal, Task
    <3>3. t = active => Sound(t, task'[t])
      BY <1>a, <2>1, <3>2, TaskConstants DEF Sound, Walks
    <3>4. task'[t].pc # "reserved" BY <3>2
    <3> QED BY <1>q, <2>1, <3>1, <3>2, <3>3, <3>4 DEF Walks
  <2>3. CASE ~Claims(t) /\ t \notin Msgs
    BY <1>a, <1>k, <2>1, <2>3, <1>14, HomeStops DEF Claims, Sound, Claim
  <2> QED BY <2>2, <2>3
<1>15. CASE ActivateFails(t) BY <1>a, <1>15, HomeStops DEF ActivateFails, Sound
<1>16. CASE SettingsEnd(t) \/ RunDetaches(t)
  <2>1. PICK pc \in {"end", "unlock"} : FinishActive(t, [task[t] EXCEPT !.pc = pc])
    BY <1>16 DEF SettingsEnd, RunDetaches
  <2>2. UNCHANGED <<draining, msg, stop>> /\ task[t].pc = "exec" /\ (t \in Settings \/ ~task[t].observed)
    BY <1>16 DEF SettingsEnd, RunDetaches
  <2>3. [task[t] EXCEPT !.pc = pc] \in Task /\ [task[t] EXCEPT !.pc = pc].pc # "reserved"
        /\ [task[t] EXCEPT !.pc = pc].phase = task[t].phase
    BY <1>0 DEF Task, Pcs
  <2>4. active = t => task[t].phase # "terminal" /\ \A x \in Msgs : msg[x].pc # "queued"
    BY <1>0, <1>a, <2>2, PreservedEmpty DEF Sound
  <2> QED BY <2>1, <2>2, <2>3, <2>4, HomeFinishes
<1>17. CASE WatchCanceled(t)
  <2>0. t \in Watches /\ task[t].pc = "watch" /\ task[t].canceled /\ UNCHANGED <<draining, msg, stop>>
    BY <1>17 DEF WatchCanceled
  <2>1. active = t => task[t].preserve /\ task[t].phase # "terminal" /\ \A x \in Msgs : msg[x].pc # "queued"
    BY <1>0, <1>a, <2>0, PreservedEmpty DEF Sound
  <2>2. CASE task[t].preserve \/ ~task[t].ready
    BY <1>17, <2>2, <1>0, <2>0, <2>1, HomeFinishes DEF WatchCanceled, Task, Pcs
  <2>3. CASE ~(task[t].preserve \/ ~task[t].ready)
    <3>1. active # t /\ UNCHANGED active BY <1>17, <2>1, <2>3 DEF WatchCanceled
    <3>2. CASE Stops(t) BY <2>0, <3>1, <3>2, HomeStops
    <3>3. CASE Step(t, [task[t] EXCEPT !.pc = "claim", !.verdict = "stopped"])
      <4> DEFINE k == [task[t] EXCEPT !.pc = "claim", !.verdict = "stopped"]
      <4>1. k \in Task /\ k.pc # "reserved" /\ k.pending = task[t].pending
            /\ k.pendingSteering = task[t].pendingSteering /\ k.preserve = task[t].preserve
        BY <1>0 DEF Task, Pcs
      <4> HIDE DEF k
      <4>2. Step(t, k) BY <3>3 DEF k
      <4> QED BY <1>q, <2>0, <3>1, <4>1, <4>2
    <3> QED BY <1>17, <2>3, <3>2, <3>3 DEF WatchCanceled
  <2> QED BY <2>2, <2>3
<1>18. CASE Reserve(t) \/ SettingsBegin(t)
  <2>1. PICK k : /\ Step(t, k) /\ ~k.preserve /\ k.observed /\ ~k.detached /\ ~k.canceled
                 /\ \/ t \in Watches /\ Agent = "codex" /\ k.pc = "reserved" /\ k.phase = "reserved" /\ k.turn
                    \/ t \in Settings /\ Agent = "claude" /\ k.pc = "exec" /\ k.phase = "running"
    <3>1. CASE Reserve(t)
      <4>1. PICK c \in BOOLEAN : Step(t, Reservation(c)) BY <3>1 DEF Reserve
      <4> DEFINE k == Reservation(c)
      <4>2. /\ ~k.preserve /\ k.observed /\ ~k.detached /\ ~k.canceled
            /\ k.pc = "reserved" /\ k.phase = "reserved" /\ k.turn
        BY DEF Reservation, NewTask
      <4> HIDE DEF k
      <4> QED BY <3>1, <4>1, <4>2 DEF Reserve, k
    <3>2. CASE SettingsBegin(t) BY <3>2 DEF SettingsBegin, NewTask
    <3> QED BY <1>18, <3>1, <3>2
  <2>2. Sound(t, k) BY <2>1, TaskConstants DEF Sound
  <2>3. active = NoTask /\ active' = t /\ task[t].pc = "idle" /\ UNCHANGED <<msg, stop>>
    BY <1>18 DEF Reserve, SettingsBegin
  <2>4. SteersAreCodex' BY <2>3 DEF HomeInv, SteersAreCodex
  <2> QED BY <2>1, <2>2, <2>3, <2>4, HomeStarts
<1>19. CASE Complete(t)
  <2>0. task[t].pc = "complete" /\ Promote(t, task[t]) /\ UNCHANGED <<draining, stop>> /\ task'[t] \in Task
    BY <1>n, <1>19 DEF Complete, TaskTypeOK
  <2> DEFINE k == task'[t]
  <2>1. PICK c : Step(t, Retired(c)) BY <2>0 DEF Promote, Step
  <2>2. Step(t, k) /\ k.pc = "end"
    <3>1. Retired(c).pc = "end" BY DEF Retired, Unused, NewTask
    <3>2. task'[t] = Retired(c) /\ Step(t, task'[t]) BY <1>s, <2>1
    <3> QED BY <3>1, <3>2
  <2> HIDE DEF k
  <2>3. SteersAreCodex' BY <2>0 DEF Promote, At, HomeInv, SteersAreCodex
  <2>4. CASE active = t
    BY <2>4, <2>0, <2>2, <2>3, HomeLeaves DEF HomeInv, QueuedPromised, Promises, Promotable, Promote, At
  <2>5. CASE active # t BY <2>0, <2>5, <2>2, <2>3, HomeStep DEF Promote, At, k
  <2> QED BY <2>4, <2>5
<1>20. CASE ObserverNotReady(t) \/ CancelReservation(t)
  BY <1>20 DEF ObserverNotReady, CancelReservation
<1> QED
  BY <1>1, <1>2, <1>3, <1>4, <1>5, <1>6, <1>7, <1>8, <1>9, <1>10, <1>11, <1>12, <1>13, <1>14, <1>15, <1>16, <1>17, <1>18, <1>19, <1>20 DEF TaskStep, Progresses

\* What is queued is what the slot of the task in the index holds.
LEMMA QueuedIsPending ==
  ASSUME HomeInv, NEW x \in Msgs, msg[x].pc = "queued"
  PROVE  /\ active # NoTask /\ active \notin Settings /\ x = task[active].pending
         /\ ~task[active].pendingSteering /\ ~task[active].preserve
BY DEF HomeInv, QueuedPromised, Promises

\* The steps of a submission.
LEMMA HomeMsg ==
  ASSUME SafeInv, HomeInv, NEW m \in Msgs, MsgStep(m)
  PROVE  HomeInv'
<1>0. msg \in [Msgs -> [pc : MsgPcs, at : Tasks \cup {NoTask}]] /\ m \in Tasks /\ NoTask \notin Tasks
      /\ task \in [Tasks -> Task]
  BY SlotTypes DEF SafeInv, TaskTypeOK
<1>n. TaskTypeOK' BY TaskTypeNext DEF SafeInv, Next
<1>1. CASE Send(m) \/ Refuse(m) \/ SteerBegin(m) \/ AdmitRefused(m) \/ AwaitDone(m) \/ AwaitTimesOut(m)
           \/ GuideResend(m) \/ GuideAbandoned(m)
  <2>1. UNCHANGED <<task, active, draining, stop>>
    BY <1>1 DEF Send, Refuse, SteerBegin, AdmitRefused, AwaitDone, AwaitTimesOut, GuideResend, GuideAbandoned
  <2>2. PICK pc \in {"submit", "end", "preflight", "admit"}, t \in {NoTask, active} : msg' = [msg EXCEPT ![m] = At(pc, t)]
    BY <1>1 DEF Send, Refuse, SteerBegin, AdmitRefused, AwaitDone, AwaitTimesOut, GuideResend, GuideAbandoned, Leaves
  <2>3. pc \in {"preflight", "admit"} => Agent = "codex"
    BY <1>0, <1>1, <2>2 DEF SteerBegin, SteersFirst, AwaitDone, HomeInv, SteersAreCodex, Send, Refuse, AdmitRefused,
       AwaitTimesOut, GuideResend, GuideAbandoned, Leaves, At
  <2>4. \A x \in Msgs : msg'[x].pc = "queued" => msg'[x] = msg[x] BY <1>0, <2>2 DEF At
  <2>5. SteersAreCodex' BY <1>0, <2>2, <2>3 DEF At, HomeInv, SteersAreCodex
  <2> QED BY <2>1, <2>4, <2>5, HomeStill
<1>2. CASE SteerReturns(m)
  <2>0. UNCHANGED <<active, draining, stop>> /\ msg[m].pc = "preflight"
    BY <1>2 DEF SteerReturns
  <2>1. /\ \A x \in Msgs : msg'[x].pc = "queued" => msg'[x] = msg[x]
        /\ SteersAreCodex'
    BY <1>0, <1>2, <2>0 DEF SteerReturns, Leaves, At, HomeInv, SteersAreCodex
  <2>2. CASE UNCHANGED task BY <2>0, <2>1, <2>2, HomeStill
  <2>3. CASE Step(msg[m].at, [task[msg[m].at] EXCEPT !.turn = TRUE])
    <3>1. CASE msg[m].at \notin Tasks
      BY <1>0, <2>3, <3>1, <2>0, <2>1, HomeStill DEF Step
    <3>2. CASE msg[m].at \in Tasks
      <4>1. PICK t \in Tasks : t = msg[m].at /\ task[t] \in Task BY <1>0, <3>2
      <4> DEFINE k == [task[t] EXCEPT !.turn = TRUE]
      <4>2. /\ k \in Task /\ (k.pc = "reserved" => task[t].pc = "reserved") /\ k.preserve = task[t].preserve
            /\ k.pending = task[t].pending /\ k.pendingSteering = task[t].pendingSteering
        BY <4>1 DEF Task
      <4>3. t = active => Sound(t, k) BY <1>0, <4>1, ActiveFacts DEF Sound, Task
      <4>4. Step(t, k) BY <2>3, <4>1
      <4> HIDE DEF k
      <4>5. t = active => (k.preserve => draining)
        BY <1>0, <4>2 DEF HomeInv, ActiveSound
      <4>6. \A x \in Msgs : msg'[x].pc = "queued" => msg'[x] = msg[x] /\ (t = active => Promises(k, x))
        BY <2>1, <4>2 DEF HomeInv, QueuedPromised, Promises
      <4> QED BY <2>0, <2>1, <4>2, <4>3, <4>4, <4>5, <4>6, HomeStep
    <3> QED BY <3>1, <3>2
  <2> QED BY <1>2, <2>2, <2>3 DEF SteerReturns
<1>3. CASE AdmitStarts(m)
  <2>1. active = NoTask /\ active' = m /\ Step(m, NewTask) /\ UNCHANGED stop
        /\ msg' = [msg EXCEPT ![m] = At("running", m)]
    BY <1>3 DEF AdmitStarts, Step
  <2>2. task[m].pc = "idle" BY <1>3 DEF AdmitStarts, Admitting, SafeInv, WaitingNotRun
  <2>3. Sound(m, NewTask) /\ ~NewTask.preserve BY TaskConstants DEF Sound, NewTask
  <2>4. /\ \A x \in Msgs : msg'[x].pc = "queued" => msg'[x] = msg[x]
        /\ SteersAreCodex'
    BY <1>0, <2>1 DEF At, HomeInv, SteersAreCodex
  <2> QED BY <1>0, <2>1, <2>2, <2>3, <2>4, HomeStarts
<1>4. CASE AdmitQueues(m)
  <2>1. /\ Admitting(m) /\ ~draining /\ active # NoTask /\ ~ForeignWriter(m)
        /\ task[active].pending = NoMsg /\ ~task[active].pendingSteering
        /\ task' = [task EXCEPT ![active] = QueuePending(@, m)]
        /\ msg' = [msg EXCEPT ![m] = At("queued", active)] /\ UNCHANGED <<active, draining, stop>>
    BY <1>4 DEF AdmitQueues, CanQueue, SlotTaken
  <2>2. active \in Tasks /\ task[active] \in Task /\ Sound(active, task[active]) /\ ~task[active].preserve
    BY <2>1, ActiveFacts DEF HomeInv, ActiveSound
  <2> DEFINE k == QueuePending(task[active], m)
  <2>3. /\ task'[active] = k /\ \A u \in Tasks : u # active => task'[u] = task[u]
    BY <1>0, <2>1, <2>2
  <2>4. /\ k.pending = m /\ ~k.pendingSteering /\ ~k.preserve /\ k.pc = task[active].pc /\ Sound(active, k)
    BY <2>1, <2>2 DEF QueuePending, Sound, Task
  <2> HIDE DEF k
  <2>5. active \notin Settings
    <3> SUFFICES ASSUME active \in Settings PROVE FALSE OBVIOUS
    <3>1. Agent = "claude" /\ task[active].pc = "exec" BY <2>2 DEF Sound
    <3>2. msg[m].pc # "admit" BY <3>1 DEF HomeInv, SteersAreCodex
    <3>3. m \in Guests BY <2>1, <3>1, <3>2 DEF Admitting, BindingFree
    <3>4. active \notin Guests BY TaskConstants
    <3> QED BY <2>1, <3>1, <3>3, <3>4 DEF ForeignWriter
  <2>6. \A x \in Msgs : msg[x].pc # "queued" BY <2>1, QueuedIsPending, TaskConstants
  <2>7. ActiveSound' BY <2>1, <2>3, <2>4 DEF ActiveSound
  <2>8. QueuedPromised'
    BY <1>0, <2>1, <2>3, <2>4, <2>5, <2>6 DEF QueuedPromised, Promises, At
  <2>9. SteersAreCodex' BY <1>0, <2>1 DEF HomeInv, SteersAreCodex, At
  <2>10. StopActivated'
    BY <2>1, <2>3, <2>4 DEF HomeInv, StopActivated, SafeInv, StopsAsked
  <2> QED BY <2>7, <2>8, <2>9, <2>10 DEF HomeInv
<1> QED BY <1>1, <1>2, <1>3, <1>4 DEF MsgStep, SubmitStep

\* The commands that a card or a typed command starts, where neither /stop nor /guide is late.
LEMMA HomeCard ==
  ASSUME SafeInv, HomeInv, Faults = {}, NEW card \in cards \cup {NoCard}, CardStep(card)
  PROVE  HomeInv'
<1>0. msg \in [Msgs -> [pc : MsgPcs, at : Tasks \cup {NoTask}]] /\ NoTask \notin Tasks
  BY SlotTypes DEF SafeInv, TaskTypeOK
<1>n. TaskTypeOK' BY TaskTypeNext DEF SafeInv, Next
<1>s. \A t \in Tasks : \A k : Step(t, k) => task'[t] = k /\ Step(t, task'[t]) /\ task'[t] \in Task
  BY <1>n DEF Step, SafeInv, TaskTypeOK
<1>p. active # NoTask => (task[active].preserve => draining) BY DEF HomeInv, ActiveSound
<1>1. CASE Cancel(card) \/ GuideLocal(card) \/ GuideTake(card)
  <2>1. active # NoTask /\ UNCHANGED <<active, draining, stop>>
    BY <1>1 DEF Cancel, GuideLocal, GuideTake, ActsLocally
  <2>2. active \in Tasks /\ task[active] \in Task /\ Sound(active, task[active])
    BY <2>1, ActiveFacts
  <2> DEFINE m == task[active].pending
  <2>3. /\ msg'[m].pc # "queued" /\ \A x \in Msgs : x # m => msg'[x] = msg[x]
        /\ msg'[m].pc \in {"end", "guideWait", "steering", msg[m].pc}
    BY <1>1, <2>2, <1>0 DEF Cancel, GuideLocal, GuideTake, Task, At
  <2>4. \A x \in Msgs : msg'[x].pc # "queued" BY <2>3, QueuedIsPending
  <2>5. SteersAreCodex' BY <2>3 DEF HomeInv, SteersAreCodex
  <2>6. GuideLocal(card) => active \notin Watches /\ active \notin Settings
    BY <2>2 DEF GuideLocal, ActsLocally, Sound
  <2> DEFINE k == task'[active]
  <2>7. /\ Step(active, k) /\ k \in Task
        /\ \/ k = ClearPending(task[active])
           \/ k = TakeGuide(task[active])
           \/ /\ k = [ClearPending(task[active]) EXCEPT !.detached = TRUE, !.canceled = TRUE]
              /\ active \notin Watches /\ active \notin Settings
    BY <1>1, <1>s, <2>2, <2>6 DEF Cancel, GuideLocal, GuideTake
  <2> HIDE DEF k
  <2>8. Sound(active, k) /\ k.pc = task[active].pc /\ k.preserve = task[active].preserve
    <3>1. /\ k.pc = task[active].pc /\ k.preserve = task[active].preserve /\ k.phase = task[active].phase
          /\ k.turn = task[active].turn /\ k.observed = task[active].observed
          /\ active \in Watches \cup Settings => k.detached = task[active].detached /\ k.canceled = task[active].canceled
      <4>1. CASE k = ClearPending(task[active]) \/ k = TakeGuide(task[active])
        BY <2>2, <4>1 DEF ClearPending, TakeGuide, Task
      <4>2. CASE /\ k = [ClearPending(task[active]) EXCEPT !.detached = TRUE, !.canceled = TRUE]
                 /\ active \notin Watches /\ active \notin Settings
        BY <2>2, <4>2 DEF ClearPending, Task
      <4> QED BY <2>7, <4>1, <4>2
    <3> QED BY <2>2, <3>1 DEF Sound
  <2> QED BY <1>p, <2>1, <2>2, <2>4, <2>5, <2>7, <2>8, HomeStep
<1>2. CASE StopLocal(card)
  <2>1. active # NoTask /\ UNCHANGED <<active, draining, msg, stop>>
    BY <1>2 DEF StopLocal, ActsLocally
  <2>2. active \in Tasks /\ task[active] \in Task /\ Sound(active, task[active])
    BY <2>1, ActiveFacts
  <2>3. active \notin Watches BY <1>2, <2>2 DEF StopLocal, ActsLocally, Sound
  <2> DEFINE k == task'[active]
  <2>4. Step(active, k) /\ k \in Task /\ k = MarksAsked(BeginLocalStop(task[active]), card, active)
    BY <1>2, <1>s, <2>2 DEF StopLocal
  <2> HIDE DEF k
  <2>5. /\ Sound(active, k) /\ k.pc # "reserved" /\ k.preserve = task[active].preserve
        /\ k.pending = task[active].pending /\ k.pendingSteering = task[active].pendingSteering
    BY <2>2, <2>3, <2>4 DEF MarksAsked, BeginLocalStop, Sound, Task
  <2> QED BY <2>1, <2>2, <2>4, <2>5, HomeQuiet
<1>3. CASE StopBegin(card)
  <2>0. PICK t \in Tasks : t = stop.task /\ task[t] \in Task /\ task[t].pc # "reserved"
    BY <1>3, SlotTypes DEF StopBegin, HomeInv, StopActivated, SafeInv, StopsAsked
  <2> DEFINE k == task'[t]
  <2>1. Step(t, k) /\ k \in Task /\ k = MarksAsked(BeginRemoteStop(task[t]), card, t)
    BY <1>3, <1>s, <2>0 DEF StopBegin
  <2> HIDE DEF k
  <2>2. /\ k.pc = task[t].pc /\ k.preserve = task[t].preserve
        /\ k.pending = task[t].pending /\ k.pendingSteering = task[t].pendingSteering
        /\ t = active => Sound(t, k)
    BY <1>0, <2>0, <2>1, ActiveFacts DEF MarksAsked, BeginRemoteStop, Sound, Task
  <2>3. UNCHANGED <<active, draining, msg>> /\ StopActivated' /\ SteersAreCodex'
    BY <1>3, <2>0, <2>2 DEF StopBegin, StopActivated, HomeInv, SteersAreCodex, k
  <2>4. \A x \in Msgs : msg'[x].pc = "queued" => msg'[x] = msg[x] /\ (t = active => Promises(k, x))
    BY <2>2, <2>3 DEF HomeInv, QueuedPromised, Promises
  <2> QED BY <1>0, <1>p, <2>0, <2>1, <2>2, <2>3, <2>4, HomeStep
<1> QED BY <1>1, <1>2, <1>3 DEF CardStep

\* The other commands, where a drain is not undone while tasks are winding down.
LEMMA HomeCommand ==
  ASSUME SafeInv, HomeInv, Faults = {}, Command
  PROVE  HomeInv'
<1>0. msg \in [Msgs -> [pc : MsgPcs, at : Tasks \cup {NoTask}]] /\ NoTask \notin Tasks /\ task \in [Tasks -> Task]
  BY SlotTypes DEF SafeInv, TaskTypeOK
<1>n. TaskTypeOK' BY TaskTypeNext DEF SafeInv, Next
<1>s. \A t \in Tasks : \A k : Step(t, k) => task'[t] = k /\ Step(t, task'[t]) /\ task'[t] \in Task
  BY <1>n DEF Step, SafeInv, TaskTypeOK
<1>p. active # NoTask => (task[active].preserve => draining) BY DEF HomeInv, ActiveSound
<1>c. ASSUME UNCHANGED msg PROVE SteersAreCodex' BY <1>c DEF HomeInv, SteersAreCodex
<1>1. CASE GuideFails \/ StopGivesUp \/ DrainRefused \/ DrainIdle \/ CancelDrain
  BY <1>1, <1>c, HomeStill DEF GuideFails, StopGivesUp, DrainRefused, DrainIdle, CancelDrain, StopActivated, StopIdle
<1>2. CASE GuideResolve \/ StopResolve
  <2>1. active # NoTask /\ CanResolve(active, task[active]) /\ UNCHANGED <<active, draining, msg>>
        /\ (UNCHANGED stop \/ stop'.task = active)
    BY <1>2 DEF GuideResolve, StopResolve
  <2>2. active \in Tasks /\ task[active] \in Task /\ Sound(active, task[active])
    BY <2>1, ActiveFacts
  <2>3. PICK r \in {"weclaw", "desktop"} : Step(active, RefreshTurn(task[active], r))
    BY <1>2 DEF GuideResolve, StopResolve
  <2> DEFINE k == task'[active]
  <2>4. Step(active, k) /\ k \in Task /\ k = RefreshTurn(task[active], r)
    BY <1>s, <2>2, <2>3
  <2>5. task[active].phase = "running" BY <2>1 DEF CanResolve, CanControl
  <2> HIDE DEF k
  <2>6. /\ Sound(active, k) /\ k.pc = task[active].pc /\ k.pc # "reserved" /\ k.preserve = task[active].preserve
        /\ k.pending = task[active].pending /\ k.pendingSteering = task[active].pendingSteering
    BY <2>2, <2>4, <2>5 DEF RefreshTurn, Sound, Task
  <2>7. UNCHANGED stop \/ StopActivated' BY <2>1, <2>6 DEF StopActivated, k
  <2>8. \A x \in Msgs : msg'[x].pc = "queued" => msg'[x] = msg[x] /\ (active = active => Promises(k, x))
    BY <2>1, <2>6 DEF HomeInv, QueuedPromised, Promises
  <2> QED BY <1>c, <1>p, <2>1, <2>2, <2>4, <2>6, <2>7, <2>8, HomeStep
<1>3. CASE GuideDone
  <2>1. guide.pc = "sending" /\ Step(guide.task, FinishGuide(task[guide.task])) /\ UNCHANGED <<active, draining, stop>>
    BY <1>3 DEF GuideDone
  <2>2. \A x \in Msgs : msg'[x] = msg[x] \/ msg'[x].pc = "end"
    BY <1>0, <1>3 DEF GuideDone, At
  <2>3. SteersAreCodex' /\ \A x \in Msgs : msg'[x].pc = "queued" => msg'[x] = msg[x]
    BY <2>2 DEF HomeInv, SteersAreCodex
  <2>4. CASE guide.task \notin Tasks BY <1>0, <2>1, <2>4, <2>3, HomeStill DEF Step
  <2>5. CASE guide.task \in Tasks
    <3>1. PICK t \in Tasks : t = guide.task /\ task[t] \in Task BY <1>0, <2>5
    <3> DEFINE k == task'[t]
    <3>2. Step(t, k) /\ k \in Task /\ k = FinishGuide(task[t]) BY <1>s, <2>1, <3>1
    <3> HIDE DEF k
    <3>3. /\ k.pc = task[t].pc /\ k.preserve = task[t].preserve /\ k.phase = task[t].phase
          /\ k.turn = task[t].turn /\ k.observed = task[t].observed
          /\ k.detached = task[t].detached /\ k.canceled = task[t].canceled
          /\ ~task[t].pendingSteering => k = task[t]
      BY <3>1, <3>2 DEF FinishGuide, Task
    <3>4. t = active => Sound(t, k) BY <1>0, <3>3, ActiveFacts DEF Sound
    <3>5. \A x \in Msgs : msg'[x].pc = "queued" => msg'[x] = msg[x] /\ (t = active => Promises(k, x))
      BY <2>3, <3>3 DEF HomeInv, QueuedPromised, Promises
    <3> QED BY <1>0, <1>p, <2>1, <2>3, <3>2, <3>3, <3>4, <3>5, HomeStep
  <2> QED BY <2>4, <2>5
<1>4. CASE StopInterrupts \/ StopRejected \/ StopCommit
  <2>0. PICK t \in Tasks : t = stop.task /\ task[t] \in Task /\ task[t].pc # "reserved"
    BY <1>0, <1>4 DEF StopInterrupts, StopRejected, StopCommit, HomeInv, StopActivated, SafeInv, StopsAsked
  <2>1. UNCHANGED <<active, draining, msg>> /\ (stop'.pc = "idle" \/ stop'.task = t)
    BY <1>4, <2>0 DEF StopInterrupts, StopRejected, StopCommit, StopIdle, SafeInv, TaskTypeOK
  <2> DEFINE k == task'[t]
  <2>2. /\ Step(t, k) /\ k \in Task
        /\ \/ k = [task[t] EXCEPT !.cut = task[t].verdict = "none"]
           \/ k = RollbackRemoteStop(task[t])
           \/ k = CommitRemoteStop(task[t])
    BY <1>4, <1>s, <2>0 DEF StopInterrupts, StopRejected, StopCommit
  <2> HIDE DEF k
  <2>3. /\ k.pc = task[t].pc /\ k.preserve = task[t].preserve
        /\ k.turn = task[t].turn /\ k.observed = task[t].observed
        /\ k.detached = task[t].detached /\ k.canceled = task[t].canceled
        /\ k.pending = task[t].pending /\ k.pendingSteering = task[t].pendingSteering
        /\ k.phase = "terminal" => task[t].phase = "terminal"
    <3>1. CASE k = [task[t] EXCEPT !.cut = task[t].verdict = "none"]
      BY <2>0, <3>1 DEF Task
    <3>2. CASE k = RollbackRemoteStop(task[t])
      BY <2>0, <3>2 DEF RollbackRemoteStop, Task
    <3>3. CASE k = CommitRemoteStop(task[t]) BY <2>0, <3>3 DEF CommitRemoteStop, Task
    <3> QED BY <2>2, <3>1, <3>2, <3>3
  <2>4. t = active => Sound(t, k) BY <1>0, <2>0, <2>3, ActiveFacts DEF Sound
  <2>5. StopActivated' BY <2>0, <2>1, <2>3 DEF StopActivated, k
  <2>6. \A x \in Msgs : msg'[x].pc = "queued" => msg'[x] = msg[x] /\ (t = active => Promises(k, x))
    BY <2>1, <2>3 DEF HomeInv, QueuedPromised, Promises
  <2> QED BY <1>0, <1>c, <1>p, <2>1, <2>2, <2>3, <2>4, <2>5, <2>6, HomeStep
<1>5. CASE Release \/ DrainForce
  <2>1. active # NoTask /\ DropQueued(task[active]) /\ UNCHANGED stop
    BY <1>5 DEF Release, DrainForce
  <2>2. active \in Tasks /\ task[active] \in Task /\ Sound(active, task[active])
    BY <2>1, ActiveFacts
  <2>3. /\ \A x \in Msgs : x # task[active].pending => msg'[x] = msg[x]
        /\ \A x \in Msgs : msg'[x] = msg[x] \/ msg'[x].pc = "end"
        /\ \A x \in Msgs : x = task[active].pending => msg'[x].pc # "queued"
    BY <1>0, <2>1, TaskConstants DEF DropQueued, Leaves, At
  <2>4. SteersAreCodex' /\ \A x \in Msgs : msg'[x].pc # "queued"
    BY <2>3, QueuedIsPending DEF HomeInv, SteersAreCodex
  <2> DEFINE k == task'[active]
  <2>5. CASE Release
    <3>1. active' = NoTask /\ Step(active, k) /\ k \in Task
          /\ k = Closed([task[active] EXCEPT
                           !.detached = TRUE, !.pending = NoMsg, !.pendingSteering = FALSE,
                           !.canceled = @ \/ active \in Watches,
                           !.observed = @ /\ active \in Watches,
                           !.released = TRUE])
      BY <1>s, <2>2, <2>5 DEF Release
    <3> HIDE DEF k
    <3>2. task[active].pc # "reserved" => k.pc # "reserved"
      BY <2>2, <3>1 DEF Closed, Task
    <3>3. StopActivated'
      BY <1>0, <2>1, <2>2, <3>1, <3>2 DEF HomeInv, StopActivated, SafeInv, StopsAsked, Step, k
    <3> QED BY <2>4, <3>1, <3>3 DEF HomeInv, ActiveSound, QueuedPromised
  <2>6. CASE DrainForce
    <3>1. UNCHANGED active /\ draining' = TRUE /\ Step(active, k) /\ k \in Task
          /\ k = DrainedTask(active, task[active]) /\ task[active].phase # "terminal"
      BY <1>s, <2>2, <2>6 DEF DrainForce, Running
    <3> HIDE DEF k
    <3>2. Sound(active, k) /\ k.pc = task[active].pc
      BY <2>2, <3>1 DEF DrainedTask, Sound, Task
    <3> QED BY <2>1, <2>2, <2>4, <3>1, <3>2, HomeStep
  <2> QED BY <1>5, <2>5, <2>6
<1> QED BY <1>1, <1>2, <1>3, <1>4, <1>5 DEF Command

\* Where none of the named faults happens, nobody waits for nobody, whatever is stopped,
\* guided, released or drained: the task in the index has a goroutine that takes it out,
\* and a queued message is in the slot that the end of this task looks into
\* (beginOrQueueActiveTask, finishActiveTask).  Each of the faults breaks it.
THEOREM NobodyIsForgotten ==
  ASSUME Faults = {}
  PROVE  Spec => []NobodyForgotten
<1>1. Init => HomeInv
  BY DEF Init, At, StopIdle, HomeInv, ActiveSound, QueuedPromised, SteersAreCodex, StopActivated
<1>2. SafeInv /\ HomeInv /\ [Next]_vars => HomeInv'
  <2> SUFFICES ASSUME SafeInv, HomeInv, [Next]_vars PROVE HomeInv' OBVIOUS
  <2>1. CASE UNCHANGED vars BY <2>1, HomeStill DEF vars, HomeInv, SteersAreCodex
  <2>2. CASE Next BY <2>2, HomeTask, HomeMsg, HomeCard, HomeCommand DEF Next
  <2> QED BY <2>1, <2>2
<1>3. HomeInv => NobodyForgotten
  BY DEF HomeInv, ActiveSound, Sound, QueuedPromised, Promises, NobodyForgotten, QueuedHasHome, ActiveHasRunner
<1> QED BY <1>1, <1>2, <1>3, SafeAlways, PTL DEF Spec
=============================================================================
