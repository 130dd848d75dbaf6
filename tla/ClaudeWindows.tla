--------------------------- MODULE ClaudeWindows ---------------------------
(***************************************************************************)
(* Chat windows and Claude sessions (messaging/claude_sessions.go,         *)
(* claude_session_acquire.go, claude_session_release.go,                   *)
(* claude_remote_selection_store.go, claude_workspace_handler.go,          *)
(* cwd_command.go, agent_task.go, agent_conversation.go,                   *)
(* model_claude_session.go, claude_session_rename.go).  A window is bound  *)
(* to one session; the binding is persisted with a revision and a status   *)
(* that says whether the Claude host's conversation follows it.  Commands  *)
(* rebind a window, messages are admitted under a binding and sent later,  *)
(* and several windows may be bound to one session.                        *)
(*                                                                         *)
(* A job is one command or message.  Its steps are what happens between    *)
(* waits for a lock or for the host (ClaudeHost), which here only follows  *)
(* or refuses.  The waiting message of a busy window is TaskService's.     *)
(***************************************************************************)
EXTENDS Naturals, Sequences, FiniteSets

CONSTANTS
  CcWindows,     \* chat windows
  CcSessions,    \* session ids, existing or not
  CcMade,        \* those that exist at first
  CcHome,        \* the workspace of each session
  CcPlans,       \* the jobs: sequences of [does, w, s]; a cd or /cwd goes to the
                 \* workspace of s
  MaxCcMishaps   \* failed writes, host refusals and restarts

ASSUME CcAssumption ==
  /\ CcMade \subseteq CcSessions
  /\ CcSessions # {} /\ "none" \notin CcSessions
  /\ \A p \in CcPlans :
       p \in Seq([does : {"switch", "new", "cd", "cwd", "message", "broadcast",
                         "setting", "rename"},
                 w : CcWindows, s : CcSessions])
  /\ MaxCcMishaps \in Nat

VARIABLES
  windowBound,  \* each window's binding in memory
  windowDisk,   \* and on disk
  hostFollows,  \* the session each <<window, workspace>> is bound to there
  ccExisting,         \* sessions that exist
  registry,     \* job holding workspaceRegistryControl
  bindingLock,  \* job holding each window's binding lock
  controlLock,  \* job holding each session's control lock
  writerLock,   \* job holding each session's execution lock
  active,       \* job registered as each session's active task
  jobs, ccPlan, ccMishaps,
  landed        \* (history) [meant, in]: session admitted for, session sent to

ccVars == <<windowBound, windowDisk, hostFollows, ccExisting, registry, bindingLock,
            controlLock, writerLock, active, jobs, ccPlan, ccMishaps, landed>>
locks == <<registry, bindingLock, controlLock, writerLock, active>>

None == "none"
Nobody == 0
Homes == {CcHome[s] : s \in CcSessions}
Job(j) == ccPlan[j]
Stage(j) == jobs[j].at
Bound(j) == windowBound[Job(j).w]
CcMishap == ccMishaps < MaxCcMishaps /\ ccMishaps' = ccMishaps + 1

\* The conversation a binding's workspace names (buildClaudeConversationID).
Conversation(w, b) == <<w, b.home>>

\* The locks but those job j holds.
LetGo(lock, j) == [x \in DOMAIN lock |-> IF lock[x] = j THEN Nobody ELSE lock[x]]
\* The end of a job, and of every lock and registration it holds.
Ends(j) ==
  /\ jobs' = [jobs EXCEPT ![j].at = "over"]
  /\ registry' = IF registry = j THEN Nobody ELSE registry
  /\ bindingLock' = LetGo(bindingLock, j)
  /\ controlLock' = LetGo(controlLock, j)
  /\ writerLock' = LetGo(writerLock, j)
  /\ active' = LetGo(active, j)

\* requireWritableBinding
Writable(b) == b.sess # None /\ b.status \in {"ready", "pending"}
\* validateBindingSnapshot
SnapshotStands(j) == Writable(Bound(j)) /\ Bound(j).sess = jobs[j].sess /\ Bound(j).rev = jobs[j].rev
\* hasActiveClaudeBindingSession: only this window's own task counts.
ActiveHere(w, s) == s # None /\ active[s] # Nobody /\ Job(active[s]).w = w

\* nextClaudeBinding: every change is a new revision.
Rebound(b, home, s, status) ==
  IF b.home = home /\ b.sess = s /\ b.status = status THEN b
  ELSE [home |-> home, sess |-> s, status |-> status, rev |-> b.rev + 1]

\* updateStatus: markReady, and the status that keeps messages out until the
\* window is bound again (also forceClaudeBindingFailClosedInMemory).
Ready(b) == [b EXCEPT !.status = "ready", !.rev = @ + 1]
FailClosed(b) == [b EXCEPT !.status = "failed", !.rev = @ + 1]

\* A candidate is published only when it was written.
Publish(w, b) ==
  /\ windowBound' = [windowBound EXCEPT ![w] = b]
  /\ windowDisk' = [windowBound EXCEPT ![w] = b]

-----------------------------------------------------------------------------
(* Commands that rebind a window: switch, new, cd and /cwd.                *)

\* hasActiveClaudeTaskForCwd: /cwd counts any window's task.
CwdBlocked(j) ==
  Job(j).does = "cwd" /\ Bound(j).sess # None /\ active[Bound(j).sess] # Nobody

\* claudeSwitchTargets: what is not in the catalog cannot be chosen.
Unlisted(j) == Job(j).does = "switch" /\ Job(j).s \notin ccExisting

\* The workspace registry's control lock, the window's binding lock, and no
\* task of the window's own under its session (rejectActiveClaudeBindingChange).
Rebinding(j) ==
  LET op == Job(j) IN
  /\ Stage(j) = "todo"
  /\ registry = Nobody /\ bindingLock[op.w] = Nobody
  /\ IF ActiveHere(op.w, Bound(j).sess) \/ CwdBlocked(j) \/ Unlisted(j)
     THEN Ends(j)
     ELSE /\ registry' = j
          /\ bindingLock' = [bindingLock EXCEPT ![op.w] = j]
          /\ LET home == IF op.does = "new" THEN Bound(j).home ELSE CcHome[op.s] IN
             jobs' = [jobs EXCEPT ![j] =
               [@ EXCEPT !.at = IF op.does = "new" THEN "create" ELSE "rebind",
                         !.sess = op.s, !.was = Bound(j), !.home = home,
                         !.before = hostFollows[<<op.w, home>>]]]
          /\ UNCHANGED <<controlLock, writerLock, active>>
  /\ UNCHANGED <<windowBound, windowDisk, hostFollows, ccExisting, ccMishaps, landed>>

\* handleClaudeSessionCommandForRouteRequest; handleCwdWithRoute.
BeginRebind(j) == Job(j).does \in {"switch", "new", "cd"} /\ Rebinding(j)
BeginCwd(j) == Job(j).does = "cwd" /\ Rebinding(j)

\* createAndAcquireClaudeSessionWithBindingLocked: ResetSession forgets the
\* conversation's session, then makes another or fails; after a failure the
\* host is put back to what it followed before.
CreateOnHost(j) ==
  LET op == Job(j)
      conv == <<op.w, jobs[j].home>>
  IN
  /\ Stage(j) = "create"
  /\ \/ /\ \E s \in CcSessions \ ccExisting :
             /\ CcHome[s] = jobs[j].home
             /\ ccExisting' = ccExisting \cup {s}
             /\ hostFollows' = [hostFollows EXCEPT ![conv] = s]
             /\ jobs' = [jobs EXCEPT ![j].at = "rebind", ![j].sess = s]
        /\ UNCHANGED ccMishaps
     \/ /\ \/ CcMishap
           \/ ({s \in CcSessions \ ccExisting : CcHome[s] = jobs[j].home} = {}
               /\ UNCHANGED ccMishaps)
        /\ hostFollows' = [hostFollows EXCEPT ![conv] = None]
        /\ jobs' = [jobs EXCEPT ![j].at = "restore"]
        /\ UNCHANGED ccExisting
  /\ UNCHANGED <<windowBound, windowDisk, landed, locks>>

\* rollbackClaudeSessionAcquire; when the host refuses, the binding is closed
\* in memory (forceClaudeBindingFailClosedInMemory).
RestoreHost(j) ==
  LET op == Job(j)
      conv == <<op.w, jobs[j].home>>
      b == windowBound[op.w]
  IN
  /\ Stage(j) = "restore"
  /\ \/ /\ hostFollows' = [hostFollows EXCEPT ![conv] = jobs[j].before]
        /\ UNCHANGED <<windowBound, ccMishaps>>
     \/ /\ jobs[j].before # None /\ CcMishap
        /\ windowBound' = IF b.sess = None THEN windowBound
             ELSE [windowBound EXCEPT ![op.w] = FailClosed(b)]
        /\ UNCHANGED hostFollows
  /\ Ends(j)
  /\ UNCHANGED <<windowDisk, ccExisting, landed>>

AlwaysReady(j) == "ready"  \* a binding is ready as soon as it is chosen
\* The status a binding is committed with: ready only if the host already
\* follows the session.
CommittedAs(j) ==
  IF hostFollows[<<Job(j).w, jobs[j].home>>] = jobs[j].sess THEN "ready" ELSE "failed"

\* The binding is not the one the command found, or its session has a task of
\* this window (errClaudeBindingSelectionChanged, errClaudeSessionAcquireActiveOld).
Overtaken(j) ==
  \/ Bound(j) # jobs[j].was
  \/ Job(j).does \in {"switch", "new"} /\ Bound(j).sess # jobs[j].sess
     /\ ActiveHere(Job(j).w, Bound(j).sess)
  \/ Job(j).does \in {"cd", "cwd"} /\ ActiveHere(Job(j).w, Bound(j).sess)

\* commitBindingSelection, commitBindingRelease: the binding must be the one the
\* command found, and is published once it was written.
CommitSelection(j, b) == ~Overtaken(j) /\ Publish(Job(j).w, b)
CommitRelease(j, b) == ~Overtaken(j) /\ Publish(Job(j).w, b)

\* rollbackBindingMutation cannot write: what was committed stays on disk and
\* the window is closed in memory.
UndoFails(w, b) ==
  /\ windowDisk' = [windowBound EXCEPT ![w] = b]
  /\ windowBound' = [windowBound EXCEPT ![w] = FailClosed(b)]

\* acquireClaudeSessionWithBindingLocked under both sessions' control locks:
\* the binding as it was, committed; then the agent choice, undone when it
\* cannot be saved.  A binding undone while another window's changed in
\* between, or not written, is closed in memory.
Acquire(j) ==
  LET op == Job(j)
      s == jobs[j].sess
      w == op.w
      giveUp == IF op.does = "new"
                THEN /\ jobs' = [jobs EXCEPT ![j].at = "restore"]
                     /\ controlLock' = LetGo(controlLock, j)
                     /\ UNCHANGED <<registry, bindingLock, writerLock, active>>
                ELSE Ends(j)
      b == Rebound(Bound(j), jobs[j].home, s, CommittedAs(j))
  IN
  /\ Stage(j) = "rebind" /\ op.does \in {"switch", "new"}
  /\ \A x \in {s, Bound(j).sess} \ {None} : controlLock[x] \in {Nobody, j}
  /\ \/ /\ CommitSelection(j, b)
        /\ controlLock' = [x \in CcSessions |->
             IF x \in {s, Bound(j).sess} THEN j ELSE controlLock[x]]
        /\ jobs' = [jobs EXCEPT ![j].at = IF b.status = "ready" THEN "clear" ELSE "follow"]
        /\ UNCHANGED <<ccMishaps, registry, bindingLock, writerLock, active>>
     \/ \* overtaken; or the binding, or the agent choice after it, is not saved
        /\ IF Overtaken(j) THEN UNCHANGED ccMishaps ELSE CcMishap
        /\ giveUp
        /\ UNCHANGED <<windowBound, windowDisk>>
     \/ \* neither the agent choice nor the undoing of the binding
        /\ ~Overtaken(j) /\ CcMishap
        /\ giveUp
        /\ UndoFails(w, b)
  /\ UNCHANGED <<hostFollows, ccExisting, landed>>

\* ensureClaudeRuntimeSelection and markReady: the host follows, or the binding
\* keeps its closed status.
FollowHost(j) ==
  LET w == Job(j).w
      conv == <<w, jobs[j].home>>
  IN
  /\ Stage(j) = "follow"
  /\ \/ /\ hostFollows' = [hostFollows EXCEPT ![conv] = jobs[j].sess]
        /\ \/ /\ Publish(w, Ready(windowBound[w]))
              /\ UNCHANGED ccMishaps
           \/ /\ CcMishap
              /\ UNCHANGED <<windowBound, windowDisk>>
     \/ /\ CcMishap
        /\ UNCHANGED <<hostFollows, windowBound, windowDisk>>
  /\ jobs' = [jobs EXCEPT ![j].at = "clear"]
  /\ UNCHANGED <<ccExisting, landed, locks>>

\* clearPreviousClaudeRuntimeMapping
ClearPrevious(j) ==
  LET w == Job(j).w
      was == jobs[j].was
  IN
  /\ Stage(j) = "clear"
  /\ hostFollows' = IF was.sess = None \/ was.home = jobs[j].home THEN hostFollows
                    ELSE [hostFollows EXCEPT ![Conversation(w, was)] = None]
  /\ Ends(j)
  /\ UNCHANGED <<windowBound, windowDisk, ccExisting, ccMishaps, landed>>

\* releaseClaudeSelectionWithBindingLocked, for cd and /cwd.
Release(j) ==
  LET w == Job(j).w
      was == jobs[j].was
      b == Rebound(was, jobs[j].home, None, "unbound")
  IN
  /\ Stage(j) = "rebind" /\ Job(j).does \in {"cd", "cwd"}
  /\ was.sess # None => controlLock[was.sess] = Nobody
  /\ \/ /\ CommitRelease(j, b)
        /\ hostFollows' = IF was.sess = None THEN hostFollows
                          ELSE [hostFollows EXCEPT ![Conversation(w, was)] = None]
        /\ UNCHANGED ccMishaps
     \/ /\ IF Overtaken(j) THEN UNCHANGED ccMishaps ELSE CcMishap
        /\ UNCHANGED <<windowBound, windowDisk, hostFollows>>
  /\ Ends(j)
  /\ UNCHANGED <<ccExisting, landed>>

-----------------------------------------------------------------------------
(* Messages.                                                               *)

\* beginOrQueueClaudeTask: admitted under the binding as it is now.
Admitted(j) ==
  LET s == Bound(j).sess IN
  /\ bindingLock[Job(j).w] = Nobody
  /\ IF ~Writable(Bound(j)) THEN Ends(j)
     ELSE IF active[s] # Nobody THEN Ends(j)
     ELSE /\ active' = [active EXCEPT ![s] = j]
          /\ jobs' = [jobs EXCEPT ![j] = [@ EXCEPT !.at = "admitted", !.sess = s,
                                                   !.rev = Bound(j).rev]]
          /\ UNCHANGED <<registry, bindingLock, controlLock, writerLock>>
  /\ UNCHANGED <<windowBound, windowDisk, hostFollows, ccExisting, ccMishaps, landed>>

\* startAgentTask
Admit(j) == Stage(j) = "todo" /\ Job(j).does = "message" /\ registry = Nobody /\ Admitted(j)

\* beginClaudeBroadcastRuntime does not take the registry's lock.
AdmitBroadcast(j) == Stage(j) = "todo" /\ Job(j).does = "broadcast" /\ Admitted(j)

\* runAgentTask (executeBroadcastAgent): the session's execution lock, then the
\* binding must still be the one it was admitted under.
Started(j) ==
  /\ writerLock[jobs[j].sess] = Nobody
  /\ IF SnapshotStands(j)
     THEN /\ writerLock' = [writerLock EXCEPT ![jobs[j].sess] = j]
          /\ jobs' = [jobs EXCEPT ![j].at = "resolve"]
          /\ UNCHANGED <<registry, bindingLock, controlLock, active>>
     ELSE Ends(j)
  /\ UNCHANGED <<windowBound, windowDisk, hostFollows, ccExisting, ccMishaps, landed>>

Start(j) == Stage(j) = "admitted" /\ Job(j).does = "message" /\ Started(j)
StartBroadcast(j) == Stage(j) = "admitted" /\ Job(j).does = "broadcast" /\ Started(j)

\* resolveClaudeConversationIDForRoute: the window's binding as it is now, with
\* a session the last process had bound resumed first.
Resolve(j) ==
  LET w == Job(j).w
      b == Bound(j)
  IN
  /\ Stage(j) = "resolve" /\ bindingLock[w] = Nobody
  /\ IF ~Writable(b) THEN Ends(j)
     ELSE /\ bindingLock' = IF b.status = "pending" THEN [bindingLock EXCEPT ![w] = j]
                            ELSE bindingLock
          /\ jobs' = [jobs EXCEPT ![j] = [@ EXCEPT !.at = IF b.status = "pending" THEN "resume"
                                                           ELSE "send",
                                                   !.home = b.home]]
          /\ UNCHANGED <<registry, controlLock, writerLock, active>>
  /\ UNCHANGED <<windowBound, windowDisk, hostFollows, ccExisting, ccMishaps, landed>>

\* resumePendingClaudeBinding, under the session's control lock; the binding
\* lock is still held, so the binding is the one Resolve read.
ResumePending(j) ==
  LET w == Job(j).w
      b == Bound(j)
  IN
  /\ Stage(j) = "resume" /\ controlLock[b.sess] = Nobody
  /\ \/ /\ hostFollows' = [hostFollows EXCEPT ![<<w, jobs[j].home>>] = b.sess]
        /\ Publish(w, Ready(b))
        /\ bindingLock' = LetGo(bindingLock, j)
        /\ jobs' = [jobs EXCEPT ![j].at = "send"]
        /\ UNCHANGED <<ccMishaps, registry, controlLock, writerLock, active>>
     \/ \* refused by the host, or not saved as ready
        /\ CcMishap
        /\ hostFollows' \in {hostFollows, [hostFollows EXCEPT ![<<w, jobs[j].home>>] = b.sess]}
        /\ \/ Publish(w, FailClosed(b))
           \/ UNCHANGED <<windowBound, windowDisk>>
        /\ Ends(j)
  /\ UNCHANGED <<ccExisting, landed>>

\* chat sends to whatever session the conversation is bound to by then.
Send(j) ==
  LET s == hostFollows[<<Job(j).w, jobs[j].home>>] IN
  /\ Stage(j) = "send"
  /\ IF s = None THEN Ends(j) /\ UNCHANGED landed
     ELSE /\ landed' = landed \cup {[meant |-> jobs[j].sess, in |-> s]}
          /\ jobs' = [jobs EXCEPT ![j].at = "writing", ![j].touches = s]
          /\ UNCHANGED locks
  /\ UNCHANGED <<windowBound, windowDisk, hostFollows, ccExisting, ccMishaps>>

-----------------------------------------------------------------------------
(* Session settings and names.                                             *)

\* beginActiveTask: a setting is an active task of its session.
NoTaskOf(j) == active[Bound(j).sess] = Nobody

\* setCurrentClaudeSessionSetting: binding lock, session control lock, and the
\* session's active task.
BeginSetting(j) ==
  LET op == Job(j)
      b == Bound(j)
  IN
  /\ Stage(j) = "todo" /\ op.does = "setting"
  /\ bindingLock[op.w] = Nobody
  /\ Writable(b) => controlLock[b.sess] = Nobody
  /\ IF ~Writable(b) THEN Ends(j)
     ELSE IF b.status # "ready" \/ hostFollows[Conversation(op.w, b)] = None
             \/ ~NoTaskOf(j)
     THEN Ends(j)
     ELSE /\ bindingLock' = [bindingLock EXCEPT ![op.w] = j]
          /\ controlLock' = [controlLock EXCEPT ![b.sess] = j]
          /\ active' = [active EXCEPT ![b.sess] = j]
          /\ jobs' = [jobs EXCEPT ![j] = [@ EXCEPT !.at = "writing", !.sess = b.sess,
                        !.touches = hostFollows[Conversation(op.w, b)]]]
          /\ UNCHANGED <<registry, writerLock>>
  /\ UNCHANGED <<windowBound, windowDisk, hostFollows, ccExisting, ccMishaps, landed>>

\* resolveClaudeRenameTarget
RenameTarget(s) == s \in ccExisting

\* handleClaudeRename, of any session in the catalog: registry, binding and
\* control locks, then the execution lock without waiting, and no active task.
BeginRename(j) ==
  LET op == Job(j) IN
  /\ Stage(j) = "todo" /\ op.does = "rename"
  /\ registry = Nobody /\ bindingLock[op.w] = Nobody /\ controlLock[op.s] = Nobody
  /\ IF ~RenameTarget(op.s) \/ writerLock[op.s] # Nobody \/ active[op.s] # Nobody
     THEN Ends(j)
     ELSE /\ registry' = j
          /\ bindingLock' = [bindingLock EXCEPT ![op.w] = j]
          /\ controlLock' = [controlLock EXCEPT ![op.s] = j]
          /\ writerLock' = [writerLock EXCEPT ![op.s] = j]
          /\ jobs' = [jobs EXCEPT ![j] = [@ EXCEPT !.at = "writing", !.sess = op.s,
                                                   !.touches = op.s]]
          /\ UNCHANGED active
  /\ UNCHANGED <<windowBound, windowDisk, hostFollows, ccExisting, ccMishaps, landed>>

\* The host has answered.  A task gives its execution lock up first
\* (runAgentTask's deferred calls) and leaves the registry of tasks after.
FinishWriting(j) ==
  /\ Stage(j) = "writing"
  /\ IF Job(j).does \in {"message", "broadcast"}
     THEN /\ writerLock' = LetGo(writerLock, j)
          /\ jobs' = [jobs EXCEPT ![j].at = "leaving"]
          /\ UNCHANGED <<registry, bindingLock, controlLock, active>>
     ELSE Ends(j)
  /\ UNCHANGED <<windowBound, windowDisk, hostFollows, ccExisting, ccMishaps, landed>>

\* completeAgentTaskLifecycle
LeaveTasks(j) ==
  /\ Stage(j) = "leaving"
  /\ Ends(j)
  /\ UNCHANGED <<windowBound, windowDisk, hostFollows, ccExisting, ccMishaps, landed>>

\* The service restarts: bindings are read back and every session is to be
\* resumed (normalizeClaudeBindings); the next write stores what was read.
RestartService ==
  /\ CcMishap
  /\ windowBound' = [w \in CcWindows |->
       LET b == windowDisk[w] IN
       IF b.sess = None \/ b.status = "pending" THEN b
       ELSE [b EXCEPT !.status = "pending", !.rev = @ + 1]]
  /\ windowDisk' \in {windowDisk, windowBound'}
  /\ hostFollows' = [c \in DOMAIN hostFollows |-> None]
  /\ jobs' = [j \in DOMAIN jobs |->
       IF Stage(j) = "todo" THEN jobs[j] ELSE [jobs[j] EXCEPT !.at = "over"]]
  /\ registry' = Nobody
  /\ bindingLock' = [w \in CcWindows |-> Nobody]
  /\ controlLock' = [s \in CcSessions |-> Nobody]
  /\ writerLock' = [s \in CcSessions |-> Nobody]
  /\ active' = [s \in CcSessions |-> Nobody]
  /\ UNCHANGED <<ccExisting, landed>>

-----------------------------------------------------------------------------
Unbound == [home |-> CHOOSE h \in Homes : TRUE, sess |-> None,
            status |-> "unbound", rev |-> 1]

WindowsInit ==
  /\ ccPlan \in CcPlans
  /\ windowBound = [w \in CcWindows |-> Unbound]
  /\ windowDisk = windowBound
  /\ hostFollows = [c \in CcWindows \X Homes |-> None]
  /\ ccExisting = CcMade
  /\ registry = Nobody
  /\ bindingLock = [w \in CcWindows |-> Nobody]
  /\ controlLock = [s \in CcSessions |-> Nobody]
  /\ writerLock = [s \in CcSessions |-> Nobody]
  /\ active = [s \in CcSessions |-> Nobody]
  /\ jobs = [j \in DOMAIN ccPlan |->
       [at |-> "todo", sess |-> None, rev |-> 0, home |-> Unbound.home,
        was |-> Unbound, before |-> None, touches |-> None]]
  /\ ccMishaps = 0
  /\ landed = {}

WindowsNext ==
  /\ UNCHANGED ccPlan
  /\ \/ RestartService
     \/ \E j \in DOMAIN ccPlan :
          \/ BeginRebind(j) \/ BeginCwd(j) \/ CreateOnHost(j) \/ RestoreHost(j) \/ Acquire(j)
          \/ FollowHost(j) \/ ClearPrevious(j) \/ Release(j)
          \/ Admit(j) \/ AdmitBroadcast(j) \/ Start(j) \/ StartBroadcast(j)
          \/ Resolve(j) \/ ResumePending(j) \/ Send(j)
          \/ BeginSetting(j) \/ BeginRename(j) \/ FinishWriting(j) \/ LeaveTasks(j)

WindowsSpec == WindowsInit /\ [][WindowsNext]_ccVars

-----------------------------------------------------------------------------
\* A message enters the session its window was bound to when it was admitted,
\* however the window was rebound, resumed or restarted in between, or it is
\* refused (agent_task.go, validateBindingSnapshot; claude_session_acquire.go,
\* the closed status while the host does not follow).
SentWhereAdmitted == \A l \in landed : l.in = l.meant

\* Prompt, setting and rename never write one session at the same time,
\* although each takes different locks.
OneWriter ==
  \A j, i \in DOMAIN jobs :
    /\ Stage(j) = "writing" /\ Stage(i) = "writing"
    /\ jobs[j].touches = jobs[i].touches
    => j = i

\* A session hears what was meant for it, from one writer at a time.
SessionsSound == SentWhereAdmitted /\ OneWriter
=============================================================================
