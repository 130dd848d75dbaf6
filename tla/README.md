# A TLA+ model of weclaw

weclaw is a gateway between chat platforms (Feishu, WeChat) and coding agents
(Codex, Claude, others).  A chat window is bound to an agent session; a message
starts a task; the task shows its progress on a card of the chat platform and
ends with a result message.  The process is restarted, updated and killed while
tasks run, the platforms are slow and answer ambiguously, one agent thread may be
driven from a chat window, a desktop application and a terminal at the same time,
and the files and processes all of them share are touched by programs weclaw does
not control.  What has to survive that is small: an input runs once, a result the
gateway accepted reaches the chat, a window is never told something untrue, and
what belongs to the user (credentials, history, environment, configuration) is
not lost half way through a change.

## Inventory

| component | state | operations | hard part |
|---|---|---|---|
| terminal outbox (`messaging/terminal_outbox.go`) | the file of entries; in memory `preparing`, `processing`, `startupHeld`, a one-slot wake channel | enqueue, reserve, stage, commit, release, discard, refresh, reanchor, detach, attempt, freeze, redrive, load | worker against producers, a clone taken before the send and written back after it, crash between send and mark, capacity |
| progress session (`progress.go`, `reply_delivery.go`) | stream, reservation id, `terminalClaimed`, `finished` | open, refresh, reanchor, detach, finish | card and file must move in the right order; several locks |
| task service, external tasks (`task_*.go`, `pending_task_controls.go`, `agent_task*.go`, `codex_external_*.go`) | active task and pending slot per key | admit, queue, guide, stop, cancel, release, drain, observe | stop racing completion, a guide in flight, two locks held across calls |
| follower and session bindings (`codex_follower*.go`, `codex_thread_release*.go`, `codex_session_*.go`) | per window: revision, attach phase, claimed turn; release tombstones; delivery holds | switch, release, attach, reconcile, replay, revoke, archive, restart | two files updated in two steps, revocation against a delivery in flight |
| approvals and interaction broker (`approvals.go`, `agent/codex_interaction_broker.go`) | pending interactions, brokers, mailboxes | ask, answer, time out, give back, `/mode` | exactly one answer |
| Codex turns and writer lease (`agent/codex_runtime_*.go`, `codex_binding_intent.go`) | lease, attempt record, binding revisions | start, steer, confirm, reconcile, bind, archive | lost answers, reads that come back late |
| Codex host, account switch, restart (`codex_app_server_gate.go`, `codex_account*.go`, `codex_restart.go`, `runtime_restart.go`) | gate, index journal, metadata, restart file | switch, save, reconcile, restart, cancel, boot | crash between stop, credentials and start |
| account store (`codexauth/`) | index, create intents, secrets | save, remove, refresh, activate, flush, recover | three places, no common write |
| host conflicts (`codex_host_conflict*.go`, `codex_host_supervisor.go`, `codex_daemon_host.go`) | process table, metadata, pid record | plan, prove, re-prove, signal | process numbers are reused |
| shared App host (`codex_app_bridge.go`, `codex_app_bootstrap.go`) | argument, bootstrap and pipe files | connect, start, confirm, replace, join | the bridge is a process of the App |
| launch environment (`codex_app_bridge_darwin.go`, `codex_app_daemon_reuse*.go`) | launchd variables, their backup | configure, roll back, restore | one command per variable |
| provider migration (`codex_provider_migration.go`, `scripts/codex-provider-switch.sh`) | rollout, state row, catalog row, child offsets, backups | migrate, roll back, switch, restore | four places, a program that writes meanwhile |
| desktop connector (`codex_desktop_*.go`, `codex_thread_watch.go`) | connection epoch, bounded queue, cache, projection | call, read, apply, publish, watch | lost patches, half-written requests |
| Claude host (`acp_*.go`, `claude_session_*.go`) | process, generations, pending calls, mailboxes | start, call, new, resume, prompt, rename, exit | an answer of a process that is gone |
| Claude windows (`messaging/claude_*.go`) | bindings with revision and status, four kinds of locks | switch, new, `/cwd`, settings, message | several windows on one session |
| Feishu cards (`feishu/stream.go`, `task_card.go`, `approval_waiting.go`) | sequence numbers, card registry | update, expand, approve, move, finish | requests overtake each other |
| Feishu ingress (`dedup*.go`, `dispatch_order.go`, `adapter_events.go`) | claims with a lease, tickets | accept, download, dispatch, give up | redelivery during a long download |
| WeChat polling (`ilink/`, `wechat/`) | cursor, bounded queue per sender | poll, enqueue, aggregate, ack, restart | cursor saved for what nobody handled |
| access, configuration, identities (`platform/`, `config/`, `feishu_identity_*.go`, `cmd/start_config_reload.go`) | configuration file and lock, allowed users, identity records, codes | grant, revoke, save, reload, admit | three processes write one file |
| service commands (`cmd/start*.go`, `stop.go`, `restart*.go`, `update*.go`) | runtime lock, launch lock, pid file, program file | start, stop, restart, update, roll back | commands that overlap or are killed |
| workspace registry, trace store, API and console pages, doctor, rendering, other agents, release scripts | tables behind one lock, or none | | sequential |

Interaction: an admitted event (`FeishuIngress`, `WeChatPolling`, `PlatformAccess`)
becomes a message of a window; the window's binding (`CodexFollower`,
`ClaudeWindows`) names a session; the task service admits or queues it; a turn is
started through gate, lease and host (`CodexTurns`, `CodexHost`, `ClaudeHost`) and
its requests come back through the broker (`Interactions`); the task opens a
progress session, which reserves an entry of the outbox; the end of the task
stages and commits its result there; the worker delivers it (`TerminalOutbox`,
`FeishuCards`) after asking the follower registry whether the window may still
receive it; the reconciler and the replay enqueue results no session of this
process watched.

## Modules

| module | models | composed in |
|---|---|---|
| `OutboxStore`, `ProgressSession`, `OutboxWorker` | entries and what every writer of the file does; the session and its card; producers, worker, attempts, freezes, redrive, restart | `TerminalOutbox`, with fairness and properties |
| `DeliveryContract` | the abstract promise: owed until shown, withdrawn, or evicted as a dead letter | refined by `TerminalOutbox` (`Contract`) |
| `ActiveTask` | one `activeAgentTask` | `TaskService`: index, admission, queue, run, observation, settings, commands, drain |
| `CodexFollower` | one window with its binding, the reconciler, commands, observers, the follower's part of the outbox, access | |
| `Interactions` | requests, brokers, mailboxes, front ends with their windows | |
| `CodexTurns` | inputs, wire, app-server history, leases, bindings | |
| `CodexHostGate`, `CodexAccountSwitch`, `CodexRestart` | the host behind its gate; the switch; the restart | `CodexHost` |
| `CodexAccountStore`, `CodexHostConflict`, `CodexAppShared`, `CodexLaunchEnv`, `CodexProviderMigration`, `CodexDesktopStream` | the component of that name | |
| `ClaudeHost`, `ClaudeWindows` | the adapter process and its callers; windows and sessions | |
| `FeishuCards`, `FeishuIngress`, `WeChatPolling`, `PlatformAccess`, `ServiceUpgrade` | the component of that name | |
| `MCTerminalOutbox`, `MCTaskService`, `MCCodexFollower`, `MCInteractions`, `MCCodexTurns`, `MCCodexHost` | constants, symmetry and constraints for TLC | |
| `MCAgentParts`, `MCSurface` | several modules without common state in one run: a behaviour takes the steps of one part, the others rest, so the states are the sum and not the product | |
| `TerminalOutboxSafety`, `TerminalOutboxContract`, `TaskServiceSafety`, `CodexTurnsSafety` | proofs about the module of that name | |
| `InteractionsSafety` | proofs about `Interactions` and `ServiceUpgrade` | |
| `HostsSafety` | proofs about `CodexHost` and `ClaudeWindows` | |
| `AgentPartsSafety` | proofs about `CodexAccountStore`, `ClaudeHost` and `CodexProviderMigration` | |
| `PartsSafety` | proofs about `CodexLaunchEnv`, `CodexAppShared`, `WeChatPolling`, `CodexHostConflict`, `PlatformAccess`, `FeishuIngress` and `FeishuCards`, which share no variable | |

Conventions.  A handler that keeps one lock throughout is one action; where it
gives a lock back, writes a second file or waits for another process it is several,
and everything else may happen in between.  A file that is written as a whole with
an atomic rename is one variable; a failed write is a disjunct that leaves it.
Failures, exits, cancellations and commands are bounded by one constant per module
(`Max...Mishaps`, `MaxFaults`, `MaxUpsets`, `MaxLosses`); a definition marked
*mutant* is a plausible bug of the definition after it, and the properties are
known to fail when it takes its place.  Variables marked history are never read by
a guard of the code's own.

### State of the outbox

`entries` is the outbox file.  Every mutator of `terminalOutbox` works under `o.mu`,
writes the whole list with an atomic rename and restores its copy when the write
fails, so the list in memory and the file agree whenever the mutex is free; one
variable stands for both and each such operation is one action, with a disjunct
for the failed write (`WriteFails`, bounded by `MaxWriteFails`).  A failed write
that changes nothing else is a stutter and has no disjunct.  `preparing` and
`startupHeld` are the maps of that name; `att[i]` stands for `processing[i]` together
with what its holder has in local variables (the clone, the running stages, the
errors so far); `due` is the snapshot `run` walks through, `asleep` and `wake` the
select without a timer and the channel.  `sess`, `resv` and `cur` are the session:
how far its terminal got, `recoveryReservation`, and the open stream.  `cards`,
`shown` and `acked` are the platform as a user sees it.

An entry keeps the stream reference and the checkpoint as card numbers, the text
as one of four kinds (the restart notice, the result, the stub for an empty reply,
none), the delivered flags as a set of stages, attempts, the dead-letter flag and
the pending freezes with their own attempts.  Routes, titles, traces and the
wording are left out; the notification stage is left out because no adapter of the
repository advertises `StreamCompletionNotification` for a durable terminal.

Time is abstracted: an entry in its backoff is an entry `Scan` has not chosen.
A delivery may fail although the platform carried it out (`DeliverFails`), and a
checkpoint may time out together with the result waiting for it
(`CheckpointTimesOut`).  The delivery decision of the follower registry is the
environment: `Allow`, `Defer` or `Deny` for a guarded entry.

`Restart` is a process exit at any point followed by `StartTerminalOutbox`: every
variable but the file and the platform is lost, and the entries of followers that
still match are held until `ReleaseHold`.

### State of the task service

`active` is `tasks.active[key]` for one key.  Keys share nothing but the `draining`
flag, and the drain treats every task alike, so one key shows everything but the sum
over keys.  `task[t]` holds the fields of `activeAgentTask` that the code branches on,
and `pc`, where the goroutine of the task is: for a message from its start through the
execution lock, the turn, the claim, the delivery, the unlock to the completion; for
an observation from the reservation through the watch and the reconciliation.  A
method that runs under `task.mu` or `tasks.mu` is one operator of `ActiveTask` or one
building block of `TaskService`; a handler that gives a lock back in between is
several actions (`StopResolve`, `StopBegin`, `StopInterrupts`, `StopCommit` for a remote
stop; `GuideResolve`, `GuideTake`, `GuideDone` for a remote guide).  A task whose
goroutine has ended and that is out of the index is `Retired`: what nobody can read
any more is reset, which keeps the state space small.

`msg[m]` is where a message is and at which task; `control` and `guide` together are
the thread control lock, which a submission or a guide keeps across a call to the
Codex host.  That the execution lock is held shows in the position of the tasks.
`fate`, `cards` and `issued`, and in a task `verdict`, `released`, `asked` and `cut`, are
observations for the properties and are never read by a guard of the code's own.

External, as far as the code uses it: the Codex host accepts, rejects or does not
answer; a turn ends in success, an error or an interruption; the rollout confirms an
end or does not.  Which thread a submission is for is left open, so a preflight may
steer into the active turn or fail.  Control cards exist on Feishu only.

`Faults` switches on what the runs treat separately:

| fault | what happens | consequence |
|---|---|---|
| `observer` | an observer does not become ready | `QueuedHasHome` fails |
| `reservation` | the cursor of the follower is not written, the reservation is canceled | as above if something was queued |
| `reopen` | a refused or canceled drain opens the entry while another drain waits | a message can be queued on a task that will drop it |
| `lateStop` | `/stop` looks for a known turn in one critical section and acts in the next | a `/stop` can reach a reservation, which then is neither activated nor canceled: `ActiveHasRunner` fails |
| `lateGuide` | the same for `/guide` | two guides of one message, and it is steered and run: `InputOnce` fails |

The last two need two commands within a moment of each other and no document speaks
of them.

### The follower

`sel` is the window's record in the binding file: the selected thread, the state of each
session, the followed thread with its revision and attach phase, the claimed turn, the
release tombstone and the replay record.  `rec`, `cmd` and `task[t]` are the reconciler,
the command in progress and the observer of a thread, each a program counter with its
local variables; `out` is the follower's part of the outbox file and `prep`, `startup`,
`folHeld`, `relHeld` its holds in memory.  `codexFollowerDeliveryMu` has no variable: a
delivery under way is a member of `inflight`, and every action that takes the barrier for
writing is enabled only while nobody holds it.  A delivery decides and sends in two steps
under the barrier; the reconciler reads the host in one step and acts in later ones, so
that what it read is stale when it acts.  `shown`, `vouched` and `torn` are history: what
reached the window, whether this process saw the follower become ready, and which turns a
fault left between the two files.

### Turns, interactions, hosts

`CodexTurns` is the shared Host: this program and the application are clients of one
app-server whose history `hist` they both see.  A request stands on the `wire` until it is
taken or lost, and its answer is lost or late.  `admission` is `codexAdmissionMu`; `lease`
is the writer lease with its uncertainty; `input[i]` is the run of an input through
admission, resolution, lease, binding check, write, confirmation and collection.  Which
thread a conversation has is kept twice, as in the code (`sel`, `route`), with the
revisions that late answers are compared with.

`Interactions` composes the agent's tables of pending requests with one loop per front
end: a request is remembered, bound to a broker, mailed, registered, shown, and
answered by text, button, timer, detach, cancel or `/mode yolo`.

`CodexHostGate` holds the state the account switch and the restart share (gate, admission
mutex, host process, metadata, `auth.json`, account index, restart file);
`CodexAccountSwitch` and `CodexRestart` are the two maintenance operations, step by step
between their durable writes; `CodexHost` adds the boot of the service and the properties.
`CodexAccountStore` is the transaction those steps write through, over index file, intent
file and secrets.  `CodexHostConflict` plans from one snapshot of the process table,
proves from a second one, proves again and signals, while processes come and go under the
same numbers.  `CodexAppShared` is the bridge the Codex App starts as its child: four
files are written one by one and it may be gone after any.  `CodexLaunchEnv` sets launchd
variables one by one, with backup, rollback and restore.  `CodexProviderMigration` moves a
thread over four places under a backup directory, and holds the offline script over the
same files.  `CodexDesktopStream` is the connector to a running application: numbered
patches, a bounded queue, a cache per connection epoch, and the watcher of one turn.

`ClaudeHost` is the adapter process with its generations; each caller is a sequence of
steps between locks, and the reader of a dead process may still have output to hand over.
`ClaudeWindows` is above it: bindings in memory and on disk and four kinds of locks, of
which each operation takes others in another order.

### Platforms and operations

`FeishuCards` gives each request for a card a sequence number when it is prepared, the
platform takes it only when it is higher than the last one, and a request whose caller
gave up may still arrive.  `FeishuIngress` has deliveries of an event that overlap.
`WeChatPolling` has the cursor of the long poll in memory and on disk, the queue of one
sender with its worker, and the calls of the handler.  `PlatformAccess` has three
processes writing one configuration file, the reloader, the registry and the follower
endpoint.  `ServiceUpgrade` has two operators, of whom one may update (`Updater`): two
updates at once back up each other's program file, and nothing in the code excludes them,
so a rollback would be to whatever was there; the properties are stated for at most one.

## Properties and runs

| run | bounds | checks |
|---|---|---|
| `sessions` | 1 task with 2 cards, or a notice and a guarded replay for 1 slot (constraint `Apart`); 2 attempts, 1 failed write, 1 restart, 1 redrive | `LiveReservationUndisturbed`, `FileSound`, `RecoverySound`, `Contract`, `CardsKept`, `CardBeforeResult` |
| `outbox_fair` | 1 task, 2 cards, 1 restart, no failed write, fair | `EverythingSettles` |
| `codex_tasks` | 2 symmetric Feishu messages, 1 observation, 2 commands, every fault but `lateGuide` | `InputOnce`, `StoppedOnlyIfAsked`, `OverIsOver`, `TerminalStands` |
| `codex_fair` | 2 WeChat messages, 1 observation, 1 command, no fault, fair | `NobodyForgotten`, `EveryInputSettles` |
| `claude_tasks` | 2 messages of one window, 1 of another, 1 settings change, 3 commands, fair | `EveryInputSettles` |
| `follower` | 2 symmetric threads with a turn each, 2 commands, 1 failed host call, rolled back switch, revocation or hot reload, 1 crash | `SendsAreCurrent`, `RestartTrustsNothing`, `ShownOnce` |
| `follower_fair` | 1 thread that may be archived, 1 command, 2 failed writes, roll backs or revocations, 1 crash, fair | `PendingReported` |
| `interactions` | 2 front ends, 1 request, 2 turns, 2 brokers, 1 fault, 1 `/mode` | `AnswersSound`, `YoloLeavesNoneWaiting` |
| `codex_turns` | 1 thread, 2 symmetric inputs, 1 retry, 1 binding operation, 2 losses, 1 turn of the application | `AttemptsSound`, `SelectionsCurrent`, `UncertainLeaseKept` |
| `agent_parts` | host: 2 accounts, 1 turn, 4 host processes, 3 operations, 2 upsets; conflicts: 2 process numbers for 3 starts; shared host: 3 hosts, 3 bridges; desktop: queues of 1, 2 connections; Claude: 2 callers, 2 adapters, 2 mishaps | `HostSound`, `NoTurnCut`; `OnlyProvenSignalled`; `ClientsOnFormalHost`; `ConnectorTrue`, `EmptyAfterAsking`; `PromptsSound` |
| `surface` | as in `surface.cfg`, one or two mishaps per part | `StoreSound`; `NoOrphanedOverride`; `MigrationSound`; `CardsSound`; `OnceInTurn`; `CursorNeverSkips`; `CommandsUndone`; `SessionsSound`; `RevokedStaysOut`, `UpdatesKeepTheRest` |
| `unsafe_gate` | the host part of `agent_parts` | violation of `ShutUntilRepaired` |

A property named `...Sound` is a conjunction whose conjuncts are definitions with their own
comment; each conjunct was broken by a mutant of its own when it was written.  Every
module with a proof has its types in its inductive invariant; `FollowerTypeOK` holds on the
constants of `follower`.

The bounds.  Entries of the outbox interact only through the capacity, the worker and the
wake channel, so one task with two cards reaches every transition of a session against the
worker, and two entries for one slot reach the eviction and the refusal.  Two attempts tell a
retry from a dead letter; two cards tell the authority from a superseded card; one write
failure and one restart can each fall between any two steps.  In the task service two
messages are a running and a queued one; one observation can precede or follow either; two
commands are enough for any pair of races.  A follower with two threads can switch away and
come back to the same thread at another revision.  Two inputs compete for a lease and one
of them retries; two losses lose both an answer and the read that would have confirmed it.
Two process numbers for three starts make reuse unavoidable.  A queue of one is full after
one element, and three messages then overflow it while it is drained.  Two operators overlap
once.  Feishu delivers an event twice, overlapping, or after its fingerprint is forgotten, with a
copy, a second message, a click or a `/stop` beside it.  An archive of a thread meets the barrier
in `follower_fair` only, whose property does not ask for it.  In all of them one mishap can fall between any two steps, and two reach the
failure of what was meant to repair the first.

`MCAgentParts` and `MCSurface` put several parts side by side that share no state in this
development; the part is chosen in the initial state, so nothing is lost or gained by the
combination.  The migration runs on two providers; its row begins with the first of them, since
no definition tells one from another.  Deadlock is not checked: every part may simply be done.

### Fairness

Outbox: the worker goroutine runs (`WakeUp`, `Sleep`, `WorkerAttempt`), a backoff ends (`Scan`
of an id that is due again and again, `WorkerSupersede`), and calls into the platform return
because every one has a timeout (`AttemptStep`, `FreezeStep`, `ReanchorPersist`,
`DirectAttempt`).  Nothing is assumed of the platform's answers, of sessions or of operators.
`outbox_fair` has no failed write: after one, a session in the legacy path can refresh an
entry that died in the meantime and so make it due again without a signal, and the worker
sleeps until the next one.

Task service: goroutines run; a turn ends, because `contextWithTaskTimeout` bounds a run, and
by assumption on the other client for an observation; calls to the host return, because
their contexts have deadlines; a submission that waits for a lock gets it (strong fairness
of `SubmitStep`: the locks are tokens in a channel, whose receivers wait in the order they
came).  Nothing is assumed of users and drains.  `EveryInputSettles` then rests on the two
timeouts of the wait in `steerMessageIntoLiveTask`: a submission holds the control lock and
waits for a task whose watcher needs that lock to reconcile.

Follower: the command in progress, the reconciler (a ticker starts it again and again), the
observers, the outbox worker and the reconciliation of access take their steps; host calls
return because they have deadlines.  Nothing is assumed of users, of the host's turns or
of faults, which are finitely many.

### Disagreements

`unsafe_gate`: a switch of the running service that ends unsafe sets the gate to failed
without recording a cause.  A forced restart takes the gate, is refused before it stops
anything, and `finishExclusive` opens it (`agent/codex_app_server_gate.go:105`), against the
comment at `:81` and the words of the account doctor (`codexauth/store.go:261`).

The following definitions are kept in the modules and fail on the constants given; they are
not runs of their own because the runs above ask the same components more.

| definition | fails with | the code and what it is measured against |
|---|---|---|
| `TerminalOutbox!QueuedSettles` | the fair specification with a single replayed result | `queueLatestIdleCodexReplay` enqueues and does not signal; on an idle process the result `docs/AI_CONTEXT.md:28` promises is not sent until something else wakes the worker |
| `TerminalOutbox!InterruptOnlyAfterRestart` without `writeFails = 0` | 1 task, 1 failed write, no restart | when `stageReservationResult` fails, the reservation, which still holds the restart notice, is released to the worker of the living process, against the comment on `reserve` (`terminal_outbox.go:687`) |
| `TerminalOutbox!StagesIndependent` | 1 task, 1 card | a rich Feishu result waits for the checkpoint inside its own timeout; `README.md:186` says one blocked path never blocks the other |
| `TaskService!QueuedHasHome` | `Faults = {"observer"}`, no command | an observer that does not become ready removes its task with `finishActiveTask` (`codex_external_task.go:326`), which drops the pending message; its sender was told that it runs after the current task (`task_commands.go:13`) |
| `TaskService!StopReported` | no fault, 1 command | a remote stop sets the phase only after the host has answered; a turn that ends on the accepted interrupt before that is reported as failed, where `docs/AI_CONTEXT.md:73` demands a terminal of its own |
| `ServiceUpgrade!NoStrandedDrain` without `svcMishaps = 0` | 1 command | an old service takes the plain drain of `stop` and the answer is late or invalid: the command fails and leaves the service drained (`restart_safety.go:205`), where `tasks/lessons.md:526` demands that messages are let in again |
| `Interactions!ClosedStaysClosed` | `MaxTurns = 1`, `MaxModes = 0` | a request is remembered again after it was closed (`turn_channel_registry.go:127`, `codex_interaction_broker.go:299`) and shown to a front end that attaches later; the broker still lets one answer through |

### Observed while modelling

What follows is in the models as the code does it.  Where a property has an exception, it is
one of these; no document of the repository speaks of them.

* Follower.  A switch rolled back after a restart restores the ready phase although the
  holds were dropped, so the card of a running turn can be declared stopped
  (`terminal_outbox.go:508`).  A crash between the reconciler's enqueue and its claim
  (`codex_follower.go:613`) shows a turn as followed result and as replay; so does a failed
  receipt write followed by a revocation and a crash.
* Interactions.  A denial by text between the registration and the second look at the mode,
  followed by `/mode yolo`, is sent as an approval.
* Turns.  `requireThread` reads selection and lease at two moments (`acp_threads.go:107`).  A
  start cancelled before its answer is recorded as rejected
  (`codex_runtime_turn.go:171`).  Two steers with equal text cannot be told apart by digest.
  An observation read before an uncertain lease was taken can release it.
* Host.  The login is read before and recorded after a verification that another program
  may cross (`codex_account.go:167`): the generations this happens to are `misread`.  A turn's
  account is checked before its channel is registered, and `turn/start` goes to whatever host
  is connected by then (`codex_app_server_turn.go:78-129`): a host that dies or is stopped by force in
  between, and is replaced by one of another account, gets the turn.  `turn[t].vetted` is the host
  it was checked on, `gen` the one it was written to.
* Shared host.  A host that was started with its full configuration and whose starter died
  before the last file stays behind a "starting" record.
* Launch environment.  A second shared prepare keeps the first backup; a rollback overwrites
  what the user changed meanwhile; disabling the daemon mode unsets its switch only.
* Provider migration.  A database call can commit and be reported as failed; a rollback runs
  under the context that was cancelled; the script reads the rollouts before it looks for
  running programs, and the application can be opened again while it works.
* Desktop.  `needsSnapshot` survives a connection, so the gap of the next one is not asked
  for; the worker waits for a snapshot only it can apply; `Hole` lists the ways to an empty
  result that do not pass the question.
* Cards.  Numbers reserved for a stored checkpoint are overtaken by later requests, and the
  checkpoint is refused until it is a dead letter.  A repeated freeze, or the purge after 30
  minutes, forgets the card that followed, and a later decision goes to the old one.  Four errors of
  CardKit count as delivered (`stream.go:1179-1190`): the checkpoint is struck off and the card
  never shows its end (`TurnedDown`).
* Ingress and WeChat.  A deferred group message is lost when the dedup write fails or the
  process exits; a duplicate is acknowledged while the first may still fail; with the limit on
  the age of messages off, or over ten minutes, a redelivery after the fingerprint has expired
  enters again (`dedup.go:175`; the default is two minutes).  A WeChat
  message is acknowledged when its handler starts (`ilink/monitor_queue.go:15`).
* Service.  The launcher overwrites the service's pid file, and `stop` may remove a newer
  one; a probe of the runtime lock can make the child fail to take it; a compensating
  `DELETE` cancels the drain of another command; `stop` removes the pid file whatever it names by
  then (`start_daemon.go:241`), and a command that drained the service it named finds nothing to stop
  (`disowned`); a `systemctl restart` that fails although it replaced the unit leaves the new program
  running after the update's rollback.
* Claude.  `markClaudeSessionLoaded` and `commitBindingIntent` stamp the generation of the
  moment after the answer (`misstamped`); the updates of a prompt that was given up enter the
  reply of the next one of the same process (`deserted`).
* Access.  A failed load advances `lastMod`, so the change is not read until the next one; an
  identity save that fails is logged only; command line and service overwrite each other's
  identity file; a hand edit takes no lock; a message admitted before a revocation is
  handled under its old grant.

Hazards of the code no property is stated for: the residue of an entry after a fault between
the last `markDelivered` and `removeDelivered` (`terminal_outbox.go:2180`; `NoResidue` is about
behaviours without a fault); the exit between a legacy finish and the discard
(`progress.go:1443`); freezes dropped with an evicted dead letter (`terminal_outbox.go:825`);
`lateGuide`, `lateStop` and `reopen` above; a `/cancel` that empties the slot while a guide
sends its message (`task_state.go:250`): whether the answer "withdrawn" was true depends on
the host.

Guards that are early returns of the code and that no reachable state takes are kept: the
losing side of the compare-and-swap in `ClaudeWindows` (the registry control excludes it), the
record that lost all its limits in `PlatformAccess`, and the binding that changes under a
held lease in `CodexTurns`.

## Proofs

Each theorem holds for every value of the constants that satisfies the assumptions of its
module.  For the outbox these are `IdsAssumption` (the kinds of ids are disjoint, finitely
many), `BoundsAssumption` (limits are naturals, at least one entry and one attempt) and
`NoEntryAssumption`; the bounds on failures, restarts and redrives are arbitrary naturals.

* `TerminalOutboxSafety`: `TypeSafe == Spec => []TypeOK`.  `TypeOK` is not inductive: a
  freeze writes to `cards[i][att[i].card]` and an attempt to its clone's checkpoint,
  so `TypeInv` adds what a holder's card and clone are at each of its program
  counters.
  `ReservationsUndisturbed == Spec => []LiveReservationUndisturbed`
  and `CapacityCorrect == Spec => []CapacityRespected`, the latter a conjunct of `FileSound`.
  The invariant `SafeInv` adds to the property that an entry under `preparing` is at rest and
  that only tasks have sessions.  Most actions are local to one id: `OthersRest` is the frame
  lemma, each action then has one lemma for its own id.  Capacity rests on a lemma that only
  `Insert` makes the set of recorded ids grow, by one, into room.
* `TerminalOutboxContract`: `ContractCorrect == Spec => Contract`, the refinement.  The
  invariant `OwedInv` says that a reservation under recovery does not hold a result,
  that the clone of an attempt carries the text the file carries as long as it is
  owed, that an attempt that is about to settle an entry has no stage left to send,
  and that what was acknowledged is shown.  From it every step moves each obligation
  as the contract allows (`HonouredMoves`).
  `FileStaysSound` and `RecoveryStaysSound` state the run's `FileSound` and `RecoverySound`,
  both from `SoundCorrect`, whose invariant is again local to an id (`SoundAt`) and rests on the
  types, `SafeInv` and `OwedInv`:
  - `Counted`: a result that may still be sent (`MayBeSent`: owed and not in the sent stages of
    the attempt, in the hands of an attempt, or with a session that runs) was acknowledged at
    most once per fault; any result at most once more than that;
  - `CardsFit`: the card of the record, the one the session writes to, the one that is being
    frozen and those of an attempt's clone are kept apart, so that freezing the old one never
    hits the one a restart would settle;
  - `Held` and `Quiet`: what a terminal holds has its text, and the text for a restart stays
    with a task that is alive, unless a write failed;
  - `Useful`: without a fault an entry has something left to do, the clone of an attempt
    agrees with the file, and an attempt that failed leaves what it failed to do.

  `CardsStayKept` and `ResultFollowsCard` are the action properties `CardsKept` and
  `CardBeforeResult`, from the same invariant.  As long as every write succeeds, what became
  of a card agrees with the entry, or the clone, that names it, and the card of a session
  that runs is open (`Decided`, `CardAgrees`, `OneCard`); a card that was replaced leaves the
  record only frozen (`Retired`); an attempt whose entry still owes the card has it in its
  clone and sends it, or waits to mark it, before the result, unless it failed
  (`Awaited`).  `Belated` and `NotAcked` are about the exception of `CardVerdictsStand`: a
  recovery meets a final card only after a restart and before a result was acknowledged.

For the task service the assumptions are `TaskConstants` (messages, observations and
settings changes are disjoint, guests are messages) and `FaultsKnown`; sets may be
infinite and `MaxCommands` is any natural.

* `TaskServiceSafety`: `TaskTypeSafe == Spec => []TaskTypeOK`, which is inductive: one lemma
  on what each operator of `ActiveTask` returns, one per group of actions.
  `DoneSafe` and `ReleasedSilent` (two conjuncts of `OverIsOver`),
  `StopsWereAsked` and `TerminalsStand`, for every combination of faults, and `InputsOnce` for
  every one without `lateGuide`.  The invariant `SafeInv` is the conjunction of the types and
  - `DoneClosedOnce` and `ActiveKnown`: the index holds only a task that was started and
    not closed, so that removing it is the first close;
  - `WaitingNotRun`: a message that waits has no task yet, so admission starts a fresh
    one and cannot reset the count of closes;
  - `PendingHeld`: the message in a slot is queued at that very task, or the guide in
    flight has it, so a promotion revives nothing that was run;
  - `DeliveryClaimed`: delivering needs the terminal claim, and a released task is not
    active, so that claim and release exclude each other;
  - `StopsAsked`: also while the host is asked, the task that will be committed as
    stopping is one somebody asked to stop;
  - `IdleFresh` and `SteeredTurnKnown`: a task starts from a phase that is not terminal,
    and a guide holds the slot only of a task whose turn is known.

  `Moves` says what every change of one task respects; `OneTaskMoves` shows once that
  such a change, together with messages that wait nowhere or at that task, keeps the
  invariant, and each action is shown to be one.  `InputsOnce` adds that what waits was
  neither run nor steered, and that a message a guide is sending stays in the guide's
  hands; the latter is where `lateGuide` breaks it.

  `OverStaysOver` states the run's `OverIsOver` for every combination of faults.  `NobodyIsForgotten` is about `Faults = {}`: each of the
  five faults alone breaks `NobodyForgotten` on two messages.  Its invariant
  `HomeInv` says that no step can end the goroutine of the task in the index and leave the
  task there (`ActiveSound`), that a queued message is in a slot which the end of that task
  will promote from (`QueuedPromised`), that only Codex tasks are steered (`SteersAreCodex`)
  and that a stop is asked only of a task that was activated (`StopActivated`).

Interactions (`InteractionAssumption`: finitely many requests, any windows, at least one turn and
one broker).

* `InteractionsSafety`: `OneAnswerGoesOut` and `YoloIsComplete`, both from
  `InteractionInvariant`.  Beside the types, the invariant says that whatever anybody holds was
  asked and has a broker (`Held`); that a request which was not given back after its end has
  one broker, that at most one front end is in the middle of an answer through it, and that
  nothing was sent before and nobody told of its end while the broker can still be submitted
  to (`Unrevived`); that what a front end holds is what the user was told, unless the mode
  changed (`HandsTrue`), and so is what was sent (`AcceptedIsSent`).  `AnswersSound` excepts
  the requests of the disagreement `ClosedStaysClosed`: those remembered again after their
  end (`revived`).

Inputs, bindings and leases on the shared host (`TurnsAssumption`: the name of no input is the
name of "no input"; sets may be infinite).

* `CodexTurnsSafety`: `AttemptsAreTrue`, `SelectionsStayCurrent`, `LeaseOutlivesTurn`.  The last says
  of all three ways to release the lease of an unobserved turn (a resolution, the task, the report
  of an observer) that the turn is over, except by a report read before the turn began
  (`ReadBefore`).  The invariant has three parts, about three groups of variables, so that an action is shown to
  keep the parts it touches and frame lemmas carry the others:
  - `HostInv`: only the last turn of a thread is in progress (`OneOpen`), an input has one
    request on the wire (`OneRequest`) and one place in the history or none (`OnePlace`), and
    what the attempt record says agrees with wire and history (`Fates`).  An input can be
    sent again only from a fate that excludes that it is, or will be, in the history;
  - `BindInv`: an operation whose intent is still the latest was asked for since the
    conversation was last cleared (`IntentsKnown`), so that what a late answer selects is;
  - `LeaseInv`: whatever names a turn names one of the history (`TurnsKnown`), a lease belongs
    to an input that started a turn on that thread, an uncertain one to the input that was
    interrupted there (`LeasesKnown`), and an idle state read after a lease was met shows the
    turn of that lease over (`SeenOver`); beside it, `SightingsTrue`: what an observer has read as
    over is over in the history.

The shared host (`HostAssumption`: no account has the name of "no account", no turn the name of
another holder of the mutex; sets may be infinite, bounds are naturals).

* `HostsSafety`: `HostSafe` and `NoTurnIsCut`, both from `HostInvariant`.  The invariant has four parts:
  - `HoldInv`: an operation runs behind the draining gate and holds the mutex itself or
    through the turn that asked for it, and without force no turn has a permit (`GateHeld`);
    this is all that `NoTurnIsCut` needs, also for a turn that is checked and not yet written;
  - `AccountInv`: what an operation has read (`OpKnows`) and that a host of the generation it saw
    runs as the account it saw (`OpSaw`), so that the account written into the metadata is the
    one of the host (`MetaTrue`) and a turn that is ready was checked on a host of the active
    account (`ReadyTrue`).  The exceptions are `misread` and a turn written to another host than it was
    checked on, the two windows the property names;
  - `ShutInv`: an unsafe record has an operation that touched the host, a forced restart, or a
    gate that is or boots failed (`UnsafeHeld`);
  - `GoneInv`: a host that is recorded as stopped and still up is the one in the restart file,
    and the entry is closed until the restart stops it, or knows that it has to be replaced
    (`DoomedKnown`); which states of a restart keep the entry closed (`RestartShape`).

  Each action has one lemma.  What its effect on host and turns is comes from a lemma about the
  operator it uses (`Starts`, `Stops`, `Replaces`); the parts it does not touch from frame lemmas
  (`HoldKeeps`, `RunsKeep`, `OpKeeps`, `ShutKeeps`, `GoneKeeps`); a step of an account operation
  either goes on (`SwitchGoes`) or returns (`SwitchReturns`).

* `SessionsStaySound` from `WindowsInvariant`, the Claude windows (`CcAssumption`: there is a
  session, none is called "none", plans are sequences of the jobs there are).  A command that
  rebinds a window holds the window's binding lock from its first look to its end, and while
  it does no message of the window is on its way (`Alone`); so a message stays the active
  task of the session it was admitted for, to which its window stays bound (`MessageRight`).
  A window whose binding is ready is one the host follows or has forgotten (`HostTrue`),
  except while a command may still have to put the host back, which then knows what was
  there (`Reverts`, `RebinderRight`).  Each writer holds two of the three locks of a session
  (`WriterRight`), which is why there is one.  Each action is shown to be a step of its job
  (`JobStep`), and such a step to keep all of it (`JobStepKeeps`).

`AgentPartsSafety` is about three modules without common state.

* `StoreSafe` from `StoreInvariant`, the account store (`StoreAssumption`: bounds are
  naturals).  `StoreSound` speaks of the disk alone and is not inductive: what a write makes
  true depends on the copy that is written.  `StoreInv` relates them: every secret the disk
  refers to is one the copy refers to or has marked for deletion (`Copy`), and what the copy
  refers to exists until the transaction is given up (`Candidate`); between commits nothing
  differs but deletes already done (`Clean`), a new secret has a fresh name and is no
  profile's on disk (`Fresh`), and intents are withdrawn only for secrets that are accounted
  for otherwise (`Batches`).
* `PromptsStaySound` from `ClaudeInvariant`, the Claude host (`ClaudeAssumption`: no session
  is called "no session", callers are numbered from 1, plans are sequences of the operations
  there are).  The invariant has five parts beside the types: wherever a session is needed
  one is named (`NamesInv`); which process runs, of which generation, and that at most one
  caller leads its start (`RunInv`); what stamps, bindings and callers believe to be loaded
  is loaded in the process of that generation (`LoadInv`); whose prompt a mailbox is for,
  and what a process may still say (`OwnInv`: what was gathered is accounted for, the last
  word of a prompt follows its text, a request number is used once, a caller owns the prompt
  it waits for).
* `MigrationsStaySound` from `MigrationInvariant`, the provider migration (`MigAssumption`:
  finitely many child threads, none called as a store).  `MigrationSound` is about the time
  between two runs; `MigInv` follows a run.  Everything Codex wrote is in some backup before
  a file is touched (`AllBackedUp`), each store is as the list of what was written says
  (`RollAs`, `RowAs`, `KidsAs`), the rollback has put back what is no longer on that list or
  remembers that it failed (`MigUndoing`), and the record of the run is unfinished all along,
  so a run cut short anywhere is found.  A run may start from a thread that already is one of
  the exceptions of the property, or was left torn by an earlier run (`Excused`); only of a
  thread that was whole when it was read does the invariant say that a rollback makes it
  whole again (`WasWhole`).

`PartsSafety` is about seven modules without common state, each with its own invariant.

* `OverridesCanBeUndone` (`EnvAssumption`: finitely many variables).  `EnvInv` adds to
  `NoOrphanedOverride` that what a change under way has still to override is covered by the
  backup on disk, that what it may write back is no override or a covered one, and that a
  restore has every override still ahead of it.
* `ClientsStayOnFormalHost` (`SharedAssumption`).  `SharedInv`: a Host that is up has the
  arguments in the file, and is without a record of being provisional only if a formal
  connection started or confirmed it (`HostRecorded`); what the bridge with the lock has done
  at each program counter (`BridgeProgress`); a Host that was retired is not the one in use
  (`RetiredApart`).
* `NoMessageSkipped` (`WeChatAssumption`).  `CursorInv`: everything the two cursors cover was
  handed over, and the answer under way was handed over or awaits its acknowledgement.
* `OnlyProvenAreSignalled` (`ConflictAssumption`: finitely many process numbers).
  `ConflictInv` says that a group has a making of its own (`ProcsSound`) and what the stop
  knows at each of its steps (`StopSound`): the plan it follows, the proofs it took and
  that they are older than its last look, that whoever is in the group and was there at that
  look is a member or is inspected next, that one of the members is a Host.
* `RevokedStayOut` and `WritesKeepTheRest` (`AccessAssumption`).  `AccessInv`: the page's
  copy is the file at its revision (`PageTrue`), a command that writes holds the lock
  (`LockHeld`), a key reported as revoked is not in the file unless somebody granted it
  again (`RevokedNotInFile`), and a reload under way has what a finished refresh may rely on
  (`RefreshDone`).
* `EventsRunOnceInTurn` from `IngressInvariant` (`IngressAssumption`).  The tickets of a window are nodes that name
  the ticket before them, and a ticket that gives up leads to the one it waited for; whose turn
  it is depends on a walk over a chain of any length.  `Queue` says that there is a rank, the
  order of the reservations, along which every chain falls, that no two waiting tickets walk to
  the same open one, and that one which runs walks to none (`Line`).  What the walk returns is the only
  solution of its equation (`FindsOnce`, by the least rank at which two solutions would differ:
  `LeastNumber`), so each action is shown to leave such a solution.  `Memory`: an event that
  was executed is remembered, one that is claimed is not, and one that was forgotten is claimed by
  nobody, since its age keeps it out.
* `CardsStaySound` from `CardsInvariant` (`CardsAssumption`).  What a struck checkpoint left on a
  card depends on requests with numbers given long before, in any number and order.  `CardAt` says
  of one card how far it has come (`CardStage`: record, stream and checkpoint), that a live
  request on its way carries a number the card's end comes after, or shows that end already
  (`Wire`), what may be sent under its lock (`OpFits`), and what CardKit shows once it has applied the two requests of
  the checkpoint (`KitFits`).  `Anchored` ties the move's progress to the two checkpoints.
  `WaitsAt` says which card lists an approval, from the question to the answer, while the task
  moves: one that is answered stays on a card only when the record that would have
  led to the new one is gone.

Service commands (`UpgradeAssumption`: a service has a positive number), in `InteractionsSafety`.

* `CommandsStayUndone` from `UpgradeInvariant`.  Whoever holds the runtime lock runs, and the pid file
  names it unless a command changed that (`HolderFound`).  A service that is drained has a command
  that will stop it or take the drain back (`DrainCarried`, by what each step still leads to:
  `WillEnd`).  What a command has replaced and started at each of its steps is `CmdFits`; a
  service of the new program comes from an update that has not failed, or is its own child, which it
  kills (`NewProgram`).

What the proofs changed in the models.  `NoStrandedDrain` did not know that a command may
remove a pid file that names a newer service (`disowned`); it takes three commands, and the
run has two.  `PlatformAccess` counted a key as revoked for good once
its removal was reported, although an editor may grant it again; on the run's bound no such
history fits.  The history is now what was told and what is about to be, and `Granted` takes
a key out.  Two `CASE`s, in `CodexTurns` and `CodexDesktopStream`, had guards that overlap:
TLC takes the first, the language leaves the choice open; the guards are disjoint now.
A restart that waited for the admission mutex was an operation of its own in `CodexRestart`,
which a switch that took the mutex first replaced, and the wait of a turn never ended; it is now what the service
remembers (`rst.asked`) until the mutex is free, as `codexAdmissionMu.Lock` has it.
`WrittenOnce` counted an input in the first four places of a history only.  The script of
`CodexProviderMigration` could fail only while a file was left to replace; the checks that
follow the last replacement fail as well, and put everything back.  The process
numbers and the variables of the launch environment had to be declared finite, which they
are.  `CardVerdictsStand` claimed that without a failed write no verdict of a card is
overwritten.  A session that found the outbox full goes on without a reservation, and a
refresh records one once there is room; its legacy finish finalises the card, the process exits
before the reservation is discarded, and the recovery after the restart marks the final card as
interrupted.  It takes another task in the outbox, which the run's constraint `Apart`
leaves out, so the run had not met it; the property now names this exception.
`DeliveredIsShown` claimed that a struck checkpoint is what its card shows for good.  A
freeze takes the numbers of the exported reference, and the old card is updated until the new one
is up: updates that time out meanwhile have numbers past the freeze's and may arrive after it.
It takes more updates and timeouts than the run has; the property now says that
the checkpoint was shown, and still is unless it is a freeze that such a request followed.  The
purge of a card's record could come while live requests were on their way; each of them
touches the record, so after thirty minutes there are none.

Only model-checked, and why:

* liveness (`EverythingSettles`, `EveryInputSettles`, `PendingReported`), which needs fairness;
* `SendsAreCurrent`, `RestartTrustsNothing` and `ShownOnce` of the follower: the invariant is
  who holds the barrier at each step of four loops, over commands that are sequences of
  steps;
* `ConnectorTrue` and `EmptyAfterAsking`: they rest on a cache that equals the replay of the
  parked patches, a recursive function, about which nothing is proved without induction.

## Limits

The legacy path of the outbox sends with `BestEffort`: its acknowledgements are not counted,
so `DuplicateOnlyAfterFault` is about the outbox.  `TerminalOutbox` takes the decision of the
follower registry from its environment (`Allow`, `Defer`, `Deny`); `CodexFollower` has that
decision in full and a smaller outbox, without attempts, capacity and redrive.  Follower,
turns and host are modelled one by one, joined by what each takes the others to do.

Per component:

* task service: the broadcast to several agents, agents that answer synchronously, the
  lifetime of control cards, the owner of a command, the interaction lease and the task
  view; of external tasks the reading of rollout files and the matching of events to turns;
* follower: several windows of one thread, the backoff of the ticker, the first-turn journal
  of `/cx new`, the merge of legacy keys;
* interactions: requests the desktop application projects, several questions in one request;
* turns: the private desktop transport and its hand-over, the replacement of a missing first
  thread;
* host: quotas, the login dialogue, the account panel;
* desktop: the wire format, discovery, several conversations;
* cards: layout, approval panels, result cards; ingress: message bodies, permission guide;
* access: the guided set-up; service: systemd, downloads and digests (outcomes only).

What some properties except or leave open, beside what their comments say: with one turn per thread
`RestartTrustsNothing` says of cards that none is sent before this process attached; `ShownOnce`
excepts a turn left between the two files by a crash; an ambiguous write of a secret (the keyring
reports failure and has stored) is not in `CodexAccountStore`; `Resolve` reads workspace and
conversation before the binding lock (`agent_conversation.go:180`), `ClaudeWindows` under it; a
revocation reported as done although the refresh failed is excepted from `RevokedStaysOut` (`Answer`).

### Not modelled

The workspace registry (one table behind one mutex, written whole), the trace store
(diagnostics nothing depends on), the HTTP API and console pages (handlers that call the
operations above), the doctor and other one-shot commands, parsing of chat commands and
rendering, the command line, HTTP and companion agents (request and response), and the
scripts and files of installation and release: sequential code, or code without state, about
which a model checker says no more than a test.

## Plan

Done: every component in the table of the inventory but its last line.  What is left, in the
order of its worth:

1. theorems for the rest of the list at the end of Proofs, first `CodexFollower` (who holds the
   barrier);
2. `CodexFollower` composed with `TerminalOutbox`, once the parts are proved and need no
   exploration of the product.
