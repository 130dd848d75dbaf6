--------------------------- MODULE ServiceUpgrade ---------------------------
(***************************************************************************)
(* The operator's commands start, stop, restart and update, the service    *)
(* process they act on, and the three files through which they meet: the   *)
(* runtime lock (weclaw.lock), the launch lock (weclaw.start.lock) and the *)
(* pid file (cmd/start*.go, stop.go, restart*.go, update*.go,              *)
(* legacy_force*.go, runtime_*.go).                                        *)
(*                                                                         *)
(* A command is a separate process which can be killed between any two     *)
(* steps, and several may run at once.  The pid file is written by the     *)
(* service when it holds the runtime lock and, again, by the command that  *)
(* spawned it; it is removed by the leaving service and by commands.  The  *)
(* drain and the Host transaction behind /api/runtime/restart/prepare are  *)
(* those of CodexRestart: here the service either takes messages or is     *)
(* drained.                                                                *)
(***************************************************************************)
EXTENDS Naturals, FiniteSets

CONSTANTS
    Operators,          \* the commands that may run, one of each name
    ServicePids,        \* process identities of services, 1 .. n
    Updater,            \* the operator who may run update (at most one update: see README)
    MaxSvcMishaps       \* bound on kills, failed writes, unkillable processes and answers
                        \* that get lost where no command makes up for it

ASSUME UpgradeAssumption ==
    /\ ServicePids \subseteq Nat \ {0} /\ 1 \in ServicePids
    /\ MaxSvcMishaps \in Nat

VARIABLES
    installed,          \* the program file: "old" or "new"
    svc,                \* pid |-> the service process
    runLock, launchLock,\* holder of weclaw.lock (a pid) and weclaw.start.lock (a command)
    pidFile,            \* the pid recorded in weclaw.pid, 0: no file
    cmd,                \* operator |-> the command that operator runs
    overlapped,         \* history: two commands ran at once, one was cut short, or systemd
                        \* reported an error although it had replaced the unit
    disowned,           \* history: a command took the running service out of the pid file
    svcMishaps
upgradeVars == <<installed, svc, runLock, launchLock, pidFile, cmd, overlapped, disowned, svcMishaps>>

NoService == 0
NoOperator == "nobody"

Process(st, bin, mode, legacy) ==
    [st |-> st, bin |-> bin, mode |-> mode, legacy |-> legacy, drained |-> FALSE, term |-> FALSE]

Idle == [kind |-> "none", at |-> "idle", force |-> FALSE, restart |-> FALSE, back |-> "none",
         pid |-> 0, again |-> FALSE, mode |-> "background", before |-> "none", result |-> "none"]

\* the next process identity
Fresh == {p \in ServicePids : /\ svc[p].st = "absent"
                              /\ \A q \in ServicePids : q < p => svc[q].st # "absent"}
Lives(p) == svc[p].st \notin {"absent", "gone"}
\* a process that answers the HTTP API: it holds the runtime lock and its services are started
Answering == {p \in ServicePids : svc[p].st = "serving" /\ ~svc[p].term}
ExistsPid(p) == p # NoService /\ Lives(p)
LockBusy == runLock # NoService

UpgradeInit ==
    /\ installed = "old"
    /\ \E mode \in {"background", "systemd"}, legacy \in BOOLEAN, up \in BOOLEAN :
          /\ svc = [p \in ServicePids |->
                       IF p = 1 /\ up THEN Process("serving", "old", mode, legacy)
                       ELSE Process("absent", "old", "background", FALSE)]
          /\ runLock = (IF up THEN 1 ELSE NoService)
          /\ pidFile = (IF up THEN 1 ELSE NoService)
          /\ up \/ (mode = "background" /\ ~legacy)
    /\ launchLock = NoOperator
    /\ cmd = [o \in Operators |-> Idle]
    /\ overlapped = FALSE
    /\ disowned = FALSE
    /\ svcMishaps = 0

-----------------------------------------------------------------------------
(* Helpers on the command record.  A command that ends leaves its result   *)
(* and, for the properties, what it was and what it had replaced.          *)

Goto(o, at) == cmd' = [cmd EXCEPT ![o].at = at]
End(o, result) == cmd' = [cmd EXCEPT ![o] =
    [Idle EXCEPT !.at = "over", !.kind = cmd[o].kind, !.before = cmd[o].before, !.result = result]]
At(o, step) == cmd[o].at = step
SvcMishap == svcMishaps < MaxSvcMishaps /\ svcMishaps' = svcMishaps + 1
Files == <<installed, runLock, launchLock, pidFile>>

\* rollbackUpdatedBinary: an update puts the old program back and then fails
\* (rolled back from the backup file; the copy itself may fail); others just fail.
FailAfterRollback(o) ==
    \/ /\ cmd[o].kind = "update" /\ cmd[o].before # "none"
       /\ \/ installed' = cmd[o].before /\ End(o, "failed") /\ UNCHANGED svcMishaps
          \/ SvcMishap /\ End(o, "torn") /\ UNCHANGED installed
    \/ /\ cmd[o].kind # "update" \/ cmd[o].before = "none"
       /\ End(o, "failed") /\ UNCHANGED <<installed, svcMishaps>>

-----------------------------------------------------------------------------
(* The commands *)

\* runStart, runRestart, runStopWithOptions, runUpdate
Begin(o) ==
    /\ At(o, "idle")
    /\ \E kind \in {"start", "stop", "restart"} \cup (IF o = Updater THEN {"update"} ELSE {}),
          force \in BOOLEAN, restart \in BOOLEAN :
          /\ kind = "start" => ~force
          /\ kind # "update" => ~restart
          /\ kind = "update" => ~(force /\ ~restart)
          /\ cmd' = [cmd EXCEPT ![o].kind = kind, ![o].force = force, ![o].restart = restart,
                        ![o].at = CASE kind = "update" -> "fetch" [] kind = "stop" -> "look"
                                    [] OTHER -> "prepare"]
    /\ overlapped' = (overlapped \/ \E other \in Operators \ {o} : cmd[other].at \notin {"idle", "over"})
    /\ UNCHANGED <<installed, svc, runLock, launchLock, pidFile, disowned, svcMishaps>>

\* the release sources are asked in turn; none may have it, or its digest differs
SourcesFail(o) == End(o, "failed")
DigestDiffers(o) == End(o, "failed")
\* the service runs from another file than the one that would be replaced
OtherFile(o) == ExistsPid(pidFile) /\ End(o, "failed")
\* a release older than the program is refused, the same one only restarted
NoNewer(o) == \/ End(o, "failed")
              \/ cmd[o].restart /\ Goto(o, "prepare")
              \/ ~cmd[o].restart /\ End(o, "done")
\* --from-package: a local directory whose manifest, digests and version agree
\* is installed and never restarts the service
PackageRejected(o) == ~cmd[o].restart /\ End(o, "failed")
PackageReady(o) == ~cmd[o].restart /\ (Goto(o, "install") \/ End(o, "done"))

FetchRelease(o) ==
    /\ At(o, "fetch")
    /\ \/ SourcesFail(o) \/ DigestDiffers(o) \/ OtherFile(o) \/ NoNewer(o)
       \/ PackageRejected(o) \/ PackageReady(o)
       \/ Goto(o, "install")
    /\ UNCHANGED <<svc, overlapped, disowned, svcMishaps>> /\ UNCHANGED Files

\* installBinaryWithRollback: backup, staged copy, rename
Install(o) ==
    /\ At(o, "install")
    /\ \/ End(o, "failed") /\ UNCHANGED installed
       \/ /\ cmd' = [cmd EXCEPT ![o].before = installed, ![o].at = "prepare"]
          /\ installed' = "new"
    /\ UNCHANGED <<svc, runLock, launchLock, pidFile, overlapped, disowned, svcMishaps>>

\* prepareConfiguredStart: configuration and preflight; then the kinds part ways
PrepareStart(o) ==
    /\ At(o, "prepare")
    /\ \/ FailAfterRollback(o)
       \/ /\ \/ cmd[o].kind = "start" /\ Goto(o, "run")
             \/ cmd[o].kind = "update" /\ ~cmd[o].restart /\ End(o, "done")
             \/ (cmd[o].kind = "restart" \/ cmd[o].restart) /\ Goto(o, "drain")
          /\ UNCHANGED <<installed, svcMishaps>>
    /\ UNCHANGED <<svc, runLock, launchLock, pidFile, overlapped, disowned>>

\* a refused or unanswered drain is taken back before the command gives up
RefusalKept == "undo"
AfterRefusal == "cancel"

\* beginRestartDrainWithControl: the pid file decides whether to ask at all; who
\* answers is whoever serves the API.  A refusal or a lost answer is compensated.
AskDrain(o) ==
    /\ At(o, "drain")
    /\ LET next == IF cmd[o].kind = "stop" THEN "stopping" ELSE "running"
       IN  IF ~ExistsPid(pidFile) THEN Goto(o, next) /\ UNCHANGED svc
           ELSE \/ /\ \E p \in Answering : svc[p].legacy
                   /\ Goto(o, IF cmd[o].force THEN "force"
                              ELSE IF cmd[o].kind = "stop" THEN "oldstop" ELSE "undo")
                   /\ UNCHANGED svc
                \/ \E p \in Answering :
                   /\ ~svc[p].legacy
                   /\ \E taken \in BOOLEAN, answered \in BOOLEAN :
                         /\ svc' = [svc EXCEPT ![p].drained = @ \/ taken]
                         /\ Goto(o, IF taken /\ answered THEN next ELSE AfterRefusal)
                \/ Answering = {} /\ Goto(o, AfterRefusal) /\ UNCHANGED svc
    /\ UNCHANGED <<overlapped, disowned, svcMishaps>> /\ UNCHANGED Files

\* compensateRestartDrain / cancelRestartDrain: DELETE restart/prepare, once, which an
\* old service does not know; cancelLegacyRuntimeDrain: DELETE drain
Releases(o, p) == svc[p].legacy => cmd[o].back = "plain"
CancelDrain(o) ==
    /\ At(o, "cancel")
    /\ \/ /\ svc' = [p \in ServicePids |-> IF p \in Answering /\ Releases(o, p) THEN [svc[p] EXCEPT !.drained = FALSE]
                                           ELSE svc[p]]
          /\ UNCHANGED svcMishaps
       \/ SvcMishap /\ UNCHANGED svc
    /\ Goto(o, IF cmd[o].back = "recover" THEN "recover" ELSE "undo")
    /\ UNCHANGED <<overlapped, disowned>> /\ UNCHANGED Files

Undo(o) ==
    /\ At(o, "undo")
    /\ FailAfterRollback(o)
    /\ UNCHANGED <<svc, runLock, launchLock, pidFile, overlapped, disowned>>

\* the frontend lease is taken or the Codex App is open
OfflineRefused(o) == End(o, "failed")

\* weclawIsRunningForRestart: a stale pid file is removed on the way
SeenRunning == ExistsPid(pidFile) /\ LockBusy
LookRunning(o) ==
    /\ At(o, "running") \/ At(o, "look")
    /\ pidFile' = IF SeenRunning THEN pidFile ELSE NoService
    /\ LET systemd == SeenRunning /\ svc[pidFile].mode = "systemd"
       IN  \/ /\ At(o, "look") /\ SeenRunning /\ Goto(o, "drain")
           \/ /\ At(o, "look") /\ ~SeenRunning /\ Goto(o, IF cmd[o].force THEN "force" ELSE "stopping")
           \/ /\ At(o, "running") /\ SeenRunning
              /\ Goto(o, IF systemd THEN "systemd" ELSE "stopping")
           \/ /\ At(o, "running") /\ ~SeenRunning
              /\ \/ cmd[o].kind = "update" /\ End(o, "done")
                 \/ cmd[o].kind = "restart" /\ cmd[o].force /\ Goto(o, "force")
                 \/ cmd[o].kind = "restart" /\ ~cmd[o].force /\ (Goto(o, "run") \/ OfflineRefused(o))
    /\ UNCHANGED <<installed, svc, runLock, launchLock, overlapped, disowned, svcMishaps>>

\* systemctl restart: the service manager stops the unit, the others stay
UnitStopped(started) ==
    /\ svc' = [q \in ServicePids |->
                  CASE q \in started -> Process("spawned", installed, "systemd", FALSE)
                    [] q \notin started /\ svc[q].mode = "systemd" /\ Lives(q) -> [svc[q] EXCEPT !.st = "gone"]
                    [] OTHER -> svc[q]]
    /\ runLock' = IF runLock # NoService /\ svc[runLock].mode = "systemd" THEN NoService ELSE runLock
    /\ pidFile' = IF runLock # NoService /\ svc[runLock].mode = "systemd" THEN NoService ELSE pidFile

\* and starts it again from the installed file.  A failed systemctl restart may have left
\* the unit as it was, stopped it, or even replaced it (sudo or the bus went away).
SystemdRestart(o) ==
    /\ At(o, "systemd")
    /\ \/ /\ \E p \in Fresh : UnitStopped({p})
          /\ End(o, "done") /\ UNCHANGED <<overlapped, svcMishaps>>
       \/ /\ Goto(o, "cancel")
          /\ \/ UNCHANGED <<svc, runLock, pidFile, overlapped, svcMishaps>>
             \/ UnitStopped({}) /\ UNCHANGED <<overlapped, svcMishaps>>
             \/ (\E p \in Fresh : UnitStopped({p})) /\ overlapped' = TRUE /\ SvcMishap
    /\ UNCHANGED <<installed, launchLock, disowned>>

\* stopAllWeclaw: only the process the pid file names is signalled
StopNamed(o) ==
    /\ At(o, "stopping")
    /\ \/ /\ ~SeenRunning
          /\ pidFile' = NoService /\ Goto(o, "stopped") /\ UNCHANGED <<svc, runLock>>
       \/ /\ SeenRunning
          /\ IF svc[pidFile].st \in {"spawned", "claimed"}         \* no handler yet
             THEN /\ svc' = [svc EXCEPT ![pidFile].st = "gone"]
                  /\ runLock' = IF runLock = pidFile THEN NoService ELSE runLock
             ELSE svc' = [svc EXCEPT ![pidFile].term = TRUE] /\ UNCHANGED runLock
          /\ cmd' = [cmd EXCEPT ![o].pid = pidFile, ![o].at = "waiting"]
          /\ UNCHANGED pidFile
    /\ UNCHANGED <<installed, launchLock, overlapped, disowned, svcMishaps>>

\* the pid file says now; when it named the service that runs, that one is no longer found
WritePid(now) ==
    /\ pidFile' = now
    /\ disowned' = (disowned \/ (LockBusy /\ pidFile = runLock /\ now # pidFile))

\* waitProcessExit, then the file is removed whatever it says by now
AwaitExit(o) ==
    /\ At(o, "waiting")
    /\ \/ /\ ~Lives(cmd[o].pid)
          /\ WritePid(NoService) /\ Goto(o, "stopped")
          /\ UNCHANGED <<svc, runLock, svcMishaps>>
       \/ /\ Lives(cmd[o].pid)                                    \* SIGKILL after ten seconds
          /\ svc' = [svc EXCEPT ![cmd[o].pid].st = "gone"]
          /\ runLock' = IF runLock = cmd[o].pid THEN NoService ELSE runLock
          /\ UNCHANGED <<cmd, pidFile, disowned, svcMishaps>>
       \/ /\ Lives(cmd[o].pid)                                    \* and it did not help
          /\ SvcMishap
          /\ cmd' = [cmd EXCEPT ![o].at = "cancel",
                        ![o].back = IF cmd[o].kind = "update" THEN "recover" ELSE @]
          /\ UNCHANGED <<svc, runLock, pidFile, disowned>>
    /\ UNCHANGED <<installed, launchLock, overlapped>>

AfterStop(o) ==
    /\ At(o, "stopped")
    /\ IF cmd[o].kind = "stop" THEN End(o, "done") ELSE Goto(o, "run")
    /\ UNCHANGED <<svc, overlapped, disowned, svcMishaps>> /\ UNCHANGED Files

-----------------------------------------------------------------------------
(* runDaemon: the launch lock serializes launchers; the child is the service *)

RunFailed(o) ==
    IF cmd[o].kind = "update" /\ ~cmd[o].again /\ cmd[o].before # "none" THEN Goto(o, "recover")
    ELSE End(o, "failed")

\* no account, no log file, endpoints that cannot be cleaned up, no child
NotReady(o) == RunFailed(o)

Spawn(o) ==
    /\ At(o, "run")
    /\ \/ (launchLock # NoOperator \/ LockBusy) /\ RunFailed(o) /\ UNCHANGED <<svc, launchLock>>
       \/ NotReady(o) /\ UNCHANGED <<svc, launchLock>>
       \/ /\ launchLock = NoOperator /\ ~LockBusy
          /\ \E p \in Fresh :
                /\ svc' = [svc EXCEPT ![p] = Process("spawned", installed, "background", FALSE)]
                /\ cmd' = [cmd EXCEPT ![o].pid = p, ![o].at = "naming"]
          /\ launchLock' = o
    /\ UNCHANGED <<installed, runLock, pidFile, overlapped, disowned, svcMishaps>>

\* the launcher kills the child before it reports the failure
KillChild(o) ==
    /\ svc' = [svc EXCEPT ![cmd[o].pid].st = "gone"]
    /\ runLock' = IF runLock = cmd[o].pid THEN NoService ELSE runLock

NameChild(o) ==
    /\ At(o, "naming")
    /\ \/ /\ WritePid(cmd[o].pid)
          /\ Goto(o, "ready")
          /\ UNCHANGED <<svc, runLock, launchLock, svcMishaps>>
       \/ /\ SvcMishap                                               \* handleDaemonPIDWriteResult
          /\ KillChild(o)
          /\ RunFailed(o) /\ launchLock' = NoOperator
          /\ UNCHANGED <<pidFile, disowned>>
    /\ UNCHANGED <<installed, overlapped>>

\* waitDaemonChildReady: a busy runtime lock counts as ready, whoever holds it
AwaitChild(o) ==
    /\ At(o, "ready")
    /\ launchLock' = NoOperator
    /\ \/ /\ Lives(cmd[o].pid) /\ LockBusy
          /\ End(o, IF cmd[o].again THEN "failed" ELSE "done")    \* the update itself has failed
          /\ UNCHANGED <<svc, runLock>>
       \/ /\ ~Lives(cmd[o].pid) /\ RunFailed(o) /\ UNCHANGED <<svc, runLock>>
       \/ /\ Lives(cmd[o].pid)                                    \* five seconds passed
          /\ KillChild(o) /\ RunFailed(o)
    /\ UNCHANGED <<installed, pidFile, overlapped, disowned, svcMishaps>>

\* recoverPreviousUpdate: the old program back, and started unless a service still runs
Recover(o) ==
    /\ At(o, "recover")
    /\ \/ SvcMishap /\ End(o, "torn") /\ UNCHANGED <<installed, pidFile>>
       \/ /\ cmd[o].before = "none" /\ End(o, "failed")          \* nothing was replaced
          /\ UNCHANGED <<installed, pidFile, svcMishaps>>
       \/ /\ cmd[o].before # "none"
          /\ installed' = cmd[o].before
          /\ pidFile' = IF SeenRunning THEN pidFile ELSE NoService
          /\ IF SeenRunning THEN End(o, "failed")
             ELSE cmd' = [cmd EXCEPT ![o].again = TRUE, ![o].at = "run"]
          /\ UNCHANGED svcMishaps
    /\ UNCHANGED <<svc, runLock, launchLock, overlapped, disowned>>

-----------------------------------------------------------------------------
(* Migration from a service without the coordinated entry, and forced      *)
(* offline restarts (stopLegacyRuntime, forceLegacyRuntime)                *)

\* an unforced stop: lease, App check, plain drain (two seconds), stop.  When the drain is
\* taken and its answer is late or invalid the command fails and does not take it back.
StopLegacy(o) ==
    /\ At(o, "oldstop")
    /\ \/ End(o, "failed") /\ UNCHANGED <<svc, svcMishaps>>
       \/ /\ \E p \in Answering : svc' = [svc EXCEPT ![p].drained = TRUE]
          /\ \/ cmd' = [cmd EXCEPT ![o].at = "stopping", ![o].back = "plain"] /\ UNCHANGED svcMishaps
             \/ End(o, "unheard") /\ SvcMishap
    /\ UNCHANGED <<overlapped, disowned>> /\ UNCHANGED Files

\* captureLegacyService: the record still names the process that holds the lock
LegacyTarget == ExistsPid(pidFile) /\ runLock = pidFile /\ svc[pidFile].legacy

\* stopVerifiedLegacyService: no process but the captured one is signalled
StopVerified(o) ==
    /\ LegacyTarget
    /\ svc' = [svc EXCEPT ![pidFile].st = "gone"]
    /\ runLock' = NoService
    /\ cmd' = [cmd EXCEPT ![o].at = "hosts", ![o].mode = svc[pidFile].mode]

\* the launch lock or the frontend lease is taken, the identity is unclear, or
\* the Host cannot be told for stopped: the command gives up
ForceRefused(o) == FailAfterRollback(o) /\ UNCHANGED <<svc, runLock, launchLock>>

\* the old service is stopped under the launch lock and the runtime lock taken in
\* its place; then the Host is stopped on the record
ForceStop(o) ==
    /\ At(o, "force")
    /\ \/ ForceRefused(o)
       \/ /\ launchLock = NoOperator /\ launchLock' = o
          /\ \/ StopVerified(o)
             \/ ~LockBusy /\ Goto(o, "hosts") /\ UNCHANGED <<svc, runLock>>
          /\ UNCHANGED <<installed, svcMishaps>>
    /\ UNCHANGED <<pidFile, overlapped, disowned>>

\* PrepareOfflineRuntimeRestart done; both locks are released before the start.  From
\* here on an update keeps the new program (ErrOfflineRuntimeRestartIncomplete).
ForceStart(o) ==
    /\ At(o, "hosts")
    /\ launchLock' = NoOperator
    /\ \/ cmd[o].kind = "stop" /\ End(o, "done") /\ UNCHANGED svc
       \/ cmd[o].kind # "stop" /\ End(o, "kept") /\ UNCHANGED svc
       \/ /\ cmd[o].kind # "stop" /\ cmd[o].mode = "systemd"
          /\ \E p \in Fresh : svc' = [svc EXCEPT ![p] = Process("spawned", installed, "systemd", FALSE)]
          /\ End(o, "kept")
       \/ /\ cmd[o].kind # "stop" /\ cmd[o].mode = "background"
          /\ cmd' = [cmd EXCEPT ![o].at = "run", ![o].before = "none"] /\ UNCHANGED svc
    /\ UNCHANGED <<installed, runLock, pidFile, overlapped, disowned, svcMishaps>>

\* the operator's terminal is closed, or the command is killed
KillCommand(o) ==
    /\ cmd[o].at \notin {"idle", "over"}
    /\ SvcMishap
    /\ End(o, "killed")
    /\ launchLock' = IF launchLock = o THEN NoOperator ELSE launchLock
    /\ overlapped' = TRUE
    /\ UNCHANGED <<installed, svc, runLock, pidFile, disowned>>

-----------------------------------------------------------------------------
(* The service process (runForegroundStart, runUntilShutdown) *)

\* acquireRuntimeLock: held by another, or by a command that is probing it
Claim(p) ==
    /\ svc[p].st = "spawned"
    /\ \/ ~LockBusy /\ runLock' = p /\ svc' = [svc EXCEPT ![p].st = "claimed"]
       \/ (LockBusy \/ \E o \in Operators : cmd[o].at \in {"ready", "running", "look", "stopping", "run"})
          /\ svc' = [svc EXCEPT ![p].st = "gone"] /\ UNCHANGED runLock
    /\ UNCHANGED <<installed, launchLock, pidFile, cmd, overlapped, disowned, svcMishaps>>

\* writeCurrentRuntimeState; a failed write gives the lock back
NameItself(p) ==
    /\ svc[p].st = "claimed"
    /\ \/ pidFile' = p /\ svc' = [svc EXCEPT ![p].st = "named"] /\ UNCHANGED <<runLock, svcMishaps>>
       \/ /\ SvcMishap /\ svc' = [svc EXCEPT ![p].st = "gone"] /\ runLock' = NoService
          /\ UNCHANGED pidFile
    /\ UNCHANGED <<installed, launchLock, cmd, overlapped, disowned>>

\* outbox, follower, API and platforms are up
Serve(p) ==
    /\ svc[p].st = "named"
    /\ svc' = [svc EXCEPT ![p].st = "serving"]
    /\ UNCHANGED <<cmd, overlapped, disowned, svcMishaps>> /\ UNCHANGED Files

\* the deferred removeRuntimeState runs before the lock is released
RemoveState(p) ==
    /\ svc' = [svc EXCEPT ![p].st = "leaving"]
    /\ pidFile' = NoService

\* accounts, agents, the recorded restart or the registry fail
StartFails(p) ==
    /\ svc[p].st = "named"
    /\ RemoveState(p)
    /\ UNCHANGED <<installed, runLock, launchLock, cmd, overlapped, disowned, svcMishaps>>

\* runUntilShutdown: a signal (or the end of the platforms), tasks drained
Shutdown(p) ==
    /\ svc[p].st = "serving" /\ svc[p].term
    /\ RemoveState(p)
    /\ UNCHANGED <<installed, runLock, launchLock, cmd, overlapped, disowned, svcMishaps>>

Exit(p) ==
    /\ svc[p].st = "leaving"
    /\ svc' = [svc EXCEPT ![p].st = "gone"]
    /\ runLock' = IF runLock = p THEN NoService ELSE runLock
    /\ UNCHANGED <<installed, launchLock, pidFile, cmd, overlapped, disowned, svcMishaps>>

\* The process is killed or crashes: flock goes with it, the pid file stays
CrashService(p) ==
    /\ Lives(p) /\ SvcMishap
    /\ svc' = [svc EXCEPT ![p].st = "gone"]
    /\ runLock' = IF runLock = p THEN NoService ELSE runLock
    /\ UNCHANGED <<installed, launchLock, pidFile, cmd, overlapped, disowned>>

UpgradeNext ==
    \/ \E o \in Operators :
          \/ Begin(o) \/ FetchRelease(o) \/ Install(o) \/ PrepareStart(o) \/ AskDrain(o)
          \/ CancelDrain(o) \/ Undo(o) \/ LookRunning(o) \/ SystemdRestart(o) \/ StopNamed(o)
          \/ AwaitExit(o) \/ AfterStop(o) \/ Spawn(o) \/ NameChild(o) \/ AwaitChild(o)
          \/ Recover(o) \/ StopLegacy(o) \/ ForceStop(o) \/ ForceStart(o) \/ KillCommand(o)
    \/ \E p \in ServicePids :
          Claim(p) \/ NameItself(p) \/ Serve(p) \/ StartFails(p) \/ Shutdown(p) \/ Exit(p) \/ CrashService(p)

UpgradeSpec == UpgradeInit /\ [][UpgradeNext]_upgradeVars

-----------------------------------------------------------------------------
\* An update that reports a failure has undone itself: the program file is the
\* one it found, and no process that lives runs the program that was withdrawn.
\* (A command that was killed, a rollback whose copy failed and the forced
\* migration, which keeps the new program on purpose, have results of their own;
\* a start by another operator while the new file lay there is its own affair.)
UpdateUndone ==
    \A o \in Operators :
        (cmd[o].kind = "update" /\ cmd[o].result = "failed" /\ cmd[o].before # "none") =>
            /\ installed = cmd[o].before
            /\ ~overlapped => \A p \in ServicePids : Lives(p) => svc[p].bin = installed

\* No command leaves a service running that takes no messages: once every
\* command is over, a service that answers is not drained, unless a cancel
\* got lost, or the answer of an old service to its plain drain (the failed stop does
\* not take that drain back, whatever tasks/lessons.md:526 says), a command was killed,
\* or a command made an end of the pid file that named the service: the one that
\* drained it then finds nothing to stop.
NoStrandedDrain ==
    ((\A o \in Operators : cmd[o].at \in {"idle", "over"}) /\ svcMishaps = 0 /\ ~disowned) =>
        \A p \in Answering : ~svc[p].drained

\* An operator's command that does not get through leaves the service as it found it (update.go, restart.go).
CommandsUndone == UpdateUndone /\ NoStrandedDrain
=============================================================================
