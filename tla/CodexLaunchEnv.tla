--------------------------- MODULE CodexLaunchEnv ---------------------------
(***************************************************************************)
(* The launch environment the Codex App inherits                           *)
(* (agent/codex_app_bridge_darwin.go, codex_app_daemon_reuse*.go).         *)
(*                                                                         *)
(* WeClaw points the App at the shared Host through variables of launchd.  *)
(* They belong to the user: a backup is written before the first is set,   *)
(* a failed change is rolled back, and a restore puts the old values back. *)
(* Each variable is set by a command of its own, any command may fail, the *)
(* process may stop between two, and the user changes variables meanwhile. *)
(* The daemon mode sets variables too, without a backup.                   *)
(***************************************************************************)
EXTENDS Naturals, Sequences, FiniteSets

CONSTANTS
  Fixed,         \* variables never changed once the user has set them: CLI path, homes
  Loose,         \* switches of the App, overridden whatever they say
  MaxEnvOps,     \* bound: operations
  MaxEnvMishaps, \* bound: failed commands, stops of the process, changes by the user
  EnvKeys        \* the order in which the variables are set

ASSUME EnvAssumption ==
  IsFiniteSet(Fixed) /\ IsFiniteSet(Loose) /\ MaxEnvOps \in Nat /\ MaxEnvMishaps \in Nat

VARIABLES
  launchEnv,    \* launchd's variables
  hers,         \* the values the user has ever given each variable
  backup,       \* launch-environment.json
  change,       \* the operation under way
  app,          \* the running App: what it inherited
  envOps, envMishaps

envVars == <<launchEnv, hers, backup, change, app, envOps, envMishaps>>

Keys == Fixed \cup Loose
Unset == "unset"
Shared == "shared"     \* what the shared mode wants
Daemon == "daemon"     \* what the daemon mode wants
User == "user"
NoBackup == [there |-> FALSE, previous |-> [k \in {} |-> Unset]]
NoChange == [at |-> "idle", mode |-> Shared, prior |-> [k \in {} |-> Unset], todo |-> <<>>, done |-> <<>>, open |-> FALSE]
NoApp == [k \in Keys |-> "noapp"]

Misfortune == envMishaps < MaxEnvMishaps /\ envMishaps' = envMishaps + 1
Fortune == UNCHANGED envMishaps
Chance(ok) == IF ok THEN Fortune ELSE Misfortune
Step(c) == change' = c

-----------------------------------------------------------------------------
(* Setting variables.                                                      *)

\* A running App must have inherited what it is to share.
InheritedBy(a, mode) == a = NoApp \/ \A k \in Fixed : a[k] = mode
\* Variables the user has set to something else are not overwritten.
Overridable(mode) == \A k \in Fixed : launchEnv[k] \in {mode, Unset}
Mutations(mode) == {k \in Keys : launchEnv[k] # mode}
Before(j, k) == \E m, n \in DOMAIN EnvKeys : m < n /\ EnvKeys[m] = j /\ EnvKeys[n] = k
\* A list of the variables ks, each once.
Lists(order, ks) == order \in [1..Cardinality(ks) -> ks] /\ ks = {order[i] : i \in DOMAIN order}
InOrder(todo, ks) == Lists(todo, ks) /\ \A i, j \in DOMAIN todo : i < j => Before(todo[i], todo[j])
\* The operation begins: what is to be set is read once, and so is what it replaces.
Begins(mode, at, open) ==
  \E todo \in [1..Cardinality(Mutations(mode)) -> Mutations(mode)] :
    /\ InOrder(todo, Mutations(mode))
    /\ Step([at |-> at, mode |-> mode, prior |-> launchEnv, todo |-> todo, done |-> <<>>, open |-> open])

PrepareShared(open) ==
  /\ change.at = "idle" /\ envOps < MaxEnvOps /\ InheritedBy(app, Shared) /\ Overridable(Shared)
  /\ Begins(Shared, IF Mutations(Shared) = {} THEN "open" ELSE "backup", open)
  /\ envOps' = envOps + 1 /\ UNCHANGED <<launchEnv, hers, backup, app>> /\ Fortune

EnableDaemonReuse ==
  /\ change.at = "idle" /\ envOps < MaxEnvOps /\ Overridable(Daemon)
  /\ Begins(Daemon, "set", FALSE)
  /\ envOps' = envOps + 1 /\ UNCHANGED <<launchEnv, hers, backup, app>> /\ Fortune

\* The first value ever replaced is the one kept.
BackupLater(ok) ==   \* mutant: the variables are set first
  /\ change.at = "backup" /\ Step([change EXCEPT !.at = "set"])
  /\ UNCHANGED <<launchEnv, hers, backup, app, envOps>> /\ Chance(ok)
WriteBackup(ok) ==
  /\ change.at = "backup" /\ Chance(ok)
  /\ IF ok
     THEN /\ LET kept == backup.previous
                 new == {change.todo[i] : i \in 1..Len(change.todo)}
             IN backup' = [there |-> TRUE, previous |-> [k \in DOMAIN kept \cup new |-> IF k \in DOMAIN kept THEN kept[k]
                                                                                       ELSE change.prior[k]]]
          /\ Step([change EXCEPT !.at = "set"])
     ELSE Step(NoChange) /\ UNCHANGED backup
  /\ UNCHANGED <<launchEnv, hers, app, envOps>>

SetVariable(ok) ==
  /\ change.at = "set" /\ change.todo # <<>> /\ Chance(ok)
  /\ LET k == Head(change.todo)
     IN /\ launchEnv' = IF ok THEN [launchEnv EXCEPT ![k] = change.mode] ELSE launchEnv
        /\ Step([change EXCEPT !.todo = Tail(@), !.done = <<k>> \o @, !.at = IF ok THEN "set" ELSE "rollback"])
  /\ UNCHANGED <<hers, backup, app, envOps>>

AllSet ==
  /\ change.at = "set" /\ change.todo = <<>> /\ Step([change EXCEPT !.at = "open"])
  /\ UNCHANGED <<launchEnv, hers, backup, app, envOps>> /\ Fortune

\* The App is opened when it is not running; a failure takes the variables back.
OpenApp(ok) ==
  /\ change.at = "open" /\ Chance(ok)
  /\ IF change.open /\ app = NoApp
     THEN IF ok THEN app' = launchEnv /\ Step(NoChange)
          ELSE Step(IF change.done = <<>> THEN NoChange ELSE [change EXCEPT !.at = "rollback"]) /\ UNCHANGED app
     ELSE ok /\ Step(NoChange) /\ UNCHANGED app
  /\ UNCHANGED <<launchEnv, hers, backup, envOps>>

\* In the reverse order, each to the value read before; a failure is reported and the rest goes on.
Rollback(ok) ==
  /\ change.at = "rollback" /\ change.done # <<>> /\ Chance(ok)
  /\ LET k == Head(change.done)
     IN launchEnv' = IF ok THEN [launchEnv EXCEPT ![k] = change.prior[k]] ELSE launchEnv
  /\ Step(IF Len(change.done) = 1 THEN NoChange ELSE [change EXCEPT !.done = Tail(@)])
  /\ UNCHANGED <<hers, backup, app, envOps>>

DisableDaemonReuse ==
  /\ change.at = "idle" /\ envOps < MaxEnvOps /\ envOps' = envOps + 1
  /\ launchEnv' = [k \in Keys |-> IF k \in Loose THEN Unset ELSE launchEnv[k]] /\ \E k \in Loose : launchEnv[k] # Unset
  /\ UNCHANGED <<hers, backup, change, app>> /\ Fortune

-----------------------------------------------------------------------------
(* The restore.                                                            *)

RestoreEnvironment ==
  /\ change.at = "idle" /\ envOps < MaxEnvOps /\ backup.there /\ envOps' = envOps + 1
  /\ \E order \in [1..Cardinality(DOMAIN backup.previous) -> DOMAIN backup.previous] :
       /\ Lists(order, DOMAIN backup.previous)
       /\ Step([NoChange EXCEPT !.at = "restore", !.todo = order])
  /\ UNCHANGED <<launchEnv, hers, backup, app>> /\ Fortune

\* A variable changed outside WeClaw is left as it is.
RestoreVariable(ok) ==
  /\ change.at = "restore" /\ change.todo # <<>> /\ Chance(ok)
  /\ LET k == Head(change.todo)
     IN launchEnv' = IF ok /\ launchEnv[k] = Shared THEN [launchEnv EXCEPT ![k] = backup.previous[k]] ELSE launchEnv
  /\ Step(IF ok THEN [change EXCEPT !.todo = Tail(@)] ELSE NoChange)
  /\ UNCHANGED <<hers, backup, app, envOps>>

RemoveBackup(ok) ==
  /\ change.at = "restore" /\ change.todo = <<>> /\ Chance(ok) /\ Step(NoChange)
  /\ backup' = (IF ok THEN NoBackup ELSE backup) /\ UNCHANGED <<launchEnv, hers, app, envOps>>

-----------------------------------------------------------------------------
(* The user, the App, and the end of the process.                          *)

UserSets(k, v) ==
  /\ launchEnv[k] # v /\ launchEnv' = [launchEnv EXCEPT ![k] = v] /\ hers' = [hers EXCEPT ![k] = @ \cup {v}]
  /\ UNCHANGED <<backup, change, app, envOps>> /\ Misfortune
AppQuits == app # NoApp /\ app' = NoApp /\ UNCHANGED <<launchEnv, hers, backup, change, envOps>> /\ Fortune
ChangeCut == change.at # "idle" /\ Step(NoChange) /\ UNCHANGED <<launchEnv, hers, backup, app, envOps>> /\ Misfortune

EnvInit ==
  /\ launchEnv = [k \in Keys |-> Unset] /\ hers = [k \in Keys |-> {Unset}] /\ backup = NoBackup
  /\ change = NoChange /\ app = NoApp /\ envOps = 0 /\ envMishaps = 0

EnvNext ==
  \/ \E ok \in BOOLEAN : \/ PrepareShared(ok) \/ WriteBackup(ok) \/ SetVariable(ok) \/ OpenApp(ok) \/ Rollback(ok)
                         \/ RestoreVariable(ok) \/ RemoveBackup(ok)
  \/ EnableDaemonReuse \/ DisableDaemonReuse \/ AllSet \/ RestoreEnvironment \/ AppQuits \/ ChangeCut
  \/ \E k \in Keys, v \in {User, Unset} : UserSets(k, v)

EnvSpec == EnvInit /\ [][EnvNext]_envVars

-----------------------------------------------------------------------------
(* Whatever fails and wherever the process stops, a variable that carries  *)
(* the shared mode's value has its old value in the backup, and that value *)
(* is one the user or the daemon mode gave it, never the override itself:  *)
(* a later restore can always take it back.                                *)
NoOrphanedOverride ==
  \A k \in Keys : launchEnv[k] = Shared =>
    backup.there /\ k \in DOMAIN backup.previous /\ backup.previous[k] \in hers[k] \cup {Daemon}
=============================================================================
