----------------------- MODULE CodexProviderMigration -----------------------
(***************************************************************************)
(* Moving one Codex thread to the provider the Host now uses, and the      *)
(* offline script that switches every thread.                              *)
(*                                                                         *)
(* A thread is kept in four places: its rollout file, a row of the state   *)
(* database, a row of the local catalog, and the rollouts of the paginated *)
(* threads that continue it, each of which holds a byte offset into it.    *)
(* agent/codex_provider_migration.go rewrites them one after the other     *)
(* under a backup directory with a manifest, agent/codex_provider_runtime  *)
(* .go stops the Host around it, scripts/codex-provider-switch.sh replaces *)
(* the same files when nothing runs.                                       *)
(*                                                                         *)
(* A rollout is its provider, the width of its first line (2 as Codex      *)
(* wrote it, 1 once it was encoded again) and its other records, one unit  *)
(* wide each and known by their ordinal.                                   *)
(***************************************************************************)
EXTENDS Naturals, Sequences, FiniteSets

CONSTANTS
  Providers,        \* the providers a configuration may name
  Children,         \* the threads that continue this one
  MaxOrdinal,       \* bound: records of the rollout
  MaxSwitches,      \* bound: changes of the configured provider
  MaxBackups,       \* bound: migrations, script runs and restores
  MaxMigMishaps     \* bound: failed or killed calls, cancellations and exits

\* a child is not called as one of the stores
ASSUME MigAssumption ==
  /\ Children \cap {"row", "cat", "roll", "failed"} = {} /\ IsFiniteSet(Children)
  /\ {MaxOrdinal, MaxSwitches, MaxBackups, MaxMigMishaps} \subseteq Nat

VARIABLES
  roll,             \* the rollout file
  row,              \* threads.model_provider
  cat,              \* local_thread_catalog.model_provider, or "none": no catalog
  kids,             \* per child: where its history ends in the rollout, and the offset it recorded
  backups,          \* the backup directories, in order
  hostUp,           \* a Codex Host runs on these files
  turnOn,           \* a turn runs in the thread
  migGate,          \* the app-server gate: "open", "closed", "failed"
  conf,             \* the provider the configuration names
  mig,              \* the migration under way
  sw,               \* the script run under way
  ever,             \* history: every record Codex wrote in the thread
  unseen,           \* history: a database call took effect and was reported failed
  restores,         \* history: a backup of the script was put back
  migMishaps, switches

migVars == <<roll, row, cat, kids, backups, hostUp, turnOn, migGate, conf, mig, sw,
             ever, unseen, restores, migMishaps, switches>>
files == <<roll, row, cat, kids>>
ghosts == <<ever, unseen, restores>>

Kinds == {"message", "reasoning", "reference", "pinned", "sealed"}
Record(o, k) == [ord |-> o, kind |-> k]
Rollout(p, w, b) == [prov |-> p, head |-> w, body |-> b]
NoRollout == Rollout("none", 0, {})

\* codexRolloutOffsetAtOrAfterOrdinal: the boundary before the first record at or past it
OffsetAt(r, o) == r.head + Cardinality({x \in r.body : x.ord < o})
Aligned == \A c \in Children : kids[c].off = OffsetAt(roll, kids[c].end)

\* transformCodexRolloutProvider refuses what it cannot make portable, and deletes
\* the provider's own reasoning and the references to it
Reasons(r) == {x \in r.body : x.kind = "reasoning"}
Portable(r) == \A x \in r.body : x.kind # "sealed" /\ (x.kind = "pinned" => Reasons(r) = {})
Transformed(r, p) ==
  Rollout(p, 1, {x \in r.body : /\ x.kind # "reasoning"
                                /\ x.kind = "reference" => Reasons(r) = {}})
\* prepareCodexPaginatedLineageRepairs
Repairs(new) == {c \in Children : kids[c].off # OffsetAt(new, kids[c].end)}

NoMig == [at |-> "none", to |-> "none", orig |-> NoRollout, from |-> "none", catWas |-> "none",
          offs |-> [c \in Children |-> 0], todo |-> {}, wrote |-> {}, id |-> 0, dead |-> FALSE]
NoSwitch == [at |-> "none", kind |-> "switch", id |-> 0, roll |-> NoRollout, row |-> "none",
             cat |-> "none", left |-> {}, put |-> {}]

MigInit ==
  /\ \E p \in Providers : row = p /\ conf = p
  /\ \E c \in {row, "none"}, k \in {"reasoning", "pinned", "sealed"}, q \in {"message", "reference"} :
       /\ cat = c
       /\ roll = Rollout(row, 2, {Record(1, "reasoning"), Record(2, q), Record(3, k)})
  /\ kids = [c \in Children |-> [end |-> 3, off |-> OffsetAt(roll, 3)]]
  /\ backups = <<>> /\ hostUp = TRUE /\ turnOn = FALSE /\ migGate = "open"
  /\ mig = NoMig /\ sw = NoSwitch
  /\ ever = roll.body /\ unseen = FALSE /\ restores = FALSE
  /\ migMishaps = 0 /\ switches = 0

MigMishap == migMishaps < MaxMigMishaps /\ migMishaps' = migMishaps + 1
Quiet == sw.at # "replacing" /\ sw.at # "undoing"

(***************************************************************************)
(* The surroundings.                                                       *)
(***************************************************************************)

\* readEffectiveCodexProvider: the configuration files, read when asked
ChangeProvider ==
  /\ switches < MaxSwitches /\ switches' = switches + 1
  /\ conf' \in Providers \ {conf}
  /\ UNCHANGED <<files, backups, hostUp, turnOn, migGate, mig, sw, ghosts, migMishaps>>

\* External: the Host, for whichever client, adds a turn's records as they come.
HostWorks ==
  /\ hostUp
  /\ \/ turnOn' = ~turnOn /\ UNCHANGED <<roll, ever>>
     \/ /\ turnOn /\ Cardinality(ever) < MaxOrdinal
        /\ \E k \in {"message", "reasoning"} :
             LET x == Record(Cardinality(ever) + 1, k)
             IN  roll' = [roll EXCEPT !.body = @ \cup {x}] /\ ever' = ever \cup {x}
        /\ UNCHANGED turnOn
  /\ UNCHANGED <<row, cat, kids, backups, hostUp, migGate, conf, mig, sw, unseen, restores,
                 migMishaps, switches>>

\* External: everything is stopped for maintenance, or started again.
HostToggles ==
  /\ mig.at = "none" /\ Quiet
  /\ hostUp' = ~hostUp /\ (hostUp => ~turnOn) /\ UNCHANGED turnOn
  /\ UNCHANGED <<files, backups, migGate, conf, mig, sw, ghosts, migMishaps, switches>>

\* The service exits: the migration, its memory and a failed gate end with it.
ServiceExits ==
  /\ MigMishap /\ mig.at # "none"
  /\ mig' = NoMig /\ migGate' = "open"
  /\ UNCHANGED <<files, backups, hostUp, turnOn, conf, sw, ghosts, switches>>

ServiceRestarts ==
  /\ migGate = "failed" /\ migGate' = "open"
  /\ UNCHANGED <<files, backups, hostUp, turnOn, conf, mig, sw, ghosts, migMishaps, switches>>

\* the request's context ends: every later sqlite3 call fails, those of a rollback too
Cancel ==
  /\ MigMishap /\ mig.at \notin {"none", "check", "stop"} /\ ~mig.dead
  /\ mig' = [mig EXCEPT !.dead = TRUE]
  /\ UNCHANGED <<files, backups, hostUp, turnOn, migGate, conf, sw, ghosts, switches>>

(***************************************************************************)
(* prepareCodexThreadProviderLocked.                                       *)
(***************************************************************************)

\* nothing to do when the row names the provider; put off while a turn runs
Prepare ==
  /\ mig.at = "none" /\ sw.at = "none" /\ migGate = "open" /\ hostUp
  /\ row # conf /\ ~turnOn /\ Len(backups) < MaxBackups
  /\ migGate' = "closed" /\ mig' = [NoMig EXCEPT !.at = "check", !.to = conf]
  /\ UNCHANGED <<files, backups, hostUp, turnOn, conf, sw, ghosts, migMishaps, switches>>

\* ensureAllCodexThreadsIdle under the startup lock: a turn of another client puts it off
CheckIdle ==
  /\ mig.at = "check"
  /\ IF turnOn THEN mig' = NoMig /\ migGate' = "open"
               ELSE mig' = [mig EXCEPT !.at = "stop"] /\ UNCHANGED migGate
  /\ UNCHANGED <<files, backups, hostUp, turnOn, conf, sw, ghosts, migMishaps, switches>>

\* stopManagedHost: from here on a failure leaves the gate failed
StopForMigration ==
  /\ mig.at = "stop"
  /\ \/ hostUp' = FALSE /\ turnOn' = FALSE /\ mig' = [mig EXCEPT !.at = "read"]
        /\ UNCHANGED <<migGate, migMishaps>>
     \/ MigMishap /\ mig' = NoMig /\ migGate' = "failed" /\ UNCHANGED <<hostUp, turnOn>>
  /\ UNCHANGED <<files, backups, conf, sw, ghosts, switches>>

(***************************************************************************)
(* migrateCodexThreadProvider.                                             *)
(***************************************************************************)

To(at) == mig' = [mig EXCEPT !.at = at]

\* everything is read and computed before anything is written; a rollout that
\* cannot be carried over ends the migration
ReadThread ==
  /\ mig.at = "read"
  /\ IF Portable(roll)
     THEN mig' = [mig EXCEPT !.at = "backup", !.orig = roll, !.from = row, !.catWas = cat,
                             !.offs = [c \in Children |-> kids[c].off],
                             !.todo = Repairs(Transformed(roll, mig.to))]
     ELSE To("start")
  /\ UNCHANGED <<files, backups, hostUp, turnOn, migGate, conf, sw, ghosts, migMishaps, switches>>

Backup(by, r, w, c, k, status, what) ==
  [by |-> by, roll |-> r, row |-> w, cat |-> c, kids |-> k, status |-> status, holds |-> what]

\* the copies of the rollout and the children, then the manifest
WriteBackups ==
  /\ mig.at = "backup"
  /\ \/ /\ backups' = Append(backups, Backup("weclaw", mig.orig, mig.from, mig.catWas, mig.offs,
                                             "prepared", {"roll", "kids"}))
        /\ mig' = [mig EXCEPT !.at = "rollout", !.id = Len(backups) + 1]
        /\ UNCHANGED migMishaps
     \/ MigMishap /\ To("start") /\ UNCHANGED backups
  /\ UNCHANGED <<files, hostUp, turnOn, migGate, conf, sw, ghosts, switches>>

\* writeCodexProviderFileAtomically: done or not done
WriteRollout ==
  /\ mig.at = "rollout"
  /\ \/ /\ roll' = Transformed(mig.orig, mig.to)
        /\ mig' = [mig EXCEPT !.at = "rollout_written", !.wrote = @ \cup {"roll"}]
        /\ UNCHANGED migMishaps
     \/ MigMishap /\ To("undo_kids") /\ UNCHANGED roll
  /\ UNCHANGED <<row, cat, kids, backups, hostUp, turnOn, migGate, conf, sw, ghosts, switches>>

\* writeCodexProviderManifest after each store; one that fails starts the rollback
Following == [rollout_written |-> "lineage", lineage_written |-> "row",
              state_updated |-> "catalog", storage_committed |-> "start"]
RecordStatus ==
  /\ mig.at \in DOMAIN Following
  /\ \/ /\ backups' = [backups EXCEPT ![mig.id].status = mig.at]
        /\ To(Following[mig.at]) /\ UNCHANGED migMishaps
     \/ MigMishap /\ To("undo_kids") /\ UNCHANGED backups
  /\ UNCHANGED <<files, hostUp, turnOn, migGate, conf, sw, ghosts, switches>>

\* rewriteCodexPaginatedLineageOffset, child by child
WriteLineage ==
  /\ mig.at = "lineage"
  /\ \/ /\ mig.todo \ mig.wrote = {} /\ To("lineage_written") /\ UNCHANGED <<kids, migMishaps>>
     \/ \E c \in mig.todo \ mig.wrote :
          \/ /\ kids' = [kids EXCEPT ![c].off = OffsetAt(roll, kids[c].end)]
             /\ mig' = [mig EXCEPT !.wrote = @ \cup {c}] /\ UNCHANGED migMishaps
          \/ MigMishap /\ To("undo_kids") /\ UNCHANGED kids
  /\ UNCHANGED <<roll, row, cat, backups, hostUp, turnOn, migGate, conf, sw, ghosts, switches>>

\* a sqlite3 process: it commits, fails, or commits and is reported failed
CallsDatabase(next, back, change, same) ==
  \/ ~mig.dead /\ change /\ next /\ UNCHANGED <<migMishaps, unseen>>
  \/ MigMishap /\ ~mig.dead /\ same /\ back /\ UNCHANGED unseen
  \/ MigMishap /\ ~mig.dead /\ change /\ unseen' = TRUE /\ back
  \/ mig.dead /\ same /\ back /\ UNCHANGED <<migMishaps, unseen>>

UpdateRow ==
  /\ mig.at = "row"
  /\ CallsDatabase(mig' = [mig EXCEPT !.at = "state_updated", !.wrote = @ \cup {"row"}],
                   To("undo_kids"), row' = mig.to, row' = row)
  /\ UNCHANGED <<roll, cat, kids, backups, hostUp, turnOn, migGate, conf, sw, ever, restores, switches>>

UpdateCatalog ==
  /\ mig.at = "catalog"
  /\ \/ /\ cat = "none" /\ To("storage_committed") /\ UNCHANGED <<cat, migMishaps, unseen>>
     \/ /\ cat # "none"
        /\ CallsDatabase(mig' = [mig EXCEPT !.at = "storage_committed", !.wrote = @ \cup {"cat"}],
                         To("undo_kids"), cat' = mig.to, cat' = cat)
  /\ UNCHANGED <<roll, row, kids, backups, hostUp, turnOn, migGate, conf, sw, ever, restores, switches>>

(***************************************************************************)
(* The rollback: the children that were written, the catalog, the row, the *)
(* rollout; each failure is remembered and the others still run.           *)
(***************************************************************************)

Undone == mig.wrote \cap Children
UndoLineage ==
  /\ mig.at = "undo_kids"
  /\ \/ Undone = {} /\ To("undo_cat") /\ UNCHANGED <<kids, migMishaps>>
     \/ \E c \in Undone :
          \/ /\ kids' = [kids EXCEPT ![c].off = mig.offs[c]]
             /\ mig' = [mig EXCEPT !.wrote = @ \ {c}] /\ UNCHANGED migMishaps
          \/ MigMishap /\ mig' = [mig EXCEPT !.wrote = (@ \ {c}) \cup {"failed"}] /\ UNCHANGED kids
  /\ UNCHANGED <<roll, row, cat, backups, hostUp, turnOn, migGate, conf, sw, ghosts, switches>>

After(at) == mig' = [mig EXCEPT !.at = at]
Missed(at) == mig' = [mig EXCEPT !.at = at, !.wrote = @ \cup {"failed"}]

UndoCatalog ==
  /\ mig.at = "undo_cat"
  /\ IF "cat" \in mig.wrote
     THEN CallsDatabase(After("undo_row"), Missed("undo_row"), cat' = mig.catWas, cat' = cat)
     ELSE After("undo_row") /\ UNCHANGED <<cat, migMishaps, unseen>>
  /\ UNCHANGED <<roll, row, kids, backups, hostUp, turnOn, migGate, conf, sw, ever, restores, switches>>

UndoRow ==
  /\ mig.at = "undo_row"
  /\ IF "row" \in mig.wrote
     THEN CallsDatabase(After("undo_roll"), Missed("undo_roll"), row' = mig.from, row' = row)
     ELSE After("undo_roll") /\ UNCHANGED <<row, migMishaps, unseen>>
  /\ UNCHANGED <<roll, cat, kids, backups, hostUp, turnOn, migGate, conf, sw, ever, restores, switches>>

UndoRollout ==
  /\ mig.at = "undo_roll"
  /\ \/ "roll" \notin mig.wrote /\ After("undone") /\ UNCHANGED <<roll, migMishaps>>
     \/ "roll" \in mig.wrote /\ roll' = mig.orig /\ After("undone") /\ UNCHANGED migMishaps
     \/ "roll" \in mig.wrote /\ MigMishap /\ Missed("undone") /\ UNCHANGED roll
  /\ UNCHANGED <<row, cat, kids, backups, hostUp, turnOn, migGate, conf, sw, ghosts, switches>>

RollbackStatus == IF "failed" \in mig.wrote THEN "rollback_failed" ELSE "rolled_back"
RecordRollback ==
  /\ mig.at = "undone"
  /\ \/ backups' = [backups EXCEPT ![mig.id].status = RollbackStatus] /\ UNCHANGED migMishaps
     \/ MigMishap /\ UNCHANGED backups
  /\ mig' = [mig EXCEPT !.at = "start", !.id = 0]
  /\ UNCHANGED <<files, hostUp, turnOn, migGate, conf, sw, ghosts, switches>>

\* restartCodexProviderHost, the provider read again, the thread resumed and the
\* manifest marked; anything unconfirmed keeps the gate failed
FinishPrepare ==
  /\ mig.at = "start"
  /\ \/ /\ mig.id = 0 \/ conf = mig.to
        /\ hostUp' = TRUE /\ migGate' = "open" /\ UNCHANGED migMishaps
        /\ IF mig.id = 0 THEN UNCHANGED backups
                         ELSE backups' = [backups EXCEPT ![mig.id].status = "verified"]
     \/ /\ mig.id # 0 /\ conf # mig.to
        /\ hostUp' = TRUE /\ migGate' = "failed" /\ UNCHANGED <<backups, migMishaps>>
     \/ /\ MigMishap /\ hostUp' \in {hostUp, mig.id # 0}
        /\ migGate' = "failed" /\ UNCHANGED backups
  /\ mig' = NoMig
  /\ UNCHANGED <<files, turnOn, conf, sw, ghosts, switches>>

(***************************************************************************)
(* scripts/codex-provider-switch.sh --apply and --restore.                 *)
(***************************************************************************)

\* transform_rollout keeps every record and rewrites the provider in the first line
Switched(r, p) == IF r.prov = p THEN r ELSE Rollout(p, 1, r.body)
ThreadStores == {"row", "cat", "roll"}
Changed(new) ==
  {n \in ThreadStores : \/ n = "row" /\ new.row # row
                        \/ n = "cat" /\ new.cat # cat
                        \/ n = "roll" /\ new.roll # roll}
\* the row, the catalog, the rollout, and back again
FirstStore(names) == IF "row" \in names THEN "row" ELSE IF "cat" \in names THEN "cat" ELSE "roll"
LastStore(names) == IF "roll" \in names THEN "roll" ELSE IF "cat" \in names THEN "cat" ELSE "row"

\* the counts and the new rollouts, worked out before any check for running programs
PlanSwitch ==
  /\ sw.at = "none" /\ mig.at = "none" /\ Len(backups) < MaxBackups
  /\ \E p \in Providers :
       LET new == [NoSwitch EXCEPT !.at = "planned", !.roll = Switched(roll, p), !.row = p,
                                   !.cat = IF cat = "none" THEN "none" ELSE p]
       IN  Changed(new) # {} /\ sw' = [new EXCEPT !.left = Changed(new)]
  /\ UNCHANGED <<files, backups, hostUp, turnOn, migGate, conf, mig, ghosts, migMishaps, switches>>

\* load_restore_manifest: only the files that backup holds
PlanRestore ==
  /\ sw.at = "none" /\ mig.at = "none" /\ Len(backups) < MaxBackups
  /\ \E i \in DOMAIN backups :
       /\ backups[i].by = "script"
       /\ sw' = [NoSwitch EXCEPT !.at = "planned", !.kind = "restore", !.roll = backups[i].roll,
                                 !.row = backups[i].row, !.cat = backups[i].cat,
                                 !.left = ThreadStores \cap backups[i].holds]
  /\ UNCHANGED <<files, backups, hostUp, turnOn, migGate, conf, mig, ghosts, migMishaps, switches>>

\* assert_no_open_files, then make_backup of what the files hold now
MakeBackup ==
  /\ sw.at = "planned"
  /\ IF hostUp
     THEN sw' = NoSwitch /\ UNCHANGED backups
     ELSE /\ backups' = Append(backups, Backup("script", roll, row, cat, NoMig.offs, "backup-verified",
                                               sw.left))
          /\ sw' = [sw EXCEPT !.at = "backed", !.id = Len(backups) + 1]
  /\ UNCHANGED <<files, hostUp, turnOn, migGate, conf, mig, ghosts, migMishaps, switches>>

SourcesTrusted(b) == TRUE
\* the sources must still be what the backup holds, and nothing may run
Unmoved(b) == ("row" \in b.holds => row = b.row) /\ ("cat" \in b.holds => cat = b.cat)
              /\ ("roll" \in b.holds => roll = b.roll)
CheckSources ==
  /\ sw.at = "backed"
  /\ IF ~hostUp /\ Unmoved(backups[sw.id])
     THEN sw' = [sw EXCEPT !.at = "replacing"] /\ UNCHANGED backups
     ELSE sw' = NoSwitch /\ backups' = [backups EXCEPT ![sw.id].status = "failed"]
  /\ UNCHANGED <<files, hostUp, turnOn, migGate, conf, mig, ghosts, migMishaps, switches>>

Put(n, from) ==
  /\ row' = (IF n = "row" THEN from.row ELSE row)
  /\ cat' = (IF n = "cat" THEN from.cat ELSE cat)
  /\ roll' = (IF n = "roll" THEN from.roll ELSE roll)

\* replace_from_file, one file after the other; a failure, of the checks that follow
\* too, puts the others back
ReplaceFile ==
  /\ sw.at = "replacing"
  /\ \/ /\ sw.left # {} /\ Put(FirstStore(sw.left), sw) /\ UNCHANGED migMishaps
        /\ sw' = [sw EXCEPT !.left = @ \ {FirstStore(@)}, !.put = @ \cup {FirstStore(sw.left)}]
     \/ MigMishap /\ sw' = [sw EXCEPT !.at = "undoing"] /\ UNCHANGED <<row, cat, roll>>
  /\ UNCHANGED <<kids, backups, hostUp, turnOn, migGate, conf, mig, ghosts, switches>>

UndoReplace ==
  /\ sw.at = "undoing"
  /\ \/ /\ sw.put # {} /\ Put(LastStore(sw.put), backups[sw.id]) /\ UNCHANGED <<migMishaps, backups>>
        /\ sw' = [sw EXCEPT !.put = @ \ {LastStore(@)}]
     \/ /\ \/ sw.put = {} /\ UNCHANGED migMishaps
           \/ sw.put # {} /\ MigMishap
        /\ backups' = [backups EXCEPT ![sw.id].status = "failed"]
        /\ sw' = NoSwitch /\ UNCHANGED <<row, cat, roll>>
  /\ UNCHANGED <<kids, hostUp, turnOn, migGate, conf, mig, ghosts, switches>>

FinishReplace ==
  /\ sw.at = "replacing" /\ sw.left = {}
  /\ backups' = [backups EXCEPT ![sw.id].status = "applied"]
  /\ restores' = (restores \/ sw.kind = "restore") /\ sw' = NoSwitch
  /\ UNCHANGED <<files, hostUp, turnOn, migGate, conf, mig, ever, unseen, migMishaps, switches>>

ScriptKilled ==
  /\ sw.at \in {"backed", "replacing", "undoing"} /\ MigMishap
  /\ sw' = NoSwitch /\ restores' = (restores \/ sw.kind = "restore")
  /\ UNCHANGED <<files, backups, hostUp, turnOn, migGate, conf, mig, ever, unseen, switches>>

MigNext ==
  \/ ChangeProvider \/ HostWorks \/ HostToggles \/ ServiceExits \/ ServiceRestarts \/ Cancel
  \/ Prepare \/ CheckIdle \/ StopForMigration \/ ReadThread \/ WriteBackups \/ WriteRollout
  \/ RecordStatus \/ WriteLineage \/ UpdateRow \/ UpdateCatalog
  \/ UndoLineage \/ UndoCatalog \/ UndoRow \/ UndoRollout \/ RecordRollback \/ FinishPrepare
  \/ PlanSwitch \/ PlanRestore \/ MakeBackup \/ CheckSources \/ ReplaceFile \/ UndoReplace
  \/ FinishReplace \/ ScriptKilled

MigSpec == MigInit /\ [][MigNext]_migVars

(***************************************************************************)
(* Properties.                                                             *)
(***************************************************************************)

\* Whatever migrations, script runs, restores, failed writes and exits happen, every
\* record Codex wrote in the thread is still in its rollout or in the rollout of a
\* backup directory (the migration deletes the provider's reasoning, a restore puts an
\* older file back).
HistoryKept ==
  \A x \in ever : x \in roll.body \/ \E i \in DOMAIN backups :
                     "roll" \in backups[i].holds /\ x \in backups[i].roll.body

\* A thread whose stores disagree about its provider, or whose children point beside
\* the record they end at because of a migration, has a backup directory whose record
\* says the change did not come to its end. Three things are apart: a database
\* call that took effect although it was reported failed, a restored backup, and the
\* script, which moves the offsets of children without looking at them.
Finished == {"verified", "storage_committed", "rolled_back", "applied"}
Torn == roll.prov # row \/ (~Aligned /\ \A i \in DOMAIN backups : backups[i].by = "weclaw")
TornIsRecorded ==
  (~unseen /\ ~restores /\ sw.at = "none" /\ mig.at = "none" /\ Torn) =>
    \E i \in DOMAIN backups : backups[i].status \notin Finished

\* A migration loses no history, and one that was cut short can be found and undone
\* (codex_provider_migration.go, the backup directory and its record).
MigrationSound == HistoryKept /\ TornIsRecorded
=============================================================================
