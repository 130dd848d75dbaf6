------------------------- MODULE CodexAccountSwitch -------------------------
(***************************************************************************)
(* Saving, switching and reconciling the account of the shared host        *)
(* (agent/codex_account.go, codex_account_sync.go, cmd/codex_account.go).  *)
(*                                                                         *)
(* A switch journals its intent in the index, stops the host, writes       *)
(* auth.json, starts the host, verifies who it runs as and commits; every  *)
(* step may fail, and then the old login is put back and verified the same *)
(* way.  A reconciliation does the same for a login the Codex application  *)
(* wrote itself.  The index is one file: a commit succeeds or leaves it.   *)
(***************************************************************************)
EXTENDS CodexHostGate

At(kinds, at) == op.kind \in kinds /\ op.at = at /\ service = "up"
Go(at) == op' = [op EXCEPT !.at = at]
Same == UNCHANGED <<gate, adm, service, entry, file, rst, condemned, misread, reopened, logins, ops>>
Kept == UNCHANGED <<turn, host, meta>>

\* sameCodexHostGeneration: the host is still the one whose metadata the operation read.
SameGeneration == Managed /\ meta.gen = op.gen

-----------------------------------------------------------------------------
(* How an operation begins, and what it reads before it changes anything.  *)

Begin(kind, a) ==
  /\ service = "up" /\ adm = "free" /\ ops < MaxOps /\ MayBegin
  /\ adm' = "op" /\ gate' = Draining /\ ops' = ops + 1
  /\ op' = [Idle EXCEPT !.kind = kind, !.at = "begin", !.target = a]
  /\ UNCHANGED <<turn, host, meta, auth, idx, service, entry, file, rst, condemned, misread, reopened, logins>> /\ Calm

\* A target that auth.json already names is reconciled instead.
UseCodexAccount(a) == IF a = auth THEN Begin("sync", NoAccount) ELSE Begin("use", a)
SaveCodexAccount == Begin("save", NoAccount)

\* The host is started and every thread of it is idle; an active thread, or no answer, refuses.
CheckIdle ==
  /\ At({"use", "sync", "save"}, "begin")
  /\ EnsureStarted /\ Go(IF op.kind = "sync" THEN "meta" ELSE "live")
  /\ UNCHANGED <<turn, auth, idx>> /\ Same /\ Calm

\* A switch or a save first asks the host who it is, and auth.json must agree ...
ReadLive ==
  /\ At({"use", "save"}, "live")
  /\ host.up /\ host.acct = auth
  /\ op' = [op EXCEPT !.live = auth, !.seen = host.gen, !.at = "meta", !.target = IF op.kind = "save" THEN auth ELSE @]
  /\ Kept /\ UNCHANGED <<auth, idx>> /\ Same /\ Calm

\* ... and then reads which host that is.  A reconciliation reads the host first.
ReadMeta ==
  /\ At({"use", "sync", "save"}, "meta")
  /\ Managed
  /\ op.kind = "sync" => auth \in idx.saved
  /\ op' = [op EXCEPT !.gen = meta.gen, !.at = IF op.kind = "sync" THEN "compare" ELSE "tx",
                      !.target = IF op.kind = "sync" THEN auth ELSE @,
                      !.prof = IF op.kind = "sync" THEN meta.profile ELSE idx.active]
  /\ Kept /\ UNCHANGED <<auth, idx>> /\ Same /\ Calm

\* A reconciliation that finds the account running and on record already.
InStep == host.up /\ host.acct = op.target /\ idx.active = op.target /\ meta.profile = op.target

\* The checks that fail, or find nothing to do: the operation ends with nothing changed.
Declined ==
  /\ op.kind \in {"use", "sync", "save"} /\ op.at \in {"begin", "live", "meta", "compare", "tx", "same", "lock"} /\ service = "up"
  /\ \/ op.at = "live" /\ (~host.up \/ host.acct # auth)
     \/ op.at = "meta" /\ (~Managed \/ (op.kind = "sync" /\ auth \notin idx.saved))
     \/ op.at = "compare" /\ InStep
     \/ op.at = "tx" /\ op.kind = "use" /\ idx.active # op.live
     \/ op.at \in {"same", "lock"} /\ ~SameGeneration
     \/ op.at = "lock" /\ op.kind = "sync" /\ auth # op.target
     \/ op.at = "tx" /\ op.kind = "use" /\ op.target \notin idx.saved
  /\ Refuse /\ Calm

\* A thread of the host is active, a request to it or a write of the store fails before the host is touched.
Unavailable ==
  /\ op.kind \in {"use", "sync", "save"} /\ ~op.shut /\ service = "up"
  /\ op.at \in {"begin", "live", "compare", "tx", "same", "lock", "journal"}
  /\ Upset /\ Refuse

-----------------------------------------------------------------------------
(* The transaction.                                                        *)

\* A switch to the account in use, a save, or a reconciliation of a host that already runs as the target record it.  The
\* way back of a reconciliation leads to the recorded account, if the host runs as that.
Compare ==
  /\ \/ /\ At({"use"}, "tx") /\ idx.active = op.live
        /\ Go(IF idx.active = op.target THEN "same" ELSE "lock")
     \/ /\ At({"save"}, "tx")
        /\ Go("same")
     \/ /\ At({"sync"}, "compare") /\ ~InStep
        /\ op' = [op EXCEPT !.at = IF host.up /\ host.acct = op.target THEN "same" ELSE "lock",
                            !.prof = IF host.up /\ host.acct # op.prof THEN NoAccount ELSE @]
  /\ Kept /\ UNCHANGED <<auth, idx>> /\ Same /\ Calm

Remember == misread' = IF op.kind # "sync" /\ op.seen # meta.gen THEN misread \cup {meta.gen} ELSE misread

\* The account of the host is recorded under the lifecycle lock, if the host is still the one that was checked; then
\* the index is committed.  When the commit fails the record is taken back, except by a switch to the account in use.
RecordSame(ok) ==
  /\ At({"use", "save", "sync"}, "same") /\ SameGeneration
  /\ Happens(ok)
  /\ IF ok \/ op.kind = "use"
     THEN meta' = [meta EXCEPT !.profile = op.target] /\ Remember
     ELSE UNCHANGED <<meta, misread>>
  /\ idx' = IF ok THEN [saved |-> idx.saved \cup {op.target}, active |-> op.target, status |-> IF op.kind = "use" THEN "unchanged"
                                                        ELSE IF op.kind = "sync" THEN "external_sync_success" ELSE idx.status]
            ELSE idx
  /\ Return(TRUE)
  /\ UNCHANGED <<turn, host, auth, service, entry, file, rst, condemned, reopened, logins, ops>>

\* The commit fails and the record of the host cannot be taken back either: the gate stays shut.  A reconciliation has made
\* the account active by then, and what it records of the failure is the same file.
RecordStuck(recorded) ==
  /\ At({"save", "sync"}, "same") /\ SameGeneration /\ Upset
  /\ meta' = [meta EXCEPT !.profile = op.target]
  /\ idx' = IF recorded THEN [idx EXCEPT !.status = "rollback_failed", !.active = IF op.kind = "sync" THEN op.target ELSE @]
            ELSE idx
  /\ Remember
  /\ Return(FALSE)
  /\ UNCHANGED <<turn, host, auth, service, entry, file, rst, condemned, reopened, logins, ops>>

\* A profile that is not in use is removed, with the gate held.
RemoveCodexAccount(a) ==
  /\ service = "up" /\ adm = "free" /\ ops < MaxOps /\ MayBegin
  /\ a \in idx.saved \ {idx.active}
  /\ idx' = [idx EXCEPT !.saved = @ \ {a}] /\ ops' = ops + 1
  /\ UNCHANGED <<gate, adm, turn, host, meta, auth, op, service, entry, file, rst, condemned, misread, reopened, logins>> /\ Calm

\* The lifecycle lock is held and the host, its threads and auth.json are as they were.
TakeLock ==
  /\ At({"use", "sync"}, "lock") /\ SameGeneration
  /\ op.kind = "sync" => auth = op.target
  /\ Go("journal")
  /\ Kept /\ UNCHANGED <<auth, idx>> /\ Same /\ Calm

\* The intent is on disk before the host is touched.
Journal ==
  /\ At({"use", "sync"}, "journal")
  /\ idx' = [idx EXCEPT !.status = IF op.kind = "use" THEN "switching" ELSE "external_syncing"]
  /\ op' = [op EXCEPT !.at = "stop", !.shut = TRUE]
  /\ Kept /\ UNCHANGED auth /\ Same /\ Calm

\* The host is stopped; if that cannot be proved the gate stays shut and the intent stays.
StopHost(ok) ==
  /\ At({"use", "sync"}, "stop")
  /\ IF ok /\ Managed
     THEN /\ Stopped /\ Go(IF op.kind = "use" THEN "write" ELSE "start")
          /\ UNCHANGED <<auth, idx>> /\ Same /\ Calm
     ELSE Happens(ok) /\ Refuse

\* A switch writes the target's login.
WriteAuth(ok) ==
  /\ At({"use"}, "write")
  /\ Happens(ok)
  /\ auth' = IF ok THEN op.target ELSE auth
  /\ Go(IF ok THEN "start" ELSE "undo")
  /\ Kept /\ UNCHANGED idx /\ Same

StartHost(ok) ==
  /\ At({"use", "sync"}, "start")
  /\ Happens(ok)
  /\ IF ok THEN EnsureStarted ELSE UNCHANGED <<host, meta>>
  /\ Go(IF ok THEN "verify" ELSE "undo")
  /\ UNCHANGED <<turn, auth, idx>> /\ Same

\* The host says who it is; for a reconciliation auth.json must still name the target.
RunsAsTarget == host.up /\ host.acct = op.target /\ (op.kind = "sync" => auth = op.target)
VerifyHost(ok) ==
  /\ At({"use", "sync"}, "verify")
  /\ Happens(ok)
  /\ Go(IF ok /\ RunsAsTarget THEN "record" ELSE "undo")
  /\ Kept /\ UNCHANGED <<auth, idx>> /\ Same

\* The metadata names the account, the index makes it active and records the end.  A reconciliation whose commit fails may
\* have made it active in the copy of the index it goes on with (`live`); a switch takes that back first.
Commit(ok) ==
  /\ At({"use", "sync"}, "record")
  /\ Happens(ok)
  /\ IF ok /\ Managed
     THEN /\ meta' = [meta EXCEPT !.profile = op.target]
          /\ idx' = [idx EXCEPT !.active = op.target, !.status = IF op.kind = "use" THEN "success" ELSE "external_sync_success"]
          /\ Return(TRUE)
     ELSE /\ meta' = IF Managed THEN [meta EXCEPT !.profile = op.target] ELSE meta
          /\ \E a \in {op.live, IF op.kind = "sync" THEN op.target ELSE op.live} : op' = [op EXCEPT !.at = "undo", !.live = a]
          /\ UNCHANGED <<idx, gate, adm>>
  /\ UNCHANGED <<turn, host, auth, service, entry, file, rst, condemned, misread, reopened, logins, ops>>

-----------------------------------------------------------------------------
(* The way back.                                                           *)

Ended(status, active) == idx' = [idx EXCEPT !.active = active, !.status = status]
\* The active account of the copy.
ActiveSoFar == IF op.kind = "sync" /\ op.live # NoAccount THEN op.live ELSE idx.active

\* A reconciliation of a host nobody had recorded keeps the new login, stops the host and may be tried again.
Defer(ok) ==
  /\ At({"sync"}, "undo") /\ op.prof \notin idx.saved
  /\ Happens(ok)
  /\ IF host.up THEN Stopped ELSE Kept
  /\ IF ok THEN Ended("external_sync_deferred", ActiveSoFar) ELSE UNCHANGED idx
  /\ Return(ok)
  /\ UNCHANGED <<auth, service, entry, file, rst, condemned, misread, reopened, logins, ops>>

\* The host of the target is stopped and the old login written back.
OldLogin == IF op.kind = "use" THEN op.live ELSE op.prof
RestoreAuth ==
  /\ At({"use", "sync"}, "undo") /\ (op.kind = "sync" => op.prof \in idx.saved)
  /\ IF host.up THEN Stopped ELSE Kept
  /\ auth' = OldLogin
  /\ Go("undo-start")
  /\ UNCHANGED idx /\ Same /\ Calm

RestartOld ==
  /\ At({"use", "sync"}, "undo-start")
  /\ EnsureStarted /\ Go("undo-verify")
  /\ UNCHANGED <<turn, auth, idx>> /\ Same /\ Calm

\* The old host is verified and recorded, the active profile put back, and the end recorded: only then is the gate open.
RolledBack(ok) ==
  /\ At({"use", "sync"}, "undo-verify")
  /\ Managed /\ host.acct = OldLogin
  /\ Happens(ok)
  /\ meta' = IF op.prof \in idx.saved THEN [meta EXCEPT !.profile = op.prof] ELSE meta
  /\ IF ok
     THEN Ended(IF op.kind = "use" THEN "rolled_back" ELSE "external_sync_rolled_back", op.prof)
     ELSE UNCHANGED idx
  /\ Return(ok)
  /\ UNCHANGED <<turn, host, auth, service, entry, file, rst, condemned, misread, reopened, logins, ops>>

\* Any step of the way back fails: recorded if it can be, and the gate stays shut.
RollbackFails(recorded) ==
  /\ op.at \in {"undo", "undo-start", "undo-verify"} /\ service = "up"
  /\ IF op.at = "undo-verify" /\ ~(Managed /\ host.acct = OldLogin) THEN Happens(recorded) ELSE Upset
  /\ IF recorded THEN Ended("rollback_failed", ActiveSoFar) ELSE UNCHANGED idx
  /\ Return(FALSE)
  /\ UNCHANGED <<turn, host, meta, auth, service, entry, file, rst, condemned, misread, reopened, logins, ops>>

-----------------------------------------------------------------------------
\* With the service stopped, the command line writes the login and the index itself; the record ends an unsafe state.
UseOffline(a) ==
  /\ service = "down" /\ a \in idx.saved /\ ops < MaxOps
  /\ auth' = a /\ idx' = [idx EXCEPT !.active = a, !.status = "offline"] /\ ops' = ops + 1
  /\ UNCHANGED <<gate, adm, turn, host, meta, op, service, entry, file, rst, condemned, misread, reopened, logins>> /\ Calm

SwitchNext ==
  \/ \E a \in Accounts : UseCodexAccount(a) \/ UseOffline(a) \/ RemoveCodexAccount(a)
  \/ SaveCodexAccount \/ CheckIdle \/ ReadLive \/ ReadMeta \/ Declined \/ Unavailable \/ Compare
  \/ TakeLock \/ Journal \/ RestoreAuth \/ RestartOld
  \/ \E ok \in BOOLEAN :
       \/ RecordSame(ok) \/ RecordStuck(ok) \/ StopHost(ok) \/ WriteAuth(ok) \/ StartHost(ok) \/ VerifyHost(ok) \/ Commit(ok)
       \/ Defer(ok) \/ RolledBack(ok) \/ RollbackFails(ok)
=============================================================================
