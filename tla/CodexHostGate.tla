---------------------------- MODULE CodexHostGate ----------------------------
(***************************************************************************)
(* The shared Codex host and the gate in front of it.                      *)
(*                                                                         *)
(* The host is a process of its own that loads the login of auth.json when *)
(* it starts; a metadata file records its generation and, once verified,   *)
(* the saved account it runs as (agent/codex_host_supervisor.go,           *)
(* codex_app_server_host.go).  A turn passes the admission mutex, the      *)
(* account check and the gate (codex_runtime_turn.go,                      *)
(* codex_app_server_gate.go); maintenance holds the mutex and takes the    *)
(* gate exclusively.  The Codex application and other front ends change    *)
(* auth.json and start the host whenever they like.                        *)
(***************************************************************************)
EXTENDS Naturals, FiniteSets

CONSTANTS
  Accounts,      \* logins that may be in auth.json
  Turns,         \* messages that want a turn
  MaxHosts,      \* bound: processes started as host
  MaxLogins,     \* bound: logins changed by the Codex application
  MaxOps,        \* bound: maintenance operations
  MaxUpsets      \* bound: failures, and stops of the host or of the service

ASSUME HostAssumption ==
  /\ "none" \notin Accounts /\ {"free", "op", "user"} \cap Turns = {}
  /\ MaxHosts \in Nat /\ MaxLogins \in Nat /\ MaxOps \in Nat /\ MaxUpsets \in Nat

VARIABLES
  gate,      \* [state, cause]: the gate of the service
  adm,       \* holder of codexAdmissionMu: "free", "op" or a turn
  turn,      \* turn -> [stage, acct, active, gen, vetted]: a turn remembers the generation its account was checked on,
             \* and one that runs the host it was written to
  host,      \* the host process: [up, gen, acct]
  meta,      \* its metadata file: [gen, running, profile]
  auth,      \* the login in auth.json
  idx,       \* the account index on disk: [saved, active, status]
  op,        \* the maintenance operation under way
  service,   \* the service: "up", "booting" or "down"
  entry,     \* whether messages are admitted
  file,      \* runtime-restart.json
  rst,       \* the restart as the service remembers it: [asked, prepared, unsafe, snap]; asked of the gate, not taken yet
  condemned, \* generations a restart recorded as stopped and has not given up (history)
  misread,   \* generations recorded under an account that was read of an earlier host (history)
  reopened,  \* a forced stop failed and the gate opened (history)
  logins, ops, upsets

hostVars == <<gate, adm, turn, host, meta, auth, idx, op, service, entry, file, rst, condemned, misread, reopened, logins, ops, upsets>>

NoAccount == "none"
Idle == [kind |-> "none", at |-> "rest", by |-> "user", target |-> NoAccount, live |-> NoAccount, seen |-> 0, gen |-> 0,
         prof |-> NoAccount, shut |-> FALSE, force |-> FALSE]
NoFile == [kind |-> "none", gen |-> 0, stopped |-> FALSE]
NoRestart == [asked |-> "no", prepared |-> FALSE, unsafe |-> FALSE, snap |-> NoFile]
Waiting == [stage |-> "off", acct |-> NoAccount, active |-> NoAccount, gen |-> 0, vetted |-> 0]

Unsafe == {"switching", "external_syncing", "rollback_failed"}

Upset == upsets < MaxUpsets /\ upsets' = upsets + 1
Calm == UNCHANGED upsets
Happens(ok) == IF ok THEN Calm ELSE Upset

Permits == {t \in Turns : turn[t].stage \in {"admitted", "ready", "running"}}
Running == {t \in Turns : turn[t].stage = "running"}

HostInit ==
  /\ gate = [state |-> "running", cause |-> FALSE]
  /\ adm = "free" /\ turn = [t \in Turns |-> Waiting]
  /\ auth \in Accounts
  /\ host = [up |-> TRUE, gen |-> 1, acct |-> auth]
  /\ meta = [gen |-> 1, running |-> TRUE, profile |-> auth]
  /\ idx \in [saved : {S \in SUBSET Accounts : auth \in S}, active : {auth}, status : {"success"}]
  /\ op = Idle /\ service = "up" /\ entry = "open" /\ file = NoFile /\ rst = NoRestart
  /\ condemned = {} /\ misread = {} /\ reopened = FALSE
  /\ logins = 0 /\ ops = 0 /\ upsets = 0

-----------------------------------------------------------------------------
(* The host process and its metadata.                                      *)

\* validateManagedCodexHost: the recorded process is alive and is the one recorded.
Managed == host.up /\ meta.running /\ meta.gen = host.gen
Fresh == [host |-> [up |-> TRUE, gen |-> host.gen + 1, acct |-> auth],
          meta |-> [gen |-> host.gen + 1, running |-> TRUE, profile |-> NoAccount]]

\* A host is started with the login of the moment and recorded without an account.
Launch ==
  /\ ~host.up /\ host.gen < MaxHosts
  /\ host' = Fresh.host /\ meta' = Fresh.meta
\* ensureStarted: a host that runs is used, else one is started.
EnsureStarted == IF host.up THEN UNCHANGED <<host, meta>> ELSE Launch

\* The turns that run on a host that stops fail; one whose account was checked and that is not written yet goes on.
Interrupted == [t \in Turns |-> IF turn[t].stage = "running" THEN Waiting ELSE turn[t]]
Stopped ==
  /\ host' = [host EXCEPT !.up = FALSE]
  /\ meta' = IF meta.gen = host.gen THEN [meta EXCEPT !.running = FALSE] ELSE meta
  /\ turn' = Interrupted

\* Operations that change the host hold its lifecycle lock.
Locked == op.at \in {"journal", "stop", "write", "start", "verify", "record", "undo", "undo-start", "undo-verify", "persist", "halt"}

HostDies ==
  /\ host.up /\ Upset
  /\ Stopped
  /\ UNCHANGED <<gate, adm, auth, idx, op, service, entry, file, rst, condemned, misread, reopened, logins, ops>>

\* Another front end, or a command that only reads, starts a host.
OtherStarts ==
  /\ ~Locked /\ Launch
  /\ UNCHANGED <<gate, adm, turn, auth, idx, op, service, entry, file, rst, condemned, misread, reopened, logins, ops>> /\ Calm

\* The Codex application logs in as somebody else.
AppLogin(a) ==
  /\ logins < MaxLogins /\ a # auth
  /\ auth' = a /\ logins' = logins + 1
  /\ UNCHANGED <<gate, adm, turn, host, meta, idx, op, service, entry, file, rst, condemned, misread, reopened, ops>> /\ Calm

-----------------------------------------------------------------------------
(* The gate.                                                               *)

BeginBlindly == gate.state = "running"   \* mutant: turns in flight do not refuse maintenance
MayBegin == gate.state = "running" /\ Permits = {}
MayForce == gate.state \in {"running", "failed"}
Draining == [gate EXCEPT !.state = "draining"]
\* finishExclusive: an unavailable host, or a cause recorded earlier, keeps the gate failed.
Finish(available) == [gate EXCEPT !.state = IF ~available \/ gate.cause THEN "failed" ELSE "running"]
\* finishRestart after a host was verified.
Reopened == [state |-> "running", cause |-> FALSE]
\* The gate a process starts with: an unsafe switch record closes it.
FirstGate == [state |-> IF idx.status \in Unsafe THEN "failed" ELSE "running", cause |-> idx.status \in Unsafe]

-----------------------------------------------------------------------------
(* A turn.                                                                 *)

\* inspectCodexAccountStatus without the runtime: auth.json, the index and the metadata say the same.
Synced == auth \in idx.saved /\ idx.active = auth /\ Managed /\ meta.profile = auth

Quit(t) == turn' = [turn EXCEPT ![t] = Waiting]

\* The message takes the mutex, the host is started if need be and the account looked at.
TurnResolve(t) ==
  /\ service = "up" /\ entry = "open" /\ adm = "free" /\ turn[t].stage = "off"
  /\ adm' = t /\ turn' = [turn EXCEPT ![t].stage = "resolving"]
  /\ EnsureStarted
  /\ UNCHANGED <<gate, auth, idx, op, service, entry, file, rst, condemned, misread, reopened, logins, ops>> /\ Calm

\* ensureCodexAccountForTurn: in step, or brought into step by a reconciliation; a login that is not saved is refused.
TurnAccountChecked(t) ==
  /\ adm = t /\ turn[t].stage = "resolving" /\ op.kind = "none"
  /\ \/ Synced /\ turn' = [turn EXCEPT ![t].stage = "resolved"] /\ UNCHANGED <<adm, op, gate, ops>>
     \/ ~Synced /\ Quit(t) /\ adm' = "free" /\ UNCHANGED <<op, gate, ops>>
     \/ /\ ~Synced /\ auth \in idx.saved /\ MayBegin /\ ops < MaxOps
        /\ op' = [Idle EXCEPT !.kind = "sync", !.at = "begin", !.by = t]
        /\ gate' = Draining /\ ops' = ops + 1
        /\ turn' = [turn EXCEPT ![t].stage = "syncing"] /\ UNCHANGED adm
  /\ UNCHANGED <<host, meta, auth, idx, service, entry, file, rst, condemned, misread, reopened, logins>> /\ Calm

\* After the reconciliation the account is checked again, and nothing else is tried.
TurnSynced(t) ==
  /\ adm = t /\ turn[t].stage = "syncing" /\ op.kind = "none"
  /\ \/ Synced /\ turn' = [turn EXCEPT ![t].stage = "resolved"] /\ UNCHANGED adm
     \/ Quit(t) /\ adm' = "free"
  /\ UNCHANGED <<gate, host, meta, auth, idx, op, service, entry, file, rst, condemned, misread, reopened, logins, ops>> /\ Calm

\* A permit, or the error of a failed gate; a draining gate is waited for.
TurnAcquire(t) ==
  /\ adm = t /\ turn[t].stage = "resolved"
  /\ \/ gate.state = "running" /\ turn' = [turn EXCEPT ![t].stage = "admitted"]
     \/ gate.state = "failed" /\ Quit(t)
  /\ adm' = "free"
  /\ UNCHANGED <<gate, host, meta, auth, idx, op, service, entry, file, rst, condemned, misread, reopened, logins, ops>> /\ Calm

\* With the permit in hand the host is started if it died, and the account checked once more.
TurnValidate(t) ==
  /\ turn[t].stage = "admitted"
  /\ IF host.up
     THEN turn' = [turn EXCEPT ![t] = IF Synced THEN [@ EXCEPT !.stage = "ready", !.vetted = host.gen] ELSE Waiting] /\ UNCHANGED <<host, meta>>
     ELSE UNCHANGED turn /\ Launch
  /\ UNCHANGED <<gate, adm, auth, idx, op, service, entry, file, rst, condemned, misread, reopened, logins, ops>> /\ Calm

\* turn/start goes to the host of the moment, be it another than the one that was checked, which runs it as its own account.
TurnWrite(t) ==
  /\ turn[t].stage = "ready"
  /\ turn' = [turn EXCEPT ![t] = IF host.up
                                  THEN [@ EXCEPT !.stage = "running", !.acct = host.acct, !.active = idx.active, !.gen = host.gen]
                                  ELSE Waiting]
  /\ UNCHANGED <<gate, adm, host, meta, auth, idx, op, service, entry, file, rst, condemned, misread, reopened, logins, ops>> /\ Calm

TurnEnd(t) ==
  /\ turn[t].stage = "running" /\ Quit(t)
  /\ UNCHANGED <<gate, adm, host, meta, auth, idx, op, service, entry, file, rst, condemned, misread, reopened, logins, ops>> /\ Calm

-----------------------------------------------------------------------------
(* The end of an operation, shared by all of them.                         *)

\* The operation returns: the gate is settled and the mutex released, to the turn that asked for it if one did.
Return(available) ==
  /\ gate' = Finish(available)
  /\ op' = Idle
  /\ adm' = IF op.by = "user" THEN "free" ELSE op.by

\* Where it stands when something fails: once the host was touched the gate stays shut.
Refuse ==
  /\ Return(~op.shut)
  /\ UNCHANGED <<turn, host, meta, auth, idx, service, entry, file, rst, condemned, misread, reopened, logins, ops>>

HostNext ==
  \/ HostDies \/ OtherStarts
  \/ \E a \in Accounts : AppLogin(a)
  \/ \E t \in Turns : TurnResolve(t) \/ TurnAccountChecked(t) \/ TurnSynced(t) \/ TurnAcquire(t) \/ TurnValidate(t) \/ TurnWrite(t) \/ TurnEnd(t)
=============================================================================
