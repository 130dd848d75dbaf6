----------------------------- MODULE HostsSafety -----------------------------
(***************************************************************************)
(* Proofs about what many users share of a host process.                   *)
(*                                                                         *)
(* The Codex host: turns run as the active account, neither a switch nor   *)
(* an idle restart cuts one short, an unsafe end keeps the gate shut, and  *)
(* messages are let in only to a host no restart gave up.                  *)
(*                                                                         *)
(* The Claude windows: a message enters the session it was admitted for,   *)
(* and a session has one writer.  A command that rebinds a window never    *)
(* meets a message of it on its way, and any two writers share a lock.     *)
(***************************************************************************)
EXTENDS CodexHost, ClaudeWindows, SequenceTheorems, TLAPS

--------------------
(* Types.                                                                  *)

MaybeAccount == Accounts \cup {NoAccount}
Stages == {"off", "resolving", "resolved", "syncing", "admitted", "ready", "running"}
Statuses == {"success", "switching", "external_syncing", "rollback_failed", "rolled_back", "external_sync_rolled_back",
             "unchanged", "external_sync_success", "external_sync_deferred", "offline"}
Places == {"rest", "begin", "live", "meta", "compare", "tx", "same", "lock", "journal", "stop", "write", "start", "verify",
           "record", "undo", "undo-start", "undo-verify", "plan", "idle", "persist", "halt"}
Files == [kind : {"none", "preparing", "snap", "pending"}, gen : Nat, stopped : BOOLEAN]
Operations == [kind : {"none", "use", "save", "sync", "restart"}, at : Places, by : {"user"} \cup Turns,
               target : MaybeAccount, live : MaybeAccount, seen : Nat, gen : Nat, prof : MaybeAccount,
               shut : BOOLEAN, force : BOOLEAN]
Gates == [state : {"running", "draining", "failed"}, cause : BOOLEAN]
TurnStates == [stage : Stages, acct : MaybeAccount, active : MaybeAccount, gen : Nat, vetted : Nat]
Hosts == [up : BOOLEAN, gen : Nat \ {0}, acct : Accounts]
Records == [gen : Nat, running : BOOLEAN, profile : MaybeAccount]
Indexes == [saved : SUBSET Accounts, active : Accounts, status : Statuses]
Restarts == [asked : {"no", "idle", "force"}, prepared : BOOLEAN, unsafe : BOOLEAN, snap : Files]

\* The metadata are written whenever a host is started or stopped.
ProcessTypes == host \in Hosts /\ meta \in Records /\ meta.gen = host.gen /\ meta.running = host.up
HostTypes ==
  /\ gate \in Gates /\ adm \in {"free", "op"} \cup Turns /\ turn \in [Turns -> TurnStates]
  /\ ProcessTypes
  /\ auth \in Accounts /\ idx \in Indexes
  /\ op \in Operations
  /\ service \in {"up", "booting", "down"} /\ entry \in {"open", "closed"}
  /\ file \in Files /\ rst \in Restarts
  /\ reopened \in BOOLEAN

--------------------
(* Who holds the gate.                                                     *)

\* Once the host was touched an operation that fails leaves the gate shut.
Touched == {"stop", "write", "start", "verify", "record", "undo", "undo-start", "undo-verify"}

Granted == {"admitted", "ready", "running"}

\* An operation runs behind the draining gate, in the hands of the user's command or of the turn that waits for it, and
\* without force no turn was let in before.
GateHeld ==
  /\ service # "up" =>
       op = Idle /\ adm = "free" /\ entry = "closed" /\ rst = NoRestart /\ \A t \in Turns : turn[t].stage = "off"
  /\ op.kind = "none" => op = Idle
  /\ op.kind # "none" =>
       /\ gate.state = "draining"
       /\ op.by = "user" => adm = "op"
       /\ op.by # "user" => adm = op.by /\ turn[op.by].stage = "syncing" /\ op.kind = "sync"
       /\ ~op.force => \A t \in Turns : turn[t].stage \notin Granted
       /\ op.force => op.kind = "restart"
       /\ op.shut <=> op.at \in Touched

\* How far each operation is.
OpProgress ==
  /\ op.kind = "use" => op.at \in {"begin", "live", "meta", "tx", "same", "lock", "journal"} \cup Touched
  /\ op.kind = "save" => op.at \in {"begin", "live", "meta", "tx", "same"}
  /\ op.kind = "sync" => op.at \in {"begin", "meta", "compare", "same", "lock", "journal"} \cup (Touched \ {"write"})
  /\ op.kind = "restart" => op.at \in {"plan", "idle", "persist", "halt"}

HoldInv == HostTypes /\ GateHeld /\ OpProgress

--------------------
(* Whose account it is.                                                    *)

\* What an operation has read: who the host is, which host it is, and what the index and auth.json say.
OpKnows ==
  /\ op.kind = "use" => op.target \in Accounts
  /\ op.kind \in {"use", "save"} /\ op.at \notin {"begin", "live"} => op.live \in Accounts
  /\ op.kind = "save" /\ op.at \notin {"begin", "live"} => op.target = op.live
  /\ op.kind = "use" /\ op.at = "tx" => op.prof = idx.active
  /\ op.kind = "use" /\ op.at \notin {"begin", "live", "meta", "tx"} => op.prof = op.live
  /\ op.kind = "use" /\ op.at = "same" => op.target = op.live
  /\ op.kind = "sync" /\ op.at \notin {"begin", "meta"} => op.target \in Accounts
  /\ op.kind = "sync" /\ op.at \in {"undo-start", "undo-verify"} => op.prof \in idx.saved

\* The host it looked at: the same generation is the same account.
OpSaw ==
  /\ op.seen <= host.gen /\ op.gen <= host.gen
  /\ op.kind # "sync" /\ op.seen = host.gen => host.acct = op.live
  /\ op.kind = "sync" /\ op.at = "same" /\ op.gen = host.gen => host.acct = op.target
  /\ op.at = "record" /\ host.up => host.acct = op.target

\* The metadata of a host that is up name its account, and so does the index while a turn that was checked on it is about to
\* be written.
RunsAs(a) == host.acct = a \/ host.gen \in misread
MetaTrue == host.up /\ meta.profile # NoAccount => RunsAs(meta.profile)
ReadyTrue ==
  \A t \in Turns : turn[t].stage = "ready" =>
    turn[t].vetted <= host.gen /\ (turn[t].vetted = host.gen /\ host.up => RunsAs(idx.active))

AccountInv == OpKnows /\ OpSaw /\ MetaTrue /\ ReadyTrue /\ TurnsRunAsActive

--------------------
(* What a broken-off operation leaves behind.                              *)

\* An unsafe record outlives its operation only behind a failed gate.
UnsafeHeld ==
  idx.status \in Unsafe =>
    /\ service = "booting" => gate.state = "failed"
    /\ service = "up" /\ op.kind # "none" => op.shut \/ op.force \/ reopened
ShutInv == UnsafeHeld /\ UnsafeStaysShut

\* A host that is recorded as stopped and still up is the one in the file, and the service keeps its entry closed: it is
\* about to stop it, or knows that it has to be replaced.
Halting == op.kind = "restart" /\ op.at = "halt"
Doomed == host.up /\ host.gen \in condemned
DoomedKnown ==
  Doomed =>
    /\ file.gen = host.gen /\ file.stopped
    /\ service = "up" => entry = "closed" /\ ((Halting /\ op.gen = host.gen) \/ (rst.prepared /\ rst.snap.gen = host.gen))

\* A restart is asked, under way or prepared.
RestartShape ==
  /\ condemned \subseteq 1..host.gen
  /\ file.gen <= host.gen
  /\ file.kind = "none" => ~file.stopped
  /\ rst.prepared => rst.asked = "no"
  /\ op.kind = "restart" => rst.asked = "no" /\ (rst.prepared => op.at = "halt" /\ op.force /\ rst.snap.gen = op.gen)
  /\ rst.asked # "no" \/ op.kind = "restart" \/ rst.prepared => entry = "closed"
GoneInv == DoomedKnown /\ RestartShape /\ OldHostGone

HostInv == HoldInv /\ AccountInv /\ ShutInv /\ GoneInv

--------------------
(* Types, and who holds the gate.                                          *)

LEMMA RestIs ==
  /\ Idle \in Operations /\ Waiting \in TurnStates /\ NoFile \in Files /\ NoRestart \in Restarts
  /\ Idle.kind = "none" /\ Idle.at = "rest" /\ Idle.by = "user" /\ Idle.seen = 0 /\ Idle.gen = 0 /\ ~Idle.shut /\ ~Idle.force
  /\ Waiting.stage = "off"
  /\ NoFile.kind = "none" /\ NoFile.gen = 0 /\ ~NoFile.stopped
  /\ NoRestart.asked = "no" /\ ~NoRestart.prepared /\ ~NoRestart.unsafe /\ NoRestart.snap = NoFile
<1>1. NoFile \in Files BY DEF NoFile, Files
<1>2. Idle \in Operations BY DEF Idle, Operations, MaybeAccount, Places
<1>3. Waiting \in TurnStates BY DEF Waiting, TurnStates, MaybeAccount, NoAccount, Stages
<1>4. NoRestart \in Restarts BY <1>1 DEF NoRestart, Restarts
<1> QED BY <1>1, <1>2, <1>3, <1>4 DEF Idle, Waiting, NoFile, NoRestart

\* A host is started, stopped, or replaced.
LEMMA Launches ==
  ASSUME HostTypes, Launch
  PROVE  /\ ProcessTypes'
         /\ ~host.up /\ host'.up /\ host'.gen = host.gen + 1 /\ host'.acct = auth /\ meta'.profile = NoAccount
<1>1. host' = [up |-> TRUE, gen |-> host.gen + 1, acct |-> auth] /\ meta' = [gen |-> host.gen + 1, running |-> TRUE, profile |-> NoAccount]
  BY DEF Launch, Fresh
<1>2. host.gen \in Nat /\ host.gen + 1 \in Nat \ {0} /\ auth \in Accounts /\ NoAccount \in MaybeAccount
  BY DEF HostTypes, ProcessTypes, Hosts, MaybeAccount
<1>3. host' \in Hosts BY <1>1, <1>2 DEF Hosts
<1>4. meta' \in Records BY <1>1, <1>2 DEF Records
<1> QED BY <1>1, <1>3, <1>4 DEF Launch, ProcessTypes

LEMMA Starts ==
  ASSUME HostTypes, EnsureStarted
  PROVE  /\ ProcessTypes' /\ host'.up
         /\ \/ host.up /\ UNCHANGED <<host, meta>>
            \/ ~host.up /\ host'.gen = host.gen + 1 /\ host'.acct = auth /\ meta'.profile = NoAccount
<1>1. CASE host.up BY <1>1 DEF EnsureStarted, HostTypes, ProcessTypes
<1>2. CASE ~host.up BY <1>2, Launches DEF EnsureStarted
<1> QED BY <1>1, <1>2

Cut(t) == IF turn[t].stage = "running" THEN Waiting ELSE turn[t]
LEMMA Interrupts ==
  ASSUME HostTypes, turn' = Interrupted
  PROVE  turn' \in [Turns -> TurnStates] /\ \A t \in Turns : turn'[t] = Cut(t)
  BY RestIs DEF HostTypes, Interrupted, Cut

LEMMA Stops ==
  ASSUME HostTypes, Stopped
  PROVE  /\ ProcessTypes' /\ ~host'.up /\ host'.gen = host.gen /\ host'.acct = host.acct /\ meta'.profile = meta.profile
         /\ turn' \in [Turns -> TurnStates] /\ \A t \in Turns : turn'[t] = Cut(t)
<1>1. host' = [host EXCEPT !.up = FALSE] /\ meta' = [meta EXCEPT !.running = FALSE]
  BY DEF HostTypes, ProcessTypes, Stopped
<1>2. host' \in Hosts /\ ~host'.up /\ host'.gen = host.gen /\ host'.acct = host.acct
  BY <1>1 DEF HostTypes, ProcessTypes, Hosts
<1>3. meta' \in Records /\ meta'.gen = meta.gen /\ ~meta'.running /\ meta'.profile = meta.profile
  BY <1>1 DEF HostTypes, ProcessTypes, Records
<1>4. meta'.running = host'.up BY <1>2, <1>3 DEF Hosts, Records
<1> QED BY <1>2, <1>3, <1>4, Interrupts DEF Stopped, HostTypes, ProcessTypes

LEMMA Replaces ==
  ASSUME HostTypes, NEW gen, Replaced(gen)
  PROVE  /\ ProcessTypes' /\ turn' \in [Turns -> TurnStates]
         /\ \/ host.up /\ (gen = 0 \/ host.gen # gen) /\ UNCHANGED <<host, meta, turn>>
            \/ /\ host'.gen = host.gen + 1 /\ host'.acct = auth /\ meta'.profile = NoAccount /\ host'.up
               /\ \A t \in Turns : turn'[t] = Cut(t)
<1>1. CASE host.up /\ (gen = 0 \/ meta.gen # gen)
  BY <1>1 DEF Replaced, HostTypes, ProcessTypes
<1>2. CASE ~(host.up /\ (gen = 0 \/ meta.gen # gen))
  <2>1. host' = [up |-> TRUE, gen |-> host.gen + 1, acct |-> auth] /\ meta' = [gen |-> host.gen + 1, running |-> TRUE, profile |-> NoAccount]
    BY <1>2 DEF Replaced, Fresh
  <2>2. host.gen \in Nat /\ host.gen + 1 \in Nat \ {0} /\ auth \in Accounts /\ NoAccount \in MaybeAccount
    BY DEF HostTypes, ProcessTypes, Hosts, MaybeAccount
  <2>3. host' \in Hosts BY <2>1, <2>2 DEF Hosts
  <2>4. meta' \in Records BY <2>1, <2>2 DEF Records
  <2> QED BY <1>2, <2>1, <2>3, <2>4, Interrupts DEF Replaced, ProcessTypes
<1> QED BY <1>1, <1>2

\* The operation goes on, or returns.
LEMMA Goes ==
  ASSUME op \in Operations, NEW at \in Places, op' = [op EXCEPT !.at = at]
  PROVE  /\ op' \in Operations /\ op'.at = at
         /\ op'.kind = op.kind /\ op'.by = op.by /\ op'.target = op.target /\ op'.live = op.live /\ op'.seen = op.seen
         /\ op'.gen = op.gen /\ op'.prof = op.prof /\ op'.shut = op.shut /\ op'.force = op.force
  BY DEF Operations

LEMMA Finishes ==
  ASSUME gate \in Gates, NEW ok \in BOOLEAN, gate' = Finish(ok)
  PROVE  gate' \in Gates /\ gate'.cause = gate.cause /\ gate'.state = IF ~ok \/ gate.cause THEN "failed" ELSE "running"
  BY DEF Finish, Gates

LEMMA Drains ==
  ASSUME gate \in Gates, gate' = Draining
  PROVE  gate' \in Gates /\ gate'.cause = gate.cause /\ gate'.state = "draining"
  BY DEF Draining, Gates

LEMMA Moves ==
  ASSUME HostTypes, NEW t \in Turns, NEW st \in Stages, turn' = [turn EXCEPT ![t].stage = st]
  PROVE  turn' \in [Turns -> TurnStates] /\ turn'[t].stage = st /\ \A u \in Turns : u # t => turn'[u] = turn[u]
  BY DEF HostTypes, TurnStates

LEMMA Quits ==
  ASSUME HostTypes, NEW t \in Turns, Quit(t)
  PROVE  turn' \in [Turns -> TurnStates] /\ turn'[t] = Waiting /\ \A u \in Turns : u # t => turn'[u] = turn[u]
  BY RestIs DEF HostTypes, Quit

\* What the types say of the records, field by field.
LEMMA Typed ==
  ASSUME HostTypes
  PROVE  /\ host.up \in BOOLEAN /\ host.gen \in Nat /\ host.gen > 0 /\ host.acct \in Accounts
         /\ meta.profile \in MaybeAccount /\ meta.gen = host.gen /\ (Managed <=> host.up)
         /\ op.kind \in {"none", "use", "save", "sync", "restart"} /\ op.at \in Places /\ op.by \in {"user"} \cup Turns
         /\ op.target \in MaybeAccount /\ op.live \in MaybeAccount /\ op.prof \in MaybeAccount
         /\ op.seen \in Nat /\ op.gen \in Nat /\ op.shut \in BOOLEAN /\ op.force \in BOOLEAN
         /\ idx.saved \subseteq Accounts /\ idx.active \in Accounts /\ idx.status \in Statuses
         /\ gate.state \in {"running", "draining", "failed"} /\ gate.cause \in BOOLEAN
         /\ file.gen \in Nat /\ file.stopped \in BOOLEAN /\ file.kind \in {"none", "preparing", "snap", "pending"}
         /\ rst.asked \in {"no", "idle", "force"} /\ rst.prepared \in BOOLEAN /\ rst.unsafe \in BOOLEAN
<1>1. host.up \in BOOLEAN /\ host.gen \in Nat /\ host.gen > 0 /\ host.acct \in Accounts
  BY DEF HostTypes, ProcessTypes, Hosts
<1>2. meta.profile \in MaybeAccount /\ meta.gen = host.gen /\ (Managed <=> host.up)
  BY <1>1 DEF HostTypes, ProcessTypes, Records, Managed
<1>3. /\ op.kind \in {"none", "use", "save", "sync", "restart"} /\ op.at \in Places /\ op.by \in {"user"} \cup Turns
      /\ op.target \in MaybeAccount /\ op.live \in MaybeAccount /\ op.prof \in MaybeAccount
      /\ op.seen \in Nat /\ op.gen \in Nat /\ op.shut \in BOOLEAN /\ op.force \in BOOLEAN
  BY DEF HostTypes, Operations
<1>4. idx.saved \subseteq Accounts /\ idx.active \in Accounts /\ idx.status \in Statuses
  BY DEF HostTypes, Indexes
<1>5. gate.state \in {"running", "draining", "failed"} /\ gate.cause \in BOOLEAN
  BY DEF HostTypes, Gates
<1>6. file.gen \in Nat /\ file.stopped \in BOOLEAN /\ file.kind \in {"none", "preparing", "snap", "pending"}
  BY DEF HostTypes, Files
<1>7. rst.asked \in {"no", "idle", "force"} /\ rst.prepared \in BOOLEAN /\ rst.unsafe \in BOOLEAN
  BY DEF HostTypes, Restarts
<1> QED BY <1>1, <1>2, <1>3, <1>4, <1>5, <1>6, <1>7

--------------------
(* Who holds the gate, across a step.                                      *)

\* With the mutex free no operation is under way; a turn that holds it waits for its own reconciliation.
LEMMA FreeIsIdle ==
  ASSUME HoldInv
  PROVE  /\ adm = "free" => op = Idle
         /\ op.kind = "none" => op = Idle
         /\ \A t \in Turns : adm = t /\ op.kind # "none" => turn[t].stage = "syncing" /\ op.by = t
         /\ \A t \in Turns : turn[t].stage \in Granted /\ op.kind # "none" => op.force /\ op.by = "user"
         /\ (\E t \in Turns : turn[t].stage # "off") => service = "up"
  BY HostAssumption, Typed DEF HoldInv, GateHeld

Draws(t) == turn'[t].stage = turn[t].stage \/ (turn[t].stage \in Granted /\ turn'[t].stage = "off")

\* The gate and its holder stay, and turns only end.
LEMMA HoldKeeps ==
  ASSUME HoldInv, UNCHANGED <<op, gate, adm, service>>,
         service = "up" \/ UNCHANGED <<entry, rst>>,
         \A t \in Turns : Draws(t)
  PROVE  GateHeld' /\ OpProgress'
<1>1. OpProgress' BY DEF HoldInv, OpProgress
<1>2. \A t \in Turns : turn[t].stage \notin Granted => turn'[t].stage = turn[t].stage
  BY DEF Draws
<1>3. "off" \notin Granted BY DEF Granted
<1>4. \A t \in Turns : turn[t].stage \notin Granted => turn'[t].stage \notin Granted
  BY <1>2
<1>5. service # "up" => /\ op' = Idle /\ adm' = "free" /\ entry' = "closed" /\ rst' = NoRestart
                        /\ \A t \in Turns : turn'[t].stage = "off"
  BY <1>2, <1>3 DEF HoldInv, GateHeld
<1>6. op.kind # "none" /\ op.by # "user" => op.by \in Turns /\ turn'[op.by].stage = "syncing"
  BY <1>2, Typed DEF Granted, HoldInv, GateHeld
<1> QED BY <1>1, <1>4, <1>5, <1>6 DEF HoldInv, GateHeld

\* No operation is under way, or a forced one that keeps the gate: turns may do as they like.
LEMMA HoldFree ==
  ASSUME HoldInv, service' = "up",
         \/ op' = Idle
         \/ op.kind = "none" /\ UNCHANGED op
         \/ op.kind # "none" /\ op.force /\ op.by = "user" /\ UNCHANGED <<op, gate, adm>>
  PROVE  GateHeld' /\ OpProgress'
<1>1. CASE op' = Idle BY <1>1, RestIs DEF GateHeld, OpProgress
<1>2. CASE op.kind = "none" /\ UNCHANGED op BY <1>2 DEF HoldInv, GateHeld, OpProgress
<1>3. CASE op.kind # "none" /\ op.force /\ op.by = "user" /\ UNCHANGED <<op, gate, adm>>
  BY <1>3 DEF HoldInv, GateHeld, OpProgress
<1> QED BY <1>1, <1>2, <1>3

\* An operation that holds the gate goes on.
LEMMA HoldGoes ==
  ASSUME HoldInv, op.kind # "none", UNCHANGED <<gate, adm, service>>,
         op'.kind = op.kind, op'.by = op.by, op'.force = op.force, op'.shut <=> op'.at \in Touched,
         OpProgress', \A t \in Turns : Draws(t)
  PROVE  GateHeld'
<1>1. service = "up" BY RestIs DEF HoldInv, GateHeld
<1>2. \A t \in Turns : turn[t].stage \notin Granted => turn'[t].stage = turn[t].stage
  BY DEF Draws
<1>3. \A t \in Turns : turn[t].stage \notin Granted => turn'[t].stage \notin Granted
  BY <1>2
<1>4. op.by # "user" => op.by \in Turns /\ turn'[op.by].stage = "syncing"
  BY <1>2, Typed DEF Granted, HoldInv, GateHeld
<1> QED BY <1>1, <1>3, <1>4 DEF HoldInv, GateHeld

--------------------
(* The other parts of the invariant, across a step that leaves what they   *)
(* speak of alone, or only starts or stops the host.                       *)

Stays == UNCHANGED <<host, meta>>
Dies == ~host'.up /\ host'.gen = host.gen /\ host'.acct = host.acct /\ meta'.profile = meta.profile
Comes == host'.up /\ host'.gen = host.gen + 1 /\ meta'.profile = NoAccount
Calls(t) == turn'[t] = turn[t] \/ turn'[t].stage \notin {"ready", "running"}

\* A turn that was checked on a host that is gone is no longer bound to its account.
LEMMA RunsKeep ==
  ASSUME HostTypes, HostTypes', MetaTrue, ReadyTrue, TurnsRunAsActive,
         UNCHANGED misread, idx'.active = idx.active,
         Stays \/ Dies \/ Comes,
         \A t \in Turns : Calls(t)
  PROVE  MetaTrue' /\ ReadyTrue' /\ TurnsRunAsActive'
<1>1. MetaTrue' BY DEF MetaTrue, RunsAs, Stays, Dies, Comes
<1>2. ReadyTrue'
  <2> SUFFICES ASSUME NEW t \in Turns, turn'[t].stage = "ready"
               PROVE  turn'[t].vetted <= host'.gen /\ (turn'[t].vetted = host'.gen /\ host'.up => RunsAs(idx.active)')
    BY DEF ReadyTrue
  <2>1. turn'[t] = turn[t] /\ turn[t].vetted \in Nat /\ host.gen \in Nat
    BY DEF Calls, HostTypes, ProcessTypes, TurnStates, Hosts
  <2>2. turn[t].vetted <= host.gen /\ (turn[t].vetted = host.gen /\ host.up => RunsAs(idx.active))
    BY <2>1 DEF ReadyTrue
  <2> QED BY <2>1, <2>2 DEF RunsAs, Stays, Dies, Comes
<1>3. TurnsRunAsActive' BY DEF TurnsRunAsActive, Running, Calls
<1> QED BY <1>1, <1>2, <1>3

\* What an operation knows outlives a host that dies or comes back, but for the moment before it is recorded.
LEMMA OpKeeps ==
  ASSUME HoldInv, OpKnows, OpSaw, UNCHANGED op, idx'.active = idx.active, idx'.saved = idx.saved,
         Stays \/ Dies \/ (Comes /\ op.at # "record")
  PROVE  OpKnows' /\ OpSaw'
<1>1. OpKnows' BY DEF OpKnows
<1>2. host.gen \in Nat /\ op.seen \in Nat /\ op.gen \in Nat BY Typed DEF HoldInv
<1>3. OpSaw' BY <1>2 DEF OpSaw, Stays, Dies, Comes
<1> QED BY <1>1, <1>3

LEMMA IdleKnows ==
  ASSUME HostTypes', op' = Idle
  PROVE  OpKnows' /\ OpSaw'
<1>1. op'.kind = "none" /\ op'.at = "rest" /\ op'.seen = 0 /\ op'.gen = 0 BY RestIs
<1>2. host'.gen \in Nat /\ host'.gen > 0 BY DEF HostTypes, ProcessTypes, Hosts
<1> QED BY <1>1, <1>2 DEF OpKnows, OpSaw

\* While an operation goes on, and while one that may begin is none, what is on record stays covered.
LEMMA ShutKeeps ==
  ASSUME HoldInv, ShutInv, UNCHANGED <<service, reopened>>, idx'.status \in Unsafe => idx'.status = idx.status,
         \/ UNCHANGED <<gate, op>>
         \/ op.kind # "none" /\ op'.kind # "none" /\ UNCHANGED gate /\ (op.shut => op'.shut) /\ (op.force => op'.force)
         \/ op.kind = "none" /\ op'.kind # "none" /\ service = "up" /\ gate.state = "running"
  PROVE  ShutInv'
<1>1. UnsafeHeld' BY DEF ShutInv, UnsafeHeld, UnsafeStaysShut
<1>2. UnsafeStaysShut' BY DEF ShutInv, UnsafeHeld, UnsafeStaysShut
<1> QED BY <1>1, <1>2 DEF ShutInv

LEMMA ShutReturns ==
  ASSUME op' = Idle, service' = "up", idx'.status \in Unsafe => gate'.state = "failed" \/ reopened'
  PROVE  ShutInv'
  BY RestIs DEF ShutInv, UnsafeHeld, UnsafeStaysShut

\* What a restart gave up stays given up while others work.
LEMMA GoneKeeps ==
  ASSUME HoldInv, GoneInv, UNCHANGED <<condemned, file, rst, service, entry>>,
         Stays \/ Dies \/ Comes,
         \/ op.kind # "restart" /\ op'.kind # "restart"
         \/ op.kind = "restart" /\ op'.kind = "restart" /\ op'.gen = op.gen /\ op'.force = op.force /\ (op'.at = "halt" <=> op.at = "halt")
  PROVE  GoneInv'
<1>1. host.gen \in Nat /\ host.gen > 0 /\ file.gen \in Nat BY Typed DEF HoldInv
<1>2. Doomed' => Doomed /\ host'.gen = host.gen
  BY <1>1 DEF GoneInv, RestartShape, Doomed, Stays, Dies, Comes
<1>3. DoomedKnown' BY <1>2 DEF GoneInv, DoomedKnown, Halting
<1>4. host'.gen \in Nat /\ host'.gen >= host.gen BY <1>1 DEF Stays, Dies, Comes
<1>5. condemned' \subseteq 1..host'.gen /\ file'.gen <= host'.gen
  BY <1>1, <1>4 DEF GoneInv, RestartShape
<1>6. RestartShape' BY <1>5 DEF GoneInv, RestartShape
<1>7. OldHostGone' BY <1>3 DEF DoomedKnown, Doomed, OldHostGone
<1> QED BY <1>3, <1>6, <1>7 DEF GoneInv

--------------------
(* The world around, and the turns.                                        *)

LEMMA StepHostDies ==
  ASSUME HostInv, HostDies
  PROVE  HostInv'
<1> USE DEF HostInv
<1>1. HostTypes /\ Stopped BY DEF HoldInv, HostDies
<1>2. Dies /\ ProcessTypes' /\ turn' \in [Turns -> TurnStates] /\ \A t \in Turns : turn'[t] = Cut(t)
  BY <1>1, Stops DEF Dies
<1>3. \A t \in Turns : Draws(t) /\ Calls(t)
  BY <1>2, RestIs DEF Draws, Calls, Cut, Granted
<1>4. HostTypes' BY <1>1, <1>2 DEF HostTypes, HostDies
<1>5. GateHeld' /\ OpProgress' BY <1>3, HoldKeeps DEF HostDies
<1>6. AccountInv' BY <1>1, <1>2, <1>3, <1>4, RunsKeep, OpKeeps DEF AccountInv, HostDies
<1>7. ShutInv' BY ShutKeeps DEF HostDies
<1>8. GoneInv' BY <1>2, GoneKeeps DEF HostDies
<1> QED BY <1>4, <1>5, <1>6, <1>7, <1>8 DEF HoldInv

LEMMA StepOtherStarts ==
  ASSUME HostInv, OtherStarts
  PROVE  HostInv'
<1> USE DEF HostInv
<1>1. HostTypes /\ Launch /\ op.at # "record" BY DEF HoldInv, OtherStarts, Locked
<1>2. Comes /\ ProcessTypes' BY <1>1, Launches DEF Comes
<1>3. \A t \in Turns : Draws(t) /\ Calls(t) BY DEF Draws, Calls, OtherStarts
<1>4. HostTypes' BY <1>1, <1>2 DEF HostTypes, OtherStarts
<1>5. GateHeld' /\ OpProgress' BY <1>3, HoldKeeps DEF OtherStarts
<1>8. AccountInv'
  BY <1>1, <1>2, <1>3, <1>4, RunsKeep, OpKeeps DEF AccountInv, OtherStarts
<1>9. ShutInv' BY ShutKeeps DEF OtherStarts
<1>10. GoneInv' BY <1>2, GoneKeeps DEF OtherStarts
<1> QED BY <1>4, <1>5, <1>8, <1>9, <1>10 DEF HoldInv

LEMMA StepAppLogin ==
  ASSUME HostInv, NEW a \in Accounts, AppLogin(a)
  PROVE  HostInv'
<1> USE DEF HostInv
<1>1. HostTypes /\ Stays BY DEF HoldInv, AppLogin, Stays
<1>2. \A t \in Turns : Draws(t) /\ Calls(t) BY DEF Draws, Calls, AppLogin
<1>3. HostTypes' BY <1>1 DEF HostTypes, ProcessTypes, AppLogin
<1>4. GateHeld' /\ OpProgress' BY <1>2, HoldKeeps DEF AppLogin
<1>5. AccountInv' BY <1>1, <1>2, <1>3, RunsKeep, OpKeeps DEF AccountInv, AppLogin
<1>6. ShutInv' BY ShutKeeps DEF AppLogin
<1>7. GoneInv' BY <1>1, GoneKeeps DEF AppLogin
<1> QED BY <1>3, <1>4, <1>5, <1>6, <1>7 DEF HoldInv

\* A turn that starts the host, or finds it.
Turning == UNCHANGED <<idx, service, entry, file, rst, condemned, misread, reopened>>
LEMMA TurnKeeps ==
  ASSUME HostInv, HostTypes', GateHeld', OpProgress', Turning,
         \/ UNCHANGED <<op, gate>>
         \/ op.kind = "none" /\ op'.kind = "sync" /\ op'.at = "begin" /\ op'.seen = 0 /\ op'.gen = 0 /\ service = "up" /\ gate.state = "running",
         Stays \/ (Comes /\ op.at # "record"),
         \A t \in Turns : Calls(t)
  PROVE  HostInv'
<1> USE DEF HostInv, Turning
<1>1. MetaTrue' /\ ReadyTrue' /\ TurnsRunAsActive' BY RunsKeep DEF HoldInv, AccountInv
<1>2. OpKnows' /\ OpSaw'
  BY OpKeeps DEF AccountInv, HostTypes, ProcessTypes, Hosts, OpKnows, OpSaw
<1>3. ShutInv' BY ShutKeeps
<1>4. GoneInv' BY Typed, GoneKeeps DEF HoldInv
<1> QED BY <1>1, <1>2, <1>3, <1>4 DEF HoldInv, AccountInv

LEMMA StepTurnResolve ==
  ASSUME HostInv, NEW t \in Turns, TurnResolve(t)
  PROVE  HostInv'
<1> USE DEF HostInv
<1>1. HostTypes /\ EnsureStarted /\ turn' = [turn EXCEPT ![t].stage = "resolving"] /\ "resolving" \in Stages
  BY DEF HoldInv, TurnResolve, Stages
<1>2. turn' \in [Turns -> TurnStates] /\ turn'[t].stage = "resolving" /\ \A u \in Turns : u # t => turn'[u] = turn[u]
  BY <1>1, Moves
<1>3. ProcessTypes' /\ (Stays \/ (Comes /\ ~host.up)) BY <1>1, Starts DEF Stays, Comes
<1>4. HostTypes' BY <1>1, <1>2, <1>3 DEF HostTypes, TurnResolve
<1>5. op = Idle /\ op' = Idle /\ op.at = "rest" /\ service' = "up"
  BY FreeIsIdle, RestIs DEF TurnResolve
<1>6. GateHeld' /\ OpProgress' BY <1>5, HoldFree
<1>7. \A u \in Turns : Calls(u) BY <1>2 DEF Calls
<1> QED BY <1>3, <1>4, <1>5, <1>6, <1>7, TurnKeeps DEF Turning, TurnResolve

LEMMA StepTurnAccountChecked ==
  ASSUME HostInv, NEW t \in Turns, TurnAccountChecked(t)
  PROVE  HostInv'
<1> USE DEF HostInv
<1>1. HostTypes /\ Stays /\ op = Idle /\ turn[t].stage = "resolving" /\ service = "up" /\ service' = "up"
  BY FreeIsIdle DEF TurnAccountChecked, HoldInv, Stays
<1>2. PICK st \in {"resolved", "syncing", "off"} :
        /\ turn' \in [Turns -> TurnStates] /\ turn'[t].stage = st /\ (\A u \in Turns : u # t => turn'[u] = turn[u])
        /\ st # "syncing" => UNCHANGED <<op, gate>> /\ adm' \in {adm, "free"}
        /\ st = "syncing" => MayBegin /\ UNCHANGED adm /\ gate' = Draining
                             /\ op' = [Idle EXCEPT !.kind = "sync", !.at = "begin", !.by = t]
  BY <1>1, Moves, Quits, RestIs DEF Stages, TurnAccountChecked
<1>3. CASE st # "syncing"
  BY <1>1, <1>2, <1>3, HoldFree, TurnKeeps DEF HostTypes, ProcessTypes, Stays, TurnAccountChecked, Calls, Turning
<1>4. CASE st = "syncing"
  <2>1. /\ op' \in Operations /\ op'.kind = "sync" /\ op'.at = "begin" /\ op'.by = t /\ op'.seen = 0 /\ op'.gen = 0
        /\ ~op'.shut /\ ~op'.force
    BY <1>2, <1>4, RestIs DEF Operations, Places
  <2>2. gate' \in Gates /\ gate'.state = "draining"
    BY <1>1, <1>2, <1>4, Drains DEF HostTypes
  <2>3. HostTypes'
    BY <1>1, <1>2, <1>4, <2>1, <2>2 DEF HostTypes, ProcessTypes, Stays, TurnAccountChecked
  <2>4. gate.state = "running" /\ \A u \in Turns : turn[u].stage \notin Granted
    BY <1>2, <1>4 DEF MayBegin, Permits, Granted
  <2>5. \A u \in Turns : turn'[u].stage \notin Granted BY <1>2, <1>4, <2>4 DEF Granted
  <2>6. adm' = t /\ t # "user" BY <1>2, <1>4, HostAssumption DEF TurnAccountChecked
  <2>7. OpProgress' BY <2>1 DEF OpProgress
  <2>8. GateHeld' BY <1>1, <1>2, <1>4, <2>1, <2>2, <2>5, <2>6 DEF GateHeld, Touched
  <2>9. \A u \in Turns : Calls(u) BY <1>2 DEF Calls
  <2> QED BY <1>1, <2>1, <2>3, <2>4, <2>7, <2>8, <2>9, RestIs, TurnKeeps DEF Turning, TurnAccountChecked
<1> QED BY <1>2, <1>3, <1>4

LEMMA StepTurnSynced ==
  ASSUME HostInv, NEW t \in Turns, TurnSynced(t)
  PROVE  HostInv'
<1> USE DEF HostInv
<1>1. HostTypes /\ Stays /\ op = Idle /\ op' = Idle /\ service' = "up"
  BY FreeIsIdle DEF TurnSynced, HoldInv, Stays
<1>2. /\ turn' \in [Turns -> TurnStates] /\ turn'[t].stage \in {"resolved", "off"}
      /\ \A u \in Turns : u # t => turn'[u] = turn[u]
  BY <1>1, Moves, Quits, RestIs DEF Stages, TurnSynced
<1>3. HostTypes' BY <1>1, <1>2 DEF HostTypes, ProcessTypes, Stays, TurnSynced
<1>4. GateHeld' /\ OpProgress' BY <1>1, HoldFree
<1>5. \A u \in Turns : Calls(u) BY <1>2 DEF Calls
<1> QED BY <1>1, <1>3, <1>4, <1>5, TurnKeeps DEF Turning, TurnSynced

LEMMA StepTurnAcquire ==
  ASSUME HostInv, NEW t \in Turns, TurnAcquire(t)
  PROVE  HostInv'
<1> USE DEF HostInv
<1>1. HostTypes /\ Stays /\ op = Idle /\ op' = Idle /\ service' = "up"
  BY FreeIsIdle DEF TurnAcquire, HoldInv, Stays
<1>2. /\ turn' \in [Turns -> TurnStates] /\ turn'[t].stage \in {"admitted", "off"}
      /\ \A u \in Turns : u # t => turn'[u] = turn[u]
  BY <1>1, Moves, Quits, RestIs DEF Stages, TurnAcquire
<1>3. HostTypes' BY <1>1, <1>2 DEF HostTypes, ProcessTypes, Stays, TurnAcquire
<1>4. GateHeld' /\ OpProgress' BY <1>1, HoldFree
<1>5. \A u \in Turns : Calls(u) BY <1>2 DEF Calls
<1> QED BY <1>1, <1>3, <1>4, <1>5, TurnKeeps DEF Turning, TurnAcquire

\* A turn with a permit finds no operation under way but a forced restart.
LEMMA PermitHolds ==
  ASSUME HoldInv, NEW t \in Turns, turn[t].stage \in Granted, UNCHANGED <<op, gate, adm, service>>
  PROVE  GateHeld' /\ OpProgress' /\ service = "up"
<1>1. turn[t].stage # "off" BY DEF Granted
<1>2. service = "up" /\ (op.kind # "none" => op.force /\ op.by = "user")
  BY <1>1, FreeIsIdle
<1> QED BY <1>2, HoldFree

LEMMA StepTurnValidate ==
  ASSUME HostInv, NEW t \in Turns, TurnValidate(t)
  PROVE  HostInv'
<1> USE DEF HostInv
<1>1. HostTypes /\ turn[t].stage = "admitted" /\ "admitted" \in Granted
  BY DEF HoldInv, TurnValidate, Granted
<1>2. GateHeld' /\ OpProgress' /\ service = "up" BY <1>1, PermitHolds DEF TurnValidate
<1>3. op.at # "record" BY <1>1, FreeIsIdle, RestIs DEF HoldInv, GateHeld, OpProgress
<1>4. CASE host.up /\ Synced
  <2>1. turn' = [turn EXCEPT ![t] = [@ EXCEPT !.stage = "ready", !.vetted = host.gen]] /\ Stays
    BY <1>4 DEF TurnValidate, Stays
  <2>2. turn[t] \in TurnStates /\ turn \in [Turns -> TurnStates] /\ "ready" \in Stages /\ host.gen \in Nat
    BY Typed DEF HoldInv, HostTypes, Stages
  <2>3. /\ turn' \in [Turns -> TurnStates] /\ turn'[t].stage = "ready" /\ turn'[t].vetted = host.gen
        /\ \A u \in Turns : u # t => turn'[u] = turn[u]
    BY <2>1, <2>2 DEF TurnStates
  <2>4. HostTypes' BY <1>1, <2>1, <2>3 DEF HostTypes, ProcessTypes, Stays, TurnValidate
  <2>5. host.up /\ RunsAs(idx.active)
    BY <1>1, <1>4, Typed, HostAssumption DEF Synced, NoAccount, AccountInv, MetaTrue
  <2>6. ReadyTrue'
    BY <2>1, <2>2, <2>3, <2>5 DEF AccountInv, ReadyTrue, RunsAs, Stays, TurnValidate
  <2>7. MetaTrue' /\ TurnsRunAsActive'
    BY <2>1, <2>3 DEF AccountInv, MetaTrue, RunsAs, TurnsRunAsActive, Running, Stays, TurnValidate
  <2>8. OpKnows' /\ OpSaw' BY <2>1, OpKeeps DEF AccountInv, TurnValidate
  <2>9. ShutInv' BY ShutKeeps DEF TurnValidate
  <2>10. GoneInv' BY <1>1, Typed, <2>1, GoneKeeps DEF TurnValidate
  <2> QED BY <1>2, <2>4, <2>6, <2>7, <2>8, <2>9, <2>10 DEF HoldInv, AccountInv
<1>5. CASE host.up /\ ~Synced
  BY <1>5, <1>1, Quits, RestIs, <1>2, TurnKeeps DEF TurnValidate, Stays, Quit, HostTypes, ProcessTypes, Calls, Turning
<1>6. CASE ~host.up
  BY <1>6, <1>1, Launches, <1>2, <1>3, TurnKeeps DEF TurnValidate, Comes, HostTypes, Calls, Turning
<1> QED BY <1>4, <1>5, <1>6

LEMMA StepTurnWrite ==
  ASSUME HostInv, NEW t \in Turns, TurnWrite(t)
  PROVE  HostInv'
<1> USE DEF HostInv
<1>1. HostTypes /\ Stays /\ turn[t].stage = "ready" /\ "ready" \in Granted
  BY DEF HoldInv, TurnWrite, Granted, Stays
<1>2. GateHeld' /\ OpProgress' /\ service = "up" BY <1>1, PermitHolds DEF TurnWrite
<1>3. turn[t].vetted = host.gen /\ host.up => RunsAs(idx.active)
  BY <1>1 DEF AccountInv, ReadyTrue
<1> DEFINE written == [turn[t] EXCEPT !.stage = "running", !.acct = host.acct, !.active = idx.active, !.gen = host.gen]
<1>4. turn' = [turn EXCEPT ![t] = IF host.up THEN written ELSE Waiting] BY DEF TurnWrite
<1>5. /\ written \in TurnStates /\ written.stage = "running" /\ written.acct = host.acct /\ written.active = idx.active
      /\ written.gen = host.gen /\ written.vetted = turn[t].vetted
  BY <1>1, Typed DEF HostTypes, TurnStates, Stages, MaybeAccount
<1> HIDE DEF written
<1>6. /\ turn' \in [Turns -> TurnStates] /\ \A u \in Turns : u # t => turn'[u] = turn[u]
      /\ turn'[t] = IF host.up THEN written ELSE Waiting
  BY <1>1, <1>4, <1>5, RestIs DEF HostTypes
<1>7. HostTypes' BY <1>1, <1>6 DEF HostTypes, ProcessTypes, Stays, TurnWrite
<1>8. TurnsRunAsActive'
  BY <1>3, <1>5, <1>6, RestIs DEF AccountInv, TurnsRunAsActive, Running, RunsAs, TurnWrite
<1>9. MetaTrue' /\ ReadyTrue'
  BY <1>1, <1>5, <1>6, RestIs DEF AccountInv, MetaTrue, ReadyTrue, RunsAs, Stays, TurnWrite
<1>10. OpKnows' /\ OpSaw' BY <1>1, OpKeeps DEF AccountInv, TurnWrite
<1>11. ShutInv' BY ShutKeeps DEF TurnWrite
<1>12. GoneInv' BY <1>1, Typed, GoneKeeps DEF TurnWrite
<1> QED BY <1>2, <1>7, <1>8, <1>9, <1>10, <1>11, <1>12 DEF HoldInv, AccountInv

LEMMA StepTurnEnd ==
  ASSUME HostInv, NEW t \in Turns, TurnEnd(t)
  PROVE  HostInv'
<1> USE DEF HostInv
<1>1. HostTypes /\ Stays /\ turn[t].stage = "running" /\ "running" \in Granted
  BY DEF HoldInv, TurnEnd, Granted, Stays
<1>2. GateHeld' /\ OpProgress' BY <1>1, PermitHolds DEF TurnEnd
<1>3. turn' \in [Turns -> TurnStates] /\ turn'[t].stage = "off" /\ \A u \in Turns : u # t => turn'[u] = turn[u]
  BY <1>1, Quits, RestIs DEF TurnEnd
<1>4. HostTypes' BY <1>1, <1>3 DEF HostTypes, ProcessTypes, Stays, TurnEnd
<1>5. \A u \in Turns : Calls(u) BY <1>3 DEF Calls
<1> QED BY <1>1, <1>2, <1>4, <1>5, TurnKeeps DEF Turning, TurnEnd

--------------------
(* An account operation begins, looks, and is refused.                     *)

\* A step of an operation that leaves the turns' account, the files and the service alone.
Working == UNCHANGED <<service, entry, file, rst, condemned, reopened>>

LEMMA StepBegin ==
  ASSUME HostInv, NEW kind \in {"use", "save", "sync"}, NEW a \in MaybeAccount, kind = "use" => a \in Accounts, Begin(kind, a)
  PROVE  HostInv'
<1> USE DEF HostInv
<1>1. HostTypes /\ Stays /\ op = Idle /\ service = "up" /\ gate.state = "running"
  BY FreeIsIdle DEF HoldInv, Begin, Stays, MayBegin
<1>2. /\ op' \in Operations /\ op'.kind = kind /\ op'.at = "begin" /\ op'.by = "user" /\ op'.target = a
      /\ op'.seen = 0 /\ op'.gen = 0 /\ ~op'.shut /\ ~op'.force
  BY RestIs DEF Begin, Operations, Places
<1>3. gate' \in Gates /\ gate'.state = "draining" BY <1>1, Drains DEF HostTypes, Begin
<1>4. HostTypes' BY <1>1, <1>2, <1>3 DEF HostTypes, ProcessTypes, Stays, Begin
<1>5. \A u \in Turns : turn'[u].stage \notin Granted
  BY DEF Begin, MayBegin, Permits, Granted
<1>6. OpProgress' BY <1>2 DEF OpProgress
<1>7. GateHeld' BY <1>1, <1>2, <1>3, <1>5 DEF GateHeld, Touched, Begin
<1>8. MetaTrue' /\ ReadyTrue' /\ TurnsRunAsActive'
  BY <1>1, <1>4, RunsKeep DEF AccountInv, Begin, Calls
<1>9. host'.gen \in Nat /\ host'.gen > 0 BY <1>4 DEF HostTypes, ProcessTypes, Hosts
<1>10. OpKnows' /\ OpSaw' BY <1>2, <1>9 DEF OpKnows, OpSaw
<1>11. ShutInv' BY <1>1, <1>2, RestIs, ShutKeeps DEF Begin
<1>12. GoneInv' BY <1>1, <1>2, RestIs, GoneKeeps DEF Begin
<1> QED BY <1>4, <1>6, <1>7, <1>8, <1>10, <1>11, <1>12 DEF HoldInv, AccountInv

\* What all the steps of an account operation share: it goes on behind the gate, with what it knows.
LEMMA SwitchGoes ==
  ASSUME HostInv, HostTypes', op.kind \in {"use", "save", "sync"}, Working, UNCHANGED <<gate, adm>>,
         op'.kind = op.kind, op'.by = op.by, op'.force = op.force, op.shut => op'.shut, op'.shut <=> op'.at \in Touched,
         OpProgress', OpKnows', OpSaw', MetaTrue',
         Stays \/ Dies \/ Comes, misread \subseteq misread',
         idx'.status \in Unsafe => idx'.status = idx.status \/ op'.shut,
         \A t \in Turns : turn'[t] = turn[t] \/ turn'[t] = Cut(t)
  PROVE  HostInv'
<1> USE DEF HostInv, Working
<1>1. service = "up" /\ op.kind # "none" /\ op.kind # "restart" /\ ~op.force
  BY RestIs DEF HoldInv, GateHeld
<1>2. \A t \in Turns : turn[t].stage \notin Granted BY <1>1 DEF HoldInv, GateHeld
<1>3. \A t \in Turns : turn'[t] = turn[t] BY <1>2 DEF Cut, Granted
<1>4. GateHeld' BY <1>1, <1>3, HoldGoes DEF Draws
<1>5. ReadyTrue' /\ TurnsRunAsActive'
  BY <1>2, <1>3 DEF ReadyTrue, TurnsRunAsActive, Running, Granted
<1>6. ShutInv' BY <1>1 DEF ShutInv, UnsafeHeld, UnsafeStaysShut
<1>7. GoneInv' BY <1>1, GoneKeeps
<1> QED BY <1>4, <1>5, <1>6, <1>7 DEF HoldInv, AccountInv

\* An account operation returns: the gate opens only over a record that is safe, or was not the operation's to judge.
LEMMA SwitchReturns ==
  ASSUME HostInv, op.kind \in {"use", "save", "sync"}, Working, NEW ok \in BOOLEAN, Return(ok),
         ProcessTypes', auth' \in Accounts, idx' \in Indexes, turn' \in [Turns -> TurnStates],
         \A t \in Turns : turn'[t] = turn[t] \/ turn'[t] = Cut(t),
         Stays \/ Dies \/ Comes \/ UNCHANGED host, misread \subseteq misread', MetaTrue',
         ok /\ idx'.status \in Unsafe => idx'.status = idx.status /\ ~op.shut
  PROVE  HostInv'
<1> USE DEF HostInv, Working
<1>1. HostTypes /\ service = "up" /\ op.kind # "none" /\ op.kind # "restart" /\ ~op.force /\ op' = Idle /\ Idle \in Operations
  BY RestIs DEF HoldInv, GateHeld, Return
<1>2. \A t \in Turns : turn[t].stage \notin Granted BY <1>1 DEF HoldInv, GateHeld
<1>3. \A t \in Turns : turn'[t] = turn[t] BY <1>2 DEF Cut, Granted
<1>4. gate' \in Gates /\ (~ok => gate'.state = "failed")
  BY <1>1, Finishes DEF HostTypes, Return
<1>5. adm' \in {"free", "op"} \cup Turns BY <1>1, Typed DEF Return
<1>6. HostTypes' BY <1>1, <1>4, <1>5 DEF HostTypes
<1>7. GateHeld' /\ OpProgress' BY <1>1, HoldFree
<1>8. OpKnows' /\ OpSaw' BY <1>1, <1>6, IdleKnows
<1>9. ReadyTrue' /\ TurnsRunAsActive'
  BY <1>2, <1>3 DEF ReadyTrue, TurnsRunAsActive, Running, Granted
<1>10. ShutInv' BY <1>1, <1>4, ShutReturns DEF ShutInv, UnsafeHeld
<1>11. GoneInv'
  BY <1>1, RestIs, GoneKeeps DEF GoneInv, DoomedKnown, RestartShape, OldHostGone, Doomed, Halting
<1> QED BY <1>6, <1>7, <1>8, <1>9, <1>10, <1>11 DEF HoldInv, AccountInv

LEMMA StepRefuse ==
  ASSUME HostInv, op.kind \in {"use", "save", "sync"}, Refuse
  PROVE  HostInv'
<1> USE DEF HostInv
<1>1. HostTypes /\ op.shut \in BOOLEAN /\ Stays BY Typed DEF HoldInv, Refuse, Stays
<1>2. ProcessTypes' /\ auth' \in Accounts /\ idx' \in Indexes /\ turn' \in [Turns -> TurnStates]
  BY <1>1 DEF HostTypes, ProcessTypes, Refuse
<1>3. MetaTrue' BY <1>1 DEF AccountInv, MetaTrue, RunsAs, Refuse, Stays
<1> QED BY <1>1, <1>2, <1>3, SwitchReturns DEF Working, Refuse

--------------------
(* An account operation goes on.                                           *)

\* The next place, with or without a host that is started or stopped on the way.
LEMMA Advances ==
  ASSUME HostInv, op.kind \in {"use", "save", "sync"}, NEW at \in Places, Go(at), at \in Touched <=> op.at \in Touched,
         Same, UNCHANGED idx, auth' \in Accounts, ProcessTypes', Stays \/ Dies \/ Comes,
         turn' \in [Turns -> TurnStates], \A t \in Turns : turn'[t] = turn[t] \/ turn'[t] = Cut(t),
         OpProgress', OpKnows', OpSaw'
  PROVE  HostInv'
<1> USE DEF HostInv
<1>1. HostTypes /\ op \in Operations BY DEF HoldInv, HostTypes
<1>2. op' \in Operations /\ op'.kind = op.kind /\ op'.by = op.by /\ op'.force = op.force /\ op'.shut = op.shut /\ op'.at = at
  BY <1>1, Goes DEF Go
<1>3. HostTypes' BY <1>1, <1>2 DEF HostTypes, Same
<1>4. MetaTrue' BY DEF AccountInv, MetaTrue, RunsAs, Stays, Dies, Comes, Same
<1>5. op'.shut <=> op'.at \in Touched BY <1>2, RestIs DEF HoldInv, GateHeld
<1> QED BY <1>2, <1>3, <1>4, <1>5, SwitchGoes DEF Working, Same

\* What `Go` leaves of the operation.
LEMMA GoKeeps ==
  ASSUME HostInv, NEW at \in Places, Go(at)
  PROVE  /\ op'.at = at /\ op'.kind = op.kind /\ op'.target = op.target /\ op'.live = op.live /\ op'.prof = op.prof
         /\ op'.seen = op.seen /\ op'.gen = op.gen
  BY Goes DEF HostInv, HoldInv, HostTypes, Go

LEMMA KeptStays ==
  ASSUME HostInv, Kept
  PROVE  Stays /\ ProcessTypes' /\ turn' \in [Turns -> TurnStates] /\ (\A t \in Turns : turn'[t] = turn[t])
  BY DEF HostInv, HoldInv, HostTypes, ProcessTypes, Stays, Kept

LEMMA StepCheckIdle ==
  ASSUME HostInv, CheckIdle
  PROVE  HostInv'
<1> USE DEF HostInv
<1> DEFINE at == IF op.kind = "sync" THEN "meta" ELSE "live"
<1>1. HostTypes /\ Go(at) /\ at \in Places /\ EnsureStarted /\ op.kind \in {"use", "save", "sync"} /\ op.at = "begin"
  BY DEF HoldInv, CheckIdle, At, Places
<1>2. ProcessTypes' /\ (Stays \/ (Comes /\ ~host.up)) BY <1>1, Starts DEF Stays, Comes
<1>3. /\ op'.at = at /\ op'.kind = op.kind /\ op'.target = op.target /\ op'.live = op.live /\ op'.prof = op.prof
      /\ op'.seen = op.seen /\ op'.gen = op.gen
  BY <1>1, GoKeeps
<1>4. OpProgress' BY <1>1, <1>3 DEF OpProgress
<1>5. OpKnows' BY <1>1, <1>3 DEF AccountInv, OpKnows, CheckIdle
<1>6. OpSaw' BY <1>1, Typed, <1>2, <1>3 DEF AccountInv, OpSaw, Stays, Comes
<1>7. auth' \in Accounts /\ turn' \in [Turns -> TurnStates] /\ \A t \in Turns : turn'[t] = turn[t]
  BY <1>1 DEF HostTypes, CheckIdle
<1>8. at \in Touched <=> op.at \in Touched BY <1>1 DEF Touched
<1> HIDE DEF at
<1> QED BY <1>1, <1>2, <1>4, <1>5, <1>6, <1>7, <1>8, Advances DEF CheckIdle

LEMMA StepReadLive ==
  ASSUME HostInv, ReadLive
  PROVE  HostInv'
<1> USE DEF HostInv
<1>1. /\ HostTypes /\ op.kind \in {"use", "save"} /\ op.at = "live" /\ host.up /\ host.acct = auth /\ Kept /\ Same
      /\ UNCHANGED <<auth, idx>>
  BY DEF HoldInv, ReadLive, At
<1>2. Stays /\ ProcessTypes' /\ turn' \in [Turns -> TurnStates] /\ (\A t \in Turns : turn'[t] = turn[t])
  BY <1>1, KeptStays
<1>3. /\ op' \in Operations /\ op'.kind = op.kind /\ op'.by = op.by /\ op'.force = op.force /\ op'.shut = op.shut
      /\ op'.at = "meta" /\ op'.live = auth /\ op'.seen = host.gen /\ op'.gen = op.gen
      /\ op'.target = IF op.kind = "save" THEN auth ELSE op.target
  BY <1>1, Typed DEF HostTypes, MaybeAccount, ReadLive, Operations, Places
<1>4. HostTypes' BY <1>1, <1>2, <1>3 DEF HostTypes, Same
<1>5. OpProgress' BY <1>1, <1>3 DEF OpProgress
<1>6. auth \in Accounts BY <1>1 DEF HostTypes
<1>7. OpKnows' BY <1>1, <1>3, <1>6 DEF AccountInv, OpKnows
<1>8. OpSaw' BY <1>1, <1>2, <1>3, Typed DEF AccountInv, OpSaw, Stays
<1>9. MetaTrue' BY <1>1, <1>2 DEF AccountInv, MetaTrue, RunsAs, Stays, Same
<1>10. op'.shut <=> op'.at \in Touched BY <1>1, <1>3 DEF HoldInv, GateHeld, Touched
<1> QED BY <1>1, <1>2, <1>3, <1>4, <1>5, <1>7, <1>8, <1>9, <1>10, SwitchGoes DEF Working, Same

LEMMA StepReadMeta ==
  ASSUME HostInv, ReadMeta
  PROVE  HostInv'
<1> USE DEF HostInv
<1>1. /\ HostTypes /\ op.kind \in {"use", "sync", "save"} /\ op.at = "meta" /\ Kept /\ Same /\ UNCHANGED <<auth, idx>>
      /\ (op.kind = "sync" => auth \in idx.saved) /\ Managed
  BY DEF HoldInv, ReadMeta, At
<1>2. Stays /\ ProcessTypes' /\ turn' \in [Turns -> TurnStates] /\ (\A t \in Turns : turn'[t] = turn[t])
  BY <1>1, KeptStays
<1>3. /\ op' \in Operations /\ op'.kind = op.kind /\ op'.by = op.by /\ op'.force = op.force /\ op'.shut = op.shut
      /\ op'.at = (IF op.kind = "sync" THEN "compare" ELSE "tx") /\ op'.live = op.live /\ op'.seen = op.seen /\ op'.gen = host.gen
      /\ op'.target = (IF op.kind = "sync" THEN auth ELSE op.target)
      /\ op'.prof = IF op.kind = "sync" THEN meta.profile ELSE idx.active
  <2>1. auth \in MaybeAccount /\ meta.gen = host.gen /\ host.gen \in Nat /\ op \in Operations /\ meta.profile \in MaybeAccount
        /\ idx.active \in MaybeAccount
    BY <1>1, Typed DEF HostTypes, MaybeAccount
  <2>2. op' = [op EXCEPT !.gen = meta.gen, !.at = IF op.kind = "sync" THEN "compare" ELSE "tx",
                         !.target = IF op.kind = "sync" THEN auth ELSE @,
                         !.prof = IF op.kind = "sync" THEN meta.profile ELSE idx.active]
    BY DEF ReadMeta
  <2> QED BY <2>1, <2>2 DEF Operations, Places
<1>4. HostTypes' BY <1>1, <1>2, <1>3 DEF HostTypes, Same
<1>5. OpProgress' BY <1>1, <1>3 DEF OpProgress
<1>6. auth \in Accounts BY <1>1 DEF HostTypes
<1>7. OpKnows' BY <1>1, <1>3, <1>6 DEF AccountInv, OpKnows
<1>8. OpSaw' BY <1>1, <1>2, <1>3, Typed DEF AccountInv, OpSaw, Stays
<1>9. MetaTrue' BY <1>1, <1>2 DEF AccountInv, MetaTrue, RunsAs, Stays, Same
<1>10. op'.shut <=> op'.at \in Touched BY <1>1, <1>3 DEF HoldInv, GateHeld, Touched
<1> QED BY <1>1, <1>2, <1>3, <1>4, <1>5, <1>7, <1>8, <1>9, <1>10, SwitchGoes DEF Working, Same

LEMMA StepCompare ==
  ASSUME HostInv, Compare
  PROVE  HostInv'
<1> USE DEF HostInv
<1>1. HostTypes /\ Kept /\ Same /\ UNCHANGED <<auth, idx>> /\ op.kind \in {"use", "save", "sync"}
  BY DEF HoldInv, Compare, At
<1>2. Stays /\ ProcessTypes' /\ turn' \in [Turns -> TurnStates] /\ (\A t \in Turns : turn'[t] = turn[t])
  BY <1>1, KeptStays
<1>3. CASE op.kind \in {"use", "save"}
  <2> DEFINE at == IF op.kind = "save" \/ idx.active = op.target THEN "same" ELSE "lock"
  <2>1. op.at = "tx" /\ Go(at) /\ at \in Places /\ (op.kind = "use" => idx.active = op.live)
    BY <1>3 DEF Compare, At, Places
  <2>2. /\ op'.at = at /\ op'.kind = op.kind /\ op'.target = op.target /\ op'.live = op.live /\ op'.prof = op.prof
        /\ op'.seen = op.seen /\ op'.gen = op.gen
    BY <2>1, GoKeeps
  <2>3. OpProgress' BY <1>3, <2>2 DEF OpProgress
  <2>4. OpKnows' BY <1>3, <2>1, <2>2 DEF AccountInv, OpKnows
  <2>5. OpSaw' BY <1>2, <1>3, <2>2 DEF AccountInv, OpSaw, Stays
  <2>6. at \in Touched <=> op.at \in Touched BY <2>1 DEF Touched
  <2>7. auth' \in Accounts BY <1>1 DEF HostTypes
  <2> HIDE DEF at
  <2> QED BY <1>1, <1>2, <2>1, <2>3, <2>4, <2>5, <2>6, <2>7, Advances
<1>4. CASE op.kind = "sync"
  <2> DEFINE at == IF host.up /\ host.acct = op.target THEN "same" ELSE "lock"
  <2>1. /\ op.at = "compare"
        /\ op' = [op EXCEPT !.at = at, !.prof = IF host.up /\ host.acct # op.prof THEN NoAccount ELSE @]
    BY <1>4 DEF Compare, At
  <2>2. /\ op' \in Operations /\ op'.at = at /\ op'.kind = op.kind /\ op'.by = op.by /\ op'.force = op.force /\ op'.shut = op.shut
        /\ op'.target = op.target /\ op'.live = op.live /\ op'.seen = op.seen /\ op'.gen = op.gen
    <3>1. op \in Operations /\ NoAccount \in MaybeAccount /\ at \in Places
      BY <1>1 DEF HostTypes, MaybeAccount, Places
    <3> HIDE DEF at
    <3> QED BY <2>1, <3>1 DEF Operations
  <2>3. HostTypes' BY <1>1, <1>2, <2>2 DEF HostTypes, Same
  <2>4. OpProgress' BY <1>4, <2>2 DEF OpProgress
  <2>5. OpKnows' BY <1>4, <2>1, <2>2 DEF AccountInv, OpKnows
  <2>6. OpSaw' BY <1>2, <1>4, <2>2 DEF AccountInv, OpSaw, Stays
  <2>7. MetaTrue' BY <1>1, <1>2 DEF AccountInv, MetaTrue, RunsAs, Stays, Same
  <2>8. op'.shut <=> op'.at \in Touched
    BY <1>4, <2>1, <2>2 DEF HoldInv, GateHeld, Touched
  <2> QED BY <1>1, <1>2, <2>2, <2>3, <2>4, <2>5, <2>6, <2>7, <2>8, SwitchGoes DEF Working, Same
<1> QED BY <1>1, <1>3, <1>4

LEMMA StepTakeLock ==
  ASSUME HostInv, TakeLock
  PROVE  HostInv'
<1> USE DEF HostInv
<1>1. /\ HostTypes /\ op.kind \in {"use", "sync"} /\ op.at = "lock" /\ Go("journal") /\ "journal" \in Places
      /\ Kept /\ Same /\ UNCHANGED <<auth, idx>>
  BY DEF HoldInv, TakeLock, At, Places
<1>2. Stays /\ ProcessTypes' /\ turn' \in [Turns -> TurnStates] /\ (\A t \in Turns : turn'[t] = turn[t])
  BY <1>1, KeptStays
<1>3. /\ op'.at = "journal" /\ op'.kind = op.kind /\ op'.target = op.target /\ op'.live = op.live /\ op'.prof = op.prof
      /\ op'.seen = op.seen /\ op'.gen = op.gen
  BY <1>1, GoKeeps
<1>4. OpProgress' /\ auth' \in Accounts BY <1>1, <1>3 DEF OpProgress, HostTypes
<1>5. OpKnows' BY <1>1, <1>3 DEF AccountInv, OpKnows
<1>6. OpSaw' BY <1>1, <1>2, <1>3 DEF AccountInv, OpSaw, Stays
<1>7. "journal" \in Touched <=> op.at \in Touched BY <1>1 DEF Touched
<1> QED BY <1>1, <1>2, <1>4, <1>5, <1>6, <1>7, Advances

LEMMA StepJournal ==
  ASSUME HostInv, Journal
  PROVE  HostInv'
<1> USE DEF HostInv
<1>1. HostTypes /\ op.kind \in {"use", "sync"} /\ op.at = "journal" /\ Kept /\ Same /\ UNCHANGED auth
  BY DEF HoldInv, Journal, At
<1>2. Stays /\ ProcessTypes' /\ turn' \in [Turns -> TurnStates] /\ (\A t \in Turns : turn'[t] = turn[t])
  BY <1>1, KeptStays
<1>3. /\ op' \in Operations /\ op'.kind = op.kind /\ op'.by = op.by /\ op'.force = op.force /\ op'.shut /\ op'.at = "stop"
      /\ op'.target = op.target /\ op'.live = op.live /\ op'.prof = op.prof /\ op'.seen = op.seen /\ op'.gen = op.gen
  BY <1>1 DEF Journal, HostTypes, Operations, Places
<1>4. idx' \in Indexes /\ idx'.saved = idx.saved /\ idx'.active = idx.active
  BY <1>1 DEF Journal, HostTypes, Indexes, Statuses
<1>5. HostTypes' BY <1>1, <1>2, <1>3, <1>4 DEF HostTypes, Same
<1>6. OpProgress' BY <1>1, <1>3 DEF OpProgress, Touched
<1>7. OpKnows' BY <1>1, <1>3, <1>4 DEF AccountInv, OpKnows
<1>8. OpSaw' BY <1>1, <1>2, <1>3 DEF AccountInv, OpSaw, Stays
<1>9. MetaTrue' BY <1>1, <1>2 DEF AccountInv, MetaTrue, RunsAs, Stays, Same
<1>10. op'.shut <=> op'.at \in Touched BY <1>3 DEF Touched
<1> QED BY <1>1, <1>2, <1>3, <1>5, <1>6, <1>7, <1>8, <1>9, <1>10, SwitchGoes DEF Working, Same

LEMMA StepStopHost ==
  ASSUME HostInv, NEW ok \in BOOLEAN, StopHost(ok)
  PROVE  HostInv'
<1> USE DEF HostInv
<1>1. HostTypes /\ op.kind \in {"use", "sync"} /\ op.at = "stop"
  BY DEF HoldInv, StopHost, At
<1>2. CASE ok /\ Managed
  <2> DEFINE at == IF op.kind = "use" THEN "write" ELSE "start"
  <2>1. Stopped /\ Go(at) /\ at \in Places /\ UNCHANGED <<auth, idx>> /\ Same
    BY <1>1, <1>2 DEF StopHost, Places
  <2>2. Dies /\ ProcessTypes' /\ turn' \in [Turns -> TurnStates] /\ (\A t \in Turns : turn'[t] = Cut(t))
    BY <1>1, <2>1, Stops DEF Dies
  <2>3. /\ op'.at = at /\ op'.kind = op.kind /\ op'.target = op.target /\ op'.live = op.live /\ op'.prof = op.prof
        /\ op'.seen = op.seen /\ op'.gen = op.gen
    BY <2>1, GoKeeps
  <2>4. OpProgress' /\ auth' \in Accounts
    BY <1>1, <2>1, <2>3 DEF OpProgress, Touched, HostTypes
  <2>5. OpKnows' BY <1>1, <2>1, <2>3 DEF AccountInv, OpKnows
  <2>6. OpSaw' BY <1>1, <2>2, <2>3 DEF AccountInv, OpSaw, Dies
  <2>7. at \in Touched <=> op.at \in Touched BY <1>1 DEF Touched
  <2> HIDE DEF at
  <2> QED BY <1>1, <2>1, <2>2, <2>4, <2>5, <2>6, <2>7, Advances
<1>3. CASE ~(ok /\ Managed) BY <1>1, <1>3, StepRefuse DEF StopHost
<1> QED BY <1>2, <1>3

LEMMA StepWriteAuth ==
  ASSUME HostInv, NEW ok \in BOOLEAN, WriteAuth(ok)
  PROVE  HostInv'
<1> USE DEF HostInv
<1> DEFINE at == IF ok THEN "start" ELSE "undo"
<1>1. HostTypes /\ op.kind = "use" /\ op.at = "write" /\ Go(at) /\ at \in Places /\ Kept /\ Same /\ UNCHANGED idx
  BY DEF HoldInv, WriteAuth, At, Places
<1>2. Stays /\ ProcessTypes' /\ turn' \in [Turns -> TurnStates] /\ (\A t \in Turns : turn'[t] = turn[t])
  BY <1>1, KeptStays
<1>3. /\ op'.at = at /\ op'.kind = op.kind /\ op'.target = op.target /\ op'.live = op.live /\ op'.prof = op.prof
      /\ op'.seen = op.seen /\ op'.gen = op.gen
  BY <1>1, GoKeeps
<1>4. OpProgress' BY <1>1, <1>3 DEF OpProgress, Touched
<1>5. auth' \in Accounts BY <1>1 DEF AccountInv, OpKnows, WriteAuth, HostTypes
<1>6. OpKnows' BY <1>1, <1>3 DEF AccountInv, OpKnows
<1>7. OpSaw' BY <1>1, <1>2, <1>3 DEF AccountInv, OpSaw, Stays
<1>8. at \in Touched <=> op.at \in Touched BY <1>1 DEF Touched
<1> HIDE DEF at
<1> QED BY <1>1, <1>2, <1>4, <1>5, <1>6, <1>7, <1>8, Advances

LEMMA StepStartHost ==
  ASSUME HostInv, NEW ok \in BOOLEAN, StartHost(ok)
  PROVE  HostInv'
<1> USE DEF HostInv
<1> DEFINE at == IF ok THEN "verify" ELSE "undo"
<1>1. /\ HostTypes /\ op.kind \in {"use", "sync"} /\ op.at = "start" /\ Go(at) /\ at \in Places
      /\ Same /\ UNCHANGED <<turn, auth, idx>>
  BY DEF HoldInv, StartHost, At, Places
<1>2. ProcessTypes' /\ (Stays \/ Comes)
  BY <1>1, Starts DEF Stays, Comes, StartHost, HostTypes, ProcessTypes
<1>3. /\ op'.at = at /\ op'.kind = op.kind /\ op'.target = op.target /\ op'.live = op.live /\ op'.prof = op.prof
      /\ op'.seen = op.seen /\ op'.gen = op.gen
  BY <1>1, GoKeeps
<1>4. OpProgress' /\ auth' \in Accounts BY <1>1, <1>3 DEF OpProgress, Touched, HostTypes
<1>5. OpKnows' BY <1>1, <1>3 DEF AccountInv, OpKnows
<1>6. OpSaw' BY <1>1, Typed, <1>2, <1>3 DEF AccountInv, OpSaw, Stays, Comes
<1>7. at \in Touched <=> op.at \in Touched BY <1>1 DEF Touched
<1>8. turn' \in [Turns -> TurnStates] /\ \A t \in Turns : turn'[t] = turn[t]
  BY <1>1 DEF HostTypes
<1> HIDE DEF at
<1> QED BY <1>1, <1>2, <1>4, <1>5, <1>6, <1>7, <1>8, Advances

LEMMA StepVerifyHost ==
  ASSUME HostInv, NEW ok \in BOOLEAN, VerifyHost(ok)
  PROVE  HostInv'
<1> USE DEF HostInv
<1> DEFINE at == IF ok /\ RunsAsTarget THEN "record" ELSE "undo"
<1>1. /\ HostTypes /\ op.kind \in {"use", "sync"} /\ op.at = "verify" /\ Go(at) /\ at \in Places
      /\ Kept /\ Same /\ UNCHANGED <<auth, idx>>
  BY DEF HoldInv, VerifyHost, At, Places
<1>2. Stays /\ ProcessTypes' /\ turn' \in [Turns -> TurnStates] /\ (\A t \in Turns : turn'[t] = turn[t])
  BY <1>1, KeptStays
<1>3. /\ op'.at = at /\ op'.kind = op.kind /\ op'.target = op.target /\ op'.live = op.live /\ op'.prof = op.prof
      /\ op'.seen = op.seen /\ op'.gen = op.gen
  BY <1>1, GoKeeps
<1>4. OpProgress' /\ auth' \in Accounts BY <1>1, <1>3 DEF OpProgress, Touched, HostTypes
<1>5. OpKnows' BY <1>1, <1>3 DEF AccountInv, OpKnows
<1>6. OpSaw' BY <1>1, <1>2, <1>3 DEF RunsAsTarget, AccountInv, OpSaw, Stays
<1>7. at \in Touched <=> op.at \in Touched BY <1>1 DEF Touched
<1> HIDE DEF at
<1> QED BY <1>1, <1>2, <1>4, <1>5, <1>6, <1>7, Advances

LEMMA StepRestoreAuth ==
  ASSUME HostInv, RestoreAuth
  PROVE  HostInv'
<1> USE DEF HostInv
<1>1. /\ HostTypes /\ op.kind \in {"use", "sync"} /\ op.at = "undo" /\ Go("undo-start") /\ "undo-start" \in Places
      /\ Same /\ UNCHANGED idx /\ auth' = OldLogin /\ (op.kind = "sync" => op.prof \in idx.saved)
  BY DEF HoldInv, RestoreAuth, At, Places
<1>2. ProcessTypes' /\ turn' \in [Turns -> TurnStates] /\ (Stays \/ Dies) /\ \A t \in Turns : turn'[t] = turn[t] \/ turn'[t] = Cut(t)
  BY <1>1, KeptStays, Stops DEF RestoreAuth, Dies
<1>3. /\ op'.at = "undo-start" /\ op'.kind = op.kind /\ op'.target = op.target /\ op'.live = op.live /\ op'.prof = op.prof
      /\ op'.seen = op.seen /\ op'.gen = op.gen
  BY <1>1, GoKeeps
<1>4. OpProgress' BY <1>1, <1>3 DEF OpProgress, Touched
<1>5. auth' \in Accounts BY <1>1, Typed DEF OldLogin, AccountInv, OpKnows
<1>6. OpKnows' BY <1>1, <1>3 DEF AccountInv, OpKnows
<1>7. OpSaw' BY <1>1, <1>2, <1>3 DEF AccountInv, OpSaw, Stays, Dies
<1>8. "undo-start" \in Touched <=> op.at \in Touched BY <1>1 DEF Touched
<1> QED BY <1>1, <1>2, <1>4, <1>5, <1>6, <1>7, <1>8, Advances

LEMMA StepRestartOld ==
  ASSUME HostInv, RestartOld
  PROVE  HostInv'
<1> USE DEF HostInv
<1>1. /\ HostTypes /\ op.kind \in {"use", "sync"} /\ op.at = "undo-start" /\ Go("undo-verify") /\ "undo-verify" \in Places
      /\ Same /\ UNCHANGED <<turn, auth, idx>> /\ EnsureStarted
  BY DEF HoldInv, RestartOld, At, Places
<1>2. ProcessTypes' /\ (Stays \/ Comes) BY <1>1, Starts DEF Stays, Comes
<1>3. /\ op'.at = "undo-verify" /\ op'.kind = op.kind /\ op'.target = op.target /\ op'.live = op.live /\ op'.prof = op.prof
      /\ op'.seen = op.seen /\ op'.gen = op.gen
  BY <1>1, GoKeeps
<1>4. OpProgress' /\ auth' \in Accounts BY <1>1, <1>3 DEF OpProgress, Touched, HostTypes
<1>5. OpKnows' BY <1>1, <1>3 DEF AccountInv, OpKnows
<1>6. OpSaw' BY <1>1, Typed, <1>2, <1>3 DEF AccountInv, OpSaw, Stays, Comes
<1>7. "undo-verify" \in Touched <=> op.at \in Touched BY <1>1 DEF Touched
<1>8. turn' \in [Turns -> TurnStates] /\ \A t \in Turns : turn'[t] = turn[t]
  BY <1>1 DEF HostTypes
<1> QED BY <1>1, <1>2, <1>4, <1>5, <1>6, <1>7, <1>8, Advances

--------------------
(* An account operation records what it did, or undoes it.                 *)

LEMMA Renames ==
  ASSUME HostTypes, UNCHANGED host, NEW a \in MaybeAccount, meta' = [meta EXCEPT !.profile = a]
  PROVE  ProcessTypes' /\ meta'.profile = a
  BY DEF HostTypes, ProcessTypes, Records

\* The account about to be recorded is the host's, or the generation is remembered as misread.
LEMMA SameRecorded ==
  ASSUME HostInv, op.kind \in {"use", "save", "sync"}, op.at = "same", SameGeneration, Remember, UNCHANGED host,
         meta' = [meta EXCEPT !.profile = op.target]
  PROVE  MetaTrue' /\ ProcessTypes' /\ misread \subseteq misread'
<1> USE DEF HostInv
<1>1. HostTypes /\ op.target \in MaybeAccount /\ meta.gen = host.gen /\ op.gen = host.gen
  BY Typed DEF HoldInv, SameGeneration
<1>2. ProcessTypes' /\ meta'.profile = op.target BY <1>1, Renames
<1>3. misread \subseteq misread' BY DEF Remember
<1>4. host.acct = op.target \/ host.gen \in misread'
  BY <1>1 DEF AccountInv, OpSaw, OpKnows, Remember
<1> QED BY <1>2, <1>3, <1>4 DEF MetaTrue, RunsAs

\* A host that nothing was written about.
LEMMA MetaStays ==
  ASSUME HostInv, UNCHANGED <<host, meta>>, misread \subseteq misread'
  PROVE  MetaTrue' /\ ProcessTypes'
  BY DEF HostInv, AccountInv, MetaTrue, RunsAs, HoldInv, HostTypes, ProcessTypes

LEMMA StepRecordSame ==
  ASSUME HostInv, NEW ok \in BOOLEAN, RecordSame(ok)
  PROVE  HostInv'
<1> USE DEF HostInv
<1>1. /\ HostTypes /\ op.kind \in {"use", "save", "sync"} /\ op.at = "same" /\ SameGeneration /\ Return(TRUE)
      /\ UNCHANGED <<turn, host, auth, service, entry, file, rst, condemned, reopened>> /\ ~op.shut
  BY DEF HoldInv, RecordSame, At, GateHeld, Touched
<1>2. MetaTrue' /\ ProcessTypes' /\ misread \subseteq misread'
  BY <1>1, SameRecorded, MetaStays DEF RecordSame
<1>3. op.target \in Accounts BY <1>1 DEF AccountInv, OpKnows
<1>4. idx' \in Indexes /\ (idx'.status \in Unsafe => idx'.status = idx.status)
  <2>1. CASE ok
    <3> DEFINE st == IF op.kind = "use" THEN "unchanged" ELSE IF op.kind = "sync" THEN "external_sync_success" ELSE idx.status
    <3>1. st \in Statuses /\ idx.saved \cup {op.target} \in SUBSET Accounts /\ (st \in Unsafe => st = idx.status)
      BY <1>1, <1>3, Typed DEF Statuses, Unsafe
    <3>2. idx' = [saved |-> idx.saved \cup {op.target}, active |-> op.target, status |-> st]
      BY <2>1 DEF RecordSame
    <3> HIDE DEF st
    <3> QED BY <1>3, <3>1, <3>2 DEF Indexes
  <2>2. CASE ~ok BY <1>1, <2>2 DEF RecordSame, HostTypes
  <2> QED BY <2>1, <2>2
<1>5. auth' \in Accounts /\ turn' \in [Turns -> TurnStates] BY <1>1 DEF HostTypes
<1> QED BY <1>1, <1>2, <1>4, <1>5, SwitchReturns DEF Working

LEMMA StepRecordStuck ==
  ASSUME HostInv, NEW recorded \in BOOLEAN, RecordStuck(recorded)
  PROVE  HostInv'
<1> USE DEF HostInv
<1>1. /\ HostTypes /\ op.kind \in {"save", "sync"} /\ op.at = "same" /\ SameGeneration /\ Return(FALSE) /\ Remember
      /\ meta' = [meta EXCEPT !.profile = op.target]
      /\ UNCHANGED <<turn, host, auth, service, entry, file, rst, condemned, reopened>>
  BY DEF HoldInv, RecordStuck, At
<1>2. MetaTrue' /\ ProcessTypes' /\ misread \subseteq misread' BY <1>1, SameRecorded
<1>3. idx' \in Indexes
  <2> DEFINE owner == IF op.kind = "sync" THEN op.target ELSE idx.active
  <2>1. owner \in Accounts /\ idx \in Indexes
    BY <1>1, Typed DEF HostTypes, AccountInv, OpKnows
  <2>2. idx' = IF recorded THEN [idx EXCEPT !.status = "rollback_failed", !.active = owner] ELSE idx
    BY DEF RecordStuck
  <2> HIDE DEF owner
  <2> QED BY <2>1, <2>2 DEF Indexes, Statuses
<1>4. auth' \in Accounts /\ turn' \in [Turns -> TurnStates] BY <1>1 DEF HostTypes
<1> QED BY <1>1, <1>2, <1>3, <1>4, SwitchReturns DEF Working

LEMMA StepCommit ==
  ASSUME HostInv, NEW ok \in BOOLEAN, Commit(ok)
  PROVE  HostInv'
<1> USE DEF HostInv
<1>1. /\ HostTypes /\ op.kind \in {"use", "sync"} /\ op.at = "record" /\ (Managed <=> host.up)
      /\ UNCHANGED <<turn, host, auth, service, entry, file, rst, condemned, misread, reopened>>
  BY Typed DEF HoldInv, Commit, At
<1>2. op.target \in Accounts /\ op.target \in MaybeAccount
  BY <1>1 DEF AccountInv, OpKnows, MaybeAccount
<1>3. MetaTrue' /\ ProcessTypes'
  BY <1>1, <1>2, Renames, MetaStays DEF Commit, AccountInv, OpSaw, MetaTrue, RunsAs
<1>4. auth' \in Accounts /\ turn' \in [Turns -> TurnStates] BY <1>1 DEF HostTypes
<1>5. CASE ok /\ Managed
  <2>1. Return(TRUE) BY <1>5 DEF Commit
  <2>2. idx' \in Indexes /\ idx'.status \notin Unsafe
    <3> DEFINE st == IF op.kind = "use" THEN "success" ELSE "external_sync_success"
    <3>1. st \in Statuses /\ st \notin Unsafe BY DEF Statuses, Unsafe
    <3>2. idx' = [idx EXCEPT !.active = op.target, !.status = st] BY <1>5 DEF Commit
    <3> HIDE DEF st
    <3> QED BY <1>1, <1>2, <3>1, <3>2 DEF HostTypes, Indexes
  <2> QED BY <1>1, <1>3, <1>4, <2>1, <2>2, SwitchReturns DEF Working
<1>6. CASE ~(ok /\ Managed)
  <2>1. PICK a \in {op.live, IF op.kind = "sync" THEN op.target ELSE op.live} :
          op' = [op EXCEPT !.at = "undo", !.live = a] /\ UNCHANGED <<idx, gate, adm>>
    BY <1>6 DEF Commit
  <2>2. /\ op' \in Operations /\ op'.at = "undo" /\ op'.kind = op.kind /\ op'.target = op.target /\ op'.live = a
        /\ op'.prof = op.prof /\ op'.seen = op.seen /\ op'.gen = op.gen /\ op'.by = op.by /\ op'.force = op.force
        /\ op'.shut = op.shut /\ (op.kind = "use" => a = op.live)
    BY <1>1, Typed, <2>1 DEF HostTypes, Operations, Places
  <2>3. HostTypes' BY <1>1, <1>3, <2>1, <2>2 DEF HostTypes
  <2>4. OpProgress' BY <1>1, <2>2 DEF OpProgress, Touched
  <2>5. OpKnows' BY <1>1, <2>1, <2>2 DEF AccountInv, OpKnows
  <2>6. OpSaw' BY <1>1, <2>2 DEF AccountInv, OpSaw
  <2>7. op'.shut <=> op'.at \in Touched BY <1>1, <2>2 DEF HoldInv, GateHeld, Touched
  <2>8. OpProgress' /\ GateHeld' BY <1>1, <2>1, <2>2, <2>4, <2>7, HoldGoes DEF Draws
  <2>9. ReadyTrue' /\ TurnsRunAsActive'
    BY <1>1, <2>1 DEF AccountInv, ReadyTrue, RunsAs, TurnsRunAsActive, Running
  <2>10. ShutInv' BY <1>1, <2>1, <2>2, RestIs, ShutKeeps
  <2>11. GoneInv'
    BY <1>1, <2>2 DEF GoneInv, DoomedKnown, RestartShape, OldHostGone, Doomed, Halting
  <2> QED BY <1>3, <2>3, <2>5, <2>6, <2>8, <2>9, <2>10, <2>11 DEF HoldInv, AccountInv
<1> QED BY <1>5, <1>6

\* The account the copy of the index names is one that is saved.
LEMMA CopyNames ==
  ASSUME HostTypes
  PROVE  ActiveSoFar \in Accounts
  BY Typed DEF ActiveSoFar, MaybeAccount

LEMMA StepDefer ==
  ASSUME HostInv, NEW ok \in BOOLEAN, Defer(ok)
  PROVE  HostInv'
<1> USE DEF HostInv
<1>1. /\ HostTypes /\ op.kind = "sync" /\ op.at = "undo" /\ Return(ok) /\ op.kind \in {"use", "save", "sync"}
      /\ UNCHANGED <<auth, service, entry, file, rst, condemned, misread, reopened>>
  BY DEF HoldInv, Defer, At
<1>2. ProcessTypes' /\ turn' \in [Turns -> TurnStates] /\ (Stays \/ Dies) /\ \A t \in Turns : turn'[t] = turn[t] \/ turn'[t] = Cut(t)
  BY <1>1, KeptStays, Stops DEF Defer, Dies
<1>3. MetaTrue' BY <1>1, <1>2 DEF AccountInv, MetaTrue, RunsAs, Stays, Dies
<1>4. idx' \in Indexes /\ (ok => idx'.status \notin Unsafe)
  BY <1>1, CopyNames DEF Defer, Ended, HostTypes, Indexes, Statuses, Unsafe
<1>5. auth' \in Accounts BY <1>1 DEF HostTypes
<1> QED BY <1>1, <1>2, <1>3, <1>4, <1>5, SwitchReturns DEF Working

LEMMA StepRolledBack ==
  ASSUME HostInv, NEW ok \in BOOLEAN, RolledBack(ok)
  PROVE  HostInv'
<1> USE DEF HostInv
<1>1. /\ HostTypes /\ op.kind \in {"use", "sync"} /\ op.at = "undo-verify" /\ Return(ok) /\ host.acct = OldLogin
      /\ UNCHANGED <<turn, host, auth, service, entry, file, rst, condemned, misread, reopened>>
  BY DEF HoldInv, RolledBack, At
<1>2. op.prof \in Accounts /\ op.prof = host.acct /\ op.prof \in MaybeAccount
  BY <1>1, Typed DEF AccountInv, OpKnows, OldLogin, MaybeAccount
<1>3. MetaTrue' /\ ProcessTypes'
  BY <1>1, <1>2, Renames, MetaStays DEF RolledBack, MetaTrue, RunsAs
<1>4. idx' \in Indexes /\ (ok => idx'.status \notin Unsafe)
  <2>1. CASE ok
    <3> DEFINE st == IF op.kind = "use" THEN "rolled_back" ELSE "external_sync_rolled_back"
    <3>1. st \in Statuses /\ st \notin Unsafe BY DEF Statuses, Unsafe
    <3>2. idx' = [idx EXCEPT !.active = op.prof, !.status = st]
      BY <2>1 DEF RolledBack, Ended
    <3> HIDE DEF st
    <3> QED BY <1>1, <1>2, <3>1, <3>2 DEF HostTypes, Indexes
  <2>2. CASE ~ok BY <1>1, <2>2 DEF RolledBack, HostTypes
  <2> QED BY <2>1, <2>2
<1>5. auth' \in Accounts /\ turn' \in [Turns -> TurnStates] BY <1>1 DEF HostTypes
<1> QED BY <1>1, <1>3, <1>4, <1>5, SwitchReturns DEF Working

LEMMA StepRollbackFails ==
  ASSUME HostInv, NEW recorded \in BOOLEAN, RollbackFails(recorded)
  PROVE  HostInv'
<1> USE DEF HostInv
<1>1. /\ HostTypes /\ op.at \in {"undo", "undo-start", "undo-verify"} /\ Return(FALSE)
      /\ UNCHANGED <<turn, host, meta, auth, service, entry, file, rst, condemned, misread, reopened>>
  BY DEF HoldInv, RollbackFails
<1>2. op.kind \in {"use", "sync"}
  BY <1>1, RestIs, Typed DEF HoldInv, GateHeld, OpProgress
<1>3. MetaTrue' /\ ProcessTypes' /\ misread \subseteq misread' BY <1>1, MetaStays
<1>4. idx' \in Indexes
  BY <1>1, CopyNames DEF RollbackFails, Ended, HostTypes, Indexes, Statuses
<1>5. auth' \in Accounts /\ turn' \in [Turns -> TurnStates] BY <1>1 DEF HostTypes
<1> QED BY <1>1, <1>2, <1>3, <1>4, <1>5, SwitchReturns DEF Working

LEMMA StepRemoveCodexAccount ==
  ASSUME HostInv, NEW a \in Accounts, RemoveCodexAccount(a)
  PROVE  HostInv'
<1> USE DEF HostInv
<1>1. /\ HostTypes /\ op = Idle /\ op' = Idle /\ service' = "up" /\ idx' = [idx EXCEPT !.saved = @ \ {a}]
      /\ UNCHANGED <<gate, adm, turn, host, meta, auth, op, service, entry, file, rst, condemned, misread, reopened>>
  BY FreeIsIdle DEF HoldInv, RemoveCodexAccount
<1>2. idx' \in Indexes /\ idx'.active = idx.active /\ idx'.status = idx.status
  BY <1>1 DEF HostTypes, Indexes
<1>3. HostTypes' BY <1>1, <1>2 DEF HostTypes, ProcessTypes
<1>4. GateHeld' /\ OpProgress' BY <1>1, HoldFree
<1>5. OpKnows' /\ OpSaw' BY <1>1, <1>3, IdleKnows
<1>6. MetaTrue' /\ ReadyTrue' /\ TurnsRunAsActive'
  BY <1>1, <1>2 DEF AccountInv, MetaTrue, ReadyTrue, RunsAs, TurnsRunAsActive, Running
<1>7. ShutInv' BY <1>1, <1>2, ShutKeeps
<1>8. GoneInv'
  BY <1>1 DEF GoneInv, DoomedKnown, RestartShape, OldHostGone, Doomed, Halting
<1> QED BY <1>3, <1>4, <1>5, <1>6, <1>7, <1>8 DEF HoldInv, AccountInv

LEMMA StepUseOffline ==
  ASSUME HostInv, NEW a \in Accounts, UseOffline(a)
  PROVE  HostInv'
<1> USE DEF HostInv
<1>1. /\ HostTypes /\ service = "down" /\ auth' = a /\ idx' = [idx EXCEPT !.active = a, !.status = "offline"]
      /\ UNCHANGED <<gate, adm, turn, host, meta, op, service, entry, file, rst, condemned, misread, reopened>>
  BY DEF HoldInv, UseOffline
<1>2. op = Idle /\ op' = Idle /\ \A t \in Turns : turn[t].stage = "off"
  BY <1>1 DEF HoldInv, GateHeld
<1>3. idx' \in Indexes /\ idx'.status = "offline"
  BY <1>1 DEF HostTypes, Indexes, Statuses
<1>4. HostTypes' BY <1>1, <1>3 DEF HostTypes, ProcessTypes
<1>5. \A t \in Turns : Draws(t) BY <1>1 DEF Draws
<1>6. GateHeld' /\ OpProgress' BY <1>1, <1>5, HoldKeeps
<1>7. OpKnows' /\ OpSaw' BY <1>2, <1>4, IdleKnows
<1>8. MetaTrue' /\ ReadyTrue' /\ TurnsRunAsActive'
  BY <1>1, <1>2 DEF AccountInv, MetaTrue, ReadyTrue, RunsAs, TurnsRunAsActive, Running
<1>9. ShutInv' BY <1>3 DEF ShutInv, UnsafeHeld, UnsafeStaysShut, Unsafe
<1>10. GoneInv'
  BY <1>1 DEF GoneInv, DoomedKnown, RestartShape, OldHostGone, Doomed, Halting
<1> QED BY <1>4, <1>6, <1>7, <1>8, <1>9, <1>10 DEF HoldInv, AccountInv

--------------------
(* The restart.                                                            *)

\* A step that touches neither the accounts nor the operation, and at most stops or replaces the host.
LEMMA AccountStays ==
  ASSUME HostInv, HostTypes', UNCHANGED <<auth, idx, misread>>,
         op' = Idle \/ (UNCHANGED op /\ (Comes => op.at # "record")),
         Stays \/ Dies \/ Comes,
         \A t \in Turns : Calls(t) \/ turn'[t] = Cut(t)
  PROVE  AccountInv'
<1> USE DEF HostInv
<1>1. OpKnows' /\ OpSaw' BY IdleKnows, OpKeeps DEF AccountInv
<1>2. \A t \in Turns : Calls(t) BY RestIs DEF Calls, Cut
<1>4. MetaTrue' /\ ReadyTrue' /\ TurnsRunAsActive'
  BY <1>2, RunsKeep DEF HoldInv, AccountInv
<1> QED BY <1>1, <1>4 DEF AccountInv

LEMMA StepPrepareRuntimeRestart ==
  ASSUME HostInv, NEW force \in BOOLEAN, PrepareRuntimeRestart(force)
  PROVE  HostInv'
<1> USE DEF HostInv
<1>1. /\ HostTypes /\ Stays /\ service = "up" /\ ~rst.prepared /\ entry = "open" /\ entry' = "closed"
      /\ UNCHANGED <<gate, adm, turn, host, meta, op, service, condemned, reopened, auth, idx, misread>>
  BY DEF HoldInv, PrepareRuntimeRestart, Rest, Stays
<1>2. file' \in Files /\ file'.kind = "preparing" /\ file'.gen = 0 /\ ~file'.stopped
  BY RestIs DEF PrepareRuntimeRestart, Files
<1>3. rst' \in Restarts /\ rst'.prepared = rst.prepared /\ rst'.unsafe = rst.unsafe /\ rst'.snap = rst.snap
  BY <1>1 DEF HostTypes, Restarts, PrepareRuntimeRestart
<1>4. HostTypes' BY <1>1, <1>2, <1>3 DEF HostTypes, ProcessTypes
<1>5. \A t \in Turns : Draws(t) /\ Calls(t) BY <1>1 DEF Draws, Calls
<1>6. GateHeld' /\ OpProgress' BY <1>1, <1>5, HoldKeeps
<1>7. AccountInv' BY <1>1, Typed, <1>4, <1>5, AccountStays DEF Comes, Stays
<1>8. ShutInv' BY <1>1, ShutKeeps
<1>9. ~Doomed /\ op.kind # "restart" BY <1>1 DEF GoneInv, DoomedKnown, RestartShape
<1>10. DoomedKnown' BY <1>1, <1>9 DEF DoomedKnown, Doomed
<1>11. RestartShape' BY <1>1, <1>2, Typed, <1>3, <1>9 DEF GoneInv, RestartShape
<1>12. OldHostGone' BY <1>1 DEF OldHostGone
<1> QED BY <1>4, <1>6, <1>7, <1>8, <1>10, <1>11, <1>12 DEF HoldInv, GoneInv

LEMMA StepTakeGate ==
  ASSUME HostInv, TakeGate
  PROVE  HostInv'
<1> USE DEF HostInv
<1>1. /\ HostTypes /\ Stays /\ service = "up" /\ op = Idle /\ rst.asked # "no" /\ adm' = "op" /\ MayTake
      /\ UNCHANGED <<turn, host, meta, service, entry, file, condemned, reopened, auth, idx, misread>>
  BY FreeIsIdle DEF HoldInv, TakeGate, AtGate, Rest, Stays
<1>2. /\ op' \in Operations /\ op'.kind = "restart" /\ op'.at = (IF Forced THEN "plan" ELSE "idle") /\ op'.by = "user"
      /\ op'.force = Forced /\ ~op'.shut /\ op'.seen = 0 /\ op'.gen = 0
  <2> DEFINE at == IF Forced THEN "plan" ELSE "idle"
  <2>1. op' = [Idle EXCEPT !.kind = "restart", !.at = at, !.force = Forced] /\ at \in Places /\ Forced \in BOOLEAN
    BY DEF TakeGate, Places, Forced
  <2> HIDE DEF at
  <2>2. op' \in Operations /\ op'.kind = "restart" /\ op'.at = at /\ op'.by = "user" /\ op'.force = Forced /\ ~op'.shut
        /\ op'.seen = 0 /\ op'.gen = 0
    BY <2>1, RestIs DEF Operations
  <2> QED BY <2>2 DEF at
<1>3. gate' \in Gates /\ gate'.state = "draining"
  BY <1>1, Drains DEF HostTypes, TakeGate
<1>4. rst' \in Restarts /\ rst'.asked = "no" /\ rst'.prepared = rst.prepared /\ rst'.unsafe = rst.unsafe /\ rst'.snap = rst.snap
  BY <1>1 DEF HostTypes, Restarts, TakeGate
<1>5. HostTypes' BY <1>1, <1>2, <1>3, <1>4 DEF HostTypes, ProcessTypes
<1>6. OpProgress' BY <1>2 DEF OpProgress
<1>7. ~Forced => gate.state = "running" /\ \A t \in Turns : turn[t].stage \notin Granted
  BY <1>1 DEF MayTake, MayBegin, Permits, Granted
<1>8. GateHeld' BY <1>1, <1>2, <1>3, <1>7 DEF GateHeld, Touched
<1>9. host'.gen \in Nat /\ host'.gen > 0 BY <1>1, Typed
<1>10. OpKnows' /\ OpSaw' BY <1>2, <1>9 DEF OpKnows, OpSaw
<1>11. MetaTrue' /\ ReadyTrue' /\ TurnsRunAsActive'
  BY <1>1 DEF AccountInv, MetaTrue, ReadyTrue, RunsAs, TurnsRunAsActive, Running
<1>12. ShutInv' BY <1>1, <1>2, <1>7, RestIs DEF ShutInv, UnsafeHeld, UnsafeStaysShut
<1>13. ~rst.prepared /\ entry = "closed" BY <1>1, Typed DEF GoneInv, RestartShape
<1>14. ~Doomed BY <1>1, <1>13, RestIs DEF GoneInv, DoomedKnown, Halting
<1>15. DoomedKnown' BY <1>1, <1>14 DEF DoomedKnown, Doomed
<1>16. RestartShape' BY <1>1, <1>2, <1>4, <1>13 DEF GoneInv, RestartShape
<1>17. OldHostGone' BY <1>1, <1>13 DEF OldHostGone
<1> QED BY <1>5, <1>6, <1>8, <1>10, <1>11, <1>12, <1>15, <1>16, <1>17 DEF HoldInv, AccountInv, GoneInv

\* A restart holds the gate.
LEMMA RestartHolds ==
  ASSUME HostInv, op.kind = "restart"
  PROVE  /\ HostTypes /\ service = "up" /\ gate.state = "draining" /\ op.by = "user" /\ adm = "op" /\ ~op.shut
         /\ (~op.force => \A t \in Turns : turn[t].stage \notin Granted)
         /\ entry = "closed" /\ rst.asked = "no" /\ (rst.prepared => op.at = "halt" /\ op.force /\ rst.snap.gen = op.gen)
<1>1. service = "up" BY RestIs DEF HostInv, HoldInv, GateHeld
<1>2. op.at \notin Touched BY DEF HostInv, HoldInv, OpProgress, Touched
<1> QED BY <1>1, <1>2 DEF HostInv, HoldInv, GateHeld, GoneInv, RestartShape

LEMMA StepProveIdle ==
  ASSUME HostInv, ProveIdle
  PROVE  HostInv'
<1> USE DEF HostInv
<1>1. /\ HostTypes /\ op.kind = "restart" /\ op.at = "idle" /\ Go("persist") /\ "persist" \in Places /\ EnsureStarted
      /\ UNCHANGED <<gate, adm, turn, service, entry, file, rst, condemned, reopened, auth, idx, misread>>
  BY DEF HoldInv, ProveIdle, RAt, Rest, Go, Places
<1>2. ProcessTypes' /\ (Stays \/ (Comes /\ ~host.up)) BY <1>1, Starts DEF Stays, Comes
<1>3. op \in Operations BY <1>1 DEF HostTypes
<1>4. /\ op' \in Operations /\ op'.at = "persist" /\ op'.kind = op.kind /\ op'.by = op.by /\ op'.seen = op.seen /\ op'.gen = op.gen
      /\ op'.live = op.live /\ op'.shut = op.shut /\ op'.force = op.force
  BY <1>1, <1>3, Goes DEF Go
<1>5. HostTypes' BY <1>1, <1>2, <1>4 DEF HostTypes
<1>6. OpProgress' /\ (op'.shut <=> op'.at \in Touched)
  BY <1>1, <1>4, RestartHolds DEF OpProgress, Touched
<1>7. \A t \in Turns : Draws(t) /\ Calls(t) BY <1>1 DEF Draws, Calls
<1>8. GateHeld' BY <1>1, <1>4, <1>6, <1>7, HoldGoes
<1>9. OpKnows' BY <1>1, <1>4 DEF OpKnows
<1>10. OpSaw' BY <1>1, Typed, <1>2, <1>4 DEF AccountInv, OpSaw, Stays, Comes
<1>12. MetaTrue' /\ ReadyTrue' /\ TurnsRunAsActive'
  BY <1>1, <1>2, <1>5, <1>7, RunsKeep DEF AccountInv
<1>13. ShutInv' BY <1>1, <1>4, ShutKeeps
<1>14. GoneInv' BY <1>1, <1>2, <1>4, GoneKeeps
<1> QED BY <1>5, <1>6, <1>8, <1>9, <1>10, <1>12, <1>13, <1>14 DEF HoldInv, AccountInv

LEMMA StepPersistIntent ==
  ASSUME HostInv, PersistIntent
  PROVE  HostInv'
<1> USE DEF HostInv
<1>1. /\ HostTypes /\ Stays /\ op.kind = "restart" /\ op.at \in {"persist", "plan"} /\ (Managed <=> host.up) /\ meta.gen = host.gen
      /\ UNCHANGED <<gate, adm, turn, host, meta, service, entry, reopened, auth, idx, misread>>
  BY Typed DEF HoldInv, PersistIntent, RAt, Rest, Stays
<1>2. PICK gen \in Nat : gen \in {0, host.gen} /\ (host.up => gen = host.gen) /\ op' = [op EXCEPT !.at = "halt", !.gen = gen]
  BY <1>1, Typed DEF PersistIntent, RAt
<1>3. /\ op' \in Operations /\ op'.at = "halt" /\ op'.kind = op.kind /\ op'.by = op.by /\ op'.seen = op.seen /\ op'.gen = gen
      /\ op'.live = op.live /\ op'.shut = op.shut /\ op'.force = op.force
  BY <1>1, <1>2 DEF HostTypes, Operations, Places
<1>4. file' = Snap(gen) /\ condemned' = condemned \cup ({gen} \ {0}) /\ rst' = IF op.force THEN Prepared(gen, FALSE) ELSE rst
  BY <1>3 DEF PersistIntent
<1>5. Snap(gen) \in Files /\ Snap(gen).kind = "snap" /\ Snap(gen).gen = gen /\ Snap(gen).stopped
  BY DEF Snap, Files
<1>6. /\ Prepared(gen, FALSE) \in Restarts /\ Prepared(gen, FALSE).asked = "no" /\ Prepared(gen, FALSE).prepared
      /\ Prepared(gen, FALSE).snap = Snap(gen)
  BY <1>5 DEF Prepared, Restarts
<1>7. HostTypes' BY <1>1, <1>3, <1>4, <1>5, <1>6 DEF HostTypes, ProcessTypes
<1>8. OpProgress' /\ (op'.shut <=> op'.at \in Touched)
  BY <1>1, <1>3, RestartHolds DEF OpProgress, Touched
<1>9. \A t \in Turns : Draws(t) BY <1>1 DEF Draws
<1>10. GateHeld' BY <1>1, <1>3, <1>8, <1>9, HoldGoes
<1>11. OpKnows' BY <1>1, <1>3 DEF OpKnows
<1>12. OpSaw' BY <1>1, <1>2, <1>3, Typed DEF AccountInv, OpSaw
<1>13. MetaTrue' /\ ReadyTrue' /\ TurnsRunAsActive'
  BY <1>1 DEF AccountInv, MetaTrue, ReadyTrue, RunsAs, TurnsRunAsActive, Running
<1>14. ShutInv' BY <1>1, <1>3, ShutKeeps
<1>15. entry = "closed" /\ ~rst.prepared BY <1>1, RestartHolds
<1>16. DoomedKnown'
  BY <1>1, <1>2, <1>3, <1>4, <1>5, <1>15 DEF DoomedKnown, Doomed, Halting
<1>17. RestartShape'
  <2>1. condemned' \subseteq 1..host'.gen /\ file'.gen <= host'.gen
    BY <1>1, <1>2, <1>4, <1>5, Typed DEF GoneInv, RestartShape
  <2>2. rst'.asked = "no" /\ (rst'.prepared => rst'.snap.gen = gen)
    BY <1>1, <1>4, <1>5, <1>6, <1>15, RestartHolds
  <2> QED BY <1>1, <1>3, <1>4, <1>5, <1>15, <2>1, <2>2 DEF RestartShape
<1>18. OldHostGone' BY <1>1, <1>15 DEF OldHostGone
<1> QED BY <1>7, <1>8, <1>10, <1>11, <1>12, <1>13, <1>14, <1>16, <1>17, <1>18 DEF HoldInv, AccountInv, GoneInv

\* A restart that returns frees the mutex; the gate opens over an unsafe record only if force took it.
LEMMA RestartReturns ==
  ASSUME HostInv, op.kind = "restart", HostTypes', op' = Idle, service' = "up",
         NEW ok \in BOOLEAN, gate' = Finish(ok), UNCHANGED <<idx, auth, misread>>,
         reopened' = (reopened \/ (op.force /\ gate'.state = "running")),
         Stays \/ Dies,
         \A t \in Turns : turn'[t] = Cut(t) \/ (Stays /\ turn'[t] = turn[t]),
         GoneInv'
  PROVE  HostInv'
<1> USE DEF HostInv
<1>1. HostTypes /\ service = "up" /\ ~op.shut /\ Dies => ~Comes BY DEF Dies, Comes
<1>2. GateHeld' /\ OpProgress' BY HoldFree
<1>3. AccountInv' BY RestIs, AccountStays DEF Calls, Cut
<1>4. ShutInv'
  BY Typed, Finishes, RestartHolds, ShutReturns DEF HoldInv, HostTypes, ShutInv, UnsafeHeld
<1> QED BY <1>2, <1>3, <1>4 DEF HoldInv

LEMMA StepBlocked ==
  ASSUME HostInv, Blocked
  PROVE  HostInv'
<1> USE DEF HostInv
<1>1. /\ HostTypes /\ Stays /\ op' = Idle /\ file' = NoFile /\ entry' = "open" /\ condemned' = condemned \ {op.gen}
      /\ UNCHANGED <<turn, host, meta, service, auth, idx, misread>> /\ service = "up"
      /\ reopened' = (reopened \/ (op.force /\ gate'.state = "running"))
  BY DEF HoldInv, Blocked, AtGate, RAt, Rest, Stays
<1>2. rst' \in Restarts /\ rst'.asked = "no" /\ rst'.prepared = rst.prepared /\ rst'.unsafe = rst.unsafe /\ rst'.snap = rst.snap
  BY <1>1 DEF HostTypes, Restarts, Blocked
<1>3. \/ op = Idle /\ rst.asked # "no" /\ UNCHANGED <<gate, adm>>
      \/ op.kind = "restart" /\ (op.at # "halt" \/ ~op.force) /\ gate' = Finish(TRUE) /\ adm' = "free"
  BY FreeIsIdle DEF AtGate, RAt, Blocked
<1>4. reopened' \in BOOLEAN BY <1>1, Typed DEF HostTypes
<1>5. HostTypes' BY <1>1, <1>3, Finishes, <1>2, <1>4, RestIs DEF HostTypes, ProcessTypes
<1>6. ~Doomed' BY <1>1, <1>3 DEF GoneInv, DoomedKnown, RestartShape, Halting, Doomed
<1>7. ~rst.prepared BY <1>3, RestartHolds DEF GoneInv, RestartShape
<1>8. GoneInv'
  <2>1. DoomedKnown' BY <1>6 DEF DoomedKnown
  <2>2. condemned' \subseteq 1..host'.gen /\ file'.gen <= host'.gen
    <3>1. host'.gen = host.gen /\ host.gen \in Nat /\ file'.gen = 0
      BY <1>1, RestIs, Typed
    <3>2. condemned' \subseteq condemned /\ condemned \subseteq 1..host.gen
      BY <1>1 DEF GoneInv, RestartShape
    <3> QED BY <3>1, <3>2
  <2>3. RestartShape' BY <1>1, <1>2, <1>7, <2>2, RestIs DEF RestartShape
  <2>4. OldHostGone' BY <1>6 DEF OldHostGone, Doomed
  <2> QED BY <2>1, <2>3, <2>4 DEF GoneInv
<1>9. CASE op = Idle /\ UNCHANGED <<gate, adm>>
  BY <1>1, <1>9, HoldFree, <1>5, AccountStays, RestIs, <1>8 DEF Calls, HostTypes, ShutInv, UnsafeHeld, UnsafeStaysShut, HoldInv
<1>10. CASE op.kind = "restart" /\ gate' = Finish(TRUE)
  BY <1>1, <1>5, <1>8, <1>10, RestartReturns
<1> QED BY <1>3, <1>9, <1>10

\* What the two ends of a restart that got as far as the host share.
LEMMA Halted ==
  ASSUME HostInv, op.kind = "restart", op.at = "halt", NEW unsafe \in BOOLEAN, NEW ok \in BOOLEAN,
         IF host.up /\ host'.up # host.up THEN Stopped ELSE UNCHANGED <<host, meta, turn>>,
         rst' = Prepared(op.gen, unsafe), gate' = Finish(ok), adm' = "free", op' = Idle,
         reopened' = (reopened \/ (op.force /\ gate'.state = "running")),
         UNCHANGED <<service, entry, file, condemned, auth, idx, misread>>
  PROVE  HostInv'
<1> USE DEF HostInv
<1>1. HostTypes /\ op.gen \in Nat /\ reopened \in BOOLEAN /\ op.force \in BOOLEAN
  BY Typed DEF HoldInv, HostTypes
<1>2. /\ ProcessTypes' /\ turn' \in [Turns -> TurnStates] /\ (Stays \/ Dies)
      /\ \A t \in Turns : turn'[t] = Cut(t) \/ (Stays /\ turn'[t] = turn[t])
  BY <1>1, Stops DEF Dies, HostTypes, ProcessTypes, Stays
<1>3. /\ rst' \in Restarts /\ rst'.asked = "no" /\ rst'.prepared /\ rst'.snap.gen = op.gen
  BY <1>1 DEF Snap, Files, Prepared, Restarts
<1>4. HostTypes' BY <1>1, Finishes, <1>2, <1>3, RestIs DEF HostTypes
<1>5. entry = "closed" /\ service = "up" BY RestartHolds
<1>6. host'.gen = host.gen /\ (host'.up => host.up) BY <1>2 DEF Stays, Dies
<1>7. Doomed' => Doomed BY <1>6 DEF Doomed
<1>8. DoomedKnown' BY <1>5, RestartHolds, <1>3, <1>6, <1>7 DEF GoneInv, DoomedKnown
<1>9. RestartShape' BY <1>3, <1>5, <1>6, RestIs DEF GoneInv, RestartShape
<1>10. GoneInv' BY <1>5, <1>8, <1>9 DEF GoneInv, OldHostGone
<1> QED BY <1>2, <1>4, <1>5, <1>10, RestartReturns

LEMMA StepHaltHost ==
  ASSUME HostInv, HaltHost
  PROVE  HostInv'
<1>1. /\ op.kind = "restart" /\ op.at = "halt" /\ rst' = Prepared(op.gen, FALSE) /\ gate' = Finish(FALSE) /\ adm' = "free"
      /\ op' = Idle /\ UNCHANGED <<service, entry, file, condemned, reopened, auth, idx, misread>>
      /\ IF host.up THEN Stopped ELSE UNCHANGED <<host, meta, turn>>
  BY DEF HaltHost, RAt, Rest
<1>2. HostTypes BY DEF HostInv, HoldInv
<1>3. IF host.up /\ host'.up # host.up THEN Stopped ELSE UNCHANGED <<host, meta, turn>>
  BY <1>1, <1>2, Stops
<1>4. reopened' = (reopened \/ (op.force /\ gate'.state = "running"))
  BY <1>1, <1>2, Finishes DEF HostTypes
<1> QED BY <1>1, <1>3, <1>4, Halted

LEMMA StepHaltUnknown ==
  ASSUME HostInv, NEW stopped \in BOOLEAN, HaltUnknown(stopped)
  PROVE  HostInv'
<1>1. /\ op.kind = "restart" /\ op.at = "halt" /\ rst' = Prepared(op.gen, TRUE) /\ gate' = Finish(op.force) /\ adm' = "free"
      /\ op' = Idle /\ UNCHANGED <<service, entry, file, condemned, auth, idx, misread>>
      /\ reopened' = (reopened \/ (op.force /\ gate'.state = "running"))
      /\ IF stopped /\ host.up THEN Stopped ELSE UNCHANGED <<host, meta, turn>>
  BY DEF HaltUnknown, RAt, Rest
<1>2. HostTypes /\ op.force \in BOOLEAN BY Typed DEF HostInv, HoldInv
<1>3. IF host.up /\ host'.up # host.up THEN Stopped ELSE UNCHANGED <<host, meta, turn>>
  BY <1>1, <1>2, Stops
<1> QED BY <1>1, <1>2, <1>3, Halted

LEMMA StepForceComplete ==
  ASSUME HostInv, NEW ok \in BOOLEAN, ForceComplete(ok)
  PROVE  HostInv'
<1> USE DEF HostInv
<1>1. /\ HostTypes /\ op = Idle /\ op' = Idle /\ service = "up"
      /\ IF host.up /\ ok THEN Stopped ELSE UNCHANGED <<host, meta, turn>>
      /\ UNCHANGED <<gate, adm, op, service, entry, file, condemned, reopened, auth, idx, misread>>
  BY FreeIsIdle DEF HoldInv, ForceComplete, Rest
<1>2. rst' \in Restarts /\ rst'.prepared = rst.prepared /\ rst'.asked = rst.asked /\ rst'.snap = rst.snap
  BY <1>1 DEF ForceComplete, HostTypes, Restarts
<1>3. /\ ProcessTypes' /\ turn' \in [Turns -> TurnStates] /\ (Stays \/ Dies)
      /\ \A t \in Turns : turn'[t] = Cut(t) \/ (Stays /\ turn'[t] = turn[t])
  BY <1>1, Stops DEF Dies, HostTypes, ProcessTypes, Stays
<1>4. HostTypes' BY <1>1, <1>2, <1>3 DEF HostTypes
<1>5. GateHeld' /\ OpProgress' BY <1>1, HoldFree
<1>6. AccountInv' BY <1>3, RestIs, <1>1, <1>4, AccountStays DEF Calls, Cut
<1>7. ShutInv' BY <1>1, ShutKeeps
<1>8. host'.gen = host.gen /\ (host'.up => host.up) /\ op.kind # "restart"
  BY <1>1, <1>3, RestIs DEF Stays, Dies
<1>9. DoomedKnown' BY <1>1, <1>2, <1>8 DEF GoneInv, DoomedKnown, Doomed, Halting
<1>10. RestartShape' /\ OldHostGone'
  BY <1>1, <1>2, <1>8 DEF GoneInv, RestartShape, OldHostGone
<1> QED BY <1>4, <1>5, <1>6, <1>7, <1>9, <1>10 DEF HoldInv, GoneInv

LEMMA StepCancelRuntimeRestart ==
  ASSUME HostInv, CancelRuntimeRestart
  PROVE  HostInv'
<1> USE DEF HostInv
<1>1. /\ HostTypes /\ op = Idle /\ op' = Idle /\ service = "up" /\ service' = "up" /\ rst.prepared /\ Replaced(rst.snap.gen)
      /\ gate' = Reopened /\ rst' = NoRestart /\ file' = NoFile /\ entry' = "open"
      /\ reopened' = (reopened \/ idx.status \in Unsafe)
      /\ UNCHANGED <<adm, condemned, auth, idx, misread>>
  BY FreeIsIdle DEF HoldInv, CancelRuntimeRestart, Rest
<1>2. /\ ProcessTypes' /\ turn' \in [Turns -> TurnStates] /\ (Stays \/ Comes)
      /\ Stays => \A t \in Turns : Calls(t)
      /\ ~Stays => \A t \in Turns : turn'[t] = Cut(t)
      /\ Stays => host.up /\ (rst.snap.gen = 0 \/ host.gen # rst.snap.gen)
  BY <1>1, Replaces, Typed DEF Comes, Stays, Calls
<1>3. HostTypes' BY <1>1, <1>2, RestIs DEF Reopened, Gates, HostTypes
<1>4. GateHeld' /\ OpProgress' BY <1>1, HoldFree
<1>5. AccountInv' BY <1>1, <1>2, <1>3, AccountStays
<1>6. ShutInv' BY <1>1, ShutReturns DEF HostTypes
<1>7. op.kind # "restart" /\ host.gen \in Nat /\ host.gen > 0 BY <1>1, RestIs, Typed
<1>8. ~Doomed'
  BY <1>1, <1>7, <1>2 DEF GoneInv, RestartShape, Doomed, Comes, DoomedKnown, Halting, Stays
<1>9. RestartShape' BY <1>2, <1>7, <1>1, RestIs DEF Stays, Comes, GoneInv, RestartShape
<1>10. GoneInv' BY <1>8, <1>9 DEF GoneInv, DoomedKnown, OldHostGone, Doomed
<1> QED BY <1>3, <1>4, <1>5, <1>6, <1>10 DEF HoldInv

LEMMA StepServiceStops ==
  ASSUME HostInv, ServiceStops
  PROVE  HostInv'
<1> USE DEF HostInv
<1>1. /\ HostTypes /\ Stays /\ service' = "down" /\ entry' = "closed" /\ adm' = "free" /\ op' = Idle /\ rst' = NoRestart
      /\ turn' = [t \in Turns |-> Waiting] /\ gate' = [state |-> "failed", cause |-> TRUE]
      /\ UNCHANGED <<host, meta, file, condemned, reopened, auth, idx, misread>>
  BY DEF HoldInv, ServiceStops, Rest, Stays
<1>2. turn' \in [Turns -> TurnStates] /\ \A t \in Turns : turn'[t].stage = "off"
  BY <1>1, RestIs
<1>3. HostTypes' BY <1>1, <1>2, RestIs DEF HostTypes, ProcessTypes, Gates
<1>4. GateHeld' /\ OpProgress' BY <1>1, <1>2, RestIs DEF GateHeld, OpProgress
<1>5. AccountInv' BY <1>1, <1>2, <1>3, AccountStays DEF Calls
<1>6. ShutInv' BY <1>1 DEF ShutInv, UnsafeHeld, UnsafeStaysShut
<1>7. GoneInv'
  BY <1>1, RestIs DEF GoneInv, DoomedKnown, RestartShape, OldHostGone, Doomed
<1> QED BY <1>3, <1>4, <1>5, <1>6, <1>7 DEF HoldInv

LEMMA StepBoot ==
  ASSUME HostInv, Boot
  PROVE  HostInv'
<1> USE DEF HostInv
<1>1. /\ HostTypes /\ Stays /\ service = "down" /\ service' = "booting" /\ gate' = FirstGate /\ reopened' = FALSE
      /\ UNCHANGED <<adm, turn, host, meta, op, entry, file, rst, condemned, auth, idx, misread>>
  BY DEF HoldInv, Boot, Rest, Stays
<1>2. gate' \in Gates /\ (idx.status \in Unsafe => gate'.state = "failed")
  BY <1>1 DEF FirstGate, Gates
<1>3. HostTypes' BY <1>1, <1>2 DEF HostTypes, ProcessTypes
<1>4. op = Idle /\ op' = Idle BY <1>1 DEF HoldInv, GateHeld
<1>5. GateHeld' /\ OpProgress' BY <1>1, <1>4, RestIs DEF HoldInv, GateHeld, OpProgress
<1>6. AccountInv' BY <1>1, <1>3, <1>4, AccountStays DEF Calls
<1>7. ShutInv' BY <1>1, <1>2 DEF ShutInv, UnsafeHeld, UnsafeStaysShut
<1>8. GoneInv' BY <1>1 DEF GoneInv, DoomedKnown, RestartShape, OldHostGone, Doomed
<1> QED BY <1>3, <1>5, <1>6, <1>7, <1>8 DEF HoldInv

LEMMA StepRecoverRuntimeRestart ==
  ASSUME HostInv, RecoverRuntimeRestart
  PROVE  HostInv'
<1> USE DEF HostInv
<1> DEFINE gen == IF file.stopped THEN file.gen ELSE 0
<1>1. /\ HostTypes /\ service = "booting" /\ service' = "up" /\ entry' = "open" /\ file' = NoFile
      /\ IF file.kind = "none" THEN UNCHANGED <<host, meta, turn>> ELSE Replaced(gen)
      /\ UNCHANGED <<gate, adm, op, rst, condemned, reopened, auth, idx, misread>>
  BY DEF HoldInv, RecoverRuntimeRestart, Rest
<1>2. op = Idle /\ op' = Idle /\ rst = NoRestart /\ \A t \in Turns : turn[t].stage = "off"
  BY <1>1 DEF HoldInv, GateHeld
<1>3. /\ ProcessTypes' /\ turn' \in [Turns -> TurnStates] /\ (Stays \/ Comes)
      /\ \A t \in Turns : turn'[t] = turn[t]
      /\ Stays => (file.kind = "none" \/ gen = 0 \/ host.gen # gen)
  <2>1. CASE file.kind = "none" BY <1>1, <2>1 DEF HostTypes, ProcessTypes, Stays
  <2>2. CASE file.kind # "none"
    <3>1. /\ ProcessTypes' /\ turn' \in [Turns -> TurnStates]
          /\ \/ host.up /\ (gen = 0 \/ host.gen # gen) /\ UNCHANGED <<host, meta, turn>>
             \/ Comes /\ \A t \in Turns : turn'[t] = Cut(t)
      BY <1>1, <2>2, Replaces DEF Comes
    <3>2. Comes => ~Stays BY <1>1, Typed DEF Comes, Stays
    <3> HIDE DEF gen
    <3> QED BY <1>2, <3>1, <3>2 DEF Stays, Cut
  <2> QED BY <2>1, <2>2
<1>4. HostTypes' BY <1>1, <1>3, RestIs DEF HostTypes
<1>5. GateHeld' /\ OpProgress' BY <1>1, <1>2, HoldFree
<1>6. AccountInv' BY <1>1, <1>2, <1>3, <1>4, AccountStays DEF Calls
<1>7. ShutInv' BY <1>1, <1>2, ShutReturns DEF ShutInv, UnsafeHeld
<1>8. host.gen \in Nat /\ host.gen > 0 BY <1>1, Typed
<1>9. ~Doomed'
  BY <1>1, <1>8, <1>3 DEF GoneInv, RestartShape, Doomed, Comes, DoomedKnown, Stays
<1>10. RestartShape'
  BY <1>3, <1>8, <1>1, <1>2, RestIs DEF Stays, Comes, GoneInv, RestartShape
<1>11. GoneInv' BY <1>9, <1>10 DEF GoneInv, DoomedKnown, OldHostGone, Doomed
<1> QED BY <1>4, <1>5, <1>6, <1>7, <1>11 DEF HoldInv

--------------------
(* The host is stopped with the service down.                              *)

\* What a step with the service down leaves of the rest.
LEMMA OfflineKeeps ==
  ASSUME HostInv, service = "down", HostTypes', Stays \/ Dies, \A t \in Turns : turn'[t] = turn[t] \/ turn'[t] = Cut(t),
         UNCHANGED <<gate, adm, op, service, entry, rst, reopened, auth, idx, misread>>, GoneInv'
  PROVE  HostInv'
<1> USE DEF HostInv
<1>1. op = Idle /\ op' = Idle /\ HostTypes /\ \A t \in Turns : turn[t].stage = "off"
  BY DEF HoldInv, GateHeld
<1>2. \A t \in Turns : turn'[t] = turn[t] BY <1>1 DEF Cut
<1>3. GateHeld' /\ OpProgress' BY <1>2, HoldKeeps DEF Draws
<1>4. AccountInv' BY <1>1, <1>2, AccountStays DEF Calls
<1>5. ShutInv' BY ShutKeeps
<1> QED BY <1>3, <1>4, <1>5 DEF HoldInv

LEMMA StepOfflineForce ==
  ASSUME HostInv, OfflineForce
  PROVE  HostInv'
<1> USE DEF HostInv
<1> DEFINE g == IF file.gen # 0 THEN file.gen ELSE IF Managed THEN meta.gen ELSE 0
<1>1. /\ HostTypes /\ Stays /\ service = "down" /\ file' = [kind |-> "pending", gen |-> g, stopped |-> TRUE]
      /\ condemned' = condemned \cup ({g} \ {0})
      /\ UNCHANGED <<gate, adm, turn, host, meta, op, service, entry, rst, reopened, auth, idx, misread>>
  BY DEF HoldInv, OfflineForce, Rest, Stays
<1>2. host.gen \in Nat /\ host.gen > 0 /\ (Managed <=> host.up) /\ meta.gen = host.gen /\ file.gen \in Nat
  BY <1>1, Typed
<1>3. g \in Nat /\ g <= host.gen BY <1>2 DEF GoneInv, RestartShape
<1>4. file.gen # 0 => g = file.gen OBVIOUS
<1> HIDE DEF g
<1>5. file' \in Files /\ file'.kind = "pending" /\ file'.gen = g /\ file'.stopped
  BY <1>1, <1>3 DEF Files
<1>6. HostTypes' BY <1>1, <1>5 DEF HostTypes, ProcessTypes
<1>7. DoomedKnown' BY <1>2, <1>4, <1>1, <1>5 DEF GoneInv, DoomedKnown, Doomed
<1>8. RestartShape' BY <1>1, <1>2, <1>3, <1>5 DEF GoneInv, RestartShape
<1>9. GoneInv' BY <1>1, <1>7, <1>8 DEF GoneInv, OldHostGone
<1> QED BY <1>1, <1>6, <1>9, OfflineKeeps

LEMMA StepOfflineStopped ==
  ASSUME HostInv, OfflineStopped
  PROVE  HostInv'
<1> USE DEF HostInv
<1>1. /\ HostTypes /\ service = "down" /\ file.kind = "pending" /\ file' = [file EXCEPT !.kind = "snap"]
      /\ IF host.up THEN Stopped ELSE UNCHANGED <<host, meta, turn>>
      /\ UNCHANGED <<gate, adm, op, service, entry, rst, condemned, reopened, auth, idx, misread>>
  BY DEF HoldInv, OfflineStopped, Rest
<1>2. /\ ProcessTypes' /\ turn' \in [Turns -> TurnStates] /\ (Stays \/ Dies) /\ ~host'.up
      /\ \A t \in Turns : turn'[t] = turn[t] \/ turn'[t] = Cut(t)
  BY <1>1, Stops DEF Dies, HostTypes, ProcessTypes, Stays
<1>3. file' \in Files /\ file'.kind = "snap" /\ file'.gen = file.gen /\ file'.stopped = file.stopped
  BY <1>1 DEF HostTypes, Files
<1>4. HostTypes' BY <1>1, <1>2, <1>3 DEF HostTypes
<1>5. host'.gen = host.gen BY <1>2 DEF Stays, Dies
<1>6. GoneInv'
  BY <1>1, <1>2, <1>3, <1>5 DEF GoneInv, DoomedKnown, RestartShape, OldHostGone, Doomed
<1> QED BY <1>1, <1>2, <1>4, <1>6, OfflineKeeps

--------------------
(* The theorems.                                                           *)

LEMMA HostStarts ==
  ASSUME HostInit
  PROVE  HostInv
<1>1. /\ gate = [state |-> "running", cause |-> FALSE] /\ adm = "free" /\ turn = [t \in Turns |-> Waiting] /\ auth \in Accounts
      /\ host = [up |-> TRUE, gen |-> 1, acct |-> auth] /\ meta = [gen |-> 1, running |-> TRUE, profile |-> auth]
      /\ idx \in [saved : {S \in SUBSET Accounts : auth \in S}, active : {auth}, status : {"success"}]
      /\ op = Idle /\ service = "up" /\ entry = "open" /\ file = NoFile /\ rst = NoRestart
      /\ condemned = {} /\ misread = {} /\ reopened = FALSE
  BY DEF HostInit
<1>2. turn \in [Turns -> TurnStates] /\ \A t \in Turns : turn[t].stage = "off"
  BY <1>1, RestIs
<1>3. host \in Hosts /\ host.gen = 1 /\ host.up /\ host.acct = auth BY <1>1 DEF Hosts
<1>4. meta \in Records /\ meta.gen = 1 /\ meta.running /\ meta.profile = auth
  BY <1>1 DEF Records, MaybeAccount
<1>5. idx \in Indexes /\ idx.status = "success" BY <1>1 DEF Indexes, Statuses
<1>6. gate \in Gates BY <1>1 DEF Gates
<1>7. HostTypes
  BY <1>1, <1>2, <1>3, <1>4, <1>5, <1>6, RestIs DEF HostTypes, ProcessTypes
<1>8. GateHeld /\ OpProgress BY <1>1, RestIs DEF GateHeld, OpProgress
<1>9. OpKnows /\ OpSaw BY <1>1, <1>3, RestIs DEF OpKnows, OpSaw
<1>10. MetaTrue /\ ReadyTrue /\ TurnsRunAsActive
  BY <1>2, <1>3, <1>4 DEF MetaTrue, ReadyTrue, RunsAs, TurnsRunAsActive, Running
<1>11. ShutInv BY <1>5 DEF ShutInv, UnsafeHeld, UnsafeStaysShut, Unsafe
<1>12. GoneInv
  BY <1>1, <1>3, RestIs DEF GoneInv, DoomedKnown, RestartShape, OldHostGone, Doomed
<1> QED BY <1>7, <1>8, <1>9, <1>10, <1>11, <1>12 DEF HostInv, HoldInv, AccountInv

LEMMA HostStutters ==
  ASSUME HostInv, UNCHANGED hostVars
  PROVE  HostInv'
BY DEF HostInv, hostVars, HoldInv, HostTypes, ProcessTypes, GateHeld, OpProgress, AccountInv, OpKnows, OpSaw, MetaTrue, ReadyTrue,
       RunsAs, TurnsRunAsActive, Running, ShutInv, UnsafeHeld, UnsafeStaysShut, GoneInv, DoomedKnown, RestartShape, OldHostGone,
       Doomed, Halting

LEMMA HostTurns ==
  ASSUME HostInv, HostNext
  PROVE  HostInv'
BY StepHostDies, StepOtherStarts, StepAppLogin, StepTurnResolve, StepTurnAccountChecked, StepTurnSynced, StepTurnAcquire,
   StepTurnValidate, StepTurnWrite, StepTurnEnd DEF HostNext

LEMMA HostSwitches ==
  ASSUME HostInv, SwitchNext
  PROVE  HostInv'
<1>1. ASSUME NEW a \in Accounts, UseCodexAccount(a)
      PROVE  HostInv'
  BY <1>1, StepBegin DEF MaybeAccount, UseCodexAccount
<1>2. ASSUME SaveCodexAccount
      PROVE  HostInv'
  BY <1>2, StepBegin DEF SaveCodexAccount, MaybeAccount
<1>3. ASSUME Declined \/ Unavailable
      PROVE  HostInv'
  BY <1>3, StepRefuse DEF Declined, Unavailable
<1>4. ASSUME NEW ok \in BOOLEAN,
             \/ RecordSame(ok) \/ RecordStuck(ok) \/ StopHost(ok) \/ WriteAuth(ok) \/ StartHost(ok) \/ VerifyHost(ok) \/ Commit(ok)
             \/ Defer(ok) \/ RolledBack(ok) \/ RollbackFails(ok)
      PROVE  HostInv'
  BY <1>4, StepRecordSame, StepRecordStuck, StepStopHost, StepWriteAuth, StepStartHost, StepVerifyHost, StepCommit, StepDefer,
     StepRolledBack, StepRollbackFails
<1> QED
  BY <1>1, <1>2, <1>3, <1>4, StepUseOffline, StepRemoveCodexAccount, StepCheckIdle, StepReadLive, StepReadMeta, StepCompare,
     StepTakeLock, StepJournal, StepRestoreAuth, StepRestartOld DEF SwitchNext

LEMMA HostRestarts ==
  ASSUME HostInv, RestartNext
  PROVE  HostInv'
BY StepPrepareRuntimeRestart, StepTakeGate, StepProveIdle, StepPersistIntent, StepBlocked, StepHaltHost, StepHaltUnknown,
   StepForceComplete, StepCancelRuntimeRestart, StepServiceStops, StepBoot, StepRecoverRuntimeRestart, StepOfflineForce,
   StepOfflineStopped DEF RestartNext

THEOREM HostInvariant == CodexHostSpec => []HostInv
<1>1. HostInv /\ [CodexHostNext]_hostVars => HostInv'
  BY HostTurns, HostSwitches, HostRestarts, HostStutters DEF CodexHostNext
<1> QED BY <1>1, HostStarts, PTL DEF CodexHostSpec

\* Whatever switch or restart was cut short, a turn written to the host it was checked on runs as the active account, an unsafe
\* end keeps the gate shut, and messages are let in only to a host no restart recorded as stopped (TurnsRunAsActive, UnsafeStaysShut, OldHostGone).
THEOREM HostSafe == CodexHostSpec => []HostSound
<1>1. HostInv => HostSound BY DEF HostInv, AccountInv, ShutInv, GoneInv, HostSound
<1> QED BY <1>1, HostInvariant, PTL

\* Neither a switch nor an idle restart stops the host under a turn that runs, or was checked on it and is about to be
\* written: without force an operation holds the gate only once the permits are back.
THEOREM NoTurnIsCut == CodexHostSpec => NoTurnCut
<1>1. ASSUME HostInv, op.kind \in {"use", "sync", "restart"}, ~op.force
      PROVE  \A t \in Turns : turn[t].stage \notin {"ready", "running"}
  BY <1>1 DEF HostInv, HoldInv, GateHeld, Granted
<1>2. HostInv /\ [CodexHostNext]_hostVars
        => [op.kind \in {"use", "sync", "restart"} /\ ~op.force /\ host.up /\ ~host'.up /\ upsets' = upsets
            => \A t \in Turns : turn[t].stage \notin {"ready", "running"}]_hostVars
  BY <1>1
<1> QED BY <1>2, HostInvariant, PTL DEF CodexHostSpec, NoTurnCut

--------------------
(* The Claude windows.                                                     *)

\* The jobs, and the values of a window and of a job.
WhoJobs == DOMAIN ccPlan
MaybeSession == CcSessions \cup {None}
BindingStatuses == {"unbound", "ready", "pending", "failed"}
Bindings == [home : Homes, sess : MaybeSession, status : BindingStatuses, rev : Nat]
JobRecords == [at : {"todo", "create", "restore", "rebind", "follow", "clear", "admitted", "resolve", "resume",
                     "send", "writing", "leaving", "over"},
               sess : MaybeSession, rev : Nat, home : Homes, was : Bindings, before : MaybeSession,
               touches : MaybeSession]
Holders == {Nobody} \cup WhoJobs

WindowShape ==
  /\ ccPlan \in CcPlans
  /\ windowBound \in [CcWindows -> Bindings]
  /\ windowDisk \in [CcWindows -> Bindings]
  /\ hostFollows \in [CcWindows \X Homes -> MaybeSession]
  /\ ccExisting \subseteq CcSessions
  /\ bindingLock \in [CcWindows -> Holders]
  /\ controlLock \in [CcSessions -> Holders]
  /\ writerLock \in [CcSessions -> Holders]
  /\ active \in [CcSessions -> Holders]
  /\ jobs \in [WhoJobs -> JobRecords]

\* Commands that hold the window's binding lock, messages that are not sent yet, and
\* commands that would put the host back.
Rebinds(j) == Stage(j) \in {"create", "restore", "rebind", "follow", "clear"}
Underway(j) == Stage(j) \in {"admitted", "resolve", "resume", "send"}
Reverts(j) == Stage(j) \in {"create", "restore"} \/ (Stage(j) = "rebind" /\ Job(j).does = "new")

\* The host's conversation of a window that is ready does not follow another session.
Follows(w, b) == hostFollows[<<w, b.home>>] \in {None, b.sess}
HostTrue(w) == windowBound[w].status = "ready" /\ windowBound[w].sess # None => Follows(w, windowBound[w])

\* A command holds the binding lock of its window; one that may have to put the host
\* back knows what the window's binding says; one that has committed does not call the
\* window ready before the host follows.
RebinderRight(j) ==
  /\ Rebinds(j) => /\ Job(j).does \in {"switch", "new", "cd", "cwd"}
                   /\ jobs[j].sess \in CcSessions
                   /\ bindingLock[Job(j).w] = j
  /\ Stage(j) \in {"create", "restore"} => Job(j).does = "new"
  /\ Reverts(j) /\ Bound(j).status = "ready" /\ Bound(j).sess # None =>
       /\ jobs[j].home = Bound(j).home
       /\ jobs[j].before \in {None, Bound(j).sess}
  /\ Stage(j) = "follow" => Bound(j).sess = jobs[j].sess /\ Bound(j).status # "ready"
  /\ Stage(j) \in {"follow", "clear"} => Bound(j).home = jobs[j].home

\* A message on its way is the active task of the session it was admitted for, to which
\* its window is still bound; once it is to be sent, the host follows that session or none.
MessageRight(j) ==
  /\ Underway(j) => /\ Job(j).does \in {"message", "broadcast"}
                    /\ jobs[j].sess \in CcSessions
                    /\ active[jobs[j].sess] = j
                    /\ Bound(j).sess = jobs[j].sess
  /\ Stage(j) \in {"resolve", "resume", "send"} => writerLock[jobs[j].sess] = j
  /\ Stage(j) = "resume" => bindingLock[Job(j).w] = j /\ jobs[j].home = Bound(j).home
  /\ Stage(j) = "send" => jobs[j].home = Bound(j).home /\ Follows(Job(j).w, Bound(j))

\* Each writer holds two of three locks, so that any two writers share one.
WriterRight(j) ==
  Stage(j) = "writing" =>
    /\ jobs[j].touches = jobs[j].sess /\ jobs[j].sess \in CcSessions
    /\ Job(j).does \in {"message", "broadcast", "setting", "rename"}
    /\ Job(j).does # "rename" => active[jobs[j].sess] = j
    /\ Job(j).does # "setting" => writerLock[jobs[j].sess] = j
    /\ Job(j).does \in {"setting", "rename"} => controlLock[jobs[j].sess] = j

JobRight(j) == RebinderRight(j) /\ MessageRight(j) /\ WriterRight(j)
\* While a command is at a window none of its messages is on its way.
Alone == \A j, i \in WhoJobs : Rebinds(j) /\ Underway(i) => Job(i).w # Job(j).w
WindowRight(w) == HostTrue(w) \/ \E j \in WhoJobs : Job(j).w = w /\ Reverts(j)

\* The inductive invariant of the windows.
WindowsInvariant ==
  /\ WindowShape
  /\ \A j \in WhoJobs : JobRight(j)
  /\ Alone
  /\ \A w \in CcWindows : WindowRight(w)
  /\ SentWhereAdmitted

\* What a step of job j leaves to the other jobs: their record, and every lock they hold.
SparesOthers(j) ==
  /\ \A k \in WhoJobs \ {j} : jobs'[k] = jobs[k]
  /\ \A w \in CcWindows : bindingLock[w] \notin {Nobody, j} => bindingLock'[w] = bindingLock[w]
  /\ \A s \in CcSessions :
       /\ controlLock[s] \notin {Nobody, j} => controlLock'[s] = controlLock[s]
       /\ writerLock[s] \notin {Nobody, j} => writerLock'[s] = writerLock[s]
       /\ active[s] \notin {Nobody, j} => active'[s] = active[s]

\* A window's binding and the host's conversations of it stay.
SameWindow(w) ==
  /\ windowBound'[w] = windowBound[w]
  /\ \A h \in Homes : hostFollows'[<<w, h>>] = hostFollows[<<w, h>>]
\* What changes a window holds its binding lock, and is a command or keeps the session.
ChangesWindow(j) ==
  /\ Rebinds(j) \/ Stage(j) = "resume"
  /\ \A w \in CcWindows \ {Job(j).w} : SameWindow(w)
\* Who begins to rebind finds no message of the window under way, and who admits a
\* message no command.
Enters(j) ==
  /\ Rebinds(j)' => Rebinds(j) \/ \A i \in WhoJobs : Underway(i) => Job(i).w # Job(j).w
  /\ Underway(j)' => Underway(j) \/ bindingLock[Job(j).w] = Nobody
Lands(j) == \A l \in landed' : l \in landed \/ l.in = l.meant

JobStep(j) ==
  /\ WindowShape' /\ ccPlan' = ccPlan
  /\ SparesOthers(j)
  /\ (\A w \in CcWindows : SameWindow(w)) \/ ChangesWindow(j)
  /\ Enters(j)
  /\ JobRight(j)'
  /\ \A w \in CcWindows : w = Job(j).w => WindowRight(w)'
  /\ Lands(j)

--------------------
\* Jobs are numbered from one, and name windows and sessions.
LEMMA JobsAreNumbered ==
  ASSUME WindowShape
  PROVE  /\ WhoJobs \subseteq Nat \ {0} /\ Nobody \notin WhoJobs
         /\ \A j \in WhoJobs :
              /\ Job(j).w \in CcWindows /\ Job(j).s \in CcSessions
              /\ Job(j).does \in {"switch", "new", "cd", "cwd", "message", "broadcast", "setting", "rename"}
              /\ jobs[j] \in JobRecords /\ windowBound[Job(j).w] \in Bindings
<1> DEFINE JobKinds == {"switch", "new", "cd", "cwd", "message", "broadcast", "setting", "rename"}
           Ops == [does : JobKinds, w : CcWindows, s : CcSessions]
<1>1. ccPlan \in Seq(Ops) BY CcAssumption DEF WindowShape
<1>2. DOMAIN ccPlan = 1..Len(ccPlan) /\ Len(ccPlan) \in Nat /\ \A j \in DOMAIN ccPlan : ccPlan[j] \in Ops
  <2>1. Len(ccPlan) \in Nat /\ ccPlan \in [1..Len(ccPlan) -> Ops] BY <1>1, LenProperties
  <2> QED BY <2>1
<1>3. \A j \in WhoJobs : ccPlan[j].w \in CcWindows /\ ccPlan[j].s \in CcSessions /\ ccPlan[j].does \in JobKinds
  BY <1>2 DEF WhoJobs
<1> QED BY <1>2, <1>3 DEF WhoJobs, Job, WindowShape, Nobody

\* The workspace of a session is one.
LEMMA HomeIsHome == \A s \in CcSessions : CcHome[s] \in Homes
  BY DEF Homes

\* One message of a window is on its way at a time.
LEMMA OneUnderway ==
  ASSUME WindowShape, \A j \in WhoJobs : JobRight(j),
         NEW j \in WhoJobs, NEW k \in WhoJobs, Underway(j), Underway(k), Job(j).w = Job(k).w
  PROVE  j = k
  BY DEF JobRight, MessageRight, Bound

\* A job that another one's step spares stays right.
LEMMA OthersStayRight ==
  ASSUME WindowShape, \A j \in WhoJobs : JobRight(j), Alone, NEW j \in WhoJobs, JobStep(j),
         NEW k \in WhoJobs, k # j
  PROVE  JobRight(k)'
<1>0. Nobody \notin WhoJobs /\ Job(k).w \in CcWindows /\ Job(j).w \in CcWindows /\ jobs[k] \in JobRecords
      /\ windowBound[Job(k).w] \in Bindings
  BY JobsAreNumbered
<1> PICK wk \in CcWindows : wk = Job(k).w BY <1>0
<1>1. jobs'[k] = jobs[k] /\ Job(k)' = Job(k) BY DEF JobStep, SparesOthers, Job
<1>2. /\ bindingLock[wk] = k => bindingLock'[wk] = k
      /\ \A s \in CcSessions : /\ controlLock[s] = k => controlLock'[s] = k
                               /\ writerLock[s] = k => writerLock'[s] = k
                               /\ active[s] = k => active'[s] = k
  BY <1>0 DEF JobStep, SparesOthers
<1>3. Stage(k)' = Stage(k) BY <1>1 DEF Stage
<1>4. (Rebinds(k)' <=> Rebinds(k)) /\ (Underway(k)' <=> Underway(k)) /\ (Reverts(k)' <=> Reverts(k))
  BY <1>3, <1>1 DEF Rebinds, Underway, Reverts, Stage, Job
<1>5. Rebinds(k) \/ Underway(k) => SameWindow(wk)
  BY OneUnderway DEF ChangesWindow, JobRight, RebinderRight, MessageRight, Alone, Underway, JobStep
<1>6. JobRight(k) OBVIOUS
<1>7. SameWindow(wk) => Bound(k)' = Bound(k) BY <1>1 DEF SameWindow, Bound
<1>8. RebinderRight(k)'
  BY <1>4, <1>5, <1>7, <1>1, <1>2, <1>3, <1>6 DEF RebinderRight, Rebinds, Reverts, JobRight
<1>9. MessageRight(k)'
  BY <1>4, <1>5, <1>7, <1>0, <1>1, <1>2, <1>3, <1>6 DEF MessageRight, Underway, JobRecords, Bindings, Bound, SameWindow,
     Follows, JobRight
<1>10. WriterRight(k)' BY <1>1, <1>2, <1>3, <1>6 DEF JobRight, WriterRight
<1> QED BY <1>8, <1>9, <1>10 DEF JobRight

\* A window that is not the job's stays right.
LEMMA OtherWindowsStayRight ==
  ASSUME WindowShape, NEW j \in WhoJobs, JobStep(j), NEW w \in CcWindows, w # Job(j).w, WindowRight(w)
  PROVE  WindowRight(w)'
<1>1. SameWindow(w) BY DEF JobStep, ChangesWindow
<1>2. windowBound[w].home \in Homes BY DEF WindowShape, Bindings
<1>3. CASE HostTrue(w)
  BY <1>1, <1>2, <1>3 DEF HostTrue, Follows, SameWindow, WindowRight
<1>4. CASE \E k \in WhoJobs : Job(k).w = w /\ Reverts(k)
  <2> PICK k \in WhoJobs : Job(k).w = w /\ Reverts(k) BY <1>4
  <2>1. jobs'[k] = jobs[k] /\ ccPlan' = ccPlan BY DEF JobStep, SparesOthers
  <2>2. Reverts(k)' /\ Job(k)'.w = w /\ k \in WhoJobs'
    BY <2>1 DEF Reverts, Stage, Job, WhoJobs
  <2> QED BY <2>2 DEF WindowRight
<1> QED BY <1>3, <1>4 DEF WindowRight

\* A step of one job keeps the invariant of all.
LEMMA JobStepKeeps ==
  ASSUME WindowsInvariant, NEW j \in WhoJobs, JobStep(j)
  PROVE  WindowsInvariant'
<1> USE DEF WindowsInvariant
<1>0. WhoJobs' = WhoJobs /\ Job(j).w \in CcWindows
  BY JobsAreNumbered DEF JobStep, WhoJobs
<1>1. WindowShape' BY DEF JobStep
<1>2. \A k \in WhoJobs' : JobRight(k)' BY <1>0, OthersStayRight DEF JobStep
<1>3. Alone'
  <2> SUFFICES ASSUME NEW k \in WhoJobs, NEW i \in WhoJobs, Rebinds(k)', Underway(i)'
               PROVE  Job(i)'.w # Job(k)'.w
    BY <1>0 DEF Alone
  <2>1. \A n \in WhoJobs : Job(n)' = Job(n) BY DEF JobStep, Job
  <2>2. \A n \in WhoJobs : n # j => (Rebinds(n)' => Rebinds(n)) /\ (Underway(n)' => Underway(n))
    BY DEF JobStep, SparesOthers, Rebinds, Underway, Stage
  <2>3. CASE k # j /\ i # j BY <2>1, <2>2, <2>3 DEF Alone
  <2>4. CASE k = j /\ i # j BY <2>1, <2>2, <2>4 DEF Alone, JobStep, Enters
  <2>5. CASE k # j /\ i = j
    BY <2>2, <2>5, JobsAreNumbered, <2>1 DEF JobRight, RebinderRight, Alone, JobStep, Enters
  <2>6. CASE k = j /\ i = j BY <2>6 DEF Rebinds, Underway
  <2> QED BY <2>3, <2>4, <2>5, <2>6
<1>4. \A w \in CcWindows : WindowRight(w)'
  <2> TAKE w \in CcWindows
  <2>1. CASE w = Job(j).w BY <2>1 DEF JobStep
  <2>2. CASE w # Job(j).w BY <2>2, OtherWindowsStayRight
  <2> QED BY <2>1, <2>2
<1>5. SentWhereAdmitted' BY DEF SentWhereAdmitted, JobStep, Lands
<1> QED BY <1>1, <1>2, <1>3, <1>4, <1>5

--------------------
\* The shape after a step, from that of each variable.
LEMMA ShapeNext ==
  ASSUME WindowShape, ccPlan' = ccPlan,
         windowBound' \in [CcWindows -> Bindings], windowDisk' \in [CcWindows -> Bindings],
         hostFollows' \in [CcWindows \X Homes -> MaybeSession], ccExisting' \subseteq CcSessions,
         bindingLock' \in [CcWindows -> Holders], controlLock' \in [CcSessions -> Holders],
         writerLock' \in [CcSessions -> Holders], active' \in [CcSessions -> Holders],
         jobs' \in [WhoJobs -> JobRecords]
  PROVE  WindowShape'
BY DEF WindowShape, Holders, WhoJobs

\* A job that ends holds nothing and is right.
LEMMA EndsRight ==
  ASSUME WindowShape, NEW j \in WhoJobs, Ends(j), ccPlan' = ccPlan
  PROVE  /\ jobs' \in [WhoJobs -> JobRecords]
         /\ bindingLock' \in [CcWindows -> Holders] /\ controlLock' \in [CcSessions -> Holders]
         /\ writerLock' \in [CcSessions -> Holders] /\ active' \in [CcSessions -> Holders]
         /\ SparesOthers(j) /\ Enters(j) /\ JobRight(j)'
<1>0. jobs[j] \in JobRecords BY DEF WindowShape
<1>1. jobs' = [jobs EXCEPT ![j] = [jobs[j] EXCEPT !.at = "over"]] BY DEF Ends
<1>2. [jobs[j] EXCEPT !.at = "over"] \in JobRecords BY <1>0 DEF JobRecords
<1>3. jobs' \in [WhoJobs -> JobRecords] /\ jobs'[j].at = "over" /\ \A k \in WhoJobs \ {j} : jobs'[k] = jobs[k]
  BY <1>0, <1>1, <1>2 DEF WindowShape, JobRecords
<1>4. /\ bindingLock' \in [CcWindows -> Holders] /\ controlLock' \in [CcSessions -> Holders]
      /\ writerLock' \in [CcSessions -> Holders] /\ active' \in [CcSessions -> Holders]
  BY DEF Ends, LetGo, WindowShape, Holders
<1>5. SparesOthers(j) BY <1>3 DEF Ends, LetGo, WindowShape, SparesOthers
<1>6. Stage(j)' = "over" BY <1>3 DEF Stage
<1> QED BY <1>3, <1>4, <1>5, <1>6 DEF Enters, Rebinds, Underway, Reverts, JobRight, RebinderRight, MessageRight, WriterRight

\* A window nothing changes stays right, unless its job was undoing something.
LEMMA StillRight ==
  ASSUME WindowShape, NEW j \in WhoJobs, ccPlan' = ccPlan, ~Reverts(j), SparesOthers(j),
         NEW w \in CcWindows, SameWindow(w), WindowRight(w)
  PROVE  WindowRight(w)'
<1>2. windowBound[w].home \in Homes BY DEF WindowShape, Bindings
<1>3. CASE HostTrue(w) BY <1>2, <1>3 DEF HostTrue, Follows, SameWindow, WindowRight
<1>4. CASE \E k \in WhoJobs : Job(k).w = w /\ Reverts(k)
  <2> PICK k \in WhoJobs : Job(k).w = w /\ Reverts(k) BY <1>4
  <2>1. jobs'[k] = jobs[k] BY DEF SparesOthers
  <2>2. Reverts(k)' /\ Job(k)'.w = w /\ k \in WhoJobs'
    BY <2>1 DEF Reverts, Stage, Job, WhoJobs
  <2> QED BY <2>2 DEF WindowRight
<1> QED BY <1>3, <1>4 DEF WindowRight

\* A job that ends without having changed a window.
LEMMA EndsStill ==
  ASSUME WindowsInvariant, NEW j \in WhoJobs, Ends(j), ccPlan' = ccPlan, ~Reverts(j),
         windowBound' = windowBound, windowDisk' = windowDisk, hostFollows' = hostFollows,
         ccExisting' = ccExisting, Lands(j)
  PROVE  JobStep(j)
<1>1. /\ jobs' \in [WhoJobs -> JobRecords]
      /\ bindingLock' \in [CcWindows -> Holders] /\ controlLock' \in [CcSessions -> Holders]
      /\ writerLock' \in [CcSessions -> Holders] /\ active' \in [CcSessions -> Holders]
      /\ SparesOthers(j) /\ Enters(j) /\ JobRight(j)'
  BY EndsRight DEF WindowsInvariant
<1>2. WindowShape' BY <1>1, ShapeNext DEF WindowsInvariant, WindowShape
<1>3. \A w \in CcWindows : SameWindow(w) BY DEF SameWindow
<1>4. \A w \in CcWindows : WindowRight(w)'
  BY <1>1, <1>3, StillRight DEF WindowsInvariant
<1> QED BY <1>1, <1>2, <1>3, <1>4 DEF JobStep

\* A job that changes its own window and ends.
LEMMA EndsWithChange ==
  ASSUME WindowsInvariant, NEW j \in WhoJobs, Ends(j), ccPlan' = ccPlan,
         Rebinds(j) \/ Stage(j) = "resume",
         windowBound' \in [CcWindows -> Bindings], windowDisk' \in [CcWindows -> Bindings],
         hostFollows' \in [CcWindows \X Homes -> MaybeSession], ccExisting' = ccExisting,
         \A w \in CcWindows \ {Job(j).w} : SameWindow(w),
         \A w \in CcWindows : w = Job(j).w => HostTrue(w)',
         landed' = landed
  PROVE  JobStep(j)
<1>1. /\ jobs' \in [WhoJobs -> JobRecords]
      /\ bindingLock' \in [CcWindows -> Holders] /\ controlLock' \in [CcSessions -> Holders]
      /\ writerLock' \in [CcSessions -> Holders] /\ active' \in [CcSessions -> Holders]
      /\ SparesOthers(j) /\ Enters(j) /\ JobRight(j)'
  BY EndsRight DEF WindowsInvariant
<1>2. WindowShape' BY <1>1, ShapeNext DEF WindowsInvariant, WindowShape
<1>3. ChangesWindow(j) BY DEF ChangesWindow
<1>4. \A w \in CcWindows : w = Job(j).w => WindowRight(w)' BY DEF WindowRight
<1>5. Lands(j) BY DEF Lands
<1> QED BY <1>1, <1>2, <1>3, <1>4, <1>5 DEF JobStep

--------------------
(* Every action is a step of its job.                                       *)

\* Rebinding is a step of its job.
LEMMA RebindingIsAStep ==
  ASSUME WindowsInvariant, NEW j \in WhoJobs, Rebinding(j), ccPlan' = ccPlan,
         Job(j).does \in {"switch", "new", "cd", "cwd"}
  PROVE  JobStep(j)
<1>0. /\ Nobody \notin WhoJobs /\ Job(j).w \in CcWindows /\ Job(j).s \in CcSessions /\ jobs[j] \in JobRecords
      /\ windowBound[Job(j).w] \in Bindings
  BY JobsAreNumbered DEF WindowsInvariant
<1> PICK w \in CcWindows : w = Job(j).w BY <1>0
<1>1. WindowShape /\ \A k \in WhoJobs : JobRight(k) BY DEF WindowsInvariant
<1>2. /\ Stage(j) = "todo" /\ bindingLock[w] = Nobody
      /\ UNCHANGED <<windowBound, windowDisk, hostFollows, ccExisting, landed>>
  BY DEF Rebinding
<1>3. Lands(j) /\ ~Reverts(j) /\ \A v \in CcWindows : SameWindow(v)
  BY <1>2 DEF Lands, Reverts, SameWindow
<1>4. CASE Ends(j) BY <1>2, <1>3, <1>4, EndsStill
<1>5. CASE ~Ends(j)
  <2> DEFINE home == IF Job(j).does = "new" THEN Bound(j).home ELSE CcHome[Job(j).s]
             r == [jobs[j] EXCEPT !.at = IF Job(j).does = "new" THEN "create" ELSE "rebind",
                                  !.sess = Job(j).s, !.was = Bound(j), !.home = home,
                                  !.before = hostFollows[<<Job(j).w, home>>]]
  <2>1. /\ ~ActiveHere(w, Bound(j).sess)
        /\ bindingLock' = [bindingLock EXCEPT ![w] = j]
        /\ jobs' = [jobs EXCEPT ![j] = r]
        /\ UNCHANGED <<controlLock, writerLock, active>>
    BY <1>5 DEF Rebinding
  <2>2. Bound(j) \in Bindings /\ Bound(j).home \in Homes /\ home \in Homes
    BY <1>0, HomeIsHome DEF Bound, Bindings
  <2>3. hostFollows[<<w, home>>] \in MaybeSession BY <1>1, <2>2 DEF WindowShape
  <2>4. r \in JobRecords BY <1>0, <2>2, <2>3 DEF JobRecords, MaybeSession
  <2>5. /\ jobs' \in [WhoJobs -> JobRecords] /\ \A k \in WhoJobs \ {j} : jobs'[k] = jobs[k]
        /\ jobs'[j] = r
    BY <1>1, <2>1, <2>4 DEF WindowShape
  <2>6. bindingLock' \in [CcWindows -> Holders] /\ bindingLock'[w] = j
    BY <1>1, <2>1 DEF WindowShape, Holders
  <2>7. WindowShape' BY <1>1, <1>2, <2>1, <2>5, <2>6, ShapeNext DEF WindowShape
  <2>8. SparesOthers(j) BY <1>0, <1>1, <1>2, <2>1, <2>5 DEF SparesOthers, WindowShape
  <2>9. Enters(j)
    <3>1. \A i \in WhoJobs : Underway(i) => Job(i).w # w
      <4> SUFFICES ASSUME NEW i \in WhoJobs, Underway(i), Job(i).w = w PROVE FALSE
        OBVIOUS
      <4>1. jobs[i].sess \in CcSessions /\ active[jobs[i].sess] = i /\ Bound(i).sess = jobs[i].sess
        BY <1>1 DEF JobRight, MessageRight
      <4>2. Bound(j) = Bound(i) BY DEF Bound
      <4>3. Bound(j).sess # None BY <4>1, <4>2, CcAssumption DEF None
      <4> QED BY <1>0, <2>1, <4>1, <4>2, <4>3 DEF ActiveHere
    <3>2. ~Underway(j)' BY <1>0, <2>5 DEF Underway, Stage, JobRecords
    <3> QED BY <3>1, <3>2 DEF Enters
  <2>10. JobRight(j)'
    <3>1. Bound(j)' = Bound(j) /\ Job(j)' = Job(j) BY <1>2 DEF Bound, Job
    <3>2. /\ Stage(j)' = IF Job(j).does = "new" THEN "create" ELSE "rebind"
          /\ jobs'[j].sess = Job(j).s /\ jobs'[j].home = home
          /\ jobs'[j].before = hostFollows[<<w, home>>]
      BY <1>0, <2>5 DEF Stage, JobRecords
    <3>3. Reverts(j)' /\ Bound(j).status = "ready" /\ Bound(j).sess # None =>
            home = Bound(j).home /\ jobs'[j].before \in {None, Bound(j).sess}
      <4> SUFFICES ASSUME Reverts(j)', Bound(j).status = "ready", Bound(j).sess # None
                   PROVE  home = Bound(j).home /\ jobs'[j].before \in {None, Bound(j).sess}
        OBVIOUS
      <4>1. Job(j).does = "new" BY <3>1, <3>2 DEF Reverts
      <4>2. \A k \in WhoJobs : Reverts(k) => Job(k).w # w
        BY <1>1, <1>2, <1>0 DEF Reverts, Rebinds, JobRight, RebinderRight
      <4>3. HostTrue(w) BY <4>2 DEF WindowsInvariant, WindowRight
      <4> QED BY <3>2, <4>1, <4>3 DEF HostTrue, Follows, Bound
    <3>4. RebinderRight(j)' BY <1>0, <2>6, <3>1, <3>2, <3>3 DEF RebinderRight
    <3>5. MessageRight(j)' /\ WriterRight(j)'
      BY <3>2 DEF MessageRight, WriterRight, Underway
    <3> QED BY <3>4, <3>5 DEF JobRight
  <2>11. \A v \in CcWindows : WindowRight(v)'
    BY <1>1, <1>3, <2>8, StillRight DEF WindowsInvariant
  <2> QED BY <1>3, <2>7, <2>8, <2>9, <2>10, <2>11 DEF JobStep
<1> QED BY <1>4, <1>5

\* A job that goes on without taking or leaving a lock.
LEMMA GoesOn ==
  ASSUME WindowShape, NEW j \in WhoJobs, NEW r \in JobRecords, jobs' = [jobs EXCEPT ![j] = r],
         UNCHANGED <<bindingLock, controlLock, writerLock, active>>
  PROVE  /\ jobs' \in [WhoJobs -> JobRecords] /\ jobs'[j] = r
         /\ bindingLock' \in [CcWindows -> Holders] /\ controlLock' \in [CcSessions -> Holders]
         /\ writerLock' \in [CcSessions -> Holders] /\ active' \in [CcSessions -> Holders]
         /\ SparesOthers(j)
BY DEF WindowShape, SparesOthers

\* The host's conversation of one window changes.
LEMMA HostChange ==
  ASSUME WindowShape, NEW w \in CcWindows, NEW h \in Homes, NEW s \in MaybeSession,
         hostFollows' = [hostFollows EXCEPT ![<<w, h>>] = s]
  PROVE  /\ hostFollows' \in [CcWindows \X Homes -> MaybeSession]
         /\ hostFollows'[<<w, h>>] = s
         /\ \A v \in CcWindows, g \in Homes :
              v # w \/ g # h => hostFollows'[<<v, g>>] = hostFollows[<<v, g>>]
BY DEF WindowShape

\* No session is called none.
LEMMA SessionsOrNone == None \in MaybeSession /\ CcSessions \subseteq MaybeSession /\ None \notin CcSessions
  BY CcAssumption DEF MaybeSession, None

\* What is known of a command and its window.
LEMMA RebinderFacts ==
  ASSUME WindowsInvariant, NEW j \in WhoJobs, Rebinds(j)
  PROVE  /\ Job(j).w \in CcWindows /\ jobs[j] \in JobRecords /\ jobs[j].home \in Homes
         /\ jobs[j].sess \in CcSessions /\ jobs[j].before \in MaybeSession /\ jobs[j].was \in Bindings
         /\ Bound(j) \in Bindings /\ Bound(j) = windowBound[Job(j).w]
         /\ RebinderRight(j) /\ bindingLock[Job(j).w] = j
BY JobsAreNumbered DEF WindowsInvariant, JobRight, RebinderRight, JobRecords, Bound

\* CreateOnHost is a step of its job.
LEMMA CreateOnHostIsAStep ==
  ASSUME WindowsInvariant, NEW j \in WhoJobs, CreateOnHost(j), ccPlan' = ccPlan
  PROVE  JobStep(j)
<1>1. WindowShape /\ Stage(j) = "create" /\ Rebinds(j)
  BY DEF WindowsInvariant, CreateOnHost, Rebinds
<1>2. /\ Job(j).w \in CcWindows /\ jobs[j] \in JobRecords /\ jobs[j].home \in Homes
      /\ jobs[j].sess \in CcSessions /\ RebinderRight(j) /\ bindingLock[Job(j).w] = j
  BY <1>1, RebinderFacts
<1> PICK w \in CcWindows : w = Job(j).w BY <1>2
<1>3. PICK s \in MaybeSession, at \in {"rebind", "restore"}, t \in CcSessions :
        /\ hostFollows' = [hostFollows EXCEPT ![<<w, jobs[j].home>>] = s]
        /\ jobs' = [jobs EXCEPT ![j] = [jobs[j] EXCEPT !.at = at, !.sess = t]]
        /\ ccExisting' \subseteq CcSessions
  <2>1. CASE \E s \in CcSessions \ ccExisting :
               /\ ccExisting' = ccExisting \cup {s}
               /\ hostFollows' = [hostFollows EXCEPT ![<<w, jobs[j].home>>] = s]
               /\ jobs' = [jobs EXCEPT ![j].at = "rebind", ![j].sess = s]
    <3> PICK s \in CcSessions \ ccExisting :
               /\ ccExisting' = ccExisting \cup {s}
               /\ hostFollows' = [hostFollows EXCEPT ![<<w, jobs[j].home>>] = s]
               /\ jobs' = [jobs EXCEPT ![j].at = "rebind", ![j].sess = s]
      BY <2>1
    <3>1. jobs' = [jobs EXCEPT ![j] = [jobs[j] EXCEPT !.at = "rebind", !.sess = s]]
      BY <1>1 DEF WindowShape
    <3>2. ccExisting' \subseteq CcSessions BY <1>1 DEF WindowShape
    <3> QED BY <3>1, <3>2, SessionsOrNone
  <2>2. CASE /\ hostFollows' = [hostFollows EXCEPT ![<<w, jobs[j].home>>] = None]
             /\ jobs' = [jobs EXCEPT ![j].at = "restore"]
             /\ UNCHANGED ccExisting
    <3>1. [jobs[j] EXCEPT !.at = "restore"] = [jobs[j] EXCEPT !.at = "restore", !.sess = jobs[j].sess]
      BY <1>2 DEF JobRecords
    <3>2. jobs' = [jobs EXCEPT ![j] = [jobs[j] EXCEPT !.at = "restore", !.sess = jobs[j].sess]]
      BY <1>1, <2>2, <3>1 DEF WindowShape
    <3>3. ccExisting' \subseteq CcSessions BY <1>1, <2>2 DEF WindowShape
    <3> QED BY <1>2, <2>2, <3>2, <3>3, SessionsOrNone
  <2> QED BY <2>1, <2>2 DEF CreateOnHost
<1> DEFINE r == [jobs[j] EXCEPT !.at = at, !.sess = t]
<1>4. r \in JobRecords /\ r.at = at /\ r.sess = t /\ r.home = jobs[j].home /\ r.before = jobs[j].before
  BY <1>2, SessionsOrNone DEF JobRecords
<1>5. UNCHANGED <<windowBound, windowDisk, landed, bindingLock, controlLock, writerLock, active>>
  BY DEF CreateOnHost, locks
<1>6. /\ jobs' \in [WhoJobs -> JobRecords] /\ jobs'[j] = r
      /\ bindingLock' \in [CcWindows -> Holders] /\ controlLock' \in [CcSessions -> Holders]
      /\ writerLock' \in [CcSessions -> Holders] /\ active' \in [CcSessions -> Holders]
      /\ SparesOthers(j)
  BY <1>1, <1>3, <1>4, <1>5, GoesOn
<1>7. /\ hostFollows' \in [CcWindows \X Homes -> MaybeSession]
      /\ \A v \in CcWindows, g \in Homes : v # w => hostFollows'[<<v, g>>] = hostFollows[<<v, g>>]
  BY <1>1, <1>2, <1>3, HostChange
<1>8. WindowShape' BY <1>1, <1>3, <1>5, <1>6, <1>7, ShapeNext DEF WindowShape
<1>9. Stage(j)' = at /\ Job(j)' = Job(j) /\ Bound(j)' = Bound(j) /\ Job(j).does = "new"
  BY <1>1, <1>2, <1>4, <1>5, <1>6 DEF Stage, Job, Bound, RebinderRight
<1>10. Reverts(j)' /\ Reverts(j) /\ ~Underway(j)' BY <1>1, <1>9 DEF Reverts, Underway
<1>11. RebinderRight(j)' BY <1>1, <1>2, <1>4, <1>5, <1>6, <1>9, <1>10 DEF RebinderRight
<1>12. JobRight(j)' BY <1>9, <1>10, <1>11 DEF JobRight, MessageRight, WriterRight
<1>13. ChangesWindow(j) BY <1>1, <1>5, <1>7 DEF ChangesWindow, SameWindow
<1>14. WindowRight(w)' BY <1>9, <1>10 DEF WindowRight, WhoJobs, Job
<1>15. Enters(j) /\ Lands(j) BY <1>1, <1>5, <1>10 DEF Enters, Lands
<1> QED BY <1>6, <1>8, <1>12, <1>13, <1>14, <1>15 DEF JobStep

\* What closing a window and marking it ready give.
LEMMA FailClosedIsBinding ==
  ASSUME NEW b \in Bindings
  PROVE  /\ FailClosed(b) \in Bindings /\ FailClosed(b).status = "failed"
         /\ FailClosed(b).sess = b.sess /\ FailClosed(b).home = b.home
         /\ Ready(b) \in Bindings /\ Ready(b).status = "ready"
         /\ Ready(b).sess = b.sess /\ Ready(b).home = b.home
<1> PICK n \in Nat : n = b.rev + 1 BY DEF Bindings
<1>1. FailClosed(b) = [b EXCEPT !.status = "failed", !.rev = n] BY DEF FailClosed
<1>2. Ready(b) = [b EXCEPT !.status = "ready", !.rev = n] BY DEF Ready
<1>3. "failed" \in BindingStatuses /\ "ready" \in BindingStatuses BY DEF BindingStatuses
<1> QED BY <1>1, <1>2, <1>3 DEF Bindings

\* RestoreHost is a step of its job.
LEMMA RestoreHostIsAStep ==
  ASSUME WindowsInvariant, NEW j \in WhoJobs, RestoreHost(j), ccPlan' = ccPlan
  PROVE  JobStep(j)
<1>1. /\ WindowShape /\ Stage(j) = "restore" /\ Rebinds(j) /\ Reverts(j) /\ Ends(j)
      /\ UNCHANGED <<windowDisk, ccExisting, landed>>
  BY DEF WindowsInvariant, RestoreHost, Rebinds, Reverts
<1>2. /\ Job(j).w \in CcWindows /\ jobs[j].home \in Homes /\ jobs[j].before \in MaybeSession
      /\ Bound(j) \in Bindings /\ Bound(j) = windowBound[Job(j).w] /\ RebinderRight(j)
  BY <1>1, RebinderFacts
<1> PICK w \in CcWindows : w = Job(j).w BY <1>2
<1> DEFINE b == windowBound[w]
<1>3. CASE hostFollows' = [hostFollows EXCEPT ![<<w, jobs[j].home>>] = jobs[j].before] /\ UNCHANGED windowBound
  BY <1>1, <1>2, <1>3, HostChange, EndsWithChange DEF HostTrue, Follows, RebinderRight, SameWindow, WindowShape
<1>4. CASE /\ windowBound' = IF b.sess = None THEN windowBound ELSE [windowBound EXCEPT ![w] = FailClosed(b)]
           /\ UNCHANGED hostFollows
  BY <1>2, FailClosedIsBinding, <1>1, <1>4, EndsWithChange DEF WindowShape, HostTrue, SameWindow
<1> QED BY <1>3, <1>4 DEF RestoreHost

\* ClearPrevious is a step of its job.
LEMMA ClearPreviousIsAStep ==
  ASSUME WindowsInvariant, NEW j \in WhoJobs, ClearPrevious(j), ccPlan' = ccPlan
  PROVE  JobStep(j)
<1>1. /\ WindowShape /\ Stage(j) = "clear" /\ Rebinds(j) /\ ~Reverts(j) /\ Ends(j)
      /\ UNCHANGED <<windowBound, windowDisk, ccExisting, landed>>
  BY DEF WindowsInvariant, ClearPrevious, Rebinds, Reverts
<1>2. /\ Job(j).w \in CcWindows /\ jobs[j].home \in Homes /\ jobs[j].was.home \in Homes
      /\ Bound(j) = windowBound[Job(j).w] /\ RebinderRight(j)
      /\ bindingLock[Job(j).w] = j
  BY <1>1, RebinderFacts DEF Bindings
<1> PICK w \in CcWindows : w = Job(j).w BY <1>2
<1>3. HostTrue(w)
  BY <1>2, <1>1 DEF Reverts, Rebinds, WindowsInvariant, JobRight, RebinderRight, WindowRight
<1>4. hostFollows' = hostFollows \/ (/\ jobs[j].was.home # jobs[j].home
                                     /\ hostFollows' = [hostFollows EXCEPT ![<<w, jobs[j].was.home>>] = None])
  BY DEF ClearPrevious, Conversation
<1>5. /\ hostFollows' \in [CcWindows \X Homes -> MaybeSession]
      /\ hostFollows'[<<w, jobs[j].home>>] = hostFollows[<<w, jobs[j].home>>]
      /\ \A v \in CcWindows, g \in Homes : v # w => hostFollows'[<<v, g>>] = hostFollows[<<v, g>>]
  <2>1. CASE hostFollows' = hostFollows BY <1>1, <2>1 DEF WindowShape
  <2>2. CASE jobs[j].was.home # jobs[j].home /\ hostFollows' = [hostFollows EXCEPT ![<<w, jobs[j].was.home>>] = None]
    BY <1>1, <1>2, <2>2, HostChange, SessionsOrNone
  <2> QED BY <1>4, <2>1, <2>2
<1>6. HostTrue(w)' BY <1>1, <1>2, <1>3, <1>5 DEF HostTrue, Follows, RebinderRight
<1>7. \A v \in CcWindows \ {w} : SameWindow(v) BY <1>1, <1>5 DEF SameWindow
<1>8. windowBound' \in [CcWindows -> Bindings] /\ windowDisk' \in [CcWindows -> Bindings]
  BY <1>1 DEF WindowShape
<1> QED BY <1>1, <1>5, <1>6, <1>7, <1>8, EndsWithChange

\* What rebinding gives.
LEMMA ReboundIsBinding ==
  ASSUME NEW b \in Bindings, NEW h \in Homes, NEW s \in MaybeSession,
         NEW st \in BindingStatuses
  PROVE  /\ Rebound(b, h, s, st) \in Bindings
         /\ Rebound(b, h, s, st).home = h /\ Rebound(b, h, s, st).sess = s /\ Rebound(b, h, s, st).status = st
BY DEF Rebound, Bindings

\* Release is a step of its job.
LEMMA ReleaseIsAStep ==
  ASSUME WindowsInvariant, NEW j \in WhoJobs, Release(j), ccPlan' = ccPlan
  PROVE  JobStep(j)
<1>1. /\ WindowShape /\ Stage(j) = "rebind" /\ Rebinds(j) /\ ~Reverts(j) /\ Ends(j)
      /\ UNCHANGED <<ccExisting, landed>>
  BY DEF WindowsInvariant, Release, Rebinds, Reverts
<1>2. /\ Job(j).w \in CcWindows /\ jobs[j].home \in Homes /\ jobs[j].was \in Bindings
      /\ jobs[j].was.home \in Homes
  BY <1>1, RebinderFacts DEF Bindings
<1> PICK w \in CcWindows : w = Job(j).w BY <1>2
<1> DEFINE was == jobs[j].was
           b == Rebound(was, jobs[j].home, None, "unbound")
<1>3. CASE /\ Publish(w, b)
           /\ hostFollows' = IF was.sess = None THEN hostFollows
                             ELSE [hostFollows EXCEPT ![Conversation(w, was)] = None]
  <2>1. b \in Bindings /\ b.sess = None
    <3>1. PICK st \in BindingStatuses : st = "unbound" BY DEF BindingStatuses
    <3>2. PICK no \in MaybeSession : no = None BY SessionsOrNone
    <3>3. Rebound(was, jobs[j].home, no, st) \in Bindings /\ Rebound(was, jobs[j].home, no, st).sess = no
      BY <1>2, ReboundIsBinding
    <3> QED BY <3>1, <3>2, <3>3
  <2>2. /\ windowBound' \in [CcWindows -> Bindings] /\ windowDisk' \in [CcWindows -> Bindings]
        /\ windowBound'[w] = b /\ \A v \in CcWindows \ {w} : windowBound'[v] = windowBound[v]
    BY <1>1, <1>3, <2>1 DEF Publish, WindowShape
  <2>3. /\ hostFollows' \in [CcWindows \X Homes -> MaybeSession]
        /\ \A v \in CcWindows, g \in Homes : v # w => hostFollows'[<<v, g>>] = hostFollows[<<v, g>>]
    BY <1>1, <1>2, HostChange, SessionsOrNone, <1>3 DEF WindowShape, Conversation
  <2>4. HostTrue(w)' BY <2>1, <2>2 DEF HostTrue
  <2>5. \A v \in CcWindows \ {w} : SameWindow(v) BY <2>2, <2>3 DEF SameWindow
  <2> QED BY <1>1, <2>2, <2>3, <2>4, <2>5, EndsWithChange
<1>4. CASE UNCHANGED <<windowBound, windowDisk, hostFollows>>
  BY <1>1, <1>4, EndsStill DEF Lands
<1> QED BY <1>3, <1>4 DEF Release, CommitRelease

\* The binding of a rebinder's window is published.
LEMMA Published ==
  ASSUME WindowShape, NEW w \in CcWindows, NEW b \in Bindings, NEW d \in Bindings,
         windowBound' = [windowBound EXCEPT ![w] = b],
         windowDisk' = [windowBound EXCEPT ![w] = d]
  PROVE  /\ windowBound' \in [CcWindows -> Bindings] /\ windowDisk' \in [CcWindows -> Bindings]
         /\ windowBound'[w] = b /\ \A v \in CcWindows \ {w} : windowBound'[v] = windowBound[v]
BY DEF WindowShape

\* A command that failed after its session was made goes back to the host.
LEMMA GivesUp ==
  ASSUME WindowsInvariant, NEW j \in WhoJobs, Stage(j) = "rebind", Job(j).does = "new", ccPlan' = ccPlan,
         jobs' = [jobs EXCEPT ![j].at = "restore"], controlLock' = LetGo(controlLock, j),
         UNCHANGED <<bindingLock, writerLock, active, hostFollows, ccExisting, landed>>,
         windowBound' \in [CcWindows -> Bindings], windowDisk' \in [CcWindows -> Bindings],
         \A v \in CcWindows \ {Job(j).w} : windowBound'[v] = windowBound[v],
         Bound(j)' = Bound(j) \/ Bound(j)'.status = "failed"
  PROVE  JobStep(j)
<1>1. WindowShape /\ Rebinds(j) /\ Reverts(j) BY DEF WindowsInvariant, Rebinds, Reverts
<1>2. /\ Job(j).w \in CcWindows /\ jobs[j] \in JobRecords /\ RebinderRight(j) /\ bindingLock[Job(j).w] = j
      /\ jobs[j].sess \in CcSessions
  BY <1>1, RebinderFacts
<1> PICK w \in CcWindows : w = Job(j).w BY <1>2
<1> DEFINE r == [jobs[j] EXCEPT !.at = "restore"]
<1>3. r \in JobRecords /\ r.at = "restore" /\ r.sess = jobs[j].sess /\ r.home = jobs[j].home /\ r.before = jobs[j].before
  BY <1>2 DEF JobRecords
<1>4. jobs' \in [WhoJobs -> JobRecords] /\ jobs'[j] = r /\ \A k \in WhoJobs \ {j} : jobs'[k] = jobs[k]
  BY <1>1, <1>3 DEF WindowShape
<1>5. controlLock' \in [CcSessions -> Holders]
      /\ \A s \in CcSessions : controlLock[s] \notin {Nobody, j} => controlLock'[s] = controlLock[s]
  BY <1>1 DEF WindowShape, LetGo, Holders
<1>6. WindowShape' BY <1>1, <1>4, <1>5, ShapeNext DEF WindowShape
<1>7. SparesOthers(j) BY <1>4, <1>5 DEF SparesOthers
<1>8. Stage(j)' = "restore" /\ Job(j)' = Job(j) BY <1>3, <1>4 DEF Stage, Job
<1>9. Reverts(j)' /\ ~Underway(j)' /\ Rebinds(j)' BY <1>8 DEF Reverts, Underway, Rebinds
<1>10. RebinderRight(j)' BY <1>1, <1>2, <1>3, <1>4, <1>8, <1>9 DEF RebinderRight
<1>11. JobRight(j)' BY <1>8, <1>9, <1>10 DEF JobRight, MessageRight, WriterRight
<1>12. ChangesWindow(j) BY <1>1 DEF ChangesWindow, SameWindow
<1>13. WindowRight(w)' BY <1>8, <1>9 DEF WindowRight, WhoJobs
<1>14. Enters(j) /\ Lands(j) BY <1>1, <1>9 DEF Enters, Lands
<1> QED BY <1>6, <1>7, <1>11, <1>12, <1>13, <1>14 DEF JobStep

\* Acquire is a step of its job.
LEMMA AcquireIsAStep ==
  ASSUME WindowsInvariant, NEW j \in WhoJobs, Acquire(j), ccPlan' = ccPlan
  PROVE  JobStep(j)
<1>1. /\ WindowShape /\ Stage(j) = "rebind" /\ Rebinds(j) /\ Job(j).does \in {"switch", "new"}
      /\ UNCHANGED <<hostFollows, ccExisting, landed>>
  BY DEF WindowsInvariant, Acquire, Rebinds
<1>2. /\ Job(j).w \in CcWindows /\ jobs[j] \in JobRecords /\ jobs[j].home \in Homes /\ jobs[j].sess \in CcSessions
      /\ Bound(j) \in Bindings /\ Bound(j) = windowBound[Job(j).w] /\ RebinderRight(j)
      /\ bindingLock[Job(j).w] = j
  BY <1>1, RebinderFacts
<1> PICK w \in CcWindows : w = Job(j).w BY <1>2
<1> PICK s \in CcSessions : s = jobs[j].sess BY <1>2
<1> DEFINE b == Rebound(Bound(j), jobs[j].home, s, CommittedAs(j))
<1>3. /\ b \in Bindings /\ b.home = jobs[j].home /\ b.sess = s /\ b.status = CommittedAs(j)
      /\ b.status # "ready" => b.status = "failed"
  <2>1. PICK st \in BindingStatuses : st = CommittedAs(j)
    BY DEF BindingStatuses, CommittedAs
  <2>2. PICK ms \in MaybeSession : ms = s BY SessionsOrNone
  <2>3. /\ Rebound(Bound(j), jobs[j].home, ms, st) \in Bindings
        /\ Rebound(Bound(j), jobs[j].home, ms, st).home = jobs[j].home
        /\ Rebound(Bound(j), jobs[j].home, ms, st).sess = ms
        /\ Rebound(Bound(j), jobs[j].home, ms, st).status = st
    BY <1>2, ReboundIsBinding
  <2> QED BY <2>1, <2>2, <2>3 DEF CommittedAs
<1> HIDE DEF b
<1> DEFINE GiveUp == IF Job(j).does = "new"
                     THEN /\ jobs' = [jobs EXCEPT ![j].at = "restore"]
                          /\ controlLock' = LetGo(controlLock, j)
                          /\ UNCHANGED <<registry, bindingLock, writerLock, active>>
                     ELSE Ends(j)
<1>4. \/ /\ Publish(w, b)
         /\ controlLock' = [x \in CcSessions |-> IF x \in {s, Bound(j).sess} THEN j ELSE controlLock[x]]
         /\ jobs' = [jobs EXCEPT ![j].at = IF b.status = "ready" THEN "clear" ELSE "follow"]
         /\ UNCHANGED <<bindingLock, writerLock, active>>
         /\ \A x \in {s, Bound(j).sess} \ {None} : controlLock[x] \in {Nobody, j}
      \/ GiveUp /\ UNCHANGED <<windowBound, windowDisk>>
      \/ GiveUp /\ UndoFails(w, b)
  BY DEF Acquire, b, CommitSelection
<1>5. CASE /\ Publish(w, b)
           /\ controlLock' = [x \in CcSessions |-> IF x \in {s, Bound(j).sess} THEN j ELSE controlLock[x]]
           /\ jobs' = [jobs EXCEPT ![j].at = IF b.status = "ready" THEN "clear" ELSE "follow"]
           /\ UNCHANGED <<bindingLock, writerLock, active>>
           /\ \A x \in {s, Bound(j).sess} \ {None} : controlLock[x] \in {Nobody, j}
  <2>1. /\ windowBound' \in [CcWindows -> Bindings] /\ windowDisk' \in [CcWindows -> Bindings]
        /\ windowBound'[w] = b /\ \A v \in CcWindows \ {w} : windowBound'[v] = windowBound[v]
    BY <1>1, <1>3, <1>5, Published DEF Publish
  <2>2. PICK at \in {"clear", "follow"} :
          /\ at = "follow" <=> b.status # "ready"
          /\ jobs' = [jobs EXCEPT ![j].at = at]
    BY <1>5
  <2> DEFINE r == [jobs[j] EXCEPT !.at = at]
  <2>3. r \in JobRecords /\ r.at = at /\ r.sess = s /\ r.home = jobs[j].home
    BY <1>2 DEF JobRecords
  <2>4. jobs' \in [WhoJobs -> JobRecords] /\ jobs'[j] = r /\ \A k \in WhoJobs \ {j} : jobs'[k] = jobs[k]
    BY <1>1, <2>2, <2>3 DEF WindowShape
  <2>5. controlLock' \in [CcSessions -> Holders] BY <1>1, <1>5 DEF WindowShape, Holders
  <2>6. \A x \in CcSessions : controlLock[x] \notin {Nobody, j} => controlLock'[x] = controlLock[x]
    BY <1>5, SessionsOrNone
  <2>7. WindowShape' BY <1>1, <1>5, <2>1, <2>4, <2>5, ShapeNext DEF WindowShape
  <2>8. SparesOthers(j) BY <1>5, <2>4, <2>6 DEF SparesOthers
  <2>9. Stage(j)' = at /\ Job(j)' = Job(j) /\ Bound(j)' = b
    BY <2>1, <2>3, <2>4 DEF Stage, Job, Bound
  <2>10. ~Reverts(j)' /\ ~Underway(j)' /\ Rebinds(j)'
    BY <2>9 DEF Reverts, Underway, Rebinds
  <2>11. RebinderRight(j)'
    BY <1>1, <1>2, <1>3, <1>5, <2>2, <2>3, <2>4, <2>9, <2>10 DEF RebinderRight
  <2>12. JobRight(j)' BY <2>9, <2>10, <2>11 DEF JobRight, MessageRight, WriterRight
  <2>13. ChangesWindow(j) BY <1>1, <2>1 DEF ChangesWindow, SameWindow
  <2>14. HostTrue(w)' BY <1>1, <1>3, <2>1 DEF HostTrue, Follows, CommittedAs
  <2>15. Enters(j) /\ Lands(j) BY <1>1, <2>10 DEF Enters, Lands
  <2>16. WindowRight(w)' BY <2>14 DEF WindowRight
  <2> QED BY <2>7, <2>8, <2>12, <2>13, <2>15, <2>16 DEF JobStep
<1>6. CASE GiveUp /\ UNCHANGED <<windowBound, windowDisk>>
  BY <1>1, <1>6, GivesUp, EndsStill DEF WindowShape, Bound, Job, Reverts, Lands
<1>7. CASE GiveUp /\ UndoFails(w, b)
  BY <1>3, FailClosedIsBinding, <1>1, <1>7, Published, GivesUp, EndsWithChange DEF UndoFails, Bound, Job, HostTrue, SameWindow,
     WindowShape
<1> QED BY <1>4, <1>5, <1>6, <1>7

\* FollowHost is a step of its job.
LEMMA FollowHostIsAStep ==
  ASSUME WindowsInvariant, NEW j \in WhoJobs, FollowHost(j), ccPlan' = ccPlan
  PROVE  JobStep(j)
<1>1. /\ WindowShape /\ Stage(j) = "follow" /\ Rebinds(j) /\ ~Reverts(j)
      /\ UNCHANGED <<ccExisting, landed, bindingLock, controlLock, writerLock, active>>
  BY DEF WindowsInvariant, FollowHost, Rebinds, Reverts, locks
<1>2. /\ Job(j).w \in CcWindows /\ jobs[j] \in JobRecords /\ jobs[j].home \in Homes /\ jobs[j].sess \in CcSessions
      /\ Bound(j) \in Bindings /\ Bound(j) = windowBound[Job(j).w] /\ RebinderRight(j)
      /\ bindingLock[Job(j).w] = j
  BY <1>1, RebinderFacts
<1> PICK w \in CcWindows : w = Job(j).w BY <1>2
<1> PICK s \in CcSessions : s = jobs[j].sess BY <1>2
<1> DEFINE b == windowBound[w]
<1>3. b.home = jobs[j].home /\ b.sess = s /\ b.status # "ready"
  BY <1>1, <1>2 DEF RebinderRight
<1>4. Ready(b) \in Bindings /\ Ready(b).sess = s /\ Ready(b).home = jobs[j].home
  BY <1>2, <1>3, FailClosedIsBinding
<1>5. /\ windowBound' \in [CcWindows -> Bindings] /\ windowDisk' \in [CcWindows -> Bindings]
      /\ windowBound'[w].sess = s /\ windowBound'[w].home = jobs[j].home
      /\ windowBound'[w].status = "ready" => hostFollows' = [hostFollows EXCEPT ![<<w, jobs[j].home>>] = s]
      /\ \A v \in CcWindows \ {w} : windowBound'[v] = windowBound[v]
  BY <1>1, <1>4, Published, <1>3 DEF Publish, WindowShape, FollowHost
<1>6. hostFollows' = hostFollows \/ hostFollows' = [hostFollows EXCEPT ![<<w, jobs[j].home>>] = s]
  BY DEF FollowHost
<1>7. /\ hostFollows' \in [CcWindows \X Homes -> MaybeSession]
      /\ windowBound'[w].status = "ready" => hostFollows'[<<w, jobs[j].home>>] = s
      /\ \A v \in CcWindows, g \in Homes : v # w => hostFollows'[<<v, g>>] = hostFollows[<<v, g>>]
  <2>1. CASE hostFollows' = hostFollows /\ windowBound'[w].status # "ready"
    BY <1>1, <2>1 DEF WindowShape
  <2>2. CASE hostFollows' = [hostFollows EXCEPT ![<<w, jobs[j].home>>] = s]
    BY SessionsOrNone, <1>1, <1>2, <2>2, HostChange
  <2> QED BY <1>5, <1>6, <2>1, <2>2
<1> DEFINE r == [jobs[j] EXCEPT !.at = "clear"]
<1>8. r \in JobRecords /\ r.at = "clear" /\ r.sess = s /\ r.home = jobs[j].home
  BY <1>2 DEF JobRecords
<1>9. jobs' = [jobs EXCEPT ![j] = r] BY DEF FollowHost
<1>10. /\ jobs' \in [WhoJobs -> JobRecords] /\ jobs'[j] = r
       /\ bindingLock' \in [CcWindows -> Holders] /\ controlLock' \in [CcSessions -> Holders]
       /\ writerLock' \in [CcSessions -> Holders] /\ active' \in [CcSessions -> Holders]
       /\ SparesOthers(j)
  BY <1>1, <1>8, <1>9, GoesOn
<1>11. WindowShape' BY <1>1, <1>5, <1>7, <1>10, ShapeNext DEF WindowShape
<1>12. Stage(j)' = "clear" /\ Job(j)' = Job(j) /\ Bound(j)' = windowBound'[w]
  BY <1>8, <1>10 DEF Stage, Job, Bound
<1>13. ~Reverts(j)' /\ ~Underway(j)' /\ Rebinds(j)'
  BY <1>12 DEF Reverts, Underway, Rebinds
<1>14. RebinderRight(j)'
  BY <1>1, <1>2, <1>5, <1>8, <1>10, <1>12, <1>13 DEF RebinderRight
<1>15. JobRight(j)' BY <1>12, <1>13, <1>14 DEF JobRight, MessageRight, WriterRight
<1>16. ChangesWindow(j) BY <1>1, <1>5, <1>7 DEF ChangesWindow, SameWindow
<1>17. HostTrue(w)' BY <1>5, <1>7 DEF HostTrue, Follows
<1>18. Enters(j) /\ Lands(j) BY <1>1, <1>13 DEF Enters, Lands
<1>19. WindowRight(w)' BY <1>17 DEF WindowRight
<1> QED BY <1>10, <1>11, <1>15, <1>16, <1>18, <1>19 DEF JobStep

--------------------
\* Admitted is a step of its job.
LEMMA AdmittedIsAStep ==
  ASSUME WindowsInvariant, NEW j \in WhoJobs, Admitted(j), ccPlan' = ccPlan,
         Stage(j) = "todo", Job(j).does \in {"message", "broadcast"}
  PROVE  JobStep(j)
<1>1. /\ WindowShape /\ ~Reverts(j)
      /\ UNCHANGED <<windowBound, windowDisk, hostFollows, ccExisting, landed>>
  BY DEF WindowsInvariant, Admitted, Reverts
<1>2. /\ Nobody \notin WhoJobs /\ Job(j).w \in CcWindows /\ jobs[j] \in JobRecords
      /\ Bound(j) = windowBound[Job(j).w] /\ Bound(j) \in Bindings
  BY <1>1, JobsAreNumbered DEF Bound
<1> PICK w \in CcWindows : w = Job(j).w BY <1>2
<1>3. Lands(j) /\ \A v \in CcWindows : SameWindow(v) BY <1>1 DEF Lands, SameWindow
<1>4. CASE Ends(j) BY <1>1, <1>3, <1>4, EndsStill
<1>5. CASE ~Ends(j)
  <2> DEFINE r == [jobs[j] EXCEPT !.at = "admitted", !.sess = Bound(j).sess, !.rev = Bound(j).rev]
  <2>1. /\ Writable(Bound(j)) /\ active[Bound(j).sess] = Nobody /\ bindingLock[w] = Nobody
        /\ active' = [active EXCEPT ![Bound(j).sess] = j]
        /\ jobs' = [jobs EXCEPT ![j] = r]
        /\ UNCHANGED <<bindingLock, controlLock, writerLock>>
    BY <1>5 DEF Admitted
  <2>2. Bound(j).sess \in CcSessions BY <1>2, <2>1 DEF Writable, Bindings, MaybeSession
  <2> PICK s \in CcSessions : s = Bound(j).sess BY <2>2
  <2>3. r \in JobRecords /\ r.at = "admitted" /\ r.sess = s
    BY <1>2 DEF JobRecords, Bindings
  <2>4. jobs' \in [WhoJobs -> JobRecords] /\ jobs'[j] = r /\ \A k \in WhoJobs \ {j} : jobs'[k] = jobs[k]
    BY <1>1, <2>1, <2>3 DEF WindowShape
  <2>5. active' \in [CcSessions -> Holders] /\ active'[s] = j
        /\ \A x \in CcSessions : active[x] \notin {Nobody, j} => active'[x] = active[x]
    BY <1>1, <2>1 DEF WindowShape, Holders
  <2>6. WindowShape' BY <1>1, <2>1, <2>4, <2>5, ShapeNext DEF WindowShape
  <2>7. SparesOthers(j) BY <2>1, <2>4, <2>5 DEF SparesOthers
  <2>8. Stage(j)' = "admitted" /\ Job(j)' = Job(j) /\ Bound(j)' = Bound(j)
    BY <1>1, <2>3, <2>4 DEF Stage, Job, Bound
  <2>9. JobRight(j)'
    BY <2>3, <2>4, <2>5, <2>8
       DEF JobRight, RebinderRight, MessageRight, WriterRight, Rebinds, Reverts, Underway
  <2>10. Enters(j) BY <2>1, <2>8 DEF Enters, Rebinds
  <2>11. \A v \in CcWindows : WindowRight(v)'
    BY <1>1, <1>3, <2>7, StillRight DEF WindowsInvariant
  <2> QED BY <1>3, <2>6, <2>7, <2>9, <2>10, <2>11 DEF JobStep
<1> QED BY <1>4, <1>5

\* What is known of a message on its way and its window.
LEMMA MessageFacts ==
  ASSUME WindowsInvariant, NEW j \in WhoJobs, Underway(j)
  PROVE  /\ Nobody \notin WhoJobs /\ Job(j).w \in CcWindows /\ jobs[j] \in JobRecords /\ jobs[j].sess \in CcSessions
         /\ Bound(j) \in Bindings /\ Bound(j) = windowBound[Job(j).w] /\ Bound(j).home \in Homes
         /\ Bound(j).sess = jobs[j].sess
         /\ MessageRight(j) /\ active[jobs[j].sess] = j /\ ~Reverts(j) /\ ~Rebinds(j)
         /\ Job(j).does \in {"message", "broadcast"}
BY JobsAreNumbered DEF WindowsInvariant, JobRight, MessageRight, Bindings, Bound, Underway, Reverts, Rebinds

\* Started is a step of its job.
LEMMA StartedIsAStep ==
  ASSUME WindowsInvariant, NEW j \in WhoJobs, Started(j), ccPlan' = ccPlan, Stage(j) = "admitted"
  PROVE  JobStep(j)
<1>1. /\ WindowShape /\ Underway(j)
      /\ UNCHANGED <<windowBound, windowDisk, hostFollows, ccExisting, landed>>
  BY DEF WindowsInvariant, Started, Underway
<1>2. /\ Nobody \notin WhoJobs /\ jobs[j] \in JobRecords /\ jobs[j].sess \in CcSessions /\ MessageRight(j) /\ ~Reverts(j)
  BY <1>1, MessageFacts
<1> PICK s \in CcSessions : s = jobs[j].sess BY <1>2
<1>3. Lands(j) /\ \A v \in CcWindows : SameWindow(v) BY <1>1 DEF Lands, SameWindow
<1>4. CASE Ends(j) BY <1>1, <1>2, <1>3, <1>4, EndsStill
<1>5. CASE ~Ends(j)
  <2> DEFINE r == [jobs[j] EXCEPT !.at = "resolve"]
  <2>1. /\ writerLock[s] = Nobody
        /\ writerLock' = [writerLock EXCEPT ![s] = j]
        /\ jobs' = [jobs EXCEPT ![j] = r]
        /\ UNCHANGED <<bindingLock, controlLock, active>>
    BY <1>5 DEF Started
  <2>3. r \in JobRecords /\ r.at = "resolve" /\ r.sess = s BY <1>2 DEF JobRecords
  <2>4. jobs' \in [WhoJobs -> JobRecords] /\ jobs'[j] = r /\ \A k \in WhoJobs \ {j} : jobs'[k] = jobs[k]
    BY <1>1, <2>1, <2>3 DEF WindowShape
  <2>5. writerLock' \in [CcSessions -> Holders] /\ writerLock'[s] = j
        /\ \A x \in CcSessions : writerLock[x] \notin {Nobody, j} => writerLock'[x] = writerLock[x]
    BY <1>1, <2>1 DEF WindowShape, Holders
  <2>6. WindowShape' BY <1>1, <2>1, <2>4, <2>5, ShapeNext DEF WindowShape
  <2>7. SparesOthers(j) BY <2>1, <2>4, <2>5 DEF SparesOthers
  <2>8. Stage(j)' = "resolve" /\ Job(j)' = Job(j) /\ Bound(j)' = Bound(j)
    BY <1>1, <2>3, <2>4 DEF Stage, Job, Bound
  <2>9. JobRight(j)'
    BY <1>1, <1>2, <2>1, <2>3, <2>4, <2>5, <2>8
       DEF JobRight, RebinderRight, MessageRight, WriterRight, Rebinds, Reverts, Underway
  <2>10. Enters(j) BY <1>1, <2>8 DEF Enters, Rebinds
  <2>11. \A v \in CcWindows : WindowRight(v)'
    BY <1>1, <1>2, <1>3, <2>7, StillRight DEF WindowsInvariant
  <2> QED BY <1>3, <2>6, <2>7, <2>9, <2>10, <2>11 DEF JobStep
<1> QED BY <1>4, <1>5

\* With no command at it, a window's ready binding is one the host can be held to.
LEMMA FreeWindowIsTrue ==
  ASSUME WindowsInvariant, NEW w \in CcWindows, bindingLock[w] = Nobody
  PROVE  HostTrue(w)
<1>1. \A k \in WhoJobs : Reverts(k) => Job(k).w # w
  BY JobsAreNumbered DEF Reverts, Rebinds, WindowsInvariant, JobRight, RebinderRight
<1> QED BY <1>1 DEF WindowsInvariant, WindowRight

\* Resolve is a step of its job.
LEMMA ResolveIsAStep ==
  ASSUME WindowsInvariant, NEW j \in WhoJobs, Resolve(j), ccPlan' = ccPlan
  PROVE  JobStep(j)
<1>1. /\ WindowShape /\ Stage(j) = "resolve" /\ Underway(j)
      /\ UNCHANGED <<windowBound, windowDisk, hostFollows, ccExisting, landed>>
  BY DEF WindowsInvariant, Resolve, Underway
<1>2. /\ Nobody \notin WhoJobs /\ Job(j).w \in CcWindows /\ jobs[j] \in JobRecords /\ jobs[j].sess \in CcSessions
      /\ MessageRight(j) /\ ~Reverts(j)
      /\ Bound(j) \in Bindings /\ Bound(j) = windowBound[Job(j).w] /\ Bound(j).home \in Homes
      /\ Bound(j).sess = jobs[j].sess
  BY <1>1, MessageFacts
<1> PICK w \in CcWindows : w = Job(j).w BY <1>2
<1>3. Lands(j) /\ \A v \in CcWindows : SameWindow(v) BY <1>1 DEF Lands, SameWindow
<1>4. CASE Ends(j) BY <1>1, <1>2, <1>3, <1>4, EndsStill
<1>5. CASE ~Ends(j)
  <2>1. PICK at \in {"resume", "send"} :
          /\ bindingLock[w] = Nobody /\ Writable(Bound(j))
          /\ at = "resume" <=> Bound(j).status = "pending"
          /\ bindingLock' = IF at = "resume" THEN [bindingLock EXCEPT ![w] = j] ELSE bindingLock
          /\ jobs' = [jobs EXCEPT ![j] = [jobs[j] EXCEPT !.at = at, !.home = Bound(j).home]]
          /\ UNCHANGED <<controlLock, writerLock, active>>
    BY <1>5 DEF Resolve
  <2> DEFINE r == [jobs[j] EXCEPT !.at = at, !.home = Bound(j).home]
  <2>3. r \in JobRecords /\ r.at = at /\ r.sess = jobs[j].sess /\ r.home = Bound(j).home
    BY <1>2 DEF JobRecords
  <2>4. jobs' \in [WhoJobs -> JobRecords] /\ jobs'[j] = r /\ \A k \in WhoJobs \ {j} : jobs'[k] = jobs[k]
    BY <1>1, <2>1, <2>3 DEF WindowShape
  <2>5. bindingLock' \in [CcWindows -> Holders] /\ (at = "resume" => bindingLock'[w] = j)
        /\ \A x \in CcWindows : bindingLock[x] \notin {Nobody, j} => bindingLock'[x] = bindingLock[x]
    BY <1>1, <2>1 DEF WindowShape, Holders
  <2>6. WindowShape' BY <1>1, <2>1, <2>4, <2>5, ShapeNext DEF WindowShape
  <2>7. SparesOthers(j) BY <2>1, <2>4, <2>5 DEF SparesOthers
  <2>8. Stage(j)' = at /\ Job(j)' = Job(j) /\ Bound(j)' = Bound(j)
    BY <1>1, <2>3, <2>4 DEF Stage, Job, Bound
  <2>9. at = "send" => Follows(w, Bound(j))
    BY <2>1, FreeWindowIsTrue, <1>2, SessionsOrNone DEF HostTrue, Writable
  <2>10. Follows(w, Bound(j))' <=> Follows(w, Bound(j)) BY <1>1, <2>8 DEF Follows
  <2>11. MessageRight(j)'
    BY <1>1, <1>2, <2>1, <2>3, <2>4, <2>5, <2>8, <2>9, <2>10 DEF MessageRight, Underway
  <2>12. JobRight(j)'
    BY <2>8, <2>11 DEF JobRight, RebinderRight, WriterRight, Rebinds, Reverts
  <2>13. Enters(j) BY <1>1, <2>8 DEF Enters, Rebinds
  <2>14. \A v \in CcWindows : WindowRight(v)'
    BY <1>1, <1>2, <1>3, <2>7, StillRight DEF WindowsInvariant
  <2> QED BY <1>3, <2>6, <2>7, <2>12, <2>13, <2>14 DEF JobStep
<1> QED BY <1>4, <1>5

\* ResumePending is a step of its job.
LEMMA ResumePendingIsAStep ==
  ASSUME WindowsInvariant, NEW j \in WhoJobs, ResumePending(j), ccPlan' = ccPlan
  PROVE  JobStep(j)
<1>1. /\ WindowShape /\ Stage(j) = "resume" /\ Underway(j)
      /\ UNCHANGED <<ccExisting, landed>>
  BY DEF WindowsInvariant, ResumePending, Underway
<1>2. /\ Job(j).w \in CcWindows /\ jobs[j] \in JobRecords /\ jobs[j].sess \in CcSessions
      /\ MessageRight(j) /\ ~Reverts(j) /\ ~Rebinds(j)
      /\ Bound(j) \in Bindings /\ Bound(j) = windowBound[Job(j).w] /\ Bound(j).home \in Homes
      /\ Bound(j).sess = jobs[j].sess /\ jobs[j].home = Bound(j).home
      /\ bindingLock[Job(j).w] = j
  BY <1>1, MessageFacts DEF MessageRight
<1> PICK w \in CcWindows : w = Job(j).w BY <1>2
<1> PICK s \in CcSessions : s = jobs[j].sess BY <1>2
<1> PICK h \in Homes : h = jobs[j].home BY <1>2
<1> DEFINE b == windowBound[w]
<1>3. /\ Ready(b) \in Bindings /\ Ready(b).sess = s /\ Ready(b).home = h
      /\ FailClosed(b) \in Bindings /\ FailClosed(b).status = "failed"
  BY <1>2, FailClosedIsBinding
<1>4. CASE /\ hostFollows' = [hostFollows EXCEPT ![<<w, h>>] = s]
           /\ Publish(w, Ready(b))
           /\ bindingLock' = LetGo(bindingLock, j)
           /\ jobs' = [jobs EXCEPT ![j].at = "send"]
           /\ UNCHANGED <<controlLock, writerLock, active>>
  <2> DEFINE r == [jobs[j] EXCEPT !.at = "send"]
  <2>1. /\ windowBound' \in [CcWindows -> Bindings] /\ windowDisk' \in [CcWindows -> Bindings]
        /\ windowBound'[w] = Ready(b) /\ \A v \in CcWindows \ {w} : windowBound'[v] = windowBound[v]
    BY <1>1, <1>3, <1>4, Published DEF Publish
  <2>2. /\ hostFollows' \in [CcWindows \X Homes -> MaybeSession]
        /\ hostFollows'[<<w, h>>] = s
        /\ \A v \in CcWindows, g \in Homes : v # w => hostFollows'[<<v, g>>] = hostFollows[<<v, g>>]
    BY SessionsOrNone, <1>1, <1>4, HostChange
  <2>3. r \in JobRecords /\ r.at = "send" /\ r.sess = s /\ r.home = h
    BY <1>2 DEF JobRecords
  <2>4. jobs' \in [WhoJobs -> JobRecords] /\ jobs'[j] = r /\ \A k \in WhoJobs \ {j} : jobs'[k] = jobs[k]
    BY <1>1, <1>4, <2>3 DEF WindowShape
  <2>5. bindingLock' \in [CcWindows -> Holders]
        /\ \A x \in CcWindows : bindingLock[x] \notin {Nobody, j} => bindingLock'[x] = bindingLock[x]
    BY <1>1, <1>4 DEF WindowShape, Holders, LetGo
  <2>6. WindowShape' BY <1>1, <1>4, <2>1, <2>2, <2>4, <2>5, ShapeNext DEF WindowShape
  <2>7. SparesOthers(j) BY <1>4, <2>4, <2>5 DEF SparesOthers
  <2>8. Stage(j)' = "send" /\ Job(j)' = Job(j) /\ Bound(j)' = Ready(b)
    BY <2>1, <2>3, <2>4 DEF Stage, Job, Bound
  <2>9. Follows(w, Bound(j))' BY <1>3, <2>2, <2>8 DEF Follows
  <2>10. MessageRight(j)'
    BY <1>1, <1>2, <1>3, <1>4, <2>3, <2>4, <2>8, <2>9 DEF MessageRight, Underway
  <2>11. JobRight(j)'
    BY <2>8, <2>10 DEF JobRight, RebinderRight, WriterRight, Rebinds, Reverts
  <2>12. Enters(j) /\ Lands(j) BY <1>1, <2>8 DEF Enters, Rebinds, Lands
  <2>13. ChangesWindow(j) BY <1>1, <2>1, <2>2 DEF ChangesWindow, SameWindow
  <2>14. HostTrue(w)' BY <1>3, <2>1, <2>2 DEF HostTrue, Follows
  <2>15. WindowRight(w)' BY <2>14 DEF WindowRight
  <2> QED BY <2>6, <2>7, <2>11, <2>12, <2>13, <2>15 DEF JobStep
<1>5. CASE /\ hostFollows' \in {hostFollows, [hostFollows EXCEPT ![<<w, h>>] = s]}
           /\ Publish(w, FailClosed(b)) \/ UNCHANGED <<windowBound, windowDisk>>
           /\ Ends(j)
  <2>1. /\ windowBound' \in [CcWindows -> Bindings] /\ windowDisk' \in [CcWindows -> Bindings]
        /\ windowBound'[w] = FailClosed(b) \/ windowBound'[w] = b
        /\ \A v \in CcWindows \ {w} : windowBound'[v] = windowBound[v]
    BY <1>1, <1>3, Published, <1>5 DEF Publish, WindowShape
  <2>2. /\ hostFollows' \in [CcWindows \X Homes -> MaybeSession]
        /\ hostFollows' = hostFollows \/ hostFollows'[<<w, h>>] = s
        /\ \A v \in CcWindows, g \in Homes : v # w => hostFollows'[<<v, g>>] = hostFollows[<<v, g>>]
    <3>1. CASE hostFollows' = hostFollows BY <1>1, <3>1 DEF WindowShape
    <3>2. CASE hostFollows' = [hostFollows EXCEPT ![<<w, h>>] = s]
      BY SessionsOrNone, <1>1, <3>2, HostChange
    <3> QED BY <1>5, <3>1, <3>2
  <2>3. HostTrue(w)
    BY <1>2 DEF Reverts, Rebinds, WindowsInvariant, JobRight, RebinderRight, WindowRight
  <2>4. HostTrue(w)' BY <1>2, <1>3, <2>1, <2>2, <2>3 DEF HostTrue, Follows
  <2>5. \A v \in CcWindows \ {w} : SameWindow(v) BY <2>1, <2>2 DEF SameWindow
  <2> QED BY <1>1, <1>5, <2>1, <2>2, <2>4, <2>5, EndsWithChange
<1> QED BY <1>2, <1>4, <1>5 DEF ResumePending

\* Send is a step of its job.
LEMMA SendIsAStep ==
  ASSUME WindowsInvariant, NEW j \in WhoJobs, Send(j), ccPlan' = ccPlan
  PROVE  JobStep(j)
<1>1. /\ WindowShape /\ Stage(j) = "send" /\ Underway(j)
      /\ UNCHANGED <<windowBound, windowDisk, hostFollows, ccExisting>>
  BY DEF WindowsInvariant, Send, Underway
<1>2. /\ Nobody \notin WhoJobs /\ Job(j).w \in CcWindows /\ jobs[j] \in JobRecords /\ jobs[j].sess \in CcSessions
      /\ MessageRight(j) /\ ~Reverts(j) /\ active[jobs[j].sess] = j /\ Job(j).does \in {"message", "broadcast"}
      /\ Bound(j).sess = jobs[j].sess /\ Bound(j).home \in Homes
  BY <1>1, MessageFacts
<1>3. \A v \in CcWindows : SameWindow(v) BY <1>1 DEF SameWindow
<1> PICK w \in CcWindows : w = Job(j).w BY <1>2
<1> DEFINE s == hostFollows[<<w, jobs[j].home>>]
<1>4. s \in {None, jobs[j].sess} /\ writerLock[jobs[j].sess] = j
  BY <1>1, <1>2 DEF MessageRight, Follows
<1>5. CASE s = None BY <1>5, <1>1, <1>2, EndsStill DEF Send, Lands
<1>6. CASE s # None
  <2> DEFINE r == [jobs[j] EXCEPT !.at = "writing", !.touches = s]
  <2>1. s = jobs[j].sess BY <1>4, <1>6
  <2>2. /\ landed' = landed \cup {[meant |-> jobs[j].sess, in |-> s]}
        /\ jobs' = [jobs EXCEPT ![j].at = "writing", ![j].touches = s]
        /\ UNCHANGED <<bindingLock, controlLock, writerLock, active>>
    BY <1>6 DEF Send, locks
  <2>3. r \in JobRecords /\ r.at = "writing" /\ r.touches = jobs[j].sess /\ r.sess = jobs[j].sess
    BY <1>2, <2>1, SessionsOrNone DEF JobRecords
  <2>4. jobs' = [jobs EXCEPT ![j] = r] BY <1>1, <2>2 DEF WindowShape
  <2>5. /\ jobs' \in [WhoJobs -> JobRecords] /\ jobs'[j] = r
        /\ bindingLock' \in [CcWindows -> Holders] /\ controlLock' \in [CcSessions -> Holders]
        /\ writerLock' \in [CcSessions -> Holders] /\ active' \in [CcSessions -> Holders]
        /\ SparesOthers(j)
    BY <1>1, <2>2, <2>3, <2>4, GoesOn
  <2>6. WindowShape' BY <1>1, <2>5, ShapeNext DEF WindowShape
  <2>7. Stage(j)' = "writing" /\ Job(j)' = Job(j) BY <2>3, <2>5 DEF Stage, Job
  <2>8. WriterRight(j)' BY <1>2, <1>4, <2>2, <2>3, <2>5, <2>7 DEF WriterRight
  <2>9. JobRight(j)'
    BY <2>7, <2>8 DEF JobRight, RebinderRight, MessageRight, Rebinds, Reverts, Underway
  <2>10. Enters(j) BY <2>7 DEF Enters, Rebinds, Underway
  <2>11. Lands(j) BY <2>1, <2>2 DEF Lands
  <2>12. \A v \in CcWindows : WindowRight(v)'
    BY <1>1, <1>2, <1>3, <2>5, StillRight DEF WindowsInvariant
  <2> QED BY <1>3, <2>5, <2>6, <2>9, <2>10, <2>11, <2>12 DEF JobStep
<1> QED BY <1>5, <1>6

--------------------
\* BeginSetting is a step of its job.
LEMMA BeginSettingIsAStep ==
  ASSUME WindowsInvariant, NEW j \in WhoJobs, BeginSetting(j), ccPlan' = ccPlan
  PROVE  JobStep(j)
<1>1. /\ WindowShape /\ Stage(j) = "todo" /\ Job(j).does = "setting" /\ ~Reverts(j)
      /\ UNCHANGED <<windowBound, windowDisk, hostFollows, ccExisting, landed>>
  BY DEF WindowsInvariant, BeginSetting, Reverts
<1>2. /\ Nobody \notin WhoJobs /\ Job(j).w \in CcWindows /\ jobs[j] \in JobRecords
      /\ Bound(j) = windowBound[Job(j).w] /\ Bound(j) \in Bindings /\ Bound(j).home \in Homes
  BY <1>1, JobsAreNumbered DEF Bound, Bindings
<1> PICK w \in CcWindows : w = Job(j).w BY <1>2
<1>3. Lands(j) /\ \A v \in CcWindows : SameWindow(v) BY <1>1 DEF Lands, SameWindow
<1>4. CASE Ends(j) BY <1>1, <1>3, <1>4, EndsStill
<1>5. CASE ~Ends(j)
  <2> DEFINE f == hostFollows[<<w, Bound(j).home>>]
             r == [jobs[j] EXCEPT !.at = "writing", !.sess = Bound(j).sess, !.touches = f]
  <2>1. /\ Writable(Bound(j)) /\ Bound(j).status = "ready" /\ f # None
        /\ bindingLock[w] = Nobody /\ controlLock[Bound(j).sess] = Nobody /\ active[Bound(j).sess] = Nobody
        /\ bindingLock' = [bindingLock EXCEPT ![w] = j]
        /\ controlLock' = [controlLock EXCEPT ![Bound(j).sess] = j]
        /\ active' = [active EXCEPT ![Bound(j).sess] = j]
        /\ jobs' = [jobs EXCEPT ![j] = r]
        /\ UNCHANGED writerLock
    BY <1>5 DEF BeginSetting, NoTaskOf, Conversation
  <2>2. Bound(j).sess \in CcSessions BY <1>2, <2>1 DEF Writable, Bindings, MaybeSession
  <2> PICK s \in CcSessions : s = Bound(j).sess BY <2>2
  <2>3. f = s BY <2>1, FreeWindowIsTrue, <1>2, SessionsOrNone DEF HostTrue, Follows
  <2>4. r \in JobRecords /\ r.at = "writing" /\ r.sess = s /\ r.touches = s
    BY <1>2, <2>3, SessionsOrNone DEF JobRecords
  <2>5. jobs' \in [WhoJobs -> JobRecords] /\ jobs'[j] = r /\ \A k \in WhoJobs \ {j} : jobs'[k] = jobs[k]
    BY <1>1, <2>1, <2>4 DEF WindowShape
  <2>6. active' \in [CcSessions -> Holders] /\ active'[s] = j
        /\ \A x \in CcSessions : active[x] \notin {Nobody, j} => active'[x] = active[x]
    BY <1>1, <2>1 DEF WindowShape, Holders
  <2>7. controlLock' \in [CcSessions -> Holders] /\ controlLock'[s] = j
        /\ \A x \in CcSessions : controlLock[x] \notin {Nobody, j} => controlLock'[x] = controlLock[x]
    BY <1>1, <2>1 DEF WindowShape, Holders
  <2>8. bindingLock' \in [CcWindows -> Holders]
        /\ \A x \in CcWindows : bindingLock[x] \notin {Nobody, j} => bindingLock'[x] = bindingLock[x]
    BY <1>1, <2>1 DEF WindowShape, Holders
  <2>9. WindowShape' BY <1>1, <2>1, <2>5, <2>6, <2>7, <2>8, ShapeNext DEF WindowShape
  <2>10. SparesOthers(j) BY <2>1, <2>5, <2>6, <2>7, <2>8 DEF SparesOthers
  <2>11. Stage(j)' = "writing" /\ Job(j)' = Job(j) BY <2>4, <2>5 DEF Stage, Job
  <2>12. WriterRight(j)' BY <1>1, <2>4, <2>5, <2>6, <2>7, <2>11 DEF WriterRight
  <2>13. JobRight(j)' /\ Enters(j)
    BY <2>11, <2>12 DEF JobRight, RebinderRight, MessageRight, Rebinds, Reverts, Underway, Enters
  <2>14. \A v \in CcWindows : WindowRight(v)'
    BY <1>1, <1>3, <2>10, StillRight DEF WindowsInvariant
  <2> QED BY <1>3, <2>9, <2>10, <2>13, <2>14 DEF JobStep
<1> QED BY <1>4, <1>5

\* BeginRename is a step of its job.
LEMMA BeginRenameIsAStep ==
  ASSUME WindowsInvariant, NEW j \in WhoJobs, BeginRename(j), ccPlan' = ccPlan
  PROVE  JobStep(j)
<1>1. /\ WindowShape /\ Stage(j) = "todo" /\ Job(j).does = "rename" /\ ~Reverts(j)
      /\ UNCHANGED <<windowBound, windowDisk, hostFollows, ccExisting, landed>>
  BY DEF WindowsInvariant, BeginRename, Reverts
<1>2. /\ Nobody \notin WhoJobs /\ Job(j).w \in CcWindows /\ Job(j).s \in CcSessions /\ jobs[j] \in JobRecords
  BY <1>1, JobsAreNumbered
<1> PICK w \in CcWindows : w = Job(j).w BY <1>2
<1> PICK s \in CcSessions : s = Job(j).s BY <1>2
<1>3. Lands(j) /\ \A v \in CcWindows : SameWindow(v) BY <1>1 DEF Lands, SameWindow
<1>4. CASE Ends(j) BY <1>1, <1>3, <1>4, EndsStill
<1>5. CASE ~Ends(j)
  <2> DEFINE r == [jobs[j] EXCEPT !.at = "writing", !.sess = s, !.touches = s]
  <2>1. /\ bindingLock[w] = Nobody /\ controlLock[s] = Nobody /\ writerLock[s] = Nobody
        /\ bindingLock' = [bindingLock EXCEPT ![w] = j]
        /\ controlLock' = [controlLock EXCEPT ![s] = j]
        /\ writerLock' = [writerLock EXCEPT ![s] = j]
        /\ jobs' = [jobs EXCEPT ![j] = r]
        /\ UNCHANGED active
    BY <1>5 DEF BeginRename
  <2>4. r \in JobRecords /\ r.at = "writing" /\ r.sess = s /\ r.touches = s
    BY <1>2, SessionsOrNone DEF JobRecords
  <2>5. jobs' \in [WhoJobs -> JobRecords] /\ jobs'[j] = r /\ \A k \in WhoJobs \ {j} : jobs'[k] = jobs[k]
    BY <1>1, <2>1, <2>4 DEF WindowShape
  <2>6. writerLock' \in [CcSessions -> Holders] /\ writerLock'[s] = j
        /\ \A x \in CcSessions : writerLock[x] \notin {Nobody, j} => writerLock'[x] = writerLock[x]
    BY <1>1, <2>1 DEF WindowShape, Holders
  <2>7. controlLock' \in [CcSessions -> Holders] /\ controlLock'[s] = j
        /\ \A x \in CcSessions : controlLock[x] \notin {Nobody, j} => controlLock'[x] = controlLock[x]
    BY <1>1, <2>1 DEF WindowShape, Holders
  <2>8. bindingLock' \in [CcWindows -> Holders]
        /\ \A x \in CcWindows : bindingLock[x] \notin {Nobody, j} => bindingLock'[x] = bindingLock[x]
    BY <1>1, <2>1 DEF WindowShape, Holders
  <2>9. WindowShape' BY <1>1, <2>1, <2>5, <2>6, <2>7, <2>8, ShapeNext DEF WindowShape
  <2>10. SparesOthers(j) BY <2>1, <2>5, <2>6, <2>7, <2>8 DEF SparesOthers
  <2>11. Stage(j)' = "writing" /\ Job(j)' = Job(j) BY <2>4, <2>5 DEF Stage, Job
  <2>12. WriterRight(j)' BY <1>1, <2>4, <2>5, <2>6, <2>7, <2>11 DEF WriterRight
  <2>13. JobRight(j)' /\ Enters(j)
    BY <2>11, <2>12 DEF JobRight, RebinderRight, MessageRight, Rebinds, Reverts, Underway, Enters
  <2>14. \A v \in CcWindows : WindowRight(v)'
    BY <1>1, <1>3, <2>10, StillRight DEF WindowsInvariant
  <2> QED BY <1>3, <2>9, <2>10, <2>13, <2>14 DEF JobStep
<1> QED BY <1>4, <1>5

\* FinishWriting is a step of its job.
LEMMA FinishWritingIsAStep ==
  ASSUME WindowsInvariant, NEW j \in WhoJobs, FinishWriting(j), ccPlan' = ccPlan
  PROVE  JobStep(j)
<1>1. /\ WindowShape /\ Stage(j) = "writing" /\ ~Reverts(j) /\ jobs[j] \in JobRecords
      /\ UNCHANGED <<windowBound, windowDisk, hostFollows, ccExisting, landed>>
  BY DEF WindowsInvariant, FinishWriting, Reverts, WindowShape
<1>3. Lands(j) /\ \A v \in CcWindows : SameWindow(v) BY <1>1 DEF Lands, SameWindow
<1>4. CASE Ends(j) BY <1>1, <1>3, <1>4, EndsStill
<1>5. CASE ~Ends(j)
  <2> DEFINE r == [jobs[j] EXCEPT !.at = "leaving"]
  <2>1. /\ writerLock' = LetGo(writerLock, j)
        /\ jobs' = [jobs EXCEPT ![j] = r]
        /\ UNCHANGED <<bindingLock, controlLock, active>>
    BY <1>5 DEF FinishWriting
  <2>4. r \in JobRecords /\ r.at = "leaving" BY <1>1 DEF JobRecords
  <2>5. jobs' \in [WhoJobs -> JobRecords] /\ jobs'[j] = r /\ \A k \in WhoJobs \ {j} : jobs'[k] = jobs[k]
    BY <1>1, <2>1, <2>4 DEF WindowShape
  <2>6. writerLock' \in [CcSessions -> Holders]
        /\ \A x \in CcSessions : writerLock[x] \notin {Nobody, j} => writerLock'[x] = writerLock[x]
    BY <1>1, <2>1 DEF WindowShape, Holders, LetGo
  <2>9. WindowShape' BY <1>1, <2>1, <2>5, <2>6, ShapeNext DEF WindowShape
  <2>10. SparesOthers(j) BY <2>1, <2>5, <2>6 DEF SparesOthers
  <2>11. Stage(j)' = "leaving" BY <2>4, <2>5 DEF Stage
  <2>13. JobRight(j)' /\ Enters(j)
    BY <2>11 DEF JobRight, RebinderRight, MessageRight, WriterRight, Rebinds, Reverts, Underway, Enters
  <2>14. \A v \in CcWindows : WindowRight(v)'
    BY <1>1, <1>3, <2>10, StillRight DEF WindowsInvariant
  <2> QED BY <1>3, <2>9, <2>10, <2>13, <2>14 DEF JobStep
<1> QED BY <1>4, <1>5

\* LeaveTasks is a step of its job.
LEMMA LeaveTasksIsAStep ==
  ASSUME WindowsInvariant, NEW j \in WhoJobs, LeaveTasks(j), ccPlan' = ccPlan
  PROVE  JobStep(j)
<1>1. Ends(j) /\ ~Reverts(j) /\ Lands(j)
      /\ UNCHANGED <<windowBound, windowDisk, hostFollows, ccExisting, landed>>
  BY DEF LeaveTasks, Reverts, Lands
<1> QED BY <1>1, EndsStill

\* A restart leaves no job at work and no window ready.
LEMMA RestartKeeps ==
  ASSUME WindowsInvariant, RestartService, ccPlan' = ccPlan
  PROVE  WindowsInvariant'
<1>1. WindowShape /\ WhoJobs' = WhoJobs BY DEF WindowsInvariant, WhoJobs
<1>2. \A w \in CcWindows :
        /\ windowBound'[w] \in Bindings
        /\ windowBound'[w].sess # None => windowBound'[w].status = "pending"
  <2> TAKE w \in CcWindows
  <2> PICK b \in Bindings : b = windowDisk[w] BY <1>1 DEF WindowShape
  <2>1. windowBound'[w] = IF b.sess = None \/ b.status = "pending" THEN b
                          ELSE [b EXCEPT !.status = "pending", !.rev = b.rev + 1]
    BY DEF RestartService
  <2>2. CASE b.sess = None \/ b.status = "pending" BY <2>1, <2>2
  <2>3. CASE ~(b.sess = None \/ b.status = "pending")
    <3> PICK n \in Nat : n = b.rev + 1 BY DEF Bindings
    <3>1. windowBound'[w] = [b EXCEPT !.status = "pending", !.rev = n] BY <2>1, <2>3
    <3>2. "pending" \in BindingStatuses BY DEF BindingStatuses
    <3> QED BY <3>1, <3>2 DEF Bindings
  <2> QED BY <2>2, <2>3
<1>3. windowBound' \in [CcWindows -> Bindings] BY <1>2 DEF RestartService
<1>4. windowDisk' \in [CcWindows -> Bindings]
  BY <1>1, <1>3 DEF RestartService, WindowShape
<1>5. hostFollows' \in [CcWindows \X Homes -> MaybeSession]
  BY <1>1, SessionsOrNone DEF RestartService, WindowShape
<1>6. jobs' \in [WhoJobs -> JobRecords] /\ \A k \in WhoJobs : jobs'[k].at \in {"todo", "over"}
  <2>1. jobs' = [k \in WhoJobs |-> jobs'[k]] BY <1>1 DEF RestartService, WindowShape
  <2>2. \A k \in WhoJobs : jobs'[k] \in JobRecords /\ jobs'[k].at \in {"todo", "over"}
    <3> TAKE k \in WhoJobs
    <3>1. jobs[k] \in JobRecords BY <1>1 DEF WindowShape
    <3>2. jobs'[k] = IF jobs[k].at = "todo" THEN jobs[k] ELSE [jobs[k] EXCEPT !.at = "over"]
      BY <1>1 DEF RestartService, WindowShape, Stage
    <3>3. [jobs[k] EXCEPT !.at = "over"] \in JobRecords /\ [jobs[k] EXCEPT !.at = "over"].at = "over"
      BY <3>1 DEF JobRecords
    <3> QED BY <3>1, <3>2, <3>3
  <2> QED BY <2>1, <2>2
<1>7. /\ bindingLock' \in [CcWindows -> Holders] /\ controlLock' \in [CcSessions -> Holders]
      /\ writerLock' \in [CcSessions -> Holders] /\ active' \in [CcSessions -> Holders]
  BY DEF RestartService, Holders
<1>8. WindowShape'
  BY <1>1, <1>3, <1>4, <1>5, <1>6, <1>7, ShapeNext DEF RestartService, WindowShape
<1>9. \A k \in WhoJobs : ~Rebinds(k)' /\ ~Underway(k)' /\ ~Reverts(k)' /\ JobRight(k)'
  BY <1>6 DEF JobRight, RebinderRight, MessageRight, WriterRight, Rebinds, Reverts, Underway, Stage
<1>10. Alone' BY <1>1, <1>9 DEF Alone
<1>11. \A w \in CcWindows : WindowRight(w)' BY <1>2 DEF WindowRight, HostTrue
<1>12. SentWhereAdmitted' BY DEF RestartService, SentWhereAdmitted, WindowsInvariant
<1> QED BY <1>1, <1>8, <1>9, <1>10, <1>11, <1>12 DEF WindowsInvariant

\* The initial states.
LEMMA WindowsStart == WindowsInit => WindowsInvariant
<1> SUFFICES ASSUME WindowsInit PROVE WindowsInvariant OBVIOUS
<1>1. Unbound.home \in Homes BY CcAssumption, HomeIsHome DEF Unbound
<1>2. Unbound \in Bindings /\ Unbound.sess = None
  BY <1>1, SessionsOrNone DEF Unbound, Bindings, BindingStatuses
<1>3. \A k \in WhoJobs : jobs[k] \in JobRecords /\ jobs[k].at = "todo"
  BY <1>1, <1>2, SessionsOrNone DEF WindowsInit, WhoJobs, JobRecords
<1>4. jobs \in [WhoJobs -> JobRecords] BY <1>3 DEF WindowsInit, WhoJobs
<1>5. WindowShape
  BY <1>2, <1>4, CcAssumption, SessionsOrNone DEF WindowsInit, WindowShape, Holders
<1>6. \A k \in WhoJobs : JobRight(k) /\ ~Rebinds(k)
  BY <1>3 DEF JobRight, RebinderRight, MessageRight, WriterRight, Rebinds, Reverts, Underway, Stage
<1>7. \A w \in CcWindows : WindowRight(w) BY <1>2 DEF WindowsInit, WindowRight, HostTrue
<1> QED BY <1>5, <1>6, <1>7 DEF WindowsInvariant, Alone, SentWhereAdmitted, WindowsInit

\* Every step of the windows keeps the invariant.
LEMMA WindowsStep == WindowsInvariant /\ [WindowsNext]_ccVars => WindowsInvariant'
<1> SUFFICES ASSUME WindowsInvariant, [WindowsNext]_ccVars PROVE WindowsInvariant'
  OBVIOUS
<1>1. CASE UNCHANGED ccVars
  <2>1. UNCHANGED <<windowBound, windowDisk, hostFollows, ccExisting, bindingLock, controlLock, writerLock, active,
                    jobs, ccPlan, landed>>
    BY <1>1 DEF ccVars
  <2> QED
    BY <2>1 DEF WindowsInvariant, WindowShape, Holders, WhoJobs, JobRight, RebinderRight, MessageRight, WriterRight,
                Rebinds, Underway, Reverts, Stage, Job, Bound, Alone, WindowRight, HostTrue, Follows, SentWhereAdmitted
<1>2. CASE WindowsNext
  <2>0. ccPlan' = ccPlan BY <1>2 DEF WindowsNext
  <2>1. CASE RestartService BY <2>0, <2>1, RestartKeeps
  <2>2. CASE ~RestartService
    <3>1. PICK j \in WhoJobs :
            \/ BeginRebind(j) \/ BeginCwd(j) \/ CreateOnHost(j) \/ RestoreHost(j) \/ Acquire(j)
            \/ FollowHost(j) \/ ClearPrevious(j) \/ Release(j)
            \/ Admit(j) \/ AdmitBroadcast(j) \/ Start(j) \/ StartBroadcast(j)
            \/ Resolve(j) \/ ResumePending(j) \/ Send(j)
            \/ BeginSetting(j) \/ BeginRename(j) \/ FinishWriting(j) \/ LeaveTasks(j)
      BY <1>2, <2>2 DEF WindowsNext, WhoJobs
    <3>2. JobStep(j)
      <4>1. CASE BeginRebind(j) \/ BeginCwd(j)
        BY <2>0, <4>1, RebindingIsAStep DEF BeginRebind, BeginCwd
      <4>2. CASE CreateOnHost(j) BY <2>0, <4>2, CreateOnHostIsAStep
      <4>3. CASE RestoreHost(j) BY <2>0, <4>3, RestoreHostIsAStep
      <4>4. CASE Acquire(j) BY <2>0, <4>4, AcquireIsAStep
      <4>5. CASE FollowHost(j) BY <2>0, <4>5, FollowHostIsAStep
      <4>6. CASE ClearPrevious(j) BY <2>0, <4>6, ClearPreviousIsAStep
      <4>7. CASE Release(j) BY <2>0, <4>7, ReleaseIsAStep
      <4>8. CASE Admit(j) \/ AdmitBroadcast(j)
        BY <2>0, <4>8, AdmittedIsAStep DEF Admit, AdmitBroadcast
      <4>9. CASE Start(j) \/ StartBroadcast(j)
        BY <2>0, <4>9, StartedIsAStep DEF Start, StartBroadcast
      <4>10. CASE Resolve(j) BY <2>0, <4>10, ResolveIsAStep
      <4>11. CASE ResumePending(j) BY <2>0, <4>11, ResumePendingIsAStep
      <4>12. CASE Send(j) BY <2>0, <4>12, SendIsAStep
      <4>13. CASE BeginSetting(j) BY <2>0, <4>13, BeginSettingIsAStep
      <4>14. CASE BeginRename(j) BY <2>0, <4>14, BeginRenameIsAStep
      <4>15. CASE FinishWriting(j) BY <2>0, <4>15, FinishWritingIsAStep
      <4>16. CASE LeaveTasks(j) BY <2>0, <4>16, LeaveTasksIsAStep
      <4> QED BY <3>1, <4>1, <4>2, <4>3, <4>4, <4>5, <4>6, <4>7, <4>8, <4>9, <4>10, <4>11, <4>12, <4>13, <4>14,
                 <4>15, <4>16
    <3> QED BY <3>2, JobStepKeeps
  <2> QED BY <2>1, <2>2
<1> QED BY <1>1, <1>2

\* Two writers of one session would hold one of its locks in common.
LEMMA RightIsSound == WindowsInvariant => SessionsSound
<1> SUFFICES ASSUME WindowsInvariant PROVE SessionsSound OBVIOUS
<1>1. OneWriter
  <2> SUFFICES ASSUME NEW j \in DOMAIN jobs, NEW i \in DOMAIN jobs, Stage(j) = "writing", Stage(i) = "writing",
                      jobs[j].touches = jobs[i].touches
               PROVE  j = i
    BY DEF OneWriter
  <2>1. j \in WhoJobs /\ i \in WhoJobs BY DEF WindowsInvariant, WindowShape
  <2>2. WriterRight(j) /\ WriterRight(i) BY <2>1 DEF WindowsInvariant, JobRight
  <2> QED BY <2>2 DEF WriterRight
<1> QED BY <1>1 DEF SessionsSound, WindowsInvariant

\* A message enters the session its window was bound to when it was admitted, or is
\* refused, and one session is written by one prompt, setting or rename at a time,
\* for any windows, sessions, jobs and number of failures (agent_task.go,
\* claude_session_acquire.go, claude_session_rename.go).
THEOREM SessionsStaySound == WindowsSpec => []SessionsSound
<1>1. WindowsInvariant /\ [WindowsNext]_ccVars => WindowsInvariant' BY WindowsStep
<1> QED BY <1>1, WindowsStart, RightIsSound, PTL DEF WindowsSpec
=============================================================================
