--------------------------- MODULE CodexFollower ---------------------------
(***************************************************************************)
(* One Feishu window that follows shared Codex threads.  The window's      *)
(* binding is durable; a reconciler, the /cx commands, the observers of    *)
(* running turns, the outbox worker and access changes all act on it.      *)
(*                                                                         *)
(* codexFollowerDeliveryMu is the read-write barrier between them: a       *)
(* delivery and the tail of a reconciliation hold it for reading, a        *)
(* command that rebinds or releases, and a revocation, for writing.        *)
(*                                                                         *)
(* Every thread lives in a workspace of its own, so the active workspace,  *)
(* the conversation and the task slot are named by the thread.  Turn 0 is  *)
(* the empty turn id.  The attach revision is abstracted to whether the    *)
(* revision an actor expects is still the binding's (`fresh`).             *)
(***************************************************************************)
EXTENDS Naturals, FiniteSets, Functions, TLC

CONSTANTS
  Threads,        \* the threads the window may select
  NoThread,
  Archivable,     \* those another front end may archive
  MaxTurns,       \* turns the host runs on a thread
  MaxCommands,    \* /cx switch and /cx release commands
  Faults,         \* which of these may happen: "write" (of the binding file),
                  \* "host" (a read, a send, a card update), "bind" (a switch
                  \* rolled back), "revoke" (of the window's access)
  MaxFaults,      \* how many of them
  MaxCrashes

ASSUME FollowerConstants ==
  /\ NoThread \notin Threads /\ Archivable \subseteq Threads
  /\ Faults \subseteq {"write", "host", "bind", "revoke"}
  /\ {MaxTurns, MaxCommands, MaxFaults, MaxCrashes} \subseteq Nat

VARIABLES
  sel,      \* the durable binding of the window
  host,     \* the shared host: the last turn of each thread
  allowed,  \* the registry admits the window's identity
  task,     \* the observer of each thread
  out,      \* the durable outbox: entry id -> what it carries
  prep,     \* in-memory holds of the outbox; prep is what the worker skips
  startup, folHeld, relHeld,
  inflight, \* deliveries past their decision: they hold the barrier
  rec,      \* the reconciler
  cmd,      \* the command in progress: it holds the binding lock
  revoking, \* a hot reload changed the registry and has not yet detached
  budget,   \* what is left of the bounds
  shown,    \* history: what reached the window
  vouched,  \* history: this process has seen the follower become ready
  torn      \* history: what a fault tore apart

holds   == <<prep, startup, folHeld, relHeld>>
vars == <<sel, host, allowed, task, out, prep, startup, folHeld, relHeld,
          inflight, rec, cmd, revoking, budget, shown, vouched, torn>>

Turns == 0 .. MaxTurns
NoSel == 0
Idle == [pc |-> "idle"]
NoCard == [k |-> "none", thr |-> NoThread, turn |-> 0, tag |-> <<0, 0>>]
NoTask == [on |-> FALSE, turn |-> 0, rev |-> 0, fresh |-> FALSE, ready |-> "no",
           started |-> FALSE, card |-> NoCard]

\* A reservation, a reconciled terminal or a replay of one turn.  The
\* reconciled id is a hash of the endpoint, thread and turn: not the revision.
Reservation(t, n, r, k) == [k |-> "task", thr |-> t, turn |-> n, tag |-> <<r, k>>]
TerminalID(t, n) == [k |-> "key", thr |-> t, turn |-> n, tag |-> <<0, 0>>]
ReplayID(t, n, s) == [k |-> "replay", thr |-> t, turn |-> n, tag |-> <<s, 0>>]

\* Every observation of a turn has a task id of its own.
NewReservation(t, n, r) ==
  LET used == DOMAIN out \union {task[x].card : x \in Threads}
      k == CHOOSE i \in 0 .. Cardinality(used) : Reservation(t, n, r, i) \notin used
  IN Reservation(t, n, r, k)

Put(id, e) == out' = (id :> e) @@ out
Drop(ids) == out' = Restrict(out, DOMAIN out \ ids)

\* The kinds of one step's faults: nothing, one, or two at once.
Spend(kinds) ==
  /\ kinds \subseteq Faults /\ Cardinality(kinds) <= budget.fault
  /\ budget' = [budget EXCEPT !.fault = @ - Cardinality(kinds)]

---------------------------------------------------------------------------
(* The binding store.  A commit writes the candidate and then replaces the *)
(* map in memory, so a failed write changes neither.                       *)

ClearFollower(s) ==
  [s EXCEPT !.fol = NoThread, !.rev = @ + 1, !.phase = "", !.aturn = 0,
            !.cur = 0, !.init = FALSE, !.pend = FALSE, !.notice = FALSE]

\* followerSnapshots: the follower as it can still be used.
Following(s) == s.fol # NoThread /\ s.sess[s.fol] = "bound" /\ s.fol \notin s.archived

Snapshot(s) == [thr |-> s.fol, rev |-> s.rev, cur |-> s.cur, init |-> s.init,
                pend |-> s.pend, phase |-> s.phase, aturn |-> s.aturn,
                notice |-> s.notice]

FollowerMatches(s, p) ==
  /\ s.rev = p.rev /\ s.fol = p.thr /\ s.notice = p.notice
  /\ s.cur = p.cur /\ s.init = p.init /\ s.pend = p.pend

CommitTurn(s, n, pending) ==
  [s EXCEPT !.cur = n, !.init = TRUE, !.pend = pending,
            !.replay.observed = IF n # 0 THEN n ELSE @]

AttachRuntime(s, n) == [s EXCEPT !.phase = "preparing", !.aturn = n]

\* selectCodexRemoteWorkspace: choosing the thread already chosen keeps the
\* replay selection and, when the follower is the same, its cursor.
Select(s, t, base, id) ==
  LET keep == s.fol = t
      same == s.active = t /\ s.sess[t] = "bound" /\ s.replay.id # NoSel /\ s.replay.thr = t
      rep  == IF same THEN s.replay
              ELSE [id |-> id, thr |-> t, presented |-> 0, observed |-> 0]
  IN [s EXCEPT !.active = t, !.sess[t] = "bound", !.fol = t,
               !.rev = IF keep THEN @ ELSE @ + 1,
               !.cur = IF keep THEN @ ELSE base.turn,
               !.init = IF keep THEN @ ELSE TRUE,
               !.pend = IF keep THEN @ ELSE base.pend,
               !.phase = "preparing", !.aturn = base.turn, !.notice = FALSE,
               !.replay = IF base.pend THEN [rep EXCEPT !.observed = base.turn] ELSE rep]

ReleaseThread(s, t) ==
  LET r == [s EXCEPT !.sess[t] = "pending"]
  IN IF s.fol = t THEN ClearFollower(r) ELSE r

Archive(s, t) ==
  LET r == [s EXCEPT !.sess[t] = IF @ = "bound" THEN "none" ELSE @,
                     !.archived = @ \union {t}]
  IN IF s.fol = t THEN ClearFollower(r) ELSE r

\* load: an intent to release becomes the tombstone.
Load(s) ==
  LET r == [s EXCEPT !.sess = [t \in Threads |->
                       IF s.sess[t] = "pending" THEN "released" ELSE s.sess[t]]]
  IN IF r.fol # NoThread /\ r.sess[r.fol] # "bound" THEN ClearFollower(r) ELSE r

---------------------------------------------------------------------------
(* The outbox's view of followers and releases.                            *)

IsCard(id) == id \in DOMAIN out /\ out[id].card
MatchesGuardOfCards(id, s) ==       \* mutant: cards only, results are not held
  IsCard(id) /\ Following(s) /\ out[id].rev = s.rev /\ id.thr = s.fol
MatchesGuard(id, s) == Following(s) /\ out[id].rev = s.rev /\ id.thr = s.fol
MatchesFollower(id, s) == IsCard(id) /\ Following(s) /\ id.thr = s.fol
MatchesRelease(id, s) == IsCard(id) /\ s.sess[id.thr] \in {"pending", "released"}
Committed(s) == {id \in DOMAIN out : IsCard(id) /\ s.sess[id.thr] = "released"}

\* terminalOutboxDeliveryDecision: "" is a delivery.
Decision(id) ==
  IF ~allowed THEN "identity_not_allowed"
  ELSE IF id.k = "replay" /\ (sel.replay.id # id.tag[1] \/ sel.active # sel.replay.thr
                              \/ sel.sess[id.thr] # "bound" \/ sel.active # id.thr)
         THEN "replay_selection_changed"
  ELSE IF ~Following(sel) THEN "follower_missing"
  ELSE IF sel.rev # out[id].rev \/ sel.fol # id.thr THEN "revision_changed"
  ELSE IF sel.phase # "ready" THEN "attach_not_ready"
  ELSE ""

\* The barrier: who reads, and whether a writer may enter.
Readers == inflight # {} \/ rec.pc \in {"recover", "settle", "claim", "activate"}
Writing == cmd.pc \in {"bind", "attach", "ready", "replay"}
CanRead  == ~Writing
CanWriteOverReaders == ~Writing     \* mutant: the writer does not wait for the readers
CanWrite == ~Readers /\ ~Writing
LockFree == cmd.pc = "idle"

---------------------------------------------------------------------------
Init ==
  /\ sel = [active |-> NoThread, sess |-> [t \in Threads |-> "none"],
            fol |-> NoThread, rev |-> 0, phase |-> "", aturn |-> 0,
            cur |-> 0, init |-> FALSE, pend |-> FALSE, notice |-> FALSE,
            replay |-> [id |-> NoSel, thr |-> NoThread, presented |-> 0, observed |-> 0],
            archived |-> {}]
  /\ host = [t \in Threads |-> [last |-> 0, active |-> FALSE, done |-> "completed"]]
  /\ allowed = TRUE
  /\ task = [t \in Threads |-> NoTask]
  /\ out = [id \in {} |-> 0]
  /\ prep = {} /\ startup = {} /\ folHeld = {} /\ relHeld = {}
  /\ inflight = {}
  /\ rec = Idle /\ cmd = Idle /\ revoking = FALSE
  /\ budget = [cmd |-> MaxCommands, fault |-> MaxFaults, crash |-> MaxCrashes]
  /\ shown = {} /\ vouched = FALSE /\ torn = {}

---------------------------------------------------------------------------
(* The host: other front ends start and end turns at any time.             *)

StartTurn(t) ==
  /\ ~host[t].active /\ host[t].last < MaxTurns
  /\ host' = [host EXCEPT ![t].last = @ + 1, ![t].active = TRUE]
  /\ UNCHANGED <<sel, allowed, task, out, holds, inflight, rec, cmd, revoking,
                 budget, shown>>

EndTurn(t, how) ==
  /\ host[t].active
  /\ host' = [host EXCEPT ![t].active = FALSE, ![t].done = how]
  /\ UNCHANGED <<sel, allowed, task, out, holds, inflight, rec, cmd, revoking,
                 budget, shown>>

---------------------------------------------------------------------------
(* /cx switch: acquireCodexSessionWithBindingLocked.                       *)

\* Every holder of an attach snapshot but the newest is stale.
Bumped == [t \in Threads |-> [task[t] EXCEPT !.fresh = FALSE]]
Stale == [rec EXCEPT !.fresh = FALSE]
RecStale == rec' = IF rec.pc \in {"prepare", "commit"} THEN Stale ELSE rec

NewID == MaxCommands - budget.cmd + 1

\* The baseline is read before the barrier is taken, and may be unreadable.
AcquireRead(t, readable) ==
  /\ LockFree /\ allowed /\ budget.cmd > 0 /\ t \notin sel.archived
  /\ readable \/ ("host" \in Faults /\ budget.fault > 0)
  /\ budget' = [budget EXCEPT !.cmd = @ - 1, !.fault = IF readable THEN @ ELSE @ - 1]
  /\ cmd' = [pc |-> "enter", thr |-> t, snap |-> sel, id |-> NewID,
             base |-> IF readable THEN [turn |-> host[t].last, pend |-> host[t].active]
                      ELSE [turn |-> 0, pend |-> FALSE]]
  /\ UNCHANGED <<sel, host, allowed, task, out, holds, inflight, rec, revoking, shown>>

AcquireCommit ==
  /\ cmd.pc = "enter" /\ CanWrite /\ allowed
  /\ sel = cmd.snap
  /\ sel' = Select(sel, cmd.thr, cmd.base, cmd.id)
  /\ cmd' = [pc |-> "bind", thr |-> cmd.thr, before |-> sel, after |-> sel',
             fresh |-> {t \in Threads : task[t].fresh}]
  /\ task' = Bumped
  /\ RecStale
  /\ UNCHANGED <<host, allowed, out, holds, inflight, revoking, budget, shown>>

AcquireRefused ==
  /\ cmd.pc = "enter" /\ CanWrite
  /\ \/ (~allowed \/ sel # cmd.snap) /\ UNCHANGED budget
     \/ Spend({"write"})
  /\ cmd' = Idle
  /\ UNCHANGED <<sel, host, allowed, task, out, holds, inflight, rec, revoking, shown>>

BindRuntime ==
  /\ cmd.pc = "bind"
  /\ cmd' = [pc |-> "attach", thr |-> cmd.thr]
  /\ UNCHANGED <<sel, host, allowed, task, out, holds, inflight, rec, revoking,
                 budget, shown>>

\* rollbackRemoteSelection: only when nothing replaced what was committed.
BindFails ==
  /\ cmd.pc = "bind"
  /\ \/ /\ Spend({"bind"}) /\ sel = cmd.after
        /\ sel' = cmd.before
        /\ task' = [t \in Threads |-> [task[t] EXCEPT !.fresh = task[t].on /\ t \in cmd.fresh]]
     \/ /\ \/ Spend({"bind"}) /\ sel # cmd.after
           \/ Spend({"bind", "write"})
        /\ UNCHANGED <<sel, task>>
  /\ cmd' = Idle
  /\ UNCHANGED <<host, allowed, out, holds, inflight, rec, revoking, shown>>

\* The writer is busy: the binding stands and the recovered runtime will be
\* announced on the command's card.
BindDeferred ==
  /\ cmd.pc = "bind" /\ Spend({"host"}) /\ ~host[cmd.thr].active
  /\ sel' = IF Following(sel) THEN [sel EXCEPT !.notice = TRUE] ELSE sel
  /\ cmd' = Idle
  /\ UNCHANGED <<host, allowed, task, out, holds, inflight, rec, revoking, shown>>

AttachIdle ==
  /\ cmd.pc = "attach" /\ ~host[cmd.thr].active
  /\ LET n == host[cmd.thr].last IN
     /\ sel' = IF Following(sel) THEN [AttachRuntime(sel, n) EXCEPT !.phase = "ready"] ELSE sel
     /\ cmd' = [pc |-> "replay", thr |-> cmd.thr, turn |-> n]
  /\ task' = Bumped
  /\ RecStale
  /\ UNCHANGED <<host, allowed, out, holds, inflight, revoking, budget, shown>>

\* Reserve the slot, or join the observer of the same turn; the joined task and
\* its card take the guard of this follower.
NewTask(n, r) == [NoTask EXCEPT !.on = TRUE, !.turn = n, !.rev = r, !.fresh = TRUE]
Join(t, n, r) ==
  IF task[t].on THEN [Bumped EXCEPT ![t].rev = r]
  ELSE [Bumped EXCEPT ![t] = NewTask(n, r)]
Reguard(t, r) ==
  IF task[t].on /\ task[t].card # NoCard THEN [out EXCEPT ![task[t].card].rev = r] ELSE out

AttachActive ==
  /\ cmd.pc = "attach" /\ host[cmd.thr].active /\ Following(sel)
  /\ LET t == cmd.thr
         n == host[t].last
         s == AttachRuntime(sel, n)
     IN /\ \/ /\ ~task[t].on \/ task[t].turn = n
              /\ sel' = CommitTurn(s, n, TRUE)
              /\ task' = Join(t, n, s.rev)
              /\ out' = Reguard(t, s.rev)
              /\ cmd' = [pc |-> "ready", thr |-> t, turn |-> n, joined |-> task[t].on]
           \/ /\ task[t].on /\ task[t].turn # n      \* reservation conflict
              /\ sel' = s /\ task' = Bumped /\ cmd' = Idle /\ UNCHANGED out
        /\ RecStale
  /\ UNCHANGED <<host, allowed, holds, inflight, revoking, budget, shown>>

\* Reading the thread, subscribing or a write fails, or the thread was archived:
\* the binding stands, its observer is left to the reconciler.
AttachFails ==
  /\ cmd.pc = "attach"
  /\ \/ (Spend({"host"}) \/ Spend({"write"})) /\ UNCHANGED <<sel, task, rec>>
     \/ /\ Spend({"write"}) /\ Following(sel)       \* prepared, then not ready
        /\ sel' = AttachRuntime(sel, host[cmd.thr].last)
        /\ task' = Bumped /\ RecStale
     \/ host[cmd.thr].active /\ ~Following(sel) /\ UNCHANGED <<sel, task, rec, budget>>
  /\ cmd' = Idle
  /\ UNCHANGED <<host, allowed, out, holds, inflight, revoking, shown>>

\* A new observer commits its own readiness; for a joined one the command does.
AcquireReady ==
  /\ cmd.pc = "ready"
  /\ LET k == task[cmd.thr] IN
     /\ k.on => k.ready = "yes"
     /\ sel' = IF /\ cmd.joined /\ k.on /\ k.turn = cmd.turn /\ Following(sel)
                  /\ sel.phase = "preparing" /\ sel.aturn = cmd.turn
               THEN [sel EXCEPT !.phase = "ready"] ELSE sel
  /\ cmd' = Idle
  /\ UNCHANGED <<host, allowed, task, out, holds, inflight, rec, revoking, budget, shown>>

\* queueLatestIdleCodexReplay: the last result of a thread just selected, unless
\* this selection has shown or observed it, or the follower still owes it.
Replays(s, n) ==
  /\ n # 0 /\ s.replay.presented # n /\ s.replay.observed # n
  /\ ~s.pend /\ ~(s.init /\ s.cur # 0 /\ s.cur # n)
  /\ Following(s) /\ s.replay.id # NoSel /\ s.replay.thr = cmd.thr

AcquireReplay ==
  /\ cmd.pc = "replay"
  /\ LET id == ReplayID(cmd.thr, cmd.turn, sel.replay.id) IN
     IF Replays(sel, cmd.turn) /\ id \notin DOMAIN out
     THEN Put(id, [card |-> FALSE, rev |-> sel.rev]) ELSE UNCHANGED out
  /\ cmd' = Idle
  /\ UNCHANGED <<sel, host, allowed, task, holds, inflight, rec, revoking, budget, shown>>

---------------------------------------------------------------------------
(* /cx release: handleCodexReleaseCommand.                                 *)

ReleaseBegin ==
  /\ LockFree /\ allowed /\ sel.active # NoThread
  /\ sel.sess[sel.active] = "bound" /\ budget.cmd > 0 /\ budget' = [budget EXCEPT !.cmd = @ - 1]
  /\ cmd' = [pc |-> "release", thr |-> sel.active]
  /\ UNCHANGED <<sel, host, allowed, task, out, holds, inflight, rec, revoking, shown>>

\* The intent is persisted, the follower cleared and the task detached under
\* the barrier; the task's card stays reserved until it is frozen.
ReleasePrepare ==
  /\ cmd.pc = "release" /\ CanWrite
  /\ LET t == cmd.thr IN
     \/ /\ sel.sess[t] = "bound"
        /\ sel' = ReleaseThread(sel, t)
        /\ task' = [Bumped EXCEPT ![t] = NoTask]
        /\ cmd' = [pc |-> "freeze", thr |-> t, card |-> task[t].card, after |-> sel']
        /\ UNCHANGED budget
     \/ /\ sel.sess[t] = "bound" /\ Spend({"write"}) /\ cmd' = Idle /\ UNCHANGED <<sel, task>>
     \/ /\ sel.sess[t] # "bound" /\ cmd' = Idle /\ UNCHANGED <<sel, task, budget>>
  /\ UNCHANGED <<host, allowed, out, holds, inflight, rec, revoking, shown>>

ReleaseFreeze ==
  /\ cmd.pc = "freeze"
  /\ \/ Drop({cmd.card}) /\ prep' = prep \ {cmd.card} /\ UNCHANGED budget
     \/ cmd.card # NoCard /\ Spend({"host"}) /\ UNCHANGED <<out, prep>>
  /\ cmd' = [pc |-> "settle", thr |-> cmd.thr, after |-> cmd.after]
  /\ UNCHANGED <<sel, host, allowed, task, startup, folHeld, relHeld, inflight, rec,
                 revoking, shown>>

\* recoverReleasedCodexFollowerStreams: cards of a committed release are held,
\* then frozen; one that cannot be frozen stays held.
RecoverReleased(s) ==
  \/ /\ Drop(Committed(s))
     /\ prep' = prep \ Committed(s) /\ folHeld' = folHeld \ Committed(s)
     /\ relHeld' = relHeld \ Committed(s) /\ startup' = startup \ Committed(s)
     /\ UNCHANGED budget
  \/ /\ Committed(s) # {} /\ Spend({"host"})
     /\ prep' = prep \union Committed(s) /\ folHeld' = folHeld \ Committed(s)
     /\ relHeld' = relHeld \union Committed(s)
     /\ UNCHANGED <<out, startup>>

ReleaseCommit ==
  /\ cmd.pc = "settle"
  /\ \/ /\ sel = cmd.after
        /\ sel' = [sel EXCEPT !.sess[cmd.thr] = "released"]
        /\ RecoverReleased(sel')
     \/ /\ sel # cmd.after /\ UNCHANGED <<sel, out, holds, budget>>
     \/ /\ Spend({"write"}) /\ UNCHANGED <<sel, out, holds>>
  /\ cmd' = Idle
  /\ UNCHANGED <<host, allowed, task, inflight, rec, revoking, shown>>

---------------------------------------------------------------------------
(* The observer of a running turn: runExternalCodexTaskWatcher.            *)

\* Start the progress card with the guard of the follower as it is now (0: no
\* guard), or go on without one.
ObserverCard(t) ==
  /\ task[t].on /\ ~task[t].started
  /\ \/ LET r == IF Following(sel) /\ sel.fol = t THEN sel.rev ELSE 0
            id == NewReservation(t, task[t].turn, r)
        IN /\ Put(id, [card |-> TRUE, rev |-> r])
           /\ prep' = prep \union {id}
           /\ task' = [task EXCEPT ![t].started = TRUE, ![t].card = id]
           /\ UNCHANGED budget
     \/ Spend({"host"}) /\ task' = [task EXCEPT ![t].started = TRUE] /\ UNCHANGED <<out, prep>>
  /\ UNCHANGED <<sel, host, allowed, startup, folHeld, relHeld, inflight, rec, cmd,
                 revoking, shown>>

\* commitFollowerAttachReady: a compare-and-swap on the selection, the attach
\* revision and the turn.
ReadyCAS(t) == /\ task[t].fresh /\ sel.fol = t
               /\ sel.phase = "preparing" /\ sel.aturn = task[t].turn

ObserverReady(t) ==
  /\ task[t].on /\ task[t].started /\ task[t].ready = "no"
  /\ \/ /\ ReadyCAS(t)
        /\ sel' = [sel EXCEPT !.phase = "ready"]
        /\ task' = [task EXCEPT ![t].ready = "yes"]
        /\ UNCHANGED <<out, prep, budget>>
     \/ /\ \/ ~ReadyCAS(t) /\ UNCHANGED budget
           \/ ReadyCAS(t) /\ Spend({"write"})
        /\ task' = [task EXCEPT ![t] = NoTask]
        /\ Drop({task[t].card}) /\ prep' = prep \ {task[t].card}
        /\ UNCHANGED sel
  /\ UNCHANGED <<host, allowed, startup, folHeld, relHeld, inflight, rec, cmd,
                 revoking, shown>>

\* The turn is over: its result takes the place of the card.
ObserverEnd(t) ==
  /\ task[t].on /\ task[t].ready = "yes"
  /\ host[t].last > task[t].turn \/ ~host[t].active
  /\ LET id == IF task[t].card # NoCard THEN task[t].card
               ELSE NewReservation(t, task[t].turn, task[t].rev)
     IN /\ Put(id, [card |-> FALSE, rev |-> task[t].rev])
        /\ prep' = prep \ {id}
  /\ task' = [task EXCEPT ![t] = NoTask]
  /\ UNCHANGED <<sel, host, allowed, startup, folHeld, relHeld, inflight, rec, cmd,
                 revoking, budget, shown>>

---------------------------------------------------------------------------
(* The reconciler: reconcileCodexFollowersWithService.                     *)

RecIdle == rec' = Idle

\* reconcileCodexFollowerTerminalDeliveryHolds: results held at the start whose
\* follower is no longer there.
Unheld(ids, s) == {id \in ids : ~MatchesGuard(id, s)}

\* Frozen releases, then the holds whose reason is gone, then a snapshot.
RecSnapshot ==
  /\ rec.pc = "idle"
  /\ LET c    == Committed(sel)
         held == (folHeld \union relHeld) \ c
         rel  == {id \in held : MatchesRelease(id, sel)}
         fol  == {id \in held \ rel : MatchesFollower(id, sel)}
         gone == held \ (rel \union fol)
         free == Unheld(startup \ c, sel)
     IN \/ /\ Drop(c)
           /\ relHeld' = rel /\ folHeld' = fol /\ startup' = (startup \ c) \ free
           /\ prep' = ((prep \ c) \ gone) \ (free \ (fol \union rel))
           /\ UNCHANGED budget
        \/ /\ c # {} /\ Spend({"host"})
           /\ relHeld' = rel \union c /\ folHeld' = fol /\ startup' = startup \ free
           /\ prep' = ((prep \union c) \ gone) \ (free \ (fol \union rel \union c))
           /\ UNCHANGED out
  /\ rec' = IF Following(sel) THEN [pc |-> "prepare", snap |-> Snapshot(sel), fresh |-> TRUE]
            ELSE Idle
  /\ UNCHANGED <<sel, host, allowed, task, inflight, cmd, revoking, shown>>

\* No lock is held while the host is coordinated and read.
RecPrepare ==
  /\ rec.pc = "prepare"
  /\ \/ ~FollowerMatches(sel, rec.snap) /\ RecIdle /\ UNCHANGED budget
     \/ FollowerMatches(sel, rec.snap) /\ ~allowed /\ rec' = [pc |-> "detach"] /\ UNCHANGED budget
     \/ /\ FollowerMatches(sel, rec.snap) /\ allowed
        /\ rec' = [pc |-> "commit", snap |-> rec.snap, fresh |-> rec.fresh,
                   seen |-> host[rec.snap.thr]]
        /\ UNCHANGED budget
     \/ Spend({"host"}) /\ RecIdle
  /\ UNCHANGED <<sel, host, allowed, task, out, holds, inflight, cmd, revoking, shown>>

\* Under the binding lock and the barrier: the snapshot must still hold.
Owned == task[rec.snap.thr].on /\ task[rec.snap.thr].turn = rec.seen.last
SameAttach == rec.snap.aturn = rec.seen.last
NeedsPreparing ==
  \/ ~SameAttach
  \/ rec.seen.active /\ rec.snap.phase # "preparing"
  \/ ~rec.seen.active /\ rec.snap.phase = ""

RecCommitStale ==
  /\ rec.pc = "commit" /\ LockFree /\ CanRead
  /\ \/ ~FollowerMatches(sel, rec.snap) /\ RecIdle /\ UNCHANGED budget
     \/ FollowerMatches(sel, rec.snap) /\ ~allowed /\ rec' = [pc |-> "detach"] /\ UNCHANGED budget
     \/ /\ FollowerMatches(sel, rec.snap) /\ allowed /\ RecIdle
        /\ \/ NeedsPreparing /\ ~rec.fresh /\ UNCHANGED budget
           \/ NeedsPreparing /\ Spend({"write"})
  /\ UNCHANGED <<sel, host, allowed, task, out, holds, inflight, cmd, revoking, shown>>

\* A task of this window already observes the turn: only its readiness counts.
RecCommitOwned ==
  /\ rec.pc = "commit" /\ LockFree /\ CanRead
  /\ FollowerMatches(sel, rec.snap) /\ allowed /\ Owned
  /\ LET n == rec.seen.last
         rebind == ~SameAttach \/ rec.snap.phase # "preparing"
         s == IF rebind THEN AttachRuntime(sel, n) ELSE sel
     IN \/ /\ rec.snap.phase = "ready" /\ SameAttach
           /\ rec' = [pc |-> "done", snap |-> rec.snap]
           /\ UNCHANGED <<sel, task>>
        \/ /\ ~(rec.snap.phase = "ready" /\ SameAttach) /\ (rebind => rec.fresh)
           /\ IF task[rec.snap.thr].ready = "yes" /\ s.phase = "preparing" /\ s.aturn = n
              THEN sel' = [s EXCEPT !.phase = "ready"] /\ rec' = [pc |-> "done", snap |-> rec.snap]
              ELSE sel' = s /\ RecIdle
           /\ task' = IF rebind THEN Bumped ELSE task
  /\ UNCHANGED <<host, allowed, out, holds, inflight, cmd, revoking, budget, shown>>

\* Nobody observes it.  From here the barrier is held, the binding lock is not.
RecCommit ==
  /\ rec.pc = "commit" /\ LockFree /\ CanRead
  /\ FollowerMatches(sel, rec.snap) /\ allowed /\ ~Owned
  /\ NeedsPreparing => rec.fresh
  /\ LET n == rec.seen.last
         s == IF NeedsPreparing THEN AttachRuntime(sel, n) ELSE sel
         go(x) == [pc |-> "recover", snap |-> Snapshot(x), seen |-> rec.seen]
     IN IF rec.seen.active \/ (~NeedsPreparing /\ rec.snap.phase = "ready")
        THEN sel' = s /\ rec' = go(s)
        ELSE IF s.phase = "preparing" /\ s.aturn = n
        THEN sel' = [s EXCEPT !.phase = "ready"] /\ rec' = go(sel')
        ELSE sel' = s /\ RecIdle
  /\ task' = IF NeedsPreparing THEN Bumped ELSE task
  /\ UNCHANGED <<host, allowed, out, holds, inflight, cmd, revoking, budget, shown>>

\* Cards a restart left behind.  The card of the turn just read is completed
\* with its result, the card of the running turn is frozen; any other card is
\* handed back to the worker.
RecRecover ==
  /\ rec.pc = "recover"
  /\ LET cards == {id \in folHeld \ relHeld : IsCard(id) /\ id.thr = rec.snap.thr}
         this  == {id \in cards : id.turn = rec.seen.last}
         next  == [rec EXCEPT !.pc = IF ~rec.seen.active /\ this # {} THEN "claim" ELSE "settle"]
     IN \/ /\ ~rec.seen.active
           /\ out' = [id \in DOMAIN out |-> IF id \in this THEN [card |-> FALSE, rev |-> rec.snap.rev]
                                            ELSE out[id]]
           /\ folHeld' = folHeld \ cards /\ prep' = prep \ cards
           /\ UNCHANGED <<startup, budget>>
        \/ /\ rec.seen.active /\ Drop(this)
           /\ folHeld' = folHeld \ cards /\ prep' = prep \ cards /\ startup' = startup \ this
           /\ UNCHANGED budget
        \/ /\ rec.seen.active /\ this # {} /\ Spend({"host"})
           /\ folHeld' = folHeld \ (cards \ this) /\ prep' = prep \ (cards \ this)
           /\ UNCHANGED <<out, startup>>
     /\ rec' = next
  /\ relHeld' = relHeld
  /\ UNCHANGED <<sel, host, allowed, task, inflight, cmd, revoking, shown>>

\* codexReplayOwnsTerminal
ReplayPresented(n) ==               \* mutant: a replay still queued is overlooked
  /\ n # 0 /\ sel.replay.id # NoSel /\ sel.replay.thr = rec.snap.thr
  /\ sel.replay.presented = n

ReplayOwns(n) ==
  /\ n # 0 /\ sel.replay.id # NoSel /\ sel.replay.thr = rec.snap.thr
  /\ sel.replay.presented = n \/ ReplayID(rec.snap.thr, n, sel.replay.id) \in DOMAIN out

ClaimedByCursor(n) == n = rec.snap.cur     \* mutant: a pending turn counts as claimed
Claimed(n) == n = rec.snap.cur /\ ~rec.snap.pend

\* The inactive half enqueues the terminal; the claim is a second write of
\* another file.
RecSettle ==
  /\ rec.pc = "settle" /\ ~rec.seen.active
  /\ LET n == rec.seen.last
         id == TerminalID(rec.snap.thr, n)
         e == [card |-> FALSE, rev |-> rec.snap.rev]
         at(pc) == rec' = [rec EXCEPT !.pc = pc]
     IN IF ReplayOwns(n) \/ ~rec.snap.init THEN at("claim") /\ UNCHANGED out
        ELSE IF n = 0 \/ Claimed(n) \/ rec.seen.done # "completed"
        THEN at("done") /\ UNCHANGED out
        ELSE IF id \in DOMAIN out /\ out[id] # e THEN RecIdle /\ UNCHANGED out
        ELSE Put(id, e) /\ at("claim")
  /\ UNCHANGED <<sel, host, allowed, task, holds, inflight, cmd, revoking, budget, shown>>

RecClaim ==
  /\ rec.pc = "claim"
  /\ \/ /\ FollowerMatches(sel, rec.snap)
        /\ sel' = CommitTurn(sel, rec.seen.last, FALSE)
        /\ rec' = [pc |-> "done", snap |-> rec.snap] /\ UNCHANGED budget
     \/ ~FollowerMatches(sel, rec.snap) /\ RecIdle /\ UNCHANGED <<sel, budget>>
     \/ Spend({"write"}) /\ RecIdle /\ UNCHANGED sel
  /\ UNCHANGED <<host, allowed, task, out, holds, inflight, cmd, revoking, shown>>

RecActivate ==
  /\ rec.pc = "settle" /\ rec.seen.active
  /\ LET t == rec.snap.thr
         n == rec.seen.last
     IN \/ /\ FollowerMatches(sel, rec.snap) /\ (task[t].on => task[t].turn = n)
           /\ sel' = CommitTurn(sel, n, TRUE)
           /\ task' = IF task[t].on THEN [task EXCEPT ![t].rev = rec.snap.rev]
                      ELSE [task EXCEPT ![t] = NewTask(n, rec.snap.rev)]
           /\ out' = Reguard(t, rec.snap.rev)
           /\ rec' = [pc |-> "wait", snap |-> rec.snap] /\ UNCHANGED budget
        \/ /\ \/ /\ ~FollowerMatches(sel, rec.snap) \/ (task[t].on /\ task[t].turn # n)
                 /\ UNCHANGED budget
              \/ Spend({"write"})
           /\ RecIdle /\ UNCHANGED <<sel, task, out>>
  /\ UNCHANGED <<host, allowed, holds, inflight, cmd, revoking, shown>>

RecWait ==
  /\ rec.pc = "wait"
  /\ LET k == task[rec.snap.thr] IN
     \/ k.on /\ k.ready = "yes" /\ rec' = [pc |-> "done", snap |-> rec.snap]
     \/ ~k.on /\ RecIdle
  /\ UNCHANGED <<sel, host, allowed, task, out, holds, inflight, cmd, revoking, budget, shown>>

\* Entries held since the start may now be sent; the deferred switch is
\* announced once the follower is ready.
RecDone ==
  /\ rec.pc = "done"
  /\ LET free == {id \in startup \intersect DOMAIN out :
                    out[id].rev = rec.snap.rev /\ id.thr = rec.snap.thr}
     IN /\ startup' = startup \ free
        /\ prep' = prep \ (free \ (folHeld \union relHeld))
  /\ sel' = IF rec.snap.notice /\ Following(sel) /\ sel.rev = rec.snap.rev
               /\ sel.phase = "ready" /\ allowed /\ CanRead /\ LockFree
            THEN [sel EXCEPT !.notice = FALSE] ELSE sel
  /\ RecIdle
  /\ UNCHANGED <<host, allowed, task, out, folHeld, relHeld, inflight, cmd, revoking,
                 budget, shown>>

---------------------------------------------------------------------------
(* The outbox worker: attempt.                                             *)

DeliverBegin(id) ==
  /\ id \in DOMAIN out \ (prep \union inflight) /\ CanRead
  /\ out[id].rev = 0 \/ Decision(id) = ""
  /\ inflight' = inflight \union {id}
  /\ UNCHANGED <<sel, host, allowed, task, out, holds, rec, cmd, revoking, budget, shown>>

DeliverDiscard(id) ==
  /\ id \in DOMAIN out \ (prep \union inflight) /\ CanRead
  /\ out[id].rev # 0 /\ Decision(id) \notin {"", "attach_not_ready"}
  /\ Drop({id})
  /\ startup' = startup \ {id}
  /\ UNCHANGED <<sel, host, allowed, task, prep, folHeld, relHeld, inflight, rec, cmd,
                 revoking, budget, shown>>

\* A delivery under one idempotency key reaches the window once.
Shown(id) == [how |-> IF out[id].card THEN "restart"
                      ELSE IF id.k = "replay" THEN "replay" ELSE "follow",
              thr |-> id.thr, turn |-> id.turn, sel |-> sel.replay.id, rev |-> out[id].rev]

Finished(id) == inflight \ {id}

\* The receipt of a replay is written before its entry is removed.
DeliverDone(id) ==
  /\ id \in inflight
  /\ shown' = shown \union {Shown(id)}
  /\ inflight' = Finished(id)
  /\ LET receipt == sel.replay.id = id.tag[1] /\ sel.replay.thr = id.thr
     IN \/ /\ id.k # "replay" \/ receipt
           /\ sel' = IF id.k = "replay" THEN [sel EXCEPT !.replay.presented = id.turn] ELSE sel
           /\ Drop({id}) /\ startup' = startup \ {id} /\ UNCHANGED budget
        \/ /\ id.k = "replay"
           /\ \/ ~receipt /\ UNCHANGED budget
              \/ receipt /\ Spend({"write"})
           /\ UNCHANGED <<sel, out, startup>>
  /\ UNCHANGED <<host, allowed, task, prep, folHeld, relHeld, rec, cmd, revoking>>

DeliverFails(id) ==
  /\ id \in inflight /\ Spend({"host"})
  /\ inflight' = inflight \ {id}
  /\ UNCHANGED <<sel, host, allowed, task, out, holds, rec, cmd, revoking, shown>>

---------------------------------------------------------------------------
(* Access: refreshFeishuAccountAccess, hot reload, archive, restart.       *)

\* detachUnauthorizedCodexFollowersLocked: the follower goes (unless the write
\* fails), its observer and card in any case.
DetachUnauthorized ==
  IF Following(sel)
  THEN LET t == sel.fol IN
       /\ task' = [Bumped EXCEPT ![t] = NoTask]
       /\ Drop({task[t].card}) /\ prep' = prep \ {task[t].card}
       /\ \/ sel' = ClearFollower(sel) /\ UNCHANGED budget
          \/ UNCHANGED sel /\ Spend({"write"})
  ELSE UNCHANGED <<sel, task, out, prep, budget>>

Revoke ==
  /\ allowed /\ CanWrite
  /\ allowed' = FALSE
  /\ IF Following(sel)
     THEN LET t == sel.fol IN
          /\ task' = [Bumped EXCEPT ![t] = NoTask]
          /\ Drop({task[t].card}) /\ prep' = prep \ {task[t].card}
          /\ \/ sel' = ClearFollower(sel) /\ Spend({"revoke"})
             \/ UNCHANGED sel /\ Spend({"revoke", "write"})
     ELSE Spend({"revoke"}) /\ UNCHANGED <<sel, task, out, prep>>
  /\ UNCHANGED <<host, startup, folHeld, relHeld, inflight, rec, cmd, revoking, shown>>

\* The registry changes first, outside the barrier.
HotReload ==
  /\ allowed /\ Spend({"revoke"})
  /\ allowed' = FALSE /\ revoking' = TRUE
  /\ UNCHANGED <<sel, host, task, out, holds, inflight, rec, cmd, shown>>

ReconcileAccess ==
  /\ revoking /\ CanWrite
  /\ revoking' = FALSE
  /\ IF allowed THEN UNCHANGED <<sel, task, out, prep, budget>> ELSE DetachUnauthorized
  /\ UNCHANGED <<host, allowed, startup, folHeld, relHeld, inflight, rec, cmd, shown>>

RecDetach ==
  /\ rec.pc = "detach" /\ CanWrite
  /\ RecIdle
  /\ IF allowed THEN UNCHANGED <<sel, task, out, prep, budget>> ELSE DetachUnauthorized
  /\ UNCHANGED <<host, allowed, startup, folHeld, relHeld, inflight, cmd, revoking, shown>>

Regrant ==
  /\ ~allowed /\ ~revoking
  /\ allowed' = TRUE
  /\ UNCHANGED <<sel, host, task, out, holds, inflight, rec, cmd, revoking, budget, shown>>

\* markRemoteThreadArchived takes no barrier and leaves the observer running.
ArchiveEvent(t) ==
  /\ t \in Archivable \ sel.archived
  /\ sel' = Archive(sel, t)
  /\ task' = IF sel.fol = t THEN Bumped ELSE task
  /\ UNCHANGED <<host, allowed, out, holds, inflight, rec, cmd, revoking, budget, shown>>

\* What a new process holds before its worker starts: results of a follower
\* it has not attached, cards of turns that may still run, cards of releases.
HeldDeliveries(s) == {id \in DOMAIN out : MatchesGuard(id, s)}
HeldRecoveries(s) == {id \in DOMAIN out : MatchesFollower(id, s)}
HeldReleases(s) == {id \in DOMAIN out : IsCard(id) /\ s.sess[id.thr] = "released"}

\* The process ends; a send under way may have arrived.  The new process holds
\* what belongs to a follower or to a release before its worker starts.
Restart ==
  /\ budget.crash > 0 /\ budget' = [budget EXCEPT !.crash = @ - 1]
  /\ \E arrived \in SUBSET inflight :
       shown' = shown \union {Shown(id) : id \in arrived}
  /\ sel' = Load(sel)
  /\ startup' = HeldDeliveries(sel') /\ relHeld' = HeldReleases(sel')
  /\ folHeld' = HeldRecoveries(sel') \ relHeld'
  /\ prep' = startup' \union folHeld' \union relHeld'
  /\ task' = [t \in Threads |-> NoTask]
  /\ inflight' = {} /\ rec' = Idle /\ cmd' = Idle /\ revoking' = FALSE
  /\ UNCHANGED <<host, allowed, out>>

---------------------------------------------------------------------------
Command ==
  \/ AcquireCommit \/ AcquireRefused \/ BindRuntime \/ BindFails \/ BindDeferred
  \/ AttachIdle \/ AttachActive \/ AttachFails \/ AcquireReady \/ AcquireReplay
  \/ ReleasePrepare \/ ReleaseFreeze \/ ReleaseCommit

Reconcile ==
  \/ RecSnapshot \/ RecPrepare \/ RecCommitStale \/ RecCommitOwned \/ RecCommit
  \/ RecRecover \/ RecSettle \/ RecClaim \/ RecActivate \/ RecWait \/ RecDone \/ RecDetach

Observe(t) == ObserverCard(t) \/ ObserverReady(t) \/ ObserverEnd(t)

Deliver(id) == DeliverBegin(id) \/ DeliverDiscard(id) \/ DeliverDone(id) \/ DeliverFails(id)

\* This process has established readiness itself: an attach became ready, or
\* the reconciler confirmed the one it found.  A rolled back switch does not.
Vouch == vouched' =
  /\ budget'.crash = budget.crash
  /\ \/ vouched
     \/ sel'.phase = "ready" /\ sel.phase = "preparing" /\ cmd.pc # "bind"
     \/ sel'.phase = "ready" /\ rec.pc = "commit" /\ rec'.pc \in {"recover", "done"}

\* The reconciler had decided what becomes of a turn and did not record it (an
\* exit or a failed write); a switch was rolled back.
Tear == torn' = torn
  \union (IF rec.pc \in {"settle", "claim"} /\ rec'.pc = "idle"
          THEN {[thr |-> rec.snap.thr, turn |-> rec.seen.last]} ELSE {})
  \union (IF cmd.pc = "bind" /\ cmd'.pc = "idle" /\ sel' = cmd.before
          THEN {[thr |-> cmd.before.fol, turn |-> 0]} ELSE {})

Next ==
  /\ \/ \E t \in Threads : StartTurn(t) \/ EndTurn(t, "completed") \/ EndTurn(t, "interrupted")
     \/ \E t \in Threads : AcquireRead(t, TRUE) \/ AcquireRead(t, FALSE)
     \/ ReleaseBegin
     \/ Command
     \/ Reconcile
     \/ \E t \in Threads : Observe(t)
     \/ \E id \in DOMAIN out : Deliver(id)
     \/ Revoke \/ HotReload \/ ReconcileAccess \/ Regrant
     \/ \E t \in Threads : ArchiveEvent(t)
     \/ Restart
  /\ Vouch /\ Tear

Spec == Init /\ [][Next]_vars

\* The goroutines run: the command, the reconciler (a ticker), the observers and
\* the worker.  Which users, hosts and faults act, and when, is not assumed.
FairSpec ==
  /\ Spec
  /\ WF_vars(Command /\ Vouch /\ Tear)
  /\ WF_vars(Reconcile /\ Vouch /\ Tear)
  /\ \A t \in Threads : WF_vars(Observe(t) /\ Vouch /\ Tear)
  /\ WF_vars((\E id \in DOMAIN out : Deliver(id)) /\ Vouch /\ Tear)
  /\ WF_vars(ReconcileAccess /\ Vouch /\ Tear)

---------------------------------------------------------------------------
(* Properties.                                                             *)

Ids == [k : {"task", "key", "replay"}, thr : Threads, turn : Turns, tag : Nat \X Nat]

\* The binding, the host's turns and the outbox keep their shape, and nothing is
\* held or under delivery that the outbox no longer has.
FollowerTypeOK ==
  /\ sel \in [active : Threads \union {NoThread},
              sess : [Threads -> {"none", "bound", "pending", "released"}],
              fol : Threads \union {NoThread}, rev : Nat,
              phase : {"", "preparing", "ready"}, aturn : Turns, cur : Turns,
              init : BOOLEAN, pend : BOOLEAN, notice : BOOLEAN,
              replay : [id : Nat, thr : Threads \union {NoThread},
                        presented : Turns, observed : Turns],
              archived : SUBSET Threads]
  /\ host \in [Threads -> [last : Turns, active : BOOLEAN, done : {"completed", "interrupted"}]]
  /\ DOMAIN out \subseteq Ids /\ \A id \in DOMAIN out : out[id] \in [card : BOOLEAN, rev : Nat]
  /\ inflight \subseteq DOMAIN out
  /\ folHeld \subseteq DOMAIN out /\ relHeld \subseteq DOMAIN out
  /\ startup \subseteq DOMAIN out

\* A delivery carries a guard unless its card was opened for no follower.
Guarded(id) == out[id].rev # 0

\* While a guarded delivery is under way (attempt, terminal_outbox.go:1776) the
\* window still follows its thread at its revision and may be spoken to: no
\* switch, release or revocation completes under a send.  Two exceptions are the
\* code's own: a hot reload changes the registry before it asks for the barrier
\* (revoking), and an archive event takes no barrier (archived: only where threads
\* are Archivable).
SendsAreCurrent ==
  \A id \in inflight : Guarded(id) =>
    /\ id.thr \in sel.archived \/ (sel.fol = id.thr /\ sel.rev = out[id].rev)
    /\ allowed \/ revoking

\* A switch away from t was rolled back: rollbackRemoteSelection restores the
\* durable phase "ready" although nobody established it again.
RolledBack(t) == [thr |-> t, turn |-> 0] \in torn

\* "ready" is durable, so a new process finds it on disk.  Nothing guarded is sent
\* on the word of the previous process: this one has attached the follower or
\* confirmed the attachment first.
ReadyIsThisProcess ==
  \A id \in inflight : Guarded(id) => vouched \/ RolledBack(id.thr)

\* A card is settled as "stopped by the restart" only if its turn is not the
\* thread's latest: a turn that can be observed again is not declared stopped
\* (terminal_outbox.go:508-509).
RestartIsHonest ==
  \A id \in inflight :
    Guarded(id) /\ out[id].card => id.turn < host[id.thr].last \/ RolledBack(id.thr)

\* Within one selection a turn reaches the window either as a followed result or
\* as the replay of the latest result, not as both, unless the hand-over was torn:
\* the reconciler's enqueue and its claim are writes of two files.
ShownOnce ==
  \A a, b \in shown : a.how = "follow" /\ b.how = "replay" =>
    \/ a.thr # b.thr \/ a.turn # b.turn \/ a.sel # b.sel
    \/ [thr |-> a.thr, turn |-> a.turn] \in torn

\* A turn the durable cursor holds as pending, once it has completed, is shown in
\* the end, across failed writes, rolled back switches and a restart, unless the
\* window moves on, loses its access or the thread runs another turn.
PendingReported ==
  \A t \in Threads, n \in Turns \ {0} :
    (/\ sel.fol = t /\ sel.cur = n /\ sel.pend
     /\ host[t] = [last |-> n, active |-> FALSE, done |-> "completed"])
    ~> (\/ \E x \in shown : x.thr = t /\ x.turn = n /\ x.how # "restart"
        \/ sel.fol # t \/ ~allowed \/ host[t].last # n)

\* What a process finds on disk of its predecessor is not taken for its own: neither the ready phase nor the cards of turns
\* that may still run (holdCodexFollowerTerminalDeliveries, holdCodexFollowerRecoveries).
RestartTrustsNothing == ReadyIsThisProcess /\ RestartIsHonest
=============================================================================
