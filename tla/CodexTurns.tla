------------------------------ MODULE CodexTurns ------------------------------
(***************************************************************************)
(* How an input reaches a Codex thread (agent/codex_runtime_turn.go,       *)
(* codex_app_server_turn.go, codex_input_delivery.go), the writer lease    *)
(* (codex_runtime_lease.go) and the bindings of conversations to threads   *)
(* (codex_binding_intent.go, codex_thread_archive.go, acp_threads.go).     *)
(*                                                                         *)
(* The topology is the shared Host: one app-server, of which this program  *)
(* and the Codex application are two clients.  An input is a model value,  *)
(* so its digest tells it from every other.  A request travels on the wire *)
(* and is taken by the app-server at any later moment; its answer may be   *)
(* lost.  The gate and the account are in CodexHost.                       *)
(***************************************************************************)
EXTENDS Naturals, Sequences, FiniteSets

CONSTANTS
  Threads, Convs, Inputs,
  TurnRetries,   \* codexTurnStateRaceRetries
  MaxBindOps,    \* bound: uses, clears, archivings and observations
  MaxLosses,     \* bound: lost answers, failed reads, cancellations and detachments
  MaxAppTurns    \* bound: turns the Codex application starts

ASSUME TurnsAssumption ==
  /\ TurnRetries \in Nat /\ MaxBindOps \in Nat /\ MaxLosses \in Nat /\ MaxAppTurns \in Nat
  /\ "none" \notin Inputs   \* the writer of a lease nobody has

VARIABLES
  hist,          \* the app-server's turns of each thread: [items, open]
  wire,          \* requests on their way: [input, do, thread, turn]
  answer,        \* the answer each input's request has, if any
  sel, route,    \* the thread of a conversation: the agent's map and the owner registry's
  revision, ownerRevision, life,   \* the revisions of conversations and the life cycle of threads
  bound,         \* the registry's binding of each thread
  lease,         \* the writer lease of each thread
  admission,     \* who holds codexAdmissionMu
  input,         \* the run of each input
  using,         \* a use of a thread waiting for thread/read, per conversation
  watching,      \* a state an observer has read and not yet reported, per conversation
  since,         \* history: the threads asked for since the conversation was last cleared
  bindOps, losses, appTurns

turnVars == <<hist, wire, answer, sel, route, revision, ownerRevision, life, bound, lease, admission, input, using,
              watching, since, bindOps, losses, appTurns>>
hostVars == <<hist, wire, answer>>
bindVars == <<sel, route, revision, ownerRevision, life, using, watching, since, bindOps>>

NoThread == "none"
NoIntent == [thread |-> NoThread]
NoTurn == <<>>
NoWriter == [who |-> "none", tries |-> 0, gen |-> 0, base |-> NoTurn, turn |-> NoTurn, uncertain |-> FALSE]
Nobody == "nobody"
NoAnswer == [kind |-> "none"]
IdleState == [active |-> FALSE, turn |-> NoTurn, last |-> NoTurn]

\* thread/read and thread/turns/list: the latest turn, and whether it is in progress.
ThreadState(t) ==
  LET n == Len(hist[t])
  IN IF n = 0 THEN IdleState
     ELSE [active |-> hist[t][n].open, turn |-> IF hist[t][n].open THEN <<t, n>> ELSE NoTurn, last |-> <<t, n>>]
ItemsOf(u) == IF u = NoTurn THEN <<>> ELSE hist[u[1]][u[2]].items
\* countCodexInputDigest
CountIn(u, i) == Cardinality({k \in DOMAIN ItemsOf(u) : ItemsOf(u)[k] = i})

FreshRun == [at |-> "new", conv |-> Nobody, thread |-> NoThread, tries |-> TurnRetries, local |-> 0, owner |-> 0, life |-> 0,
             seen |-> IdleState, held |-> NoWriter, base |-> NoTurn, count |-> 0, do |-> "none", on |-> NoThread, turn |-> NoTurn,
             status |-> "none", gaveUp |-> FALSE]

TurnsInit ==
  /\ hist = [t \in Threads |-> <<>>] /\ wire = {} /\ answer = [i \in Inputs |-> NoAnswer]
  /\ sel = [c \in Convs |-> NoThread] /\ route = [c \in Convs |-> NoThread]
  /\ revision = [c \in Convs |-> 0] /\ ownerRevision = [c \in Convs |-> 0]
  /\ life = [t \in Threads |-> [rev |-> 0, archived |-> FALSE]]
  /\ bound = [t \in Threads |-> [run |-> "none", gen |-> 0, state |-> IdleState]]
  /\ lease = [t \in Threads |-> NoWriter]
  /\ admission = Nobody
  /\ input = [i \in Inputs |-> FreshRun]
  /\ using = [c \in Convs |-> NoIntent] /\ watching = [c \in Convs |-> NoIntent]
  /\ since = [c \in Convs |-> {}]
  /\ bindOps = 0 /\ losses = 0 /\ appTurns = 0

Loss == losses < MaxLosses /\ losses' = losses + 1
NoLoss == UNCHANGED losses
BindOp == bindOps < MaxBindOps /\ bindOps' = bindOps + 1

At(i, at) == input[i].at = at
Goes(i, run) == input' = [input EXCEPT ![i] = run]

-----------------------------------------------------------------------------
(* Binding intents and the registry.                                       *)

\* beginCodexThreadBindingIntent: both revisions of the conversation advance.
NewIntent(c, t) == [conv |-> c, thread |-> t, local |-> revision[c] + 1, owner |-> ownerRevision[c] + 1, life |-> life[t].rev]
Begins(c, t) ==
  /\ revision' = [revision EXCEPT ![c] = @ + 1]
  /\ ownerRevision' = [ownerRevision EXCEPT ![c] = @ + 1]
  /\ since' = [since EXCEPT ![c] = @ \cup {t}]

\* codexBindingIntentCurrentLocked
IntentTaken(n) == TRUE   \* mutant: a result is committed whatever happened while it was awaited
IntentCurrent(n) ==
  /\ revision[n.conv] = n.local /\ ownerRevision[n.conv] = n.owner
  /\ ~life[n.thread].archived /\ life[n.thread].rev = n.life

\* A commit selects the thread in both stores.
Selects(c, t) == sel' = [sel EXCEPT ![c] = t] /\ route' = [route EXCEPT ![c] = t]

\* activateCodexBinding and claimWeClawConversationLocked: a new generation when the runtime changes.
Activated(b, state) == [run |-> "weclaw", gen |-> IF b.gen = 0 \/ b.run # "weclaw" THEN b.gen + 1 ELSE b.gen, state |-> state]

\* bindingErrorLocked: the binding is still the one the lease was taken on.
LeaseHolds(i) ==
  LET l == lease[input[i].thread] b == bound[input[i].thread]
  IN l.who = i /\ b.run = "weclaw" /\ b.gen = l.gen

\* finish: the lease is released, and the binding is idle unless it shows another turn.
FinishedBinding(b, l) ==
  IF b.run # "conflict" /\ (~b.state.active \/ b.state.turn = NoTurn \/ l.turn = NoTurn \/ b.state.turn = l.turn)
  THEN [b EXCEPT !.state.active = FALSE, !.state.turn = NoTurn] ELSE b
Finish(i) ==
  LET t == input[i].thread
  IN IF lease[t].who = i
     THEN /\ lease' = [lease EXCEPT ![t] = NoWriter]
          /\ bound' = [bound EXCEPT ![t] = IF life[t].archived THEN [run |-> "none", gen |-> 0, state |-> IdleState]
                                           ELSE FinishedBinding(@, lease[t])]
     ELSE UNCHANGED <<lease, bound>>

\* reconcileUncertainSharedHostLeaseLocked: what an idle state says of a lease whose turn is no longer observed.
TerminalSeen(l, state) == l.turn # NoTurn /\ ~state.active /\ state.last # NoTurn /\ (state.last = l.turn \/ state.last # l.base)
ReleasedByNewer(l, state) ==   \* mutant: a newer turn counts as the end although it may be this one, in progress
  IF state.last # l.base THEN NoWriter ELSE l
ReconciledLease(l, state) ==
  IF state.active THEN [l EXCEPT !.turn = IF @ = NoTurn THEN state.turn ELSE @]
  ELSE IF TerminalSeen(l, state) THEN NoWriter ELSE l
ReconciledBinding(b, l, state) ==
  IF state.active \/ TerminalSeen(l, state) THEN [b EXCEPT !.state = state]
  ELSE [b EXCEPT !.state.active = TRUE, !.state.turn = IF @ = NoTurn THEN l.turn ELSE @]

\* UseCodexThread: begun, then committed once the thread was read.
UseBegins(c, t) ==
  /\ using[c] = NoIntent /\ BindOp
  /\ Begins(c, t)
  /\ using' = [using EXCEPT ![c] = NewIntent(c, t)]
  /\ UNCHANGED <<hostVars, sel, route, life, bound, lease, admission, input, watching, losses, appTurns>>

UseCodexThread(c) ==
  LET n == using[c]
  IN /\ n # NoIntent
     /\ using' = [using EXCEPT ![c] = NoIntent]
     /\ IF IntentCurrent(n)
        THEN Selects(c, n.thread) /\ bound' = [bound EXCEPT ![n.thread] = Activated(@, ThreadState(n.thread))]
        ELSE UNCHANGED <<sel, route, bound>>
     /\ UNCHANGED <<hostVars, revision, ownerRevision, life, lease, admission, input, watching, since, bindOps, losses, appTurns>>

\* invalidateCodexThreadBinding
ClearCodexThread(c) ==
  /\ BindOp
  /\ revision' = [revision EXCEPT ![c] = @ + 1] /\ ownerRevision' = [ownerRevision EXCEPT ![c] = @ + 1]
  /\ Selects(c, NoThread)
  /\ since' = [since EXCEPT ![c] = {}]
  /\ UNCHANGED <<hostVars, life, bound, lease, admission, input, using, watching, losses, appTurns>>

\* forgetThread and invalidateCodexArchivedThread: a thread with a lease is forgotten when the lease ends.
Forgets(t) ==
  /\ life' = [life EXCEPT ![t] = [rev |-> @.rev + 1, archived |-> TRUE]]
  /\ sel' = [c \in Convs |-> IF sel[c] = t THEN NoThread ELSE sel[c]]
  /\ route' = [c \in Convs |-> IF route[c] = t THEN NoThread ELSE route[c]]
  /\ revision' = [c \in Convs |-> IF sel[c] = t THEN revision[c] + 1 ELSE revision[c]]
  /\ ownerRevision' = [c \in Convs |-> IF route[c] = t THEN ownerRevision[c] + 1 ELSE ownerRevision[c]]
  /\ bound' = IF lease[t] = NoWriter THEN [bound EXCEPT ![t] = [run |-> "none", gen |-> 0, state |-> IdleState]] ELSE bound

\* This program archives an idle thread nobody writes to.
ArchiveCodexThread(t) ==
  /\ BindOp
  /\ ~life[t].archived /\ admission = Nobody /\ lease[t] = NoWriter /\ ~ThreadState(t).active
  /\ Forgets(t)
  /\ UNCHANGED <<hostVars, lease, admission, input, using, watching, since, losses, appTurns>>

\* The application archived or restored it.
ThreadArchived(t) ==
  /\ BindOp /\ ~life[t].archived
  /\ Forgets(t)
  /\ UNCHANGED <<hostVars, lease, admission, input, using, watching, since, losses, appTurns>>

ThreadUnarchived(t) ==
  /\ life[t].archived
  /\ life' = [life EXCEPT ![t] = [rev |-> @.rev + 1, archived |-> FALSE]]
  /\ UNCHANGED <<hostVars, sel, route, revision, ownerRevision, bound, lease, admission, input, using, watching, since, bindOps, losses, appTurns>>

\* An observer of another window reads the thread, and later reports what it read.
ObserverReads(c, t) ==
  /\ watching[c] = NoIntent /\ BindOp
  /\ ThreadState(t).last # NoTurn
  /\ watching' = [watching EXCEPT ![c] = [thread |-> t, state |-> ThreadState(t)]]
  /\ UNCHANGED <<hostVars, sel, route, revision, ownerRevision, life, bound, lease, admission, input, using, since, losses, appTurns>>

\* observedCodexRuntimeBindingIntent: a route that exists, or the first observation of a conversation never bound.
FirstSeen(c, t) == route[c] # t /\ revision[c] = 0
ObservedIntent(c, t) == ~life[t].archived /\ sel[c] \in {NoThread, t} /\ (route[c] = t \/ FirstSeen(c, t))

\* ReconcileCodexObservedTurn: an uncertain lease is settled, and the binding follows the same turn or is in conflict.
ObserverReports(c) ==
  LET w == watching[c]
      t == w.thread
      s == w.state
      b == bound[t]
      l == lease[t]
      uncertain == l # NoWriter /\ l.uncertain
      left == IF uncertain THEN ReconciledLease(l, s) ELSE l
      seen == IF s.active THEN s.turn ELSE s.last
      settled == IF uncertain THEN ReconciledBinding(b, l, s) ELSE b
      retained == uncertain /\ left # NoWriter
      other == left # NoWriter /\ left.turn # seen
      clash == settled.state.active /\ settled.state.turn # seen
      older == ~s.active /\ ~settled.state.active /\ settled.state.last \notin {NoTurn, seen}
      refused == retained \/ settled.run # "weclaw" \/ other \/ (older /\ ~clash)
  IN /\ w # NoIntent
     /\ watching' = [watching EXCEPT ![c] = NoIntent]
     /\ IF ~ObservedIntent(c, t) THEN UNCHANGED <<bound, lease, route, revision, ownerRevision, since>>
        ELSE /\ IF FirstSeen(c, t) THEN Begins(c, t) ELSE UNCHANGED <<revision, ownerRevision, since>>
             /\ lease' = [lease EXCEPT ![t] = left]
             /\ bound' = [bound EXCEPT ![t] =
                  IF refused THEN settled
                  ELSE IF clash THEN [settled EXCEPT !.run = "conflict", !.gen = @ + 1]
                  ELSE [settled EXCEPT !.state = s]]
             /\ route' = IF refused \/ clash THEN route ELSE [route EXCEPT ![c] = t]
     /\ UNCHANGED <<hostVars, sel, life, admission, input, using, bindOps, losses, appTurns>>

-----------------------------------------------------------------------------
(* The app-server and the application (external).                          *)

\* turn/start opens a turn when none is in progress; turn/steer adds to the turn it names.
Takes(r) ==
  LET s == ThreadState(r.thread)
      n == Len(hist[r.thread])
  IN /\ r \in wire
     /\ wire' = wire \ {r}
     /\ CASE r.do = "start" /\ ~s.active ->
               /\ hist' = [hist EXCEPT ![r.thread] = Append(@, [items |-> <<r.input>>, open |-> TRUE])]
               /\ answer' = [answer EXCEPT ![r.input] = [kind |-> "ok", turn |-> <<r.thread, n + 1>>]]
          [] r.do = "steer" /\ s.active /\ s.turn = r.turn ->
               /\ hist' = [hist EXCEPT ![r.thread][n].items = Append(@, r.input)]
               /\ answer' = [answer EXCEPT ![r.input] = [kind |-> "ok", turn |-> r.turn]]
          [] OTHER -> UNCHANGED hist /\ answer' = [answer EXCEPT ![r.input] = [kind |-> "race"]]
     /\ UNCHANGED <<bindVars, bound, lease, admission, input, losses, appTurns>>

\* The connection breaks before the request is taken.
WireDrops(r) ==
  /\ r \in wire /\ Loss
  /\ wire' = wire \ {r}
  /\ UNCHANGED <<hist, answer, bindVars, bound, lease, admission, input, appTurns>>

Closed(u) == [hist EXCEPT ![u[1]][u[2]].open = FALSE]
TurnEnds(t) ==
  /\ ThreadState(t).active
  /\ hist' = Closed(ThreadState(t).last)
  /\ UNCHANGED <<wire, answer, bindVars, bound, lease, admission, input, losses, appTurns>>

AppStarts(t) ==
  /\ appTurns < MaxAppTurns /\ ~ThreadState(t).active
  /\ hist' = [hist EXCEPT ![t] = Append(@, [items |-> <<>>, open |-> TRUE])]
  /\ appTurns' = appTurns + 1
  /\ UNCHANGED <<wire, answer, bindVars, bound, lease, admission, input, losses>>

-----------------------------------------------------------------------------
(* runCodexTurn up to the request.                                         *)

Fails(i) == [FreshRun EXCEPT !.at = "done", !.status = input[i].status, !.turn = input[i].turn, !.gaveUp = input[i].gaveUp]

\* resolveCodexRuntimeForInputLocked: admission, a new intent, and a look at the lease before the read.
Resolve(i, c, t) ==
  LET run == input[i]
      n == NewIntent(c, t)
  IN /\ \/ At(i, "new")
        \/ At(i, "again") /\ c = run.conv /\ t = run.thread
     /\ admission = Nobody
     /\ admission' = i
     /\ Begins(c, t)
     /\ Goes(i, [run EXCEPT !.at = "read", !.conv = c, !.thread = t, !.local = n.local, !.owner = n.owner, !.life = n.life,
                            !.held = lease[t]])
     /\ UNCHANGED <<hostVars, sel, route, life, bound, lease, using, watching, bindOps, losses, appTurns>>

ReadsThread(i, ok) ==
  /\ At(i, "read")
  /\ IF ok THEN NoLoss /\ Goes(i, [input[i] EXCEPT !.at = "bind", !.seen = ThreadState(input[i].thread)]) /\ UNCHANGED admission
     ELSE Loss /\ Goes(i, Fails(i)) /\ admission' = Nobody
  /\ UNCHANGED <<hostVars, bindVars, bound, lease, appTurns>>

\* activateSharedCodexHostWithIntent: the commit, by what the look at the lease had shown.
BindsThread(i) ==
  LET run == input[i]
      t == run.thread
      b == bound[t]
      l == lease[t]
      held == run.held # NoWriter
      uncertain == held /\ run.held.uncertain
      fits == CASE uncertain -> l = run.held
                [] held /\ ~uncertain -> l # NoWriter /\ b.run = "weclaw"
                [] OTHER -> TRUE
      left == IF uncertain THEN ReconciledLease(l, run.seen) ELSE l
      next == CASE uncertain /\ left # NoWriter -> ReconciledBinding(b, l, run.seen)
                [] held /\ ~uncertain -> [b EXCEPT !.state = run.seen]
                [] OTHER -> Activated(b, run.seen)
  IN /\ At(i, "bind")
     /\ IF IntentCurrent(run) /\ fits
        THEN /\ lease' = [lease EXCEPT ![t] = left]
             /\ bound' = [bound EXCEPT ![t] = next]
             /\ Selects(run.conv, t)
             /\ Goes(i, [run EXCEPT !.at = "admit", !.seen = next.state])
             /\ UNCHANGED admission
        ELSE UNCHANGED <<lease, bound, sel, route>> /\ Goes(i, Fails(i)) /\ admission' = Nobody
     /\ UNCHANGED <<hostVars, revision, ownerRevision, life, using, watching, since, bindOps, losses, appTurns>>

\* An active thread is steered; otherwise beginTurn takes the writer lease, or the input waits for the lease it met.
Admit(i) ==
  LET run == input[i]
      t == run.thread
      b == bound[t]
  IN /\ At(i, "admit")
     /\ admission' = Nobody
     /\ CASE run.seen.active -> Goes(i, [run EXCEPT !.at = "steer", !.held = NoWriter]) /\ UNCHANGED lease
          [] ~run.seen.active /\ (b.run # "weclaw" \/ life[t].archived) -> Goes(i, Fails(i)) /\ UNCHANGED lease
          [] ~run.seen.active /\ b.run = "weclaw" /\ ~life[t].archived /\ lease[t] = NoWriter ->
               /\ lease' = [lease EXCEPT ![t] = [who |-> i, tries |-> run.tries, gen |-> b.gen, base |-> b.state.last,
                                                 turn |-> NoTurn, uncertain |-> FALSE]]
               /\ Goes(i, [run EXCEPT !.at = "write", !.base = run.seen.last, !.do = "start", !.status = "pending"])
          [] OTHER ->
               /\ Goes(i, IF run.tries > 0 THEN [run EXCEPT !.at = "wait", !.held = lease[t], !.tries = @ - 1] ELSE Fails(i))
               /\ UNCHANGED lease
     /\ UNCHANGED <<hostVars, bindVars, bound, losses, appTurns>>

\* writerLeaseResolution: the lease met was accepted or released.
LeaseResolved(i) ==
  LET l == lease[input[i].thread] h == input[i].held
  IN /\ At(i, "wait")
     /\ l = NoWriter \/ l.who # h.who \/ l.tries # h.tries \/ l.turn # NoTurn
     /\ Goes(i, [input[i] EXCEPT !.at = "reread", !.held = NoWriter])
     /\ UNCHANGED <<hostVars, bindVars, bound, lease, admission, losses, appTurns>>

\* redispatchCodexTurn and rereadAndSubmitCodexSteer: read again, then steer or start over.
Redispatch(i, ok) ==
  LET s == ThreadState(input[i].thread)
  IN /\ At(i, "reread")
     /\ IF ok THEN NoLoss /\ Goes(i, IF s.active THEN [input[i] EXCEPT !.at = "steer", !.seen = s] ELSE [input[i] EXCEPT !.at = "again", !.seen = IdleState])
        ELSE Loss /\ Goes(i, Fails(i))
     /\ UNCHANGED <<hostVars, bindVars, bound, lease, admission, appTurns>>

\* submitCodexSteer: the matching items are counted before the input is sent.
SteerBaseline(i, ok) ==
  LET run == input[i]
  IN /\ At(i, "steer")
     /\ IF ok
        THEN NoLoss /\ Goes(i, [run EXCEPT !.at = "write", !.do = "steer", !.base = run.seen.turn, !.status = "pending",
                                           !.count = CountIn(run.seen.turn, i)])
        ELSE Loss /\ Goes(i, Fails(i))
     /\ UNCHANGED <<hostVars, bindVars, bound, lease, admission, appTurns>>

\* notifyCodexInputAttempt fails: nothing is sent, and a lease taken is released.
AttemptUnsaved(i) ==
  /\ At(i, "write") /\ Loss
  /\ Goes(i, Fails(i))
  /\ Finish(i)
  /\ UNCHANGED <<hostVars, bindVars, admission, appTurns>>

\* turn/start goes to the thread requireThread finds for the conversation; turn/steer to the input's own.
WriteInput(i) ==
  LET run == input[i]
      t == IF run.do = "start" THEN sel[run.conv] ELSE run.thread
      taken == run.do = "start" /\ \E j \in Inputs \ {i} : input[j].on = t
  IN /\ At(i, "write")
     /\ t # NoThread /\ ~taken
     /\ ~(run.do = "steer" /\ bound[t].run = "conflict")
     /\ wire' = wire \cup {[input |-> i, do |-> run.do, thread |-> t, turn |-> run.base]}
     /\ Goes(i, [run EXCEPT !.at = "sent", !.on = IF run.do = "start" THEN t ELSE NoThread])
     /\ UNCHANGED <<hist, answer, bindVars, bound, lease, admission, losses, appTurns>>

\* The conversation was cleared, or another start already collects on the thread (a state race).
WriteRefused(i) ==
  LET run == input[i]
      t == IF run.do = "start" THEN sel[run.conv] ELSE run.thread
      taken == t # NoThread /\ run.do = "start" /\ \E j \in Inputs \ {i} : input[j].on = t
  IN /\ At(i, "write")
     /\ t = NoThread \/ taken \/ (run.do = "steer" /\ bound[t].run = "conflict")
     /\ Goes(i, IF taken /\ LeaseHolds(i) /\ run.tries > 0 THEN [run EXCEPT !.at = "reread", !.tries = @ - 1]
                ELSE [Fails(i) EXCEPT !.status = IF run.do = "steer" \/ LeaseHolds(i) THEN "rejected" ELSE @])
     /\ Finish(i)
     /\ UNCHANGED <<hostVars, bindVars, admission, losses, appTurns>>

-----------------------------------------------------------------------------
(* The answer, its loss, and the end of the turn.                          *)

\* accept: the lease and the binding name the turn.
Accepts(i, u) ==
  LET t == input[i].thread
  IN /\ lease' = [lease EXCEPT ![t].turn = u]
     /\ bound' = [bound EXCEPT ![t].state.active = TRUE, ![t].state.turn = u]

Consumed(i) == answer' = [answer EXCEPT ![i] = NoAnswer]

\* A lease outlives every operation of the program that could change its binding, so the branch that interrupts a turn
\* whose lease was lost (rejectStartedCodexTurn) is never taken.
StartAccepted(i) ==
  LET u == answer[i].turn
  IN /\ At(i, "sent") /\ input[i].do = "start" /\ answer[i].kind = "ok"
     /\ LeaseHolds(i)
     /\ Accepts(i, u) /\ Consumed(i)
     /\ Goes(i, [input[i] EXCEPT !.at = "collect", !.turn = u, !.status = "accepted"])
     /\ UNCHANGED <<hist, wire, bindVars, admission, losses, appTurns>>

SteerAccepted(i) ==
  /\ At(i, "sent") /\ input[i].do = "steer" /\ answer[i].kind = "ok"
  /\ Consumed(i)
  /\ Goes(i, [input[i] EXCEPT !.at = "watch", !.turn = answer[i].turn, !.status = "accepted"])
  /\ UNCHANGED <<hist, wire, bindVars, bound, lease, admission, losses, appTurns>>

\* isCodexTurnStateRace: the thread is read again while retries remain; otherwise the input was refused.
AnsweredRace(i) ==
  LET run == input[i]
      held == run.do = "steer" \/ LeaseHolds(i)
  IN /\ At(i, "sent") /\ answer[i].kind = "race"
     /\ Consumed(i)
     /\ Goes(i, IF held /\ run.tries > 0 THEN [run EXCEPT !.at = "reread", !.tries = @ - 1, !.on = NoThread]
                ELSE [Fails(i) EXCEPT !.status = IF held THEN "rejected" ELSE @, !.on = NoThread])
     /\ Finish(i)
     /\ UNCHANGED <<hist, wire, bindVars, admission, losses, appTurns>>

\* A broken connection or a deadline: whether the input was taken is not known.
ConfirmOrResend(run) ==   \* mutant: a steer whose answer is lost is sent again
  IF run.do = "steer" THEN [run EXCEPT !.at = "write"] ELSE [run EXCEPT !.at = "confirm"]
AfterUnknown(run) == [run EXCEPT !.at = "confirm"]
AnswerLost(i) ==
  /\ At(i, "sent") /\ Loss
  /\ Consumed(i)
  /\ Goes(i, AfterUnknown(input[i]))
  /\ UNCHANGED <<hist, wire, bindVars, bound, lease, admission, appTurns>>

\* A start is cancelled or detached before its answer came.
GiveUp(i) ==
  /\ At(i, "sent") /\ input[i].do = "start" /\ Loss
  /\ Consumed(i)
  /\ Goes(i, [Fails(i) EXCEPT !.status = IF LeaseHolds(i) THEN "rejected" ELSE @, !.gaveUp = TRUE, !.on = NoThread])
  /\ Finish(i)
  /\ UNCHANGED <<hist, wire, bindVars, admission, appTurns>>

\* confirmCodexInputDelivery: the turn that shows the input, if the history says so.
Delivered(i) ==
  LET run == input[i] u == IF run.do = "start" THEN ThreadState(run.thread).last ELSE run.base
  IN u # NoTurn /\ IF run.do = "start" THEN u # run.base /\ CountIn(u, i) > 0 ELSE CountIn(u, i) > run.count

Confirmed(i) ==
  LET run == input[i] u == IF run.do = "start" THEN ThreadState(run.thread).last ELSE run.base
  IN /\ At(i, "confirm")
     /\ run.do = "steer" \/ LeaseHolds(i)
     /\ Delivered(i)
     /\ IF run.do = "start" THEN Accepts(i, u) ELSE UNCHANGED <<lease, bound>>
     /\ Goes(i, [run EXCEPT !.at = "watch", !.turn = u, !.status = "accepted", !.on = NoThread])
     /\ UNCHANGED <<hostVars, bindVars, admission, losses, appTurns>>

Unconfirmed(i, ok) ==
  LET held == input[i].do = "steer" \/ LeaseHolds(i)
  IN /\ At(i, "confirm")
     /\ IF ok THEN NoLoss /\ (~held \/ ~Delivered(i)) ELSE Loss
     /\ Goes(i, [Fails(i) EXCEPT !.status = IF held THEN "unconfirmed" ELSE @, !.on = NoThread])
     /\ Finish(i)
     /\ UNCHANGED <<hostVars, bindVars, admission, appTurns>>

Over(u) == ~hist[u[1]][u[2]].open

\* The turn's end is seen, live or by the reconciling read.
CollectEnds(i) ==
  /\ At(i, "collect") \/ At(i, "watch")
  /\ Over(input[i].turn)
  /\ Goes(i, [Fails(i) EXCEPT !.on = NoThread])
  /\ Finish(i)
  /\ UNCHANGED <<hostVars, bindVars, admission, losses, appTurns>>

\* A cancelled turn is interrupted (a conflict cancels it too); a detached one, or a failed watch, is left running.
Cancelled(i) ==
  /\ At(i, "collect")
  /\ IF bound[input[i].thread].run = "conflict" THEN NoLoss ELSE Loss
  /\ hist' = Closed(input[i].turn)
  /\ Goes(i, [Fails(i) EXCEPT !.on = NoThread])
  /\ Finish(i)
  /\ UNCHANGED <<wire, answer, bindVars, admission, appTurns>>

Detached(i) ==
  /\ At(i, "collect") \/ At(i, "watch")
  /\ Loss
  /\ Goes(i, [Fails(i) EXCEPT !.on = NoThread])
  /\ Finish(i)
  /\ UNCHANGED <<hostVars, bindVars, admission, appTurns>>

\* markUncertain: the observation is lost, the turn may be running, and the lease stays.
ObservationLost(i) ==
  LET t == input[i].thread
  IN /\ At(i, "collect") \/ At(i, "watch")
     /\ LeaseHolds(i) /\ Loss
     /\ lease' = [lease EXCEPT ![t].uncertain = TRUE]
     /\ bound' = [bound EXCEPT ![t].state.active = TRUE, ![t].state.turn = IF @ = NoTurn THEN lease[t].turn ELSE @]
     /\ Goes(i, [input[i] EXCEPT !.at = "interrupted", !.on = NoThread])
     /\ UNCHANGED <<hostVars, bindVars, admission, appTurns>>

\* ConfirmTerminal: the task that ran the turn proved its end.
ConfirmTerminal(i) ==
  /\ At(i, "interrupted") /\ Over(input[i].turn)
  /\ Goes(i, Fails(i))
  /\ Finish(i)
  /\ UNCHANGED <<hostVars, bindVars, admission, losses, appTurns>>

TurnsNext ==
  \/ \E r \in wire : Takes(r) \/ WireDrops(r)
  \/ \E t \in Threads :
       TurnEnds(t) \/ AppStarts(t) \/ ArchiveCodexThread(t) \/ ThreadArchived(t) \/ ThreadUnarchived(t)
  \/ \E c \in Convs :
       \/ UseCodexThread(c) \/ ClearCodexThread(c) \/ ObserverReports(c)
       \/ \E t \in Threads : UseBegins(c, t) \/ ObserverReads(c, t)
  \/ \E i \in Inputs :
       \/ \E c \in Convs, t \in Threads : Resolve(i, c, t)
       \/ BindsThread(i) \/ Admit(i) \/ LeaseResolved(i) \/ AttemptUnsaved(i) \/ WriteInput(i) \/ WriteRefused(i)
       \/ StartAccepted(i) \/ SteerAccepted(i) \/ AnsweredRace(i) \/ AnswerLost(i) \/ GiveUp(i) \/ Confirmed(i)
       \/ CollectEnds(i) \/ Cancelled(i) \/ Detached(i) \/ ObservationLost(i) \/ ConfirmTerminal(i)
       \/ \E ok \in BOOLEAN : ReadsThread(i, ok) \/ Redispatch(i, ok) \/ SteerBaseline(i, ok) \/ Unconfirmed(i, ok)

TurnsSpec == TurnsInit /\ [][TurnsNext]_turnVars

-----------------------------------------------------------------------------
\* The places of the history, and those an input is at.
Places == UNION {UNION {{<<t, n, k>> : k \in DOMAIN hist[t][n].items} : n \in DOMAIN hist[t]} : t \in Threads}
Occurrences(i) == {p \in Places : hist[p[1]][p[2]].items[p[3]] = i}

\* "Unknown delivery is never retried blindly": whatever answers are lost and however often the thread is read again,
\* no input is in the history twice.
WrittenOnce == \A i \in Inputs : \A p, q \in Occurrences(i) : p = q

\* What the attempt record says is true: an accepted input is in the turn it names, and a refused one is in no turn,
\* except a start that was cancelled before its answer.
AttemptsTrue ==
  \A i \in Inputs :
    /\ input[i].status = "accepted" => CountIn(input[i].turn, i) > 0
    /\ input[i].status = "rejected" /\ ~input[i].gaveUp => Occurrences(i) = {}

\* An answer that arrives late changes no selection: a conversation has only a thread asked for since it was last
\* cleared, and no conversation has an archived one.
SelectionsCurrent ==
  \A c \in Convs : \A t \in {sel[c], route[c]} \ {NoThread} : t \in since[c] /\ ~life[t].archived

\* An uncertain lease outlives its turn: a resolution, the task's proven end and an observer's report release it only
\* when the turn it stands for is over, unless the report was read before that turn began.
ReadBefore(t, u) ==
  \E c \in Convs : /\ watching[c] # NoIntent /\ watching'[c] = NoIntent
                   /\ watching[c].thread = t /\ watching[c].state.last[2] < u[2]
UncertainLeaseKept ==
  [][\A t \in Threads : lease[t].uncertain /\ lease'[t] = NoWriter /\ lease[t].turn[1] = t
        => Over(lease[t].turn) \/ ReadBefore(t, lease[t].turn)]_turnVars

\* The attempt record and the history agree: nothing is written twice, and what the record says happened did
\* (codex_runtime_turn.go).
AttemptsSound == WrittenOnce /\ AttemptsTrue
=============================================================================
