-------------------------- MODULE CodexDesktopStream --------------------------
(***************************************************************************)
(* The connector to a running Codex App (agent/codex_desktop_*.go) and the *)
(* watcher of one of its turns (agent/codex_thread_watch.go).  The App     *)
(* sends numbered patches of the conversation's state; the client's reader *)
(* queues them, one worker applies them to a cache and publishes what      *)
(* changed, and a watcher waits for its turn to end, asking for the whole  *)
(* state when it hears nothing.  The App is external: it is what the       *)
(* connector may meet, one conversation with one turn and one question.    *)
(***************************************************************************)
EXTENDS Naturals, Sequences, FiniteSets

CONSTANTS HeardCap,      \* codexDesktopBroadcastQueueLimit
          ParkedCap,     \* codexDesktopMaxQueuedPatches
          RefreshTicks,  \* codexThreadWatchRefreshTicks
          MaxDeskMoves,  \* bound: changes of the conversation, restarts of the App
          MaxDeskEpochs  \* bound: connections

ASSUME DeskAssumption ==
    /\ {HeardCap, ParkedCap, RefreshTicks} \subseteq Nat \ {0}
    /\ {MaxDeskMoves, MaxDeskEpochs} \subseteq Nat

VARIABLES dapp,    \* the App: its state, the state at each revision, the first
                   \* connection of this process, whether it streams to us
          dconn,   \* the client's connection and its epoch
          wire,    \* what the App has sent on the connection and is unread
          calls,   \* the load-history calls of the worker and the watcher
          writer,  \* who holds writeMu
          heard,   \* the queue of broadcasts
          worker,  \* the broadcast worker
          cache,   \* the cached conversation with its projection
          parked,  \* patches that did not fit the cached revision
          wanted,  \* needsSnapshot: the revision asked for, 0 when none
          owner,   \* the runtime recorded for the conversation
          told,    \* the events given to the watcher
          dwatch   \* the watcher

deskVars == <<dapp, dconn, wire, calls, writer, heard, worker, cache, parked,
              wanted, owner, told, dwatch>>

Callers == {"worker", "watcher"}
TurnIsOver == {"bare", "final", "failed"}
Rev == Len(dapp.past)
Message(kind, to, base, rev, body) ==
    [kind |-> kind, to |-> to, base |-> base, rev |-> rev, body |-> body]
Snapshot == Message("snap", "all", 0, Rev, dapp.raw)
Attempt(st) == [st |-> st, epoch |-> 0, framed |-> FALSE, rev |-> 0,
                late |-> FALSE]
NoCache == [epoch |-> 0, rev |-> 0, raw |-> [turn |-> "none", ask |-> FALSE],
            term |-> FALSE, cand |-> FALSE, tomb |-> FALSE, ran |-> FALSE,
            seen |-> FALSE]
IdleWorker == [at |-> "idle", epoch |-> 0, msg |-> Message("", "", 0, 0, <<>>),
               events |-> <<>>]

DeskInit ==
    /\ LET raw == [turn |-> "active", ask |-> FALSE]
       IN dapp = [raw |-> raw, past |-> <<raw>>, since |-> 1, follows |-> FALSE,
                  moves |-> 0]
    /\ dconn = [epoch |-> 0, st |-> "down"]
    /\ wire = <<>> /\ heard = <<>> /\ parked = <<>> /\ told = <<>>
    /\ calls = [c \in Callers |-> Attempt("idle")]
    /\ writer = "none"
    /\ worker = IdleWorker
    /\ cache = NoCache
    /\ wanted = 0
    /\ owner = "unknown"
    /\ dwatch = [st |-> "off", epoch |-> 0, rev |-> 0, ticks |-> 0,
                 text |-> FALSE, asks |-> FALSE, result |-> "none",
                 fresh |-> FALSE, late |-> FALSE, skip |-> FALSE,
                 hole |-> FALSE]

-----------------------------------------------------------------------------
(* The App. *)

\* What the turn and the question may do next.  A turn's active entity may be
\* removed before the ended one is filed, and it may be marked completed before
\* its final answer is added.
AppNext(raw) ==
    {[raw EXCEPT !.turn = t] : t \in
        CASE raw.turn = "active" -> {"gone"} \cup TurnIsOver
          [] raw.turn = "gone" -> TurnIsOver
          [] raw.turn = "bare" -> {"final"}
          [] OTHER -> {}}
      \cup (IF raw.turn = "active" THEN {[raw EXCEPT !.ask = ~@]} ELSE {})

Patch(from, to) ==
    [f \in {g \in DOMAIN from : from[g] # to[g]} |-> to[f]]

Talking == dapp.since <= dconn.epoch /\ dconn.st \in {"shaking", "up"}

AppMoves ==
    /\ dapp.moves < MaxDeskMoves
    /\ \E next \in AppNext(dapp.raw) :
         /\ dapp' = [dapp EXCEPT !.raw = next, !.past = Append(@, next),
                                !.moves = @ + 1]
         /\ wire' = IF Talking /\ dapp.follows
                    THEN Append(wire, Message("patch", "all", Rev, Rev + 1,
                                              Patch(dapp.raw, next)))
                    ELSE wire
    /\ UNCHANGED <<dconn, calls, writer, heard, worker, cache, parked, wanted,
                   owner, told, dwatch>>

\* A new App process counts its revisions from one; an unfinished turn is over.
AppRestarts ==
    /\ dapp.moves < MaxDeskMoves
    /\ LET raw == [turn |-> IF dapp.raw.turn \in {"active", "gone"} THEN "failed"
                            ELSE dapp.raw.turn,
                   ask |-> FALSE]
       IN dapp' = [raw |-> raw, past |-> <<raw>>, since |-> dconn.epoch + 1,
                   follows |-> FALSE, moves |-> dapp.moves + 1]
    /\ UNCHANGED <<dconn, wire, calls, writer, heard, worker, cache, parked,
                   wanted, owner, told, dwatch>>

\* The App answers a load-history call: the whole state, which may overtake its
\* waiting patches, and the revision; or an error.  `late` records that the final answer was there by then.
AppAnswers(c) ==
    /\ calls[c].framed /\ calls[c].epoch = dconn.epoch /\ calls[c].rev = 0
    /\ Talking
    /\ \E ok \in BOOLEAN :
         /\ \E sent \in IF ok THEN {wire \o <<Snapshot>>, <<Snapshot>> \o wire}
                          ELSE {wire} :
              wire' = Append(sent, Message("reply", c, 0, IF ok THEN Rev ELSE 0, <<>>))
         /\ calls' = [calls EXCEPT ![c].rev = Rev,
                                   ![c].late = dapp.raw.turn = "final"]
         /\ dapp' = [dapp EXCEPT !.follows = @ \/ ok]
    /\ UNCHANGED <<dconn, writer, heard, worker, cache, parked, wanted, owner,
                   told, dwatch>>

-----------------------------------------------------------------------------
(* The client: connection, calls, reader. *)

\* Connect: one attempt at a time; a failed dial leaves nothing behind, and
\* installConnection starts the next epoch, on which the handshake follows.
Connect ==
    /\ dconn.st = "down" /\ dconn.epoch < MaxDeskEpochs
    /\ dconn' = [epoch |-> dconn.epoch + 1, st |-> "shaking"]
    /\ UNCHANGED <<dapp, wire, calls, writer, heard, worker, cache, parked, wanted,
                   owner, told, dwatch>>

FinishInitialize ==
    /\ dconn.st = "shaking"
    /\ dconn' = [dconn EXCEPT !.st = "up"]
    /\ UNCHANGED <<dapp, wire, calls, writer, heard, worker, cache, parked,
                   wanted, owner, told, dwatch>>

CallWaits(call) == call.st \in {"registered", "framed", "written"}
PendingDisconnect(call) ==
    IF ~CallWaits(call) THEN call
    ELSE [call EXCEPT !.st = IF call.st = "written" THEN "unknown" ELSE "unsent"]

WriterDone(may) == writer \in {"none", may}

\* disconnectEpoch: it waits for the frame being written, takes the connection
\* away, marks the runtime unknown and then fails what waits: a request whose
\* frame was written may have been received, the others were not.
DisconnectEpoch(may) ==
    /\ dconn.st \in {"shaking", "up"}
    /\ WriterDone(may)
    /\ dconn' = [dconn EXCEPT !.st = "down"]
    /\ wire' = <<>>
    /\ owner' = "unknown"
    /\ calls' = [c \in Callers |-> PendingDisconnect(calls[c])]
    /\ writer' = "none"
    /\ dapp' = [dapp EXCEPT !.follows = FALSE]
    /\ UNCHANGED <<heard, worker, cache, parked, wanted, told, dwatch>>

CallIsOver(call) == call.st \in {"refused", "unsent", "unknown", "answered"}

\* Binding the conversation announces that it is followed, and the App sends its
\* state (its load-history call is the watcher's, whose outcome nobody here waits
\* for).  Bound: only while nothing is unread and this connection has no state.
Bind ==
    /\ dconn.st = "up" /\ cache.epoch # dconn.epoch /\ Talking
    /\ wire = <<>> /\ heard = <<>> /\ worker.at = "idle"
    /\ wire' = <<Snapshot>>
    /\ dapp' = [dapp EXCEPT !.follows = TRUE]
    /\ UNCHANGED <<dconn, calls, writer, heard, worker, cache, parked, wanted,
                   owner, told, dwatch>>

\* announceFollowing: told that we follow, the App sends its state.  Without a
\* state of this connection the caller first waits for one.
Announce(c) ==
    /\ calls[c].st = "asked"
    /\ IF dconn.st = "up"
       THEN /\ calls' = [calls EXCEPT
                  ![c].st = IF cache.epoch = dconn.epoch THEN "based" ELSE "baseless",
                  ![c].epoch = dconn.epoch]
            /\ wire' = IF Talking THEN Append(wire, Snapshot) ELSE wire
            /\ dapp' = [dapp EXCEPT !.follows = @ \/ Talking]
       ELSE calls' = [calls EXCEPT ![c].st = "refused"] /\ UNCHANGED <<wire, dapp>>
    /\ UNCHANGED <<dconn, writer, heard, worker, cache, parked, wanted, owner,
                   told, dwatch>>

\* waitForRevision(epoch, 0): the state has come, or the wait runs out.
AwaitBase(c) ==
    /\ calls[c].st = "baseless"
    /\ \/ /\ cache.epoch = calls[c].epoch
          /\ calls' = [calls EXCEPT ![c].st = "based"]
       \/ calls' = [calls EXCEPT ![c].st = "refused"]
    /\ UNCHANGED <<dapp, dconn, wire, writer, heard, worker, cache, parked,
                   wanted, owner, told, dwatch>>

\* Call: the request is registered before it is written.
RegisterCall(c) ==
    /\ calls[c].st = "based"
    /\ calls' = [calls EXCEPT ![c] =
            IF dconn.st = "up"
            THEN [Attempt("registered") EXCEPT !.epoch = dconn.epoch]
            ELSE [@ EXCEPT !.st = "refused"]]
    /\ UNCHANGED <<dapp, dconn, wire, writer, heard, worker, cache, parked,
                   wanted, owner, told, dwatch>>

\* writeEnvelope takes writeMu and writes the frame if the connection is still
\* the one it was registered on.
WriteFrame(c) ==
    /\ calls[c].st = "registered" /\ writer = "none"
    /\ dconn.st = "up" /\ dconn.epoch = calls[c].epoch
    /\ writer' = c
    /\ calls' = [calls EXCEPT ![c].st = "framed", ![c].framed = TRUE]
    /\ UNCHANGED <<dapp, dconn, wire, heard, worker, cache, parked, wanted,
                   owner, told, dwatch>>

\* The write fails part way: the connection is ended by the writer itself.
WriteFails(c) ==
    /\ calls[c].st = "registered" /\ writer = "none"
    /\ dconn.st = "up" /\ dconn.epoch = calls[c].epoch
    /\ DisconnectEpoch(c)

\* markRequestWritten, still under writeMu.
MarkWritten(c) ==
    /\ writer = c
    /\ writer' = "none"
    /\ calls' = [calls EXCEPT ![c].st = IF @ = "framed" THEN "written" ELSE @]
    /\ UNCHANGED <<dapp, dconn, wire, heard, worker, cache, parked, wanted,
                   owner, told, dwatch>>

CallTimesOut(c) ==
    /\ calls[c].st = "written"
    /\ calls' = [calls EXCEPT ![c].st = "unknown"]
    /\ UNCHANGED <<dapp, dconn, wire, writer, heard, worker, cache, parked,
                   wanted, owner, told, dwatch>>

Queued(msg) == [epoch |-> dconn.epoch, msg |-> msg]

\* enqueueBroadcast: append, or replace the latest of this connection, or drop
\* the oldest.
EnqueueBroadcast(msg) ==
    LET mine == {i \in DOMAIN heard : heard[i].epoch = dconn.epoch}
        last == CHOOSE i \in mine : \A j \in mine : j <= i
    IN CASE Len(heard) < HeardCap -> Append(heard, Queued(msg))
         [] Len(heard) >= HeardCap /\ mine # {} -> [heard EXCEPT ![last] = Queued(msg)]
         [] OTHER -> Append(Tail(heard), Queued(msg))

\* readLoop: a reply wakes its caller, a broadcast is queued.
ReadFrame ==
    /\ wire # <<>> /\ dconn.st \in {"shaking", "up"}
    /\ LET msg == Head(wire)
       IN IF msg.kind = "reply"
          THEN /\ calls' = [calls EXCEPT ![msg.to].st =
                     IF ~CallWaits(calls[msg.to]) THEN @
                     ELSE IF msg.rev = 0 THEN "refused" ELSE "answered"]
               /\ heard' = heard
          ELSE heard' = EnqueueBroadcast(msg) /\ calls' = calls
    /\ wire' = Tail(wire)
    /\ UNCHANGED <<dapp, dconn, writer, worker, cache, parked, wanted, owner,
                   told, dwatch>>

-----------------------------------------------------------------------------
(* The cache and its projection. *)

AppGone(raw) == raw.turn \in {"none", "gone"}

\* projectCodexDesktopSnapshot: the turn's end is an event once, when it is seen
\* to go from active (or from active and removed) to ended with its answer.  A
\* first snapshot of a connection is a baseline: what has ended there is not
\* news, and nothing is remembered from the connection before.
Projected(prev, fresh, epoch, rev, raw) ==
    LET wasActive == ~fresh /\ (prev.raw.turn = "active" \/ (AppGone(prev.raw) /\ prev.tomb))
        told0 == ~fresh /\ prev.term
        cand0 == ~fresh /\ prev.cand
        ended == raw.turn \in TurnIsOver
        ready == raw.turn # "bare"
        ends == ended /\ ~fresh /\ ~told0 /\ ready /\ (wasActive \/ cand0)
        cand == IF AppGone(raw) THEN cand0
                ELSE ended /\ ~fresh /\ ~ends
                     /\ (cand0 \/ (~told0 /\ wasActive /\ ~ready))
    IN [cache |-> [epoch |-> epoch, rev |-> rev, raw |-> raw,
                   term |-> told0 \/ ends \/ (fresh /\ ended), cand |-> cand,
                   tomb |-> ~ended /\ raw.turn # "active" /\ wasActive,
                   ran |-> raw.turn = "active" \/ (~fresh /\ prev.ran),
                   seen |-> prev.seen],
        events |-> (IF raw.turn = "final" /\ ~fresh /\ prev.raw.turn # "final"
                    THEN <<"text">> ELSE <<>>)
                   \o (IF ends THEN <<IF raw.turn = "failed" THEN "error"
                                      ELSE "completed">> ELSE <<>>)]

Patched(raw, diff) ==
    [f \in DOMAIN raw |-> IF f \in DOMAIN diff THEN diff[f] ELSE raw[f]]

\* The parked patches are tried in order on the cached state; what is of another
\* connection or not newer is dropped.
ReplayQueued(found) ==
    LET Step[i \in 0..Len(parked)] ==
          IF i = 0 THEN [found |-> found, left |-> <<>>]
          ELSE LET so == Step[i - 1]
                   now == so.found.cache
                   p == parked[i]
               IN CASE p.epoch # now.epoch \/ p.msg.rev <= now.rev -> so
                    [] p.epoch = now.epoch /\ p.msg.rev > now.rev /\ p.msg.base # now.rev ->
                         [so EXCEPT !.left = Append(@, p)]
                    [] OTHER ->
                         LET new == Projected(now, FALSE, now.epoch, p.msg.rev,
                                              Patched(now.raw, p.msg.body))
                         IN [so EXCEPT !.found = [cache |-> new.cache,
                                                  events |-> @.events \o new.events]]
    IN Step[Len(parked)]

\* projectPendingActionEventsLocked: a pending question is handed out once.
WithAsk(found) ==
    IF found.cache.raw.ask /\ ~found.cache.seen
    THEN [cache |-> [found.cache EXCEPT !.seen = TRUE],
          events |-> Append(found.events, "ask")]
    ELSE found

\* An update that has been applied waits to be published.
Publishing(found) ==
    worker' = [worker EXCEPT !.at = "publish", !.msg = IdleWorker.msg,
                             !.events = [i \in DOMAIN found.events |->
                                 [kind |-> found.events[i], epoch |-> found.cache.epoch,
                                  rev |-> found.cache.rev]]]

StaleState(epoch, rev) ==
    epoch < cache.epoch \/ (epoch = cache.epoch /\ rev <= cache.rev)

BaseUnread(epoch, base) == epoch = cache.epoch /\ base > 0
Fits(epoch, base) == epoch = cache.epoch /\ base = cache.rev

\* The worker takes the oldest broadcast once its connection has shaken hands,
\* and drops it when that connection is not the current one any more.
NextBroadcast ==
    /\ worker.at = "idle" /\ heard # <<>>
    /\ LET b == Head(heard)
       IN /\ ~(b.epoch = dconn.epoch /\ dconn.st = "shaking")
          /\ worker' = IF b.epoch = dconn.epoch /\ dconn.st = "up"
                       THEN [worker EXCEPT !.at = "apply", !.epoch = b.epoch,
                                           !.msg = b.msg]
                       ELSE worker
    /\ heard' = Tail(heard)
    /\ UNCHANGED <<dapp, dconn, wire, calls, writer, cache, parked, wanted,
                   owner, told, dwatch>>

ApplySnapshot ==
    /\ worker.at = "apply" /\ worker.msg.kind = "snap"
    /\ LET fresh == cache.epoch # worker.epoch
           replay == ReplayQueued(Projected(cache, fresh, worker.epoch,
                                            worker.msg.rev, worker.msg.body))
           found == WithAsk(replay.found)
       IN IF StaleState(worker.epoch, worker.msg.rev)
          THEN worker' = IdleWorker /\ UNCHANGED <<cache, parked, wanted>>
          ELSE /\ cache' = found.cache
               /\ parked' = replay.left
               /\ wanted' = IF wanted > found.cache.rev THEN wanted ELSE 0
               /\ Publishing(found)
    /\ UNCHANGED <<dapp, dconn, wire, calls, writer, heard, owner, told, dwatch>>

\* queuePatchSetLocked: kept while there is room.
Park(msg) ==
    IF Len(parked) < ParkedCap
    THEN Append(parked, [epoch |-> worker.epoch, msg |-> msg]) ELSE parked

\* A patch that fits is applied; any other is parked, and the first gap asks for
\* the whole state.
ApplyPatchSet ==
    /\ worker.at = "apply" /\ worker.msg.kind = "patch"
    /\ LET msg == worker.msg
           found == WithAsk(Projected(cache, FALSE, worker.epoch, msg.rev,
                                      Patched(cache.raw, msg.body)))
       IN \/ /\ StaleState(worker.epoch, msg.rev)
             /\ worker' = IdleWorker
             /\ UNCHANGED <<cache, parked, wanted, calls>>
          \/ /\ ~StaleState(worker.epoch, msg.rev) /\ Fits(worker.epoch, msg.base)
             /\ cache' = found.cache
             /\ Publishing(found)
             /\ UNCHANGED <<parked, wanted, calls>>
          \/ /\ ~StaleState(worker.epoch, msg.rev) /\ ~Fits(worker.epoch, msg.base)
             /\ parked' = Park(msg)
             /\ wanted' = IF msg.rev > wanted THEN msg.rev ELSE wanted
             /\ IF wanted = 0
                THEN /\ worker' = [worker EXCEPT !.at = "request"]
                     /\ calls' = [calls EXCEPT !["worker"] = Attempt("asked")]
                ELSE worker' = IdleWorker /\ calls' = calls
             /\ UNCHANGED cache
    /\ UNCHANGED <<dapp, dconn, wire, writer, heard, owner, told, dwatch>>

\* The worker's own request does not wait for the state, and its failure is
\* only logged.
RequestDone ==
    /\ worker.at = "request" /\ CallIsOver(calls["worker"]) /\ writer # "worker"
    /\ worker' = IdleWorker
    /\ calls' = [calls EXCEPT !["worker"] = Attempt("idle")]
    /\ UNCHANGED <<dapp, dconn, wire, writer, heard, cache, parked, wanted, owner,
                   told, dwatch>>

\* publishForEpoch: the owner and the watchers hear of it only while the
\* connection is still the one it came from.
Publish ==
    /\ worker.at = "publish"
    /\ IF dconn.st \in {"shaking", "up"} /\ dconn.epoch = worker.epoch
       THEN /\ owner' = "desktop"
            /\ told' = IF dwatch.st \in {"off", "done"} THEN <<>>
                       ELSE told \o worker.events
       ELSE UNCHANGED <<owner, told>>
    /\ worker' = IdleWorker
    /\ UNCHANGED <<dapp, dconn, wire, calls, writer, heard, cache, parked,
                   wanted, dwatch>>

-----------------------------------------------------------------------------
(* The watcher. *)

\* The ways an unanswered turn is taken as finished without asking again: the
\* cached state does not hold it, this connection never saw it run, the runtime
\* is not the App's any more, or was not when the refresh was due.
Hole == AppGone(cache.raw) \/ ~cache.ran \/ owner = "unknown" \/ dwatch.skip

WatchEnds(result) ==
    [dwatch EXCEPT !.st = "done", !.result = result, !.hole = Hole,
                   !.ticks = 0, !.epoch = 0, !.rev = 0, !.asks = FALSE]

\* desktopWatchAwaitingFinal: the App ended the turn and its answer may still come.
AwaitingNothing == owner = "nobody"   \* mutant: the end is taken at its word
AwaitingFinal == owner = "desktop" /\ cache.cand

\* What the cached turn says to a watcher: it goes on, or it is over.
Verdict(refreshed) ==
    IF cache.raw.turn = "active" \/ (AwaitingFinal /\ ~refreshed) THEN "on"
    ELSE IF cache.raw.turn = "failed" THEN "failed"
    ELSE IF cache.raw.turn = "final" \/ dwatch.text THEN "final"
    ELSE "empty"

\* watchCodexThreadWithReconcile: the observer is registered before the state is
\* read.
RegisterObserver ==
    /\ dwatch.st = "off" /\ owner = "desktop" /\ cache.raw.turn # "none"
    /\ dwatch' = [dwatch EXCEPT !.st = "registered"]
    /\ told' = <<>>
    /\ UNCHANGED <<dapp, dconn, wire, calls, writer, heard, worker, cache,
                   parked, wanted, owner>>

\* The state read gives the watermark below which events are repetitions, and
\* takes the question nobody has taken yet.
AttachWatch ==
    /\ dwatch.st = "registered"
    /\ LET asks == cache.raw.turn = "active" /\ cache.raw.ask /\ ~cache.seen
       IN /\ dwatch' = IF Verdict(FALSE) = "on"
                       THEN [dwatch EXCEPT !.st = "on", !.epoch = cache.epoch,
                                           !.rev = cache.rev, !.asks = asks]
                       ELSE WatchEnds(Verdict(FALSE))
          /\ cache' = [cache EXCEPT !.seen = @ \/ asks]
    /\ UNCHANGED <<dapp, dconn, wire, calls, writer, heard, worker, parked,
                   wanted, owner, told>>

\* shouldSkipCodexDesktopReplayDuplicate.
Repeated(event) ==
    \/ event.epoch < dwatch.epoch
    \/ /\ event.epoch = dwatch.epoch /\ event.rev <= dwatch.rev
       /\ event.kind = "ask" => dwatch.asks

\* resetPendingActionOnError.
HandedBack == [cache EXCEPT !.seen = FALSE]

\* An event of the turn.  A question is answered by the broker; when the answer
\* does not get through the question may be handed out again.
TakeEvent ==
    /\ dwatch.st = "on" /\ told # <<>>
    /\ told' = Tail(told)
    /\ LET event == Head(told)
           heardOf == [dwatch EXCEPT !.ticks = 0]
       IN \/ /\ Repeated(event)
             /\ UNCHANGED <<dwatch, cache>>
          \/ /\ ~Repeated(event) /\ event.kind = "text"
             /\ dwatch' = [heardOf EXCEPT !.text = TRUE]
             /\ UNCHANGED cache
          \/ /\ ~Repeated(event) /\ event.kind = "completed"
             /\ dwatch' = WatchEnds(IF dwatch.text \/ cache.raw.turn = "final"
                                 THEN "final" ELSE "empty")
             /\ UNCHANGED cache
          \/ /\ ~Repeated(event) /\ event.kind = "error"
             /\ dwatch' = WatchEnds("failed")
             /\ UNCHANGED cache
          \/ /\ ~Repeated(event) /\ event.kind = "ask"
             /\ \/ dwatch' = heardOf /\ UNCHANGED cache
                \/ /\ dwatch' \in {heardOf, WatchEnds("error")}
                   /\ cache' = HandedBack
    /\ UNCHANGED <<dapp, dconn, wire, calls, writer, heard, worker, parked,
                   wanted, owner>>

\* reconcileAttachedCodexTurn: without the App as runtime the state cannot be
\* read.
Reconciled(now, refreshed) ==
    IF owner # "desktop" THEN WatchEnds("error")
    ELSE IF Verdict(refreshed) = "on" THEN now
    ELSE WatchEnds(Verdict(refreshed))

ReconcileTick ==
    /\ dwatch.st = "on" /\ dwatch.ticks + 1 < RefreshTicks
    /\ dwatch' = Reconciled([dwatch EXCEPT !.ticks = @ + 1], FALSE)
    /\ UNCHANGED <<dapp, dconn, wire, calls, writer, heard, worker, cache,
                   parked, wanted, owner, told>>

\* After a silence the watcher asks for the whole state and waits until it has
\* been applied.
StartRefresh ==
    /\ dwatch.st = "on" /\ dwatch.ticks + 1 >= RefreshTicks
    /\ IF owner = "desktop"
       THEN /\ dwatch' = [dwatch EXCEPT !.st = "refreshing"]
            /\ calls' = [calls EXCEPT !["watcher"] = Attempt("asked")]
       ELSE /\ dwatch' = [dwatch EXCEPT !.st = "refreshed", !.skip = TRUE]
            /\ calls' = calls
    /\ UNCHANGED <<dapp, dconn, wire, writer, heard, worker, cache, parked,
                   wanted, owner, told>>

BarrierMet(call) == cache.epoch = call.epoch /\ cache.rev >= call.rev

RefreshBarrier ==
    /\ dwatch.st = "refreshing" /\ CallIsOver(calls["watcher"]) /\ writer # "watcher"
    /\ IF calls["watcher"].st = "answered"
       THEN /\ calls' = [calls EXCEPT !["watcher"].st = "barrier",
                                      !["watcher"].epoch = dconn.epoch]
            /\ dwatch' = dwatch
       ELSE /\ dwatch' = WatchEnds("error")
            /\ calls' = [calls EXCEPT !["watcher"] = Attempt("idle")]
    /\ UNCHANGED <<dapp, dconn, wire, writer, heard, worker, cache, parked,
                   wanted, owner, told>>

RefreshDone ==
    /\ dwatch.st = "refreshing" /\ calls["watcher"].st = "barrier"
    /\ \/ /\ BarrierMet(calls["watcher"])
          /\ dwatch' = [dwatch EXCEPT !.st = "refreshed", !.fresh = TRUE,
                                      !.late = calls["watcher"].late]
       \/ dwatch' = WatchEnds("error")
    /\ calls' = [calls EXCEPT !["watcher"] = Attempt("idle")]
    /\ UNCHANGED <<dapp, dconn, wire, writer, heard, worker, cache, parked,
                   wanted, owner, told>>

ReconcileRefreshed ==
    /\ dwatch.st = "refreshed"
    /\ dwatch' = Reconciled([dwatch EXCEPT !.st = "on", !.ticks = 0,
                                           !.fresh = FALSE, !.skip = FALSE], TRUE)
    /\ UNCHANGED <<dapp, dconn, wire, calls, writer, heard, worker, cache,
                   parked, wanted, owner, told>>

-----------------------------------------------------------------------------
DeskNext ==
    \/ AppMoves \/ AppRestarts
    \/ Connect \/ FinishInitialize \/ DisconnectEpoch("none")
    \/ \E c \in Callers : \/ AppAnswers(c) \/ Announce(c) \/ AwaitBase(c)
                          \/ RegisterCall(c) \/ WriteFrame(c) \/ WriteFails(c)
                          \/ MarkWritten(c) \/ CallTimesOut(c)
    \/ Bind \/ ReadFrame \/ NextBroadcast \/ ApplySnapshot \/ ApplyPatchSet
    \/ RequestDone \/ Publish
    \/ RegisterObserver \/ AttachWatch \/ TakeEvent \/ ReconcileTick
    \/ StartRefresh \/ RefreshBarrier \/ RefreshDone \/ ReconcileRefreshed

DeskSpec == DeskInit /\ [][DeskNext]_deskVars

-----------------------------------------------------------------------------
\* A call that is reported as not delivered never had its frame on the socket:
\* the caller may send the user's message again without it running twice
\* (codexDesktopPendingDisconnectError, writeEnvelope).
UnsentIsUnseen ==
    \A c \in Callers : calls[c].st = "unsent" => ~calls[c].framed

\* Whatever was coalesced, dropped, parked or replayed, the cached conversation
\* is the App's at the cached revision (applyPatchSet, replayQueuedLocked).
CacheIsTruth ==
    cache.epoch >= dapp.since =>
        cache.rev <= Rev /\ cache.raw = dapp.past[cache.rev]

\* A watcher reports a turn as finished without an answer only after asking the
\* App for its whole state, and the App had no answer then; the ways around that
\* question are the ones Hole names (reconcileAttachedCodexTurn,
\* codexDesktopStateStore.awaitingFinalAnswer).
EmptyAfterAsking ==
    dwatch.result = "empty" =>
        dwatch.hole \/ (dwatch.fresh /\ ~dwatch.late)

\* What the connector believes of the App: the state it has is the App's, and what it reports as unsent did not get there
\* (codex_desktop_client_state.go, codex_desktop_client_send.go).
ConnectorTrue == UnsentIsUnseen /\ CacheIsTruth
=============================================================================
