---------------------------- MODULE OutboxWorker ----------------------------
(***************************************************************************)
(* The delivery side of the terminal outbox (messaging/terminal_outbox.go):*)
(* direct producers, the worker loop, delivery attempts with their stages, *)
(* the freezes of superseded cards, redrive, and the process restart.      *)
(*                                                                         *)
(* An attempt holds processing[i] and works on the clone of the entry that *)
(* beginAttempt took; its stages run concurrently with each other and with *)
(* every session.  The delivery decision and the platform are the          *)
(* environment: their answers are nondeterministic.                        *)
(***************************************************************************)
EXTENDS OutboxStore

-----------------------------------------------------------------------------
(* Producers that hand over a finished result.                             *)

ResultDraft == [NewEntry EXCEPT !.text = "result"]

\* enqueue, with what its three callers do next: enqueueAndAttempt goes on to a
\* direct attempt, the follower signals the worker, the replay does neither.
Enqueue(i) ==
  /\ i \in Ids \ TaskIds /\ sess[i] = "none" /\ ~Recorded(i)
  /\ i \in NoticeIds => shown[i] = {} /\ att[i] = Idle
  /\ \/ /\ Insert(i, ResultDraft)
        /\ sess' = [sess EXCEPT ![i] = IF i \in NoticeIds THEN "committed" ELSE "closed"]
        /\ wake' = (wake \/ i \in TurnIds)
        /\ UNCHANGED writeFails
     \/ /\ CannotInsert
        /\ sess' = [sess EXCEPT ![i] = "closed"]
        /\ UNCHANGED <<entries, wake>>
  /\ UNCHANGED <<preparing, startupHeld, att, due, asleep, resv, cur, remote, restarts, redrives>>

Rerouted(e) == [e EXCEPT !.attempts = 0, !.dead = FALSE]

\* enqueue of a deterministic id that is recorded: the same delivery is left
\* alone; one for another message of the chat moves there and starts afresh.
EnqueueAgain(i) ==
  /\ i \in TurnIds \cup ReplayIds /\ Recorded(i)
  /\ \/ /\ wake' = TRUE
        /\ UNCHANGED <<entries, writeFails, redrives>>
     \/ /\ i \in GuardedIds /\ i \notin preparing /\ att[i].pc = "idle"
        /\ redrives < MaxRedrives /\ redrives' = redrives + 1
        /\ \/ Put(i, Rerouted(entries[i])) /\ wake' = TRUE /\ UNCHANGED writeFails
           \/ WriteFails /\ UNCHANGED <<entries, wake>>
  /\ UNCHANGED <<preparing, startupHeld, att, due, asleep, sess, resv, cur, remote, restarts>>

-----------------------------------------------------------------------------
(* The worker loop.                                                        *)

WorkerFree == ~asleep /\ \A i \in Ids : att[i].by # "worker"

\* Mutant: the worker does not respect preparing.
QueuedIgnoresPreparing == {i \in Ids :
  Recorded(i) /\ HasWork(entries[i]) /\ ~entries[i].dead /\ att[i].pc = "idle"}

\* What dueIDs may return, whatever the clock says.
Queued == {i \in Ids :
  Recorded(i) /\ HasWork(entries[i]) /\ ~entries[i].dead
  /\ i \notin preparing /\ att[i].pc = "idle"}

\* What duePendingStreamSupersedes may return.
PendingFreezes(i) ==
  IF Recorded(i) /\ att[i].pc = "idle" /\ i \notin startupHeld
  THEN entries[i].sup \ entries[i].supDead ELSE {}

\* nextAttemptDelay finds something to wait for.
Scheduled == Queued # {} \/ \E i \in Ids : PendingFreezes(i) # {}

\* The entries whose backoff is over, snapshotted.
Scan ==
  /\ WorkerFree /\ due = {}
  /\ due' \in SUBSET Queued \ {{}}
  /\ UNCHANGED <<durable, preparing, startupHeld, att, asleep, wake, sess, resv, cur, remote, budget>>

\* Nothing is scheduled: wait for the wake channel without a timer.
Sleep ==
  /\ WorkerFree /\ due = {} /\ ~Scheduled
  /\ asleep' = TRUE
  /\ UNCHANGED <<durable, preparing, startupHeld, att, due, wake, sess, resv, cur, remote, budget>>

WakeUp ==
  /\ asleep /\ wake
  /\ asleep' = FALSE /\ wake' = FALSE
  /\ UNCHANGED <<durable, preparing, startupHeld, att, due, sess, resv, cur, remote, budget>>

\* The token is taken while the timer of a backoff runs.
DrainWake ==
  /\ WorkerFree /\ due = {} /\ Scheduled /\ wake
  /\ wake' = FALSE
  /\ UNCHANGED <<durable, preparing, startupHeld, att, due, asleep, sess, resv, cur, remote, budget>>

-----------------------------------------------------------------------------
(* A delivery attempt.                                                     *)

\* beginAttempt does not look at preparing: dueIDs has.
CanBegin(i) ==
  att[i].pc = "idle" /\ Recorded(i) /\ ~entries[i].dead /\ HasWork(entries[i])

Begin(i, who) ==
  att' = [att EXCEPT ![i] = [Idle EXCEPT !.pc = "begun", !.by = who, !.copy = entries[i]]]

WorkerAttempt(i) ==
  /\ WorkerFree /\ i \in due
  /\ due' = due \ {i}
  /\ \/ CanBegin(i) /\ Begin(i, "worker")
     \/ ~CanBegin(i) /\ UNCHANGED att
  /\ UNCHANGED <<durable, preparing, startupHeld, asleep, wake, sess, resv, cur, remote, budget>>

\* The producer's own attempt, right after its commit; it signals afterwards.
DirectAttempt(i) ==
  /\ sess[i] = "committed"
  /\ sess' = [sess EXCEPT ![i] = "closed"]
  /\ \/ CanBegin(i) /\ Begin(i, "direct") /\ UNCHANGED wake
     \/ ~CanBegin(i) /\ wake' = TRUE /\ UNCHANGED att
  /\ UNCHANGED <<durable, preparing, startupHeld, due, asleep, resv, cur, remote, budget>>

Unprepared(e) == e.stream # 0 /\ e.ckpt = 0

Allow(i) ==
  /\ att[i].pc = "begun"
  /\ att' = [att EXCEPT ![i] =
       IF Unprepared(att[i].copy) THEN [att[i] EXCEPT !.pc = "prepare"]
       ELSE [att[i] EXCEPT !.pc = "sending", !.run = Undelivered(att[i].copy)]]
  /\ UNCHANGED <<durable, preparing, startupHeld, due, asleep, wake, sess, resv, cur, remote, budget>>

\* Mutant: the end of an attempt is not signalled.
EndAttemptSilently(i) ==
  /\ att' = [att EXCEPT ![i] = Idle]
  /\ UNCHANGED wake

EndAttempt(i) ==
  /\ att' = [att EXCEPT ![i] = Idle]
  /\ wake' = TRUE

\* The follower of a guarded entry is not ready: deferDelivery keeps the entry
\* and costs it no attempt.
Defer(i) ==
  /\ att[i].pc = "begun" /\ i \in GuardedIds
  /\ EndAttempt(i)
  /\ UNCHANGED <<durable, preparing, startupHeld, due, asleep, sess, resv, cur, remote, budget>>

\* The follower is gone or its identity lost access: the result is dropped.
Deny(i) ==
  /\ att[i].pc = "begun" /\ i \in GuardedIds
  /\ Discard(i)
  /\ EndAttempt(i)
  /\ UNCHANGED <<startupHeld, due, asleep, sess, resv, cur, remote, restarts, redrives>>

\* prepareStreamRecovery turns the recorded card into a checkpoint, persisted
\* before it is sent.  When that fails only the text is delivered.
Prepare(i) ==
  /\ att[i].pc = "prepare"
  /\ \/ /\ Recorded(i)
        /\ LET e == [entries[i] EXCEPT !.stream = 0, !.ckpt = att[i].copy.stream] IN
           /\ Put(i, e)
           /\ att' = [att EXCEPT ![i] =
                [att[i] EXCEPT !.pc = "sending", !.copy = e, !.run = Undelivered(e)]]
        /\ UNCHANGED writeFails
     \/ /\ UNCHANGED writeFails \/ (Recorded(i) /\ WriteFails)
        /\ att' = [att EXCEPT ![i] =
             [att[i] EXCEPT !.pc = "sending", !.err = TRUE, !.run = Undelivered(att[i].copy)]]
        /\ UNCHANGED entries
  /\ UNCHANGED <<preparing, startupHeld, due, asleep, wake, sess, resv, cur, remote, restarts, redrives>>

\* A rich result on Feishu waits for the checkpoint of its own attempt.
AwaitsCheckpoint(a) ==
  Rich /\ a.copy.ckpt # 0 /\ "checkpoint" \notin a.copy.done

\* Mutant: the stages of an attempt never wait for each other.
NeverWaits(i, s) == att[i].pc = "sending" /\ s \in att[i].run

CanDeliver(i, s) ==
  /\ att[i].pc = "sending" /\ s \in att[i].run
  /\ s = "text" /\ AwaitsCheckpoint(att[i]) => "checkpoint" \notin att[i].run \cup att[i].sent

Verdict(e) == IF e.text = "restart" THEN "interrupted" ELSE "final"

\* The platform carries out stage s of the attempt.
Land(i, s) ==
  LET e == att[i].copy IN
  IF s = "checkpoint"
  THEN cards' = [cards EXCEPT ![i][e.ckpt] = Verdict(e)] /\ UNCHANGED shown
  ELSE shown' = [shown EXCEPT ![i] = @ \cup {e.text}] /\ UNCHANGED cards

\* Stage s is acknowledged and waits to be marked.
DeliverOk(i, s) ==
  /\ CanDeliver(i, s)
  /\ Land(i, s)
  /\ acked' = IF i \in TaskIds /\ s = "text" /\ att[i].copy.text = "result"
              THEN [acked EXCEPT ![i] = @ + 1] ELSE acked
  /\ att' = [att EXCEPT ![i].run = @ \ {s}, ![i].sent = @ \cup {s}]
  /\ UNCHANGED <<durable, preparing, startupHeld, due, asleep, wake, sess, resv, cur, budget>>

\* Stage s fails, whether or not the platform carried it out.
DeliverFails(i, s) ==
  /\ CanDeliver(i, s)
  /\ Land(i, s) \/ UNCHANGED <<cards, shown>>
  /\ att' = [att EXCEPT ![i].run = @ \ {s}, ![i].err = TRUE]
  /\ UNCHANGED <<durable, preparing, startupHeld, due, asleep, wake, sess, resv, cur, acked, budget>>

\* The card update blocks until its timeout.  The timeout of a waiting result
\* has run all that time, so its send fails too.
CheckpointTimesOut(i) ==
  /\ CanDeliver(i, "checkpoint")
  /\ Land(i, "checkpoint") \/ UNCHANGED <<cards, shown>>
  /\ att' = [att EXCEPT ![i].err = TRUE,
       ![i].run = IF AwaitsCheckpoint(att[i]) THEN {} ELSE @ \ {"checkpoint"}]
  /\ UNCHANGED <<durable, preparing, startupHeld, due, asleep, wake, sess, resv, cur, acked, budget>>

\* markDelivered; a replayed result needs its selection receipt first, which may
\* be refused.
MarkStage(i, s) ==
  /\ s \in att[i].sent
  /\ \/ /\ IF Recorded(i) THEN Put(i, [entries[i] EXCEPT !.done = @ \cup {s}]) ELSE UNCHANGED entries
        /\ att' = [att EXCEPT ![i].sent = @ \ {s}]
        /\ UNCHANGED writeFails
     \/ /\ \/ Recorded(i) /\ WriteFails
           \/ i \in ReplayIds /\ s = "text" /\ UNCHANGED writeFails
        /\ att' = [att EXCEPT ![i].sent = @ \ {s}, ![i].err = TRUE]
        /\ UNCHANGED entries

Mark(i, s) ==
  /\ MarkStage(i, s)
  /\ UNCHANGED <<preparing, startupHeld, due, asleep, wake, sess, resv, cur, remote, restarts, redrives>>

\* Mutant: an entry that reaches the limit is removed.
FailedDropsEntry(e) ==
  IF e.attempts + 1 < MaxAttempts THEN [e EXCEPT !.attempts = @ + 1] ELSE NoEntry

\* recordFailure; attempts is only compared with the limit, so it stops there.
Failed(e) ==
  LET n == IF e.attempts < MaxAttempts THEN e.attempts + 1 ELSE MaxAttempts
  IN [e EXCEPT !.attempts = n, !.dead = (n = MaxAttempts)]

\* removeDelivered: an entry with pending freezes outlives its delivery.
Delivered(e) == IF e.sup = {} THEN NoEntry ELSE [e EXCEPT !.dead = FALSE]

\* Every stage has reported.
Finish(i) ==
  /\ att[i].pc = "sending" /\ att[i].run = {} /\ att[i].sent = {}
  /\ \/ /\ Recorded(i)
        /\ Put(i, IF att[i].err THEN Failed(entries[i]) ELSE Delivered(entries[i]))
        /\ UNCHANGED writeFails
     \/ /\ Recorded(i) /\ WriteFails
        /\ UNCHANGED entries
     \/ /\ ~Recorded(i)
        /\ UNCHANGED <<entries, writeFails>>
  /\ EndAttempt(i)
  /\ UNCHANGED <<preparing, startupHeld, due, asleep, sess, resv, cur, remote, restarts, redrives>>

-----------------------------------------------------------------------------
(* The freeze of a superseded card, by the session that moved on or, as a  *)
(* retry, by the worker.                                                   *)

WorkerSupersede(i) ==
  /\ WorkerFree /\ due = {}
  /\ \E c \in PendingFreezes(i) :
       att' = [att EXCEPT ![i] = [Idle EXCEPT !.pc = "persisted", !.by = "worker", !.card = c]]
  /\ UNCHANGED <<durable, preparing, startupHeld, due, asleep, wake, sess, resv, cur, remote, budget>>

Freeze(i) == cards' = [cards EXCEPT ![i][att[i].card] = "frozen"]

FreezeOk(i) ==
  /\ att[i].pc = "persisted"
  /\ Freeze(i)
  /\ att' = [att EXCEPT ![i].pc = "frozen"]
  /\ UNCHANGED <<durable, preparing, startupHeld, due, asleep, wake, sess, resv, cur, shown, acked, budget>>

\* The freeze is refused, or its acknowledgement lost, and the retry recorded.
FreezeFails(i) ==
  /\ att[i].pc = "persisted"
  /\ Freeze(i) \/ UNCHANGED cards
  /\ \/ /\ IF Recorded(i) THEN Put(i, SupersedeFailed(entries[i], att[i].card)) ELSE UNCHANGED entries
        /\ UNCHANGED writeFails
     \/ /\ Recorded(i) /\ WriteFails
        /\ UNCHANGED entries
  /\ EndAttempt(i)
  /\ UNCHANGED <<preparing, startupHeld, due, asleep, sess, resv, cur, shown, acked, restarts, redrives>>

FreezeSettled(i) ==
  /\ att[i].pc = "frozen"
  /\ \/ /\ IF Recorded(i) THEN Put(i, Unpended(entries[i], att[i].card)) ELSE UNCHANGED entries
        /\ UNCHANGED writeFails
     \/ /\ Recorded(i) /\ WriteFails
        /\ UNCHANGED entries
  /\ EndAttempt(i)
  /\ UNCHANGED <<preparing, startupHeld, due, asleep, sess, resv, cur, remote, restarts, redrives>>

-----------------------------------------------------------------------------
(* The operator and the process.                                           *)

Redriven(e) == [e EXCEPT !.dead = FALSE, !.supDead = {}]

\* redrive of one entry or of all of them; attempts are kept.
Redrive(S) ==
  /\ redrives < MaxRedrives /\ redrives' = redrives + 1
  /\ \E i \in S : Recorded(i)
  /\ \/ /\ entries' = [i \in Ids |->
             IF i \in S /\ Recorded(i) THEN Redriven(entries[i]) ELSE entries[i]]
        /\ wake' = TRUE
        /\ UNCHANGED writeFails
     \/ WriteFails /\ UNCHANGED <<entries, wake>>
  /\ UNCHANGED <<preparing, startupHeld, att, due, asleep, sess, resv, cur, remote, restarts>>

\* The same for one pending freeze.
RedrivePending(i) ==
  /\ redrives < MaxRedrives /\ redrives' = redrives + 1
  /\ Recorded(i)
  /\ \E c \in entries[i].sup : Put(i, [entries[i] EXCEPT !.supDead = @ \ {c}])
  /\ wake' = TRUE
  /\ UNCHANGED <<preparing, startupHeld, att, due, asleep, sess, resv, cur, remote, writeFails, restarts>>

\* The process exits at any point and StartTerminalOutbox loads the file.  It
\* holds the deliveries of the followers that still match.
Restart ==
  /\ restarts < MaxRestarts /\ restarts' = restarts + 1
  /\ startupHeld' \in SUBSET {i \in GuardedIds : Recorded(i) /\ HasWork(entries[i])}
  /\ preparing' = startupHeld'
  /\ att' = [i \in Ids |-> Idle]
  /\ due' = {} /\ asleep' = FALSE /\ wake' = FALSE
  /\ sess' = [i \in Ids |-> "none"]
  /\ resv' = [i \in Ids |-> FALSE]
  /\ cur' = [i \in Ids |-> 0]
  /\ UNCHANGED <<durable, remote, writeFails, redrives>>

\* releaseCodexFollowerTerminalDeliveries, when the follower is ready again.
ReleaseHold(i) ==
  /\ i \in startupHeld
  /\ startupHeld' = startupHeld \ {i}
  /\ preparing' = preparing \ {i}
  /\ wake' = TRUE
  /\ UNCHANGED <<durable, att, due, asleep, sess, resv, cur, remote, budget>>
=============================================================================
