--------------------------- MODULE TerminalOutbox ---------------------------
(***************************************************************************)
(* Progress sessions and the terminal outbox together: the specification   *)
(* the runs check and the theorems are about.                              *)
(***************************************************************************)
EXTENDS ProgressSession, OutboxWorker

SessionStep(i) ==
  \/ StartWithCard(i) \/ StartPlain(i)
  \/ RefreshActiveStream(i)
  \/ ReanchorOpen(i) \/ ReanchorPersist(i) \/ ReanchorUnreserved(i)
  \/ Detach(i) \/ Abandon(i)
  \/ ReserveResult(i) \/ Stage(i) \/ StageFails(i) \/ Commit(i)
  \/ LegacyFinish(i) \/ LegacyDiscard(i)

ProducerStep(i) == Enqueue(i) \/ EnqueueAgain(i) \/ DirectAttempt(i)

WorkerStep(i) == WorkerAttempt(i) \/ WorkerSupersede(i)

AttemptStep(i) ==
  \/ Allow(i) \/ Defer(i) \/ Deny(i) \/ Prepare(i)
  \/ \E s \in Stages : DeliverOk(i, s) \/ DeliverFails(i, s) \/ Mark(i, s)
  \/ CheckpointTimesOut(i)
  \/ Finish(i)

FreezeStep(i) == FreezeOk(i) \/ FreezeFails(i) \/ FreezeSettled(i)

Next ==
  \/ \E i \in Ids :
       \/ SessionStep(i) \/ ProducerStep(i)
       \/ WorkerStep(i) \/ AttemptStep(i) \/ FreezeStep(i)
       \/ RedrivePending(i) \/ ReleaseHold(i)
  \/ \E S \in {{i} : i \in Ids} \cup {Ids} : Redrive(S)
  \/ Scan \/ Sleep \/ WakeUp \/ DrainWake
  \/ Restart

Spec == Init /\ [][Next]_vars

\* What the scheduler and the clock give every process that stays up: the worker
\* loop runs, a backoff ends (an id that is due again and again is scanned), and
\* calls into the platform or the outbox return.  Nothing is assumed about what
\* the platform answers.
Fairness ==
  /\ WF_vars(WakeUp)
  /\ WF_vars(Sleep)
  /\ \A i \in Ids :
       /\ SF_vars(Scan /\ i \in due')
       /\ SF_vars(WorkerSupersede(i))
       /\ WF_vars(WorkerAttempt(i))
       /\ WF_vars(DirectAttempt(i))
       /\ WF_vars(AttemptStep(i))
       /\ WF_vars(FreezeStep(i))
       /\ WF_vars(ReanchorPersist(i))

FairSpec == Spec /\ Fairness

-----------------------------------------------------------------------------
(* Safety.                                                                 *)

Duty(i) ==
  IF Recorded(i) /\ entries[i].text = "result" /\ "text" \notin entries[i].done
  THEN IF entries[i].dead THEN "dead" ELSE "owed"
  ELSE "none"

\* The outbox implements the delivery contract: an accepted result is owed until
\* the platform has shown it, its guard withdrew it, or its dead letter was
\* evicted, across failed writes, failed sends, reanchors and restarts.
C == INSTANCE DeliveryContract WITH
       Revocable <- GuardedIds,
       duty <- [i \in Ids |-> Duty(i)],
       seen <- [i \in Ids |-> "result" \in shown[i]]

Contract == C!Spec

\* enqueueWithState never lets the file grow beyond terminalOutboxMaxEntries.
CapacityRespected == Count <= MaxEntries

\* While a session runs or stages its terminal, no worker, direct attempt or
\* redrive delivers its reservation ("reserve" comment, terminal_outbox.go:686).
LiveReservationUndisturbed ==
  \A i \in TaskIds :
    \/ sess[i] = "running" /\ resv[i]
    \/ sess[i] \in {"reserved", "staged"}
    => /\ Recorded(i) => i \in preparing
       /\ i \notin due
       /\ att[i].pc \notin AttemptPcs

\* The card a restart would settle is never one that was already frozen: the
\* file moves to the new card before the old one is retired.
NoFrozenAuthority ==
  \A i \in Ids : Recorded(i) =>
    \A c \in Cards : c \in {entries[i].stream, entries[i].ckpt} => cards[i][c] # "frozen"

\* A task whose process is alive is never declared interrupted by a restart,
\* neither by the text nor on a card, unless a write failed: a result that cannot
\* be staged leaves the reservation with the text for a restart to the worker.
InterruptOnlyAfterRestart ==
  \A i \in TaskIds : sess[i] # "none" /\ writeFails = 0 =>
    /\ "restart" \notin shown[i]
    /\ \A c \in Cards : cards[i][c] # "interrupted"

\* At least once, and once unless something failed: a task's result is
\* acknowledged again only for a process exit or a failed write in between.
DuplicateOnlyAfterFault ==
  \A i \in TaskIds : acked[i] <= 1 + restarts + writeFails

\* Without faults nothing is left behind in the file: an entry that nobody holds
\* has something left to deliver, to freeze or to report as dead.
NoResidue ==
  \A i \in Ids : Recorded(i) /\ restarts + writeFails = 0 /\ att[i] = Idle =>
    HasWork(entries[i]) \/ entries[i].sup # {} \/ entries[i].dead

-----------------------------------------------------------------------------
(* Action properties.                                                      *)

\* The freeze of a superseded card is dropped only once the card is frozen, or
\* with the dead letter that carries it.
SupersedeNeverLost ==
  [][\A i \in Ids : Recorded(i) =>
       \A c \in entries[i].sup :
         \/ Recorded(i)' /\ c \in entries'[i].sup
         \/ cards[i][c] = "frozen"
         \/ Evictable(i)]_vars

\* A card that was frozen, finished or marked interrupted keeps that state as long
\* as every write succeeds.  The one exception: a session that could not reserve
\* its result finished the card itself, its recovery outlived the process that had
\* not learned of it, and no result was acknowledged (finishProgressReplyWithOutbox).
CardVerdictsStand ==
  [][\A i \in Ids, c \in Cards :
       writeFails' = 0 /\ cards[i][c] \notin {"none", "open"} =>
         \/ cards'[i][c] = cards[i][c]
         \/ /\ cards[i][c] = "final" /\ cards'[i][c] = "interrupted"
            /\ restarts > 0 /\ (i \in TaskIds => acked[i] = 0)]_vars

\* On Feishu the result of an entry with a card appears only after the card's
\* checkpoint was delivered, or failed in the same attempt.
CardBeforeResult ==
  [][\A i \in Ids :
       /\ Rich /\ att[i].pc = "sending" /\ att'[i] # att[i] /\ shown'[i] # shown[i]
       /\ Recorded(i) /\ entries[i].ckpt # 0 /\ "checkpoint" \notin entries[i].done
       => att[i].err]_vars

\* "Card checkpoints and result cards ... are attempted and retried
\* independently, so one blocked path never blocks the other" (README.md:186):
\* one delivery never settles the outcome of two stages.
StagesIndependent ==
  [][\A i \in Ids : att[i].pc = "sending" /\ att'[i].pc = "sending" =>
       Cardinality(att[i].run \ att'[i].run) <= 1]_vars

-----------------------------------------------------------------------------
(* Liveness.                                                               *)

\* Whatever is queued is delivered, discarded or parked as a dead letter; the
\* worker never sleeps over it.
QueuedSettles ==
  \A i \in Ids :
    Recorded(i) /\ i \notin preparing /\ HasWork(entries[i])
      ~> \/ ~Recorded(i)
         \/ entries[i].dead
         \/ ~HasWork(entries[i])
         \/ i \in preparing

\* The freeze of a superseded card ends too: frozen, or given up after its own
\* retries.
SupersedeSettles ==
  \A i \in Ids, c \in Cards :
    Recorded(i) /\ c \in entries[i].sup
      ~> ~Recorded(i) \/ c \notin entries[i].sup \/ c \in entries[i].supDead

\* The file, faults included: its authority is never a card that was retired, it repeats a result only for a reason, and
\* it never holds more entries than its limit (reanchorStreamReservation, markDelivered, enqueueWithState).
FileSound == NoFrozenAuthority /\ DuplicateOnlyAfterFault /\ CapacityRespected

\* A live task is not declared interrupted, and without faults nothing stays in the file for ever
\* (stageReservationResult, removeDelivered).
RecoverySound == InterruptOnlyAfterRestart /\ NoResidue

\* What was decided of a card stands: its verdict is not overwritten, and a freeze that is owed is not forgotten
\* (reanchorStreamReservation, detachStreamReservation, discardReservation).
CardsKept == CardVerdictsStand /\ SupersedeNeverLost

\* Everything queued comes to an end, the freezes of superseded cards too (the worker's loop).
EverythingSettles == QueuedSettles /\ SupersedeSettles
=============================================================================
