-------------------------- MODULE ProgressSession --------------------------
(***************************************************************************)
(* A progress session (messaging/progress.go) shows a running task on a    *)
(* card of the chat platform, keeps a recovery reservation for that card   *)
(* in the terminal outbox, may move to a new card (reanchor) or be         *)
(* detached, and ends by staging and committing its result                 *)
(* (messaging/reply_delivery.go), or, when the outbox cannot record it, by *)
(* finishing the card and sending the result directly (the legacy path).   *)
(***************************************************************************)
EXTENDS OutboxStore

-----------------------------------------------------------------------------
(* Progress sessions: the live task card and its recovery reservation.     *)

\* A uuid no operation has used.
Fresh(i) ==
  /\ ~Recorded(i)
  /\ i \notin due \cup preparing
  /\ att[i] = Idle
  /\ shown[i] = {}
  /\ \A c \in Cards : cards[i][c] = "none"

RecoveryDraft(c) == [NewEntry EXCEPT !.stream = c, !.text = "restart", !.recovery = TRUE]

Refreshed(e, c) ==
  [e EXCEPT !.stream = c, !.recovery = TRUE, !.ckpt = 0, !.done = {}, !.dead = FALSE]

\* persistActiveStreamRecoveryLocked: record card c as the one to settle after
\* a restart, in the session's reservation or in a new one.
SaveActive(i, c) ==
  \/ /\ resv[i] /\ Recorded(i)
     /\ Put(i, Refreshed(entries[i], c))
     /\ UNCHANGED <<preparing, resv, writeFails>>
  \/ /\ resv[i] /\ Recorded(i) /\ WriteFails
     /\ UNCHANGED <<entries, preparing, resv>>
  \/ /\ resv[i] /\ ~Recorded(i)
     /\ UNCHANGED <<entries, preparing, resv, writeFails>>
  \/ /\ ~resv[i]
     /\ Insert(i, RecoveryDraft(c))
     /\ preparing' = preparing \cup {i}
     /\ resv' = [resv EXCEPT ![i] = TRUE]
     /\ UNCHANGED writeFails
  \/ /\ ~resv[i] /\ ~Recorded(i) /\ CannotInsert
     /\ UNCHANGED <<entries, preparing, resv>>

\* A session that opens its native card, and reserves the card's recovery.
StartWithCard(i) ==
  /\ i \in TaskIds /\ sess[i] = "none" /\ Fresh(i) /\ MaxCards > 0
  /\ sess' = [sess EXCEPT ![i] = "running"]
  /\ cards' = [cards EXCEPT ![i][1] = "open"]
  /\ cur' = [cur EXCEPT ![i] = 1]
  /\ SaveActive(i, 1)
  /\ UNCHANGED <<startupHeld, att, due, asleep, wake, shown, acked, restarts, redrives>>

\* A session without a native card: progress off, or no streaming adapter.
StartPlain(i) ==
  /\ i \in TaskIds /\ sess[i] = "none" /\ Fresh(i)
  /\ sess' = [sess EXCEPT ![i] = "running"]
  /\ UNCHANGED <<durable, preparing, startupHeld, att, due, asleep, wake, resv, cur, remote, budget>>

\* streamMu is free and the session has not been claimed by a terminal.
CanWriteCard(i) == sess[i] \in Unclaimed /\ cur[i] # 0 /\ att[i].by # "session"

\* A progress update, or an adapter state change, refreshes the reservation.
RefreshActiveStream(i) ==
  /\ CanWriteCard(i)
  /\ resv[i] \/ ~Recorded(i)
  /\ SaveActive(i, cur[i])
  /\ UNCHANGED <<startupHeld, att, due, asleep, wake, sess, cur, remote, restarts, redrives>>

Unused(i) == {c \in Cards : cards[i][c] = "none"}

\* reanchorStreamLocked: take processing[i], then open the new card.  When it
\* does not open processing[i] is given back.
ReanchorOpen(i) ==
  /\ CanWriteCard(i) /\ resv[i] /\ Recorded(i) /\ att[i].pc = "idle"
  /\ \E new \in Unused(i) :
       \/ /\ att' = [att EXCEPT ![i] =
                       [Idle EXCEPT !.pc = "opened", !.by = "session", !.card = new]]
          /\ cards' = [cards EXCEPT ![i][new] = "open"]
          /\ UNCHANGED wake
       \/ /\ wake' = TRUE
          /\ UNCHANGED <<att, cards>>
  /\ UNCHANGED <<durable, preparing, startupHeld, due, asleep, sess, resv, cur,
                 shown, acked, budget>>

\* Mutant: the old card stays the recorded authority.
ReanchoredToOld(e, new, old) ==
  [Refreshed(e, old) EXCEPT !.attempts = 0, !.sup = e.sup \cup {old},
                            !.supTries = [e.supTries EXCEPT ![old] = 0],
                            !.supDead = e.supDead \ {old}]

Reanchored(e, new, old) ==
  [Refreshed(e, new) EXCEPT !.attempts = 0, !.sup = e.sup \cup {old},
                            !.supTries = [e.supTries EXCEPT ![old] = 0],
                            !.supDead = e.supDead \ {old}]

\* The new card becomes the recorded authority and the old card's freeze is
\* queued, in one write; only then does the session switch to the new card.
ReanchorPersist(i) ==
  LET old == cur[i]
      new == att[i].card
  IN
  /\ att[i].pc = "opened"
  /\ \/ /\ Recorded(i)
        /\ Put(i, Reanchored(entries[i], new, old))
        /\ att' = [att EXCEPT ![i].pc = "persisted", ![i].card = old]
        /\ cur' = [cur EXCEPT ![i] = new]
        /\ UNCHANGED <<writeFails, cards>>
     \/ /\ (Recorded(i) /\ WriteFails) \/ (~Recorded(i) /\ UNCHANGED writeFails)
        /\ \E state \in {"frozen", "open"} : cards' = [cards EXCEPT ![i][new] = state]
        /\ att' = [att EXCEPT ![i] = Idle]
        /\ UNCHANGED <<entries, cur>>
  /\ wake' = TRUE
  /\ UNCHANGED <<preparing, startupHeld, due, asleep, sess, resv, shown, acked, restarts, redrives>>

\* Without a reservation the new card is reserved and the old one is frozen
\* directly, without retry.
ReanchorUnreserved(i) ==
  /\ CanWriteCard(i) /\ ~resv[i] /\ ~Recorded(i) /\ att[i].pc = "idle"
  /\ \E new \in Unused(i), state \in {"frozen", "open"} :
       \/ /\ Insert(i, RecoveryDraft(new))
          /\ preparing' = preparing \cup {i}
          /\ resv' = [resv EXCEPT ![i] = TRUE]
          /\ cur' = [cur EXCEPT ![i] = new]
          /\ cards' = [cards EXCEPT ![i] = [@ EXCEPT ![new] = "open", ![cur[i]] = state]]
          /\ UNCHANGED writeFails
       \/ /\ CannotInsert
          /\ cards' = [cards EXCEPT ![i][new] = state]
          /\ UNCHANGED <<entries, preparing, resv, cur>>
  /\ UNCHANGED <<startupHeld, att, due, asleep, wake, sess, shown, acked, restarts, redrives>>

\* detachStreamReservation leaves only the card's freeze in the entry.
Detached(e, c) ==
  [Blank(e) EXCEPT !.attempts = 0, !.sup = e.sup \cup {c},
                   !.supTries = [e.supTries EXCEPT ![c] = 0], !.supDead = e.supDead \ {c}]

\* detachWithoutTerminal, after the release claimed the session: the window was
\* released while its task runs on.  The reservation gives way to the card's
\* freeze; when that fails the reservation stays as it was.
Detach(i) ==
  LET transition == resv[i] /\ Recorded(i) /\ att[i].pc = "idle" /\ cur[i] # 0
  IN
  /\ i \in TaskIds /\ sess[i] = "running" /\ att[i].by # "session"
  /\ sess' = [sess EXCEPT ![i] = "closed"]
  /\ \/ /\ transition
        /\ Put(i, Detached(entries[i], cur[i]))
        /\ att' = [att EXCEPT ![i] =
                     [Idle EXCEPT !.pc = "persisted", !.by = "session", !.card = cur[i]]]
        /\ preparing' = preparing \ {i}
        /\ resv' = [resv EXCEPT ![i] = FALSE]
        /\ wake' = TRUE
        /\ UNCHANGED <<cards, writeFails>>
     \/ /\ transition /\ WriteFails
        /\ wake' = TRUE
        /\ UNCHANGED <<entries, att, preparing, resv, cards>>
     \/ /\ ~transition
        /\ \/ UNCHANGED cards
           \/ ~resv[i] /\ cur[i] # 0 /\ cards' = [cards EXCEPT ![i][cur[i]] = "frozen"]
        /\ UNCHANGED <<entries, att, preparing, resv, wake, writeFails>>
  /\ UNCHANGED <<startupHeld, due, asleep, cur, shown, acked, restarts, redrives>>

\* discardActiveStreamRecoveryLocked: the session forgets its reservation unless
\* the write failed; the worker is told only of an entry that stays behind.
DiscardActive(i) ==
  \/ /\ resv[i] /\ Discard(i)
     /\ resv' = [resv EXCEPT ![i] = writeFails' # writeFails]
     /\ wake' = (wake \/ (Recorded(i) /\ entries[i].sup # {} /\ writeFails' = writeFails))
  \/ /\ ~resv[i]
     /\ UNCHANGED <<entries, preparing, resv, wake, writeFails>>

\* discardDetachedWithoutTerminal: delivery was revoked, nothing may be shown.
Abandon(i) ==
  /\ i \in TaskIds /\ sess[i] = "running" /\ att[i].by # "session"
  /\ sess' = [sess EXCEPT ![i] = "closed"]
  /\ DiscardActive(i)
  /\ UNCHANGED <<startupHeld, att, due, asleep, cur, remote, restarts, redrives>>

-----------------------------------------------------------------------------
(* The end of a session: finishProgressReplyWithOutbox.                    *)

\* The final text, or the fallback for a task whose reply is blank; a blank
\* reply without a card never reaches the outbox.
FinalTexts(i) == {"result"} \cup (IF cur[i] # 0 THEN {"stub"} ELSE {})

\* Without an active recovery the terminal reserves an entry of its own.
ReserveResult(i) ==
  /\ i \in TaskIds /\ sess[i] = "running" /\ ~resv[i] /\ ~Recorded(i)
  /\ \/ /\ \E t \in FinalTexts(i) : Insert(i, [NewEntry EXCEPT !.text = t])
        /\ preparing' = preparing \cup {i}
        /\ sess' = [sess EXCEPT ![i] = "reserved"]
        /\ UNCHANGED writeFails
     \/ /\ CannotInsert
        /\ sess' = [sess EXCEPT ![i] = "legacy"]
        /\ UNCHANGED <<entries, preparing>>
  /\ UNCHANGED <<startupHeld, att, due, asleep, wake, resv, cur, remote, restarts, redrives>>

\* Where a terminal may stage its result: the active recovery, or its own entry.
Staging(i) == (sess[i] = "running" /\ resv[i]) \/ sess[i] = "reserved"

StageTexts(i) == IF sess[i] = "reserved" THEN {entries[i].text} ELSE FinalTexts(i)

\* Mutant: staging leaves the restart text in place.
StagedKeepsText(e, t) == [e EXCEPT !.recovery = FALSE, !.done = {}, !.dead = FALSE]

Staged(e, t) == [e EXCEPT !.text = t, !.recovery = FALSE, !.done = {}, !.dead = FALSE]

\* stageReservationResult takes only the outbox mutex: a reanchor of the same
\* session may be under way.
Stage(i) ==
  /\ Staging(i) /\ Recorded(i)
  /\ \E t \in StageTexts(i) : Put(i, Staged(entries[i], t))
  /\ sess' = [sess EXCEPT ![i] = "staged"]
  /\ UNCHANGED <<preparing, startupHeld, att, due, asleep, wake, resv, cur, remote, budget>>

\* The result could not be staged: the reservation is released to the worker
\* and the session falls back to the legacy path.
StageFails(i) ==
  /\ Staging(i)
  /\ \/ Recorded(i) /\ WriteFails
     \/ ~Recorded(i) /\ UNCHANGED writeFails
  /\ preparing' = preparing \ {i}
  /\ wake' = TRUE
  /\ sess' = [sess EXCEPT ![i] = "legacy"]
  /\ UNCHANGED <<durable, startupHeld, att, due, asleep, resv, cur, remote, restarts, redrives>>

\* commitReservation with the checkpoint of card k, or without one (k = 0):
\* then a recorded stream stays, for the attempt to prepare it again.
Committed(e, k) ==
  [e EXCEPT !.stream = IF k = 0 THEN e.stream ELSE 0, !.ckpt = k,
            !.text = IF e.text = "stub" /\ k # 0 THEN "none" ELSE e.text,
            !.recovery = FALSE, !.done = {}, !.dead = FALSE]

\* prepareDurableTerminal claims the session and freezes its stream into a
\* checkpoint, or fails to (k = 0); the entry is replaced and handed over to
\* the worker, the staged one when the write fails.
Commit(i) ==
  /\ sess[i] = "staged" /\ att[i].by # "session"
  /\ \/ /\ Recorded(i)
        /\ \E k \in {0, cur[i]} : Put(i, Committed(entries[i], k))
        /\ wake' = TRUE
        /\ UNCHANGED writeFails
     \/ /\ Recorded(i) /\ WriteFails
        /\ wake' = TRUE
        /\ UNCHANGED entries
     \/ /\ ~Recorded(i)
        /\ UNCHANGED <<entries, wake, writeFails>>
  /\ preparing' = preparing \ {i}
  /\ sess' = [sess EXCEPT ![i] = "committed"]
  /\ UNCHANGED <<startupHeld, att, due, asleep, resv, cur, remote, restarts, redrives>>

-----------------------------------------------------------------------------
(* The legacy end of a session: finishStream, then sendReplyProjection.    *)

BestEffort(i) == shown' = shown \/ shown' = [shown EXCEPT ![i] = @ \cup {"result"}]

\* The card takes its final state; a failure may hide that it did, and leaves
\* the reservation alone.
LegacyFinish(i) ==
  /\ sess[i] = "legacy" /\ att[i].by # "session"
  /\ \/ /\ cur[i] # 0
        /\ cards' = [cards EXCEPT ![i][cur[i]] = "final"]
        /\ sess' = [sess EXCEPT ![i] = "finished"]
        /\ UNCHANGED shown
     \/ /\ \/ UNCHANGED cards
           \/ cur[i] # 0 /\ cards' = [cards EXCEPT ![i][cur[i]] = "final"]
        /\ sess' = [sess EXCEPT ![i] = "closed"]
        /\ BestEffort(i)
  /\ UNCHANGED <<durable, preparing, startupHeld, att, due, asleep, wake, resv, cur, acked, budget>>

\* The finished card needs no recovery any more; the text follows.
LegacyDiscard(i) ==
  /\ sess[i] = "finished"
  /\ DiscardActive(i)
  /\ sess' = [sess EXCEPT ![i] = "closed"]
  /\ BestEffort(i)
  /\ UNCHANGED <<startupHeld, att, due, asleep, cur, cards, acked, restarts, redrives>>
=============================================================================
