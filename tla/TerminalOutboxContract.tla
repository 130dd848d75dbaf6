----------------------- MODULE TerminalOutboxContract -----------------------
(***************************************************************************)
(* The outbox implements DeliveryContract, for every set of tasks and      *)
(* every bound: an accepted result stays owed until the platform has shown *)
(* it, its guard withdrew it, or its dead letter was evicted.  The second  *)
(* half proves that the file and what a restart makes of it stay sound.    *)
(***************************************************************************)
EXTENDS TerminalOutboxSafety

--------------------
(* The inductive invariant, entry by entry.                                *)

\* The result of i is recorded and not marked delivered.
Owes(i) == Recorded(i) /\ entries[i].text = "result" /\ "text" \notin entries[i].done

\* A session that still has its recovery has not recorded a result yet.
RecoveryText(i) ==
  resv[i] /\ sess[i] \in {"running", "reserved", "legacy", "finished"} /\ Recorded(i)
    => entries[i].text \in {"restart", "none"}

\* The clone of an attempt carries the text of its entry, unless the entry was
\* discarded behind it by a session that has ended.
CloneFits(i) ==
  att[i].pc \in AttemptPcs =>
    \/ ~Recorded(i) /\ sess[i] = "closed"
    \/ Recorded(i) /\ entries[i].text \in {att[i].copy.text, "none"}

\* A result that is owed is still to be sent by the attempt on it, was sent and
\* waits for its mark, or the attempt has failed.
StillToSend(i) ==
  Owes(i) =>
    /\ att[i].pc \in {"begun", "prepare"} => "text" \notin att[i].copy.done
    /\ att[i].pc = "sending" /\ ~att[i].err => "text" \in att[i].run \cup att[i].sent

\* What waits for its mark has been shown.
SentShown(i) ==
  /\ "text" \in att[i].sent => att[i].copy.text \in shown[i]
  /\ att[i].sent # {} => att[i].pc = "sending"

OwedAt(i) == RecoveryText(i) /\ CloneFits(i) /\ StillToSend(i) /\ SentShown(i)

\* What a step may do to the obligation of i, said on the file.
Honoured(i) ==
  /\ \/ shown'[i] = shown[i]
     \/ /\ shown[i] \subseteq shown'[i]
        /\ Owes(i)' <=> Owes(i)
        /\ Owes(i) => entries'[i] = entries[i]
  /\ Owes(i)' /\ ~Owes(i) => ~entries'[i].dead
  /\ Owes(i) /\ ~Owes(i)' => "result" \in shown[i] \/ i \in GuardedIds \/ entries[i].dead

OwedStep(i) == OwedAt(i)' /\ Honoured(i)

--------------------
(* What the operators do to the text of an entry.                          *)

\* What the updates of an entry make of its text, of the stages that are done
\* and of its death.
LEMMA FieldEffects ==
  ASSUME NEW e \in Entry
  PROVE  /\ Blank(e).text = "none"
         /\ Rerouted(e).text = e.text /\ Rerouted(e).done = e.done /\ Rerouted(e).dead = FALSE
         /\ Redriven(e).text = e.text /\ Redriven(e).done = e.done /\ Redriven(e).dead = FALSE
         /\ Failed(e).text = e.text /\ Failed(e).done = e.done /\ Failed(e).dead \in BOOLEAN
BY DEF Entry, Blank, Rerouted, Redriven, Failed

\* The same for the updates about a card.
LEMMA CardEffects ==
  ASSUME NEW e \in Entry, NEW c
  PROVE  /\ Refreshed(e, c).text = e.text /\ Refreshed(e, c).done = {}
         /\ Refreshed(e, c).dead = FALSE
         /\ Detached(e, c).text = "none"
         /\ [e EXCEPT !.stream = 0, !.ckpt = c].text = e.text
         /\ [e EXCEPT !.stream = 0, !.ckpt = c].done = e.done
         /\ [e EXCEPT !.stream = 0, !.ckpt = c].dead = e.dead
BY DEF Entry, Refreshed, Detached, Blank

\* The same for the updates of pending freezes.
LEMMA FreezeEffects ==
  ASSUME NEW e \in Entry, NEW c \in Cards
  PROVE  /\ SupersedeFailed(e, c).text = e.text /\ SupersedeFailed(e, c).done = e.done
         /\ SupersedeFailed(e, c).dead = e.dead
         /\ \/ Unpended(e, c) = NoEntry /\ (e.text # "result" \/ "text" \in e.done)
            \/ /\ Unpended(e, c).text = e.text /\ Unpended(e, c).done = e.done
               /\ Unpended(e, c).dead = e.dead /\ Unpended(e, c) # NoEntry
         /\ [e EXCEPT !.supDead = @ \ {c}].text = e.text
         /\ [e EXCEPT !.supDead = @ \ {c}].done = e.done
         /\ [e EXCEPT !.supDead = @ \ {c}].dead = e.dead
<1> USE DEF Entry
<1>1. /\ SupersedeFailed(e, c).text = e.text /\ SupersedeFailed(e, c).done = e.done
      /\ SupersedeFailed(e, c).dead = e.dead
  BY DEF SupersedeFailed
<1>2. \/ Unpended(e, c) = NoEntry /\ (e.text # "result" \/ "text" \in e.done)
      \/ /\ Unpended(e, c).text = e.text /\ Unpended(e, c).done = e.done
         /\ Unpended(e, c).dead = e.dead /\ Unpended(e, c) # NoEntry
  <2> DEFINE r == [e EXCEPT !.sup = @ \ {c}, !.supTries[c] = 0, !.supDead = @ \ {c}]
  <2>1. r.text = e.text /\ r.done = e.done /\ r.dead = e.dead OBVIOUS
  <2>4. r # NoEntry
    <3>1. e.sup \ {c} \in SUBSET Cards /\ e.supDead \ {c} \in SUBSET Cards
          /\ [e.supTries EXCEPT ![c] = 0] \in [Cards -> 0 .. MaxAttempts]
      BY FieldFacts
    <3>2. r = [e EXCEPT !.sup = e.sup \ {c}, !.supTries = [e.supTries EXCEPT ![c] = 0],
                        !.supDead = e.supDead \ {c}]
      OBVIOUS
    <3>3. [e EXCEPT !.sup = e.sup \ {c}, !.supTries = [e.supTries EXCEPT ![c] = 0],
                    !.supDead = e.supDead \ {c}] \in Entry
      BY <3>1, FreezeFields
    <3> QED BY <3>2, <3>3, NoEntryAssumption
  <2>2. Unpended(e, c) = IF r.sup = {} /\ ~HasWork(r) /\ ~r.dead THEN NoEntry ELSE r
    BY DEF Unpended
  <2>3. ~HasWork(r) => r.text = "none" \/ "text" \in r.done
    <3> HIDE DEF r
    <3> QED BY DEF HasWork, Undelivered, Stages
  <2> HIDE DEF r
  <2> QED BY <2>1, <2>2, <2>3, <2>4
<1>3. /\ [e EXCEPT !.supDead = @ \ {c}].text = e.text
      /\ [e EXCEPT !.supDead = @ \ {c}].done = e.done
      /\ [e EXCEPT !.supDead = @ \ {c}].dead = e.dead
  OBVIOUS
<1> QED BY <1>1, <1>2, <1>3

\* An entry keeps its text and the stages that are done.
TextKept(i) ==
  \/ entries'[i] = entries[i]
  \/ /\ Recorded(i) /\ Recorded(i)'
     /\ entries'[i].text = entries[i].text /\ entries'[i].done = entries[i].done

\* Without an attempt only the recovery's text matters.
LEMMA OwedWithoutAttempt ==
  ASSUME NEW i \in Ids, RecoveryText(i)', att'[i].pc \notin AttemptPcs, att'[i].sent = {}
  PROVE  OwedAt(i)'
BY DEF OwedAt, RecoveryText, CloneFits, StillToSend, SentShown, AttemptPcs, Owes

\* Nothing changes for an attempt whose entry keeps its text.
LEMMA OwedTextKept ==
  ASSUME NEW i \in Ids, OwedAt(i), TextKept(i), RecoveryText(i)',
         UNCHANGED <<att, shown>>, sess'[i] = sess[i] \/ sess'[i] = "closed"
  PROVE  OwedAt(i)'
BY DEF OwedAt, CloneFits, StillToSend, SentShown, TextKept, Recorded, Owes

\* The recovery's text is kept by a step that keeps or clears it.
LEMMA RecoveryKept ==
  ASSUME NEW i \in Ids, RecoveryText(i), sess'[i] = sess[i], resv'[i] = resv[i],
         \/ entries'[i] \in {entries[i], NoEntry}
         \/ Recorded(i) /\ entries'[i].text \in {entries[i].text, "none"}
  PROVE  RecoveryText(i)'
BY DEF RecoveryText, Recorded

\* A step that keeps text, marks and what is shown honours the obligation.
LEMMA HonouredKept ==
  ASSUME NEW i \in Ids, TextKept(i), shown'[i] = shown[i]
  PROVE  Honoured(i)
BY DEF Honoured, TextKept, Owes, Recorded

\* So does a step that finds nothing owed and records nothing dead.
LEMMA HonouredFresh ==
  ASSUME NEW i \in Ids, ~Owes(i), ~Owes(i)' \/ ~entries'[i].dead,
         \/ shown'[i] = shown[i]
         \/ shown[i] \subseteq shown'[i] /\ ~Owes(i)'
  PROVE  Honoured(i)
BY DEF Honoured

\* So does one that starts the delivery of the same text again.
LEMMA HonouredAnew ==
  ASSUME NEW i \in Ids, Recorded(i)', entries'[i].text = entries[i].text,
         entries'[i].done = {}, entries'[i].dead = FALSE, shown'[i] = shown[i]
  PROVE  Honoured(i)
BY DEF Honoured, Owes

--------------------
(* Each step, for the entry it is about.                                   *)

\* A new session owes nothing.
LEMMA OwedStartWithCard ==
  ASSUME TypeInv, NEW i \in Ids, SafeAt(i), OwedAt(i), StartWithCard(i)
  PROVE  OwedStep(i)
<1>0. Recorded(i) => entries[i] \in Entry BY FileSteps DEF TypeInv
<1>1. UNCHANGED <<att, shown>> /\ att[i] = Idle /\ ~Recorded(i) /\ SaveActive(i, 1)
  BY DEF StartWithCard, Fresh
<1>2. entries'[i] \in {NoEntry, RecoveryDraft(1)}
  BY <1>1, FileEffects DEF SaveActive, Recorded
<1>3. RecoveryDraft(1).text = "restart" BY DEF RecoveryDraft, NewEntry
<1>4. RecoveryText(i)' BY <1>2, <1>3 DEF RecoveryText, Recorded
<1>5. OwedAt(i)' BY <1>1, <1>4, QuietHolders, OwedWithoutAttempt
<1>6. Honoured(i) BY <1>1, <1>2, <1>3, HonouredFresh DEF Owes, Recorded
<1> QED BY <1>5, <1>6 DEF OwedStep

\* A refresh keeps the text, and meets no attempt that sends a result.
LEMMA OwedRefreshActiveStream ==
  ASSUME TypeInv, NEW i \in Ids, SafeAt(i), OwedAt(i), RefreshActiveStream(i)
  PROVE  OwedStep(i)
<1>0. Recorded(i) => entries[i] \in Entry BY FileSteps DEF TypeInv
<1>1. UNCHANGED <<att, shown, sess>> /\ SaveActive(i, cur[i]) /\ sess[i] \in Unclaimed
  BY DEF RefreshActiveStream, CanWriteCard, remote
<1>2. cur[i] \in 0 .. MaxCards BY DEF TypeInv, TypeOK
<1>3. ASSUME UNCHANGED <<entries, resv>>
      PROVE  OwedAt(i)'
  BY <1>1, <1>3, OwedTextKept DEF TextKept, OwedAt, RecoveryText, Recorded
<1>4. ASSUME resv[i] /\ Recorded(i) /\ Put(i, Refreshed(entries[i], cur[i])) /\ UNCHANGED resv
      PROVE  OwedAt(i)'
  <2>1. entries'[i] = Refreshed(entries[i], cur[i]) BY <1>4, FileEffects
  <2>2. entries'[i].text = entries[i].text
    <3>1. Refreshed(entries[i], cur[i]).text = entries[i].text
      BY <1>0, <1>2, <1>4, CardEffects
    <3> QED BY <2>1, <3>1
  <2>3. Recorded(i)'
    BY <1>0, <1>2, <1>4, <2>1, EntryUpdates, NoEntryAssumption DEF Recorded
  <2>4. RecoveryText(i)' BY <1>1, <1>4, <2>2, RecoveryKept DEF OwedAt
  <2>5. CASE sess[i] \in Active
    BY <2>5, <1>1, <2>4, OwedWithoutAttempt DEF SafeAt, SessionOfTask, Active, Undisturbed, OwedAt, SentShown, AttemptPcs
  <2>6. CASE sess[i] = "legacy"
    BY <1>4, <2>2, <2>6, <1>1, <2>3, <2>4 DEF OwedAt, RecoveryText, CloneFits, StillToSend, SentShown, Owes
  <2> QED BY <1>1, <2>5, <2>6 DEF Unclaimed, Active
<1>5. ASSUME ~resv[i] /\ Insert(i, RecoveryDraft(cur[i]))
      PROVE  OwedAt(i)'
  <2>1. ~Recorded(i) /\ entries'[i] = RecoveryDraft(cur[i]) BY <1>5, FileEffects
  <2>2. RecoveryDraft(cur[i]).text = "restart" BY DEF RecoveryDraft, NewEntry
  <2>3. RecoveryText(i)' BY <2>1, <2>2 DEF RecoveryText
  <2>4. att'[i].pc \notin AttemptPcs /\ att'[i].sent = {}
    BY <1>1, <2>1 DEF OwedAt, CloneFits, SentShown, AttemptPcs, Unclaimed
  <2> QED BY <2>3, <2>4, OwedWithoutAttempt
<1>6. OwedAt(i)' BY <1>1, <1>3, <1>4, <1>5 DEF SaveActive
<1>7. Honoured(i)
  <2>1. CASE UNCHANGED entries BY <1>1, <2>1, HonouredKept DEF TextKept
  <2>2. CASE Recorded(i) /\ Put(i, Refreshed(entries[i], cur[i]))
    <3>1. entries'[i] = Refreshed(entries[i], cur[i]) BY <2>2, FileEffects
    <3>2. Recorded(i)'
      BY <1>0, <1>2, <2>2, <3>1, EntryUpdates, NoEntryAssumption DEF Recorded
    <3>3. /\ Refreshed(entries[i], cur[i]).text = entries[i].text
          /\ Refreshed(entries[i], cur[i]).done = {}
          /\ Refreshed(entries[i], cur[i]).dead = FALSE
      BY <1>0, <2>2, CardEffects
    <3> QED BY <1>1, <3>1, <3>2, <3>3, HonouredAnew
  <2>3. CASE Insert(i, RecoveryDraft(cur[i]))
    <3>1. ~Recorded(i) /\ entries'[i] = RecoveryDraft(cur[i]) BY <2>3, FileEffects
    <3>2. RecoveryDraft(cur[i]).text = "restart" BY DEF RecoveryDraft, NewEntry
    <3> QED BY <1>1, <3>1, <3>2, HonouredFresh DEF Owes
  <2> QED BY <1>1, <2>1, <2>2, <2>3 DEF SaveActive
<1> QED BY <1>6, <1>7 DEF OwedStep

\* A new card opens.
LEMMA OwedReanchorOpen ==
  ASSUME TypeInv, NEW i \in Ids, SafeAt(i), OwedAt(i), ReanchorOpen(i)
  PROVE  OwedStep(i)
<1>0. Recorded(i) => entries[i] \in Entry BY FileSteps DEF TypeInv
<1>1. UNCHANGED <<entries, sess, resv, shown>> BY DEF ReanchorOpen, durable
<1>2. RecoveryText(i)' BY <1>1 DEF OwedAt, RecoveryText, Recorded
<1>3. ASSUME UNCHANGED att
      PROVE  OwedAt(i)'
  BY <1>1, <1>2, <1>3, OwedTextKept DEF TextKept
<1>4. ASSUME \E new \in Unused(i) : att' = [att EXCEPT ![i] =
                         [Idle EXCEPT !.pc = "opened", !.by = "session", !.card = new]]
      PROVE  OwedAt(i)'
  BY <1>4, QuietHolders, <1>2, OwedWithoutAttempt DEF FreezePcs, TypeInv, TypeOK
<1>5. OwedAt(i)' BY <1>3, <1>4 DEF ReanchorOpen
<1>6. Honoured(i) BY <1>1, HonouredKept DEF TextKept
<1> QED BY <1>5, <1>6 DEF OwedStep

\* The new card is recorded.
LEMMA OwedReanchorPersist ==
  ASSUME TypeInv, NEW i \in Ids, SafeAt(i), OwedAt(i), ReanchorPersist(i)
  PROVE  OwedStep(i)
<1>0. Recorded(i) => entries[i] \in Entry BY FileSteps DEF TypeInv
<1>1. UNCHANGED <<sess, resv>> BY DEF ReanchorPersist
<1>2. att'[i].pc \notin AttemptPcs /\ att'[i].sent = {}
  BY QuietHolders DEF TypeInv, TypeOK, OwedAt, SentShown, ReanchorPersist, Holder, AttemptPcs
<1>3. \/ entries'[i] \in {entries[i], NoEntry}
      \/ Recorded(i) /\ entries'[i].text = entries[i].text
  <2>1. CASE UNCHANGED entries BY <2>1
  <2>2. CASE Recorded(i) /\ Put(i, Reanchored(entries[i], att[i].card, cur[i]))
    <3>1. entries[i] \in Entry BY <1>0, <2>2
    <3>2. entries'[i] = Reanchored(entries[i], att[i].card, cur[i]) BY <2>2, FileEffects
    <3>3. Reanchored(entries[i], att[i].card, cur[i]).text = entries[i].text
      BY <3>1 DEF Reanchored, Refreshed, Entry
    <3> QED BY <2>2, <3>2, <3>3
  <2> QED BY <2>1, <2>2 DEF ReanchorPersist
<1>4. RecoveryText(i)' BY <1>1, <1>3, RecoveryKept DEF OwedAt
<1>5. OwedAt(i)' BY <1>2, <1>4, OwedWithoutAttempt
<1>6. Honoured(i)
  <2>1. shown' = shown BY DEF ReanchorPersist
  <2>2. CASE UNCHANGED entries BY <2>1, <2>2, HonouredKept DEF TextKept
  <2>3. CASE Recorded(i) /\ Put(i, Reanchored(entries[i], att[i].card, cur[i]))
    <3>1. entries[i] \in Entry BY <1>0, <2>3
    <3>2. entries'[i] = Reanchored(entries[i], att[i].card, cur[i]) BY <2>3, FileEffects
    <3>3. Recorded(i)'
      <4>1. entries' \in [Ids -> Entry \cup {NoEntry}] /\ att[i].card \in Cards /\ cur[i] \in Cards
        BY TypeReanchorPersist DEF TypeInv, TypeOK, HolderCards, ReanchorPersist, FreezePcs
      <4>2. Reanchored(entries[i], att[i].card, cur[i]) \in Entry
        BY <3>1, <4>1, FreezeUpdates
      <4> QED BY <3>2, <4>2, NoEntryAssumption DEF Recorded
    <3>4. /\ Reanchored(entries[i], att[i].card, cur[i]).text = entries[i].text
          /\ Reanchored(entries[i], att[i].card, cur[i]).done = {}
          /\ Reanchored(entries[i], att[i].card, cur[i]).dead = FALSE
      BY <3>1 DEF Reanchored, Refreshed, Entry
    <3> QED BY <2>1, <3>2, <3>3, <3>4, HonouredAnew
  <2> QED BY <2>2, <2>3 DEF ReanchorPersist
<1> QED BY <1>5, <1>6 DEF OwedStep

\* Neither does a session whose reservation failed.
LEMMA OwedReanchorUnreserved ==
  ASSUME TypeInv, NEW i \in Ids, SafeAt(i), OwedAt(i), ReanchorUnreserved(i)
  PROVE  OwedStep(i)
<1>0. Recorded(i) => entries[i] \in Entry BY FileSteps DEF TypeInv
<1>1. UNCHANGED <<att, shown, sess>> /\ att[i].pc = "idle" /\ ~Recorded(i)
  BY DEF ReanchorUnreserved
<1>2. att'[i].pc \notin AttemptPcs /\ att'[i].sent = {}
  BY <1>1 DEF OwedAt, SentShown, AttemptPcs
<1>3. entries'[i] = NoEntry \/ \E new \in Cards : entries'[i] = RecoveryDraft(new)
  BY <1>1, FileEffects DEF ReanchorUnreserved, Unused, Recorded
<1>4. \A new \in Cards : RecoveryDraft(new).text = "restart"
  BY DEF RecoveryDraft, NewEntry
<1>5. RecoveryText(i)' BY <1>3, <1>4 DEF RecoveryText, Recorded
<1>6. OwedAt(i)' BY <1>2, <1>5, OwedWithoutAttempt
<1>7. Honoured(i) BY <1>1, <1>3, <1>4, HonouredFresh DEF Owes, Recorded
<1> QED BY <1>6, <1>7 DEF OwedStep

\* A released window has no result.
LEMMA OwedDetach ==
  ASSUME TypeInv, NEW i \in Ids, SafeAt(i), OwedAt(i), Detach(i)
  PROVE  OwedStep(i)
<1>0. Recorded(i) => entries[i] \in Entry BY FileSteps DEF TypeInv
<1>1. sess'[i] = "closed" BY DEF Detach, TypeInv, TypeOK
<1>2. RecoveryText(i)' BY <1>1 DEF RecoveryText
<1>3. UNCHANGED shown /\ sess[i] = "running" /\ i \in TaskIds BY DEF Detach
<1>4. att[i].pc \notin AttemptPcs /\ att[i].sent = {}
  BY <1>3 DEF SafeAt, Undisturbed, Active, OwedAt, SentShown, AttemptPcs
<1>5. att'[i].pc \notin AttemptPcs /\ att'[i].sent = {}
  <2>1. CASE UNCHANGED att BY <1>4, <2>1
  <2>2. CASE att' = [att EXCEPT ![i] =
                       [Idle EXCEPT !.pc = "persisted", !.by = "session", !.card = cur[i]]]
    BY <2>2, QuietHolders DEF FreezePcs, TypeInv, TypeOK
  <2> QED BY <2>1, <2>2 DEF Detach
<1>6. OwedAt(i)' BY <1>2, <1>5, OwedWithoutAttempt
<1>7. Honoured(i)
  <2>1. CASE UNCHANGED entries BY <1>3, <2>1, HonouredKept DEF TextKept
  <2>2. CASE resv[i] /\ Recorded(i) /\ Put(i, Detached(entries[i], cur[i]))
    <3>1. ~Owes(i) BY <1>3, <2>2 DEF OwedAt, RecoveryText, Owes
    <3>2. entries'[i] = Detached(entries[i], cur[i]) BY <2>2, FileEffects
    <3>3. Detached(entries[i], cur[i]).text = "none"
      BY <1>0, <2>2 DEF Detached, Blank, Entry
    <3> QED BY <1>3, <3>1, <3>2, <3>3, HonouredFresh DEF Owes
  <2> QED BY <2>1, <2>2 DEF Detach
<1> QED BY <1>6, <1>7 DEF OwedStep

\* A revoked session has no result.
LEMMA OwedAbandon ==
  ASSUME TypeInv, NEW i \in Ids, SafeAt(i), OwedAt(i), Abandon(i)
  PROVE  OwedStep(i)
<1>0. Recorded(i) => entries[i] \in Entry BY FileSteps DEF TypeInv
<1>1. sess[i] = "running" /\ i \in TaskIds /\ UNCHANGED <<att, shown>> /\ sess'[i] = "closed"
  BY DEF Abandon, remote, TypeInv, TypeOK
<1>2. att'[i].pc \notin AttemptPcs /\ att'[i].sent = {}
  BY <1>1 DEF SafeAt, Undisturbed, Active, OwedAt, SentShown, AttemptPcs
<1>3. RecoveryText(i)' BY <1>1 DEF RecoveryText
<1>4. OwedAt(i)' BY <1>2, <1>3, OwedWithoutAttempt
<1>5. Honoured(i)
  <2>1. DiscardActive(i) /\ shown[i] \subseteq shown'[i] BY <1>1 DEF Abandon
  <2>2. CASE UNCHANGED entries BY <1>1, <2>1, <2>2 DEF Honoured, Owes, Recorded
  <2>3. CASE resv[i] /\ entries'[i] = NoEntry
    BY <1>1, <2>1, <2>3 DEF Honoured, Owes, OwedAt, RecoveryText, Recorded
  <2>4. CASE resv[i] /\ Recorded(i) /\ entries'[i] = Blank(entries[i])
    BY <1>0, <2>4, FieldEffects, <1>1, <2>1 DEF Honoured, Owes, OwedAt, RecoveryText
  <2> QED BY <2>1, <2>2, <2>3, <2>4, FileEffects DEF DiscardActive, Discard
<1> QED BY <1>4, <1>5 DEF OwedStep

\* The recovery a finished card no longer needs is no result.
LEMMA OwedLegacyDiscard ==
  ASSUME TypeInv, NEW i \in Ids, SafeAt(i), OwedAt(i), LegacyDiscard(i)
  PROVE  OwedStep(i)
<1>0. Recorded(i) => entries[i] \in Entry BY FileSteps DEF TypeInv
<1>1. /\ sess[i] = "finished" /\ sess'[i] = "closed" /\ UNCHANGED att /\ DiscardActive(i)
      /\ shown[i] \subseteq shown'[i]
  BY DEF LegacyDiscard, BestEffort, TypeInv, TypeOK
<1>2. RecoveryText(i)' BY <1>1 DEF RecoveryText
<1>3. ASSUME UNCHANGED entries
      PROVE  OwedAt(i)'
  BY <1>1, <1>2, <1>3 DEF OwedAt, CloneFits, StillToSend, SentShown, Owes, Recorded
<1>4. ASSUME entries'[i] = NoEntry
      PROVE  OwedAt(i)'
  BY <1>1, <1>2, <1>4 DEF OwedAt, CloneFits, StillToSend, SentShown, Owes, Recorded
<1>5. ASSUME Recorded(i) /\ entries'[i] = Blank(entries[i])
      PROVE  OwedAt(i)'
  BY <1>0, <1>5, FieldEffects, EntryUpdates, NoEntryAssumption, <1>1, <1>2 DEF Recorded, OwedAt, CloneFits, StillToSend,
     SentShown, Owes
<1>6. OwedAt(i)' BY <1>1, <1>3, <1>4, <1>5, FileEffects DEF DiscardActive, Discard
<1>7. Honoured(i)
  <2>1. DiscardActive(i) /\ shown[i] \subseteq shown'[i] BY <1>1
  <2>2. CASE UNCHANGED entries BY <1>1, <2>1, <2>2 DEF Honoured, Owes, Recorded
  <2>3. CASE resv[i] /\ entries'[i] = NoEntry
    BY <1>1, <2>1, <2>3 DEF Honoured, Owes, OwedAt, RecoveryText, Recorded
  <2>4. CASE resv[i] /\ Recorded(i) /\ entries'[i] = Blank(entries[i])
    BY <1>0, <2>4, FieldEffects, <1>1, <2>1 DEF Honoured, Owes, OwedAt, RecoveryText
  <2> QED BY <2>1, <2>2, <2>3, <2>4, FileEffects DEF DiscardActive, Discard
<1> QED BY <1>6, <1>7 DEF OwedStep

\* A delivery that is queued already.
LEMMA OwedEnqueueAgain ==
  ASSUME TypeInv, NEW i \in Ids, SafeAt(i), OwedAt(i), EnqueueAgain(i)
  PROVE  OwedStep(i)
<1>0. Recorded(i) => entries[i] \in Entry BY FileSteps DEF TypeInv
<1>1. TextKept(i)
  <2>1. CASE UNCHANGED entries BY <2>1 DEF TextKept
  <2>2. CASE Put(i, Rerouted(entries[i])) /\ Recorded(i)
    <3>1. Rerouted(entries[i]) \in Entry /\ entries'[i] = Rerouted(entries[i])
      BY <1>0, <2>2, EntryUpdates, FileEffects
    <3>2. entries'[i].text = entries[i].text /\ entries'[i].done = entries[i].done
      BY <1>0, <2>2, <3>1, FieldEffects
    <3> QED BY <2>2, <3>1, <3>2, NoEntryAssumption DEF TextKept, Recorded
  <2> QED BY <2>1, <2>2 DEF EnqueueAgain
<1>3. UNCHANGED <<att, shown, sess, resv>> BY DEF EnqueueAgain, remote
<1>4. RecoveryText(i)' BY <1>1, <1>3, RecoveryKept DEF TextKept, OwedAt
<1>5. OwedAt(i)' BY <1>1, <1>3, <1>4, OwedTextKept
<1>6. Honoured(i) BY <1>1, <1>3, HonouredKept
<1> QED BY <1>5, <1>6 DEF OwedStep

\* The worker starts an attempt on a clone.
LEMMA OwedWorkerAttempt ==
  ASSUME TypeInv, NEW i \in Ids, SafeAt(i), OwedAt(i), WorkerAttempt(i)
  PROVE  OwedStep(i)
<1>0. Recorded(i) => entries[i] \in Entry BY FileSteps DEF TypeInv
<1>1. UNCHANGED <<entries, shown, resv>> /\ sess'[i] \in {sess[i], "closed"}
  BY DEF WorkerAttempt, durable, remote, TypeInv, TypeOK
<1>2. RecoveryText(i)' BY <1>1 DEF OwedAt, RecoveryText, Recorded
<1>3. ASSUME UNCHANGED att
      PROVE  OwedAt(i)'
  BY <1>1, <1>2, <1>3, OwedTextKept DEF TextKept
<1>4. ASSUME CanBegin(i) /\ Begin(i, "worker")
      PROVE  OwedAt(i)'
  <2> DEFINE h == [Idle EXCEPT !.pc = "begun", !.by = "worker", !.copy = entries[i]]
  <2>1. att'[i] = h BY <1>4 DEF Begin, TypeInv, TypeOK
  <2>2. h.pc = "begun" /\ h.copy = entries[i] /\ h.sent = {} BY DEF Idle
  <2> HIDE DEF h
  <2> QED
    BY <1>1, <1>2, <1>4, <2>1, <2>2
    DEF OwedAt, CloneFits, StillToSend, SentShown, Owes, Recorded, CanBegin
<1>5. OwedAt(i)' BY <1>3, <1>4 DEF WorkerAttempt
<1>6. Honoured(i) BY <1>1, HonouredKept DEF TextKept
<1> QED BY <1>5, <1>6 DEF OwedStep

\* So does the producer.
LEMMA OwedDirectAttempt ==
  ASSUME TypeInv, NEW i \in Ids, SafeAt(i), OwedAt(i), DirectAttempt(i)
  PROVE  OwedStep(i)
<1>0. Recorded(i) => entries[i] \in Entry BY FileSteps DEF TypeInv
<1>1. UNCHANGED <<entries, shown, resv>> /\ sess'[i] \in {sess[i], "closed"}
  BY DEF DirectAttempt, durable, remote, TypeInv, TypeOK
<1>2. RecoveryText(i)' BY <1>1 DEF OwedAt, RecoveryText, Recorded
<1>3. ASSUME UNCHANGED att
      PROVE  OwedAt(i)'
  BY <1>1, <1>2, <1>3, OwedTextKept DEF TextKept
<1>4. ASSUME CanBegin(i) /\ Begin(i, "direct")
      PROVE  OwedAt(i)'
  <2> DEFINE h == [Idle EXCEPT !.pc = "begun", !.by = "direct", !.copy = entries[i]]
  <2>1. att'[i] = h BY <1>4 DEF Begin, TypeInv, TypeOK
  <2>2. h.pc = "begun" /\ h.copy = entries[i] /\ h.sent = {} BY DEF Idle
  <2> HIDE DEF h
  <2> QED
    BY <1>1, <1>2, <1>4, <2>1, <2>2
    DEF OwedAt, CloneFits, StillToSend, SentShown, Owes, Recorded, CanBegin
<1>5. OwedAt(i)' BY <1>3, <1>4 DEF DirectAttempt
<1>6. Honoured(i) BY <1>1, HonouredKept DEF TextKept
<1> QED BY <1>5, <1>6 DEF OwedStep

\* The guard withdraws the result.
LEMMA OwedDeny ==
  ASSUME TypeInv, NEW i \in Ids, SafeAt(i), OwedAt(i), Deny(i)
  PROVE  OwedStep(i)
<1>0. Recorded(i) => entries[i] \in Entry BY FileSteps DEF TypeInv
<1>1. EndAttempt(i) /\ Discard(i) /\ UNCHANGED <<sess, resv>> BY DEF Deny
<1>2. att'[i].pc \notin AttemptPcs /\ att'[i].sent = {}
  BY <1>1, QuietHolders DEF EndAttempt, TypeInv, TypeOK
<1>3. \/ entries'[i] \in {entries[i], NoEntry}
      \/ Recorded(i) /\ entries'[i].text = "none"
  <2>1. entries'[i] \in {entries[i], NoEntry} \/ (Recorded(i) /\ entries'[i] = Blank(entries[i]))
    BY <1>1, FileEffects DEF Discard
  <2> QED BY <1>0, <2>1, FieldEffects
<1>4. RecoveryText(i)' BY <1>1, <1>3, RecoveryKept DEF OwedAt
<1>5. OwedAt(i)' BY <1>2, <1>4, OwedWithoutAttempt
<1>6. Honoured(i) BY <1>3 DEF Deny, remote, Owes, Recorded, Honoured
<1> QED BY <1>5, <1>6 DEF OwedStep

\* The preparation of a checkpoint keeps the text.
LEMMA OwedPrepare ==
  ASSUME TypeInv, NEW i \in Ids, SafeAt(i), OwedAt(i), Prepare(i)
  PROVE  OwedStep(i)
<1>0. Recorded(i) => entries[i] \in Entry BY FileSteps DEF TypeInv
<1>1. UNCHANGED <<sess, resv, shown>> /\ att[i].pc = "prepare" BY DEF Prepare, remote
<1>2. att[i] \in Holder /\ att[i].copy \in Entry /\ att[i].copy.stream \in 0 .. MaxCards
  BY <1>1 DEF TypeInv, TypeOK, HolderCards, AttemptPcs, Entry
<1>3. att[i].sent = {} BY <1>1 DEF OwedAt, SentShown
<1> DEFINE e == [entries[i] EXCEPT !.stream = 0, !.ckpt = att[i].copy.stream]
           x == [att[i] EXCEPT !.pc = "sending", !.copy = e, !.run = Undelivered(e)]
           y == [att[i] EXCEPT !.pc = "sending", !.err = TRUE, !.run = Undelivered(att[i].copy)]
<1>4. Recorded(i) => e \in Entry /\ e.text = entries[i].text /\ e.done = entries[i].done
  BY <1>0, <1>2, EntryUpdates, CardEffects
<1>5. /\ x.pc = "sending" /\ x.copy = e /\ x.run = Undelivered(e) /\ x.sent = {}
      /\ y.pc = "sending" /\ y.err = TRUE /\ y.copy = att[i].copy /\ y.sent = {}
  BY <1>2, <1>3 DEF Holder
<1>6. \/ Recorded(i) /\ Put(i, e) /\ att' = [att EXCEPT ![i] = x]
      \/ UNCHANGED entries /\ att' = [att EXCEPT ![i] = y]
  BY DEF Prepare
<1> HIDE DEF e, x, y
<1>7. ASSUME Recorded(i) /\ Put(i, e) /\ att' = [att EXCEPT ![i] = x]
      PROVE  OwedAt(i)'
  BY <1>4, <1>7, FileEffects, NoEntryAssumption, <1>1, RecoveryKept, <1>5 DEF Recorded, TypeInv, TypeOK, OwedAt, Undelivered,
     Stages, CloneFits, StillToSend, SentShown, Owes
<1>8. ASSUME UNCHANGED entries /\ att' = [att EXCEPT ![i] = y]
      PROVE  OwedAt(i)'
  BY <1>8, <1>1, <1>5 DEF TypeInv, TypeOK, OwedAt, RecoveryText, CloneFits, StillToSend, SentShown, Owes, Recorded, AttemptPcs
<1>9. OwedAt(i)' BY <1>6, <1>7, <1>8
<1>10. Honoured(i)
  BY <1>1, HonouredKept, <1>4, FileEffects, NoEntryAssumption, <1>6 DEF TextKept, Recorded
<1> QED BY <1>9, <1>10 DEF OwedStep

\* An attempt without an error has delivered what it owed.
LEMMA OwedFinish ==
  ASSUME TypeInv, NEW i \in Ids, SafeAt(i), OwedAt(i), Finish(i)
  PROVE  OwedStep(i)
<1>0. Recorded(i) => entries[i] \in Entry BY FileSteps DEF TypeInv
<1>1. EndAttempt(i) /\ UNCHANGED <<sess, resv>> BY DEF Finish
<1>2. att'[i].pc \notin AttemptPcs /\ att'[i].sent = {}
  BY <1>1, QuietHolders DEF EndAttempt, TypeInv, TypeOK
<1>3. \/ entries'[i] \in {entries[i], NoEntry}
      \/ Recorded(i) /\ entries'[i].text = entries[i].text
  <2>1. CASE UNCHANGED entries BY <2>1
  <2>2. CASE Recorded(i) /\ Put(i, Failed(entries[i]))
    <3>1. entries'[i] = Failed(entries[i]) BY <2>2, FileEffects
    <3> QED BY <1>0, <2>2, <3>1, FieldEffects
  <2>3. CASE Recorded(i) /\ Put(i, Delivered(entries[i]))
    BY <2>3, FileEffects, <1>0 DEF Delivered, Entry
  <2> QED BY <2>1, <2>2, <2>3 DEF Finish
<1>4. RecoveryText(i)' BY <1>1, <1>3, RecoveryKept DEF OwedAt
<1>5. OwedAt(i)' BY <1>2, <1>4, OwedWithoutAttempt
<1>6. Honoured(i)
  <2>1. shown' = shown BY DEF Finish, remote
  <2>2. CASE UNCHANGED entries BY <2>1, <2>2, HonouredKept DEF TextKept
  <2>3. CASE Recorded(i) /\ Put(i, Failed(entries[i]))
    <3>1. entries'[i] = Failed(entries[i]) BY <2>3, FileEffects
    <3>2. entries'[i].text = entries[i].text /\ entries'[i].done = entries[i].done
      BY <1>0, <2>3, <3>1, FieldEffects
    <3>3. Recorded(i)' BY <1>0, <2>3, <3>1, EntryUpdates, NoEntryAssumption DEF Recorded
    <3> QED BY <2>1, <2>3, <3>2, <3>3, HonouredKept DEF TextKept
  <2>4. CASE Recorded(i) /\ ~att[i].err /\ Put(i, Delivered(entries[i]))
    BY <2>4, FileEffects, <1>0, <2>1, HonouredFresh DEF Finish, OwedAt, StillToSend, Delivered, Entry, Owes, Recorded
  <2> QED BY <2>2, <2>3, <2>4 DEF Finish
<1> QED BY <1>5, <1>6 DEF OwedStep

\* A freeze is to be retried.
LEMMA OwedFreezeFails ==
  ASSUME TypeInv, NEW i \in Ids, SafeAt(i), OwedAt(i), FreezeFails(i)
  PROVE  OwedStep(i)
<1>0. Recorded(i) => entries[i] \in Entry BY FileSteps DEF TypeInv
<1>1. EndAttempt(i) /\ UNCHANGED <<sess, resv>> BY DEF FreezeFails
<1>2. att'[i].pc \notin AttemptPcs /\ att'[i].sent = {}
  BY <1>1, QuietHolders DEF EndAttempt, TypeInv, TypeOK
<1>3. \/ entries'[i] \in {entries[i], NoEntry}
      \/ Recorded(i) /\ entries'[i].text = entries[i].text
  BY FileEffects, <1>0, FreezeEffects DEF FreezeFails, TypeInv, HolderCards, FreezePcs
<1>4. RecoveryText(i)' BY <1>1, <1>3, RecoveryKept DEF OwedAt
<1>5. OwedAt(i)' BY <1>2, <1>4, OwedWithoutAttempt
<1>6. Honoured(i)
  <2>1. shown' = shown BY DEF FreezeFails
  <2>2. CASE UNCHANGED entries BY <2>1, <2>2, HonouredKept DEF TextKept
  <2>3. CASE Recorded(i) /\ Put(i, SupersedeFailed(entries[i], att[i].card))
    <3>1. att[i].card \in Cards BY DEF FreezeFails, TypeInv, HolderCards, FreezePcs
    <3>2. entries'[i] = SupersedeFailed(entries[i], att[i].card) BY <2>3, FileEffects
    <3>3. entries'[i].text = entries[i].text /\ entries'[i].done = entries[i].done
      BY <1>0, <2>3, <3>1, <3>2, FreezeEffects
    <3>4. Recorded(i)'
      BY <1>0, <2>3, <3>1, <3>2, FreezeUpdates, NoEntryAssumption DEF Recorded
    <3> QED BY <2>1, <2>3, <3>3, <3>4, HonouredKept DEF TextKept
  <2> QED BY <2>2, <2>3 DEF FreezeFails
<1> QED BY <1>5, <1>6 DEF OwedStep

\* A freeze is over.
LEMMA OwedFreezeSettled ==
  ASSUME TypeInv, NEW i \in Ids, SafeAt(i), OwedAt(i), FreezeSettled(i)
  PROVE  OwedStep(i)
<1>0. Recorded(i) => entries[i] \in Entry BY FileSteps DEF TypeInv
<1>1. EndAttempt(i) /\ UNCHANGED <<sess, resv>> BY DEF FreezeSettled
<1>2. att'[i].pc \notin AttemptPcs /\ att'[i].sent = {}
  BY <1>1, QuietHolders DEF EndAttempt, TypeInv, TypeOK
<1>3. \/ entries'[i] \in {entries[i], NoEntry}
      \/ Recorded(i) /\ entries'[i].text = entries[i].text
  BY FileEffects, <1>0, FreezeEffects DEF FreezeSettled, TypeInv, HolderCards, FreezePcs
<1>4. RecoveryText(i)' BY <1>1, <1>3, RecoveryKept DEF OwedAt
<1>5. OwedAt(i)' BY <1>2, <1>4, OwedWithoutAttempt
<1>6. Honoured(i)
  BY HonouredKept, FileEffects, HonouredFresh, <1>0, FreezeEffects DEF FreezeSettled, remote, TextKept, TypeInv, HolderCards,
     FreezePcs, Owes, Recorded
<1> QED BY <1>5, <1>6 DEF OwedStep

\* One pending freeze is redriven.
LEMMA OwedRedrivePending ==
  ASSUME TypeInv, NEW i \in Ids, SafeAt(i), OwedAt(i), RedrivePending(i)
  PROVE  OwedStep(i)
<1>0. Recorded(i) => entries[i] \in Entry BY FileSteps DEF TypeInv
<1>1. PICK c \in entries[i].sup : Put(i, [entries[i] EXCEPT !.supDead = @ \ {c}])
  BY DEF RedrivePending
<1>2. TextKept(i)
  BY <1>0, <1>1, FreezeUpdates, FileEffects, FreezeEffects, NoEntryAssumption DEF RedrivePending, Entry, TextKept, Recorded
<1>3. UNCHANGED <<att, shown, sess, resv>> BY DEF RedrivePending, remote
<1>4. RecoveryText(i)' BY <1>2, <1>3, RecoveryKept DEF TextKept, OwedAt
<1>5. OwedAt(i)' BY <1>2, <1>3, <1>4, OwedTextKept
<1>6. Honoured(i) BY <1>2, <1>3, HonouredKept
<1> QED BY <1>5, <1>6 DEF OwedStep

\* The steps that leave the file alone.
LEMMA OwedQuiet ==
  ASSUME TypeInv, NEW i \in Ids, NEW s \in Stages, SafeAt(i), OwedAt(i),
         \/ StartPlain(i) \/ StageFails(i) \/ LegacyFinish(i) \/ WorkerSupersede(i)
         \/ Allow(i) \/ Defer(i) \/ DeliverOk(i, s) \/ DeliverFails(i, s)
         \/ CheckpointTimesOut(i) \/ FreezeOk(i) \/ ReleaseHold(i)
  PROVE  OwedStep(i)
<1> USE FileEffects, NoEntryAssumption
    DEF OwedStep, Honoured, OwedAt, RecoveryText, CloneFits, StillToSend, SentShown, Owes,
        SafeAt, Undisturbed, SessionOfTask, Active, Recorded, AttemptPcs, TypeInv, TypeOK
<1>1. CASE StartPlain(i) BY <1>1 DEF StartPlain, Fresh, Idle, durable, remote
<1>2. CASE StageFails(i) BY <1>2 DEF StageFails, Staging, durable, remote
<1>3. CASE LegacyFinish(i) BY <1>3 DEF LegacyFinish, BestEffort, durable, budget
<1>4. CASE WorkerSupersede(i)
  <2>1. UNCHANGED <<entries, sess, resv, shown>>
    BY <1>4 DEF WorkerSupersede, durable, remote
  <2>2. PICK c : att' = [att EXCEPT ![i] =
                     [Idle EXCEPT !.pc = "persisted", !.by = "worker", !.card = c]]
    BY <1>4 DEF WorkerSupersede
  <2>3. att'[i].pc = "persisted" /\ att'[i].sent = {} BY <2>2 DEF Idle
  <2> QED BY <2>1, <2>3
<1>5. CASE Allow(i)
  BY <1>5 DEF Allow, Undelivered, Unprepared, Stages, Holder, HolderCards, Entry,
      durable, remote, budget
<1>6. CASE Defer(i) BY <1>6 DEF Defer, EndAttempt, Idle, durable, remote, budget
<1>7. CASE DeliverOk(i, s)
  BY <1>7 DEF DeliverOk, CanDeliver, Land, Stages, Holder, durable, budget
<1>8. CASE DeliverFails(i, s)
  BY <1>8 DEF DeliverFails, CanDeliver, Land, Stages, Holder, durable, budget
<1>9. CASE CheckpointTimesOut(i)
  BY <1>9 DEF CheckpointTimesOut, CanDeliver, Land, Holder, durable, budget
<1>10. CASE FreezeOk(i) BY <1>10 DEF FreezeOk, Holder, durable, budget
<1>11. CASE ReleaseHold(i) BY <1>11 DEF ReleaseHold, durable, remote, budget
<1> QED BY <1>1, <1>2, <1>3, <1>4, <1>5, <1>6, <1>7, <1>8, <1>9, <1>10, <1>11

\* A result is accepted: its own entry is new.
LEMMA OwedAccept ==
  ASSUME TypeInv, NEW i \in Ids, SafeAt(i), OwedAt(i), ReserveResult(i) \/ Enqueue(i)
  PROVE  OwedStep(i)
<1>1. UNCHANGED <<att, shown, resv>> /\ ~Recorded(i) /\ sess[i] \in {"running", "none"}
  BY DEF ReserveResult, Enqueue, remote
<1>2. att'[i].pc \notin AttemptPcs /\ att'[i].sent = {}
  BY <1>1 DEF OwedAt, CloneFits, SentShown, AttemptPcs
<1>3. entries'[i] = NoEntry \/ entries'[i].dead = FALSE
  <2>1. \/ UNCHANGED entries
        \/ \E t \in Texts : entries'[i] = [NewEntry EXCEPT !.text = t]
    BY FileEffects DEF ReserveResult, Enqueue, ResultDraft, FinalTexts, Texts
  <2>2. \A t \in Texts : [NewEntry EXCEPT !.text = t].dead = FALSE BY DEF NewEntry
  <2> QED BY <1>1, <2>1, <2>2 DEF Recorded
<1>4. RecoveryText(i)'
  BY <1>1 DEF ReserveResult, RecoveryText, Enqueue, TypeInv, TypeOK, SafeAt, SessionOfTask
<1>5. OwedAt(i)' BY <1>2, <1>4, OwedWithoutAttempt
<1>6. Honoured(i) BY <1>1, <1>3, HonouredFresh DEF Owes, Recorded
<1> QED BY <1>5, <1>6 DEF OwedStep

\* The staged result replaces a recovery text, or is the reserved one.
LEMMA OwedStage ==
  ASSUME TypeInv, NEW i \in Ids, SafeAt(i), OwedAt(i), Stage(i)
  PROVE  OwedStep(i)
<1>1. /\ UNCHANGED <<att, shown, resv>> /\ Recorded(i) /\ sess'[i] = "staged"
      /\ sess[i] \in {"running", "reserved"}
  BY DEF Stage, Staging, remote, TypeInv, TypeOK
<1>2. entries[i] \in Entry BY <1>1, FileSteps DEF TypeInv
<1>3. PICK t \in StageTexts(i) : Put(i, Staged(entries[i], t)) BY DEF Stage
<1>4. entries'[i] = Staged(entries[i], t) BY <1>3, FileEffects
<1>5. /\ Staged(entries[i], t).text = t /\ Staged(entries[i], t).done = {}
      /\ Staged(entries[i], t).dead = FALSE
  BY <1>2 DEF Staged, Entry
<1>6. i \in TaskIds BY <1>1 DEF SafeAt, SessionOfTask
<1>7. att'[i].pc \notin AttemptPcs /\ att'[i].sent = {}
  BY <1>1, <1>6 DEF SafeAt, Undisturbed, Active, OwedAt, SentShown, AttemptPcs
<1>8. OwedAt(i)' BY <1>1, <1>7, OwedWithoutAttempt DEF RecoveryText
<1>9. Honoured(i)
  <2>1. CASE sess[i] = "running"
    BY <2>1, <1>1, <1>4, <1>5, HonouredFresh DEF Stage, Staging, OwedAt, RecoveryText, Owes
  <2>2. CASE sess[i] = "reserved"
    <3>1. t = entries[i].text BY <1>3, <2>2 DEF StageTexts
    <3>2. Recorded(i)'
      <4>1. t \in Texts BY <1>2, <3>1 DEF Entry
      <4>2. Staged(entries[i], t) \in Entry BY <1>2, <4>1, EntryUpdates
      <4> QED BY <1>4, <4>2, NoEntryAssumption DEF Recorded
    <3> QED BY <1>1, <1>4, <1>5, <3>1, <3>2, HonouredAnew
  <2> QED BY <1>1, <2>1, <2>2
<1> QED BY <1>8, <1>9 DEF OwedStep

\* The commit keeps a result and starts its delivery.
LEMMA OwedCommit ==
  ASSUME TypeInv, NEW i \in Ids, SafeAt(i), OwedAt(i), Commit(i)
  PROVE  OwedStep(i)
<1>1. UNCHANGED <<att, shown, resv>> /\ sess[i] = "staged" /\ sess'[i] = "committed"
  BY DEF Commit, remote, TypeInv, TypeOK
<1>2. i \in TaskIds BY <1>1 DEF SafeAt, SessionOfTask
<1>3. att'[i].pc \notin AttemptPcs /\ att'[i].sent = {}
  BY <1>1, <1>2 DEF SafeAt, Undisturbed, Active, OwedAt, SentShown, AttemptPcs
<1>4. OwedAt(i)' BY <1>1, <1>3, OwedWithoutAttempt DEF RecoveryText
<1>5. Honoured(i)
  <2>1. CASE UNCHANGED entries BY <1>1, <2>1, HonouredKept DEF TextKept
  <2>2. ASSUME NEW k \in {0, cur[i]}, Recorded(i), Put(i, Committed(entries[i], k))
        PROVE  Honoured(i)
    <3>1. entries[i] \in Entry /\ k \in 0 .. MaxCards
      BY <2>2, FileSteps, FieldFacts DEF TypeInv, TypeOK
    <3>2. entries'[i] = Committed(entries[i], k) BY <2>2, FileEffects
    <3>3. /\ entries[i].text # "stub" =>
               Committed(entries[i], k).text = entries[i].text
          /\ entries[i].text = "stub" => Committed(entries[i], k).text \in {"stub", "none"}
          /\ Committed(entries[i], k).done = {} /\ Committed(entries[i], k).dead = FALSE
      BY <3>1 DEF Committed, Entry
    <3>4. Recorded(i)' BY <3>1, <3>2, EntryUpdates, NoEntryAssumption DEF Recorded
    <3>5. CASE entries[i].text # "stub" BY <1>1, <3>2, <3>3, <3>4, <3>5, HonouredAnew
    <3>6. CASE entries[i].text = "stub"
      BY <1>1, <3>2, <3>3, <3>6, HonouredFresh DEF Owes
    <3> QED BY <3>5, <3>6
  <2> QED BY <2>1, <2>2 DEF Commit
<1> QED BY <1>4, <1>5 DEF OwedStep

\* A mark settles a result that was shown.
LEMMA OwedMark ==
  ASSUME TypeInv, NEW i \in Ids, NEW s \in Stages, SafeAt(i), OwedAt(i), Mark(i, s)
  PROVE  OwedStep(i)
<1>1. UNCHANGED <<sess, resv, shown>> /\ s \in att[i].sent
  BY DEF Mark, MarkStage, remote
<1>2. att[i].pc = "sending" /\ att[i] \in Holder
  BY <1>1 DEF OwedAt, SentShown, TypeInv, TypeOK
<1>3. /\ att'[i].pc = "sending" /\ att'[i].copy = att[i].copy /\ att'[i].run = att[i].run
      /\ att'[i].sent = att[i].sent \ {s}
      /\ att[i].err => att'[i].err
  <2>1. att \in [Ids -> Holder] BY DEF TypeInv, TypeOK
  <2>2. CASE att' = [att EXCEPT ![i].sent = @ \ {s}] BY <1>2, <2>1, <2>2 DEF Holder
  <2>3. CASE att' = [att EXCEPT ![i].sent = @ \ {s}, ![i].err = TRUE]
    BY <1>2, <2>1, <2>3 DEF Holder
  <2> QED BY <2>2, <2>3 DEF Mark, MarkStage
<1>4. \/ entries'[i] = entries[i] /\ (~Recorded(i) \/ att'[i].err)
      \/ Recorded(i) /\ entries'[i] = [entries[i] EXCEPT !.done = @ \cup {s}]
  BY <1>2, FileEffects DEF Holder, TypeInv, TypeOK, Mark, MarkStage
<1>5. CASE entries'[i] = entries[i] /\ (~Recorded(i) \/ att'[i].err)
  BY <1>1, <1>2, <1>3, <1>5, HonouredKept DEF OwedAt, RecoveryText, CloneFits, StillToSend, SentShown, Owes, Recorded,
     AttemptPcs, TextKept, OwedStep
<1>6. CASE Recorded(i) /\ entries'[i] = [entries[i] EXCEPT !.done = @ \cup {s}]
  <2>1. entries[i] \in Entry BY <1>6, FileSteps DEF TypeInv
  <2>2. Recorded(i)' BY <1>6, <2>1, EntryUpdates, NoEntryAssumption DEF Recorded
  <2>3. entries'[i].text = entries[i].text /\ entries'[i].done = entries[i].done \cup {s}
    BY <1>6, <2>1 DEF Entry
  <2>4. OwedAt(i)'
    BY <1>1, <1>2, <1>3, <1>6, <2>2, <2>3
    DEF OwedAt, RecoveryText, CloneFits, StillToSend, SentShown, Owes, AttemptPcs
  <2>5. Honoured(i)
    BY <1>1, <1>2, <1>6, <2>2, <2>3
    DEF Honoured, OwedAt, CloneFits, SentShown, Owes, AttemptPcs
  <2> QED BY <2>4, <2>5 DEF OwedStep
<1> QED BY <1>4, <1>5, <1>6

--------------------
(* From one entry to all of them.                                          *)

OwedInv == \A i \in Ids : OwedAt(i)

\* A step about i, for i and, by its frame, for every other entry.
LEMMA OwedOthers ==
  ASSUME NEW i \in Ids, NEW j \in Ids \ {i}, OthersRest(i), OwedAt(j)
  PROVE  OwedStep(j)
<1>1. CASE entries'[j] = entries[j]
  BY <1>1 DEF OthersRest, OwedStep, Honoured, OwedAt, RecoveryText, CloneFits, StillToSend,
              SentShown, Owes, Recorded
<1>2. CASE Evictable(j) /\ entries'[j] = NoEntry
  BY <1>2 DEF OthersRest, Evictable, OwedStep, Honoured, OwedAt, RecoveryText, CloneFits,
              StillToSend, SentShown, Owes, Recorded, AttemptPcs
<1> QED BY <1>1, <1>2 DEF OthersRest

\* Every kind of step about one entry.
LEMMA OwedLocal ==
  ASSUME TypeInv, NEW i \in Ids, SafeAt(i), OwedAt(i),
         \/ SessionStep(i) \/ ProducerStep(i) \/ WorkerStep(i) \/ AttemptStep(i)
         \/ FreezeStep(i) \/ RedrivePending(i) \/ ReleaseHold(i)
  PROVE  OwedStep(i)
<1>1. CASE SessionStep(i)
  <2>1. "text" \in Stages BY DEF Stages
  <2> QED
    BY <1>1, <2>1, OwedStartWithCard, OwedRefreshActiveStream, OwedReanchorOpen,
       OwedReanchorPersist, OwedReanchorUnreserved, OwedDetach, OwedAbandon, OwedLegacyDiscard,
       OwedQuiet, OwedAccept, OwedStage, OwedCommit DEF SessionStep
<1>2. CASE ProducerStep(i) \/ WorkerStep(i)
  BY <1>2, OwedEnqueueAgain, OwedWorkerAttempt, OwedDirectAttempt, OwedAccept, OwedQuiet DEF Stages, ProducerStep, WorkerStep
<1>3. CASE AttemptStep(i)
  BY <1>3, OwedDeny, OwedPrepare, OwedFinish, OwedMark, OwedQuiet DEF Stages, AttemptStep
<1>4. CASE FreezeStep(i) \/ RedrivePending(i) \/ ReleaseHold(i)
  BY <1>4, OwedFreezeFails, OwedFreezeSettled, OwedRedrivePending, OwedQuiet DEF Stages, FreezeStep
<1> QED BY <1>1, <1>2, <1>3, <1>4

\* A step that leaves file, sessions and platform alone and starts no attempt.
LEMMA OwedAtRest ==
  ASSUME NEW i \in Ids, OwedAt(i), entries'[i] = entries[i], shown'[i] = shown[i],
         \/ sess'[i] = sess[i] /\ resv'[i] = resv[i] /\ att'[i] = att[i]
         \/ ~resv'[i] /\ att'[i] = Idle
  PROVE  OwedStep(i)
<1>1. Idle.pc \notin AttemptPcs /\ Idle.sent = {} BY QuietHolders
<1>2. Honoured(i) BY HonouredKept DEF TextKept
<1>3. OwedAt(i)'
  BY <1>1 DEF OwedAt, RecoveryText, CloneFits, StillToSend, SentShown, Owes, Recorded, AttemptPcs
<1> QED BY <1>2, <1>3 DEF OwedStep

\* Every step keeps the invariant and honours every obligation.
LEMMA OwedNext ==
  ASSUME TypeInv, SafeInv, OwedInv, [Next]_vars
  PROVE  \A i \in Ids : OwedStep(i)
<1> SUFFICES ASSUME NEW j \in Ids PROVE OwedStep(j) OBVIOUS
<1>1. SafeAt(j) /\ OwedAt(j) BY DEF SafeInv, OwedInv
<1>2. ASSUME NEW i \in Ids,
             \/ SessionStep(i) \/ ProducerStep(i) \/ WorkerStep(i) \/ AttemptStep(i)
             \/ FreezeStep(i) \/ RedrivePending(i) \/ ReleaseHold(i)
      PROVE  OwedStep(j)
  BY <1>1, <1>2, OwedLocal, FrameSession, FrameWorker, FrameAttempt, FrameRest, OwedOthers
<1>3. ASSUME NEW S, Redrive(S) PROVE OwedStep(j)
  <2>1. UNCHANGED <<att, sess, resv, shown>> BY <1>3 DEF Redrive, remote
  <2>2. TextKept(j)
    <3>1. Recorded(j) => Redriven(entries[j]) \in Entry /\ entries[j] \in Entry
      BY FileSteps, EntryUpdates DEF TypeInv
    <3>2. entries'[j] = entries[j] \/ (Recorded(j) /\ entries'[j] = Redriven(entries[j]))
      BY <1>3 DEF Redrive
    <3>3. Recorded(j) => /\ Redriven(entries[j]).text = entries[j].text
                         /\ Redriven(entries[j]).done = entries[j].done
      BY <3>1, FieldEffects
    <3> QED BY <3>1, <3>2, <3>3, NoEntryAssumption DEF TextKept, Recorded
  <2>3. RecoveryText(j)' BY <1>1, <2>1, <2>2, RecoveryKept DEF TextKept, OwedAt
  <2> QED BY <1>1, <2>1, <2>2, <2>3, OwedTextKept, HonouredKept DEF OwedStep
<1>4. CASE Scan \/ Sleep \/ WakeUp \/ DrainWake \/ UNCHANGED vars
  BY <1>4, <1>1, OwedAtRest DEF Scan, Sleep, WakeUp, DrainWake, vars, durable, volatile, remote
<1>5. CASE Restart BY <1>5, <1>1, OwedAtRest DEF Restart, durable, remote
<1> QED BY <1>2, <1>3, <1>4, <1>5 DEF Next

\* The invariant holds in every reachable state.
THEOREM OwedCorrect == Spec => []OwedInv
<1>1. Init => OwedInv
  BY QuietHolders DEF Init, OwedInv, OwedAt, RecoveryText, CloneFits, StillToSend, SentShown,
                      Owes, Recorded
<1>2. TypeInv /\ SafeInv /\ OwedInv /\ [Next]_vars => OwedInv'
  BY OwedNext DEF OwedInv, OwedStep
<1> QED BY <1>1, <1>2, TypeCorrect, SafeCorrect, PTL DEF Spec

--------------------
(* The refinement.                                                         *)

\* The obligation of i, read from the file.
LEMMA DutyCases ==
  ASSUME NEW i
  PROVE  /\ Duty(i) \in {"none", "owed", "dead"}
         /\ Duty(i) = "none" <=> ~Owes(i)
         /\ Duty(i) = "dead" <=> Owes(i) /\ entries[i].dead
         /\ Duty(i) = "owed" <=> Owes(i) /\ ~entries[i].dead
BY DEF Duty, Owes

\* An honoured obligation moves as the contract allows.
LEMMA HonouredMoves ==
  ASSUME NEW i \in Ids, Honoured(i)
  PROVE  C!Move(i)
<1> DEFINE d == Duty(i)
           e == Duty(i)'
           s == "result" \in shown[i]
           t == "result" \in shown'[i]
<1>1. d \in {"none", "owed", "dead"} /\ e \in {"none", "owed", "dead"}
  BY DutyCases DEF Duty
<1>2. /\ d = "none" <=> ~Owes(i)
      /\ d = "dead" <=> Owes(i) /\ entries[i].dead
      /\ d = "owed" <=> Owes(i) /\ ~entries[i].dead
  BY DutyCases
<1>3. /\ e = "none" <=> ~Owes(i)'
      /\ e = "dead" <=> Owes(i)' /\ entries'[i].dead
      /\ e = "owed" <=> Owes(i)' /\ ~entries'[i].dead
  BY DEF Duty, Owes
<1>4. /\ (t = s) \/ (t /\ e = d)
      /\ ~(d = "none" /\ e = "dead")
      /\ d = "owed" /\ e = "none" => s \/ i \in GuardedIds
  BY <1>1, <1>2, <1>3 DEF Honoured
<1>5. /\ [j \in Ids |-> Duty(j)][i] = d /\ [j \in Ids |-> Duty(j)]'[i] = e
      /\ [j \in Ids |-> "result" \in shown[j]][i] = s
      /\ [j \in Ids |-> "result" \in shown[j]]'[i] = t
  OBVIOUS
<1> HIDE DEF d, e, s, t
<1> QED
  BY <1>1, <1>4, <1>5
  DEF C!Move, C!Rest, C!Accept, C!Show, C!Settle, C!Withdraw, C!Bury, C!Redrive, C!Evict

\* The outbox starts where the contract starts.
LEMMA ContractInit == Init => C!Init
<1> SUFFICES ASSUME Init PROVE C!Init OBVIOUS
<1>1. \A i \in Ids : Duty(i) = "none" BY DEF Init, Duty, Recorded
<1>2. \A i \in Ids : ("result" \in shown[i]) = FALSE BY DEF Init
<1>3. [i \in Ids |-> Duty(i)] = [i \in Ids |-> "none"] BY <1>1, Zenon
<1>4. [i \in Ids |-> "result" \in shown[i]] = [i \in Ids |-> FALSE] BY <1>2, Zenon
<1> QED BY <1>3, <1>4 DEF C!Init

\* Every step of the outbox is a step of the contract or leaves it alone.
LEMMA ContractStep ==
  ASSUME TypeInv, SafeInv, OwedInv, [Next]_vars
  PROVE  C!Next
<1>1. \A i \in Ids : C!Move(i) BY OwedNext, HonouredMoves DEF OwedStep
<1>2. [j \in Ids |-> Duty(j)]' \in [Ids -> C!Duties] BY DEF Duty, C!Duties
<1>3. [j \in Ids |-> "result" \in shown[j]]' \in [Ids -> BOOLEAN] OBVIOUS
<1> QED BY <1>1, <1>2, <1>3 DEF C!Next

\* The outbox implements the delivery contract, for every number of entries,
\* cards, attempts, failed writes, restarts and redrives: a result it accepted
\* stays owed until the platform showed it, its right was withdrawn, or its
\* dead letter was evicted.
THEOREM ContractCorrect == Spec => Contract
<1>1. TypeInv /\ SafeInv /\ OwedInv /\ [Next]_vars => C!Next BY ContractStep
<1> QED BY <1>1, ContractInit, TypeCorrect, SafeCorrect, OwedCorrect, PTL DEF Spec, Contract, C!Spec

--------------------
(* What the operators do to the fields of an entry.                        *)

Shape(f, stream, ckpt, text, done, sup, dead) ==
  /\ f \in Entry /\ f # NoEntry
  /\ f.stream = stream /\ f.ckpt = ckpt /\ f.text = text /\ f.done = done
  /\ f.sup = sup /\ f.dead = dead

\* What each update of an entry leaves in the fields the argument reads.
LEMMA UpdateShapes ==
  ASSUME NEW e \in Entry
  PROVE  /\ \A c \in 0 .. MaxCards : Shape(Refreshed(e, c), c, 0, e.text, {}, e.sup, FALSE)
         /\ \A t \in Texts : Shape(Staged(e, t), e.stream, e.ckpt, t, {}, e.sup, FALSE)
         /\ \A k \in 0 .. MaxCards :
              Shape(Committed(e, k), IF k = 0 THEN e.stream ELSE 0, k,
                    IF e.text = "stub" /\ k # 0 THEN "none" ELSE e.text, {}, e.sup, FALSE)
         /\ Shape(Blank(e), 0, 0, "none", Stages, e.sup, FALSE)
         /\ Shape(Rerouted(e), e.stream, e.ckpt, e.text, e.done, e.sup, FALSE)
         /\ Shape(Redriven(e), e.stream, e.ckpt, e.text, e.done, e.sup, FALSE)
         /\ Shape(Failed(e), e.stream, e.ckpt, e.text, e.done, e.sup, Failed(e).dead)
         /\ IF e.sup = {} THEN Delivered(e) = NoEntry
            ELSE Shape(Delivered(e), e.stream, e.ckpt, e.text, e.done, e.sup, FALSE)
         /\ \A s \in Stages : Shape([e EXCEPT !.done = @ \cup {s}],
                                    e.stream, e.ckpt, e.text, e.done \cup {s}, e.sup, e.dead)
         /\ \A k \in 0 .. MaxCards : Shape([e EXCEPT !.stream = 0, !.ckpt = k],
                                           0, k, e.text, e.done, e.sup, e.dead)
<1> USE NoEntryAssumption DEF Shape
<1>1. ASSUME NEW c \in 0 .. MaxCards PROVE Shape(Refreshed(e, c), c, 0, e.text, {}, e.sup, FALSE)
  <2>1. Refreshed(e, c) \in Entry BY EntryUpdates
  <2> QED BY <2>1 DEF Entry, Refreshed
<1>2. ASSUME NEW t \in Texts PROVE Shape(Staged(e, t), e.stream, e.ckpt, t, {}, e.sup, FALSE)
  <2>1. Staged(e, t) \in Entry BY EntryUpdates
  <2> QED BY <2>1 DEF Entry, Staged
<1>3. ASSUME NEW k \in 0 .. MaxCards
      PROVE  Shape(Committed(e, k), IF k = 0 THEN e.stream ELSE 0, k,
                   IF e.text = "stub" /\ k # 0 THEN "none" ELSE e.text, {}, e.sup, FALSE)
  <2>1. Committed(e, k) \in Entry BY EntryUpdates
  <2> QED BY <2>1 DEF Entry, Committed
<1>4. Shape(Blank(e), 0, 0, "none", Stages, e.sup, FALSE)
  BY EntryUpdates DEF Entry, Blank
<1>5. Shape(Rerouted(e), e.stream, e.ckpt, e.text, e.done, e.sup, FALSE)
  BY EntryUpdates DEF Entry, Rerouted
<1>6. Shape(Redriven(e), e.stream, e.ckpt, e.text, e.done, e.sup, FALSE)
  BY EntryUpdates DEF Entry, Redriven
<1>7. Shape(Failed(e), e.stream, e.ckpt, e.text, e.done, e.sup, Failed(e).dead)
  <2>1. Failed(e) \in Entry BY EntryUpdates
  <2>2. /\ Failed(e).stream = e.stream /\ Failed(e).ckpt = e.ckpt /\ Failed(e).text = e.text
        /\ Failed(e).done = e.done /\ Failed(e).sup = e.sup
    BY DEF Entry, Failed
  <2> QED BY <2>1, <2>2
<1>8. IF e.sup = {} THEN Delivered(e) = NoEntry
      ELSE Shape(Delivered(e), e.stream, e.ckpt, e.text, e.done, e.sup, FALSE)
  <2>1. Delivered(e) \in Entry \cup {NoEntry} BY EntryUpdates
  <2> QED BY <2>1 DEF Entry, Delivered
<1>9. ASSUME NEW s \in Stages
      PROVE  Shape([e EXCEPT !.done = @ \cup {s}],
                   e.stream, e.ckpt, e.text, e.done \cup {s}, e.sup, e.dead)
  <2>1. [e EXCEPT !.done = @ \cup {s}] \in Entry BY EntryUpdates
  <2> QED BY <2>1 DEF Entry
<1>10. ASSUME NEW k \in 0 .. MaxCards
       PROVE  Shape([e EXCEPT !.stream = 0, !.ckpt = k], 0, k, e.text, e.done, e.sup, e.dead)
  BY EntryUpdates DEF Entry
<1> QED BY <1>1, <1>2, <1>3, <1>4, <1>5, <1>6, <1>7, <1>8, <1>9, <1>10

\* An entry has work when a stream, a text or a checkpoint is left.
LEMMA WorkLeft ==
  ASSUME NEW e
  PROVE  /\ HasWork(e) <=> \/ e.stream # 0
                           \/ e.text # "none" /\ "text" \notin e.done
                           \/ e.ckpt # 0 /\ "checkpoint" \notin e.done
         /\ \A s : s \in Undelivered(e) <=> \/ s = "text" /\ e.text # "none" /\ "text" \notin e.done
                                            \/ s = "checkpoint" /\ e.ckpt # 0 /\ "checkpoint" \notin e.done
BY DEF HasWork, Undelivered, Stages

\* The same for the updates that move an entry to another card and for those of its freezes.
LEMMA PendingShapes ==
  ASSUME NEW e \in Entry, NEW c \in Cards
  PROVE  /\ \A n \in Cards : Shape(Reanchored(e, n, c), n, 0, e.text, {}, e.sup \cup {c}, FALSE)
         /\ Shape(Detached(e, c), 0, 0, "none", Stages, e.sup \cup {c}, FALSE)
         /\ Shape(SupersedeFailed(e, c), e.stream, e.ckpt, e.text, e.done, e.sup, e.dead)
         /\ IF e.sup \ {c} = {} /\ ~HasWork(e) /\ ~e.dead THEN Unpended(e, c) = NoEntry
            ELSE Shape(Unpended(e, c), e.stream, e.ckpt, e.text, e.done, e.sup \ {c}, e.dead)
         /\ Shape([e EXCEPT !.supDead = @ \ {c}], e.stream, e.ckpt, e.text, e.done, e.sup, e.dead)
<1> USE NoEntryAssumption DEF Shape
<1>1. ASSUME NEW n \in Cards
      PROVE  Shape(Reanchored(e, n, c), n, 0, e.text, {}, e.sup \cup {c}, FALSE)
  <2>1. Reanchored(e, n, c) \in Entry BY FreezeUpdates
  <2> QED BY <2>1 DEF Reanchored, Refreshed, Entry
<1>2. Shape(Detached(e, c), 0, 0, "none", Stages, e.sup \cup {c}, FALSE)
  <2>1. Detached(e, c) \in Entry BY FreezeUpdates
  <2> QED BY <2>1 DEF Detached, Blank, Entry
<1>3. Shape(SupersedeFailed(e, c), e.stream, e.ckpt, e.text, e.done, e.sup, e.dead)
  <2>1. SupersedeFailed(e, c) \in Entry BY FreezeUpdates
  <2> QED BY <2>1 DEF SupersedeFailed, Entry
<1>4. IF e.sup \ {c} = {} /\ ~HasWork(e) /\ ~e.dead THEN Unpended(e, c) = NoEntry
      ELSE Shape(Unpended(e, c), e.stream, e.ckpt, e.text, e.done, e.sup \ {c}, e.dead)
  <2> DEFINE r == [e EXCEPT !.sup = @ \ {c}, !.supTries[c] = 0, !.supDead = @ \ {c}]
  <2>1. /\ r.text = e.text /\ r.done = e.done /\ r.dead = e.dead /\ r.stream = e.stream
        /\ r.ckpt = e.ckpt /\ r.sup = e.sup \ {c}
    BY DEF Entry
  <2>2. Unpended(e, c) = IF r.sup = {} /\ ~HasWork(r) /\ ~r.dead THEN NoEntry ELSE r
    BY DEF Unpended
  <2>3. Unpended(e, c) \in Entry \cup {NoEntry} BY FreezeUpdates
  <2>4. r # NoEntry
    <3>1. e.sup \ {c} \in SUBSET Cards /\ e.supDead \ {c} \in SUBSET Cards
          /\ [e.supTries EXCEPT ![c] = 0] \in [Cards -> 0 .. MaxAttempts]
      BY FieldFacts DEF Entry
    <3>2. r = [e EXCEPT !.sup = e.sup \ {c}, !.supTries = [e.supTries EXCEPT ![c] = 0],
                        !.supDead = e.supDead \ {c}]
      BY DEF Entry
    <3>3. [e EXCEPT !.sup = e.sup \ {c}, !.supTries = [e.supTries EXCEPT ![c] = 0],
                    !.supDead = e.supDead \ {c}] \in Entry
      BY <3>1, FreezeFields
    <3> QED BY <3>2, <3>3
  <2> HIDE DEF r
  <2>5. HasWork(r) <=> HasWork(e) BY <2>1, WorkLeft
  <2> QED BY <2>1, <2>2, <2>3, <2>4, <2>5
<1>5. Shape([e EXCEPT !.supDead = @ \ {c}], e.stream, e.ckpt, e.text, e.done, e.sup, e.dead)
  <2>1. [e EXCEPT !.supDead = @ \ {c}] \in Entry BY FreezeUpdates
  <2> QED BY <2>1 DEF Entry
<1> QED BY <1>1, <1>2, <1>3, <1>4, <1>5

\* The fields of an entry that is recorded for the first time.
LEMMA NewShapes ==
  /\ \A c \in Cards : Shape(RecoveryDraft(c), c, 0, "restart", {}, {}, FALSE)
  /\ \A t \in Texts : Shape([NewEntry EXCEPT !.text = t], 0, 0, t, {}, {}, FALSE)
  /\ Shape(ResultDraft, 0, 0, "result", {}, {}, FALSE)
<1> USE EntryBuilders, NoEntryAssumption
<1>1. ASSUME NEW c \in Cards PROVE Shape(RecoveryDraft(c), c, 0, "restart", {}, {}, FALSE)
  BY DEF RecoveryDraft, NewEntry, Shape
<1>2. ASSUME NEW t \in Texts PROVE Shape([NewEntry EXCEPT !.text = t], 0, 0, t, {}, {}, FALSE)
  BY DEF NewEntry, Shape
<1>3. ResultDraft = [NewEntry EXCEPT !.text = "result"] /\ "result" \in Texts
  BY DEF ResultDraft, Texts
<1> QED BY <1>1, <1>2, <1>3

--------------------
(* The inductive invariant, entry by entry.                                *)

\* The attempt on i will still send the result.
AboutToSend(i) ==
  /\ att[i].pc \in AttemptPcs /\ att[i].copy.text = "result"
  /\ IF att[i].pc = "sending" THEN "text" \in att[i].run ELSE "text" \notin att[i].copy.done

MayBeSent(i) == (Owes(i) /\ "text" \notin att[i].sent) \/ AboutToSend(i) \/ sess[i] \in Active

\* A result that may still be sent has been acknowledged at most once per fault.
Counted(i) ==
  i \in TaskIds =>
    /\ acked[i] <= 1 + restarts + writeFails
    /\ MayBeSent(i) => acked[i] <= restarts + writeFails
    /\ acked[i] > 0 => "result" \in shown[i]
    /\ att[i].pc = "sending" => att[i].run \cap att[i].sent = {}

\* Card c was opened, is not frozen, and no freeze of it is owed.
Unfrozen(i, c) == cards[i][c] \notin {"none", "frozen"} /\ (Recorded(i) => c \notin entries[i].sup)

RecordFits(i) ==
  Recorded(i) =>
    \A c \in Cards : /\ c \in {entries[i].stream, entries[i].ckpt} => Unfrozen(i, c)
                     /\ c \in entries[i].sup => cards[i][c] # "none"

SessionFits(i) ==
  /\ sess[i] \in Unclaimed /\ cur[i] # 0 =>
       /\ Unfrozen(i, cur[i])
       /\ att[i].pc \in FreezePcs => att[i].card # cur[i]
  /\ sess[i] = "running" /\ ~resv[i] => ~Recorded(i)
  /\ sess[i] = "none" => cur[i] = 0

FreezeFits(i) ==
  att[i].pc \in FreezePcs =>
    /\ cards[i][att[i].card] # "none"
    /\ Recorded(i) => att[i].card \notin {entries[i].stream, entries[i].ckpt}
    /\ att[i].pc = "opened" =>
         /\ Unfrozen(i, att[i].card)
         /\ sess[i] \in Unclaimed /\ resv[i] /\ att[i].by = "session"

CloneCards(i) ==
  att[i].pc \in AttemptPcs =>
    \A c \in Cards : c \in {att[i].copy.stream, att[i].copy.ckpt} => Unfrozen(i, c)

\* The card that is recorded, the one the session writes to and the ones that are frozen are kept apart.
CardsFit(i) == RecordFits(i) /\ SessionFits(i) /\ FreezeFits(i) /\ CloneCards(i)

\* The entry a terminal holds has its text.
Held(i) ==
  sess[i] \in {"reserved", "staged"} =>
    Recorded(i) /\ entries[i].text \in {"result", "stub"} /\ entries[i].done = {}

\* The text for a restart stays with the task that is alive.
Quiet(i) ==
  i \in TaskIds /\ sess[i] # "none" /\ writeFails = 0 =>
    /\ "restart" \notin shown[i]
    /\ \A c \in Cards : cards[i][c] # "interrupted"
    /\ Recorded(i) /\ entries[i].text = "restart" => i \in preparing /\ i \notin due
    /\ att[i].pc \in AttemptPcs => att[i].copy.text # "restart"
    /\ sess[i] = "committed" /\ Recorded(i) => entries[i].text # "restart"
    /\ sess[i] \in {"legacy", "finished"} =>
         /\ i \notin due /\ att[i].pc \notin AttemptPcs
         /\ Recorded(i) => entries[i].text = "restart"

\* The entry is what the attempt on it has cloned.
AsCloned(i) ==
  /\ Recorded(i)
  /\ entries[i].stream = att[i].copy.stream /\ entries[i].ckpt = att[i].copy.ckpt
  /\ entries[i].text = att[i].copy.text /\ entries[i].done = att[i].copy.done

Faultless == restarts = 0 /\ writeFails = 0

\* Without faults an entry has something left, and an attempt that failed leaves what it failed to do.
Useful(i) ==
  Faultless =>
    /\ Recorded(i) /\ att[i].pc \notin AttemptPcs =>
         HasWork(entries[i]) \/ (entries[i].sup # {} /\ ~entries[i].dead)
    /\ att[i].pc \in {"begun", "prepare"} => AsCloned(i) /\ HasWork(entries[i]) /\ ~att[i].err
    /\ att[i].pc = "prepare" => entries[i].stream # 0
    /\ att[i].pc = "sending" =>
         /\ Recorded(i)
         /\ att[i].run \cup att[i].sent \subseteq Undelivered(entries[i])
         /\ att[i].run \cap att[i].sent = {}
         /\ att[i].err =>
              \/ entries[i].stream # 0
              \/ \E s \in Undelivered(entries[i]) : s \notin att[i].run \cup att[i].sent

\* What became of card c agrees with the entry, or the clone of it, that names it; a session may have finished the card
\* itself before its process exits and the recovery is read.
CardAgrees(i, e, c) ==
  /\ c = e.stream => cards[i][c] \in {"open", "final"} /\ (cards[i][c] = "final" => e.text = "restart")
  /\ c = e.ckpt => cards[i][c] \in {"open", "final", Verdict(e)}

\* As long as every write succeeds: a card has the verdict of its entry or none, a card that is superseded has none but
\* its freeze, the cards of a session that still runs are open, and an attempt has the verdict of the entry.
Decided(i) ==
  writeFails = 0 =>
    /\ Recorded(i) =>
         \A c \in Cards : /\ CardAgrees(i, entries[i], c)
                          /\ c \in entries[i].sup => cards[i][c] \in {"open", "frozen"}
    /\ att[i].pc \in AttemptPcs => \A c \in Cards : CardAgrees(i, att[i].copy, c)
    /\ att[i].pc \in FreezePcs => cards[i][att[i].card] \in {"open", "frozen"}
    /\ sess[i] \in Unclaimed =>
         \A c \in Cards : c = cur[i] \/ (Recorded(i) /\ c = entries[i].stream) => cards[i][c] = "open"
    /\ sess[i] \in Unclaimed \cup {"finished"} /\ Recorded(i) => entries[i].ckpt = 0
    /\ att[i].pc \in AttemptPcs /\ Recorded(i) =>
         /\ entries[i].text = "restart" <=> att[i].copy.text = "restart"
         /\ att[i].copy.ckpt # 0 => entries[i].stream = 0

\* An entry and its clone name one card, and only a task has a text for a restart.
OneCard(i) ==
  /\ Recorded(i) /\ entries[i].ckpt # 0 => entries[i].stream = 0
  /\ att[i].pc \in AttemptPcs /\ att[i].copy.ckpt # 0 => att[i].copy.stream = 0
  /\ i \notin TaskIds =>
       /\ Recorded(i) => entries[i].text # "restart"
       /\ att[i].pc \in AttemptPcs => att[i].copy.text # "restart"

\* A text for a restart was never acknowledged as a result, as long as every write succeeds.
NotAcked(i) ==
  i \in TaskIds /\ writeFails = 0 =>
    /\ sess[i] \in Unclaimed \cup {"finished"} => acked[i] = 0
    /\ Recorded(i) /\ entries[i].text = "restart" => acked[i] = 0
    /\ att[i].pc \in AttemptPcs /\ att[i].copy.text = "restart" => acked[i] = 0

\* Without faults the text for a restart belongs to a task that is alive, and no attempt has it.
Belated(i) ==
  Faultless =>
    /\ Recorded(i) /\ entries[i].text = "restart" => sess[i] # "none"
    /\ att[i].pc \in AttemptPcs => att[i].copy.text # "restart"

\* The card of a freeze that is done is frozen.
Retired(i) == att[i].pc = "frozen" => cards[i][att[i].card] = "frozen"

\* An attempt on an entry whose checkpoint is due cloned it, and still sends it or waits for its mark unless it failed.
Awaited(i) ==
  Recorded(i) /\ entries[i].ckpt # 0 /\ "checkpoint" \notin entries[i].done =>
    /\ att[i].pc = "begun" => att[i].copy.ckpt # 0 /\ "checkpoint" \notin att[i].copy.done
    /\ att[i].pc = "sending" /\ ~att[i].err =>
         /\ att[i].copy.ckpt # 0 /\ "checkpoint" \notin att[i].copy.done
         /\ "checkpoint" \in att[i].run \cup att[i].sent

SoundAt(i) ==
  /\ Counted(i) /\ CardsFit(i) /\ Held(i) /\ Quiet(i) /\ Useful(i)
  /\ Decided(i) /\ OneCard(i) /\ NotAcked(i) /\ Belated(i) /\ Retired(i) /\ Awaited(i)

--------------------
(* Each step, for the entry it is about.                                   *)

\* The types of what belongs to one entry.
LEMMA TypesAt ==
  ASSUME TypeInv, NEW i \in Ids
  PROVE  /\ Recorded(i) => entries[i] \in Entry
         /\ cur[i] \in 0 .. MaxCards /\ (cur[i] # 0 => cur[i] \in Cards) /\ 0 \notin Cards
         /\ i \in TaskIds => acked[i] \in Nat
         /\ restarts \in Nat /\ writeFails \in Nat
         /\ att[i] \in Holder
         /\ att[i].pc \in FreezePcs => att[i].card \in Cards
         /\ att[i].pc = "opened" => cur[i] \in Cards
         /\ att[i].pc \in AttemptPcs => att[i].copy \in Entry
  BY FileSteps, BoundsAssumption DEF TypeInv, TypeOK, HolderCards, Cards

\* The places of a holder, spelled out.
LEMMA PcsApart ==
  /\ \A p : p \in AttemptPcs <=> p \in {"begun", "prepare", "sending"}
  /\ \A p : p \in FreezePcs <=> p \in {"opened", "persisted", "frozen"}
  /\ Idle.pc = "idle" /\ Idle.run = {} /\ Idle.sent = {} /\ Idle.err = FALSE /\ Idle.by = "none"
BY DEF AttemptPcs, FreezePcs, Idle

\* A step keeps the count when it acknowledges nothing and lets nothing be sent again without a fault.
LEMMA CountedKept ==
  ASSUME TypeInv, NEW i \in Ids, Counted(i), acked'[i] = acked[i], shown[i] \subseteq shown'[i],
         restarts' = restarts, writeFails' \in {writeFails, writeFails + 1},
         att'[i].pc = "sending" => att'[i].run \cap att'[i].sent = {},
         i \in TaskIds /\ MayBeSent(i)' => MayBeSent(i) \/ writeFails' # writeFails \/ acked[i] = 0
  PROVE  Counted(i)'
<1>1. /\ restarts \in Nat /\ writeFails \in Nat /\ (i \in TaskIds => acked[i] \in Nat)
      /\ writeFails' \in Nat
  BY TypesAt
<1>2. \A a, r, w, v \in Nat : v \in {w, w + 1} =>
        /\ a <= 1 + r + w => a <= 1 + r + v
        /\ a <= r + w => a <= r + v
        /\ v # w /\ a <= 1 + r + w => a <= r + v
        /\ a = 0 => a <= r + v
  OBVIOUS
<1> SUFFICES ASSUME i \in TaskIds
             PROVE  /\ acked[i] <= 1 + restarts + writeFails'
                    /\ MayBeSent(i)' => acked[i] <= restarts + writeFails'
                    /\ acked[i] > 0 => "result" \in shown'[i]
  BY DEF Counted
<1>3. /\ acked[i] <= 1 + restarts + writeFails
      /\ MayBeSent(i) => acked[i] <= restarts + writeFails
      /\ acked[i] > 0 => "result" \in shown[i]
  BY DEF Counted
<1>4. acked[i] <= 1 + restarts + writeFails' BY <1>1, <1>2, <1>3
<1>5. ASSUME MayBeSent(i)' PROVE acked[i] <= restarts + writeFails'
  BY <1>1, <1>2, <1>3, <1>5
<1> QED BY <1>3, <1>4, <1>5

\* A session starts with a card: nothing was sent, and its card is the only one (startTaskCard).
LEMMA SoundStartWithCard ==
  ASSUME TypeInv, NEW i \in Ids, SafeAt(i), SoundAt(i), StartWithCard(i)
  PROVE  SoundAt(i)'
<1>1. /\ UNCHANGED <<att, shown, acked, due, restarts>> /\ att[i] = Idle /\ ~Recorded(i) /\ i \in TaskIds
      /\ i \notin due /\ shown[i] = {} /\ \A c \in Cards : cards[i][c] = "none"
      /\ 1 \in Cards /\ SaveActive(i, 1)
  BY BoundsAssumption DEF StartWithCard, Fresh, Cards
<1>2. /\ sess'[i] = "running" /\ cur'[i] = 1
      /\ cards'[i][1] = "open" /\ \A c \in Cards \ {1} : cards'[i][c] = "none"
  BY <1>1 DEF StartWithCard, TypeInv, TypeOK
<1>3. \/ /\ entries'[i] = NoEntry /\ writeFails' \in {writeFails, writeFails + 1}
      \/ /\ Shape(entries'[i], 1, 0, "restart", {}, {}, FALSE)
         /\ i \in preparing' /\ resv'[i] /\ UNCHANGED writeFails
  <2>1. Shape(RecoveryDraft(1), 1, 0, "restart", {}, {}, FALSE) BY <1>1, NewShapes
  <2> QED BY <1>1, <2>1, FileEffects DEF SaveActive, Recorded, CannotInsert, WriteFails, TypeInv, TypeOK
<1>4. acked[i] = 0 BY <1>1, TypesAt DEF SoundAt, Counted
<1>5. Counted(i)' BY <1>3, <1>1, <1>4, PcsApart, CountedKept DEF SoundAt
<1>6. CardsFit(i)'
  BY <1>1, <1>2, <1>3, TypesAt, PcsApart DEF CardsFit, RecordFits, SessionFits, FreezeFits, CloneCards, Unfrozen, Recorded, Shape
<1>7. Held(i)' /\ Quiet(i)'
  BY <1>1, <1>2, <1>3, TypesAt, PcsApart DEF Held, Quiet, Recorded, Shape
<1>8. Useful(i)' BY <1>1, <1>3, TypesAt, PcsApart, WorkLeft DEF Useful, Recorded, Shape
<1>9. Decided(i)'
  BY <1>1, <1>2, <1>3, <1>4, TypesAt, PcsApart
  DEF SoundAt, Decided, CardAgrees, Verdict, CardsFit, RecordFits, SessionFits, FreezeFits, CloneCards, Unfrozen, Recorded, Shape, Unclaimed
<1>10. OneCard(i)' /\ NotAcked(i)' /\ Belated(i)'
  BY <1>1, <1>2, <1>3, <1>4, TypesAt, PcsApart
  DEF SoundAt, OneCard, NotAcked, Belated, Faultless, Quiet, Recorded, Shape, Unclaimed
<1>11. Retired(i)' /\ Awaited(i)'
  BY <1>1, <1>2, <1>3, <1>4, TypesAt, PcsApart, WorkLeft
  DEF SoundAt, Retired, Awaited, CardsFit, SessionFits, FreezeFits, Recorded, Shape, Unclaimed
<1> QED BY <1>5, <1>6, <1>7, <1>8, <1>9, <1>10, <1>11 DEF SoundAt

\* A session starts without a card.
LEMMA SoundStartPlain ==
  ASSUME TypeInv, NEW i \in Ids, SafeAt(i), SoundAt(i), StartPlain(i)
  PROVE  SoundAt(i)'
<1>1. /\ UNCHANGED <<entries, cards, cur, resv, att, shown, acked, due, restarts, writeFails>> /\ sess[i] = "none"
      /\ att[i] = Idle /\ ~Recorded(i) /\ i \in TaskIds
      /\ i \notin due /\ shown[i] = {} /\ \A c \in Cards : cards[i][c] = "none"
  BY DEF StartPlain, Fresh, durable, remote, budget
<1>2. sess'[i] = "running" BY <1>1 DEF StartPlain, TypeInv, TypeOK
<1>4. acked[i] = 0 BY <1>1, TypesAt DEF SoundAt, Counted
<1>5. Counted(i)' BY <1>1, <1>4, PcsApart, CountedKept DEF SoundAt
<1>6. CardsFit(i)'
  BY <1>1, <1>2, TypesAt, PcsApart DEF CardsFit, RecordFits, SessionFits, FreezeFits, CloneCards, Unfrozen, Recorded, SoundAt
<1>7. Held(i)' /\ Quiet(i)' BY <1>1, <1>2, TypesAt, PcsApart DEF Held, Quiet, Recorded
<1>8. Useful(i)' BY <1>1, TypesAt, PcsApart DEF Useful, Recorded
<1>9. Decided(i)'
  BY <1>1, <1>2, <1>4, TypesAt, PcsApart
  DEF SoundAt, Decided, CardAgrees, Verdict, CardsFit, RecordFits, SessionFits, FreezeFits, CloneCards, Unfrozen, Recorded, Shape, Unclaimed
<1>10. OneCard(i)' /\ NotAcked(i)' /\ Belated(i)'
  BY <1>1, <1>2, <1>4, TypesAt, PcsApart
  DEF SoundAt, OneCard, NotAcked, Belated, Faultless, Quiet, Recorded, Shape, Unclaimed
<1>11. Retired(i)' /\ Awaited(i)'
  BY <1>1, <1>2, <1>4, TypesAt, PcsApart, WorkLeft
  DEF SoundAt, Retired, Awaited, CardsFit, SessionFits, FreezeFits, Recorded, Shape, Unclaimed
<1> QED BY <1>5, <1>6, <1>7, <1>8, <1>9, <1>10, <1>11 DEF SoundAt

\* No attempt is near the entry of a session that is still on its way.
LEMMA NoAttempt ==
  ASSUME NEW i \in Ids, SafeAt(i), Quiet(i), sess[i] \in Unclaimed \cup {"finished"}
  PROVE  /\ i \in TaskIds
         /\ sess[i] \in Active \/ writeFails = 0 => att[i].pc \notin AttemptPcs /\ i \notin due
BY DEF SafeAt, SessionOfTask, Undisturbed, Quiet, Unclaimed, Active

\* The reservation is refreshed with the card the session writes to, never with one it has left.
LEMMA SoundRefreshActiveStream ==
  ASSUME TypeInv, NEW i \in Ids, SafeAt(i), OwedAt(i), SoundAt(i), RefreshActiveStream(i)
  PROVE  SoundAt(i)'
<1>1. /\ UNCHANGED <<sess, cur, cards, att, shown, acked, due, restarts>>
      /\ sess[i] \in Unclaimed /\ cur[i] \in Cards /\ att[i].by # "session" /\ SaveActive(i, cur[i])
  BY TypesAt DEF RefreshActiveStream, CanWriteCard, remote
<1>2. i \in TaskIds /\ (sess[i] \in Active \/ writeFails = 0 => att[i].pc \notin AttemptPcs /\ i \notin due)
  BY <1>1, NoAttempt DEF SoundAt
<1>3. \/ /\ Recorded(i) /\ resv[i] /\ UNCHANGED <<preparing, resv, writeFails>>
         /\ Shape(entries'[i], cur[i], 0, entries[i].text, {}, entries[i].sup, FALSE)
      \/ /\ UNCHANGED <<entries, preparing, resv>> /\ writeFails' \in {writeFails, writeFails + 1}
      \/ /\ ~Recorded(i) /\ UNCHANGED writeFails /\ i \in preparing' /\ resv'[i]
         /\ Shape(entries'[i], cur[i], 0, "restart", {}, {}, FALSE)
  <2>1. Recorded(i) => Shape(Refreshed(entries[i], cur[i]), cur[i], 0, entries[i].text, {}, entries[i].sup, FALSE)
    BY TypesAt, UpdateShapes
  <2>2. Shape(RecoveryDraft(cur[i]), cur[i], 0, "restart", {}, {}, FALSE)
    BY <1>1, NewShapes
  <2> QED BY <1>1, <2>1, <2>2, FileEffects DEF SaveActive, CannotInsert, WriteFails, TypeInv, TypeOK
<1>4. resv[i] /\ Recorded(i) /\ entries[i].text = "result" => sess[i] \in Active
  BY <1>1 DEF OwedAt, RecoveryText, Unclaimed, Active
<1>5. Counted(i)'
  BY <1>1, <1>3, <1>4, <1>2, CountedKept DEF MayBeSent, AboutToSend, Owes, Recorded, Shape, SoundAt, Counted
<1>6. CardsFit(i)'
  BY <1>1, <1>3, TypesAt, PcsApart
  DEF SoundAt, CardsFit, RecordFits, SessionFits, FreezeFits, CloneCards, Unfrozen, Recorded, Shape
<1>7. Held(i)' BY <1>1, <1>3 DEF SoundAt, Held, Recorded, Shape
<1>8. Quiet(i)'
  BY TypesAt, <1>1, <1>2, <1>3, <1>4 DEF SoundAt, Quiet, Recorded, Shape, OwedAt, RecoveryText, Unclaimed
<1>9. Useful(i)'
  BY TypesAt, <1>1, <1>2, <1>3, PcsApart, WorkLeft DEF SoundAt, Useful, AsCloned, Faultless, Recorded, Shape
<1>10. Decided(i)'
  BY <1>1, <1>2, <1>3, TypesAt, PcsApart
  DEF SoundAt, Decided, CardAgrees, Verdict, CardsFit, RecordFits, SessionFits, FreezeFits, CloneCards, Unfrozen, Recorded, Shape, Unclaimed
<1>11. OneCard(i)' /\ NotAcked(i)' /\ Belated(i)'
  BY <1>1, <1>2, <1>3, TypesAt, PcsApart
  DEF SoundAt, OneCard, NotAcked, Belated, Faultless, Quiet, Recorded, Shape, Unclaimed
<1>12. Retired(i)' /\ Awaited(i)'
  BY <1>1, <1>2, <1>3, TypesAt, PcsApart, WorkLeft
  DEF SoundAt, Retired, Awaited, CardsFit, SessionFits, FreezeFits, Recorded, Shape, Unclaimed
<1> QED BY <1>5, <1>6, <1>7, <1>8, <1>9, <1>10, <1>11, <1>12 DEF SoundAt

\* The new card of a reanchor is opened; the file still names the old one.
LEMMA SoundReanchorOpen ==
  ASSUME TypeInv, NEW i \in Ids, SafeAt(i), OwedAt(i), SoundAt(i), ReanchorOpen(i)
  PROVE  SoundAt(i)'
<1>1. /\ UNCHANGED <<entries, preparing, due, sess, resv, cur, shown, acked, writeFails, restarts>>
      /\ sess[i] \in Unclaimed /\ cur[i] \in Cards /\ resv[i] /\ Recorded(i) /\ att[i].pc = "idle"
  BY TypesAt DEF ReanchorOpen, CanWriteCard, durable, budget
<1>2. \/ UNCHANGED <<att, cards>>
      \/ \E new \in Cards :
           /\ cards[i][new] = "none" /\ cards'[i][new] = "open"
           /\ \A c \in Cards \ {new} : cards'[i][c] = cards[i][c]
           /\ att'[i].pc = "opened" /\ att'[i].by = "session" /\ att'[i].card = new
           /\ att'[i].sent = {}
  <2>1. CASE UNCHANGED <<att, cards>> BY <2>1
  <2>2. ASSUME NEW new \in Unused(i), cards' = [cards EXCEPT ![i][new] = "open"],
               att' = [att EXCEPT ![i] = [Idle EXCEPT !.pc = "opened", !.by = "session", !.card = new]]
        PROVE  /\ cards[i][new] = "none" /\ cards'[i][new] = "open" /\ new \in Cards
               /\ \A c \in Cards \ {new} : cards'[i][c] = cards[i][c]
               /\ att'[i].pc = "opened" /\ att'[i].by = "session" /\ att'[i].card = new
               /\ att'[i].sent = {}
    BY <2>2 DEF TypeInv, TypeOK, Idle, Unused
  <2> QED BY <2>1, <2>2 DEF ReanchorOpen
<1>3. Counted(i)'
  BY <1>1, <1>2, PcsApart, CountedKept DEF MayBeSent, AboutToSend, Owes, Recorded, OwedAt, SentShown, SoundAt
<1>4. CardsFit(i)'
  BY <1>1, TypesAt, PcsApart, <1>2 DEF SoundAt, CardsFit, RecordFits, SessionFits, FreezeFits, CloneCards, Unfrozen, Recorded
<1>5. Held(i)' BY <1>1 DEF SoundAt, Held, Recorded
<1>6. Quiet(i)' BY <1>1, <1>2, PcsApart DEF SoundAt, Quiet, Recorded
<1>7. Useful(i)'
  BY <1>1, <1>2, PcsApart DEF SoundAt, Useful, Faultless, AsCloned, Recorded
<1>8. Decided(i)'
  BY <1>1, <1>2, TypesAt, PcsApart
  DEF SoundAt, Decided, CardAgrees, Verdict, CardsFit, RecordFits, SessionFits, FreezeFits, CloneCards, Unfrozen, Recorded, Shape, Unclaimed
<1>9. OneCard(i)' /\ NotAcked(i)' /\ Belated(i)'
  BY <1>1, <1>2, TypesAt, PcsApart
  DEF SoundAt, OneCard, NotAcked, Belated, Faultless, Quiet, Recorded, Shape, Unclaimed
<1>10. Retired(i)' /\ Awaited(i)'
  BY <1>1, <1>2, TypesAt, PcsApart, WorkLeft
  DEF SoundAt, Retired, Awaited, CardsFit, SessionFits, FreezeFits, Recorded, Shape, Unclaimed
<1> QED BY <1>3, <1>4, <1>5, <1>6, <1>7, <1>8, <1>9, <1>10 DEF SoundAt

\* The file moves to the new card and records the freeze of the old one in the same write (reanchorStreamReservation).
LEMMA SoundReanchorPersist ==
  ASSUME TypeInv, NEW i \in Ids, SafeAt(i), OwedAt(i), SoundAt(i), ReanchorPersist(i)
  PROVE  SoundAt(i)'
<1>1. /\ UNCHANGED <<preparing, due, sess, resv, shown, acked, restarts>>
      /\ att[i].pc = "opened" /\ att[i].card \in Cards /\ cur[i] \in Cards /\ 0 \notin Cards
      /\ sess[i] \in Unclaimed /\ resv[i] /\ Unfrozen(i, att[i].card)
      /\ cards[i][att[i].card] # "none" /\ att[i].card # cur[i] /\ Unfrozen(i, cur[i])
  BY TypesAt, PcsApart DEF ReanchorPersist, SoundAt, CardsFit, FreezeFits, SessionFits
<1>2. \/ /\ Recorded(i) /\ UNCHANGED <<writeFails, cards>>
         /\ Shape(entries'[i], att[i].card, 0, entries[i].text, {}, entries[i].sup \cup {cur[i]}, FALSE)
         /\ att'[i].pc = "persisted" /\ att'[i].card = cur[i] /\ att'[i].sent = {}
         /\ cur'[i] = att[i].card
      \/ /\ UNCHANGED <<entries, cur>> /\ att'[i] = Idle
         /\ \/ Recorded(i) /\ writeFails' = writeFails + 1
            \/ ~Recorded(i) /\ UNCHANGED writeFails
         /\ cards'[i][att[i].card] \in {"frozen", "open"}
         /\ \A c \in Cards \ {att[i].card} : cards'[i][c] = cards[i][c]
  <2>1. Recorded(i) => Shape(Reanchored(entries[i], att[i].card, cur[i]), att[i].card, 0, entries[i].text, {},
                             entries[i].sup \cup {cur[i]}, FALSE)
    BY <1>1, TypesAt, PendingShapes
  <2>2. CASE /\ Recorded(i) /\ Put(i, Reanchored(entries[i], att[i].card, cur[i]))
             /\ att' = [att EXCEPT ![i].pc = "persisted", ![i].card = cur[i]]
             /\ cur' = [cur EXCEPT ![i] = att[i].card]
             /\ UNCHANGED <<writeFails, cards>>
    BY <2>2, <1>1, TypesAt, <2>1, FileEffects DEF TypeInv, TypeOK, OwedAt, SentShown, Holder
  <2>3. CASE /\ (Recorded(i) /\ WriteFails) \/ (~Recorded(i) /\ UNCHANGED writeFails)
             /\ \E state \in {"frozen", "open"} : cards' = [cards EXCEPT ![i][att[i].card] = state]
             /\ att' = [att EXCEPT ![i] = Idle]
             /\ UNCHANGED <<entries, cur>>
    <3>1. PICK state \in {"frozen", "open"} : cards' = [cards EXCEPT ![i][att[i].card] = state]
      BY <2>3
    <3>2. cards'[i][att[i].card] = state /\ \A c \in Cards \ {att[i].card} : cards'[i][c] = cards[i][c]
      BY <1>1, <3>1 DEF TypeInv, TypeOK
    <3>3. att'[i] = Idle BY <2>3 DEF TypeInv, TypeOK
    <3> QED BY <2>3, <3>2, <3>3 DEF WriteFails
  <2> QED BY <2>2, <2>3 DEF ReanchorPersist
<1>3. i \in TaskIds BY <1>1, NoAttempt DEF SoundAt
<1>4. Recorded(i) /\ entries[i].text = "result" => sess[i] \in Active
  BY <1>1 DEF OwedAt, RecoveryText, Unclaimed, Active
<1>5. Counted(i)'
  BY <1>1, <1>2, <1>4, PcsApart, CountedKept DEF MayBeSent, AboutToSend, Owes, Recorded, OwedAt, SentShown, Shape, SoundAt
<1>6. CardsFit(i)'
  BY <1>1, <1>2, TypesAt, PcsApart
  DEF SoundAt, CardsFit, RecordFits, SessionFits, FreezeFits, CloneCards, Unfrozen, Recorded, Shape
<1>7. Held(i)' BY <1>1, <1>2 DEF SoundAt, Held, Recorded, Shape
<1>8. Quiet(i)' BY TypesAt, <1>1, <1>2, PcsApart DEF SoundAt, Quiet, Recorded, Shape
<1>9. Useful(i)'
  BY TypesAt, <1>1, <1>2, PcsApart, WorkLeft DEF SoundAt, Useful, AsCloned, Faultless, Recorded, Shape
<1>10. Decided(i)'
  BY <1>1, <1>2, <1>3, TypesAt, PcsApart
  DEF SoundAt, Decided, CardAgrees, Verdict, CardsFit, RecordFits, SessionFits, FreezeFits, CloneCards, Unfrozen, Recorded, Shape, Unclaimed
<1>11. OneCard(i)' /\ NotAcked(i)' /\ Belated(i)'
  BY <1>1, <1>2, <1>3, TypesAt, PcsApart
  DEF SoundAt, OneCard, NotAcked, Belated, Faultless, Quiet, Recorded, Shape, Unclaimed
<1>12. Retired(i)' /\ Awaited(i)'
  BY <1>1, <1>2, <1>3, TypesAt, PcsApart, WorkLeft
  DEF SoundAt, Retired, Awaited, CardsFit, SessionFits, FreezeFits, Recorded, Shape, Unclaimed
<1> QED BY <1>5, <1>6, <1>7, <1>8, <1>9, <1>10, <1>11, <1>12 DEF SoundAt

\* A session without a reservation moves to a new card and records it first.
LEMMA SoundReanchorUnreserved ==
  ASSUME TypeInv, NEW i \in Ids, SafeAt(i), OwedAt(i), SoundAt(i), ReanchorUnreserved(i)
  PROVE  SoundAt(i)'
<1>1. /\ UNCHANGED <<att, due, sess, shown, acked, restarts>>
      /\ sess[i] \in Unclaimed /\ cur[i] \in Cards /\ 0 \notin Cards /\ ~Recorded(i) /\ att[i].pc = "idle"
      /\ Unfrozen(i, cur[i])
  BY TypesAt DEF ReanchorUnreserved, CanWriteCard, SoundAt, CardsFit, SessionFits
<1>2. \E new \in Cards :
        /\ cards[i][new] = "none"
        /\ \/ /\ Shape(entries'[i], new, 0, "restart", {}, {}, FALSE)
              /\ i \in preparing' /\ resv'[i] /\ cur'[i] = new /\ UNCHANGED writeFails
              /\ cards'[i][new] = "open" /\ cards'[i][cur[i]] \in {"frozen", "open"}
              /\ \A c \in Cards \ {new, cur[i]} : cards'[i][c] = cards[i][c]
           \/ /\ UNCHANGED <<entries, resv, cur>> /\ writeFails' \in {writeFails, writeFails + 1}
              /\ cards'[i][new] \in {"frozen", "open"}
              /\ \A c \in Cards \ {new} : cards'[i][c] = cards[i][c]
  <2>1. PICK new \in Unused(i), state \in {"frozen", "open"} :
       \/ /\ Insert(i, RecoveryDraft(new))
          /\ preparing' = preparing \cup {i}
          /\ resv' = [resv EXCEPT ![i] = TRUE]
          /\ cur' = [cur EXCEPT ![i] = new]
          /\ cards' = [cards EXCEPT ![i] = [@ EXCEPT ![new] = "open", ![cur[i]] = state]]
          /\ UNCHANGED writeFails
       \/ /\ CannotInsert
          /\ cards' = [cards EXCEPT ![i][new] = state]
          /\ UNCHANGED <<entries, preparing, resv, cur>>
    BY DEF ReanchorUnreserved
  <2>2. new \in Cards /\ cards[i][new] = "none" /\ new # cur[i] /\ Shape(RecoveryDraft(new), new, 0, "restart", {}, {}, FALSE)
    BY <1>1, NewShapes DEF Unused, Unfrozen
  <2>3. CASE CannotInsert /\ cards' = [cards EXCEPT ![i][new] = state] /\ UNCHANGED <<entries, preparing, resv, cur>>
    BY <2>2, <2>3 DEF TypeInv, TypeOK, CannotInsert, WriteFails
  <2>4. CASE /\ Insert(i, RecoveryDraft(new))
          /\ preparing' = preparing \cup {i}
          /\ resv' = [resv EXCEPT ![i] = TRUE]
          /\ cur' = [cur EXCEPT ![i] = new]
          /\ cards' = [cards EXCEPT ![i] = [@ EXCEPT ![new] = "open", ![cur[i]] = state]]
          /\ UNCHANGED writeFails
    <3>1. cards'[i] = [cards[i] EXCEPT ![new] = "open", ![cur[i]] = state] /\ cards[i] \in [Cards -> CardStates]
          /\ cur'[i] = new /\ resv'[i] /\ i \in preparing'
      BY <2>4 DEF TypeInv, TypeOK
    <3>2. cards'[i][new] = "open" /\ cards'[i][cur[i]] = state /\ \A c \in Cards \ {new, cur[i]} : cards'[i][c] = cards[i][c]
      BY <1>1, <2>2, <3>1
    <3>3. entries'[i] = RecoveryDraft(new) BY <2>4, FileEffects
    <3> QED BY <2>2, <2>4, <3>1, <3>2, <3>3
  <2> QED BY <2>1, <2>3, <2>4
<1>3. i \in TaskIds /\ (sess[i] \in Active \/ writeFails = 0 => i \notin due)
  BY <1>1, NoAttempt DEF SoundAt
<1>4. PICK new \in Cards :
        /\ cards[i][new] = "none"
        /\ \/ /\ Shape(entries'[i], new, 0, "restart", {}, {}, FALSE)
              /\ i \in preparing' /\ resv'[i] /\ cur'[i] = new /\ UNCHANGED writeFails
              /\ cards'[i][new] = "open" /\ cards'[i][cur[i]] \in {"frozen", "open"}
              /\ \A c \in Cards \ {new, cur[i]} : cards'[i][c] = cards[i][c]
           \/ /\ UNCHANGED <<entries, resv, cur>> /\ writeFails' \in {writeFails, writeFails + 1}
              /\ cards'[i][new] \in {"frozen", "open"}
              /\ \A c \in Cards \ {new} : cards'[i][c] = cards[i][c]
  BY <1>2
<1>5. Counted(i)'
  BY <1>1, <1>4, PcsApart, CountedKept DEF MayBeSent, AboutToSend, Owes, Recorded, Shape, SoundAt
<1>6. CardsFit(i)'
  BY <1>1, <1>4, TypesAt, PcsApart
  DEF SoundAt, CardsFit, RecordFits, SessionFits, FreezeFits, CloneCards, Unfrozen, Recorded, Shape
<1>7. Held(i)' BY <1>1, <1>4 DEF SoundAt, Held, Recorded, Shape
<1>8. Quiet(i)'
  BY TypesAt, <1>1, <1>3, <1>4, PcsApart DEF SoundAt, Quiet, Recorded, Shape, Unclaimed
<1>9. Useful(i)'
  BY TypesAt, <1>1, <1>4, PcsApart, WorkLeft DEF SoundAt, Useful, AsCloned, Faultless, Recorded, Shape
<1>10. Decided(i)'
  BY <1>1, <1>3, <1>4, TypesAt, PcsApart
  DEF SoundAt, Decided, CardAgrees, Verdict, CardsFit, RecordFits, SessionFits, FreezeFits, CloneCards, Unfrozen, Recorded, Shape, Unclaimed
<1>11. OneCard(i)' /\ NotAcked(i)' /\ Belated(i)'
  BY <1>1, <1>3, <1>4, TypesAt, PcsApart
  DEF SoundAt, OneCard, NotAcked, Belated, Faultless, Quiet, Recorded, Shape, Unclaimed
<1>12. Retired(i)' /\ Awaited(i)'
  BY <1>1, <1>3, <1>4, TypesAt, PcsApart, WorkLeft
  DEF SoundAt, Retired, Awaited, CardsFit, SessionFits, FreezeFits, Recorded, Shape, Unclaimed
<1> QED BY <1>5, <1>6, <1>7, <1>8, <1>9, <1>10, <1>11, <1>12 DEF SoundAt

\* A detached session leaves the freeze of its card and no text (detachStreamReservation).
LEMMA SoundDetach ==
  ASSUME TypeInv, NEW i \in Ids, SafeAt(i), OwedAt(i), SoundAt(i), Detach(i)
  PROVE  SoundAt(i)'
<1>1. /\ UNCHANGED <<cur, due, shown, acked, restarts>>
      /\ i \in TaskIds /\ sess[i] = "running" /\ att[i].by # "session" /\ att[i].pc # "opened" /\ i \notin due
      /\ att[i].pc \notin AttemptPcs
  BY NoAttempt, PcsApart DEF Detach, SoundAt, CardsFit, FreezeFits, Unclaimed, Active
<1>2. sess'[i] = "closed" BY DEF Detach, TypeInv, TypeOK
<1>3. \/ /\ Recorded(i) /\ cur[i] \in Cards /\ UNCHANGED <<cards, writeFails>>
         /\ Shape(entries'[i], 0, 0, "none", Stages, entries[i].sup \cup {cur[i]}, FALSE)
         /\ att'[i].pc = "persisted" /\ att'[i].card = cur[i] /\ att'[i].sent = {}
      \/ /\ UNCHANGED <<entries, att, preparing, cards>> /\ writeFails' = writeFails + 1
      \/ /\ UNCHANGED <<entries, att, preparing, writeFails, cards>>
      \/ /\ UNCHANGED <<entries, att, preparing, writeFails>>
         /\ cur[i] \in Cards /\ ~Recorded(i) /\ cards'[i][cur[i]] = "frozen"
         /\ \A c \in Cards \ {cur[i]} : cards'[i][c] = cards[i][c]
  <2>1. cur[i] # 0 => cur[i] \in Cards BY TypesAt
  <2>2. CASE /\ Recorded(i) /\ cur[i] # 0 /\ Put(i, Detached(entries[i], cur[i])) /\ UNCHANGED <<cards, writeFails>>
             /\ att' = [att EXCEPT ![i] = [Idle EXCEPT !.pc = "persisted", !.by = "session", !.card = cur[i]]]
    <3>1. att'[i] = [Idle EXCEPT !.pc = "persisted", !.by = "session", !.card = cur[i]]
      BY <2>2 DEF TypeInv, TypeOK
    <3>2. att'[i].pc = "persisted" /\ att'[i].card = cur[i] /\ att'[i].sent = {}
      BY <3>1 DEF Idle
    <3>3. Shape(Detached(entries[i], cur[i]), 0, 0, "none", Stages, entries[i].sup \cup {cur[i]}, FALSE)
      BY <2>1, <2>2, TypesAt, PendingShapes
    <3> QED BY <2>1, <2>2, <3>2, <3>3, FileEffects
  <2>3. CASE ~resv[i] /\ cur[i] # 0 /\ cards' = [cards EXCEPT ![i][cur[i]] = "frozen"]
             /\ UNCHANGED <<entries, att, preparing, writeFails>>
    BY <2>1, <2>3, <1>1 DEF TypeInv, TypeOK, SoundAt, CardsFit, SessionFits
  <2> QED BY <2>2, <2>3 DEF Detach, WriteFails
<1>4. Counted(i)'
  BY <1>1, <1>2, <1>3, PcsApart, CountedKept DEF MayBeSent, AboutToSend, Owes, Recorded, Shape, Active, SoundAt
<1>5. CardsFit(i)'
  BY <1>1, <1>2, <1>3, TypesAt, PcsApart
  DEF SoundAt, CardsFit, RecordFits, SessionFits, FreezeFits, CloneCards, Unfrozen, Recorded, Shape, Unclaimed
<1>6. Held(i)' /\ Quiet(i)'
  BY TypesAt, <1>1, <1>2, <1>3, PcsApart DEF SoundAt, Held, Quiet, Recorded, Shape
<1>7. Useful(i)'
  BY TypesAt, <1>1, <1>3, PcsApart DEF SoundAt, Useful, AsCloned, Faultless, Recorded, Shape
<1>8. Decided(i)'
  BY <1>1, <1>2, <1>3, TypesAt, PcsApart
  DEF SoundAt, Decided, CardAgrees, Verdict, CardsFit, RecordFits, SessionFits, FreezeFits, CloneCards, Unfrozen, Recorded, Shape, Unclaimed
<1>9. OneCard(i)' /\ NotAcked(i)' /\ Belated(i)'
  BY <1>1, <1>2, <1>3, TypesAt, PcsApart
  DEF SoundAt, OneCard, NotAcked, Belated, Faultless, Quiet, Recorded, Shape, Unclaimed
<1>10. Retired(i)' /\ Awaited(i)'
  BY <1>1, <1>2, <1>3, TypesAt, PcsApart, WorkLeft
  DEF SoundAt, Retired, Awaited, CardsFit, SessionFits, FreezeFits, Recorded, Shape, Unclaimed
<1> QED BY <1>4, <1>5, <1>6, <1>7, <1>8, <1>9, <1>10 DEF SoundAt

\* What a discarded reservation leaves in the file.
LEMMA DiscardLeaves ==
  ASSUME TypeInv, NEW i \in Ids, Discard(i) \/ DiscardActive(i)
  PROVE  \/ /\ Recorded(i) /\ UNCHANGED writeFails
            /\ \/ entries[i].sup = {} /\ entries'[i] = NoEntry
               \/ /\ entries[i].sup # {}
                  /\ Shape(entries'[i], 0, 0, "none", Stages, entries[i].sup, FALSE)
         \/ /\ entries'[i] = entries[i] /\ (Recorded(i) => UNCHANGED preparing)
            /\ writeFails' \in {writeFails, writeFails + 1}
<1>1. Recorded(i) => Shape(Blank(entries[i]), 0, 0, "none", Stages, entries[i].sup, FALSE)
  BY TypesAt, UpdateShapes
<1> QED BY <1>1, FileEffects DEF Discard, DiscardActive, WriteFails

\* A session that is abandoned takes its reservation along.
LEMMA SoundAbandon ==
  ASSUME TypeInv, NEW i \in Ids, SafeAt(i), OwedAt(i), SoundAt(i), Abandon(i)
  PROVE  SoundAt(i)'
<1>1. /\ UNCHANGED <<cur, due, cards, att, shown, acked, restarts>> /\ DiscardActive(i)
      /\ i \in TaskIds /\ sess[i] = "running" /\ att[i].pc # "opened" /\ i \notin due /\ att[i].pc \notin AttemptPcs
  BY NoAttempt, PcsApart DEF Abandon, SoundAt, CardsFit, FreezeFits, Unclaimed, Active, remote
<1>2. sess'[i] = "closed" BY DEF Abandon, TypeInv, TypeOK
<1>3. \/ /\ Recorded(i) /\ UNCHANGED writeFails
         /\ \/ entries'[i] = NoEntry
            \/ entries[i].sup # {} /\ Shape(entries'[i], 0, 0, "none", Stages, entries[i].sup, FALSE)
      \/ /\ entries'[i] = entries[i] /\ (Recorded(i) => UNCHANGED preparing)
         /\ writeFails' \in {writeFails, writeFails + 1}
  BY <1>1, DiscardLeaves
<1>4. Counted(i)'
  BY <1>1, <1>2, <1>3, PcsApart, CountedKept DEF MayBeSent, AboutToSend, Owes, Recorded, Shape, Active, SoundAt
<1>5. CardsFit(i)'
  BY <1>1, <1>2, <1>3, TypesAt, PcsApart
  DEF SoundAt, CardsFit, RecordFits, SessionFits, FreezeFits, CloneCards, Unfrozen, Recorded, Shape, Unclaimed
<1>6. Held(i)' /\ Quiet(i)'
  BY TypesAt, <1>1, <1>2, <1>3, PcsApart DEF SoundAt, Held, Quiet, Recorded, Shape
<1>7. Useful(i)'
  BY TypesAt, <1>1, <1>3, PcsApart DEF SoundAt, Useful, AsCloned, Faultless, Recorded, Shape
<1>8. Decided(i)'
  BY <1>1, <1>2, <1>3, TypesAt, PcsApart
  DEF SoundAt, Decided, CardAgrees, Verdict, CardsFit, RecordFits, SessionFits, FreezeFits, CloneCards, Unfrozen, Recorded, Shape, Unclaimed
<1>9. OneCard(i)' /\ NotAcked(i)' /\ Belated(i)'
  BY <1>1, <1>2, <1>3, TypesAt, PcsApart
  DEF SoundAt, OneCard, NotAcked, Belated, Faultless, Quiet, Recorded, Shape, Unclaimed
<1>10. Retired(i)' /\ Awaited(i)'
  BY <1>1, <1>2, <1>3, TypesAt, PcsApart, WorkLeft
  DEF SoundAt, Retired, Awaited, CardsFit, SessionFits, FreezeFits, Recorded, Shape, Unclaimed
<1> QED BY <1>4, <1>5, <1>6, <1>7, <1>8, <1>9, <1>10 DEF SoundAt

\* The legacy path drops the reservation, or leaves it when the write fails.
LEMMA SoundLegacyDiscard ==
  ASSUME TypeInv, NEW i \in Ids, SafeAt(i), OwedAt(i), SoundAt(i), LegacyDiscard(i)
  PROVE  SoundAt(i)'
<1>1. /\ UNCHANGED <<cur, due, cards, att, acked, restarts>> /\ DiscardActive(i)
      /\ i \in TaskIds /\ sess[i] = "finished" /\ att[i].pc # "opened"
      /\ (writeFails = 0 => i \notin due /\ att[i].pc \notin AttemptPcs)
      /\ shown[i] \subseteq shown'[i] /\ shown'[i] \subseteq shown[i] \cup {"result"}
  BY NoAttempt, PcsApart DEF LegacyDiscard, BestEffort, TypeInv, TypeOK, SoundAt, CardsFit, FreezeFits, Unclaimed
<1>2. sess'[i] = "closed" BY DEF LegacyDiscard, TypeInv, TypeOK
<1>3. \/ /\ Recorded(i) /\ UNCHANGED writeFails
         /\ \/ entries'[i] = NoEntry
            \/ entries[i].sup # {} /\ Shape(entries'[i], 0, 0, "none", Stages, entries[i].sup, FALSE)
      \/ /\ entries'[i] = entries[i] /\ (Recorded(i) => UNCHANGED preparing)
         /\ writeFails' \in {writeFails, writeFails + 1}
  BY <1>1, DiscardLeaves
<1>4. Counted(i)'
  BY <1>1, <1>2, <1>3, CountedKept DEF MayBeSent, AboutToSend, Owes, Recorded, Shape, Active, SoundAt, Counted
<1>5. CardsFit(i)'
  BY <1>1, <1>2, <1>3, TypesAt, PcsApart
  DEF SoundAt, CardsFit, RecordFits, SessionFits, FreezeFits, CloneCards, Unfrozen, Recorded, Shape, Unclaimed
<1>6. Held(i)' /\ Quiet(i)'
  BY TypesAt, <1>1, <1>2, <1>3, PcsApart DEF SoundAt, Held, Quiet, Recorded, Shape
<1>7. Useful(i)'
  BY TypesAt, <1>1, <1>3, PcsApart DEF SoundAt, Useful, AsCloned, Faultless, Recorded, Shape
<1>8. Decided(i)'
  BY <1>1, <1>2, <1>3, TypesAt, PcsApart
  DEF SoundAt, Decided, CardAgrees, Verdict, CardsFit, RecordFits, SessionFits, FreezeFits, CloneCards, Unfrozen, Recorded, Shape, Unclaimed
<1>9. OneCard(i)' /\ NotAcked(i)' /\ Belated(i)'
  BY <1>1, <1>2, <1>3, TypesAt, PcsApart
  DEF SoundAt, OneCard, NotAcked, Belated, Faultless, Quiet, Recorded, Shape, Unclaimed
<1>10. Retired(i)' /\ Awaited(i)'
  BY <1>1, <1>2, <1>3, TypesAt, PcsApart, WorkLeft
  DEF SoundAt, Retired, Awaited, CardsFit, SessionFits, FreezeFits, Recorded, Shape, Unclaimed
<1> QED BY <1>4, <1>5, <1>6, <1>7, <1>8, <1>9, <1>10 DEF SoundAt

\* A session without a card reserves its result.
LEMMA SoundReserveResult ==
  ASSUME TypeInv, NEW i \in Ids, SafeAt(i), OwedAt(i), SoundAt(i), ReserveResult(i)
  PROVE  SoundAt(i)'
<1>1. /\ UNCHANGED <<cur, due, cards, att, shown, acked, resv, restarts>>
      /\ i \in TaskIds /\ sess[i] = "running" /\ ~Recorded(i) /\ i \notin due /\ att[i].pc \notin AttemptPcs
  BY NoAttempt DEF ReserveResult, SoundAt, Unclaimed, Active, remote
<1>2. \/ /\ sess'[i] = "reserved" /\ UNCHANGED writeFails /\ i \in preparing'
         /\ \E t \in {"result", "stub"} : Shape(entries'[i], 0, 0, t, {}, {}, FALSE)
      \/ /\ sess'[i] = "legacy" /\ UNCHANGED entries /\ writeFails' \in {writeFails, writeFails + 1}
  BY NewShapes, FileEffects DEF FinalTexts, Texts, ReserveResult, CannotInsert, WriteFails, TypeInv, TypeOK
<1>3. Counted(i)' BY <1>1, <1>2, PcsApart, CountedKept DEF MayBeSent, Active, SoundAt
<1>4. CardsFit(i)'
  BY <1>1, <1>2, TypesAt, PcsApart
  DEF SoundAt, CardsFit, RecordFits, SessionFits, FreezeFits, CloneCards, Unfrozen, Recorded, Shape, Unclaimed
<1>5. Held(i)' /\ Quiet(i)'
  BY TypesAt, <1>1, <1>2, PcsApart DEF SoundAt, Held, Quiet, Recorded, Shape
<1>6. Useful(i)'
  BY TypesAt, <1>1, <1>2, PcsApart, WorkLeft DEF SoundAt, Useful, AsCloned, Faultless, Recorded, Shape
<1>7. Decided(i)'
  BY <1>1, <1>2, TypesAt, PcsApart
  DEF SoundAt, Decided, CardAgrees, Verdict, CardsFit, RecordFits, SessionFits, FreezeFits, CloneCards, Unfrozen, Recorded, Shape, Unclaimed
<1>8. OneCard(i)' /\ NotAcked(i)' /\ Belated(i)'
  BY <1>1, <1>2, TypesAt, PcsApart
  DEF SoundAt, OneCard, NotAcked, Belated, Faultless, Quiet, Recorded, Shape, Unclaimed
<1>9. Retired(i)' /\ Awaited(i)'
  BY <1>1, <1>2, TypesAt, PcsApart, WorkLeft
  DEF SoundAt, Retired, Awaited, CardsFit, SessionFits, FreezeFits, Recorded, Shape, Unclaimed
<1> QED BY <1>3, <1>4, <1>5, <1>6, <1>7, <1>8, <1>9 DEF SoundAt

\* The result replaces the text for a restart (stageReservationResult).
LEMMA SoundStage ==
  ASSUME TypeInv, NEW i \in Ids, SafeAt(i), OwedAt(i), SoundAt(i), Stage(i)
  PROVE  SoundAt(i)'
<1>1. /\ UNCHANGED <<cur, due, cards, att, shown, acked, resv, preparing, restarts, writeFails>>
      /\ i \in TaskIds /\ sess[i] \in {"running", "reserved"} /\ Recorded(i) /\ i \notin due /\ att[i].pc \notin AttemptPcs
      /\ sess'[i] = "staged"
  BY NoAttempt DEF Stage, Staging, SoundAt, Unclaimed, Active, remote, budget, TypeInv, TypeOK
<1>2. PICK t \in {"result", "stub"} :
        Shape(entries'[i], entries[i].stream, entries[i].ckpt, t, {}, entries[i].sup, FALSE)
  <2>1. PICK t \in StageTexts(i) : Put(i, Staged(entries[i], t)) BY DEF Stage
  <2>2. t \in {"result", "stub"} /\ t \in Texts
    BY <1>1 DEF StageTexts, FinalTexts, SoundAt, Held, Texts
  <2>3. Shape(Staged(entries[i], t), entries[i].stream, entries[i].ckpt, t, {}, entries[i].sup, FALSE)
    BY <1>1, <2>2, TypesAt, UpdateShapes
  <2>4. entries'[i] = Staged(entries[i], t) BY <2>1, FileEffects
  <2> QED BY <2>2, <2>3, <2>4
<1>3. Counted(i)' BY <1>1, PcsApart, CountedKept DEF MayBeSent, Active, SoundAt
<1>4. CardsFit(i)'
  BY <1>1, <1>2, TypesAt, PcsApart
  DEF SoundAt, CardsFit, RecordFits, SessionFits, FreezeFits, CloneCards, Unfrozen, Recorded, Shape, Unclaimed
<1>5. Held(i)' /\ Quiet(i)'
  BY <1>1, <1>2, PcsApart DEF SoundAt, Held, Quiet, Recorded, Shape
<1>6. Useful(i)'
  BY <1>1, <1>2, PcsApart, WorkLeft DEF SoundAt, Useful, AsCloned, Faultless, Recorded, Shape
<1>7. Decided(i)'
  BY <1>1, <1>2, TypesAt, PcsApart
  DEF SoundAt, Decided, CardAgrees, Verdict, CardsFit, RecordFits, SessionFits, FreezeFits, CloneCards, Unfrozen, Recorded, Shape, Unclaimed
<1>8. OneCard(i)' /\ NotAcked(i)' /\ Belated(i)'
  BY <1>1, <1>2, TypesAt, PcsApart
  DEF SoundAt, OneCard, NotAcked, Belated, Faultless, Quiet, Recorded, Shape, Unclaimed
<1>9. Retired(i)' /\ Awaited(i)'
  BY <1>1, <1>2, TypesAt, PcsApart, WorkLeft
  DEF SoundAt, Retired, Awaited, CardsFit, SessionFits, FreezeFits, Recorded, Shape, Unclaimed
<1> QED BY <1>3, <1>4, <1>5, <1>6, <1>7, <1>8, <1>9 DEF SoundAt

\* A result that cannot be staged leaves the reservation to the legacy path.
LEMMA SoundStageFails ==
  ASSUME TypeInv, NEW i \in Ids, SafeAt(i), OwedAt(i), SoundAt(i), StageFails(i)
  PROVE  SoundAt(i)'
<1>1. /\ UNCHANGED <<entries, cur, due, cards, att, shown, acked, resv, restarts>>
      /\ i \in TaskIds /\ sess[i] \in {"running", "reserved"} /\ i \notin due /\ att[i].pc \notin AttemptPcs
      /\ sess'[i] = "legacy" /\ (writeFails' = writeFails + 1 \/ (~Recorded(i) /\ UNCHANGED writeFails))
  BY NoAttempt DEF StageFails, Staging, SoundAt, Unclaimed, Active, remote, durable, WriteFails, TypeInv, TypeOK
<1>2. writeFails \in Nat BY TypesAt
<1>3. Counted(i)' BY <1>1, PcsApart, CountedKept DEF MayBeSent, Active, SoundAt
<1>4. CardsFit(i)'
  BY <1>1, TypesAt, PcsApart
  DEF SoundAt, CardsFit, RecordFits, SessionFits, FreezeFits, CloneCards, Unfrozen, Recorded, Unclaimed
<1>5. Held(i)' /\ Quiet(i)' /\ Useful(i)'
  BY <1>1, <1>2, PcsApart DEF SoundAt, Held, Quiet, Useful, AsCloned, Faultless, Recorded
<1>6. Decided(i)'
  BY <1>1, <1>2, TypesAt, PcsApart
  DEF SoundAt, Decided, CardAgrees, Verdict, CardsFit, RecordFits, SessionFits, FreezeFits, CloneCards, Unfrozen, Recorded, Shape, Unclaimed
<1>7. OneCard(i)' /\ NotAcked(i)' /\ Belated(i)'
  BY <1>1, <1>2, TypesAt, PcsApart
  DEF SoundAt, OneCard, NotAcked, Belated, Faultless, Quiet, Recorded, Shape, Unclaimed
<1>8. Retired(i)' /\ Awaited(i)'
  BY <1>1, <1>2, TypesAt, PcsApart, WorkLeft
  DEF SoundAt, Retired, Awaited, CardsFit, SessionFits, FreezeFits, Recorded, Shape, Unclaimed
<1> QED BY <1>3, <1>4, <1>5, <1>6, <1>7, <1>8 DEF SoundAt

\* The result is committed with its checkpoint: from here on the worker may send it.
LEMMA SoundCommit ==
  ASSUME TypeInv, NEW i \in Ids, SafeAt(i), OwedAt(i), SoundAt(i), Commit(i)
  PROVE  SoundAt(i)'
<1>1. /\ UNCHANGED <<cur, due, cards, att, shown, acked, resv, restarts>>
      /\ i \in TaskIds /\ sess[i] = "staged" /\ i \notin due /\ att[i].pc \notin AttemptPcs
      /\ att[i].pc # "opened" /\ sess'[i] = "committed"
      /\ Recorded(i) /\ entries[i].text \in {"result", "stub"} /\ entries[i].done = {}
  BY NoAttempt, PcsApart DEF Commit, SoundAt, CardsFit, FreezeFits, Held, Unclaimed, Active, remote, TypeInv, TypeOK
<1>2. \/ UNCHANGED writeFails /\ \E k \in {0, cur[i]} :
           Shape(entries'[i], IF k = 0 THEN entries[i].stream ELSE 0, k,
                 IF entries[i].text = "stub" /\ k # 0 THEN "none" ELSE entries[i].text, {}, entries[i].sup, FALSE)
      \/ UNCHANGED entries /\ writeFails' = writeFails + 1
  <2>1. ASSUME NEW k \in {0, cur[i]}, Put(i, Committed(entries[i], k))
        PROVE  Shape(entries'[i], IF k = 0 THEN entries[i].stream ELSE 0, k,
                     IF entries[i].text = "stub" /\ k # 0 THEN "none" ELSE entries[i].text, {}, entries[i].sup, FALSE)
    <3>1. k \in 0 .. MaxCards /\ entries[i] \in Entry BY <1>1, TypesAt, BoundsAssumption
    <3>2. entries'[i] = Committed(entries[i], k) BY <2>1, FileEffects
    <3> QED BY <3>1, <3>2, UpdateShapes
  <2> QED BY <1>1, <2>1 DEF Commit, WriteFails
<1>3. Counted(i)' BY <1>1, <1>2, PcsApart, CountedKept DEF MayBeSent, Active, SoundAt
<1>4. CardsFit(i)'
  BY <1>1, <1>2, TypesAt, PcsApart
  DEF SoundAt, CardsFit, RecordFits, SessionFits, FreezeFits, CloneCards, Unfrozen, Recorded, Shape, Unclaimed
<1>5. Held(i)' /\ Quiet(i)'
  BY TypesAt, <1>1, <1>2, PcsApart DEF SoundAt, Held, Quiet, Recorded, Shape
<1>6. Useful(i)'
  BY TypesAt, <1>1, <1>2, PcsApart, WorkLeft DEF SoundAt, Useful, AsCloned, Faultless, Recorded, Shape
<1>7. Decided(i)'
  BY <1>1, <1>2, TypesAt, PcsApart
  DEF SoundAt, Decided, CardAgrees, Verdict, CardsFit, RecordFits, SessionFits, FreezeFits, CloneCards, Unfrozen, Recorded, Shape, Unclaimed
<1>8. OneCard(i)' /\ NotAcked(i)' /\ Belated(i)'
  BY <1>1, <1>2, TypesAt, PcsApart
  DEF SoundAt, OneCard, NotAcked, Belated, Faultless, Quiet, Recorded, Shape, Unclaimed
<1>9. Retired(i)' /\ Awaited(i)'
  BY <1>1, <1>2, TypesAt, PcsApart, WorkLeft
  DEF SoundAt, Retired, Awaited, CardsFit, SessionFits, FreezeFits, Recorded, Shape, Unclaimed
<1> QED BY <1>3, <1>4, <1>5, <1>6, <1>7, <1>8, <1>9 DEF SoundAt

\* The legacy path finishes the card itself and sends the result outside the outbox.
LEMMA SoundLegacyFinish ==
  ASSUME TypeInv, NEW i \in Ids, SafeAt(i), OwedAt(i), SoundAt(i), LegacyFinish(i)
  PROVE  SoundAt(i)'
<1>1. /\ UNCHANGED <<entries, preparing, cur, due, att, acked, resv, restarts, writeFails>>
      /\ i \in TaskIds /\ sess[i] = "legacy" /\ att[i].pc # "opened" /\ sess'[i] \in {"finished", "closed"}
  BY NoAttempt, PcsApart DEF LegacyFinish, SoundAt, CardsFit, FreezeFits, Unclaimed, durable, budget, TypeInv, TypeOK
<1>2. shown[i] \subseteq shown'[i] /\ shown'[i] \subseteq shown[i] \cup {"result"}
  BY DEF LegacyFinish, BestEffort, TypeInv, TypeOK
<1>3. \/ UNCHANGED cards
      \/ /\ cur[i] \in Cards /\ cards'[i][cur[i]] = "final"
         /\ \A c \in Cards \ {cur[i]} : cards'[i][c] = cards[i][c]
  BY TypesAt DEF TypeInv, TypeOK, LegacyFinish
<1>4. Counted(i)'
  BY <1>1, <1>2, CountedKept DEF MayBeSent, AboutToSend, Owes, Recorded, Active, SoundAt, Counted
<1>5. CardsFit(i)'
  BY <1>1, <1>3, TypesAt, PcsApart
  DEF SoundAt, CardsFit, RecordFits, SessionFits, FreezeFits, CloneCards, Unfrozen, Recorded, Unclaimed
<1>6. Held(i)' /\ Quiet(i)' BY <1>1, <1>2, <1>3 DEF SoundAt, Held, Quiet, Recorded
<1>7. Useful(i)' BY <1>1 DEF SoundAt, Useful, AsCloned, Faultless, Recorded
<1>8. Decided(i)'
  BY <1>1, <1>2, <1>3, TypesAt, PcsApart
  DEF SoundAt, Decided, CardAgrees, Verdict, CardsFit, RecordFits, SessionFits, FreezeFits, CloneCards, Unfrozen, Recorded, Shape, Unclaimed, Quiet
<1>9. OneCard(i)' /\ NotAcked(i)' /\ Belated(i)'
  BY <1>1, <1>2, <1>3, TypesAt, PcsApart
  DEF SoundAt, OneCard, NotAcked, Belated, Faultless, Quiet, Recorded, Shape, Unclaimed
<1>10. Retired(i)' /\ Awaited(i)'
  BY <1>1, <1>2, <1>3, TypesAt, PcsApart, WorkLeft
  DEF SoundAt, Retired, Awaited, CardsFit, SessionFits, FreezeFits, Recorded, Shape, Unclaimed
<1> QED BY <1>4, <1>5, <1>6, <1>7, <1>8, <1>9, <1>10 DEF SoundAt

\* A finished result is queued; it belongs to no task.
LEMMA SoundEnqueue ==
  ASSUME TypeInv, NEW i \in Ids, SafeAt(i), OwedAt(i), SoundAt(i), Enqueue(i)
  PROVE  SoundAt(i)'
<1>1. /\ UNCHANGED <<cur, due, cards, att, shown, acked, resv, preparing, restarts>>
      /\ i \notin TaskIds /\ ~Recorded(i) /\ sess[i] = "none" /\ sess'[i] \in {"committed", "closed"}
  BY DEF Enqueue, remote, TypeInv, TypeOK
<1>2. \/ UNCHANGED entries /\ writeFails' \in {writeFails, writeFails + 1}
      \/ Shape(entries'[i], 0, 0, "result", {}, {}, FALSE) /\ UNCHANGED writeFails
  BY FileEffects, NewShapes DEF Enqueue, CannotInsert, WriteFails
<1>3. CardsFit(i)'
  BY <1>1, <1>2, TypesAt, PcsApart
  DEF SoundAt, CardsFit, RecordFits, SessionFits, FreezeFits, CloneCards, Unfrozen, Recorded, Shape, Unclaimed
<1>4. Useful(i)'
  BY TypesAt, <1>1, <1>2, PcsApart, WorkLeft DEF SoundAt, Useful, AsCloned, Faultless, Recorded, Shape
<1>5. Decided(i)'
  BY <1>1, <1>2, TypesAt, PcsApart
  DEF SoundAt, OneCard, Decided, CardAgrees, Verdict, CardsFit, RecordFits, SessionFits, FreezeFits, CloneCards, Unfrozen, Recorded, Shape, Unclaimed
<1>6. OneCard(i)' /\ NotAcked(i)' /\ Belated(i)'
  BY <1>1, <1>2, TypesAt, PcsApart
  DEF SoundAt, OneCard, NotAcked, Belated, Faultless, Quiet, Recorded, Shape, Unclaimed
<1>7. Retired(i)' /\ Awaited(i)'
  BY <1>1, <1>2, TypesAt, PcsApart, WorkLeft
  DEF SoundAt, Retired, Awaited, CardsFit, SessionFits, FreezeFits, Recorded, Shape, Unclaimed
<1> QED BY <1>1, <1>3, <1>4, <1>5, <1>6, <1>7 DEF SoundAt, Counted, Held, Quiet

\* What a step that keeps the fields of the entry, and the attempt on it, keeps.
LEMMA SoundFieldsKept ==
  ASSUME TypeInv, NEW i \in Ids, SafeAt(i), SoundAt(i),
         UNCHANGED <<cur, due, cards, att, shown, acked, resv, restarts, sess>>,
         i \in preparing => i \in preparing' \/ i \in startupHeld,
         writeFails' \in {writeFails, writeFails + 1},
         \/ entries'[i] = entries[i]
         \/ /\ Recorded(i)
            /\ Shape(entries'[i], entries[i].stream, entries[i].ckpt, entries[i].text, entries[i].done,
                     entries[i].sup, entries'[i].dead)
            /\ entries'[i].dead => entries[i].dead
  PROVE  SoundAt(i)'
<1>1. Counted(i)'
  BY CountedKept DEF MayBeSent, AboutToSend, Owes, Recorded, Shape, SoundAt, Counted
<1>2. CardsFit(i)'
  BY DEF SoundAt, CardsFit, RecordFits, SessionFits, FreezeFits, CloneCards, Unfrozen, Recorded, Shape
<1>3. Held(i)' /\ Quiet(i)'
  BY TypesAt DEF SoundAt, Held, Quiet, Recorded, Shape, SafeAt, HeldAtRest
<1>4. Useful(i)'
  BY TypesAt, WorkLeft DEF Shape, SoundAt, Useful, AsCloned, Faultless, Recorded
<1>5. Decided(i)'
  BY TypesAt, PcsApart
  DEF SoundAt, Decided, CardAgrees, Verdict, CardsFit, RecordFits, SessionFits, FreezeFits, CloneCards, Unfrozen, Recorded, Shape, Unclaimed
<1>6. OneCard(i)' /\ NotAcked(i)' /\ Belated(i)'
  BY TypesAt, PcsApart
  DEF SoundAt, OneCard, NotAcked, Belated, Faultless, Quiet, Recorded, Shape, Unclaimed
<1>7. Retired(i)' /\ Awaited(i)'
  BY TypesAt, PcsApart, WorkLeft
  DEF SoundAt, Retired, Awaited, CardsFit, SessionFits, FreezeFits, Recorded, Shape, Unclaimed
<1> QED BY <1>1, <1>2, <1>3, <1>4, <1>5, <1>6, <1>7 DEF SoundAt

\* The same delivery again changes neither text nor marks.
LEMMA SoundEnqueueAgain ==
  ASSUME TypeInv, NEW i \in Ids, SafeAt(i), OwedAt(i), SoundAt(i), EnqueueAgain(i)
  PROVE  SoundAt(i)'
<1>1. UNCHANGED <<cur, due, cards, att, shown, acked, resv, preparing, restarts, sess>> /\ Recorded(i)
  BY DEF EnqueueAgain, remote
<1>2. Shape(Rerouted(entries[i]), entries[i].stream, entries[i].ckpt, entries[i].text, entries[i].done, entries[i].sup, FALSE)
  BY <1>1, TypesAt, UpdateShapes
<1>3. /\ writeFails' \in {writeFails, writeFails + 1}
      /\ entries'[i] = entries[i] \/ entries'[i] = Rerouted(entries[i])
  BY FileEffects DEF EnqueueAgain, WriteFails
<1> QED BY <1>1, <1>2, <1>3, SoundFieldsKept DEF Shape

\* A redriven freeze changes neither text nor marks.
LEMMA SoundRedrivePending ==
  ASSUME TypeInv, NEW i \in Ids, SafeAt(i), OwedAt(i), SoundAt(i), RedrivePending(i)
  PROVE  SoundAt(i)'
<1>1. UNCHANGED <<cur, due, cards, att, shown, acked, resv, preparing, restarts, sess, writeFails>> /\ Recorded(i)
  BY DEF RedrivePending, remote
<1>2. PICK c \in entries[i].sup : entries'[i] = [entries[i] EXCEPT !.supDead = @ \ {c}]
  BY FileEffects DEF RedrivePending
<1>3. c \in Cards /\ entries[i] \in Entry BY <1>1, TypesAt DEF Entry
<1>4. Shape(entries'[i], entries[i].stream, entries[i].ckpt, entries[i].text, entries[i].done, entries[i].sup, entries[i].dead)
  BY <1>2, <1>3, PendingShapes
<1> QED BY <1>1, <1>4, SoundFieldsKept DEF Shape

\* A released hold belongs to no session.
LEMMA SoundReleaseHold ==
  ASSUME TypeInv, NEW i \in Ids, SafeAt(i), OwedAt(i), SoundAt(i), ReleaseHold(i)
  PROVE  SoundAt(i)'
<1>1. UNCHANGED <<entries, cur, due, cards, att, shown, acked, resv, restarts, sess, writeFails>> /\ i \in startupHeld
  BY DEF ReleaseHold, durable, remote, budget
<1> QED BY <1>1, SoundFieldsKept

\* An attempt begins with the entry as it is.
LEMMA SoundBegins ==
  ASSUME TypeInv, NEW i \in Ids, SafeAt(i), OwedAt(i), SoundAt(i), NEW who, CanBegin(i), Begin(i, who),
         UNCHANGED <<entries, cur, cards, shown, acked, resv, preparing, restarts, writeFails>>,
         due' \subseteq due,
         \/ sess'[i] = sess[i] /\ i \in due
         \/ sess[i] = "committed" /\ sess'[i] = "closed"
  PROVE  SoundAt(i)'
<1>1. Recorded(i) /\ HasWork(entries[i]) /\ att[i].pc = "idle" /\ att[i].sent = {}
  BY PcsApart DEF CanBegin, OwedAt, SentShown
<1>2. /\ att'[i].pc = "begun" /\ att'[i].copy = entries[i] /\ att'[i].run = {} /\ att'[i].sent = {}
      /\ att'[i].err = FALSE
  BY DEF Begin, TypeInv, TypeOK, Idle
<1>3. Counted(i)'
  BY <1>1, <1>2, PcsApart, CountedKept DEF MayBeSent, AboutToSend, Owes, Recorded, Active, SoundAt
<1>4. CardsFit(i)'
  BY <1>1, <1>2, PcsApart, TypesAt
  DEF SoundAt, CardsFit, RecordFits, SessionFits, FreezeFits, CloneCards, Unfrozen, Recorded, Unclaimed
<1>5. Held(i)' /\ Quiet(i)' BY <1>1, <1>2, PcsApart DEF SoundAt, Held, Quiet, Recorded
<1>6. Useful(i)'
  BY <1>1, <1>2, PcsApart DEF SoundAt, Useful, AsCloned, Faultless, Recorded
<1>7. Decided(i)'
  BY <1>1, <1>2, TypesAt, PcsApart
  DEF SoundAt, OneCard, Decided, CardAgrees, Verdict, CardsFit, RecordFits, SessionFits, FreezeFits, CloneCards, Unfrozen, Recorded, Shape, Unclaimed
<1>8. OneCard(i)' /\ NotAcked(i)' /\ Belated(i)'
  BY <1>1, <1>2, TypesAt, PcsApart
  DEF SoundAt, OneCard, NotAcked, Belated, Faultless, Quiet, Recorded, Shape, Unclaimed
<1>9. Retired(i)' /\ Awaited(i)'
  BY <1>1, <1>2, TypesAt, PcsApart, WorkLeft
  DEF SoundAt, Retired, Awaited, CardsFit, SessionFits, FreezeFits, Recorded, Shape, Unclaimed
<1> QED BY <1>3, <1>4, <1>5, <1>6, <1>7, <1>8, <1>9 DEF SoundAt

\* The worker begins with an entry it found due.
LEMMA SoundWorkerAttempt ==
  ASSUME TypeInv, NEW i \in Ids, SafeAt(i), OwedAt(i), SoundAt(i), WorkerAttempt(i)
  PROVE  SoundAt(i)'
<1>1. UNCHANGED <<entries, cur, cards, shown, acked, resv, preparing, restarts, writeFails, sess>> /\ i \in due /\ due' \subseteq due
  BY DEF WorkerAttempt, durable, remote, budget
<1>2. CASE UNCHANGED att
  <2>1. Counted(i)' /\ CardsFit(i)' /\ Held(i)' /\ Useful(i)'
    BY <1>1, <1>2 DEF SoundAt, Counted, MayBeSent, AboutToSend, Owes, CardsFit, RecordFits, SessionFits, FreezeFits,
        CloneCards, Unfrozen, Held, Useful, AsCloned, Faultless, Recorded
  <2>2. Quiet(i)' BY <1>1, <1>2 DEF SoundAt, Quiet, Recorded
  <2>3. Decided(i)' /\ OneCard(i)' /\ NotAcked(i)' /\ Belated(i)' /\ Retired(i)' /\ Awaited(i)'
    BY <1>1, <1>2 DEF SoundAt, Decided, CardAgrees, OneCard, NotAcked, Belated, Faultless, Retired, Awaited, Recorded,
        Unclaimed
  <2> QED BY <2>1, <2>2, <2>3 DEF SoundAt
<1>3. CASE CanBegin(i) /\ Begin(i, "worker") BY <1>1, <1>3, SoundBegins
<1> QED BY <1>2, <1>3 DEF WorkerAttempt

\* The producer begins its own attempt after the commit.
LEMMA SoundDirectAttempt ==
  ASSUME TypeInv, NEW i \in Ids, SafeAt(i), OwedAt(i), SoundAt(i), DirectAttempt(i)
  PROVE  SoundAt(i)'
<1>1. /\ UNCHANGED <<entries, cur, cards, shown, acked, resv, preparing, restarts, writeFails, due>>
      /\ sess[i] = "committed" /\ sess'[i] = "closed"
  BY DEF DirectAttempt, durable, remote, budget, TypeInv, TypeOK
<1>2. CASE UNCHANGED att
  <2>1. Counted(i)' /\ CardsFit(i)' /\ Held(i)' /\ Useful(i)'
    BY <1>1, <1>2 DEF SoundAt, Counted, MayBeSent, AboutToSend, Owes, CardsFit, RecordFits, SessionFits, FreezeFits,
        CloneCards, Unfrozen, Held, Useful, AsCloned, Faultless, Recorded, Active, Unclaimed
  <2>2. Quiet(i)' BY <1>1, <1>2 DEF SoundAt, Quiet, Recorded
  <2>3. Decided(i)' /\ OneCard(i)' /\ NotAcked(i)' /\ Belated(i)' /\ Retired(i)' /\ Awaited(i)'
    BY <1>1, <1>2 DEF SoundAt, Decided, CardAgrees, OneCard, NotAcked, Belated, Faultless, Retired, Awaited, Recorded,
        Unclaimed
  <2> QED BY <2>1, <2>2, <2>3 DEF SoundAt
<1>3. CASE CanBegin(i) /\ Begin(i, "direct") BY <1>1, <1>3, SoundBegins
<1> QED BY <1>2, <1>3 DEF DirectAttempt

\* The worker freezes a card that is recorded as superseded.
LEMMA SoundWorkerSupersede ==
  ASSUME TypeInv, NEW i \in Ids, SafeAt(i), OwedAt(i), SoundAt(i), WorkerSupersede(i)
  PROVE  SoundAt(i)'
<1>1. UNCHANGED <<entries, cur, cards, shown, acked, resv, preparing, restarts, writeFails, sess, due>>
  BY DEF WorkerSupersede, durable, remote, budget
<1>2. PICK c \in PendingFreezes(i) :
        att' = [att EXCEPT ![i] = [Idle EXCEPT !.pc = "persisted", !.by = "worker", !.card = c]]
  BY DEF WorkerSupersede
<1>3. Recorded(i) /\ att[i].pc = "idle" /\ c \in entries[i].sup /\ c \in Cards
  BY <1>2, TypesAt DEF PendingFreezes, Entry
<1>4. att'[i].pc = "persisted" /\ att'[i].card = c /\ att'[i].sent = {}
  BY <1>2 DEF TypeInv, TypeOK, Idle
<1>5. Counted(i)'
  BY <1>1, <1>3, <1>4, PcsApart, CountedKept DEF MayBeSent, AboutToSend, Owes, Recorded, OwedAt, SentShown, SoundAt
<1>6. CardsFit(i)'
  BY <1>1, <1>3, <1>4, PcsApart, TypesAt
  DEF SoundAt, CardsFit, RecordFits, SessionFits, FreezeFits, CloneCards, Unfrozen, Recorded
<1>7. Held(i)' /\ Quiet(i)' /\ Useful(i)'
  BY <1>1, <1>3, <1>4, PcsApart DEF SoundAt, Held, Quiet, Useful, AsCloned, Faultless, Recorded
<1>8. Decided(i)'
  BY <1>1, <1>3, <1>4, TypesAt, PcsApart
  DEF SoundAt, Decided, CardAgrees, Verdict, CardsFit, RecordFits, SessionFits, FreezeFits, CloneCards, Unfrozen, Recorded, Shape, Unclaimed
<1>9. OneCard(i)' /\ NotAcked(i)' /\ Belated(i)'
  BY <1>1, <1>3, <1>4, TypesAt, PcsApart
  DEF SoundAt, OneCard, NotAcked, Belated, Faultless, Quiet, Recorded, Shape, Unclaimed
<1>10. Retired(i)' /\ Awaited(i)'
  BY <1>1, <1>3, <1>4, TypesAt, PcsApart, WorkLeft
  DEF SoundAt, Retired, Awaited, CardsFit, SessionFits, FreezeFits, Recorded, Shape, Unclaimed
<1> QED BY <1>5, <1>6, <1>7, <1>8, <1>9, <1>10 DEF SoundAt

\* A holder that is away from the entry's session.
LEMMA AttemptApart ==
  ASSUME NEW i \in Ids, SafeAt(i), att[i].pc \in AttemptPcs
  PROVE  sess[i] \notin Active
BY DEF SafeAt, SessionOfTask, Undisturbed, Active

\* An attempt that may deliver sends what its clone has not marked.
LEMMA SoundAllow ==
  ASSUME TypeInv, NEW i \in Ids, SafeAt(i), OwedAt(i), SoundAt(i), Allow(i)
  PROVE  SoundAt(i)'
<1>1. /\ UNCHANGED <<entries, cur, cards, shown, acked, resv, preparing, restarts, writeFails, sess, due>>
      /\ att[i].pc = "begun" /\ att[i].sent = {}
  BY DEF Allow, durable, remote, budget, OwedAt, SentShown
<1>2. /\ att'[i].copy = att[i].copy /\ att'[i].sent = {} /\ att'[i].err = att[i].err
      /\ \/ att'[i].pc = "prepare" /\ att[i].copy.stream # 0
         \/ att'[i].pc = "sending" /\ att'[i].run = Undelivered(att[i].copy)
  <2>1. att[i] \in Holder /\ att' = [att EXCEPT ![i] =
       IF Unprepared(att[i].copy) THEN [att[i] EXCEPT !.pc = "prepare"]
       ELSE [att[i] EXCEPT !.pc = "sending", !.run = Undelivered(att[i].copy)]]
    BY TypesAt DEF Allow
  <2>2. att'[i] = IF Unprepared(att[i].copy) THEN [att[i] EXCEPT !.pc = "prepare"]
                  ELSE [att[i] EXCEPT !.pc = "sending", !.run = Undelivered(att[i].copy)]
    BY <2>1 DEF TypeInv, TypeOK
  <2>3. CASE Unprepared(att[i].copy) BY <2>2, <2>3, <1>1, <2>1 DEF Holder, Unprepared
  <2>4. CASE ~Unprepared(att[i].copy)
    <3> DEFINE r == Undelivered(att[i].copy)
    <3>1. att'[i] = [att[i] EXCEPT !.pc = "sending", !.run = r] BY <2>2, <2>4
    <3> HIDE DEF r
    <3>2. /\ att'[i].copy = att[i].copy /\ att'[i].sent = att[i].sent /\ att'[i].err = att[i].err
          /\ att'[i].pc = "sending" /\ att'[i].run = r
      BY TypesAt, <3>1 DEF Holder
    <3> QED BY <1>1, <3>2 DEF r
  <2> QED BY <2>3, <2>4
<1>3. Counted(i)'
  BY <1>1, <1>2, PcsApart, WorkLeft, CountedKept DEF MayBeSent, AboutToSend, Owes, Recorded, SoundAt
<1>4. CardsFit(i)'
  BY <1>1, <1>2, PcsApart
  DEF SoundAt, CardsFit, RecordFits, SessionFits, FreezeFits, CloneCards, Unfrozen, Recorded
<1>5. Held(i)' /\ Quiet(i)' BY <1>1, <1>2, PcsApart DEF SoundAt, Held, Quiet, Recorded
<1>6. Useful(i)'
  BY <1>1, <1>2, PcsApart, WorkLeft DEF SoundAt, Useful, AsCloned, Faultless, Recorded
<1>7. Decided(i)'
  BY <1>1, <1>2, TypesAt, PcsApart
  DEF SoundAt, Decided, CardAgrees, Verdict, CardsFit, RecordFits, SessionFits, FreezeFits, CloneCards, Unfrozen, Recorded, Shape, Unclaimed
<1>8. OneCard(i)' /\ NotAcked(i)' /\ Belated(i)'
  BY <1>1, <1>2, TypesAt, PcsApart
  DEF SoundAt, OneCard, NotAcked, Belated, Faultless, Quiet, Recorded, Shape, Unclaimed
<1>9. Retired(i)' /\ Awaited(i)'
  BY <1>1, <1>2, TypesAt, PcsApart, WorkLeft
  DEF SoundAt, Retired, Awaited, CardsFit, SessionFits, FreezeFits, Recorded, Shape, Unclaimed
<1> QED BY <1>3, <1>4, <1>5, <1>6, <1>7, <1>8, <1>9 DEF SoundAt

\* A deferred attempt has sent nothing.
LEMMA SoundDefer ==
  ASSUME TypeInv, NEW i \in Ids, SafeAt(i), OwedAt(i), SoundAt(i), Defer(i)
  PROVE  SoundAt(i)'
<1>1. /\ UNCHANGED <<entries, cur, cards, shown, acked, resv, preparing, restarts, writeFails, sess, due>>
      /\ att[i].pc = "begun" /\ att[i].sent = {} /\ att'[i] = Idle
  BY DEF Defer, EndAttempt, durable, remote, budget, OwedAt, SentShown, TypeInv, TypeOK
<1>2. Counted(i)'
  BY <1>1, PcsApart, CountedKept DEF MayBeSent, AboutToSend, Owes, Recorded, SoundAt
<1>3. CardsFit(i)'
  BY <1>1, PcsApart
  DEF SoundAt, CardsFit, RecordFits, SessionFits, FreezeFits, CloneCards, Unfrozen, Recorded
<1>4. Held(i)' /\ Quiet(i)' /\ Useful(i)'
  BY <1>1, PcsApart DEF SoundAt, Held, Quiet, Useful, AsCloned, Faultless, Recorded
<1>5. Decided(i)'
  BY <1>1, TypesAt, PcsApart
  DEF SoundAt, Decided, CardAgrees, Verdict, CardsFit, RecordFits, SessionFits, FreezeFits, CloneCards, Unfrozen, Recorded, Shape, Unclaimed
<1>6. OneCard(i)' /\ NotAcked(i)' /\ Belated(i)'
  BY <1>1, TypesAt, PcsApart
  DEF SoundAt, OneCard, NotAcked, Belated, Faultless, Quiet, Recorded, Shape, Unclaimed
<1>7. Retired(i)' /\ Awaited(i)'
  BY <1>1, TypesAt, PcsApart, WorkLeft
  DEF SoundAt, Retired, Awaited, CardsFit, SessionFits, FreezeFits, Recorded, Shape, Unclaimed
<1> QED BY <1>2, <1>3, <1>4, <1>5, <1>6, <1>7 DEF SoundAt

\* A denied attempt drops the result and keeps the freezes.
LEMMA SoundDeny ==
  ASSUME TypeInv, NEW i \in Ids, SafeAt(i), OwedAt(i), SoundAt(i), Deny(i)
  PROVE  SoundAt(i)'
<1>1. /\ UNCHANGED <<cur, cards, shown, acked, resv, restarts, sess, due>> /\ Discard(i)
      /\ att[i].pc = "begun" /\ att[i].sent = {} /\ att'[i] = Idle /\ sess[i] \notin Active
  BY AttemptApart, PcsApart DEF Deny, EndAttempt, remote, OwedAt, SentShown, TypeInv, TypeOK
<1>2. \/ /\ Recorded(i) /\ UNCHANGED writeFails
         /\ \/ entries'[i] = NoEntry
            \/ entries[i].sup # {} /\ Shape(entries'[i], 0, 0, "none", Stages, entries[i].sup, FALSE)
      \/ /\ entries'[i] = entries[i] /\ (Recorded(i) => UNCHANGED preparing)
         /\ writeFails' \in {writeFails, writeFails + 1}
  BY <1>1, DiscardLeaves
<1>3. writeFails \in Nat BY TypesAt
<1>4. Counted(i)'
  BY <1>1, <1>2, PcsApart, CountedKept DEF MayBeSent, AboutToSend, Owes, Recorded, Shape, SoundAt
<1>5. CardsFit(i)'
  BY <1>1, <1>2, PcsApart, TypesAt
  DEF SoundAt, CardsFit, RecordFits, SessionFits, FreezeFits, CloneCards, Unfrozen, Recorded, Shape
<1>6. Held(i)' /\ Quiet(i)'
  BY <1>1, <1>2, <1>3, PcsApart DEF SoundAt, Held, Quiet, Recorded, Shape, Active
<1>7. Useful(i)'
  BY <1>1, <1>2, <1>3, PcsApart DEF SoundAt, Useful, AsCloned, Faultless, Recorded, Shape
<1>8. Decided(i)'
  BY <1>1, <1>2, <1>3, TypesAt, PcsApart
  DEF SoundAt, Decided, CardAgrees, Verdict, CardsFit, RecordFits, SessionFits, FreezeFits, CloneCards, Unfrozen, Recorded, Shape, Unclaimed
<1>9. OneCard(i)' /\ NotAcked(i)' /\ Belated(i)'
  BY <1>1, <1>2, <1>3, TypesAt, PcsApart
  DEF SoundAt, OneCard, NotAcked, Belated, Faultless, Quiet, Recorded, Shape, Unclaimed
<1>10. Retired(i)' /\ Awaited(i)'
  BY <1>1, <1>2, <1>3, TypesAt, PcsApart, WorkLeft
  DEF SoundAt, Retired, Awaited, CardsFit, SessionFits, FreezeFits, Recorded, Shape, Unclaimed
<1> QED BY <1>4, <1>5, <1>6, <1>7, <1>8, <1>9, <1>10 DEF SoundAt

\* The card becomes a checkpoint of the same entry (prepareStreamRecovery).
LEMMA SoundPrepare ==
  ASSUME TypeInv, NEW i \in Ids, SafeAt(i), OwedAt(i), SoundAt(i), Prepare(i)
  PROVE  SoundAt(i)'
<1>1. /\ UNCHANGED <<cur, cards, shown, acked, resv, preparing, restarts, sess, due>>
      /\ att[i].pc = "prepare" /\ att[i].sent = {} /\ sess[i] \notin Active /\ att[i].copy \in Entry
      /\ att[i].copy.stream \in 0 .. MaxCards
  BY TypesAt, PcsApart, AttemptApart DEF Prepare, remote, OwedAt, SentShown, Entry
<1>2. \/ /\ Recorded(i) /\ UNCHANGED writeFails
         /\ Shape(entries'[i], 0, att[i].copy.stream, entries[i].text, entries[i].done, entries[i].sup, entries[i].dead)
         /\ att'[i].pc = "sending" /\ att'[i].copy = entries'[i] /\ att'[i].run = Undelivered(entries'[i])
         /\ att'[i].sent = {} /\ att'[i].err = att[i].err
      \/ /\ UNCHANGED entries /\ writeFails' \in {writeFails, writeFails + 1}
         /\ att'[i].pc = "sending" /\ att'[i].copy = att[i].copy /\ att'[i].run = Undelivered(att[i].copy)
         /\ att'[i].sent = {} /\ att'[i].err = TRUE
  <2>1. att[i] \in Holder BY TypesAt
  <2>2. CASE /\ Recorded(i) /\ UNCHANGED writeFails
             /\ LET e == [entries[i] EXCEPT !.stream = 0, !.ckpt = att[i].copy.stream] IN
                /\ Put(i, e)
                /\ att' = [att EXCEPT ![i] =
                     [att[i] EXCEPT !.pc = "sending", !.copy = e, !.run = Undelivered(e)]]
    <3> DEFINE e == [entries[i] EXCEPT !.stream = 0, !.ckpt = att[i].copy.stream]
    <3>1. Shape(e, 0, att[i].copy.stream, entries[i].text, entries[i].done, entries[i].sup, entries[i].dead)
      BY <1>1, <2>2, TypesAt, UpdateShapes
    <3>2. Put(i, e) /\ att' = [att EXCEPT ![i] = [att[i] EXCEPT !.pc = "sending", !.copy = e, !.run = Undelivered(e)]]
      BY <2>2
    <3> HIDE DEF e
    <3>3. entries'[i] = e /\ att'[i] = [att[i] EXCEPT !.pc = "sending", !.copy = e, !.run = Undelivered(e)]
      BY <3>2, FileEffects DEF TypeInv, TypeOK
    <3>4. /\ att'[i].pc = "sending" /\ att'[i].copy = e /\ att'[i].run = Undelivered(e)
          /\ att'[i].sent = att[i].sent /\ att'[i].err = att[i].err
      BY <2>1, <3>3 DEF Holder
    <3> QED BY <1>1, <2>2, <3>1, <3>3, <3>4
  <2>3. CASE /\ UNCHANGED writeFails \/ (Recorded(i) /\ WriteFails)
             /\ att' = [att EXCEPT ![i] =
                  [att[i] EXCEPT !.pc = "sending", !.err = TRUE, !.run = Undelivered(att[i].copy)]]
             /\ UNCHANGED entries
    BY <2>3, <2>1, <1>1 DEF TypeInv, TypeOK, Holder, WriteFails
  <2> QED BY <2>2, <2>3 DEF Prepare
<1>3. writeFails \in Nat BY TypesAt
<1>4. Counted(i)'
  BY <1>1, <1>2, PcsApart, WorkLeft, CountedKept DEF MayBeSent, AboutToSend, Owes, Recorded, Shape, SoundAt
<1>5. CardsFit(i)'
  BY <1>1, <1>2, PcsApart, TypesAt
  DEF SoundAt, CardsFit, RecordFits, SessionFits, FreezeFits, CloneCards, Unfrozen, Recorded, Shape
<1>6. Held(i)' /\ Quiet(i)'
  BY <1>1, <1>2, <1>3, PcsApart DEF SoundAt, Held, Quiet, Recorded, Shape, Active, OwedAt, CloneFits
<1>7. Useful(i)'
  BY <1>1, <1>2, <1>3, PcsApart, WorkLeft DEF SoundAt, Useful, AsCloned, Faultless, Recorded, Shape
<1>8. writeFails = 0 => sess[i] \notin Unclaimed \cup {"finished"}
  BY <1>1, NoAttempt, PcsApart DEF SoundAt
<1>9. Decided(i)'
  BY <1>1, <1>2, <1>3, <1>8, TypesAt, PcsApart
  DEF SoundAt, Decided, CardAgrees, Verdict, CardsFit, RecordFits, SessionFits, FreezeFits, CloneCards, Unfrozen, Recorded, Shape, Unclaimed
<1>10. OneCard(i)' /\ NotAcked(i)' /\ Belated(i)'
  BY <1>1, <1>2, <1>3, <1>8, TypesAt, PcsApart
  DEF SoundAt, Decided, OneCard, NotAcked, Belated, Faultless, Quiet, Recorded, Shape, Unclaimed
<1>11. Retired(i)' /\ Awaited(i)'
  BY <1>1, <1>2, <1>3, <1>8, TypesAt, PcsApart, WorkLeft
  DEF SoundAt, Retired, Awaited, CardsFit, SessionFits, FreezeFits, Recorded, Shape, Unclaimed
<1> QED BY <1>4, <1>5, <1>6, <1>7, <1>9, <1>10, <1>11 DEF SoundAt

\* What the platform carries out of a stage.
LEMMA LandEffects ==
  ASSUME TypeInv, NEW i \in Ids, NEW s \in Stages, att[i].pc = "sending", s \in att[i].run,
         Land(i, s) \/ UNCHANGED <<cards, shown>>
  PROVE  /\ att[i].copy \in Entry
         /\ \A c \in Cards : \/ cards'[i][c] = cards[i][c]
                             \/ /\ c = att[i].copy.ckpt
                                /\ cards'[i][c] = Verdict(att[i].copy)
         /\ shown[i] \subseteq shown'[i] /\ shown'[i] \subseteq shown[i] \cup {att[i].copy.text}
         /\ Land(i, s) /\ s = "text" => att[i].copy.text \in shown'[i]
         /\ Verdict(att[i].copy) \notin {"none", "frozen"}
         /\ att[i].copy.text # "restart" => Verdict(att[i].copy) # "interrupted"
<1>1. att[i].copy \in Entry BY TypesAt, PcsApart
<1>2. att[i].copy.ckpt \in 0 .. MaxCards BY <1>1 DEF Entry
<1>3. Verdict(att[i].copy) \in {"interrupted", "final"}
      /\ (att[i].copy.text # "restart" => Verdict(att[i].copy) # "interrupted")
  BY DEF Verdict
<1>4. CASE UNCHANGED <<cards, shown>> /\ ~Land(i, s) BY <1>1, <1>3, <1>4
<1>5. CASE Land(i, s)
  <2>1. CASE s = "checkpoint"
    <3>1. cards' = [cards EXCEPT ![i][att[i].copy.ckpt] = Verdict(att[i].copy)] /\ UNCHANGED shown
      BY <1>5, <2>1 DEF Land
    <3>2. \A c \in Cards : \/ cards'[i][c] = cards[i][c]
                           \/ c = att[i].copy.ckpt /\ cards'[i][c] = Verdict(att[i].copy)
      <4> DEFINE v == Verdict(att[i].copy)
                 k == att[i].copy.ckpt
      <4>1. cards' = [cards EXCEPT ![i] = [cards[i] EXCEPT ![k] = v]]
        BY <3>1 DEF TypeInv, TypeOK
      <4>2. cards'[i] = [cards[i] EXCEPT ![k] = v] /\ cards[i] \in [Cards -> CardStates]
        BY <4>1 DEF TypeInv, TypeOK
      <4> HIDE DEF v, k
      <4>3. \A c \in Cards : cards'[i][c] = cards[i][c] \/ (c = k /\ cards'[i][c] = v)
        BY <4>2
      <4> QED BY <4>3 DEF v, k
    <3> QED BY <1>1, <1>3, <2>1, <3>1, <3>2
  <2>2. CASE s # "checkpoint" BY <1>1, <1>3, <1>5, <2>2 DEF Land, TypeInv, TypeOK
  <2> QED BY <2>1, <2>2
<1> QED BY <1>4, <1>5

\* The stages of an attempt go on: the cards and the texts they touch are its own.
LEMMA SoundSending ==
  ASSUME TypeInv, NEW i \in Ids, SafeAt(i), OwedAt(i), SoundAt(i),
         NEW s \in Stages, att[i].pc = "sending", s \in att[i].run, Land(i, s) \/ UNCHANGED <<cards, shown>>,
         UNCHANGED <<entries, preparing, due, sess, resv, cur, restarts, writeFails>>,
         att'[i].pc = "sending", att'[i].copy = att[i].copy, att'[i].card = att[i].card,
         att'[i].run \subseteq att[i].run \ {s}, att'[i].sent \subseteq att[i].sent \cup {s},
         att[i].sent \subseteq att'[i].sent, att'[i].err \in BOOLEAN,
         \/ att'[i].run = att[i].run \ {s} /\ s \in att'[i].sent /\ att'[i].err = att[i].err
         \/ att'[i].sent = att[i].sent /\ att'[i].err
  PROVE  /\ CardsFit(i)' /\ Held(i)' /\ Quiet(i)' /\ Useful(i)'
         /\ Decided(i)' /\ OneCard(i)' /\ Belated(i)' /\ Retired(i)' /\ Awaited(i)'
<1>1. /\ att[i].copy \in Entry
      /\ \A c \in Cards : \/ cards'[i][c] = cards[i][c]
                          \/ /\ c = att[i].copy.ckpt
                             /\ cards'[i][c] = Verdict(att[i].copy)
      /\ shown[i] \subseteq shown'[i] /\ shown'[i] \subseteq shown[i] \cup {att[i].copy.text}
      /\ Verdict(att[i].copy) \notin {"none", "frozen"}
      /\ att[i].copy.text # "restart" => Verdict(att[i].copy) # "interrupted"
  BY LandEffects
<1>2. CardsFit(i)'
  BY <1>1, PcsApart, TypesAt
  DEF SoundAt, CardsFit, RecordFits, SessionFits, FreezeFits, CloneCards, Unfrozen, Recorded
<1>3. Held(i)' /\ Quiet(i)' BY <1>1, PcsApart DEF SoundAt, Held, Quiet, Recorded
<1>4. Useful(i)'
  <2> SUFFICES ASSUME Faultless PROVE
         /\ Recorded(i)
         /\ att'[i].run \cup att'[i].sent \subseteq Undelivered(entries[i])
         /\ att'[i].run \cap att'[i].sent = {}
         /\ att'[i].err =>
              \/ entries[i].stream # 0
              \/ \E t \in Undelivered(entries[i]) : t \notin att'[i].run \cup att'[i].sent
    BY PcsApart DEF Useful, Faultless, Recorded
  <2>1. /\ Recorded(i)
        /\ att[i].run \cup att[i].sent \subseteq Undelivered(entries[i])
        /\ att[i].run \cap att[i].sent = {}
        /\ att[i].err =>
             \/ entries[i].stream # 0
             \/ \E t \in Undelivered(entries[i]) : t \notin att[i].run \cup att[i].sent
    BY DEF SoundAt, Useful
  <2>2. s \notin att[i].sent /\ s \in Undelivered(entries[i]) BY <2>1
  <2>3. CASE att'[i].run = att[i].run \ {s} /\ s \in att'[i].sent /\ att'[i].err = att[i].err
    BY <2>1, <2>3
  <2>4. CASE att'[i].sent = att[i].sent /\ att'[i].err BY <2>1, <2>2, <2>4
  <2> QED BY <2>1, <2>3, <2>4
<1>5. writeFails = 0 => sess[i] \notin Unclaimed \cup {"finished"}
  BY NoAttempt, PcsApart DEF SoundAt
<1>6. Decided(i)'
  <2> SUFFICES ASSUME writeFails = 0
               PROVE  /\ Recorded(i) =>
                           \A c \in Cards : /\ CardAgrees(i, entries[i], c)'
                                            /\ c \in entries[i].sup => cards'[i][c] \in {"open", "frozen"}
                      /\ \A c \in Cards : CardAgrees(i, att[i].copy, c)'
    BY <1>5, PcsApart DEF SoundAt, Decided, Recorded
  <2>1. /\ att[i].pc \in AttemptPcs /\ 0 \notin Cards
        /\ \A c \in Cards : CardAgrees(i, att[i].copy, c)
        /\ Recorded(i) => /\ \A c \in Cards : /\ CardAgrees(i, entries[i], c)
                                              /\ c \in entries[i].sup => cards[i][c] \in {"open", "frozen"}
                          /\ entries[i].text = "restart" <=> att[i].copy.text = "restart"
                          /\ att[i].copy.ckpt # 0 => entries[i].stream = 0
        /\ att[i].copy.ckpt # 0 => att[i].copy.stream = 0
        /\ \A c \in Cards : c = att[i].copy.ckpt => cards[i][c] # "frozen" /\ (Recorded(i) => c \notin entries[i].sup)
    BY TypesAt, PcsApart DEF SoundAt, Decided, OneCard, CardsFit, CloneCards, Unfrozen
  <2>2. ASSUME NEW c \in Cards PROVE CardAgrees(i, att[i].copy, c)'
    BY <1>1, <2>1 DEF CardAgrees, Verdict
  <2>3. ASSUME NEW c \in Cards, Recorded(i)
      PROVE  CardAgrees(i, entries[i], c)' /\ (c \in entries[i].sup => cards'[i][c] \in {"open", "frozen"})
    BY <1>1, <2>1, <2>3 DEF CardAgrees, Verdict
  <2> QED BY <2>2, <2>3
<1>7. OneCard(i)' /\ Belated(i)'
  BY PcsApart DEF SoundAt, OneCard, Belated, Faultless, Recorded
<1>8. Retired(i)' /\ Awaited(i)' BY PcsApart DEF SoundAt, Retired, Awaited, Recorded
<1> QED BY <1>2, <1>3, <1>4, <1>6, <1>7, <1>8

\* A stage that failed stays undelivered in the file.
LEMMA SoundDeliverFails ==
  ASSUME TypeInv, NEW i \in Ids, SafeAt(i), OwedAt(i), SoundAt(i),
         NEW s \in Stages, DeliverFails(i, s) \/ (CheckpointTimesOut(i) /\ s = "checkpoint")
  PROVE  SoundAt(i)'
<1>1. /\ UNCHANGED <<entries, preparing, due, sess, resv, cur, restarts, writeFails, acked>>
      /\ att[i].pc = "sending" /\ s \in att[i].run /\ (Land(i, s) \/ UNCHANGED <<cards, shown>>)
  BY DEF DeliverFails, CheckpointTimesOut, CanDeliver, durable, budget
<1>2. /\ att'[i].pc = "sending" /\ att'[i].copy = att[i].copy /\ att'[i].card = att[i].card
      /\ att'[i].run \subseteq att[i].run \ {s} /\ att'[i].sent = att[i].sent /\ att'[i].err = TRUE
  <2>1. att \in [Ids -> Holder] /\ att[i] \in Holder BY DEF TypeInv, TypeOK
  <2>2. CASE DeliverFails(i, s) BY <2>1, <2>2, <1>1 DEF DeliverFails, Holder
  <2>3. CASE CheckpointTimesOut(i) /\ s = "checkpoint"
    <3> DEFINE w == IF AwaitsCheckpoint(att[i]) THEN {} ELSE att[i].run \ {"checkpoint"}
    <3>1. att' = [att EXCEPT ![i] = [att[i] EXCEPT !.run = w, !.err = TRUE]]
      BY <2>1, <2>3 DEF CheckpointTimesOut, Holder
    <3>2. w \subseteq att[i].run \ {s} BY <2>3
    <3> HIDE DEF w
    <3>3. att'[i] = [att[i] EXCEPT !.run = w, !.err = TRUE] BY <2>1, <3>1
    <3> QED BY <1>1, <2>1, <3>2, <3>3 DEF Holder
  <2> QED BY <2>2, <2>3
<1>3. shown[i] \subseteq shown'[i] BY <1>1, LandEffects
<1>4. Counted(i)'
  BY <1>1, <1>2, PcsApart, <1>3, CountedKept DEF MayBeSent, AboutToSend, Owes, Recorded, SoundAt, Counted
<1>5. /\ CardsFit(i)' /\ Held(i)' /\ Quiet(i)' /\ Useful(i)'
      /\ Decided(i)' /\ OneCard(i)' /\ Belated(i)' /\ Retired(i)' /\ Awaited(i)'
  BY <1>1, <1>2, SoundSending
<1>6. NotAcked(i)' BY <1>1, <1>2, PcsApart DEF SoundAt, NotAcked, Recorded
<1> QED BY <1>4, <1>5, <1>6 DEF SoundAt

\* An acknowledged result is sent and no longer to be sent by this attempt: the count grows once.
LEMMA SoundDeliverOk ==
  ASSUME TypeInv, NEW i \in Ids, SafeAt(i), OwedAt(i), SoundAt(i), NEW s \in Stages, DeliverOk(i, s)
  PROVE  SoundAt(i)'
<1>1. /\ UNCHANGED <<entries, preparing, due, sess, resv, cur, restarts, writeFails>>
      /\ att[i].pc = "sending" /\ s \in att[i].run /\ Land(i, s)
  BY DEF DeliverOk, CanDeliver, durable, budget
<1>2. /\ att'[i].pc = "sending" /\ att'[i].copy = att[i].copy /\ att'[i].card = att[i].card
      /\ att'[i].run = att[i].run \ {s} /\ att'[i].sent = att[i].sent \cup {s} /\ att'[i].err = att[i].err
      /\ att[i].err \in BOOLEAN
  BY <1>1 DEF TypeInv, TypeOK, DeliverOk, Holder
<1>3. /\ shown[i] \subseteq shown'[i] /\ (s = "text" => att[i].copy.text \in shown'[i])
  BY <1>1, LandEffects
<1>4. sess[i] \notin Active BY <1>1, AttemptApart, PcsApart
<1>5. Counted(i)'
  <2>1. i \in TaskIds => att'[i].run \cap att'[i].sent = {}
    BY <1>1, <1>2 DEF SoundAt, Counted
  <2>2. CASE i \in TaskIds /\ s = "text" /\ att[i].copy.text = "result"
    BY <2>2, TypesAt, <1>1, PcsApart, <1>2, <1>4, <1>3, <2>1 DEF DeliverOk, TypeInv, TypeOK, SoundAt, Counted, MayBeSent,
       AboutToSend
  <2>3. CASE ~(i \in TaskIds /\ s = "text" /\ att[i].copy.text = "result")
    BY <2>3, <1>1, <1>2, PcsApart, <1>3, <2>1, CountedKept DEF DeliverOk, MayBeSent, AboutToSend, Owes, Recorded, SoundAt,
       Counted
  <2> QED BY <2>2, <2>3
<1>6. /\ CardsFit(i)' /\ Held(i)' /\ Quiet(i)' /\ Useful(i)'
      /\ Decided(i)' /\ OneCard(i)' /\ Belated(i)' /\ Retired(i)' /\ Awaited(i)'
  BY <1>1, <1>2, SoundSending
<1>7. NotAcked(i)'
  BY <1>1, NoAttempt, PcsApart, <1>2 DEF DeliverOk, SoundAt, Decided, NotAcked, Recorded
<1> QED BY <1>5, <1>6, <1>7 DEF SoundAt

\* A mark that is written ends what may be sent; only a failed write or a refused receipt leaves it.
LEMMA SoundMark ==
  ASSUME TypeInv, NEW i \in Ids, SafeAt(i), OwedAt(i), SoundAt(i), NEW s \in Stages, Mark(i, s)
  PROVE  SoundAt(i)'
<1>1. /\ UNCHANGED <<preparing, due, sess, resv, cur, restarts, cards, shown, acked>> /\ s \in att[i].sent
      /\ att[i].pc = "sending" /\ sess[i] \notin Active
  BY AttemptApart, PcsApart DEF Mark, MarkStage, remote, OwedAt, SentShown
<1>2. /\ att'[i].pc = "sending" /\ att'[i].copy = att[i].copy /\ att'[i].card = att[i].card
      /\ att'[i].run = att[i].run /\ att'[i].sent = att[i].sent \ {s}
      /\ \/ /\ att'[i].err = att[i].err /\ UNCHANGED writeFails
            /\ IF Recorded(i) THEN Put(i, [entries[i] EXCEPT !.done = @ \cup {s}]) ELSE UNCHANGED entries
         \/ /\ att'[i].err = TRUE /\ UNCHANGED entries /\ i \notin TaskIds /\ UNCHANGED writeFails
         \/ /\ att'[i].err = TRUE /\ UNCHANGED entries /\ writeFails' = writeFails + 1
  BY <1>1, IdsAssumption DEF TypeInv, TypeOK, Holder, WriteFails, Mark, MarkStage
<1>3. \/ /\ att'[i].err = att[i].err /\ UNCHANGED writeFails
         /\ IF Recorded(i) THEN Shape(entries'[i], entries[i].stream, entries[i].ckpt, entries[i].text,
                                      entries[i].done \cup {s}, entries[i].sup, entries[i].dead)
            ELSE entries'[i] = entries[i]
      \/ att'[i].err = TRUE /\ UNCHANGED <<entries, writeFails>> /\ i \notin TaskIds
      \/ att'[i].err = TRUE /\ UNCHANGED entries /\ writeFails' = writeFails + 1
  <2>1. Recorded(i) => Shape([entries[i] EXCEPT !.done = @ \cup {s}], entries[i].stream, entries[i].ckpt,
                             entries[i].text, entries[i].done \cup {s}, entries[i].sup, entries[i].dead)
    BY TypesAt, UpdateShapes
  <2>2. Put(i, [entries[i] EXCEPT !.done = @ \cup {s}]) => entries'[i] = [entries[i] EXCEPT !.done = @ \cup {s}]
    BY FileEffects
  <2> QED BY <1>2, <2>1, <2>2
<1>4. writeFails \in Nat BY TypesAt
<1>5. Counted(i)'
  BY <1>1, <1>2, <1>3, <1>4, PcsApart, CountedKept DEF MayBeSent, AboutToSend, Owes, Recorded, Shape, SoundAt, Counted
<1>6. CardsFit(i)'
  BY <1>1, <1>2, <1>3, PcsApart, TypesAt
  DEF SoundAt, CardsFit, RecordFits, SessionFits, FreezeFits, CloneCards, Unfrozen, Recorded, Shape
<1>7. Held(i)' /\ Quiet(i)'
  BY <1>1, <1>2, <1>3, <1>4, PcsApart DEF SoundAt, Held, Quiet, Recorded, Shape, Active
<1>8. Useful(i)'
  <2> SUFFICES ASSUME Faultless' PROVE
         /\ Recorded(i)'
         /\ att'[i].run \cup att'[i].sent \subseteq Undelivered(entries'[i])
         /\ att'[i].run \cap att'[i].sent = {}
         /\ att'[i].err =>
              \/ entries'[i].stream # 0
              \/ \E t \in Undelivered(entries'[i]) : t \notin att'[i].run \cup att'[i].sent
    BY <1>2, PcsApart DEF Useful
  <2>1. Faultless /\ writeFails' = writeFails BY <1>1, <1>3, <1>4 DEF Faultless
  <2>2. /\ Recorded(i)
        /\ att[i].run \cup att[i].sent \subseteq Undelivered(entries[i])
        /\ att[i].run \cap att[i].sent = {}
        /\ att[i].err =>
             \/ entries[i].stream # 0
             \/ \E t \in Undelivered(entries[i]) : t \notin att[i].run \cup att[i].sent
    BY <1>1, <2>1 DEF SoundAt, Useful
  <2>3. CASE att'[i].err = TRUE /\ UNCHANGED entries
    BY <1>1, <1>2, <2>2, <2>3 DEF Recorded
  <2>4. CASE /\ att'[i].err = att[i].err
             /\ Shape(entries'[i], entries[i].stream, entries[i].ckpt, entries[i].text,
                      entries[i].done \cup {s}, entries[i].sup, entries[i].dead)
    BY <2>4, WorkLeft, <1>1, <1>2, <2>2 DEF Shape, Recorded
  <2> QED BY <1>3, <1>4, <2>1, <2>2, <2>3, <2>4
<1>9. Decided(i)'
  BY <1>1, <1>2, <1>3, <1>4, TypesAt, PcsApart
  DEF SoundAt, Decided, CardAgrees, Verdict, CardsFit, RecordFits, SessionFits, FreezeFits, CloneCards, Unfrozen, Recorded, Shape, Unclaimed
<1>10. OneCard(i)' /\ NotAcked(i)' /\ Belated(i)'
  BY <1>1, <1>2, <1>3, <1>4, TypesAt, PcsApart
  DEF SoundAt, OneCard, NotAcked, Belated, Faultless, Quiet, Recorded, Shape, Unclaimed
<1>11. Retired(i)' /\ Awaited(i)'
  BY <1>1, <1>2, <1>3, <1>4, TypesAt, PcsApart, WorkLeft
  DEF SoundAt, Retired, Awaited, CardsFit, SessionFits, FreezeFits, Recorded, Shape, Unclaimed
<1> QED BY <1>5, <1>6, <1>7, <1>8, <1>9, <1>10, <1>11 DEF SoundAt

\* An attempt that failed leaves something undelivered, one that did not leaves nothing but freezes.
LEMMA SoundFinish ==
  ASSUME TypeInv, NEW i \in Ids, SafeAt(i), OwedAt(i), SoundAt(i), Finish(i)
  PROVE  SoundAt(i)'
<1>1. /\ UNCHANGED <<preparing, due, sess, resv, cur, restarts, cards, shown, acked>>
      /\ att[i].pc = "sending" /\ att[i].run = {} /\ att[i].sent = {} /\ att'[i] = Idle /\ sess[i] \notin Active
  BY AttemptApart, PcsApart DEF Finish, EndAttempt, remote, TypeInv, TypeOK
<1>2. \/ /\ Recorded(i) /\ UNCHANGED writeFails /\ att[i].err
         /\ Shape(entries'[i], entries[i].stream, entries[i].ckpt, entries[i].text, entries[i].done,
                  entries[i].sup, entries'[i].dead)
      \/ /\ Recorded(i) /\ UNCHANGED writeFails /\ ~att[i].err
         /\ \/ entries[i].sup = {} /\ entries'[i] = NoEntry
            \/ entries[i].sup # {} /\ Shape(entries'[i], entries[i].stream, entries[i].ckpt, entries[i].text,
                                            entries[i].done, entries[i].sup, FALSE)
      \/ entries'[i] = entries[i] /\ writeFails' = writeFails + 1
      \/ entries'[i] = entries[i] /\ UNCHANGED writeFails /\ ~Recorded(i)
  <2>1. Recorded(i) =>
          /\ Shape(Failed(entries[i]), entries[i].stream, entries[i].ckpt, entries[i].text, entries[i].done,
                   entries[i].sup, Failed(entries[i]).dead)
          /\ IF entries[i].sup = {} THEN Delivered(entries[i]) = NoEntry
             ELSE Shape(Delivered(entries[i]), entries[i].stream, entries[i].ckpt, entries[i].text,
                        entries[i].done, entries[i].sup, FALSE)
    BY TypesAt, UpdateShapes
  <2>2. \A e : Put(i, e) => entries'[i] = e BY FileEffects
  <2>3. \/ /\ Recorded(i) /\ UNCHANGED writeFails
           /\ entries'[i] = IF att[i].err THEN Failed(entries[i]) ELSE Delivered(entries[i])
        \/ entries'[i] = entries[i] /\ writeFails' = writeFails + 1
        \/ entries'[i] = entries[i] /\ UNCHANGED writeFails /\ ~Recorded(i)
    BY <2>2 DEF Finish, WriteFails
  <2> QED BY <2>1, <2>3
<1>3. writeFails \in Nat BY TypesAt
<1>4. Counted(i)'
  BY <1>1, <1>2, PcsApart, CountedKept DEF MayBeSent, AboutToSend, Owes, Recorded, Shape, SoundAt
<1>5. CardsFit(i)'
  BY <1>1, <1>2, PcsApart, TypesAt
  DEF SoundAt, CardsFit, RecordFits, SessionFits, FreezeFits, CloneCards, Unfrozen, Recorded, Shape
<1>6. Held(i)' /\ Quiet(i)'
  BY <1>1, <1>2, <1>3, PcsApart DEF SoundAt, Held, Quiet, Recorded, Shape, Active
<1>7. Useful(i)'
  BY <1>1, <1>2, <1>3, PcsApart, WorkLeft DEF SoundAt, Useful, AsCloned, Faultless, Recorded, Shape
<1>8. Decided(i)'
  BY <1>1, <1>2, <1>3, TypesAt, PcsApart
  DEF SoundAt, Decided, CardAgrees, Verdict, CardsFit, RecordFits, SessionFits, FreezeFits, CloneCards, Unfrozen, Recorded, Shape, Unclaimed
<1>9. OneCard(i)' /\ NotAcked(i)' /\ Belated(i)'
  BY <1>1, <1>2, <1>3, TypesAt, PcsApart
  DEF SoundAt, OneCard, NotAcked, Belated, Faultless, Quiet, Recorded, Shape, Unclaimed
<1>10. Retired(i)' /\ Awaited(i)'
  BY <1>1, <1>2, <1>3, TypesAt, PcsApart, WorkLeft
  DEF SoundAt, Retired, Awaited, CardsFit, SessionFits, FreezeFits, Recorded, Shape, Unclaimed
<1> QED BY <1>4, <1>5, <1>6, <1>7, <1>8, <1>9, <1>10 DEF SoundAt

\* What a freeze may do to the entry and the card it is about.
LEMMA SoundFreezes ==
  ASSUME TypeInv, NEW i \in Ids, SafeAt(i), OwedAt(i), SoundAt(i), att[i].pc \in {"persisted", "frozen"},
         UNCHANGED <<preparing, due, sess, resv, cur, restarts, shown, acked>>,
         writeFails' \in {writeFails, writeFails + 1},
         \A c \in Cards : \/ cards'[i][c] = cards[i][c]
                          \/ c = att[i].card /\ cards'[i][c] = "frozen",
         \/ att'[i] = Idle
         \/ /\ att'[i].pc = "frozen" /\ att'[i].card = att[i].card /\ att'[i].sent = {}
            /\ cards'[i][att[i].card] = "frozen",
         \/ entries'[i] = entries[i]
         \/ Recorded(i) /\ Shape(entries'[i], entries[i].stream, entries[i].ckpt, entries[i].text, entries[i].done,
                                 entries[i].sup, entries[i].dead)
         \/ /\ Recorded(i)
            /\ IF entries[i].sup \ {att[i].card} = {} /\ ~HasWork(entries[i]) /\ ~entries[i].dead
               THEN entries'[i] = NoEntry
               ELSE Shape(entries'[i], entries[i].stream, entries[i].ckpt, entries[i].text, entries[i].done,
                          entries[i].sup \ {att[i].card}, entries[i].dead)
  PROVE  SoundAt(i)'
<1>1. writeFails \in Nat /\ att[i].card \in Cards BY TypesAt, PcsApart
<1>2. Counted(i)'
  BY PcsApart, CountedKept DEF MayBeSent, AboutToSend, Owes, Recorded, Shape, OwedAt, SentShown, SoundAt
<1>3. CardsFit(i)'
  BY PcsApart, TypesAt
  DEF SoundAt, CardsFit, RecordFits, SessionFits, FreezeFits, CloneCards, Unfrozen, Recorded, Shape
<1>4. Held(i)' BY WorkLeft DEF SoundAt, Held, Recorded, Shape
<1>5. Quiet(i)' BY <1>1, PcsApart DEF SoundAt, Quiet, Recorded, Shape
<1>6. Useful(i)'
  BY WorkLeft, <1>1, PcsApart DEF Shape, Faultless, SoundAt, Useful, Recorded
<1>7. Decided(i)'
  BY <1>1, TypesAt, PcsApart
  DEF SoundAt, Decided, CardAgrees, Verdict, CardsFit, RecordFits, SessionFits, FreezeFits, CloneCards, Unfrozen, Recorded, Shape, Unclaimed
<1>8. OneCard(i)' /\ NotAcked(i)' /\ Belated(i)'
  BY <1>1, TypesAt, PcsApart
  DEF SoundAt, OneCard, NotAcked, Belated, Faultless, Quiet, Recorded, Shape, Unclaimed
<1>9. Retired(i)' /\ Awaited(i)'
  BY <1>1, TypesAt, PcsApart, WorkLeft
  DEF SoundAt, Retired, Awaited, CardsFit, SessionFits, FreezeFits, Recorded, Shape, Unclaimed
<1> QED BY <1>2, <1>3, <1>4, <1>5, <1>6, <1>7, <1>8, <1>9 DEF SoundAt

\* A freeze touches the card of the transition only.
LEMMA FreezeTouches ==
  ASSUME TypeInv, NEW i \in Ids, att[i].pc = "persisted", Freeze(i) \/ UNCHANGED cards
  PROVE  /\ \A c \in Cards : \/ cards'[i][c] = cards[i][c]
                             \/ c = att[i].card /\ cards'[i][c] = "frozen"
         /\ Freeze(i) => cards'[i][att[i].card] = "frozen"
<1> DEFINE k == att[i].card
<1>1. cards[i] \in [Cards -> CardStates] /\ k \in Cards
  BY TypesAt, PcsApart DEF TypeInv, TypeOK
<1>2. CASE Freeze(i)
  <2>1. cards'[i] = [cards[i] EXCEPT ![k] = "frozen"]
    BY <1>2 DEF Freeze, TypeInv, TypeOK
  <2> HIDE DEF k
  <2>2. cards'[i][k] = "frozen" /\ \A c \in Cards : cards'[i][c] = cards[i][c] \/ (c = k /\ cards'[i][c] = "frozen")
    BY <1>1, <2>1
  <2> QED BY <2>2 DEF k
<1> QED BY <1>2

\* The card of the transition is frozen.
LEMMA SoundFreezeOk ==
  ASSUME TypeInv, NEW i \in Ids, SafeAt(i), OwedAt(i), SoundAt(i), FreezeOk(i)
  PROVE  SoundAt(i)'
<1>1. /\ UNCHANGED <<entries, preparing, due, sess, resv, cur, restarts, shown, acked, writeFails>>
      /\ att[i].pc = "persisted" /\ Freeze(i) /\ att[i].sent = {}
  BY DEF FreezeOk, durable, budget, OwedAt, SentShown
<1>2. att'[i].pc = "frozen" /\ att'[i].card = att[i].card /\ att'[i].sent = att[i].sent
  BY DEF TypeInv, TypeOK, FreezeOk, Holder
<1>3. /\ \A c \in Cards : \/ cards'[i][c] = cards[i][c]
                          \/ c = att[i].card /\ cards'[i][c] = "frozen"
      /\ cards'[i][att[i].card] = "frozen"
  BY <1>1, FreezeTouches
<1> QED BY <1>1, <1>2, <1>3, SoundFreezes

\* A freeze that failed keeps its card superseded.
LEMMA SoundFreezeFails ==
  ASSUME TypeInv, NEW i \in Ids, SafeAt(i), OwedAt(i), SoundAt(i), FreezeFails(i)
  PROVE  SoundAt(i)'
<1>1. /\ UNCHANGED <<preparing, due, sess, resv, cur, restarts, shown, acked>>
      /\ att[i].pc = "persisted" /\ (Freeze(i) \/ UNCHANGED cards) /\ att'[i] = Idle
      /\ writeFails' \in {writeFails, writeFails + 1}
  BY DEF FreezeFails, EndAttempt, WriteFails, TypeInv, TypeOK
<1>2. \A c \in Cards : \/ cards'[i][c] = cards[i][c]
                       \/ c = att[i].card /\ cards'[i][c] = "frozen"
  BY <1>1, FreezeTouches
<1>3. \/ entries'[i] = entries[i]
      \/ Recorded(i) /\ Shape(entries'[i], entries[i].stream, entries[i].ckpt, entries[i].text, entries[i].done,
                              entries[i].sup, entries[i].dead)
  <2>1. Recorded(i) => Shape(SupersedeFailed(entries[i], att[i].card), entries[i].stream, entries[i].ckpt,
                             entries[i].text, entries[i].done, entries[i].sup, entries[i].dead)
    BY <1>1, TypesAt, PcsApart, PendingShapes
  <2>2. entries'[i] = entries[i] \/ (Recorded(i) /\ entries'[i] = SupersedeFailed(entries[i], att[i].card))
    BY FileEffects DEF FreezeFails
  <2> QED BY <2>1, <2>2
<1> QED BY <1>1, <1>2, <1>3, SoundFreezes

\* A freeze that is done is dropped, and the entry with it once nothing is left.
LEMMA SoundFreezeSettled ==
  ASSUME TypeInv, NEW i \in Ids, SafeAt(i), OwedAt(i), SoundAt(i), FreezeSettled(i)
  PROVE  SoundAt(i)'
<1>1. /\ UNCHANGED <<preparing, due, sess, resv, cur, restarts, cards, shown, acked>>
      /\ att[i].pc = "frozen" /\ att'[i] = Idle
      /\ writeFails' \in {writeFails, writeFails + 1}
  BY DEF FreezeSettled, EndAttempt, WriteFails, remote, TypeInv, TypeOK
<1>2. \/ entries'[i] = entries[i]
      \/ /\ Recorded(i)
         /\ IF entries[i].sup \ {att[i].card} = {} /\ ~HasWork(entries[i]) /\ ~entries[i].dead
            THEN entries'[i] = NoEntry
            ELSE Shape(entries'[i], entries[i].stream, entries[i].ckpt, entries[i].text, entries[i].done,
                       entries[i].sup \ {att[i].card}, entries[i].dead)
  <2>1. Recorded(i) =>
          IF entries[i].sup \ {att[i].card} = {} /\ ~HasWork(entries[i]) /\ ~entries[i].dead
          THEN Unpended(entries[i], att[i].card) = NoEntry
          ELSE Shape(Unpended(entries[i], att[i].card), entries[i].stream, entries[i].ckpt, entries[i].text,
                     entries[i].done, entries[i].sup \ {att[i].card}, entries[i].dead)
    BY <1>1, TypesAt, PcsApart, PendingShapes
  <2>2. entries'[i] = entries[i] \/ (Recorded(i) /\ entries'[i] = Unpended(entries[i], att[i].card))
    BY FileEffects DEF FreezeSettled
  <2> QED BY <2>1, <2>2
<1> QED BY <1>1, <1>2, SoundFreezes

--------------------
(* From one entry to all of them.                                          *)

\* A step about i touches no card, count or session of another entry, and at most one write fails in it.
CardsRest(i) ==
  /\ \A j \in Ids \ {i} : cards'[j] = cards[j] /\ cur'[j] = cur[j] /\ (j \in TaskIds => acked'[j] = acked[j])
  /\ restarts' = restarts /\ writeFails' \in {writeFails, writeFails + 1}

\* A step of a session touches no card, count or session of another entry.
LEMMA CardsSession ==
  ASSUME TypeInv, NEW i \in Ids, SessionStep(i)
  PROVE  CardsRest(i)
<1> USE DEF TypeInv, TypeOK, CardsRest, WriteFails, CannotInsert
<1>1. CASE StartWithCard(i) BY <1>1 DEF StartWithCard, SaveActive
<1>2. CASE StartPlain(i) BY <1>2 DEF StartPlain, remote, budget
<1>3. CASE RefreshActiveStream(i) BY <1>3 DEF RefreshActiveStream, SaveActive, remote
<1>4. CASE ReanchorOpen(i) BY <1>4 DEF ReanchorOpen, budget
<1>5. CASE ReanchorPersist(i) BY <1>5 DEF ReanchorPersist
<1>6. CASE ReanchorUnreserved(i) BY <1>6 DEF ReanchorUnreserved
<1>7. CASE Detach(i) BY <1>7 DEF Detach
<1>8. CASE Abandon(i) BY <1>8 DEF Abandon, DiscardActive, Discard, remote
<1>9. CASE ReserveResult(i) BY <1>9 DEF ReserveResult, remote
<1>10. CASE Stage(i) BY <1>10 DEF Stage, remote, budget
<1>11. CASE StageFails(i) BY <1>11 DEF StageFails, remote
<1>12. CASE Commit(i) BY <1>12 DEF Commit, remote
<1>13. CASE LegacyFinish(i) BY <1>13 DEF LegacyFinish, budget
<1>14. CASE LegacyDiscard(i) BY <1>14 DEF LegacyDiscard, DiscardActive, Discard
<1> QED BY <1>1, <1>2, <1>3, <1>4, <1>5, <1>6, <1>7, <1>8, <1>9, <1>10, <1>11, <1>12, <1>13,
      <1>14 DEF SessionStep

\* Nor does a step of a producer, the worker, an attempt or a freeze.
LEMMA CardsDelivery ==
  ASSUME TypeInv, NEW i \in Ids,
         \/ ProducerStep(i) \/ WorkerStep(i) \/ AttemptStep(i) \/ FreezeStep(i)
         \/ RedrivePending(i) \/ ReleaseHold(i)
  PROVE  CardsRest(i)
<1> USE DEF TypeInv, TypeOK, CardsRest, WriteFails, CannotInsert
<1>1. CASE ProducerStep(i) \/ WorkerStep(i)
  BY <1>1 DEF ProducerStep, WorkerStep, Enqueue, EnqueueAgain, DirectAttempt, WorkerAttempt, WorkerSupersede, remote, budget
<1>2. CASE Allow(i) \/ Defer(i) \/ Deny(i) \/ Prepare(i) \/ Finish(i)
  BY <1>2 DEF Allow, Defer, Deny, Discard, Prepare, Finish, remote, budget
<1>3. ASSUME NEW s \in Stages, DeliverOk(i, s) PROVE CardsRest(i)
  BY <1>3 DEF DeliverOk, Land, budget
<1>4. ASSUME NEW s \in Stages, DeliverFails(i, s) PROVE CardsRest(i)
  BY <1>4 DEF DeliverFails, Land, budget
<1>5. ASSUME NEW s \in Stages, Mark(i, s) PROVE CardsRest(i)
  BY <1>5 DEF Mark, MarkStage, remote
<1>6. CASE CheckpointTimesOut(i) BY <1>6 DEF CheckpointTimesOut, Land, budget
<1>7. CASE FreezeStep(i)
  BY <1>7 DEF FreezeStep, FreezeOk, FreezeFails, FreezeSettled, Freeze, remote, budget
<1>8. CASE RedrivePending(i) \/ ReleaseHold(i)
  BY <1>8 DEF RedrivePending, ReleaseHold, remote, budget
<1> QED BY <1>1, <1>2, <1>3, <1>4, <1>5, <1>6, <1>7, <1>8 DEF AttemptStep

\* Every kind of step about one entry.
LEMMA SoundLocal ==
  ASSUME TypeInv, NEW i \in Ids, SafeAt(i), OwedAt(i), SoundAt(i),
         \/ SessionStep(i) \/ ProducerStep(i) \/ WorkerStep(i) \/ AttemptStep(i)
         \/ FreezeStep(i) \/ RedrivePending(i) \/ ReleaseHold(i)
  PROVE  SoundAt(i)'
<1>1. CASE SessionStep(i)
  BY <1>1, SoundStartWithCard, SoundStartPlain, SoundRefreshActiveStream, SoundReanchorOpen, SoundReanchorPersist,
     SoundReanchorUnreserved, SoundDetach, SoundAbandon, SoundReserveResult, SoundStage, SoundStageFails, SoundCommit,
     SoundLegacyFinish, SoundLegacyDiscard DEF SessionStep
<1>2. CASE ProducerStep(i) \/ WorkerStep(i)
  BY <1>2, SoundEnqueue, SoundEnqueueAgain, SoundDirectAttempt, SoundWorkerAttempt, SoundWorkerSupersede
  DEF ProducerStep, WorkerStep
<1>3. CASE AttemptStep(i)
  BY <1>3, SoundAllow, SoundDefer, SoundDeny, SoundPrepare, SoundDeliverOk, SoundDeliverFails, SoundMark, SoundFinish DEF
     Stages, AttemptStep
<1>4. CASE FreezeStep(i) \/ RedrivePending(i) \/ ReleaseHold(i)
  BY <1>4, SoundFreezeOk, SoundFreezeFails, SoundFreezeSettled, SoundRedrivePending, SoundReleaseHold DEF FreezeStep
<1> QED BY <1>1, <1>2, <1>3, <1>4

\* The step of another entry keeps the invariant.
LEMMA SoundOthers ==
  ASSUME TypeInv, NEW i \in Ids, NEW j \in Ids \ {i}, OthersRest(i), CardsRest(i), SafeAt(j), SoundAt(j)
  PROVE  SoundAt(j)'
<1>1. /\ sess'[j] = sess[j] /\ resv'[j] = resv[j] /\ att'[j] = att[j] /\ shown'[j] = shown[j]
      /\ j \in preparing' <=> j \in preparing
      /\ j \in due' <=> j \in due
      /\ cards'[j] = cards[j] /\ cur'[j] = cur[j] /\ (j \in TaskIds => acked'[j] = acked[j])
      /\ restarts' = restarts /\ writeFails' \in {writeFails, writeFails + 1}
      /\ entries'[j] = entries[j] \/ (Evictable(j) /\ entries'[j] = NoEntry)
  BY DEF OthersRest, CardsRest
<1>2. writeFails \in Nat BY TypesAt
<1>3. Counted(j)'
  BY <1>1, CountedKept DEF MayBeSent, AboutToSend, Owes, Recorded, SoundAt, Counted
<1>4. CardsFit(j)'
  BY <1>1 DEF SoundAt, CardsFit, RecordFits, SessionFits, FreezeFits, CloneCards, Unfrozen, Recorded
<1>5. Held(j)'
  BY <1>1 DEF SoundAt, Held, Recorded, Evictable, SafeAt, Undisturbed, SessionOfTask, Active
<1>6. Quiet(j)' /\ Useful(j)'
  BY <1>1, <1>2, PcsApart DEF SoundAt, Quiet, Useful, AsCloned, Faultless, Recorded, Evictable
<1>7. Decided(j)'
  BY <1>1, <1>2, TypesAt, PcsApart
  DEF SoundAt, Decided, CardAgrees, Verdict, CardsFit, RecordFits, SessionFits, FreezeFits, CloneCards, Unfrozen, Recorded, Evictable, Unclaimed
<1>8. OneCard(j)' /\ NotAcked(j)' /\ Belated(j)'
  BY <1>1, <1>2, TypesAt, PcsApart
  DEF SoundAt, OneCard, NotAcked, Belated, Faultless, Quiet, Recorded, Evictable, Unclaimed
<1>9. Retired(j)' /\ Awaited(j)'
  BY <1>1, <1>2, TypesAt, PcsApart, WorkLeft
  DEF SoundAt, Retired, Awaited, CardsFit, SessionFits, FreezeFits, Recorded, Evictable, Unclaimed
<1> QED BY <1>3, <1>4, <1>5, <1>6, <1>7, <1>8, <1>9 DEF SoundAt

SoundInv == \A i \in Ids : SoundAt(i)

\* Nothing was sent, recorded or shown.
LEMMA SoundInit == Init => SoundInv
<1> SUFFICES ASSUME Init, NEW i \in Ids PROVE SoundAt(i) BY DEF SoundInv
<1>1. /\ ~Recorded(i) /\ att[i] = Idle /\ sess[i] = "none" /\ cur[i] = 0 /\ shown[i] = {}
      /\ restarts = 0 /\ writeFails = 0 /\ (i \in TaskIds => acked[i] = 0)
  BY DEF Init, Recorded
<1>2. Counted(i) BY <1>1, PcsApart DEF Counted
<1>3. CardsFit(i) /\ Held(i) /\ Quiet(i) /\ Useful(i)
  BY <1>1, PcsApart DEF CardsFit, RecordFits, SessionFits, FreezeFits, CloneCards, Held, Quiet, Useful, Unclaimed
<1>4. Decided(i) /\ OneCard(i) /\ NotAcked(i) /\ Belated(i) /\ Retired(i) /\ Awaited(i)
  BY <1>1, PcsApart DEF Decided, OneCard, NotAcked, Belated, Retired, Awaited, Unclaimed
<1> QED BY <1>2, <1>3, <1>4 DEF SoundAt

\* A restart is a fault: what may be sent again has been sent at most once for each before it.
LEMMA SoundRestart ==
  ASSUME TypeInv, NEW i \in Ids, SoundAt(i), Restart
  PROVE  SoundAt(i)'
<1>1. /\ UNCHANGED <<entries, cards, shown, acked, writeFails>> /\ att'[i] = Idle /\ sess'[i] = "none" /\ cur'[i] = 0
      /\ restarts' = restarts + 1
  BY DEF Restart, durable, remote
<1>2. restarts \in Nat /\ writeFails \in Nat BY TypesAt
<1>3. Counted(i)'
  <2> SUFFICES ASSUME i \in TaskIds
               PROVE  acked[i] <= restarts' + writeFails /\ (acked[i] > 0 => "result" \in shown[i])
                      /\ acked[i] <= 1 + restarts' + writeFails
    BY <1>1, PcsApart DEF Counted
  <2>1. acked[i] \in Nat /\ acked[i] <= 1 + restarts + writeFails /\ (acked[i] > 0 => "result" \in shown[i])
    BY TypesAt DEF SoundAt, Counted
  <2> QED BY <1>1, <1>2, <2>1
<1>4. ~Faultless' BY <1>1, <1>2 DEF Faultless
<1>5. CardsFit(i)' /\ Held(i)' /\ Quiet(i)' /\ Useful(i)'
  BY <1>1, <1>4, PcsApart DEF SoundAt, CardsFit, RecordFits, SessionFits, FreezeFits, CloneCards, Unfrozen, Held, Quiet,
      Useful, Recorded, Unclaimed
<1>6. Decided(i)' /\ OneCard(i)' /\ NotAcked(i)' /\ Belated(i)' /\ Retired(i)' /\ Awaited(i)'
  BY <1>1, <1>4, PcsApart DEF SoundAt, Decided, CardAgrees, OneCard, NotAcked, Belated, Retired, Awaited, Recorded, Unclaimed
<1> QED BY <1>3, <1>5, <1>6 DEF SoundAt

\* The worker's loop touches nothing but its own snapshot.
LEMMA SoundLoop ==
  ASSUME TypeInv, NEW i \in Ids, SafeAt(i), SoundAt(i), Scan \/ Sleep \/ WakeUp \/ DrainWake \/ UNCHANGED vars
  PROVE  SoundAt(i)'
<1>1. /\ UNCHANGED <<entries, cards, shown, acked, writeFails, restarts, att, sess, resv, cur, preparing>>
      /\ due' \subseteq due \cup Queued
  BY DEF Scan, Sleep, WakeUp, DrainWake, vars, durable, volatile, remote, budget
<1>2. Counted(i)' /\ CardsFit(i)' /\ Held(i)' /\ Useful(i)'
  BY <1>1 DEF SoundAt, Counted, MayBeSent, AboutToSend, Owes, CardsFit, RecordFits, SessionFits, FreezeFits, CloneCards,
      Unfrozen, Held, Useful, AsCloned, Faultless, Recorded
<1>3. Quiet(i)' BY <1>1 DEF SoundAt, Quiet, Queued, Recorded
<1>4. Decided(i)' /\ OneCard(i)' /\ NotAcked(i)' /\ Belated(i)' /\ Retired(i)' /\ Awaited(i)'
  BY <1>1 DEF SoundAt, Decided, CardAgrees, OneCard, NotAcked, Belated, Faultless, Retired, Awaited, Recorded
<1> QED BY <1>2, <1>3, <1>4 DEF SoundAt

\* Every step keeps the invariant.
LEMMA SoundNext ==
  ASSUME TypeInv, SafeInv, OwedInv, SoundInv, [Next]_vars
  PROVE  SoundInv'
<1> SUFFICES ASSUME NEW j \in Ids PROVE SoundAt(j)' BY DEF SoundInv
<1>1. SafeAt(j) /\ OwedAt(j) /\ SoundAt(j) BY DEF SafeInv, OwedInv, SoundInv
<1>2. ASSUME NEW i \in Ids,
             \/ SessionStep(i) \/ ProducerStep(i) \/ WorkerStep(i) \/ AttemptStep(i)
             \/ FreezeStep(i) \/ RedrivePending(i) \/ ReleaseHold(i)
      PROVE  SoundAt(j)'
  BY <1>1, <1>2, SoundLocal, FrameSession, FrameWorker, FrameAttempt, FrameRest, CardsSession, CardsDelivery, SoundOthers
<1>3. ASSUME NEW S, Redrive(S) PROVE SoundAt(j)'
  <2>1. UNCHANGED <<cur, due, cards, att, shown, acked, resv, restarts, sess, preparing>>
        /\ writeFails' \in {writeFails, writeFails + 1}
    BY <1>3 DEF Redrive, remote, WriteFails
  <2>2. entries'[j] = entries[j] \/ (Recorded(j) /\ entries'[j] = Redriven(entries[j]))
    BY <1>3 DEF Redrive
  <2>3. Recorded(j) => Shape(Redriven(entries[j]), entries[j].stream, entries[j].ckpt, entries[j].text,
                             entries[j].done, entries[j].sup, FALSE)
    BY TypesAt, UpdateShapes
  <2> QED BY <1>1, <2>1, <2>2, <2>3, SoundFieldsKept DEF Shape
<1>4. CASE Scan \/ Sleep \/ WakeUp \/ DrainWake \/ UNCHANGED vars
  BY <1>1, <1>4, SoundLoop
<1>5. CASE Restart BY <1>1, <1>5, SoundRestart
<1> QED BY <1>2, <1>3, <1>4, <1>5 DEF Next

\* The invariant holds in every reachable state.
THEOREM SoundCorrect == Spec => []SoundInv
<1>1. TypeInv /\ SafeInv /\ OwedInv /\ SoundInv /\ [Next]_vars => SoundInv' BY SoundNext
<1> QED BY <1>1, SoundInit, TypeCorrect, SafeCorrect, OwedCorrect, PTL DEF Spec

\* The file is sound for every number of tasks, cards, attempts, failed writes, restarts and redrives: the card a restart
\* would settle was never frozen (reanchorStreamReservation moves the file first), a result of a task is acknowledged at most
\* once more than there were process exits and failed writes (markDelivered), and enqueueWithState respects the limit.
THEOREM FileStaysSound == Spec => []FileSound
<1>1. SoundInv => NoFrozenAuthority
  BY DEF SoundInv, SoundAt, CardsFit, RecordFits, Unfrozen, NoFrozenAuthority
<1>2. SoundInv => DuplicateOnlyAfterFault
  BY DEF SoundInv, SoundAt, Counted, DuplicateOnlyAfterFault, Ids
<1> QED BY <1>1, <1>2, SoundCorrect, CapacityCorrect, PTL DEF FileSound

\* A task that is alive is never declared interrupted, neither by the text nor on a card, unless a write failed
\* (stageReservationResult, beginAttempt), and without faults every entry nobody holds has something left to deliver, to freeze
\* or to report (removeDelivered, completePendingStreamSupersede).
THEOREM RecoveryStaysSound == Spec => []RecoverySound
<1>1. SoundInv => InterruptOnlyAfterRestart
  BY DEF SoundInv, SoundAt, Quiet, InterruptOnlyAfterRestart, Ids
<1>2. TypeInv /\ SoundInv => NoResidue
  <2> SUFFICES ASSUME TypeInv, SoundInv, NEW i \in Ids, Recorded(i), restarts + writeFails = 0, att[i] = Idle
               PROVE  HasWork(entries[i]) \/ entries[i].sup # {} \/ entries[i].dead
    BY DEF NoResidue
  <2>1. restarts = 0 /\ writeFails = 0 BY TypesAt
  <2> QED BY <2>1, PcsApart DEF SoundInv, SoundAt, Useful, Faultless
<1> QED BY <1>1, <1>2, SoundCorrect, TypeCorrect, PTL DEF RecoverySound

--------------------
(* What a step never does.                                                 *)

\* A step of a session shows a text only outside the attempts.
LEMMA SessionShows ==
  ASSUME NEW i \in Ids, SessionStep(i) \/ ProducerStep(i) \/ WorkerStep(i) \/ RedrivePending(i) \/ ReleaseHold(i)
  PROVE  shown' = shown \/ att' = att
<1>1. CASE StartWithCard(i) \/ StartPlain(i) \/ RefreshActiveStream(i) \/ ReanchorOpen(i) \/ ReanchorPersist(i)
  BY <1>1 DEF StartWithCard, StartPlain, RefreshActiveStream, ReanchorOpen, ReanchorPersist, remote
<1>2. CASE ReanchorUnreserved(i) \/ Detach(i) \/ Abandon(i) \/ ReserveResult(i) \/ Stage(i)
  BY <1>2 DEF ReanchorUnreserved, Detach, Abandon, ReserveResult, Stage, remote
<1>3. CASE StageFails(i) \/ Commit(i) \/ LegacyFinish(i) \/ LegacyDiscard(i)
  BY <1>3 DEF StageFails, Commit, LegacyFinish, LegacyDiscard, remote
<1>4. CASE ProducerStep(i) \/ WorkerStep(i) \/ RedrivePending(i) \/ ReleaseHold(i)
  BY <1>4 DEF ProducerStep, Enqueue, EnqueueAgain, DirectAttempt, WorkerStep, WorkerAttempt, WorkerSupersede,
     RedrivePending, ReleaseHold, remote
<1> QED BY <1>1, <1>2, <1>3, <1>4 DEF SessionStep

\* An attempt shows a text only when its text stage may be delivered.
LEMMA AttemptShows ==
  ASSUME NEW i \in Ids, AttemptStep(i) \/ FreezeStep(i), shown' # shown
  PROVE  CanDeliver(i, "text")
<1> USE DEF remote
<1>1. CASE Allow(i) \/ Defer(i) \/ Deny(i) \/ Prepare(i) \/ Finish(i) \/ FreezeStep(i)
  BY <1>1 DEF Allow, Defer, Deny, Prepare, Finish, FreezeStep, FreezeOk, FreezeFails, FreezeSettled
<1>2. ASSUME NEW s \in Stages, DeliverOk(i, s) \/ DeliverFails(i, s) \/ Mark(i, s)
      PROVE  CanDeliver(i, "text")
  BY <1>2 DEF DeliverOk, DeliverFails, Mark, Land, Stages
<1>3. ~CheckpointTimesOut(i) BY DEF CheckpointTimesOut, Land
<1> QED BY <1>1, <1>2, <1>3 DEF AttemptStep

\* The result waits for the checkpoint of its attempt.
LEMMA ResultAwaits ==
  ASSUME NEW i \in Ids, Awaited(i), Rich, CanDeliver(i, "text"),
         Recorded(i), entries[i].ckpt # 0, "checkpoint" \notin entries[i].done
  PROVE  att[i].err
BY DEF Awaited, CanDeliver, AwaitsCheckpoint

\* On Feishu the result of an entry with a card appears only after the checkpoint of the card, or when that failed in the
\* same attempt (deliverAttempt), for every interleaving of attempts, marks, commits and reanchors.
THEOREM ResultFollowsCard == Spec => CardBeforeResult
<1>1. ASSUME TypeInv, SoundInv, [Next]_vars, NEW i \in Ids,
             Rich, att[i].pc = "sending", att'[i] # att[i], shown'[i] # shown[i],
             Recorded(i), entries[i].ckpt # 0, "checkpoint" \notin entries[i].done
      PROVE  att[i].err
  BY <1>1, FrameSession, FrameWorker, FrameAttempt, FrameRest, SessionShows, AttemptShows, ResultAwaits DEF SoundInv, SoundAt,
     OthersRest, Redrive, Scan, Sleep, WakeUp, DrainWake, vars, volatile, Restart, remote, Next
<1>2. TypeInv /\ SoundInv /\ [Next]_vars =>
        [\A i \in Ids :
           /\ Rich /\ att[i].pc = "sending" /\ att'[i] # att[i] /\ shown'[i] # shown[i]
           /\ Recorded(i) /\ entries[i].ckpt # 0 /\ "checkpoint" \notin entries[i].done
           => att[i].err]_vars
  BY <1>1
<1> QED BY <1>2, SoundCorrect, TypeCorrect, PTL DEF Spec, CardBeforeResult

\* What a step makes of a card whose verdict was already given.
CardStands(i) ==
  \A c \in Cards :
    writeFails' = 0 /\ cards[i][c] \notin {"none", "open"} =>
      \/ cards'[i][c] = cards[i][c]
      \/ /\ cards[i][c] = "final" /\ cards'[i][c] = "interrupted"
         /\ restarts > 0 /\ (i \in TaskIds => acked[i] = 0)

\* A session opens cards nobody used, and closes only the one it writes to or the one it is about to.
LEMMA SessionCards ==
  ASSUME TypeInv, NEW i \in Ids, SafeAt(i), SoundAt(i), SessionStep(i)
  PROVE  CardStands(i)
<1>1. /\ writeFails \in Nat /\ writeFails' \in {writeFails, writeFails + 1} /\ cards \in [Ids -> [Cards -> CardStates]]
      /\ (cur[i] # 0 => cur[i] \in Cards)
  BY TypesAt, CardsSession DEF CardsRest, TypeInv, TypeOK
<1>2. sess[i] \in Unclaimed /\ cur[i] # 0 /\ writeFails = 0 => cards[i][cur[i]] = "open"
  BY <1>1 DEF SoundAt, Decided
<1>3. CASE StartWithCard(i)
  BY <1>3, BoundsAssumption, <1>1 DEF StartWithCard, Fresh, Cards, CardStands
<1>4. CASE ReanchorOpen(i) BY <1>1, <1>4 DEF ReanchorOpen, Unused, CardStands
<1>5. CASE ReanchorPersist(i)
  BY <1>5, TypesAt, PcsApart, <1>1 DEF ReanchorPersist, SoundAt, Decided, CardsFit, FreezeFits, Unfrozen, CardStands
<1>6. CASE ReanchorUnreserved(i)
  <2>1. sess[i] \in Unclaimed /\ cur[i] \in Cards /\ cur[i] # 0
    BY <1>1, <1>6 DEF ReanchorUnreserved, CanWriteCard
  <2>2. PICK new \in Unused(i), state \in {"frozen", "open"} :
          \/ cards' = [cards EXCEPT ![i] = [@ EXCEPT ![new] = "open", ![cur[i]] = state]] /\ UNCHANGED writeFails
          \/ cards' = [cards EXCEPT ![i][new] = state]
    BY <1>6 DEF ReanchorUnreserved
  <2>3. new \in Cards /\ cards[i][new] = "none" BY <2>2 DEF Unused
  <2>4. \A c \in Cards : c \notin {new, cur[i]} => cards'[i][c] = cards[i][c]
    BY <1>1, <2>1, <2>2, <2>3
  <2> QED BY <1>1, <1>2, <2>1, <2>3, <2>4 DEF CardStands
<1>7. CASE Detach(i) BY <1>7, <1>1, <1>2 DEF Detach, Unclaimed, CardStands
<1>8. CASE LegacyFinish(i) BY <1>8, <1>1, <1>2 DEF LegacyFinish, Unclaimed, CardStands
<1>9. CASE StartPlain(i) \/ RefreshActiveStream(i) \/ Abandon(i) \/ ReserveResult(i) \/ Stage(i)
  BY <1>9 DEF CardStands, StartPlain, RefreshActiveStream, Abandon, ReserveResult, Stage, remote
<1>10. CASE StageFails(i) \/ Commit(i) \/ LegacyDiscard(i)
  BY <1>10 DEF CardStands, StageFails, Commit, LegacyDiscard, remote
<1> QED BY <1>3, <1>4, <1>5, <1>6, <1>7, <1>8, <1>9, <1>10 DEF SessionStep

\* A checkpoint meets an open card, its own verdict, or a card its session finished before the process exited.
LEMMA LandedCards ==
  ASSUME TypeInv, NEW i \in Ids, SoundAt(i), NEW s \in Stages, att[i].pc = "sending", s \in att[i].run,
         Land(i, s) \/ UNCHANGED <<cards, shown>>, UNCHANGED writeFails
  PROVE  CardStands(i)
<1>1. \A c \in Cards : \/ cards'[i][c] = cards[i][c]
                       \/ c = att[i].copy.ckpt /\ cards'[i][c] = Verdict(att[i].copy)
  BY LandEffects
<1>2. writeFails = 0 =>
        \A c \in Cards : c = att[i].copy.ckpt => cards[i][c] \in {"open", "final", Verdict(att[i].copy)}
  BY PcsApart DEF SoundAt, Decided, CardAgrees
<1>3. writeFails = 0 /\ Verdict(att[i].copy) # "final" =>
        /\ Verdict(att[i].copy) = "interrupted"
        /\ restarts > 0 /\ (i \in TaskIds => acked[i] = 0)
  BY TypesAt, PcsApart DEF SoundAt, NotAcked, Belated, Faultless, Verdict
<1> QED BY <1>1, <1>2, <1>3 DEF CardStands

\* A delivery or a freeze keeps the verdict of every card.
LEMMA DeliveryCards ==
  ASSUME TypeInv, NEW i \in Ids, SafeAt(i), SoundAt(i),
         \/ ProducerStep(i) \/ WorkerStep(i) \/ AttemptStep(i) \/ FreezeStep(i)
         \/ RedrivePending(i) \/ ReleaseHold(i)
  PROVE  CardStands(i)
<1>1. CASE ProducerStep(i) \/ WorkerStep(i) \/ RedrivePending(i) \/ ReleaseHold(i)
  BY <1>1 DEF CardStands, ProducerStep, Enqueue, EnqueueAgain, DirectAttempt, WorkerStep, WorkerAttempt, WorkerSupersede,
     RedrivePending, ReleaseHold, remote
<1>2. CASE Allow(i) \/ Defer(i) \/ Deny(i) \/ Prepare(i) \/ Finish(i) \/ FreezeSettled(i)
  BY <1>2 DEF CardStands, Allow, Defer, Deny, Prepare, Finish, FreezeSettled, remote
<1>3. ASSUME NEW s \in Stages, DeliverOk(i, s) \/ DeliverFails(i, s)
      PROVE  CardStands(i)
  BY <1>3, LandedCards DEF DeliverOk, DeliverFails, CanDeliver, budget
<1>4. CASE CheckpointTimesOut(i)
  BY <1>4, LandedCards DEF CheckpointTimesOut, CanDeliver, Stages, budget
<1>5. ASSUME NEW s \in Stages, Mark(i, s)
      PROVE  CardStands(i)
  BY <1>5 DEF CardStands, Mark, remote
<1>6. CASE FreezeOk(i) \/ FreezeFails(i)
  BY <1>6, TypesAt, PcsApart, FreezeTouches DEF FreezeOk, FreezeFails, budget, WriteFails, SoundAt, Decided, CardStands
<1> QED BY <1>1, <1>2, <1>3, <1>4, <1>5, <1>6 DEF AttemptStep, FreezeStep

\* What a step makes of the freezes an entry owes.
FreezesKept(i) ==
  Recorded(i) => \A c \in entries[i].sup : (Recorded(i)' /\ c \in entries'[i].sup) \/ cards[i][c] = "frozen"

\* An entry that is left alone, or keeps its cards in an update, keeps its freezes.
LEMMA FreezesStay ==
  ASSUME NEW i \in Ids,
         Recorded(i) => entries'[i] = entries[i] \/ (entries'[i] # NoEntry /\ entries[i].sup \subseteq entries'[i].sup)
  PROVE  FreezesKept(i)
BY DEF FreezesKept, Recorded

\* A session's updates of its reservation add freezes and drop none.
LEMMA SessionFreezes ==
  ASSUME TypeInv, NEW i \in Ids, SafeAt(i), SoundAt(i), SessionStep(i)
  PROVE  FreezesKept(i)
<1> DEFINE Kept == Recorded(i) =>
             entries'[i] = entries[i] \/ (entries'[i] # NoEntry /\ entries[i].sup \subseteq entries'[i].sup)
<1>1. \A e : Put(i, e) => entries'[i] = e BY FileEffects
<1>2. \A e : Insert(i, e) => ~Recorded(i) BY DEF Insert
<1>3. (cur[i] # 0 => cur[i] \in Cards) /\ cur[i] \in 0 .. MaxCards /\ (Recorded(i) => entries[i] \in Entry)
  BY TypesAt
<1>4. CASE StartWithCard(i) \/ StartPlain(i)
  BY <1>4 DEF StartWithCard, StartPlain, Fresh, FreezesKept
<1>5. CASE RefreshActiveStream(i)
  <2>1. Recorded(i) => Shape(Refreshed(entries[i], cur[i]), cur[i], 0, entries[i].text, {}, entries[i].sup, FALSE)
    BY <1>3, UpdateShapes
  <2>2. Kept BY <1>1, <1>2, <1>5, <2>1 DEF RefreshActiveStream, SaveActive, Shape
  <2> QED BY <2>2, FreezesStay
<1>6. CASE ReanchorPersist(i)
  <2>1. att[i].card \in Cards /\ cur[i] \in Cards
    BY <1>6, TypesAt, PcsApart DEF ReanchorPersist
  <2>2. Recorded(i) => Shape(Reanchored(entries[i], att[i].card, cur[i]), att[i].card, 0, entries[i].text, {},
                             entries[i].sup \cup {cur[i]}, FALSE)
    BY <1>3, <2>1, PendingShapes
  <2>3. Kept BY <1>1, <1>6, <2>2 DEF ReanchorPersist, Shape
  <2> QED BY <2>3, FreezesStay
<1>7. CASE ReanchorUnreserved(i) \/ ReserveResult(i)
  BY <1>7 DEF ReanchorUnreserved, ReserveResult, FreezesKept
<1>8. CASE Detach(i)
  <2>1. Recorded(i) /\ cur[i] # 0 => Shape(Detached(entries[i], cur[i]), 0, 0, "none", Stages, entries[i].sup \cup {cur[i]}, FALSE)
    BY <1>3, PendingShapes
  <2>2. Kept BY <1>1, <1>8, <2>1 DEF Detach, Shape
  <2> QED BY <2>2, FreezesStay
<1>9. CASE Abandon(i) \/ LegacyDiscard(i)
  BY <1>9, DiscardLeaves DEF Abandon, LegacyDiscard, FreezesKept, Recorded, Shape
<1>10. CASE Stage(i)
  <2>1. PICK t \in StageTexts(i) : Recorded(i) /\ Put(i, Staged(entries[i], t))
    BY <1>10 DEF Stage
  <2>2. t \in Texts BY <1>3, <2>1 DEF StageTexts, FinalTexts, Texts, Entry
  <2>3. Shape(Staged(entries[i], t), entries[i].stream, entries[i].ckpt, t, {}, entries[i].sup, FALSE)
    BY <1>3, <2>1, <2>2, UpdateShapes
  <2>4. Kept BY <1>1, <2>1, <2>3 DEF Shape
  <2> QED BY <2>4, FreezesStay
<1>11. CASE Commit(i)
  <2>1. ASSUME NEW k \in {0, cur[i]}, Put(i, Committed(entries[i], k)), Recorded(i)
        PROVE  Kept
    <3>1. k \in 0 .. MaxCards BY <1>3, BoundsAssumption
    <3>2. Shape(Committed(entries[i], k), IF k = 0 THEN entries[i].stream ELSE 0, k,
                IF entries[i].text = "stub" /\ k # 0 THEN "none" ELSE entries[i].text, {}, entries[i].sup, FALSE)
      BY <1>3, <2>1, <3>1, UpdateShapes
    <3>3. entries'[i] = Committed(entries[i], k) BY <1>1, <2>1
    <3> QED BY <3>2, <3>3 DEF Shape
  <2>2. Kept BY <1>11, <2>1 DEF Commit
  <2> QED BY <2>2, FreezesStay
<1>12. CASE ReanchorOpen(i) \/ StageFails(i) \/ LegacyFinish(i)
  BY <1>12, FreezesStay DEF ReanchorOpen, StageFails, LegacyFinish, durable
<1> QED BY <1>4, <1>5, <1>6, <1>7, <1>8, <1>9, <1>10, <1>11, <1>12 DEF SessionStep

\* A delivery, a retry and a redrive drop a freeze only when its card is frozen.
LEMMA DeliveryFreezes ==
  ASSUME TypeInv, NEW i \in Ids, SafeAt(i), SoundAt(i),
         \/ ProducerStep(i) \/ WorkerStep(i) \/ AttemptStep(i) \/ FreezeStep(i)
         \/ RedrivePending(i) \/ ReleaseHold(i)
  PROVE  FreezesKept(i)
<1> DEFINE Kept == Recorded(i) =>
             entries'[i] = entries[i] \/ (entries'[i] # NoEntry /\ entries[i].sup \subseteq entries'[i].sup)
<1>1. \A e : Put(i, e) => entries'[i] = e BY FileEffects
<1>2. Recorded(i) => entries[i] \in Entry BY TypesAt
<1>3. CASE Enqueue(i) BY <1>3 DEF Enqueue, FreezesKept
<1>4. CASE EnqueueAgain(i)
  <2>1. Recorded(i) => Shape(Rerouted(entries[i]), entries[i].stream, entries[i].ckpt, entries[i].text,
                             entries[i].done, entries[i].sup, FALSE)
    BY <1>2, UpdateShapes
  <2>2. Kept BY <1>1, <1>4, <2>1 DEF EnqueueAgain, Shape
  <2> QED BY <2>2, FreezesStay
<1>5. CASE DirectAttempt(i) \/ WorkerStep(i) \/ Allow(i) \/ Defer(i) \/ FreezeOk(i) \/ ReleaseHold(i) \/ CheckpointTimesOut(i)
  BY <1>5, FreezesStay DEF DirectAttempt, WorkerStep, WorkerAttempt, WorkerSupersede, Allow, Defer, FreezeOk, ReleaseHold,
     CheckpointTimesOut, durable
<1>6. ASSUME NEW s \in Stages, DeliverOk(i, s) \/ DeliverFails(i, s)
      PROVE  FreezesKept(i)
  BY <1>6, FreezesStay DEF DeliverOk, DeliverFails, durable
<1>7. ASSUME NEW s \in Stages, Mark(i, s)
      PROVE  FreezesKept(i)
  <2>1. Recorded(i) => Shape([entries[i] EXCEPT !.done = @ \cup {s}], entries[i].stream, entries[i].ckpt,
                             entries[i].text, entries[i].done \cup {s}, entries[i].sup, entries[i].dead)
    BY <1>2, <1>7, UpdateShapes
  <2>2. Kept BY <1>1, <1>7, <2>1 DEF Mark, MarkStage, Shape
  <2> QED BY <2>2, FreezesStay
<1>8. CASE Deny(i) BY <1>8, DiscardLeaves DEF Deny, FreezesKept, Recorded, Shape
<1>9. CASE Prepare(i)
  <2>1. att[i].copy.stream \in 0 .. MaxCards
    BY <1>9, TypesAt, PcsApart DEF Prepare, Entry
  <2>2. entries' = entries \/ (Recorded(i) /\ Put(i, [entries[i] EXCEPT !.stream = 0, !.ckpt = att[i].copy.stream]))
    BY <1>9 DEF Prepare
  <2>3. Recorded(i) => Shape([entries[i] EXCEPT !.stream = 0, !.ckpt = att[i].copy.stream], 0, att[i].copy.stream,
                             entries[i].text, entries[i].done, entries[i].sup, entries[i].dead)
    BY <1>2, <2>1, UpdateShapes
  <2>4. Kept BY <1>1, <2>2, <2>3 DEF Shape
  <2> QED BY <2>4, FreezesStay
<1>10. CASE Finish(i)
  <2>1. Recorded(i) =>
          /\ Shape(Failed(entries[i]), entries[i].stream, entries[i].ckpt, entries[i].text, entries[i].done,
                   entries[i].sup, Failed(entries[i]).dead)
          /\ IF entries[i].sup = {} THEN Delivered(entries[i]) = NoEntry
             ELSE Shape(Delivered(entries[i]), entries[i].stream, entries[i].ckpt, entries[i].text,
                        entries[i].done, entries[i].sup, FALSE)
    BY <1>2, UpdateShapes
  <2>2. \/ Recorded(i) /\ entries'[i] = IF att[i].err THEN Failed(entries[i]) ELSE Delivered(entries[i])
        \/ entries'[i] = entries[i]
    BY <1>1, <1>10 DEF Finish
  <2> QED BY <2>1, <2>2 DEF FreezesKept, Recorded, Shape
<1>11. CASE FreezeFails(i)
  <2>1. Recorded(i) => Shape(SupersedeFailed(entries[i], att[i].card), entries[i].stream, entries[i].ckpt,
                             entries[i].text, entries[i].done, entries[i].sup, entries[i].dead)
    BY <1>2, <1>11, TypesAt, PcsApart, PendingShapes DEF FreezeFails
  <2>2. Kept BY <1>1, <1>11, <2>1 DEF FreezeFails, Shape
  <2> QED BY <2>2, FreezesStay
<1>12. CASE FreezeSettled(i)
  <2>1. att[i].pc = "frozen" /\ att[i].card \in Cards /\ cards[i][att[i].card] = "frozen"
    BY <1>12, TypesAt, PcsApart DEF FreezeSettled, SoundAt, Retired
  <2>2. Recorded(i) =>
          IF entries[i].sup \ {att[i].card} = {} /\ ~HasWork(entries[i]) /\ ~entries[i].dead
          THEN Unpended(entries[i], att[i].card) = NoEntry
          ELSE Shape(Unpended(entries[i], att[i].card), entries[i].stream, entries[i].ckpt, entries[i].text,
                     entries[i].done, entries[i].sup \ {att[i].card}, entries[i].dead)
    BY <1>2, <2>1, PendingShapes
  <2>3. entries'[i] = entries[i] \/ (Recorded(i) /\ entries'[i] = Unpended(entries[i], att[i].card))
    BY <1>1, <1>12 DEF FreezeSettled
  <2> QED BY <2>1, <2>2, <2>3 DEF FreezesKept, Recorded, Shape
<1>13. CASE RedrivePending(i)
  <2>1. PICK c \in entries[i].sup : Recorded(i) /\ Put(i, [entries[i] EXCEPT !.supDead = @ \ {c}])
    BY <1>13 DEF RedrivePending
  <2>2. c \in Cards BY <1>2, <2>1 DEF Entry
  <2>3. Shape([entries[i] EXCEPT !.supDead = @ \ {c}], entries[i].stream, entries[i].ckpt, entries[i].text,
              entries[i].done, entries[i].sup, entries[i].dead)
    BY <1>2, <2>1, <2>2, PendingShapes
  <2>4. Kept BY <1>1, <2>1, <2>3 DEF Shape
  <2> QED BY <2>4, FreezesStay
<1> QED
  BY <1>3, <1>4, <1>5, <1>6, <1>7, <1>8, <1>9, <1>10, <1>11, <1>12, <1>13
  DEF ProducerStep, AttemptStep, FreezeStep

\* Every step keeps the verdicts and the freezes of one entry, or evicts its dead letter.
LEMMA CardsNext ==
  ASSUME TypeInv, SafeInv, SoundInv, [Next]_vars, NEW i \in Ids
  PROVE  CardStands(i) /\ (FreezesKept(i) \/ Evictable(i))
<1>1. SafeAt(i) /\ SoundAt(i) BY DEF SafeInv, SoundInv
<1>2. ASSUME NEW j \in Ids,
             \/ SessionStep(j) \/ ProducerStep(j) \/ WorkerStep(j) \/ AttemptStep(j)
             \/ FreezeStep(j) \/ RedrivePending(j) \/ ReleaseHold(j)
      PROVE  CardStands(i) /\ (FreezesKept(i) \/ Evictable(i))
  <2>1. CASE i = j
    BY <1>1, <1>2, <2>1, SessionCards, DeliveryCards, SessionFreezes, DeliveryFreezes
  <2>2. CASE i # j
    BY <1>2, FrameSession, FrameWorker, FrameAttempt, FrameRest, CardsSession, CardsDelivery, <2>2, FreezesStay DEF OthersRest,
       CardsRest, CardStands
  <2> QED BY <2>1, <2>2
<1>3. ASSUME NEW S, Redrive(S)
      PROVE  CardStands(i) /\ FreezesKept(i)
  <2>1. UNCHANGED cards /\ (entries'[i] = entries[i] \/ (Recorded(i) /\ entries'[i] = Redriven(entries[i])))
    BY <1>3 DEF Redrive, remote
  <2>2. Recorded(i) => Shape(Redriven(entries[i]), entries[i].stream, entries[i].ckpt, entries[i].text,
                             entries[i].done, entries[i].sup, FALSE)
    BY TypesAt, UpdateShapes
  <2> QED BY <2>1, <2>2, FreezesStay DEF CardStands, Shape
<1>4. CASE Scan \/ Sleep \/ WakeUp \/ DrainWake \/ Restart \/ UNCHANGED vars
  BY <1>4, FreezesStay DEF Scan, Sleep, WakeUp, DrainWake, Restart, vars, durable, remote, CardStands
<1> QED BY <1>2, <1>3, <1>4 DEF Next

\* What was decided of a card stands, for any number of tasks, cards, restarts and redrives: as long as every write
\* succeeds its verdict is overwritten only in the case CardVerdictsStand names, and a freeze that is owed is dropped only
\* once the card is frozen or with its dead letter, failed writes included (reanchorStreamReservation,
\* discardReservation, completePendingStreamSupersede).
THEOREM CardsStayKept == Spec => CardsKept
<1>1. TypeInv /\ SafeInv /\ SoundInv /\ [Next]_vars =>
        [\A i \in Ids, c \in Cards :
           writeFails' = 0 /\ cards[i][c] \notin {"none", "open"} =>
             \/ cards'[i][c] = cards[i][c]
             \/ /\ cards[i][c] = "final" /\ cards'[i][c] = "interrupted"
                /\ restarts > 0 /\ (i \in TaskIds => acked[i] = 0)]_vars
  BY CardsNext DEF CardStands
<1>2. TypeInv /\ SafeInv /\ SoundInv /\ [Next]_vars =>
        [\A i \in Ids : Recorded(i) =>
           \A c \in entries[i].sup :
             \/ Recorded(i)' /\ c \in entries'[i].sup
             \/ cards[i][c] = "frozen"
             \/ Evictable(i)]_vars
  BY CardsNext DEF FreezesKept
<1> QED BY <1>1, <1>2, SafeCorrect, SoundCorrect, TypeCorrect, PTL DEF Spec, CardsKept, CardVerdictsStand, SupersedeNeverLost
=============================================================================
