------------------------ MODULE TerminalOutboxSafety ------------------------
(***************************************************************************)
(* Machine-checked properties of TerminalOutbox for every set of tasks and *)
(* every bound: types, and then the safety of live reservations.           *)
(***************************************************************************)
EXTENDS TerminalOutbox, FiniteSetTheorems, TLAPS

--------------------
(* What the operators on entries return.                                   *)

\* The values the builders of entries use belong to the fields they go to.
LEMMA FieldFacts ==
  /\ 0 \in 0 .. MaxCards
  /\ 0 \in 0 .. MaxAttempts
  /\ Cards \subseteq 0 .. MaxCards
  /\ {"none", "restart", "stub", "result"} = Texts
  /\ {"checkpoint", "text"} = Stages
BY BoundsAssumption DEF Cards, Texts, Stages

\* Every builder of entries returns one.
LEMMA EntryBuilders ==
  /\ NewEntry \in Entry
  /\ ResultDraft \in Entry
  /\ \A c \in Cards : RecoveryDraft(c) \in Entry
  /\ \A t \in Texts : [NewEntry EXCEPT !.text = t] \in Entry
<1>1. [c \in Cards |-> 0] \in [Cards -> 0 .. MaxAttempts] BY FieldFacts
<1>2. NewEntry \in Entry BY <1>1, FieldFacts DEF Entry, NewEntry
<1>3. \A t \in Texts : [NewEntry EXCEPT !.text = t] \in Entry BY <1>2 DEF Entry
<1>4. ResultDraft \in Entry BY <1>3, FieldFacts DEF ResultDraft
<1>5. ASSUME NEW c \in Cards PROVE RecoveryDraft(c) \in Entry
  BY <1>2, FieldFacts DEF Entry, RecoveryDraft
<1> QED BY <1>2, <1>3, <1>4, <1>5

\* Every update of an entry returns an entry.
LEMMA EntryUpdates ==
  ASSUME NEW e \in Entry
  PROVE  /\ \A c \in 0 .. MaxCards : Refreshed(e, c) \in Entry
         /\ \A t \in Texts : Staged(e, t) \in Entry
         /\ \A k \in 0 .. MaxCards : Committed(e, k) \in Entry
         /\ Blank(e) \in Entry
         /\ Rerouted(e) \in Entry
         /\ Redriven(e) \in Entry
         /\ Failed(e) \in Entry
         /\ Delivered(e) \in Entry \cup {NoEntry}
         /\ \A s \in Stages : [e EXCEPT !.done = @ \cup {s}] \in Entry
         /\ \A k \in 0 .. MaxCards : [e EXCEPT !.stream = 0, !.ckpt = k] \in Entry
<1>1. ASSUME NEW c \in 0 .. MaxCards PROVE Refreshed(e, c) \in Entry
  BY FieldFacts DEF Entry, Refreshed
<1>2. ASSUME NEW t \in Texts PROVE Staged(e, t) \in Entry BY DEF Entry, Staged
<1>3. ASSUME NEW k \in 0 .. MaxCards PROVE Committed(e, k) \in Entry
  <2> DEFINE s == IF k = 0 THEN e.stream ELSE 0
             t == IF e.text = "stub" /\ k # 0 THEN "none" ELSE e.text
  <2>1. s \in 0 .. MaxCards /\ t \in Texts BY FieldFacts DEF Entry
  <2>2. Committed(e, k) = [e EXCEPT !.stream = s, !.ckpt = k, !.text = t,
                                    !.recovery = FALSE, !.done = {}, !.dead = FALSE]
    BY DEF Committed
  <2> HIDE DEF s, t
  <2> QED BY <2>1, <2>2 DEF Entry
<1>4. Blank(e) \in Entry BY FieldFacts DEF Entry, Blank
<1>5. Rerouted(e) \in Entry BY FieldFacts DEF Entry, Rerouted
<1>6. Redriven(e) \in Entry BY DEF Entry, Redriven
<1>7. Failed(e) \in Entry
  <2> DEFINE n == IF e.attempts < MaxAttempts THEN e.attempts + 1 ELSE MaxAttempts
  <2>1. n \in 0 .. MaxAttempts BY BoundsAssumption DEF Entry
  <2>2. Failed(e) = [e EXCEPT !.attempts = n, !.dead = (n = MaxAttempts)] BY DEF Failed
  <2>3. (n = MaxAttempts) \in BOOLEAN OBVIOUS
  <2> HIDE DEF n
  <2> QED BY <2>1, <2>2, <2>3 DEF Entry
<1>8. Delivered(e) \in Entry \cup {NoEntry} BY DEF Entry, Delivered
<1>9. ASSUME NEW s \in Stages PROVE [e EXCEPT !.done = @ \cup {s}] \in Entry
  BY DEF Entry
<1>10. ASSUME NEW k \in 0 .. MaxCards PROVE [e EXCEPT !.stream = 0, !.ckpt = k] \in Entry
  BY FieldFacts DEF Entry
<1> QED BY <1>1, <1>2, <1>3, <1>4, <1>5, <1>6, <1>7, <1>8, <1>9, <1>10

\* The freezes of an entry can be replaced together, its attempts reset or not.
LEMMA FreezeFields ==
  ASSUME NEW r \in Entry, NEW s \in SUBSET Cards,
         NEW t \in [Cards -> 0 .. MaxAttempts], NEW d \in SUBSET Cards
  PROVE  /\ [r EXCEPT !.sup = s, !.supTries = t, !.supDead = d] \in Entry
         /\ [r EXCEPT !.attempts = 0, !.sup = s, !.supTries = t, !.supDead = d] \in Entry
<1>1. 0 \in 0 .. MaxAttempts BY FieldFacts
<1> QED BY <1>1 DEF Entry

\* The same for the updates that touch the pending freezes.
LEMMA FreezeUpdates ==
  ASSUME NEW e \in Entry, NEW c \in Cards
  PROVE  /\ \A n \in Cards : Reanchored(e, n, c) \in Entry
         /\ Detached(e, c) \in Entry
         /\ Unpended(e, c) \in Entry \cup {NoEntry}
         /\ SupersedeFailed(e, c) \in Entry
         /\ [e EXCEPT !.supDead = @ \ {c}] \in Entry
<1> DEFINE zero == [e.supTries EXCEPT ![c] = 0]
<1>1. /\ zero \in [Cards -> 0 .. MaxAttempts]
      /\ e.sup \cup {c} \in SUBSET Cards
      /\ e.sup \ {c} \in SUBSET Cards
      /\ e.supDead \ {c} \in SUBSET Cards
  BY FieldFacts DEF Entry
<1>2. ASSUME NEW n \in Cards PROVE Reanchored(e, n, c) \in Entry
  <2>1. Refreshed(e, n) \in Entry BY FieldFacts, EntryUpdates
  <2> HIDE DEF zero
  <2>2. [Refreshed(e, n) EXCEPT !.attempts = 0, !.sup = e.sup \cup {c},
                                !.supTries = zero, !.supDead = e.supDead \ {c}] \in Entry
    BY <1>1, <2>1, FreezeFields
  <2> QED BY <2>2 DEF Reanchored, zero
<1>3. Detached(e, c) \in Entry
  <2>1. Blank(e) \in Entry BY EntryUpdates
  <2> HIDE DEF zero
  <2>2. [Blank(e) EXCEPT !.attempts = 0, !.sup = e.sup \cup {c},
                         !.supTries = zero, !.supDead = e.supDead \ {c}] \in Entry
    BY <1>1, <2>1, FreezeFields
  <2> QED BY <2>2 DEF Detached, zero
<1>4. Unpended(e, c) \in Entry \cup {NoEntry}
  <2> DEFINE r == [e EXCEPT !.sup = @ \ {c}, !.supTries[c] = 0, !.supDead = @ \ {c}]
  <2>1. r = [e EXCEPT !.sup = e.sup \ {c}, !.supTries = zero, !.supDead = e.supDead \ {c}]
    BY DEF Entry
  <2>2. r \in Entry
    <3> HIDE DEF zero, r
    <3> QED BY <1>1, <2>1 DEF Entry
  <2>3. Unpended(e, c) \in {r, NoEntry} BY DEF Unpended
  <2> QED BY <2>2, <2>3
<1>5. SupersedeFailed(e, c) \in Entry
  <2> DEFINE n == IF e.supTries[c] < MaxAttempts THEN e.supTries[c] + 1 ELSE MaxAttempts
             t == [e.supTries EXCEPT ![c] = n]
             d == IF n = MaxAttempts THEN e.supDead \cup {c} ELSE e.supDead
  <2>1. n \in 0 .. MaxAttempts BY BoundsAssumption DEF Entry
  <2>2. t \in [Cards -> 0 .. MaxAttempts] /\ d \in SUBSET Cards BY <2>1 DEF Entry
  <2>3. SupersedeFailed(e, c) = [e EXCEPT !.supTries = t, !.supDead = d]
    BY DEF SupersedeFailed
  <2> HIDE DEF n, t, d
  <2> QED BY <2>2, <2>3 DEF Entry
<1>6. [e EXCEPT !.supDead = @ \ {c}] \in Entry BY <1>1 DEF Entry
<1> QED BY <1>2, <1>3, <1>4, <1>5, <1>6

--------------------
(* Type correctness.                                                       *)

\* A card transition knows the cards it is about, an attempt has its clone.
HolderCards ==
  \A i \in Ids :
    /\ att[i].pc \in FreezePcs => att[i].card \in Cards
    /\ att[i].pc = "opened" => cur[i] \in Cards
    /\ att[i].pc \in AttemptPcs => att[i].copy \in Entry

TypeInv == TypeOK /\ HolderCards

\* Every holder the actions build is one.
LEMMA HolderBuilders ==
  /\ Idle \in Holder
  /\ \A c \in Cards, p \in FreezePcs, b \in {"worker", "direct", "session"} :
       [Idle EXCEPT !.pc = p, !.by = b, !.card = c] \in Holder
  /\ \A e \in Entry, b \in {"worker", "direct", "session"} :
       [Idle EXCEPT !.pc = "begun", !.by = b, !.copy = e] \in Holder
<1>1. /\ 0 \in 0 .. MaxCards
      /\ Cards \subseteq 0 .. MaxCards
      /\ {} \in SUBSET Stages
  BY FieldFacts
<1>2. Idle \in Holder BY <1>1 DEF Holder, Idle
<1>3. ASSUME NEW c \in Cards, NEW p \in FreezePcs, NEW b \in {"worker", "direct", "session"}
      PROVE  [Idle EXCEPT !.pc = p, !.by = b, !.card = c] \in Holder
  BY <1>1, <1>2 DEF Holder
<1>4. ASSUME NEW e \in Entry, NEW b \in {"worker", "direct", "session"}
      PROVE  [Idle EXCEPT !.pc = "begun", !.by = b, !.copy = e] \in Holder
  BY <1>2 DEF Holder, AttemptPcs
<1> QED BY <1>2, <1>3, <1>4

\* Every step of a holder leads to one.
LEMMA HolderUpdates ==
  ASSUME NEW h \in Holder
  PROVE  /\ \A c \in Cards : [h EXCEPT !.pc = "persisted", !.card = c] \in Holder
         /\ [h EXCEPT !.pc = "frozen"] \in Holder
         /\ [h EXCEPT !.pc = "prepare"] \in Holder
         /\ \A r \in SUBSET Stages : [h EXCEPT !.pc = "sending", !.run = r] \in Holder
         /\ \A r \in SUBSET Stages : [h EXCEPT !.pc = "sending", !.err = TRUE, !.run = r] \in Holder
         /\ \A e \in Entry, r \in SUBSET Stages :
              [h EXCEPT !.pc = "sending", !.copy = e, !.run = r] \in Holder
         /\ \A s \in Stages : [h EXCEPT !.run = @ \ {s}, !.sent = @ \cup {s}] \in Holder
         /\ \A s \in Stages : [h EXCEPT !.run = @ \ {s}, !.err = TRUE] \in Holder
         /\ \A r \in SUBSET Stages : [h EXCEPT !.err = TRUE, !.run = r] \in Holder
         /\ \A s \in Stages : [h EXCEPT !.sent = @ \ {s}] \in Holder
         /\ \A s \in Stages : [h EXCEPT !.sent = @ \ {s}, !.err = TRUE] \in Holder
<1>1. Cards \subseteq 0 .. MaxCards BY FieldFacts
<1>2. {"persisted", "frozen", "prepare", "sending"}
        \subseteq {"idle"} \cup AttemptPcs \cup FreezePcs
  BY DEF AttemptPcs, FreezePcs
<1> QED BY <1>1, <1>2 DEF Holder

\* The helpers of the actions keep the file's type.
LEMMA FileSteps ==
  ASSUME TypeOK, NEW i \in Ids
  PROVE  /\ \A e \in Entry \cup {NoEntry} :
              Put(i, e) => entries' \in [Ids -> Entry \cup {NoEntry}]
         /\ \A e \in Entry : Insert(i, e) => entries' \in [Ids -> Entry \cup {NoEntry}]
         /\ WriteFails => writeFails' \in 0 .. MaxWriteFails
         /\ Recorded(i) => entries[i] \in Entry
<1>1. \A e \in Entry \cup {NoEntry} :
        Put(i, e) => entries' \in [Ids -> Entry \cup {NoEntry}]
  BY DEF TypeOK, Put
<1>2. ASSUME NEW e \in Entry, Insert(i, e)
      PROVE  entries' \in [Ids -> Entry \cup {NoEntry}]
  <2>1. PICK base \in Room : entries' = [base EXCEPT ![i] = e] BY <1>2 DEF Insert
  <2>2. base \in [Ids -> Entry \cup {NoEntry}] BY <2>1 DEF Room, TypeOK
  <2> QED BY <2>1, <2>2
<1>3. WriteFails => writeFails' \in 0 .. MaxWriteFails
  BY BoundsAssumption DEF TypeOK, WriteFails
<1>4. Recorded(i) => entries[i] \in Entry BY DEF TypeOK, Recorded
<1> QED BY <1>1, <1>2, <1>3, <1>4

\* Saving the active card keeps the types.
LEMMA SaveActiveType ==
  ASSUME TypeOK, NEW i \in Ids, NEW c \in Cards, SaveActive(i, c)
  PROVE  /\ entries' \in [Ids -> Entry \cup {NoEntry}]
         /\ preparing' \subseteq Ids
         /\ resv' \in [Ids -> BOOLEAN]
         /\ writeFails' \in 0 .. MaxWriteFails
<1>1. Recorded(i) => Refreshed(entries[i], c) \in Entry
  BY FileSteps, EntryUpdates, FieldFacts
<1>2. RecoveryDraft(c) \in Entry BY EntryBuilders
<1> QED BY <1>1, <1>2, FileSteps DEF SaveActive, TypeOK, CannotInsert

\* Discarding a reservation keeps the types.
LEMMA DiscardType ==
  ASSUME TypeOK, NEW i \in Ids, Discard(i)
  PROVE  /\ entries' \in [Ids -> Entry \cup {NoEntry}]
         /\ preparing' \subseteq Ids
         /\ writeFails' \in 0 .. MaxWriteFails
<1>1. Recorded(i) => Blank(entries[i]) \in Entry BY FileSteps, EntryUpdates
<1> QED BY <1>1, FileSteps DEF Discard, TypeOK

\* A card takes a new state, or does not exist.
LEMMA CardType ==
  ASSUME TypeOK, NEW i \in Ids, NEW c, NEW v \in CardStates
  PROVE  [cards EXCEPT ![i][c] = v] \in [Ids -> [Cards -> CardStates]]
<1>1. cards[i] \in [Cards -> CardStates] BY DEF TypeOK
<1>2. [cards[i] EXCEPT ![c] = v] \in [Cards -> CardStates] BY <1>1
<1> QED BY <1>2 DEF TypeOK

\* A step of one holder that leaves it with the right cards keeps HolderCards.
LEMMA HolderStep ==
  ASSUME TypeOK, HolderCards, NEW i \in Ids, NEW h \in Holder,
         att' = [att EXCEPT ![i] = h],
         \A j \in Ids \ {i} : cur'[j] = cur[j],
         h.pc \in FreezePcs => h.card \in Cards,
         h.pc = "opened" => cur'[i] \in Cards,
         h.pc \in AttemptPcs => h.copy \in Entry
  PROVE  HolderCards' /\ att' \in [Ids -> Holder]
<1>1. \A j \in Ids : att'[j] = IF j = i THEN h ELSE att[j] BY DEF TypeOK
<1>2. HolderCards' BY <1>1 DEF HolderCards
<1>3. att' \in [Ids -> Holder] BY DEF TypeOK
<1> QED BY <1>2, <1>3

\* The session forgets its reservation, or the write failed.
LEMMA DiscardActiveType ==
  ASSUME TypeOK, NEW i \in Ids, DiscardActive(i)
  PROVE  /\ entries' \in [Ids -> Entry \cup {NoEntry}]
         /\ preparing' \subseteq Ids
         /\ writeFails' \in 0 .. MaxWriteFails
         /\ resv' \in [Ids -> BOOLEAN]
         /\ wake' \in BOOLEAN
<1>1. CASE resv[i] /\ Discard(i) /\ resv' = [resv EXCEPT ![i] = writeFails' # writeFails]
           /\ wake' = (wake \/ (Recorded(i) /\ entries[i].sup # {} /\ writeFails' = writeFails))
  BY <1>1, DiscardType DEF TypeOK
<1>2. CASE UNCHANGED <<entries, preparing, resv, wake, writeFails>> BY <1>2 DEF TypeOK
<1> QED BY <1>1, <1>2 DEF DiscardActive

--------------------
(* Each step of a session keeps the types.                                 *)

\* A new session with a card.
LEMMA TypeStartWithCard ==
  ASSUME TypeInv, NEW i \in Ids, StartWithCard(i)
  PROVE  TypeInv'
<1> USE DEF TypeInv
<1>1. 1 \in Cards BY BoundsAssumption DEF StartWithCard, Cards
<1>2. SaveActive(i, 1) BY DEF StartWithCard
<1>3. cards' \in [Ids -> [Cards -> CardStates]]
  BY CardType DEF StartWithCard, CardStates
<1>4. HolderCards' /\ att' \in [Ids -> Holder] /\ cur' \in [Ids -> 0 .. MaxCards]
  BY <1>1, FieldFacts DEF StartWithCard, Fresh, Idle, HolderCards, TypeOK, FreezePcs, AttemptPcs
<1> QED BY <1>1, <1>2, <1>3, <1>4, SaveActiveType DEF TypeOK, StartWithCard, Sessions

\* A progress update.
LEMMA TypeRefreshActiveStream ==
  ASSUME TypeInv, NEW i \in Ids, RefreshActiveStream(i)
  PROVE  TypeInv'
<1> USE DEF TypeInv
<1>1. cur[i] \in Cards
  BY BoundsAssumption DEF RefreshActiveStream, CanWriteCard, TypeOK, Cards
<1>2. SaveActive(i, cur[i]) BY DEF RefreshActiveStream
<1> QED BY <1>1, <1>2, SaveActiveType DEF TypeOK, HolderCards, remote, RefreshActiveStream

\* The new card of a reanchor opens, or does not.
LEMMA TypeReanchorOpen ==
  ASSUME TypeInv, NEW i \in Ids, ReanchorOpen(i)
  PROVE  TypeInv'
<1> USE DEF TypeInv
<1>1. cur[i] \in Cards BY BoundsAssumption DEF ReanchorOpen, CanWriteCard, TypeOK, Cards
<1>2. PICK new \in Cards :
        \/ /\ att' = [att EXCEPT ![i] =
                        [Idle EXCEPT !.pc = "opened", !.by = "session", !.card = new]]
           /\ cards' = [cards EXCEPT ![i][new] = "open"]
           /\ UNCHANGED wake
        \/ /\ wake' = TRUE
           /\ UNCHANGED <<att, cards>>
  BY DEF ReanchorOpen, Unused
<1>3. UNCHANGED <<entries, preparing, startupHeld, due, asleep, sess, resv, cur,
                  shown, acked, writeFails, restarts, redrives>>
  BY DEF ReanchorOpen, durable, budget
<1>4. HolderCards' /\ att' \in [Ids -> Holder]
  <2>1. CASE UNCHANGED att BY <1>3, <2>1 DEF HolderCards, TypeOK
  <2>2. CASE att' = [att EXCEPT ![i] =
                       [Idle EXCEPT !.pc = "opened", !.by = "session", !.card = new]]
    BY <1>1, <1>3, <2>2, HolderStep, HolderBuilders DEF FreezePcs, AttemptPcs, Idle
  <2> QED BY <1>2, <2>1, <2>2
<1>5. cards' \in [Ids -> [Cards -> CardStates]]
  <2>1. "open" \in CardStates BY DEF CardStates
  <2>2. [cards EXCEPT ![i][new] = "open"] \in [Ids -> [Cards -> CardStates]]
    BY <2>1, CardType
  <2> QED BY <1>2, <2>2 DEF TypeOK
<1> QED BY <1>2, <1>3, <1>4, <1>5 DEF TypeOK

\* The new card is persisted, or given up.
LEMMA TypeReanchorPersist ==
  ASSUME TypeInv, NEW i \in Ids, ReanchorPersist(i)
  PROVE  TypeInv'
<1> USE DEF TypeInv
<1>1. cur[i] \in Cards /\ att[i].card \in Cards /\ att[i] \in Holder
  BY DEF ReanchorPersist, HolderCards, TypeOK, FreezePcs
<1>2. entries' \in [Ids -> Entry \cup {NoEntry}]
  BY <1>1, FileSteps, FreezeUpdates DEF ReanchorPersist, TypeOK
<1>3. cards' \in [Ids -> [Cards -> CardStates]]
  <2>1. \/ UNCHANGED cards
        \/ cards' = [cards EXCEPT ![i][att[i].card] = "frozen"]
        \/ cards' = [cards EXCEPT ![i][att[i].card] = "open"]
    BY DEF ReanchorPersist
  <2>2. /\ [cards EXCEPT ![i][att[i].card] = "frozen"] \in [Ids -> [Cards -> CardStates]]
        /\ [cards EXCEPT ![i][att[i].card] = "open"] \in [Ids -> [Cards -> CardStates]]
    BY CardType DEF CardStates
  <2> QED BY <2>1, <2>2 DEF TypeOK
<1>4. cur' \in [Ids -> 0 .. MaxCards] /\ \A j \in Ids \ {i} : cur'[j] = cur[j]
  BY <1>1, FieldFacts DEF ReanchorPersist, TypeOK
<1>5. ASSUME att' = [att EXCEPT ![i].pc = "persisted", ![i].card = cur[i]]
      PROVE  HolderCards' /\ att' \in [Ids -> Holder]
  <2> DEFINE h == [att[i] EXCEPT !.pc = "persisted", !.card = cur[i]]
  <2>1. h \in Holder BY <1>1, HolderUpdates
  <2>2. h.pc = "persisted" /\ h.card = cur[i] /\ "persisted" \notin AttemptPcs
    BY <1>1 DEF Holder, AttemptPcs
  <2>3. att' = [att EXCEPT ![i] = h] BY <1>5
  <2> HIDE DEF h
  <2> QED BY <1>1, <1>4, <2>1, <2>2, <2>3, HolderStep
<1>6. ASSUME att' = [att EXCEPT ![i] = Idle]
      PROVE  HolderCards' /\ att' \in [Ids -> Holder]
  BY <1>4, <1>6, HolderStep, HolderBuilders DEF Idle, FreezePcs, AttemptPcs
<1>7. HolderCards' /\ att' \in [Ids -> Holder] BY <1>5, <1>6 DEF ReanchorPersist
<1> QED BY <1>2, <1>3, <1>4, <1>7, FileSteps DEF TypeOK, ReanchorPersist

\* A reanchor of a session whose reservation failed.
LEMMA TypeReanchorUnreserved ==
  ASSUME TypeInv, NEW i \in Ids, ReanchorUnreserved(i)
  PROVE  TypeInv'
<1> USE DEF TypeInv
<1>1. PICK new \in Unused(i), state \in {"frozen", "open"} :
       \/ /\ Insert(i, RecoveryDraft(new))
          /\ preparing' = preparing \cup {i}
          /\ resv' = [resv EXCEPT ![i] = TRUE]
          /\ cur' = [cur EXCEPT ![i] = new]
          /\ cards' = [cards EXCEPT ![i] = [@ EXCEPT ![new] = "open", ![cur[i]] = state]]
          /\ UNCHANGED writeFails
       \/ /\ CannotInsert
          /\ cards' = [cards EXCEPT ![i][new] = state]
          /\ UNCHANGED <<entries, preparing, resv, cur>>
  BY DEF ReanchorUnreserved
<1>2. UNCHANGED <<startupHeld, att, due, asleep, wake, sess, shown, acked, restarts, redrives>>
      /\ att[i].pc = "idle"
  BY DEF ReanchorUnreserved
<1>3. new \in Cards /\ state \in CardStates /\ "open" \in CardStates
  BY DEF Unused, CardStates
<1>4. entries' \in [Ids -> Entry \cup {NoEntry}]
  BY <1>1, <1>3, FileSteps, EntryBuilders DEF TypeOK
<1>5. preparing' \subseteq Ids /\ writeFails' \in 0 .. MaxWriteFails /\ resv' \in [Ids -> BOOLEAN]
  BY <1>1, FileSteps DEF TypeOK, CannotInsert
<1>6. cur' \in [Ids -> 0 .. MaxCards] /\ \A j \in Ids \ {i} : cur'[j] = cur[j]
  BY <1>1, <1>3, FieldFacts DEF TypeOK
<1>7. cards' \in [Ids -> [Cards -> CardStates]]
  <2>1. [cards EXCEPT ![i][new] = state] \in [Ids -> [Cards -> CardStates]]
    BY <1>3, CardType
  <2> DEFINE both == [cards[i] EXCEPT ![new] = "open", ![cur[i]] = state]
  <2>2. both \in [Cards -> CardStates] BY <1>3 DEF TypeOK
  <2>3. [cards EXCEPT ![i] = both] \in [Ids -> [Cards -> CardStates]] BY <2>2 DEF TypeOK
  <2> QED BY <1>1, <2>1, <2>3
<1>8. HolderCards' BY <1>2, <1>6 DEF HolderCards
<1> QED BY <1>2, <1>4, <1>5, <1>6, <1>7, <1>8 DEF TypeOK

\* The release of a window, with its card's freeze.
LEMMA TypeDetach ==
  ASSUME TypeInv, NEW i \in Ids, Detach(i)
  PROVE  TypeInv'
<1> USE DEF TypeInv
<1>1. cur[i] # 0 => cur[i] \in Cards BY BoundsAssumption DEF TypeOK, Cards
<1>2. entries' \in [Ids -> Entry \cup {NoEntry}] /\ writeFails' \in 0 .. MaxWriteFails
  BY <1>1, FileSteps, FreezeUpdates DEF Detach, TypeOK
<1>3. cards' \in [Ids -> [Cards -> CardStates]]
  <2>1. [cards EXCEPT ![i][cur[i]] = "frozen"] \in [Ids -> [Cards -> CardStates]]
    BY CardType DEF CardStates
  <2> QED BY <2>1 DEF Detach, TypeOK
<1>4. UNCHANGED <<startupHeld, due, asleep, cur, shown, acked, restarts, redrives>>
  BY DEF Detach
<1>5. HolderCards' /\ att' \in [Ids -> Holder]
  BY <1>4, <1>1, HolderStep, HolderBuilders DEF HolderCards, TypeOK, FreezePcs, AttemptPcs, Idle, Detach
<1>6. sess' \in [Ids -> Sessions] /\ preparing' \subseteq Ids /\ resv' \in [Ids -> BOOLEAN]
      /\ wake' \in BOOLEAN
  BY DEF Detach, TypeOK, Sessions
<1> QED BY <1>2, <1>3, <1>4, <1>5, <1>6 DEF TypeOK

\* A revoked session is dropped.
LEMMA TypeAbandon ==
  ASSUME TypeInv, NEW i \in Ids, Abandon(i)
  PROVE  TypeInv'
<1>1. DiscardActive(i) BY DEF Abandon
<1>2. UNCHANGED <<startupHeld, att, due, asleep, cur, cards, shown, acked, restarts, redrives>>
      /\ sess' \in [Ids -> Sessions]
  BY DEF Abandon, remote, TypeInv, TypeOK, Sessions
<1> QED BY <1>1, <1>2, DiscardActiveType DEF TypeInv, TypeOK, HolderCards

\* A terminal without a recovery reserves its entry.
LEMMA TypeReserveResult ==
  ASSUME TypeInv, NEW i \in Ids, ReserveResult(i)
  PROVE  TypeInv'
<1> USE DEF TypeInv
<1>1. FinalTexts(i) \subseteq Texts BY FieldFacts DEF FinalTexts
<1>2. entries' \in [Ids -> Entry \cup {NoEntry}]
  BY <1>1, FileSteps, EntryBuilders DEF ReserveResult, TypeOK
<1>3. /\ UNCHANGED <<startupHeld, att, due, asleep, wake, resv, cur, cards, shown, acked,
                     restarts, redrives>>
      /\ sess' \in [Ids -> Sessions]
      /\ preparing' \subseteq Ids
      /\ writeFails' \in 0 .. MaxWriteFails
  BY FileSteps DEF ReserveResult, remote, TypeOK, Sessions, CannotInsert
<1> QED BY <1>2, <1>3 DEF TypeOK, HolderCards

\* The result is staged.
LEMMA TypeStage ==
  ASSUME TypeInv, NEW i \in Ids, Stage(i)
  PROVE  TypeInv'
<1> USE DEF TypeInv
<1>1. Recorded(i) /\ entries[i] \in Entry BY FileSteps DEF Stage
<1>2. StageTexts(i) \subseteq Texts
  BY <1>1, FieldFacts DEF StageTexts, FinalTexts, Entry
<1>3. entries' \in [Ids -> Entry \cup {NoEntry}]
  <2>1. PICK t \in Texts : Put(i, Staged(entries[i], t)) BY <1>2 DEF Stage
  <2>2. Staged(entries[i], t) \in Entry BY <1>1, EntryUpdates
  <2> QED BY <2>1, <2>2, FileSteps
<1>4. /\ UNCHANGED <<preparing, startupHeld, att, due, asleep, wake, resv, cur, cards, shown,
                     acked, writeFails, restarts, redrives>>
      /\ sess' \in [Ids -> Sessions]
  BY DEF Stage, remote, budget, TypeOK, Sessions
<1> QED BY <1>3, <1>4 DEF TypeOK, HolderCards

\* The legacy end of a session.
LEMMA TypeLegacy ==
  ASSUME TypeInv, NEW i \in Ids, LegacyFinish(i) \/ LegacyDiscard(i)
  PROVE  TypeInv'
<1> USE DEF TypeInv
<1>1. cards' \in [Ids -> [Cards -> CardStates]]
  <2>1. [cards EXCEPT ![i][cur[i]] = "final"] \in [Ids -> [Cards -> CardStates]]
    BY CardType DEF CardStates
  <2> QED BY <2>1 DEF LegacyFinish, LegacyDiscard, TypeOK
<1>2. shown' \in [Ids -> SUBSET Texts]
  BY FieldFacts DEF LegacyFinish, LegacyDiscard, BestEffort, TypeOK
<1>3. sess' \in [Ids -> Sessions] BY DEF LegacyFinish, LegacyDiscard, TypeOK, Sessions
<1>4. UNCHANGED <<startupHeld, att, due, asleep, cur, acked, restarts, redrives>>
  BY DEF LegacyFinish, LegacyDiscard, budget
<1>5. CASE LegacyFinish(i)
  BY <1>5, <1>1, <1>2, <1>3, <1>4 DEF LegacyFinish, durable, budget, TypeOK, HolderCards
<1>6. CASE LegacyDiscard(i)
  <2>1. DiscardActive(i) BY <1>6 DEF LegacyDiscard
  <2> QED BY <1>1, <1>2, <1>3, <1>4, <2>1, DiscardActiveType DEF TypeOK, HolderCards
<1> QED BY <1>5, <1>6

\* The steps of a session that touch one entry or none.
LEMMA TypeSessionRest ==
  ASSUME TypeInv, NEW i \in Ids, StartPlain(i) \/ StageFails(i) \/ Commit(i)
  PROVE  TypeInv'
<1> USE DEF TypeInv
<1>1. CASE StartPlain(i)
  BY <1>1 DEF TypeOK, HolderCards, durable, remote, budget, StartPlain, Sessions
<1>2. CASE StageFails(i)
  BY <1>2, FileSteps DEF TypeOK, HolderCards, durable, remote, StageFails, Sessions
<1>3. CASE Commit(i)
  BY <1>3, FileSteps, EntryUpdates, FieldFacts DEF Commit, TypeOK, HolderCards, remote, Sessions
<1> QED BY <1>1, <1>2, <1>3

--------------------
(* Each step of the producers, the worker and the attempts keeps the types.*)

\* A draft is queued, or queued again.
LEMMA TypeEnqueue ==
  ASSUME TypeInv, NEW i \in Ids, Enqueue(i) \/ EnqueueAgain(i)
  PROVE  TypeInv'
<1> USE DEF TypeInv
<1>1. CASE Enqueue(i)
  BY <1>1, FileSteps, EntryBuilders DEF Enqueue, TypeOK, Sessions, CannotInsert, HolderCards, remote
<1>2. CASE EnqueueAgain(i)
  <2>1. entries' \in [Ids -> Entry \cup {NoEntry}]
    BY <1>2, FileSteps, EntryUpdates DEF EnqueueAgain, TypeOK
  <2>2. redrives' \in 0 .. MaxRedrives /\ writeFails' \in 0 .. MaxWriteFails
    BY <1>2, FileSteps, BoundsAssumption DEF EnqueueAgain, TypeOK
  <2> QED BY <1>2, <2>1, <2>2 DEF TypeOK, HolderCards, remote, EnqueueAgain
<1> QED BY <1>1, <1>2

\* An attempt begins on a clone of the entry.
LEMMA TypeBegin ==
  ASSUME TypeInv, NEW i \in Ids, WorkerAttempt(i) \/ DirectAttempt(i)
  PROVE  TypeInv'
<1> USE DEF TypeInv
<1>1. UNCHANGED cur BY DEF WorkerAttempt, DirectAttempt
<1>2. HolderCards' /\ att' \in [Ids -> Holder]
  <2>1. CASE UNCHANGED att BY <1>1, <2>1 DEF HolderCards, TypeOK
  <2>2. ASSUME NEW who \in {"worker", "direct"}, CanBegin(i), Begin(i, who)
        PROVE  HolderCards' /\ att' \in [Ids -> Holder]
    <3>1. entries[i] \in Entry BY <2>2, FileSteps DEF CanBegin
    <3> DEFINE h == [Idle EXCEPT !.pc = "begun", !.by = who, !.copy = entries[i]]
    <3>2. h \in Holder BY <3>1, HolderBuilders
    <3>3. h.pc \notin FreezePcs /\ h.pc # "opened" /\ h.copy \in Entry
      BY <3>1 DEF Idle, FreezePcs
    <3>4. att' = [att EXCEPT ![i] = h] BY <2>2 DEF Begin
    <3> HIDE DEF h
    <3> QED BY <1>1, <3>2, <3>3, <3>4, HolderStep
  <2> QED BY <2>1, <2>2 DEF WorkerAttempt, DirectAttempt
<1> QED BY <1>2 DEF TypeOK, durable, remote, budget, WorkerAttempt, DirectAttempt, Sessions

\* The worker takes up a freeze.
LEMMA TypeWorkerSupersede ==
  ASSUME TypeInv, NEW i \in Ids, WorkerSupersede(i)
  PROVE  TypeInv'
<1> USE DEF TypeInv
<1>1. PendingFreezes(i) \subseteq Cards BY FileSteps DEF PendingFreezes, Entry
<1>2. PICK c \in Cards :
        att' = [att EXCEPT ![i] = [Idle EXCEPT !.pc = "persisted", !.by = "worker", !.card = c]]
  BY <1>1 DEF WorkerSupersede
<1>3. UNCHANGED <<entries, preparing, startupHeld, due, asleep, wake, sess, resv, cur,
                  cards, shown, acked, writeFails, restarts, redrives>>
  BY DEF WorkerSupersede, durable, remote, budget
<1>4. HolderCards' /\ att' \in [Ids -> Holder]
  BY <1>2, <1>3, HolderStep, HolderBuilders DEF FreezePcs, AttemptPcs, Idle
<1> QED BY <1>3, <1>4 DEF TypeOK

\* The delivery decision lets the attempt go on.
LEMMA TypeAllow ==
  ASSUME TypeInv, NEW i \in Ids, Allow(i)
  PROVE  TypeInv'
<1> USE DEF TypeInv
<1>1. UNCHANGED <<entries, preparing, startupHeld, due, asleep, wake, sess, resv, cur,
                  cards, shown, acked, writeFails, restarts, redrives>>
  BY DEF Allow, durable, remote, budget
<1>2. att[i] \in Holder BY DEF TypeOK
<1> DEFINE r == Undelivered(att[i].copy)
           p == [att[i] EXCEPT !.pc = "prepare"]
           s == [att[i] EXCEPT !.pc = "sending", !.run = r]
<1>3. r \in SUBSET Stages BY DEF Undelivered
<1>4. p \in Holder /\ s \in Holder
  <2> HIDE DEF r
  <2> QED BY <1>2, <1>3, HolderUpdates
<1>5. p.pc = "prepare" /\ s.pc = "sending" /\ p.copy \in Entry /\ s.copy \in Entry
  BY <1>2 DEF Holder, HolderCards, AttemptPcs, Allow
<1>6. att' = [att EXCEPT ![i] = p] \/ att' = [att EXCEPT ![i] = s] BY DEF Allow
<1>7. HolderCards' /\ att' \in [Ids -> Holder]
  <2> HIDE DEF p, s, r
  <2>1. "prepare" \notin FreezePcs /\ "sending" \notin FreezePcs BY DEF FreezePcs
  <2>2. CASE att' = [att EXCEPT ![i] = p] BY <1>1, <1>4, <1>5, <2>1, <2>2, HolderStep
  <2>3. CASE att' = [att EXCEPT ![i] = s] BY <1>1, <1>4, <1>5, <2>1, <2>3, HolderStep
  <2> QED BY <1>6, <2>2, <2>3
<1> QED BY <1>1, <1>7 DEF TypeOK

\* The end of an attempt or a transition keeps the holders' types.
LEMMA EndAttemptType ==
  ASSUME TypeInv, NEW i \in Ids, EndAttempt(i), UNCHANGED cur
  PROVE  HolderCards' /\ att' \in [Ids -> Holder] /\ wake' \in BOOLEAN
<1>1. Idle.pc = "idle" /\ "idle" \notin FreezePcs \cup AttemptPcs
  BY DEF Idle, FreezePcs, AttemptPcs
<1>2. att' = [att EXCEPT ![i] = Idle] /\ wake' = TRUE BY DEF EndAttempt
<1> QED BY <1>1, <1>2, HolderStep, HolderBuilders DEF TypeInv

\* The delivery decision ends the attempt.
LEMMA TypeRefuse ==
  ASSUME TypeInv, NEW i \in Ids, Defer(i) \/ Deny(i)
  PROVE  TypeInv'
<1> USE DEF TypeInv
<1>1. EndAttempt(i) /\ UNCHANGED <<startupHeld, due, asleep, sess, resv, cur, cards, shown,
                                   acked, restarts, redrives>>
  BY DEF Defer, Deny, remote, budget
<1>2. HolderCards' /\ att' \in [Ids -> Holder] /\ wake' \in BOOLEAN
  BY <1>1, EndAttemptType
<1>3. CASE Defer(i) BY <1>3, <1>1, <1>2 DEF Defer, durable, budget, TypeOK
<1>4. CASE Deny(i)
  <2>1. Discard(i) BY <1>4 DEF Deny
  <2> QED BY <1>1, <1>2, <2>1, DiscardType DEF TypeOK
<1> QED BY <1>3, <1>4

\* The recorded card becomes a checkpoint, or does not.
LEMMA TypePrepare ==
  ASSUME TypeInv, NEW i \in Ids, Prepare(i)
  PROVE  TypeInv'
<1> USE DEF TypeInv
<1>1. UNCHANGED <<preparing, startupHeld, due, asleep, wake, sess, resv, cur, cards, shown,
                  acked, restarts, redrives>>
  BY DEF Prepare, remote
<1>2. att[i] \in Holder /\ att[i].copy \in Entry /\ att[i].copy.stream \in 0 .. MaxCards
  BY DEF TypeOK, Entry, HolderCards, AttemptPcs, Prepare
<1> DEFINE e == [entries[i] EXCEPT !.stream = 0, !.ckpt = att[i].copy.stream]
           x == [att[i] EXCEPT !.pc = "sending", !.copy = e, !.run = Undelivered(e)]
           y == [att[i] EXCEPT !.pc = "sending", !.err = TRUE, !.run = Undelivered(att[i].copy)]
<1>3. Undelivered(e) \in SUBSET Stages /\ Undelivered(att[i].copy) \in SUBSET Stages
  BY DEF Undelivered
<1>4. Recorded(i) => e \in Entry BY <1>2, FileSteps, EntryUpdates
<1>5. y \in Holder /\ (Recorded(i) => x \in Holder)
  <2> HIDE DEF e
  <2> QED BY <1>2, <1>3, <1>4, HolderUpdates
<1>6. /\ x.pc = "sending" /\ y.pc = "sending" /\ "sending" \notin FreezePcs
      /\ x.copy = e /\ y.copy \in Entry
  BY <1>2 DEF Holder, FreezePcs
<1>7. \/ Recorded(i) /\ Put(i, e) /\ att' = [att EXCEPT ![i] = x] /\ UNCHANGED writeFails
      \/ /\ UNCHANGED writeFails \/ WriteFails
         /\ att' = [att EXCEPT ![i] = y] /\ UNCHANGED entries
  BY DEF Prepare
<1> HIDE DEF e, x, y
<1>8. CASE Recorded(i) /\ Put(i, e) /\ att' = [att EXCEPT ![i] = x] /\ UNCHANGED writeFails
  <2>1. HolderCards' /\ att' \in [Ids -> Holder]
    BY <1>1, <1>4, <1>5, <1>6, <1>8, HolderStep
  <2> QED BY <1>1, <1>4, <1>8, <2>1, FileSteps DEF TypeOK
<1>9. CASE /\ UNCHANGED writeFails \/ WriteFails
           /\ att' = [att EXCEPT ![i] = y] /\ UNCHANGED entries
  BY <1>1, <1>5, <1>6, <1>9, HolderStep, FileSteps DEF TypeOK
<1> QED BY <1>7, <1>8, <1>9

\* What the platform carries out stays within the types.
LEMMA LandType ==
  ASSUME TypeInv, NEW i \in Ids, NEW s \in Stages, att[i].copy \in Entry,
         Land(i, s) \/ UNCHANGED <<cards, shown>>
  PROVE  cards' \in [Ids -> [Cards -> CardStates]] /\ shown' \in [Ids -> SUBSET Texts]
<1> USE DEF TypeInv
<1>1. Verdict(att[i].copy) \in CardStates /\ att[i].copy.text \in Texts
  BY DEF Verdict, CardStates, Entry
<1>2. [cards EXCEPT ![i][att[i].copy.ckpt] = Verdict(att[i].copy)]
        \in [Ids -> [Cards -> CardStates]]
  BY <1>1, CardType
<1>3. [shown EXCEPT ![i] = @ \cup {att[i].copy.text}] \in [Ids -> SUBSET Texts]
  BY <1>1 DEF TypeOK
<1> QED BY <1>2, <1>3 DEF Land, TypeOK

\* The progress of its stages leaves the rest of an attempt alone.
LEMMA SendingType ==
  ASSUME TypeInv, NEW i \in Ids,
         NEW r \in SUBSET Stages, NEW s \in SUBSET Stages, NEW b \in BOOLEAN,
         att' = [att EXCEPT ![i] = [att[i] EXCEPT !.run = r, !.sent = s, !.err = b]],
         UNCHANGED cur
  PROVE  HolderCards' /\ att' \in [Ids -> Holder]
<1> DEFINE h == [att[i] EXCEPT !.run = r, !.sent = s, !.err = b]
<1>1. att[i] \in Holder BY DEF TypeInv, TypeOK
<1>2. h \in Holder BY <1>1 DEF Holder
<1>3. h.pc = att[i].pc /\ h.copy = att[i].copy /\ h.card = att[i].card
  BY <1>1 DEF Holder
<1>4. att' = [att EXCEPT ![i] = h] OBVIOUS
<1> HIDE DEF h
<1> QED BY <1>2, <1>3, <1>4, HolderStep DEF TypeInv, HolderCards

\* A stage is delivered, fails or times out.
LEMMA TypeDeliver ==
  ASSUME TypeInv, NEW i \in Ids, NEW s \in Stages,
         DeliverOk(i, s) \/ DeliverFails(i, s) \/ (CheckpointTimesOut(i) /\ s = "checkpoint")
  PROVE  TypeInv'
<1> USE DEF TypeInv
<1>1. UNCHANGED <<entries, preparing, startupHeld, due, asleep, wake, sess, resv, cur,
                  writeFails, restarts, redrives>>
  BY DEF DeliverOk, DeliverFails, CheckpointTimesOut, durable, budget
<1>2. att[i].pc = "sending" /\ att[i] \in Holder /\ att[i].copy \in Entry
  BY DEF DeliverOk, DeliverFails, CheckpointTimesOut, CanDeliver, TypeOK, HolderCards, AttemptPcs
<1>3. Land(i, s) \/ UNCHANGED <<cards, shown>>
  BY DEF DeliverOk, DeliverFails, CheckpointTimesOut
<1>4. acked' \in [TaskIds -> Nat]
  BY DEF DeliverOk, DeliverFails, CheckpointTimesOut, TypeOK
<1>5. PICK r \in SUBSET Stages, t \in SUBSET Stages, b \in BOOLEAN :
        att' = [att EXCEPT ![i] = [att[i] EXCEPT !.run = r, !.sent = t, !.err = b]]
  <2>1. CASE DeliverOk(i, s)
    <3>1. att' = [att EXCEPT ![i] = [att[i] EXCEPT !.run = att[i].run \ {s},
                                       !.sent = att[i].sent \cup {s}, !.err = att[i].err]]
      BY <1>2, <2>1 DEF DeliverOk, TypeOK, Holder
    <3> QED BY <1>2, <3>1 DEF Holder
  <2>2. CASE DeliverFails(i, s)
    <3>1. att' = [att EXCEPT ![i] = [att[i] EXCEPT !.run = att[i].run \ {s},
                                       !.sent = att[i].sent, !.err = TRUE]]
      BY <1>2, <2>2 DEF DeliverFails, TypeOK, Holder
    <3> QED BY <1>2, <3>1 DEF Holder
  <2>3. CASE CheckpointTimesOut(i)
    <3> DEFINE w == IF AwaitsCheckpoint(att[i]) THEN {} ELSE att[i].run \ {"checkpoint"}
    <3>1. att' = [att EXCEPT ![i] = [att[i] EXCEPT !.run = w,
                                       !.sent = att[i].sent, !.err = TRUE]]
      BY <1>2, <2>3 DEF CheckpointTimesOut, TypeOK, Holder
    <3>2. w \in SUBSET Stages BY <1>2 DEF Holder
    <3> QED BY <1>2, <3>1, <3>2 DEF Holder
  <2> QED BY <2>1, <2>2, <2>3
<1>6. HolderCards' /\ att' \in [Ids -> Holder] BY <1>1, <1>2, <1>5, SendingType
<1>7. cards' \in [Ids -> [Cards -> CardStates]] /\ shown' \in [Ids -> SUBSET Texts]
  BY <1>2, <1>3, LandType
<1> QED BY <1>1, <1>4, <1>6, <1>7 DEF TypeOK

\* A stage is marked, or its mark fails.
LEMMA TypeMark ==
  ASSUME TypeInv, NEW i \in Ids, NEW s \in Stages, Mark(i, s)
  PROVE  TypeInv'
<1> USE DEF TypeInv
<1>1. UNCHANGED <<preparing, startupHeld, due, asleep, wake, sess, resv, cur, cards, shown,
                  acked, restarts, redrives>>
  BY DEF Mark, remote
<1>2. MarkStage(i, s) BY DEF Mark
<1>3. att[i] \in Holder BY DEF TypeOK
<1>4. entries' \in [Ids -> Entry \cup {NoEntry}] /\ writeFails' \in 0 .. MaxWriteFails
  BY FileSteps, EntryUpdates, <1>2 DEF MarkStage, TypeOK
<1>5. PICK b \in BOOLEAN :
        att' = [att EXCEPT ![i] = [att[i] EXCEPT !.run = att[i].run,
                                     !.sent = att[i].sent \ {s}, !.err = b]]
  <2>1. CASE att' = [att EXCEPT ![i].sent = @ \ {s}] BY <1>3, <2>1 DEF TypeOK, Holder
  <2>2. CASE att' = [att EXCEPT ![i].sent = @ \ {s}, ![i].err = TRUE]
    BY <1>3, <2>2 DEF TypeOK, Holder
  <2> QED BY <1>2, <2>1, <2>2 DEF MarkStage
<1>6. HolderCards' /\ att' \in [Ids -> Holder]
  BY <1>3, <1>1, <1>5, SendingType DEF Holder
<1> QED BY <1>1, <1>4, <1>6 DEF TypeOK

\* An attempt ends with its entry removed or its failure recorded.
LEMMA TypeFinish ==
  ASSUME TypeInv, NEW i \in Ids, Finish(i)
  PROVE  TypeInv'
<1> USE DEF TypeInv
<1>1. EndAttempt(i) /\ UNCHANGED <<preparing, startupHeld, due, asleep, sess, resv, cur,
                                   cards, shown, acked, restarts, redrives>>
  BY DEF Finish, remote
<1>2. HolderCards' /\ att' \in [Ids -> Holder] /\ wake' \in BOOLEAN
  BY <1>1, EndAttemptType
<1>3. entries' \in [Ids -> Entry \cup {NoEntry}] /\ writeFails' \in 0 .. MaxWriteFails
  BY FileSteps, EntryUpdates DEF Finish, TypeOK
<1> QED BY <1>1, <1>2, <1>3 DEF TypeOK

\* The steps of a freeze.
LEMMA TypeFreeze ==
  ASSUME TypeInv, NEW i \in Ids, FreezeStep(i)
  PROVE  TypeInv'
<1> USE DEF TypeInv
<1>1. att[i] \in Holder /\ att[i].card \in Cards
  BY DEF FreezeStep, FreezeOk, FreezeFails, FreezeSettled, TypeOK, HolderCards, FreezePcs
<1>2. UNCHANGED <<preparing, startupHeld, due, asleep, sess, resv, cur, shown, acked,
                  restarts, redrives>>
  BY DEF FreezeStep, FreezeOk, FreezeFails, FreezeSettled, remote, budget
<1>3. cards' \in [Ids -> [Cards -> CardStates]]
  <2>1. [cards EXCEPT ![i][att[i].card] = "frozen"] \in [Ids -> [Cards -> CardStates]]
    BY CardType DEF CardStates
  <2>2. Freeze(i) \/ UNCHANGED cards
    BY DEF FreezeStep, FreezeOk, FreezeFails, FreezeSettled, remote
  <2> QED BY <2>1, <2>2 DEF Freeze, TypeOK
<1>4. entries' \in [Ids -> Entry \cup {NoEntry}] /\ writeFails' \in 0 .. MaxWriteFails
  BY <1>1, FileSteps, FreezeUpdates DEF FreezeStep, FreezeOk, FreezeFails, FreezeSettled, durable, budget, TypeOK
<1>5. HolderCards' /\ att' \in [Ids -> Holder] /\ wake' \in BOOLEAN
  <2>1. CASE EndAttempt(i) BY <1>2, <2>1, EndAttemptType
  <2>2. CASE FreezeOk(i)
    <3> DEFINE h == [att[i] EXCEPT !.pc = "frozen"]
    <3>1. h \in Holder BY <1>1, HolderUpdates
    <3>2. h.pc = "frozen" /\ h.card \in Cards /\ "frozen" \notin AttemptPcs
      BY <1>1 DEF Holder, AttemptPcs
    <3>3. att' = [att EXCEPT ![i] = h] /\ UNCHANGED wake BY <2>2 DEF FreezeOk
    <3> HIDE DEF h
    <3>4. HolderCards' /\ att' \in [Ids -> Holder] BY <1>2, <3>1, <3>2, <3>3, HolderStep
    <3> QED BY <3>3, <3>4 DEF TypeOK
  <2> QED BY <2>1, <2>2 DEF FreezeStep, FreezeFails, FreezeSettled
<1> QED BY <1>2, <1>3, <1>4, <1>5 DEF TypeOK

--------------------
(* The worker loop, the operator and the process.                          *)

\* A redrive, of entries or of one freeze, and the release of a hold.
LEMMA TypeRedrive ==
  ASSUME TypeInv, NEW S \in SUBSET Ids, NEW i \in Ids,
         Redrive(S) \/ RedrivePending(i) \/ ReleaseHold(i)
  PROVE  TypeInv'
<1> USE DEF TypeInv
<1>1. UNCHANGED <<att, due, asleep, sess, resv, cur, cards, shown, acked, restarts>>
  BY DEF Redrive, RedrivePending, ReleaseHold, remote, budget
<1>2. preparing' \subseteq Ids /\ startupHeld' \subseteq Ids /\ wake' \in BOOLEAN
  BY DEF Redrive, RedrivePending, ReleaseHold, TypeOK
<1>3. redrives' \in 0 .. MaxRedrives /\ writeFails' \in 0 .. MaxWriteFails
  BY BoundsAssumption, FileSteps DEF Redrive, RedrivePending, ReleaseHold, budget, TypeOK
<1>4. entries' \in [Ids -> Entry \cup {NoEntry}]
  <2>1. ASSUME NEW j \in Ids, Recorded(j) PROVE Redriven(entries[j]) \in Entry
    BY <2>1, FileSteps, EntryUpdates
  <2>2. CASE Redrive(S) BY <2>1, <2>2 DEF Redrive, TypeOK
  <2>3. CASE RedrivePending(i)
    <3>1. entries[i] \in Entry BY <2>3, FileSteps DEF RedrivePending
    <3>2. PICK c \in Cards : Put(i, [entries[i] EXCEPT !.supDead = @ \ {c}])
      BY <2>3, <3>1 DEF RedrivePending, Entry
    <3>3. [entries[i] EXCEPT !.supDead = @ \ {c}] \in Entry BY <3>1, FreezeUpdates
    <3> QED BY <3>2, <3>3, FileSteps
  <2>4. CASE ReleaseHold(i) BY <2>4 DEF ReleaseHold, durable, TypeOK
  <2> QED BY <2>2, <2>3, <2>4
<1> QED BY <1>1, <1>2, <1>3, <1>4 DEF TypeOK, HolderCards

\* The worker scans, sleeps and wakes.
LEMMA TypeLoop ==
  ASSUME TypeInv, Scan \/ Sleep \/ WakeUp \/ DrainWake
  PROVE  TypeInv'
BY DEF TypeInv, TypeOK, HolderCards, durable, remote, budget, Scan, Sleep, WakeUp, DrainWake, Queued

\* The process restarts.
LEMMA TypeRestart ==
  ASSUME TypeInv, Restart
  PROVE  TypeInv'
<1>1. Idle \in Holder /\ Idle.pc = "idle" /\ "idle" \notin FreezePcs \cup AttemptPcs
  BY HolderBuilders DEF Idle, FreezePcs, AttemptPcs
<1>2. HolderCards' BY <1>1 DEF Restart, HolderCards, FreezePcs
<1>3. startupHeld' \subseteq Ids /\ preparing' \subseteq Ids
  BY IdsAssumption DEF Restart
<1>4. att' \in [Ids -> Holder] BY <1>1 DEF Restart
<1>5. due' \subseteq Ids /\ asleep' \in BOOLEAN /\ wake' \in BOOLEAN
      /\ sess' \in [Ids -> Sessions] /\ resv' \in [Ids -> BOOLEAN] /\ cur' \in [Ids -> 0 .. MaxCards]
  BY FieldFacts DEF Restart, Sessions
<1>6. restarts' \in 0 .. MaxRestarts BY BoundsAssumption DEF Restart, TypeInv, TypeOK
<1>7. UNCHANGED <<entries, cards, shown, acked, writeFails, redrives>>
  BY DEF Restart, durable, remote
<1> QED BY <1>2, <1>3, <1>4, <1>5, <1>6, <1>7 DEF TypeInv, TypeOK

--------------------
(* Type correctness.                                                       *)

\* The outbox starts empty and every process idle.
LEMMA TypeInit == Init => TypeInv
<1> SUFFICES ASSUME Init PROVE TypeInv OBVIOUS
<1>1. Idle \in Holder /\ Idle.pc = "idle" /\ "idle" \notin FreezePcs \cup AttemptPcs
  BY HolderBuilders DEF Idle, FreezePcs, AttemptPcs
<1>2. HolderCards BY <1>1 DEF Init, HolderCards, FreezePcs
<1>3. entries \in [Ids -> Entry \cup {NoEntry}] /\ att \in [Ids -> Holder]
  BY <1>1 DEF Init
<1>4. sess \in [Ids -> Sessions] /\ resv \in [Ids -> BOOLEAN] /\ cur \in [Ids -> 0 .. MaxCards]
  BY FieldFacts DEF Init, Sessions
<1>5. cards \in [Ids -> [Cards -> CardStates]] /\ shown \in [Ids -> SUBSET Texts]
  BY DEF Init, CardStates
<1>6. acked \in [TaskIds -> Nat] /\ preparing \subseteq Ids /\ startupHeld \subseteq Ids
      /\ due \subseteq Ids /\ asleep \in BOOLEAN /\ wake \in BOOLEAN
  BY DEF Init
<1>7. writeFails \in 0 .. MaxWriteFails /\ restarts \in 0 .. MaxRestarts
      /\ redrives \in 0 .. MaxRedrives
  BY BoundsAssumption DEF Init
<1> QED BY <1>2, <1>3, <1>4, <1>5, <1>6, <1>7 DEF TypeInv, TypeOK

\* Every step keeps the types, and so does a stuttering step.
LEMMA TypeNext == TypeInv /\ [Next]_vars => TypeInv'
<1> SUFFICES ASSUME TypeInv, [Next]_vars PROVE TypeInv' OBVIOUS
<1>1. CASE UNCHANGED vars
  BY <1>1 DEF vars, durable, volatile, remote, budget, TypeInv, TypeOK, HolderCards
<1>2. ASSUME NEW i \in Ids, SessionStep(i) PROVE TypeInv'
  BY <1>2, TypeStartWithCard, TypeRefreshActiveStream, TypeReanchorOpen, TypeReanchorPersist,
     TypeReanchorUnreserved, TypeDetach, TypeAbandon, TypeReserveResult, TypeStage, TypeLegacy,
     TypeSessionRest DEF SessionStep
<1>3. ASSUME NEW i \in Ids, ProducerStep(i) \/ WorkerStep(i) PROVE TypeInv'
  BY <1>3, TypeEnqueue, TypeBegin, TypeWorkerSupersede DEF ProducerStep, WorkerStep
<1>4. ASSUME NEW i \in Ids, AttemptStep(i) PROVE TypeInv'
  <2>1. ASSUME NEW s \in Stages, DeliverOk(i, s) \/ DeliverFails(i, s) PROVE TypeInv'
    BY <2>1, TypeDeliver
  <2>2. ASSUME NEW s \in Stages, Mark(i, s) PROVE TypeInv' BY <2>2, TypeMark
  <2>3. CASE CheckpointTimesOut(i) BY <2>3, TypeDeliver DEF Stages
  <2> QED BY <1>4, <2>1, <2>2, <2>3, TypeAllow, TypeRefuse, TypePrepare, TypeFinish DEF AttemptStep
<1>5. ASSUME NEW i \in Ids, FreezeStep(i) \/ RedrivePending(i) \/ ReleaseHold(i) PROVE TypeInv'
  BY <1>5, TypeFreeze, TypeRedrive
<1>6. ASSUME NEW S \in {{i} : i \in Ids} \cup {Ids}, Redrive(S) PROVE TypeInv'
  <2>1. S \in SUBSET Ids OBVIOUS
  <2>2. PICK i \in Ids : i \in S BY <1>6, <2>1 DEF Redrive
  <2> QED BY <1>6, <2>1, <2>2, TypeRedrive
<1>7. CASE Scan \/ Sleep \/ WakeUp \/ DrainWake \/ Restart
  BY <1>7, TypeLoop, TypeRestart
<1> QED BY <1>1, <1>2, <1>3, <1>4, <1>5, <1>6, <1>7 DEF Next

\* The outbox file, the holders of processing[], the sessions and the platform
\* keep their types, and every counter its bound, whatever the number of tasks,
\* cards, failures and restarts.
THEOREM TypeCorrect == Spec => []TypeInv
<1> QED BY TypeInit, TypeNext, PTL DEF Spec

\* The same, as the runs check it.
THEOREM TypeSafe == Spec => []TypeOK
<1>1. TypeInv => TypeOK BY DEF TypeInv
<1> QED BY <1>1, TypeCorrect, PTL

--------------------
(* What a step about one entry leaves alone.                               *)

\* A step about i may evict another entry, and does nothing else to it.
OthersRest(i) ==
  \A j \in Ids \ {i} :
    /\ sess'[j] = sess[j] /\ resv'[j] = resv[j] /\ att'[j] = att[j] /\ shown'[j] = shown[j]
    /\ j \in preparing' <=> j \in preparing
    /\ j \in due' <=> j \in due
    /\ j \in startupHeld' <=> j \in startupHeld
    /\ entries'[j] = entries[j] \/ (Evictable(j) /\ entries'[j] = NoEntry)

\* What an operation on the file does to each entry.
LEMMA FileEffects ==
  ASSUME TypeInv, NEW i \in Ids, NEW e
  PROVE  /\ Put(i, e) => entries'[i] = e /\ \A j \in Ids \ {i} : entries'[j] = entries[j]
         /\ Insert(i, e) =>
              /\ ~Recorded(i) /\ entries'[i] = e
              /\ \A j \in Ids \ {i} :
                   entries'[j] = entries[j] \/ (Evictable(j) /\ entries'[j] = NoEntry)
<1>1. entries \in [Ids -> Entry \cup {NoEntry}] BY DEF TypeInv, TypeOK
<1>2. Put(i, e) => entries'[i] = e /\ \A j \in Ids \ {i} : entries'[j] = entries[j]
  BY <1>1 DEF Put
<1>3. ASSUME Insert(i, e)
      PROVE  /\ ~Recorded(i) /\ entries'[i] = e
             /\ \A j \in Ids \ {i} :
                   entries'[j] = entries[j] \/ (Evictable(j) /\ entries'[j] = NoEntry)
  <2>1. PICK base \in Room : entries' = [base EXCEPT ![i] = e] BY <1>3 DEF Insert
  <2>2. base = entries \/ \E v \in Ids : Evictable(v) /\ base = [entries EXCEPT ![v] = NoEntry]
    BY <2>1 DEF Room
  <2> QED BY <1>1, <1>3, <2>1, <2>2 DEF Insert
<1> QED BY <1>2, <1>3

\* The holders at rest or in a card transition have sent nothing.
LEMMA QuietHolders ==
  /\ Idle.pc = "idle" /\ Idle.sent = {} /\ Idle.pc \notin AttemptPcs
  /\ \A p \in FreezePcs : \A b, c :
       LET h == [Idle EXCEPT !.pc = p, !.by = b, !.card = c]
       IN h.pc = p /\ h.pc \notin AttemptPcs /\ h.sent = {}
BY DEF Idle, AttemptPcs, FreezePcs

\* A step of a session leaves the other entries alone.
LEMMA FrameSession ==
  ASSUME TypeInv, NEW i \in Ids, SessionStep(i)
  PROVE  OthersRest(i)
<1> USE FileEffects DEF TypeInv, TypeOK, OthersRest
<1>1. CASE StartWithCard(i) BY <1>1 DEF StartWithCard, SaveActive
<1>2. CASE StartPlain(i) BY <1>2 DEF StartPlain, durable, remote, budget
<1>3. CASE RefreshActiveStream(i) BY <1>3 DEF RefreshActiveStream, SaveActive, remote
<1>4. CASE ReanchorOpen(i) BY <1>4 DEF ReanchorOpen, durable, budget
<1>5. CASE ReanchorPersist(i) BY <1>5 DEF ReanchorPersist
<1>6. CASE ReanchorUnreserved(i) BY <1>6 DEF ReanchorUnreserved
<1>7. CASE Detach(i) BY <1>7 DEF Detach
<1>8. CASE Abandon(i) BY <1>8 DEF Abandon, DiscardActive, Discard, remote
<1>9. CASE ReserveResult(i) BY <1>9 DEF ReserveResult, remote
<1>10. CASE Stage(i) BY <1>10 DEF Stage, remote, budget
<1>11. CASE StageFails(i) BY <1>11 DEF StageFails, durable, remote
<1>12. CASE Commit(i) BY <1>12 DEF Commit, remote
<1>13. CASE LegacyFinish(i) BY <1>13 DEF LegacyFinish, BestEffort, durable, budget
<1>14. CASE LegacyDiscard(i)
  BY <1>14 DEF LegacyDiscard, DiscardActive, Discard, BestEffort
<1> QED BY <1>1, <1>2, <1>3, <1>4, <1>5, <1>6, <1>7, <1>8, <1>9, <1>10, <1>11, <1>12, <1>13,
      <1>14 DEF SessionStep

\* So does a step of a producer or the worker.
LEMMA FrameWorker ==
  ASSUME TypeInv, NEW i \in Ids, ProducerStep(i) \/ WorkerStep(i)
  PROVE  OthersRest(i)
<1> USE FileEffects DEF TypeInv, TypeOK, OthersRest
<1>1. CASE Enqueue(i) BY <1>1 DEF Enqueue, remote
<1>2. CASE EnqueueAgain(i) BY <1>2 DEF EnqueueAgain, remote
<1>3. CASE DirectAttempt(i) BY <1>3 DEF DirectAttempt, Begin, durable, remote, budget
<1>4. CASE WorkerAttempt(i) BY <1>4 DEF WorkerAttempt, Begin, durable, remote, budget
<1>5. CASE WorkerSupersede(i) BY <1>5 DEF WorkerSupersede, durable, remote, budget
<1> QED BY <1>1, <1>2, <1>3, <1>4, <1>5 DEF ProducerStep, WorkerStep

\* So does a step of an attempt.
LEMMA FrameAttempt ==
  ASSUME TypeInv, NEW i \in Ids, AttemptStep(i)
  PROVE  OthersRest(i)
<1> USE FileEffects DEF TypeInv, TypeOK, OthersRest
<1>1. CASE Allow(i) BY <1>1 DEF Allow, durable, remote, budget
<1>2. CASE Defer(i) BY <1>2 DEF Defer, EndAttempt, durable, remote, budget
<1>3. CASE Deny(i) BY <1>3 DEF Deny, EndAttempt, Discard, remote
<1>4. CASE Prepare(i) BY <1>4 DEF Prepare, remote
<1>5. ASSUME NEW s \in Stages, DeliverOk(i, s) PROVE OthersRest(i)
  BY <1>5 DEF DeliverOk, Land, durable, budget
<1>6. ASSUME NEW s \in Stages, DeliverFails(i, s) PROVE OthersRest(i)
  BY <1>6 DEF DeliverFails, Land, durable, budget
<1>7. ASSUME NEW s \in Stages, Mark(i, s) PROVE OthersRest(i)
  BY <1>7 DEF Mark, MarkStage, remote
<1>8. CASE CheckpointTimesOut(i) BY <1>8 DEF CheckpointTimesOut, Land, durable, budget
<1>9. CASE Finish(i) BY <1>9 DEF Finish, EndAttempt, remote
<1> QED BY <1>1, <1>2, <1>3, <1>4, <1>5, <1>6, <1>7, <1>8, <1>9 DEF AttemptStep

\* So does a step of a freeze, a redriven freeze and a released hold.
LEMMA FrameRest ==
  ASSUME TypeInv, NEW i \in Ids, FreezeStep(i) \/ RedrivePending(i) \/ ReleaseHold(i)
  PROVE  OthersRest(i)
<1> USE FileEffects DEF TypeInv, TypeOK, OthersRest
<1>1. CASE FreezeOk(i) BY <1>1 DEF FreezeOk, durable, budget
<1>2. CASE FreezeFails(i) BY <1>2 DEF FreezeFails, EndAttempt
<1>3. CASE FreezeSettled(i) BY <1>3 DEF FreezeSettled, EndAttempt, remote
<1>4. CASE RedrivePending(i) BY <1>4 DEF RedrivePending, remote
<1>5. CASE ReleaseHold(i) BY <1>5 DEF ReleaseHold, durable, remote, budget
<1> QED BY <1>1, <1>2, <1>3, <1>4, <1>5 DEF FreezeStep

--------------------
(* The inductive invariant, entry by entry.                                *)

\* A session between its start and the commit of its result.
Active == {"running", "reserved", "staged"}

\* No attempt is near the entry of an active session.
Undisturbed(i) ==
  i \in TaskIds /\ sess[i] \in Active =>
    /\ Recorded(i) => i \in preparing
    /\ i \notin due
    /\ att[i].pc \notin AttemptPcs

\* An entry held since the start of the process is at rest, and so is its task.
HeldAtRest(i) ==
  i \in startupHeld =>
    /\ Recorded(i) /\ i \in preparing /\ i \notin due
    /\ att[i].pc = "idle" /\ sess[i] = "none"

\* Only a task has a session that runs, stages or ends the legacy way.
SessionOfTask(i) == i \notin TaskIds => sess[i] \in {"none", "committed", "closed"} /\ ~resv[i]

SafeAt(i) == Undisturbed(i) /\ HeldAtRest(i) /\ SessionOfTask(i)

\* A step of a session keeps the invariant of its own entry.
LEMMA SafeSession ==
  ASSUME TypeInv, NEW i \in Ids, SafeAt(i), SessionStep(i)
  PROVE  SafeAt(i)'
<1> USE FileEffects, NoEntryAssumption
    DEF SafeAt, Undisturbed, HeldAtRest, SessionOfTask, Active, Recorded, AttemptPcs,
        TypeInv, TypeOK
<1>1. CASE StartWithCard(i) BY <1>1 DEF StartWithCard, SaveActive, Fresh, Idle
<1>2. CASE StartPlain(i) BY <1>2 DEF StartPlain, Fresh, Idle, durable, remote, budget
<1>3. CASE RefreshActiveStream(i)
  BY <1>3 DEF RefreshActiveStream, SaveActive, CanWriteCard, Unclaimed, remote
<1>4. CASE ReanchorOpen(i)
  <2>1. UNCHANGED <<entries, preparing, startupHeld, due, sess, resv>>
    BY <1>4 DEF ReanchorOpen, durable
  <2>2. CASE UNCHANGED att BY <1>4, <2>1, <2>2 DEF ReanchorOpen, CanWriteCard, Unclaimed
  <2>3. ASSUME NEW new, att' = [att EXCEPT ![i] =
                            [Idle EXCEPT !.pc = "opened", !.by = "session", !.card = new]]
        PROVE  SafeAt(i)'
    BY <2>3, <1>4, <2>1 DEF Idle, ReanchorOpen, CanWriteCard, Unclaimed
  <2> QED BY <1>4, <2>2, <2>3 DEF ReanchorOpen
<1>5. CASE ReanchorPersist(i) BY <1>5 DEF ReanchorPersist, Idle, Holder
<1>6. CASE ReanchorUnreserved(i) BY <1>6 DEF ReanchorUnreserved, CanWriteCard, Unclaimed
<1>7. CASE Detach(i) BY <1>7 DEF Detach, Idle
<1>8. CASE Abandon(i) BY <1>8 DEF Abandon, DiscardActive, Discard, remote
<1>9. CASE ReserveResult(i) BY <1>9 DEF ReserveResult, remote
<1>10. CASE Stage(i) BY <1>10 DEF Stage, Staging, remote, budget
<1>11. CASE StageFails(i) BY <1>11 DEF StageFails, Staging, durable, remote
<1>12. CASE Commit(i) BY <1>12 DEF Commit, remote
<1>13. CASE LegacyFinish(i) BY <1>13 DEF LegacyFinish, durable, budget
<1>14. CASE LegacyDiscard(i) BY <1>14 DEF LegacyDiscard, DiscardActive, Discard
<1> QED BY <1>1, <1>2, <1>3, <1>4, <1>5, <1>6, <1>7, <1>8, <1>9, <1>10, <1>11, <1>12, <1>13,
      <1>14 DEF SessionStep

\* So does a step of a producer or the worker.
LEMMA SafeWorker ==
  ASSUME TypeInv, NEW i \in Ids, SafeAt(i), ProducerStep(i) \/ WorkerStep(i)
  PROVE  SafeAt(i)'
<1> USE FileEffects, NoEntryAssumption
    DEF SafeAt, Undisturbed, HeldAtRest, SessionOfTask, Active, Recorded, AttemptPcs,
        TypeInv, TypeOK
<1>1. CASE Enqueue(i) BY <1>1 DEF Enqueue, remote
<1>2. CASE EnqueueAgain(i) BY <1>2 DEF EnqueueAgain, remote
<1>3. CASE DirectAttempt(i)
  BY <1>3 DEF DirectAttempt, Begin, CanBegin, Idle, durable, remote, budget
<1>4. CASE WorkerAttempt(i)
  BY <1>4 DEF WorkerAttempt, Begin, CanBegin, Idle, durable, remote, budget
<1>5. CASE WorkerSupersede(i)
  BY <1>5 DEF WorkerSupersede, PendingFreezes, Idle, durable, remote, budget
<1> QED BY <1>1, <1>2, <1>3, <1>4, <1>5 DEF ProducerStep, WorkerStep

\* So does a step of an attempt.
LEMMA SafeAttempt ==
  ASSUME TypeInv, NEW i \in Ids, SafeAt(i), AttemptStep(i)
  PROVE  SafeAt(i)'
<1> USE FileEffects, NoEntryAssumption
    DEF SafeAt, Undisturbed, HeldAtRest, SessionOfTask, Active, Recorded, AttemptPcs,
        TypeInv, TypeOK
<1>1. CASE Allow(i) BY <1>1 DEF Allow, durable, remote, budget
<1>2. CASE Defer(i) BY <1>2 DEF Defer, EndAttempt, Idle, durable, remote, budget
<1>3. CASE Deny(i) BY <1>3 DEF Deny, EndAttempt, Idle, Discard, remote
<1>4. CASE Prepare(i) BY <1>4 DEF Prepare, remote
<1>5. ASSUME NEW s \in Stages, DeliverOk(i, s) PROVE SafeAt(i)'
  BY <1>5 DEF DeliverOk, CanDeliver, durable, budget
<1>6. ASSUME NEW s \in Stages, DeliverFails(i, s) PROVE SafeAt(i)'
  BY <1>6 DEF DeliverFails, CanDeliver, durable, budget
<1>7. ASSUME NEW s \in Stages, Mark(i, s) PROVE SafeAt(i)'
  <2>1. UNCHANGED <<preparing, startupHeld, due, sess, resv>> /\ att'[i].pc = att[i].pc
    BY <1>7 DEF Mark, MarkStage, Holder
  <2>2. entries'[i] = entries[i]
        \/ (Recorded(i) /\ entries'[i] = [entries[i] EXCEPT !.done = @ \cup {s}])
    BY <1>7 DEF Mark, MarkStage
  <2>3. Recorded(i) => [entries[i] EXCEPT !.done = @ \cup {s}] \in Entry
    <3>1. ASSUME Recorded(i) PROVE entries[i] \in Entry BY <3>1
    <3>2. ASSUME entries[i] \in Entry PROVE [entries[i] EXCEPT !.done = @ \cup {s}] \in Entry
      BY <3>2, EntryUpdates
    <3> QED BY <3>1, <3>2
  <2>4. Recorded(i)' <=> Recorded(i) BY <2>2, <2>3
  <2> QED BY <2>1, <2>4
<1>8. CASE CheckpointTimesOut(i)
  BY <1>8 DEF CheckpointTimesOut, CanDeliver, durable, budget
<1>9. CASE Finish(i) BY <1>9 DEF Finish, EndAttempt, Idle, remote
<1> QED BY <1>1, <1>2, <1>3, <1>4, <1>5, <1>6, <1>7, <1>8, <1>9 DEF AttemptStep

\* So does a step of a freeze, a redriven freeze and a released hold.
LEMMA SafeRest ==
  ASSUME TypeInv, NEW i \in Ids, SafeAt(i), FreezeStep(i) \/ RedrivePending(i) \/ ReleaseHold(i)
  PROVE  SafeAt(i)'
<1> USE FileEffects, NoEntryAssumption
    DEF SafeAt, Undisturbed, HeldAtRest, SessionOfTask, Active, Recorded, AttemptPcs,
        TypeInv, TypeOK
<1>1. CASE FreezeOk(i) BY <1>1 DEF FreezeOk, durable, budget
<1>2. CASE FreezeFails(i) BY <1>2 DEF FreezeFails, EndAttempt, Idle
<1>3. CASE FreezeSettled(i) BY <1>3 DEF FreezeSettled, EndAttempt, Idle, remote
<1>4. CASE RedrivePending(i)
  <2>1. UNCHANGED <<preparing, startupHeld, due, sess, resv, att>> /\ Recorded(i)
    BY <1>4 DEF RedrivePending
  <2>2. PICK c \in entries[i].sup : Put(i, [entries[i] EXCEPT !.supDead = @ \ {c}])
    BY <1>4 DEF RedrivePending
  <2>3. entries[i] \in Entry /\ c \in Cards BY <2>1, <2>2 DEF Entry
  <2>4. [entries[i] EXCEPT !.supDead = @ \ {c}] \in Entry BY <2>3, FreezeUpdates
  <2>5. Recorded(i)' BY <2>2, <2>4, FileEffects, NoEntryAssumption
  <2> QED BY <2>1, <2>5
<1>5. CASE ReleaseHold(i) BY <1>5 DEF ReleaseHold, durable, remote, budget
<1> QED BY <1>1, <1>2, <1>3, <1>4, <1>5 DEF FreezeStep

--------------------
(* From one entry to all of them.                                          *)

SafeInv == \A i \in Ids : SafeAt(i)

\* The step of another entry keeps the invariant.
LEMMA SafeOthers ==
  ASSUME NEW i \in Ids, NEW j \in Ids \ {i}, OthersRest(i), SafeAt(j)
  PROVE  SafeAt(j)'
BY DEF OthersRest, SafeAt, Undisturbed, HeldAtRest, SessionOfTask, Recorded, Evictable

\* Nothing has started.
LEMMA SafeInit == Init => SafeInv
BY DEF Init, SafeInv, SafeAt, Undisturbed, HeldAtRest, SessionOfTask, Active, Recorded

\* The worker's loop: what it scans is neither prepared nor held.
LEMMA SafeLoop ==
  ASSUME TypeInv, SafeInv, Scan \/ Sleep \/ WakeUp \/ DrainWake
  PROVE  SafeInv'
<1>1. /\ UNCHANGED <<entries, preparing, startupHeld, att, sess, resv>>
      /\ due' \subseteq due \cup Queued
  BY DEF Scan, Sleep, WakeUp, DrainWake, durable
<1> QED BY <1>1 DEF SafeInv, SafeAt, Undisturbed, HeldAtRest, SessionOfTask, Recorded, Queued

\* A redrive changes neither who holds an entry nor who may not attempt it.
LEMMA SafeRedrive ==
  ASSUME TypeInv, SafeInv, NEW S \in SUBSET Ids, Redrive(S)
  PROVE  SafeInv'
<1>1. UNCHANGED <<preparing, startupHeld, due, att, sess, resv>> BY DEF Redrive
<1>2. ASSUME NEW i \in Ids PROVE Recorded(i)' <=> Recorded(i)
  BY FileSteps, EntryUpdates, NoEntryAssumption DEF TypeInv, Redrive, Recorded
<1> QED BY <1>1, <1>2 DEF SafeInv, SafeAt, Undisturbed, HeldAtRest, SessionOfTask

\* After a restart no session lives and the held entries are at rest.
LEMMA SafeRestart ==
  ASSUME TypeInv, SafeInv, Restart
  PROVE  SafeInv'
<1>1. /\ UNCHANGED entries /\ preparing' = startupHeld' /\ due' = {}
      /\ \A i \in startupHeld' : Recorded(i)
      /\ \A i \in Ids : att'[i] = Idle /\ sess'[i] = "none" /\ ~resv'[i]
  BY DEF Restart, durable
<1>2. startupHeld' \subseteq Ids BY IdsAssumption DEF Restart
<1> QED
  BY <1>1, <1>2, QuietHolders
  DEF SafeInv, SafeAt, Undisturbed, HeldAtRest, SessionOfTask, Active, Recorded

\* Every step keeps the invariant.
LEMMA SafeNext == TypeInv /\ SafeInv /\ [Next]_vars => SafeInv'
<1> SUFFICES ASSUME TypeInv, SafeInv, [Next]_vars PROVE SafeInv' OBVIOUS
<1>1. CASE UNCHANGED vars
  BY <1>1 DEF vars, durable, volatile, SafeInv, SafeAt, Undisturbed, HeldAtRest, SessionOfTask, Recorded
<1>2. ASSUME NEW i \in Ids,
             \/ SessionStep(i) \/ ProducerStep(i) \/ WorkerStep(i) \/ AttemptStep(i)
             \/ FreezeStep(i) \/ RedrivePending(i) \/ ReleaseHold(i)
      PROVE  SafeInv'
  <2>1. SafeAt(i) BY DEF SafeInv
  <2>2. OthersRest(i) BY <1>2, FrameSession, FrameWorker, FrameAttempt, FrameRest
  <2>3. SafeAt(i)' BY <1>2, <2>1, SafeSession, SafeWorker, SafeAttempt, SafeRest
  <2>4. ASSUME NEW j \in Ids \ {i} PROVE SafeAt(j)' BY <2>2, SafeOthers DEF SafeInv
  <2> QED BY <2>3, <2>4 DEF SafeInv
<1>3. ASSUME NEW S \in {{i} : i \in Ids} \cup {Ids}, Redrive(S) PROVE SafeInv'
  <2>1. S \in SUBSET Ids OBVIOUS
  <2> QED BY <1>3, <2>1, SafeRedrive
<1>4. CASE Scan \/ Sleep \/ WakeUp \/ DrainWake \/ Restart
  BY <1>4, SafeLoop, SafeRestart
<1> QED BY <1>1, <1>2, <1>3, <1>4 DEF Next

\* The invariant holds in every reachable state.
THEOREM SafeCorrect == Spec => []SafeInv
<1> QED BY SafeInit, SafeNext, TypeCorrect, PTL DEF Spec

\* No worker, direct attempt or redrive ever delivers the reservation of a live
\* session, for any number of tasks, cards, restarts, failed writes and
\* redrives: the promise of reserve (terminal_outbox.go:686).
THEOREM ReservationsUndisturbed == Spec => []LiveReservationUndisturbed
<1>1. SafeInv => LiveReservationUndisturbed
  BY DEF SafeInv, SafeAt, Undisturbed, Active, LiveReservationUndisturbed, Ids
<1> QED BY <1>1, SafeCorrect, PTL

--------------------
(* The capacity of the file.                                               *)

\* A new entry goes through insertion, which makes room for it.
GrowsByInsert(i) == (Recorded(i)' => Recorded(i)) \/ \E e : Insert(i, e)

\* A step of a session records its entry only by insertion.
LEMMA GrowSession ==
  ASSUME TypeInv, NEW i \in Ids, SessionStep(i)
  PROVE  GrowsByInsert(i)
<1> USE FileEffects DEF GrowsByInsert, Recorded
<1>1. CASE StartWithCard(i) BY <1>1 DEF StartWithCard, SaveActive
<1>2. CASE StartPlain(i) BY <1>2 DEF StartPlain, durable, remote, budget
<1>3. CASE RefreshActiveStream(i) BY <1>3 DEF RefreshActiveStream, SaveActive, remote
<1>4. CASE ReanchorOpen(i) BY <1>4 DEF ReanchorOpen, durable, budget
<1>5. CASE ReanchorPersist(i) BY <1>5 DEF ReanchorPersist
<1>6. CASE ReanchorUnreserved(i) BY <1>6 DEF ReanchorUnreserved
<1>7. CASE Detach(i) BY <1>7 DEF Detach
<1>8. CASE Abandon(i) BY <1>8 DEF Abandon, DiscardActive, Discard, remote
<1>9. CASE ReserveResult(i) BY <1>9 DEF ReserveResult, remote
<1>10. CASE Stage(i) BY <1>10 DEF Stage, remote, budget
<1>11. CASE StageFails(i) BY <1>11 DEF StageFails, durable, remote
<1>12. CASE Commit(i) BY <1>12 DEF Commit, remote
<1>13. CASE LegacyFinish(i) BY <1>13 DEF LegacyFinish, durable, budget
<1>14. CASE LegacyDiscard(i) BY <1>14 DEF LegacyDiscard, DiscardActive, Discard
<1> QED BY <1>1, <1>2, <1>3, <1>4, <1>5, <1>6, <1>7, <1>8, <1>9, <1>10, <1>11, <1>12, <1>13,
      <1>14 DEF SessionStep

\* So does a step of a producer or the worker.
LEMMA GrowWorker ==
  ASSUME TypeInv, NEW i \in Ids, ProducerStep(i) \/ WorkerStep(i)
  PROVE  GrowsByInsert(i)
<1> USE FileEffects DEF GrowsByInsert, Recorded
<1>1. CASE Enqueue(i) BY <1>1 DEF Enqueue, remote
<1>2. CASE EnqueueAgain(i) BY <1>2 DEF EnqueueAgain, remote
<1>3. CASE DirectAttempt(i) BY <1>3 DEF DirectAttempt, durable, remote, budget
<1>4. CASE WorkerAttempt(i) BY <1>4 DEF WorkerAttempt, durable, remote, budget
<1>5. CASE WorkerSupersede(i) BY <1>5 DEF WorkerSupersede, durable, remote, budget
<1> QED BY <1>1, <1>2, <1>3, <1>4, <1>5 DEF ProducerStep, WorkerStep

\* A step of an attempt records nothing new.
LEMMA GrowAttempt ==
  ASSUME TypeInv, NEW i \in Ids, AttemptStep(i)
  PROVE  GrowsByInsert(i)
<1> USE FileEffects DEF GrowsByInsert, Recorded
<1>1. CASE Allow(i) BY <1>1 DEF Allow, durable, remote, budget
<1>2. CASE Defer(i) BY <1>2 DEF Defer, durable, remote, budget
<1>3. CASE Deny(i) BY <1>3 DEF Deny, Discard, remote
<1>4. CASE Prepare(i) BY <1>4 DEF Prepare, remote
<1>5. ASSUME NEW s \in Stages, DeliverOk(i, s) PROVE GrowsByInsert(i)
  BY <1>5 DEF DeliverOk, durable, budget
<1>6. ASSUME NEW s \in Stages, DeliverFails(i, s) PROVE GrowsByInsert(i)
  BY <1>6 DEF DeliverFails, durable, budget
<1>7. ASSUME NEW s \in Stages, Mark(i, s) PROVE GrowsByInsert(i)
  BY <1>7 DEF Mark, MarkStage, remote
<1>8. CASE CheckpointTimesOut(i) BY <1>8 DEF CheckpointTimesOut, durable, budget
<1>9. CASE Finish(i) BY <1>9 DEF Finish, remote
<1> QED BY <1>1, <1>2, <1>3, <1>4, <1>5, <1>6, <1>7, <1>8, <1>9 DEF AttemptStep

\* Neither does a step of a freeze, a redriven freeze or a released hold.
LEMMA GrowRest ==
  ASSUME TypeInv, NEW i \in Ids, FreezeStep(i) \/ RedrivePending(i) \/ ReleaseHold(i)
  PROVE  GrowsByInsert(i)
<1> USE FileEffects DEF GrowsByInsert, Recorded
<1>1. CASE FreezeOk(i) BY <1>1 DEF FreezeOk, durable, budget
<1>2. CASE FreezeFails(i) BY <1>2 DEF FreezeFails
<1>3. CASE FreezeSettled(i) BY <1>3 DEF FreezeSettled, remote
<1>4. CASE RedrivePending(i) BY <1>4 DEF RedrivePending, remote
<1>5. CASE ReleaseHold(i) BY <1>5 DEF ReleaseHold, durable, remote, budget
<1> QED BY <1>1, <1>2, <1>3, <1>4, <1>5 DEF FreezeStep

Filled == {i \in Ids : Recorded(i)}

\* The number of entries of a smaller file is smaller.
LEMMA CountMonotone ==
  ASSUME Filled' \subseteq Filled, CapacityRespected
  PROVE  CapacityRespected'
<1>1. IsFiniteSet(Filled) BY IdsAssumption, FS_Subset DEF Filled
<1>2. Cardinality(Filled') <= Cardinality(Filled) /\ IsFiniteSet(Filled')
  BY <1>1, FS_Subset
<1>3. Cardinality(Filled) \in Nat /\ Cardinality(Filled') \in Nat
  BY <1>1, <1>2, FS_CardinalityType
<1>4. Count = Cardinality(Filled) /\ Count' = Cardinality(Filled') BY DEF Count, Filled
<1> QED BY <1>2, <1>3, <1>4, BoundsAssumption DEF CapacityRespected

\* Insertion fills a free slot or the slot of the dead letter it evicts.
LEMMA CountInsert ==
  ASSUME TypeInv, NEW i \in Ids, NEW e, Insert(i, e), CapacityRespected
  PROVE  CapacityRespected'
<1>1. PICK base \in Room : entries' = [base EXCEPT ![i] = e] BY DEF Insert
<1>2. ~Recorded(i) /\ i \notin Filled BY DEF Insert, Filled
<1>3. IsFiniteSet(Filled) /\ Cardinality(Filled) \in Nat
  BY IdsAssumption, FS_Subset, FS_CardinalityType DEF Filled
<1>4. Count = Cardinality(Filled) /\ Count' = Cardinality(Filled') BY DEF Count, Filled
<1>5. CASE Count < MaxEntries
  <2>1. entries' = [entries EXCEPT ![i] = e] BY <1>1, <1>5 DEF Room
  <2>2. Filled' \subseteq Filled \cup {i} BY <2>1 DEF Filled, Recorded, TypeInv, TypeOK
  <2>3. IsFiniteSet(Filled \cup {i}) /\ Cardinality(Filled \cup {i}) = Cardinality(Filled) + 1
    BY <1>2, <1>3, FS_AddElement
  <2>4. IsFiniteSet(Filled') /\ Cardinality(Filled') <= Cardinality(Filled) + 1
    BY <2>2, <2>3, FS_Subset
  <2>5. Cardinality(Filled') \in Nat BY <2>4, FS_CardinalityType
  <2> QED BY <1>3, <1>4, <1>5, <2>4, <2>5, BoundsAssumption DEF CapacityRespected
<1>6. CASE ~(Count < MaxEntries)
  <2>1. PICK v \in Ids : Evictable(v) /\ base = [entries EXCEPT ![v] = NoEntry]
    BY <1>1, <1>6 DEF Room
  <2>2. v \in Filled /\ v # i BY <1>2, <2>1 DEF Evictable, Filled
  <2>3. Filled' \subseteq (Filled \ {v}) \cup {i}
    BY <1>1, <2>1 DEF Filled, Recorded, TypeInv, TypeOK
  <2>4. IsFiniteSet(Filled \ {v}) /\ Cardinality(Filled \ {v}) = Cardinality(Filled) - 1
    BY <1>3, <2>2, FS_RemoveElement
  <2>5. /\ IsFiniteSet((Filled \ {v}) \cup {i})
        /\ Cardinality((Filled \ {v}) \cup {i}) = Cardinality(Filled)
    <3>1. Cardinality((Filled \ {v}) \cup {i}) = Cardinality(Filled \ {v}) + 1
      BY <1>2, <2>4, FS_AddElement
    <3>2. IsFiniteSet((Filled \ {v}) \cup {i}) BY <2>4, FS_AddElement
    <3> QED BY <1>3, <2>4, <3>1, <3>2
  <2>6. IsFiniteSet(Filled') /\ Cardinality(Filled') <= Cardinality(Filled)
    BY <2>3, <2>5, FS_Subset
  <2>7. Cardinality(Filled') \in Nat BY <2>6, FS_CardinalityType
  <2> QED BY <1>3, <1>4, <2>6, <2>7, BoundsAssumption DEF CapacityRespected
<1> QED BY <1>5, <1>6

\* Every step respects the capacity.
LEMMA CapacityNext == TypeInv /\ CapacityRespected /\ [Next]_vars => CapacityRespected'
<1> SUFFICES ASSUME TypeInv, CapacityRespected, [Next]_vars PROVE CapacityRespected'
  OBVIOUS
<1>1. CASE UNCHANGED entries BY <1>1, CountMonotone DEF Filled, Recorded
<1>2. ASSUME NEW i \in Ids,
             \/ SessionStep(i) \/ ProducerStep(i) \/ WorkerStep(i) \/ AttemptStep(i)
             \/ FreezeStep(i) \/ RedrivePending(i) \/ ReleaseHold(i)
      PROVE  CapacityRespected'
  <2>1. OthersRest(i) BY <1>2, FrameSession, FrameWorker, FrameAttempt, FrameRest
  <2>2. GrowsByInsert(i) BY <1>2, GrowSession, GrowWorker, GrowAttempt, GrowRest
  <2>3. CASE Recorded(i)' => Recorded(i)
    BY <2>1, <2>3, CountMonotone DEF Filled, OthersRest, Recorded
  <2>4. CASE \E e : Insert(i, e) BY <2>4, CountInsert
  <2> QED BY <2>2, <2>3, <2>4 DEF GrowsByInsert
<1>3. ASSUME NEW S, Redrive(S) PROVE CapacityRespected'
  <2>1. Filled' \subseteq Filled BY <1>3 DEF Redrive, Filled, Recorded
  <2> QED BY <2>1, CountMonotone
<1>4. CASE Scan \/ Sleep \/ WakeUp \/ DrainWake \/ Restart
  BY <1>1, <1>4 DEF Scan, Sleep, WakeUp, DrainWake, Restart, durable
<1> QED BY <1>1, <1>2, <1>3, <1>4 DEF Next, vars, durable

\* The outbox file never holds more than terminalOutboxMaxEntries entries, for
\* any number of tasks and any limit.
THEOREM CapacityCorrect == Spec => []CapacityRespected
<1>1. Init => CapacityRespected
  BY FS_EmptySet, BoundsAssumption DEF Init, Count, Recorded, CapacityRespected
<1> QED BY <1>1, CapacityNext, TypeCorrect, PTL DEF Spec
=============================================================================
