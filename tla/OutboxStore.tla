---------------------------- MODULE OutboxStore ----------------------------
(***************************************************************************)
(* The state shared by the terminal outbox (messaging/terminal_outbox.go)  *)
(* and the progress sessions that feed it (messaging/progress.go,          *)
(* reply_delivery.go), and what every writer of the outbox file does.      *)
(*                                                                         *)
(* entries is the outbox file.  Every mutator of the code changes the list *)
(* under one mutex, writes it with an atomic rename and puts the old value *)
(* back when the write fails, so memory and file agree whenever the mutex  *)
(* is free: an operation below either changes entries or, when the write   *)
(* fails, takes just the effects the code does not roll back.              *)
(*                                                                         *)
(* Everything else but the platform's cards and messages is process memory *)
(* and is lost by Restart.  Clocks are abstracted: an entry in its backoff *)
(* is one the worker has not picked yet.                                   *)
(***************************************************************************)
EXTENDS Naturals, FiniteSets

CONSTANTS
  TaskIds,       \* reservations of progress sessions (fresh uuids)
  NoticeIds,     \* unguarded drafts queued with enqueueAndAttempt
  TurnIds,       \* follower terminals: deterministic ids, enqueue and signal
  ReplayIds,     \* replayed results: deterministic ids, enqueue only
  GuardedIds,    \* the entries whose follower delivery guard is complete
  NoEntry,       \* no entry is recorded under the id
  Rich,          \* the route is Feishu and asks for a separate result card
  MaxCards,      \* bound: task cards one session opens
  MaxEntries,    \* terminalOutboxMaxEntries
  MaxAttempts,   \* terminalOutboxMaxAttempts
  MaxWriteFails, \* bound: failed writes of the outbox file
  MaxRestarts,   \* bound: process exits
  MaxRedrives    \* bound: operator redrives

Ids   == TaskIds \cup NoticeIds \cup TurnIds \cup ReplayIds
Cards == 1 .. MaxCards

ASSUME IdsAssumption ==
  /\ TaskIds \cap (NoticeIds \cup TurnIds \cup ReplayIds) = {}
  /\ NoticeIds \cap (TurnIds \cup ReplayIds) = {}
  /\ TurnIds \cap ReplayIds = {}
  /\ GuardedIds \subseteq Ids
  /\ IsFiniteSet(Ids)

ASSUME BoundsAssumption ==
  /\ Rich \in BOOLEAN
  /\ MaxCards \in Nat
  /\ MaxEntries \in Nat \ {0}
  /\ MaxAttempts \in Nat \ {0}
  /\ MaxWriteFails \in Nat
  /\ MaxRestarts \in Nat
  /\ MaxRedrives \in Nat

VARIABLES
  entries,     \* the outbox file: an entry per id, or NoEntry
  preparing,   \* ids the worker must not attempt
  startupHeld, \* ids held since process start until their follower is ready
  att,         \* att[i]: who holds processing[i] and how far it got
  due,         \* the worker's snapshot of due ids
  asleep,      \* the worker waits on the wake channel without a timer
  wake,        \* the one-slot wake channel holds a token
  sess,        \* sess[i]: where the session or caller that produces i stands
  resv,        \* resv[i]: the session remembers i as its recovery reservation
  cur,         \* cur[i]: the card the session writes to, 0 for none
  cards,       \* platform: what became of each card
  shown,       \* platform: the texts it has shown
  acked,       \* acknowledged sends of a task's result, by the outbox
  writeFails, restarts, redrives

durable  == <<entries>>
volatile == <<preparing, startupHeld, att, due, asleep, wake, sess, resv, cur>>
remote   == <<cards, shown, acked>>
budget   == <<writeFails, restarts, redrives>>
vars     == <<durable, volatile, remote, budget>>

-----------------------------------------------------------------------------
(* State.                                                                  *)

\* The notification stage takes the path of the text stage, but no adapter of
\* the repository advertises it, so no draft carries one.
Stages == {"checkpoint", "text"}

\* restart: activeStreamRestartText; result: a final reply; stub: the fallback
\* staged for a blank reply, dropped again when the card carries the outcome.
Texts == {"none", "restart", "stub", "result"}

CardStates == {"none", "open", "frozen", "interrupted", "final"}

Entry ==
  [stream : 0 .. MaxCards, ckpt : 0 .. MaxCards, text : Texts,
   recovery : BOOLEAN, done : SUBSET Stages,
   attempts : 0 .. MaxAttempts, dead : BOOLEAN,
   sup : SUBSET Cards, supTries : [Cards -> 0 .. MaxAttempts], supDead : SUBSET Cards]

NewEntry ==
  [stream |-> 0, ckpt |-> 0, text |-> "none", recovery |-> FALSE, done |-> {},
   attempts |-> 0, dead |-> FALSE,
   sup |-> {}, supTries |-> [c \in Cards |-> 0], supDead |-> {}]

ASSUME NoEntryAssumption == NoEntry \notin Entry

\* A holder of processing[i].  Delivery attempts run begun -> prepare -> sending
\* on a clone of the entry; card transitions run opened -> persisted ->
\* frozen, where card is first the new card and then the one to freeze.
AttemptPcs == {"begun", "prepare", "sending"}
FreezePcs  == {"opened", "persisted", "frozen"}

Holder ==
  [pc : {"idle"} \cup AttemptPcs \cup FreezePcs,
   by : {"none", "worker", "direct", "session"},
   copy : Entry \cup {NoEntry}, run : SUBSET Stages, sent : SUBSET Stages,
   err : BOOLEAN, card : 0 .. MaxCards]

Idle == [pc |-> "idle", by |-> "none", copy |-> NoEntry,
         run |-> {}, sent |-> {}, err |-> FALSE, card |-> 0]

Sessions == {"none", "running", "reserved", "staged", "committed", "legacy",
             "finished", "closed"}

\* The session may still write progress: neither finished nor terminalClaimed.
Unclaimed == {"running", "reserved", "staged", "legacy"}

TypeOK ==
  /\ entries \in [Ids -> Entry \cup {NoEntry}]
  /\ preparing \subseteq Ids
  /\ startupHeld \subseteq Ids
  /\ att \in [Ids -> Holder]
  /\ due \subseteq Ids
  /\ asleep \in BOOLEAN
  /\ wake \in BOOLEAN
  /\ sess \in [Ids -> Sessions]
  /\ resv \in [Ids -> BOOLEAN]
  /\ cur \in [Ids -> 0 .. MaxCards]
  /\ cards \in [Ids -> [Cards -> CardStates]]
  /\ shown \in [Ids -> SUBSET Texts]
  /\ acked \in [TaskIds -> Nat]
  /\ writeFails \in 0 .. MaxWriteFails
  /\ restarts \in 0 .. MaxRestarts
  /\ redrives \in 0 .. MaxRedrives

Init ==
  /\ entries = [i \in Ids |-> NoEntry]
  /\ preparing = {} /\ startupHeld = {}
  /\ att = [i \in Ids |-> Idle]
  /\ due = {} /\ asleep = FALSE /\ wake = FALSE
  /\ sess = [i \in Ids |-> "none"]
  /\ resv = [i \in Ids |-> FALSE]
  /\ cur = [i \in Ids |-> 0]
  /\ cards = [i \in Ids |-> [c \in Cards |-> "none"]]
  /\ shown = [i \in Ids |-> {}]
  /\ acked = [i \in TaskIds |-> 0]
  /\ writeFails = 0 /\ restarts = 0 /\ redrives = 0

-----------------------------------------------------------------------------
(* The file.                                                               *)

Recorded(i) == entries[i] # NoEntry

\* The stages with a payload that are not marked delivered.
Undelivered(e) ==
  {s \in Stages \ e.done : IF s = "text" THEN e.text # "none" ELSE e.ckpt # 0}

HasWork(e) == e.stream # 0 \/ Undelivered(e) # {}

Put(i, e) == entries' = [entries EXCEPT ![i] = e]

WriteFails == writeFails < MaxWriteFails /\ writeFails' = writeFails + 1

Count == Cardinality({i \in Ids : Recorded(i)})

\* A dead letter nobody is working on; which one is the oldest is abstracted.
Evictable(i) ==
  Recorded(i) /\ entries[i].dead /\ i \notin preparing /\ att[i].pc = "idle"

\* The lists a new entry may be appended to; empty when the outbox is full and
\* holds no evictable dead letter.
Room ==
  IF Count < MaxEntries
  THEN {entries}
  ELSE {[entries EXCEPT ![v] = NoEntry] : v \in {w \in Ids : Evictable(w)}}

Insert(i, e) ==
  /\ ~Recorded(i)
  /\ \E base \in Room : entries' = [base EXCEPT ![i] = e]

CannotInsert == (Room = {} /\ UNCHANGED writeFails) \/ (Room # {} /\ WriteFails)


\* An entry that keeps only its cards' freezes.
Blank(e) ==
  [e EXCEPT !.stream = 0, !.ckpt = 0, !.text = "none", !.recovery = FALSE,
            !.done = Stages, !.dead = FALSE]

\* Mutant: pending freezes go with the entry.
DiscardDropsPending(i) ==
  \/ /\ IF Recorded(i) THEN Put(i, NoEntry) ELSE UNCHANGED entries
     /\ preparing' = preparing \ {i}
     /\ UNCHANGED writeFails
  \/ /\ Recorded(i) /\ WriteFails
     /\ UNCHANGED <<entries, preparing>>

\* discardReservation: pending freezes survive the entry that carries them.
Discard(i) ==
  \/ /\ Recorded(i)
     /\ Put(i, IF entries[i].sup = {} THEN NoEntry ELSE Blank(entries[i]))
     /\ preparing' = preparing \ {i}
     /\ UNCHANGED writeFails
  \/ /\ Recorded(i) /\ WriteFails
     /\ UNCHANGED <<entries, preparing>>
  \/ /\ ~Recorded(i)
     /\ preparing' = preparing \ {i}
     /\ UNCHANGED <<entries, writeFails>>

\* completePendingStreamSupersede, with the entry once nothing is left of it.
Unpended(e, c) ==
  LET rest == [e EXCEPT !.sup = @ \ {c}, !.supTries[c] = 0, !.supDead = @ \ {c}]
  IN IF rest.sup = {} /\ ~HasWork(rest) /\ ~rest.dead THEN NoEntry ELSE rest

\* recordPendingStreamSupersedeFailure: each card has its own retry budget.
SupersedeFailed(e, c) ==
  LET tries == IF e.supTries[c] < MaxAttempts THEN e.supTries[c] + 1 ELSE MaxAttempts
  IN [e EXCEPT !.supTries[c] = tries,
               !.supDead = IF tries = MaxAttempts THEN @ \cup {c} ELSE @]
=============================================================================
