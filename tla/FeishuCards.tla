----------------------------- MODULE FeishuCards -----------------------------
(***************************************************************************)
(* The task cards of the Feishu adapter: the stream (feishu/stream.go), the *)
(* registry of card states (task_card.go, approval_waiting.go), the lock    *)
(* that keeps the requests for one card in order (cardkit_operation.go),    *)
(* the approvals written back to the card (adapter_approval.go,             *)
(* automatic_approval.go) and the replay of stored checkpoints (replier.go).*)
(*                                                                          *)
(* Card 1 is the task's first card, card 2 the one it is moved to.  Texts   *)
(* are left out: a card shows a status, whether it streams, and the         *)
(* approvals it says are waited for.  A request carries a sequence number   *)
(* and CardKit takes it only when the number is higher than the last one.   *)
(* A request whose caller gave up may still arrive.                         *)
(***************************************************************************)
EXTENDS Naturals, Sequences, FiniteSets

CONSTANTS
  CardKeys,       \* approvals asked for by the task
  MaxCardOps,     \* bound: updates, expansions and approvals
  MaxCardMishaps  \* bound: timeouts, refusals, expired streams, purged records and crashes

ASSUME CardsAssumption == MaxCardOps \in Nat /\ MaxCardMishaps \in Nat

VARIABLES
  kit,      \* CardKit's cards: [seq, status, stream, waits, done, refused]
  reg,      \* the registry's record of each card
  strm,     \* the stream object of each card
  op,       \* the requests still to be made under the lock of each card
  loose,    \* requests whose caller gave up
  saved,    \* what the outbox has stored for each card
  answer,   \* the decision on each approval, on its way to the card
  anchor,   \* the move to the second card
  cardOps, cardMishaps

cardVars == <<kit, reg, strm, op, loose, saved, answer, anchor, cardOps, cardMishaps>>

TaskCards == {1, 2}
NoCard == 0
Working == "thinking"
NoId == <<"none", "none">>

Blank == [seq |-> 0, status |-> "none", stream |-> FALSE, waits |-> {}, done |-> {}, refused |-> {}]
NoCardRecord == [on |-> FALSE, status |-> "none", seq |-> 0, waits |-> {}, settled |-> {}, next |-> NoCard]
NoStream == [at |-> "none", seq |-> 0]
Free == [who |-> "none", reqs |-> <<>>, bad |-> FALSE]
NotSaved == [kind |-> "none", seq |-> 0, disable |-> 0, update |-> 0, status |-> "none", done |-> FALSE]
Unasked == [at |-> "none", card |-> NoCard, target |-> NoCard]

Recorded(status, seq) == [NoCardRecord EXCEPT !.on = TRUE, !.status = status, !.seq = seq]

CardsInit ==
  /\ kit = [c \in TaskCards |-> IF c = 1 THEN [Blank EXCEPT !.seq = 2, !.status = Working, !.stream = TRUE] ELSE Blank]
  /\ reg = [c \in TaskCards |-> IF c = 1 THEN Recorded(Working, 2) ELSE NoCardRecord]
  /\ strm = [c \in TaskCards |-> IF c = 1 THEN [at |-> "open", seq |-> 2] ELSE NoStream]
  /\ op = [c \in TaskCards |-> Free]
  /\ loose = {}
  /\ saved = [c \in TaskCards |-> IF c = 1 THEN [NotSaved EXCEPT !.kind = "stream", !.seq = 2] ELSE NotSaved]
  /\ answer = [k \in CardKeys |-> Unasked]
  /\ anchor = [at |-> "none", disable |-> 0, update |-> 0]
  /\ cardOps = 0 /\ cardMishaps = 0

CardOp == cardOps < MaxCardOps /\ cardOps' = cardOps + 1 /\ UNCHANGED cardMishaps
CardMishap == cardMishaps < MaxCardMishaps /\ cardMishaps' = cardMishaps + 1 /\ UNCHANGED cardOps
Plain == UNCHANGED <<cardOps, cardMishaps>>

-----------------------------------------------------------------------------
(* CardKit (external) and the lock of a card.                              *)

Request(c, part, seq, status, waits, id) ==
  [card |-> c, part |-> part, seq |-> seq, status |-> status, waits |-> waits, id |-> id]

\* A repeated operation is recognised by its id; otherwise the number must be higher than the last.
Repeated(r) == r.id # NoId /\ r.id \in kit[r.card].done
Stale(r) == ~Repeated(r) /\ r.seq <= kit[r.card].seq
Applied(r) ==
  IF Repeated(r) \/ Stale(r) THEN kit[r.card]
  ELSE [kit[r.card] EXCEPT
          !.seq = r.seq,
          !.status = IF r.part = "full" THEN r.status ELSE @,
          !.waits = IF r.part = "full" THEN r.waits ELSE @,
          !.stream = CASE r.part = "enable" -> TRUE [] r.part = "disable" -> FALSE [] OTHER -> @,
          !.done = IF r.id = NoId THEN @ ELSE @ \cup {r.id}]

\* cardKitOperationCoordinator.with
Unlocked(c) == op[c].who = "none"
Holds(c, who, reqs) == Unlocked(c) /\ op' = [op EXCEPT ![c] = [who |-> who, reqs |-> reqs, bad |-> FALSE]]

\* ignoreCardKitUpdateError: a number that is not higher is an error like any other; TurnsDown has those it overlooks.
Rejected(r) == Stale(r)

\* The checkpoint was delivered: the outbox strikes it off, and the registry records the card as it now is.
Struck(c, bad, last) ==
  IF last /\ ~bad /\ op[c].who # "live"
  THEN /\ saved' = [saved EXCEPT ![c].done = TRUE]
       /\ reg' = IF op[c].who = "worker" THEN [reg EXCEPT ![c] = Recorded(saved[c].status, saved[c].update)] ELSE reg
  ELSE UNCHANGED <<saved, reg>>

\* The first request under the lock is over; the last one releases the card, and so does a stream that could not be opened.
Answered(c, bad) ==
  IF Len(op[c].reqs) = 1 \/ (bad /\ Head(op[c].reqs).part = "enable") THEN Free ELSE [op[c] EXCEPT !.reqs = Tail(op[c].reqs), !.bad = bad]

\* The next request arrives and is answered.
Lands(c) ==
  LET r == Head(op[c].reqs)
      bad == op[c].bad \/ Rejected(r)
      last == Len(op[c].reqs) = 1
  IN /\ op[c].reqs # <<>>
     /\ ~(r.part = "text" /\ ~kit[c].stream)
     /\ kit' = [kit EXCEPT ![c] = Applied(r)]
     /\ op' = [op EXCEPT ![c] = Answered(c, bad)]
     /\ Struck(c, bad, last)
     /\ UNCHANGED <<strm, loose, answer, anchor>> /\ Plain

\* CardKit turns the request down with one of the four errors that ignoreCardKitUpdateError overlooks: the card stays as it
\* is and the caller takes the request for done, the outbox its checkpoint too.
TurnsDown(c) ==
  LET r == Head(op[c].reqs)
      bad == op[c].bad \/ r.part = "enable"
  IN /\ op[c].reqs # <<>> /\ CardMishap
     /\ kit' = [kit EXCEPT ![c].refused = IF r.id = NoId THEN @ ELSE @ \cup {r.id}]
     /\ op' = [op EXCEPT ![c] = Answered(c, bad)]
     /\ Struck(c, bad, Len(op[c].reqs) = 1)
     /\ UNCHANGED <<strm, loose, answer, anchor>>

\* streamComponentWithRetry: CardKit closed the stream meanwhile; it is opened again and the text is sent once more.
Reopens(c) ==
  LET seq == (IF reg[c].on THEN reg[c].seq ELSE strm[c].seq) + 1
  IN /\ op[c].reqs # <<>> /\ Head(op[c].reqs).part = "text" /\ ~kit[c].stream
     /\ op' = [op EXCEPT ![c].reqs = <<Request(c, "enable", seq, Working, {}, NoId), Request(c, "text", seq + 1, Working, {}, NoId)>>]
     /\ strm' = [strm EXCEPT ![c].seq = seq + 1]
     /\ reg' = IF reg[c].on THEN [reg EXCEPT ![c].seq = seq + 1] ELSE reg
     /\ UNCHANGED <<kit, loose, saved, answer, anchor>> /\ Plain

\* The caller's deadline passes: the card is released with an error, the request may arrive later.
TimesOut(c) ==
  /\ op[c].reqs # <<>> /\ CardMishap
  /\ loose' = loose \cup {Head(op[c].reqs)}
  /\ op' = [op EXCEPT ![c] = Answered(c, TRUE)]
  /\ UNCHANGED <<kit, reg, strm, saved, answer, anchor>>

ArrivesLate(r) ==
  /\ r \in loose
  /\ loose' = loose \ {r}
  /\ kit' = [kit EXCEPT ![r.card] = Applied(r)]
  /\ UNCHANGED <<reg, strm, op, saved, answer, anchor>> /\ Plain

NeverArrives(r) ==
  /\ r \in loose
  /\ loose' = loose \ {r}
  /\ UNCHANGED <<kit, reg, strm, op, saved, answer, anchor>> /\ Plain

\* CardKit ends the streaming mode of a card by itself.
StreamExpires(c) ==
  /\ kit[c].stream /\ CardMishap
  /\ kit' = [kit EXCEPT ![c].stream = FALSE]
  /\ UNCHANGED <<reg, strm, op, loose, saved, answer, anchor>>

-----------------------------------------------------------------------------
(* The stream.                                                             *)

\* The number of the next request of a stream: the registry's, or its own when the record is gone.
NextSeq(c) == (IF reg[c].on THEN reg[c].seq ELSE strm[c].seq) + 1
Numbered(c, seq) ==
  /\ strm' = [strm EXCEPT ![c].seq = seq]
  /\ reg' = IF reg[c].on THEN [reg EXCEPT ![c].seq = seq] ELSE reg

\* The session keeps its lock while the task moves to the new card; what waits for the old card is sent nevertheless.
Streaming(c) == strm[c].at = "open" /\ (c = 2 => anchor.at = "done")

\* What a full update of the card shows.
Shown(c, seq) == Request(c, "full", seq, IF reg[c].on THEN reg[c].status ELSE Working, reg[c].waits, NoId)

\* updatePresentationNow: the whole layout, or the text component alone.  A pending update is one that comes later.
UpdatePresentation(c) ==
  /\ Streaming(c) /\ CardOp
  /\ Holds(c, "live", <<Shown(c, NextSeq(c))>>)
  /\ Numbered(c, NextSeq(c))
  /\ UNCHANGED <<kit, loose, saved, answer, anchor>>

UpdateText(c) ==
  /\ Streaming(c) /\ CardOp
  /\ Holds(c, "live", <<Request(c, "text", NextSeq(c), Working, {}, NoId)>>)
  /\ Numbered(c, NextSeq(c))
  /\ UNCHANGED <<kit, loose, saved, answer, anchor>>

\* DurableReference, after progress or a change of the registry: the number the stored reference continues from.
RefreshReference(c) ==
  /\ strm[c].at = "open" /\ saved[c].kind = "stream" /\ Unlocked(c)
  /\ saved[c].seq # NextSeq(c) - 1
  /\ saved' = [saved EXCEPT ![c].seq = NextSeq(c) - 1]
  /\ UNCHANGED <<kit, reg, strm, op, loose, answer, anchor>> /\ Plain

\* handleTaskProgressControl
ExpandCard(c) ==
  /\ reg[c].on /\ CardOp
  /\ Holds(c, "live", <<Shown(c, reg[c].seq + 1)>>)
  /\ reg' = [reg EXCEPT ![c].seq = @ + 1]
  /\ UNCHANGED <<kit, strm, loose, saved, answer, anchor>>

\* purgeLocked: a record not touched for thirty minutes is dropped when another card is recorded.  A live request touches
\* the record when it takes its number: after thirty minutes it has arrived or never will.  The outbox touches none.
PurgeRecord(c) ==
  /\ reg[c].on /\ CardMishap
  /\ op[c].who # "live" /\ \A r \in loose : r.card = c => r.id # NoId
  /\ reg' = [reg EXCEPT ![c] = NoCardRecord]
  /\ UNCHANGED <<kit, strm, op, loose, saved, answer, anchor>>

\* updateAndSnapshot: the registry knows that the card has ended.
Ended(c, seq) == [reg EXCEPT ![c].status = "done", ![c].seq = seq + 1, ![c].waits = {}]

\* PrepareTerminalWithState: the stream is frozen and the two numbers of the end are reserved.
PrepareTerminal(c) ==
  LET seq == NextSeq(c)
  IN /\ strm[c].at = "open" /\ Unlocked(c)
     /\ anchor.at \in {"none", "done"}
     /\ strm' = [strm EXCEPT ![c] = [at |-> "closed", seq |-> seq + 1]]
     /\ reg' = IF reg[c].on THEN Ended(c, seq) ELSE reg
     /\ saved' = [saved EXCEPT ![c] = [kind |-> "terminal", seq |-> seq + 1, disable |-> seq, update |-> seq + 1,
                                       status |-> "done", done |-> FALSE]]
     /\ UNCHANGED <<kit, op, loose, answer, anchor>> /\ Plain

\* deliverFeishuTerminalCheckpoint and deliverFeishuSupersedeCheckpoint: the mode, then the card, whatever becomes of the mode.
Replay(c) ==
  <<Request(c, "disable", saved[c].disable, saved[c].status, {}, <<saved[c].kind, "mode">>),
    Request(c, "full", saved[c].update, saved[c].status, {}, <<saved[c].kind, "card">>)>>

\* DeliverTerminal and DeliverSupersede, called by the outbox.
WorkerDelivers(c) ==
  /\ saved[c].kind \in {"terminal", "freeze"} /\ ~saved[c].done
  /\ anchor.at \in {"none", "done"}
  /\ Holds(c, "worker", Replay(c))
  /\ UNCHANGED <<kit, reg, strm, loose, saved, answer, anchor>> /\ Plain

-----------------------------------------------------------------------------
(* The move to a new card.                                                 *)

\* prepareFeishuStreamFreezeFromReference: the numbers are those that follow the exported reference.
ReanchorPrepares ==
  /\ anchor.at = "none" /\ strm[1].at = "open" /\ saved[1].kind = "stream"
  /\ anchor' = [at |-> "prepared", disable |-> NextSeq(1), update |-> NextSeq(1) + 1]
  /\ UNCHANGED <<kit, reg, strm, op, loose, saved, answer>> /\ Plain

\* openCardKitStreamWithMode, then one write of the outbox with the new reference and the old card's freeze.
ReanchorOpens ==
  /\ anchor.at = "prepared" /\ Unlocked(2)
  /\ kit' = [kit EXCEPT ![2] = [Blank EXCEPT !.seq = 2, !.status = Working, !.stream = TRUE]]
  /\ reg' = [reg EXCEPT ![2] = Recorded(Working, 2)]
  /\ strm' = [strm EXCEPT ![2] = [at |-> "open", seq |-> 2]]
  /\ saved' = [saved EXCEPT ![2] = [NotSaved EXCEPT !.kind = "stream", !.seq = 2],
                            ![1] = [kind |-> "freeze", seq |-> 0, disable |-> anchor.disable, update |-> anchor.update,
                                    status |-> "superseded", done |-> FALSE]]
  /\ anchor' = [anchor EXCEPT !.at = "opened"]
  /\ UNCHANGED <<op, loose, answer>> /\ Plain

\* moveApprovalWaiting: what is waited for, and what was settled, goes to the new card.
Moves == reg[1].on /\ reg[2].on /\ reg[2].next = NoCard /\ reg[1].status \in {Working, "superseded"}
BindTaskCard ==
  /\ anchor.at = "opened" /\ Unlocked(1)
  /\ reg' = IF Moves
            THEN [reg EXCEPT ![1].next = 2, ![1].waits = {},
                             ![2].settled = @ \cup reg[1].settled,
                             ![2].waits = (@ \cup reg[1].waits) \ reg[1].settled]
            ELSE reg
  /\ anchor' = [anchor EXCEPT !.at = "bound"]
  /\ UNCHANGED <<kit, strm, op, loose, saved, answer>> /\ Plain

\* refreshApprovalWaiting: the new card shows what is waited for.
RefreshWaiting ==
  /\ anchor.at = "bound"
  /\ anchor' = [anchor EXCEPT !.at = "refreshed"]
  /\ IF reg[2].on /\ reg[2].waits # {} /\ reg[2].status = Working
     THEN /\ Holds(2, "live", <<Shown(2, reg[2].seq + 1)>>)
          /\ reg' = [reg EXCEPT ![2].seq = @ + 1]
     ELSE UNCHANGED <<op, reg>>
  /\ UNCHANGED <<kit, strm, loose, saved, answer>> /\ Plain

\* DeliverPreparedSupersede: the old stream is frozen, then the stored operation is sent.
FreezesOld ==
  /\ anchor.at = "refreshed"
  /\ Holds(1, "session", Replay(1))
  /\ strm' = [strm EXCEPT ![1].at = "closed"]
  /\ reg' = IF reg[1].on THEN [reg EXCEPT ![1].status = "superseded"] ELSE reg
  /\ anchor' = [anchor EXCEPT !.at = "done"]
  /\ UNCHANGED <<kit, loose, saved, answer>> /\ Plain

-----------------------------------------------------------------------------
(* Approvals on the card.                                                  *)

\* approvalCardID: the card a record has moved to.
Successor(c) == IF reg[c].on /\ reg[c].next # NoCard THEN reg[c].next ELSE c
Current == IF anchor.at \in {"none", "prepared", "opened"} THEN 1 ELSE 2

\* recordPrivateApprovalWaiting and setApprovalWaiting: the group's card says that an approval is waited for.
AskApproval(k) ==
  LET c == Successor(Current)
  IN /\ answer[k].at = "none" /\ CardOp
     /\ answer' = [answer EXCEPT ![k] = [Unasked EXCEPT !.at = "asked", !.card = Current]]
     /\ IF reg[c].on /\ k \notin reg[c].settled /\ reg[c].status = Working
        THEN /\ Holds(c, "live", <<[Shown(c, reg[c].seq + 1) EXCEPT !.waits = @ \cup {k}]>>)
             /\ reg' = [reg EXCEPT ![c].waits = @ \cup {k}, ![c].seq = @ + 1]
        ELSE UNCHANGED <<op, reg>>
     /\ UNCHANGED <<kit, strm, loose, saved, anchor>>

\* A decision, clicked or automatic: withApprovalCardOperation finds the card the approval is shown on.
Decide(k) ==
  /\ answer[k].at = "asked"
  /\ answer' = [answer EXCEPT ![k].at = "found", ![k].target = Successor(answer[k].card)]
  /\ UNCHANGED <<kit, reg, strm, op, loose, saved, anchor>> /\ Plain

\* Under the lock the card is looked up again; a move that came in between sends the decision to the new card.
TargetTrusted(k) == TRUE   \* mutant: the card found before the lock is used
TargetCurrent(k) == Successor(answer[k].card) = answer[k].target

\* addApprovalWithSequence
SettleApproval(k) ==
  LET c == answer[k].target
  IN /\ answer[k].at = "found" /\ Unlocked(c)
     /\ IF ~TargetCurrent(k)
        THEN answer' = [answer EXCEPT ![k].target = Successor(answer[k].card)] /\ UNCHANGED <<op, reg>>
        ELSE /\ answer' = [answer EXCEPT ![k].at = "settled"]
             /\ IF reg[c].on
                THEN /\ Holds(c, "live", <<[Shown(c, reg[c].seq + 1) EXCEPT !.waits = @ \ {k}]>>)
                     /\ reg' = [reg EXCEPT ![c].settled = @ \cup {k}, ![c].waits = @ \ {k}, ![c].seq = @ + 1]
                ELSE UNCHANGED <<op, reg>>
     /\ UNCHANGED <<kit, strm, loose, saved, anchor>> /\ Plain

-----------------------------------------------------------------------------
\* The process ends; requests on the way arrive or are lost before the next one starts.
CardCrash ==
  /\ CardMishap
  /\ reg' = [c \in TaskCards |-> NoCardRecord]
  /\ strm' = [c \in TaskCards |-> NoStream]
  /\ op' = [c \in TaskCards |-> Free]
  /\ loose' = loose \cup {Head(op[c].reqs) : c \in {d \in TaskCards : op[d].reqs # <<>>}}
  /\ answer' = [k \in CardKeys |-> [answer[k] EXCEPT !.at = "gone"]]
  /\ anchor' = [anchor EXCEPT !.at = "done"]
  /\ UNCHANGED <<kit, saved>>

\* PrepareTerminalFromReferenceWithState: the stored reference becomes the end of the same card.
RecoverTerminal(c) ==
  LET seq == saved[c].seq
  IN /\ saved[c].kind = "stream" /\ strm[c].at = "none" /\ loose = {}
     /\ reg' = [reg EXCEPT ![c] = Recorded("stopped", seq + 2)]
     /\ saved' = [saved EXCEPT ![c] = [kind |-> "terminal", seq |-> seq + 2, disable |-> seq + 1, update |-> seq + 2,
                                       status |-> "stopped", done |-> FALSE]]
     /\ UNCHANGED <<kit, strm, op, loose, answer, anchor>> /\ Plain

CardsNext ==
  \/ \E c \in TaskCards :
       \/ Lands(c) \/ TurnsDown(c) \/ Reopens(c) \/ TimesOut(c) \/ StreamExpires(c) \/ UpdatePresentation(c) \/ UpdateText(c) \/ RefreshReference(c)
       \/ ExpandCard(c) \/ PurgeRecord(c) \/ PrepareTerminal(c) \/ WorkerDelivers(c) \/ RecoverTerminal(c)
  \/ \E r \in loose : ArrivesLate(r) \/ NeverArrives(r)
  \/ ReanchorPrepares \/ ReanchorOpens \/ BindTaskCard \/ RefreshWaiting \/ FreezesOld \/ CardCrash
  \/ \E k \in CardKeys : AskApproval(k) \/ Decide(k) \/ SettleApproval(k)

CardsSpec == CardsInit /\ [][CardsNext]_cardVars

-----------------------------------------------------------------------------
\* A checkpoint the outbox has struck off reached CardKit, both its requests, and the card shows its end (or its move) and no
\* longer streams, although requests overtake each other, time out and arrive late.  Two things are excepted.  What CardKit
\* turned down with an error the code overlooks counts as delivered and never shows.  A freeze may be followed by a request
\* whose number passes it, since the old card is updated until the new one is up.
Told(c, step) == <<saved[c].kind, step>> \in kit[c].done
TurnedDown(c, step) == <<saved[c].kind, step>> \in kit[c].refused
FreezeOvertaken(c) ==
  saved[c].kind = "freeze" /\ kit[c].seq > IF Told(c, "card") THEN saved[c].update ELSE saved[c].disable
DeliveredIsShown ==
  \A c \in TaskCards : saved[c].done =>
    /\ \A step \in {"mode", "card"} : Told(c, step) \/ TurnedDown(c, step)
    /\ \/ FreezeOvertaken(c)
       \/ /\ Told(c, "card") => kit[c].status = saved[c].status
          /\ Told(c, "mode") => ~kit[c].stream

\* A decision on an approval takes it off the card the task is on, although the task moves to a new card meanwhile.  A
\* record that no longer leads to the new card is exempt: it was forgotten after thirty minutes, or a repeated freeze
\* replaced it.
SettledNotWaiting ==
  \A k \in CardKeys : (answer[k].at = "settled" /\ Successor(answer[k].card) = Current)
                        => \A c \in TaskCards : k \notin reg[c].waits

\* What the outbox and the approval broker believe of a card is what the card shows (stream.go, task_card.go).
CardsSound == DeliveredIsShown /\ SettledNotWaiting
=============================================================================
