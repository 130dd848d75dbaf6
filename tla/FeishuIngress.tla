---------------------------- MODULE FeishuIngress ----------------------------
(***************************************************************************)
(* How a Feishu event becomes one call of the business layer: freshness     *)
(* (feishu/message_freshness.go), the reservation of its fingerprint and    *)
(* the lease on it (dedup.go, dedup_lease.go), the download of attachments  *)
(* (incoming.go), the copy a topic message leaves in the group              *)
(* (mirror_dedup.go), and the tickets that keep one window in order         *)
(* (dispatch_order.go, adapter_events.go).                                  *)
(*                                                                          *)
(* All messages belong to one window.  Feishu delivers an event again until *)
(* it is acknowledged, and may do so while the first delivery is handled.   *)
(***************************************************************************)
EXTENDS Naturals

CONSTANTS
  Plans,              \* bound: the sets of deliveries Feishu may make, each delivery an event and its number
  MaxIngressMishaps   \* bound: failed writes, expired claims and restarts

\* The events: two texts, /stop, a topic message and its copy in the group, a click on a card.
Arrivals == {"text", "other", "stop", "topic", "mirror", "card"}
Deliveries == Arrivals \X (1..2)

ASSUME IngressAssumption == Plans \subseteq SUBSET Deliveries /\ MaxIngressMishaps \in Nat

VARIABLES
  plan,      \* the deliveries of this behaviour
  at,        \* what each delivery is doing
  claims,    \* the delivery that holds an event's fingerprint (processing)
  seen,      \* the events completed, in memory and in the state file
  node,      \* the queue's node of each delivery
  tail,      \* the last node of the window
  acked,     \* the events Feishu will not deliver again
  entered,   \* how often each event entered the business layer
  brief,     \* messages older than a fingerprint lasts are stale (max_message_age_seconds on, and well under ten minutes)
  forgotten, \* events whose completed fingerprint was dropped (history)
  topicSeen, \* the topic message was recorded
  ingress    \* mishaps so far

ingressVars == <<plan, at, claims, seen, node, tail, acked, entered, brief, forgotten, topicSeen, ingress>>

NoOne == <<"none", 0>>
Closed == [prev |-> NoOne, open |-> FALSE, redirect |-> NoOne]

IngressInit ==
  /\ plan \in Plans
  /\ at = [h \in plan |-> "none"]
  /\ claims = [m \in Arrivals |-> NoOne]
  /\ seen = [memory |-> {}, disk |-> {}]
  /\ node = [h \in plan |-> Closed]
  /\ tail = NoOne
  /\ acked = {}
  /\ entered = [m \in Arrivals |-> 0]
  /\ brief \in BOOLEAN /\ forgotten = {}
  /\ topicSeen = FALSE
  /\ ingress = 0

TimePasses == ingress < MaxIngressMishaps /\ ingress' = ingress + 1 /\ UNCHANGED <<plan, brief>>
IngressMishap == TimePasses /\ UNCHANGED forgotten
NoIngressMishap == UNCHANGED <<ingress, plan, brief, forgotten>>

-----------------------------------------------------------------------------
(* The queue of the window.                                                *)

\* pendingFeishuDispatchNode: the first node still open, through the nodes that stepped aside.
PendingNode(nodes, h) ==
  LET Follow[x \in plan \cup {NoOne}] ==
        IF x = NoOne THEN NoOne
        ELSE IF nodes[x].redirect # NoOne THEN Follow[nodes[x].redirect]
        ELSE IF nodes[x].open THEN x ELSE NoOne
  IN Follow[h]

\* reserve
Reserves(h) ==
  /\ node' = [node EXCEPT ![h] = [prev |-> tail, open |-> TRUE, redirect |-> NoOne]]
  /\ tail' = h

\* finish
Finishes(h) ==
  /\ node' = [node EXCEPT ![h].open = FALSE]
  /\ tail' = IF tail = h THEN NoOne ELSE tail

\* finishPreservingPrevious: whoever waits for this ticket waits for the one before it.
StepsAside(h) ==
  LET after == [node EXCEPT ![h].open = FALSE, ![h].redirect = node[h].prev]
  IN /\ node' = after
     /\ tail' = IF tail = h THEN PendingNode(after, node[h].prev) ELSE tail

Turn(h) == PendingNode(node, node[h].prev) = NoOne

-----------------------------------------------------------------------------
(* The reservation of an event.                                            *)

\* complete: only the holder of the claim may make it a completed event.
AnyoneCompletes(h) == TRUE   \* mutant: the holder is not compared
Owned(h) == claims[h[1]] = h

Completed(m) ==
  /\ seen' = [memory |-> seen.memory \cup {m}, disk |-> seen.disk \cup {m}]
  /\ claims' = [claims EXCEPT ![m] = NoOne]

\* release
Released(h) == claims' = IF claims[h[1]] = h THEN [claims EXCEPT ![h[1]] = NoOne] ELSE claims

\* Completed fingerprints that go.
Dropped(gone) ==
  /\ seen' = [memory |-> seen.memory \ gone, disk |-> seen.disk \ gone]
  /\ forgotten' = forgotten \cup (gone \cap seen.memory)

\* A completion that fails because the state file cannot be written.
WriteFails == IngressMishap

-----------------------------------------------------------------------------
(* Deliveries.                                                             *)

Arrives(h) == h \in plan /\ h[1] \notin acked /\ at[h] = "none" /\ \A n \in 1..(h[2] - 1) : at[<<h[1], n>>] # "none"

\* reserve of the deduper: an event completed or being handled is acknowledged and dropped.
DuplicateEvent(h) ==
  /\ Arrives(h) /\ h[1] # "card"
  /\ h[1] \in seen.memory \/ claims[h[1]] # NoOne
  /\ at' = [at EXCEPT ![h] = "ended"]
  /\ acked' = acked \cup {h[1]}
  /\ UNCHANGED <<claims, seen, node, tail, entered, topicSeen>> /\ NoIngressMishap

\* shouldIgnoreStaleMessage: sent before this run, or too long ago; a fingerprint that lasted its time says as much when
\* the limit is brief.
StaleByNow(m) == brief /\ m \in forgotten

\* discardStaleMessage: dropped without a word, and in a private chat remembered like a message that was handled.
StaleEvent(h) ==
  /\ Arrives(h) /\ h[1] # "card"
  /\ at' = [at EXCEPT ![h] = "ended"]
  /\ \/ UNCHANGED <<claims, seen>> /\ acked' = acked \cup {h[1]} /\ NoIngressMishap
     \/ /\ h[1] \notin seen.memory /\ claims[h[1]] = NoOne
        /\ \/ Completed(h[1]) /\ acked' = acked \cup {h[1]} /\ NoIngressMishap
           \/ UNCHANGED <<claims, seen, acked>> /\ WriteFails
  /\ UNCHANGED <<node, tail, entered, topicSeen>>

\* handleMessageEvent: the fingerprint is claimed; attachments, if any, are downloaded.
MessageEvent(h, attached) ==
  /\ Arrives(h) /\ h[1] # "card" /\ ~StaleByNow(h[1])
  /\ h[1] \notin seen.memory /\ claims[h[1]] = NoOne
  /\ claims' = [claims EXCEPT ![h[1]] = h]
  /\ at' = [at EXCEPT ![h] = IF attached THEN "download" ELSE "ready"]
  /\ UNCHANGED <<seen, node, tail, acked, entered, topicSeen>> /\ NoIngressMishap

\* handleCardActionEvent: in the queue before it is answered; a click delivered again meanwhile is only answered.
CardActionEvent(h) ==
  /\ Arrives(h) /\ h[1] = "card"
  /\ IF h[1] \in seen.memory
     THEN at' = [at EXCEPT ![h] = "ended"] /\ UNCHANGED <<seen, node, tail>>
     ELSE /\ seen' = [seen EXCEPT !.memory = @ \cup {h[1]}]
          /\ at' = [at EXCEPT ![h] = "queued"]
          /\ Reserves(h)
  /\ UNCHANGED <<claims, acked, entered, topicSeen>> /\ NoIngressMishap

CardAnswered(h) ==
  /\ h[1] = "card" /\ at[h] # "none" /\ "card" \notin acked
  /\ acked' = acked \cup {"card"}
  /\ UNCHANGED <<at, claims, seen, node, tail, entered, topicSeen>> /\ NoIngressMishap

\* attachReservedResources.  A lease that noticed it was lost ends the delivery; one that did not goes on.
Downloaded(h) ==
  /\ at[h] = "download"
  /\ at' = [at EXCEPT ![h] = "ready"]
  /\ UNCHANGED <<claims, seen, node, tail, acked, entered, topicSeen>> /\ NoIngressMishap

LeaseLost(h) ==
  /\ at[h] = "download" /\ claims[h[1]] # h
  /\ at' = [at EXCEPT ![h] = "ended"]
  /\ acked' = acked \cup {h[1]}
  /\ UNCHANGED <<claims, seen, node, tail, entered, topicSeen>> /\ NoIngressMishap

\* handleResourceDownloadFailure: a passing error leaves the event to be delivered again, a lasting one completes it.
DownloadFails(h) ==
  /\ at[h] = "download"
  /\ at' = [at EXCEPT ![h] = "ended"]
  /\ \/ Released(h) /\ UNCHANGED <<seen, acked>> /\ NoIngressMishap
     \/ Owned(h) /\ Completed(h[1]) /\ acked' = acked \cup {h[1]} /\ NoIngressMishap
     \/ Released(h) /\ UNCHANGED <<seen, acked>> /\ WriteFails
  /\ UNCHANGED <<node, tail, entered, topicSeen>>

-----------------------------------------------------------------------------
(* The copy of a topic message in the group.                               *)

\* recordThreadMirrorFingerprint: copies that wait are consumed, then the topic message is queued.
TopicRecorded(h) ==
  LET copies == {c \in plan : at[c] = "mirror"}
      mine == {c \in copies : Owned(c)}
  IN /\ at[h] = "ready" /\ h[1] = "topic"
     /\ topicSeen' = TRUE
     /\ at' = [c \in plan |-> IF c = h THEN "queued" ELSE IF c \in copies THEN "ended" ELSE at[c]]
     /\ seen' = [memory |-> seen.memory \cup {c[1] : c \in mine}, disk |-> seen.disk \cup {c[1] : c \in mine}]
     /\ claims' = [m \in Arrivals |-> IF \E c \in mine : c[1] = m THEN NoOne ELSE claims[m]]
     /\ Reserves(h)
     /\ UNCHANGED <<acked, entered>> /\ NoIngressMishap

\* deferPossibleGroupMirror: dropped when the topic message came first, else held for a second and acknowledged.
MirrorDropped(h) ==
  /\ at[h] = "ready" /\ h[1] = "mirror" /\ topicSeen
  /\ at' = [at EXCEPT ![h] = "ended"]
  /\ \/ Owned(h) /\ Completed(h[1]) /\ acked' = acked \cup {h[1]} /\ NoIngressMishap
     \/ ~Owned(h) /\ UNCHANGED <<claims, seen, acked>> /\ NoIngressMishap
     \/ Released(h) /\ UNCHANGED <<seen, acked>> /\ WriteFails
  /\ UNCHANGED <<node, tail, entered, topicSeen>>

MirrorHeld(h) ==
  /\ at[h] = "ready" /\ h[1] = "mirror" /\ ~topicSeen
  /\ at' = [at EXCEPT ![h] = "mirror"]
  /\ acked' = acked \cup {h[1]}
  /\ UNCHANGED <<claims, seen, node, tail, entered, topicSeen>> /\ NoIngressMishap

\* releasePendingMirror, or any other message: the ticket is taken.
TakesTicket(h) ==
  /\ at[h] = IF h[1] = "mirror" THEN "mirror" ELSE "ready"
  /\ h[1] # "topic"
  /\ at' = [at EXCEPT ![h] = "queued"]
  /\ Reserves(h)
  /\ UNCHANGED <<claims, seen, acked, entered, topicSeen>> /\ NoIngressMishap

-----------------------------------------------------------------------------
(* The turn.                                                               *)

\* The reservation is completed when the turn comes, and the message enters the business layer.
Admits(h) ==
  /\ at' = [at EXCEPT ![h] = "running"]
  /\ entered' = [entered EXCEPT ![h[1]] = @ + 1]
  /\ IF h[1] = "card" THEN UNCHANGED <<claims, seen>> ELSE Owned(h) /\ Completed(h[1])
  /\ UNCHANGED <<node, tail, acked, topicSeen>> /\ NoIngressMishap

\* Not the holder any more, or the write failed: the delivery ends with an error.
Refuses(h) ==
  /\ h[1] # "card"
  /\ at' = [at EXCEPT ![h] = "ended"]
  /\ Released(h)
  /\ (~Owned(h) /\ NoIngressMishap) \/ (Owned(h) /\ WriteFails)
  /\ UNCHANGED <<seen, acked, entered, topicSeen>>

TurnComes(h) == at[h] = "queued" /\ Turn(h) /\ (Admits(h) \/ (Refuses(h) /\ Finishes(h)))

\* runAfterWaitTimeoutWithAdmission: /stop does not wait for ever for what is in front of it.
StopBypasses(h) == at[h] = "queued" /\ h[1] = "stop" /\ ~Turn(h) /\ (Admits(h) \/ (Refuses(h) /\ StepsAside(h)))

\* sendQueueTimeoutNotice: the sender is told that the message was not executed; the event may come again.
WaitTimesOut(h) ==
  /\ at[h] = "queued" /\ h[1] # "stop" /\ ~Turn(h)
  /\ at' = [at EXCEPT ![h] = "ended"]
  /\ StepsAside(h) /\ Released(h)
  /\ UNCHANGED <<seen, acked, entered, topicSeen>> /\ NoIngressMishap

\* The event is acknowledged although the call goes on: only the waiting is limited.
RunOutlasts(h) ==
  /\ at[h] = "running" /\ h[1] # "stop"
  /\ at' = [at EXCEPT ![h] = "left"]
  /\ acked' = acked \cup {h[1]}
  /\ UNCHANGED <<claims, seen, node, tail, entered, topicSeen>> /\ NoIngressMishap

RunEnds(h) ==
  /\ at[h] \in {"running", "left"}
  /\ at' = [at EXCEPT ![h] = "ended"]
  /\ acked' = acked \cup {h[1]}
  /\ IF h[1] = "stop" /\ ~Turn(h) THEN StepsAside(h) ELSE Finishes(h)
  /\ UNCHANGED <<claims, seen, entered, topicSeen>> /\ NoIngressMishap

-----------------------------------------------------------------------------
\* cleanupLocked: a claim not renewed within its time is dropped.
ClaimExpires(m) ==
  /\ claims[m] # NoOne /\ IngressMishap
  /\ claims' = [claims EXCEPT ![m] = NoOne]
  /\ UNCHANGED <<at, seen, node, tail, acked, entered, topicSeen>>

\* cleanupLocked and isDuplicateCardActionEvent: a completed fingerprint is dropped ten minutes later.
Forgets(m) ==
  /\ m \in seen.memory /\ TimePasses
  /\ Dropped({m})
  /\ UNCHANGED <<at, claims, node, tail, acked, entered, topicSeen>>

\* The process ends and starts again; loadStateLocked reads what was completed in the last ten minutes.
IngressRestarts(expired) ==
  /\ TimePasses
  /\ at' = [h \in plan |-> IF at[h] = "none" THEN "none" ELSE "ended"]
  /\ claims' = [m \in Arrivals |-> NoOne]
  /\ Dropped(expired \cup (seen.memory \ seen.disk))
  /\ node' = [h \in plan |-> Closed] /\ tail' = NoOne
  /\ topicSeen' = FALSE
  /\ UNCHANGED <<acked, entered>>

IngressNext ==
  \/ \E h \in plan :
       \/ DuplicateEvent(h) \/ StaleEvent(h) \/ CardActionEvent(h) \/ CardAnswered(h) \/ \E attached \in BOOLEAN : MessageEvent(h, attached)
       \/ Downloaded(h) \/ LeaseLost(h) \/ DownloadFails(h)
       \/ TopicRecorded(h) \/ MirrorDropped(h) \/ MirrorHeld(h) \/ TakesTicket(h)
       \/ TurnComes(h) \/ StopBypasses(h) \/ WaitTimesOut(h) \/ RunOutlasts(h) \/ RunEnds(h)
  \/ \E m \in Arrivals : ClaimExpires(m) \/ Forgets(m)
  \/ \E expired \in SUBSET seen.disk : IngressRestarts(expired)

IngressSpec == IngressInit /\ [][IngressNext]_ingressVars

-----------------------------------------------------------------------------
\* No event enters the business layer twice, however often it is delivered, although claims expire during a download, writes
\* fail and the process restarts.  A fingerprint lasts ten minutes: an event delivered again later is kept out by its age,
\* unless the limit on the age of messages is off or longer than that.  Clicks have no age and are remembered in memory alone.
OutOfMemory(m) == m \in forgotten /\ (m = "card" \/ ~brief)
EntersOnce == \A m \in Arrivals : entered[m] <= 1 \/ OutOfMemory(m)

\* The messages of one window are executed one after the other, although tickets give up waiting, /stop passes them and a
\* call outlasts the time Feishu waits for it.
OneAtATime ==
  \A g, h \in plan : (g # h /\ {at[g], at[h]} \subseteq {"running", "left"}) => "stop" \in {g[1], h[1]}

\* An event runs once, and in its turn (dedup.go, dispatch_order.go).
OnceInTurn == EntersOnce /\ OneAtATime
=============================================================================
