---------------------------- MODULE WeChatPolling ----------------------------
(***************************************************************************)
(* The WeChat side: the long poll and its cursor (ilink/monitor.go,         *)
(* monitor_state.go), the queue of one sender with its aggregation window   *)
(* (monitor_queue.go), the watchdog (wechat/adapter.go), the registry that  *)
(* restarts a platform and checks the sender (platform/registry.go).        *)
(*                                                                          *)
(* Message n is the n-th message of the sender.  A cursor is the number of  *)
(* messages it covers.                                                      *)
(***************************************************************************)
EXTENDS Naturals, Sequences

CONSTANTS
  WxMessages,    \* bound: messages sent
  WxCommands,    \* those that are commands
  WxQueueCap,    \* the capacity of a sender's queue
  MaxWxMishaps   \* bound: watchdog restarts, exits, expired sessions and failed writes

ASSUME WeChatAssumption ==
  WxMessages \in Nat /\ WxCommands \subseteq 1..WxMessages /\ WxQueueCap \in Nat \ {0} /\ MaxWxMishaps \in Nat

VARIABLES
  cursor,    \* the cursor in memory and in the file
  poller,    \* the long-poll loop: [at, rest: still to be queued, upto: the cursor of the answer]
  wxQueue,   \* the sender's queue, and whether it is still the one in the map
  wxWorker,  \* the goroutine of the queue: [at, batch]
  unheard,   \* messages of the answer nobody has acknowledged yet
  handlers,  \* calls of the handler under way, in the order they were started
  handed,    \* messages given to the handler, ever
  allowed,   \* the sender is on the allowlist
  tokens,    \* the token stored for the sender
  wxMishaps

wxVars == <<cursor, poller, wxQueue, wxWorker, unheard, handlers, handed, allowed, tokens, wxMishaps>>

AskingServer == [at |-> "poll", rest |-> <<>>, upto |-> 0]
NoQueue == [on |-> FALSE, items |-> <<>>]
NoWorker == [at |-> "none", batch |-> <<>>]

WeChatInit ==
  /\ cursor = [memory |-> 0, disk |-> 0]
  /\ poller = AskingServer
  /\ wxQueue = NoQueue /\ wxWorker = NoWorker
  /\ unheard = {} /\ handlers = <<>> /\ handed = {}
  /\ allowed \in BOOLEAN /\ tokens = FALSE
  /\ wxMishaps = 0

WxMishap == wxMishaps < MaxWxMishaps /\ wxMishaps' = wxMishaps + 1

-----------------------------------------------------------------------------
(* The loop.                                                               *)

\* GetUpdates answers with the messages after the cursor, in order (sortMessagesForDispatch).
GetUpdates(k) ==
  /\ poller.at = "poll" /\ k \in (cursor.memory + 1)..WxMessages
  /\ poller' = [at |-> "queueing", rest |-> [i \in 1..(k - cursor.memory) |-> cursor.memory + i], upto |-> k]
  /\ unheard' = (cursor.memory + 1)..k
  /\ UNCHANGED <<cursor, wxQueue, wxWorker, handlers, handed, allowed, tokens, wxMishaps>>

\* recoverExpiredSession: the cursor is forgotten and the server sends again what it keeps.
SessionExpires ==
  /\ poller.at = "poll" /\ cursor.memory > 0 /\ WxMishap
  /\ cursor' = [memory |-> 0, disk |-> 0]
  /\ UNCHANGED <<poller, wxQueue, wxWorker, unheard, handlers, handed, allowed, tokens>>

\* enqueueQueuedMessage, the fast path: under the lock of the map, so that the queue cannot be removed meanwhile.
Enqueue ==
  /\ poller.at = "queueing" /\ poller.rest # <<>>
  /\ IF Len(wxQueue.items) < WxQueueCap \/ ~wxQueue.on
     THEN /\ wxQueue' = [on |-> TRUE, items |-> IF wxQueue.on THEN Append(wxQueue.items, Head(poller.rest)) ELSE <<Head(poller.rest)>>]
          /\ wxWorker' = IF wxQueue.on THEN wxWorker ELSE [NoWorker EXCEPT !.at = "idle"]
          /\ poller' = [poller EXCEPT !.rest = Tail(@)]
     ELSE poller' = [poller EXCEPT !.at = "full"] /\ UNCHANGED <<wxQueue, wxWorker>>
  /\ UNCHANGED <<cursor, unheard, handlers, handed, allowed, tokens, wxMishaps>>

\* The slow path: the lock is released; the queue may have been drained and removed before the message is in it.
EnqueueLate ==
  /\ poller.at = "full"
  /\ IF wxQueue.on
     THEN Len(wxQueue.items) < WxQueueCap /\ wxQueue' = [wxQueue EXCEPT !.items = Append(@, Head(poller.rest))]
     ELSE UNCHANGED wxQueue
  /\ poller' = [poller EXCEPT !.at = "queueing", !.rest = Tail(@)]
  /\ UNCHANGED <<cursor, wxWorker, unheard, handlers, handed, allowed, tokens, wxMishaps>>

\* processUpdateResponse: the cursor moves once every message of the answer was acknowledged.
AcksUncounted == TRUE   \* mutant: the cursor moves when everything is queued
AllHeard == unheard = {}

SaveCursor ==
  /\ poller.at = "queueing" /\ poller.rest = <<>> /\ AllHeard
  /\ \/ cursor' = [memory |-> poller.upto, disk |-> poller.upto] /\ UNCHANGED wxMishaps
     \/ cursor' = [cursor EXCEPT !.memory = poller.upto] /\ WxMishap
  /\ poller' = AskingServer
  /\ UNCHANGED <<wxQueue, wxWorker, unheard, handlers, handed, allowed, tokens>>

-----------------------------------------------------------------------------
(* The sender's queue.                                                     *)

Command(n) == n \in WxCommands

\* handleWeixinMessage: the calls start, and what they stand for is acknowledged.
Dispatches(batches, worker) ==
  /\ handlers' = handlers \o batches
  /\ handed' = handed \cup UNION {{batches[i][j] : j \in 1..Len(batches[i])} : i \in 1..Len(batches)}
  /\ unheard' = unheard \ UNION {{batches[i][j] : j \in 1..Len(batches[i])} : i \in 1..Len(batches)}
  /\ wxWorker' = worker

\* runMessageQueue takes the first message; a command goes out at once, a text opens the aggregation window.
TakeFirst ==
  /\ wxWorker.at = "idle" /\ wxQueue.items # <<>>
  /\ wxQueue' = [wxQueue EXCEPT !.items = Tail(@)]
  /\ IF Command(Head(wxQueue.items))
     THEN Dispatches(<<<<Head(wxQueue.items)>>>>, [at |-> "calls", batch |-> <<>>])
     ELSE /\ wxWorker' = [at |-> "window", batch |-> <<Head(wxQueue.items)>>]
          /\ UNCHANGED <<handlers, handed, unheard>>
  /\ UNCHANGED <<cursor, poller, allowed, tokens, wxMishaps>>

\* dispatchQueuedMessage: more texts join the batch, a command ends it and goes out beside it.
TakeMore ==
  /\ wxWorker.at = "window" /\ wxQueue.items # <<>>
  /\ wxQueue' = [wxQueue EXCEPT !.items = Tail(@)]
  /\ IF Command(Head(wxQueue.items))
     THEN Dispatches(<<wxWorker.batch, <<Head(wxQueue.items)>>>>, [at |-> "calls", batch |-> <<>>])
     ELSE /\ wxWorker' = [wxWorker EXCEPT !.batch = Append(@, Head(wxQueue.items))]
          /\ UNCHANGED <<handlers, handed, unheard>>
  /\ UNCHANGED <<cursor, poller, allowed, tokens, wxMishaps>>

WindowCloses ==
  /\ wxWorker.at = "window"
  /\ Dispatches(<<wxWorker.batch>>, [at |-> "calls", batch |-> <<>>])
  /\ UNCHANGED <<cursor, poller, wxQueue, allowed, tokens, wxMishaps>>

\* The handler: guardedDispatch refuses a sender who is not on the list, whose token is not kept either.
HandlerEnds(i) ==
  /\ i \in 1..Len(handlers)
  /\ handlers' = SubSeq(handlers, 1, i - 1) \o SubSeq(handlers, i + 1, Len(handlers))
  /\ tokens' = (tokens \/ allowed)
  /\ UNCHANGED <<cursor, poller, wxQueue, wxWorker, unheard, handed, allowed, wxMishaps>>

\* removeIdleMessageQueue: an empty queue is taken out of the map and its goroutine ends.
QueueIdle ==
  /\ wxWorker.at = "calls" /\ handlers = <<>>
  /\ IF wxQueue.items = <<>>
     THEN wxQueue' = NoQueue /\ wxWorker' = NoWorker
     ELSE wxWorker' = [wxWorker EXCEPT !.at = "idle"] /\ UNCHANGED wxQueue
  /\ UNCHANGED <<cursor, poller, unheard, handlers, handed, allowed, tokens, wxMishaps>>

-----------------------------------------------------------------------------
\* runWatchdog ends a loop that has heard nothing for five minutes, or the process exits; runPlatformWithRestart starts a new
\* monitor, which loads the cursor from the file.
MonitorRestarts(exits) ==
  /\ WxMishap
  /\ cursor' = [cursor EXCEPT !.memory = cursor.disk]
  /\ poller' = AskingServer /\ wxQueue' = NoQueue /\ wxWorker' = NoWorker /\ unheard' = {}
  /\ handlers' = IF exits THEN <<>> ELSE handlers
  /\ UNCHANGED <<handed, allowed, tokens>>

\* UpdateAccessForAccount
UpdateAccess ==
  /\ WxMishap /\ allowed' = ~allowed
  /\ UNCHANGED <<cursor, poller, wxQueue, wxWorker, unheard, handlers, handed, tokens>>

WeChatNext ==
  \/ \E k \in 1..WxMessages : GetUpdates(k)
  \/ SessionExpires \/ Enqueue \/ EnqueueLate \/ SaveCursor
  \/ TakeFirst \/ TakeMore \/ WindowCloses \/ QueueIdle
  \/ \E i \in 1..Len(handlers) : HandlerEnds(i)
  \/ \E exits \in BOOLEAN : MonitorRestarts(exits)
  \/ UpdateAccess

WeChatSpec == WeChatInit /\ [][WeChatNext]_wxVars

-----------------------------------------------------------------------------
\* The cursor never passes a message the handler was not given, although the answer is split over a full queue that is
\* drained and removed meanwhile, writes fail and the monitor is restarted in the middle.
CursorNeverSkips == \A n \in 1..cursor.memory : n \in handed
=============================================================================
