---------------------------- MODULE Interactions ----------------------------
(***************************************************************************)
(* Approvals and questions of one Codex thread.                            *)
(*                                                                         *)
(* The provider asks; the agent remembers the request, binds it to a       *)
(* broker and mails it to every front end of the thread                    *)
(* (agent/codex_turn_dispatch.go, turn_channel_registry.go,                *)
(* codex_interaction_broker.go).  A front end handles one event at a time: *)
(* it registers a pending approval in its window, shows a card, waits for  *)
(* a choice, a resolution, a timer, a detach or a cancel                   *)
(* (messaging/approvals.go, agent_interactions.go) and submits the         *)
(* decision through the broker.  A request is a model value; an option is  *)
(* "allow" or "deny".  Requests the Codex Desktop application projects,    *)
(* which carry a state probe, are not modelled.                            *)
(***************************************************************************)
EXTENDS Naturals, Sequences, FiniteSets, Functions

CONSTANTS
  Frontends,      \* watchers of the thread, each in a window of its own
  Owners,         \* the front ends that start turns; the others observe
  Requests,       \* server requests
  MaxTurns,       \* bound: turns of the thread
  MaxBrokers,     \* bound: brokers made for one request
  MaxFaults,      \* bound: failed sends, failed responses, cancels, detaches
  ModeUsers,      \* the windows whose user switches modes
  MaxModes        \* bound: /mode commands

Ended == "end"
NoRequest == "none"

ASSUME InteractionAssumption ==
  /\ IsFiniteSet(Requests) /\ Ended \notin Requests /\ NoRequest \notin Requests
  /\ Owners \subseteq Frontends /\ ModeUsers \subseteq Frontends
  /\ MaxTurns \in Nat \ {0} /\ MaxBrokers \in Nat \ {0}
  /\ MaxFaults \in Nat /\ MaxModes \in Nat

VARIABLES
  turn,        \* [n, running]: the thread's last turn
  req,         \* request -> [turn, kind, open, noticed]: the provider's view, and whether its end reached the agent
  remembered,  \* pendingTurnInteractions
  brokerOf,    \* turnInteractionBrokers: request -> broker number, 0 for none
  bound,       \* event.interactionBroker: request -> broker number
  broker,      \* request -> sequence of the states of the brokers made for it
  mail,        \* front end -> events not yet taken
  fe,          \* front end -> the state of its loop and handler
  yolo,        \* windows in yolo mode
  answers,     \* request -> answers written to the provider, as [decision, told, dead]
  revived,     \* requests remembered again after they were closed (history)
  faults, modes

vars == <<turn, req, remembered, brokerOf, bound, broker, mail, fe, yolo, answers, revived, faults, modes>>

Decisions == {"allow", "deny"}
NoChoice == "none"

\* A front end that handles nothing.
Resting == [stage |-> "idle", r |-> NoRequest, res |-> 0, resolved |-> FALSE, choice |-> NoChoice,
            decision |-> NoChoice, told |-> NoChoice, dead |-> FALSE]
Off == [stage |-> "off", target |-> 0, replay |-> {}, detached |-> FALSE, cancelled |-> FALSE,
        switching |-> FALSE, h |-> Resting]

Closed(s) == s \in {"resolved", "terminal"}
Registered == {"registered", "asking", "waiting"}
Approval(r) == req[r].kind = "approval"
On == {f \in Frontends : fe[f].stage # "off"}

-----------------------------------------------------------------------------
\* The agent's tables, as one record so that helpers compose.
Tables == [remembered |-> remembered, brokerOf |-> brokerOf, bound |-> bound, broker |-> broker, revived |-> revived]
SetTables(t) ==
  /\ remembered' = t.remembered /\ brokerOf' = t.brokerOf /\ bound' = t.bound
  /\ broker' = t.broker /\ revived' = t.revived

\* Requests the agent has closed: answered from here, or a broker of theirs ended.
Done(t, r) == answers[r] # <<>> \/ \E i \in DOMAIN t.broker[r] : Closed(t.broker[r][i])

\* Requests are remembered, each event bound to the broker of its key, a new one when there is none.
Remember(t, rs) ==
  LET fresh == {r \in rs : t.brokerOf[r] = 0}
      key(r) == IF r \in fresh THEN Len(t.broker[r]) + 1 ELSE t.brokerOf[r]
  IN [remembered |-> t.remembered \cup rs,
      brokerOf |-> [r \in Requests |-> IF r \in rs THEN key(r) ELSE t.brokerOf[r]],
      bound |-> [r \in Requests |-> IF r \in rs THEN key(r) ELSE t.bound[r]],
      broker |-> [r \in Requests |-> IF r \in fresh THEN Append(t.broker[r], "pending") ELSE t.broker[r]],
      revived |-> t.revived \cup {r \in rs : Done(t, r)}]

\* The request is forgotten, and its broker unless the key has another by now.
Forget(t, r) ==
  [t EXCEPT !.remembered = @ \ {r}, !.brokerOf[r] = IF @ = t.bound[r] THEN 0 ELSE @]

\* resolve: the first end of a broker stands.
Resolve(t, r, k, s) ==
  IF k = 0 \/ Closed(t.broker[r][k]) THEN t ELSE [t EXCEPT !.broker[r][k] = s]

\* resolveCodexInteraction: the broker the event is bound to now is resolved and the request forgotten.
ResolveAndForget(t, r, s) == Forget(Resolve(t, r, t.bound[r], s), r)

\* Interactions a front end did not answer go back to the table for the next one.
Abandon(t, rs) == Remember(t, rs)

\* The requests still in the mailbox or in the replay of a front end that leaves.
Drained(f) == (Range(mail[f]) \cup fe[f].replay) \cap Requests

RoomFor(rs) == \A r \in rs : brokerOf[r] # 0 \/ Len(broker[r]) < MaxBrokers

\* The loop of a front end ends: it is unregistered first and what it drains, and the request in hand, are abandoned.
Leave(f, t, rs) ==
  /\ RoomFor(rs)
  /\ SetTables(Abandon(t, rs))
  /\ fe' = [fe EXCEPT ![f] = [Off EXCEPT !.switching = fe[f].switching]]
  /\ mail' = [mail EXCEPT ![f] = <<>>]

\* The handler of a front end returns and its loop goes on.
Return(f, t) ==
  /\ SetTables(t)
  /\ fe' = [fe EXCEPT ![f].stage = "idle", ![f].h = Resting]
  /\ UNCHANGED mail

Fault == faults < MaxFaults /\ faults' = faults + 1

Init ==
  /\ turn = [n |-> 1, running |-> TRUE]
  /\ req = [r \in Requests |-> [turn |-> 0, kind |-> "approval", open |-> FALSE, noticed |-> FALSE]]
  /\ remembered = {} /\ revived = {}
  /\ brokerOf = [r \in Requests |-> 0] /\ bound = [r \in Requests |-> 0]
  /\ broker = [r \in Requests |-> <<>>]
  /\ mail = [f \in Frontends |-> <<>>]
  /\ fe = [f \in Frontends |-> Off]
  /\ yolo \in SUBSET ModeUsers
  /\ answers = [r \in Requests |-> <<>>]
  /\ faults = 0 /\ modes = 0

-----------------------------------------------------------------------------
(* The provider and what the read loop does with its messages.             *)

Post(e) == [f \in Frontends |-> IF f \in On THEN Append(mail[f], e) ELSE mail[f]]

\* A server request: remembered under its broker and mailed to the owner and every observer.
Ask(r, kind) ==
  /\ turn.running /\ req[r].turn = 0
  /\ req' = [req EXCEPT ![r] = [turn |-> turn.n, kind |-> kind, open |-> TRUE, noticed |-> FALSE]]
  /\ SetTables(Remember(Tables, {r}))
  /\ mail' = Post(r)
  /\ UNCHANGED <<turn, fe, yolo, answers, faults, modes>>

AskApproval(r) == Ask(r, "approval")
AskQuestion(r) == Ask(r, "question")

\* Another client of the host answers.
AnsweredElsewhere(r) ==
  /\ req[r].open
  /\ req' = [req EXCEPT ![r].open = FALSE]
  /\ UNCHANGED <<turn, remembered, brokerOf, bound, broker, mail, fe, yolo, answers, revived, faults, modes>>

\* serverRequest/resolved: only a remembered request is matched, forgotten and its broker resolved.
ServerRequestResolved(r) ==
  /\ req[r].turn # 0 /\ ~req[r].open /\ ~req[r].noticed
  /\ req' = [req EXCEPT ![r].noticed = TRUE]
  /\ IF r \in remembered
     THEN SetTables(ResolveAndForget(Tables, r, "resolved"))
     ELSE UNCHANGED <<remembered, brokerOf, bound, broker, revived>>
  /\ UNCHANGED <<turn, mail, fe, yolo, answers, faults, modes>>

\* The terminal of a turn closes every broker the tables hold of it before anyone is told.
SettleTurn(t, n) ==
  LET mine == {r \in Requests : req[r].turn = n /\ (r \in t.remembered \/ t.brokerOf[r] # 0)}
      held(r) == {t.brokerOf[r]} \cup (IF r \in t.remembered THEN {t.bound[r]} ELSE {})
  IN [t EXCEPT !.remembered = @ \ mine,
               !.brokerOf = [r \in Requests |-> IF r \in mine THEN 0 ELSE @[r]],
               !.broker = [r \in Requests |->
                  IF r \in mine
                  THEN [i \in DOMAIN @[r] |-> IF i \in held(r) /\ ~Closed(@[r][i]) THEN "terminal" ELSE @[r][i]]
                  ELSE @[r]]]

EndTurn ==
  /\ turn.running
  /\ turn' = [turn EXCEPT !.running = FALSE]
  /\ req' = [r \in Requests |-> IF req[r].turn = turn.n THEN [req[r] EXCEPT !.open = FALSE, !.noticed = TRUE] ELSE req[r]]
  /\ SetTables(SettleTurn(Tables, turn.n))
  /\ mail' = Post(Ended)
  /\ UNCHANGED <<fe, yolo, answers, faults, modes>>

StartTurn ==
  /\ ~turn.running /\ turn.n < MaxTurns
  /\ turn' = [n |-> turn.n + 1, running |-> TRUE]
  /\ UNCHANGED <<req, remembered, brokerOf, bound, broker, mail, fe, yolo, answers, revived, faults, modes>>

-----------------------------------------------------------------------------
(* Front ends come and go.                                                 *)

\* Registering takes the remembered requests under the lock and mails them after it; one owner at a time.
Attach(f) ==
  /\ fe[f].stage = "off" /\ turn.running
  /\ f \in Owners => On \cap Owners = {}
  /\ fe' = [fe EXCEPT ![f].stage = "replaying", ![f].target = turn.n, ![f].replay = remembered]
  /\ UNCHANGED <<turn, req, remembered, brokerOf, bound, broker, mail, yolo, answers, revived, faults, modes>>

Listed(rs) == CHOOSE s \in [1 .. Cardinality(rs) -> rs] : Range(s) = rs

ReplayPending(f) ==
  /\ fe[f].stage = "replaying"
  /\ mail' = [mail EXCEPT ![f] = @ \o Listed(fe[f].replay)]
  /\ fe' = [fe EXCEPT ![f].stage = "idle", ![f].replay = {}]
  /\ UNCHANGED <<turn, req, remembered, brokerOf, bound, broker, yolo, answers, revived, faults, modes>>

\* The window is released or the service drains: the lease is closed and waiting handlers see it.  (A mere switch
\* claims the lease only when nothing is in flight; it closes it in the same way.)
Detach(f) ==
  /\ f \in On /\ ~fe[f].detached /\ Fault
  /\ fe' = [fe EXCEPT ![f].detached = TRUE, ![f].cancelled = TRUE]
  /\ UNCHANGED <<turn, req, remembered, brokerOf, bound, broker, mail, yolo, answers, revived, modes>>

\* The task's context ends: /stop, a time limit, a lost runtime.
Cancel(f) ==
  /\ f \in On /\ ~fe[f].cancelled /\ Fault
  /\ fe' = [fe EXCEPT ![f].cancelled = TRUE]
  /\ UNCHANGED <<turn, req, remembered, brokerOf, bound, broker, mail, yolo, answers, revived, modes>>

\* An idle loop sees its context done, or a poll that finds its turn over.
LoopEnds(f) ==
  /\ fe[f].stage = "idle"
  /\ fe[f].cancelled \/ ~turn.running \/ turn.n # fe[f].target
  /\ Leave(f, Tables, Drained(f))
  /\ UNCHANGED <<turn, req, yolo, answers, faults, modes>>

TakeEnd(f) ==
  /\ fe[f].stage = "idle" /\ mail[f] # <<>> /\ Head(mail[f]) = Ended
  /\ Leave(f, Tables, Drained(f))
  /\ UNCHANGED <<turn, req, yolo, answers, faults, modes>>

\* An observer that meets a request of another turn gives it back and stops.
TakeForeign(f) ==
  /\ fe[f].stage = "idle" /\ mail[f] # <<>> /\ Head(mail[f]) \in Requests
  /\ f \notin Owners /\ req[Head(mail[f])].turn # fe[f].target
  /\ Leave(f, Tables, Drained(f))
  /\ UNCHANGED <<turn, req, yolo, answers, faults, modes>>

-----------------------------------------------------------------------------
(* One interaction in one window.                                          *)

\* The next event of an idle loop, when it is a request this front end handles.
Handles(f) ==
  /\ fe[f].stage = "idle" /\ mail[f] # <<>> /\ Head(mail[f]) \in Requests
  /\ f \in Owners \/ req[Head(mail[f])].turn = fe[f].target

\* lease.begin refuses a detached window: the request goes back and the loop ends.
TakeDetached(f) ==
  /\ Handles(f) /\ fe[f].detached
  /\ Leave(f, Tables, Drained(f))
  /\ UNCHANGED <<turn, req, yolo, answers, faults, modes>>

\* The mode is read: an approval in yolo mode is allowed without asking.
Take(f) ==
  /\ Handles(f) /\ ~fe[f].detached
  /\ LET r == Head(mail[f])
         auto == f \in yolo /\ Approval(r)
     IN fe' = [fe EXCEPT ![f].stage = "busy",
                 ![f].h = [Resting EXCEPT !.r = r, !.res = bound[r],
                             !.stage = IF auto THEN "submit" ELSE "checked",
                             !.decision = IF auto THEN "allow" ELSE NoChoice]]
  /\ mail' = [mail EXCEPT ![f] = Tail(@)]
  /\ UNCHANGED <<turn, req, remembered, brokerOf, bound, broker, yolo, answers, revived, faults, modes>>

\* The pending approval enters the map of the window: from here text, codes and /mode yolo find it.
Register(f) ==
  /\ fe[f].h.stage = "checked"
  /\ fe' = [fe EXCEPT ![f].h.stage = "registered"]
  /\ UNCHANGED <<turn, req, remembered, brokerOf, bound, broker, mail, yolo, answers, revived, faults, modes>>

\* Mutant: the mode is read only once.
FirstLookOnly(f) ==
  /\ fe[f].h.stage = "registered"
  /\ fe' = [fe EXCEPT ![f].h.stage = "asking"]
  /\ UNCHANGED <<turn, req, remembered, brokerOf, bound, broker, mail, yolo, answers, revived, faults, modes>>

\* The mode is read again, for a switch between the first read and the registration.
SecondLook(f) ==
  /\ fe[f].h.stage = "registered"
  /\ fe' = [fe EXCEPT ![f].h = IF f \in yolo /\ Approval(@.r)
                               THEN [@ EXCEPT !.stage = "submit", !.decision = "allow", !.resolved = TRUE]
                               ELSE [@ EXCEPT !.stage = "asking"]]
  /\ UNCHANGED <<turn, req, remembered, brokerOf, bound, broker, mail, yolo, answers, revived, faults, modes>>

\* The card is sent.
Asked(f) ==
  /\ fe[f].h.stage = "asking"
  /\ fe' = [fe EXCEPT ![f].h.stage = "waiting"]
  /\ UNCHANGED <<turn, req, remembered, brokerOf, bound, broker, mail, yolo, answers, revived, faults, modes>>

\* The card could not be sent: a choice that came in by text still counts for an approval, otherwise the request goes back.
AskFails(f) ==
  /\ fe[f].h.stage = "asking" /\ Fault
  /\ IF fe[f].h.choice # NoChoice /\ ~fe[f].detached /\ Approval(fe[f].h.r)
     THEN /\ fe' = [fe EXCEPT ![f].h.stage = "submit", ![f].h.decision = fe[f].h.choice]
          /\ UNCHANGED <<remembered, brokerOf, bound, broker, revived, mail>>
     ELSE Leave(f, Tables, {fe[f].h.r} \cup Drained(f))
  /\ UNCHANGED <<turn, req, yolo, answers, modes>>

-----------------------------------------------------------------------------
(* The select of waitForPendingApproval and waitForUserInputChoice.        *)

WaitChoice(f) ==
  /\ fe[f].h.stage = "waiting" /\ fe[f].h.choice # NoChoice
  /\ fe' = [fe EXCEPT ![f].h.stage = "submit", ![f].h.decision = fe[f].h.choice]
  /\ UNCHANGED <<turn, req, remembered, brokerOf, bound, broker, mail, yolo, answers, revived, faults, modes>>

\* The broker the handler was called with is closed: another front end answered or the turn ended.
WaitResolved(f) ==
  /\ fe[f].h.stage = "waiting"
  /\ LET r == fe[f].h.r IN
     /\ Closed(broker[r][fe[f].h.res])
     /\ Return(f, ResolveAndForget(Tables, r, broker[r][fe[f].h.res]))
  /\ UNCHANGED <<turn, req, yolo, answers, faults, modes>>

\* Five minutes: an approval nobody resolved is denied, a question fails and goes back.
WaitTimeout(f) ==
  /\ fe[f].h.stage = "waiting"
  /\ IF ~Approval(fe[f].h.r)
     THEN Leave(f, Tables, {fe[f].h.r} \cup Drained(f))
     ELSE /\ ~fe[f].h.resolved
          /\ fe' = [fe EXCEPT ![f].h.stage = "submit", ![f].h.decision = "deny", ![f].h.resolved = TRUE]
          /\ UNCHANGED <<remembered, brokerOf, bound, broker, revived, mail>>
  /\ UNCHANGED <<turn, req, yolo, answers, faults, modes>>

\* Detached or cancelled: nothing is sent, the request goes back.
WaitStopped(f) ==
  /\ fe[f].h.stage = "waiting" /\ fe[f].cancelled
  /\ Leave(f, Tables, {fe[f].h.r} \cup Drained(f))
  /\ UNCHANGED <<turn, req, yolo, answers, faults, modes>>

-----------------------------------------------------------------------------
(* The user: text, short codes and cards go through one compare-and-swap.  *)

\* deliverPendingApprovalChoice: the first to set "resolved" puts its choice in the channel and is told so.
Delivered(h, d) == [h EXCEPT !.resolved = TRUE, !.choice = d, !.told = d]
Open(f) == fe[f].h.stage \in Registered /\ ~fe[f].h.resolved

\* A text that matches the one open request of the window, /approve and /deny with its code, or a button of its card.
Answer(f, d) ==
  /\ Open(f)
  /\ fe' = [fe EXCEPT ![f].h = Delivered(@, d)]
  /\ UNCHANGED <<turn, req, remembered, brokerOf, bound, broker, mail, yolo, answers, revived, faults, modes>>

\* /mode yolo stores the mode; "switching" is the rest of the command.
ModeYolo(f) ==
  /\ f \in ModeUsers \ yolo /\ modes < MaxModes /\ modes' = modes + 1
  /\ yolo' = yolo \cup {f}
  /\ fe' = [fe EXCEPT ![f].switching = TRUE]
  /\ UNCHANGED <<turn, req, remembered, brokerOf, bound, broker, mail, answers, revived, faults>>

\* The approvals found pending are allowed; the card of one that is already shown is rewritten.
ResolveForYolo(f) ==
  /\ fe[f].switching
  /\ fe' = [fe EXCEPT ![f].switching = FALSE,
              ![f].h = IF Open(f) /\ Approval(@.r)
                       THEN [@ EXCEPT !.resolved = TRUE, !.choice = "allow"] ELSE @]
  /\ UNCHANGED <<turn, req, remembered, brokerOf, bound, broker, mail, yolo, answers, revived, faults, modes>>

ModeDefault(f) ==
  /\ f \in yolo /\ modes < MaxModes /\ ~fe[f].switching /\ modes' = modes + 1
  /\ yolo' = yolo \ {f}
  /\ UNCHANGED <<turn, req, remembered, brokerOf, bound, broker, mail, fe, answers, revived, faults>>

-----------------------------------------------------------------------------
(* Submitting through the broker the event is bound to at that moment.     *)

\* The broker is closed: someone else was first.
SubmitLate(f) ==
  /\ fe[f].h.stage = "submit" /\ Closed(broker[fe[f].h.r][bound[fe[f].h.r]])
  /\ Return(f, Tables)
  /\ UNCHANGED <<turn, req, yolo, answers, faults, modes>>

\* Another attempt is being sent and the context ends.
SubmitStopped(f) ==
  /\ fe[f].h.stage = "submit" /\ fe[f].cancelled
  /\ broker[fe[f].h.r][bound[fe[f].h.r]] = "submitting"
  /\ Leave(f, Tables, {fe[f].h.r} \cup Drained(f))
  /\ UNCHANGED <<turn, req, yolo, answers, faults, modes>>

\* Mutant: the broker does not wait for an attempt under way.
MaySubmitBesides(s) == s \in {"pending", "submitting"}

MaySubmit(s) == s = "pending"

SubmitBegin(f) ==
  /\ fe[f].h.stage = "submit"
  /\ LET r == fe[f].h.r IN
     /\ MaySubmit(broker[r][bound[r]])
     /\ broker' = [broker EXCEPT ![r][bound[r]] = "submitting"]
     /\ fe' = [fe EXCEPT ![f].h.stage = "responding", ![f].h.res = bound[r], ![f].h.dead = req[r].noticed]
  /\ UNCHANGED <<turn, req, remembered, brokerOf, bound, mail, yolo, answers, revived, faults, modes>>

\* The response is written; the responder forgets the request at once.
RespondWrite(f) ==
  /\ fe[f].h.stage = "responding"
  /\ LET h == fe[f].h IN
     /\ answers' = [answers EXCEPT ![h.r] = Append(@, [decision |-> h.decision, told |-> h.told, dead |-> h.dead])]
     /\ req' = [req EXCEPT ![h.r].open = FALSE]
     /\ SetTables(Forget(Tables, h.r))
     /\ fe' = [fe EXCEPT ![f].h.stage = "written"]
  /\ UNCHANGED <<turn, mail, yolo, faults, modes>>

RespondDone(f) ==
  /\ fe[f].h.stage = "written"
  /\ LET h == fe[f].h IN
     Return(f, Forget(IF broker[h.r][h.res] = "submitting" THEN Resolve(Tables, h.r, h.res, "resolved") ELSE Tables, h.r))
  /\ UNCHANGED <<turn, req, yolo, answers, faults, modes>>

\* The write fails: the broker is free again unless it was closed meanwhile, and the request goes back.
RespondFails(f) ==
  /\ fe[f].h.stage = "responding" /\ Fault
  /\ LET h == fe[f].h IN
     IF broker[h.r][h.res] = "submitting"
     THEN Leave(f, [Tables EXCEPT !.broker[h.r][h.res] = "pending"], {h.r} \cup Drained(f))
     ELSE Return(f, Tables)
  /\ UNCHANGED <<turn, req, yolo, answers, modes>>

-----------------------------------------------------------------------------
Provider == EndTurn \/ StartTurn \/ \E r \in Requests : AskApproval(r) \/ AskQuestion(r) \/ AnsweredElsewhere(r) \/ ServerRequestResolved(r)

Handling(f) ==
  \/ ReplayPending(f) \/ LoopEnds(f) \/ TakeEnd(f) \/ TakeForeign(f) \/ TakeDetached(f) \/ Take(f)
  \/ Register(f) \/ SecondLook(f) \/ Asked(f) \/ WaitChoice(f) \/ WaitResolved(f) \/ WaitStopped(f)
  \/ SubmitLate(f) \/ SubmitStopped(f) \/ SubmitBegin(f) \/ RespondWrite(f) \/ RespondDone(f)

Window(f) ==
  \/ Attach(f) \/ Detach(f) \/ Cancel(f) \/ AskFails(f) \/ RespondFails(f) \/ WaitTimeout(f)
  \/ ModeYolo(f) \/ ModeDefault(f) \/ ResolveForYolo(f)
  \/ \E d \in Decisions : Answer(f, d)

Next == Provider \/ \E f \in Frontends : Handling(f) \/ Window(f)

Spec == Init /\ [][Next]_vars

-----------------------------------------------------------------------------
(* Properties.                                                             *)

InteractionTypeOK ==
  /\ turn \in [n : 1 .. MaxTurns, running : BOOLEAN]
  /\ req \in [Requests -> [turn : 0 .. MaxTurns, kind : {"approval", "question"}, open : BOOLEAN, noticed : BOOLEAN]]
  /\ remembered \subseteq Requests /\ revived \subseteq Requests
  /\ brokerOf \in [Requests -> 0 .. MaxBrokers] /\ bound \in [Requests -> 0 .. MaxBrokers]
  /\ broker \in [Requests -> Seq({"pending", "submitting", "resolved", "terminal"})]
  /\ \A r \in Requests : Len(broker[r]) <= MaxBrokers /\ bound[r] <= Len(broker[r]) /\ brokerOf[r] \in {0, bound[r]}
  /\ yolo \subseteq Frontends

\* The provider is answered once from here, and never about a request whose end had reached the agent,
\* unless a front end gave the request back after it was closed: codexInteractionBroker.submit lets one
\* attempt through at a time and none after resolve.
AnsweredOnce ==
  \A r \in Requests : r \notin revived =>
    /\ Len(answers[r]) <= 1
    /\ \A i \in DOMAIN answers[r] : ~answers[r][i].dead

\* What the user was told was taken is what is sent: no timer, second window or failed card turns an accepted
\* choice into another one.  Only /mode yolo allows what was denied a moment before (approvals.go, second isYoloMode).
AcceptedIsSent ==
  \A r \in Requests : \A i \in DOMAIN answers[r] :
    LET a == answers[r][i] IN a.told # NoChoice => a.decision = a.told \/ (a.decision = "allow" /\ modes > 0)

\* One answer goes out, and it is the one that was taken (codexInteractionBroker.submit, waitForPendingApproval).
AnswersSound == AnsweredOnce /\ AcceptedIsSent

\* Once /mode yolo has finished, no approval of that window waits for a person: the handler reads the mode
\* again after it registered, so a switch between its two steps is seen by one side or the other.
YoloLeavesNoneWaiting ==
  \A f \in yolo : fe[f].switching \/ fe[f].h.stage \notin {"asking", "waiting"} \/ ~Approval(fe[f].h.r) \/ fe[f].h.resolved

\* A request that is closed in the agent stays closed: settleCodexTurnInteractionsLocked "closes every pending
\* request owned by the terminal turn before observers consume its final event".
ClosedStaysClosed == revived = {}
=============================================================================
