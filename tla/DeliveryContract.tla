-------------------------- MODULE DeliveryContract --------------------------
(***************************************************************************)
(* What the terminal outbox promises about a task's final result, without  *)
(* saying how: once a result has been accepted for delivery it stays owed  *)
(* until the chat platform has shown it, or the right to deliver it was    *)
(* withdrawn, or an operator lets a dead letter be evicted.  Delivery is    *)
(* at least once, so a result may be shown again.                          *)
(***************************************************************************)

CONSTANTS
  Ids,        \* delivery obligations, one per outbox entry
  Revocable   \* the obligations whose delivery right may be withdrawn

VARIABLES
  duty,  \* duty[i]: is the result of i owed, parked as a dead letter, or neither
  seen   \* seen[i]: the platform has shown the result of i

Duties == {"none", "owed", "dead"}

Init ==
  /\ duty = [i \in Ids |-> "none"]
  /\ seen = [i \in Ids |-> FALSE]

Accept(i)   == duty[i] = "none" /\ duty'[i] = "owed" /\ seen'[i] = seen[i]
Show(i)     == duty'[i] = duty[i] /\ seen'[i] = TRUE
Settle(i)   == duty[i] = "owed" /\ seen[i] /\ duty'[i] = "none" /\ seen'[i] = seen[i]
Withdraw(i) == i \in Revocable /\ duty[i] = "owed" /\ duty'[i] = "none" /\ seen'[i] = seen[i]
Bury(i)     == duty[i] = "owed" /\ duty'[i] = "dead" /\ seen'[i] = seen[i]
Redrive(i)  == duty[i] = "dead" /\ duty'[i] = "owed" /\ seen'[i] = seen[i]
Evict(i)    == duty[i] = "dead" /\ duty'[i] = "none" /\ seen'[i] = seen[i]
Rest(i)     == duty'[i] = duty[i] /\ seen'[i] = seen[i]

Move(i) ==
  \/ Rest(i) \/ Accept(i) \/ Show(i) \/ Settle(i) \/ Withdraw(i)
  \/ Bury(i) \/ Redrive(i) \/ Evict(i)

\* Obligations are independent: one step may move several of them (accepting a
\* result may evict somebody else's dead letter).
Next ==
  /\ duty' \in [Ids -> Duties]
  /\ seen' \in [Ids -> BOOLEAN]
  /\ \A i \in Ids : Move(i)

Spec == Init /\ [][Next]_<<duty, seen>>
=============================================================================
