--------------------------- MODULE CodexTurnsSafety ---------------------------
(***************************************************************************)
(* Proofs about the inputs of Codex threads: no input is in the history    *)
(* twice, the attempt record is true, selections are current, and an       *)
(* uncertain lease outlives its turn.                                      *)
(***************************************************************************)
EXTENDS CodexTurns, FiniteSetTheorems, TLAPS

--------------------
(* Types.                                                                  *)

TurnValues == {NoTurn} \cup (Threads \X Nat)
StateValues == [active : BOOLEAN, turn : TurnValues, last : TurnValues]
Bindings == [run : {"none", "weclaw", "conflict"}, gen : Nat, state : StateValues]
Leases == [who : Inputs \cup {"none"}, tries : Nat, gen : Nat, base : TurnValues, turn : TurnValues, uncertain : BOOLEAN]
TurnRecords == [items : Seq(Inputs), open : BOOLEAN]
Histories == [Threads -> Seq(TurnRecords)]
Requests == [input : Inputs, do : {"none", "start", "steer"}, thread : Threads, turn : TurnValues]
Answers == {NoAnswer} \cup [kind : {"ok"}, turn : TurnValues] \cup [kind : {"race"}]
Unsent == {"new", "read", "bind", "admit", "steer", "write", "wait", "reread", "again"}
Runs == [at : Unsent \cup {"sent", "confirm", "collect", "watch", "interrupted", "done"}, conv : Convs \cup {Nobody},
         thread : Threads \cup {NoThread}, tries : Nat, local : Nat, owner : Nat, life : Nat, seen : StateValues,
         held : Leases, base : TurnValues, count : Nat, do : {"none", "start", "steer"}, on : Threads \cup {NoThread},
         turn : TurnValues, status : {"none", "pending", "accepted", "rejected", "unconfirmed"}, gaveUp : BOOLEAN]
Intents == [conv : Convs, thread : Threads, local : Nat, owner : Nat, life : Nat]
Sightings == [thread : Threads, state : StateValues]

HostTypes ==
  /\ hist \in Histories
  /\ wire \subseteq Requests
  /\ answer \in [Inputs -> Answers]
BindTypes ==
  /\ sel \in [Convs -> Threads \cup {NoThread}] /\ route \in [Convs -> Threads \cup {NoThread}]
  /\ revision \in [Convs -> Nat] /\ ownerRevision \in [Convs -> Nat]
  /\ life \in [Threads -> [rev : Nat, archived : BOOLEAN]]
  /\ using \in [Convs -> {NoIntent} \cup Intents]
  /\ watching \in [Convs -> {NoIntent} \cup Sightings]
  /\ since \in [Convs -> SUBSET Threads]
LeaseTypes ==
  /\ bound \in [Threads -> Bindings]
  /\ lease \in [Threads -> Leases]
TurnTypes == HostTypes /\ BindTypes /\ LeaseTypes /\ input \in [Inputs -> Runs]

--------------------
(* What the proofs rest on.                                                *)

\* In history h input i is item k of turn n of thread t.
Has(h, t, n, k, i) == n \in DOMAIN h[t] /\ k \in DOMAIN h[t][n].items /\ h[t][n].items[k] = i
Unwritten(h, i) == \A t \in Threads : \A n, k : ~Has(h, t, n, k, i)
OnWire(w, i) == \E r \in w : r.input = i

\* A turn of the history, one that input i is in, and one that is over.
IsTurn(h, u) == u[1] \in Threads /\ u[2] \in DOMAIN h[u[1]] /\ u = <<u[1], u[2]>>
MaybeTurn(h, u) == u = NoTurn \/ IsTurn(h, u)
InTurn(h, u, i) == IsTurn(h, u) /\ \E k : Has(h, u[1], u[2], k, i)
Ended(h, u) == ~h[u[1]][u[2]].open

\* Only the last turn of a thread is in progress.
OneOpen == \A t \in Threads : \A n \in DOMAIN hist[t] : hist[t][n].open => n = Len(hist[t])

\* Whatever names a turn names one of the history.
RunKnown(h, run) ==
  MaybeTurn(h, run.seen.turn) /\ MaybeTurn(h, run.held.turn) /\ (run.do = "steer" => MaybeTurn(h, run.base))
TurnsKnown ==
  /\ \A t \in Threads : MaybeTurn(hist, lease[t].turn) /\ MaybeTurn(hist, bound[t].state.turn)
  /\ \A i \in Inputs : RunKnown(hist, input[i])
  /\ \A c \in Convs : watching[c] # NoIntent => MaybeTurn(hist, watching[c].state.turn)

\* An input that was not sent is nowhere; one whose request is on its way is not in the history yet; what the answer
\* and the attempt record say is so.
Fate(h, w, a, run, i) ==
  /\ run.at \in Unsent =>
       Unwritten(h, i) /\ ~OnWire(w, i) /\ a = NoAnswer /\ run.status \in {"none", "pending"} /\ ~run.gaveUp
  /\ run.at \in {"sent", "confirm"} => run.status \in {"none", "pending"} /\ ~run.gaveUp
  /\ run.at \in {"collect", "watch", "interrupted"} => run.status = "accepted"
  /\ OnWire(w, i) => Unwritten(h, i) /\ a = NoAnswer
  /\ a.kind = "race" => Unwritten(h, i)
  /\ a.kind = "ok" => InTurn(h, a.turn, i)
  /\ run.status = "accepted" => InTurn(h, run.turn, i)
  /\ run.status = "rejected" /\ ~run.gaveUp => Unwritten(h, i) /\ ~OnWire(w, i)
Fates == \A i \in Inputs : Fate(hist, wire, answer[i], input[i], i)

\* One request of an input at a time, and one place in the history.
OneRequest == \A r, s \in wire : r.input = s.input => r = s
OnePlace ==
  \A i \in Inputs : \A t, u \in Threads : \A n, m, k, l :
     Has(hist, t, n, k, i) /\ Has(hist, u, m, l, i) => t = u /\ n = m /\ k = l

\* A result that is current was asked for since the conversation was last cleared.
Wanted(n, rev, asked) ==
  /\ n.conv \in Convs /\ n.thread \in Threads
  /\ n.local <= rev[n.conv]
  /\ n.local = rev[n.conv] => n.thread \in asked[n.conv]
IntentsKnown ==
  /\ \A c \in Convs : using[c] # NoIntent => using[c].conv = c /\ Wanted(using[c], revision, since)
  /\ \A i \in Inputs : input[i].at \in {"read", "bind"} => Wanted(input[i], revision, since)
  /\ \A i \in Inputs : input[i].at \notin {"new", "done"} => input[i].thread \in Threads /\ input[i].conv \in Convs

\* Who has a lease started a turn on that thread, and an uncertain one is that of the turn it was given for.
Holding == {"write", "sent", "confirm", "collect", "watch", "interrupted"}
Accepted == {"collect", "watch", "interrupted"}
HeldBy(l, t, run) ==
  /\ run.thread = t /\ run.do = "start" /\ run.at \in Holding
  /\ run.at \in Accepted => l.turn = run.turn
  /\ l.uncertain => run.at = "interrupted"
LeasesKnown ==
  \A t \in Threads :
    /\ lease[t].who = "none" => lease[t] = NoWriter
    /\ lease[t].who # "none" => HeldBy(lease[t], t, input[lease[t].who])

\* An idle state that was read after a lease was met shows that the turn of the lease is over.
SeenRun(h, run) ==
  run.at = "bind" /\ run.held.turn # NoTurn /\ run.held.turn[1] = run.thread /\ ~run.seen.active => Ended(h, run.held.turn)
SeenOver == \A i \in Inputs : SeenRun(hist, input[i])

HostInv == HostTypes /\ input \in [Inputs -> Runs] /\ OneOpen /\ Fates /\ OneRequest /\ OnePlace
BindInv == BindTypes /\ IntentsKnown /\ SelectionsCurrent
LeaseInv == LeaseTypes /\ TurnsKnown /\ LeasesKnown /\ SeenOver
TurnInv == HostInv /\ BindInv /\ LeaseInv

--------------------
(* What the operators return.                                              *)

LEMMA NoTurnIsNone == NoTurn \in TurnValues /\ \A t, n : NoTurn # <<t, n>>
  BY DEF NoTurn, TurnValues

\* What a history of turns is made of.
LEMMA HistoryIs ==
  ASSUME NEW h \in Histories, NEW t \in Threads
  PROVE  /\ h[t] \in Seq(TurnRecords) /\ Len(h[t]) \in Nat /\ DOMAIN h[t] = 1..Len(h[t])
         /\ \A n \in DOMAIN h[t] : /\ h[t][n] \in TurnRecords /\ h[t][n].items \in Seq(Inputs)
                                   /\ h[t][n].open \in BOOLEAN /\ DOMAIN h[t][n].items = 1..Len(h[t][n].items)
                                   /\ Len(h[t][n].items) \in Nat
  <1>1. h[t] \in Seq(TurnRecords) BY DEF Histories
  <1>2. Len(h[t]) \in Nat /\ DOMAIN h[t] = 1..Len(h[t]) BY <1>1
  <1>3. \A n \in DOMAIN h[t] : h[t][n] \in TurnRecords BY <1>1
  <1>4. \A r \in TurnRecords : r.items \in Seq(Inputs) /\ r.open \in BOOLEAN BY DEF TurnRecords
  <1>5. \A q \in Seq(Inputs) : DOMAIN q = 1..Len(q) /\ Len(q) \in Nat OBVIOUS
  <1>. QED BY <1>1, <1>2, <1>3, <1>4, <1>5

LEMMA ConstantTypes ==
  /\ IdleState \in StateValues /\ IdleState.turn = NoTurn /\ ~IdleState.active
  /\ NoWriter \in Leases /\ NoWriter.turn = NoTurn /\ NoWriter.who = "none" /\ ~NoWriter.uncertain
  /\ FreshRun \in Runs
  BY TurnsAssumption, NoTurnIsNone DEF IdleState, StateValues, NoWriter, Leases, FreshRun, Runs, Unsent

\* thread/read: the last turn, which is the one in progress if there is one.
LEMMA ThreadStateIs ==
  ASSUME HostTypes, NEW t \in Threads
  PROVE  /\ ThreadState(t) \in StateValues
         /\ MaybeTurn(hist, ThreadState(t).turn) /\ MaybeTurn(hist, ThreadState(t).last)
         /\ ThreadState(t).active => /\ Len(hist[t]) > 0 /\ hist[t][Len(hist[t])].open
                                     /\ ThreadState(t).turn = <<t, Len(hist[t])>>
                                     /\ ThreadState(t).last = <<t, Len(hist[t])>>
         /\ ~ThreadState(t).active => Len(hist[t]) = 0 \/ ~hist[t][Len(hist[t])].open
         /\ Len(hist[t]) > 0 => ThreadState(t).last = <<t, Len(hist[t])>>
         /\ Len(hist[t]) = 0 => ThreadState(t).last = NoTurn
  <1>. DEFINE n == Len(hist[t])
  <1>1. n \in Nat /\ DOMAIN hist[t] = 1..n /\ \A m \in DOMAIN hist[t] : hist[t][m].open \in BOOLEAN
    BY HistoryIs DEF HostTypes
  <1>2. CASE n = 0 BY <1>2, ConstantTypes DEF ThreadState, MaybeTurn, IdleState
  <1>3. CASE n # 0
    <2>1. n \in DOMAIN hist[t] /\ hist[t][n].open \in BOOLEAN BY <1>1, <1>3
    <2>2. ThreadState(t) = [active |-> hist[t][n].open, turn |-> IF hist[t][n].open THEN <<t, n>> ELSE NoTurn,
                            last |-> <<t, n>>]
      BY <1>3 DEF ThreadState
    <2>. HIDE DEF n
    <2>3. <<t, n>> \in TurnValues BY <1>1 DEF TurnValues
    <2>4. IsTurn(hist, <<t, n>>) BY <2>1 DEF IsTurn
    <2>5. ThreadState(t) \in StateValues BY <2>1, <2>2, <2>3, NoTurnIsNone DEF StateValues
    <2>6. ThreadState(t).active = hist[t][n].open /\ ThreadState(t).last = <<t, n>>
          /\ ThreadState(t).turn = (IF hist[t][n].open THEN <<t, n>> ELSE NoTurn)
      BY <2>2
    <2>. QED BY <1>1, <1>3, <2>1, <2>4, <2>5, <2>6 DEF MaybeTurn, n
  <1>. QED BY <1>2, <1>3

\* countCodexInputDigest: positive exactly when the input is in the turn.
LEMMA CountIs ==
  ASSUME HostTypes, NEW u, MaybeTurn(hist, u), NEW i
  PROVE  /\ CountIn(u, i) \in Nat
         /\ u # NoTurn => (CountIn(u, i) > 0 <=> InTurn(hist, u, i))
  <1>. DEFINE S == {k \in DOMAIN ItemsOf(u) : ItemsOf(u)[k] = i}
  <1>1. IsFiniteSet(DOMAIN ItemsOf(u))
    <2>1. CASE u = NoTurn BY <2>1, FS_EmptySet DEF ItemsOf
    <2>2. CASE u # NoTurn
      <3>1. ItemsOf(u) = hist[u[1]][u[2]].items BY <2>2 DEF ItemsOf
      <3>2. ItemsOf(u) \in Seq(Inputs) BY <2>2, <3>1, HistoryIs DEF HostTypes, MaybeTurn, IsTurn
      <3>3. DOMAIN ItemsOf(u) = 1..Len(ItemsOf(u)) /\ Len(ItemsOf(u)) \in Nat BY <3>2
      <3>. QED BY <3>3, FS_Interval
    <2>. QED BY <2>1, <2>2
  <1>2. IsFiniteSet(S) BY <1>1, FS_Subset
  <1>3. CountIn(u, i) = Cardinality(S) BY DEF CountIn
  <1>4. Cardinality(S) \in Nat /\ (Cardinality(S) = 0 <=> S = {}) BY <1>2, FS_CardinalityType, FS_EmptySet
  <1>5. ASSUME u # NoTurn PROVE S # {} <=> InTurn(hist, u, i)
    BY <1>5 DEF MaybeTurn, ItemsOf, InTurn, IsTurn, Has
  <1>. HIDE DEF S
  <1>. QED BY <1>3, <1>4, <1>5
--------------------
(* The history only grows.                                                 *)

Grows(h, g) ==
  \A t \in Threads : \A n \in DOMAIN h[t] :
    /\ n \in DOMAIN g[t] /\ (g[t][n].open => h[t][n].open)
    /\ \A k \in DOMAIN h[t][n].items : k \in DOMAIN g[t][n].items /\ g[t][n].items[k] = h[t][n].items[k]
\* Nothing is in g that was not in h.
AddsNothing(h, g) == \A t \in Threads : \A n, k, j : Has(g, t, n, k, j) => Has(h, t, n, k, j)

LEMMA GrownTurns ==
  ASSUME NEW h, NEW g, Grows(h, g), NEW u
  PROVE  /\ IsTurn(h, u) => IsTurn(g, u)
         /\ MaybeTurn(h, u) => MaybeTurn(g, u)
         /\ IsTurn(h, u) /\ Ended(h, u) => Ended(g, u)
         /\ \A i : InTurn(h, u, i) => InTurn(g, u, i)
  BY DEF Grows, IsTurn, MaybeTurn, Ended, InTurn, Has

\* What an input that a step is not about keeps.
LEMMA FateKept ==
  ASSUME NEW h, NEW g, Grows(h, g), NEW w, NEW v, NEW a, NEW run, NEW j, Fate(h, w, a, run, j),
         \A t \in Threads : \A n, k : Has(g, t, n, k, j) => Has(h, t, n, k, j),
         OnWire(v, j) => OnWire(w, j)
  PROVE  Fate(g, v, a, run, j)
  <1>1. Unwritten(h, j) => Unwritten(g, j) BY DEF Unwritten
  <1>2. \A u : InTurn(h, u, j) => InTurn(g, u, j) BY GrownTurns
  <1>. QED BY <1>1, <1>2 DEF Fate

\* A turn at the end of a thread, an item at the end of a turn, and a turn that is closed.
TurnAdded(h, t, r) == [h EXCEPT ![t] = Append(@, r)]
ItemAdded(h, t, n, i) == [h EXCEPT ![t][n].items = Append(@, i)]
TurnOver(h, t, n) == [h EXCEPT ![t][n].open = FALSE]

\* turn/start, or the application: a turn at the end of a thread.
LEMMA TurnAppended ==
  ASSUME NEW h \in Histories, NEW t \in Threads, NEW r \in TurnRecords, NEW g, g = TurnAdded(h, t, r)
  PROVE  /\ g \in Histories
         /\ Grows(h, g)
         /\ \A s \in Threads \ {t} : g[s] = h[s]
         /\ Len(g[t]) = Len(h[t]) + 1 /\ g[t][Len(h[t]) + 1] = r
         /\ \A m \in DOMAIN h[t] : g[t][m] = h[t][m]
         /\ DOMAIN g[t] = DOMAIN h[t] \cup {Len(h[t]) + 1}
  <1>. DEFINE n == Len(h[t])
  <1>1. h[t] \in Seq(TurnRecords) /\ n \in Nat /\ DOMAIN h[t] = 1..n BY HistoryIs DEF Histories
  <1>2. g[t] = Append(h[t], r) /\ \A s \in Threads \ {t} : g[s] = h[s] BY DEF Histories, TurnAdded
  <1>3. Append(h[t], r) \in Seq(TurnRecords) BY <1>1
  <1>4. g \in Histories BY <1>2, <1>3 DEF Histories, TurnAdded
  <1>5. Len(g[t]) = n + 1 /\ DOMAIN g[t] = 1..(n + 1) /\ g[t][n + 1] = r BY <1>1, <1>2
  <1>6. \A m \in 1..n : g[t][m] = h[t][m] BY <1>1, <1>2
  <1>. HIDE DEF n
  <1>7. 1..(n + 1) = (1..n) \cup {n + 1} BY <1>1
  <1>8. Grows(h, g) BY <1>2, <1>1, <1>5, <1>6, <1>7 DEF Grows
  <1>. QED BY <1>1, <1>2, <1>4, <1>5, <1>6, <1>7, <1>8 DEF n

LEMMA ItemLast ==
  ASSUME NEW q \in Seq(Inputs), NEW i \in Inputs
  PROVE  /\ DOMAIN Append(q, i) = DOMAIN q \cup {Len(q) + 1} /\ Append(q, i)[Len(q) + 1] = i
         /\ \A l \in DOMAIN q : Append(q, i)[l] = q[l]
  <1>1. Len(q) \in Nat /\ DOMAIN q = 1..Len(q) OBVIOUS
  <1>2. DOMAIN Append(q, i) = 1..(Len(q) + 1) /\ Append(q, i)[Len(q) + 1] = i OBVIOUS
  <1>3. \A l \in 1..Len(q) : Append(q, i)[l] = q[l] OBVIOUS
  <1>. QED BY <1>1, <1>2, <1>3

\* turn/steer: an item at the end of the last turn.
LEMMA ItemAppended ==
  ASSUME NEW h \in Histories, NEW t \in Threads, NEW n \in DOMAIN h[t], NEW i \in Inputs,
         NEW g, g = ItemAdded(h, t, n, i)
  PROVE  /\ g \in Histories
         /\ Grows(h, g)
         /\ \A s \in Threads \ {t} : g[s] = h[s]
         /\ Len(g[t]) = Len(h[t]) /\ DOMAIN g[t] = DOMAIN h[t]
         /\ \A m \in DOMAIN h[t] : g[t][m].open = h[t][m].open
         /\ \A m \in DOMAIN h[t] \ {n} : g[t][m] = h[t][m]
         /\ g[t][n].items = Append(h[t][n].items, i)
  <1>. DEFINE q == h[t][n].items
              r == [h[t][n] EXCEPT !.items = Append(q, i)]
  <1>1. h[t] \in Seq(TurnRecords) /\ DOMAIN h[t] = 1..Len(h[t]) /\ Len(h[t]) \in Nat BY HistoryIs DEF Histories
  <1>2. h[t][n] \in TurnRecords /\ q \in Seq(Inputs) /\ h[t][n].open \in BOOLEAN
    BY HistoryIs DEF Histories
  <1>3. Append(q, i) \in Seq(Inputs) BY <1>2
  <1>4. r \in TurnRecords /\ r.items = Append(q, i) /\ r.open = h[t][n].open BY <1>2, <1>3 DEF TurnRecords
  <1>5. g = [h EXCEPT ![t] = [h[t] EXCEPT ![n] = r]] BY DEF ItemAdded
  <1>. HIDE DEF r
  <1>6. g[t] = [h[t] EXCEPT ![n] = r] /\ \A s \in Threads \ {t} : g[s] = h[s] BY <1>5 DEF Histories
  <1>7. [h[t] EXCEPT ![n] = r] \in Seq(TurnRecords) /\ Len([h[t] EXCEPT ![n] = r]) = Len(h[t]) BY <1>1, <1>4
  <1>8. g \in Histories BY <1>5, <1>7 DEF Histories
  <1>9. DOMAIN g[t] = DOMAIN h[t] /\ g[t][n] = r /\ \A m \in DOMAIN h[t] \ {n} : g[t][m] = h[t][m] BY <1>6, <1>1
  <1>10. \A k \in DOMAIN q : k \in DOMAIN r.items /\ r.items[k] = q[k] BY <1>2, <1>4
  <1>11. Grows(h, g) BY <1>6, <1>9, <1>4, <1>10 DEF Grows
  <1>. QED BY <1>4, <1>6, <1>7, <1>8, <1>9, <1>11

\* The end of a turn.
LEMMA TurnClosed ==
  ASSUME NEW h \in Histories, NEW t \in Threads, NEW n \in DOMAIN h[t], NEW g, g = TurnOver(h, t, n)
  PROVE  /\ g \in Histories
         /\ Grows(h, g)
         /\ AddsNothing(h, g)
         /\ \A s \in Threads : Len(g[s]) = Len(h[s]) /\ DOMAIN g[s] = DOMAIN h[s]
  <1>. DEFINE r == [h[t][n] EXCEPT !.open = FALSE]
  <1>1. h[t] \in Seq(TurnRecords) /\ DOMAIN h[t] = 1..Len(h[t]) /\ Len(h[t]) \in Nat BY HistoryIs DEF Histories
  <1>2. h[t][n] \in TurnRecords BY HistoryIs DEF Histories
  <1>4. r \in TurnRecords /\ r.items = h[t][n].items /\ ~r.open BY <1>2 DEF TurnRecords
  <1>5. g = [h EXCEPT ![t] = [h[t] EXCEPT ![n] = r]] BY DEF TurnOver
  <1>. HIDE DEF r
  <1>6. g[t] = [h[t] EXCEPT ![n] = r] /\ \A s \in Threads \ {t} : g[s] = h[s] BY <1>5 DEF Histories
  <1>7. [h[t] EXCEPT ![n] = r] \in Seq(TurnRecords) /\ Len([h[t] EXCEPT ![n] = r]) = Len(h[t]) BY <1>1, <1>4
  <1>8. g \in Histories BY <1>5, <1>7 DEF Histories
  <1>9. DOMAIN g[t] = DOMAIN h[t] /\ g[t][n] = r /\ \A m \in DOMAIN h[t] \ {n} : g[t][m] = h[t][m] BY <1>6, <1>1
  <1>10. Grows(h, g) /\ AddsNothing(h, g)
    <2>1. \A s \in Threads \ {t} : \A m \in DOMAIN h[s] : m \in DOMAIN g[s] /\ g[s][m] = h[s][m] BY <1>6
    <2>2. \A m \in DOMAIN h[t] \ {n} : m \in DOMAIN g[t] /\ g[t][m] = h[t][m] BY <1>9
    <2>3. Grows(h, g) BY <2>1, <2>2, <1>4, <1>9 DEF Grows
    <2>4. AddsNothing(h, g)
      <3>. SUFFICES ASSUME NEW s \in Threads, NEW m, NEW k, NEW j, Has(g, s, m, k, j) PROVE Has(h, s, m, k, j)
        BY DEF AddsNothing
      <3>1. CASE s # t BY <3>1, <1>6 DEF Has
      <3>2. CASE s = t /\ m # n BY <3>2, <1>9 DEF Has
      <3>3. CASE s = t /\ m = n BY <3>3, <1>4, <1>9 DEF Has
      <3>. QED BY <3>1, <3>2, <3>3
    <2>. QED BY <2>3, <2>4
  <1>. QED BY <1>6, <1>7, <1>8, <1>9, <1>10
--------------------
(* Steps of the app-server and the application.                            *)

\* The history has grown and nothing else that names a turn has changed.
LEMMA LeaseGrows ==
  ASSUME TurnInv, Grows(hist, hist'), UNCHANGED <<bound, lease, input, watching>>
  PROVE  LeaseInv'
  <1>1. \A u : MaybeTurn(hist, u) => MaybeTurn(hist', u) BY GrownTurns
  <1>2. \A u : IsTurn(hist, u) /\ Ended(hist, u) => Ended(hist', u) BY GrownTurns
  <1>3. LeaseTypes' BY DEF TurnInv, LeaseInv, LeaseTypes
  <1>4. TurnsKnown' BY <1>1 DEF TurnInv, LeaseInv, TurnsKnown, RunKnown
  <1>5. LeasesKnown' BY DEF TurnInv, LeaseInv, LeasesKnown
  <1>6. SeenOver' BY <1>2 DEF TurnInv, LeaseInv, SeenOver, SeenRun, TurnsKnown, RunKnown, MaybeTurn
  <1>. QED BY <1>3, <1>4, <1>5, <1>6 DEF LeaseInv

LEMMA BindUntouched ==
  ASSUME TurnInv, UNCHANGED <<bindVars, input>>
  PROVE  BindInv'
  BY DEF TurnInv, BindInv, BindTypes, IntentsKnown, SelectionsCurrent, bindVars

\* Nothing is added to the history, and requests only leave the wire.
LEMMA HostQuiet ==
  ASSUME TurnInv, hist' \in Histories, Grows(hist, hist'), AddsNothing(hist, hist'), OneOpen',
         wire' \subseteq wire, UNCHANGED <<answer, input>>
  PROVE  HostInv'
  <1>1. HostTypes' /\ input' \in [Inputs -> Runs] BY DEF TurnInv, HostInv, HostTypes
  <1>2. \A j \in Inputs : OnWire(wire', j) => OnWire(wire, j) BY DEF OnWire
  <1>3. Fates' BY <1>2, FateKept DEF TurnInv, HostInv, Fates, AddsNothing
  <1>4. OneRequest' BY DEF TurnInv, HostInv, OneRequest
  <1>5. OnePlace' BY DEF TurnInv, HostInv, OnePlace, AddsNothing
  <1>. QED BY <1>1, <1>3, <1>4, <1>5 DEF HostInv

\* Input i is in g at a place it was not in h, and nothing else is.
AddsOnly(h, g, t, n, k, i) ==
  /\ Has(g, t, n, k, i)
  /\ \A s \in Threads : \A m, l, j : Has(g, s, m, l, j) => Has(h, s, m, l, j) \/ (j = i /\ s = t /\ m = n /\ l = k)
Accepting(a, i, u) == [a EXCEPT ![i] = [kind |-> "ok", turn |-> u]]

\* The request of input i is taken: it is written to one new place.
LEMMA HostWrites ==
  ASSUME TurnInv, NEW r \in wire, NEW t \in Threads, NEW n, NEW k, hist' \in Histories, Grows(hist, hist'), OneOpen',
         wire' = wire \ {r}, UNCHANGED input,
         answer' = Accepting(answer, r.input, <<t, n>>), n \in Nat, AddsOnly(hist, hist', t, n, k, r.input)
  PROVE  HostInv'
  <1>. DEFINE i == r.input
  <1>1. r \in Requests /\ i \in Inputs BY DEF TurnInv, HostInv, HostTypes, Requests
  <1>2. OnWire(wire, i) BY DEF OnWire
  <1>3. Unwritten(hist, i) BY <1>1, <1>2 DEF TurnInv, HostInv, Fates, Fate
  <1>4. ~OnWire(wire', i) BY DEF OnWire, TurnInv, HostInv, OneRequest
  <1>5. /\ answer' \in [Inputs -> Answers] /\ answer'[i] = [kind |-> "ok", turn |-> <<t, n>>]
        /\ \A j \in Inputs \ {i} : answer'[j] = answer[j]
    BY <1>1 DEF TurnValues, Answers, TurnInv, HostInv, HostTypes, Accepting
  <1>6. HostTypes' /\ input' \in [Inputs -> Runs] BY <1>5 DEF TurnInv, HostInv, HostTypes
  <1>7. ASSUME NEW j \in Inputs \ {i} PROVE Fate(hist', wire', answer'[j], input'[j], j)
    BY FateKept, <1>5 DEF OnWire, TurnInv, HostInv, Fates, AddsOnly
  <1>8. Fate(hist', wire', answer'[i], input'[i], i)
    <2>1. Fate(hist, wire, answer[i], input[i], i) BY <1>1 DEF TurnInv, HostInv, Fates
    <2>2. input[i].at \notin Unsent BY <1>2, <2>1 DEF Fate
    <2>3. ~(input[i].status = "rejected" /\ ~input[i].gaveUp) BY <1>2, <2>1 DEF Fate
    <2>4. \A u : InTurn(hist, u, i) => InTurn(hist', u, i) BY GrownTurns
    <2>5. InTurn(hist', <<t, n>>, i) BY DEF InTurn, IsTurn, Has, AddsOnly
    <2>6. answer'[i].kind = "ok" /\ answer'[i].turn = <<t, n>> BY <1>5
    <2>. HIDE DEF i
    <2>. QED BY <1>4, <2>1, <2>2, <2>3, <2>4, <2>5, <2>6 DEF Fate
  <1>9. Fates' BY <1>7, <1>8 DEF Fates
  <1>10. OneRequest' BY DEF TurnInv, HostInv, OneRequest
  <1>11. OnePlace' BY <1>3 DEF TurnInv, HostInv, OnePlace, Unwritten, AddsOnly
  <1>. QED BY <1>6, <1>9, <1>10, <1>11 DEF HostInv

LEMMA TakesSafe ==
  ASSUME TurnInv, NEW r \in wire, Takes(r)
  PROVE  TurnInv'
  <1>. DEFINE t == r.thread
              i == r.input
              n == Len(hist[t])
              s == ThreadState(t)
  <1>1. r \in Requests /\ i \in Inputs /\ t \in Threads BY DEF TurnInv, HostInv, HostTypes, Requests
  <1>2. HostTypes /\ hist \in Histories BY DEF TurnInv, HostInv, HostTypes
  <1>3. n \in Nat /\ DOMAIN hist[t] = 1..n /\ \A m \in DOMAIN hist[t] : DOMAIN hist[t][m].items = 1..Len(hist[t][m].items)
    BY <1>1, <1>2, HistoryIs
  <1>4. wire' = wire \ {r} /\ UNCHANGED <<bindVars, bound, lease, input>> BY DEF Takes
  <1>5. watching' = watching BY <1>4 DEF bindVars
  <1>6. BindInv' BY <1>4, BindUntouched
  <1>7. OneOpen BY DEF TurnInv, HostInv
  <1>8. CASE r.do = "start" /\ ~s.active
    <2>. DEFINE new == [items |-> <<i>>, open |-> TRUE]
    <2>1. hist' = TurnAdded(hist, t, new) /\
          answer' = Accepting(answer, i, <<t, n + 1>>)
      BY <1>8 DEF Takes, TurnAdded, Accepting
    <2>2. new \in TurnRecords /\ new.items = <<i>> /\ DOMAIN new.items = {1} /\ new.items[1] = i
      BY <1>1 DEF TurnRecords
    <2>. HIDE DEF new
    <2>3. /\ hist' \in Histories
          /\ Grows(hist, hist')
          /\ \A q \in Threads \ {t} : hist'[q] = hist[q]
          /\ Len(hist'[t]) = n + 1 /\ hist'[t][n + 1] = new
          /\ \A m \in DOMAIN hist[t] : hist'[t][m] = hist[t][m]
          /\ DOMAIN hist'[t] = DOMAIN hist[t] \cup {n + 1}
      BY <1>1, <1>2, <2>1, <2>2, TurnAppended
    <2>4. Has(hist', t, n + 1, 1, i) BY <2>2, <2>3 DEF Has
    <2>a. \A q \in Threads : \A m, l, j : Has(hist', q, m, l, j) =>
             Has(hist, q, m, l, j) \/ (j = i /\ q = t /\ m = n + 1 /\ l = 1)
      BY <2>2, <2>3 DEF Has
    <2>5. AddsOnly(hist, hist', t, n + 1, 1, i) BY <2>4, <2>a DEF AddsOnly
    <2>6. n = 0 \/ ~hist[t][n].open BY <1>1, <1>2, <1>8, ThreadStateIs
    <2>7. OneOpen'
      <3>1. ASSUME NEW m \in DOMAIN hist[t] PROVE ~hist[t][m].open BY <1>1, <1>3, <1>7, <2>6 DEF OneOpen
      <3>2. \A m \in DOMAIN hist'[t] : hist'[t][m].open => m = Len(hist'[t]) BY <3>1, <2>3
      <3>. QED BY <1>7, <2>3, <3>2 DEF OneOpen
    <2>. HIDE DEF t, i, n
    <2>8. n + 1 \in Nat BY <1>3
    <2>9. HostInv' BY <1>1, <1>4, <2>1, <2>3, <2>5, <2>7, <2>8, HostWrites DEF i
    <2>. QED BY <1>4, <1>5, <1>6, <2>3, <2>9, LeaseGrows DEF TurnInv
  <1>9. CASE r.do = "steer" /\ s.active /\ s.turn = r.turn
    <2>1. hist' = ItemAdded(hist, t, n, i) /\
          answer' = Accepting(answer, i, r.turn)
      BY <1>9 DEF Takes, ItemAdded, Accepting
    <2>2. n \in DOMAIN hist[t] /\ r.turn = <<t, n>> BY <1>1, <1>2, <1>3, <1>9, ThreadStateIs
    <2>3. /\ hist' \in Histories
          /\ Grows(hist, hist')
          /\ \A q \in Threads \ {t} : hist'[q] = hist[q]
          /\ Len(hist'[t]) = Len(hist[t]) /\ DOMAIN hist'[t] = DOMAIN hist[t]
          /\ \A m \in DOMAIN hist[t] : hist'[t][m].open = hist[t][m].open
          /\ \A m \in DOMAIN hist[t] \ {n} : hist'[t][m] = hist[t][m]
          /\ hist'[t][n].items = Append(hist[t][n].items, i)
      <3>. HIDE DEF t, i, n
      <3>1. hist \in Histories /\ t \in Threads /\ n \in DOMAIN hist[t] /\ i \in Inputs BY <1>1, <1>2, <2>2
      <3>2. hist' = ItemAdded(hist, t, n, i) BY <2>1
      <3>. QED BY ONLY <3>1, <3>2, ItemAppended
    <2>. DEFINE old == hist[t][n].items
                l0 == Len(old) + 1
    <2>4. old \in Seq(Inputs) BY <1>1, <1>2, <2>2, HistoryIs
    <2>5. /\ DOMAIN Append(old, i) = DOMAIN old \cup {l0} /\ Append(old, i)[l0] = i
          /\ \A l \in DOMAIN old : Append(old, i)[l] = old[l]
      BY <2>4, <1>1, ItemLast
    <2>6. Has(hist', t, n, l0, i) BY <2>2, <2>3, <2>5 DEF Has
    <2>. HIDE DEF l0
    <2>7. ASSUME NEW q \in Threads, NEW m, NEW l, NEW j, Has(hist', q, m, l, j)
          PROVE  Has(hist, q, m, l, j) \/ (j = i /\ q = t /\ m = n /\ l = l0)
      BY <2>7, <2>3, <2>2, <2>5 DEF Has
    <2>8. OneOpen' BY <1>7, <2>3 DEF OneOpen
    <2>a. AddsOnly(hist, hist', t, n, l0, i) BY <2>6, <2>7 DEF AddsOnly
    <2>. HIDE DEF t, i, n, old
    <2>9. HostInv' BY <1>1, <1>3, <1>4, <2>1, <2>2, <2>3, <2>8, <2>a, HostWrites DEF i
    <2>. QED BY <1>4, <1>5, <1>6, <2>3, <2>9, LeaseGrows DEF TurnInv
  <1>10. CASE ~(r.do = "start" /\ ~s.active) /\ ~(r.do = "steer" /\ s.active /\ s.turn = r.turn)
    <2>1. hist' = hist /\ answer' = [answer EXCEPT ![i] = [kind |-> "race"]] BY <1>10 DEF Takes
    <2>2. OnWire(wire, i) BY DEF OnWire
    <2>3. ~OnWire(wire', i) BY <1>4 DEF OnWire, TurnInv, HostInv, OneRequest
    <2>4. [kind |-> "race"] \in Answers BY DEF Answers
    <2>5. /\ answer' \in [Inputs -> Answers] /\ answer'[i] = [kind |-> "race"]
          /\ \A j \in Inputs \ {i} : answer'[j] = answer[j]
      BY <1>1, <2>1, <2>4 DEF TurnInv, HostInv, HostTypes
    <2>6. HostTypes' /\ input' \in [Inputs -> Runs] BY <1>4, <2>1, <2>5 DEF TurnInv, HostInv, HostTypes
    <2>7. Grows(hist, hist') BY <2>1 DEF Grows
    <2>8. ASSUME NEW j \in Inputs \ {i} PROVE Fate(hist', wire', answer'[j], input'[j], j)
      BY <1>4, <2>1, <2>5 DEF OnWire, TurnInv, HostInv, Fates, Fate
    <2>9. Fate(hist', wire', answer'[i], input'[i], i)
      <3>1. Fate(hist, wire, answer[i], input[i], i) BY <1>1 DEF TurnInv, HostInv, Fates
      <3>2. answer'[i].kind = "race" BY <2>5
      <3>. HIDE DEF i
      <3>. QED BY <1>4, <2>1, <2>2, <2>3, <3>1, <3>2 DEF Fate
    <2>10. HostInv' BY <1>4, <1>7, <2>1, <2>6, <2>8, <2>9 DEF TurnInv, HostInv, Fates, OneRequest, OnePlace, OneOpen
    <2>. QED BY <1>4, <1>5, <1>6, <2>7, <2>10, LeaseGrows DEF TurnInv
  <1>. QED BY <1>8, <1>9, <1>10

LEMMA HistoryKept ==
  ASSUME hist' = hist
  PROVE  Grows(hist, hist') /\ AddsNothing(hist, hist')
  BY DEF Grows, AddsNothing

LEMMA WireDropsSafe ==
  ASSUME TurnInv, NEW r \in wire, WireDrops(r)
  PROVE  TurnInv'
  <1>1. hist' = hist /\ wire' \subseteq wire /\ UNCHANGED <<answer, bindVars, bound, lease, input>> BY DEF WireDrops
  <1>2. Grows(hist, hist') /\ AddsNothing(hist, hist') BY <1>1, HistoryKept
  <1>3. hist' \in Histories /\ OneOpen' BY <1>1 DEF TurnInv, HostInv, HostTypes, OneOpen
  <1>4. HostInv' BY <1>1, <1>2, <1>3, HostQuiet
  <1>5. watching' = watching BY <1>1 DEF bindVars
  <1>. QED BY <1>1, <1>2, <1>4, <1>5, BindUntouched, LeaseGrows DEF TurnInv

\* A turn of the history is closed.
LEMMA ClosedIs ==
  ASSUME TurnInv, NEW u, IsTurn(hist, u), hist' = Closed(u)
  PROVE  hist' \in Histories /\ Grows(hist, hist') /\ AddsNothing(hist, hist') /\ OneOpen'
  <1>1. u[1] \in Threads /\ u[2] \in DOMAIN hist[u[1]] BY DEF IsTurn
  <1>2. hist \in Histories BY DEF TurnInv, HostInv, HostTypes
  <1>3. hist' = TurnOver(hist, u[1], u[2]) BY DEF Closed, TurnOver
  <1>4. /\ hist' \in Histories /\ Grows(hist, hist') /\ AddsNothing(hist, hist')
        /\ \A s \in Threads : Len(hist'[s]) = Len(hist[s]) /\ DOMAIN hist'[s] = DOMAIN hist[s]
    BY <1>1, <1>2, <1>3, TurnClosed
  <1>. QED BY <1>4 DEF OneOpen, Grows, TurnInv, HostInv

LEMMA TurnEndsSafe ==
  ASSUME TurnInv, NEW t \in Threads, TurnEnds(t)
  PROVE  TurnInv'
  <1>1. UNCHANGED <<wire, answer, bindVars, bound, lease, input>> BY DEF TurnEnds
  <1>2. IsTurn(hist, ThreadState(t).last)
    BY ThreadStateIs, NoTurnIsNone DEF TurnEnds, TurnInv, HostInv, MaybeTurn
  <1>3. hist' = Closed(ThreadState(t).last) BY DEF TurnEnds
  <1>4. hist' \in Histories /\ Grows(hist, hist') /\ AddsNothing(hist, hist') /\ OneOpen' BY <1>2, <1>3, ClosedIs
  <1>5. HostInv' BY <1>1, <1>4, HostQuiet
  <1>6. watching' = watching BY <1>1 DEF bindVars
  <1>. QED BY <1>1, <1>4, <1>5, <1>6, BindUntouched, LeaseGrows DEF TurnInv

LEMMA AppStartsSafe ==
  ASSUME TurnInv, NEW t \in Threads, AppStarts(t)
  PROVE  TurnInv'
  <1>. DEFINE new == [items |-> <<>>, open |-> TRUE]
              n == Len(hist[t])
  <1>1. UNCHANGED <<wire, answer, bindVars, bound, lease, input>> BY DEF AppStarts
  <1>2. hist' = TurnAdded(hist, t, new) BY DEF AppStarts, TurnAdded
  <1>3. new \in TurnRecords /\ DOMAIN new.items = {} BY DEF TurnRecords
  <1>4. HostTypes /\ hist \in Histories BY DEF TurnInv, HostInv, HostTypes
  <1>. HIDE DEF new
  <1>5. /\ hist' \in Histories
        /\ Grows(hist, hist')
        /\ \A q \in Threads \ {t} : hist'[q] = hist[q]
        /\ Len(hist'[t]) = n + 1 /\ hist'[t][n + 1] = new
        /\ \A m \in DOMAIN hist[t] : hist'[t][m] = hist[t][m]
        /\ DOMAIN hist'[t] = DOMAIN hist[t] \cup {n + 1}
    BY <1>2, <1>3, <1>4, TurnAppended
  <1>6. AddsNothing(hist, hist') BY <1>3, <1>5 DEF AddsNothing, Has
  <1>7. n = 0 \/ ~hist[t][n].open BY <1>4, ThreadStateIs DEF AppStarts
  <1>8. n \in Nat /\ DOMAIN hist[t] = 1..n BY <1>4, HistoryIs
  <1>9. OneOpen' BY <1>7, <1>8, <1>5 DEF TurnInv, HostInv, OneOpen
  <1>10. HostInv' BY <1>1, <1>5, <1>6, <1>9, HostQuiet
  <1>11. watching' = watching BY <1>1 DEF bindVars
  <1>. QED BY <1>1, <1>5, <1>10, <1>11, BindUntouched, LeaseGrows DEF TurnInv
--------------------
(* Steps that touch neither the history nor an input.                      *)

GoodBinding(h, b) == b \in Bindings /\ MaybeTurn(h, b.state.turn)
GoodBound(h, f) == f \in [Threads -> Bindings] /\ \A t \in Threads : MaybeTurn(h, f[t].state.turn)
GoodState(h, s) == s \in StateValues /\ MaybeTurn(h, s.turn)

LEMMA BoundIsGood ==
  ASSUME TurnInv
  PROVE  GoodBound(hist, bound) /\ \A t \in Threads : GoodBinding(hist, bound[t])
  BY DEF TurnInv, LeaseInv, LeaseTypes, TurnsKnown, GoodBound, GoodBinding

LEMMA BoundBecomes ==
  ASSUME TurnInv, NEW t \in Threads, NEW b, GoodBinding(hist, b), bound' = [bound EXCEPT ![t] = b]
  PROVE  GoodBound(hist, bound')
  BY DEF TurnInv, LeaseInv, LeaseTypes, TurnsKnown, GoodBound, GoodBinding

NoBinding == [run |-> "none", gen |-> 0, state |-> IdleState]
LEMMA NoBindingIsGood == ASSUME NEW h PROVE GoodBinding(h, NoBinding)
  BY ConstantTypes DEF GoodBinding, NoBinding, Bindings, MaybeTurn

LEMMA ActivatedIsGood ==
  ASSUME NEW h, NEW b, GoodBinding(h, b), NEW s, GoodState(h, s)
  PROVE  GoodBinding(h, Activated(b, s)) /\ Activated(b, s).state = s
  BY DEF GoodBinding, GoodState, Activated, Bindings

LEMMA FollowsState ==
  ASSUME NEW h, NEW b, GoodBinding(h, b), NEW s, GoodState(h, s)
  PROVE  GoodBinding(h, [b EXCEPT !.state = s]) /\ [b EXCEPT !.state = s].state = s
  BY DEF GoodBinding, GoodState, Bindings

\* A binding whose state is active with turn u, or idle.
Showing(b, on, u) == [b EXCEPT !.state.active = on, !.state.turn = u]
LEMMA StateTurn ==
  ASSUME NEW h, NEW b, GoodBinding(h, b), NEW on \in BOOLEAN, NEW u, u \in TurnValues, MaybeTurn(h, u)
  PROVE  GoodBinding(h, Showing(b, on, u))
  <1>. DEFINE c == Showing(b, on, u)
  <1>1. b \in Bindings /\ b.state \in StateValues BY DEF GoodBinding, Bindings
  <1>2. c.run = b.run /\ c.gen = b.gen /\ c.state = [b.state EXCEPT !.active = on, !.turn = u] BY <1>1 DEF Bindings, Showing
  <1>3. c.state \in StateValues /\ c.state.turn = u BY <1>1, <1>2 DEF StateValues
  <1>4. c \in Bindings BY <1>1, <1>3 DEF Bindings, Showing
  <1>. QED BY <1>3, <1>4 DEF GoodBinding

LEMMA FinishedIsGood ==
  ASSUME NEW h, NEW b, GoodBinding(h, b), NEW l
  PROVE  GoodBinding(h, FinishedBinding(b, l))
  <1>1. GoodBinding(h, Showing(b, FALSE, NoTurn)) BY StateTurn, NoTurnIsNone DEF MaybeTurn
  <1>. QED BY <1>1 DEF FinishedBinding, Showing

LEMMA ReconciledIsGood ==
  ASSUME NEW h, NEW b, GoodBinding(h, b), NEW s, GoodState(h, s), NEW l \in Leases, MaybeTurn(h, l.turn)
  PROVE  GoodBinding(h, ReconciledBinding(b, l, s))
  <1>. DEFINE u == IF b.state.turn = NoTurn THEN l.turn ELSE b.state.turn
  <1>1. u \in TurnValues /\ MaybeTurn(h, u) BY DEF GoodBinding, Bindings, StateValues, Leases
  <1>2. CASE s.active \/ TerminalSeen(l, s) BY <1>2, FollowsState DEF ReconciledBinding
  <1>3. CASE ~(s.active \/ TerminalSeen(l, s))
    <2>1. ReconciledBinding(b, l, s) = Showing(b, TRUE, u) BY <1>3 DEF ReconciledBinding, Showing
    <2>. HIDE DEF u
    <2>. QED BY <1>1, <2>1, StateTurn
  <1>. QED BY <1>2, <1>3

LEMMA HostUntouched ==
  ASSUME TurnInv, UNCHANGED <<hostVars, input>>
  PROVE  HostInv'
  BY DEF TurnInv, HostInv, HostTypes, OneOpen, Fates, OneRequest, OnePlace, hostVars

LEMMA LeaseUntouched ==
  ASSUME TurnInv, UNCHANGED <<hist, input, lease>>, GoodBound(hist, bound'),
         \A c \in Convs : watching'[c] # NoIntent => MaybeTurn(hist, watching'[c].state.turn)
  PROVE  LeaseInv'
  <1>1. LeaseTypes' BY DEF TurnInv, LeaseInv, LeaseTypes, GoodBound
  <1>2. TurnsKnown' BY DEF TurnInv, LeaseInv, TurnsKnown, GoodBound
  <1>3. LeasesKnown' /\ SeenOver' BY DEF TurnInv, LeaseInv, LeasesKnown, SeenOver
  <1>. QED BY <1>1, <1>2, <1>3 DEF LeaseInv

\* A lease whose turn is no longer observed belongs to an interrupted input, and is of that input's turn.
LEMMA UncertainIs ==
  ASSUME TurnInv, NEW t \in Threads, lease[t].uncertain
  PROVE  /\ lease[t].who \in Inputs /\ lease[t] # NoWriter
         /\ input[lease[t].who].at = "interrupted" /\ input[lease[t].who].thread = t
         /\ lease[t].turn = input[lease[t].who].turn /\ IsTurn(hist, lease[t].turn) /\ lease[t].turn # NoTurn
  <1>1. lease[t] \in Leases BY DEF TurnInv, LeaseInv, LeaseTypes
  <1>2. lease[t].who \in Inputs /\ lease[t] # NoWriter
    BY <1>1, ConstantTypes DEF Leases, TurnInv, LeaseInv, LeasesKnown
  <1>3. HeldBy(lease[t], t, input[lease[t].who]) BY <1>2, TurnsAssumption DEF TurnInv, LeaseInv, LeasesKnown
  <1>4. input[lease[t].who].at = "interrupted" /\ lease[t].turn = input[lease[t].who].turn /\ input[lease[t].who].thread = t
    BY <1>3 DEF HeldBy, Accepted
  <1>5. IsTurn(hist, lease[t].turn) BY <1>2, <1>4 DEF TurnInv, HostInv, Fates, Fate, InTurn
  <1>. QED BY <1>2, <1>4, <1>5, NoTurnIsNone DEF IsTurn

\* So what a read says of it leaves it as it is, or releases it.
LEMMA LeaseReconciled ==
  ASSUME TurnInv, NEW t \in Threads, lease[t].uncertain, NEW s
  PROVE  ReconciledLease(lease[t], s) \in {lease[t], NoWriter}
  <1>1. lease[t].turn # NoTurn /\ lease[t] \in Leases BY UncertainIs DEF TurnInv, LeaseInv, LeaseTypes
  <1>2. [lease[t] EXCEPT !.turn = lease[t].turn] = lease[t] BY <1>1 DEF Leases
  <1>. QED BY <1>1, <1>2 DEF ReconciledLease
--------------------
(* Steps of the bindings.                                                  *)

\* A new intent: what was wanted before is so still, or is of an older revision.
LEMMA BeginsWants ==
  ASSUME TurnInv, NEW c \in Convs, NEW t \in Threads, Begins(c, t)
  PROVE  /\ revision' \in [Convs -> Nat] /\ ownerRevision' \in [Convs -> Nat] /\ since' \in [Convs -> SUBSET Threads]
         /\ \A d \in Convs : since[d] \subseteq since'[d]
         /\ \A n : n.local \in Nat /\ Wanted(n, revision, since) => Wanted(n, revision', since')
         /\ NewIntent(c, t) \in Intents /\ NewIntent(c, t).conv = c /\ Wanted(NewIntent(c, t), revision', since')
         /\ NewIntent(c, t).thread = t
  <1>1. /\ revision \in [Convs -> Nat] /\ ownerRevision \in [Convs -> Nat] /\ since \in [Convs -> SUBSET Threads]
        /\ life \in [Threads -> [rev : Nat, archived : BOOLEAN]]
    BY DEF TurnInv, BindInv, BindTypes
  <1>2. /\ revision' = [revision EXCEPT ![c] = @ + 1] /\ ownerRevision' = [ownerRevision EXCEPT ![c] = @ + 1]
        /\ since' = [since EXCEPT ![c] = @ \cup {t}]
    BY DEF Begins
  <1>3. revision'[c] = revision[c] + 1 /\ \A d \in Convs \ {c} : revision'[d] = revision[d] BY <1>1, <1>2
  <1>4. since'[c] = since[c] \cup {t} /\ \A d \in Convs \ {c} : since'[d] = since[d] BY <1>1, <1>2
  <1>5. revision' \in [Convs -> Nat] /\ ownerRevision' \in [Convs -> Nat] BY <1>1, <1>2
  <1>6. since' \in [Convs -> SUBSET Threads] /\ \A d \in Convs : since[d] \subseteq since'[d] BY <1>1, <1>2
  <1>7. ASSUME NEW n, n.local \in Nat, Wanted(n, revision, since) PROVE Wanted(n, revision', since')
    BY <1>1, <1>7, <1>3, <1>4 DEF Wanted
  <1>8. /\ NewIntent(c, t).conv = c /\ NewIntent(c, t).thread = t /\ NewIntent(c, t).local = revision[c] + 1
        /\ NewIntent(c, t) \in Intents
    BY <1>1 DEF NewIntent, Intents
  <1>9. Wanted(NewIntent(c, t), revision', since') BY <1>1, <1>3, <1>4, <1>8 DEF Wanted
  <1>. QED BY <1>5, <1>6, <1>7, <1>8, <1>9

LEMMA LocalsAreNumbers ==
  ASSUME TurnInv
  PROVE  /\ \A c \in Convs : using[c] # NoIntent => using[c].local \in Nat
         /\ \A i \in Inputs : input[i].local \in Nat
  BY DEF TurnInv, HostInv, BindInv, BindTypes, Intents, Runs

\* What is wanted stays wanted.
WantsKept == \A n : n.local \in Nat /\ Wanted(n, revision, since) => Wanted(n, revision', since')

LEMMA IntentsKept ==
  ASSUME TurnInv, WantsKept, UNCHANGED input,
         \A c \in Convs : using'[c] = NoIntent \/ using'[c] = using[c] \/ (using'[c].conv = c /\ Wanted(using'[c], revision', since'))
  PROVE  IntentsKnown'
  BY LocalsAreNumbers DEF TurnInv, BindInv, IntentsKnown, WantsKept

LEMMA UseBeginsSafe ==
  ASSUME TurnInv, NEW c \in Convs, NEW t \in Threads, UseBegins(c, t)
  PROVE  TurnInv'
  <1>1. /\ Begins(c, t) /\ using' = [using EXCEPT ![c] = NewIntent(c, t)]
        /\ UNCHANGED <<hostVars, sel, route, life, bound, lease, input, watching>>
    BY DEF UseBegins
  <1>2. HostInv' BY <1>1, HostUntouched
  <1>3. LeaseInv' BY <1>1, BoundIsGood, LeaseUntouched DEF hostVars, TurnInv, LeaseInv, TurnsKnown
  <1>4. WantsKept BY <1>1, BeginsWants DEF WantsKept
  <1>5. using \in [Convs -> {NoIntent} \cup Intents] BY DEF TurnInv, BindInv, BindTypes
  <1>6. NewIntent(c, t) \in Intents /\ NewIntent(c, t).conv = c /\ Wanted(NewIntent(c, t), revision', since')
    BY <1>1, BeginsWants
  <1>. DEFINE n == NewIntent(c, t)
  <1>. HIDE DEF n
  <1>7. /\ using' \in [Convs -> {NoIntent} \cup Intents] /\ using'[c] = n
        /\ \A d \in Convs \ {c} : using'[d] = using[d]
    BY <1>1, <1>5, <1>6 DEF n
  <1>8. IntentsKnown' BY <1>1, <1>4, <1>6, <1>7, IntentsKept DEF n
  <1>9. BindTypes' BY <1>1, <1>7, BeginsWants DEF TurnInv, BindInv, BindTypes
  <1>10. SelectionsCurrent' BY <1>1, BeginsWants DEF TurnInv, BindInv, SelectionsCurrent
  <1>. QED BY <1>2, <1>3, <1>8, <1>9, <1>10 DEF TurnInv, BindInv

\* The state a read returns, as a binding keeps it.
LEMMA ReadIsGood ==
  ASSUME TurnInv, NEW t \in Threads
  PROVE  GoodState(hist, ThreadState(t))
  BY ThreadStateIs DEF GoodState, TurnInv, HostInv

\* A result that is current is of a thread asked for since, and not archived.
LEMMA CurrentIs ==
  ASSUME TurnInv, NEW n, Wanted(n, revision, since), IntentCurrent(n)
  PROVE  n.thread \in since[n.conv] /\ ~life[n.thread].archived
  BY DEF Wanted, IntentCurrent

LEMMA SelectsCurrent ==
  ASSUME TurnInv, NEW c \in Convs, NEW t \in Threads, Selects(c, t), t \in since[c], ~life[t].archived,
         UNCHANGED <<since, life>>
  PROVE  SelectionsCurrent' /\ sel' \in [Convs -> Threads \cup {NoThread}] /\ route' \in [Convs -> Threads \cup {NoThread}]
  BY DEF TurnInv, BindInv, BindTypes, SelectionsCurrent, Selects

LEMMA UseCodexThreadSafe ==
  ASSUME TurnInv, NEW c \in Convs, UseCodexThread(c)
  PROVE  TurnInv'
  <1>. DEFINE n == using[c]
  <1>1. /\ n # NoIntent /\ using' = [using EXCEPT ![c] = NoIntent]
        /\ UNCHANGED <<hostVars, revision, ownerRevision, life, lease, input, watching, since>>
    BY DEF UseCodexThread
  <1>2. using \in [Convs -> {NoIntent} \cup Intents] BY DEF TurnInv, BindInv, BindTypes
  <1>3. n \in Intents /\ n.conv = c /\ n.thread \in Threads /\ Wanted(n, revision, since)
    BY <1>1, <1>2 DEF TurnInv, BindInv, IntentsKnown, Intents
  <1>4. /\ using' \in [Convs -> {NoIntent} \cup Intents]
        /\ \A d \in Convs : using'[d] = NoIntent \/ using'[d] = using[d]
    BY <1>1, <1>2
  <1>5. WantsKept BY <1>1 DEF WantsKept
  <1>6. IntentsKnown' BY <1>1, <1>4, <1>5, IntentsKept
  <1>7. HostInv' BY <1>1, HostUntouched
  <1>8. GoodBound(hist, bound') /\ SelectionsCurrent'
        /\ sel' \in [Convs -> Threads \cup {NoThread}] /\ route' \in [Convs -> Threads \cup {NoThread}]
    <2>1. CASE IntentCurrent(n)
      <3>1. Selects(c, n.thread) /\ bound' = [bound EXCEPT ![n.thread] = Activated(bound[n.thread], ThreadState(n.thread))]
        BY <2>1 DEF UseCodexThread
      <3>2. n.thread \in since[c] /\ ~life[n.thread].archived BY <1>3, <2>1, CurrentIs
      <3>. HIDE DEF n
      <3>3. GoodBinding(hist, Activated(bound[n.thread], ThreadState(n.thread)))
        BY <1>3, BoundIsGood, ReadIsGood, ActivatedIsGood
      <3>4. GoodBound(hist, bound') BY <1>3, <3>1, <3>3, BoundBecomes
      <3>. QED BY <1>1, <1>3, <3>1, <3>2, <3>4, SelectsCurrent
    <2>2. CASE ~IntentCurrent(n)
      BY <2>2, <1>1, BoundIsGood DEF UseCodexThread, TurnInv, BindInv, BindTypes, SelectionsCurrent
    <2>. QED BY <2>1, <2>2
  <1>9. LeaseInv' BY <1>1, <1>8, LeaseUntouched DEF hostVars, TurnInv, LeaseInv, TurnsKnown
  <1>10. BindTypes' BY <1>1, <1>4, <1>8 DEF TurnInv, BindInv, BindTypes
  <1>. QED BY <1>6, <1>7, <1>8, <1>9, <1>10 DEF TurnInv, BindInv

LEMMA ClearCodexThreadSafe ==
  ASSUME TurnInv, NEW c \in Convs, ClearCodexThread(c)
  PROVE  TurnInv'
  <1>1. /\ revision' = [revision EXCEPT ![c] = @ + 1] /\ ownerRevision' = [ownerRevision EXCEPT ![c] = @ + 1]
        /\ sel' = [sel EXCEPT ![c] = NoThread] /\ route' = [route EXCEPT ![c] = NoThread]
        /\ since' = [since EXCEPT ![c] = {}]
        /\ UNCHANGED <<hostVars, life, bound, lease, input, using, watching>>
    BY DEF ClearCodexThread, Selects
  <1>2. BindTypes BY DEF TurnInv, BindInv
  <1>3. HostInv' BY <1>1, HostUntouched
  <1>4. LeaseInv' BY <1>1, BoundIsGood, LeaseUntouched DEF hostVars, TurnInv, LeaseInv, TurnsKnown
  <1>5. BindTypes' BY <1>1, <1>2 DEF BindTypes
  <1>6. WantsKept
    <2>. SUFFICES ASSUME NEW n, n.local \in Nat, Wanted(n, revision, since) PROVE Wanted(n, revision', since')
      BY DEF WantsKept
    <2>1. n.conv \in Convs /\ n.thread \in Threads /\ n.local <= revision[n.conv] /\ revision[n.conv] \in Nat
      BY <1>2 DEF Wanted, BindTypes
    <2>2. CASE n.conv = c BY <1>1, <1>2, <2>1, <2>2 DEF BindTypes, Wanted
    <2>3. CASE n.conv # c BY <1>1, <1>2, <2>1, <2>3 DEF BindTypes, Wanted
    <2>. QED BY <2>2, <2>3
  <1>7. IntentsKnown' BY <1>1, <1>6, IntentsKept
  <1>8. SelectionsCurrent' BY <1>1, <1>2 DEF TurnInv, BindInv, BindTypes, SelectionsCurrent
  <1>. QED BY <1>3, <1>4, <1>5, <1>7, <1>8 DEF TurnInv, BindInv
LEMMA ForgetsSafe ==
  ASSUME TurnInv, NEW t \in Threads, Forgets(t), UNCHANGED <<hostVars, lease, input, using, watching, since>>
  PROVE  TurnInv'
  <1>1. BindTypes BY DEF TurnInv, BindInv
  <1>2. /\ life' = [life EXCEPT ![t] = [rev |-> life[t].rev + 1, archived |-> TRUE]]
        /\ sel' = [c \in Convs |-> IF sel[c] = t THEN NoThread ELSE sel[c]]
        /\ route' = [c \in Convs |-> IF route[c] = t THEN NoThread ELSE route[c]]
        /\ revision' = [c \in Convs |-> IF sel[c] = t THEN revision[c] + 1 ELSE revision[c]]
        /\ ownerRevision' = [c \in Convs |-> IF route[c] = t THEN ownerRevision[c] + 1 ELSE ownerRevision[c]]
    BY DEF Forgets
  <1>3. GoodBound(hist, bound')
    BY NoBindingIsGood, BoundBecomes, BoundIsGood DEF Forgets, NoBinding
  <1>4. HostInv' BY HostUntouched
  <1>5. LeaseInv' BY <1>3, LeaseUntouched DEF hostVars, TurnInv, LeaseInv, TurnsKnown
  <1>6. life[t].rev + 1 \in Nat BY <1>1 DEF BindTypes
  <1>7. BindTypes' BY <1>1, <1>2, <1>6 DEF BindTypes
  <1>8. WantsKept
    <2>. SUFFICES ASSUME NEW n, n.local \in Nat, Wanted(n, revision, since) PROVE Wanted(n, revision', since')
      BY DEF WantsKept
    <2>1. n.conv \in Convs /\ n.thread \in Threads /\ n.local <= revision[n.conv] /\ revision[n.conv] \in Nat
      BY <1>1 DEF Wanted, BindTypes
    <2>2. revision'[n.conv] \in {revision[n.conv], revision[n.conv] + 1} BY <1>2, <2>1
    <2>3. n.local <= revision'[n.conv] /\ (n.local = revision'[n.conv] => n.local = revision[n.conv]) BY <2>1, <2>2
    <2>. QED BY <2>1, <2>3 DEF Wanted
  <1>9. IntentsKnown' BY <1>8, IntentsKept
  <1>10. SelectionsCurrent'
    BY <1>1, <1>2 DEF BindTypes, TurnInv, BindInv, SelectionsCurrent
  <1>. QED BY <1>4, <1>5, <1>7, <1>9, <1>10 DEF TurnInv, BindInv

LEMMA ArchivesSafe ==
  ASSUME TurnInv, NEW t \in Threads, ArchiveCodexThread(t) \/ ThreadArchived(t)
  PROVE  TurnInv'
  BY ForgetsSafe DEF ArchiveCodexThread, ThreadArchived

LEMMA ThreadUnarchivedSafe ==
  ASSUME TurnInv, NEW t \in Threads, ThreadUnarchived(t)
  PROVE  TurnInv'
  <1>1. /\ life' = [life EXCEPT ![t] = [rev |-> life[t].rev + 1, archived |-> FALSE]]
        /\ UNCHANGED <<hostVars, sel, route, revision, ownerRevision, bound, lease, input, using, watching, since>>
    BY DEF ThreadUnarchived
  <1>2. BindTypes BY DEF TurnInv, BindInv
  <1>3. HostInv' BY <1>1, HostUntouched
  <1>4. LeaseInv' BY <1>1, BoundIsGood, LeaseUntouched DEF hostVars, TurnInv, LeaseInv, TurnsKnown
  <1>5. life[t].rev + 1 \in Nat BY <1>2 DEF BindTypes
  <1>6. life' \in [Threads -> [rev : Nat, archived : BOOLEAN]] BY <1>1, <1>2, <1>5 DEF BindTypes
  <1>7. BindTypes' BY <1>1, <1>2, <1>6 DEF BindTypes
  <1>8. IntentsKnown' BY <1>1 DEF TurnInv, BindInv, IntentsKnown
  <1>9. \A u \in Threads : life'[u].archived => life[u].archived BY <1>1, <1>2 DEF BindTypes
  <1>10. SelectionsCurrent' BY <1>1, <1>2, <1>9 DEF TurnInv, BindInv, BindTypes, SelectionsCurrent
  <1>. QED BY <1>3, <1>4, <1>7, <1>8, <1>10 DEF TurnInv, BindInv

LEMMA ObserverReadsSafe ==
  ASSUME TurnInv, NEW c \in Convs, NEW t \in Threads, ObserverReads(c, t)
  PROVE  TurnInv'
  <1>. DEFINE w == [thread |-> t, state |-> ThreadState(t)]
  <1>1. /\ watching' = [watching EXCEPT ![c] = w]
        /\ UNCHANGED <<hostVars, sel, route, revision, ownerRevision, life, bound, lease, input, using, since>>
    BY DEF ObserverReads
  <1>2. BindTypes BY DEF TurnInv, BindInv
  <1>3. w \in Sightings /\ MaybeTurn(hist, w.state.turn) BY ReadIsGood DEF GoodState, Sightings
  <1>. HIDE DEF w
  <1>4. HostInv' BY <1>1, HostUntouched
  <1>5. watching' \in [Convs -> {NoIntent} \cup Sightings] BY <1>1, <1>2, <1>3 DEF BindTypes
  <1>6. \A d \in Convs : watching'[d] # NoIntent => MaybeTurn(hist, watching'[d].state.turn)
    BY <1>1, <1>2, <1>3 DEF BindTypes, TurnInv, LeaseInv, TurnsKnown
  <1>7. LeaseInv' BY <1>1, <1>6, BoundIsGood, LeaseUntouched DEF hostVars
  <1>8. BindTypes' BY <1>1, <1>2, <1>5 DEF BindTypes
  <1>9. IntentsKnown' /\ SelectionsCurrent' BY <1>1 DEF TurnInv, BindInv, IntentsKnown, SelectionsCurrent
  <1>. QED BY <1>4, <1>7, <1>8, <1>9 DEF TurnInv, BindInv
LEMMA ObserverReportsSafe ==
  ASSUME TurnInv, NEW c \in Convs, ObserverReports(c)
  PROVE  TurnInv'
  <1>. DEFINE w == watching[c]
              t == w.thread
              s == w.state
              b == bound[t]
              l == lease[t]
              uncertain == l # NoWriter /\ l.uncertain
              left == IF uncertain THEN ReconciledLease(l, s) ELSE l
              settled == IF uncertain THEN ReconciledBinding(b, l, s) ELSE b
  <1>1. /\ w # NoIntent /\ watching' = [watching EXCEPT ![c] = NoIntent]
        /\ UNCHANGED <<hostVars, sel, life, input, using>>
    BY DEF ObserverReports
  <1>2. BindTypes BY DEF TurnInv, BindInv
  <1>3. w \in Sightings /\ t \in Threads /\ GoodState(hist, s)
    BY <1>1, <1>2 DEF BindTypes, Sightings, TurnInv, LeaseInv, TurnsKnown, GoodState
  <1>4. /\ watching' \in [Convs -> {NoIntent} \cup Sightings]
        /\ \A d \in Convs : watching'[d] # NoIntent => watching'[d] = watching[d]
    BY <1>1, <1>2 DEF BindTypes
  <1>5. HostInv' BY <1>1, HostUntouched
  <1>6. left \in {l, NoWriter} BY <1>3, LeaseReconciled
  <1>7. GoodBinding(hist, settled)
    BY <1>3, BoundIsGood, ReconciledIsGood DEF TurnInv, LeaseInv, LeaseTypes, TurnsKnown
  <1>8. CASE ~ObservedIntent(c, t)
    BY <1>8, <1>1, <1>4, BoundIsGood, LeaseUntouched, <1>2, <1>5 DEF ObserverReports, hostVars, TurnInv, LeaseInv, TurnsKnown,
       BindTypes, BindInv, IntentsKnown, SelectionsCurrent
  <1>9. CASE ObservedIntent(c, t)
    <2>1. /\ IF FirstSeen(c, t) THEN Begins(c, t) ELSE UNCHANGED <<revision, ownerRevision, since>>
          /\ lease' = [lease EXCEPT ![t] = left]
      BY <1>9 DEF ObserverReports
    <2>2. PICK nb : /\ bound' = [bound EXCEPT ![t] = nb]
                    /\ \/ nb = settled
                       \/ nb = [settled EXCEPT !.run = "conflict", !.gen = settled.gen + 1]
                       \/ nb = [settled EXCEPT !.state = s]
      BY <1>9 DEF ObserverReports
    <2>3. route' = route \/ route' = [route EXCEPT ![c] = t] BY <1>9 DEF ObserverReports
    <2>. HIDE DEF settled, left, s
    <2>4. GoodBinding(hist, nb)
      <3>1. CASE nb = settled BY <1>7, <3>1
      <3>2. CASE nb = [settled EXCEPT !.run = "conflict", !.gen = settled.gen + 1]
        <4>1. settled \in Bindings /\ settled.gen \in Nat BY <1>7 DEF GoodBinding, Bindings
        <4>2. settled.gen + 1 \in Nat BY <4>1
        <4>3. nb \in Bindings /\ nb.state = settled.state BY <3>2, <4>1, <4>2 DEF Bindings
        <4>. QED BY <1>7, <4>3 DEF GoodBinding
      <3>3. CASE nb = [settled EXCEPT !.state = s] BY <1>3, <1>7, <3>3, FollowsState
      <3>. QED BY <2>2, <3>1, <3>2, <3>3
    <2>. HIDE DEF t
    <2>5. GoodBound(hist, bound') BY <1>3, <2>2, <2>4, BoundBecomes
    <2>6. /\ WantsKept /\ revision' \in [Convs -> Nat] /\ ownerRevision' \in [Convs -> Nat]
          /\ since' \in [Convs -> SUBSET Threads] /\ \A d \in Convs : since[d] \subseteq since'[d]
      BY <1>3, <2>1, BeginsWants, <1>2 DEF WantsKept, BindTypes
    <2>7. t \in since'[c] \/ route[c] = t
      BY <1>2, <1>3, <2>1, <1>9 DEF Begins, BindTypes, ObservedIntent
    <2>8. route' \in [Convs -> Threads \cup {NoThread}] /\ \A d \in Convs : route'[d] = route[d] \/ (d = c /\ route'[d] = t)
      BY <1>2, <1>3, <2>3 DEF BindTypes
    <2>9. BindTypes' BY <1>1, <1>2, <1>4, <2>6, <2>8 DEF BindTypes
    <2>10. IntentsKnown' BY <1>1, <2>6, IntentsKept
    <2>11. SelectionsCurrent'
      BY <1>9, <2>6, <1>1, <2>8, <2>7 DEF TurnInv, BindInv, ObservedIntent, SelectionsCurrent
    <2>12. LeaseInv'
      BY <1>3, <1>6, ConstantTypes, <2>1, <2>5, <1>1, <1>4 DEF TurnInv, LeaseInv, LeaseTypes, TurnsKnown, MaybeTurn, GoodBound,
         hostVars, LeasesKnown, SeenOver
    <2>. QED BY <1>4, <1>5, <2>9, <2>10, <2>11, <2>12 DEF TurnInv, BindInv
  <1>. QED BY <1>8, <1>9
--------------------
(* Steps of an input.                                                      *)

LEMMA GoesIs ==
  ASSUME TurnInv, NEW i \in Inputs, NEW run \in Runs, Goes(i, run)
  PROVE  /\ input' \in [Inputs -> Runs] /\ input'[i] = run /\ \A j \in Inputs \ {i} : input'[j] = input[j]
         /\ input[i] \in Runs
  BY DEF TurnInv, HostInv, Goes

\* The host's side of a step of input i: the others' fates stay.
LEMMA InputHost ==
  ASSUME TurnInv, NEW i \in Inputs, NEW run \in Runs, Goes(i, run), hist' \in Histories, Grows(hist, hist'),
         AddsNothing(hist, hist'), OneOpen', wire' \subseteq Requests, OneRequest',
         \A j \in Inputs \ {i} : OnWire(wire', j) => OnWire(wire, j),
         answer' \in [Inputs -> Answers], \A j \in Inputs \ {i} : answer'[j] = answer[j],
         Fate(hist', wire', answer'[i], run, i)
  PROVE  HostInv'
  <1>1. input' \in [Inputs -> Runs] /\ input'[i] = run /\ \A j \in Inputs \ {i} : input'[j] = input[j] BY GoesIs
  <1>2. ASSUME NEW j \in Inputs \ {i} PROVE Fate(hist', wire', answer'[j], input'[j], j)
    BY FateKept, <1>1 DEF TurnInv, HostInv, Fates, AddsNothing
  <1>3. Fates' BY <1>1, <1>2 DEF Fates
  <1>4. OnePlace' BY DEF TurnInv, HostInv, OnePlace, AddsNothing
  <1>5. HostTypes' BY DEF HostTypes
  <1>. QED BY <1>1, <1>3, <1>4, <1>5 DEF HostInv

\* The same for a step that leaves the history and the wire alone, with or without taking the answer.
LEMMA InputOnly ==
  ASSUME TurnInv, NEW i \in Inputs, NEW run \in Runs, Goes(i, run), UNCHANGED <<hist, wire>>,
         answer' = answer \/ Consumed(i), Fate(hist, wire, answer'[i], run, i)
  PROVE  HostInv'
  <1>1. Grows(hist, hist') /\ AddsNothing(hist, hist') BY HistoryKept
  <1>2. NoAnswer \in Answers BY DEF Answers
  <1>3. answer' \in [Inputs -> Answers] /\ \A j \in Inputs \ {i} : answer'[j] = answer[j]
    BY <1>2 DEF TurnInv, HostInv, HostTypes, Consumed
  <1>4. hist' \in Histories /\ OneOpen' /\ wire' \subseteq Requests /\ OneRequest'
    BY DEF TurnInv, HostInv, HostTypes, OneOpen, OneRequest
  <1>. QED BY <1>1, <1>3, <1>4, InputHost

\* The bindings' side.
Placed(run, rev, asked) ==
  /\ run.at \in {"read", "bind"} => Wanted(run, rev, asked)
  /\ run.at \notin {"new", "done"} => run.thread \in Threads /\ run.conv \in Convs

LEMMA InputBind ==
  ASSUME TurnInv, NEW i \in Inputs, NEW run \in Runs, Goes(i, run), UNCHANGED bindVars, Placed(run, revision, since)
  PROVE  BindInv'
  <1>1. input'[i] = run /\ \A j \in Inputs \ {i} : input'[j] = input[j] BY GoesIs
  <1>2. BindTypes' /\ SelectionsCurrent' BY DEF TurnInv, BindInv, BindTypes, SelectionsCurrent, bindVars
  <1>3. UNCHANGED <<revision, since, using>> BY DEF bindVars
  <1>4. IntentsKnown' BY <1>1, <1>3 DEF TurnInv, BindInv, IntentsKnown, Placed
  <1>. QED BY <1>2, <1>4 DEF BindInv

\* The leases' side: every lease is nobody's, or that of an input that holds it after the step.
LeaseFits(l, t, i, run) ==
  /\ l \in Leases /\ MaybeTurn(hist, l.turn)
  /\ l.who = "none" => l = NoWriter
  /\ l.who = i => HeldBy(l, t, run)
  /\ l.who \notin {"none", i} => HeldBy(l, t, input[l.who])

LEMMA InputLease ==
  ASSUME TurnInv, NEW i \in Inputs, NEW run \in Runs, Goes(i, run), Grows(hist, hist'), UNCHANGED watching,
         GoodBound(hist, bound'), lease' \in [Threads -> Leases], \A t \in Threads : LeaseFits(lease'[t], t, i, run),
         RunKnown(hist, run), SeenRun(hist, run)
  PROVE  LeaseInv'
  <1>1. input'[i] = run /\ \A j \in Inputs \ {i} : input'[j] = input[j] BY GoesIs
  <1>2. \A u : MaybeTurn(hist, u) => MaybeTurn(hist', u) BY GrownTurns
  <1>3. \A u : MaybeTurn(hist, u) /\ u # NoTurn /\ Ended(hist, u) => Ended(hist', u) BY GrownTurns DEF MaybeTurn
  <1>4. LeaseTypes' BY DEF LeaseTypes, GoodBound
  <1>5. TurnsKnown'
    BY <1>2, <1>1 DEF LeaseFits, GoodBound, TurnInv, LeaseInv, TurnsKnown, RunKnown
  <1>6. LeasesKnown'
    <2>. SUFFICES ASSUME NEW t \in Threads
                  PROVE  /\ lease'[t].who = "none" => lease'[t] = NoWriter
                         /\ lease'[t].who # "none" => HeldBy(lease'[t], t, input'[lease'[t].who])
      BY DEF LeasesKnown
    <2>1. LeaseFits(lease'[t], t, i, run) OBVIOUS
    <2>2. lease'[t].who \in Inputs \cup {"none"} BY <2>1 DEF LeaseFits, Leases
    <2>. QED BY <1>1, <2>1, <2>2, TurnsAssumption DEF LeaseFits
  <1>7. SeenOver'
    BY <1>1, <1>3 DEF TurnInv, LeaseInv, SeenOver, TurnsKnown, SeenRun, RunKnown
  <1>. QED BY <1>4, <1>5, <1>6, <1>7 DEF LeaseInv

\* The leases of a step that changes none, when input i has none or keeps what it holds.
Keeps(run, old) ==
  /\ run.thread = old.thread /\ run.do = old.do /\ run.at \in Holding /\ (run.at \in Accepted => old.at \in Accepted)
  /\ run.turn = old.turn /\ old.at # "interrupted"
LEMMA LeasesFit ==
  ASSUME TurnInv, NEW i \in Inputs, NEW run,
         input[i].at \notin Holding \/ input[i].do # "start" \/ Keeps(run, input[i])
  PROVE  lease \in [Threads -> Leases] /\ \A t \in Threads : LeaseFits(lease[t], t, i, run)
  <1>1. lease \in [Threads -> Leases] BY DEF TurnInv, LeaseInv, LeaseTypes
  <1>2. ASSUME NEW t \in Threads PROVE LeaseFits(lease[t], t, i, run)
    BY <1>1, TurnsAssumption DEF TurnInv, LeaseInv, TurnsKnown, LeasesKnown, HeldBy, Keeps, LeaseFits
  <1>. QED BY <1>1, <1>2
\* The three sides together, for a step that leaves the history and the wire alone.
LEMMA InputStep ==
  ASSUME TurnInv, NEW i \in Inputs, NEW run \in Runs, Goes(i, run), UNCHANGED <<hist, wire, bindVars>>,
         answer' = answer \/ Consumed(i), Fate(hist, wire, answer'[i], run, i), Placed(run, revision, since),
         RunKnown(hist, run), SeenRun(hist, run), GoodBound(hist, bound'),
         lease' \in [Threads -> Leases], \A t \in Threads : LeaseFits(lease'[t], t, i, run)
  PROVE  TurnInv'
  <1>1. HostInv' BY InputOnly
  <1>2. BindInv' BY InputBind
  <1>3. Grows(hist, hist') /\ watching' = watching BY HistoryKept DEF bindVars
  <1>4. LeaseInv' BY <1>3, InputLease
  <1>. QED BY <1>1, <1>2, <1>4 DEF TurnInv

LEMMA FateOf ==
  ASSUME TurnInv, NEW i \in Inputs
  PROVE  Fate(hist, wire, answer[i], input[i], i) /\ input[i] \in Runs /\ RunKnown(hist, input[i]) /\ SeenRun(hist, input[i])
         /\ Placed(input[i], revision, since)
  BY DEF TurnInv, HostInv, Fates, LeaseInv, TurnsKnown, SeenOver, BindInv, IntentsKnown, Placed

LEMMA ConsumedIs ==
  ASSUME TurnInv, NEW i \in Inputs, Consumed(i)
  PROVE  answer'[i] = NoAnswer /\ NoAnswer.kind = "none"
  BY DEF TurnInv, HostInv, HostTypes, Consumed, NoAnswer

\* finish: no lease is the input's afterwards, and only its own was released.
LEMMA FinishFits ==
  ASSUME TurnInv, NEW i \in Inputs, NEW run, input[i].thread \in Threads, Finish(i)
  PROVE  /\ lease' \in [Threads -> Leases] /\ \A t \in Threads : LeaseFits(lease'[t], t, i, run)
         /\ GoodBound(hist, bound')
         /\ \A t \in Threads : lease'[t] # lease[t] => lease[t].who = i
  <1>. DEFINE u == input[i].thread
  <1>1. lease \in [Threads -> Leases] /\ NoWriter \in Leases BY ConstantTypes DEF TurnInv, LeaseInv, LeaseTypes
  <1>2. /\ lease' \in [Threads -> Leases]
        /\ \A t \in Threads : lease'[t] = lease[t] \/ (lease[t].who = i /\ lease'[t] = NoWriter)
        /\ \A t \in Threads : lease[t].who = i /\ t = u => lease'[t] = NoWriter
    BY <1>1 DEF Finish
  <1>3. ASSUME NEW t \in Threads PROVE LeaseFits(lease'[t], t, i, run)
    <2>1. lease[t] \in Leases /\ MaybeTurn(hist, lease[t].turn) /\ (lease[t].who = "none" => lease[t] = NoWriter)
          /\ (lease[t].who # "none" => HeldBy(lease[t], t, input[lease[t].who]))
      BY <1>1 DEF TurnInv, LeaseInv, TurnsKnown, LeasesKnown
    <2>2. CASE lease'[t] = NoWriter BY <1>1, <2>2, ConstantTypes, TurnsAssumption DEF LeaseFits, MaybeTurn
    <2>3. CASE lease'[t] # NoWriter
      <3>1. lease'[t] = lease[t] /\ ~(lease[t].who = i /\ t = u) BY <1>2, <2>3
      <3>2. lease[t].who # i
        <4>1. SUFFICES ASSUME lease[t].who = i PROVE FALSE OBVIOUS
        <4>2. HeldBy(lease[t], t, input[i]) BY <2>1, <4>1, TurnsAssumption
        <4>. QED BY <3>1, <4>1, <4>2 DEF HeldBy
      <3>. QED BY <2>1, <3>1, <3>2 DEF LeaseFits
    <2>. QED BY <2>2, <2>3
  <1>4. GoodBound(hist, bound')
    <2>1. CASE lease[u].who = i
      <3>1. bound' = [bound EXCEPT ![u] = IF life[u].archived THEN NoBinding ELSE FinishedBinding(bound[u], lease[u])]
        BY <2>1 DEF Finish, NoBinding
      <3>2. GoodBinding(hist, NoBinding) BY NoBindingIsGood
      <3>3. GoodBinding(hist, FinishedBinding(bound[u], lease[u])) BY BoundIsGood, FinishedIsGood
      <3>4. PICK b : b = IF life[u].archived THEN NoBinding ELSE FinishedBinding(bound[u], lease[u]) OBVIOUS
      <3>5. GoodBinding(hist, b) /\ bound' = [bound EXCEPT ![u] = b] BY <3>1, <3>2, <3>3, <3>4
      <3>. QED BY <3>5, BoundBecomes
    <2>2. CASE lease[u].who # i BY <2>2, BoundIsGood DEF Finish
    <2>. QED BY <2>1, <2>2
  <1>. QED BY <1>2, <1>3, <1>4

\* An input that ended says what became of it and nothing else.
Statuses == {"none", "pending", "accepted", "rejected", "unconfirmed"}
EndedAs(run, i, st, g) ==
  /\ run \in Runs /\ run.at = "done" /\ run.status = st /\ run.gaveUp = g /\ run.turn = input[i].turn
  /\ run.seen = IdleState /\ run.held = NoWriter /\ run.do = "none"

LEMMA FailsIs ==
  ASSUME TurnInv, NEW i \in Inputs, NEW st \in Statuses
  PROVE  /\ EndedAs(Fails(i), i, input[i].status, input[i].gaveUp)
         /\ EndedAs([Fails(i) EXCEPT !.on = NoThread], i, input[i].status, input[i].gaveUp)
         /\ EndedAs([Fails(i) EXCEPT !.status = st], i, st, input[i].gaveUp)
         /\ EndedAs([Fails(i) EXCEPT !.status = st, !.on = NoThread], i, st, input[i].gaveUp)
         /\ EndedAs([Fails(i) EXCEPT !.status = st, !.gaveUp = TRUE, !.on = NoThread], i, st, TRUE)
  <1>1. input[i] \in Runs BY DEF TurnInv, HostInv
  <1>2. FreshRun \in Runs /\ FreshRun.seen = IdleState /\ FreshRun.held = NoWriter /\ FreshRun.do = "none"
        /\ FreshRun.on = NoThread
    BY ConstantTypes DEF FreshRun
  <1>3. PICK f : f = Fails(i) OBVIOUS
  <1>. HIDE DEF FreshRun
  <1>4. EndedAs(f, i, input[i].status, input[i].gaveUp) BY <1>1, <1>2, <1>3 DEF Fails, EndedAs, Runs
  <1>5. f \in Runs BY <1>4 DEF EndedAs
  <1>6. EndedAs([f EXCEPT !.on = NoThread], i, input[i].status, input[i].gaveUp) BY <1>4 DEF EndedAs, Runs
  <1>7. EndedAs([f EXCEPT !.status = st], i, st, input[i].gaveUp) BY <1>4 DEF EndedAs, Runs, Statuses
  <1>8. EndedAs([f EXCEPT !.status = st, !.on = NoThread], i, st, input[i].gaveUp) BY <1>4 DEF EndedAs, Runs, Statuses
  <1>9. EndedAs([f EXCEPT !.status = st, !.gaveUp = TRUE, !.on = NoThread], i, st, TRUE) BY <1>4 DEF EndedAs, Runs, Statuses
  <1>. QED BY <1>3, <1>4, <1>6, <1>7, <1>8, <1>9

\* What the record of an ended input may say.
MaySay(i, st, g) ==
  /\ st = "accepted" => InTurn(hist, input[i].turn, i)
  /\ st = "rejected" /\ ~g => Unwritten(hist, i) /\ ~OnWire(wire, i)

LEMMA EndedFits ==
  ASSUME TurnInv, NEW i \in Inputs, NEW run, NEW st, NEW g, EndedAs(run, i, st, g), MaySay(i, st, g), NEW a,
         a = answer[i] \/ a = NoAnswer
  PROVE  /\ Fate(hist, wire, a, run, i) /\ Placed(run, revision, since) /\ RunKnown(hist, run)
         /\ SeenRun(hist, run)
  <1>1. Fate(hist, wire, answer[i], input[i], i) BY FateOf
  <1>2. NoAnswer.kind = "none" BY DEF NoAnswer
  <1>3. run.at = "done" /\ run.status = st /\ run.gaveUp = g /\ run.turn = input[i].turn
        /\ run.seen = IdleState /\ run.held = NoWriter /\ run.do = "none"
    BY DEF EndedAs
  <1>4. Fate(hist, wire, a, run, i) BY <1>1, <1>2, <1>3 DEF Fate, MaySay, Unsent
  <1>5. Placed(run, revision, since) /\ RunKnown(hist, run) /\ SeenRun(hist, run)
    BY <1>3, ConstantTypes DEF Placed, RunKnown, SeenRun, MaybeTurn
  <1>. QED BY <1>4, <1>5

LEMMA RunEnds ==
  ASSUME TurnInv, NEW i \in Inputs, NEW run, NEW st, NEW g, EndedAs(run, i, st, g), MaySay(i, st, g), Goes(i, run),
         UNCHANGED <<hist, wire, bindVars>>, answer' = answer \/ Consumed(i),
         (Finish(i) /\ input[i].thread \in Threads) \/ (UNCHANGED <<lease, bound>> /\ input[i].at \notin Holding)
  PROVE  TurnInv'
  <1>1. run \in Runs BY DEF EndedAs
  <1>2. answer'[i] = answer[i] \/ answer'[i] = NoAnswer BY ConsumedIs
  <1>3. Fate(hist, wire, answer'[i], run, i) /\ Placed(run, revision, since) /\ RunKnown(hist, run) /\ SeenRun(hist, run)
    BY <1>2, EndedFits
  <1>4. /\ lease' \in [Threads -> Leases] /\ \A t \in Threads : LeaseFits(lease'[t], t, i, run)
        /\ GoodBound(hist, bound')
    BY FinishFits, LeasesFit, BoundIsGood
  <1>. QED BY <1>1, <1>3, <1>4, InputStep
LEMMA ResolveSafe ==
  ASSUME TurnInv, NEW i \in Inputs, NEW c \in Convs, NEW t \in Threads, Resolve(i, c, t)
  PROVE  TurnInv'
  <1>. DEFINE old == input[i]
              n == NewIntent(c, t)
  <1>1. PICK run : /\ run = [old EXCEPT !.at = "read", !.conv = c, !.thread = t, !.local = n.local, !.owner = n.owner,
                                        !.life = n.life, !.held = lease[t]]
                   /\ Goes(i, run)
    BY DEF Resolve
  <1>2. Begins(c, t) /\ UNCHANGED <<hostVars, sel, route, life, bound, lease, using, watching>> /\ old.at \in {"new", "again"}
    BY DEF Resolve, At
  <1>3. old \in Runs /\ Fate(hist, wire, answer[i], old, i) /\ RunKnown(hist, old) BY FateOf
  <1>4. n \in Intents /\ n.conv = c /\ n.thread = t /\ Wanted(n, revision', since') BY <1>2, BeginsWants
  <1>5. n.local \in Nat /\ n.owner \in Nat /\ n.life \in Nat BY <1>4 DEF Intents
  <1>6. lease[t] \in Leases /\ MaybeTurn(hist, lease[t].turn) BY DEF TurnInv, LeaseInv, LeaseTypes, TurnsKnown
  <1>. HIDE DEF n, old
  <1>7. /\ run \in Runs /\ run.at = "read" /\ run.conv = c /\ run.thread = t /\ run.local = n.local /\ run.held = lease[t]
        /\ run.seen = old.seen /\ run.base = old.base /\ run.do = old.do /\ run.status = old.status /\ run.gaveUp = old.gaveUp
        /\ run.turn = old.turn
    BY <1>1, <1>3, <1>5, <1>6 DEF Runs, Unsent
  <1>8. HostInv' BY <1>2, <1>3, <1>7, <1>1, InputOnly DEF Fate, Unsent, hostVars
  <1>9. BindInv'
    <2>1. input'[i] = run /\ \A j \in Inputs \ {i} : input'[j] = input[j] BY <1>1, <1>7, GoesIs
    <2>2. WantsKept BY <1>2, BeginsWants DEF WantsKept
    <2>3. Wanted(run, revision', since') BY <1>4, <1>7 DEF Wanted
    <2>4. IntentsKnown'
      BY <1>2, <2>2, LocalsAreNumbers, <2>1, <2>3, <1>7 DEF TurnInv, BindInv, IntentsKnown, WantsKept
    <2>5. BindTypes' BY <1>2, BeginsWants DEF TurnInv, BindInv, BindTypes
    <2>6. SelectionsCurrent'
      BY <1>2, BeginsWants DEF TurnInv, BindInv, SelectionsCurrent
    <2>. QED BY <2>4, <2>5, <2>6 DEF BindInv
  <1>10. LeaseInv'
    BY <1>2, LeasesFit, <1>3, <1>6, <1>7, HistoryKept, BoundIsGood, <1>1, InputLease DEF Holding, old, RunKnown, SeenRun,
       hostVars
  <1>. QED BY <1>8, <1>9, <1>10 DEF TurnInv

\* An input that has not been sent may stop: its record says nothing happened.
LEMMA UnsentSays ==
  ASSUME TurnInv, NEW i \in Inputs, input[i].at \in Unsent
  PROVE  /\ MaySay(i, input[i].status, input[i].gaveUp) /\ MaySay(i, "rejected", FALSE) /\ ~input[i].gaveUp
         /\ input[i].status \in {"none", "pending"}
  BY FateOf DEF Fate, MaySay

\* It may go on, unsent, with a record that says no more.
LEMMA StaysUnsent ==
  ASSUME TurnInv, NEW i \in Inputs, input[i].at \in Unsent, NEW run, run.at \in Unsent,
         run.status \in {"none", "pending"}, run.gaveUp = input[i].gaveUp
  PROVE  Fate(hist, wire, answer[i], run, i)
  <1>1. Fate(hist, wire, answer[i], input[i], i) BY FateOf
  <1>2. run.at \notin {"sent", "confirm", "collect", "watch", "interrupted"} BY DEF Unsent
  <1>. QED BY <1>1, <1>2 DEF Fate

LEMMA UnsentFails ==
  ASSUME TurnInv, NEW i \in Inputs, input[i].at \in Unsent \ {"write"}, Goes(i, Fails(i)),
         UNCHANGED <<hostVars, bindVars, lease, bound>>
  PROVE  TurnInv'
  <1>1. EndedAs(Fails(i), i, input[i].status, input[i].gaveUp) BY FailsIs DEF Statuses
  <1>2. MaySay(i, input[i].status, input[i].gaveUp) BY UnsentSays
  <1>3. input[i].at \notin Holding BY DEF Unsent, Holding
  <1>4. UNCHANGED <<hist, wire, answer>> BY DEF hostVars
  <1>. QED BY <1>1, <1>2, <1>3, <1>4, RunEnds

\* In a thread whose last turn is over, every turn is.
LEMMA IdleThread ==
  ASSUME TurnInv, NEW t \in Threads, ~ThreadState(t).active, NEW u, IsTurn(hist, u), u[1] = t
  PROVE  Ended(hist, u)
  <1>1. HostTypes /\ OneOpen BY DEF TurnInv, HostInv
  <1>2. Len(hist[t]) \in Nat /\ DOMAIN hist[t] = 1..Len(hist[t]) BY <1>1, HistoryIs DEF HostTypes
  <1>3. Len(hist[t]) = 0 \/ ~hist[t][Len(hist[t])].open BY <1>1, ThreadStateIs
  <1>4. u[2] \in DOMAIN hist[t] BY DEF IsTurn
  <1>. QED BY <1>1, <1>2, <1>3, <1>4 DEF OneOpen, Ended

LEMMA ReadsThreadSafe ==
  ASSUME TurnInv, NEW i \in Inputs, NEW ok \in BOOLEAN, ReadsThread(i, ok)
  PROVE  TurnInv' /\ UNCHANGED lease
  <1>. DEFINE old == input[i]
              s == ThreadState(old.thread)
  <1>1. old.at = "read" /\ UNCHANGED <<hostVars, bindVars, bound, lease>> BY DEF ReadsThread, At
  <1>2. CASE ok
    <2>1. PICK run : run = [old EXCEPT !.at = "bind", !.seen = s] /\ Goes(i, run) BY <1>2 DEF ReadsThread
    <2>2. old \in Runs /\ RunKnown(hist, old) /\ Placed(old, revision, since) BY FateOf
    <2>3. old.thread \in Threads BY <1>1, <2>2 DEF Placed
    <2>4. GoodState(hist, s) BY <2>3, ReadIsGood
    <2>5. \A u : IsTurn(hist, u) /\ u[1] = old.thread /\ ~s.active => Ended(hist, u) BY <2>3, IdleThread
    <2>. HIDE DEF s
    <2>6. /\ run \in Runs /\ run.at = "bind" /\ run.conv = old.conv /\ run.thread = old.thread /\ run.local = old.local
          /\ run.held = old.held /\ run.seen = s /\ run.base = old.base /\ run.do = old.do /\ run.status = old.status
          /\ run.gaveUp = old.gaveUp
      BY <2>1, <2>2, <2>4 DEF Runs, Unsent, GoodState
    <2>a. old.at \in Unsent /\ run.at \in Unsent BY <1>1, <2>6 DEF Unsent
    <2>7. Fate(hist, wire, answer[i], run, i) BY <2>6, <2>a, UnsentSays, StaysUnsent
    <2>8. Placed(run, revision, since) BY <1>1, <2>2, <2>6 DEF Placed, Wanted
    <2>9. RunKnown(hist, run) /\ SeenRun(hist, run) BY <2>2, <2>4, <2>5, <2>6 DEF RunKnown, SeenRun, MaybeTurn, GoodState
    <2>10. lease' \in [Threads -> Leases] /\ \A u \in Threads : LeaseFits(lease'[u], u, i, run)
      BY <1>1, LeasesFit DEF Holding
    <2>11. GoodBound(hist, bound') BY <1>1, BoundIsGood
    <2>12. UNCHANGED <<hist, wire, answer, bindVars>> BY <1>1 DEF hostVars
    <2>. QED BY <1>1, <2>1, <2>6, <2>7, <2>8, <2>9, <2>10, <2>11, <2>12, InputStep
  <1>3. CASE ~ok BY <1>3, <1>1, UnsentFails DEF ReadsThread, Unsent
  <1>. QED BY <1>2, <1>3
\* What a commit of an input's read leaves: an uncertain lease is released only when its turn is over.
LEMMA BindsThreadSafe ==
  ASSUME TurnInv, NEW i \in Inputs, BindsThread(i)
  PROVE  /\ TurnInv'
         /\ \A t \in Threads : lease[t].uncertain /\ lease'[t] = NoWriter /\ lease[t].turn[1] = t => Ended(hist, lease[t].turn)
  <1>. DEFINE old == input[i]
              t == old.thread
              b == bound[t]
              l == lease[t]
              held == old.held # NoWriter
              uncertain == held /\ old.held.uncertain
              fits == CASE uncertain -> l = old.held
                        [] held /\ ~uncertain -> l # NoWriter /\ b.run = "weclaw"
                        [] OTHER -> TRUE
              left == IF uncertain THEN ReconciledLease(l, old.seen) ELSE l
              next == CASE uncertain /\ left # NoWriter -> ReconciledBinding(b, l, old.seen)
                        [] held /\ ~uncertain -> [b EXCEPT !.state = old.seen]
                        [] OTHER -> Activated(b, old.seen)
  <1>1. old.at = "bind" /\ UNCHANGED <<hostVars, revision, ownerRevision, life, using, watching, since, bindOps>>
    BY DEF BindsThread, At
  <1>2. old \in Runs /\ RunKnown(hist, old) /\ SeenRun(hist, old) /\ Placed(old, revision, since) BY FateOf
  <1>3. t \in Threads /\ old.conv \in Convs /\ Wanted(old, revision, since) BY <1>1, <1>2 DEF Placed
  <1>4. old.at \in Unsent /\ old.at \notin Holding BY <1>1 DEF Unsent, Holding
  <1>5. CASE IntentCurrent(old) /\ fits
    <2>1. /\ lease' = [lease EXCEPT ![t] = left] /\ bound' = [bound EXCEPT ![t] = next] /\ Selects(old.conv, t)
      BY <1>5 DEF BindsThread
    <2>2. PICK run : run = [old EXCEPT !.at = "admit", !.seen = next.state] /\ Goes(i, run) BY <1>5 DEF BindsThread
    <2>3. uncertain => l = old.held /\ l.uncertain BY <1>5
    <2>4. left \in {l, NoWriter} BY <1>3, <2>3, LeaseReconciled
    <2>5. GoodState(hist, old.seen) BY <1>2 DEF GoodState, RunKnown, Runs
    <2>6. l \in Leases /\ MaybeTurn(hist, l.turn) /\ GoodBinding(hist, b)
      BY <1>3, BoundIsGood DEF TurnInv, LeaseInv, LeaseTypes, TurnsKnown
    <2>7. GoodBinding(hist, next)
      BY <2>5, <2>6, ReconciledIsGood, FollowsState, ActivatedIsGood
    <2>8. ASSUME left = NoWriter, l.uncertain, l.turn[1] = t PROVE Ended(hist, l.turn)
      <3>1. l # NoWriter /\ l.turn # NoTurn BY <1>3, <2>8, UncertainIs
      <3>2. uncertain /\ ReconciledLease(l, old.seen) = NoWriter BY <2>8, <3>1
      <3>3. l = old.held BY <2>3, <3>2
      <3>4. ~old.seen.active
        <4>1. SUFFICES ASSUME old.seen.active PROVE FALSE OBVIOUS
        <4>2. ReconciledLease(l, old.seen) = [l EXCEPT !.turn = IF l.turn = NoTurn THEN old.seen.turn ELSE l.turn]
          BY <4>1 DEF ReconciledLease
        <4>3. [l EXCEPT !.turn = IF l.turn = NoTurn THEN old.seen.turn ELSE l.turn].uncertain = l.uncertain BY <2>6 DEF Leases
        <4>. QED BY <2>8, <3>2, <4>2, <4>3, ConstantTypes
      <3>. QED BY <1>1, <1>2, <2>8, <3>1, <3>3, <3>4 DEF SeenRun
    <2>. HIDE DEF next, left, fits, uncertain
    <2>9. next.state \in StateValues /\ MaybeTurn(hist, next.state.turn) BY <2>7 DEF GoodBinding, Bindings
    <2>10. /\ run \in Runs /\ run.at = "admit" /\ run.conv = old.conv /\ run.thread = old.thread /\ run.seen = next.state
           /\ run.held = old.held /\ run.base = old.base /\ run.do = old.do /\ run.status = old.status
           /\ run.gaveUp = old.gaveUp
      BY <1>2, <2>2, <2>9 DEF Runs, Unsent
    <2>11. HostInv'
      <3>1. run.at \in Unsent BY <2>10 DEF Unsent
      <3>2. Fate(hist, wire, answer[i], run, i) BY <1>4, <2>10, <3>1, UnsentSays, StaysUnsent
      <3>. QED BY <1>1, <2>2, <2>10, <3>2, InputOnly DEF hostVars
    <2>12. BindInv'
      <3>1. t \in since[old.conv] /\ ~life[t].archived BY <1>3, <1>5, CurrentIs
      <3>2. SelectionsCurrent' /\ sel' \in [Convs -> Threads \cup {NoThread}] /\ route' \in [Convs -> Threads \cup {NoThread}]
        BY <1>1, <1>3, <2>1, <3>1, SelectsCurrent
      <3>3. BindTypes' BY <1>1, <3>2 DEF TurnInv, BindInv, BindTypes
      <3>4. input'[i] = run /\ \A j \in Inputs \ {i} : input'[j] = input[j] BY <2>2, <2>10, GoesIs
      <3>5. IntentsKnown' BY <1>1, <1>3, <2>10, <3>4 DEF TurnInv, BindInv, IntentsKnown
      <3>. QED BY <3>2, <3>3, <3>5 DEF BindInv
    <2>13. LeaseInv'
      <3>. HIDE DEF t, b, l
      <3>1. lease \in [Threads -> Leases] /\ \A u \in Threads : LeaseFits(lease[u], u, i, run) BY <1>4, LeasesFit DEF old
      <3>2. LeaseFits(NoWriter, t, i, run) BY ConstantTypes, TurnsAssumption DEF LeaseFits, MaybeTurn
      <3>3. LeaseFits(left, t, i, run) BY <1>3, <2>4, <3>1, <3>2 DEF l
      <3>4. left \in Leases BY <2>4, <2>6, ConstantTypes
      <3>5. lease' \in [Threads -> Leases] /\ \A u \in Threads : LeaseFits(lease'[u], u, i, run)
        BY <1>3, <2>1, <3>1, <3>3, <3>4
      <3>6. GoodBound(hist, bound') BY <1>3, <2>1, <2>7, BoundBecomes
      <3>7. RunKnown(hist, run) /\ SeenRun(hist, run) BY <1>2, <2>9, <2>10 DEF RunKnown, SeenRun
      <3>8. Grows(hist, hist') /\ watching' = watching BY <1>1, HistoryKept DEF hostVars
      <3>. QED BY <2>2, <2>10, <3>5, <3>6, <3>7, <3>8, InputLease
    <2>14. lease'[t] = left /\ \A u \in Threads \ {t} : lease'[u] = lease[u] BY <1>3, <2>1 DEF TurnInv, LeaseInv, LeaseTypes
    <2>15. ASSUME NEW u \in Threads, lease[u].uncertain, lease'[u] = NoWriter, lease[u].turn[1] = u PROVE Ended(hist, lease[u].turn)
      BY <2>14, <2>15, UncertainIs, <2>8
    <2>. QED BY <2>11, <2>12, <2>13, <2>15 DEF TurnInv
  <1>6. CASE ~(IntentCurrent(old) /\ fits)
    BY <1>6, <1>1, <1>4, UnsentFails, UncertainIs DEF BindsThread, bindVars
  <1>. QED BY <1>5, <1>6
\* An input that stays unsent and is not where it could hold a lease.
LEMMA UnsentStep ==
  ASSUME TurnInv, NEW i \in Inputs, input[i].at \in Unsent \ {"write"}, NEW run \in Runs, Goes(i, run),
         UNCHANGED <<hostVars, bindVars, bound, lease>>, run.at \in Unsent \ {"read", "bind"},
         run.status \in {"none", "pending"}, run.gaveUp = input[i].gaveUp, run.thread = input[i].thread, run.conv = input[i].conv,
         RunKnown(hist, run), input[i].at # "new"
  PROVE  TurnInv'
  <1>1. input[i].at \notin Holding /\ input[i].at \notin {"new", "done"} BY DEF Unsent, Holding
  <1>2. Placed(input[i], revision, since) BY FateOf
  <1>3. Fate(hist, wire, answer[i], run, i) BY StaysUnsent
  <1>4. Placed(run, revision, since) /\ SeenRun(hist, run) BY <1>1, <1>2 DEF Placed, SeenRun
  <1>5. lease' \in [Threads -> Leases] /\ \A u \in Threads : LeaseFits(lease'[u], u, i, run) BY <1>1, LeasesFit
  <1>6. GoodBound(hist, bound') BY BoundIsGood
  <1>7. UNCHANGED <<hist, wire, answer, bindVars>> BY DEF hostVars
  <1>. QED BY <1>3, <1>4, <1>5, <1>6, <1>7, InputStep

LEMMA AdmitSafe ==
  ASSUME TurnInv, NEW i \in Inputs, Admit(i)
  PROVE  TurnInv' /\ \A t \in Threads : lease[t].uncertain => lease'[t] = lease[t]
  <1>. DEFINE old == input[i]
              t == old.thread
              b == bound[t]
  <1>1. old.at = "admit" /\ UNCHANGED <<hostVars, bindVars, bound>> BY DEF Admit, At
  <1>2. old \in Runs /\ RunKnown(hist, old) /\ Placed(old, revision, since) BY FateOf
  <1>3. t \in Threads /\ old.conv \in Convs BY <1>1, <1>2 DEF Placed
  <1>4. old.at \in Unsent \ {"write"} /\ old.at # "new" /\ old.at \notin Holding BY <1>1 DEF Unsent, Holding
  <1>5. old.status \in {"none", "pending"} /\ ~old.gaveUp BY <1>4, UnsentSays
  <1>6. MaybeTurn(hist, NoTurn) BY DEF MaybeTurn
  <1>7. CASE old.seen.active
    <2>1. PICK run : run = [old EXCEPT !.at = "steer", !.held = NoWriter] /\ Goes(i, run) BY <1>7 DEF Admit
    <2>2. UNCHANGED lease BY <1>7 DEF Admit
    <2>3. /\ run \in Runs /\ run.at = "steer" /\ run.conv = old.conv /\ run.thread = old.thread /\ run.seen = old.seen
          /\ run.held = NoWriter /\ run.base = old.base /\ run.do = old.do /\ run.status = old.status
          /\ run.gaveUp = old.gaveUp
      BY <1>2, <2>1, ConstantTypes DEF Runs, Unsent
    <2>4. RunKnown(hist, run) /\ run.at \in Unsent \ {"read", "bind"} BY <1>2, <1>6, <2>3, ConstantTypes DEF RunKnown, Unsent
    <2>. QED BY <1>1, <1>4, <1>5, <2>1, <2>2, <2>3, <2>4, UnsentStep
  <1>8. CASE ~old.seen.active /\ (b.run # "weclaw" \/ life[t].archived)
    BY <1>8, <1>1, <1>4, UnsentFails DEF Admit
  <1>9. CASE ~old.seen.active /\ b.run = "weclaw" /\ ~life[t].archived /\ lease[t] = NoWriter
    <2>. DEFINE new == [who |-> i, tries |-> old.tries, gen |-> b.gen, base |-> b.state.last, turn |-> NoTurn, uncertain |-> FALSE]
    <2>1. /\ lease' = [lease EXCEPT ![t] = new] BY <1>9 DEF Admit
    <2>2. PICK run : run = [old EXCEPT !.at = "write", !.base = old.seen.last, !.do = "start", !.status = "pending"] /\ Goes(i, run)
      BY <1>9 DEF Admit
    <2>3. b \in Bindings /\ old.seen \in StateValues BY <1>2, <1>3, BoundIsGood DEF GoodBinding, Runs
    <2>4. old.seen.last \in TurnValues /\ b.gen \in Nat /\ b.state.last \in TurnValues /\ old.tries \in Nat
      BY <1>2, <2>3 DEF Bindings, StateValues, Runs
    <2>5. /\ run \in Runs /\ run.at = "write" /\ run.conv = old.conv /\ run.thread = old.thread /\ run.seen = old.seen
          /\ run.held = old.held /\ run.do = "start" /\ run.status = "pending" /\ run.gaveUp = old.gaveUp
      BY <1>2, <2>2, <2>4 DEF Runs, Unsent
    <2>6. new \in Leases /\ new.who = i /\ new.turn = NoTurn /\ ~new.uncertain BY <2>4, NoTurnIsNone DEF Leases
    <2>. HIDE DEF new
    <2>7. HeldBy(new, t, run) BY <2>5, <2>6 DEF HeldBy, Holding, Accepted
    <2>8. LeaseFits(new, t, i, run) BY <1>6, <2>6, <2>7, TurnsAssumption DEF LeaseFits
    <2>9. lease \in [Threads -> Leases] /\ \A u \in Threads : LeaseFits(lease[u], u, i, run) BY <1>4, LeasesFit
    <2>. HIDE DEF t
    <2>10. /\ lease' \in [Threads -> Leases] /\ \A u \in Threads : LeaseFits(lease'[u], u, i, run)
           /\ \A u \in Threads \ {t} : lease'[u] = lease[u]
      BY <1>3, <2>1, <2>6, <2>8, <2>9
    <2>11. run.at \in Unsent /\ old.at \in Unsent BY <1>4, <2>5 DEF Unsent
    <2>12. Fate(hist, wire, answer[i], run, i) BY <2>5, <2>11, StaysUnsent
    <2>13. Placed(run, revision, since) /\ RunKnown(hist, run) /\ SeenRun(hist, run)
      BY <1>2, <1>3, <2>5 DEF Placed, RunKnown, SeenRun, t
    <2>14. UNCHANGED <<hist, wire, answer, bindVars>> /\ GoodBound(hist, bound') BY <1>1, BoundIsGood DEF hostVars
    <2>15. TurnInv' BY <2>2, <2>5, <2>10, <2>12, <2>13, <2>14, InputStep
    <2>. QED BY <1>9, <2>10, <2>15, ConstantTypes DEF t
  <1>10. CASE ~old.seen.active /\ b.run = "weclaw" /\ ~life[t].archived /\ lease[t] # NoWriter
    <2>1. UNCHANGED lease /\ Goes(i, IF old.tries > 0 THEN [old EXCEPT !.at = "wait", !.held = lease[t], !.tries = old.tries - 1] ELSE Fails(i))
      BY <1>10 DEF Admit
    <2>2. CASE old.tries > 0
      <3>1. PICK run : run = [old EXCEPT !.at = "wait", !.held = lease[t], !.tries = old.tries - 1] /\ Goes(i, run) BY <2>1, <2>2
      <3>2. old.tries - 1 \in Nat BY <1>2, <2>2 DEF Runs
      <3>3. lease[t] \in Leases /\ MaybeTurn(hist, lease[t].turn) BY <1>3 DEF TurnInv, LeaseInv, LeaseTypes, TurnsKnown
      <3>4. /\ run \in Runs /\ run.at = "wait" /\ run.conv = old.conv /\ run.thread = old.thread /\ run.seen = old.seen
            /\ run.held = lease[t] /\ run.base = old.base /\ run.do = old.do /\ run.status = old.status
            /\ run.gaveUp = old.gaveUp
        BY <1>2, <3>1, <3>2, <3>3 DEF Runs, Unsent
      <3>5. RunKnown(hist, run) /\ run.at \in Unsent \ {"read", "bind"} BY <1>2, <3>3, <3>4 DEF RunKnown, Unsent
      <3>. QED BY <1>1, <1>4, <1>5, <2>1, <3>1, <3>4, <3>5, UnsentStep
    <2>3. CASE ~(old.tries > 0) BY <1>1, <1>4, <2>1, <2>3, UnsentFails
    <2>. QED BY <2>2, <2>3
  <1>. QED BY <1>7, <1>8, <1>9, <1>10

LEMMA LeaseResolvedSafe ==
  ASSUME TurnInv, NEW i \in Inputs, LeaseResolved(i)
  PROVE  TurnInv' /\ UNCHANGED lease
  <1>. DEFINE old == input[i]
  <1>1. old.at = "wait" /\ UNCHANGED <<hostVars, bindVars, bound, lease>> BY DEF LeaseResolved, At
  <1>2. PICK run : run = [old EXCEPT !.at = "reread", !.held = NoWriter] /\ Goes(i, run) BY DEF LeaseResolved
  <1>3. old \in Runs /\ RunKnown(hist, old) BY FateOf
  <1>4. old.at \in Unsent \ {"write"} /\ old.at # "new" BY <1>1 DEF Unsent
  <1>5. old.status \in {"none", "pending"} BY <1>4, UnsentSays
  <1>6. /\ run \in Runs /\ run.at = "reread" /\ run.conv = old.conv /\ run.thread = old.thread /\ run.seen = old.seen
        /\ run.held = NoWriter /\ run.base = old.base /\ run.do = old.do /\ run.status = old.status /\ run.gaveUp = old.gaveUp
    BY <1>2, <1>3, ConstantTypes DEF Runs, Unsent
  <1>7. RunKnown(hist, run) /\ run.at \in Unsent \ {"read", "bind"} BY <1>3, <1>6, ConstantTypes DEF RunKnown, MaybeTurn, Unsent
  <1>. QED BY <1>1, <1>2, <1>4, <1>5, <1>6, <1>7, UnsentStep

LEMMA RedispatchSafe ==
  ASSUME TurnInv, NEW i \in Inputs, NEW ok \in BOOLEAN, Redispatch(i, ok)
  PROVE  TurnInv' /\ UNCHANGED lease
  <1>. DEFINE old == input[i]
              s == ThreadState(old.thread)
  <1>1. old.at = "reread" /\ UNCHANGED <<hostVars, bindVars, bound, lease>> BY DEF Redispatch, At
  <1>2. old \in Runs /\ RunKnown(hist, old) /\ Placed(old, revision, since) BY FateOf
  <1>3. old.at \in Unsent \ {"write"} /\ old.at # "new" BY <1>1 DEF Unsent
  <1>4. old.status \in {"none", "pending"} BY <1>3, UnsentSays
  <1>5. old.thread \in Threads BY <1>1, <1>2 DEF Placed
  <1>6. s \in StateValues /\ MaybeTurn(hist, s.turn) BY <1>5, ReadIsGood DEF GoodState
  <1>7. CASE ok
    <2>1. Goes(i, IF s.active THEN [old EXCEPT !.at = "steer", !.seen = s] ELSE [old EXCEPT !.at = "again", !.seen = IdleState])
      BY <1>7 DEF Redispatch
    <2>. HIDE DEF s
    <2>2. PICK run : Goes(i, run) /\ \/ run = [old EXCEPT !.at = "steer", !.seen = s]
                                     \/ run = [old EXCEPT !.at = "again", !.seen = IdleState]
      BY <2>1
    <2>3. /\ run \in Runs /\ run.at \in {"steer", "again"} /\ run.conv = old.conv /\ run.thread = old.thread
          /\ run.seen \in {s, IdleState} /\ run.held = old.held /\ run.base = old.base /\ run.do = old.do
          /\ run.status = old.status /\ run.gaveUp = old.gaveUp
      <3>1. CASE run = [old EXCEPT !.at = "steer", !.seen = s] BY <1>2, <1>6, <3>1 DEF Runs, Unsent
      <3>2. CASE run = [old EXCEPT !.at = "again", !.seen = IdleState] BY <1>2, <3>2, ConstantTypes DEF Runs, Unsent
      <3>. QED BY <2>2, <3>1, <3>2
    <2>4. RunKnown(hist, run) /\ run.at \in Unsent \ {"read", "bind"}
      BY <1>2, <1>6, <2>3, ConstantTypes DEF RunKnown, MaybeTurn, Unsent
    <2>. QED BY <1>1, <1>3, <1>4, <2>2, <2>3, <2>4, UnsentStep
  <1>8. CASE ~ok BY <1>8, <1>1, <1>3, UnsentFails DEF Redispatch
  <1>. QED BY <1>7, <1>8

LEMMA SteerBaselineSafe ==
  ASSUME TurnInv, NEW i \in Inputs, NEW ok \in BOOLEAN, SteerBaseline(i, ok)
  PROVE  TurnInv' /\ UNCHANGED lease
  <1>. DEFINE old == input[i]
              n == CountIn(old.seen.turn, i)
  <1>1. old.at = "steer" /\ UNCHANGED <<hostVars, bindVars, bound, lease>> BY DEF SteerBaseline, At
  <1>2. old \in Runs /\ RunKnown(hist, old) BY FateOf
  <1>3. old.at \in Unsent \ {"write"} /\ old.at # "new" BY <1>1 DEF Unsent
  <1>4. old.seen \in StateValues /\ old.seen.turn \in TurnValues /\ MaybeTurn(hist, old.seen.turn)
    BY <1>2 DEF Runs, StateValues, RunKnown
  <1>5. n \in Nat BY <1>4, CountIs DEF TurnInv, HostInv
  <1>6. CASE ok
    <2>1. PICK run : /\ Goes(i, run)
                     /\ run = [old EXCEPT !.at = "write", !.do = "steer", !.base = old.seen.turn, !.status = "pending", !.count = n]
      BY <1>6 DEF SteerBaseline
    <2>. HIDE DEF n
    <2>2. /\ run \in Runs /\ run.at = "write" /\ run.conv = old.conv /\ run.thread = old.thread
          /\ run.seen = old.seen /\ run.held = old.held /\ run.base = old.seen.turn /\ run.do = "steer"
          /\ run.status = "pending" /\ run.gaveUp = old.gaveUp
      BY <1>2, <1>4, <1>5, <2>1 DEF Runs, Unsent
    <2>3. RunKnown(hist, run) /\ run.at \in Unsent \ {"read", "bind"} BY <1>2, <1>4, <2>2 DEF RunKnown, Unsent
    <2>. QED BY <1>1, <1>3, <2>1, <2>2, <2>3, UnsentStep
  <1>7. CASE ~ok BY <1>7, <1>1, <1>3, UnsentFails DEF SteerBaseline
  <1>. QED BY <1>6, <1>7
\* An input that may hold a lease has a thread.
LEMMA HoldersPlaced ==
  ASSUME TurnInv, NEW i \in Inputs, input[i].at \in Holding
  PROVE  input[i].thread \in Threads /\ input[i].conv \in Convs
  BY FateOf DEF Placed, Holding

LEMMA AttemptUnsavedSafe ==
  ASSUME TurnInv, NEW i \in Inputs, AttemptUnsaved(i)
  PROVE  TurnInv'
  <1>1. input[i].at = "write" /\ Goes(i, Fails(i)) /\ Finish(i) /\ UNCHANGED <<hostVars, bindVars>> BY DEF AttemptUnsaved, At
  <1>2. input[i].at \in Unsent /\ input[i].at \in Holding BY <1>1 DEF Unsent, Holding
  <1>3. EndedAs(Fails(i), i, input[i].status, input[i].gaveUp) BY FailsIs DEF Statuses
  <1>4. MaySay(i, input[i].status, input[i].gaveUp) BY <1>2, UnsentSays
  <1>5. UNCHANGED <<hist, wire, answer, bindVars>> BY <1>1 DEF hostVars
  <1>6. input[i].thread \in Threads BY <1>2, HoldersPlaced
  <1>. QED BY <1>1, <1>3, <1>4, <1>5, <1>6, RunEnds

LEMMA WriteInputSafe ==
  ASSUME TurnInv, NEW i \in Inputs, WriteInput(i)
  PROVE  TurnInv' /\ UNCHANGED lease
  <1>. DEFINE old == input[i]
              t == IF old.do = "start" THEN sel[old.conv] ELSE old.thread
              on == IF old.do = "start" THEN t ELSE NoThread
              r == [input |-> i, do |-> old.do, thread |-> t, turn |-> old.base]
  <1>1. /\ old.at = "write" /\ t # NoThread /\ wire' = wire \cup {r}
        /\ UNCHANGED <<hist, answer, bindVars, bound, lease>>
    BY DEF WriteInput, At
  <1>2. PICK run : run = [old EXCEPT !.at = "sent", !.on = on] /\ Goes(i, run) BY DEF WriteInput
  <1>3. old \in Runs /\ RunKnown(hist, old) /\ Fate(hist, wire, answer[i], old, i) BY FateOf
  <1>4. old.at \in Unsent /\ old.at \in Holding BY <1>1 DEF Unsent, Holding
  <1>5. old.thread \in Threads /\ old.conv \in Convs BY <1>4, HoldersPlaced
  <1>6. t \in Threads BY <1>1, <1>5 DEF TurnInv, BindInv, BindTypes
  <1>7. r \in Requests /\ r.input = i BY <1>3, <1>6 DEF Requests, Runs
  <1>8. on \in Threads \cup {NoThread} BY <1>6
  <1>. HIDE DEF r, t, on
  <1>9. /\ run \in Runs /\ run.at = "sent" /\ run.conv = old.conv /\ run.thread = old.thread /\ run.seen = old.seen
        /\ run.held = old.held /\ run.base = old.base /\ run.do = old.do /\ run.status = old.status
        /\ run.gaveUp = old.gaveUp /\ run.turn = old.turn
    BY <1>2, <1>3, <1>8 DEF Runs
  <1>10. HostInv'
    <2>1. Unwritten(hist, i) /\ ~OnWire(wire, i) /\ answer[i] = NoAnswer /\ old.status \in {"none", "pending"} /\ ~old.gaveUp
      BY <1>3, <1>4 DEF Fate
    <2>2. Fate(hist, wire', answer[i], run, i) BY <1>9, <2>1 DEF NoAnswer, Unsent, Fate
    <2>3. \A j \in Inputs \ {i} : OnWire(wire', j) => OnWire(wire, j) BY <1>1, <1>7 DEF OnWire
    <2>4. OneRequest' BY <1>1, <1>7, <2>1 DEF OneRequest, OnWire, TurnInv, HostInv
    <2>5. wire' \subseteq Requests /\ hist' \in Histories /\ OneOpen' /\ answer' \in [Inputs -> Answers]
      BY <1>1, <1>7 DEF TurnInv, HostInv, HostTypes, OneOpen
    <2>6. Grows(hist, hist') /\ AddsNothing(hist, hist') BY <1>1, HistoryKept
    <2>7. Fate(hist', wire', answer'[i], run, i) /\ \A j \in Inputs \ {i} : answer'[j] = answer[j] BY <1>1, <2>2
    <2>. QED BY <1>2, <1>9, <2>3, <2>4, <2>5, <2>6, <2>7, InputHost
  <1>11. BindInv' BY <1>5, <1>9, <1>1, <1>2, InputBind DEF Placed
  <1>12. LeaseInv'
    BY <1>1, <1>9, LeasesFit, <1>3, HistoryKept, BoundIsGood, <1>2, InputLease DEF Keeps, Holding, Accepted, RunKnown, SeenRun,
       bindVars
  <1>. QED BY <1>1, <1>10, <1>11, <1>12 DEF TurnInv

\* An input that goes back to read the thread again, its lease released.
LEMMA StartsOver ==
  ASSUME TurnInv, NEW i \in Inputs, NEW run \in Runs, Goes(i, run), Finish(i), input[i].at \in Holding,
         UNCHANGED <<hist, wire, bindVars>>, answer' = answer \/ Consumed(i), Fate(hist, wire, answer'[i], run, i),
         run.at = "reread", run.thread = input[i].thread, run.conv = input[i].conv, RunKnown(hist, run)
  PROVE  TurnInv'
  <1>1. input[i].thread \in Threads /\ input[i].conv \in Convs BY HoldersPlaced
  <1>2. /\ lease' \in [Threads -> Leases] /\ \A t \in Threads : LeaseFits(lease'[t], t, i, run)
        /\ GoodBound(hist, bound')
    BY <1>1, FinishFits
  <1>3. Placed(run, revision, since) /\ SeenRun(hist, run) BY <1>1 DEF Placed, SeenRun
  <1>. QED BY <1>2, <1>3, InputStep

LEMMA WriteRefusedSafe ==
  ASSUME TurnInv, NEW i \in Inputs, WriteRefused(i)
  PROVE  TurnInv'
  <1>. DEFINE old == input[i]
  <1>1. old.at = "write" /\ Finish(i) /\ UNCHANGED <<hostVars, bindVars>> BY DEF WriteRefused, At
  <1>2. old.at \in Unsent /\ old.at \in Holding BY <1>1 DEF Unsent, Holding
  <1>3. UNCHANGED <<hist, wire, answer, bindVars>> BY <1>1 DEF hostVars
  <1>4. old \in Runs /\ RunKnown(hist, old) BY FateOf
  <1>5. PICK again \in BOOLEAN : Goes(i, IF again /\ old.tries > 0 THEN [old EXCEPT !.at = "reread", !.tries = old.tries - 1]
             ELSE [Fails(i) EXCEPT !.status = IF old.do = "steer" \/ LeaseHolds(i) THEN "rejected" ELSE Fails(i).status])
    <2>. DEFINE t == IF old.do = "start" THEN sel[old.conv] ELSE old.thread
                again == (t # NoThread /\ old.do = "start" /\ \E j \in Inputs \ {i} : input[j].on = t) /\ LeaseHolds(i)
    <2>1. again \in BOOLEAN OBVIOUS
    <2>. QED BY <2>1 DEF WriteRefused
  <1>6. CASE again /\ old.tries > 0
    <2>1. PICK run : Goes(i, run) /\ run = [old EXCEPT !.at = "reread", !.tries = old.tries - 1] BY <1>5, <1>6
    <2>2. old.tries - 1 \in Nat BY <1>4, <1>6 DEF Runs
    <2>3. /\ run \in Runs /\ run.at = "reread" /\ run.conv = old.conv /\ run.thread = old.thread /\ run.seen = old.seen
          /\ run.held = old.held /\ run.base = old.base /\ run.do = old.do /\ run.status = old.status /\ run.gaveUp = old.gaveUp
      BY <1>4, <2>1, <2>2 DEF Runs, Unsent
    <2>4. RunKnown(hist, run) /\ run.at \in Unsent BY <1>4, <2>3 DEF RunKnown, Unsent
    <2>5. Fate(hist, wire, answer[i], run, i) BY <1>2, <2>3, <2>4, UnsentSays, StaysUnsent
    <2>6. Fate(hist, wire, answer'[i], run, i) BY <1>3, <2>5
    <2>. QED BY <1>1, <1>2, <1>3, <2>1, <2>3, <2>4, <2>6, StartsOver
  <1>7. CASE ~(again /\ old.tries > 0)
    <2>1. PICK st : st = IF old.do = "steer" \/ LeaseHolds(i) THEN "rejected" ELSE Fails(i).status OBVIOUS
    <2>2. Fails(i).status = old.status BY FailsIs DEF EndedAs, Statuses
    <2>3. st \in {"rejected", old.status} /\ st \in Statuses BY <1>4, <2>1, <2>2 DEF Statuses, Runs
    <2>4. PICK run : Goes(i, run) /\ run = [Fails(i) EXCEPT !.status = st] BY <1>5, <1>7, <2>1
    <2>5. EndedAs(run, i, st, old.gaveUp) BY <2>3, <2>4, FailsIs
    <2>6. MaySay(i, st, old.gaveUp) BY <1>2, <2>3, UnsentSays DEF MaySay
    <2>7. old.thread \in Threads BY <1>2, HoldersPlaced
    <2>. QED BY <1>1, <1>3, <2>4, <2>5, <2>6, <2>7, RunEnds
  <1>. QED BY <1>6, <1>7
--------------------
(* The answer, its loss, and the end of the turn.                          *)

\* accept: the lease the input holds and its binding name the turn.
LEMMA AcceptsFits ==
  ASSUME TurnInv, NEW i \in Inputs, LeaseHolds(i), input[i].thread \in Threads, input[i].at \in {"sent", "confirm"},
         NEW u, u \in TurnValues, IsTurn(hist, u), Accepts(i, u), NEW run, run.thread = input[i].thread, run.do = input[i].do,
         run.at \in Accepted, run.turn = u
  PROVE  /\ lease' \in [Threads -> Leases] /\ \A t \in Threads : LeaseFits(lease'[t], t, i, run)
         /\ GoodBound(hist, bound')
         /\ \A t \in Threads : lease[t].uncertain => lease'[t] = lease[t]
  <1>. DEFINE v == input[i].thread
  <1>1. lease \in [Threads -> Leases] /\ lease[v] \in Leases /\ lease[v].who = i
    BY DEF TurnInv, LeaseInv, LeaseTypes, LeaseHolds
  <1>2. HeldBy(lease[v], v, input[i]) BY <1>1, TurnsAssumption DEF TurnInv, LeaseInv, LeasesKnown
  <1>3. PICK l : l = [lease[v] EXCEPT !.turn = u] OBVIOUS
  <1>4. l \in Leases /\ l.who = i /\ l.turn = u /\ l.uncertain = lease[v].uncertain /\ ~lease[v].uncertain
    BY <1>1, <1>2, <1>3 DEF Leases, HeldBy
  <1>5. lease' = [lease EXCEPT ![v] = l] BY <1>3 DEF Accepts
  <1>6. lease' \in [Threads -> Leases] /\ lease'[v] = l /\ \A t \in Threads \ {v} : lease'[t] = lease[t] BY <1>1, <1>4, <1>5
  <1>7. HeldBy(l, v, run) BY <1>2, <1>4 DEF HeldBy, Accepted, Holding
  <1>8. LeaseFits(l, v, i, run) BY <1>4, <1>7, TurnsAssumption DEF LeaseFits, MaybeTurn
  <1>9. ASSUME NEW t \in Threads \ {v} PROVE LeaseFits(lease[t], t, i, run)
    <2>1. lease[t] \in Leases /\ MaybeTurn(hist, lease[t].turn) /\ (lease[t].who = "none" => lease[t] = NoWriter)
          /\ (lease[t].who # "none" => HeldBy(lease[t], t, input[lease[t].who]))
      BY <1>1 DEF TurnInv, LeaseInv, TurnsKnown, LeasesKnown
    <2>2. lease[t].who # i
      <3>1. SUFFICES ASSUME lease[t].who = i PROVE FALSE OBVIOUS
      <3>2. HeldBy(lease[t], t, input[i]) BY <2>1, <3>1, TurnsAssumption
      <3>. QED BY <3>2 DEF HeldBy
    <2>. QED BY <2>1, <2>2 DEF LeaseFits
  <1>10. GoodBound(hist, bound')
    <2>1. bound' = [bound EXCEPT ![v] = Showing(bound[v], TRUE, u)] BY DEF Accepts, Showing
    <2>2. GoodBinding(hist, Showing(bound[v], TRUE, u)) BY BoundIsGood, StateTurn DEF MaybeTurn
    <2>. QED BY <2>1, <2>2, BoundBecomes
  <1>. HIDE DEF v
  <1>. QED BY <1>4, <1>6, <1>8, <1>9, <1>10

\* A turn the history has is a value a lease can name.
LEMMA TurnIsValue ==
  ASSUME TurnInv, NEW u, IsTurn(hist, u)
  PROVE  u \in TurnValues /\ u # NoTurn /\ MaybeTurn(hist, u)
  <1>1. u[1] \in Threads /\ u[2] \in DOMAIN hist[u[1]] /\ u = <<u[1], u[2]>> BY DEF IsTurn
  <1>2. u[2] \in Nat BY <1>1, HistoryIs DEF TurnInv, HostInv, HostTypes
  <1>3. <<u[1], u[2]>> \in TurnValues BY <1>1, <1>2 DEF TurnValues
  <1>. QED BY <1>1, <1>3, NoTurnIsNone DEF MaybeTurn

\* The fate of an input that is in turn u.
LEMMA AcceptedFate ==
  ASSUME TurnInv, NEW i \in Inputs, NEW run, run.at \in Accepted, run.status = "accepted", InTurn(hist, run.turn, i),
         NEW a, a = answer[i] \/ a = NoAnswer
  PROVE  Fate(hist, wire, a, run, i)
  <1>1. Fate(hist, wire, answer[i], input[i], i) BY FateOf
  <1>2. NoAnswer.kind = "none" BY DEF NoAnswer
  <1>3. run.at \notin Unsent \cup {"sent", "confirm"} BY DEF Unsent, Accepted
  <1>. QED BY <1>1, <1>2, <1>3 DEF Fate

LEMMA StartAcceptedSafe ==
  ASSUME TurnInv, NEW i \in Inputs, StartAccepted(i)
  PROVE  TurnInv' /\ \A t \in Threads : lease[t].uncertain => lease'[t] = lease[t]
  <1>. DEFINE old == input[i]
              u == answer[i].turn
  <1>1. /\ old.at = "sent" /\ answer[i].kind = "ok" /\ LeaseHolds(i) /\ Accepts(i, u) /\ Consumed(i)
        /\ UNCHANGED <<hist, wire, bindVars>>
    BY DEF StartAccepted, At
  <1>2. PICK run : run = [old EXCEPT !.at = "collect", !.turn = u, !.status = "accepted"] /\ Goes(i, run) BY DEF StartAccepted
  <1>3. old \in Runs /\ RunKnown(hist, old) /\ Fate(hist, wire, answer[i], old, i) BY FateOf
  <1>4. InTurn(hist, u, i) /\ IsTurn(hist, u) BY <1>1, <1>3 DEF Fate, InTurn
  <1>5. u \in TurnValues BY <1>4, TurnIsValue
  <1>6. old.thread \in Threads /\ old.conv \in Convs BY <1>1, HoldersPlaced DEF Holding
  <1>. HIDE DEF u
  <1>7. /\ run \in Runs /\ run.at = "collect" /\ run.conv = old.conv /\ run.thread = old.thread /\ run.seen = old.seen
        /\ run.held = old.held /\ run.base = old.base /\ run.do = old.do /\ run.status = "accepted" /\ run.turn = u
    BY <1>2, <1>3, <1>5 DEF Runs
  <1>8. run.at \in Accepted BY <1>7 DEF Accepted
  <1>9. /\ lease' \in [Threads -> Leases] /\ \A t \in Threads : LeaseFits(lease'[t], t, i, run)
        /\ GoodBound(hist, bound')
        /\ \A t \in Threads : lease[t].uncertain => lease'[t] = lease[t]
    BY <1>1, <1>4, <1>5, <1>6, <1>7, <1>8, AcceptsFits
  <1>10. Fate(hist, wire, answer'[i], run, i) BY <1>1, <1>4, <1>7, <1>8, ConsumedIs, AcceptedFate
  <1>11. Placed(run, revision, since) /\ RunKnown(hist, run) /\ SeenRun(hist, run)
    BY <1>3, <1>6, <1>7 DEF Placed, RunKnown, SeenRun
  <1>12. TurnInv' BY <1>1, <1>2, <1>7, <1>9, <1>10, <1>11, InputStep
  <1>. QED BY <1>9, <1>12

LEMMA SteerAcceptedSafe ==
  ASSUME TurnInv, NEW i \in Inputs, SteerAccepted(i)
  PROVE  TurnInv' /\ UNCHANGED lease
  <1>. DEFINE old == input[i]
              u == answer[i].turn
  <1>1. /\ old.at = "sent" /\ old.do = "steer" /\ answer[i].kind = "ok" /\ Consumed(i)
        /\ UNCHANGED <<hist, wire, bindVars, lease, bound>>
    BY DEF SteerAccepted, At
  <1>2. PICK run : run = [old EXCEPT !.at = "watch", !.turn = u, !.status = "accepted"] /\ Goes(i, run) BY DEF SteerAccepted
  <1>3. old \in Runs /\ RunKnown(hist, old) /\ Fate(hist, wire, answer[i], old, i) BY FateOf
  <1>4. InTurn(hist, u, i) /\ IsTurn(hist, u) BY <1>1, <1>3 DEF Fate, InTurn
  <1>5. u \in TurnValues BY <1>4, TurnIsValue
  <1>6. old.thread \in Threads /\ old.conv \in Convs BY <1>1, HoldersPlaced DEF Holding
  <1>. HIDE DEF u
  <1>7. /\ run \in Runs /\ run.at = "watch" /\ run.conv = old.conv /\ run.thread = old.thread /\ run.seen = old.seen
        /\ run.held = old.held /\ run.base = old.base /\ run.do = old.do /\ run.status = "accepted" /\ run.turn = u
    BY <1>2, <1>3, <1>5 DEF Runs
  <1>8. run.at \in Accepted BY <1>7 DEF Accepted
  <1>9. /\ lease' \in [Threads -> Leases] /\ \A t \in Threads : LeaseFits(lease'[t], t, i, run)
        /\ GoodBound(hist, bound')
    BY <1>1, LeasesFit, BoundIsGood
  <1>10. Fate(hist, wire, answer'[i], run, i) BY <1>1, <1>4, <1>7, <1>8, ConsumedIs, AcceptedFate
  <1>11. Placed(run, revision, since) /\ RunKnown(hist, run) /\ SeenRun(hist, run)
    BY <1>3, <1>6, <1>7 DEF Placed, RunKnown, SeenRun
  <1>. QED BY <1>1, <1>2, <1>7, <1>9, <1>10, <1>11, InputStep

LEMMA AnsweredRaceSafe ==
  ASSUME TurnInv, NEW i \in Inputs, AnsweredRace(i)
  PROVE  TurnInv'
  <1>. DEFINE old == input[i]
              held == old.do = "steer" \/ LeaseHolds(i)
  <1>1. /\ old.at = "sent" /\ answer[i].kind = "race" /\ Consumed(i) /\ Finish(i)
        /\ UNCHANGED <<hist, wire, bindVars>>
    BY DEF AnsweredRace, At
  <1>2. Goes(i, IF held /\ old.tries > 0 THEN [old EXCEPT !.at = "reread", !.tries = old.tries - 1, !.on = NoThread]
                ELSE [Fails(i) EXCEPT !.status = IF held THEN "rejected" ELSE Fails(i).status, !.on = NoThread])
    BY DEF AnsweredRace
  <1>3. old \in Runs /\ RunKnown(hist, old) /\ Fate(hist, wire, answer[i], old, i) BY FateOf
  <1>4. Unwritten(hist, i) /\ ~OnWire(wire, i) /\ old.status \in {"none", "pending"} /\ ~old.gaveUp
    BY <1>1, <1>3 DEF Fate, NoAnswer
  <1>5. old.at \in Holding BY <1>1 DEF Holding
  <1>6. answer'[i] = NoAnswer /\ NoAnswer.kind = "none" BY <1>1, ConsumedIs
  <1>. HIDE DEF held
  <1>7. CASE held /\ old.tries > 0
    <2>1. PICK run : Goes(i, run) /\ run = [old EXCEPT !.at = "reread", !.tries = old.tries - 1, !.on = NoThread] BY <1>2, <1>7
    <2>2. old.tries - 1 \in Nat BY <1>3, <1>7 DEF Runs
    <2>3. /\ run \in Runs /\ run.at = "reread" /\ run.conv = old.conv /\ run.thread = old.thread /\ run.seen = old.seen
          /\ run.held = old.held /\ run.base = old.base /\ run.do = old.do /\ run.status = old.status /\ run.gaveUp = old.gaveUp
      BY <1>3, <2>1, <2>2 DEF Runs, Unsent
    <2>4. RunKnown(hist, run) /\ run.at \in Unsent BY <1>3, <2>3 DEF RunKnown, Unsent
    <2>5. Fate(hist, wire, answer'[i], run, i) BY <1>4, <1>6, <2>3, <2>4 DEF Fate
    <2>. QED BY <1>1, <1>5, <2>1, <2>3, <2>4, <2>5, StartsOver
  <1>8. CASE ~(held /\ old.tries > 0)
    <2>1. PICK st : st = IF held THEN "rejected" ELSE Fails(i).status OBVIOUS
    <2>2. Fails(i).status = old.status BY FailsIs DEF EndedAs, Statuses
    <2>3. st \in {"rejected", "none", "pending"} /\ st \in Statuses BY <1>4, <2>1, <2>2 DEF Statuses
    <2>4. PICK run : Goes(i, run) /\ run = [Fails(i) EXCEPT !.status = st, !.on = NoThread] BY <1>2, <1>8, <2>1
    <2>5. EndedAs(run, i, st, old.gaveUp) BY <2>3, <2>4, FailsIs
    <2>6. MaySay(i, st, old.gaveUp) BY <1>4, <2>3 DEF MaySay
    <2>7. old.thread \in Threads BY <1>5, HoldersPlaced
    <2>. QED BY <1>1, <2>4, <2>5, <2>6, <2>7, RunEnds
  <1>. QED BY <1>7, <1>8

LEMMA AnswerLostSafe ==
  ASSUME TurnInv, NEW i \in Inputs, AnswerLost(i)
  PROVE  TurnInv' /\ UNCHANGED lease
  <1>. DEFINE old == input[i]
  <1>1. old.at = "sent" /\ Consumed(i) /\ UNCHANGED <<hist, wire, bindVars, bound, lease>> BY DEF AnswerLost, At
  <1>2. PICK run : run = [old EXCEPT !.at = "confirm"] /\ Goes(i, run) BY DEF AnswerLost, AfterUnknown
  <1>3. old \in Runs /\ RunKnown(hist, old) /\ Fate(hist, wire, answer[i], old, i) BY FateOf
  <1>4. /\ run \in Runs /\ run.at = "confirm" /\ run.conv = old.conv /\ run.thread = old.thread /\ run.seen = old.seen
        /\ run.held = old.held /\ run.base = old.base /\ run.do = old.do /\ run.status = old.status
        /\ run.gaveUp = old.gaveUp /\ run.turn = old.turn
    BY <1>2, <1>3 DEF Runs
  <1>5. answer'[i] = NoAnswer /\ NoAnswer.kind = "none" BY <1>1, ConsumedIs
  <1>6. Fate(hist, wire, answer'[i], run, i) BY <1>4, <1>1, <1>3, <1>5 DEF Unsent, Fate
  <1>7. Keeps(run, old) BY <1>1, <1>4 DEF Keeps, Holding, Accepted
  <1>8. old.thread \in Threads /\ old.conv \in Convs BY <1>1, HoldersPlaced DEF Holding
  <1>9. /\ lease' \in [Threads -> Leases] /\ \A t \in Threads : LeaseFits(lease'[t], t, i, run)
        /\ GoodBound(hist, bound')
    BY <1>1, <1>7, LeasesFit, BoundIsGood
  <1>10. Placed(run, revision, since) /\ RunKnown(hist, run) /\ SeenRun(hist, run)
    BY <1>3, <1>4, <1>8 DEF Placed, RunKnown, SeenRun
  <1>. QED BY <1>1, <1>2, <1>4, <1>6, <1>9, <1>10, InputStep

LEMMA GiveUpSafe ==
  ASSUME TurnInv, NEW i \in Inputs, GiveUp(i)
  PROVE  TurnInv'
  <1>. DEFINE old == input[i]
  <1>1. old.at = "sent" /\ Consumed(i) /\ Finish(i) /\ UNCHANGED <<hist, wire, bindVars>> BY DEF GiveUp, At
  <1>2. PICK st : st = IF LeaseHolds(i) THEN "rejected" ELSE Fails(i).status OBVIOUS
  <1>3. Fails(i).status = old.status BY FailsIs DEF EndedAs, Statuses
  <1>4. old.status \in {"none", "pending"} BY <1>1, FateOf DEF Fate
  <1>5. st \in {"rejected", "none", "pending"} /\ st \in Statuses BY <1>2, <1>3, <1>4 DEF Statuses
  <1>6. PICK run : Goes(i, run) /\ run = [Fails(i) EXCEPT !.status = st, !.gaveUp = TRUE, !.on = NoThread]
    BY <1>2 DEF GiveUp
  <1>7. EndedAs(run, i, st, TRUE) BY <1>5, <1>6, FailsIs
  <1>8. MaySay(i, st, TRUE) BY <1>5 DEF MaySay
  <1>9. old.thread \in Threads BY <1>1, HoldersPlaced DEF Holding
  <1>. QED BY <1>1, <1>6, <1>7, <1>8, <1>9, RunEnds
LEMMA ConfirmedSafe ==
  ASSUME TurnInv, NEW i \in Inputs, Confirmed(i)
  PROVE  TurnInv' /\ \A t \in Threads : lease[t].uncertain => lease'[t] = lease[t]
  <1>. DEFINE old == input[i]
              u == IF old.do = "start" THEN ThreadState(old.thread).last ELSE old.base
  <1>1. /\ old.at = "confirm" /\ (old.do = "steer" \/ LeaseHolds(i)) /\ Delivered(i)
        /\ UNCHANGED <<hist, wire, answer, bindVars>>
    BY DEF Confirmed, At, hostVars
  <1>2. IF old.do = "start" THEN Accepts(i, u) ELSE UNCHANGED <<lease, bound>> BY DEF Confirmed
  <1>3. PICK run : run = [old EXCEPT !.at = "watch", !.turn = u, !.status = "accepted", !.on = NoThread] /\ Goes(i, run)
    BY DEF Confirmed
  <1>4. old \in Runs /\ RunKnown(hist, old) /\ Fate(hist, wire, answer[i], old, i) BY FateOf
  <1>5. old.thread \in Threads /\ old.conv \in Convs BY <1>1, HoldersPlaced DEF Holding
  <1>6. HostTypes BY DEF TurnInv, HostInv
  <1>7. InTurn(hist, u, i) /\ IsTurn(hist, u)
    <2>1. old.count \in Nat BY <1>4 DEF Runs
    <2>2. u # NoTurn /\ MaybeTurn(hist, u) /\ CountIn(u, i) > 0
      BY <1>1, <1>5, <1>6, ThreadStateIs, <1>4, TurnsAssumption, CountIs, <2>1 DEF Delivered, RunKnown, LeaseHolds, TurnInv,
         LeaseInv, LeasesKnown, HeldBy
    <2>. HIDE DEF u
    <2>3. InTurn(hist, u, i) BY <1>6, <2>2, CountIs
    <2>. QED BY <2>3 DEF InTurn
  <1>8. u \in TurnValues BY <1>7, TurnIsValue
  <1>. HIDE DEF u
  <1>9. /\ run \in Runs /\ run.at = "watch" /\ run.conv = old.conv /\ run.thread = old.thread /\ run.seen = old.seen
        /\ run.held = old.held /\ run.base = old.base /\ run.do = old.do /\ run.status = "accepted" /\ run.turn = u
    BY <1>3, <1>4, <1>8 DEF Runs
  <1>10. run.at \in Accepted BY <1>9 DEF Accepted
  <1>11. /\ lease' \in [Threads -> Leases] /\ \A t \in Threads : LeaseFits(lease'[t], t, i, run)
         /\ GoodBound(hist, bound')
         /\ \A t \in Threads : lease[t].uncertain => lease'[t] = lease[t]
    BY <1>1, <1>2, <1>5, <1>7, <1>8, <1>9, <1>10, AcceptsFits, LeasesFit, BoundIsGood
  <1>12. Fate(hist, wire, answer'[i], run, i) BY <1>1, <1>7, <1>9, <1>10, AcceptedFate
  <1>13. Placed(run, revision, since) /\ RunKnown(hist, run) /\ SeenRun(hist, run)
    BY <1>4, <1>5, <1>9 DEF Placed, RunKnown, SeenRun
  <1>14. TurnInv' BY <1>1, <1>3, <1>9, <1>11, <1>12, <1>13, InputStep
  <1>. QED BY <1>11, <1>14

LEMMA UnconfirmedSafe ==
  ASSUME TurnInv, NEW i \in Inputs, NEW ok \in BOOLEAN, Unconfirmed(i, ok)
  PROVE  TurnInv'
  <1>. DEFINE old == input[i]
              held == old.do = "steer" \/ LeaseHolds(i)
  <1>1. old.at = "confirm" /\ Finish(i) /\ UNCHANGED <<hist, wire, answer, bindVars>> BY DEF Unconfirmed, At, hostVars
  <1>2. PICK st : st = IF held THEN "unconfirmed" ELSE Fails(i).status OBVIOUS
  <1>3. Goes(i, [Fails(i) EXCEPT !.status = st, !.on = NoThread]) BY <1>2 DEF Unconfirmed
  <1>. HIDE DEF held
  <1>4. Fails(i).status = old.status BY FailsIs DEF EndedAs, Statuses
  <1>5. old.status \in {"none", "pending"} BY <1>1, FateOf DEF Fate
  <1>6. st \in {"unconfirmed", "none", "pending"} /\ st \in Statuses BY <1>2, <1>4, <1>5 DEF Statuses
  <1>7. PICK run : Goes(i, run) /\ run = [Fails(i) EXCEPT !.status = st, !.on = NoThread] BY <1>3
  <1>8. EndedAs(run, i, st, old.gaveUp) BY <1>6, <1>7, FailsIs
  <1>9. MaySay(i, st, old.gaveUp) BY <1>6 DEF MaySay
  <1>10. old.thread \in Threads BY <1>1, HoldersPlaced DEF Holding
  <1>. QED BY <1>1, <1>7, <1>8, <1>9, <1>10, RunEnds

\* An accepted input is in the turn it names, and its record keeps saying so.
LEMMA AcceptedSays ==
  ASSUME TurnInv, NEW i \in Inputs, input[i].at \in Accepted
  PROVE  /\ input[i].status = "accepted" /\ InTurn(hist, input[i].turn, i) /\ IsTurn(hist, input[i].turn)
         /\ MaySay(i, input[i].status, input[i].gaveUp)
         /\ input[i].at \in Holding /\ input[i].thread \in Threads /\ input[i].conv \in Convs
  <1>1. input[i].status = "accepted" /\ InTurn(hist, input[i].turn, i) BY FateOf DEF Fate, Accepted
  <1>2. input[i].at \in Holding BY DEF Accepted, Holding
  <1>. QED BY <1>1, <1>2, HoldersPlaced DEF InTurn, MaySay

\* The input's turn is no longer its concern: over, detached, or interrupted.
LEMMA AcceptedEnds ==
  ASSUME TurnInv, NEW i \in Inputs, input[i].at \in Accepted, NEW run, Goes(i, run), Finish(i),
         EndedAs(run, i, input[i].status, input[i].gaveUp), UNCHANGED <<hostVars, bindVars>>
  PROVE  TurnInv'
  <1>1. UNCHANGED <<hist, wire, answer, bindVars>> BY DEF hostVars
  <1>. QED BY <1>1, AcceptedSays, RunEnds

LEMMA EndsSafe ==
  ASSUME TurnInv, NEW i \in Inputs, CollectEnds(i) \/ Detached(i) \/ ConfirmTerminal(i)
  PROVE  TurnInv'
  <1>1. input[i].at \in Accepted /\ Finish(i) /\ UNCHANGED <<hostVars, bindVars>>
    BY DEF CollectEnds, Detached, ConfirmTerminal, At, Accepted
  <1>2. PICK run : Goes(i, run) /\ (run = Fails(i) \/ run = [Fails(i) EXCEPT !.on = NoThread])
    BY DEF CollectEnds, Detached, ConfirmTerminal
  <1>3. EndedAs(run, i, input[i].status, input[i].gaveUp) BY <1>2, FailsIs DEF Statuses
  <1>. QED BY <1>1, <1>2, <1>3, AcceptedEnds

LEMMA CancelledSafe ==
  ASSUME TurnInv, NEW i \in Inputs, Cancelled(i)
  PROVE  TurnInv'
  <1>. DEFINE old == input[i]
              u == old.turn
  <1>1. old.at = "collect" /\ hist' = Closed(u) /\ Finish(i) /\ UNCHANGED <<wire, answer, bindVars>> BY DEF Cancelled, At
  <1>2. old.at \in Accepted BY <1>1 DEF Accepted
  <1>3. old.status = "accepted" /\ IsTurn(hist, u) /\ MaySay(i, old.status, old.gaveUp) /\ old.thread \in Threads
    BY <1>2, AcceptedSays
  <1>4. PICK run : Goes(i, run) /\ run = [Fails(i) EXCEPT !.on = NoThread] BY DEF Cancelled
  <1>5. EndedAs(run, i, old.status, old.gaveUp) BY <1>4, FailsIs DEF Statuses
  <1>6. run \in Runs BY <1>5 DEF EndedAs
  <1>7. hist' \in Histories /\ Grows(hist, hist') /\ AddsNothing(hist, hist') /\ OneOpen' BY <1>1, <1>3, ClosedIs
  <1>8. /\ Fate(hist, wire, answer[i], run, i) /\ Placed(run, revision, since) /\ RunKnown(hist, run)
        /\ SeenRun(hist, run)
    BY <1>3, <1>5, EndedFits
  <1>9. HostInv'
    BY <1>7, <1>8, FateKept, <1>1, <1>4, <1>6, InputHost DEF AddsNothing, TurnInv, HostInv, HostTypes, OneRequest
  <1>10. BindInv' BY <1>1, <1>4, <1>6, <1>8, InputBind
  <1>11. /\ lease' \in [Threads -> Leases] /\ \A t \in Threads : LeaseFits(lease'[t], t, i, run)
         /\ GoodBound(hist, bound')
    BY <1>1, <1>3, FinishFits
  <1>12. watching' = watching BY <1>1 DEF bindVars
  <1>13. LeaseInv' BY <1>4, <1>6, <1>7, <1>8, <1>11, <1>12, InputLease
  <1>. QED BY <1>9, <1>10, <1>13 DEF TurnInv

\* markUncertain: the lease stays, of the turn the input was in.
LEMMA ObservationLostSafe ==
  ASSUME TurnInv, NEW i \in Inputs, ObservationLost(i)
  PROVE  TurnInv' /\ \A t \in Threads : lease[t].uncertain => lease'[t] # NoWriter
  <1>. DEFINE old == input[i]
              v == old.thread
  <1>1. /\ old.at \in {"collect", "watch"} /\ LeaseHolds(i) /\ lease' = [lease EXCEPT ![v].uncertain = TRUE]
        /\ UNCHANGED <<hist, wire, answer, bindVars>>
    BY DEF ObservationLost, At, hostVars
  <1>2. PICK run : run = [old EXCEPT !.at = "interrupted", !.on = NoThread] /\ Goes(i, run) BY DEF ObservationLost
  <1>3. old \in Runs /\ RunKnown(hist, old) BY FateOf
  <1>4. old.at \in Accepted BY <1>1 DEF Accepted
  <1>5. v \in Threads /\ old.conv \in Convs /\ old.status = "accepted" /\ InTurn(hist, old.turn, i) BY <1>4, AcceptedSays
  <1>6. /\ run \in Runs /\ run.at = "interrupted" /\ run.conv = old.conv /\ run.thread = v /\ run.seen = old.seen
        /\ run.held = old.held /\ run.base = old.base /\ run.do = old.do /\ run.status = "accepted" /\ run.turn = old.turn
    BY <1>2, <1>3, <1>5 DEF Runs
  <1>7. lease \in [Threads -> Leases] /\ lease[v] \in Leases /\ lease[v].who = i /\ MaybeTurn(hist, lease[v].turn)
    BY <1>1, <1>5 DEF TurnInv, LeaseInv, LeaseTypes, LeaseHolds, TurnsKnown
  <1>8. HeldBy(lease[v], v, old) BY <1>5, <1>7, TurnsAssumption DEF TurnInv, LeaseInv, LeasesKnown
  <1>9. PICK l : l = [lease[v] EXCEPT !.uncertain = TRUE] OBVIOUS
  <1>10. l \in Leases /\ l.who = i /\ l.turn = lease[v].turn /\ l.uncertain BY <1>7, <1>9 DEF Leases
  <1>11. lease' = [lease EXCEPT ![v] = l] BY <1>1, <1>9
  <1>12. lease' \in [Threads -> Leases] /\ lease'[v] = l /\ \A t \in Threads \ {v} : lease'[t] = lease[t]
    BY <1>5, <1>7, <1>10, <1>11
  <1>13. HeldBy(l, v, run) BY <1>4, <1>6, <1>8, <1>10 DEF HeldBy, Holding
  <1>14. LeaseFits(l, v, i, run) BY <1>7, <1>10, <1>13, TurnsAssumption DEF LeaseFits
  <1>15. ASSUME NEW t \in Threads \ {v} PROVE LeaseFits(lease[t], t, i, run)
    <2>1. lease[t] \in Leases /\ MaybeTurn(hist, lease[t].turn) /\ (lease[t].who = "none" => lease[t] = NoWriter)
          /\ (lease[t].who # "none" => HeldBy(lease[t], t, input[lease[t].who]))
      BY <1>7 DEF TurnInv, LeaseInv, TurnsKnown, LeasesKnown
    <2>2. lease[t].who # i
      <3>1. SUFFICES ASSUME lease[t].who = i PROVE FALSE OBVIOUS
      <3>2. HeldBy(lease[t], t, old) BY <2>1, <3>1, TurnsAssumption
      <3>. QED BY <3>2 DEF HeldBy
    <2>. QED BY <2>1, <2>2 DEF LeaseFits
  <1>16. GoodBound(hist, bound')
    <2>1. PICK u : u = IF bound[v].state.turn = NoTurn THEN lease[v].turn ELSE bound[v].state.turn OBVIOUS
    <2>2. bound' = [bound EXCEPT ![v] = Showing(bound[v], TRUE, u)] BY <2>1 DEF ObservationLost, Showing
    <2>3. GoodBinding(hist, bound[v]) BY <1>5, BoundIsGood
    <2>4. u \in TurnValues /\ MaybeTurn(hist, u) BY <1>7, <2>1, <2>3 DEF GoodBinding, Bindings, StateValues, Leases
    <2>5. GoodBinding(hist, Showing(bound[v], TRUE, u)) BY <2>3, <2>4, StateTurn
    <2>. QED BY <1>5, <2>2, <2>5, BoundBecomes
  <1>. HIDE DEF v
  <1>17. \A t \in Threads : LeaseFits(lease'[t], t, i, run) BY <1>12, <1>14, <1>15
  <1>18. Fate(hist, wire, answer'[i], run, i)
    BY <1>6, <1>1, <1>5, AcceptedFate DEF Accepted
  <1>19. Placed(run, revision, since) /\ RunKnown(hist, run) /\ SeenRun(hist, run)
    BY <1>3, <1>5, <1>6 DEF Placed, RunKnown, SeenRun
  <1>20. TurnInv' BY <1>1, <1>2, <1>6, <1>12, <1>16, <1>17, <1>18, <1>19, InputStep
  <1>21. \A t \in Threads : lease[t].uncertain => lease'[t] # NoWriter
    BY <1>10, <1>12, UncertainIs, ConstantTypes
  <1>. QED BY <1>20, <1>21
--------------------
(* The invariant, and what a step may release.                             *)

\* What releases an uncertain lease knows that its turn is over, or was read before that turn began.
ReleasesOver ==
  \A t \in Threads : lease[t].uncertain /\ lease'[t] = NoWriter /\ lease[t].turn[1] = t
     => Over(lease[t].turn) \/ ReadBefore(t, lease[t].turn)

LEMMA KeptIsEnough ==
  ASSUME TurnInv, \/ UNCHANGED lease
                  \/ \A t \in Threads : lease[t].uncertain => lease'[t] # NoWriter
                  \/ \A t \in Threads : lease[t].uncertain => lease'[t] = lease[t]
  PROVE  ReleasesOver
  BY UncertainIs DEF ReleasesOver

\* What an observer has read and not yet reported stays true: the turns up to the one it saw last are over, unless that
\* one was in progress.
SightingTrue(w) ==
  /\ IsTurn(hist, w.state.last) /\ w.state.last[1] = w.thread
  /\ ~w.state.active => \A n \in 1..w.state.last[2] : n \in DOMAIN hist[w.thread] /\ ~hist[w.thread][n].open
SightingsTrue == \A c \in Convs : watching[c] # NoIntent => SightingTrue(watching[c])

LEMMA SightingsGrow ==
  ASSUME TurnInv, SightingsTrue, Grows(hist, hist'),
         \A c \in Convs : watching'[c] # NoIntent => watching'[c] = watching[c]
  PROVE  SightingsTrue'
  <1>. SUFFICES ASSUME NEW c \in Convs, watching'[c] # NoIntent PROVE SightingTrue(watching[c])'
    BY DEF SightingsTrue, SightingTrue
  <1>. PICK w : w = watching[c] OBVIOUS
  <1>1. watching'[c] = w /\ SightingTrue(w) BY DEF SightingsTrue
  <1>2. w.thread \in Threads BY <1>1 DEF SightingTrue, IsTurn
  <1>3. IsTurn(hist', w.state.last) BY <1>1, GrownTurns DEF SightingTrue
  <1>4. ASSUME ~w.state.active, NEW n \in 1..w.state.last[2]
        PROVE  n \in DOMAIN hist'[w.thread] /\ ~hist'[w.thread][n].open
    BY <1>1, <1>2, <1>4 DEF SightingTrue, Grows
  <1>. QED BY <1>1, <1>3, <1>4 DEF SightingTrue

LEMMA ReadIsTrue ==
  ASSUME TurnInv, NEW t \in Threads, ThreadState(t).last # NoTurn
  PROVE  SightingTrue([thread |-> t, state |-> ThreadState(t)])
  <1>. DEFINE n == Len(hist[t])
  <1>1. HostTypes BY DEF TurnInv, HostInv
  <1>2. n \in Nat /\ DOMAIN hist[t] = 1..n BY <1>1, HistoryIs DEF HostTypes
  <1>3. ThreadState(t).last = <<t, n>> /\ n # 0 BY <1>1, <1>2, ThreadStateIs
  <1>4. ASSUME ~ThreadState(t).active, NEW m \in 1..n PROVE m \in DOMAIN hist[t] /\ ~hist[t][m].open
    BY <1>1, <1>3, <1>4, ThreadStateIs, <1>2 DEF TurnInv, HostInv, OneOpen
  <1>5. IsTurn(hist, <<t, n>>) BY <1>2, <1>3 DEF IsTurn
  <1>. HIDE DEF n
  <1>. QED BY <1>3, <1>4, <1>5 DEF SightingTrue

\* A report releases a lease whose turn is among those it saw over, or a later one.
LEMMA ReportReleases ==
  ASSUME TurnInv, SightingsTrue, NEW c \in Convs, ObserverReports(c)
  PROVE  ReleasesOver
  <1>. SUFFICES ASSUME NEW t \in Threads, lease[t].uncertain, lease'[t] = NoWriter, lease[t].turn[1] = t
                PROVE  Over(lease[t].turn) \/ ReadBefore(t, lease[t].turn)
    BY DEF ReleasesOver
  <1>. PICK w, l : w = watching[c] /\ l = lease[t] OBVIOUS
  <1>1. l # NoWriter /\ l.uncertain BY UncertainIs, ConstantTypes
  <1>2. w # NoIntent /\ watching'[c] = NoIntent /\ SightingTrue(w)
    BY DEF ObserverReports, SightingsTrue, TurnInv, BindInv, BindTypes
  <1>3. t = w.thread /\ ReconciledLease(l, w.state) = NoWriter
    <2>1. lease'[t] # lease[t] BY <1>1, ConstantTypes
    <2>2. PICK q : /\ lease' = [lease EXCEPT ![w.thread] = q]
                   /\ q = IF lease[w.thread] # NoWriter /\ lease[w.thread].uncertain
                          THEN ReconciledLease(lease[w.thread], w.state) ELSE lease[w.thread]
      BY <2>1 DEF ObserverReports
    <2>3. t = w.thread /\ q = NoWriter BY <2>1, <2>2 DEF TurnInv, LeaseInv, LeaseTypes
    <2>. QED BY <1>1, <2>2, <2>3
  <1>4. ~w.state.active /\ l.turn # NoTurn
    BY <1>1, <1>3 DEF NoWriter, TurnInv, LeaseInv, LeaseTypes, Leases, ReconciledLease, TerminalSeen
  <1>5. IsTurn(hist, l.turn) BY <1>4 DEF TurnInv, LeaseInv, TurnsKnown, MaybeTurn
  <1>6. w.state.last[2] \in Nat /\ l.turn[2] \in Nat \ {0}
    BY <1>2, <1>3, <1>5, HistoryIs DEF SightingTrue, IsTurn, TurnInv, HostInv, HostTypes
  <1>7. CASE l.turn[2] <= w.state.last[2]
    BY <1>6, <1>7, <1>2, <1>3, <1>4 DEF SightingTrue, Over
  <1>8. CASE w.state.last[2] < l.turn[2] BY <1>2, <1>3, <1>8 DEF ReadBefore
  <1>. QED BY <1>6, <1>7, <1>8

\* No step opens a turn again or takes one out of a history.
LEMMA StepGrows ==
  ASSUME TurnInv, TurnsNext
  PROVE  Grows(hist, hist')
  <1>. hist \in Histories /\ HostTypes BY DEF TurnInv, HostInv, HostTypes
  <1>1. ASSUME NEW r \in wire, Takes(r) PROVE Grows(hist, hist')
    <2>. PICK t, i : t = r.thread /\ i = r.input OBVIOUS
    <2>1. t \in Threads /\ i \in Inputs BY DEF TurnInv, HostInv, HostTypes, Requests
    <2>2. CASE r.do = "start" /\ ~ThreadState(t).active
      <3>1. hist' = TurnAdded(hist, t, [items |-> <<i>>, open |-> TRUE]) BY <1>1, <2>2 DEF Takes, TurnAdded
      <3>2. [items |-> <<i>>, open |-> TRUE] \in TurnRecords BY <2>1 DEF TurnRecords
      <3>. QED BY <2>1, <3>1, <3>2, TurnAppended
    <2>3. CASE r.do = "steer" /\ ThreadState(t).active /\ ThreadState(t).turn = r.turn
      <3>1. hist' = ItemAdded(hist, t, Len(hist[t]), i) BY <1>1, <2>3 DEF Takes, ItemAdded
      <3>2. Len(hist[t]) \in DOMAIN hist[t] BY <2>1, <2>3, ThreadStateIs, HistoryIs DEF HostTypes
      <3>. QED BY <2>1, <3>1, <3>2, ItemAppended
    <2>4. CASE ~(r.do = "start" /\ ~ThreadState(t).active)
               /\ ~(r.do = "steer" /\ ThreadState(t).active /\ ThreadState(t).turn = r.turn)
      BY <1>1, <2>4, HistoryKept DEF Takes
    <2>. QED BY <2>2, <2>3, <2>4
  <1>2. ASSUME NEW t \in Threads, TurnEnds(t) PROVE Grows(hist, hist')
    BY <1>2, ThreadStateIs, NoTurnIsNone, ClosedIs DEF TurnEnds, MaybeTurn
  <1>3. ASSUME NEW t \in Threads, AppStarts(t) PROVE Grows(hist, hist')
    <2>1. hist' = TurnAdded(hist, t, [items |-> <<>>, open |-> TRUE]) BY <1>3 DEF AppStarts, TurnAdded
    <2>2. [items |-> <<>>, open |-> TRUE] \in TurnRecords BY DEF TurnRecords
    <2>. QED BY <2>1, <2>2, TurnAppended
  <1>4. ASSUME NEW i \in Inputs, Cancelled(i) PROVE Grows(hist, hist')
    BY <1>4, AcceptedSays, ClosedIs DEF Cancelled, At, Accepted, InTurn
  <1>5. CASE \E r \in wire : WireDrops(r) BY <1>5, HistoryKept DEF WireDrops
  <1>6. CASE \E t \in Threads : ArchiveCodexThread(t) \/ ThreadArchived(t) \/ ThreadUnarchived(t)
    BY <1>6, HistoryKept DEF ArchiveCodexThread, ThreadArchived, ThreadUnarchived, hostVars
  <1>7. CASE \E c \in Convs : \/ UseCodexThread(c) \/ ClearCodexThread(c) \/ ObserverReports(c)
                              \/ \E t \in Threads : UseBegins(c, t) \/ ObserverReads(c, t)
    BY <1>7, HistoryKept DEF UseCodexThread, ClearCodexThread, ObserverReports, UseBegins, ObserverReads, hostVars
  <1>8. ASSUME NEW i \in Inputs,
               \/ \E c \in Convs, t \in Threads : Resolve(i, c, t)
               \/ BindsThread(i) \/ Admit(i) \/ LeaseResolved(i) \/ AttemptUnsaved(i) \/ WriteInput(i) \/ WriteRefused(i)
               \/ \E ok \in BOOLEAN : ReadsThread(i, ok) \/ Redispatch(i, ok) \/ SteerBaseline(i, ok) \/ Unconfirmed(i, ok)
        PROVE  Grows(hist, hist')
    BY <1>8, HistoryKept DEF Resolve, BindsThread, Admit, LeaseResolved, AttemptUnsaved, WriteInput, WriteRefused,
       ReadsThread, Redispatch, SteerBaseline, Unconfirmed, hostVars
  <1>9. ASSUME NEW i \in Inputs,
               \/ StartAccepted(i) \/ SteerAccepted(i) \/ AnsweredRace(i) \/ AnswerLost(i) \/ GiveUp(i) \/ Confirmed(i)
               \/ CollectEnds(i) \/ Detached(i) \/ ObservationLost(i) \/ ConfirmTerminal(i)
        PROVE  Grows(hist, hist')
    BY <1>9, HistoryKept DEF StartAccepted, SteerAccepted, AnsweredRace, AnswerLost, GiveUp, Confirmed, CollectEnds,
       Detached, ObservationLost, ConfirmTerminal, hostVars
  <1>. QED BY <1>1, <1>2, <1>3, <1>4, <1>5, <1>6, <1>7, <1>8, <1>9 DEF TurnsNext

\* Only an observer that reads adds a sighting.
LEMMA StepWatches ==
  ASSUME TurnInv, TurnsNext, ~(\E c \in Convs : ObserverReports(c) \/ \E t \in Threads : ObserverReads(c, t))
  PROVE  watching' = watching
  <1>1. CASE \/ \E r \in wire : Takes(r) \/ WireDrops(r)
             \/ \E t \in Threads : TurnEnds(t) \/ AppStarts(t)
    BY <1>1 DEF Takes, WireDrops, TurnEnds, AppStarts, bindVars
  <1>2. CASE \/ \E t \in Threads : ArchiveCodexThread(t) \/ ThreadArchived(t) \/ ThreadUnarchived(t)
             \/ \E c \in Convs : UseCodexThread(c) \/ ClearCodexThread(c) \/ \E t \in Threads : UseBegins(c, t)
    BY <1>2 DEF ArchiveCodexThread, ThreadArchived, ThreadUnarchived, UseCodexThread, ClearCodexThread, UseBegins
  <1>3. ASSUME NEW i \in Inputs,
               \/ \E c \in Convs, t \in Threads : Resolve(i, c, t)
               \/ BindsThread(i) \/ Admit(i) \/ LeaseResolved(i) \/ AttemptUnsaved(i) \/ WriteInput(i) \/ WriteRefused(i)
               \/ \E ok \in BOOLEAN : ReadsThread(i, ok) \/ Redispatch(i, ok) \/ SteerBaseline(i, ok) \/ Unconfirmed(i, ok)
        PROVE  watching' = watching
    BY <1>3 DEF Resolve, BindsThread, Admit, LeaseResolved, AttemptUnsaved, WriteInput, WriteRefused, ReadsThread,
       Redispatch, SteerBaseline, Unconfirmed, bindVars
  <1>4. ASSUME NEW i \in Inputs,
               \/ StartAccepted(i) \/ SteerAccepted(i) \/ AnsweredRace(i) \/ AnswerLost(i) \/ GiveUp(i) \/ Confirmed(i)
               \/ CollectEnds(i) \/ Cancelled(i) \/ Detached(i) \/ ObservationLost(i) \/ ConfirmTerminal(i)
        PROVE  watching' = watching
    BY <1>4 DEF StartAccepted, SteerAccepted, AnsweredRace, AnswerLost, GiveUp, Confirmed, CollectEnds, Cancelled,
       Detached, ObservationLost, ConfirmTerminal, bindVars
  <1>. QED BY <1>1, <1>2, <1>3, <1>4 DEF TurnsNext

LEMMA SightingsStayTrue ==
  ASSUME TurnInv, SightingsTrue, TurnsNext
  PROVE  SightingsTrue'
  <1>1. Grows(hist, hist') BY StepGrows
  <1>2. CASE \E c \in Convs : ObserverReports(c)
    BY <1>1, <1>2, SightingsGrow DEF ObserverReports, TurnInv, BindInv, BindTypes
  <1>3. ASSUME NEW c \in Convs, NEW t \in Threads, ObserverReads(c, t) PROVE SightingsTrue'
    <2>. PICK w : w = [thread |-> t, state |-> ThreadState(t)] OBVIOUS
    <2>1. watching' = [watching EXCEPT ![c] = w] /\ hist' = hist BY <1>3 DEF ObserverReads, hostVars
    <2>2. SightingTrue(w) BY <1>3, ReadIsTrue DEF ObserverReads
    <2>3. \A d \in Convs : watching'[d] = w \/ watching'[d] = watching[d] BY <2>1 DEF TurnInv, BindInv, BindTypes
    <2>. QED BY <2>1, <2>2, <2>3 DEF SightingsTrue, SightingTrue, IsTurn
  <1>4. CASE ~(\E c \in Convs : ObserverReports(c) \/ \E t \in Threads : ObserverReads(c, t))
    BY <1>1, <1>4, StepWatches, SightingsGrow
  <1>. QED BY <1>2, <1>3, <1>4

\* A finished input releases an uncertain lease only when it was interrupted and its turn is over.
LEMMA FinishReleases ==
  ASSUME TurnInv, NEW i \in Inputs, input[i].at \in Holding, Finish(i),
         input[i].at = "interrupted" => Over(input[i].turn)
  PROVE  ReleasesOver
  <1>. SUFFICES ASSUME NEW t \in Threads, lease[t].uncertain, lease'[t] = NoWriter PROVE Over(lease[t].turn)
    BY DEF ReleasesOver
  <1>1. lease[t].who = i BY HoldersPlaced, FinishFits, UncertainIs
  <1>2. input[i].at = "interrupted" /\ lease[t].turn = input[i].turn BY <1>1, UncertainIs
  <1>. QED BY <1>2

LEMMA TurnsInitSafe == TurnsInit => TurnInv
  <1>. SUFFICES ASSUME TurnsInit PROVE TurnInv OBVIOUS
  <1>1. /\ hist = [t \in Threads |-> <<>>] /\ wire = {} /\ answer = [i \in Inputs |-> NoAnswer]
        /\ sel = [c \in Convs |-> NoThread] /\ route = [c \in Convs |-> NoThread]
        /\ revision = [c \in Convs |-> 0] /\ ownerRevision = [c \in Convs |-> 0]
        /\ life = [t \in Threads |-> [rev |-> 0, archived |-> FALSE]]
        /\ bound = [t \in Threads |-> NoBinding] /\ lease = [t \in Threads |-> NoWriter]
        /\ input = [i \in Inputs |-> FreshRun]
        /\ using = [c \in Convs |-> NoIntent] /\ watching = [c \in Convs |-> NoIntent] /\ since = [c \in Convs |-> {}]
    BY DEF TurnsInit, NoBinding
  <1>2. /\ FreshRun.at = "new" /\ FreshRun.status = "none" /\ ~FreshRun.gaveUp /\ FreshRun.seen = IdleState
        /\ FreshRun.held = NoWriter /\ FreshRun.do = "none" /\ FreshRun \in Runs
    BY ConstantTypes DEF FreshRun
  <1>3. \A t \in Threads : hist[t] = <<>> /\ DOMAIN hist[t] = {} BY <1>1
  <1>4. HostInv
    <2>1. hist \in Histories /\ OneOpen BY <1>1, <1>3 DEF Histories, OneOpen
    <2>2. HostTypes /\ input \in [Inputs -> Runs] BY <1>1, <1>2, <2>1 DEF HostTypes, Answers
    <2>3. \A i \in Inputs : Unwritten(hist, i) /\ ~OnWire(wire, i) BY <1>1, <1>3 DEF Unwritten, Has, OnWire
    <2>4. NoAnswer.kind = "none" BY DEF NoAnswer
    <2>5. \A i \in Inputs : input[i] = FreshRun /\ answer[i] = NoAnswer BY <1>1
    <2>6. Fates BY <1>2, <2>3, <2>4, <2>5 DEF Fates, Fate, Unsent
    <2>7. OneRequest /\ OnePlace BY <1>1, <1>3 DEF OneRequest, OnePlace, Has
    <2>. QED BY <2>1, <2>2, <2>6, <2>7 DEF HostInv
  <1>5. BindInv BY <1>1, <1>2 DEF BindTypes, IntentsKnown, SelectionsCurrent, BindInv
  <1>6. LeaseInv
    BY NoBindingIsGood, <1>1, ConstantTypes, <1>2 DEF LeaseTypes, GoodBinding, TurnsKnown, RunKnown, MaybeTurn, LeasesKnown,
       SeenOver, SeenRun, LeaseInv
  <1>. QED BY <1>4, <1>5, <1>6 DEF TurnInv

LEMMA HostStepSafe ==
  ASSUME TurnInv, \/ \E r \in wire : Takes(r) \/ WireDrops(r)
                  \/ \E t \in Threads : TurnEnds(t) \/ AppStarts(t)
  PROVE  TurnInv' /\ ReleasesOver
  <1>1. UNCHANGED lease BY DEF Takes, WireDrops, TurnEnds, AppStarts
  <1>. QED BY <1>1, TakesSafe, WireDropsSafe, TurnEndsSafe, AppStartsSafe, KeptIsEnough

LEMMA BindStepSafe ==
  ASSUME TurnInv, \/ \E t \in Threads : ArchiveCodexThread(t) \/ ThreadArchived(t) \/ ThreadUnarchived(t)
                  \/ \E c \in Convs : \/ UseCodexThread(c) \/ ClearCodexThread(c)
                                      \/ \E t \in Threads : UseBegins(c, t) \/ ObserverReads(c, t)
  PROVE  TurnInv' /\ ReleasesOver
  <1>1. UNCHANGED lease
    BY DEF ArchiveCodexThread, ThreadArchived, ThreadUnarchived, UseCodexThread, ClearCodexThread, UseBegins, ObserverReads
  <1>. QED BY <1>1, ArchivesSafe, ThreadUnarchivedSafe, UseCodexThreadSafe, ClearCodexThreadSafe, UseBeginsSafe,
              ObserverReadsSafe, KeptIsEnough

LEMMA UnsentStepSafe ==
  ASSUME TurnInv, NEW i \in Inputs,
         \/ \E c \in Convs, t \in Threads : Resolve(i, c, t)
         \/ BindsThread(i) \/ Admit(i) \/ LeaseResolved(i)
         \/ \E ok \in BOOLEAN : ReadsThread(i, ok) \/ Redispatch(i, ok) \/ SteerBaseline(i, ok)
  PROVE  TurnInv' /\ ReleasesOver
  <1>1. CASE \E c \in Convs, t \in Threads : Resolve(i, c, t)
    BY <1>1, ResolveSafe, KeptIsEnough DEF Resolve
  <1>2. CASE BindsThread(i) BY <1>2, BindsThreadSafe DEF ReleasesOver, Ended, Over
  <1>3. CASE Admit(i) BY <1>3, AdmitSafe, KeptIsEnough
  <1>4. CASE LeaseResolved(i) BY <1>4, LeaseResolvedSafe, KeptIsEnough
  <1>5. CASE \E ok \in BOOLEAN : ReadsThread(i, ok) \/ Redispatch(i, ok) \/ SteerBaseline(i, ok)
    BY <1>5, ReadsThreadSafe, RedispatchSafe, SteerBaselineSafe, KeptIsEnough
  <1>. QED BY <1>1, <1>2, <1>3, <1>4, <1>5

LEMMA SentStepSafe ==
  ASSUME TurnInv, NEW i \in Inputs,
         \/ AttemptUnsaved(i) \/ WriteInput(i) \/ WriteRefused(i) \/ StartAccepted(i) \/ SteerAccepted(i) \/ AnsweredRace(i)
         \/ AnswerLost(i) \/ GiveUp(i) \/ Confirmed(i)
         \/ \E ok \in BOOLEAN : Unconfirmed(i, ok)
  PROVE  TurnInv' /\ ReleasesOver
  <1>1. CASE AttemptUnsaved(i) \/ WriteRefused(i) \/ AnsweredRace(i) \/ GiveUp(i) \/ \E ok \in BOOLEAN : Unconfirmed(i, ok)
    BY <1>1, FinishReleases, AttemptUnsavedSafe, WriteRefusedSafe, AnsweredRaceSafe, GiveUpSafe, UnconfirmedSafe DEF
       AttemptUnsaved, WriteRefused, AnsweredRace, GiveUp, Unconfirmed, At, Holding
  <1>2. CASE WriteInput(i) BY <1>2, WriteInputSafe, KeptIsEnough
  <1>3. CASE StartAccepted(i) BY <1>3, StartAcceptedSafe, KeptIsEnough
  <1>4. CASE SteerAccepted(i) BY <1>4, SteerAcceptedSafe, KeptIsEnough
  <1>5. CASE AnswerLost(i) BY <1>5, AnswerLostSafe, KeptIsEnough
  <1>6. CASE Confirmed(i) BY <1>6, ConfirmedSafe, KeptIsEnough
  <1>. QED BY <1>1, <1>2, <1>3, <1>4, <1>5, <1>6

LEMMA EndStepSafe ==
  ASSUME TurnInv, NEW i \in Inputs,
         CollectEnds(i) \/ Cancelled(i) \/ Detached(i) \/ ObservationLost(i) \/ ConfirmTerminal(i)
  PROVE  TurnInv' /\ ReleasesOver
  <1>1. CASE CollectEnds(i) \/ Cancelled(i) \/ Detached(i) \/ ConfirmTerminal(i)
    BY <1>1, FinishReleases, EndsSafe, CancelledSafe DEF CollectEnds, Cancelled, Detached, ConfirmTerminal, At, Accepted,
       Holding
  <1>2. CASE ObservationLost(i) BY <1>2, ObservationLostSafe, KeptIsEnough
  <1>. QED BY <1>1, <1>2

LEMMA TurnsNextSafe ==
  ASSUME TurnInv, SightingsTrue, [TurnsNext]_turnVars
  PROVE  TurnInv' /\ SightingsTrue' /\ ReleasesOver
  <1>1. CASE UNCHANGED turnVars
    BY <1>1, HostUntouched, BindUntouched, HistoryKept, LeaseGrows, KeptIsEnough, SightingsGrow DEF turnVars, hostVars,
       bindVars, TurnInv
  <1>2. CASE TurnsNext
    BY HostStepSafe, BindStepSafe, ObserverReportsSafe, ReportReleases, UnsentStepSafe, SentStepSafe, EndStepSafe, <1>2,
       SightingsStayTrue DEF TurnsNext
  <1>. QED BY <1>1, <1>2

\* The history and the attempt record say the same.
LEMMA InvariantSays ==
  ASSUME TurnInv
  PROVE  AttemptsSound /\ SelectionsCurrent
  <1>1. ASSUME NEW i \in Inputs, NEW p \in Occurrences(i)
        PROVE  /\ p[1] \in Threads /\ Has(hist, p[1], p[2], p[3], i) /\ p = <<p[1], p[2], p[3]>>
    BY <1>1 DEF Occurrences, Places, Has
  <1>2. WrittenOnce
    <2>. SUFFICES ASSUME NEW i \in Inputs, NEW p \in Occurrences(i), NEW q \in Occurrences(i) PROVE p = q
      BY DEF WrittenOnce
    <2>1. p[1] = q[1] /\ p[2] = q[2] /\ p[3] = q[3] BY <1>1 DEF TurnInv, HostInv, OnePlace
    <2>. QED BY <1>1, <2>1
  <1>3. AttemptsTrue
    <2>. SUFFICES ASSUME NEW i \in Inputs
                  PROVE  /\ input[i].status = "accepted" => CountIn(input[i].turn, i) > 0
                         /\ input[i].status = "rejected" /\ ~input[i].gaveUp => Occurrences(i) = {}
      BY DEF AttemptsTrue
    <2>1. Fate(hist, wire, answer[i], input[i], i) /\ HostTypes BY FateOf DEF TurnInv, HostInv
    <2>2. ASSUME input[i].status = "accepted" PROVE CountIn(input[i].turn, i) > 0
      BY <2>1, <2>2, TurnIsValue, CountIs DEF Fate, InTurn
    <2>3. ASSUME input[i].status = "rejected", ~input[i].gaveUp PROVE Occurrences(i) = {}
      BY <2>1, <2>3, <1>1 DEF Fate, Unwritten
    <2>. QED BY <2>2, <2>3
  <1>4. SelectionsCurrent BY DEF TurnInv, BindInv
  <1>. QED BY <1>2, <1>3, <1>4 DEF AttemptsSound

\* The inductive invariant: types, the fate of every input, one place for each, what every lease stands for, and what
\* every observer has read.
THEOREM TurnInvariant == TurnsSpec => [](TurnInv /\ SightingsTrue)
  <1>1. TurnsInit => TurnInv /\ SightingsTrue BY TurnsInitSafe DEF TurnsInit, SightingsTrue
  <1>2. TurnInv /\ SightingsTrue /\ [TurnsNext]_turnVars => (TurnInv /\ SightingsTrue)' BY TurnsNextSafe
  <1>. QED BY <1>1, <1>2, PTL DEF TurnsSpec

\* Unknown delivery is never retried blindly: an input is in the history at most once, and the attempt record is true,
\* whatever answers are lost (agent/codex_input_delivery.go).
THEOREM AttemptsAreTrue == TurnsSpec => []AttemptsSound
  <1>1. TurnInv => AttemptsSound BY InvariantSays
  <1>. QED BY <1>1, TurnInvariant, PTL

\* A late answer selects nothing: a conversation has only a thread asked for since it was last cleared, and never an
\* archived one (agent/codex_binding_intent.go).
THEOREM SelectionsStayCurrent == TurnsSpec => []SelectionsCurrent
  <1>1. TurnInv => SelectionsCurrent BY InvariantSays
  <1>. QED BY <1>1, TurnInvariant, PTL

\* A lease whose turn is no longer observed is released by a resolution, by the task's proven end or by an observer's
\* report, and its turn is over then, unless the report was read before that turn began (agent/codex_runtime_lease.go).
THEOREM LeaseOutlivesTurn == TurnsSpec => UncertainLeaseKept
  <1>1. TurnInv /\ SightingsTrue /\ [TurnsNext]_turnVars => [ReleasesOver]_turnVars BY TurnsNextSafe
  <1>2. [ReleasesOver]_turnVars
        => [\A t \in Threads : lease[t].uncertain /\ lease'[t] = NoWriter /\ lease[t].turn[1] = t
              => Over(lease[t].turn) \/ ReadBefore(t, lease[t].turn)]_turnVars
    BY DEF ReleasesOver
  <1>. QED BY <1>1, <1>2, TurnInvariant, PTL DEF TurnsSpec, UncertainLeaseKept
===============================================================================
