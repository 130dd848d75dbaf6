------------------------- MODULE InteractionsSafety -------------------------
(***************************************************************************)
(* One answer, and the one that was taken: proofs about Interactions.      *)
(* What a service command leaves behind: proofs about ServiceUpgrade.      *)
(***************************************************************************)
EXTENDS Interactions, ServiceUpgrade, FiniteSetTheorems, TLAPS

--------------------
(* The invariant.                                                          *)

States == {"pending", "submitting", "resolved", "terminal"}
Choices == Decisions \cup {NoChoice}
Stages == {"idle", "checked", "registered", "asking", "waiting", "submit", "responding", "written"}
Hands == [stage : Stages, r : Requests \cup {NoRequest}, res : Nat, resolved : BOOLEAN, choice : Choices,
          decision : Choices, told : Choices, dead : BOOLEAN]
Loops == [stage : {"off", "replaying", "idle", "busy"}, target : Nat, replay : SUBSET Requests, detached : BOOLEAN,
          cancelled : BOOLEAN, switching : BOOLEAN, h : Hands]
TableSet == [remembered : SUBSET Requests, brokerOf : [Requests -> Nat], bound : [Requests -> Nat],
             broker : [Requests -> Seq(States)], revived : SUBSET Requests]
Answers == [decision : Choices, told : Choices, dead : BOOLEAN]

Types ==
  /\ turn \in [n : Nat \ {0}, running : BOOLEAN]
  /\ req \in [Requests -> [turn : Nat, kind : {"approval", "question"}, open : BOOLEAN, noticed : BOOLEAN]]
  /\ Tables \in TableSet
  /\ mail \in [Frontends -> Seq(Requests \cup {Ended})]
  /\ fe \in [Frontends -> Loops]
  /\ yolo \subseteq Frontends
  /\ answers \in [Requests -> Seq(Answers)]
  /\ modes \in Nat

\* Every request anybody holds has been asked and is bound to a broker of its own.
InRange(t) == \A r \in Requests : t.bound[r] <= Len(t.broker[r]) /\ t.brokerOf[r] <= Len(t.broker[r])
Known(q, r) == q[r].turn # 0
MailKnown(m, q) == \A f \in Frontends : \A i \in DOMAIN m[f] : m[f][i] \in Requests => Known(q, m[f][i])
LoopKnown(l, q, t) ==
  /\ \A r \in l.replay : Known(q, r)
  /\ l.h.stage # "idle" => l.h.r \in Requests /\ Known(q, l.h.r) /\ l.h.res \in 1..Len(t.broker[l.h.r])
TablesKnown(t, q) ==
  /\ InRange(t)
  /\ \A r \in Requests : t.bound[r] # 0 <=> Known(q, r)
  /\ \A r \in t.remembered : Known(q, r)
Held == TablesKnown(Tables, req) /\ MailKnown(mail, req) /\ \A f \in Frontends : LoopKnown(fe[f], req, Tables)

\* The tables about one request that was never given back after its end: it has one broker, it is forgotten only when it is
\* answered or closed, and while it may still be submitted it is not answered and nobody has been told of its end.
OneBroker(t, r, ans, noticed) ==
  /\ Len(t.broker[r]) <= 1 /\ t.bound[r] = Len(t.broker[r]) /\ t.brokerOf[r] \in {0, t.bound[r]}
  /\ t.brokerOf[r] # 0 => r \in t.remembered
  /\ t.brokerOf[r] = 0 /\ t.bound[r] = 1 => ans # <<>> \/ Closed(t.broker[r][1])
  /\ Len(ans) <= 1
  /\ t.bound[r] = 0 => ans = <<>> /\ ~noticed
  /\ t.bound[r] = 1 /\ t.broker[r][1] = "pending" => ans = <<>> /\ ~noticed
  /\ t.bound[r] = 1 /\ t.broker[r][1] = "submitting" /\ noticed => ans # <<>>

\* At most one front end is in the middle of an answer, through the request's only broker.
InFlight(h, r) == h.r = r /\ h.stage \in {"responding", "written"}
Flight(t, a, h, r) == t.bound[r] = 1 /\ t.broker[r][1] # "pending" /\ (h.stage = "responding" => a[r] = <<>>)
OneFlight(r) ==
  /\ \A f \in Frontends : InFlight(fe[f].h, r) =>
       Flight(Tables, answers, fe[f].h, r) /\ fe[f].h.res = 1 /\ (fe[f].h.stage = "responding" => ~fe[f].h.dead)
  /\ \A f, g \in Frontends : InFlight(fe[f].h, r) /\ InFlight(fe[g].h, r) => f = g

Alive(a, r) == \A i \in DOMAIN a[r] : ~a[r][i].dead
OneAnswer(r) == OneBroker(Tables, r, answers[r], req[r].noticed) /\ OneFlight(r) /\ Alive(answers, r)
Unrevived == \A r \in Requests : r \notin revived => OneAnswer(r)

\* What the user was told is what the handler holds; the mode can only have changed by a command.
HandTrue(f, h) ==
  /\ h.told # NoChoice => h.resolved /\ h.choice = h.told
  /\ h.stage \in {"submit", "responding", "written"} /\ h.told # NoChoice =>
       h.decision = h.told \/ (h.decision = "allow" /\ modes > 0)
  /\ h.stage \in {"checked", "registered"} /\ f \in yolo /\ Approval(h.r) => modes > 0
HandsTrue == \A f \in Frontends : HandTrue(f, fe[f].h)

InteractionInv == Types /\ Held /\ Unrevived /\ HandsTrue /\ AcceptedIsSent /\ YoloLeavesNoneWaiting

--------------------
(* The helpers of the tables.                                              *)

LEMMA TablesAre ==
  ASSUME NEW t \in TableSet, SetTables(t)
  PROVE  Tables' = t
  BY DEF SetTables, Tables, TableSet

LEMMA TablesStay ==
  ASSUME UNCHANGED <<remembered, brokerOf, bound, broker, revived>>
  PROVE  Tables' = Tables
  BY DEF Tables

\* Remembering keeps what a request has, unless it was closed and so is revived.
LEMMA RememberSound ==
  ASSUME NEW t \in TableSet, InRange(t), NEW rs \in SUBSET Requests, NEW u, u = Remember(t, rs)
  PROVE  /\ u \in TableSet /\ InRange(u)
         /\ u.remembered = t.remembered \cup rs /\ t.revived \subseteq u.revived
         /\ \A r \in Requests : u.bound[r] # 0 <=> t.bound[r] # 0 \/ r \in rs
         /\ \A r \in Requests : Len(t.broker[r]) <= Len(u.broker[r])
         /\ \A r \in Requests, noticed \in BOOLEAN :
              r \notin u.revived /\ OneBroker(t, r, answers[r], noticed) /\ (r \in rs => t.bound[r] # 0)
                => OneBroker(u, r, answers[r], noticed) /\ u.broker[r] = t.broker[r] /\ u.bound[r] = t.bound[r]
<1> DEFINE fresh == {r \in rs : t.brokerOf[r] = 0}
           key(r) == IF r \in fresh THEN Len(t.broker[r]) + 1 ELSE t.brokerOf[r]
<1>1. /\ t.remembered \in SUBSET Requests /\ t.revived \in SUBSET Requests /\ t.brokerOf \in [Requests -> Nat]
      /\ t.bound \in [Requests -> Nat] /\ t.broker \in [Requests -> Seq(States)]
  BY DEF TableSet
<1>2. /\ u.remembered = t.remembered \cup rs
      /\ u.brokerOf = [r \in Requests |-> IF r \in rs THEN key(r) ELSE t.brokerOf[r]]
      /\ u.bound = [r \in Requests |-> IF r \in rs THEN key(r) ELSE t.bound[r]]
      /\ u.broker = [r \in Requests |-> IF r \in fresh THEN Append(t.broker[r], "pending") ELSE t.broker[r]]
      /\ u.revived = t.revived \cup {r \in rs : Done(t, r)}
      /\ u = [remembered |-> u.remembered, brokerOf |-> u.brokerOf, bound |-> u.bound, broker |-> u.broker, revived |-> u.revived]
  BY DEF Remember
<1>3. \A r \in Requests : key(r) \in Nat /\ Len(t.broker[r]) \in Nat /\ Append(t.broker[r], "pending") \in Seq(States)
                           /\ Len(Append(t.broker[r], "pending")) = Len(t.broker[r]) + 1
  BY <1>1 DEF States
<1>4. u \in TableSet
  <2>1. u.brokerOf \in [Requests -> Nat] /\ u.bound \in [Requests -> Nat]
    BY <1>1, <1>2, <1>3
  <2>2. u.broker \in [Requests -> Seq(States)] BY <1>1, <1>2, <1>3
  <2>3. u.remembered \in SUBSET Requests /\ u.revived \in SUBSET Requests BY <1>1, <1>2
  <2> QED BY <1>2, <2>1, <2>2, <2>3 DEF TableSet
<1>5. InRange(u) BY <1>1, <1>2, <1>3 DEF InRange
<1>6. \A r \in Requests : u.bound[r] # 0 <=> t.bound[r] # 0 \/ r \in rs
  BY <1>1, <1>3, <1>2
<1>7. \A r \in Requests : Len(t.broker[r]) <= Len(u.broker[r]) BY <1>1, <1>2, <1>3
<1>8. ASSUME NEW r \in Requests, NEW noticed \in BOOLEAN, r \notin u.revived, OneBroker(t, r, answers[r], noticed),
             r \in rs => t.bound[r] # 0
      PROVE  OneBroker(u, r, answers[r], noticed) /\ u.broker[r] = t.broker[r] /\ u.bound[r] = t.bound[r]
  <2>1. CASE r \notin rs BY <1>1, <1>2, <1>8, <2>1 DEF OneBroker
  <2>2. CASE r \in rs
    <3>1. Len(t.broker[r]) = 1 /\ t.bound[r] = 1 /\ 1 \in DOMAIN t.broker[r]
      <4>1. t.broker[r] \in Seq(States) /\ Len(t.broker[r]) \in Nat /\ DOMAIN t.broker[r] = 1..Len(t.broker[r])
        BY <1>1
      <4>2. Len(t.broker[r]) <= 1 /\ t.bound[r] = Len(t.broker[r]) /\ t.bound[r] # 0
        BY <1>8, <2>2 DEF OneBroker
      <4>3. Len(t.broker[r]) = 1
        <5> DEFINE n == Len(t.broker[r])
        <5>1. n \in Nat /\ n <= 1 /\ n # 0 BY <4>1, <4>2
        <5> HIDE DEF n
        <5>2. n = 1 BY <5>1
        <5> QED BY <5>2 DEF n
      <4> QED BY <4>1, <4>2, <4>3
    <3>2. ~Done(t, r) BY <1>2, <1>8, <2>2
    <3>3. answers[r] = <<>> /\ ~Closed(t.broker[r][1]) BY <3>1, <3>2 DEF Done
    <3>4. t.brokerOf[r] = 1 BY <1>8, <3>1, <3>3 DEF OneBroker
    <3>5. u.broker[r] = t.broker[r] /\ u.bound[r] = 1 /\ u.brokerOf[r] = 1 /\ r \in u.remembered
      BY <1>2, <2>2, <3>4
    <3> QED BY <1>8, <3>1, <3>3, <3>4, <3>5 DEF OneBroker
  <2> QED BY <2>1, <2>2
<1> QED BY <1>2, <1>4, <1>5, <1>6, <1>7, <1>8

\* Forgetting touches one request, which must be answered or closed.
LEMMA ForgetSound ==
  ASSUME NEW t \in TableSet, InRange(t), NEW x \in Requests, NEW u, u = Forget(t, x)
  PROVE  /\ u \in TableSet /\ InRange(u) /\ u.remembered \subseteq t.remembered
         /\ u.bound = t.bound /\ u.broker = t.broker /\ u.revived = t.revived
         /\ \A ans : \A r \in Requests, noticed \in BOOLEAN :
              OneBroker(t, r, ans, noticed) /\ (r = x => ans # <<>> \/ (t.bound[x] = 1 /\ Closed(t.broker[x][1])))
                => OneBroker(u, r, ans, noticed)
<1>1. /\ t.remembered \in SUBSET Requests /\ t.revived \in SUBSET Requests /\ t.brokerOf \in [Requests -> Nat]
      /\ t.bound \in [Requests -> Nat] /\ t.broker \in [Requests -> Seq(States)]
  BY DEF TableSet
<1> DEFINE k == IF t.brokerOf[x] = t.bound[x] THEN 0 ELSE t.brokerOf[x]
<1>2. u = [t EXCEPT !.remembered = t.remembered \ {x}, !.brokerOf = [t.brokerOf EXCEPT ![x] = k]]
  BY <1>1 DEF Forget, TableSet
<1>3. k \in Nat /\ k <= Len(t.broker[x]) BY <1>1 DEF InRange
<1>4. /\ u.remembered = t.remembered \ {x} /\ u.brokerOf = [t.brokerOf EXCEPT ![x] = k]
      /\ u.bound = t.bound /\ u.broker = t.broker /\ u.revived = t.revived
  BY <1>2 DEF TableSet
<1> HIDE DEF k
<1>5. u \in TableSet
  <2>1. [t.brokerOf EXCEPT ![x] = k] \in [Requests -> Nat] /\ t.remembered \ {x} \in SUBSET Requests
    BY <1>1, <1>3
  <2> QED BY <1>1, <1>2, <2>1 DEF TableSet
<1>6. InRange(u) BY <1>1, <1>3, <1>4 DEF InRange
<1>7. ASSUME NEW r \in Requests, NEW ans, NEW noticed \in BOOLEAN, OneBroker(t, r, ans, noticed),
             r = x => ans # <<>> \/ (t.bound[x] = 1 /\ Closed(t.broker[x][1]))
      PROVE  OneBroker(u, r, ans, noticed)
  BY <1>1, <1>4, <1>7 DEF OneBroker, k
<1> QED BY <1>4, <1>5, <1>6, <1>7

\* A broker of one request changes its state.
Marked(t, x, k, s) == [t EXCEPT !.broker[x][k] = s]
LEMMA MarkSound ==
  ASSUME NEW t \in TableSet, InRange(t), NEW x \in Requests, NEW k, k \in 1..Len(t.broker[x]), NEW s \in States,
         NEW u, u = Marked(t, x, k, s)
  PROVE  /\ u \in TableSet /\ InRange(u) /\ u.remembered = t.remembered /\ u.brokerOf = t.brokerOf
         /\ u.bound = t.bound /\ u.revived = t.revived
         /\ \A r \in Requests : Len(u.broker[r]) = Len(t.broker[r]) /\ (r # x => u.broker[r] = t.broker[r])
         /\ u.broker[x][k] = s
         /\ \A ans : \A r \in Requests, noticed \in BOOLEAN :
              r # x /\ OneBroker(t, r, ans, noticed) => OneBroker(u, r, ans, noticed)
<1>1. /\ t.remembered \in SUBSET Requests /\ t.revived \in SUBSET Requests /\ t.brokerOf \in [Requests -> Nat]
      /\ t.bound \in [Requests -> Nat] /\ t.broker \in [Requests -> Seq(States)]
  BY DEF TableSet
<1> DEFINE b == [t.broker[x] EXCEPT ![k] = s]
<1>2. u = [t EXCEPT !.broker = [t.broker EXCEPT ![x] = b]] BY <1>1 DEF Marked, TableSet
<1>3. b \in Seq(States) /\ Len(b) = Len(t.broker[x]) /\ b[k] = s BY <1>1
<1> HIDE DEF b
<1>4. /\ u.remembered = t.remembered /\ u.brokerOf = t.brokerOf /\ u.bound = t.bound /\ u.revived = t.revived
      /\ u.broker = [t.broker EXCEPT ![x] = b]
  BY <1>2 DEF TableSet
<1>5. u \in TableSet BY <1>1, <1>2, <1>3 DEF TableSet
<1>6. \A r \in Requests : Len(u.broker[r]) = Len(t.broker[r]) /\ (r # x => u.broker[r] = t.broker[r])
  BY <1>1, <1>3, <1>4
<1>7. InRange(u) /\ u.broker[x][k] = s BY <1>1, <1>3, <1>4, <1>6 DEF InRange
<1>8. \A ans : \A r \in Requests, noticed \in BOOLEAN : r # x /\ OneBroker(t, r, ans, noticed) => OneBroker(u, r, ans, noticed)
  BY <1>4, <1>6 DEF OneBroker
<1> QED BY <1>4, <1>5, <1>6, <1>7, <1>8

--------------------
(* Tables that keep the invariant, whoever else is in flight.              *)

Good(S, q, a, t) ==
  /\ t \in TableSet /\ TablesKnown(t, q) /\ revived \subseteq t.revived
  /\ \A r \in Requests : Len(broker[r]) <= Len(t.broker[r])
  /\ \A r \in Requests \ t.revived :
       /\ OneBroker(t, r, a[r], q[r].noticed) /\ Alive(a, r)
       /\ \A g \in S : InFlight(fe[g].h, r) => Flight(t, a, fe[g].h, r)

Asks == [Requests -> [turn : Nat, kind : {"approval", "question"}, open : BOOLEAN, noticed : BOOLEAN]]

LEMMA TablesFields ==
  /\ Tables.remembered = remembered /\ Tables.brokerOf = brokerOf /\ Tables.bound = bound
  /\ Tables.broker = broker /\ Tables.revived = revived
  BY DEF Tables

LEMMA GoodNow ==
  ASSUME InteractionInv, NEW S \in SUBSET Frontends
  PROVE  Good(S, req, answers, Tables)
<1>1. Tables \in TableSet /\ TablesKnown(Tables, req) BY DEF InteractionInv, Types, Held
<1>2. broker \in [Requests -> Seq(States)] BY <1>1, TablesFields DEF TableSet
<1>3. \A r \in Requests : Len(broker[r]) <= Len(Tables.broker[r]) BY <1>2, TablesFields
<1>4. ASSUME NEW r \in Requests \ Tables.revived
      PROVE  /\ OneBroker(Tables, r, answers[r], req[r].noticed) /\ Alive(answers, r)
             /\ \A g \in S : InFlight(fe[g].h, r) => Flight(Tables, answers, fe[g].h, r)
  BY <1>4, TablesFields DEF InteractionInv, Unrevived, OneAnswer, OneFlight
<1> QED BY <1>1, <1>3, <1>4, TablesFields DEF Good

LEMMA GoodRemember ==
  ASSUME NEW S, NEW t, Good(S, req, answers, t), req \in Asks, broker \in [Requests -> Seq(States)],
         NEW rs \in SUBSET Requests, \A r \in rs : Known(req, r)
  PROVE  Good(S, req, answers, Remember(t, rs))
<1> DEFINE u == Remember(t, rs)
<1>1. t \in TableSet /\ InRange(t) /\ (\A r \in Requests : t.bound[r] # 0 <=> Known(req, r)) /\ (\A r \in t.remembered : Known(req, r))
  BY DEF Good, TablesKnown
<1>2. /\ u \in TableSet /\ InRange(u)
      /\ u.remembered = t.remembered \cup rs /\ t.revived \subseteq u.revived
      /\ \A r \in Requests : u.bound[r] # 0 <=> t.bound[r] # 0 \/ r \in rs
      /\ \A r \in Requests : Len(t.broker[r]) <= Len(u.broker[r])
      /\ \A r \in Requests, noticed \in BOOLEAN :
           r \notin u.revived /\ OneBroker(t, r, answers[r], noticed) /\ (r \in rs => t.bound[r] # 0)
             => OneBroker(u, r, answers[r], noticed) /\ u.broker[r] = t.broker[r] /\ u.bound[r] = t.bound[r]
  BY <1>1, RememberSound
<1> HIDE DEF u
<1>3. TablesKnown(u, req) BY <1>1, <1>2 DEF TablesKnown
<1>4. \A r \in Requests : Len(broker[r]) <= Len(u.broker[r])
  <2> TAKE r \in Requests
  <2>1. Len(broker[r]) <= Len(t.broker[r]) /\ Len(t.broker[r]) <= Len(u.broker[r]) /\ Len(t.broker[r]) \in Nat /\ Len(u.broker[r]) \in Nat
    BY <1>1, <1>2 DEF Good, TableSet
  <2>2. Len(broker[r]) \in Nat OBVIOUS
  <2> QED BY <2>1, <2>2
<1>5. ASSUME NEW r \in Requests \ u.revived
      PROVE  /\ OneBroker(u, r, answers[r], req[r].noticed) /\ Alive(answers, r)
             /\ \A g \in S : InFlight(fe[g].h, r) => Flight(u, answers, fe[g].h, r)
  BY <1>2, <1>5, <1>1 DEF Asks, Good, Flight
<1>6. revived \subseteq u.revived BY <1>2 DEF Good
<1> QED BY <1>2, <1>3, <1>4, <1>5, <1>6 DEF Good, u

LEMMA GoodForget ==
  ASSUME NEW S, NEW q \in Asks, NEW a, NEW t, Good(S, q, a, t), NEW x \in Requests,
         x \in t.revived \/ a[x] # <<>> \/ (t.bound[x] = 1 /\ Closed(t.broker[x][1]))
  PROVE  Good(S, q, a, Forget(t, x))
<1> DEFINE u == Forget(t, x)
<1>1. t \in TableSet /\ InRange(t) /\ (\A r \in Requests : t.bound[r] # 0 <=> Known(q, r)) /\ (\A r \in t.remembered : Known(q, r))
  BY DEF Good, TablesKnown
<1>2. /\ u \in TableSet /\ InRange(u) /\ u.remembered \subseteq t.remembered
      /\ u.bound = t.bound /\ u.broker = t.broker /\ u.revived = t.revived
      /\ \A ans : \A r \in Requests, noticed \in BOOLEAN :
           OneBroker(t, r, ans, noticed) /\ (r = x => ans # <<>> \/ (t.bound[x] = 1 /\ Closed(t.broker[x][1])))
             => OneBroker(u, r, ans, noticed)
  BY <1>1, ForgetSound
<1> HIDE DEF u
<1>3. TablesKnown(u, q) BY <1>1, <1>2 DEF TablesKnown
<1>4. ASSUME NEW r \in Requests \ u.revived
      PROVE  /\ OneBroker(u, r, a[r], q[r].noticed) /\ Alive(a, r)
             /\ \A g \in S : InFlight(fe[g].h, r) => Flight(u, a, fe[g].h, r)
  BY <1>2, <1>4 DEF Asks, Good, Flight
<1> QED BY <1>2, <1>3, <1>4 DEF Good, u

\* What a broker may become: it opens again only when nobody answered, nobody was told and nobody else is in flight.
MayBecome(S, q, a, t, x, s) ==
  /\ s = "pending" => a[x] = <<>> /\ ~q[x].noticed /\ \A g \in S : ~InFlight(fe[g].h, x)
  /\ s = "submitting" /\ q[x].noticed => a[x] # <<>>
  /\ t.brokerOf[x] = 0 => a[x] # <<>> \/ Closed(s)

LEMMA GoodMark ==
  ASSUME NEW S, NEW q \in Asks, NEW a, NEW t, Good(S, q, a, t), NEW x \in Requests, NEW k, k \in 1..Len(t.broker[x]),
         NEW s \in States, x \notin t.revived => MayBecome(S, q, a, t, x, s)
  PROVE  /\ Good(S, q, a, Marked(t, x, k, s))
         /\ x \notin t.revived => k = 1 /\ t.bound[x] = 1 /\ Marked(t, x, k, s).broker[x][1] = s
<1> DEFINE u == Marked(t, x, k, s)
<1>1. t \in TableSet /\ InRange(t) /\ (\A r \in Requests : t.bound[r] # 0 <=> Known(q, r)) /\ (\A r \in t.remembered : Known(q, r))
  BY DEF Good, TablesKnown
<1>2. /\ u \in TableSet /\ InRange(u) /\ u.remembered = t.remembered /\ u.brokerOf = t.brokerOf
      /\ u.bound = t.bound /\ u.revived = t.revived
      /\ \A r \in Requests : Len(u.broker[r]) = Len(t.broker[r]) /\ (r # x => u.broker[r] = t.broker[r])
      /\ u.broker[x][k] = s
      /\ \A ans : \A r \in Requests, noticed \in BOOLEAN :
           r # x /\ OneBroker(t, r, ans, noticed) => OneBroker(u, r, ans, noticed)
  BY <1>1, MarkSound
<1> HIDE DEF u
<1>3. TablesKnown(u, q) BY <1>1, <1>2 DEF TablesKnown
<1>4. ASSUME x \notin t.revived
      PROVE  k = 1 /\ t.bound[x] = 1 /\ u.broker[x][1] = s
  <2>1. OneBroker(t, x, a[x], q[x].noticed) BY <1>4 DEF Good
  <2> DEFINE n == Len(t.broker[x])
  <2>2. n \in Nat /\ n <= 1 /\ k \in 1..n /\ t.bound[x] = n
    BY <1>1, <2>1 DEF OneBroker, TableSet
  <2> HIDE DEF n
  <2>3. k = 1 /\ n = 1 BY <2>2
  <2> QED BY <1>2, <2>2, <2>3
<1>5. ASSUME NEW r \in Requests \ u.revived
      PROVE  /\ OneBroker(u, r, a[r], q[r].noticed) /\ Alive(a, r)
             /\ \A g \in S : InFlight(fe[g].h, r) => Flight(u, a, fe[g].h, r)
  <2>1. r \in Requests \ t.revived /\ q[r].noticed \in BOOLEAN BY <1>2, <1>5 DEF Asks
  <2>2. /\ OneBroker(t, r, a[r], q[r].noticed) /\ Alive(a, r)
        /\ \A g \in S : InFlight(fe[g].h, r) => Flight(t, a, fe[g].h, r)
    BY <2>1 DEF Good
  <2>3. CASE r # x BY <1>2, <2>1, <2>2, <2>3 DEF Flight
  <2>4. CASE r = x BY <1>4, <2>1, <2>4, <1>2, <2>2 DEF OneBroker, MayBecome, Flight
  <2> QED BY <2>3, <2>4
<1>6. (\A r \in Requests : Len(broker[r]) <= Len(u.broker[r])) /\ revived \subseteq u.revived
  BY <1>2 DEF Good
<1>7. Good(S, q, a, u) BY <1>2, <1>3, <1>5, <1>6 DEF Good
<1> QED BY <1>4, <1>7 DEF u

\* Resolving the broker a request is bound to, and forgetting it.
LEMMA GoodResolveAndForget ==
  ASSUME NEW S, NEW q \in Asks, NEW a, NEW t, Good(S, q, a, t), NEW x \in Requests, Known(q, x),
         NEW s \in States, Closed(s)
  PROVE  /\ Good(S, q, a, ResolveAndForget(t, x, s))
         /\ LET u == ResolveAndForget(t, x, s)
            IN u.revived = t.revived /\ (x \notin t.revived => u.bound[x] = 1 /\ Closed(u.broker[x][1]))
<1> DEFINE k == t.bound[x]
           v == Resolve(t, x, k, s)
<1>1. t \in TableSet /\ InRange(t) /\ k # 0 BY DEF Good, TablesKnown
<1>2. k \in 1..Len(t.broker[x]) BY <1>1 DEF InRange, TableSet
<1>3. Good(S, q, a, v) /\ v.revived = t.revived /\ v.bound = t.bound
      /\ (x \notin t.revived => v.bound[x] = 1 /\ Closed(v.broker[x][1]))
  <2>1. CASE Closed(t.broker[x][k])
    <3>1. v = t BY <2>1 DEF Resolve
    <3>2. x \notin t.revived => t.bound[x] = 1
      <4> HAVE x \notin t.revived
      <4>1. OneBroker(t, x, a[x], q[x].noticed) BY DEF Good
      <4> DEFINE n == Len(t.broker[x])
      <4>2. n \in Nat /\ n <= 1 /\ k = n BY <1>1, <4>1 DEF OneBroker, TableSet
      <4> HIDE DEF n
      <4>3. n = 1 BY <1>1, <4>2
      <4> QED BY <4>2, <4>3
    <3> QED BY <2>1, <3>1, <3>2
  <2>2. CASE ~Closed(t.broker[x][k])
    <3>1. v = Marked(t, x, k, s) BY <1>1, <2>2 DEF Resolve, Marked
    <3>2. MayBecome(S, q, a, t, x, s) BY DEF MayBecome, Closed
    <3>3. Good(S, q, a, v) /\ (x \notin t.revived => k = 1 /\ t.bound[x] = 1 /\ v.broker[x][1] = s)
      <4> HIDE DEF k
      <4> QED BY <1>2, <3>1, <3>2, GoodMark
    <3>4. v.revived = t.revived /\ v.bound = t.bound
      <4> HIDE DEF k
      <4> QED BY <1>1, <1>2, <3>1, MarkSound
    <3> QED BY <3>3, <3>4
  <2> QED BY <2>1, <2>2
<1> HIDE DEF v, k
<1>4. Good(S, q, a, Forget(v, x)) BY <1>3, GoodForget
<1>5. v \in TableSet /\ InRange(v) BY <1>3 DEF Good, TablesKnown
<1>6. Forget(v, x).bound = v.bound /\ Forget(v, x).broker = v.broker /\ Forget(v, x).revived = v.revived
  BY <1>5, ForgetSound
<1>7. ResolveAndForget(t, x, s) = Forget(v, x) BY DEF ResolveAndForget, v, k
<1> QED BY <1>3, <1>4, <1>6, <1>7

\* Word of an end reaches the agent when the broker is closed or the request answered.
LEMMA GoodNoticed ==
  ASSUME NEW S, NEW q \in Asks, NEW p \in Asks, NEW a, NEW t, Good(S, q, a, t),
         \A r \in Requests : p[r].turn = q[r].turn,
         \A r \in Requests \ t.revived : p[r].noticed =>
            \/ q[r].noticed
            \/ t.bound[r] = 1 /\ Closed(t.broker[r][1])
            \/ t.bound[r] = 1 /\ a[r] # <<>>
  PROVE  Good(S, p, a, t)
<1>1. TablesKnown(t, p) BY DEF Good, TablesKnown, Known, Asks, TableSet
<1>2. ASSUME NEW r \in Requests \ t.revived PROVE OneBroker(t, r, a[r], p[r].noticed)
  BY DEF Good, Asks, OneBroker, Closed
<1> QED BY <1>1, <1>2 DEF Good

--------------------
(* One step: everybody outside S does what the invariant allows.           *)

NoneWaits(f) ==
  f \in yolo => fe[f].switching \/ fe[f].h.stage \notin {"asking", "waiting"} \/ ~Approval(fe[f].h.r) \/ fe[f].h.resolved
HandOK(f) == HandTrue(f, fe[f].h) /\ NoneWaits(f)

\* A hand that is in flight is so alone.
FlightOK(S, l, a, t) ==
  \A r \in Requests \ t.revived : InFlight(l.h, r) =>
    /\ Flight(t, a, l.h, r) /\ l.h.res = 1 /\ (l.h.stage = "responding" => ~l.h.dead)
    /\ \A g \in S : ~InFlight(fe[g].h, r)

Mails == [Frontends -> Seq(Requests \cup {Ended})]

LEMMA StepSound ==
  ASSUME InteractionInv, NEW S \in SUBSET Frontends, \A f, g \in Frontends \ S : f = g,
         NEW t, SetTables(t), Good(S, req', answers', t),
         turn' \in [n : Nat \ {0}, running : BOOLEAN], req' \in Asks, yolo' \subseteq Frontends,
         answers' \in [Requests -> Seq(Answers)], modes' \in Nat, modes <= modes',
         \A r \in Requests : Known(req, r) => Known(req', r) /\ req'[r].kind = req[r].kind,
         mail' \in Mails, MailKnown(mail', req'),
         fe' \in [Frontends -> Loops],
         \A g \in S : fe'[g] = fe[g] /\ (g \in yolo' => g \in yolo),
         \A g \in Frontends \ S : LoopKnown(fe'[g], req', t) /\ FlightOK(S, fe'[g], answers', t) /\ HandOK(g)',
         AcceptedIsSent'
  PROVE  InteractionInv'
<1>1. Tables' = t /\ t \in TableSet BY TablesAre DEF Good
<1>2. Types' BY <1>1 DEF Types, Asks, Mails
<1>3. /\ broker \in [Requests -> Seq(States)] /\ t.broker \in [Requests -> Seq(States)]
      /\ \A r \in Requests : Len(broker[r]) <= Len(t.broker[r])
  BY <1>1, TablesFields DEF InteractionInv, Types, TableSet, Good
<1>4. Held'
  <2>1. TablesKnown(Tables, req)' BY <1>1 DEF Good, TablesKnown, InRange, Known
  <2>2. MailKnown(mail, req)' BY DEF MailKnown, Known
  <2>3. ASSUME NEW g \in Frontends PROVE LoopKnown(fe'[g], req', t)
    <3>1. CASE g \in S
      <4>1. LoopKnown(fe[g], req, Tables) /\ fe[g] \in Loops
        BY DEF InteractionInv, Held, Types
      <4>2. fe[g].replay \in SUBSET Requests /\ fe'[g] = fe[g] BY <3>1, <4>1 DEF Loops
      <4>3. \A r \in fe[g].replay : Known(req', r) BY <4>1, <4>2 DEF LoopKnown
      <4>4. ASSUME fe[g].h.stage # "idle"
            PROVE  fe[g].h.r \in Requests /\ Known(req', fe[g].h.r) /\ fe[g].h.res \in 1..Len(t.broker[fe[g].h.r])
        <5>1. fe[g].h.r \in Requests /\ Known(req, fe[g].h.r) /\ fe[g].h.res \in 1..Len(broker[fe[g].h.r])
          BY <4>1, <4>4, TablesFields DEF LoopKnown
        <5>2. Len(broker[fe[g].h.r]) \in Nat /\ Len(t.broker[fe[g].h.r]) \in Nat
              /\ Len(broker[fe[g].h.r]) <= Len(t.broker[fe[g].h.r])
          BY <1>3, <5>1
        <5> DEFINE m == Len(broker[fe[g].h.r])
                   n == Len(t.broker[fe[g].h.r])
        <5>3. m \in Nat /\ n \in Nat /\ m <= n /\ fe[g].h.res \in 1..m BY <5>1, <5>2
        <5> HIDE DEF m, n
        <5>4. fe[g].h.res \in 1..n BY <5>3
        <5> QED BY <5>1, <5>4 DEF n
      <4> QED BY <4>2, <4>3, <4>4 DEF LoopKnown
    <3>2. CASE g \notin S BY <3>2
    <3> QED BY <3>1, <3>2
  <2>4. \A g \in Frontends : LoopKnown(fe[g], req, Tables)'
    BY <1>1, <2>3 DEF LoopKnown, Known
  <2> QED BY <2>1, <2>2, <2>4 DEF Held
<1>5. Unrevived'
  <2> SUFFICES ASSUME NEW r \in Requests, r \notin revived' PROVE OneAnswer(r)'
    BY DEF Unrevived
  <2>1. revived' = t.revived /\ r \in Requests \ t.revived /\ r \notin revived
    BY DEF SetTables, Good
  <2>2. /\ OneBroker(t, r, answers'[r], req'[r].noticed) /\ Alive(answers', r)
        /\ \A g \in S : InFlight(fe[g].h, r) => Flight(t, answers', fe[g].h, r)
    BY <2>1 DEF Good
  <2>3. OneFlight(r) BY <2>1 DEF InteractionInv, Unrevived, OneAnswer
  <2>4. ASSUME NEW f \in Frontends, InFlight(fe'[f].h, r)
        PROVE  Flight(t, answers', fe'[f].h, r) /\ fe'[f].h.res = 1 /\ (fe'[f].h.stage = "responding" => ~fe'[f].h.dead)
    BY <2>2, <2>3, <2>4, <2>1 DEF OneFlight, FlightOK
  <2>5. ASSUME NEW f \in Frontends, NEW g \in Frontends, InFlight(fe'[f].h, r), InFlight(fe'[g].h, r)
        PROVE  f = g
    BY <2>3, <2>5, <2>1 DEF OneFlight, FlightOK
  <2>6. OneFlight(r)' BY <1>1, <2>4, <2>5 DEF OneFlight, InFlight, Flight
  <2>7. OneBroker(Tables, r, answers[r], req[r].noticed)' BY <1>1, <2>2 DEF OneBroker
  <2>8. Alive(answers, r)' BY <2>2 DEF Alive
  <2> QED BY <2>6, <2>7, <2>8 DEF OneAnswer
<1>6. \A g \in Frontends : HandOK(g)'
  <2> TAKE g \in Frontends
  <2>1. CASE g \in S
    BY <2>1 DEF InteractionInv, HandsTrue, YoloLeavesNoneWaiting, NoneWaits, Held, Types, LoopKnown, HandTrue, Approval, HandOK
  <2>2. CASE g \notin S BY <2>2
  <2> QED BY <2>1, <2>2
<1>7. HandsTrue' BY <1>6 DEF HandsTrue, HandOK
<1>8. YoloLeavesNoneWaiting' BY <1>6 DEF YoloLeavesNoneWaiting, HandOK, NoneWaits
<1> QED BY <1>2, <1>4, <1>5, <1>7, <1>8 DEF InteractionInv

\* A step of the read loop: no front end moves.
LEMMA ProviderStep ==
  ASSUME InteractionInv, UNCHANGED <<fe, yolo, answers, modes>>, NEW t, SetTables(t), Good(Frontends, req', answers, t),
         turn' \in [n : Nat \ {0}, running : BOOLEAN], req' \in Asks,
         \A r \in Requests : Known(req, r) => Known(req', r) /\ req'[r].kind = req[r].kind,
         mail' \in Mails, MailKnown(mail', req')
  PROVE  InteractionInv'
<1>1. /\ fe' \in [Frontends -> Loops] /\ yolo' \subseteq Frontends /\ answers' \in [Requests -> Seq(Answers)]
      /\ modes' \in Nat /\ modes <= modes' /\ modes \in Nat
  BY DEF InteractionInv, Types
<1>2. AcceptedIsSent' BY DEF InteractionInv, AcceptedIsSent
<1>3. Good(Frontends, req', answers', t) OBVIOUS
<1> DEFINE S == Frontends
<1>4. \A f, g \in Frontends \ S : f = g OBVIOUS
<1>5. \A g \in S : fe'[g] = fe[g] /\ (g \in yolo' => g \in yolo) OBVIOUS
<1>6. \A g \in Frontends \ S : LoopKnown(fe'[g], req', t) /\ FlightOK(S, fe'[g], answers', t) /\ HandOK(g)'
  OBVIOUS
<1>7. S \in SUBSET Frontends /\ Good(S, req', answers', t) BY <1>3
<1> HIDE DEF S
<1> QED BY <1>1, <1>2, <1>4, <1>5, <1>6, <1>7, StepSound

\* A step of one front end.
LEMMA FrontStep ==
  ASSUME InteractionInv, NEW f \in Frontends, NEW l \in Loops, fe' = [fe EXCEPT ![f] = l],
         NEW t, SetTables(t), Good(Frontends \ {f}, req', answers', t),
         turn' = turn, req' \in Asks, yolo' \subseteq Frontends, \A g \in Frontends \ {f} : g \in yolo' => g \in yolo,
         answers' \in [Requests -> Seq(Answers)], modes' \in Nat, modes <= modes',
         \A r \in Requests : Known(req, r) => Known(req', r) /\ req'[r].kind = req[r].kind,
         mail' \in Mails, MailKnown(mail', req'),
         LoopKnown(l, req', t), FlightOK(Frontends \ {f}, l, answers', t), HandOK(f)',
         AcceptedIsSent'
  PROVE  InteractionInv'
<1> DEFINE S == Frontends \ {f}
<1>1. fe \in [Frontends -> Loops] /\ turn' \in [n : Nat \ {0}, running : BOOLEAN]
  BY DEF InteractionInv, Types
<1>2. fe' \in [Frontends -> Loops] /\ fe'[f] = l /\ \A g \in S : fe'[g] = fe[g] BY <1>1
<1>3. \A g \in Frontends \ S : g = f OBVIOUS
<1>4. \A h, g \in Frontends \ S : h = g OBVIOUS
<1>5. \A g \in S : fe'[g] = fe[g] /\ (g \in yolo' => g \in yolo) BY <1>2
<1>6. S \in SUBSET Frontends /\ Good(S, req', answers', t) OBVIOUS
<1>7. ASSUME NEW g \in Frontends \ S
      PROVE  LoopKnown(fe'[g], req', t) /\ FlightOK(S, fe'[g], answers', t) /\ HandOK(g)'
  BY <1>3, <1>7, <1>2
<1> HIDE DEF S
<1> QED BY <1>1, <1>2, <1>4, <1>5, <1>6, <1>7, StepSound

\* A step of one front end that leaves the tables and the provider alone.
LEMMA QuietStep ==
  ASSUME InteractionInv, NEW f \in Frontends, NEW l \in Loops, fe' = [fe EXCEPT ![f] = l],
         UNCHANGED <<turn, req, remembered, brokerOf, bound, broker, answers, revived>>,
         yolo' \subseteq Frontends, \A g \in Frontends \ {f} : g \in yolo' => g \in yolo, modes' \in Nat, modes <= modes',
         mail' \in Mails, MailKnown(mail', req), LoopKnown(l, req, Tables),
         l.h.stage \in {"responding", "written"} => l.h = fe[f].h, HandOK(f)'
  PROVE  InteractionInv'
<1> DEFINE S == Frontends \ {f}
<1>1. Good(S, req, answers, Tables) BY GoodNow
<1>2. SetTables(Tables) BY DEF SetTables, Tables
<1>3. req' \in Asks /\ answers' \in [Requests -> Seq(Answers)] /\ req' = req /\ answers' = answers /\ modes \in Nat
  BY DEF InteractionInv, Types, Asks
<1>4. FlightOK(S, l, answers, Tables)
  <2> SUFFICES ASSUME NEW r \in Requests \ Tables.revived, InFlight(l.h, r)
               PROVE  /\ Flight(Tables, answers, l.h, r) /\ l.h.res = 1 /\ (l.h.stage = "responding" => ~l.h.dead)
                      /\ \A g \in S : ~InFlight(fe[g].h, r)
    BY DEF FlightOK
  <2>1. l.h = fe[f].h BY DEF InFlight
  <2>2. OneFlight(r) BY TablesFields DEF InteractionInv, Unrevived, OneAnswer
  <2> QED BY <2>1, <2>2 DEF OneFlight
<1>5. AcceptedIsSent' BY <1>3 DEF InteractionInv, AcceptedIsSent
<1>6. Good(S, req', answers', Tables) /\ MailKnown(mail', req') /\ LoopKnown(l, req', Tables) /\ FlightOK(S, l, answers', Tables)
  BY <1>1, <1>3, <1>4
<1>7. \A r \in Requests : Known(req, r) => Known(req', r) /\ req'[r].kind = req[r].kind
  BY <1>3
<1> QED BY <1>2, <1>3, <1>5, <1>6, <1>7, FrontStep

LEMMA RestingHand == Resting \in Hands /\ Resting.stage = "idle" /\ Resting.told = NoChoice
  BY DEF Resting, Hands, Stages, Choices

LEMMA DrainedKnown ==
  ASSUME InteractionInv, NEW f \in Frontends
  PROVE  Drained(f) \in SUBSET Requests /\ \A r \in Drained(f) : Known(req, r)
<1>1. mail[f] \in Seq(Requests \cup {Ended}) /\ fe[f] \in Loops /\ MailKnown(mail, req) /\ LoopKnown(fe[f], req, Tables)
  BY DEF InteractionInv, Types, Held
<1>2. ASSUME NEW r \in Drained(f) PROVE Known(req, r)
  <2>1. r \in Requests /\ (r \in Range(mail[f]) \/ r \in fe[f].replay)
    BY <1>2 DEF Drained
  <2>2. CASE r \in fe[f].replay BY <1>1, <2>2 DEF LoopKnown
  <2>3. CASE r \in Range(mail[f])
    <3>1. PICK i \in DOMAIN mail[f] : mail[f][i] = r BY <2>3 DEF Range
    <3> QED BY <1>1, <2>1, <3>1 DEF MailKnown
  <2> QED BY <2>1, <2>2, <2>3
<1> QED BY <1>2 DEF Drained

\* A front end whose handler rests.
LEMMA RestStep ==
  ASSUME InteractionInv, NEW f \in Frontends, NEW l \in Loops, fe' = [fe EXCEPT ![f] = l], l.h = Resting, \A r \in l.replay : Known(req, r),
         NEW t, SetTables(t), Good(Frontends \ {f}, req, answers, t),
         UNCHANGED <<turn, req, yolo, answers, modes>>, mail' \in Mails, MailKnown(mail', req)
  PROVE  InteractionInv'
<1>1. req' \in Asks /\ answers' \in [Requests -> Seq(Answers)] /\ req' = req /\ answers' = answers /\ modes \in Nat
      /\ yolo \subseteq Frontends /\ fe \in [Frontends -> Loops] /\ modes <= modes'
  BY DEF InteractionInv, Types, Asks
<1>2. LoopKnown(l, req', t) /\ FlightOK(Frontends \ {f}, l, answers', t)
  BY RestingHand DEF LoopKnown, FlightOK, InFlight
<1>3. HandOK(f)' BY <1>1, RestingHand DEF HandOK, HandTrue, NoneWaits
<1>4. AcceptedIsSent' BY DEF InteractionInv, AcceptedIsSent
<1>5. \A r \in Requests : Known(req, r) => Known(req', r) /\ req'[r].kind = req[r].kind
  BY <1>1
<1>6. Good(Frontends \ {f}, req', answers', t) /\ MailKnown(mail', req') BY <1>1
<1> QED BY <1>1, <1>2, <1>3, <1>4, <1>5, <1>6, FrontStep

LEMMA LeaveStep ==
  ASSUME InteractionInv, NEW f \in Frontends, NEW t, Good(Frontends \ {f}, req, answers, t),
         NEW rs \in SUBSET Requests, \A r \in rs : Known(req, r), Leave(f, t, rs), UNCHANGED <<turn, req, yolo, answers, modes>>
  PROVE  InteractionInv'
<1> DEFINE u == Remember(t, rs)
           l == [Off EXCEPT !.switching = fe[f].switching]
<1>1. SetTables(u) /\ fe' = [fe EXCEPT ![f] = l] /\ mail' = [mail EXCEPT ![f] = <<>>]
  BY DEF Leave, Abandon
<1>2. /\ req \in Asks /\ mail \in Mails /\ fe[f].switching \in BOOLEAN /\ MailKnown(mail, req)
      /\ broker \in [Requests -> Seq(States)]
  BY TablesFields DEF InteractionInv, Types, Asks, Mails, Held, Loops, TableSet
<1>3. Good(Frontends \ {f}, req, answers, u) BY <1>2, GoodRemember
<1>4. Off \in Loops /\ Off.h = Resting /\ Off.replay = {} BY RestingHand DEF Off, Loops
<1>5. l \in Loops /\ l.h = Resting /\ l.replay = {} BY <1>2, <1>4 DEF Loops
<1> HIDE DEF l
<1>6. mail' \in Mails /\ MailKnown(mail', req) BY <1>1, <1>2 DEF Mails, MailKnown
<1> HIDE DEF u
<1> QED BY <1>1, <1>3, <1>5, <1>6, RestStep

LEMMA ReturnStep ==
  ASSUME InteractionInv, NEW f \in Frontends, NEW t, Good(Frontends \ {f}, req, answers, t),
         Return(f, t), UNCHANGED <<turn, req, yolo, answers, modes>>
  PROVE  InteractionInv'
<1> DEFINE l == [fe[f] EXCEPT !.stage = "idle", !.h = Resting]
<1>1. fe \in [Frontends -> Loops] /\ fe[f] \in Loops /\ mail \in Mails /\ MailKnown(mail, req)
  BY DEF InteractionInv, Types, Mails, Held
<1>2. SetTables(t) /\ fe' = [fe EXCEPT ![f].stage = "idle", ![f].h = Resting] /\ mail' = mail
  BY DEF Return
<1>3. fe' = [fe EXCEPT ![f] = l] BY <1>1, <1>2 DEF Loops
<1>4. l \in Loops /\ l.h = Resting /\ l.replay = fe[f].replay
  BY <1>1, RestingHand DEF Loops
<1>5. \A r \in fe[f].replay : Known(req, r) BY DEF InteractionInv, Held, LoopKnown
<1> HIDE DEF l
<1> QED BY <1>1, <1>2, <1>3, <1>4, <1>5, RestStep

--------------------
(* The actions of one window.                                              *)

\* The handler takes a step of its own: same request, same broker, nothing on its way to the provider.
LEMMA HandStep ==
  ASSUME InteractionInv, NEW f \in Frontends, NEW h \in Hands, fe' = [fe EXCEPT ![f].h = h],
         UNCHANGED <<turn, req, remembered, brokerOf, bound, broker, mail, yolo, answers, revived, modes>>,
         fe[f].h.stage # "idle", h.r = fe[f].h.r, h.res = fe[f].h.res, h.stage \notin {"idle", "responding", "written"},
         HandTrue(f, h),
         f \in yolo => fe[f].switching \/ h.stage \notin {"asking", "waiting"} \/ ~Approval(h.r) \/ h.resolved
  PROVE  InteractionInv'
<1> DEFINE l == [fe[f] EXCEPT !.h = h]
<1>1. fe \in [Frontends -> Loops] /\ fe[f] \in Loops /\ mail \in Mails /\ MailKnown(mail, req) /\ modes \in Nat
      /\ LoopKnown(fe[f], req, Tables) /\ yolo \subseteq Frontends
  BY DEF InteractionInv, Types, Mails, Held
<1>2. fe' = [fe EXCEPT ![f] = l] /\ l \in Loops /\ l.h = h /\ l.replay = fe[f].replay /\ l.switching = fe[f].switching
  BY <1>1 DEF Loops
<1>3. fe'[f] = l BY <1>1, <1>2
<1> HIDE DEF l
<1>4. LoopKnown(l, req, Tables) BY <1>1, <1>2 DEF LoopKnown
<1>5. HandOK(f)' BY <1>2, <1>3 DEF HandOK, HandTrue, NoneWaits, Approval
<1>6. /\ yolo' \subseteq Frontends /\ (\A g \in Frontends \ {f} : g \in yolo' => g \in yolo) /\ modes' \in Nat /\ modes <= modes'
      /\ mail' \in Mails /\ MailKnown(mail', req) /\ l.h.stage \notin {"responding", "written"}
  BY <1>1, <1>2
<1> QED BY <1>2, <1>4, <1>5, <1>6, QuietStep

LEMMA HandNow ==
  ASSUME InteractionInv, NEW f \in Frontends
  PROVE  /\ fe \in [Frontends -> Loops] /\ fe[f] \in Loops /\ fe[f].h \in Hands /\ HandTrue(f, fe[f].h) /\ NoneWaits(f)
         /\ LoopKnown(fe[f], req, Tables)
  BY DEF InteractionInv, Types, HandsTrue, YoloLeavesNoneWaiting, NoneWaits, Loops, Held

LEMMA RegisterSafe == ASSUME InteractionInv, NEW f \in Frontends, Register(f) PROVE InteractionInv'
<1> DEFINE h == [fe[f].h EXCEPT !.stage = "registered"]
<1>1. fe' = [fe EXCEPT ![f].h = h] BY HandNow DEF Register, Loops, Hands
<1>2. h \in Hands /\ h.stage = "registered" /\ h.r = fe[f].h.r /\ h.res = fe[f].h.res /\ h.told = fe[f].h.told /\ h.resolved = fe[f].h.resolved
      /\ h.choice = fe[f].h.choice
  BY HandNow DEF Hands, Stages
<1> HIDE DEF h
<1>3. HandTrue(f, h) BY <1>2, HandNow DEF HandTrue, Register
<1> QED BY <1>1, <1>2, <1>3, HandStep DEF Register

LEMMA SecondLookSafe == ASSUME InteractionInv, NEW f \in Frontends, SecondLook(f) PROVE InteractionInv'
<1>1. fe[f].h.stage = "registered" /\ UNCHANGED <<turn, req, remembered, brokerOf, bound, broker, mail, yolo, answers, revived, modes>>
  BY DEF SecondLook
<1>2. CASE f \in yolo /\ Approval(fe[f].h.r)
  <2> DEFINE h == [fe[f].h EXCEPT !.stage = "submit", !.decision = "allow", !.resolved = TRUE]
  <2>1. fe' = [fe EXCEPT ![f].h = h] BY <1>2 DEF SecondLook
  <2>2. h \in Hands /\ h.stage = "submit" /\ h.r = fe[f].h.r /\ h.res = fe[f].h.res /\ h.told = fe[f].h.told /\ h.resolved
        /\ h.choice = fe[f].h.choice /\ h.decision = "allow"
    BY HandNow DEF Hands, Stages, Choices, Decisions
  <2> HIDE DEF h
  <2>3. HandTrue(f, h) BY <1>1, <1>2, <2>2, HandNow DEF HandTrue
  <2> QED BY <1>1, <2>1, <2>2, <2>3, HandStep
<1>3. CASE ~(f \in yolo /\ Approval(fe[f].h.r))
  <2> DEFINE h == [fe[f].h EXCEPT !.stage = "asking"]
  <2>1. fe' = [fe EXCEPT ![f].h = h] BY <1>3 DEF SecondLook
  <2>2. h \in Hands /\ h.stage = "asking" /\ h.r = fe[f].h.r /\ h.res = fe[f].h.res /\ h.told = fe[f].h.told /\ h.resolved = fe[f].h.resolved
        /\ h.choice = fe[f].h.choice
    BY HandNow DEF Hands, Stages
  <2> HIDE DEF h
  <2>3. HandTrue(f, h) BY <1>1, <2>2, HandNow DEF HandTrue
  <2> QED BY <1>1, <1>3, <2>1, <2>2, <2>3, HandStep
<1> QED BY <1>2, <1>3

LEMMA AskedSafe == ASSUME InteractionInv, NEW f \in Frontends, Asked(f) PROVE InteractionInv'
<1> DEFINE h == [fe[f].h EXCEPT !.stage = "waiting"]
<1>1. fe' = [fe EXCEPT ![f].h = h] /\ fe[f].h.stage = "asking"
  BY HandNow DEF Asked, Loops, Hands
<1>2. h \in Hands /\ h.stage = "waiting" /\ h.r = fe[f].h.r /\ h.res = fe[f].h.res /\ h.told = fe[f].h.told /\ h.resolved = fe[f].h.resolved
      /\ h.choice = fe[f].h.choice
  BY HandNow DEF Hands, Stages
<1> HIDE DEF h
<1>3. HandTrue(f, h) BY <1>2, HandNow DEF HandTrue
<1>4. f \in yolo => fe[f].switching \/ ~Approval(h.r) \/ h.resolved
  BY <1>1, <1>2, HandNow DEF NoneWaits
<1> QED BY <1>1, <1>2, <1>3, <1>4, HandStep DEF Asked

\* A choice goes to the broker as it was taken.
LEMMA ChosenSafe ==
  ASSUME InteractionInv, NEW f \in Frontends, fe[f].h.stage # "idle",
         NEW d \in Choices, fe[f].h.told # NoChoice => d = fe[f].h.told, NEW b \in BOOLEAN, fe[f].h.resolved => b,
         fe' = [fe EXCEPT ![f].h = [fe[f].h EXCEPT !.stage = "submit", !.decision = d, !.resolved = b]],
         UNCHANGED <<turn, req, remembered, brokerOf, bound, broker, mail, yolo, answers, revived, modes>>
  PROVE  InteractionInv'
<1> DEFINE h == [fe[f].h EXCEPT !.stage = "submit", !.decision = d, !.resolved = b]
<1>1. fe' = [fe EXCEPT ![f].h = h] OBVIOUS
<1>2. h \in Hands /\ h.stage = "submit" /\ h.r = fe[f].h.r /\ h.res = fe[f].h.res /\ h.told = fe[f].h.told /\ h.resolved = b
      /\ h.choice = fe[f].h.choice /\ h.decision = d
  BY HandNow DEF Hands, Stages
<1> HIDE DEF h
<1>3. HandTrue(f, h) BY <1>2, HandNow DEF HandTrue
<1> QED BY <1>1, <1>2, <1>3, HandStep

LEMMA TakenSafe ==
  ASSUME InteractionInv, NEW f \in Frontends, fe[f].h.stage # "idle",
         fe' = [fe EXCEPT ![f].h.stage = "submit", ![f].h.decision = fe[f].h.choice],
         UNCHANGED <<turn, req, remembered, brokerOf, bound, broker, mail, yolo, answers, revived, modes>>
  PROVE  InteractionInv'
<1> DEFINE d == fe[f].h.choice
           b == fe[f].h.resolved
           h == [fe[f].h EXCEPT !.stage = "submit", !.decision = d]
<1>1. d \in Choices /\ b \in BOOLEAN /\ (fe[f].h.told # NoChoice => d = fe[f].h.told)
  BY HandNow DEF HandTrue, Hands
<1>2. h = [fe[f].h EXCEPT !.stage = "submit", !.decision = d, !.resolved = b]
  BY <1>1, HandNow DEF Hands, Stages
<1>3. fe' = [fe EXCEPT ![f].h = h] BY HandNow DEF Loops, Hands
<1>4. fe' = [fe EXCEPT ![f].h = [fe[f].h EXCEPT !.stage = "submit", !.decision = d, !.resolved = b]]
  BY <1>2, <1>3
<1>5. fe[f].h.resolved => b OBVIOUS
<1>6. InteractionInv /\ fe[f].h.stage # "idle"
      /\ UNCHANGED <<turn, req, remembered, brokerOf, bound, broker, mail, yolo, answers, revived, modes>>
  OBVIOUS
<1> HIDE DEF d, b, h
<1> QED BY ONLY f \in Frontends, <1>1, <1>4, <1>5, <1>6, ChosenSafe

LEMMA WaitChoiceSafe == ASSUME InteractionInv, NEW f \in Frontends, WaitChoice(f) PROVE InteractionInv'
  BY TakenSafe DEF WaitChoice

\* An answer or /mode yolo reaches a handler that waits: only one of them, and nothing is sent yet.
LEMMA AnswerSafe ==
  ASSUME InteractionInv, NEW f \in Frontends, NEW d \in Decisions, Answer(f, d) PROVE InteractionInv'
<1> DEFINE h == [fe[f].h EXCEPT !.resolved = TRUE, !.choice = d, !.told = d]
<1>1. fe' = [fe EXCEPT ![f].h = h] /\ fe[f].h.stage \in {"registered", "asking", "waiting"}
  BY DEF Answer, Delivered, Open, Registered
<1>2. h \in Hands /\ h.stage = fe[f].h.stage /\ h.r = fe[f].h.r /\ h.res = fe[f].h.res /\ h.told = d /\ h.resolved /\ h.choice = d
  BY HandNow DEF Hands, Choices
<1> HIDE DEF h
<1>3. HandTrue(f, h) BY <1>1, <1>2, HandNow DEF HandTrue
<1> QED BY <1>1, <1>2, <1>3, HandStep DEF Answer

\* The loop's own fields change, the handler does not.
LEMMA LoopStep ==
  ASSUME InteractionInv, NEW f \in Frontends, NEW l \in Loops, fe' = [fe EXCEPT ![f] = l], l.h = fe[f].h,
         \A r \in l.replay : Known(req, r), fe[f].switching => l.switching,
         UNCHANGED <<turn, req, remembered, brokerOf, bound, broker, yolo, answers, revived, modes>>,
         mail' \in Mails, MailKnown(mail', req)
  PROVE  InteractionInv'
<1>1. modes \in Nat /\ yolo \subseteq Frontends BY DEF InteractionInv, Types
<1>2. fe'[f] = l BY HandNow
<1>3. LoopKnown(l, req, Tables) BY HandNow DEF LoopKnown
<1>4. HandOK(f)' BY <1>2, HandNow DEF HandOK, HandTrue, NoneWaits, Approval
<1>5. yolo' \subseteq Frontends /\ (\A g \in Frontends \ {f} : g \in yolo' => g \in yolo) /\ modes' \in Nat /\ modes <= modes'
  BY <1>1
<1> QED BY <1>3, <1>4, <1>5, QuietStep

LEMMA MailNow == ASSUME InteractionInv PROVE mail \in Mails /\ MailKnown(mail, req)
  BY DEF InteractionInv, Types, Mails, Held

LEMMA DetachSafe == ASSUME InteractionInv, NEW f \in Frontends, Detach(f) PROVE InteractionInv'
<1> DEFINE l == [fe[f] EXCEPT !.detached = TRUE, !.cancelled = TRUE]
<1>1. fe' = [fe EXCEPT ![f] = l] /\ l \in Loops /\ l.h = fe[f].h /\ l.replay = fe[f].replay /\ l.switching = fe[f].switching
  BY HandNow DEF Detach, Loops
<1> HIDE DEF l
<1>2. \A r \in l.replay : Known(req, r) BY <1>1, HandNow DEF LoopKnown
<1> QED BY <1>1, <1>2, MailNow, LoopStep DEF Detach

LEMMA CancelSafe == ASSUME InteractionInv, NEW f \in Frontends, Cancel(f) PROVE InteractionInv'
<1> DEFINE l == [fe[f] EXCEPT !.cancelled = TRUE]
<1>1. fe' = [fe EXCEPT ![f] = l] /\ l \in Loops /\ l.h = fe[f].h /\ l.replay = fe[f].replay /\ l.switching = fe[f].switching
  BY HandNow DEF Cancel, Loops
<1> HIDE DEF l
<1>2. \A r \in l.replay : Known(req, r) BY <1>1, HandNow DEF LoopKnown
<1> QED BY <1>1, <1>2, MailNow, LoopStep DEF Cancel

LEMMA AttachSafe == ASSUME InteractionInv, NEW f \in Frontends, Attach(f) PROVE InteractionInv'
<1> DEFINE l == [fe[f] EXCEPT !.stage = "replaying", !.target = turn.n, !.replay = remembered]
<1>1. turn.n \in Nat /\ remembered \in SUBSET Requests /\ \A r \in remembered : Known(req, r)
  BY TablesFields DEF InteractionInv, Types, TableSet, Held, TablesKnown
<1>2. fe' = [fe EXCEPT ![f] = l] /\ l \in Loops /\ l.h = fe[f].h /\ l.replay = remembered /\ l.switching = fe[f].switching
  BY <1>1, HandNow DEF Attach, Loops
<1> HIDE DEF l
<1> QED BY <1>1, <1>2, MailNow, LoopStep DEF Attach

\* /mode yolo and the rest of its command.
LEMMA ModeYoloSafe == ASSUME InteractionInv, NEW f \in Frontends, ModeYolo(f) PROVE InteractionInv'
<1> DEFINE l == [fe[f] EXCEPT !.switching = TRUE]
<1>1. /\ fe' = [fe EXCEPT ![f] = l] /\ l \in Loops /\ l.h = fe[f].h /\ l.replay = fe[f].replay /\ l.switching = TRUE /\ fe'[f] = l
  BY HandNow DEF ModeYolo, Loops
<1>2. /\ modes \in Nat /\ modes' = modes + 1 /\ yolo' = yolo \cup {f} /\ yolo \subseteq Frontends /\ mail' = mail
      /\ UNCHANGED <<turn, req, remembered, brokerOf, bound, broker, answers, revived>>
  BY DEF ModeYolo, InteractionInv, Types
<1>3. /\ modes' \in Nat /\ modes <= modes' /\ modes' > 0 /\ yolo' \subseteq Frontends
      /\ \A g \in Frontends \ {f} : g \in yolo' => g \in yolo
  BY <1>2
<1> HIDE DEF l
<1>4. LoopKnown(l, req, Tables) BY <1>1, HandNow DEF LoopKnown
<1>5. HandOK(f)' BY <1>1, <1>3, HandNow DEF HandOK, HandTrue, NoneWaits
<1>6. mail' \in Mails /\ MailKnown(mail', req) BY <1>2, MailNow
<1> QED BY <1>1, <1>2, <1>3, <1>4, <1>5, <1>6, QuietStep

LEMMA ModeDefaultSafe == ASSUME InteractionInv, NEW f \in Frontends, ModeDefault(f) PROVE InteractionInv'
<1> DEFINE l == fe[f]
<1>1. fe' = [fe EXCEPT ![f] = l] /\ l \in Loops /\ fe'[f] = l BY HandNow DEF ModeDefault
<1>2. /\ modes \in Nat /\ modes' = modes + 1 /\ yolo' = yolo \ {f} /\ yolo \subseteq Frontends /\ mail' = mail
      /\ UNCHANGED <<turn, req, remembered, brokerOf, bound, broker, answers, revived>>
  BY DEF ModeDefault, InteractionInv, Types
<1>3. /\ modes' \in Nat /\ modes <= modes' /\ modes' > 0 /\ yolo' \subseteq Frontends
      /\ \A g \in Frontends \ {f} : g \in yolo' => g \in yolo
  BY <1>2
<1>4. LoopKnown(l, req, Tables) BY HandNow
<1>5. HandOK(f)' BY <1>1, <1>2, <1>3, HandNow DEF HandOK, HandTrue, NoneWaits
<1>6. mail' \in Mails /\ MailKnown(mail', req) BY <1>2, MailNow
<1>7. l.h = fe[f].h OBVIOUS
<1> HIDE DEF l
<1> QED BY <1>1, <1>2, <1>3, <1>4, <1>5, <1>6, <1>7, QuietStep

LEMMA ResolveForYoloSafe == ASSUME InteractionInv, NEW f \in Frontends, ResolveForYolo(f) PROVE InteractionInv'
<1> DEFINE found == Open(f) /\ Approval(fe[f].h.r)
           h == IF found THEN [fe[f].h EXCEPT !.resolved = TRUE, !.choice = "allow"] ELSE fe[f].h
           l == [fe[f] EXCEPT !.switching = FALSE, !.h = h]
<1>1. fe' = [fe EXCEPT ![f] = l] BY HandNow DEF ResolveForYolo, Loops
<1>2. /\ h \in Hands /\ h.stage = fe[f].h.stage /\ h.r = fe[f].h.r /\ h.res = fe[f].h.res /\ h.told = fe[f].h.told
      /\ (fe[f].h.resolved \/ found => h.resolved) /\ (~found => h = fe[f].h)
  BY HandNow DEF Hands, Choices, Decisions
<1>3. found => fe[f].h.stage \in {"registered", "asking", "waiting"} /\ fe[f].h.told = NoChoice
  BY HandNow DEF Open, Registered, HandTrue
<1>4. Approval(h.r) /\ h.stage \in {"asking", "waiting"} => h.resolved
  BY <1>2 DEF Open, Registered
<1>5. h.stage \in {"responding", "written"} => h = fe[f].h BY <1>2, <1>3
<1>6. HandTrue(f, h) BY <1>2, <1>3, HandNow DEF HandTrue
<1> HIDE DEF h, found
<1>7. l \in Loops /\ l.h = h /\ l.replay = fe[f].replay /\ fe'[f] = l
  BY <1>1, <1>2, HandNow DEF Loops
<1>8. LoopKnown(l, req, Tables) BY <1>2, <1>7, HandNow DEF LoopKnown
<1>9. UNCHANGED <<turn, req, remembered, brokerOf, bound, broker, mail, yolo, answers, revived, modes>>
  BY DEF ResolveForYolo
<1>10. HandOK(f)' BY <1>4, <1>6, <1>7, <1>9 DEF HandOK, HandTrue, NoneWaits, Approval
<1>11. /\ yolo' \subseteq Frontends /\ (\A g \in Frontends \ {f} : g \in yolo' => g \in yolo) /\ modes' \in Nat /\ modes <= modes'
       /\ mail' \in Mails /\ MailKnown(mail', req)
  BY <1>9, MailNow DEF InteractionInv, Types
<1> HIDE DEF l
<1> QED BY <1>1, <1>5, <1>7, <1>8, <1>9, <1>10, <1>11, QuietStep

\* The requests an attaching front end replays are mailed to it, each once.
LEMMA ListedIs ==
  ASSUME NEW rs \in SUBSET Requests
  PROVE  Listed(rs) \in Seq(Requests \cup {Ended}) /\ \A i \in DOMAIN Listed(rs) : Listed(rs)[i] \in rs
<1>1. IsFiniteSet(rs) BY InteractionAssumption, FS_Subset
<1>2. PICK n \in Nat : ExistsBijection(1..n, rs) BY <1>1, FS_NatBijection
<1>3. Cardinality(rs) = n BY <1>2, FS_CountingElements
<1>4. PICK b \in Bijection(1..n, rs) : TRUE BY <1>2 DEF ExistsBijection
<1>5. b \in [1..n -> rs] /\ \A r \in rs : \E i \in 1..n : b[i] = r
  BY <1>4 DEF Bijection, Surjection, Injection
<1>6. Range(b) = rs BY <1>5 DEF Range
<1>7. Listed(rs) \in [1..n -> rs] BY <1>3, <1>5, <1>6 DEF Listed
<1>8. Listed(rs) \in [1..n -> Requests \cup {Ended}] BY <1>7
<1> QED BY <1>7, <1>8

LEMMA ReplayPendingSafe == ASSUME InteractionInv, NEW f \in Frontends, ReplayPending(f) PROVE InteractionInv'
<1> DEFINE l == [fe[f] EXCEPT !.stage = "idle", !.replay = {}]
           s == Listed(fe[f].replay)
<1>1. fe' = [fe EXCEPT ![f] = l] /\ l \in Loops /\ l.h = fe[f].h /\ l.replay = {} /\ l.switching = fe[f].switching
  BY HandNow DEF ReplayPending, Loops
<1> HIDE DEF l
<1>2. fe[f].replay \in SUBSET Requests /\ \A r \in fe[f].replay : Known(req, r)
  BY HandNow DEF Loops, LoopKnown
<1>3. s \in Seq(Requests \cup {Ended}) /\ \A i \in DOMAIN s : s[i] \in fe[f].replay
  BY <1>2, ListedIs
<1>4. mail' = [mail EXCEPT ![f] = mail[f] \o s] BY DEF ReplayPending
<1> HIDE DEF s
<1>5. mail[f] \in Seq(Requests \cup {Ended}) /\ mail \in Mails /\ MailKnown(mail, req)
  BY MailNow DEF Mails
<1>6. mail[f] \o s \in Seq(Requests \cup {Ended}) /\ mail' \in Mails
  BY <1>3, <1>4, <1>5 DEF Mails
<1>7. MailKnown(mail', req)
  <2> SUFFICES ASSUME NEW g \in Frontends, NEW i \in DOMAIN mail'[g], mail'[g][i] \in Requests
               PROVE  Known(req, mail'[g][i])
    BY DEF MailKnown
  <2>1. CASE g # f BY <1>4, <1>5, <2>1 DEF MailKnown, Mails
  <2>2. CASE g = f
    <3>1. mail'[f] = mail[f] \o s BY <1>4, <1>5 DEF Mails
    <3>2. i \in 1..Len(mail[f]) + Len(s) /\ Len(mail[f]) \in Nat /\ Len(s) \in Nat
          /\ DOMAIN mail[f] = 1..Len(mail[f]) /\ DOMAIN s = 1..Len(s)
      BY <1>3, <1>5, <2>2, <3>1
    <3>3. CASE i <= Len(mail[f]) BY <1>3, <1>5, <2>2, <3>1, <3>2, <3>3 DEF MailKnown
    <3>4. CASE i > Len(mail[f])
      <4>1. mail'[f][i] = s[i - Len(mail[f])] /\ i - Len(mail[f]) \in DOMAIN s
        BY <1>3, <1>5, <3>1, <3>2, <3>4
      <4> QED BY <1>2, <1>3, <2>2, <4>1
    <3> QED BY <3>2, <3>3, <3>4
  <2> QED BY <2>1, <2>2
<1> QED BY <1>1, <1>6, <1>7, LoopStep DEF ReplayPending

\* A request in the hands of a front end has a broker.
LEMMA BoundInRange ==
  ASSUME InteractionInv, NEW r \in Requests, Known(req, r)
  PROVE  bound[r] \in 1..Len(broker[r]) /\ broker[r] \in Seq(States) /\ broker[r][bound[r]] \in States
<1>1. bound[r] \in Nat /\ broker[r] \in Seq(States) /\ bound[r] # 0 /\ bound[r] <= Len(broker[r])
  BY TablesFields DEF InteractionInv, Types, TableSet, Held, TablesKnown, InRange
<1>2. bound[r] \in 1..Len(broker[r]) BY <1>1
<1> QED BY <1>1, <1>2

LEMMA TakeSafe == ASSUME InteractionInv, NEW f \in Frontends, Take(f) PROVE InteractionInv'
<1> DEFINE r == Head(mail[f])
           auto == f \in yolo /\ Approval(r)
           h == [Resting EXCEPT !.r = r, !.res = bound[r], !.stage = IF auto THEN "submit" ELSE "checked",
                                !.decision = IF auto THEN "allow" ELSE NoChoice]
           l == [fe[f] EXCEPT !.stage = "busy", !.h = h]
<1>1. /\ mail[f] \in Seq(Requests \cup {Ended}) /\ mail[f] # <<>> /\ mail \in Mails /\ r \in Requests /\ MailKnown(mail, req)
      /\ mail' = [mail EXCEPT ![f] = Tail(mail[f])]
      /\ UNCHANGED <<turn, req, remembered, brokerOf, bound, broker, yolo, answers, revived, modes>>
  BY MailNow DEF Take, Handles, Mails
<1>2. Known(req, r) BY <1>1 DEF MailKnown
<1>3. bound[r] \in 1..Len(broker[r]) /\ bound[r] \in Nat BY <1>1, <1>2, BoundInRange
<1>4. fe' = [fe EXCEPT ![f] = l] BY HandNow DEF Take, Loops
<1> HIDE DEF r
<1>5. /\ h \in Hands /\ h.r = r /\ h.res = bound[r] /\ h.told = NoChoice /\ (auto => h.stage = "submit") /\ (~auto => h.stage = "checked")
  BY <1>1, <1>3 DEF Resting, Hands, Stages, Choices, Decisions
<1> HIDE DEF h
<1>6. l \in Loops /\ l.h = h /\ l.replay = fe[f].replay BY <1>5, HandNow DEF Loops
<1> HIDE DEF l
<1>7. fe'[f].h = h /\ h.stage \in {"submit", "checked"} BY <1>4, <1>5, <1>6, HandNow
<1>8. LoopKnown(l, req, Tables)
  BY <1>1, <1>2, <1>3, <1>5, <1>6, HandNow, TablesFields DEF LoopKnown
<1>9. HandOK(f)' BY <1>1, <1>5, <1>7 DEF HandOK, HandTrue, NoneWaits, Approval
<1>10. mail' \in Mails /\ MailKnown(mail', req) BY <1>1 DEF Mails, MailKnown
<1>11. yolo' \subseteq Frontends /\ (\A g \in Frontends \ {f} : g \in yolo' => g \in yolo) /\ modes' \in Nat /\ modes <= modes'
  BY <1>1 DEF InteractionInv, Types
<1>12. l.h.stage \notin {"responding", "written"} BY <1>6, <1>7
<1> QED BY <1>1, <1>4, <1>6, <1>8, <1>9, <1>10, <1>11, <1>12, QuietStep

\* The request in hand and the ones in the mailbox go back.
LEMMA InHandKnown ==
  ASSUME InteractionInv, NEW f \in Frontends, fe[f].h.stage # "idle"
  PROVE  /\ fe[f].h.r \in Requests /\ Known(req, fe[f].h.r) /\ fe[f].h.res \in 1..Len(broker[fe[f].h.r])
         /\ {fe[f].h.r} \cup Drained(f) \in SUBSET Requests /\ \A r \in {fe[f].h.r} \cup Drained(f) : Known(req, r)
<1>1. fe[f].h.r \in Requests /\ Known(req, fe[f].h.r) /\ fe[f].h.res \in 1..Len(broker[fe[f].h.r])
  BY HandNow, TablesFields DEF LoopKnown
<1> QED BY <1>1, DrainedKnown

LEMMA GivesBack ==
  ASSUME InteractionInv, NEW f \in Frontends, fe[f].h.stage # "idle", Leave(f, Tables, {fe[f].h.r} \cup Drained(f)),
         UNCHANGED <<turn, req, yolo, answers, modes>>
  PROVE  InteractionInv'
<1>1. Good(Frontends \ {f}, req, answers, Tables) BY GoodNow
<1> DEFINE rs == {fe[f].h.r} \cup Drained(f)
           t == Tables
<1>2. rs \in SUBSET Requests /\ (\A r \in rs : Known(req, r)) /\ Leave(f, t, rs) /\ Good(Frontends \ {f}, req, answers, t)
  BY <1>1, InHandKnown
<1> HIDE DEF rs, t
<1> QED BY <1>2, LeaveStep

LEMMA IdleLeaves ==
  ASSUME InteractionInv, NEW f \in Frontends, Leave(f, Tables, Drained(f)), UNCHANGED <<turn, req, yolo, answers, modes>>
  PROVE  InteractionInv'
<1> DEFINE rs == Drained(f)
           t == Tables
<1>1. rs \in SUBSET Requests /\ (\A r \in rs : Known(req, r)) /\ Leave(f, t, rs) /\ Good(Frontends \ {f}, req, answers, t)
  BY GoodNow, DrainedKnown
<1> HIDE DEF rs, t
<1> QED BY <1>1, LeaveStep

LEMMA LeavingSafe ==
  ASSUME InteractionInv, NEW f \in Frontends,
         LoopEnds(f) \/ TakeEnd(f) \/ TakeForeign(f) \/ TakeDetached(f) \/ WaitStopped(f) \/ SubmitStopped(f)
  PROVE  InteractionInv'
<1>1. CASE LoopEnds(f) \/ TakeEnd(f) \/ TakeForeign(f) \/ TakeDetached(f)
  BY <1>1, IdleLeaves DEF LoopEnds, TakeEnd, TakeForeign, TakeDetached
<1>2. CASE WaitStopped(f) \/ SubmitStopped(f)
  BY <1>2, GivesBack DEF WaitStopped, SubmitStopped
<1> QED BY <1>1, <1>2

LEMMA AskFailsSafe == ASSUME InteractionInv, NEW f \in Frontends, AskFails(f) PROVE InteractionInv'
<1>1. fe[f].h.stage = "asking" /\ UNCHANGED <<turn, req, yolo, answers, modes>>
  BY DEF AskFails
<1>2. CASE fe[f].h.choice # NoChoice /\ ~fe[f].detached /\ Approval(fe[f].h.r)
  BY <1>2, <1>1, TakenSafe DEF AskFails
<1>3. CASE ~(fe[f].h.choice # NoChoice /\ ~fe[f].detached /\ Approval(fe[f].h.r))
  BY <1>3, <1>1, GivesBack DEF AskFails
<1> QED BY <1>2, <1>3

LEMMA WaitTimeoutSafe == ASSUME InteractionInv, NEW f \in Frontends, WaitTimeout(f) PROVE InteractionInv'
<1>1. fe[f].h.stage = "waiting" /\ UNCHANGED <<turn, req, yolo, answers, modes>>
  BY DEF WaitTimeout
<1>2. CASE ~Approval(fe[f].h.r) BY <1>2, <1>1, GivesBack DEF WaitTimeout
<1>3. CASE Approval(fe[f].h.r)
  <2>1. /\ ~fe[f].h.resolved /\ UNCHANGED <<remembered, brokerOf, bound, broker, revived, mail>>
        /\ fe' = [fe EXCEPT ![f].h.stage = "submit", ![f].h.decision = "deny", ![f].h.resolved = TRUE]
    BY <1>3 DEF WaitTimeout
  <2>2. fe' = [fe EXCEPT ![f].h = [fe[f].h EXCEPT !.stage = "submit", !.decision = "deny", !.resolved = TRUE]]
    BY <2>1, HandNow DEF Loops, Hands
  <2>3. fe[f].h.told = NoChoice BY <2>1, HandNow DEF HandTrue
  <2>4. "deny" \in Choices /\ TRUE \in BOOLEAN BY DEF Choices, Decisions
  <2> QED BY <1>1, <2>1, <2>2, <2>3, <2>4, ChosenSafe
<1> QED BY <1>2, <1>3

\* The handler returns: its broker was closed by someone, or by its own answer.
LEMMA WaitResolvedSafe == ASSUME InteractionInv, NEW f \in Frontends, WaitResolved(f) PROVE InteractionInv'
<1> DEFINE r == fe[f].h.r
           s == broker[r][fe[f].h.res]
           u == ResolveAndForget(Tables, r, s)
<1>1. fe[f].h.stage = "waiting" /\ Closed(s) /\ Return(f, u) /\ UNCHANGED <<turn, req, yolo, answers, modes>>
  BY DEF WaitResolved
<1>2. r \in Requests /\ Known(req, r) BY <1>1, InHandKnown
<1>3. req \in Asks /\ s \in States /\ Good(Frontends \ {f}, req, answers, Tables)
  BY <1>1, GoodNow DEF InteractionInv, Types, Asks, Closed, States
<1> HIDE DEF r, s
<1>4. Good(Frontends \ {f}, req, answers, u) BY <1>1, <1>2, <1>3, GoodResolveAndForget
<1> HIDE DEF u
<1> QED BY <1>1, <1>4, ReturnStep

LEMMA SubmitLateSafe == ASSUME InteractionInv, NEW f \in Frontends, SubmitLate(f) PROVE InteractionInv'
<1> DEFINE t == Tables
<1>1. Good(Frontends \ {f}, req, answers, t) /\ Return(f, t) /\ UNCHANGED <<turn, req, yolo, answers, modes>>
  BY GoodNow DEF SubmitLate
<1> HIDE DEF t
<1> QED BY <1>1, ReturnStep

\* What is known of a request in flight that was never given back after its end.
LEMMA FlightNow ==
  ASSUME InteractionInv, NEW f \in Frontends, fe[f].h.stage \in {"responding", "written"}, fe[f].h.r \notin revived
  PROVE  LET r == fe[f].h.r IN
         /\ r \in Requests /\ bound[r] = 1 /\ fe[f].h.res = 1 /\ broker[r][1] \in States \ {"pending"}
         /\ (fe[f].h.stage = "responding" => answers[r] = <<>> /\ ~fe[f].h.dead)
         /\ \A g \in Frontends \ {f} : ~InFlight(fe[g].h, r)
         /\ OneBroker(Tables, r, answers[r], req[r].noticed)
<1> DEFINE r == fe[f].h.r
<1>1. r \in Requests /\ Known(req, r) BY InHandKnown
<1>2. OneAnswer(r) /\ InFlight(fe[f].h, r)
  BY <1>1 DEF InteractionInv, Unrevived, InFlight
<1>3. bound[r] \in 1..Len(broker[r]) /\ broker[r] \in Seq(States) /\ broker[r][bound[r]] \in States
  BY <1>1, BoundInRange
<1> HIDE DEF r
<1>4. Flight(Tables, answers, fe[f].h, r) /\ fe[f].h.res = 1 /\ (fe[f].h.stage = "responding" => ~fe[f].h.dead)
  BY <1>2 DEF OneAnswer, OneFlight
<1>5. \A g \in Frontends \ {f} : ~InFlight(fe[g].h, r) BY <1>2 DEF OneAnswer, OneFlight
<1> QED BY <1>1, <1>2, <1>3, <1>4, <1>5, TablesFields DEF Flight, OneAnswer, r

LEMMA RespondDoneSafe == ASSUME InteractionInv, NEW f \in Frontends, RespondDone(f) PROVE InteractionInv'
<1> DEFINE r == fe[f].h.r
           k == fe[f].h.res
           S == Frontends \ {f}
           v == IF broker[r][k] = "submitting" THEN Resolve(Tables, r, k, "resolved") ELSE Tables
<1>1. fe[f].h.stage = "written" /\ Return(f, Forget(v, r)) /\ UNCHANGED <<turn, req, yolo, answers, modes>>
  BY DEF RespondDone
<1>2. r \in Requests /\ Known(req, r) /\ k \in 1..Len(broker[r]) /\ req \in Asks /\ Good(S, req, answers, Tables)
  BY <1>1, InHandKnown, GoodNow DEF InteractionInv, Types, Asks
<1>3. r \notin revived => k = 1 /\ bound[r] = 1 /\ broker[r][1] \in States \ {"pending"}
  BY <1>1, FlightNow
<1>4. Good(S, req, answers, v) /\ (r \in v.revived \/ (v.bound[r] = 1 /\ Closed(v.broker[r][1])))
  <2>1. CASE broker[r][k] = "submitting"
    <3>1. v = Marked(Tables, r, k, "resolved")
      BY <1>2, <2>1, TablesFields DEF Resolve, Marked, Closed
    <3>2. MayBecome(S, req, answers, Tables, r, "resolved") /\ "resolved" \in States
      BY DEF MayBecome, Closed, States
    <3>3. k \in 1..Len(Tables.broker[r]) /\ Tables \in TableSet /\ InRange(Tables)
      BY <1>2, TablesFields DEF Good, TablesKnown
    <3>4. Good(S, req, answers, v) /\ (r \notin revived => v.broker[r][1] = "resolved")
      <4> HIDE DEF v, r, k, S
      <4> QED BY <1>2, <3>1, <3>2, <3>3, TablesFields, GoodMark
    <3>5. v.revived = revived /\ v.bound = bound
      <4> HIDE DEF v, r, k, S
      <4> QED BY <1>2, <3>1, <3>2, <3>3, TablesFields, MarkSound
    <3> QED BY <1>3, <3>4, <3>5 DEF Closed
  <2>2. CASE broker[r][k] # "submitting"
    <3>1. v = Tables BY <2>2
    <3> HIDE DEF v
    <3>2. r \notin revived => Closed(broker[r][1]) BY <1>3, <2>2 DEF States, Closed
    <3> QED BY <1>2, <1>3, <3>1, <3>2, TablesFields
  <2> QED BY <2>1, <2>2
<1> HIDE DEF v, r, k, S
<1> DEFINE u == Forget(v, r)
<1>5. Good(S, req, answers, u) BY <1>2, <1>4, GoodForget
<1> HIDE DEF u
<1>6. Return(f, u) BY <1>1 DEF u
<1> QED BY <1>1, <1>5, <1>6, ReturnStep DEF S

LEMMA RespondFailsSafe == ASSUME InteractionInv, NEW f \in Frontends, RespondFails(f) PROVE InteractionInv'
<1> DEFINE r == fe[f].h.r
           k == fe[f].h.res
           S == Frontends \ {f}
           t == Tables
           rs == {r} \cup Drained(f)
<1>1. fe[f].h.stage = "responding" /\ UNCHANGED <<turn, req, yolo, answers, modes>>
  BY DEF RespondFails
<1>2. /\ r \in Requests /\ Known(req, r) /\ k \in 1..Len(broker[r]) /\ req \in Asks /\ Good(S, req, answers, t)
      /\ rs \in SUBSET Requests /\ \A x \in rs : Known(req, x)
  BY <1>1, InHandKnown, GoodNow DEF InteractionInv, Types, Asks
<1>3. CASE broker[r][k] = "submitting"
  <2> DEFINE v == Marked(t, r, k, "pending")
  <2>1. Leave(f, v, rs) BY <1>3 DEF RespondFails, Marked
  <2>2. r \notin revived => MayBecome(S, req, answers, t, r, "pending")
    <3> HAVE r \notin revived
    <3>1. /\ bound[r] = 1 /\ k = 1 /\ answers[r] = <<>> /\ (\A g \in Frontends \ {f} : ~InFlight(fe[g].h, r))
          /\ OneBroker(Tables, r, answers[r], req[r].noticed)
      BY <1>1, FlightNow
    <3>2. ~req[r].noticed /\ brokerOf[r] # 0
      BY <1>3, <3>1, TablesFields DEF OneBroker, Closed
    <3> QED BY <3>1, <3>2, TablesFields DEF MayBecome
  <2>3. k \in 1..Len(t.broker[r]) /\ "pending" \in States
    BY <1>2, TablesFields DEF States
  <2>4. t.revived = revived BY TablesFields
  <2> HIDE DEF r, k, S, t, rs
  <2>5. Good(S, req, answers, v) BY <1>2, <2>2, <2>3, <2>4, GoodMark
  <2> HIDE DEF v
  <2> QED BY <1>1, <1>2, <2>1, <2>5, LeaveStep DEF S
<1>4. CASE broker[r][k] # "submitting"
  <2>1. Return(f, t) BY <1>4 DEF RespondFails
  <2> HIDE DEF t
  <2> QED BY <1>1, <1>2, <2>1, ReturnStep
<1> QED BY <1>3, <1>4

--------------------
(* The answer on its way to the provider.                                  *)

LEMMA SubmitBeginSafe == ASSUME InteractionInv, NEW f \in Frontends, SubmitBegin(f) PROVE InteractionInv'
<1> DEFINE r == fe[f].h.r
           k == bound[r]
           S == Frontends \ {f}
           t == Marked(Tables, r, k, "submitting")
           h == [fe[f].h EXCEPT !.stage = "responding", !.res = k, !.dead = req[r].noticed]
           l == [fe[f] EXCEPT !.h = h]
<1>1. /\ fe[f].h.stage = "submit" /\ broker[r][k] = "pending" /\ broker' = [broker EXCEPT ![r][k] = "submitting"]
      /\ fe' = [fe EXCEPT ![f].h.stage = "responding", ![f].h.res = k, ![f].h.dead = req[r].noticed]
      /\ UNCHANGED <<turn, req, remembered, brokerOf, bound, mail, yolo, answers, revived, modes>>
  BY DEF SubmitBegin, MaySubmit
<1>2. /\ r \in Requests /\ Known(req, r) /\ req \in Asks /\ Good(S, req, answers, Tables) /\ req[r].noticed \in BOOLEAN
      /\ answers \in [Requests -> Seq(Answers)] /\ modes \in Nat /\ yolo \subseteq Frontends
  BY <1>1, InHandKnown, GoodNow DEF InteractionInv, Types, Asks
<1>3. k \in 1..Len(broker[r]) /\ k \in Nat BY <1>2, BoundInRange
<1>4. SetTables(t) BY <1>1, TablesFields DEF SetTables, Marked, Tables
<1>5. h \in Hands /\ h.r = r /\ h.stage = "responding" /\ h.res = k /\ h.dead = req[r].noticed
      /\ h.decision = fe[f].h.decision /\ h.told = fe[f].h.told /\ h.choice = fe[f].h.choice /\ h.resolved = fe[f].h.resolved
  BY <1>2, <1>3, HandNow DEF Hands, Stages
<1>6. fe' = [fe EXCEPT ![f] = l] /\ l \in Loops /\ l.h = h /\ l.replay = fe[f].replay
  <2>1. fe' = [fe EXCEPT ![f] = l] BY <1>1, HandNow DEF Loops, Hands
  <2> HIDE DEF h
  <2> QED BY <1>5, <2>1, HandNow DEF Loops
<1>7. r \notin revived => /\ bound[r] = 1 /\ answers[r] = <<>> /\ ~req[r].noticed /\ brokerOf[r] # 0
                          /\ \A g \in S : ~InFlight(fe[g].h, r)
  <2> HAVE r \notin revived
  <2>1. OneAnswer(r) BY <1>2 DEF InteractionInv, Unrevived
  <2>2. OneBroker(Tables, r, answers[r], req[r].noticed) BY <2>1 DEF OneAnswer
  <2> DEFINE n == Len(broker[r])
  <2>3. n \in Nat /\ n <= 1 /\ k = n /\ k \in 1..n
    BY <1>2, <1>3, <2>2, BoundInRange, TablesFields DEF OneBroker
  <2> HIDE DEF n
  <2>4. k = 1 BY <2>3
  <2>5. bound[r] = 1 /\ broker[r][1] = "pending" BY <1>1, <2>4
  <2>6. answers[r] = <<>> /\ ~req[r].noticed /\ brokerOf[r] # 0
    BY <2>2, <2>5, TablesFields DEF OneBroker, Closed
  <2>7. \A g \in S : ~InFlight(fe[g].h, r)
    BY <2>1, <2>5, TablesFields DEF OneAnswer, OneFlight, Flight
  <2> QED BY <2>5, <2>6, <2>7
<1>8. /\ k \in 1..Len(Tables.broker[r]) /\ "submitting" \in States /\ Tables.revived = revived
      /\ (r \notin revived => MayBecome(S, req, answers, Tables, r, "submitting"))
      /\ Tables \in TableSet /\ InRange(Tables)
  BY <1>2, <1>3, <1>7, TablesFields DEF States, MayBecome, Good, TablesKnown
<1> HIDE DEF S, l, h, k, r
<1>9. Good(S, req, answers, t) /\ (r \notin revived => t.broker[r][1] = "submitting")
  BY <1>2, <1>8, GoodMark
<1>10. t.revived = revived /\ t.bound = bound /\ Len(t.broker[r]) = Len(broker[r])
  BY <1>2, <1>8, TablesFields, MarkSound
<1> HIDE DEF t
<1>11. LoopKnown(l, req, t) BY <1>2, <1>3, <1>5, <1>6, <1>10, HandNow DEF LoopKnown
<1>12. FlightOK(S, l, answers, t)
  <2> SUFFICES ASSUME NEW x \in Requests \ t.revived, InFlight(l.h, x)
               PROVE  /\ Flight(t, answers, l.h, x) /\ l.h.res = 1 /\ (l.h.stage = "responding" => ~l.h.dead)
                      /\ \A g \in S : ~InFlight(fe[g].h, x)
    BY DEF FlightOK
  <2>1. x = r /\ r \notin revived BY <1>5, <1>6, <1>10 DEF InFlight
  <2> QED BY <1>5, <1>6, <1>7, <1>9, <1>10, <2>1 DEF Flight, k
<1>13. HandOK(f)' BY <1>6, HandNow, <1>1, <1>5 DEF HandOK, HandTrue, NoneWaits
<1>14. AcceptedIsSent' BY <1>1 DEF InteractionInv, AcceptedIsSent
<1>15. /\ req' = req /\ answers' = answers /\ turn' = turn /\ modes' \in Nat /\ modes <= modes' /\ yolo' \subseteq Frontends
       /\ \A g \in Frontends \ {f} : g \in yolo' => g \in yolo
  BY <1>1, <1>2
<1>16. mail' \in Mails /\ MailKnown(mail', req) BY <1>1, MailNow
<1>17. \A x \in Requests : Known(req, x) => Known(req', x) /\ req'[x].kind = req[x].kind
  BY <1>15
<1>18. /\ Good(Frontends \ {f}, req', answers', t) /\ req' \in Asks /\ answers' \in [Requests -> Seq(Answers)]
       /\ MailKnown(mail', req') /\ LoopKnown(l, req', t) /\ FlightOK(Frontends \ {f}, l, answers', t)
  BY <1>2, <1>9, <1>11, <1>12, <1>15, <1>16 DEF S
<1> QED BY <1>4, <1>6, <1>13, <1>14, <1>15, <1>16, <1>17, <1>18, FrontStep

\* A written answer to a request whose broker is taken and that nobody else answers.
Answered(a, x, e) == [a EXCEPT ![x] = Append(a[x], e)]
LEMMA GoodAnswered ==
  ASSUME NEW S, NEW q \in Asks, NEW a, a \in [Requests -> Seq(Answers)], NEW t, Good(S, q, a, t), NEW x \in Requests, NEW e \in Answers,
         x \notin t.revived => /\ a[x] = <<>> /\ ~e.dead /\ t.bound[x] = 1 /\ t.broker[x][1] # "pending"
                               /\ \A g \in S : ~InFlight(fe[g].h, x)
  PROVE  /\ Good(S, q, Answered(a, x, e), t) /\ Answered(a, x, e)[x] # <<>>
         /\ Answered(a, x, e) \in [Requests -> Seq(Answers)]
<1> DEFINE b == Answered(a, x, e)
<1>1. /\ a[x] \in Seq(Answers) /\ b[x] = Append(a[x], e) /\ b[x] # <<>> /\ b \in [Requests -> Seq(Answers)]
      /\ \A r \in Requests : r # x => b[r] = a[r]
  <2>1. a[x] \in Seq(Answers) /\ Append(a[x], e) \in Seq(Answers) /\ Len(Append(a[x], e)) = Len(a[x]) + 1 /\ Len(a[x]) \in Nat
    OBVIOUS
  <2>2. Append(a[x], e) # <<>> BY <2>1
  <2>3. b[x] = Append(a[x], e) /\ b \in [Requests -> Seq(Answers)] /\ \A r \in Requests : r # x => b[r] = a[r]
    <3> DEFINE c == Append(a[x], e)
    <3>1. c \in Seq(Answers) /\ b = [a EXCEPT ![x] = c] BY <2>1 DEF Answered
    <3> HIDE DEF c, b
    <3>2. b[x] = c /\ b \in [Requests -> Seq(Answers)] /\ \A r \in Requests : r # x => b[r] = a[r]
      BY <3>1
    <3> QED BY <3>2 DEF c
  <2> QED BY <2>1, <2>2, <2>3
<1> HIDE DEF b
<1>2. ASSUME NEW r \in Requests \ t.revived
      PROVE  /\ OneBroker(t, r, b[r], q[r].noticed) /\ Alive(b, r)
             /\ \A g \in S : InFlight(fe[g].h, r) => Flight(t, b, fe[g].h, r)
  <2>1. /\ OneBroker(t, r, a[r], q[r].noticed) /\ Alive(a, r)
        /\ \A g \in S : InFlight(fe[g].h, r) => Flight(t, a, fe[g].h, r)
    BY DEF Good
  <2>2. CASE r # x BY <1>1, <2>1, <2>2 DEF Alive, Flight
  <2>3. CASE r = x
    <3>1. a[x] = <<>> /\ ~e.dead /\ t.bound[x] = 1 /\ t.broker[x][1] # "pending" /\ \A g \in S : ~InFlight(fe[g].h, x)
      BY <2>3
    <3>2. b[x] = <<e>> /\ Len(b[x]) = 1 /\ DOMAIN b[x] = {1} /\ b[x][1] = e
      BY <1>1, <3>1
    <3>3. Alive(b, r) BY <2>3, <3>1, <3>2 DEF Alive
    <3>4. OneBroker(t, r, b[r], q[r].noticed)
      <4>1. Len(b[r]) <= 1 /\ b[r] # <<>>
        <5>1. b[r] # <<>> /\ Len(b[r]) = 1 BY <1>1, <3>2, <2>3
        <5> DEFINE n == Len(b[r])
        <5>2. n = 1 BY <5>1
        <5> HIDE DEF n
        <5>3. n <= 1 BY <5>2
        <5> QED BY <5>1, <5>3 DEF n
      <4> QED BY <2>1, <2>3, <3>1, <4>1 DEF OneBroker
    <3> QED BY <2>3, <3>1, <3>3, <3>4
  <2> QED BY <2>2, <2>3
<1> QED BY <1>1, <1>2 DEF Good, b

LEMMA RespondWriteSafe == ASSUME InteractionInv, NEW f \in Frontends, RespondWrite(f) PROVE InteractionInv'
<1> DEFINE r == fe[f].h.r
           S == Frontends \ {f}
           e == [decision |-> fe[f].h.decision, told |-> fe[f].h.told, dead |-> fe[f].h.dead]
           t == Forget(Tables, r)
           h == [fe[f].h EXCEPT !.stage = "written"]
           l == [fe[f] EXCEPT !.h = h]
<1>1. /\ fe[f].h.stage = "responding" /\ answers' = [answers EXCEPT ![r] = Append(answers[r], e)]
      /\ req' = [req EXCEPT ![r].open = FALSE] /\ SetTables(t) /\ fe' = [fe EXCEPT ![f].h.stage = "written"]
      /\ UNCHANGED <<turn, mail, yolo, modes>>
  BY DEF RespondWrite
<1>2. /\ r \in Requests /\ Known(req, r) /\ req \in Asks /\ Good(S, req, answers, Tables)
      /\ answers \in [Requests -> Seq(Answers)] /\ modes \in Nat /\ yolo \subseteq Frontends
      /\ fe[f].h.res \in 1..Len(broker[r])
  BY <1>1, InHandKnown, GoodNow DEF InteractionInv, Types, Asks
<1>3. e \in Answers /\ e.decision = fe[f].h.decision /\ e.told = fe[f].h.told /\ e.dead = fe[f].h.dead
  BY HandNow DEF Hands, Answers
<1>4. h \in Hands /\ h.r = r /\ h.stage = "written" /\ h.res = fe[f].h.res /\ h.decision = fe[f].h.decision
      /\ h.told = fe[f].h.told /\ h.choice = fe[f].h.choice /\ h.resolved = fe[f].h.resolved
  BY HandNow DEF Hands, Stages
<1>5. fe' = [fe EXCEPT ![f] = l] /\ l \in Loops /\ l.h = h /\ l.replay = fe[f].replay
  <2>1. fe' = [fe EXCEPT ![f] = l] BY <1>1, HandNow DEF Loops, Hands
  <2> HIDE DEF h
  <2> QED BY <1>4, <2>1, HandNow DEF Loops
<1>6. r \notin revived => /\ bound[r] = 1 /\ answers[r] = <<>> /\ ~fe[f].h.dead /\ broker[r][1] # "pending" /\ fe[f].h.res = 1
                          /\ \A g \in S : ~InFlight(fe[g].h, r)
  BY <1>1, FlightNow
<1>7. Tables \in TableSet /\ InRange(Tables) /\ Tables.revived = revived /\ Tables.bound = bound /\ Tables.broker = broker
  BY <1>2, TablesFields DEF Good, TablesKnown
<1>8. t.bound = bound /\ t.broker = broker /\ t.revived = revived
  <2> HIDE DEF r
  <2> QED BY <1>2, <1>7, ForgetSound
<1>9. req' \in Asks /\ \A x \in Requests : req'[x].turn = req[x].turn /\ req'[x].kind = req[x].kind /\ req'[x].noticed = req[x].noticed
  BY <1>1, <1>2 DEF Asks
<1> HIDE DEF S, e, l, h, r
<1>10. Good(S, req, answers', Tables) /\ answers'[r] # <<>> /\ answers' \in [Requests -> Seq(Answers)]
  <2>1. r \notin Tables.revived => /\ answers[r] = <<>> /\ ~e.dead /\ Tables.bound[r] = 1 /\ Tables.broker[r][1] # "pending"
                                   /\ \A g \in S : ~InFlight(fe[g].h, r)
    BY <1>3, <1>6, <1>7
  <2>2. Good(S, req, Answered(answers, r, e), Tables) /\ Answered(answers, r, e)[r] # <<>>
        /\ Answered(answers, r, e) \in [Requests -> Seq(Answers)]
    BY <1>2, <1>3, <2>1, GoodAnswered
  <2> QED BY <1>1, <2>2 DEF Answered
<1>11. Good(S, req', answers', Tables) BY <1>2, <1>9, <1>10, GoodNoticed
<1>12. Good(S, req', answers', t) BY <1>2, <1>9, <1>10, <1>11, GoodForget
<1> HIDE DEF t
<1>13. \A x \in Requests : Known(req, x) => Known(req', x) /\ req'[x].kind = req[x].kind
  BY <1>9 DEF Known
<1>14. LoopKnown(l, req', t)
  BY HandNow, <1>2, <1>4, <1>5, <1>8, <1>13 DEF Loops, LoopKnown
<1>15. FlightOK(S, l, answers', t)
  <2> SUFFICES ASSUME NEW x \in Requests \ t.revived, InFlight(l.h, x)
               PROVE  /\ Flight(t, answers', l.h, x) /\ l.h.res = 1 /\ (l.h.stage = "responding" => ~l.h.dead)
                      /\ \A g \in S : ~InFlight(fe[g].h, x)
    BY DEF FlightOK
  <2>1. x = r /\ r \notin revived BY <1>4, <1>5, <1>8 DEF InFlight
  <2> QED BY <1>4, <1>5, <1>6, <1>8, <2>1 DEF Flight
<1>16. HandOK(f)' BY <1>5, HandNow, <1>1, <1>4 DEF HandOK, HandTrue, NoneWaits
<1>17. AcceptedIsSent'
  <2> SUFFICES ASSUME NEW x \in Requests, NEW i \in DOMAIN answers'[x], answers'[x][i].told # NoChoice
               PROVE  answers'[x][i].decision = answers'[x][i].told \/ (answers'[x][i].decision = "allow" /\ modes > 0)
    BY <1>1 DEF AcceptedIsSent
  <2>1. CASE x # r \/ i # Len(answers[r]) + 1
    BY <1>1, <1>2, <1>3, <2>1 DEF InteractionInv, AcceptedIsSent
  <2>2. CASE x = r /\ i = Len(answers[r]) + 1
    BY <1>1, <1>2, <1>3, <2>2, HandNow DEF HandTrue
  <2> QED BY <2>1, <2>2
<1>18. mail' \in Mails /\ MailKnown(mail', req') BY <1>13, MailNow, <1>1 DEF MailKnown
<1>19. /\ turn' = turn /\ modes' \in Nat /\ modes <= modes' /\ yolo' \subseteq Frontends
       /\ \A g \in Frontends \ {f} : g \in yolo' => g \in yolo
  BY <1>1, <1>2
<1>20. Good(Frontends \ {f}, req', answers', t) /\ FlightOK(Frontends \ {f}, l, answers', t)
  BY <1>12, <1>15 DEF S
<1> QED BY <1>1, <1>5, <1>9, <1>10, <1>13, <1>14, <1>16, <1>17, <1>18, <1>19, <1>20, FrontStep

--------------------
(* The read loop.                                                          *)

LEMMA MailStays ==
  ASSUME InteractionInv, mail' = mail, \A r \in Requests : Known(req, r) => Known(req', r)
  PROVE  mail' \in Mails /\ MailKnown(mail', req')
  BY MailNow DEF MailKnown

\* An event every front end gets: a request that is known by now, or the end of a turn.
LEMMA MailPosted ==
  ASSUME InteractionInv, NEW e \in Requests \cup {Ended}, mail' = Post(e), e \in Requests => Known(req', e),
         \A r \in Requests : Known(req, r) => Known(req', r)
  PROVE  mail' \in Mails /\ MailKnown(mail', req')
<1>1. \A f \in Frontends : mail[f] \in Seq(Requests \cup {Ended}) /\ (mail'[f] = mail[f] \/ mail'[f] = Append(mail[f], e))
  BY MailNow DEF Post, Mails
<1>2. \A f \in Frontends : Append(mail[f], e) \in Seq(Requests \cup {Ended}) BY <1>1
<1>3. mail' \in Mails BY <1>1, <1>2 DEF Post, Mails
<1>4. ASSUME NEW f \in Frontends, NEW i \in DOMAIN mail'[f], mail'[f][i] \in Requests
      PROVE  Known(req', mail'[f][i])
  BY <1>4, MailNow, <1>1 DEF MailKnown
<1> QED BY <1>3, <1>4 DEF MailKnown

LEMMA TurnNow == ASSUME InteractionInv PROVE turn \in [n : Nat \ {0}, running : BOOLEAN] /\ req \in Asks
  BY DEF InteractionInv, Types, Asks

LEMMA AskSafe ==
  ASSUME InteractionInv, NEW x \in Requests, NEW kind \in {"approval", "question"}, Ask(x, kind)
  PROVE  InteractionInv'
<1> DEFINE u == Remember(Tables, {x})
           S == Frontends
<1>1. /\ req[x].turn = 0 /\ req' = [req EXCEPT ![x] = [turn |-> turn.n, kind |-> kind, open |-> TRUE, noticed |-> FALSE]]
      /\ SetTables(u) /\ mail' = Post(x) /\ UNCHANGED <<turn, fe, yolo, answers, modes>>
  BY DEF Ask
<1>2. /\ req' \in Asks /\ Known(req', x) /\ req'[x].noticed = FALSE /\ ~Known(req, x)
      /\ \A r \in Requests \ {x} : req'[r] = req[r]
  BY <1>1, TurnNow DEF Asks, Known
<1>3. \A r \in Requests : Known(req, r) => Known(req', r) /\ req'[r].kind = req[r].kind
  BY <1>2 DEF Known
<1>4. Good(S, req, answers, Tables) /\ Tables \in TableSet /\ InRange(Tables) /\ TablesKnown(Tables, req)
  BY GoodNow DEF Good, TablesKnown
<1>5. /\ u \in TableSet /\ InRange(u)
      /\ u.remembered = Tables.remembered \cup {x} /\ Tables.revived \subseteq u.revived
      /\ \A r \in Requests : u.bound[r] # 0 <=> Tables.bound[r] # 0 \/ r \in {x}
      /\ \A r \in Requests : Len(Tables.broker[r]) <= Len(u.broker[r])
      /\ \A r \in Requests, noticed \in BOOLEAN :
           r \notin u.revived /\ OneBroker(Tables, r, answers[r], noticed) /\ (r \in {x} => Tables.bound[r] # 0)
             => OneBroker(u, r, answers[r], noticed) /\ u.broker[r] = Tables.broker[r] /\ u.bound[r] = Tables.bound[r]
  <2> DEFINE rs == {x}
             t == Tables
  <2>1. rs \in SUBSET Requests /\ t \in TableSet /\ InRange(t) BY <1>4
  <2> HIDE DEF rs, t
  <2>2. u = Remember(t, rs) BY DEF rs, t
  <2> HIDE DEF u
  <2>3. /\ u \in TableSet /\ InRange(u)
        /\ u.remembered = t.remembered \cup rs /\ t.revived \subseteq u.revived
        /\ \A r \in Requests : u.bound[r] # 0 <=> t.bound[r] # 0 \/ r \in rs
        /\ \A r \in Requests : Len(t.broker[r]) <= Len(u.broker[r])
        /\ \A r \in Requests, noticed \in BOOLEAN :
             r \notin u.revived /\ OneBroker(t, r, answers[r], noticed) /\ (r \in rs => t.bound[r] # 0)
               => OneBroker(u, r, answers[r], noticed) /\ u.broker[r] = t.broker[r] /\ u.bound[r] = t.bound[r]
    BY <2>1, <2>2, RememberSound
  <2> QED BY <2>3 DEF rs, t
<1>6. x \notin revived => OneBroker(u, x, answers[x], FALSE) /\ \A g \in S : ~InFlight(fe[g].h, x)
  <2> HAVE x \notin revived
  <2>1. OneAnswer(x) /\ bound[x] = 0
    BY <1>2, <1>4, TablesFields DEF InteractionInv, Unrevived, TablesKnown, TableSet
  <2>2. OneBroker(Tables, x, answers[x], req[x].noticed) BY <2>1 DEF OneAnswer
  <2>3. Len(broker[x]) = 0 /\ brokerOf[x] = 0 /\ answers[x] = <<>> /\ broker[x] \in Seq(States)
    BY <1>4, <2>1, <2>2, TablesFields DEF OneBroker, TableSet
  <2>4. u.brokerOf[x] = 1 /\ u.bound[x] = 1 /\ u.broker[x] = Append(broker[x], "pending") /\ x \in u.remembered
    BY <2>3, TablesFields DEF Remember
  <2>5. \A b \in Seq(States) : Len(b) = 0 => Len(Append(b, "pending")) = 1 /\ Append(b, "pending")[1] = "pending"
    BY DEF States
  <2>6. Len(u.broker[x]) = 1 /\ u.broker[x][1] = "pending"
    <3> HIDE DEF u
    <3> QED BY <2>3, <2>4, <2>5
  <2> HIDE DEF u
  <2>7. OneBroker(u, x, answers[x], FALSE) BY <2>3, <2>4, <2>6 DEF OneBroker
  <2>8. \A g \in S : ~InFlight(fe[g].h, x)
    BY <2>1, TablesFields DEF OneAnswer, OneFlight, Flight
  <2> QED BY <2>7, <2>8
<1> HIDE DEF u
<1>7. TablesKnown(u, req') BY <1>2, <1>4, <1>5, <1>3 DEF TablesKnown, Known, TableSet
<1>8. ASSUME NEW r \in Requests \ u.revived
      PROVE  /\ OneBroker(u, r, answers[r], req'[r].noticed) /\ Alive(answers, r)
             /\ \A g \in S : InFlight(fe[g].h, r) => Flight(u, answers, fe[g].h, r)
  <2>1. r \in Requests \ Tables.revived /\ r \notin revived /\ req[r].noticed \in BOOLEAN
    BY <1>5, <1>8, TablesFields, TurnNow DEF Asks
  <2>2. /\ OneBroker(Tables, r, answers[r], req[r].noticed) /\ Alive(answers, r)
        /\ \A g \in S : InFlight(fe[g].h, r) => Flight(Tables, answers, fe[g].h, r)
    BY <1>4, <2>1 DEF Good
  <2>3. CASE r = x BY <1>2, <1>6, <2>1, <2>2, <2>3
  <2>4. CASE r # x BY <1>5, <1>8, <2>1, <2>2, <2>4, <1>2 DEF Flight
  <2> QED BY <2>3, <2>4
<1>9. Good(S, req', answers, u) BY <1>5, <1>7, <1>8, TablesFields DEF Good
<1>10. mail' \in Mails /\ MailKnown(mail', req') BY <1>1, <1>2, <1>3, MailPosted
<1>11. turn' \in [n : Nat \ {0}, running : BOOLEAN] BY <1>1, TurnNow
<1> QED BY <1>1, <1>2, <1>3, <1>9, <1>10, <1>11, ProviderStep

\* The tables stay; at most the provider's view changes.
LEMMA TablesStayGood ==
  ASSUME InteractionInv, UNCHANGED <<fe, yolo, answers, modes, mail, remembered, brokerOf, bound, broker, revived>>,
         turn' \in [n : Nat \ {0}, running : BOOLEAN], req' \in Asks,
         \A r \in Requests : req'[r].turn = req[r].turn /\ req'[r].kind = req[r].kind,
         \A r \in Requests \ revived : req'[r].noticed =>
            \/ req[r].noticed
            \/ bound[r] = 1 /\ Closed(broker[r][1])
            \/ bound[r] = 1 /\ answers[r] # <<>>
  PROVE  InteractionInv'
<1> DEFINE S == Frontends
           t == Tables
           q == req'
<1>1. Good(S, req, answers, t) /\ t.bound = bound /\ t.broker = broker /\ t.revived = revived /\ req \in Asks
  BY GoodNow, TablesFields, TurnNow
<1> HIDE DEF S, t, q
<1>2. /\ q \in Asks /\ (\A r \in Requests : q[r].turn = req[r].turn)
      /\ \A r \in Requests \ t.revived : q[r].noticed =>
            \/ req[r].noticed
            \/ t.bound[r] = 1 /\ Closed(t.broker[r][1])
            \/ t.bound[r] = 1 /\ answers[r] # <<>>
  BY <1>1 DEF q
<1>3. Good(S, q, answers, t) BY <1>1, <1>2, GoodNoticed
<1>4. Good(Frontends, req', answers, t) BY <1>3 DEF S, q
<1>5. \A r \in Requests : Known(req, r) => Known(req', r) /\ req'[r].kind = req[r].kind
  BY DEF Known
<1>6. mail' \in Mails /\ MailKnown(mail', req') BY <1>5, MailStays
<1>7. SetTables(t) BY DEF SetTables, Tables, t
<1> QED BY <1>4, <1>5, <1>6, <1>7, ProviderStep

LEMMA AnsweredElsewhereSafe ==
  ASSUME InteractionInv, NEW x \in Requests, AnsweredElsewhere(x) PROVE InteractionInv'
<1>1. req' \in Asks /\ \A r \in Requests : req'[r].turn = req[r].turn /\ req'[r].kind = req[r].kind /\ req'[r].noticed = req[r].noticed
  BY TurnNow DEF AnsweredElsewhere, Asks
<1> QED BY <1>1, TurnNow, TablesStayGood DEF AnsweredElsewhere

LEMMA StartTurnSafe == ASSUME InteractionInv, StartTurn PROVE InteractionInv'
<1>1. turn' \in [n : Nat \ {0}, running : BOOLEAN] BY TurnNow DEF StartTurn
<1> QED BY <1>1, TurnNow, TablesStayGood DEF StartTurn

\* What the tables hold of no request is answered or closed.
LEMMA NotHeldIsOver ==
  ASSUME InteractionInv, NEW r \in Requests \ revived, Known(req, r), brokerOf[r] = 0
  PROVE  bound[r] = 1 /\ (Closed(broker[r][1]) \/ answers[r] # <<>>)
<1>1. OneBroker(Tables, r, answers[r], req[r].noticed)
  BY DEF InteractionInv, Unrevived, OneAnswer
<1>2. bound[r] \in 1..Len(broker[r]) /\ broker[r] \in Seq(States) BY BoundInRange
<1> DEFINE n == Len(broker[r])
<1>3. n \in Nat /\ n <= 1 /\ bound[r] = n /\ bound[r] \in 1..n
  BY <1>1, <1>2, TablesFields DEF OneBroker
<1> HIDE DEF n
<1>4. bound[r] = 1 BY <1>3
<1> QED BY <1>1, <1>4, TablesFields DEF OneBroker

LEMMA ServerRequestResolvedSafe ==
  ASSUME InteractionInv, NEW x \in Requests, ServerRequestResolved(x) PROVE InteractionInv'
<1>1. /\ req[x].turn # 0 /\ req' = [req EXCEPT ![x].noticed = TRUE] /\ UNCHANGED <<turn, mail, fe, yolo, answers, modes>>
      /\ Known(req, x)
  BY DEF ServerRequestResolved, Known
<1>2. /\ req' \in Asks /\ \A r \in Requests : req'[r].turn = req[r].turn /\ req'[r].kind = req[r].kind
      /\ \A r \in Requests \ {x} : req'[r].noticed = req[r].noticed
  BY <1>1, TurnNow DEF Asks
<1>3. CASE x \notin remembered
  BY <1>3, TablesFields, <1>1, NotHeldIsOver, <1>2, TurnNow, TablesStayGood DEF ServerRequestResolved, InteractionInv,
     Unrevived, OneAnswer, OneBroker
<1>4. CASE x \in remembered
  <2> DEFINE S == Frontends
             t == Tables
             s == "resolved"
             u == ResolveAndForget(t, x, s)
             q == req'
  <2>1. SetTables(u) BY <1>4 DEF ServerRequestResolved
  <2>2. Good(S, req, answers, t) /\ t.revived = revived /\ req \in Asks /\ s \in States /\ Closed(s)
    BY GoodNow, TablesFields, TurnNow DEF States, Closed
  <2>7. mail' \in Mails /\ MailKnown(mail', req') /\ turn' \in [n : Nat \ {0}, running : BOOLEAN]
        /\ \A r \in Requests : Known(req, r) => Known(req', r) /\ req'[r].kind = req[r].kind
    BY <1>2, <1>1, MailStays, TurnNow DEF Known
  <2> HIDE DEF S, t, s, q
  <2>3. /\ Good(S, req, answers, u) /\ u.revived = revived
        /\ x \notin revived => u.bound[x] = 1 /\ Closed(u.broker[x][1])
    BY <1>1, <2>2, GoodResolveAndForget
  <2> HIDE DEF u
  <2>4. /\ q \in Asks /\ (\A r \in Requests : q[r].turn = req[r].turn)
        /\ \A r \in Requests \ u.revived : q[r].noticed =>
              \/ req[r].noticed
              \/ u.bound[r] = 1 /\ Closed(u.broker[r][1])
              \/ u.bound[r] = 1 /\ answers[r] # <<>>
    BY <1>2, <2>3 DEF q
  <2>5. Good(S, q, answers, u) BY <2>2, <2>3, <2>4, GoodNoticed
  <2>6. Good(Frontends, req', answers, u) /\ req' \in Asks BY <1>2, <2>5 DEF S, q
  <2>8. UNCHANGED <<fe, yolo, answers, modes>> BY <1>1
  <2> QED BY <2>1, <2>6, <2>7, <2>8, ProviderStep
<1> QED BY <1>3, <1>4

\* The terminal of a turn closes what the tables hold of it.
LEMMA SettleGood ==
  ASSUME InteractionInv, NEW n \in Nat \ {0}, NEW u, u = SettleTurn(Tables, n)
  PROVE  /\ Good(Frontends, req, answers, u) /\ u.revived = revived
         /\ \A r \in Requests \ revived : req[r].turn = n =>
              u.bound[r] = 1 /\ (Closed(u.broker[r][1]) \/ answers[r] # <<>>)
<1> DEFINE mine == {r \in Requests : req[r].turn = n /\ (r \in remembered \/ brokerOf[r] # 0)}
           held(r) == {brokerOf[r]} \cup (IF r \in remembered THEN {bound[r]} ELSE {})
           b(r) == [i \in DOMAIN broker[r] |-> IF i \in held(r) /\ ~Closed(broker[r][i]) THEN "terminal" ELSE broker[r][i]]
<1>1. /\ remembered \in SUBSET Requests /\ brokerOf \in [Requests -> Nat] /\ bound \in [Requests -> Nat]
      /\ broker \in [Requests -> Seq(States)] /\ revived \in SUBSET Requests
  BY TablesFields DEF InteractionInv, Types, TableSet
<1>2. u = [remembered |-> remembered \ mine, brokerOf |-> [r \in Requests |-> IF r \in mine THEN 0 ELSE brokerOf[r]],
           bound |-> bound, broker |-> [r \in Requests |-> IF r \in mine THEN b(r) ELSE broker[r]], revived |-> revived]
  BY DEF SettleTurn, Tables
<1>3. /\ u.remembered = remembered \ mine /\ u.brokerOf = [r \in Requests |-> IF r \in mine THEN 0 ELSE brokerOf[r]]
      /\ u.bound = bound /\ u.broker = [r \in Requests |-> IF r \in mine THEN b(r) ELSE broker[r]] /\ u.revived = revived
  BY <1>2
<1>4. ASSUME NEW r \in Requests
      PROVE  /\ b(r) \in Seq(States) /\ Len(b(r)) = Len(broker[r])
             /\ \A i \in DOMAIN broker[r] : b(r)[i] = IF i \in held(r) /\ ~Closed(broker[r][i]) THEN "terminal" ELSE broker[r][i]
  <2>1. broker[r] \in Seq(States) /\ DOMAIN broker[r] = 1..Len(broker[r]) /\ Len(broker[r]) \in Nat
    BY <1>1
  <2>2. b(r) \in [1..Len(broker[r]) -> States] BY <2>1 DEF States
  <2> QED BY <2>1, <2>2
<1> HIDE DEF b
<1>5. u \in TableSet BY <1>1, <1>3, <1>4, <1>2 DEF TableSet
<1>6. \A r \in Requests : Len(u.broker[r]) = Len(broker[r]) BY <1>3, <1>4
<1>7. TablesKnown(u, req)
  BY <1>1, <1>3, <1>6, TablesFields DEF InteractionInv, Held, TablesKnown, InRange
<1>8. ASSUME NEW r \in Requests \ revived
      PROVE  /\ OneBroker(u, r, answers[r], req[r].noticed) /\ Alive(answers, r)
             /\ (\A g \in Frontends : InFlight(fe[g].h, r) => Flight(u, answers, fe[g].h, r))
             /\ req[r].turn = n => u.bound[r] = 1 /\ (Closed(u.broker[r][1]) \/ answers[r] # <<>>)
  <2>1. OneAnswer(r) BY <1>8 DEF InteractionInv, Unrevived
  <2>2. /\ OneBroker(Tables, r, answers[r], req[r].noticed) /\ Alive(answers, r)
        /\ \A g \in Frontends : InFlight(fe[g].h, r) => Flight(Tables, answers, fe[g].h, r)
    BY <2>1 DEF OneAnswer, OneFlight
  <2>3. CASE r \notin mine
    <3>1. /\ u.broker[r] = Tables.broker[r] /\ u.bound[r] = Tables.bound[r] /\ u.brokerOf[r] = Tables.brokerOf[r]
          /\ (r \in u.remembered <=> r \in Tables.remembered)
      BY <1>3, <2>3, TablesFields
    <3>2. OneBroker(u, r, answers[r], req[r].noticed) BY <2>2, <3>1 DEF OneBroker
    <3>3. req[r].turn = n => u.bound[r] = 1 /\ (Closed(u.broker[r][1]) \/ answers[r] # <<>>)
      <4> HAVE req[r].turn = n
      <4>1. brokerOf[r] = 0 /\ Known(req, r) BY <2>3 DEF Known
      <4> QED BY <3>1, <4>1, NotHeldIsOver, TablesFields
    <3> QED BY <2>2, <3>1, <3>2, <3>3 DEF Flight
  <2>4. CASE r \in mine
    <3>1. bound[r] = 1 /\ Len(broker[r]) = 1 /\ 1 \in DOMAIN broker[r]
      <4>1. Known(req, r) BY <2>4 DEF Known
      <4>2. bound[r] \in 1..Len(broker[r]) /\ broker[r] \in Seq(States)
        BY <4>1, BoundInRange
      <4> DEFINE m == Len(broker[r])
      <4>3. m \in Nat /\ m <= 1 /\ bound[r] = m /\ bound[r] \in 1..m /\ DOMAIN broker[r] = 1..m
        BY <2>2, <4>2, TablesFields DEF OneBroker
      <4> HIDE DEF m
      <4>4. m = 1 BY <4>3
      <4> QED BY <4>3, <4>4 DEF m
    <3>2. 1 \in held(r) BY <2>2, <2>4, <3>1, TablesFields DEF OneBroker
    <3>3. u.brokerOf[r] = 0 /\ u.bound[r] = 1 /\ Closed(u.broker[r][1]) /\ Len(u.broker[r]) = 1
      BY <1>3, <1>4, <1>6, <2>4, <3>1, <3>2 DEF Closed
    <3>4. u.broker[r][1] \notin {"pending", "submitting"} BY <3>3 DEF Closed
    <3>5. OneBroker(u, r, answers[r], req[r].noticed) BY <2>2, <3>3, <3>4 DEF OneBroker
    <3> QED BY <2>2, <3>3, <3>4, <3>5 DEF Flight
  <2> QED BY <2>3, <2>4
<1>9. \A r \in Requests : Len(broker[r]) <= Len(u.broker[r]) BY <1>1, <1>6
<1>10. Good(Frontends, req, answers, u) BY <1>3, <1>5, <1>7, <1>8, <1>9 DEF Good
<1> QED BY <1>3, <1>8, <1>10

LEMMA EndTurnSafe == ASSUME InteractionInv, EndTurn PROVE InteractionInv'
<1> DEFINE n == turn.n
           u == SettleTurn(Tables, n)
           S == Frontends
           q == req'
<1>1. /\ turn' = [turn EXCEPT !.running = FALSE] /\ SetTables(u) /\ mail' = Post(Ended) /\ UNCHANGED <<fe, yolo, answers, modes>>
      /\ req' = [r \in Requests |-> IF req[r].turn = n THEN [req[r] EXCEPT !.open = FALSE, !.noticed = TRUE] ELSE req[r]]
  BY DEF EndTurn
<1>2. n \in Nat \ {0} /\ turn' \in [n : Nat \ {0}, running : BOOLEAN] /\ req \in Asks
  BY <1>1, TurnNow
<1> HIDE DEF n
<1>3. /\ req' \in Asks /\ (\A r \in Requests : req'[r].turn = req[r].turn /\ req'[r].kind = req[r].kind)
      /\ \A r \in Requests : req[r].turn # n => req'[r].noticed = req[r].noticed
  BY <1>1, <1>2 DEF Asks
<1>4. /\ Good(S, req, answers, u) /\ u.revived = revived
      /\ \A r \in Requests \ revived : req[r].turn = n => u.bound[r] = 1 /\ (Closed(u.broker[r][1]) \/ answers[r] # <<>>)
  BY <1>2, SettleGood
<1>5. \A r \in Requests : Known(req, r) => Known(req', r) /\ req'[r].kind = req[r].kind
  BY <1>3 DEF Known
<1>6. mail' \in Mails /\ MailKnown(mail', req')
  BY InteractionAssumption, <1>1, <1>5, MailPosted
<1> HIDE DEF u, S, q
<1>7. /\ q \in Asks /\ (\A r \in Requests : q[r].turn = req[r].turn)
      /\ \A r \in Requests \ u.revived : q[r].noticed =>
            \/ req[r].noticed
            \/ u.bound[r] = 1 /\ Closed(u.broker[r][1])
            \/ u.bound[r] = 1 /\ answers[r] # <<>>
  BY <1>3, <1>4 DEF q
<1>8. Good(S, q, answers, u) BY <1>2, <1>4, <1>7, GoodNoticed
<1>9. Good(Frontends, req', answers, u) BY <1>8 DEF S, q
<1> QED BY <1>1, <1>2, <1>3, <1>5, <1>6, <1>9, ProviderStep

--------------------
(* The theorems.                                                           *)

LEMMA InteractionInit == Init => InteractionInv
<1> SUFFICES ASSUME Init PROVE InteractionInv OBVIOUS
<1>1. Off \in Loops /\ Off.h = Resting /\ Off.replay = {} BY RestingHand DEF Off, Loops
<1>2. Tables = [remembered |-> {}, brokerOf |-> [r \in Requests |-> 0], bound |-> [r \in Requests |-> 0],
                broker |-> [r \in Requests |-> <<>>], revived |-> {}]
  BY DEF Init, Tables
<1>3. Tables \in TableSet BY <1>2 DEF TableSet
<1>4. Types BY InteractionAssumption, <1>1, <1>3 DEF Init, Types
<1>5. Held
  BY <1>2, <1>1, RestingHand DEF Init, TablesKnown, InRange, Known, MailKnown, LoopKnown, Held
<1>6. ASSUME NEW r \in Requests PROVE OneAnswer(r)
  BY <1>1, RestingHand, <1>2 DEF Init, OneBroker, OneFlight, InFlight, Alive, OneAnswer
<1>7. HandsTrue /\ YoloLeavesNoneWaiting
  BY <1>1, <1>4, RestingHand DEF Init, Types, HandsTrue, HandTrue, YoloLeavesNoneWaiting
<1>8. AcceptedIsSent BY DEF Init, AcceptedIsSent
<1> QED BY <1>4, <1>5, <1>6, <1>7, <1>8 DEF InteractionInv, Unrevived

LEMMA InteractionStutter == ASSUME InteractionInv, UNCHANGED vars PROVE InteractionInv'
<1>1. req' = req /\ UNCHANGED <<fe, yolo, answers, modes, mail, remembered, brokerOf, bound, broker, revived, turn>>
  BY DEF vars
<1> QED BY <1>1, TurnNow, TablesStayGood

LEMMA InteractionNext == ASSUME InteractionInv, Next PROVE InteractionInv'
<1>1. CASE Provider
  BY EndTurnSafe, StartTurnSafe, AskSafe, AnsweredElsewhereSafe, ServerRequestResolvedSafe, <1>1 DEF AskApproval, AskQuestion,
     Provider
<1>2. ASSUME NEW f \in Frontends, Handling(f) PROVE InteractionInv'
  <2>1. CASE ReplayPending(f) \/ Take(f) BY <2>1, ReplayPendingSafe, TakeSafe
  <2>2. CASE LoopEnds(f) \/ TakeEnd(f) \/ TakeForeign(f) \/ TakeDetached(f) \/ WaitStopped(f) \/ SubmitStopped(f)
    BY <2>2, LeavingSafe
  <2>3. CASE Register(f) \/ SecondLook(f) \/ Asked(f) \/ WaitChoice(f)
    BY <2>3, RegisterSafe, SecondLookSafe, AskedSafe, WaitChoiceSafe
  <2>4. CASE WaitResolved(f) \/ SubmitLate(f) \/ RespondDone(f)
    BY <2>4, WaitResolvedSafe, SubmitLateSafe, RespondDoneSafe
  <2>5. CASE SubmitBegin(f) \/ RespondWrite(f)
    BY <2>5, SubmitBeginSafe, RespondWriteSafe
  <2> QED BY <1>2, <2>1, <2>2, <2>3, <2>4, <2>5 DEF Handling
<1>3. ASSUME NEW f \in Frontends, Window(f) PROVE InteractionInv'
  BY AttachSafe, DetachSafe, CancelSafe, AskFailsSafe, RespondFailsSafe, WaitTimeoutSafe, ModeYoloSafe, ModeDefaultSafe,
     ResolveForYoloSafe, AnswerSafe, <1>3 DEF Window
<1> QED BY <1>1, <1>2, <1>3 DEF Next

\* Every reachable state satisfies the invariant of the brokers, the front ends and the answers.
THEOREM InteractionInvariant == Spec => []InteractionInv
<1>1. InteractionInv /\ [Next]_vars => InteractionInv'
  BY InteractionNext, InteractionStutter
<1> QED BY <1>1, InteractionInit, PTL DEF Spec

\* However many windows watch a thread, a request that was not given back after its end is answered at most once and
\* never after its end reached the agent, and an accepted choice is what is sent
\* (codexInteractionBroker.submit and resolve, waitForPendingApproval, the handlers of agent_interactions.go).
THEOREM OneAnswerGoesOut == Spec => []AnswersSound
<1>1. InteractionInv => AnsweredOnce
  <2> SUFFICES ASSUME InteractionInv, NEW r \in Requests, r \notin revived
               PROVE  Len(answers[r]) <= 1 /\ \A i \in DOMAIN answers[r] : ~answers[r][i].dead
    BY DEF AnsweredOnce
  <2>1. OneAnswer(r) BY DEF InteractionInv, Unrevived
  <2> QED BY <2>1 DEF OneAnswer, OneBroker, Alive
<1>2. InteractionInv => AnswersSound BY <1>1 DEF AnswersSound, InteractionInv
<1> QED BY <1>2, InteractionInvariant, PTL

\* After /mode yolo no approval of the window is left waiting for a person, whatever the order of the switch and the two
\* reads of the mode (handleModeCommandForActorContext, resolvePendingApprovalsForYolo, the second isYoloMode of approvals.go).
THEOREM YoloIsComplete == Spec => []YoloLeavesNoneWaiting
<1>1. InteractionInv => YoloLeavesNoneWaiting BY DEF InteractionInv
<1> QED BY <1>1, InteractionInvariant, PTL

--------------------
(* Service commands: types, and what a command has done at each step.      *)

SvcStates == {"absent", "spawned", "claimed", "named", "serving", "leaving", "gone"}
SvcModes == {"background", "systemd"}
Bins == {"old", "new"}
SvcT == [st : SvcStates, bin : Bins, mode : SvcModes, legacy : BOOLEAN, drained : BOOLEAN, term : BOOLEAN]
CmdKinds == {"none", "start", "stop", "restart", "update"}
CmdSteps == {"idle", "fetch", "install", "prepare", "drain", "cancel", "undo", "running", "look", "systemd", "stopping",
             "waiting", "stopped", "run", "naming", "ready", "recover", "oldstop", "force", "hosts", "over"}
CmdT == [kind : CmdKinds, at : CmdSteps, force : BOOLEAN, restart : BOOLEAN, back : {"none", "recover", "plain"},
         pid : ServicePids \cup {NoService}, again : BOOLEAN, mode : SvcModes, before : {"none", "old", "new"},
         result : {"none", "done", "failed", "torn", "kept", "killed", "unheard"}]
UpgradeTypes ==
  /\ installed \in Bins
  /\ svc \in [ServicePids -> SvcT]
  /\ runLock \in ServicePids \cup {NoService} /\ pidFile \in ServicePids \cup {NoService}
  /\ cmd \in [Operators -> CmdT]
  /\ overlapped \in BOOLEAN /\ disowned \in BOOLEAN /\ svcMishaps \in Nat

\* Whoever holds the runtime lock runs, and the pid file names it unless a command changed that.
HolderFound ==
  /\ \A p \in ServicePids : runLock = p <=> svc[p].st \in {"claimed", "named", "serving", "leaving"}
  /\ ~disowned => \A p \in ServicePids : svc[p].st \in {"named", "serving"} => pidFile = p

\* A service is drained by a command that will stop it or take the drain back.
WillEnd(o, p) ==
  \/ cmd[o].at = "stopping" \/ (cmd[o].at = "cancel" /\ (svc[p].legacy => cmd[o].back = "plain"))
  \/ ~svc[p].legacy /\ (cmd[o].at = "running" \/ (cmd[o].at = "systemd" /\ svc[p].mode = "systemd"))
DrainCarried ==
  /\ \A p \in ServicePids : svc[p].drained => svc[p].st \in {"serving", "leaving", "gone"}
  /\ svcMishaps = 0 /\ ~disowned => \A p \in Answering : svc[p].drained => \E o \in Operators : WillEnd(o, p)

\* What a command c of operator o has done, while the program file is the one given.
CmdFits(o, c, file) ==
  /\ c.kind = "update" => o = Updater
  /\ c.at = "idle" => c.kind = "none"
  /\ c.at \in {"fetch", "install"} => c.kind = "update"
  /\ c.at = "oldstop" => c.kind = "stop"
  /\ c.at \in {"naming", "ready", "waiting"} => c.pid \in ServicePids
  /\ c.result # "none" => c.at = "over"
  /\ c.before # "none" => c.before = "old" /\ c.kind = "update" /\ c.at \notin {"fetch", "install"}
  /\ c.again => c.at \in {"run", "naming", "ready"} /\ c.before = "old" /\ file = "old"
  /\ c.result = "failed" /\ c.before # "none" => file = "old"

\* The new program comes from an update; until that fails, or again once it has, no service runs it.
HasInstalled(o) == cmd[o].kind = "update" /\ cmd[o].at \notin {"fetch", "install"}
IsActive(o) == cmd[o].at \notin {"idle", "over"}
MayFail(o) == cmd[o].before = "old" /\ (cmd[o].at = "over" => cmd[o].result = "failed")
OwnChild(c, p) == c.at \in {"naming", "ready"} /\ c.pid = p /\ ~c.again
NewProgram ==
  /\ (installed = "new" \/ \E p \in ServicePids : svc[p].bin = "new") => \E o \in Operators : HasInstalled(o)
  /\ ~overlapped => \A o, q \in Operators : IsActive(o) /\ IsActive(q) => o = q
  /\ ~overlapped => \A o \in Operators : MayFail(o) =>
       \A p \in ServicePids : Lives(p) /\ svc[p].bin = "new" => OwnChild(cmd[o], p)

UpgradeInv == UpgradeTypes /\ HolderFound /\ DrainCarried /\ (\A o \in Operators : CmdFits(o, cmd[o], installed)) /\ NewProgram
--------------------
Results == {"none", "done", "failed", "torn", "kept", "killed", "unheard"}

\* What a step of operator o makes of its command: it goes to step s, or it is over with result r.
OthersStay(o) == cmd' \in [Operators -> CmdT] /\ \A q \in Operators \ {o} : cmd'[q] = cmd[q]
GoesTo(o, s) ==
  /\ OthersStay(o)
  /\ cmd'[o].at = s /\ cmd'[o].kind = cmd[o].kind /\ cmd'[o].before = cmd[o].before /\ cmd'[o].result = cmd[o].result
  /\ cmd'[o].again = cmd[o].again /\ cmd'[o].pid = cmd[o].pid
EndsAs(o, r) ==
  /\ OthersStay(o)
  /\ cmd'[o].at = "over" /\ cmd'[o].kind = cmd[o].kind /\ cmd'[o].before = cmd[o].before /\ cmd'[o].result = r
  /\ ~cmd'[o].again

LEMMA UpEnds == ASSUME UpgradeTypes, NEW o \in Operators, NEW r \in Results \ {"none"}, End(o, r) PROVE EndsAs(o, r)
<1> DEFINE c == [Idle EXCEPT !.at = "over", !.kind = cmd[o].kind, !.before = cmd[o].before, !.result = r]
<1>1. cmd' = [cmd EXCEPT ![o] = c] BY DEF End
<1>2. c \in CmdT /\ c.at = "over" /\ c.kind = cmd[o].kind /\ c.before = cmd[o].before /\ c.result = r /\ ~c.again
  BY DEF UpgradeTypes, CmdT, CmdKinds, CmdSteps, SvcModes, Results, Idle, NoService
<1> HIDE DEF c
<1> QED BY <1>1, <1>2 DEF EndsAs, OthersStay, UpgradeTypes

LEMMA UpGoes == ASSUME UpgradeTypes, NEW o \in Operators, NEW s \in CmdSteps, Goto(o, s) PROVE GoesTo(o, s)
  BY DEF Goto, GoesTo, OthersStay, UpgradeTypes, CmdT

\* The other commands: what o changes of the program file is none of theirs.
LEMMA UpCommands ==
  ASSUME UpgradeInv, NEW o \in Operators, OthersStay(o), CmdFits(o, cmd'[o], installed'),
         installed' = installed \/ cmd[o].kind = "update"
  PROVE  \A q \in Operators : CmdFits(q, cmd[q], installed)'
<1>1. SUFFICES ASSUME NEW q \in Operators \ {o} PROVE CmdFits(q, cmd[q], installed')
  BY DEF OthersStay
<1>2. CmdFits(q, cmd[q], installed) /\ CmdFits(o, cmd[o], installed)
  BY <1>1 DEF UpgradeInv
<1> QED BY <1>1, <1>2 DEF CmdFits

\* A step of a command that starts no service.
LEMMA UpNoneStarts ==
  ASSUME UpgradeInv, NEW o \in Operators, IsActive(o), OthersStay(o), overlapped => overlapped',
         installed' \in {installed, "old"}, cmd'[o].kind = cmd[o].kind, HasInstalled(o) => HasInstalled(o)',
         MayFail(o)' => cmd[o].before = "old",
         \A p \in ServicePids : svc'[p].bin = svc[p].bin /\ (Lives(p)' => Lives(p)),
         \A p \in ServicePids : Lives(p)' /\ svc[p].bin = "new" /\ OwnChild(cmd[o], p) /\ MayFail(o)' => OwnChild(cmd'[o], p)
  PROVE  NewProgram'
<1>1. NewProgram /\ MayFail(o) = (cmd[o].before = "old") /\ \A q \in Operators \ {o} : cmd'[q] = cmd[q]
  BY DEF UpgradeInv, MayFail, IsActive, OthersStay
<1>2. ((installed = "new" \/ \E p \in ServicePids : svc[p].bin = "new") => \E q \in Operators : HasInstalled(q))'
  BY <1>1 DEF NewProgram, HasInstalled
<1>3. (~overlapped => \A q, r \in Operators : IsActive(q) /\ IsActive(r) => q = r)'
  BY <1>1 DEF NewProgram, IsActive
<1>4. (~overlapped => \A q \in Operators : MayFail(q) => \A p \in ServicePids : Lives(p) /\ svc[p].bin = "new" => OwnChild(cmd[q], p))'
  <2>1. SUFFICES ASSUME ~overlapped', NEW q \in Operators, MayFail(q)', NEW p \in ServicePids, Lives(p)', svc'[p].bin = "new"
                 PROVE  OwnChild(cmd'[q], p)
    OBVIOUS
  <2>2. CASE q = o BY <1>1, <2>1, <2>2 DEF NewProgram
  <2>3. CASE q # o BY <1>1, <2>1, <2>3 DEF NewProgram, MayFail
  <2> QED BY <2>2, <2>3
<1> QED BY <1>2, <1>3, <1>4 DEF NewProgram

\* A step of a command that changes no service and no lock.
Moved(o) == (\E s \in CmdSteps \ {"idle", "fetch", "install"} : GoesTo(o, s)) \/ (\E r \in Results : EndsAs(o, r))
LEMMA UpQuiet ==
  ASSUME UpgradeInv, NEW o \in Operators, IsActive(o), cmd[o].at \notin {"naming", "ready"}, Moved(o), CmdFits(o, cmd'[o], installed'),
         installed' = installed \/ (installed' = "old" /\ cmd[o].kind = "update"),
         UNCHANGED <<svc, runLock, overlapped, disowned>>, svcMishaps' \in Nat, svcMishaps' = 0 => svcMishaps = 0,
         pidFile' = pidFile \/ (pidFile' = NoService /\ ~SeenRunning),
         \A p \in Answering : svcMishaps' = 0 /\ ~disowned /\ WillEnd(o, p) => WillEnd(o, p)'
  PROVE  UpgradeInv'
<1>1. /\ OthersStay(o) /\ cmd'[o].kind = cmd[o].kind /\ cmd'[o].before = cmd[o].before
      /\ HasInstalled(o) => HasInstalled(o)'
  BY DEF Moved, GoesTo, EndsAs, HasInstalled
<1>2. UpgradeTypes' BY <1>1 DEF UpgradeInv, UpgradeTypes, OthersStay, Bins
<1>3. HolderFound'
  BY DEF UpgradeInv, HolderFound, SeenRunning, ExistsPid, Lives, LockBusy, UpgradeTypes, NoService
<1>4. DrainCarried' BY <1>1 DEF WillEnd, OthersStay, UpgradeInv, DrainCarried, Answering
<1>5. NewProgram' BY <1>1, UpNoneStarts DEF MayFail, Lives, OwnChild
<1>6. \A q \in Operators : CmdFits(q, cmd[q], installed)' BY <1>1, UpCommands
<1> QED BY <1>2, <1>3, <1>4, <1>5, <1>6 DEF UpgradeInv

\* A command that fails puts the old program back if it is an update.
LEMMA UpFails ==
  ASSUME UpgradeInv, NEW o \in Operators, IsActive(o), FailAfterRollback(o)
  PROVE  /\ Moved(o) /\ CmdFits(o, cmd'[o], installed')
         /\ installed' = installed \/ (installed' = "old" /\ cmd[o].kind = "update")
         /\ svcMishaps' \in Nat /\ (svcMishaps' = 0 => svcMishaps = 0)
<1>1. CmdFits(o, cmd[o], installed) /\ UpgradeTypes BY DEF UpgradeInv
<1>2. CASE SvcMishap /\ End(o, "torn") /\ UNCHANGED installed
  BY <1>1, <1>2, UpEnds DEF Results, SvcMishap, UpgradeTypes, Moved, EndsAs, CmdFits
<1>3. CASE /\ End(o, "failed") /\ UNCHANGED svcMishaps
           /\ \/ cmd[o].kind = "update" /\ cmd[o].before # "none" /\ installed' = cmd[o].before
              \/ (cmd[o].kind # "update" \/ cmd[o].before = "none") /\ installed' = installed
  BY <1>1, <1>3, UpEnds DEF Results, Moved, EndsAs, CmdFits, UpgradeTypes
<1> QED BY <1>2, <1>3 DEF FailAfterRollback

LEMMA UpFetchRelease == ASSUME UpgradeInv, NEW o \in Operators, FetchRelease(o) PROVE UpgradeInv'
<1>1. CmdFits(o, cmd[o], installed) /\ UpgradeTypes /\ cmd[o].at = "fetch" /\ UNCHANGED <<svc, overlapped, disowned, svcMishaps>> /\ UNCHANGED Files
  BY DEF UpgradeInv, FetchRelease, At
<1>2. CASE Goto(o, "install")
  <2>1. GoesTo(o, "install") BY <1>1, <1>2, UpGoes DEF CmdSteps
  <2>2. UpgradeTypes' /\ HolderFound' /\ DrainCarried'
    BY <1>1, <2>1 DEF UpgradeInv, UpgradeTypes, HolderFound, DrainCarried, WillEnd, Answering, GoesTo, OthersStay, Files
  <2>3. NewProgram'
    BY <1>1, <2>1, UpNoneStarts DEF GoesTo, IsActive, HasInstalled, MayFail, OwnChild, Lives, Files
  <2>4. \A q \in Operators : CmdFits(q, cmd[q], installed)'
    BY <1>1, <2>1, UpCommands DEF GoesTo, CmdFits, Files
  <2> QED BY <2>2, <2>3, <2>4 DEF UpgradeInv
<1>3. CASE End(o, "failed") \/ End(o, "done") \/ Goto(o, "prepare")
  BY <1>1, <1>3, UpGoes, UpEnds, UpQuiet DEF CmdSteps, Results, Moved, GoesTo, EndsAs, CmdFits, Files, UpgradeTypes, IsActive,
     WillEnd
<1> QED BY <1>2, <1>3 DEF FetchRelease, SourcesFail, DigestDiffers, OtherFile, NoNewer, PackageRejected, PackageReady

LEMMA UpInstall == ASSUME UpgradeInv, NEW o \in Operators, Install(o) PROVE UpgradeInv'
<1>1. /\ CmdFits(o, cmd[o], installed) /\ UpgradeTypes /\ cmd[o].at = "install" /\ cmd[o].kind = "update" /\ o = Updater
      /\ UNCHANGED <<svc, runLock, launchLock, pidFile, overlapped, disowned, svcMishaps>>
  BY DEF UpgradeInv, Install, At, CmdFits
<1>2. ~HasInstalled(o) /\ \A q \in Operators : cmd[q].kind = "update" => q = o
  BY <1>1 DEF HasInstalled, CmdFits, UpgradeInv
<1>3. installed = "old" /\ \A p \in ServicePids : svc[p].bin # "new"
  BY <1>1, <1>2 DEF UpgradeInv, NewProgram, HasInstalled, UpgradeTypes, Bins
<1>4. CASE End(o, "failed") /\ UNCHANGED installed
  BY <1>1, <1>4, UpEnds, UpQuiet DEF Results, Moved, EndsAs, CmdFits, UpgradeTypes, IsActive, WillEnd
<1>5. CASE cmd' = [cmd EXCEPT ![o].before = installed, ![o].at = "prepare"] /\ installed' = "new"
  <2>1. /\ OthersStay(o) /\ cmd'[o].before = "old" /\ cmd'[o].at = "prepare" /\ cmd'[o].kind = "update"
        /\ cmd'[o].result = cmd[o].result /\ cmd'[o].again = cmd[o].again
    BY <1>1, <1>3, <1>5 DEF OthersStay, UpgradeTypes, CmdT, CmdSteps
  <2>2. UpgradeTypes' /\ HolderFound' /\ DrainCarried'
    BY <1>1, <1>5, <2>1 DEF UpgradeInv, UpgradeTypes, HolderFound, DrainCarried, WillEnd, Answering, OthersStay, Bins
  <2>3. NewProgram'
    BY <1>1, <1>3, <1>5, <2>1 DEF UpgradeInv, NewProgram, OthersStay, IsActive, HasInstalled
  <2>4. CmdFits(o, cmd'[o], installed') BY <1>1, <1>5, <2>1 DEF CmdFits
  <2> QED BY <1>1, <2>1, <2>2, <2>3, <2>4, UpCommands DEF UpgradeInv
<1> QED BY <1>4, <1>5 DEF Install

LEMMA UpPrepareStart == ASSUME UpgradeInv, NEW o \in Operators, PrepareStart(o) PROVE UpgradeInv'
<1>1. /\ CmdFits(o, cmd[o], installed) /\ UpgradeTypes /\ cmd[o].at = "prepare" /\ IsActive(o)
      /\ UNCHANGED <<svc, runLock, launchLock, pidFile, overlapped, disowned>>
  BY DEF UpgradeInv, PrepareStart, At, IsActive
<1>2. /\ Moved(o) /\ CmdFits(o, cmd'[o], installed') /\ svcMishaps' \in Nat /\ (svcMishaps' = 0 => svcMishaps = 0)
      /\ installed' = installed \/ (installed' = "old" /\ cmd[o].kind = "update")
  BY <1>1, UpFails, UpGoes, UpEnds DEF CmdSteps, Results, Moved, GoesTo, EndsAs, CmdFits, UpgradeTypes, PrepareStart
<1> QED BY <1>1, <1>2, UpQuiet DEF WillEnd

LEMMA UpUndo == ASSUME UpgradeInv, NEW o \in Operators, Undo(o) PROVE UpgradeInv'
<1>1. /\ cmd[o].at = "undo" /\ IsActive(o) /\ UNCHANGED <<svc, runLock, launchLock, pidFile, overlapped, disowned>> /\ FailAfterRollback(o)
  BY DEF Undo, At, IsActive
<1> QED BY <1>1, UpFails, UpQuiet DEF WillEnd

LEMMA UpLookRunning == ASSUME UpgradeInv, NEW o \in Operators, LookRunning(o) PROVE UpgradeInv'
<1>1. /\ CmdFits(o, cmd[o], installed) /\ UpgradeTypes /\ cmd[o].at \in {"running", "look"} /\ IsActive(o)
      /\ UNCHANGED <<installed, svc, runLock, launchLock, overlapped, disowned, svcMishaps>>
      /\ pidFile' = IF SeenRunning THEN pidFile ELSE NoService
  BY DEF UpgradeInv, LookRunning, At, IsActive
<1>2. /\ \/ \E s \in {"drain", "force", "stopping", "systemd", "run"} : Goto(o, s)
         \/ End(o, "done") \/ (End(o, "failed") /\ cmd[o].kind = "restart")
      /\ cmd[o].at = "running" /\ SeenRunning =>
           Goto(o, "stopping") \/ (Goto(o, "systemd") /\ svc[pidFile].mode = "systemd")
  BY DEF LookRunning, At, OfflineRefused
<1>3. /\ \/ \E s \in {"drain", "force", "stopping", "systemd", "run"} : GoesTo(o, s)
         \/ EndsAs(o, "done") \/ (EndsAs(o, "failed") /\ cmd[o].kind = "restart")
      /\ cmd[o].at = "running" /\ SeenRunning =>
           GoesTo(o, "stopping") \/ (GoesTo(o, "systemd") /\ svc[pidFile].mode = "systemd")
      /\ {"drain", "force", "stopping", "systemd", "run"} \subseteq CmdSteps \ {"idle", "fetch", "install"}
      /\ {"done", "failed"} \subseteq Results
  BY <1>1, <1>2, UpGoes, UpEnds DEF CmdSteps, Results
<1>4. CmdFits(o, cmd'[o], installed') BY <1>1, <1>3 DEF CmdFits, GoesTo, EndsAs
<1>5. Moved(o) BY <1>3 DEF Moved
<1>6. ASSUME NEW p \in Answering, ~disowned, WillEnd(o, p) PROVE WillEnd(o, p)'
  BY <1>6, UpgradeAssumption, <1>1, <1>3 DEF UpgradeInv, HolderFound, Answering, NoService, SeenRunning, ExistsPid, Lives,
     LockBusy, WillEnd, GoesTo
<1> QED BY <1>1, <1>4, <1>5, <1>6, UpQuiet DEF UpgradeTypes

LEMMA UpAfterStop == ASSUME UpgradeInv, NEW o \in Operators, AfterStop(o) PROVE UpgradeInv'
<1>1. /\ CmdFits(o, cmd[o], installed) /\ UpgradeTypes /\ cmd[o].at = "stopped" /\ IsActive(o)
      /\ UNCHANGED <<svc, overlapped, disowned, svcMishaps, installed, runLock, launchLock, pidFile>>
  BY DEF UpgradeInv, AfterStop, At, IsActive, Files
<1>2. (EndsAs(o, "done") \/ GoesTo(o, "run")) /\ "done" \in Results /\ "run" \in CmdSteps
  BY <1>1, UpGoes, UpEnds DEF AfterStop, CmdSteps, Results
<1>3. Moved(o) /\ CmdFits(o, cmd'[o], installed')
  BY <1>1, <1>2 DEF Moved, GoesTo, EndsAs, CmdFits
<1> QED BY <1>1, <1>3, UpQuiet DEF UpgradeTypes, WillEnd

LEMMA UpKillCommand == ASSUME UpgradeInv, NEW o \in Operators, KillCommand(o) PROVE UpgradeInv'
<1>1. /\ CmdFits(o, cmd[o], installed) /\ UpgradeTypes /\ IsActive(o) /\ End(o, "killed") /\ overlapped'
      /\ svcMishaps' = svcMishaps + 1 /\ UNCHANGED <<installed, svc, runLock, pidFile, disowned>>
  BY DEF UpgradeInv, KillCommand, IsActive, SvcMishap
<1>2. EndsAs(o, "killed") BY <1>1, UpEnds DEF Results
<1>3. UpgradeTypes' /\ svcMishaps' # 0
  BY <1>1, <1>2 DEF UpgradeTypes, EndsAs, OthersStay
<1>4. HolderFound' /\ DrainCarried'
  BY <1>1, <1>3 DEF UpgradeInv, HolderFound, DrainCarried
<1>5. NewProgram'
  BY <1>1, <1>2 DEF UpgradeInv, NewProgram, EndsAs, OthersStay, HasInstalled, CmdFits
<1>6. CmdFits(o, cmd'[o], installed') BY <1>1, <1>2 DEF CmdFits, EndsAs
<1> QED BY <1>1, <1>2, <1>3, <1>4, <1>5, <1>6, UpCommands DEF UpgradeInv, EndsAs

LEMMA UpRecover == ASSUME UpgradeInv, NEW o \in Operators, Recover(o) PROVE UpgradeInv'
<1>1. /\ CmdFits(o, cmd[o], installed) /\ UpgradeTypes /\ cmd[o].at = "recover" /\ IsActive(o)
      /\ UNCHANGED <<svc, runLock, launchLock, overlapped, disowned>>
  BY DEF UpgradeInv, Recover, At, IsActive
<1>2. CASE SvcMishap /\ End(o, "torn") /\ UNCHANGED <<installed, pidFile>>
  BY <1>1, <1>2, UpEnds, UpQuiet DEF Results, SvcMishap, Moved, EndsAs, CmdFits, UpgradeTypes, WillEnd
<1>3. CASE cmd[o].before = "none" /\ End(o, "failed") /\ UNCHANGED <<installed, pidFile, svcMishaps>>
  BY <1>1, <1>3, UpEnds, UpQuiet DEF Results, Moved, EndsAs, CmdFits, UpgradeTypes, WillEnd
<1>4. CASE /\ cmd[o].before # "none" /\ installed' = cmd[o].before /\ UNCHANGED svcMishaps /\ SeenRunning
           /\ pidFile' = pidFile /\ End(o, "failed")
  BY <1>1, <1>4, UpEnds, UpQuiet DEF Results, Moved, EndsAs, CmdFits, UpgradeTypes, WillEnd
<1>5. CASE /\ cmd[o].before # "none" /\ installed' = cmd[o].before /\ UNCHANGED svcMishaps /\ ~SeenRunning
           /\ pidFile' = NoService /\ cmd' = [cmd EXCEPT ![o].again = TRUE, ![o].at = "run"]
  <2>1. /\ OthersStay(o) /\ cmd'[o].at = "run" /\ cmd'[o].again /\ cmd'[o].kind = cmd[o].kind /\ cmd'[o].before = cmd[o].before
        /\ cmd'[o].result = cmd[o].result /\ cmd[o].before = "old" /\ cmd[o].kind = "update"
    BY <1>1, <1>5 DEF OthersStay, UpgradeTypes, CmdT, CmdSteps, CmdFits
  <2>2. CmdFits(o, cmd'[o], installed') BY <1>1, <1>5, <2>1 DEF CmdFits
  <2>3. UpgradeTypes' /\ HolderFound' /\ DrainCarried'
    BY <1>1, <1>5, <2>1, UpgradeAssumption DEF UpgradeTypes, OthersStay, Bins, UpgradeInv, HolderFound, SeenRunning, ExistsPid,
       Lives, LockBusy, NoService, DrainCarried, WillEnd, Answering
  <2>4. NewProgram'
    BY <1>1, <1>5, <2>1, UpNoneStarts DEF HasInstalled, MayFail, Lives, OwnChild
  <2> QED BY <1>5, <2>1, <2>2, <2>3, <2>4, UpCommands DEF UpgradeInv
<1> QED BY <1>2, <1>3, <1>4, <1>5 DEF Recover

\* A process that is ended: it is found no longer, and what it ran is over.
KilledOnly(p) == svc' = [svc EXCEPT ![p].st = "gone"] /\ runLock' = IF runLock = p THEN NoService ELSE runLock
LEMMA UpKilled ==
  ASSUME UpgradeInv, NEW p \in ServicePids, KilledOnly(p), disowned => disowned', pidFile' = pidFile \/ disowned'
  PROVE  /\ svc' \in [ServicePids -> SvcT] /\ runLock' \in ServicePids \cup {NoService} /\ HolderFound'
         /\ svc'[p].st = "gone" /\ \A q \in ServicePids : svc'[q].bin = svc[q].bin /\ svc'[q].mode = svc[q].mode /\ svc'[q].drained = svc[q].drained
         /\ svc'[p].legacy = svc[p].legacy /\ \A q \in ServicePids \ {p} : svc'[q] = svc[q]
<1>1. UpgradeTypes /\ HolderFound /\ p # NoService
  BY UpgradeAssumption DEF UpgradeInv, NoService
<1>2. svc' \in [ServicePids -> SvcT] /\ svc'[p].st = "gone" /\ (\A q \in ServicePids \ {p} : svc'[q] = svc[q])
      /\ svc'[p].bin = svc[p].bin /\ svc'[p].mode = svc[p].mode /\ svc'[p].drained = svc[p].drained
      /\ svc'[p].legacy = svc[p].legacy
  BY <1>1 DEF KilledOnly, UpgradeTypes, SvcT, SvcStates
<1>3. runLock' \in ServicePids \cup {NoService} BY <1>1 DEF KilledOnly, UpgradeTypes
<1>4. HolderFound'
  BY <1>1, <1>2, UpgradeAssumption DEF KilledOnly, HolderFound, NoService
<1> QED BY <1>2, <1>3, <1>4

LEMMA UpAwaitExit == ASSUME UpgradeInv, NEW o \in Operators, AwaitExit(o) PROVE UpgradeInv'
<1>1. /\ CmdFits(o, cmd[o], installed) /\ UpgradeTypes /\ cmd[o].at = "waiting" /\ IsActive(o) /\ cmd[o].pid \in ServicePids
      /\ UNCHANGED <<installed, launchLock, overlapped>>
  BY DEF UpgradeInv, AwaitExit, At, IsActive, CmdFits
<1>2. CASE WritePid(NoService) /\ Goto(o, "stopped") /\ UNCHANGED <<svc, runLock, svcMishaps>>
  <2>1. GoesTo(o, "stopped") BY <1>1, <1>2, UpGoes DEF CmdSteps
  <2>2. CmdFits(o, cmd'[o], installed') BY <1>1, <2>1 DEF CmdFits, GoesTo
  <2>3. UpgradeTypes' BY <1>1, <1>2, <2>1 DEF UpgradeTypes, GoesTo, OthersStay, WritePid
  <2>4. HolderFound'
    BY <1>1, <1>2, UpgradeAssumption DEF UpgradeInv, HolderFound, WritePid, LockBusy, NoService
  <2>5. DrainCarried'
    <3>1. \A q \in Operators, p \in ServicePids : WillEnd(q, p) => WillEnd(q, p)'
      BY <1>1, <1>2, <2>1 DEF GoesTo, OthersStay, WillEnd
    <3> QED BY <1>2, <3>1 DEF UpgradeInv, DrainCarried, Answering, WritePid
  <2>6. NewProgram'
    BY <1>1, <1>2, <2>1, UpNoneStarts DEF GoesTo, HasInstalled, MayFail, Lives, OwnChild
  <2> QED BY <1>1, <2>1, <2>2, <2>3, <2>4, <2>5, <2>6, UpCommands DEF UpgradeInv, GoesTo
<1>3. CASE KilledOnly(cmd[o].pid) /\ UNCHANGED <<cmd, pidFile, disowned, svcMishaps>>
  <2>1. PICK p \in ServicePids : p = cmd[o].pid BY <1>1
  <2>2. KilledOnly(p) BY <1>3, <2>1
  <2>3. /\ svc' \in [ServicePids -> SvcT] /\ runLock' \in ServicePids \cup {NoService} /\ HolderFound'
        /\ svc'[p].st = "gone" /\ \A q \in ServicePids \ {p} : svc'[q] = svc[q]
        /\ \A q \in ServicePids : svc'[q].bin = svc[q].bin
    BY <1>3, <2>2, UpKilled
  <2>4. UpgradeTypes' /\ DrainCarried'
    BY <1>1, <1>3, <2>3 DEF UpgradeInv, UpgradeTypes, DrainCarried, WillEnd, Answering
  <2>5. NewProgram'
    BY <1>1, <1>3, <2>3 DEF UpgradeInv, NewProgram, HasInstalled, IsActive, MayFail, OwnChild, Lives
  <2> QED BY <1>1, <1>3, <2>3, <2>4, <2>5 DEF UpgradeInv
<1>4. CASE /\ SvcMishap /\ UNCHANGED <<svc, runLock, pidFile, disowned>>
           /\ \E b \in {"recover", cmd[o].back} : cmd' = [cmd EXCEPT ![o].at = "cancel", ![o].back = b]
  <2> DEFINE c(b) == [cmd[o] EXCEPT !.at = "cancel", !.back = b]
  <2>0. PICK b \in {"recover", cmd[o].back} : cmd' = [cmd EXCEPT ![o] = c(b)] BY <1>4
  <2>1. /\ OthersStay(o) /\ cmd'[o].at = "cancel" /\ cmd'[o].again = cmd[o].again /\ cmd'[o].kind = cmd[o].kind
        /\ cmd'[o].before = cmd[o].before /\ cmd'[o].result = cmd[o].result /\ cmd'[o].pid = cmd[o].pid
    <3>1. c(b) \in CmdT /\ c(b).at = "cancel" /\ c(b).again = cmd[o].again /\ c(b).kind = cmd[o].kind
          /\ c(b).before = cmd[o].before /\ c(b).result = cmd[o].result /\ c(b).pid = cmd[o].pid
      BY <1>1 DEF UpgradeTypes, CmdT, CmdSteps
    <3> HIDE DEF c
    <3> QED BY <1>1, <2>0, <3>1 DEF OthersStay, UpgradeTypes
  <2>2. GoesTo(o, "cancel") /\ "cancel" \in CmdSteps \ {"idle", "fetch", "install"} /\ svcMishaps' = svcMishaps + 1
    BY <1>4, <2>1 DEF GoesTo, CmdSteps, SvcMishap
  <2>3. Moved(o) /\ CmdFits(o, cmd'[o], installed')
    BY <1>1, <2>1, <2>2 DEF Moved, CmdFits
  <2> QED BY <1>1, <1>4, <2>2, <2>3, UpQuiet DEF UpgradeTypes, WillEnd
<1> QED BY <1>1, <1>2, <1>3, <1>4 DEF AwaitExit, KilledOnly, Goto

LEMMA UpCancelDrain == ASSUME UpgradeInv, NEW o \in Operators, CancelDrain(o) PROVE UpgradeInv'
<1>1. /\ CmdFits(o, cmd[o], installed) /\ UpgradeTypes /\ cmd[o].at = "cancel" /\ IsActive(o)
      /\ UNCHANGED <<installed, runLock, launchLock, pidFile, overlapped, disowned>>
      /\ (Goto(o, "recover") \/ Goto(o, "undo"))
  BY DEF UpgradeInv, CancelDrain, At, IsActive, Files
<1>2. (GoesTo(o, "recover") \/ GoesTo(o, "undo")) /\ {"recover", "undo"} \subseteq CmdSteps
  BY <1>1, UpGoes DEF CmdSteps
<1>3. Moved(o) /\ CmdFits(o, cmd'[o], installed')
  BY <1>1, <1>2 DEF Moved, GoesTo, CmdFits
<1>4. CASE SvcMishap /\ UNCHANGED svc
  BY <1>1, <1>3, <1>4, UpQuiet DEF UpgradeTypes, WillEnd, SvcMishap
<1>5. CASE /\ svc' = [p \in ServicePids |-> IF p \in Answering /\ Releases(o, p) THEN [svc[p] EXCEPT !.drained = FALSE] ELSE svc[p]]
           /\ UNCHANGED svcMishaps
  <2>1. \A p \in ServicePids : /\ svc'[p] \in SvcT /\ svc'[p].st = svc[p].st /\ svc'[p].bin = svc[p].bin /\ svc'[p].term = svc[p].term
                              /\ svc'[p].mode = svc[p].mode /\ svc'[p].legacy = svc[p].legacy
                              /\ (svc'[p].drained => svc[p].drained /\ (p \notin Answering \/ ~Releases(o, p)))
    BY <1>1, <1>5 DEF UpgradeTypes, SvcT
  <2>2. UpgradeTypes' /\ HolderFound'
    BY <1>1, <1>2, <1>5, <2>1 DEF UpgradeInv, UpgradeTypes, HolderFound, GoesTo, OthersStay
  <2>3. DrainCarried'
    <3>1. ASSUME svcMishaps = 0, ~disowned, NEW p \in Answering', svc'[p].drained PROVE \E q \in Operators : WillEnd(q, p)'
      <4>1. p \in Answering /\ svc[p].drained /\ ~Releases(o, p)
        BY <2>1, <3>1 DEF Answering
      <4>2. PICK q \in Operators : WillEnd(q, p)
        BY <3>1, <4>1 DEF UpgradeInv, DrainCarried
      <4>3. q # o BY <1>1, <4>1, <4>2 DEF WillEnd, Releases
      <4> QED BY <1>2, <2>1, <4>1, <4>2, <4>3 DEF WillEnd, Releases, GoesTo, OthersStay, Answering
    <3> QED BY <1>1, <1>5, <2>1, <3>1 DEF UpgradeInv, DrainCarried
  <2>4. NewProgram'
    BY <1>1, <1>2, <2>1, UpNoneStarts DEF GoesTo, HasInstalled, MayFail, Lives, OwnChild
  <2> QED BY <1>1, <1>2, <1>3, <2>2, <2>3, <2>4, UpCommands DEF UpgradeInv, GoesTo
<1> QED BY <1>4, <1>5 DEF CancelDrain

\* A command starts a process from the program file.
LEMMA UpStarts ==
  ASSUME UpgradeInv, NEW o \in Operators, IsActive(o), cmd[o].at \notin {"naming", "ready"}, OthersStay(o),
         UNCHANGED <<installed, overlapped>>, cmd'[o].kind = cmd[o].kind, HasInstalled(o) => HasInstalled(o)',
         NEW p \in ServicePids, svc'[p].bin = installed,
         \A x \in ServicePids \ {p} : svc'[x].bin = svc[x].bin /\ (Lives(x)' => Lives(x)),
         MayFail(o)' => cmd[o].before = "old" /\ (installed = "old" \/ OwnChild(cmd'[o], p))
  PROVE  NewProgram'
<1>1. NewProgram /\ MayFail(o) = (cmd[o].before = "old") /\ (\A q \in Operators \ {o} : cmd'[q] = cmd[q])
      /\ \A q \in Operators : CmdFits(q, cmd[q], installed)
  BY DEF UpgradeInv, MayFail, IsActive, OthersStay
<1>2. ((installed = "new" \/ \E x \in ServicePids : svc[x].bin = "new") => \E q \in Operators : HasInstalled(q))'
  BY <1>1 DEF NewProgram, HasInstalled
<1>3. (~overlapped => \A q, r \in Operators : IsActive(q) /\ IsActive(r) => q = r)'
  BY <1>1 DEF NewProgram, IsActive
<1>4. (~overlapped => \A q \in Operators : MayFail(q) => \A x \in ServicePids : Lives(x) /\ svc[x].bin = "new" => OwnChild(cmd[q], x))'
  <2>1. SUFFICES ASSUME ~overlapped', NEW q \in Operators, MayFail(q)', NEW x \in ServicePids, Lives(x)', svc'[x].bin = "new"
                 PROVE  OwnChild(cmd'[q], x)
    OBVIOUS
  <2>2. CASE q = o BY <1>1, <2>1, <2>2 DEF NewProgram, OwnChild
  <2>3. CASE q # o BY <1>1, <2>1, <2>3 DEF NewProgram, MayFail, IsActive, CmdFits
  <2> QED BY <2>2, <2>3
<1> QED BY <1>2, <1>3, <1>4 DEF NewProgram

\* What systemd did of the unit, whatever it reported: p is its new process if it started one.
LEMMA UpUnit ==
  ASSUME UpgradeInv, NEW started \in SUBSET ServicePids, UnitStopped(started), UNCHANGED <<installed, disowned>>,
         \A p \in started : started = {p} /\ svc[p].st = "absent"
  PROVE  /\ svc' \in [ServicePids -> SvcT] /\ runLock' \in ServicePids \cup {NoService} /\ pidFile' \in ServicePids \cup {NoService}
         /\ HolderFound'
         /\ \A p \in started : svc'[p].st = "spawned" /\ svc'[p].bin = installed /\ ~svc'[p].drained
         /\ \A q \in ServicePids \ started :
              /\ svc'[q].bin = svc[q].bin /\ svc'[q].drained = svc[q].drained /\ svc'[q].mode = svc[q].mode
              /\ svc'[q].legacy = svc[q].legacy /\ svc'[q].term = svc[q].term
              /\ svc'[q].st = IF svc[q].mode = "systemd" /\ Lives(q) THEN "gone" ELSE svc[q].st
<1> DEFINE ByUnit == runLock # NoService /\ svc[runLock].mode = "systemd"
<1>1. UpgradeTypes /\ HolderFound BY DEF UpgradeInv
<1>2. ASSUME NEW q \in ServicePids \ started
      PROVE  /\ svc'[q] \in SvcT /\ svc'[q].bin = svc[q].bin /\ svc'[q].mode = svc[q].mode /\ svc'[q].drained = svc[q].drained
             /\ svc'[q].term = svc[q].term /\ svc'[q].legacy = svc[q].legacy
             /\ svc'[q].st = IF svc[q].mode = "systemd" /\ Lives(q) THEN "gone" ELSE svc[q].st
  BY <1>1, <1>2 DEF UpgradeTypes, SvcT, SvcStates, UnitStopped
<1>3. ASSUME NEW p \in started
      PROVE  svc'[p] \in SvcT /\ svc'[p].st = "spawned" /\ svc'[p].bin = installed /\ ~svc'[p].drained
  BY <1>1, <1>3 DEF UnitStopped, UpgradeTypes, Process, SvcT, SvcStates, SvcModes
<1>4. /\ runLock' = (IF ByUnit THEN NoService ELSE runLock) /\ pidFile' = (IF ByUnit THEN NoService ELSE pidFile)
      /\ svc' \in [ServicePids -> SvcT]
  BY <1>2, <1>3 DEF UnitStopped
<1>5. ASSUME NEW q \in ServicePids PROVE runLock' = q <=> svc'[q].st \in {"claimed", "named", "serving", "leaving"}
  BY <1>1, <1>3, <1>4, UpgradeAssumption, <1>5, <1>2 DEF HolderFound, NoService, Lives
<1>6. ASSUME ~disowned', NEW q \in ServicePids, svc'[q].st \in {"named", "serving"} PROVE pidFile' = q
  BY <1>1, <1>2, <1>3, <1>4, <1>5, <1>6, UpgradeAssumption DEF HolderFound, NoService
<1> QED BY <1>1, <1>2, <1>3, <1>4, <1>5, <1>6 DEF HolderFound, UpgradeTypes

LEMMA UpSystemdRestart == ASSUME UpgradeInv, NEW o \in Operators, SystemdRestart(o) PROVE UpgradeInv'
<1>1. /\ CmdFits(o, cmd[o], installed) /\ UpgradeTypes /\ HolderFound /\ cmd[o].at = "systemd" /\ IsActive(o)
      /\ UNCHANGED <<installed, launchLock, disowned>>
  BY DEF UpgradeInv, SystemdRestart, At, IsActive
<1>2. (Goto(o, "cancel") => GoesTo(o, "cancel")) /\ (End(o, "done") => EndsAs(o, "done"))
      /\ "cancel" \in CmdSteps \ {"idle", "fetch", "install"} /\ "done" \in Results
  BY <1>1, UpGoes, UpEnds DEF CmdSteps, Results
<1>3. GoesTo(o, "cancel") \/ EndsAs(o, "done") BY <1>2 DEF SystemdRestart
<1>4. Moved(o) /\ CmdFits(o, cmd'[o], installed') /\ OthersStay(o) /\ cmd'[o].kind = cmd[o].kind /\ cmd'[o].before = cmd[o].before
      /\ (HasInstalled(o) => HasInstalled(o)')
  BY <1>1, <1>2, <1>3 DEF Moved, GoesTo, EndsAs, CmdFits, HasInstalled
<1>5. CASE GoesTo(o, "cancel") /\ UNCHANGED <<svc, runLock, pidFile, overlapped, svcMishaps>>
  BY <1>1, <1>4, <1>5, UpQuiet DEF GoesTo, UpgradeTypes, WillEnd, Releases
<1>6. ASSUME NEW started \in SUBSET ServicePids, UnitStopped(started), \A p \in started : p \in Fresh /\ started = {p},
             \/ EndsAs(o, "done") /\ UNCHANGED <<overlapped, svcMishaps>>
             \/ started = {} /\ UNCHANGED <<overlapped, svcMishaps>>
             \/ overlapped' = TRUE /\ svcMishaps' = svcMishaps + 1
      PROVE  UpgradeInv'
  <2>1. /\ svc' \in [ServicePids -> SvcT] /\ runLock' \in ServicePids \cup {NoService} /\ pidFile' \in ServicePids \cup {NoService}
        /\ HolderFound'
        /\ \A p \in started : svc'[p].st = "spawned" /\ svc'[p].bin = installed /\ ~svc'[p].drained
        /\ \A q \in ServicePids \ started :
              /\ svc'[q].bin = svc[q].bin /\ svc'[q].drained = svc[q].drained /\ svc'[q].mode = svc[q].mode
              /\ svc'[q].legacy = svc[q].legacy /\ svc'[q].term = svc[q].term
              /\ svc'[q].st = IF svc[q].mode = "systemd" /\ Lives(q) THEN "gone" ELSE svc[q].st
    BY <1>1, <1>6, UpUnit DEF Fresh
  <2>2. UpgradeTypes'
    <3>1. overlapped' \in BOOLEAN /\ svcMishaps' \in Nat
      <4>1. (overlapped' = overlapped \/ overlapped' = TRUE) /\ (svcMishaps' = svcMishaps \/ svcMishaps' = svcMishaps + 1)
        BY <1>6
      <4>2. overlapped \in BOOLEAN /\ svcMishaps \in Nat BY <1>1 DEF UpgradeTypes
      <4>3. svcMishaps' \in Nat BY <4>1, <4>2
      <4>4. overlapped' \in BOOLEAN BY <4>1, <4>2
      <4> QED BY <4>3, <4>4
    <3> QED BY <1>1, <1>4, <2>1, <3>1 DEF UpgradeTypes, OthersStay
  <2>3. DrainCarried'
    <3>1. \A q \in ServicePids : svc'[q].drained => svc'[q].st \in {"serving", "leaving", "gone"}
      BY <2>1 DEF UpgradeInv, DrainCarried
    <3>2. ASSUME svcMishaps = 0, ~disowned, NEW q \in Answering', svc'[q].drained PROVE \E r \in Operators : WillEnd(r, q)'
      <4>1. q \in ServicePids \ started /\ svc'[q].st = "serving" /\ ~svc'[q].term
        BY <2>1, <3>2 DEF Answering
      <4>2. q \in Answering /\ svc[q].drained /\ svc[q].mode # "systemd"
        BY <2>1, <4>1, <3>2 DEF Answering, Lives
      <4>3. PICK r \in Operators : WillEnd(r, q)
        BY <3>2, <4>2 DEF UpgradeInv, DrainCarried
      <4>4. r # o BY <1>1, <4>2, <4>3 DEF WillEnd
      <4> QED BY <1>4, <2>1, <4>1, <4>3, <4>4 DEF WillEnd, OthersStay, Releases
    <3> QED BY <1>1, <1>6, <3>1, <3>2 DEF DrainCarried, UpgradeTypes
  <2>4. NewProgram'
    BY <1>1, <1>3, <1>4, <1>6, <2>1, UpNoneStarts, UpStarts DEF MayFail, Lives, OwnChild, EndsAs, UpgradeInv, NewProgram,
       HasInstalled, OthersStay
  <2> QED BY <1>1, <1>4, <2>1, <2>2, <2>3, <2>4, UpCommands DEF UpgradeInv
<1>7. ASSUME NEW p \in Fresh, UnitStopped({p}),
             (EndsAs(o, "done") /\ UNCHANGED <<overlapped, svcMishaps>>) \/ (overlapped' = TRUE /\ svcMishaps' = svcMishaps + 1)
      PROVE  UpgradeInv'
  BY <1>6, <1>7 DEF Fresh
<1>8. CASE UnitStopped({}) /\ UNCHANGED <<overlapped, svcMishaps>> BY <1>6, <1>8
<1> QED BY <1>2, <1>5, <1>7, <1>8 DEF SystemdRestart, SvcMishap

\* runDaemon fails: an update that has not yet tried the old program recovers it, any other command fails.
LEMMA UpRunFailed ==
  ASSUME UpgradeInv, NEW o \in Operators, cmd[o].at \in {"run", "naming", "ready"}, RunFailed(o), UNCHANGED installed
  PROVE  Moved(o) /\ CmdFits(o, cmd'[o], installed') /\ OthersStay(o) /\ cmd'[o].kind = cmd[o].kind
         /\ cmd'[o].before = cmd[o].before /\ cmd'[o].at \in {"recover", "over"}
<1>1. CmdFits(o, cmd[o], installed) /\ UpgradeTypes BY DEF UpgradeInv
<1>2. CASE Goto(o, "recover") /\ ~cmd[o].again
  BY <1>1, <1>2, UpGoes DEF CmdSteps, Moved, GoesTo, CmdFits
<1>3. CASE End(o, "failed") /\ ~(cmd[o].kind = "update" /\ ~cmd[o].again /\ cmd[o].before # "none")
  BY <1>1, <1>3, UpEnds DEF Results, Moved, EndsAs, CmdFits
<1> QED BY <1>2, <1>3 DEF RunFailed

LEMMA UpSpawn == ASSUME UpgradeInv, NEW o \in Operators, Spawn(o) PROVE UpgradeInv'
<1>1. /\ CmdFits(o, cmd[o], installed) /\ UpgradeTypes /\ HolderFound /\ cmd[o].at = "run" /\ IsActive(o)
      /\ UNCHANGED <<installed, runLock, pidFile, overlapped, disowned, svcMishaps>>
  BY DEF UpgradeInv, Spawn, At, IsActive
<1>2. CASE RunFailed(o) /\ UNCHANGED svc
  BY <1>1, <1>2, UpRunFailed, UpQuiet DEF UpgradeTypes, WillEnd
<1>3. ASSUME ~LockBusy, NEW p \in Fresh,
             svc' = [svc EXCEPT ![p] = Process("spawned", installed, "background", FALSE)],
             cmd' = [cmd EXCEPT ![o].pid = p, ![o].at = "naming"]
      PROVE  UpgradeInv'
  <2>1. p \in ServicePids /\ svc[p].st = "absent" /\ p # NoService /\ runLock = NoService
    BY <1>3, UpgradeAssumption DEF Fresh, NoService, LockBusy
  <2>2. /\ OthersStay(o) /\ cmd'[o].at = "naming" /\ cmd'[o].pid = p /\ cmd'[o].kind = cmd[o].kind /\ cmd'[o].before = cmd[o].before
        /\ cmd'[o].result = cmd[o].result /\ cmd'[o].again = cmd[o].again
    <3> DEFINE c == [cmd[o] EXCEPT !.pid = p, !.at = "naming"]
    <3>1. cmd' = [cmd EXCEPT ![o] = c] BY <1>3
    <3>2. c \in CmdT /\ c.at = "naming" /\ c.pid = p /\ c.kind = cmd[o].kind /\ c.before = cmd[o].before
          /\ c.result = cmd[o].result /\ c.again = cmd[o].again
      BY <1>1, <2>1 DEF UpgradeTypes, CmdT, CmdSteps
    <3> HIDE DEF c
    <3> QED BY <1>1, <3>1, <3>2 DEF OthersStay, UpgradeTypes
  <2>3. svc' \in [ServicePids -> SvcT] /\ svc'[p].st = "spawned" /\ svc'[p].bin = installed /\ ~svc'[p].drained
        /\ \A q \in ServicePids \ {p} : svc'[q] = svc[q]
    BY <1>1, <1>3, <2>1 DEF UpgradeTypes, Process, SvcT, SvcStates, SvcModes
  <2>4. UpgradeTypes' BY <1>1, <2>2, <2>3 DEF UpgradeTypes, OthersStay
  <2>5. HolderFound' BY <1>1, <2>1, <2>3 DEF HolderFound
  <2>6. DrainCarried'
    BY <1>1, <2>2, <2>3 DEF WillEnd, OthersStay, Answering, UpgradeInv, DrainCarried
  <2>7. CmdFits(o, cmd'[o], installed') BY <1>1, <2>1, <2>2 DEF CmdFits
  <2>8. NewProgram'
    BY <1>1, <2>2, <2>3, <2>1, UpStarts DEF MayFail, OwnChild, CmdFits, HasInstalled, Lives
  <2> QED BY <1>1, <2>2, <2>4, <2>5, <2>6, <2>7, <2>8, UpCommands DEF UpgradeInv
<1> QED BY <1>2, <1>3 DEF Spawn, NotReady

\* A command in the middle of starting its child, which may be ended by it.
LEMMA UpChild ==
  ASSUME UpgradeInv, NEW o \in Operators, cmd[o].at \in {"naming", "ready"}, Moved(o), CmdFits(o, cmd'[o], installed'),
         UNCHANGED <<installed, pidFile, overlapped, disowned>>, svcMishaps' \in Nat, svcMishaps' = 0 => svcMishaps = 0,
         \/ KilledOnly(cmd[o].pid)
         \/ /\ UNCHANGED <<svc, runLock>>
            /\ MayFail(o)' => cmd[o].again \/ ~Lives(cmd[o].pid) \/ OwnChild(cmd'[o], cmd[o].pid)
  PROVE  UpgradeInv'
<1>1. /\ CmdFits(o, cmd[o], installed) /\ UpgradeTypes /\ IsActive(o) /\ cmd[o].pid \in ServicePids
      /\ OthersStay(o) /\ cmd'[o].kind = cmd[o].kind /\ cmd'[o].before = cmd[o].before /\ (HasInstalled(o) => HasInstalled(o)')
  BY DEF UpgradeInv, CmdFits, IsActive, Moved, GoesTo, EndsAs, HasInstalled
<1>2. PICK p \in ServicePids : p = cmd[o].pid BY <1>1
<1>3. /\ svc' \in [ServicePids -> SvcT] /\ runLock' \in ServicePids \cup {NoService} /\ HolderFound'
      /\ \A q \in ServicePids : svc'[q].bin = svc[q].bin /\ svc'[q].mode = svc[q].mode /\ svc'[q].drained = svc[q].drained
      /\ \A q \in ServicePids \ {p} : svc'[q] = svc[q]
      /\ svc'[p] = svc[p] \/ svc'[p].st = "gone"
  BY UpKilled, <1>1, <1>2 DEF UpgradeInv, UpgradeTypes, HolderFound
<1>4. UpgradeTypes' BY <1>1, <1>3 DEF UpgradeTypes, OthersStay
<1>5. DrainCarried'
  BY <1>1, <1>3 DEF WillEnd, OthersStay, Answering, UpgradeInv, DrainCarried
<1>6. NewProgram'
  BY <1>3, <1>2, UpKilled, <1>1, UpNoneStarts DEF Lives, OwnChild, MayFail
<1> QED BY <1>1, <1>3, <1>4, <1>5, <1>6, UpCommands DEF UpgradeInv

LEMMA UpNameChild == ASSUME UpgradeInv, NEW o \in Operators, NameChild(o) PROVE UpgradeInv'
<1>1. /\ CmdFits(o, cmd[o], installed) /\ UpgradeTypes /\ HolderFound /\ cmd[o].at = "naming" /\ IsActive(o)
      /\ cmd[o].pid \in ServicePids /\ UNCHANGED <<installed, overlapped>>
  BY DEF UpgradeInv, NameChild, At, IsActive, CmdFits
<1>2. CASE WritePid(cmd[o].pid) /\ Goto(o, "ready") /\ UNCHANGED <<svc, runLock, launchLock, svcMishaps>>
  <2>1. GoesTo(o, "ready") BY <1>1, <1>2, UpGoes DEF CmdSteps
  <2>2. CmdFits(o, cmd'[o], installed') BY <1>1, <2>1 DEF CmdFits, GoesTo
  <2>3. UpgradeTypes' BY <1>1, <1>2, <2>1 DEF UpgradeTypes, GoesTo, OthersStay, WritePid
  <2>4. HolderFound'
    BY <1>1, <1>2, UpgradeAssumption DEF HolderFound, WritePid, LockBusy, NoService
  <2>5. DrainCarried'
    <3>1. \A q \in Operators, p \in ServicePids : WillEnd(q, p) => WillEnd(q, p)'
      BY <1>1, <1>2, <2>1 DEF GoesTo, OthersStay, WillEnd
    <3> QED BY <1>2, <3>1 DEF UpgradeInv, DrainCarried, Answering, WritePid
  <2>6. NewProgram'
    BY <1>1, <1>2, <2>1, UpNoneStarts DEF GoesTo, HasInstalled, MayFail, Lives, OwnChild
  <2> QED BY <1>1, <2>1, <2>2, <2>3, <2>4, <2>5, <2>6, UpCommands DEF UpgradeInv, GoesTo
<1>3. CASE SvcMishap /\ KilledOnly(cmd[o].pid) /\ RunFailed(o) /\ UNCHANGED <<pidFile, disowned>>
  BY <1>1, <1>3, UpRunFailed, UpChild DEF SvcMishap, UpgradeTypes
<1> QED BY <1>2, <1>3 DEF NameChild, KillChild, KilledOnly

LEMMA UpAwaitChild == ASSUME UpgradeInv, NEW o \in Operators, AwaitChild(o) PROVE UpgradeInv'
<1>1. /\ CmdFits(o, cmd[o], installed) /\ UpgradeTypes /\ cmd[o].at = "ready"
      /\ UNCHANGED <<installed, pidFile, overlapped, disowned, svcMishaps>>
  BY DEF UpgradeInv, AwaitChild, At
<1>2. CASE End(o, IF cmd[o].again THEN "failed" ELSE "done") /\ UNCHANGED <<svc, runLock>>
  <2>1. PICK r \in {"failed", "done"} : r = IF cmd[o].again THEN "failed" ELSE "done"
    OBVIOUS
  <2>2. EndsAs(o, r) /\ r \in Results BY <1>1, <1>2, <2>1, UpEnds DEF Results
  <2>3. Moved(o) /\ CmdFits(o, cmd'[o], installed')
    BY <1>1, <2>1, <2>2 DEF Moved, EndsAs, CmdFits
  <2>4. MayFail(o)' => cmd[o].again BY <2>1, <2>2 DEF MayFail, EndsAs
  <2> QED BY <1>1, <1>2, <2>3, <2>4, UpChild DEF UpgradeTypes
<1>3. CASE ~Lives(cmd[o].pid) /\ RunFailed(o) /\ UNCHANGED <<svc, runLock>>
  BY <1>1, <1>3, UpRunFailed, UpChild DEF UpgradeTypes
<1>4. CASE KilledOnly(cmd[o].pid) /\ RunFailed(o)
  BY <1>1, <1>4, UpRunFailed, UpChild DEF UpgradeTypes
<1> QED BY <1>2, <1>3, <1>4 DEF AwaitChild, KillChild, KilledOnly

LEMMA UpForceStop == ASSUME UpgradeInv, NEW o \in Operators, ForceStop(o) PROVE UpgradeInv'
<1>1. /\ CmdFits(o, cmd[o], installed) /\ UpgradeTypes /\ HolderFound /\ cmd[o].at = "force" /\ IsActive(o)
      /\ UNCHANGED <<pidFile, overlapped, disowned>>
  BY DEF UpgradeInv, ForceStop, At, IsActive
<1>2. CASE FailAfterRollback(o) /\ UNCHANGED <<svc, runLock>>
  BY <1>1, <1>2, UpFails, UpQuiet DEF WillEnd
<1>3. CASE Goto(o, "hosts") /\ UNCHANGED <<svc, runLock, installed, svcMishaps>>
  BY <1>1, <1>3, UpGoes, UpQuiet DEF CmdSteps, Moved, GoesTo, CmdFits, UpgradeTypes, WillEnd
<1>4. CASE StopVerified(o) /\ UNCHANGED <<installed, svcMishaps>>
  <2>1. PICK p \in ServicePids : p = pidFile /\ runLock = p
    BY <1>1, <1>4 DEF StopVerified, LegacyTarget, ExistsPid, UpgradeTypes
  <2>2. KilledOnly(p) BY <1>4, <2>1 DEF StopVerified, KilledOnly
  <2>3. PICK m \in SvcModes : cmd' = [cmd EXCEPT ![o].at = "hosts", ![o].mode = m]
    BY <1>1, <2>1, <1>4 DEF UpgradeTypes, SvcT, StopVerified
  <2>4. /\ OthersStay(o) /\ cmd'[o].at = "hosts" /\ cmd'[o].kind = cmd[o].kind /\ cmd'[o].before = cmd[o].before
        /\ cmd'[o].result = cmd[o].result /\ cmd'[o].again = cmd[o].again
    <3> DEFINE c == [cmd[o] EXCEPT !.at = "hosts", !.mode = m]
    <3>1. cmd' = [cmd EXCEPT ![o] = c] BY <2>3
    <3>2. c \in CmdT /\ c.at = "hosts" /\ c.kind = cmd[o].kind /\ c.before = cmd[o].before
          /\ c.result = cmd[o].result /\ c.again = cmd[o].again
      BY <1>1 DEF UpgradeTypes, CmdT, CmdSteps
    <3> HIDE DEF c
    <3> QED BY <1>1, <3>1, <3>2 DEF OthersStay, UpgradeTypes
  <2>5. /\ svc' \in [ServicePids -> SvcT] /\ runLock' \in ServicePids \cup {NoService} /\ HolderFound' /\ svc'[p].st = "gone"
        /\ \A q \in ServicePids : svc'[q].bin = svc[q].bin /\ svc'[q].mode = svc[q].mode /\ svc'[q].drained = svc[q].drained
        /\ \A q \in ServicePids \ {p} : svc'[q] = svc[q]
    BY <1>1, <2>2, UpKilled
  <2>6. UpgradeTypes' BY <1>1, <1>4, <2>4, <2>5 DEF UpgradeTypes, OthersStay
  <2>7. DrainCarried'
    BY <1>1, <2>4, <2>5, <1>4 DEF WillEnd, OthersStay, Answering, UpgradeInv, DrainCarried
  <2>8. NewProgram'
    BY <2>5, <1>1, <1>4, <2>4, UpNoneStarts DEF Lives, HasInstalled, MayFail, OwnChild
  <2>9. CmdFits(o, cmd'[o], installed') BY <1>1, <1>4, <2>4 DEF CmdFits
  <2> QED BY <1>1, <1>4, <2>4, <2>5, <2>6, <2>7, <2>8, <2>9, UpCommands DEF UpgradeInv
<1> QED BY <1>2, <1>3, <1>4 DEF ForceStop, ForceRefused

LEMMA UpForceStart == ASSUME UpgradeInv, NEW o \in Operators, ForceStart(o) PROVE UpgradeInv'
<1>1. /\ CmdFits(o, cmd[o], installed) /\ UpgradeTypes /\ HolderFound /\ cmd[o].at = "hosts" /\ IsActive(o)
      /\ UNCHANGED <<installed, runLock, pidFile, overlapped, disowned, svcMishaps>>
  BY DEF UpgradeInv, ForceStart, At, IsActive
<1>2. CASE (End(o, "done") \/ End(o, "kept")) /\ UNCHANGED svc
  BY <1>1, <1>2, UpEnds, UpQuiet DEF Results, Moved, EndsAs, CmdFits, UpgradeTypes, WillEnd
<1>3. ASSUME NEW p \in Fresh, svc' = [svc EXCEPT ![p] = Process("spawned", installed, "systemd", FALSE)], End(o, "kept")
      PROVE  UpgradeInv'
  <2>1. p \in ServicePids /\ svc[p].st = "absent" /\ p # NoService
    BY <1>3, UpgradeAssumption DEF Fresh, NoService
  <2>2. EndsAs(o, "kept") BY <1>1, <1>3, UpEnds DEF Results
  <2>3. svc' \in [ServicePids -> SvcT] /\ svc'[p].st = "spawned" /\ svc'[p].bin = installed /\ ~svc'[p].drained
        /\ \A q \in ServicePids \ {p} : svc'[q] = svc[q]
    BY <1>1, <1>3, <2>1 DEF UpgradeTypes, Process, SvcT, SvcStates, SvcModes
  <2>4. UpgradeTypes' BY <1>1, <2>2, <2>3 DEF UpgradeTypes, EndsAs, OthersStay
  <2>5. HolderFound' BY <1>1, <2>1, <2>3 DEF HolderFound
  <2>6. DrainCarried'
    BY <1>1, <2>2, <2>3 DEF WillEnd, EndsAs, OthersStay, Answering, UpgradeInv, DrainCarried
  <2>7. NewProgram'
    BY <2>2, <2>3, <1>1, <2>1, UpStarts DEF MayFail, EndsAs, HasInstalled, Lives
  <2>8. CmdFits(o, cmd'[o], installed') BY <1>1, <2>2 DEF CmdFits, EndsAs
  <2> QED BY <1>1, <2>2, <2>4, <2>5, <2>6, <2>7, <2>8, UpCommands DEF UpgradeInv, EndsAs
<1>4. CASE cmd' = [cmd EXCEPT ![o].at = "run", ![o].before = "none"] /\ UNCHANGED svc
  <2>1. /\ OthersStay(o) /\ cmd'[o].at = "run" /\ cmd'[o].kind = cmd[o].kind /\ cmd'[o].before = "none"
        /\ cmd'[o].result = cmd[o].result /\ cmd'[o].again = cmd[o].again
    <3> DEFINE c == [cmd[o] EXCEPT !.at = "run", !.before = "none"]
    <3>1. cmd' = [cmd EXCEPT ![o] = c] BY <1>4
    <3>2. c \in CmdT /\ c.at = "run" /\ c.before = "none" /\ c.kind = cmd[o].kind
          /\ c.result = cmd[o].result /\ c.again = cmd[o].again
      BY <1>1 DEF UpgradeTypes, CmdT, CmdSteps
    <3> HIDE DEF c
    <3> QED BY <1>1, <3>1, <3>2 DEF OthersStay, UpgradeTypes
  <2>2. UpgradeTypes' /\ HolderFound'
    BY <1>1, <1>4, <2>1 DEF UpgradeTypes, HolderFound, OthersStay
  <2>3. DrainCarried'
    BY <1>1, <1>4, <2>1 DEF UpgradeInv, DrainCarried, OthersStay, WillEnd, Answering
  <2>4. NewProgram'
    BY <1>1, <1>4, <2>1, UpNoneStarts DEF HasInstalled, MayFail, OwnChild, Lives
  <2>5. CmdFits(o, cmd'[o], installed') BY <1>1, <2>1 DEF CmdFits
  <2> QED BY <1>1, <2>1, <2>2, <2>3, <2>4, <2>5, UpCommands DEF UpgradeInv
<1> QED BY <1>2, <1>3, <1>4 DEF ForceStart

LEMMA UpBegin == ASSUME UpgradeInv, NEW o \in Operators, Begin(o) PROVE UpgradeInv'
<1>1. /\ CmdFits(o, cmd[o], installed) /\ UpgradeTypes /\ cmd[o].at = "idle"
      /\ UNCHANGED <<installed, svc, runLock, launchLock, pidFile, disowned, svcMishaps>>
      /\ overlapped' = (overlapped \/ \E other \in Operators \ {o} : IsActive(other))
  BY DEF UpgradeInv, Begin, At, IsActive
<1>2. PICK kind \in {"start", "stop", "restart", "update"}, force \in BOOLEAN, restart \in BOOLEAN,
           at \in {"fetch", "look", "prepare"} :
        /\ cmd' = [cmd EXCEPT ![o].kind = kind, ![o].force = force, ![o].restart = restart, ![o].at = at]
        /\ kind = "update" => o = Updater
        /\ kind = "update" <=> at = "fetch"
  <2>1. PICK kind \in {"start", "stop", "restart"} \cup (IF o = Updater THEN {"update"} ELSE {}), force \in BOOLEAN, restart \in BOOLEAN :
          cmd' = [cmd EXCEPT ![o].kind = kind, ![o].force = force, ![o].restart = restart,
                        ![o].at = CASE kind = "update" -> "fetch" [] kind = "stop" -> "look" [] OTHER -> "prepare"]
    BY DEF Begin
  <2>2. PICK at \in {"fetch", "look", "prepare"} :
          /\ at = (CASE kind = "update" -> "fetch" [] kind = "stop" -> "look" [] OTHER -> "prepare")
          /\ kind = "update" <=> at = "fetch"
    OBVIOUS
  <2>3. kind \in {"start", "stop", "restart", "update"} /\ (kind = "update" => o = Updater)
    OBVIOUS
  <2> QED BY <2>1, <2>2, <2>3
<1> DEFINE c == [cmd[o] EXCEPT !.kind = kind, !.force = force, !.restart = restart, !.at = at]
<1>3. c \in CmdT /\ c.at = at /\ c.kind = kind /\ c.before = cmd[o].before /\ c.result = cmd[o].result /\ c.again = cmd[o].again
  <2>1. cmd[o] \in CmdT BY <1>1 DEF UpgradeTypes
  <2>2. [cmd[o] EXCEPT !.kind = kind, !.at = at] \in CmdT
    BY <2>1 DEF CmdT, CmdKinds, CmdSteps
  <2>3. c = [[cmd[o] EXCEPT !.kind = kind, !.at = at] EXCEPT !.force = force, !.restart = restart]
    BY <2>1 DEF CmdT
  <2>4. c \in CmdT BY <2>2, <2>3 DEF CmdT
  <2>5. c.at = at /\ c.kind = kind /\ c.before = cmd[o].before /\ c.result = cmd[o].result /\ c.again = cmd[o].again
    BY <2>1 DEF CmdT
  <2> QED BY <2>4, <2>5
<1>4. cmd' = [cmd EXCEPT ![o] = c] BY <1>2
<1> HIDE DEF c
<1>5. OthersStay(o) /\ cmd'[o] = c BY <1>1, <1>3, <1>4 DEF OthersStay, UpgradeTypes
<1>6. cmd[o].before = "none" /\ cmd[o].result = "none" /\ ~cmd[o].again /\ cmd[o].kind = "none"
  BY <1>1 DEF CmdFits, UpgradeTypes, CmdT
<1>7. UpgradeTypes' /\ HolderFound'
  BY <1>1, <1>5 DEF UpgradeInv, UpgradeTypes, HolderFound, OthersStay
<1>8. DrainCarried'
  BY <1>1, <1>5 DEF UpgradeInv, DrainCarried, OthersStay, WillEnd, Answering
<1>9. CmdFits(o, cmd'[o], installed') BY <1>1, <1>2, <1>3, <1>5, <1>6 DEF CmdFits
<1>10. NewProgram'
  <2>1. ~MayFail(o)' /\ ~HasInstalled(o) /\ \A q \in Operators \ {o} : cmd'[q] = cmd[q]
    BY <1>3, <1>5, <1>6 DEF MayFail, HasInstalled, OthersStay
  <2> QED BY <1>1, <2>1 DEF UpgradeInv, NewProgram, HasInstalled, IsActive, MayFail, Lives
<1> QED BY <1>5, <1>7, <1>8, <1>9, <1>10, <1>1, UpCommands DEF UpgradeInv

LEMMA UpAskDrain == ASSUME UpgradeInv, NEW o \in Operators, AskDrain(o) PROVE UpgradeInv'
<1>1. /\ CmdFits(o, cmd[o], installed) /\ UpgradeTypes /\ HolderFound /\ cmd[o].at = "drain" /\ IsActive(o)
      /\ UNCHANGED <<installed, runLock, launchLock, pidFile, overlapped, disowned, svcMishaps>>
  BY DEF UpgradeInv, AskDrain, At, IsActive, Files
<1>2. PICK s \in {"stopping", "running", "force", "oldstop", "undo", "cancel"} :
        /\ Goto(o, s) /\ (s = "oldstop" => cmd[o].kind = "stop")
        /\ \/ UNCHANGED svc
           \/ s \in {"stopping", "running", "cancel"}
              /\ \E p \in Answering, taken \in BOOLEAN : ~svc[p].legacy /\ svc' = [svc EXCEPT ![p].drained = @ \/ taken]
  BY DEF AskDrain, AfterRefusal
<1>3. GoesTo(o, s) /\ s \in CmdSteps \ {"idle", "fetch", "install"}
  BY <1>1, <1>2, UpGoes DEF CmdSteps
<1>4. Moved(o) /\ CmdFits(o, cmd'[o], installed')
  BY <1>1, <1>2, <1>3 DEF Moved, GoesTo, CmdFits
<1>5. CASE UNCHANGED svc BY <1>1, <1>4, <1>5, UpQuiet DEF UpgradeTypes, WillEnd
<1>6. ASSUME s \in {"stopping", "running", "cancel"}, NEW p \in Answering, NEW taken \in BOOLEAN, ~svc[p].legacy,
             svc' = [svc EXCEPT ![p].drained = @ \/ taken]
      PROVE  UpgradeInv'
  <2>1. \A q \in ServicePids : /\ svc'[q] \in SvcT /\ svc'[q].st = svc[q].st /\ svc'[q].bin = svc[q].bin /\ svc'[q].mode = svc[q].mode
                              /\ (svc'[q].drained => svc[q].drained \/ q = p) /\ svc'[q].legacy = svc[q].legacy
    BY <1>1, <1>6 DEF UpgradeTypes, SvcT
  <2>2. svc' \in [ServicePids -> SvcT] BY <1>1, <1>6, <2>1 DEF UpgradeTypes
  <2>3. UpgradeTypes' /\ HolderFound'
    BY <1>1, <1>3, <2>1, <2>2 DEF UpgradeTypes, HolderFound, GoesTo, OthersStay
  <2>4. DrainCarried'
    <3>1. \A q \in ServicePids : svc'[q].drained => svc'[q].st \in {"serving", "leaving", "gone"}
      BY <1>6, <2>1 DEF UpgradeInv, DrainCarried, Answering
    <3>2. WillEnd(o, p)' BY <1>3, <1>6, <2>1 DEF WillEnd, GoesTo, Answering
    <3>3. ASSUME svcMishaps = 0, ~disowned, NEW q \in Answering', svc'[q].drained, q # p PROVE \E x \in Operators : WillEnd(x, q)'
      <4>1. q \in Answering /\ svc[q].drained
        BY <1>1, <1>6, <2>1, <3>3 DEF Answering, UpgradeTypes
      <4>2. PICK x \in Operators : WillEnd(x, q)
        BY <3>3, <4>1 DEF UpgradeInv, DrainCarried
      <4> QED BY <1>1, <1>3, <2>1, <4>1, <4>2 DEF WillEnd, GoesTo, OthersStay, Answering
    <3> QED BY <1>1, <3>1, <3>2, <3>3 DEF DrainCarried
  <2>5. NewProgram'
    BY <1>1, <1>2, <1>3, <2>1, UpNoneStarts DEF GoesTo, HasInstalled, MayFail, Lives, OwnChild
  <2> QED BY <1>1, <1>3, <1>4, <2>3, <2>4, <2>5, UpCommands DEF UpgradeInv, GoesTo
<1> QED BY <1>2, <1>5, <1>6

LEMMA UpStopLegacy == ASSUME UpgradeInv, NEW o \in Operators, StopLegacy(o) PROVE UpgradeInv'
<1>1. /\ CmdFits(o, cmd[o], installed) /\ UpgradeTypes /\ HolderFound /\ cmd[o].at = "oldstop" /\ IsActive(o)
      /\ UNCHANGED <<overlapped, disowned, installed, runLock, launchLock, pidFile>>
  BY DEF UpgradeInv, StopLegacy, At, IsActive, Files
<1>2. CASE End(o, "failed") /\ UNCHANGED <<svc, svcMishaps>>
  BY <1>1, <1>2, UpEnds, UpQuiet DEF Results, Moved, EndsAs, CmdFits, UpgradeTypes, WillEnd
<1>3. ASSUME NEW p \in Answering, svc' = [svc EXCEPT ![p].drained = TRUE],
             \/ cmd' = [cmd EXCEPT ![o].at = "stopping", ![o].back = "plain"] /\ UNCHANGED svcMishaps
             \/ End(o, "unheard") /\ SvcMishap
      PROVE  UpgradeInv'
  <2>1. \A q \in ServicePids : /\ svc'[q] \in SvcT /\ svc'[q].st = svc[q].st /\ svc'[q].bin = svc[q].bin
                              /\ (svc'[q].drained => svc[q].drained \/ q = p) /\ svc'[q].mode = svc[q].mode
    BY <1>1, <1>3 DEF UpgradeTypes, SvcT
  <2>2. svc' \in [ServicePids -> SvcT] BY <1>1, <1>3, <2>1 DEF UpgradeTypes
  <2>3. /\ OthersStay(o) /\ cmd'[o].kind = cmd[o].kind /\ cmd'[o].before = cmd[o].before
        /\ (cmd'[o].at = "stopping" /\ cmd'[o].result = cmd[o].result /\ cmd'[o].again = cmd[o].again /\ svcMishaps' = svcMishaps)
           \/ (cmd'[o].at = "over" /\ cmd'[o].result = "unheard" /\ ~cmd'[o].again /\ svcMishaps' = svcMishaps + 1)
    <3>1. CASE End(o, "unheard") /\ SvcMishap
      BY <1>1, <3>1, UpEnds DEF EndsAs, Results, SvcMishap
    <3>2. CASE cmd' = [cmd EXCEPT ![o].at = "stopping", ![o].back = "plain"] /\ UNCHANGED svcMishaps
      <4> DEFINE c == [cmd[o] EXCEPT !.at = "stopping", !.back = "plain"]
      <4>1. cmd' = [cmd EXCEPT ![o] = c] BY <3>2
      <4>2. c \in CmdT /\ c.at = "stopping" /\ c.again = cmd[o].again /\ c.kind = cmd[o].kind /\ c.before = cmd[o].before
            /\ c.result = cmd[o].result
        BY <1>1 DEF UpgradeTypes, CmdT, CmdSteps
      <4> HIDE DEF c
      <4> QED BY <1>1, <3>2, <4>1, <4>2 DEF OthersStay, UpgradeTypes
    <3> QED BY <1>3, <3>1, <3>2
  <2>4. CmdFits(o, cmd'[o], installed') BY <1>1, <2>3 DEF CmdFits
  <2>5. UpgradeTypes' /\ HolderFound'
    BY <1>1, <2>1, <2>2, <2>3 DEF UpgradeTypes, HolderFound, OthersStay
  <2>6. DrainCarried'
    BY <1>3, <2>1, <1>1, <2>3 DEF UpgradeInv, DrainCarried, Answering, WillEnd, UpgradeTypes
  <2>7. NewProgram'
    BY <1>1, <2>1, <2>3, UpNoneStarts DEF HasInstalled, MayFail, Lives, OwnChild
  <2> QED BY <1>1, <2>3, <2>4, <2>5, <2>6, <2>7, UpCommands DEF UpgradeInv
<1> QED BY <1>2, <1>3 DEF StopLegacy

LEMMA UpStopNamed == ASSUME UpgradeInv, NEW o \in Operators, StopNamed(o) PROVE UpgradeInv'
<1>1. /\ CmdFits(o, cmd[o], installed) /\ UpgradeTypes /\ HolderFound /\ cmd[o].at = "stopping" /\ IsActive(o)
      /\ UNCHANGED <<installed, launchLock, overlapped, disowned, svcMishaps>>
  BY DEF UpgradeInv, StopNamed, At, IsActive
<1>2. CASE ~SeenRunning /\ pidFile' = NoService /\ Goto(o, "stopped") /\ UNCHANGED <<svc, runLock>>
  BY <1>1, <1>2, UpGoes, UpgradeAssumption, UpQuiet DEF CmdSteps, Moved, GoesTo, CmdFits, HolderFound, Answering, SeenRunning,
     ExistsPid, Lives, LockBusy, NoService, UpgradeTypes
<1>3. ASSUME SeenRunning, NEW p \in ServicePids, p = pidFile, UNCHANGED pidFile,
             cmd' = [cmd EXCEPT ![o].pid = p, ![o].at = "waiting"],
             \/ svc[p].st \in {"spawned", "claimed"} /\ KilledOnly(p)
             \/ svc' = [svc EXCEPT ![p].term = TRUE] /\ UNCHANGED runLock
      PROVE  UpgradeInv'
  <2>1. /\ OthersStay(o) /\ cmd'[o].at = "waiting" /\ cmd'[o].pid = p /\ cmd'[o].kind = cmd[o].kind /\ cmd'[o].before = cmd[o].before
        /\ cmd'[o].result = cmd[o].result /\ cmd'[o].again = cmd[o].again
    <3> DEFINE c == [cmd[o] EXCEPT !.pid = p, !.at = "waiting"]
    <3>1. cmd' = [cmd EXCEPT ![o] = c] BY <1>3
    <3>2. c \in CmdT /\ c.at = "waiting" /\ c.pid = p /\ c.kind = cmd[o].kind /\ c.before = cmd[o].before
          /\ c.result = cmd[o].result /\ c.again = cmd[o].again
      BY <1>1 DEF UpgradeTypes, CmdT, CmdSteps
    <3> HIDE DEF c
    <3> QED BY <1>1, <3>1, <3>2 DEF OthersStay, UpgradeTypes
  <2>2. /\ svc' \in [ServicePids -> SvcT] /\ runLock' \in ServicePids \cup {NoService} /\ HolderFound'
        /\ \A q \in ServicePids : svc'[q].bin = svc[q].bin /\ svc'[q].mode = svc[q].mode /\ svc'[q].drained = svc[q].drained
        /\ \A q \in ServicePids \ {p} : svc'[q] = svc[q]
        /\ svc'[p].st = svc[p].st \/ svc'[p].st = "gone"
        /\ p \notin Answering'
    <3>1. CASE svc[p].st \in {"spawned", "claimed"} /\ KilledOnly(p)
      BY <1>1, <1>3, <3>1, UpKilled DEF Answering
    <3>2. CASE svc' = [svc EXCEPT ![p].term = TRUE] /\ UNCHANGED runLock
      <4>1. \A q \in ServicePids : svc'[q] \in SvcT /\ svc'[q].bin = svc[q].bin /\ svc'[q].mode = svc[q].mode
                                   /\ svc'[q].drained = svc[q].drained /\ svc'[q].st = svc[q].st
        BY <1>1, <3>2 DEF UpgradeTypes, SvcT
      <4>2. svc'[p].term /\ \A q \in ServicePids \ {p} : svc'[q] = svc[q]
        BY <1>1, <3>2 DEF UpgradeTypes, SvcT
      <4>3. svc' \in [ServicePids -> SvcT] BY <1>1, <3>2, <4>1 DEF UpgradeTypes
      <4> QED BY <1>1, <1>3, <3>2, <4>1, <4>2, <4>3 DEF HolderFound, UpgradeTypes, Answering
    <3> QED BY <1>3, <3>1, <3>2
  <2>3. UpgradeTypes' BY <1>1, <1>3, <2>1, <2>2 DEF UpgradeTypes, OthersStay
  <2>4. DrainCarried'
    BY <2>2, <1>1, <1>3 DEF UpgradeInv, DrainCarried, Answering, HolderFound
  <2>5. NewProgram'
    BY <2>2, <1>1, <2>1, UpNoneStarts DEF Lives, HasInstalled, MayFail, OwnChild
  <2>6. CmdFits(o, cmd'[o], installed') BY <1>1, <2>1 DEF CmdFits
  <2> QED BY <1>1, <2>1, <2>2, <2>3, <2>4, <2>5, <2>6, UpCommands DEF UpgradeInv
<1>4. SeenRunning => pidFile \in ServicePids
  BY <1>1 DEF SeenRunning, ExistsPid, UpgradeTypes
<1> QED BY <1>2, <1>3, <1>4 DEF StopNamed, KilledOnly

\* A step of a service: nothing but its own state, the lock and the pid file.
LEMMA UpService ==
  ASSUME UpgradeInv, NEW p \in ServicePids, UNCHANGED <<installed, cmd, overlapped, disowned>>,
         svcMishaps' \in Nat, svcMishaps' = 0 => svcMishaps = 0, svc' \in [ServicePids -> SvcT],
         \A q \in ServicePids \ {p} : svc'[q] = svc[q],
         svc'[p].bin = svc[p].bin, svc'[p].mode = svc[p].mode, svc'[p].legacy = svc[p].legacy, Lives(p), HolderFound',
         runLock' \in ServicePids \cup {NoService}, pidFile' \in ServicePids \cup {NoService},
         svc'[p].drained => svc[p].drained /\ svc'[p].st \in {"serving", "leaving", "gone"} /\ (p \in Answering' => p \in Answering)
  PROVE  UpgradeInv'
<1>1. UpgradeTypes' BY DEF UpgradeInv, UpgradeTypes
<1>2. DrainCarried' BY DEF WillEnd, Answering, UpgradeInv, DrainCarried
<1>3. NewProgram'
  BY DEF Lives, UpgradeInv, NewProgram, HasInstalled, IsActive, MayFail, OwnChild
<1> QED BY <1>1, <1>2, <1>3 DEF UpgradeInv

LEMMA UpServiceKilled ==
  ASSUME UpgradeInv, NEW p \in ServicePids, KilledOnly(p), Lives(p), UNCHANGED <<installed, pidFile, cmd, overlapped, disowned>>,
         svcMishaps' \in Nat, svcMishaps' = 0 => svcMishaps = 0
  PROVE  UpgradeInv'
<1>1. /\ svc' \in [ServicePids -> SvcT] /\ runLock' \in ServicePids \cup {NoService} /\ HolderFound'
      /\ svc'[p].st = "gone" /\ svc'[p].bin = svc[p].bin /\ svc'[p].mode = svc[p].mode /\ svc'[p].drained = svc[p].drained
      /\ svc'[p].legacy = svc[p].legacy /\ \A q \in ServicePids \ {p} : svc'[q] = svc[q]
  BY UpKilled
<1>2. p \notin Answering' /\ pidFile' \in ServicePids \cup {NoService}
  BY <1>1 DEF Answering, UpgradeInv, UpgradeTypes
<1> QED BY <1>1, <1>2, UpService

\* A service that goes on to state s and keeps or removes the pid file.
GoesOn(p, s) == svc' = [svc EXCEPT ![p].st = s]
LEMMA UpGoesOn ==
  ASSUME UpgradeInv, NEW p \in ServicePids, NEW s \in SvcStates, GoesOn(p, s)
  PROVE  /\ svc' \in [ServicePids -> SvcT] /\ svc'[p].st = s /\ svc'[p].bin = svc[p].bin /\ svc'[p].mode = svc[p].mode
         /\ svc'[p].drained = svc[p].drained /\ svc'[p].legacy = svc[p].legacy /\ \A q \in ServicePids \ {p} : svc'[q] = svc[q]
  BY DEF UpgradeInv, UpgradeTypes, SvcT, GoesOn

LEMMA UpClaim == ASSUME UpgradeInv, NEW p \in ServicePids, Claim(p) PROVE UpgradeInv'
<1>1. /\ svc[p].st = "spawned" /\ Lives(p) /\ UpgradeTypes /\ HolderFound /\ p # NoService /\ ~svc[p].drained
      /\ UNCHANGED <<installed, pidFile, cmd, overlapped, disowned, svcMishaps>>
  BY UpgradeAssumption DEF UpgradeInv, Claim, Lives, NoService, DrainCarried
<1>2. CASE ~LockBusy /\ runLock' = p /\ GoesOn(p, "claimed")
  BY <1>1, <1>2, UpGoesOn, UpgradeAssumption, UpService DEF SvcStates, HolderFound, LockBusy, NoService, UpgradeTypes
<1>3. CASE GoesOn(p, "gone") /\ UNCHANGED runLock
  BY <1>1, <1>3, UpServiceKilled DEF KilledOnly, GoesOn, HolderFound, UpgradeTypes
<1> QED BY <1>2, <1>3 DEF Claim, GoesOn

LEMMA UpNameItself == ASSUME UpgradeInv, NEW p \in ServicePids, NameItself(p) PROVE UpgradeInv'
<1>1. /\ svc[p].st = "claimed" /\ Lives(p) /\ UpgradeTypes /\ HolderFound /\ runLock = p /\ ~svc[p].drained
      /\ UNCHANGED <<installed, cmd, overlapped, disowned>>
  BY DEF UpgradeInv, NameItself, Lives, HolderFound, DrainCarried
<1>2. CASE pidFile' = p /\ GoesOn(p, "named") /\ UNCHANGED <<runLock, svcMishaps>>
  BY <1>1, <1>2, UpGoesOn, UpService DEF SvcStates, HolderFound, UpgradeTypes
<1>3. CASE SvcMishap /\ GoesOn(p, "gone") /\ runLock' = NoService /\ UNCHANGED pidFile
  <2>1. KilledOnly(p) BY <1>1, <1>3 DEF KilledOnly, GoesOn
  <2> QED BY <1>1, <1>3, <2>1, UpServiceKilled DEF UpgradeTypes, SvcMishap
<1> QED BY <1>2, <1>3 DEF NameItself, GoesOn

LEMMA UpServes == ASSUME UpgradeInv, NEW p \in ServicePids, Serve(p) PROVE UpgradeInv'
<1>1. /\ svc[p].st = "named" /\ Lives(p) /\ UpgradeTypes /\ HolderFound /\ ~svc[p].drained /\ GoesOn(p, "serving")
      /\ UNCHANGED <<cmd, overlapped, disowned, svcMishaps, installed, runLock, launchLock, pidFile>>
  BY DEF UpgradeInv, Serve, Lives, DrainCarried, GoesOn, Files
<1>2. HolderFound' BY <1>1, UpGoesOn DEF SvcStates, HolderFound
<1> QED BY <1>1, <1>2, UpGoesOn, UpService DEF SvcStates, UpgradeTypes

LEMMA UpLeaves ==
  ASSUME UpgradeInv, NEW p \in ServicePids, svc[p].st \in {"named", "serving"}, RemoveState(p),
         UNCHANGED <<installed, runLock, launchLock, cmd, overlapped, disowned, svcMishaps>>
  PROVE  UpgradeInv'
<1>1. Lives(p) /\ UpgradeTypes /\ HolderFound /\ runLock = p /\ GoesOn(p, "leaving") /\ pidFile' = NoService
  BY DEF UpgradeInv, Lives, HolderFound, GoesOn, RemoveState
<1>2. HolderFound' /\ p \notin Answering'
  BY <1>1, UpGoesOn DEF SvcStates, HolderFound, Answering
<1> QED BY <1>1, <1>2, UpGoesOn, UpService DEF SvcStates, UpgradeTypes

LEMMA UpExit == ASSUME UpgradeInv, NEW p \in ServicePids, Exit(p) PROVE UpgradeInv'
  BY UpServiceKilled DEF Exit, KilledOnly, Lives, UpgradeInv, UpgradeTypes

LEMMA UpCrash == ASSUME UpgradeInv, NEW p \in ServicePids, CrashService(p) PROVE UpgradeInv'
<1>1. /\ KilledOnly(p) /\ Lives(p) /\ UNCHANGED <<installed, pidFile, cmd, overlapped, disowned>>
      /\ svcMishaps' \in Nat /\ (svcMishaps' = 0 => svcMishaps = 0)
  BY DEF CrashService, KilledOnly, UpgradeInv, UpgradeTypes, SvcMishap
<1> QED BY <1>1, UpServiceKilled

LEMMA UpInit == UpgradeInit => UpgradeInv
<1> SUFFICES ASSUME UpgradeInit PROVE UpgradeInv OBVIOUS
<1>1. PICK mode \in SvcModes, legacy \in BOOLEAN, up \in BOOLEAN :
        /\ svc = [p \in ServicePids |-> IF p = 1 /\ up THEN Process("serving", "old", mode, legacy)
                                        ELSE Process("absent", "old", "background", FALSE)]
        /\ runLock = (IF up THEN 1 ELSE NoService) /\ pidFile = (IF up THEN 1 ELSE NoService)
  BY DEF UpgradeInit, SvcModes
<1>2. ASSUME NEW p \in ServicePids
      PROVE  svc[p] \in SvcT /\ svc[p].bin = "old" /\ ~svc[p].drained /\ svc[p].st = IF p = 1 /\ up THEN "serving" ELSE "absent"
  BY <1>1 DEF Process, SvcT, SvcStates, SvcModes, Bins
<1>3. Idle \in CmdT /\ Idle.kind = "none" /\ Idle.at = "idle" /\ Idle.before = "none" /\ Idle.result = "none" /\ ~Idle.again
  BY DEF Idle, CmdT, CmdKinds, CmdSteps, SvcModes, NoService
<1>4. UpgradeTypes
  BY <1>1, <1>2, <1>3, UpgradeAssumption DEF UpgradeInit, UpgradeTypes, Bins
<1>5. HolderFound BY <1>1, <1>2, UpgradeAssumption DEF HolderFound, NoService
<1>6. DrainCarried /\ NewProgram /\ \A o \in Operators : CmdFits(o, cmd[o], installed)
  BY <1>2, <1>3 DEF UpgradeInit, DrainCarried, Answering, NewProgram, CmdFits, MayFail, IsActive
<1> QED BY <1>4, <1>5, <1>6 DEF UpgradeInv

LEMMA UpStep == UpgradeInv /\ [UpgradeNext]_upgradeVars => UpgradeInv'
<1> SUFFICES ASSUME UpgradeInv, [UpgradeNext]_upgradeVars PROVE UpgradeInv' OBVIOUS
<1>1. CASE UNCHANGED upgradeVars
  BY <1>1 DEF upgradeVars, UpgradeInv, UpgradeTypes, HolderFound, DrainCarried, Answering, WillEnd, CmdFits, NewProgram,
     HasInstalled, IsActive, MayFail, OwnChild, Lives
<1>2. ASSUME NEW o \in Operators, Begin(o) \/ FetchRelease(o) \/ Install(o) \/ PrepareStart(o) \/ AskDrain(o)
          \/ CancelDrain(o) \/ Undo(o) \/ LookRunning(o) \/ SystemdRestart(o) \/ StopNamed(o) PROVE UpgradeInv'
  BY <1>2, UpBegin, UpFetchRelease, UpInstall, UpPrepareStart, UpAskDrain, UpCancelDrain, UpUndo, UpLookRunning,
     UpSystemdRestart, UpStopNamed
<1>3. ASSUME NEW o \in Operators, AwaitExit(o) \/ AfterStop(o) \/ Spawn(o) \/ NameChild(o) \/ AwaitChild(o)
          \/ Recover(o) \/ StopLegacy(o) \/ ForceStop(o) \/ ForceStart(o) \/ KillCommand(o) PROVE UpgradeInv'
  BY <1>3, UpAwaitExit, UpAfterStop, UpSpawn, UpNameChild, UpAwaitChild, UpRecover, UpStopLegacy, UpForceStop, UpForceStart,
     UpKillCommand
<1>4. ASSUME NEW p \in ServicePids,
             Claim(p) \/ NameItself(p) \/ Serve(p) \/ StartFails(p) \/ Shutdown(p) \/ Exit(p) \/ CrashService(p) PROVE UpgradeInv'
  BY <1>4, UpClaim, UpNameItself, UpServes, UpLeaves, UpExit, UpCrash DEF StartFails, Shutdown
<1> QED BY <1>1, <1>2, <1>3, <1>4 DEF UpgradeNext

LEMMA UpGoal == UpgradeInv => CommandsUndone
<1> SUFFICES ASSUME UpgradeInv PROVE UpdateUndone /\ NoStrandedDrain
  BY DEF CommandsUndone
<1>1. ASSUME NEW o \in Operators, cmd[o].kind = "update", cmd[o].result = "failed", cmd[o].before # "none"
      PROVE  installed = cmd[o].before /\ (~overlapped => \A p \in ServicePids : Lives(p) => svc[p].bin = installed)
  BY <1>1 DEF UpgradeInv, CmdFits, MayFail, NewProgram, OwnChild, UpgradeTypes, SvcT, Bins
<1>2. NoStrandedDrain
  BY DEF UpgradeInv, DrainCarried, WillEnd, NoStrandedDrain, Answering
<1> QED BY <1>1, <1>2 DEF UpdateUndone

\* runStart, runStop, runRestart and runUpdate: what each command has done so far fits the program file, the lock and the pid file.
THEOREM UpgradeInvariant == UpgradeSpec => []UpgradeInv
<1> QED BY UpInit, UpStep, PTL DEF UpgradeSpec

\* An operator's command that does not get through leaves the program file and the service as it found them.
THEOREM CommandsStayUndone == UpgradeSpec => []CommandsUndone
<1> QED BY UpgradeInvariant, UpGoal, PTL
=============================================================================
