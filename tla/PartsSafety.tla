----------------------------- MODULE PartsSafety -----------------------------
(***************************************************************************)
(* Proofs about parts that share no state with the rest: the launch        *)
(* environment of the Codex App, the Host it shares with WeClaw, the       *)
(* WeChat poll, the stop of Hosts that are in the way, access to the       *)
(* platforms, the events of Feishu, and its cards.                         *)
(***************************************************************************)
EXTENDS CodexLaunchEnv, CodexAppShared, WeChatPolling, CodexHostConflict, PlatformAccess, FeishuIngress,
        FeishuCards, FiniteSetTheorems, SequenceTheorems, WellFoundedInduction, TLAPS

--------------------
(* The launch environment.                                                 *)

\* The backup holds what a restore would put back for k.
Covered(k) == backup.there /\ k \in DOMAIN backup.previous

\* Every value is one the user gave or a mode's, and a restore never finds an override in the backup.
EnvValues ==
  /\ hers \in [Keys -> SUBSET {Unset, User}] /\ \A k \in Keys : Unset \in hers[k]
  /\ launchEnv \in [Keys -> {Unset, User, Shared, Daemon}]
  /\ \A k \in Keys : launchEnv[k] \in hers[k] \cup {Shared, Daemon}
  /\ DOMAIN backup.previous \subseteq Keys
  /\ \A k \in DOMAIN backup.previous : backup.previous[k] \in hers[k] \cup {Daemon}
  /\ backup = [there |-> backup.there, previous |-> backup.previous]

ChangeShape ==
  /\ change = [at |-> change.at, mode |-> change.mode, prior |-> change.prior, todo |-> change.todo,
               done |-> change.done, open |-> change.open]
  /\ change.at \in {"idle", "backup", "set", "open", "rollback", "restore"}
  /\ change.mode \in {Shared, Daemon}
  /\ change.todo \in Seq(Keys) /\ change.done \in Seq(Keys)

\* What a change may still write: a value it read, which is no override unless the backup covers it.
ChangeKnows ==
  change.at \in {"backup", "set", "open", "rollback"} =>
    /\ \A k \in Keys : change.prior[k] \in hers[k] \cup {Shared, Daemon}
    /\ \A k \in Keys : change.prior[k] = Shared => Covered(k)

\* Before a variable is overridden its value is in the backup; a restore still has every override ahead of it.
ChangeCovers ==
  /\ change.at = "backup" => change.mode = Shared /\ \A i \in DOMAIN change.todo : change.prior[change.todo[i]] # Shared
  /\ change.at = "set" /\ change.mode = Shared => \A i \in DOMAIN change.todo : Covered(change.todo[i])
  /\ change.at = "restore" =>
       /\ \A i \in DOMAIN change.todo : change.todo[i] \in DOMAIN backup.previous
       /\ \A k \in Keys : launchEnv[k] = Shared => \E i \in DOMAIN change.todo : change.todo[i] = k

EnvInv == EnvValues /\ ChangeShape /\ ChangeKnows /\ ChangeCovers /\ NoOrphanedOverride

LEMMA EnvInitSafe == EnvInit => EnvInv
  BY DEF EnvInit, EnvInv, EnvValues, ChangeShape, ChangeKnows, ChangeCovers, NoOrphanedOverride, NoBackup, NoChange,
         Unset, User, Shared, Daemon

\* The environment and the backup stay: only the change has to be looked at.
LEMMA EnvStays ==
  ASSUME EnvInv, UNCHANGED <<launchEnv, hers, backup>>, ChangeShape', ChangeKnows', ChangeCovers'
  PROVE  EnvInv'
  BY DEF EnvInv, EnvValues, NoOrphanedOverride

\* No change, or one in which nothing is to be set any more.
LEMMA ChangeOver ==
  ASSUME ChangeShape, change' = NoChange
  PROVE  ChangeShape' /\ ChangeKnows' /\ ChangeCovers'
  BY DEF ChangeShape, ChangeKnows, ChangeCovers, NoChange, Shared, Daemon

LEMMA ListIsSeq ==
  ASSUME NEW ks \in SUBSET Keys, NEW order, Lists(order, ks)
  PROVE  order \in Seq(Keys) /\ \A i \in DOMAIN order : order[i] \in ks
<1>1. IsFiniteSet(Keys) BY EnvAssumption, FS_Union DEF Keys
<1>2. Cardinality(ks) \in Nat BY <1>1, FS_Subset, FS_CardinalityType
<1>3. order \in [1..Cardinality(ks) -> Keys] BY DEF Lists
<1> QED BY <1>2, <1>3 DEF Lists

LEMMA BeginsSafe ==
  ASSUME EnvInv, UNCHANGED <<launchEnv, hers, backup>>, NEW mode \in {Shared, Daemon}, NEW step, NEW open,
         Begins(mode, step, open), step \in {"open", "backup", "set"},
         mode = Shared => step \in {"open", "backup"}, mode = Daemon => step = "set"
  PROVE  EnvInv'
<1> DEFINE ks == Mutations(mode)
<1>1. PICK todo \in [1..Cardinality(ks) -> ks] :
        /\ InOrder(todo, ks)
        /\ change' = [at |-> step, mode |-> mode, prior |-> launchEnv, todo |-> todo, done |-> <<>>, open |-> open]
  BY DEF Begins, Step
<1>2. \A k \in ks : k \in Keys /\ launchEnv[k] # mode BY DEF Mutations
<1>3. todo \in Seq(Keys) /\ \A i \in DOMAIN todo : todo[i] \in ks
  BY <1>1, <1>2, ListIsSeq DEF InOrder
<1>4. ChangeShape' BY <1>1, <1>3 DEF ChangeShape
<1>5. ChangeKnows'
  BY <1>1 DEF ChangeKnows, EnvInv, EnvValues, NoOrphanedOverride, Covered
<1>6. ChangeCovers' BY <1>1, <1>2, <1>3 DEF ChangeCovers, Shared, Daemon
<1> QED BY <1>4, <1>5, <1>6, EnvStays

LEMMA EnvChangeSafe ==
  ASSUME EnvInv, NEW ok \in BOOLEAN
  PROVE  /\ PrepareShared(ok) => EnvInv'
         /\ EnableDaemonReuse => EnvInv'
         /\ AllSet => EnvInv'
         /\ OpenApp(ok) => EnvInv'
         /\ AppQuits => EnvInv'
         /\ ChangeCut => EnvInv'
<1>1. ASSUME PrepareShared(ok) PROVE EnvInv'
  <2> DEFINE step == IF Mutations(Shared) = {} THEN "open" ELSE "backup"
  <2>1. Begins(Shared, step, ok) /\ UNCHANGED <<launchEnv, hers, backup>>
    BY <1>1 DEF PrepareShared
  <2>2. step \in {"open", "backup"} /\ Shared # Daemon BY DEF Shared, Daemon
  <2> HIDE DEF step
  <2> QED BY <2>1, <2>2, BeginsSafe
<1>2. ASSUME EnableDaemonReuse PROVE EnvInv'
  BY <1>2, BeginsSafe, Shared # Daemon DEF EnableDaemonReuse, Shared, Daemon
<1>3. ASSUME AllSet PROVE EnvInv'
  BY <1>3, EnvStays DEF AllSet, Step, EnvInv, ChangeShape, ChangeKnows, ChangeCovers, Covered
<1>4. ASSUME OpenApp(ok) PROVE EnvInv'
  BY <1>4, ChangeOver, EnvStays DEF OpenApp, EnvInv, ChangeShape, ChangeKnows, ChangeCovers, Covered, Step
<1>5. ASSUME AppQuits PROVE EnvInv'
  BY <1>5 DEF AppQuits, EnvInv, EnvValues, ChangeShape, ChangeKnows, ChangeCovers, Covered, NoOrphanedOverride
<1>6. ASSUME ChangeCut PROVE EnvInv'
  BY <1>6, ChangeOver, EnvStays DEF ChangeCut, Step, EnvInv
<1> QED BY <1>1, <1>2, <1>3, <1>4, <1>5, <1>6

LEMMA WriteBackupSafe ==
  ASSUME EnvInv, NEW ok \in BOOLEAN, WriteBackup(ok)
  PROVE  EnvInv'
<1>1. CASE ~ok BY <1>1, ChangeOver, EnvStays DEF WriteBackup, Step, EnvInv
<1>2. CASE ok
  <2> DEFINE kept == backup.previous
             new == {change.todo[i] : i \in 1..Len(change.todo)}
  <2>1. /\ change.at = "backup" /\ UNCHANGED <<launchEnv, hers>>
        /\ backup' = [there |-> TRUE, previous |-> [k \in DOMAIN kept \cup new |-> IF k \in DOMAIN kept THEN kept[k]
                                                                                  ELSE change.prior[k]]]
        /\ change' = [change EXCEPT !.at = "set"]
    BY <1>2 DEF WriteBackup, Step
  <2>2. new \subseteq Keys /\ \A k \in new : change.prior[k] \in hers[k] \cup {Daemon}
    BY <2>1 DEF EnvInv, ChangeShape, ChangeKnows, ChangeCovers
  <2>3. DOMAIN backup'.previous = DOMAIN kept \cup new /\ backup'.there
        /\ \A k \in DOMAIN kept \cup new : backup'.previous[k] = IF k \in DOMAIN kept THEN kept[k] ELSE change.prior[k]
    BY <2>1
  <2>4. \A k : Covered(k) => Covered(k)' BY <2>3 DEF Covered
  <2>5. EnvValues' BY <2>1, <2>2, <2>3 DEF EnvInv, EnvValues
  <2>6. ChangeShape' /\ ChangeKnows' BY <2>1, <2>4 DEF EnvInv, ChangeShape, ChangeKnows
  <2>7. \A i \in DOMAIN change.todo : backup'.there /\ change.todo[i] \in DOMAIN backup'.previous
    BY <2>3 DEF EnvInv, ChangeShape
  <2>8. ChangeCovers' BY <2>1, <2>7 DEF EnvInv, ChangeShape, ChangeCovers, Covered
  <2>9. NoOrphanedOverride'
    BY <2>1, <2>2, <2>3 DEF EnvInv, EnvValues, NoOrphanedOverride
  <2> QED BY <2>5, <2>6, <2>8, <2>9 DEF EnvInv
<1> QED BY <1>1, <1>2

LEMMA SetVariableSafe ==
  ASSUME EnvInv, NEW ok \in BOOLEAN, SetVariable(ok)
  PROVE  EnvInv'
<1> DEFINE k == Head(change.todo)
<1>1. /\ change.at = "set" /\ change.todo # <<>> /\ UNCHANGED <<hers, backup>>
      /\ launchEnv' = IF ok THEN [launchEnv EXCEPT ![k] = change.mode] ELSE launchEnv
      /\ change' = [change EXCEPT !.todo = Tail(@), !.done = <<k>> \o @, !.at = IF ok THEN "set" ELSE "rollback"]
  BY DEF SetVariable, Step
<1>2. k \in Keys /\ Tail(change.todo) \in Seq(Keys) /\ <<k>> \o change.done \in Seq(Keys)
  BY <1>1 DEF EnvInv, ChangeShape
<1>3. \A i \in DOMAIN Tail(change.todo) : i + 1 \in DOMAIN change.todo /\ Tail(change.todo)[i] = change.todo[i + 1]
  BY <1>1 DEF EnvInv, ChangeShape
<1>4. change.mode = Shared => Covered(k) BY <1>1 DEF EnvInv, ChangeShape, ChangeCovers
<1>5. /\ change'.at = (IF ok THEN "set" ELSE "rollback") /\ change'.mode = change.mode /\ change'.prior = change.prior
      /\ change'.todo = Tail(change.todo) /\ change'.done = <<k>> \o change.done
  BY <1>1 DEF EnvInv, ChangeShape
<1> HIDE DEF k
<1>6. EnvValues' BY <1>1, <1>2 DEF EnvInv, EnvValues, ChangeShape
<1>7. ChangeShape' BY <1>1, <1>2, <1>5 DEF EnvInv, ChangeShape
<1>8. ChangeKnows' BY <1>1, <1>5 DEF EnvInv, ChangeKnows, Covered
<1>9. ChangeCovers' BY <1>1, <1>3, <1>5 DEF EnvInv, ChangeCovers, Covered
<1>10. NoOrphanedOverride'
  BY <1>1, <1>2, <1>4 DEF EnvInv, EnvValues, NoOrphanedOverride, Covered
<1> QED BY <1>6, <1>7, <1>8, <1>9, <1>10 DEF EnvInv

LEMMA RollbackSafe ==
  ASSUME EnvInv, NEW ok \in BOOLEAN, Rollback(ok)
  PROVE  EnvInv'
<1> DEFINE k == Head(change.done)
<1>1. /\ change.at = "rollback" /\ change.done # <<>> /\ UNCHANGED <<hers, backup>>
      /\ launchEnv' = IF ok THEN [launchEnv EXCEPT ![k] = change.prior[k]] ELSE launchEnv
      /\ change' = IF Len(change.done) = 1 THEN NoChange ELSE [change EXCEPT !.done = Tail(@)]
  BY DEF Rollback, Step
<1>2. k \in Keys /\ Tail(change.done) \in Seq(Keys) BY <1>1 DEF EnvInv, ChangeShape
<1>3. change.prior[k] \in hers[k] \cup {Shared, Daemon} /\ (change.prior[k] = Shared => Covered(k))
  BY <1>1, <1>2 DEF EnvInv, ChangeKnows
<1> HIDE DEF k
<1>4. EnvValues' BY <1>1, <1>2, <1>3 DEF EnvInv, EnvValues
<1>5. NoOrphanedOverride'
  BY <1>1, <1>2, <1>3 DEF EnvInv, EnvValues, NoOrphanedOverride, Covered
<1>6. CASE change' = NoChange BY <1>4, <1>5, <1>6, ChangeOver DEF EnvInv
<1>7. CASE change' = [change EXCEPT !.done = Tail(@)]
  BY <1>1, <1>2, <1>7, <1>4, <1>5 DEF EnvInv, ChangeShape, ChangeKnows, ChangeCovers, Covered
<1> QED BY <1>1, <1>6, <1>7

LEMMA RestoreSafe ==
  ASSUME EnvInv, NEW ok \in BOOLEAN
  PROVE  /\ RestoreEnvironment => EnvInv'
         /\ RestoreVariable(ok) => EnvInv'
         /\ RemoveBackup(ok) => EnvInv'
<1>1. ASSUME RestoreEnvironment PROVE EnvInv'
  <2>1. PICK order : /\ Lists(order, DOMAIN backup.previous)
                     /\ change' = [NoChange EXCEPT !.at = "restore", !.todo = order]
    BY <1>1 DEF RestoreEnvironment, Step
  <2>2. UNCHANGED <<launchEnv, hers, backup>> BY <1>1 DEF RestoreEnvironment
  <2>3. order \in Seq(Keys) /\ \A i \in DOMAIN order : order[i] \in DOMAIN backup.previous
    BY <2>1, ListIsSeq DEF EnvInv, EnvValues
  <2>4. change' = [at |-> "restore", mode |-> Shared, prior |-> [k \in {} |-> Unset], todo |-> order, done |-> <<>>,
                   open |-> FALSE]
    BY <2>1 DEF NoChange
  <2>5. ChangeShape' BY <2>3, <2>4 DEF ChangeShape
  <2>6. ChangeKnows' BY <2>4 DEF ChangeKnows
  <2>7. \A k \in Keys : launchEnv[k] = Shared => \E i \in DOMAIN order : order[i] = k
    BY <2>1 DEF Lists, EnvInv, NoOrphanedOverride
  <2>8. ChangeCovers' BY <2>2, <2>3, <2>4, <2>7 DEF ChangeCovers
  <2> QED BY <2>2, <2>5, <2>6, <2>8, EnvStays
<1>2. ASSUME RestoreVariable(ok) PROVE EnvInv'
  <2> DEFINE k == Head(change.todo)
  <2>1. /\ change.at = "restore" /\ change.todo # <<>> /\ UNCHANGED <<hers, backup>>
        /\ launchEnv' = IF ok /\ launchEnv[k] = Shared THEN [launchEnv EXCEPT ![k] = backup.previous[k]] ELSE launchEnv
        /\ change' = IF ok THEN [change EXCEPT !.todo = Tail(@)] ELSE NoChange
    BY <1>2 DEF RestoreVariable, Step
  <2>2. k \in Keys /\ k \in DOMAIN backup.previous /\ Tail(change.todo) \in Seq(Keys)
    BY <2>1 DEF EnvInv, ChangeShape, ChangeCovers
  <2>3. backup.previous[k] \in hers[k] \cup {Daemon} /\ backup.previous[k] # Shared
    BY <2>2 DEF EnvInv, EnvValues, Shared, Daemon, Unset, User
  <2>4. \A i \in DOMAIN Tail(change.todo) : i + 1 \in DOMAIN change.todo /\ Tail(change.todo)[i] = change.todo[i + 1]
    BY <2>1 DEF EnvInv, ChangeShape
  <2>5. \A i \in DOMAIN change.todo : change.todo[i] = k \/ \E j \in DOMAIN Tail(change.todo) : Tail(change.todo)[j] = change.todo[i]
    <3> SUFFICES ASSUME NEW i \in DOMAIN change.todo, i # 1
                 PROVE  \E j \in DOMAIN Tail(change.todo) : Tail(change.todo)[j] = change.todo[i]
      BY <2>1 DEF EnvInv, ChangeShape
    <3>1. i - 1 \in DOMAIN Tail(change.todo) /\ Tail(change.todo)[i - 1] = change.todo[i]
      BY <2>1 DEF EnvInv, ChangeShape
    <3> QED BY <3>1
  <2> HIDE DEF k
  <2>6. EnvValues' BY <2>1, <2>2, <2>3 DEF EnvInv, EnvValues
  <2>7. NoOrphanedOverride'
    BY <2>1, <2>2, <2>3 DEF EnvInv, EnvValues, NoOrphanedOverride
  <2>8. CASE ~ok BY <2>1, <2>6, <2>7, <2>8, ChangeOver DEF EnvInv
  <2>9. CASE ok
    <3>1. ChangeShape' /\ change'.at = "restore" /\ change'.todo = Tail(change.todo)
      BY <2>1, <2>2, <2>9 DEF EnvInv, ChangeShape
    <3>2. ChangeKnows' BY <3>1 DEF ChangeKnows
    <3>3. launchEnv'[k] # Shared /\ \A j \in Keys : launchEnv'[j] = Shared => launchEnv[j] = Shared /\ j # k
      BY <2>1, <2>2, <2>3, <2>9 DEF EnvInv, EnvValues
    <3>4. ChangeCovers'
      <4>1. \A i \in DOMAIN change'.todo : change'.todo[i] \in DOMAIN backup'.previous
        <5>1. \A i \in DOMAIN change.todo : change.todo[i] \in DOMAIN backup.previous
          BY <2>1 DEF EnvInv, ChangeCovers
        <5>2. \A i \in DOMAIN Tail(change.todo) : Tail(change.todo)[i] \in DOMAIN backup.previous
          BY <2>4, <5>1
        <5> QED BY <2>1, <3>1, <5>2
      <4>2. ASSUME NEW j \in Keys, launchEnv'[j] = Shared
            PROVE  \E i \in DOMAIN change'.todo : change'.todo[i] = j
        <5>1. PICK i \in DOMAIN change.todo : change.todo[i] = j
          BY <2>1, <3>3, <4>2 DEF EnvInv, ChangeCovers
        <5> QED BY <2>5, <3>1, <3>3, <4>2, <5>1
      <4> QED BY <3>1, <4>1, <4>2 DEF ChangeCovers
    <3> QED BY <2>6, <2>7, <3>1, <3>2, <3>4 DEF EnvInv
  <2> QED BY <2>8, <2>9
<1>3. ASSUME RemoveBackup(ok) PROVE EnvInv'
  <2>1. /\ change.at = "restore" /\ change.todo = <<>> /\ UNCHANGED <<launchEnv, hers>> /\ change' = NoChange
        /\ backup' = IF ok THEN NoBackup ELSE backup
    BY <1>3 DEF RemoveBackup, Step
  <2>2. \A k \in Keys : launchEnv[k] # Shared BY <2>1 DEF EnvInv, ChangeCovers
  <2>3. EnvValues' BY <2>1 DEF EnvInv, EnvValues, NoBackup
  <2> QED BY <2>1, <2>2, <2>3, ChangeOver DEF EnvInv, NoOrphanedOverride
<1> QED BY <1>1, <1>2, <1>3

LEMMA UserSafe ==
  ASSUME EnvInv
  PROVE  /\ DisableDaemonReuse => EnvInv'
         /\ \A k \in Keys, v \in {User, Unset} : UserSets(k, v) => EnvInv'
<1>1. ASSUME DisableDaemonReuse PROVE EnvInv'
  BY <1>1 DEF DisableDaemonReuse, EnvInv, EnvValues, ChangeShape, ChangeKnows, ChangeCovers, Covered, NoOrphanedOverride,
              Unset, Shared
<1>2. ASSUME NEW k \in Keys, NEW v \in {User, Unset}, UserSets(k, v) PROVE EnvInv'
  BY <1>2 DEF UserSets, EnvInv, EnvValues, Unset, User, Shared, ChangeShape, ChangeKnows, Covered, ChangeCovers,
     NoOrphanedOverride
<1> QED BY <1>1, <1>2

\* What the user had is never lost: for any set of variables, any interleaving of sets, failures, rollbacks, restores,
\* stops of the process and changes by the user, an override in launchd has its old value in the backup file
\* (prepareSystemCodexAppSharedLocked writes the backup first, restoreCodexAppSharedEnvironmentWithDeps removes it last).
THEOREM OverridesCanBeUndone == EnvSpec => []NoOrphanedOverride
<1>1. EnvInit => EnvInv BY EnvInitSafe
<1>2. EnvInv /\ [EnvNext]_envVars => EnvInv'
  <2> SUFFICES ASSUME EnvInv, [EnvNext]_envVars PROVE EnvInv' OBVIOUS
  <2>1. CASE UNCHANGED envVars
    BY <2>1 DEF envVars, EnvInv, EnvValues, ChangeShape, ChangeKnows, ChangeCovers, Covered, NoOrphanedOverride
  <2>2. CASE EnvNext
    BY <2>2, EnvChangeSafe, WriteBackupSafe, SetVariableSafe, RollbackSafe, RestoreSafe, UserSafe DEF EnvNext
  <2> QED BY <2>1, <2>2
<1>3. EnvInv => NoOrphanedOverride BY DEF EnvInv
<1> QED BY <1>1, <1>2, <1>3, PTL DEF EnvSpec

--------------------
(* The Host the App and WeClaw share.                                      *)

BridgeStarted == {"metadata", "applied", "settle"}
BridgeStarting == {"mark", "writeArgs", "start"}

\* A Host that is up has the arguments in the file, and only one that a formal connection started or confirmed is
\* without a record of being provisional.
HostRecorded ==
  /\ hostsMade \in Nat /\ appHost.gen \in 0..hostsMade
  /\ appHost.gen # 0 => files.args = appHost.args
  /\ appHost.gen # 0 /\ files.boot = "none" => Formal(appHost.args)

\* What the bridge that holds the lock has done so far.
BridgeProgress ==
  /\ bridge.at # "idle" /\ ~bridge.boot => Formal(bridge.args)
  /\ bridge.at \in BridgeStarting => appHost.gen = 0
  /\ bridge.at \in {"writeArgs", "start"} \cup BridgeStarted => files.boot = "starting"
  /\ bridge.at \in {"start"} \cup BridgeStarted => files.args = bridge.args
  /\ bridge.at \in {"refresh", "reload", "confirm"} => ~bridge.boot /\ files.args = bridge.args

\* A generation is retired once, and never while a client is on it.
RetiredApart ==
  /\ appHost.gen \notin retired /\ \A g \in retired : g \in 1..hostsMade
  /\ \A c \in joined : c.gen \in 1..hostsMade

SharedShape ==
  /\ appHost = [gen |-> appHost.gen, args |-> appHost.args, base |-> appHost.base]
  /\ files = [args |-> files.args, base |-> files.base, boot |-> files.boot, bootGen |-> files.bootGen,
              pipe |-> files.pipe, applied |-> files.applied]
  /\ bridge = [at |-> bridge.at, args |-> bridge.args, base |-> bridge.base, pipe |-> bridge.pipe, boot |-> bridge.boot,
               who |-> bridge.who]

SharedInv == SharedShape /\ HostRecorded /\ BridgeProgress /\ RetiredApart /\ ClientsOnFormalHost

LEMMA SharedInitSafe == SharedInit => SharedInv
  BY DEF SharedInit, SharedInv, SharedShape, HostRecorded, BridgeProgress, RetiredApart, ClientsOnFormalHost, NoHost, NoFiles,
         NoBridge, BridgeStarted, BridgeStarting

\* A bridge gets in or gives up.
LEMMA BridgeLooksSafe ==
  ASSUME SharedInv
  PROVE  /\ \A args, base, pipe, who : RunAppBridge(args, base, pipe, who) => SharedInv'
         /\ BridgeEnds => SharedInv'
         /\ BridgeFindsNone => SharedInv'
         /\ BridgeFindsHost => SharedInv'
         /\ RetireBootstrap => SharedInv'
<1> USE DEF SharedInv, SharedShape, HostRecorded, BridgeProgress, RetiredApart, ClientsOnFormalHost, Untouched, BridgeStarted,
            BridgeStarting, BridgeStep
<1>1. ASSUME NEW args, NEW base, NEW pipe, NEW who, RunAppBridge(args, base, pipe, who) PROVE SharedInv'
  BY <1>1 DEF RunAppBridge
<1>2. ASSUME BridgeEnds PROVE SharedInv' BY <1>2 DEF BridgeEnds, NoBridge
<1>3. ASSUME BridgeFindsNone PROVE SharedInv' BY <1>3 DEF BridgeFindsNone
<1>4. ASSUME BridgeFindsHost PROVE SharedInv' BY <1>4 DEF BridgeFindsHost, NoBridge
<1>5. ASSUME RetireBootstrap PROVE SharedInv'
  BY <1>5 DEF RetireBootstrap, NoHost, NoThreads, Proven
<1> QED BY <1>1, <1>2, <1>3, <1>4, <1>5

\* The start of a Host, one write at a time.
LEMMA BridgeStartsSafe ==
  ASSUME SharedInv
  PROVE  /\ SavePipe => SharedInv'
         /\ MarkStarting => SharedInv'
         /\ WriteArgs => SharedInv'
         /\ StartSharedHost => SharedInv'
         /\ WriteMetadata => SharedInv'
         /\ WriteApplied => SharedInv'
         /\ Settle => SharedInv'
<1> USE DEF SharedInv, SharedShape, HostRecorded, BridgeProgress, RetiredApart, ClientsOnFormalHost, BridgeStarted, BridgeStarting,
            BridgeStep
<1>1. ASSUME SavePipe PROVE SharedInv' BY <1>1 DEF SavePipe
<1>2. ASSUME MarkStarting PROVE SharedInv' BY <1>2 DEF MarkStarting
<1>3. ASSUME WriteArgs PROVE SharedInv' BY <1>3 DEF WriteArgs
<1>4. ASSUME StartSharedHost PROVE SharedInv' BY <1>4 DEF StartSharedHost
<1>5. ASSUME WriteMetadata PROVE SharedInv' BY <1>5 DEF WriteMetadata
<1>6. ASSUME WriteApplied PROVE SharedInv' BY <1>6 DEF WriteApplied
<1>7. ASSUME Settle PROVE SharedInv'
  <2>1. UNCHANGED <<appHost, appMeta, retired, hostsMade>> /\ bridge' = NoBridge /\ files' = [files EXCEPT !.boot = files'.boot, !.bootGen = files'.bootGen]
    BY <1>7 DEF Settle
  <2>2. appHost.gen # 0 /\ files'.boot = "none" => Formal(appHost.args)
    BY <1>7 DEF Settle
  <2>3. SharedShape' /\ HostRecorded' /\ BridgeProgress' BY <2>1, <2>2 DEF NoBridge
  <2>4. \A c \in joined' : c \in joined \/ (appHost.gen # 0 /\ c = [gen |-> appHost.gen, args |-> appHost.args] /\ Formal(appHost.args))
    BY <1>7 DEF Settle
  <2>5. RetiredApart' /\ ClientsOnFormalHost' BY <2>1, <2>4
  <2> QED BY <2>3, <2>5
<1> QED BY <1>1, <1>2, <1>3, <1>4, <1>5, <1>6, <1>7

\* The formal connection to a Host that is up, the clients, and the Host's own end.
LEMMA ClientsSafe ==
  ASSUME SharedInv
  PROVE  /\ RefreshPipe => SharedInv'
         /\ ReloadMCP => SharedInv'
         /\ Confirm => SharedInv'
         /\ AttachReadyHost => SharedInv'
         /\ ToolDials => SharedInv'
         /\ ToolAdmitted => SharedInv'
         /\ \A marked \in BOOLEAN : SharedHostEnds(marked) => SharedInv'
<1> USE DEF SharedInv, SharedShape, HostRecorded, BridgeProgress, RetiredApart, ClientsOnFormalHost, BridgeStarted, BridgeStarting,
            BridgeStep, Untouched
<1>1. ASSUME RefreshPipe PROVE SharedInv' BY <1>1 DEF RefreshPipe
<1>2. ASSUME ReloadMCP PROVE SharedInv' BY <1>2 DEF ReloadMCP
<1>3. ASSUME Confirm PROVE SharedInv'
  <2>1. UNCHANGED <<appHost, appMeta, retired, hostsMade>> /\ bridge' = NoBridge /\ files' = [files EXCEPT !.boot = files'.boot, !.bootGen = files'.bootGen]
    BY <1>3 DEF Confirm
  <2>2. appHost.gen # 0 /\ files'.boot = "none" => Formal(appHost.args)
    BY <1>3 DEF Confirm
  <2>3. SharedShape' /\ HostRecorded' /\ BridgeProgress' BY <2>1, <2>2 DEF NoBridge
  <2>4. \A c \in joined' : c \in joined \/ (appHost.gen # 0 /\ c = [gen |-> appHost.gen, args |-> appHost.args] /\ Formal(appHost.args))
    BY <1>3 DEF Confirm
  <2>5. RetiredApart' /\ ClientsOnFormalHost' BY <2>1, <2>4
  <2> QED BY <2>3, <2>5
<1>4. ASSUME AttachReadyHost PROVE SharedInv' BY <1>4 DEF AttachReadyHost, Ready, Proven
<1>5. ASSUME ToolDials PROVE SharedInv' BY <1>5 DEF ToolDials
<1>6. ASSUME ToolAdmitted PROVE SharedInv' BY <1>6 DEF ToolAdmitted, Ready, Proven
<1>7. ASSUME NEW marked \in BOOLEAN, SharedHostEnds(marked) PROVE SharedInv'
  BY <1>7 DEF SharedHostEnds, NoHost
<1> QED BY <1>1, <1>2, <1>3, <1>4, <1>5, <1>6, <1>7

\* Wherever a bridge dies between the writes of a start, and although tool clients look without the lock, a client that
\* may run tasks is on a Host with a full configuration and stays on it (codex_app_bootstrap.go: the record is written
\* before the start and only a formal connection clears it).
THEOREM ClientsStayOnFormalHost == SharedSpec => []ClientsOnFormalHost
<1>1. SharedInit => SharedInv BY SharedInitSafe
<1>2. SharedInv /\ [SharedNext]_sharedVars => SharedInv'
  <2> SUFFICES ASSUME SharedInv, [SharedNext]_sharedVars PROVE SharedInv' OBVIOUS
  <2>1. CASE UNCHANGED sharedVars
    BY <2>1 DEF sharedVars, SharedInv, SharedShape, HostRecorded, BridgeProgress, RetiredApart, ClientsOnFormalHost
  <2>2. CASE SharedNext
    BY <2>2, BridgeLooksSafe, BridgeStartsSafe, ClientsSafe DEF SharedNext
  <2> QED BY <2>1, <2>2
<1>3. SharedInv => ClientsOnFormalHost BY DEF SharedInv
<1> QED BY <1>1, <1>2, <1>3, PTL DEF SharedSpec

--------------------
(* The WeChat poll.                                                        *)

\* Everything the cursors cover was handed over, and everything the answer under way covers was handed over or still
\* waits for its acknowledgement.
CursorInv ==
  /\ cursor = [memory |-> cursor.memory, disk |-> cursor.disk]
  /\ cursor.memory \in Nat /\ cursor.disk \in Nat
  /\ poller = [at |-> poller.at, rest |-> poller.rest, upto |-> poller.upto] /\ poller.upto \in Nat
  /\ \A n \in 1..cursor.disk : n \in handed
  /\ poller.at # "poll" => \A n \in 1..poller.upto : n \in handed \cup unheard
  /\ CursorNeverSkips

LEMMA DispatchKeeps ==
  ASSUME NEW batches, NEW worker, Dispatches(batches, worker)
  PROVE  handed \subseteq handed' /\ handed \cup unheard \subseteq handed' \cup unheard'
  BY DEF Dispatches

LEMMA PollSafe ==
  ASSUME CursorInv
  PROVE  /\ \A k \in 1..WxMessages : GetUpdates(k) => CursorInv'
         /\ SessionExpires => CursorInv'
         /\ Enqueue => CursorInv'
         /\ EnqueueLate => CursorInv'
         /\ SaveCursor => CursorInv'
         /\ \A exits \in BOOLEAN : MonitorRestarts(exits) => CursorInv'
<1> USE DEF CursorInv, CursorNeverSkips
<1>1. ASSUME NEW k \in 1..WxMessages, GetUpdates(k) PROVE CursorInv'
  BY <1>1, WeChatAssumption DEF GetUpdates
<1>2. ASSUME SessionExpires PROVE CursorInv' BY <1>2 DEF SessionExpires
<1>3. ASSUME Enqueue PROVE CursorInv' BY <1>3 DEF Enqueue
<1>4. ASSUME EnqueueLate PROVE CursorInv' BY <1>4 DEF EnqueueLate
<1>5. ASSUME SaveCursor PROVE CursorInv' BY <1>5 DEF SaveCursor, AllHeard, AskingServer
<1>6. ASSUME NEW exits \in BOOLEAN, MonitorRestarts(exits) PROVE CursorInv'
  BY <1>6 DEF MonitorRestarts, AskingServer
<1> QED BY <1>1, <1>2, <1>3, <1>4, <1>5, <1>6

LEMMA SenderQueueSafe ==
  ASSUME CursorInv
  PROVE  /\ TakeFirst => CursorInv'
         /\ TakeMore => CursorInv'
         /\ WindowCloses => CursorInv'
         /\ QueueIdle => CursorInv'
         /\ \A i \in 1..Len(handlers) : HandlerEnds(i) => CursorInv'
         /\ UpdateAccess => CursorInv'
<1>1. ASSUME UNCHANGED <<cursor, poller>>, handed \subseteq handed', handed \cup unheard \subseteq handed' \cup unheard'
      PROVE  CursorInv'
  BY <1>1 DEF CursorInv, CursorNeverSkips
<1>2. ASSUME TakeFirst PROVE CursorInv' BY <1>1, <1>2, DispatchKeeps DEF TakeFirst
<1>3. ASSUME TakeMore PROVE CursorInv' BY <1>1, <1>3, DispatchKeeps DEF TakeMore
<1>4. ASSUME WindowCloses PROVE CursorInv' BY <1>1, <1>4, DispatchKeeps DEF WindowCloses
<1>5. ASSUME QueueIdle \/ UpdateAccess \/ \E i \in 1..Len(handlers) : HandlerEnds(i) PROVE CursorInv'
  BY <1>1, <1>5 DEF QueueIdle, UpdateAccess, HandlerEnds
<1> QED BY <1>2, <1>3, <1>4, <1>5

\* For any number of messages, any queue capacity and any mix of commands: the cursor, in memory and on disk, never
\* passes a message nobody was given (processUpdateResponse waits for every acknowledgement before it moves the cursor).
THEOREM NoMessageSkipped == WeChatSpec => []CursorNeverSkips
<1>1. WeChatInit => CursorInv
  BY DEF WeChatInit, CursorInv, CursorNeverSkips, AskingServer
<1>2. CursorInv /\ [WeChatNext]_wxVars => CursorInv'
  <2> SUFFICES ASSUME CursorInv, [WeChatNext]_wxVars PROVE CursorInv' OBVIOUS
  <2>1. CASE UNCHANGED wxVars BY <2>1 DEF wxVars, CursorInv, CursorNeverSkips
  <2>2. CASE WeChatNext BY <2>2, PollSafe, SenderQueueSafe DEF WeChatNext
  <2> QED BY <2>1, <2>2
<1>3. CursorInv => CursorNeverSkips BY DEF CursorInv
<1> QED BY <1>1, <1>2, <1>3, PTL DEF WeChatSpec

--------------------
(* Stopping Hosts.                                                         *)

Processes == [start : Nat, group : Pids \cup {0}, made : Nat, cmd : Commands \cup {NoCommand}]
Members == [pid : Pids, start : Nat \ {0}, cmd : Commands]
Targets == [group : Pids, kind : {"daemon", "app", "managed", "unknown"}, host : Pids \cup {0}, pids : SUBSET Pids]

\* The process table: a group has one leader and one making, as long as a process of it lives.
ProcsSound ==
  /\ starts \in Nat /\ procs \in [Pids -> Processes]
  /\ \A p \in Pids : procs[p].start <= starts
  /\ \A p \in Pids : procs[p].start # 0 =>
       /\ procs[p].cmd \in Commands /\ procs[p].group \in Pids /\ procs[p].made <= procs[p].start
       /\ procs[p].group = p => procs[p].made = procs[p].start
       /\ procs[procs[p].group].start # 0 => procs[procs[p].group].group = procs[p].group
  /\ \A p, q \in Pids : procs[p].start # 0 /\ procs[q].start # 0 /\ procs[p].group = procs[q].group
                          => procs[p].made = procs[q].made

StopShape ==
  stop \in [at : {"idle", "look", "locked", "inspect", "inspectLocked", "daemon", "ready", "wait", "kill"},
            force : BOOLEAN, plan : Seq(Targets), i : Nat, round : {"verify", "stop"}, seen : SUBSET Pids,
            members : SUBSET Members, proofs : Seq(SUBSET Members), looked : Nat, sent : {"none", "int", "kill"},
            lock : BOOLEAN]

Touching == {"daemon", "ready", "wait", "kill"}
Inspecting == {"inspect", "inspectLocked"}

\* The plan is followed target by target, first to prove, then to stop.
PlanFollowed ==
  stop.at # "idle" =>
    /\ stop.i \in 1..Len(stop.plan)
    /\ \A j \in 1..Len(stop.plan) : stop.plan[j].kind = "unknown" => stop.force
    /\ stop.round = "verify" => stop.at \in {"look", "inspect"} /\ Len(stop.proofs) = stop.i - 1
    /\ stop.round = "stop" => Len(stop.proofs) = Len(stop.plan)
    /\ stop.at = "daemon" => Target.kind = "daemon"
    /\ stop.at \notin Inspecting => stop.seen = {}

\* A process somebody has looked at: one that has its start time now is that process.
Known(m) == m.start <= starts /\ (procs[m.pid].start = m.start => procs[m.pid].cmd = m.cmd)

ProofsKnown ==
  /\ \A m \in stop.members : Known(m)
  /\ \A j \in 1..Len(stop.proofs) : \A m \in stop.proofs[j] : Known(m)

\* In the second round every proof is older than the last look.
ProofsFirst ==
  /\ stop.looked <= starts
  /\ stop.round = "stop" /\ stop.at \in Inspecting =>
       \A j \in 1..Len(stop.proofs) : \A m \in stop.proofs[j] : m.start <= stop.looked
  /\ stop.at \in Touching => \A m \in stop.members : m.start <= stop.looked

\* Whoever is in the group and was there at the last look is a member, or is about to be inspected; whoever came later
\* into the same making of the group came from a leader that is.
MemberOf(p) == p \in stop.seen \/ \E m \in stop.members : m.pid = p /\ m.start = procs[p].start
MadeByMember(p) == Target.group \in stop.seen \/ \E m \in stop.members : m.start = procs[p].made
Watching == stop.at \in Inspecting \cup {"daemon", "ready"} \/ (stop.at = "wait" /\ stop.sent = "int")
GroupWatched ==
  Watching => \A p \in Group(Target.group) :
    /\ procs[p].start <= stop.looked => MemberOf(p)
    /\ procs[p].start > stop.looked /\ procs[p].made <= stop.looked => MadeByMember(p)

AllTouched(p) == \E m \in stop.members : m.start = procs[p].start \/ m.start = procs[p].made
KillWatched ==
  stop.at = "kill" => \A p \in Group(Target.group) : procs[p].start <= stop.looked => AllTouched(p)

\* One of the members is a Host: it was one at the second look, between two proofs that agree.
HostAt(h) ==
  /\ h \in stop.seen \/ \E m \in stop.members : m.pid = h
  /\ \A m \in stop.proofs[stop.i] : m.pid = h => AppServerHost(m.cmd) \/ (procs[h].start # m.start /\ m \notin stop.members)
HostSeen == stop.round = "stop" /\ stop.at \in Inspecting => \E h \in Pids : HostAt(h)
HostProved == stop.at \in Touching => \E m \in stop.members : AppServerHost(m.cmd)

\* The daemon to be stopped by its own command is in the group, unless it is gone.
DaemonSeen ==
  stop.at \in Inspecting \cup {"daemon"} /\ Target.kind = "daemon" /\ Live(Target.host)
    /\ procs[Target.host].start <= stop.looked => procs[Target.host].group = Target.group

StopSound ==
  /\ PlanFollowed /\ ProofsKnown /\ ProofsFirst /\ GroupWatched /\ KillWatched /\ HostSeen /\ HostProved /\ DaemonSeen

ConflictInv == ProcsSound /\ StopShape /\ StopSound /\ OnlyProvenSignalled

LEMMA ConflictInitSafe == ConflictInit => ConflictInv
<1> SUFFICES ASSUME ConflictInit PROVE ConflictInv OBVIOUS
<1>1. ProcsSound
  BY ConflictAssumption DEF ConflictInit, ProcsSound, NoProcess, Processes
<1>2. StopShape BY DEF ConflictInit, StopShape, IdleStop
<1>3. StopSound
  BY DEF ConflictInit, IdleStop, StopSound, PlanFollowed, ProofsKnown, ProofsFirst, GroupWatched, KillWatched, HostSeen,
         HostProved, DaemonSeen, Touching, Inspecting, Watching
<1>4. OnlyProvenSignalled BY DEF ConflictInit, OnlyProvenSignalled, NoSignal
<1> QED BY <1>1, <1>2, <1>3, <1>4 DEF ConflictInv

\* The rest of the machine moves: processes stay, go, or come with a start time of their own, in a group of their own or in
\* that of a leader that lives.
Moved(p) ==
  \/ procs'[p] = procs[p]
  \/ procs'[p].start = 0
  \/ /\ starts' = starts + 1 /\ procs'[p].start = starts + 1
     /\ \/ procs'[p].made = starts + 1
        \/ /\ procs'[p].group \in Pids /\ procs[procs'[p].group].start # 0
           /\ procs[procs'[p].group].group = procs'[p].group /\ procs[procs'[p].group].start = procs'[p].made
           /\ procs'[procs'[p].group] = procs[procs'[p].group]
MachineMoves ==
  /\ ProcsSound' /\ starts' \in {starts, starts + 1} /\ \A p \in Pids : Moved(p)

\* A known process stays known, and one that was not there does not come back.
LEMMA MovesKnown ==
  ASSUME ProcsSound, MachineMoves, NEW m \in Members, Known(m)
  PROVE  Known(m)' /\ (procs[m.pid].start # m.start => procs'[m.pid].start # m.start)
  BY DEF ProcsSound, MachineMoves, Moved, Known, Members, Processes

LEMMA MovesSound ==
  ASSUME ConflictInv, MachineMoves, stop' = stop
  PROVE  StopSound'
<1>1. Target' = Target BY DEF Target
<1>2. PlanFollowed' BY <1>1 DEF ConflictInv, StopSound, PlanFollowed, Inspecting
<1>3. ProofsKnown' BY MovesKnown DEF ConflictInv, StopSound, StopShape, ProofsKnown
<1>4. ProofsFirst'
  BY DEF ConflictInv, StopSound, StopShape, ProofsFirst, MachineMoves, ProcsSound
<1>5. ASSUME NEW p \in Pids, p \in Group(Target.group)'
      PROVE  \/ procs'[p] = procs[p] /\ p \in Group(Target.group)
             \/ procs'[p].start = starts + 1 /\ Moved(p) /\ procs'[p].group = Target.group
  BY <1>1, <1>5 DEF MachineMoves, Moved, Group, LivePids, Live
<1>6. GroupWatched'
  <2> SUFFICES ASSUME Watching, NEW p \in Pids, p \in Group(Target.group)'
               PROVE  /\ procs'[p].start <= stop.looked => MemberOf(p)'
                      /\ procs'[p].start > stop.looked /\ procs'[p].made <= stop.looked => MadeByMember(p)'
    BY DEF GroupWatched, Watching, Group, LivePids
  <2>1. CASE procs'[p] = procs[p] /\ p \in Group(Target.group)
    BY <1>1, <2>1 DEF ConflictInv, StopSound, GroupWatched, MemberOf, MadeByMember
  <2>2. CASE procs'[p].start = starts + 1 /\ Moved(p) /\ procs'[p].group = Target.group
    <3>1. procs'[p].start > stop.looked
      BY <2>2 DEF ConflictInv, StopSound, StopShape, ProofsFirst, ProcsSound
    <3>2. ASSUME procs'[p].made <= stop.looked PROVE MadeByMember(p)'
      <4> DEFINE g == Target.group
      <4>1. g \in Pids /\ procs[g].start # 0 /\ procs[g].group = g /\ procs[g].start = procs'[p].made
        BY <2>2, <3>1, <3>2 DEF Moved, ConflictInv, ProcsSound, Processes, StopShape
      <4>2. g \in Group(g) /\ procs[g].start <= stop.looked
        BY <3>2, <4>1 DEF Group, LivePids, Live
      <4>3. MemberOf(g) BY <4>2 DEF ConflictInv, StopSound, GroupWatched
      <4> QED BY <1>1, <4>1, <4>3 DEF MemberOf, MadeByMember
    <3> QED BY <3>1, <3>2 DEF MachineMoves, ProcsSound, Processes, ConflictInv, StopShape
  <2> QED BY <1>5, <2>1, <2>2
<1>7. KillWatched'
  BY <1>1, <1>5 DEF ConflictInv, StopSound, StopShape, KillWatched, AllTouched, ProofsFirst, ProcsSound, Group, LivePids
<1>8. HostSeen'
  <2> SUFFICES ASSUME stop.round = "stop", stop.at \in Inspecting PROVE \E h \in Pids : HostAt(h)'
    BY DEF HostSeen
  <2>1. PICK h \in Pids : HostAt(h) BY DEF ConflictInv, StopSound, HostSeen
  <2>2. stop.i \in 1..Len(stop.proofs) /\ stop.proofs[stop.i] \subseteq Members
    BY DEF ConflictInv, StopSound, StopShape, PlanFollowed, Inspecting
  <2>3. \A m \in stop.proofs[stop.i] : Known(m)
    BY <2>2 DEF ConflictInv, StopSound, ProofsKnown
  <2>4. \A m \in stop.proofs[stop.i] : m.pid = h /\ procs[h].start # m.start => procs'[h].start # m.start
    BY <2>2, <2>3, MovesKnown DEF ConflictInv
  <2>5. HostAt(h)' BY <2>1, <2>4 DEF HostAt
  <2> QED BY <2>5
<1>9. HostProved' BY DEF ConflictInv, StopSound, HostProved
<1>10. DaemonSeen'
  BY <1>1 DEF ConflictInv, StopSound, StopShape, DaemonSeen, MachineMoves, Moved, Live, ProofsFirst, ProcsSound
<1> QED BY <1>2, <1>3, <1>4, <1>6, <1>7, <1>8, <1>9, <1>10 DEF StopSound

\* Steps of the machine.
LEMMA StartMoves ==
  ASSUME ProcsSound, NEW p \in Pids, NEW c \in Commands, FreePid(p), starts' = starts + 1,
         procs' = Setting(procs, p, Started(p, p, c))
  PROVE  MachineMoves
<1> DEFINE new == [start |-> starts + 1, group |-> p, made |-> starts + 1, cmd |-> c]
<1>1. procs' = [procs EXCEPT ![p] = new] /\ new \in Processes /\ starts \in Nat
  BY DEF Setting, Started, Processes, ProcsSound
<1>2. procs'[p] = new /\ \A q \in Pids : q # p => procs'[q] = procs[q]
  BY <1>1 DEF ProcsSound
<1>3. \A q \in Pids : procs[q].start # 0 => procs[q].group # p
  BY DEF FreePid, Group, LivePids, Live
<1>4. ProcsSound' BY <1>1, <1>2, <1>3 DEF ProcsSound, Processes
<1>5. \A q \in Pids : Moved(q) BY <1>2 DEF Moved
<1> QED BY <1>4, <1>5 DEF MachineMoves

LEMMA ForkMoves ==
  ASSUME ProcsSound, NEW p \in Pids, NEW q \in Pids, NEW c \in Commands, Fork(p, q, c)
  PROVE  MachineMoves
<1> DEFINE g == procs[q].group
           new == [start |-> starts + 1, group |-> g, made |-> procs[g].made, cmd |-> c]
<1>1. /\ FreePid(p) /\ procs[p].start = 0 /\ g \in Pids /\ procs[g].start # 0 /\ procs[q].start # 0 /\ starts' = starts + 1
      /\ p # g /\ procs[g].group = g /\ procs[g].made = procs[g].start
  BY DEF Fork, FreePid, Live, ProcsSound
<1>2. procs' = [procs EXCEPT ![p] = new] /\ new \in Processes /\ starts \in Nat /\ procs[g].made <= starts
  <2>1. procs' = [procs EXCEPT ![p] = new] BY <1>1 DEF Fork, Setting, Started
  <2>2. procs[g].made \in Nat /\ starts \in Nat /\ procs[g].made <= starts
    BY <1>1 DEF ProcsSound, Processes
  <2> QED BY <1>1, <2>1, <2>2 DEF Processes
<1>3. procs'[p] = new /\ \A r \in Pids : r # p => procs'[r] = procs[r]
  BY <1>2 DEF ProcsSound
<1>4. \A r \in Pids : procs[r].start # 0 => procs[r].group # p
  BY <1>1 DEF FreePid, Group, LivePids, Live
<1> HIDE DEF g
<1>5. ProcsSound' BY <1>1, <1>2, <1>3, <1>4 DEF ProcsSound, Processes
<1>6. \A r \in Pids : Moved(r) BY <1>1, <1>3 DEF Moved
<1> QED BY <1>1, <1>5, <1>6 DEF MachineMoves

\* Some processes end.
LEMMA EndMoves ==
  ASSUME ProcsSound, starts' = starts, procs' \in [Pids -> Processes],
         \A p \in Pids : procs'[p] = procs[p] \/ procs'[p].start = 0
  PROVE  MachineMoves
<1>1. ProcsSound' BY DEF ProcsSound
<1> QED BY <1>1 DEF MachineMoves, Moved

LEMMA MachineSafe ==
  ASSUME ConflictInv
  PROVE  /\ \A p \in Pids, c \in Commands : Spawn(p, c) \/ LaunchManaged(p, c) => ConflictInv'
         /\ \A p, q \in Pids, c \in Commands : Fork(p, q, c) => ConflictInv'
         /\ \A p \in Pids : Exit(p) => ConflictInv'
         /\ RecordDaemon => ConflictInv'
<1>1. ASSUME MachineMoves, stop' = stop, signal' = signal PROVE ConflictInv'
  BY <1>1, MovesSound DEF ConflictInv, MachineMoves, StopShape, OnlyProvenSignalled
<1>2. ASSUME NEW p \in Pids, NEW c \in Commands, Spawn(p, c) \/ LaunchManaged(p, c) PROVE ConflictInv'
  BY <1>1, <1>2, StartMoves DEF Spawn, LaunchManaged, ConflictInv
<1>3. ASSUME NEW p \in Pids, NEW q \in Pids, NEW c \in Commands, Fork(p, q, c) PROVE ConflictInv'
  BY <1>1, <1>3, ForkMoves DEF Fork, ConflictInv
<1>4. ASSUME NEW p \in Pids, Exit(p) PROVE ConflictInv'
  BY <1>4, EndMoves, <1>1 DEF NoProcess, Processes, Exit, Setting, ConflictInv, ProcsSound
<1>5. ASSUME RecordDaemon PROVE ConflictInv'
  BY <1>1, <1>5, EndMoves DEF RecordDaemon, ConflictInv, ProcsSound
<1> QED BY <1>2, <1>3, <1>4, <1>5

--------------------
\* The stop steps, while the machine rests.

\* What a target is.
LEMMA ClassifySound ==
  ASSUME ProcsSound, NEW g \in HostGroups
  PROVE  /\ Classify(g) \in Targets /\ Classify(g).group = g
         /\ Classify(g).kind = "daemon" => Classify(g).host \in Group(g)
<1>1. g \in Pids BY DEF HostGroups, LivePids, Live, ProcsSound
<1>2. HostsIn(g) \subseteq Group(g) /\ Group(g) \subseteq Pids
  BY DEF HostsIn, Group, LivePids
<1> DEFINE daemons == {p \in HostsIn(g) : OfficialDaemon(procs[p].cmd)}
           private == {p \in HostsIn(g) : PrivateHost(procs[p].cmd)}
           target(kind, host) == [group |-> g, kind |-> kind, host |-> host, pids |-> HostsIn(g)]
<1>3. daemons # {} => (CHOOSE p \in daemons : TRUE) \in Group(g) BY <1>2
<1>4. private # {} => (CHOOSE p \in private : TRUE) \in Group(g) BY <1>2
<1>5. \/ daemons # {} /\ Classify(g) = target("daemon", CHOOSE p \in daemons : TRUE)
      \/ private # {} /\ Classify(g) = target("app", CHOOSE p \in private : TRUE)
      \/ Classify(g) = target("managed", g)
      \/ Classify(g) = target("unknown", IF g \in HostsIn(g) THEN g ELSE 0)
  BY DEF Classify
<1>6. PICK kind, host : /\ Classify(g) = target(kind, host) /\ kind \in {"daemon", "app", "managed", "unknown"}
                        /\ host \in Pids \cup {0} /\ (kind = "daemon" => host \in Group(g))
  BY <1>1, <1>2, <1>3, <1>4, <1>5
<1> QED BY <1>1, <1>2, <1>6 DEF Targets

LEMMA StoppedSafe ==
  ASSUME ConflictInv, UNCHANGED <<procs, starts, signal>>, stop' = IdleStop
  PROVE  ConflictInv'
<1>1. UNCHANGED <<procs, starts, signal>> /\ stop' = IdleStop OBVIOUS
<1>2. StopShape' BY <1>1 DEF StopShape, IdleStop
<1>3. StopSound'
  BY <1>1 DEF IdleStop, StopSound, PlanFollowed, ProofsKnown, ProofsFirst, GroupWatched, KillWatched, HostSeen,
         HostProved, DaemonSeen, Touching, Inspecting, Watching, ConflictInv, ProcsSound
<1> QED BY <1>1, <1>2, <1>3 DEF ConflictInv, ProcsSound, OnlyProvenSignalled

LEMMA AbandonSafe ==
  ASSUME ConflictInv, Abandon
  PROVE  ConflictInv'
  BY StoppedSafe DEF Abandon

LEMMA PlanSafe ==
  ASSUME ConflictInv, NEW force \in BOOLEAN, NEW authority, PlanHostConflicts(force, authority)
  PROVE  ConflictInv'
<1> DEFINE found == Conflicts(authority)
<1>1. PICK ordered \in [1..Cardinality(found) -> found] : stop' = [IdleStop EXCEPT !.at = "look", !.force = force, !.plan = ordered]
  BY DEF PlanHostConflicts
<1>2. found # {} /\ (\A t \in found : t.kind = "unknown" => force) /\ UNCHANGED <<procs, starts, signal>>
  BY DEF PlanHostConflicts
<1>3. found \subseteq Targets BY ClassifySound DEF Conflicts, ConflictInv
<1>4. Cardinality(found) \in Nat \ {0}
  <2> DEFINE gs == HostGroups \ (IF authority = 0 THEN {} ELSE {procs[authority].group})
  <2>1. gs \subseteq Pids BY DEF HostGroups, LivePids, Live, ConflictInv, ProcsSound
  <2>2. IsFiniteSet(gs) BY <2>1, ConflictAssumption, FS_Subset
  <2>3. found = {Classify(g) : g \in gs} BY DEF Conflicts
  <2> HIDE DEF gs
  <2>4. IsFiniteSet(found)
    <3>1. [g \in gs |-> Classify(g)] \in Surjection(gs, found) BY <2>3 DEF Surjection
    <3> QED BY <2>2, <3>1, FS_Surjection
  <2> QED BY <1>2, <2>4, FS_CardinalityType, FS_EmptySet
<1> HIDE DEF found
<1>5. ordered \in Seq(Targets) /\ Len(ordered) = Cardinality(found) /\ \A j \in 1..Len(ordered) : ordered[j] \in found
  BY <1>3, <1>4
<1>6. stop' = [at |-> "look", force |-> force, plan |-> ordered, i |-> 1, round |-> "verify", seen |-> {}, members |-> {},
               proofs |-> <<>>, looked |-> 0, sent |-> "none", lock |-> FALSE]
  BY <1>1 DEF IdleStop
<1>7. StopShape' BY <1>5, <1>6 DEF StopShape
<1>8. PlanFollowed' BY <1>2, <1>4, <1>5, <1>6 DEF PlanFollowed
<1>9. StopSound'
  BY <1>2, <1>6, <1>8 DEF StopSound, ProofsKnown, ProofsFirst, GroupWatched, KillWatched, HostSeen,
         HostProved, DaemonSeen, Touching, Inspecting, Watching, ConflictInv, ProcsSound
<1> QED BY <1>2, <1>7, <1>9 DEF ConflictInv, ProcsSound, OnlyProvenSignalled

\* The machine rests and the target stays: what is left to show of a step of the stop.
LEMMA AdvanceSafe ==
  ASSUME ConflictInv, NEW s, Advance(s), StopShape', StopSound'
  PROVE  ConflictInv'
  BY DEF Advance, ConflictInv, ProcsSound, OnlyProvenSignalled

LEMMA CaptureSafe ==
  ASSUME ConflictInv, CaptureSnapshot
  PROVE  ConflictInv'
<1> DEFINE g == Target.group
           s == [stop EXCEPT !.at = IF stop.at = "look" THEN "inspect" ELSE "inspectLocked",
                             !.seen = Group(g), !.members = {}, !.looked = starts]
<1>1. CASE Abandon BY <1>1, AbandonSafe
<1>2. CASE g \in HostGroups /\ Classify(g) = Target /\ Trusted(g) /\ Advance(s)
  <2>1. UNCHANGED <<procs, starts>> /\ stop' = s /\ stop.at \in {"look", "locked"}
    BY <1>2 DEF Advance, CaptureSnapshot
  <2>2. Group(g) \subseteq Pids BY DEF Group, LivePids
  <2>3. /\ stop'.at = (IF stop.at = "look" THEN "inspect" ELSE "inspectLocked") /\ stop'.seen = Group(g) /\ stop'.members = {}
        /\ stop'.looked = starts /\ stop'.plan = stop.plan /\ stop'.i = stop.i /\ stop'.round = stop.round
        /\ stop'.force = stop.force /\ stop'.proofs = stop.proofs
    BY <2>1 DEF ConflictInv, StopShape
  <2>4. StopShape' BY <2>1, <2>2 DEF ConflictInv, StopShape, ProcsSound
  <2>5. Target' = Target BY <2>3 DEF Target
  <2>6. PlanFollowed'
    BY <2>1, <2>3 DEF ConflictInv, StopSound, StopShape, PlanFollowed, Inspecting
  <2>7. ProofsKnown' BY <2>1, <2>3 DEF ConflictInv, StopSound, ProofsKnown, Known
  <2>8. ProofsFirst'
    BY <2>1, <2>3, <2>7 DEF ProofsFirst, ProofsKnown, Known, Touching, ConflictInv, ProcsSound
  <2>9. GroupWatched'
    BY <2>1, <2>3, <2>5 DEF GroupWatched, MemberOf, ConflictInv, ProcsSound, Processes, Group, LivePids, Live
  <2>10. HostSeen'
    <3> SUFFICES ASSUME stop.round = "stop" PROVE \E h \in Pids : HostAt(h)'
      BY <2>3 DEF HostSeen
    <3>1. PICK h \in LivePids : procs[h].group = g /\ AppServerHost(procs[h].cmd)
      BY <1>2 DEF HostGroups
    <3>2. h \in Pids /\ h \in Group(g) BY <3>1 DEF LivePids, Group
    <3>3. stop.i \in 1..Len(stop.proofs)
      BY <2>1 DEF ConflictInv, StopSound, StopShape, PlanFollowed, Inspecting
    <3>4. \A m \in stop.proofs[stop.i] : Known(m)
      BY <3>3 DEF ConflictInv, StopSound, ProofsKnown
    <3>5. HostAt(h)' BY <2>1, <2>3, <3>1, <3>2, <3>4 DEF HostAt, Known
    <3> QED BY <3>2, <3>5
  <2>11. DaemonSeen'
    BY <1>2, <2>1, <2>5, ClassifySound DEF DaemonSeen, Group, ConflictInv
  <2>12. KillWatched' /\ HostProved' BY <2>3 DEF KillWatched, HostProved, Touching
  <2> QED BY <1>2, <2>4, <2>6, <2>7, <2>8, <2>9, <2>10, <2>11, <2>12, AdvanceSafe DEF StopSound
<1> QED BY <1>1, <1>2 DEF CaptureSnapshot

LEMMA InspectSafe ==
  ASSUME ConflictInv, NEW p \in Pids, InspectMember(p)
  PROVE  ConflictInv'
<1> DEFINE m0 == [pid |-> p, start |-> procs[p].start, cmd |-> procs[p].cmd]
           s == [stop EXCEPT !.seen = @ \ {p}, !.members = @ \cup {m0}]
<1>1. CASE Abandon BY <1>1, AbandonSafe
<1>2. CASE Live(p) /\ procs[p].group = Target.group /\ Advance(s)
  <2>1. UNCHANGED <<procs, starts>> /\ stop' = s /\ stop.at \in Inspecting
    BY <1>2 DEF Advance, InspectMember, Inspecting
  <2>2. m0 \in Members /\ Known(m0)
    BY <1>2 DEF Members, Known, Live, ConflictInv, ProcsSound, Processes
  <2>3. /\ stop'.at = stop.at /\ stop'.seen = stop.seen \ {p} /\ stop'.members = stop.members \cup {m0}
        /\ stop'.looked = stop.looked /\ stop'.plan = stop.plan /\ stop'.i = stop.i /\ stop'.round = stop.round
        /\ stop'.force = stop.force /\ stop'.proofs = stop.proofs
    BY <2>1 DEF ConflictInv, StopShape
  <2>4. StopShape' BY <2>1, <2>2 DEF ConflictInv, StopShape
  <2>5. Target' = Target /\ m0.pid = p /\ m0.start = procs[p].start /\ m0 \in stop'.members
    BY <2>3 DEF Target
  <2> HIDE DEF m0, s
  <2>6. PlanFollowed' BY <2>3, <2>5 DEF ConflictInv, StopSound, PlanFollowed
  <2>7. ProofsKnown' BY <2>1, <2>2, <2>3 DEF ConflictInv, StopSound, ProofsKnown, Known
  <2>8. ProofsFirst'
    BY <2>1, <2>3 DEF ConflictInv, StopSound, ProofsFirst, Touching, Inspecting
  <2>9. \A q \in Pids : MemberOf(q) => MemberOf(q)' BY <2>1, <2>3, <2>5 DEF MemberOf
  <2>10. ASSUME NEW q \in Pids, q \in Group(Target.group), MadeByMember(q) PROVE MadeByMember(q)'
    BY <2>1, <2>3, <2>5, <2>10, <1>2 DEF MadeByMember, Group, LivePids, Live, ConflictInv, ProcsSound
  <2>11. Group(Target.group)' = Group(Target.group) /\ Group(Target.group) \subseteq Pids
    BY <2>1, <2>5 DEF Group, LivePids, Live
  <2>12. GroupWatched'
    BY <2>1, <2>3, <2>9, <2>10, <2>11 DEF ConflictInv, StopSound, GroupWatched, Watching
  <2>13. HostSeen'
    <3> SUFFICES ASSUME stop.round = "stop" PROVE \E h \in Pids : HostAt(h)'
      BY <2>3 DEF HostSeen
    <3>1. PICK h \in Pids : HostAt(h) BY <2>1 DEF ConflictInv, StopSound, HostSeen
    <3>2. HostAt(h)' BY <2>3, <2>5, <3>1, <2>1 DEF HostAt
    <3> QED BY <3>2
  <2>14. DaemonSeen' BY <2>1, <2>3, <2>5 DEF ConflictInv, StopSound, DaemonSeen, Live
  <2>15. KillWatched' /\ HostProved'
    BY <2>1, <2>3 DEF KillWatched, HostProved, Touching, Inspecting
  <2> QED BY <1>2, <2>4, <2>6, <2>7, <2>8, <2>12, <2>13, <2>14, <2>15, AdvanceSafe DEF StopSound
<1> QED BY <1>1, <1>2 DEF InspectMember

LEMMA VerifiedSafe ==
  ASSUME ConflictInv, Verified
  PROVE  ConflictInv'
<1> DEFINE s == IF stop.i = Len(stop.plan)
                THEN [stop EXCEPT !.at = "look", !.round = "stop", !.i = 1, !.proofs = Append(@, stop.members)]
                ELSE [stop EXCEPT !.at = "look", !.i = @ + 1, !.proofs = Append(@, stop.members)]
<1>1. CASE Abandon BY <1>1, AbandonSafe
<1>2. CASE Advance(s)
  <2>1. UNCHANGED <<procs, starts>> /\ stop' = s /\ stop.at = "inspect" /\ stop.round = "verify" /\ stop.seen = {}
    BY <1>2 DEF Advance, Verified
  <2>2. /\ stop'.at = "look" /\ stop'.members = stop.members /\ stop'.proofs = Append(stop.proofs, stop.members)
        /\ stop'.looked = stop.looked /\ stop'.plan = stop.plan /\ stop'.force = stop.force /\ stop'.seen = stop.seen
        /\ stop'.round = (IF stop.i = Len(stop.plan) THEN "stop" ELSE "verify")
        /\ stop'.i = (IF stop.i = Len(stop.plan) THEN 1 ELSE stop.i + 1)
    BY <2>1 DEF ConflictInv, StopShape
  <2>3. StopShape'
    <3>1. Append(stop.proofs, stop.members) \in Seq(SUBSET Members) /\ stop.i + 1 \in Nat
      BY DEF ConflictInv, StopShape
    <3>2. CASE stop.i = Len(stop.plan) BY <2>1, <3>1, <3>2 DEF ConflictInv, StopShape
    <3>3. CASE stop.i # Len(stop.plan) BY <2>1, <3>1, <3>3 DEF ConflictInv, StopShape
    <3> QED BY <3>2, <3>3
  <2>4. PlanFollowed'
    BY <2>1, <2>2 DEF ConflictInv, StopSound, StopShape, PlanFollowed, Inspecting
  <2>5. ProofsKnown'
    BY <2>2, <2>1 DEF ConflictInv, StopShape, StopSound, ProofsKnown, Known
  <2>6. ProofsFirst'
    BY <2>1, <2>2 DEF ConflictInv, StopSound, ProofsFirst, Touching, Inspecting
  <2>7. GroupWatched' /\ KillWatched' /\ HostSeen' /\ HostProved' /\ DaemonSeen'
    BY <2>2 DEF GroupWatched, Watching, KillWatched, HostSeen, HostProved, DaemonSeen, Touching, Inspecting
  <2> QED BY <1>2, <2>3, <2>4, <2>5, <2>6, <2>7, AdvanceSafe DEF StopSound
<1> QED BY <1>1, <1>2 DEF Verified

LEMMA ReprovedSafe ==
  ASSUME ConflictInv, Reproved
  PROVE  ConflictInv'
<1> DEFINE s == CASE stop.at = "inspect" /\ Target.kind = "managed" /\ ~stop.force -> [stop EXCEPT !.at = "locked", !.lock = TRUE]
                  [] stop.at = "inspect" /\ NeedsVersion -> [stop EXCEPT !.at = "daemon"]
                  [] OTHER -> [stop EXCEPT !.at = "ready"]
<1>1. CASE Abandon BY <1>1, AbandonSafe
<1>2. CASE stop.proofs[stop.i] = stop.members /\ Advance(s)
  <2>1. UNCHANGED <<procs, starts>> /\ stop' = s /\ stop.at \in Inspecting /\ stop.seen = {} /\ stop.round = "stop"
    BY <1>2 DEF Advance, Reproved, Inspecting
  <2>2. \/ stop' = [stop EXCEPT !.at = "locked", !.lock = TRUE]
        \/ stop' = [stop EXCEPT !.at = "daemon"] /\ Target.kind = "daemon"
        \/ stop' = [stop EXCEPT !.at = "ready"]
    BY <2>1 DEF NeedsVersion
  <2>3. /\ stop'.at \in {"locked", "daemon", "ready"} /\ stop'.members = stop.members /\ stop'.proofs = stop.proofs
        /\ stop'.looked = stop.looked /\ stop'.plan = stop.plan /\ stop'.force = stop.force /\ stop'.seen = stop.seen
        /\ stop'.round = stop.round /\ stop'.i = stop.i /\ (stop'.at = "daemon" => Target.kind = "daemon")
    BY <2>2 DEF ConflictInv, StopShape
  <2>4. StopShape' BY <2>2 DEF ConflictInv, StopShape
  <2>5. Target' = Target BY <2>3 DEF Target
  <2>6. PlanFollowed' /\ stop.i \in 1..Len(stop.proofs)
    BY <2>1, <2>3, <2>5 DEF ConflictInv, StopSound, StopShape, PlanFollowed, Inspecting
  <2>7. ProofsKnown' BY <2>1, <2>3 DEF ConflictInv, StopSound, ProofsKnown, Known
  <2>8. ProofsFirst'
    BY <1>2, <2>1, <2>3, <2>6 DEF ConflictInv, StopSound, ProofsFirst, Inspecting
  <2>9. GroupWatched'
    BY <2>1, <2>3, <2>5 DEF ConflictInv, StopSound, GroupWatched, Watching, MemberOf, MadeByMember, Group, LivePids, Live
  <2>10. HostProved'
    <3>1. PICK h \in Pids : HostAt(h) BY <2>1 DEF ConflictInv, StopSound, HostSeen
    <3>2. PICK m \in stop.members : m.pid = h BY <2>1, <3>1 DEF HostAt
    <3>3. AppServerHost(m.cmd) BY <1>2, <3>1, <3>2 DEF HostAt
    <3> QED BY <2>3, <3>3 DEF HostProved
  <2>11. DaemonSeen' BY <2>1, <2>3, <2>5 DEF ConflictInv, StopSound, DaemonSeen, Live
  <2>12. KillWatched' /\ HostSeen' BY <2>3 DEF KillWatched, HostSeen, Inspecting
  <2> QED BY <1>2, <2>4, <2>6, <2>7, <2>8, <2>9, <2>10, <2>11, <2>12, AdvanceSafe DEF StopSound
<1> QED BY <1>1, <1>2 DEF Reproved, SameProof

\* A signal to whoever is in the group now, or to the process the daemon recorded, reaches only what was proved.
LEMMA SignalSafe ==
  ASSUME ConflictInv, stop.at \in {"daemon", "ready", "kill"}, NEW hit, NEW g, NEW kind, kind # "unknown" \/ kind = Target.kind,
         signal' = [group |-> g, hit |-> hit, proof |-> stop.members, looked |-> stop.looked, kind |-> kind, force |-> stop.force],
         \A v \in hit : v.start > stop.looked \/ \E m \in stop.members : m.start = v.start \/ m.start = v.made
  PROVE  OnlyProvenSignalled'
<1>1. \E m \in stop.members : AppServerHost(m.cmd)
  BY DEF ConflictInv, StopSound, HostProved, Touching
<1>2. stop.force \/ kind # "unknown"
  BY DEF ConflictInv, StopSound, PlanFollowed, Target, StopShape
<1> QED BY <1>1, <1>2 DEF OnlyProvenSignalled

\* The stop waits for its members to go.
LEMMA WaitsSound ==
  ASSUME ConflictInv, MachineMoves, stop.at \in {"daemon", "ready", "kill"}, NEW how \in {"int", "kill"},
         stop' = [stop EXCEPT !.at = "wait", !.sent = how], how = "int" => stop.at = "ready" /\ UNCHANGED procs
  PROVE  StopShape' /\ StopSound'
<1>1. /\ stop'.at = "wait" /\ stop'.sent = how /\ stop'.members = stop.members /\ stop'.proofs = stop.proofs
      /\ stop'.looked = stop.looked /\ stop'.plan = stop.plan /\ stop'.force = stop.force /\ stop'.seen = stop.seen
      /\ stop'.round = stop.round /\ stop'.i = stop.i
  BY DEF ConflictInv, StopShape
<1>2. StopShape' /\ Target' = Target BY <1>1 DEF ConflictInv, StopShape, Target
<1>3. PlanFollowed' BY <1>1 DEF ConflictInv, StopSound, PlanFollowed, Inspecting
<1>4. ProofsKnown'
  BY <1>1, MovesKnown DEF ConflictInv, StopSound, StopShape, ProofsKnown
<1>5. ProofsFirst'
  BY <1>1 DEF ConflictInv, StopSound, StopShape, ProofsFirst, MachineMoves, ProcsSound, Inspecting, Touching
<1>6. GroupWatched'
  BY <1>1, <1>2 DEF ConflictInv, StopSound, GroupWatched, Watching, Inspecting, MemberOf, MadeByMember, Group, LivePids, Live
<1>7. HostProved' BY <1>1 DEF ConflictInv, StopSound, HostProved, Touching
<1>8. KillWatched' /\ HostSeen' /\ DaemonSeen'
  BY <1>1 DEF KillWatched, HostSeen, DaemonSeen, Inspecting
<1> QED BY <1>2, <1>3, <1>4, <1>5, <1>6, <1>7, <1>8 DEF StopSound

LEMMA StopDaemonSafe ==
  ASSUME ConflictInv, StopDaemon
  PROVE  ConflictInv'
<1> DEFINE p == pidRecord.pid
<1>1. /\ stop.at = "daemon" /\ p = Target.host /\ Live(p) /\ procs' = [procs EXCEPT ![p] = NoProcess] /\ starts' = starts
      /\ stop' = [stop EXCEPT !.at = "wait", !.sent = "kill"]
      /\ signal' = [group |-> p, hit |-> {procs[p]}, proof |-> stop.members, looked |-> stop.looked, kind |-> "daemon",
                    force |-> stop.force]
  BY DEF StopDaemon, VersionSays, Setting
<1> HIDE DEF p
<1>2. NoProcess \in Processes /\ NoProcess.start = 0 BY DEF NoProcess, Processes
<1>3. MachineMoves BY <1>1, <1>2, EndMoves DEF ConflictInv, ProcsSound
<1>4. StopShape' /\ StopSound' BY <1>1, <1>3, WaitsSound
<1>5. stop.seen = {} /\ Target.kind = "daemon"
  BY <1>1 DEF ConflictInv, StopSound, PlanFollowed, Inspecting
<1>6. p \in Pids /\ (procs[p].start <= stop.looked => p \in Group(Target.group))
  BY <1>1, <1>5 DEF Live, ConflictInv, StopSound, DaemonSeen, Group, LivePids
<1>7. procs[p].start <= stop.looked => \E m \in stop.members : m.start = procs[p].start
  BY <1>1, <1>5, <1>6 DEF ConflictInv, StopSound, GroupWatched, Watching, MemberOf
<1>8. procs[p].start > stop.looked \/ procs[p].start <= stop.looked
  BY <1>6 DEF ConflictInv, ProcsSound, Processes, StopShape
<1>9. OnlyProvenSignalled' BY <1>1, <1>7, <1>8, SignalSafe
<1> QED BY <1>3, <1>4, <1>9 DEF ConflictInv, MachineMoves

\* An interrupt, and the kill after the grace period.
LEMMA InterruptSafe ==
  ASSUME ConflictInv, Interrupt
  PROVE  ConflictInv'
<1> DEFINE g == Target.group
<1>1. /\ stop.at = "ready" /\ UNCHANGED <<procs, starts>> /\ stop' = [stop EXCEPT !.at = "wait", !.sent = "int"]
      /\ signal' = [group |-> g, hit |-> {procs[p] : p \in Group(g)}, proof |-> stop.members, looked |-> stop.looked,
                    kind |-> Target.kind, force |-> stop.force]
  BY DEF Interrupt, Signalled
<1>2. MachineMoves BY <1>1, EndMoves DEF ConflictInv, ProcsSound
<1>3. StopShape' /\ StopSound' BY <1>1, <1>2, WaitsSound
<1>4. stop.seen = {} BY <1>1 DEF ConflictInv, StopSound, PlanFollowed, Inspecting
<1>5. \A p \in Group(g) : procs[p].start > stop.looked \/ \E m \in stop.members : m.start = procs[p].start
  BY <1>1, <1>4 DEF ConflictInv, StopSound, StopShape, GroupWatched, Watching, MemberOf, ProcsSound, Processes, Group, LivePids
<1>6. OnlyProvenSignalled'
  <2> DEFINE hit == {procs[p] : p \in Group(g)}
  <2>1. \A v \in hit : v.start > stop.looked \/ \E m \in stop.members : m.start = v.start \/ m.start = v.made
    BY <1>5
  <2> HIDE DEF hit
  <2> QED BY <1>1, <2>1, SignalSafe DEF hit
<1> QED BY <1>2, <1>3, <1>6 DEF ConflictInv, MachineMoves

LEMMA KillSafe ==
  ASSUME ConflictInv, Kill
  PROVE  ConflictInv'
<1> DEFINE g == Target.group
<1>1. /\ stop.at = "kill" /\ starts' = starts /\ stop' = [stop EXCEPT !.at = "wait", !.sent = "kill"]
      /\ procs' = [p \in Pids |-> IF p \in Group(g) THEN NoProcess ELSE procs[p]]
      /\ signal' = [group |-> g, hit |-> {procs[p] : p \in Group(g)}, proof |-> stop.members, looked |-> stop.looked,
                    kind |-> Target.kind, force |-> stop.force]
  BY DEF Kill, Signalled
<1>2. NoProcess \in Processes /\ NoProcess.start = 0 BY DEF NoProcess, Processes
<1>3. MachineMoves BY <1>1, <1>2, EndMoves DEF ConflictInv, ProcsSound
<1>4. StopShape' /\ StopSound' BY <1>1, <1>3, WaitsSound
<1>5. \A p \in Group(g) : procs[p].start > stop.looked \/ AllTouched(p)
  BY <1>1 DEF ConflictInv, StopSound, StopShape, KillWatched, ProcsSound, Processes, Group, LivePids
<1>6. OnlyProvenSignalled'
  <2> DEFINE hit == {procs[p] : p \in Group(g)}
  <2>1. \A v \in hit : v.start > stop.looked \/ \E m \in stop.members : m.start = v.start \/ m.start = v.made
    BY <1>5 DEF AllTouched
  <2> HIDE DEF hit
  <2> QED BY <1>1, <2>1, SignalSafe DEF hit
<1> QED BY <1>3, <1>4, <1>6 DEF ConflictInv, MachineMoves

\* A member that is still there has been in the group since before the last look, so its making is the group's.
LEMMA GraceSafe ==
  ASSUME ConflictInv, GraceExpired
  PROVE  ConflictInv'
<1> DEFINE s == [stop EXCEPT !.at = "kill", !.looked = starts]
           g == Target.group
<1>1. stop.at = "wait" /\ stop.sent = "int" /\ Advance(s) /\ UNCHANGED <<procs, starts>> /\ stop' = s
  BY DEF GraceExpired, Advance
<1>2. PICK m0 \in stop.members : StillThere(m0) BY DEF GraceExpired
<1>3. m0.pid \in Pids /\ procs[m0.pid].start = m0.start /\ m0.start <= stop.looked /\ m0.pid \in Group(g) /\ m0.start # 0
  BY <1>1, <1>2 DEF ConflictInv, StopSound, StopShape, ProofsFirst, Touching, Members, StillThere, Group, LivePids, Live
<1>4. stop.seen = {} BY <1>1 DEF ConflictInv, StopSound, PlanFollowed, Inspecting
<1>5. ASSUME NEW p \in Group(g) PROVE AllTouched(p)
  <2>1. p \in Pids /\ procs[p].start # 0 /\ procs[p].group = g /\ procs[m0.pid].group = g
    BY <1>3 DEF Group, LivePids, Live
  <2>2. procs[p].made <= stop.looked
    BY <1>3, <2>1 DEF ConflictInv, StopShape, ProcsSound, Processes
  <2>3. procs[p].start <= stop.looked \/ procs[p].start > stop.looked
    BY <2>1 DEF ConflictInv, StopShape, ProcsSound, Processes
  <2> QED BY <1>1, <1>4, <2>2, <2>3 DEF ConflictInv, StopSound, GroupWatched, Watching, MemberOf, MadeByMember, AllTouched
<1>6. /\ stop'.at = "kill" /\ stop'.members = stop.members /\ stop'.proofs = stop.proofs
      /\ stop'.looked = starts /\ stop'.plan = stop.plan /\ stop'.force = stop.force /\ stop'.seen = stop.seen
      /\ stop'.round = stop.round /\ stop'.i = stop.i
  BY <1>1 DEF ConflictInv, StopShape
<1>7. StopShape' /\ Target' = Target
  BY <1>1, <1>6 DEF ConflictInv, StopShape, ProcsSound, Target
<1>8. PlanFollowed' BY <1>1, <1>6 DEF ConflictInv, StopSound, PlanFollowed, Inspecting
<1>9. ProofsKnown' BY <1>1, <1>6 DEF ConflictInv, StopSound, ProofsKnown, Known
<1>10. ProofsFirst'
  BY <1>1, <1>6 DEF ConflictInv, StopSound, ProofsFirst, ProofsKnown, Known, ProcsSound, Inspecting
<1>11. KillWatched'
  BY <1>1, <1>5, <1>6, <1>7 DEF KillWatched, AllTouched, Group, LivePids, Live
<1>12. HostProved' BY <1>1, <1>6 DEF ConflictInv, StopSound, HostProved, Touching
<1>13. GroupWatched' /\ HostSeen' /\ DaemonSeen'
  BY <1>6 DEF GroupWatched, Watching, HostSeen, DaemonSeen, Inspecting
<1> QED BY <1>1, <1>7, <1>8, <1>9, <1>10, <1>11, <1>12, <1>13, AdvanceSafe DEF StopSound

\* The daemon's fallback takes the lock; the next target is taken.
LEMMA NextTargetSafe ==
  ASSUME ConflictInv
  PROVE  /\ DaemonUnmanaged => ConflictInv'
         /\ MembersExited => ConflictInv'
<1>1. ASSUME DaemonUnmanaged, Advance([stop EXCEPT !.at = "locked", !.lock = TRUE]) PROVE ConflictInv'
  <2>1. /\ stop.at = "daemon" /\ UNCHANGED <<procs, starts>> /\ stop' = [stop EXCEPT !.at = "locked", !.lock = TRUE]
    BY <1>1 DEF DaemonUnmanaged, Advance
  <2>2. /\ stop'.at = "locked" /\ stop'.members = stop.members /\ stop'.proofs = stop.proofs
        /\ stop'.looked = stop.looked /\ stop'.plan = stop.plan /\ stop'.force = stop.force /\ stop'.seen = stop.seen
        /\ stop'.round = stop.round /\ stop'.i = stop.i /\ StopShape'
    BY <2>1 DEF ConflictInv, StopShape
  <2>3. PlanFollowed' /\ ProofsKnown' /\ ProofsFirst'
    BY <2>1, <2>2 DEF ConflictInv, StopSound, PlanFollowed, ProofsKnown, Known, ProofsFirst, Touching, Inspecting
  <2>4. GroupWatched' /\ HostSeen' /\ DaemonSeen' /\ KillWatched' /\ HostProved'
    BY <2>2 DEF GroupWatched, Watching, HostSeen, DaemonSeen, KillWatched, HostProved, Touching, Inspecting
  <2> QED BY <1>1, <2>2, <2>3, <2>4, AdvanceSafe DEF StopSound
<1>2. ASSUME MembersExited PROVE ConflictInv'
  <2>1. UNCHANGED <<procs, starts, signal>> /\ stop.at = "wait"
    BY <1>2 DEF MembersExited
  <2>2. CASE stop' = IdleStop BY <2>1, <2>2, StoppedSafe
  <2>3. CASE stop.i # Len(stop.plan) /\ stop' = [stop EXCEPT !.at = "look", !.i = @ + 1, !.sent = "none", !.lock = FALSE]
    <3>1. /\ stop'.at = "look" /\ stop'.members = stop.members /\ stop'.proofs = stop.proofs
          /\ stop'.looked = stop.looked /\ stop'.plan = stop.plan /\ stop'.force = stop.force /\ stop'.seen = stop.seen
          /\ stop'.round = stop.round /\ stop'.i = stop.i + 1 /\ StopShape'
      <4>1. stop.i + 1 \in Nat BY DEF ConflictInv, StopShape
      <4>2. stop' = [stop EXCEPT !.at = "look", !.i = stop.i + 1, !.sent = "none", !.lock = FALSE]
        BY <2>3
      <4> QED BY <4>1, <4>2 DEF ConflictInv, StopShape
    <3>2. PlanFollowed' /\ ProofsKnown' /\ ProofsFirst'
      BY <2>1, <2>3, <3>1 DEF ConflictInv, StopSound, StopShape, PlanFollowed, Inspecting, ProofsKnown, Known, ProofsFirst,
         Touching
    <3>3. GroupWatched' /\ HostSeen' /\ DaemonSeen' /\ KillWatched' /\ HostProved'
      BY <3>1 DEF GroupWatched, Watching, HostSeen, DaemonSeen, KillWatched, HostProved, Touching, Inspecting
    <3> QED BY <2>1, <3>1, <3>2, <3>3 DEF ConflictInv, StopSound, ProcsSound, OnlyProvenSignalled
  <2> QED BY <1>2, <2>2, <2>3 DEF MembersExited
<1> QED BY <1>1, <1>2, AbandonSafe DEF DaemonUnmanaged

\* For any number of processes, any command lines and any reuse of process numbers: a signal reaches only what the stop
\* has proved, or what came after it last looked (codex_host_conflict_stop_unix.go proves the members by start time
\* twice, and watches them until they are gone).
THEOREM OnlyProvenAreSignalled == ConflictSpec => []OnlyProvenSignalled
<1>1. ConflictInit => ConflictInv BY ConflictInitSafe
<1>2. ConflictInv /\ [ConflictNext]_conflictVars => ConflictInv'
  <2> SUFFICES ASSUME ConflictInv, [ConflictNext]_conflictVars PROVE ConflictInv'
    OBVIOUS
  <2>1. CASE UNCHANGED conflictVars
    BY <2>1, EndMoves, MovesSound DEF conflictVars, ConflictInv, ProcsSound, MachineMoves, StopShape, OnlyProvenSignalled
  <2>2. CASE ConflictNext
    BY <2>2, MachineSafe, InspectSafe, PlanSafe, CaptureSafe, VerifiedSafe, ReprovedSafe, StopDaemonSafe, NextTargetSafe,
       InterruptSafe, GraceSafe, KillSafe, AbandonSafe DEF ConflictNext, DaemonMoved, IdentityDrift
  <2> QED BY <2>1, <2>2
<1>3. ConflictInv => OnlyProvenSignalled BY DEF ConflictInv
<1> QED BY <1>1, <1>2, <1>3, PTL DEF ConflictSpec

--------------------
(* Who may talk to a bot.                                                  *)

\* A configuration has its five fields, whatever is in them.
IsConfig(c) == c = [allowed |-> c.allowed, agent |-> c.agent, token |-> c.token,
                    enabled |-> c.enabled, readable |-> c.readable]

\* The keys that were revoked: reported, or removed and not yet reported.
Revoked == gone.told \cup gone.soon

\* What a command is about: it adds keys or removes some, and a removed key is a person's.
IsIntent(i) ==
  /\ i = [add |-> i.add, del |-> i.del, agent |-> i.agent, enable |-> i.enable]
  /\ i.add = {} \/ i.del = {}
  /\ NoKey \notin i.del

IsJob(j) ==
  /\ j = [at |-> j.at, intent |-> j.intent, base |-> j.base, mem |-> j.mem, rec |-> j.rec]
  /\ IsIntent(j.intent)
  /\ IsConfig(j.base)

AccessShape ==
  /\ IsConfig(cfgFile)
  /\ DOMAIN cmdJob = ConfigCommands
  /\ cmdJob = [p \in ConfigCommands |-> cmdJob[p]]
  /\ \A p \in ConfigCommands : IsJob(cmdJob[p])
  /\ gone = [told |-> gone.told, soon |-> gone.soon]
  /\ NoKey \notin Revoked

\* A page shows the revision it was made from, with the mask in place of the token.
PageTrue ==
  /\ IsConfig(webView.revision)
  /\ webView.shown = [webView.revision EXCEPT !.token = Masked]

\* The lock has one holder, and what it has read is the file unless an editor wrote.
LockHeld ==
  \A p \in ConfigCommands : cmdJob[p].at = "locked" =>
     /\ cfgLock = p
     /\ ~edited => cmdJob[p].base = cfgFile

\* A revoked key is not in the file, nor in what the holder of the lock is going to write.
RevokedNotInFile ==
  /\ cfgFile.allowed \cap Revoked = {}
  /\ \A p \in ConfigCommands : cmdJob[p].at = "locked" => cmdJob[p].base.allowed \cap Revoked = {}

\* After the refresh, what is about to be reported is out of the registry.
RefreshDone == cmdJob["chat"].at = "refreshed" => regAllowed \cap gone.soon = {}

AccessInv == AccessShape /\ PageTrue /\ LockHeld /\ RevokedNotInFile /\ RefreshDone /\ RevokedStaysOut

LEMMA KeysArePersons == NoKey \notin AccessKeys
  <1>1. ASSUME NEW u PROVE OpenId(u) # NoKey /\ UnionId(u) # NoKey
    BY DEF OpenId, UnionId, NoKey
  <1>. QED BY <1>1 DEF AccessKeys

\* What feishuIdentityRevokeKeys returns are keys of persons.
LEMMA RevokeKeysArePersons ==
  ASSUME NEW mem, NEW sel \in AccessKeys, NEW keys \in RevokeKeys(mem, sel)
  PROVE  NoKey \notin keys
  <1>1. NoKey \notin AccessKeys BY KeysArePersons
  <1>2. CASE ApprovalRecords(mem, sel) = {} BY <1>1, <1>2 DEF RevokeKeys
  <1>3. CASE ApprovalRecords(mem, sel) # {}
    <2>1. PICK k \in ApprovalRecords(mem, sel) : keys = AuthKeys(k) BY <1>3 DEF RevokeKeys
    <2>2. sel \in AuthKeys(k) BY <2>1 DEF ApprovalRecords, RecordMatches
    <2>3. CASE k[1] = "union" BY <2>3, <2>1 DEF NoKey, OpenId, AuthKeys
    <2>4. CASE k[1] # "union" BY <1>1, <2>1, <2>2, <2>4 DEF AuthKeys
    <2>. QED BY <2>3, <2>4
  <1>. QED BY <1>2, <1>3

LEMMA IdleIsJob == IsJob(IdleJob) /\ IdleJob.at = "idle"
  BY DEF IsJob, IsIntent, IsConfig, IdleJob, NoIntent, NoBase

\* What one job being replaced leaves.
LEMMA JobReplaced ==
  ASSUME AccessShape, NEW p \in ConfigCommands, NEW j, cmdJob' = [cmdJob EXCEPT ![p] = j]
  PROVE  /\ cmdJob' = [q \in ConfigCommands |-> cmdJob'[q]]
         /\ DOMAIN cmdJob' = ConfigCommands
         /\ cmdJob'[p] = j
         /\ \A q \in ConfigCommands \ {p} : cmdJob'[q] = cmdJob[q]
  BY DEF AccessShape

LEMMA AccessInitSafe == AccessInit => AccessInv
  <1>. SUFFICES ASSUME AccessInit PROVE AccessInv OBVIOUS
  <1>1. IsJob(IdleJob) /\ IdleJob.at = "idle" BY IdleIsJob
  <1>2. IsConfig(cfgFile) BY DEF AccessInit, IsConfig
  <1>3. AccessShape BY <1>1, <1>2 DEF AccessInit, AccessShape, Revoked
  <1>4. PageTrue BY <1>2 DEF IsConfig, WithEnv, AccessInit, PageTrue, Redacted
  <1>5. \A p \in ConfigCommands : cmdJob[p].at = "idle" BY <1>1 DEF AccessInit
  <1>6. "chat" \in ConfigCommands BY DEF ConfigCommands
  <1>. QED BY <1>3, <1>4, <1>5, <1>6 DEF AccessInit, AccessInv, LockHeld, RevokedNotInFile, RefreshDone,
                                        RevokedStaysOut, Revoked

\* One command moves on, without the lock and without a word to the registry.
LEMMA CommandMoves ==
  ASSUME AccessInv, NEW p \in ConfigCommands, NEW j, IsJob(j), j.at # "locked", p = "chat" => j.at # "refreshed",
         cmdJob' = [cmdJob EXCEPT ![p] = j],
         UNCHANGED <<cfgFile, webView, gone, regAllowed, endpoint, unclosed>>,
         \A q \in ConfigCommands \ {p} : cmdJob[q].at = "locked" => cfgLock' = q /\ edited' = edited
  PROVE  AccessInv'
  <1>1. /\ cmdJob' = [q \in ConfigCommands |-> cmdJob'[q]]
        /\ DOMAIN cmdJob' = ConfigCommands
        /\ cmdJob'[p] = j
        /\ \A q \in ConfigCommands \ {p} : cmdJob'[q] = cmdJob[q]
    BY JobReplaced DEF AccessInv
  <1>2. AccessShape' BY <1>1 DEF AccessInv, AccessShape, IsConfig, Revoked
  <1>3. PageTrue' BY DEF AccessInv, PageTrue, IsConfig
  <1>4. LockHeld' BY <1>1 DEF AccessInv, LockHeld
  <1>5. RevokedNotInFile' BY <1>1 DEF AccessInv, RevokedNotInFile, Revoked
  <1>6. RefreshDone' BY <1>1 DEF ConfigCommands, AccessInv, RefreshDone
  <1>7. RevokedStaysOut' BY DEF AccessInv, RevokedStaysOut
  <1>. QED BY <1>2, <1>3, <1>4, <1>5, <1>6, <1>7 DEF AccessInv

\* A command that begins.
LEMMA BeginSafe ==
  ASSUME AccessInv, NEW p \in ConfigCommands, NEW intent, IsIntent(intent), NEW mem, NEW rec, BeginJob(p, intent, mem, rec),
         UNCHANGED <<cfgFile, cfgLock, webView, gone, regAllowed, endpoint, unclosed, edited>>
  PROVE  AccessInv'
  <1>. DEFINE j == [IdleJob EXCEPT !.at = "ready", !.intent = intent, !.mem = mem, !.rec = rec]
  <1>1. IsJob(IdleJob) BY IdleIsJob
  <1>2. IsJob(j) /\ j.at = "ready"
    <2>1. PICK r : r = j OBVIOUS
    <2>2. r = [at |-> r.at, intent |-> r.intent, base |-> r.base, mem |-> r.mem, rec |-> r.rec] BY <2>1 DEF IdleJob
    <2>3. r.at = "ready" /\ r.intent = intent /\ r.base = NoBase BY <2>1 DEF IdleJob
    <2>4. IsConfig(NoBase) BY DEF IsConfig, NoBase
    <2>5. IsJob(r) BY <2>2, <2>3, <2>4 DEF IsJob
    <2>. QED BY <2>1, <2>3, <2>5
  <1>3. cmdJob' = [cmdJob EXCEPT ![p] = j] BY DEF BeginJob
  <1>4. \A q \in ConfigCommands \ {p} : cmdJob[q].at = "locked" => cfgLock' = q /\ edited' = edited
    BY DEF AccessInv, LockHeld
  <1>. HIDE DEF j
  <1>. QED BY <1>2, <1>3, <1>4, CommandMoves

LEMMA CommandsBeginSafe ==
  ASSUME AccessInv,
         \/ \E p \in {"chat", "cli"} : BeginApprove(p) \/ BeginApproveCode(p) \/ BeginRevoke(p)
         \/ BeginSaveAgent \/ BeginBootstrap \/ BeginPage
  PROVE  AccessInv'
  <1>1. ASSUME NEW keys, NEW i, i = [NoIntent EXCEPT !.add = keys] PROVE IsIntent(i)
    BY <1>1 DEF NoIntent, IsIntent
  <1>2. ASSUME NEW keys, NoKey \notin keys, NEW i, i = [NoIntent EXCEPT !.del = keys] PROVE IsIntent(i)
    BY <1>2 DEF NoIntent, IsIntent
  <1>3. ASSUME NEW a, NEW i, i = [NoIntent EXCEPT !.agent = a] PROVE IsIntent(i)
    BY <1>3 DEF NoIntent, IsIntent
  <1>4. ASSUME NEW i, i = [NoIntent EXCEPT !.enable = TRUE] PROVE IsIntent(i)
    BY <1>4 DEF NoIntent, IsIntent
  <1>5. {"chat", "cli"} \subseteq ConfigCommands /\ "cli" \in ConfigCommands /\ "web" \in ConfigCommands BY DEF ConfigCommands
  <1>6. ASSUME NEW p \in {"chat", "cli"}, BeginApprove(p) \/ BeginApproveCode(p) PROVE AccessInv'
    <2>1. PICK k : BeginJob(p, [NoIntent EXCEPT !.add = {k}], StoreFor(p), k)
      BY <1>6 DEF BeginApprove, BeginApproveCode
    <2>2. UNCHANGED <<cfgFile, cfgLock, webView, gone, regAllowed, endpoint, unclosed, edited>>
      BY <1>6 DEF BeginApprove, BeginApproveCode
    <2>. QED BY <2>1, <2>2, <1>1, <1>5, BeginSafe
  <1>7. ASSUME NEW p \in {"chat", "cli"}, BeginRevoke(p) PROVE AccessInv'
    <2>1. PICK sel \in AccessKeys : \E keys \in RevokeKeys(StoreFor(p), sel) :
             BeginJob(p, [NoIntent EXCEPT !.del = keys], <<>>, NoKey)
      BY <1>7 DEF BeginRevoke
    <2>2. PICK keys \in RevokeKeys(StoreFor(p), sel) : BeginJob(p, [NoIntent EXCEPT !.del = keys], <<>>, NoKey)
      BY <2>1
    <2>4. NoKey \notin keys BY RevokeKeysArePersons
    <2>3. UNCHANGED <<cfgFile, cfgLock, webView, gone, regAllowed, endpoint, unclosed, edited>>
      BY <1>7 DEF BeginRevoke
    <2>. QED BY <2>2, <2>4, <2>3, <1>2, <1>5, BeginSafe
  <1>8. CASE BeginSaveAgent
    <2>1. PICK a : BeginJob("cli", [NoIntent EXCEPT !.agent = a], <<>>, NoKey) BY <1>8 DEF BeginSaveAgent
    <2>2. UNCHANGED <<cfgFile, cfgLock, webView, gone, regAllowed, endpoint, unclosed, edited>>
      BY <1>8 DEF BeginSaveAgent
    <2>. QED BY <2>1, <2>2, <1>3, <1>5, BeginSafe
  <1>9. CASE BeginBootstrap BY <1>9, <1>4, <1>5, BeginSafe DEF BeginBootstrap
  <1>10. CASE BeginPage BY <1>10, <1>3, <1>5, BeginSafe, <1>1 DEF BeginPage
  <1>. QED BY <1>6, <1>7, <1>8, <1>9, <1>10

\* The lock of the file, what is read under it, and a write that fails.
LEMMA LockAndReadSafe ==
  ASSUME AccessInv, NEW p \in ConfigCommands, LockAndRead(p)
  PROVE  AccessInv'
  <1>1. \A q \in ConfigCommands : cmdJob[q].at # "locked"
    BY DEF ConfigCommands, NoUser, LockAndRead, AccessInv, LockHeld
  <1>2. UNCHANGED <<cfgFile, webView, gone, regAllowed, endpoint, unclosed>> BY DEF LockAndRead
  <1>3. CASE ~cfgFile.readable
    BY <1>3, <1>1, <1>2, IdleIsJob, CommandMoves DEF LockAndRead
  <1>4. CASE cfgFile.readable
    <2>. DEFINE j == [cmdJob[p] EXCEPT !.at = "locked", !.base = cfgFile]
    <2>1. cmdJob' = [cmdJob EXCEPT ![p] = j] BY <1>4 DEF LockAndRead
    <2>2. IsJob(cmdJob[p]) /\ IsConfig(cfgFile) BY DEF AccessInv, AccessShape
    <2>3. IsJob(j) /\ j.at = "locked" /\ j.base = cfgFile
      <3>1. PICK r : r = j OBVIOUS
      <3>2. r = [at |-> r.at, intent |-> r.intent, base |-> r.base, mem |-> r.mem, rec |-> r.rec]
        BY <3>1, <2>2 DEF IsJob
      <3>3. r.at = "locked" /\ r.intent = cmdJob[p].intent /\ r.base = cfgFile BY <3>1, <2>2 DEF IsJob
      <3>4. IsJob(r) BY <2>2, <3>2, <3>3 DEF IsJob
      <3>. QED BY <3>1, <3>3, <3>4
    <2>. HIDE DEF j
    <2>4. /\ cmdJob' = [q \in ConfigCommands |-> cmdJob'[q]]
          /\ DOMAIN cmdJob' = ConfigCommands
          /\ cmdJob'[p] = j
          /\ \A q \in ConfigCommands \ {p} : cmdJob'[q] = cmdJob[q]
      BY <2>1, JobReplaced DEF AccessInv
    <2>5. AccessShape' BY <1>2, <2>3, <2>4 DEF AccessInv, AccessShape, Revoked, IsConfig
    <2>6. PageTrue' BY <1>2 DEF AccessInv, PageTrue, IsConfig
    <2>7. cfgLock' = p BY <1>4 DEF LockAndRead
    <2>8. LockHeld' BY <1>1, <1>2, <2>3, <2>4, <2>7 DEF LockHeld
    <2>9. RevokedNotInFile' BY <1>1, <1>2, <2>3, <2>4 DEF AccessInv, RevokedNotInFile, Revoked
    <2>10. RefreshDone' BY <1>2, <2>3, <2>4 DEF ConfigCommands, AccessInv, RefreshDone
    <2>11. RevokedStaysOut' BY <1>2 DEF AccessInv, RevokedStaysOut
    <2>. QED BY <2>5, <2>6, <2>8, <2>9, <2>10, <2>11 DEF AccessInv
  <1>. QED BY <1>3, <1>4

\* Nobody but the holder has read under the lock.
LEMMA OnlyHolder ==
  ASSUME AccessInv, NEW p \in ConfigCommands, cmdJob[p].at = "locked"
  PROVE  \A q \in ConfigCommands \ {p} : cmdJob[q].at # "locked"
  BY DEF AccessInv, LockHeld

LEMMA AccessWriteFailsSafe ==
  ASSUME AccessInv, NEW p \in ConfigCommands, AccessWriteFails(p)
  PROVE  AccessInv'
  <1>1. \A q \in ConfigCommands \ {p} : cmdJob[q].at # "locked" BY OnlyHolder DEF AccessWriteFails
  <1>. QED BY <1>1, IdleIsJob, CommandMoves DEF AccessWriteFails

\* restoreUnchangedEnvironmentBackedValues leaves everything but the agent.
LEMMA Restored ==
  ASSUME NEW c, IsConfig(c), NEW persisted
  PROVE  /\ IsConfig(RestoreUnchanged(c, persisted))
         /\ RestoreUnchanged(c, persisted).allowed = c.allowed
         /\ RestoreUnchanged(c, persisted).token = c.token
         /\ RestoreUnchanged(c, persisted).enabled = c.enabled
         /\ RestoreUnchanged(c, persisted).readable = c.readable
         /\ RestoreUnchanged(c, persisted).agent = IF c.agent = EnvAgent THEN persisted.agent ELSE c.agent
  <1>1. CASE c.agent = EnvAgent
    <2>. DEFINE r == [c EXCEPT !.agent = persisted.agent]
    <2>1. r = [allowed |-> c.allowed, agent |-> persisted.agent, token |-> c.token, enabled |-> c.enabled,
               readable |-> c.readable]
      BY DEF IsConfig
    <2>2. RestoreUnchanged(c, persisted) = r BY <1>1 DEF RestoreUnchanged
    <2>. HIDE DEF r
    <2>. QED BY <1>1, <2>1, <2>2 DEF IsConfig
  <1>2. CASE c.agent # EnvAgent BY <1>2 DEF RestoreUnchanged
  <1>. QED BY <1>1, <1>2

\* What config.Update writes: the base with the command's change and nothing else.  A console's page stands for
\* the base it was made from.
LEMMA Content ==
  ASSUME AccessInv, NEW p \in ConfigCommands, p = "web" => SameRevision(WithEnv(cmdJob[p].base), webView)
  PROVE  /\ IsConfig(NewContent(p))
         /\ NewContent(p).allowed = (cmdJob[p].base.allowed \ cmdJob[p].intent.del) \cup cmdJob[p].intent.add
         /\ NewContent(p).agent = IF cmdJob[p].intent.agent = EnvAgent THEN cmdJob[p].base.agent
                                  ELSE cmdJob[p].intent.agent
         /\ NewContent(p).token = cmdJob[p].base.token
         /\ NewContent(p).enabled = (cmdJob[p].base.enabled \/ cmdJob[p].intent.enable)
  <1>. DEFINE b == cmdJob[p].base
              i == cmdJob[p].intent
              e == WithEnv(b)
              v == IF p = "web" THEN MergeView(e, webView) ELSE e
              m == Mutated(v, i)
  <1>1. IsConfig(b) BY DEF AccessInv, AccessShape, IsJob
  <1>2. NewContent(p) = RestoreUnchanged(m, b) BY DEF NewContent
  <1>. HIDE DEF b, i
  <1>3. e = [allowed |-> b.allowed, agent |-> EnvAgent, token |-> b.token, enabled |-> b.enabled,
             readable |-> b.readable]
    BY <1>1 DEF IsConfig, WithEnv
  <1>4. v = e
    <2>1. CASE p # "web" BY <2>1
    <2>2. CASE p = "web"
      <3>1. webView.revision = e BY <2>2 DEF SameRevision, b
      <3>2. webView.shown = [e EXCEPT !.token = Masked] BY <3>1 DEF AccessInv, PageTrue
      <3>. HIDE DEF e
      <3>3. webView.shown = [allowed |-> b.allowed, agent |-> EnvAgent, token |-> Masked, enabled |-> b.enabled,
                             readable |-> b.readable]
        BY <3>2, <1>3
      <3>4. MergeView(e, webView) = [webView.shown EXCEPT !.token = e.token]
        BY <3>3 DEF MergeView, MergeSecret
      <3>5. MergeView(e, webView) = e BY <3>3, <3>4, <1>3
      <3>. QED BY <2>2, <3>5
    <2>. QED BY <2>1, <2>2
  <1>. HIDE DEF e, v
  <1>5. PICK r : r = m OBVIOUS
  <1>6. r = [allowed |-> r.allowed, agent |-> r.agent, token |-> r.token, enabled |-> r.enabled, readable |-> r.readable]
    BY <1>3, <1>4, <1>5 DEF Mutated
  <1>7. /\ r.allowed = (b.allowed \ i.del) \cup i.add
        /\ r.agent = i.agent
        /\ r.token = b.token
    BY <1>3, <1>4, <1>5 DEF Mutated, AddIdentity, RemoveIdentity
  <1>8. r.enabled = (b.enabled \/ i.enable) BY <1>3, <1>4, <1>5 DEF Mutated
  <1>. HIDE DEF m
  <1>9. IsConfig(r) BY <1>6 DEF IsConfig
  <1>10. NewContent(p) = RestoreUnchanged(r, b) BY <1>2, <1>5
  <1>. QED BY <1>7, <1>8, <1>9, <1>10, Restored DEF b, i

\* A key the write grants is no longer a revoked one; a key the chat removes is, from now on.
LEMMA WriteConfigSafe ==
  ASSUME AccessInv, NEW p \in ConfigCommands, WriteConfig(p)
  PROVE  AccessInv'
  <1>. DEFINE j == cmdJob[p]
              accepted == p = "web" => SameRevision(WithEnv(j.base), webView)
  <1>1. j.at = "locked" BY DEF WriteConfig
  <1>2. \A q \in ConfigCommands \ {p} : cmdJob[q].at # "locked" BY <1>1, OnlyHolder
  <1>3. UNCHANGED <<webView, regAllowed, endpoint, unclosed, edited>> BY DEF WriteConfig
  <1>4. IsJob(j) BY DEF AccessInv, AccessShape
  <1>5. CASE ~accepted BY <1>5, <1>2, <1>3, IdleIsJob, CommandMoves DEF WriteConfig
  <1>6. CASE accepted
    <2>. DEFINE n == IF JobOutcome(p) = "idle" THEN IdleJob ELSE [j EXCEPT !.at = "written"]
                soon == (IF p = "chat" THEN j.intent.del ELSE gone.soon)
    <2>1. cfgFile' = NewContent(p) BY <1>6 DEF WriteConfig
    <2>2. IsConfig(cfgFile') /\ cfgFile'.allowed = (j.base.allowed \ j.intent.del) \cup j.intent.add
      BY <1>6, <2>1, Content
    <2>3. gone' = [told |-> gone.told \ j.intent.add, soon |-> soon \ j.intent.add]
      BY <1>6 DEF WriteConfig, Granted, AccessInv, AccessShape
    <2>4. cmdJob' = [cmdJob EXCEPT ![p] = n] BY <1>6 DEF WriteConfig
    <2>5. IsJob(n) /\ n.at \in {"idle", "written"}
      <3>1. CASE JobOutcome(p) = "idle" BY <3>1, IdleIsJob
      <3>2. CASE JobOutcome(p) # "idle"
        <4>1. PICK r : r = [j EXCEPT !.at = "written"] OBVIOUS
        <4>2. r = [at |-> r.at, intent |-> r.intent, base |-> r.base, mem |-> r.mem, rec |-> r.rec]
          BY <4>1, <1>4 DEF IsJob
        <4>3. r.at = "written" /\ r.intent = j.intent /\ r.base = j.base BY <4>1, <1>4 DEF IsJob
        <4>4. IsJob(r) BY <1>4, <4>2, <4>3 DEF IsJob
        <4>. QED BY <3>2, <4>1, <4>3, <4>4
      <3>. QED BY <3>1, <3>2
    <2>. HIDE DEF n
    <2>6. /\ cmdJob' = [q \in ConfigCommands |-> cmdJob'[q]]
          /\ DOMAIN cmdJob' = ConfigCommands
          /\ cmdJob'[p] = n
          /\ \A q \in ConfigCommands \ {p} : cmdJob'[q] = cmdJob[q]
      BY <2>4, JobReplaced DEF AccessInv
    <2>7. NoKey \notin soon /\ NoKey \notin gone.told
      BY <1>4 DEF IsJob, IsIntent, AccessInv, AccessShape, Revoked
    <2>8. gone'.told = gone.told \ j.intent.add /\ gone'.soon = soon \ j.intent.add BY <2>3
    <2>9. AccessShape'
      BY <2>3, <2>7, <2>8, <2>5, <2>6, <2>2 DEF Revoked, AccessInv, AccessShape, IsConfig
    <2>10. PageTrue' BY <1>3 DEF AccessInv, PageTrue, IsConfig
    <2>11. \A q \in ConfigCommands : cmdJob'[q].at # "locked" BY <1>2, <2>5, <2>6
    <2>12. LockHeld' BY <2>11 DEF LockHeld
    <2>13. RevokedNotInFile'
      BY <1>1, <2>2, <2>8, <2>11 DEF AccessInv, RevokedNotInFile, Revoked
    <2>14. RefreshDone'
      BY <2>5, <2>6, <2>8, <1>3 DEF ConfigCommands, RefreshDone, AccessInv
    <2>15. RevokedStaysOut' BY <2>8, <1>3 DEF AccessInv, RevokedStaysOut
    <2>. QED BY <2>9, <2>10, <2>12, <2>13, <2>14, <2>15 DEF AccessInv
  <1>. QED BY <1>5, <1>6

\* A key an editor adds is granted; nothing else of the editor's matters.
LEMMA EditByHandSafe ==
  ASSUME AccessInv, EditByHand
  PROVE  AccessInv'
  <1>1. UNCHANGED <<cfgLock, cmdJob, webView, regAllowed, endpoint, unclosed>> /\ edited' = TRUE BY DEF EditByHand
  <1>2. IsConfig(cfgFile) BY DEF AccessInv, AccessShape
  <1>. DEFINE Kept == /\ IsConfig(cfgFile')
                      /\ gone' = [told |-> gone'.told, soon |-> gone'.soon]
                      /\ gone'.told \subseteq gone.told
                      /\ gone'.soon \subseteq gone.soon
                      /\ cfgFile'.allowed \cap (gone'.told \cup gone'.soon) = {}
  <1>3. Kept
    BY <1>2 DEF AccessInv, RevokedNotInFile, Revoked, Granted, IsConfig, AccessShape, EditByHand
  <1>4. AccessShape' BY <1>1, <1>3 DEF AccessInv, AccessShape, Revoked, IsConfig
  <1>5. PageTrue' BY <1>1 DEF AccessInv, PageTrue, IsConfig
  <1>6. LockHeld' BY <1>1 DEF AccessInv, LockHeld
  <1>7. RevokedNotInFile' BY <1>1, <1>3 DEF AccessInv, RevokedNotInFile, Revoked
  <1>8. RefreshDone' BY <1>1, <1>3 DEF AccessInv, RefreshDone
  <1>9. RevokedStaysOut' BY <1>1, <1>3 DEF AccessInv, RevokedStaysOut
  <1>. QED BY <1>4, <1>5, <1>6, <1>7, <1>8, <1>9 DEF AccessInv

\* store.Approve.
LEMMA RecordApprovalSafe ==
  ASSUME AccessInv, NEW p \in {"chat", "cli"}, RecordApproval(p)
  PROVE  AccessInv'
  <1>1. p \in ConfigCommands /\ IsJob(cmdJob[p]) BY DEF AccessInv, AccessShape, ConfigCommands
  <1>2. UNCHANGED <<cfgFile, cfgLock, webView, gone, regAllowed, endpoint, unclosed, edited>> BY DEF RecordApproval
  <1>3. \A q \in ConfigCommands \ {p} : cmdJob[q].at = "locked" => cfgLock' = q /\ edited' = edited
    BY <1>2 DEF AccessInv, LockHeld
  <1>4. cmdJob[p].at = "written" BY DEF RecordApproval
  <1>5. CASE cmdJob' = [cmdJob EXCEPT ![p] = IdleJob]
    BY <1>1, <1>2, <1>3, <1>5, IdleIsJob, CommandMoves
  <1>6. CASE cmdJob' = [cmdJob EXCEPT ![p] = [@ EXCEPT !.rec = NoKey, !.mem = <<>>]]
    <2>1. PICK r : r = [cmdJob[p] EXCEPT !.rec = NoKey, !.mem = <<>>] OBVIOUS
    <2>2. r = [at |-> r.at, intent |-> r.intent, base |-> r.base, mem |-> r.mem, rec |-> r.rec]
      BY <1>1, <2>1 DEF IsJob
    <2>3. r.at = cmdJob[p].at /\ r.intent = cmdJob[p].intent /\ r.base = cmdJob[p].base BY <1>1, <2>1 DEF IsJob
    <2>4. IsJob(r) BY <1>1, <2>2, <2>3 DEF IsJob
    <2>5. cmdJob' = [cmdJob EXCEPT ![p] = r] BY <1>6, <2>1
    <2>. QED BY <1>1, <1>2, <1>3, <1>4, <2>3, <2>4, <2>5, CommandMoves
  <1>. QED BY <1>5, <1>6 DEF RecordApproval

LEMMA OpenPageSafe ==
  ASSUME AccessInv, OpenPage
  PROVE  AccessInv'
  <1>1. UNCHANGED <<cfgFile, cfgLock, cmdJob, gone, regAllowed, endpoint, unclosed, edited>> BY DEF OpenPage
  <1>2. PageTrue'
    BY DEF OpenPage, AccessInv, AccessShape, IsConfig, WithEnv, Redacted, PageTrue
  <1>. QED BY <1>1, <1>2 DEF AccessInv, AccessShape, Revoked, LockHeld, RevokedNotInFile, RefreshDone,
                             RevokedStaysOut

\* Only the registry, the endpoint and the state of the chat's command change, and what the registry takes over
\* is in the file.
LEMMA RegistryMoves ==
  ASSUME AccessInv, NEW j, IsJob(j), j.at # "locked", cmdJob' = [cmdJob EXCEPT !["chat"] = j],
         UNCHANGED <<cfgFile, cfgLock, webView, gone, endpoint, unclosed, edited>>,
         \/ regAllowed' = regAllowed /\ j.at # "refreshed"
         \/ regAllowed' \subseteq cfgFile.allowed
  PROVE  AccessInv'
  <1>0. "chat" \in ConfigCommands BY DEF ConfigCommands
  <1>1. /\ cmdJob' = [q \in ConfigCommands |-> cmdJob'[q]]
        /\ DOMAIN cmdJob' = ConfigCommands
        /\ cmdJob'["chat"] = j
        /\ \A q \in ConfigCommands \ {"chat"} : cmdJob'[q] = cmdJob[q]
    BY <1>0, JobReplaced DEF AccessInv
  <1>2. AccessShape' BY <1>1 DEF AccessInv, AccessShape, IsConfig, Revoked
  <1>3. PageTrue' BY DEF AccessInv, PageTrue, IsConfig
  <1>4. LockHeld' BY <1>1 DEF AccessInv, LockHeld
  <1>5. RevokedNotInFile' BY <1>1 DEF AccessInv, RevokedNotInFile, Revoked
  <1>6. cfgFile.allowed \cap (gone.told \cup gone.soon) = {} BY DEF AccessInv, RevokedNotInFile, Revoked
  <1>7. RefreshDone' BY <1>1, <1>6 DEF AccessInv, RefreshDone
  <1>8. RevokedStaysOut' BY <1>6 DEF AccessInv, RevokedStaysOut
  <1>. QED BY <1>2, <1>3, <1>4, <1>5, <1>7, <1>8 DEF AccessInv

LEMMA ConfiguredInFile == ConfiguredAccess(cfgFile) \subseteq cfgFile.allowed
  BY DEF ConfiguredAccess

LEMMA RefreshSafe ==
  ASSUME AccessInv, Refresh \/ RefreshFails
  PROVE  AccessInv'
  <1>. DEFINE c == cmdJob["chat"]
  <1>1. IsJob(c) BY DEF AccessInv, AccessShape, ConfigCommands
  <1>2. ASSUME NEW at1 \in {"refreshed", "unrefreshed"}
        PROVE  IsJob([c EXCEPT !.at = at1]) /\ [c EXCEPT !.at = at1].at = at1
    <2>1. PICK r : r = [c EXCEPT !.at = at1] OBVIOUS
    <2>2. r = [at |-> r.at, intent |-> r.intent, base |-> r.base, mem |-> r.mem, rec |-> r.rec]
      BY <1>1, <2>1 DEF IsJob
    <2>3. r.at = at1 /\ r.intent = c.intent /\ r.base = c.base BY <1>1, <2>1 DEF IsJob
    <2>4. IsJob(r) BY <1>1, <2>2, <2>3 DEF IsJob
    <2>. QED BY <2>1, <2>3, <2>4
  <1>3. UNCHANGED <<cfgFile, cfgLock, webView, gone, endpoint, unclosed, edited>> BY DEF Refresh, RefreshFails
  <1>4. CASE Refresh
    BY <1>4, ConfiguredInFile, <1>2, <1>3, RegistryMoves DEF Refresh, SetAllowed
  <1>5. CASE RefreshFails BY <1>5, <1>2, <1>3, RegistryMoves DEF RefreshFails
  <1>. QED BY <1>4, <1>5

\* detachUnauthorizedCodexFollowersLocked: an endpoint that stays is one the registry admits, or one that could
\* not be cleared.
LEMMA Detached ==
  ASSUME DetachUnauthorized
  PROVE  \/ endpoint' \in {NoKey} \cup regAllowed
         \/ unclosed'
  BY DEF DetachUnauthorized, ClearEndpoint, AccessAdmits

\* The chat is told: what it removed is out of the registry, and no endpoint of it is left.
LEMMA AnswerSafe ==
  ASSUME AccessInv, Answer
  PROVE  AccessInv'
  <1>0. "chat" \in ConfigCommands BY DEF ConfigCommands
  <1>1. UNCHANGED <<cfgFile, cfgLock, webView, regAllowed, edited>> BY DEF Answer
  <1>2. cmdJob' = [cmdJob EXCEPT !["chat"] = IdleJob] BY DEF Answer
  <1>3. /\ cmdJob' = [q \in ConfigCommands |-> cmdJob'[q]]
        /\ DOMAIN cmdJob' = ConfigCommands
        /\ cmdJob'["chat"] = IdleJob
        /\ \A q \in ConfigCommands \ {"chat"} : cmdJob'[q] = cmdJob[q]
    BY <1>0, <1>2, JobReplaced DEF AccessInv
  <1>4. IsJob(IdleJob) /\ IdleJob.at = "idle" BY IdleIsJob
  <1>5. gone = [told |-> gone.told, soon |-> gone.soon] /\ NoKey \notin Revoked BY DEF AccessInv, AccessShape
  <1>6. /\ gone' = [told |-> gone'.told, soon |-> gone'.soon]
        /\ Revoked' = Revoked
        /\ NoKey \notin Revoked'
        /\ regAllowed \cap gone'.told = {}
    BY <1>5 DEF AccessInv, RevokedStaysOut, Answer, RefreshDone, Revoked
  <1>7. AccessShape' BY <1>1, <1>3, <1>4, <1>6 DEF AccessInv, AccessShape, IsConfig
  <1>8. PageTrue' BY <1>1 DEF AccessInv, PageTrue, IsConfig
  <1>9. LockHeld' BY <1>1, <1>3, <1>4 DEF AccessInv, LockHeld
  <1>10. RevokedNotInFile' BY <1>1, <1>3, <1>4, <1>6 DEF AccessInv, RevokedNotInFile
  <1>11. RefreshDone' BY <1>3, <1>4 DEF RefreshDone
  <1>12. RevokedStaysOut' BY Detached, <1>1, <1>6 DEF Answer, RevokedStaysOut, Revoked
  <1>. QED BY <1>7, <1>8, <1>9, <1>10, <1>11, <1>12 DEF AccessInv

\* The reloader, the messages and the code that runs out.
LEMMA ReloadSafe ==
  ASSUME AccessInv, ReloadTick \/ ReloadApply \/ ReloadReconcile
  PROVE  AccessInv'
  <1>1. UNCHANGED <<cfgFile, cfgLock, cmdJob, webView, gone, edited>> BY DEF ReloadTick, ReloadApply, ReloadReconcile
  <1>2. regAllowed' = regAllowed \/ regAllowed' \subseteq cfgFile.allowed
    BY ConfiguredInFile DEF ReloadTick, ReloadApply, ReloadReconcile, SetAllowed, LatestAccess
  <1>3. cfgFile.allowed \cap (gone.told \cup gone.soon) = {} BY DEF AccessInv, RevokedNotInFile, Revoked
  <1>4. \/ UNCHANGED <<endpoint, unclosed>>
        \/ regAllowed' = regAllowed /\ (endpoint' \in {NoKey} \cup regAllowed \/ unclosed')
    BY Detached DEF ReloadTick, ReloadApply, ReloadReconcile
  <1>5. RefreshDone' BY <1>1, <1>2, <1>3 DEF AccessInv, RefreshDone
  <1>6. RevokedStaysOut' BY <1>1, <1>2, <1>3, <1>4 DEF AccessInv, RevokedStaysOut, AccessShape, Revoked
  <1>. QED BY <1>1, <1>5, <1>6 DEF AccessInv, AccessShape, Revoked, PageTrue, LockHeld, RevokedNotInFile

LEMMA MessagesSafe ==
  ASSUME AccessInv,
         \/ \E u, k : GuardedDispatch(u, k)
         \/ CodeExpires \/ StoreEndpoint \/ OrdinaryMessage
  PROVE  AccessInv'
  <1>1. UNCHANGED <<cfgFile, cfgLock, cmdJob, webView, regAllowed, gone, edited>>
    BY DEF GuardedDispatch, CodeExpires, StoreEndpoint, OrdinaryMessage
  <1>2. UNCHANGED <<endpoint, unclosed>> \/ endpoint' \in regAllowed
    BY DEF GuardedDispatch, CodeExpires, StoreEndpoint, OrdinaryMessage, IdentityAuthorized, AccessAdmits
  <1>3. RevokedStaysOut' BY <1>1, <1>2 DEF AccessInv, RevokedStaysOut
  <1>. QED BY <1>1, <1>3 DEF AccessInv, AccessShape, Revoked, PageTrue, LockHeld, RevokedNotInFile, RefreshDone

\* The service is started again with what the file says.
LEMMA AccessRestartSafe ==
  ASSUME AccessInv, AccessRestart
  PROVE  AccessInv'
  <1>0. "chat" \in ConfigCommands BY DEF ConfigCommands
  <1>1. UNCHANGED <<cfgFile, webView, gone, endpoint, unclosed, edited>> BY DEF AccessRestart
  <1>2. cmdJob' = [cmdJob EXCEPT !["chat"] = IdleJob] BY DEF AccessRestart
  <1>3. regAllowed' \subseteq cfgFile.allowed BY ConfiguredInFile DEF AccessRestart, SetAllowed
  <1>4. IsJob(IdleJob) /\ IdleJob.at = "idle" BY IdleIsJob
  <1>5. /\ cmdJob' = [q \in ConfigCommands |-> cmdJob'[q]]
        /\ DOMAIN cmdJob' = ConfigCommands
        /\ cmdJob'["chat"] = IdleJob
        /\ \A q \in ConfigCommands \ {"chat"} : cmdJob'[q] = cmdJob[q]
    BY <1>0, <1>2, JobReplaced DEF AccessInv
  <1>6. \A q \in ConfigCommands : cmdJob'[q].at # "locked"
    BY <1>4, <1>5 DEF AccessRestart, ConfigCommands, NoUser, AccessInv, LockHeld
  <1>7. cfgFile.allowed \cap (gone.told \cup gone.soon) = {} BY DEF AccessInv, RevokedNotInFile, Revoked
  <1>8. AccessShape' BY <1>1, <1>4, <1>5 DEF AccessInv, AccessShape, IsConfig, Revoked
  <1>9. PageTrue' BY <1>1 DEF AccessInv, PageTrue, IsConfig
  <1>10. LockHeld' /\ RevokedNotInFile' BY <1>1, <1>6, <1>7 DEF LockHeld, RevokedNotInFile, Revoked
  <1>11. RefreshDone' BY <1>4, <1>5 DEF RefreshDone
  <1>12. RevokedStaysOut' BY <1>1, <1>3, <1>7 DEF AccessInv, RevokedStaysOut
  <1>. QED BY <1>8, <1>9, <1>10, <1>11, <1>12 DEF AccessInv

LEMMA AccessStepSafe == AccessInv /\ [AccessNext]_accessVars => AccessInv'
  <1>. SUFFICES ASSUME AccessInv, [AccessNext]_accessVars PROVE AccessInv' OBVIOUS
  <1>1. CASE UNCHANGED accessVars
    BY <1>1 DEF accessVars, AccessInv, AccessShape, Revoked, PageTrue, LockHeld, RevokedNotInFile, RefreshDone,
                RevokedStaysOut
  <1>2. CASE AccessNext
    BY <1>2, LockAndReadSafe, WriteConfigSafe, AccessWriteFailsSafe, CommandsBeginSafe, RecordApprovalSafe,
       OpenPageSafe, EditByHandSafe, RefreshSafe, AnswerSafe, ReloadSafe, MessagesSafe, AccessRestartSafe
       DEF AccessNext
  <1>. QED BY <1>1, <1>2

LEMMA AccessInvariant == AccessSpec => []AccessInv
  BY AccessInitSafe, AccessStepSafe, PTL DEF AccessSpec

(* A key that a chat command reported as revoked stays out of the registry,  *)
(* and leaves no follower endpoint, until somebody grants it again, however  *)
(* many commands, edits, reloads and restarts are under way                  *)
(* (revokeFeishuIdentity, refreshFeishuAccountAccess).                       *)
THEOREM RevokedStayOut == AccessSpec => []RevokedStaysOut
  BY AccessInvariant, PTL DEF AccessInv

(* Every write of config.Update that no editor crossed changes what its      *)
(* command is about and keeps the rest of the file as the others left it.    *)
THEOREM WritesKeepTheRest == AccessSpec => UpdatesKeepTheRest
  <1>1. AccessInv /\ [AccessNext]_accessVars =>
          [\A p \in ConfigCommands : (WriteConfig(p) /\ cfgFile' # cfgFile /\ ~edited) => KeptTheRest(p)]_accessVars
    <2>. SUFFICES ASSUME AccessInv, NEW p \in ConfigCommands, WriteConfig(p), cfgFile' # cfgFile, ~edited
                  PROVE  KeptTheRest(p)
      OBVIOUS
    <2>1. /\ p = "web" => SameRevision(WithEnv(cmdJob[p].base), webView)
          /\ cfgFile' = NewContent(p)
      BY DEF WriteConfig
    <2>2. cmdJob[p].base = cfgFile BY DEF WriteConfig, AccessInv, LockHeld
    <2>. QED BY <2>1, <2>2, Content DEF KeptTheRest
  <1>. QED BY <1>1, AccessInvariant, PTL DEF AccessSpec, UpdatesKeepTheRest

--------------------
(* Every set of natural numbers has a least element.                       *)

\* A set of natural numbers has a least element; with it the arguments below go by induction.
LEMMA LeastNumber ==
  ASSUME NEW T \in SUBSET Nat, T # {}
  PROVE  \E x \in T : \A y \in T : x <= y
<1> DEFINE less == OpToRel(<, Nat)
<1>1. IsWellFoundedOn(less, Nat) BY NatLessThanWellFounded
<1>2. \A x, y \in T : y < x => <<y, x>> \in less BY Zenon DEF OpToRel
<1> HIDE DEF less
<1>3. PICK x \in T : \A y \in T : <<y, x>> \notin less BY <1>1, WFMin
<1>4. \A y \in T : ~(y < x) BY <1>2, <1>3, Zenon
<1> QED BY <1>4

--------------------
(* Feishu events: the queue of the window.                                 *)

Idling == {"none", "download", "ready", "mirror"}
Busy == {"queued", "running", "left"}
Nodes == plan \cup {NoOne}

\* f finds the open node behind each node.
Finds(f, nodes) ==
  f = [x \in Nodes |-> IF x = NoOne THEN NoOne
                       ELSE IF nodes[x].redirect # NoOne THEN f[nodes[x].redirect]
                       ELSE IF nodes[x].open THEN x ELSE NoOne]

\* A node that stepped aside leads to one reserved before it.
Ranked(r, nodes) ==
  /\ r \in [plan -> Nat]
  /\ \A x \in plan : /\ nodes[x].redirect \in Nodes
                     /\ nodes[x].redirect # NoOne => r[nodes[x].redirect] < r[x]

\* The redirects of the queue are well founded, so each node leads to one open node (pendingNode, dispatch_order.go).
LEMMA FindsOnce ==
  ASSUME NEW nodes, NEW r, Ranked(r, nodes), NEW f, Finds(f, nodes), NEW g, Finds(g, nodes)
  PROVE  f = g
<1> DEFINE T == {n \in Nat : \E x \in plan : r[x] = n /\ f[x] # g[x]}
<1>1. ASSUME T # {} PROVE FALSE
  <2>1. PICK n \in T : \A m \in T : n <= m BY <1>1, LeastNumber
  <2>2. PICK x \in plan : r[x] = n /\ f[x] # g[x] BY <2>1
  <2> DEFINE y == nodes[x].redirect
  <2>3. x # NoOne => /\ f[x] = IF y # NoOne THEN f[y] ELSE IF nodes[x].open THEN x ELSE NoOne
                     /\ g[x] = IF y # NoOne THEN g[y] ELSE IF nodes[x].open THEN x ELSE NoOne
    BY <2>2, Zenon DEF Finds, Nodes
  <2>4. f[NoOne] = NoOne /\ g[NoOne] = NoOne BY Zenon DEF Finds, Nodes
  <2>5. y \in plan /\ f[y] # g[y] /\ r[y] < r[x] /\ r[y] \in Nat /\ r[x] \in Nat
    BY <2>2, <2>3, <2>4 DEF Ranked, Nodes
  <2> QED BY <2>1, <2>2, <2>5
<1>2. \A x \in plan : f[x] = g[x] BY <1>1 DEF Ranked
<1>3. f[NoOne] = g[NoOne] BY Zenon DEF Finds, Nodes
<1>4. DOMAIN f = Nodes /\ DOMAIN g = Nodes /\ f = [x \in DOMAIN f |-> f[x]] /\ g = [x \in DOMAIN g |-> g[x]]
  BY Zenon DEF Finds
<1>5. \A x \in Nodes : f[x] = g[x] BY <1>2, <1>3 DEF Nodes
<1> QED BY <1>4, <1>5

\* What pendingNode computes is the function that satisfies its equation.
LEMMA PendingFound ==
  ASSUME NEW nodes, NEW r, Ranked(r, nodes), NEW f, Finds(f, nodes), NEW h
  PROVE  PendingNode(nodes, h) = f[h]
<1> DEFINE F == CHOOSE g : g = [x \in plan \cup {NoOne} |-> IF x = NoOne THEN NoOne
                       ELSE IF nodes[x].redirect # NoOne THEN g[nodes[x].redirect]
                       ELSE IF nodes[x].open THEN x ELSE NoOne]
<1>1. PendingNode(nodes, h) = F[h] BY Zenon DEF PendingNode
<1>2. Finds(F, nodes) BY Zenon DEF Finds, Nodes
<1> QED BY <1>1, <1>2, FindsOnce, Zenon

Line(f, r) ==
  /\ Finds(f, node) /\ Ranked(r, node)
  /\ f \in [Nodes -> Nodes]
  /\ \A x \in Nodes : f[x] # NoOne => at[f[x]] \in Busy
  /\ \A x \in plan : at[x] \in Busy =>
       /\ f[node[x].prev] # NoOne => r[f[node[x].prev]] < r[x]
       /\ node[x].prev # NoOne => r[node[x].prev] < r[x]
  /\ \A x, y \in plan : (x # y /\ at[x] \in Busy /\ at[y] \in Busy) => f[node[x].prev] # f[node[y].prev]
  /\ \A x \in plan : at[x] \in Busy => f[node[x].prev] # tail
  /\ \A x \in plan : (at[x] \in {"running", "left"} /\ x[1] # "stop") => f[node[x].prev] = NoOne

Queue ==
  /\ NoOne \notin plan
  /\ at \in [plan -> Idling \cup Busy \cup {"ended"}]
  /\ node \in [plan -> [prev : Nodes, open : BOOLEAN, redirect : Nodes]]
  /\ tail \in Nodes /\ (tail # NoOne => at[tail] \in Busy)
  /\ \A x \in plan : at[x] \in Busy => node[x].open /\ node[x].redirect = NoOne
  /\ \A x \in plan : at[x] \in Idling => \A y \in plan : node[y].prev # x /\ node[y].redirect # x
  /\ \E f, r : Line(f, r)

\* The queue is empty.
LEMMA QueueInit == IngressInit => Queue
<1> SUFFICES ASSUME IngressInit PROVE Queue OBVIOUS
<1>1. NoOne \notin plan
  BY IngressAssumption DEF IngressInit, NoOne, Deliveries, Arrivals
<1> DEFINE f == [x \in Nodes |-> NoOne]
           r == [x \in plan |-> 0]
<1>2. Line(f, r) BY <1>1 DEF IngressInit, Line, Finds, Ranked, Nodes, Closed, Busy
<1> QED BY <1>1, <1>2 DEF IngressInit, Queue, Idling, Busy, Nodes, Closed

\* The queue stays, and no delivery leaves it.
LEMMA QueueStays ==
  ASSUME Queue, UNCHANGED <<plan, node, tail>>, at' \in [plan -> Idling \cup Busy \cup {"ended"}],
         \A x \in plan : /\ at'[x] \in Busy <=> at[x] \in Busy
                         /\ at'[x] \in Idling => at[x] \in Idling,
         \A x \in plan : (at'[x] \in {"running", "left"} /\ x[1] # "stop") =>
                            at[x] \in {"running", "left"} \/ Turn(x)
  PROVE  Queue'
<1>1. PICK f, r : Line(f, r) BY DEF Queue
<1>2. \A x \in plan : Turn(x) <=> f[node[x].prev] = NoOne
  BY <1>1, PendingFound DEF Line, Turn
<1>3. Nodes' = Nodes /\ Finds(f, node)' /\ Ranked(r, node)'
  BY <1>1 DEF Line, Nodes, Finds, Ranked
<1>4. Line(f, r)' BY <1>1, <1>2, <1>3 DEF Line, Nodes, Queue
<1> QED BY <1>3, <1>4 DEF Queue, Nodes

\* A delivery that reserves its place stands behind the tail and becomes the tail.
LEMMA ReservesSafe ==
  ASSUME Queue, NEW h \in plan, at[h] \in Idling, Reserves(h), UNCHANGED plan,
         at' \in [plan -> Idling \cup Busy \cup {"ended"}], at'[h] = "queued",
         \A x \in plan \ {h} : /\ at'[x] \in Busy => at'[x] = at[x]
                               /\ at[x] \in Busy => at'[x] = at[x]
                               /\ at'[x] \in Idling => at[x] \in Idling
  PROVE  Queue'
<1>1. PICK f, r : Line(f, r) BY DEF Queue
<1>2. /\ node' = [node EXCEPT ![h] = [prev |-> tail, open |-> TRUE, redirect |-> NoOne]]
      /\ tail' = h /\ Nodes' = Nodes /\ h # NoOne
  BY DEF Reserves, Queue, Nodes
<1> PICK f2 : f2 = [f EXCEPT ![h] = h] OBVIOUS
<1> PICK r2 : r2 = [r EXCEPT ![h] = IF tail = NoOne THEN 0 ELSE r[tail] + 1] OBVIOUS
<1>3. /\ node'[h] = [prev |-> tail, open |-> TRUE, redirect |-> NoOne]
      /\ \A x \in plan \ {h} : node'[x] = node[x]
  BY <1>2 DEF Queue
<1>4. tail # h /\ tail \in Nodes BY DEF Queue, Idling, Busy
<1>5. \A x \in plan : node[x].redirect # h /\ node[x].prev # h /\ node[x].redirect \in Nodes /\ node[x].prev \in Nodes
  BY DEF Queue
<1>6. f2 \in [Nodes -> Nodes] /\ f2[h] = h /\ \A x \in Nodes \ {h} : f2[x] = f[x]
  BY <1>1 DEF Line, Nodes
<1>7. \A x \in Nodes : f[x] # h BY <1>1, <1>2 DEF Line, Idling, Busy
<1>8. r2 \in [plan -> Nat] /\ \A x \in plan \ {h} : r2[x] = r[x]
  BY <1>1, <1>4 DEF Line, Ranked, Nodes
<1>9. \A x \in Nodes : f[x] = IF x = NoOne THEN NoOne
                              ELSE IF node[x].redirect # NoOne THEN f[node[x].redirect]
                              ELSE IF node[x].open THEN x ELSE NoOne
  BY <1>1, Zenon DEF Line, Finds
<1>10. \A x \in Nodes : f2[x] = IF x = NoOne THEN NoOne
                              ELSE IF node'[x].redirect # NoOne THEN f2[node'[x].redirect]
                              ELSE IF node'[x].open THEN x ELSE NoOne
  BY <1>2, <1>3, <1>5, <1>6, <1>9 DEF Nodes
<1>11. Finds(f2, node)' BY <1>6, <1>2, <1>10 DEF Finds
<1>12. Ranked(r2, node)' BY <1>1, <1>2, <1>3, <1>5, <1>8 DEF Line, Ranked, Nodes
<1>13. f2[tail] = tail BY <1>6, <1>9, <1>2, <1>4 DEF Nodes, Queue
<1>14. tail # NoOne => r2[tail] < r2[h] /\ tail \in plan /\ at'[tail] \in Busy
  BY <1>1, <1>4, <1>8 DEF Queue, Line, Ranked, Nodes
<1>15. \A x \in plan \ {h} : node'[x].prev = node[x].prev /\ f2[node[x].prev] = f[node[x].prev]
  BY <1>3, <1>5, <1>6
<1>16. Line(f2, r2)'
  <2>1. \A x \in Nodes : f2[x] # NoOne => at'[f2[x]] \in Busy
    BY <1>1, <1>6, <1>7 DEF Line, Nodes, Busy
  <2>2. \A x \in plan : at'[x] \in Busy => (f2[node'[x].prev] # NoOne => r2[f2[node'[x].prev]] < r2[x])
    BY <1>1, <1>5, <1>7, <1>8, <1>15, <1>3, <1>13, <1>14 DEF Line, Nodes
  <2>6. \A x \in plan : at'[x] \in Busy => (node'[x].prev # NoOne => r2[node'[x].prev] < r2[x])
    BY <1>1, <1>3, <1>5, <1>8, <1>14 DEF Line, Nodes
  <2>3. \A x, y \in plan : (x # y /\ at'[x] \in Busy /\ at'[y] \in Busy) => f2[node'[x].prev] # f2[node'[y].prev]
    BY <1>1, <1>3, <1>13, <1>15 DEF Line
  <2>4. \A x \in plan : at'[x] \in Busy => f2[node'[x].prev] # h
    BY <1>3, <1>4, <1>5, <1>7, <1>13, <1>15
  <2>5. \A x \in plan : (at'[x] \in {"running", "left"} /\ x[1] # "stop") => f2[node'[x].prev] = NoOne
    BY <1>1, <1>15 DEF Line, Busy
  <2> QED BY <1>2, <1>6, <1>11, <1>12, <2>1, <2>2, <2>3, <2>4, <2>5, <2>6 DEF Line
<1>17. Queue' BY <1>2, <1>4, <1>3, <1>16 DEF Busy, Queue, Nodes, Idling
<1> QED BY <1>17

\* Node h is closed and leads to the node `to`; the others stay.
Closes(after, h, to) ==
  /\ after \in [plan -> [prev : Nodes, open : BOOLEAN, redirect : Nodes]]
  /\ after[h].prev = node[h].prev /\ ~after[h].open /\ after[h].redirect = to
  /\ \A x \in plan \ {h} : after[x] = node[x]

\* A node closes and leads to another one: what led to it leads there.
LEMMA SteppedOver ==
  ASSUME Queue, NEW h \in plan, at[h] \in Busy, NEW f, NEW r, Line(f, r),
         NEW to \in {NoOne, node[h].prev}, f[to] = f[node[h].prev], to # NoOne => r[to] < r[h],
         NEW after, Closes(after, h, to)
  PROVE  /\ Ranked(r, after)
         /\ \E f2 \in [Nodes -> Nodes] : /\ Finds(f2, after)
                                         /\ \A x \in Nodes : f2[x] = IF f[x] = h THEN f[node[h].prev] ELSE f[x]
<1> PICK y : y = f[node[h].prev] OBVIOUS
<1> PICK f2 : f2 = [x \in Nodes |-> IF f[x] = h THEN y ELSE f[x]] OBVIOUS
<1>1. node[h].prev \in Nodes /\ y \in Nodes /\ h # NoOne /\ to \in Nodes
  BY DEF Queue, Line, Nodes
<1>2. y # h BY <1>1 DEF Line, Ranked, Nodes
<1>3. /\ after[h].prev = node[h].prev /\ ~after[h].open /\ after[h].redirect = to
      /\ \A x \in plan \ {h} : after[x] = node[x]
  BY DEF Closes
<1>4. \A x \in Nodes : f[x] = IF x = NoOne THEN NoOne
                              ELSE IF node[x].redirect # NoOne THEN f[node[x].redirect]
                              ELSE IF node[x].open THEN x ELSE NoOne
  BY Zenon DEF Line, Finds
<1>5. f2 \in [Nodes -> Nodes] /\ \A x \in Nodes : f2[x] = IF f[x] = h THEN y ELSE f[x]
  BY <1>1, <1>4 DEF Line
<1>6. f[h] = h BY <1>1, <1>4 DEF Queue, Nodes
<1>7. \A x \in Nodes : f2[x] = IF x = NoOne THEN NoOne
                              ELSE IF after[x].redirect # NoOne THEN f2[after[x].redirect]
                              ELSE IF after[x].open THEN x ELSE NoOne
  BY <1>3, <1>1, <1>4, <1>5, <1>6, <1>2 DEF Queue, Nodes
<1>8. Finds(f2, after) BY <1>5, <1>7 DEF Finds
<1>9. Ranked(r, after) BY <1>1, <1>3 DEF Line, Ranked, Nodes
<1> QED BY <1>5, <1>8, <1>9

\* What is common to a ticket that is finished and one that steps aside.
LEMMA LeavesSafe ==
  ASSUME Queue, NEW h \in plan, at[h] \in Busy, UNCHANGED plan, NEW f, NEW r, Line(f, r),
         NEW to \in {NoOne, node[h].prev}, f[to] = f[node[h].prev], to # NoOne => r[to] < r[h],
         Closes(node', h, to),
         tail' = IF tail = h THEN f[node[h].prev] ELSE tail,
         at' = [at EXCEPT ![h] = "ended"]
  PROVE  Queue'
<1> PICK y : y = f[node[h].prev] OBVIOUS
<1>0. PICK f2 \in [Nodes -> Nodes] : /\ Finds(f2, node') /\ Ranked(r, node')
                                     /\ \A x \in Nodes : f2[x] = IF f[x] = h THEN y ELSE f[x]
  <2>1. Ranked(r, node') /\ \E f2 \in [Nodes -> Nodes] :
           Finds(f2, node') /\ \A x \in Nodes : f2[x] = IF f[x] = h THEN f[node[h].prev] ELSE f[x]
    BY SteppedOver
  <2> QED BY <2>1, Zenon
<1>1. node[h].prev \in Nodes /\ y \in Nodes /\ h # NoOne /\ to \in Nodes /\ Nodes' = Nodes
  BY DEF Queue, Line, Nodes
<1>2. y # h BY <1>1 DEF Line, Ranked, Nodes
<1>3. /\ node'[h].prev = node[h].prev /\ ~node'[h].open /\ node'[h].redirect = to
      /\ \A x \in plan \ {h} : node'[x] = node[x]
  BY DEF Closes
<1>5. f2 \in [Nodes -> Nodes] /\ \A x \in Nodes : f2[x] = IF f[x] = h THEN y ELSE f[x]
  BY <1>0
<1>8. Finds(f2, node)' BY <1>0, <1>1 DEF Finds
<1>9. Ranked(r, node)' BY <1>0, <1>1 DEF Ranked
<1>10. \A x \in plan : node'[x].prev = node[x].prev /\ node[x].prev \in Nodes
  BY <1>3 DEF Queue
<1>11. \A x \in plan : at'[x] \in Busy => x # h /\ at'[x] = at[x] BY DEF Queue, Busy
<1>12. \A x \in plan \ {h} : at'[x] = at[x] BY DEF Queue
<1>13. Line(f2, r)'
  <2>1. \A x \in Nodes : f2[x] # NoOne => at'[f2[x]] \in Busy
    BY <1>1, <1>2, <1>5, <1>12 DEF Line, Nodes
  <2>2. \A x \in plan : at'[x] \in Busy => (f2[node'[x].prev] # NoOne => r[f2[node'[x].prev]] < r[x])
    <3> SUFFICES ASSUME NEW x \in plan, at'[x] \in Busy, f2[node'[x].prev] # NoOne
                 PROVE  r[f2[node'[x].prev]] < r[x]
      OBVIOUS
    <3>1. CASE f[node[x].prev] # h BY <3>1, <1>5, <1>10, <1>11 DEF Line
    <3>2. CASE f[node[x].prev] = h
      <4>1. f2[node'[x].prev] = y /\ r[y] < r[h] /\ r[h] < r[x] /\ y \in plan
        BY <3>2, <1>1, <1>5, <1>10, <1>11 DEF Line, Nodes
      <4>2. r[y] \in Nat /\ r[h] \in Nat /\ r[x] \in Nat BY <4>1 DEF Line, Ranked
      <4>3. \A a, b, c \in Nat : a < b /\ b < c => a < c OBVIOUS
      <4>4. r[y] < r[x] BY <4>1, <4>2, <4>3, Zenon
      <4> QED BY <4>1, <4>4, Zenon
    <3> QED BY <3>1, <3>2
  <2>3. \A a, b \in plan : (a # b /\ at'[a] \in Busy /\ at'[b] \in Busy) => f2[node'[a].prev] # f2[node'[b].prev]
    BY <1>5, <1>10, <1>11 DEF Line
  <2>4. \A x \in plan : at'[x] \in Busy => f2[node'[x].prev] # tail'
    BY <1>5, <1>10, <1>11 DEF Line
  <2>5. \A x \in plan : (at'[x] \in {"running", "left"} /\ x[1] # "stop") => f2[node'[x].prev] = NoOne
    BY <1>1, <1>5, <1>10, <1>11 DEF Line, Busy
  <2>6. \A x \in Nodes : f2[x] \in Nodes BY <1>5
  <2>7. \A x \in plan : at'[x] \in Busy => (node'[x].prev # NoOne => r[node'[x].prev] < r[x])
    BY <1>10, <1>11 DEF Line
  <2> QED BY <1>1, <1>5, <1>8, <1>9, <2>1, <2>2, <2>3, <2>4, <2>5, <2>7 DEF Line
<1>14. Queue'
  <2>1. tail' \in Nodes /\ (tail' # NoOne => at'[tail'] \in Busy)
    BY <1>1, <1>2, <1>12 DEF Line, Queue, Nodes
  <2>2. node' \in [plan -> [prev : Nodes, open : BOOLEAN, redirect : Nodes]]
    BY <1>1 DEF Closes
  <2>3. \A x \in plan : at'[x] \in Busy => node'[x].open /\ node'[x].redirect = NoOne
    BY <1>3, <1>11 DEF Queue
  <2>4. \A x \in plan : at'[x] \in Idling => \A z \in plan : node'[z].prev # x /\ node'[z].redirect # x
    BY <1>12, <1>3, <1>10 DEF Queue, Idling
  <2>5. at' \in [plan -> Idling \cup Busy \cup {"ended"}] BY DEF Queue
  <2> QED BY <1>1, <1>13, <2>1, <2>2, <2>3, <2>4, <2>5 DEF Queue
<1> QED BY <1>14

\* A delivery that finishes closes its node.
LEMMA FinishesSafe ==
  ASSUME Queue, NEW h \in plan, at[h] \in Busy, UNCHANGED plan, Turn(h), Finishes(h), at' = [at EXCEPT ![h] = "ended"]
  PROVE  Queue'
<1>1. PICK f, r : Line(f, r) BY DEF Queue
<1>2. f[node[h].prev] = NoOne /\ f[NoOne] = NoOne
  <2>1. f[node[h].prev] = NoOne BY <1>1, PendingFound DEF Line, Turn
  <2>2. f[NoOne] = NoOne BY <1>1, Zenon DEF Line, Finds, Nodes
  <2> QED BY <2>1, <2>2
<1>3. Closes(node', h, NoOne) BY DEF Finishes, Queue, Closes, Nodes
<1>4. tail' = IF tail = h THEN f[node[h].prev] ELSE tail BY <1>2 DEF Finishes
<1> QED BY <1>1, <1>2, <1>3, <1>4, LeavesSafe

\* A delivery that steps aside leaves its place to the one before it.
LEMMA StepsAsideSafe ==
  ASSUME Queue, NEW h \in plan, at[h] \in Busy, UNCHANGED plan, ~Turn(h), StepsAside(h), at' = [at EXCEPT ![h] = "ended"]
  PROVE  Queue'
<1>1. PICK f, r : Line(f, r) BY DEF Queue
<1>2. f[node[h].prev] # NoOne BY <1>1, PendingFound DEF Line, Turn
<1>3. Closes(node', h, node[h].prev)
  <2>1. node' = [node EXCEPT ![h].open = FALSE, ![h].redirect = node[h].prev]
    BY DEF StepsAside
  <2>2. node[h] \in [prev : Nodes, open : BOOLEAN, redirect : Nodes] /\ node[h].prev \in Nodes
        /\ node \in [plan -> [prev : Nodes, open : BOOLEAN, redirect : Nodes]]
    BY DEF Queue
  <2>3. PICK mid : mid = [node EXCEPT ![h].open = FALSE] OBVIOUS
  <2>4. mid \in [plan -> [prev : Nodes, open : BOOLEAN, redirect : Nodes]]
        /\ mid[h].prev = node[h].prev /\ ~mid[h].open /\ \A x \in plan \ {h} : mid[x] = node[x]
    BY <2>2, <2>3
  <2>5. node' = [mid EXCEPT ![h].redirect = node[h].prev] BY <2>1, <2>2, <2>3
  <2> QED BY <2>2, <2>4, <2>5 DEF Closes
<1>4. f[node[h].prev] # h /\ node[h].prev \in plan /\ r[node[h].prev] < r[h]
  <2>1. f[NoOne] = NoOne BY <1>1, Zenon DEF Line, Finds, Nodes
  <2>2. node[h].prev \in plan BY <1>2, <2>1 DEF Queue, Nodes
  <2>3. r[node[h].prev] < r[h] BY <1>1, <2>2 DEF Line, Queue
  <2>4. r[h] \in Nat /\ r[f[node[h].prev]] < r[h] BY <1>1, <1>2 DEF Line, Ranked
  <2> QED BY <2>2, <2>3, <2>4
<1>5. Ranked(r, node') /\ \E f2 \in [Nodes -> Nodes] : Finds(f2, node') /\ f2[node[h].prev] = f[node[h].prev]
  <2>1. Ranked(r, node') /\ \E f2 \in [Nodes -> Nodes] :
           Finds(f2, node') /\ \A x \in Nodes : f2[x] = IF f[x] = h THEN f[node[h].prev] ELSE f[x]
    BY <1>1, <1>3, <1>4, SteppedOver
  <2> QED BY <2>1, <1>4 DEF Nodes
<1>6. PendingNode(node', node[h].prev) = f[node[h].prev] BY <1>5, PendingFound
<1>7. tail' = IF tail = h THEN f[node[h].prev] ELSE tail BY <1>6 DEF StepsAside
<1> QED BY <1>1, <1>3, <1>4, <1>7, LeavesSafe

\* The restart: nothing waits any more.
LEMMA RestartQueueSafe ==
  ASSUME Queue, NEW expired \in SUBSET seen.disk, IngressRestarts(expired)
  PROVE  Queue'
<1>1. /\ plan' = plan /\ tail' = NoOne /\ node' = [h \in plan |-> Closed]
      /\ at' = [h \in plan |-> IF at[h] = "none" THEN "none" ELSE "ended"]
  BY DEF IngressRestarts, TimePasses
<1> PICK f : f = [x \in Nodes |-> NoOne] OBVIOUS
<1> PICK r : r = [x \in plan |-> 0] OBVIOUS
<1>2. \A x \in plan : at'[x] \notin Busy BY <1>1 DEF Busy
<1>3. Line(f, r)' BY <1>1, <1>2 DEF Line, Finds, Ranked, Nodes, Closed
<1> QED BY <1>1, <1>2, <1>3 DEF Queue, Nodes, Idling, Closed, NoOne

\* Every step keeps the queue.
LEMMA QueueStep ==
  ASSUME Queue, IngressNext
  PROVE  Queue'
<1>1. ASSUME NEW h \in plan, DuplicateEvent(h) \/ StaleEvent(h) \/ (\E attached \in BOOLEAN : MessageEvent(h, attached))
      PROVE  Queue'
  BY <1>1, QueueStays DEF DuplicateEvent, StaleEvent, MessageEvent, Arrives, NoIngressMishap, WriteFails, IngressMishap,
     TimePasses, Queue, Idling, Busy
<1>2. ASSUME NEW h \in plan, CardActionEvent(h) PROVE Queue'
  BY <1>2, QueueStays, ReservesSafe DEF CardActionEvent, Arrives, NoIngressMishap, Queue, Idling, Busy
<1>3. ASSUME NEW h \in plan, CardAnswered(h) PROVE Queue'
  BY <1>3, QueueStays DEF CardAnswered, NoIngressMishap, Queue
<1>4. ASSUME NEW h \in plan, Downloaded(h) \/ LeaseLost(h) \/ DownloadFails(h) \/ MirrorDropped(h) \/ MirrorHeld(h)
      PROVE  Queue'
  BY <1>4, QueueStays DEF Downloaded, LeaseLost, DownloadFails, MirrorDropped, MirrorHeld, NoIngressMishap, WriteFails,
     IngressMishap, TimePasses, Queue, Idling, Busy
<1>5. ASSUME NEW h \in plan, TopicRecorded(h) PROVE Queue'
  BY <1>5, ReservesSafe DEF TopicRecorded, NoIngressMishap, Queue, Idling, Busy
<1>6. ASSUME NEW h \in plan, TakesTicket(h) PROVE Queue'
  BY <1>6, ReservesSafe DEF TakesTicket, NoIngressMishap, Queue, Idling, Busy
<1>7. ASSUME NEW h \in plan, TurnComes(h) PROVE Queue'
  BY <1>7, QueueStays, FinishesSafe DEF TurnComes, Admits, Refuses, NoIngressMishap, WriteFails, IngressMishap, TimePasses, Queue, Idling,
     Busy
<1>8. ASSUME NEW h \in plan, StopBypasses(h) PROVE Queue'
  BY <1>8, QueueStays, StepsAsideSafe DEF StopBypasses, Admits, Refuses, NoIngressMishap, WriteFails, IngressMishap, TimePasses, Queue,
     Idling, Busy
<1>9. ASSUME NEW h \in plan, WaitTimesOut(h) PROVE Queue'
  BY <1>9, StepsAsideSafe DEF WaitTimesOut, NoIngressMishap, Busy
<1>10. ASSUME NEW h \in plan, RunOutlasts(h) PROVE Queue'
  BY <1>10, QueueStays DEF RunOutlasts, NoIngressMishap, Queue, Idling, Busy
<1>11. ASSUME NEW h \in plan, RunEnds(h) PROVE Queue'
  <2>1. at[h] \in {"running", "left"} /\ at' = [at EXCEPT ![h] = "ended"] /\ UNCHANGED plan
    BY <1>11 DEF RunEnds, NoIngressMishap
  <2>2. PICK f, r : Line(f, r) BY DEF Queue
  <2>3. h[1] # "stop" => Turn(h) BY <2>1, <2>2, PendingFound DEF Line, Turn
  <2>4. CASE ~Turn(h) BY <1>11, <2>1, <2>3, <2>4, StepsAsideSafe DEF RunEnds, Busy
  <2>5. CASE Turn(h) BY <1>11, <2>1, <2>5, FinishesSafe DEF RunEnds, Busy
  <2> QED BY <2>4, <2>5
<1>12. ASSUME NEW m \in Arrivals, ClaimExpires(m) \/ Forgets(m) PROVE Queue'
  BY <1>12, QueueStays DEF ClaimExpires, Forgets, IngressMishap, TimePasses, Queue
<1> QED BY <1>1, <1>2, <1>3, <1>4, <1>5, <1>6, <1>7, <1>8, <1>9, <1>10, <1>11, <1>12, RestartQueueSafe DEF IngressNext

\* Of two deliveries of the window that run in turn, one waits for the other.
LEMMA QueueInOrder == Queue => OneAtATime
<1> SUFFICES ASSUME Queue, NEW g \in plan, NEW h \in plan, g # h, {at[g], at[h]} \subseteq {"running", "left"},
                    g[1] # "stop", h[1] # "stop"
             PROVE  FALSE
  BY DEF OneAtATime
<1>1. PICK f, r : Line(f, r) BY DEF Queue
<1>2. f[node[g].prev] = NoOne /\ f[node[h].prev] = NoOne /\ at[g] \in Busy /\ at[h] \in Busy
  BY <1>1 DEF Line, Busy
<1> QED BY <1>1, <1>2 DEF Line

--------------------
(* Feishu events: an event enters once.                                    *)

Memory ==
  /\ plan \subseteq Deliveries /\ brief \in BOOLEAN
  /\ claims \in [Arrivals -> plan \cup {NoOne}]
  /\ seen = [memory |-> seen.memory, disk |-> seen.disk]
  /\ entered \in [Arrivals -> Nat]
  /\ \A h \in plan : h[1] = "card" => at[h] \in {"none", "ended"} \cup Busy
  /\ \A m \in Arrivals \ {"card"} :
       /\ m \notin forgotten => entered[m] <= 1 /\ (entered[m] > 0 => m \in seen.memory)
       /\ m \in forgotten /\ brief => claims[m] = NoOne /\ entered[m] <= 1
       /\ claims[m] # NoOne => m \notin seen.memory /\ claims[m][1] = m
  /\ claims["card"] = NoOne
  /\ "card" \notin forgotten =>
       /\ entered["card"] <= 1
       /\ "card" \notin seen.memory => entered["card"] = 0 /\ \A h \in plan : h[1] = "card" => at[h] # "queued"
       /\ \A h \in plan : (h[1] = "card" /\ at[h] = "queued") =>
            entered["card"] = 0 /\ \A g \in plan : (g # h /\ g[1] = "card") => at[g] # "queued"

IngressInv == Queue /\ Memory

\* Nothing has arrived.
LEMMA IngressInitSafe == IngressInit => IngressInv
<1> SUFFICES ASSUME IngressInit PROVE Memory BY QueueInit DEF IngressInv
<1> QED BY IngressAssumption DEF IngressInit, Memory, Arrivals, Busy

\* What the memory knows is enough for an event to enter once.
LEMMA MemoryEnough == Memory => EntersOnce
  BY DEF Memory, EntersOnce, OutOfMemory

\* Every step keeps what the memory and the ledger know of an event.
LEMMA MemoryStep == ASSUME Queue, Memory, IngressNext PROVE Memory'
<1>1. \A h \in plan : h \in Deliveries /\ h # NoOne /\ h[1] \in Arrivals
  BY DEF Queue, Memory, Deliveries
<1>2. at \in [plan -> Idling \cup Busy \cup {"ended"}] /\ "card" \in Arrivals
  BY DEF Queue, Arrivals
<1> USE DEF NoIngressMishap, IngressMishap, TimePasses
<1>3. ASSUME NEW h \in plan, DuplicateEvent(h) \/ StaleEvent(h) PROVE Memory'
  BY <1>1, <1>2, <1>3 DEF DuplicateEvent, StaleEvent, Completed, WriteFails, Arrives, Memory, Busy
<1>4. ASSUME NEW h \in plan, NEW attached \in BOOLEAN, MessageEvent(h, attached) PROVE Memory'
  BY <1>1, <1>2, <1>4 DEF MessageEvent, StaleByNow, Arrives, Memory, Busy
<1>5. ASSUME NEW h \in plan, CardActionEvent(h) PROVE Memory'
  BY <1>1, <1>2, <1>5 DEF CardActionEvent, Arrives, Memory, Busy
<1>6. ASSUME NEW h \in plan, CardAnswered(h) PROVE Memory'
  BY <1>1, <1>2, <1>6 DEF CardAnswered, Memory, Busy
<1>7. ASSUME NEW h \in plan, Downloaded(h) \/ LeaseLost(h) PROVE Memory'
  BY <1>1, <1>2, <1>7 DEF Downloaded, LeaseLost, Memory, Busy
<1>8. ASSUME NEW h \in plan, DownloadFails(h) PROVE Memory'
  BY <1>1, <1>2, <1>8 DEF DownloadFails, Released, Owned, Completed, WriteFails, Memory, Busy
<1>9. ASSUME NEW h \in plan, TopicRecorded(h) PROVE Memory'
  BY <1>1, <1>2, <1>9 DEF TopicRecorded, Owned, Memory, Busy
<1>10. ASSUME NEW h \in plan, MirrorDropped(h) PROVE Memory'
  BY <1>1, <1>2, <1>10 DEF MirrorDropped, Released, Owned, Completed, WriteFails, Memory, Busy
<1>11. ASSUME NEW h \in plan, MirrorHeld(h) \/ TakesTicket(h) PROVE Memory'
  BY <1>1, <1>2, <1>11 DEF MirrorHeld, TakesTicket, Memory, Busy
<1>12. ASSUME NEW h \in plan, at[h] = "queued", Admits(h) PROVE Memory'
  BY <1>1, <1>2, <1>12 DEF Admits, Owned, Completed, Memory, Busy
<1>13. ASSUME NEW h \in plan, at[h] = "queued", Refuses(h) PROVE Memory'
  BY <1>1, <1>2, <1>13 DEF Refuses, Released, Owned, WriteFails, Memory, Busy
<1>14. ASSUME NEW h \in plan, WaitTimesOut(h) \/ RunOutlasts(h) \/ RunEnds(h) PROVE Memory'
  BY <1>1, <1>2, <1>14 DEF WaitTimesOut, RunOutlasts, RunEnds, Released, Memory, Busy
<1>15. ASSUME NEW m \in Arrivals, ClaimExpires(m) PROVE Memory'
  BY <1>1, <1>2, <1>15 DEF ClaimExpires, Memory, Busy
<1>16. ASSUME NEW expired \in SUBSET seen.disk, IngressRestarts(expired) PROVE Memory'
  BY <1>1, <1>2, <1>16, IngressAssumption DEF IngressRestarts, Dropped, Memory, Busy
<1>17. ASSUME NEW m \in Arrivals, Forgets(m) PROVE Memory'
  BY <1>1, <1>2, <1>17 DEF Forgets, Dropped, Memory, Busy
<1> QED
  BY <1>3, <1>4, <1>5, <1>6, <1>7, <1>8, <1>9, <1>10, <1>11, <1>12, <1>13, <1>14, <1>15, <1>16, <1>17
     DEF IngressNext, TurnComes, StopBypasses

\* What the queue and the fingerprints are, together.
THEOREM IngressInvariant == IngressSpec => []IngressInv
<1>1. IngressInit => IngressInv BY IngressInitSafe
<1>2. IngressInv /\ [IngressNext]_ingressVars => IngressInv'
  <2>1. ASSUME IngressInv, IngressNext PROVE IngressInv'
    BY <2>1, QueueStep, MemoryStep DEF IngressInv
  <2>2. ASSUME IngressInv, UNCHANGED ingressVars PROVE IngressInv'
    <3>1. PICK f, r : Line(f, r) BY <2>2 DEF IngressInv, Queue
    <3>2. Line(f, r)' /\ Nodes' = Nodes
      BY <3>1, <2>2, Zenon DEF ingressVars, Line, Finds, Ranked, Nodes
    <3> QED BY <2>2, <3>2 DEF IngressInv, Queue, Memory, ingressVars
  <2> QED BY <2>1, <2>2
<1> QED BY <1>1, <1>2, PTL DEF IngressSpec

\* An event enters the handler at most once, unless its fingerprint was forgotten (ten minutes later, or a click's with the
\* process) and its age does not keep it out.  The messages of one window run one at a time in the order of their tickets,
\* /stop apart.  For every set of deliveries and any number of restarts and failed writes (feishu/dedup.go,
\* dispatch_order.go).
THEOREM EventsRunOnceInTurn == IngressSpec => []OnceInTurn
<1>1. IngressInv => OnceInTurn BY QueueInOrder, MemoryEnough DEF IngressInv, OnceInTurn
<1> QED BY <1>1, IngressInvariant, PTL

--------------------
(* The cards of a task.  The invariant follows, for each card, how far it  *)
(* has come, the requests on their way to it and the numbers they carry,   *)
(* what CardKit has applied, and which card says what is waited for.       *)

CardParts == {"full", "text", "enable", "disable"}
CardStatuses == {"none", "thinking", "done", "stopped", "superseded"}
CardEnds == {"terminal", "freeze"}
CardIds == {NoId} \cup CardEnds \X {"mode", "card"}
CardRequests == [card : TaskCards, part : CardParts, seq : Nat, status : CardStatuses, waits : SUBSET CardKeys, id : CardIds]
KitT == [seq : Nat, status : CardStatuses, stream : BOOLEAN, waits : SUBSET CardKeys, done : SUBSET CardIds,
         refused : SUBSET CardIds]
RegT == [on : BOOLEAN, status : CardStatuses, seq : Nat, waits : SUBSET CardKeys, settled : SUBSET CardKeys,
         next : {NoCard, 2}]
StrmT == [at : {"none", "open", "closed"}, seq : Nat]
OpT == [who : {"none", "live", "worker", "session"}, reqs : Seq(CardRequests), bad : BOOLEAN]
SavedT == [kind : {"none", "stream", "terminal", "freeze"}, seq : Nat, disable : Nat, update : Nat,
           status : CardStatuses, done : BOOLEAN]
AnswerT == [at : {"none", "asked", "found", "settled", "gone"}, card : {0, 1, 2}, target : {0, 1, 2}]
AnchorT == [at : {"none", "prepared", "opened", "bound", "refreshed", "done"}, disable : Nat, update : Nat]

CardTypes ==
  /\ kit \in [TaskCards -> KitT]
  /\ reg \in [TaskCards -> RegT]
  /\ strm \in [TaskCards -> StrmT]
  /\ op \in [TaskCards -> OpT]
  /\ loose \subseteq CardRequests
  /\ saved \in [TaskCards -> SavedT]
  /\ answer \in [CardKeys -> AnswerT]
  /\ anchor \in AnchorT

\* The last number given to a request of a card, from the registry's record g or the stream t.
LastGiven(g, t) == IF g.on THEN g.seq ELSE t.seq
ModeId(s) == <<s.kind, "mode">>
CardId(s) == <<s.kind, "card">>
ModeRequest(c, s) == Request(c, "disable", s.disable, s.status, {}, ModeId(s))
CardRequest(c, s) == Request(c, "full", s.update, s.status, {}, CardId(s))
IsEnd(s) == s.kind \in CardEnds

\* How far a card has come: g its record, t its stream, s its checkpoint, who holds its lock.
CardStage(c, g, t, s, who) ==
  /\ c = 2 => s.kind # "freeze"
  /\ s.kind = "none" => c = 2 /\ t.at = "none"
  /\ t.at = "none" /\ ~IsEnd(s) => ~g.on /\ who = "none"
  /\ t.at = "closed" => IsEnd(s)
  /\ t.at = "open" => s.kind \in {"stream", "freeze"}
  /\ IsEnd(s) => s.update = s.disable + 1
  /\ s.kind = "terminal" /\ g.on => g.status = s.status
Anchored(c) ==
  /\ c = 1 /\ anchor.at = "prepared" =>
       saved[c].kind = "stream" /\ strm[c].at = "open" /\ anchor.update = anchor.disable + 1
  /\ c = 1 /\ anchor.at \in {"opened", "bound", "refreshed"} => saved[c].kind = "freeze"
  /\ saved[c].kind = "freeze" => anchor.at \notin {"none", "prepared"}
  /\ c = 2 /\ anchor.at \in {"none", "prepared"} => saved[c].kind = "none"
  /\ strm[c].at = "open" /\ saved[c].kind = "freeze" => anchor.at # "done"

\* A request of card c on its way.
Wire(c, r, g, t, s) ==
  /\ r.card = c
  /\ s.kind # "none"
  /\ r.id # NoId => IsEnd(s) /\ r \in {ModeRequest(c, s), CardRequest(c, s)}
  /\ r.id = NoId /\ s.kind = "stream" /\ t.at = "open" => r.seq <= LastGiven(g, t)
  /\ (r.id = NoId /\ s.kind = "terminal") =>
       r.seq < s.disable \/ (r.part = "full" /\ r.status = s.status)

\* What CardKit has answered as done, or as good as done.
Tried(k) == k.done \cup k.refused

\* The requests under the lock of a card.
OpFits(c, o, k, s, t) ==
  /\ o.who = "none" <=> o.reqs = <<>>
  /\ o.who = "live" => \A i \in 1..Len(o.reqs) : o.reqs[i].id = NoId /\ (o.reqs[i].part = "full" \/ t.at = "open")
  /\ o.who \in {"worker", "session"} =>
       /\ IsEnd(s)
       /\ o.reqs \in {<<ModeRequest(c, s), CardRequest(c, s)>>, <<CardRequest(c, s)>>}
       /\ Len(o.reqs) = 1 /\ ~o.bad => ModeId(s) \in Tried(k)

\* What CardKit's card k shows of the checkpoint s.
AsOf(k, s, seq) == s.kind = "terminal" \/ k.seq = seq
KitFits(k, s) ==
  /\ k.done \subseteq (IF IsEnd(s) THEN {ModeId(s), CardId(s)} ELSE {})
  /\ s.done => IsEnd(s) /\ ModeId(s) \in Tried(k) /\ CardId(s) \in Tried(k)
  /\ ModeId(s) \in k.done => k.seq >= s.disable /\ (AsOf(k, s, s.disable) => ~k.stream)
  /\ CardId(s) \in k.done =>
       /\ k.seq >= s.update
       /\ AsOf(k, s, s.update) => k.status = s.status /\ (ModeId(s) \in k.done => ~k.stream)

CardAt(c) ==
  /\ CardStage(c, reg[c], strm[c], saved[c], op[c].who)
  /\ OpFits(c, op[c], kit[c], saved[c], strm[c])
  /\ \A i \in 1..Len(op[c].reqs) : Wire(c, op[c].reqs[i], reg[c], strm[c], saved[c])
  /\ \A r \in loose : r.card = c => Wire(c, r, reg[c], strm[c], saved[c])
  /\ KitFits(kit[c], saved[c])

\* Which card says that an approval is waited for.
WaitsAt ==
  /\ reg[2].next = NoCard
  /\ \A c \in TaskCards : ~reg[c].on => reg[c].waits = {} /\ reg[c].next = NoCard
  /\ reg[1].next = 2 => Current = 2 /\ reg[1].waits = {}
  /\ \A k \in CardKeys :
       /\ answer[k].at \in {"asked", "found", "settled"} => answer[k].card \in TaskCards
       /\ answer[k].card = 2 => Current = 2
       /\ answer[k].at = "none" => k \notin reg[1].waits /\ k \notin reg[2].waits
       /\ answer[k].at \in {"found", "settled"} => answer[k].target \in TaskCards
       /\ k \in reg[1].waits => answer[k].card = 1 /\ (answer[k].at = "settled" => Current = 2)
       /\ k \in reg[2].waits =>
            /\ Current = 2 /\ answer[k].card \in TaskCards
            /\ answer[k].at = "settled" => answer[k].card = 1 /\ reg[1].next = NoCard

\* What every step of the cards keeps.
CardsInv == CardTypes /\ (\A c \in TaskCards : CardAt(c) /\ Anchored(c)) /\ WaitsAt

--------------------
\* What is left of a sequence after its head.
LEMMA CardTail == ASSUME NEW S, NEW s \in Seq(S), s # <<>>
  PROVE /\ Head(s) = s[1] /\ Head(s) \in S /\ Tail(s) \in Seq(S) /\ Len(Tail(s)) = Len(s) - 1 /\ Len(s) \in Nat \ {0}
        /\ \A i \in 1..Len(Tail(s)) : Tail(s)[i] = s[i + 1] /\ i + 1 \in 1..Len(s)
        /\ Len(s) = 1 => Tail(s) = <<>>
<1>1. Len(s) \in Nat \ {0} /\ DOMAIN s = 1..Len(s) BY EmptySeq, LenProperties
<1>2. Head(s) \in S /\ Tail(s) \in Seq(S) /\ Len(Tail(s)) = Len(s) - 1 /\ Head(s) = s[1]
  BY HeadTailProperties
<1>3. \A i \in 1..Len(Tail(s)) : Tail(s)[i] = s[i + 1] /\ i + 1 \in 1..Len(s)
  BY <1>1, <1>2, HeadTailProperties
<1>4. Len(s) = 1 => Tail(s) = <<>>
  <2>1. Tail(s) # <<>> => Len(Tail(s)) \in Nat \ {0} BY <1>2, EmptySeq
  <2> QED BY <1>1, <1>2, <2>1
<1> QED BY <1>1, <1>2, <1>3, <1>4

\* A card that the step leaves alone, up to what its record says of approvals.
LEMMA CardFrame ==
  ASSUME CardTypes, NEW d \in TaskCards, CardAt(d), kit'[d] = kit[d], strm'[d] = strm[d], op'[d] = op[d], saved'[d] = saved[d],
         reg'[d].on = reg[d].on, reg'[d].seq = reg[d].seq, reg'[d].status = reg[d].status,
         \A r \in loose' : r.card = d => r \in loose
  PROVE  CardAt(d)'
<1>1. CardStage(d, reg[d], strm[d], saved[d], op[d].who)' /\ OpFits(d, op[d], kit[d], saved[d], strm[d])' /\ KitFits(kit[d], saved[d])'
  BY DEF CardAt, CardStage, OpFits, KitFits
<1>2. ASSUME NEW r, Wire(d, r, reg[d], strm[d], saved[d]) PROVE Wire(d, r, reg[d], strm[d], saved[d])'
  BY <1>2 DEF Wire, LastGiven
<1> QED BY <1>1, <1>2 DEF CardAt

\* The initial state.
LEMMA CardsInitSound == CardsInit => CardsInv
<1> SUFFICES ASSUME CardsInit PROVE CardsInv OBVIOUS
<1>1. CardTypes
  <2>1. kit \in [TaskCards -> KitT] /\ strm \in [TaskCards -> StrmT] /\ loose \subseteq CardRequests
    BY DEF CardsInit, KitT, StrmT, Blank, NoStream, TaskCards, Working, CardStatuses
  <2>2. reg \in [TaskCards -> RegT] /\ saved \in [TaskCards -> SavedT]
    BY DEF CardsInit, RegT, SavedT, NoCardRecord, Recorded, NotSaved, TaskCards, NoCard, Working, CardStatuses
  <2>3. op \in [TaskCards -> OpT] BY DEF CardsInit, OpT, Free
  <2>4. answer \in [CardKeys -> AnswerT] /\ anchor \in AnchorT
    BY DEF CardsInit, AnswerT, AnchorT, Unasked, NoCard
  <2> QED BY <2>1, <2>2, <2>3, <2>4 DEF CardTypes
<1>2. \A c \in TaskCards : CardAt(c) /\ Anchored(c)
  BY DEF CardAt, Anchored, CardStage, OpFits, KitFits, Wire, IsEnd, CardEnds, ModeId, CardId, AsOf, CardsInit, Blank, NoCardRecord, Recorded, NoStream, Free, NotSaved, Unasked, TaskCards, NoCard, Working
<1>3. WaitsAt
  <2>1. reg[1].next = NoCard /\ reg[2] = NoCardRecord /\ reg[1].waits = {}
    <3>1. reg[1] = Recorded(Working, 2) /\ reg[2] = NoCardRecord
      BY DEF CardsInit, TaskCards
    <3> QED BY <3>1 DEF NoCardRecord, Recorded
  <2>2. \A k \in CardKeys : answer[k] = Unasked BY DEF CardsInit
  <2> QED BY <2>1, <2>2 DEF WaitsAt, Unasked, NoCardRecord, TaskCards, NoCard
<1> QED BY <1>1, <1>2, <1>3 DEF CardsInv

--------------------
\* What CardKit makes of a request.
LEMMA CardApplied ==
  ASSUME CardTypes, NEW r \in CardRequests
  PROVE  Applied(r) \in KitT
<1>1. kit[r.card] \in KitT BY DEF CardTypes, CardRequests
<1> QED BY <1>1 DEF Applied, KitT, CardRequests, CardParts

LEMMA CardFits ==
  ASSUME CardTypes, NEW c \in TaskCards, CardAt(c), NEW r \in CardRequests, Wire(c, r, reg[c], strm[c], saved[c])
  PROVE  /\ KitFits(Applied(r), saved[c])
         /\ Tried(kit[c]) \subseteq Tried(Applied(r))
         /\ r.id # NoId /\ ~Stale(r) => r.id \in Applied(r).done
<1> DEFINE k == kit[c]
           s == saved[c]
           n == Applied(r)
<1>0. r.card = c /\ k \in KitT /\ s \in SavedT /\ KitFits(k, s) /\ CardStage(c, reg[c], strm[c], s, op[c].who)
  BY DEF CardTypes, Wire, CardAt
<1>1. CASE Repeated(r) \/ Stale(r) BY <1>0, <1>1 DEF Applied, Repeated, Stale
<1> USE DEF Tried
<1>2. CASE ~Repeated(r) /\ ~Stale(r)
  <2>1. /\ n.seq = r.seq /\ r.seq > k.seq /\ r.seq \in Nat /\ k.seq \in Nat
        /\ n.status = IF r.part = "full" THEN r.status ELSE k.status
        /\ n.stream = IF r.part = "enable" THEN TRUE ELSE IF r.part = "disable" THEN FALSE ELSE k.stream
        /\ n.done = IF r.id = NoId THEN k.done ELSE k.done \cup {r.id}
        /\ n.refused = k.refused
    <3>1. r.seq > k.seq /\ r.seq \in Nat /\ k.seq \in Nat
      BY <1>0, <1>2 DEF Stale, KitT, CardRequests
    <3>2. n = [k EXCEPT !.seq = r.seq,
                        !.status = IF r.part = "full" THEN r.status ELSE @,
                        !.waits = IF r.part = "full" THEN r.waits ELSE @,
                        !.stream = CASE r.part = "enable" -> TRUE [] r.part = "disable" -> FALSE [] OTHER -> @,
                        !.done = IF r.id = NoId THEN @ ELSE @ \cup {r.id}]
      BY <1>0, <1>2 DEF Applied
    <3>3. DOMAIN k = {"seq", "status", "stream", "waits", "done", "refused"}
      BY <1>0 DEF KitT
    <3> HIDE DEF k, n
    <3>4. n.stream = IF r.part = "enable" THEN TRUE ELSE IF r.part = "disable" THEN FALSE ELSE k.stream
      BY <3>2, <3>3
    <3> QED BY <3>1, <3>2, <3>3, <3>4
  <2>2. s.disable \in Nat /\ s.update \in Nat /\ (IsEnd(s) => s.update = s.disable + 1)
    BY <1>0 DEF CardStage, SavedT
  <2>3. ModeId(s) # CardId(s) /\ (IsEnd(s) => ModeId(s) # NoId /\ CardId(s) # NoId)
    BY DEF ModeId, CardId, NoId, IsEnd, CardEnds
  <2>4. CASE ~IsEnd(s) BY <1>0, <2>1, <2>4 DEF Wire, KitFits
  <2>5. CASE IsEnd(s) /\ r.id = NoId BY <2>5, <1>0, <2>1, <2>2 DEF Wire, KitFits, AsOf
  <2>6. CASE IsEnd(s) /\ r = ModeRequest(c, s)
    <3>1. r.seq = s.disable /\ r.part = "disable" /\ r.id = ModeId(s)
      BY <2>6 DEF ModeRequest, Request
    <3>2. CardId(s) \notin n.done BY <1>0, <2>1, <2>2, <2>3, <2>6, <3>1 DEF KitFits
    <3> QED BY <1>0, <2>1, <2>2, <2>3, <2>6, <3>1, <3>2 DEF KitFits, AsOf
  <2>7. CASE IsEnd(s) /\ r = CardRequest(c, s)
    <3>1. r.seq = s.update /\ r.part = "full" /\ r.id = CardId(s) /\ r.status = s.status
      BY <2>7 DEF CardRequest, Request
    <3>2. ModeId(s) \in k.done => ~k.stream /\ k.seq >= s.disable
      BY <1>0, <2>1, <2>2, <2>3, <2>7, <3>1 DEF KitFits, AsOf
    <3> QED BY <1>0, <2>1, <2>2, <2>3, <2>7, <3>1, <3>2 DEF KitFits, AsOf
  <2> QED BY <1>0, <2>4, <2>5, <2>6, <2>7 DEF Wire
<1> QED BY <1>1, <1>2

--------------------
LEMMA CardSeqs ==
  ASSUME NEW r \in CardRequests, NEW q \in CardRequests
  PROVE  <<r>> \in Seq(CardRequests) /\ <<r, q>> \in Seq(CardRequests)
  OBVIOUS

\* The requests the model makes are requests.
LEMMA CardRequestTyped ==
  ASSUME NEW c \in TaskCards, NEW part \in CardParts, NEW seq \in Nat, NEW status \in CardStatuses,
         NEW waits \in SUBSET CardKeys, NEW id \in CardIds
  PROVE  Request(c, part, seq, status, waits, id) \in CardRequests
  BY DEF Request, CardRequests

LEMMA CardShownTyped ==
  ASSUME CardTypes, NEW c \in TaskCards, NEW seq \in Nat, NEW waits \in SUBSET CardKeys
  PROVE  /\ Shown(c, seq) \in CardRequests /\ [Shown(c, seq) EXCEPT !.waits = waits] \in CardRequests
         /\ Shown(c, seq).waits \subseteq CardKeys
<1>1. reg[c] \in RegT /\ reg[c].status \in CardStatuses /\ reg[c].waits \in SUBSET CardKeys
  BY DEF CardTypes, RegT
<1>2. Working \in CardStatuses /\ "full" \in CardParts /\ NoId \in CardIds
  BY DEF Working, CardStatuses, CardParts, CardIds
<1>3. Shown(c, seq) \in CardRequests BY <1>1, <1>2, CardRequestTyped DEF Shown
<1> QED BY <1>3 DEF CardRequests

LEMMA CardReplayTyped ==
  ASSUME CardTypes, NEW c \in TaskCards, saved[c].kind \in CardEnds
  PROVE  Replay(c) = <<ModeRequest(c, saved[c]), CardRequest(c, saved[c])>> /\ Replay(c) \in Seq(CardRequests)
<1>1. Replay(c) = <<ModeRequest(c, saved[c]), CardRequest(c, saved[c])>>
  BY DEF Replay, ModeRequest, CardRequest, ModeId, CardId
<1>2. saved[c] \in SavedT BY DEF CardTypes
<1>3. ModeId(saved[c]) \in CardIds /\ CardId(saved[c]) \in CardIds
  BY DEF ModeId, CardId, CardIds
<1>4. saved[c].disable \in Nat /\ saved[c].update \in Nat /\ saved[c].status \in CardStatuses /\ {} \in SUBSET CardKeys
      /\ "disable" \in CardParts /\ "full" \in CardParts
  BY <1>2 DEF SavedT, CardParts
<1>5. ModeRequest(c, saved[c]) \in CardRequests /\ CardRequest(c, saved[c]) \in CardRequests
  BY <1>3, <1>4, CardRequestTyped DEF ModeRequest, CardRequest
<1> HIDE DEF Replay, ModeRequest, CardRequest
<1> QED BY <1>1, <1>5

LEMMA CardHoldsTyped ==
  ASSUME CardTypes, NEW c \in TaskCards, NEW who \in {"live", "worker", "session"}, NEW reqs \in Seq(CardRequests),
         Holds(c, who, reqs)
  PROVE  op' \in [TaskCards -> OpT]
  BY DEF Holds, CardTypes, OpT

LEMMA CardNumbers ==
  ASSUME CardTypes, NEW c \in TaskCards
  PROVE  /\ NextSeq(c) \in Nat /\ NextSeq(c) = LastGiven(reg[c], strm[c]) + 1
         /\ reg[c].seq \in Nat /\ strm[c].seq \in Nat /\ saved[c].seq \in Nat /\ saved[c].disable \in Nat /\ saved[c].update \in Nat
         /\ kit[c].seq \in Nat /\ saved[c].status \in CardStatuses
  BY DEF NextSeq, LastGiven, CardTypes, RegT, StrmT, SavedT, KitT

\* A record whose fields are what they are.
LEMMA CardRecordTyped ==
  ASSUME NEW status \in CardStatuses, NEW seq \in Nat
  PROVE  Recorded(status, seq) \in RegT /\ NoCardRecord \in RegT
  BY DEF Recorded, NoCardRecord, RegT, NoCard, CardStatuses

LEMMA CardUpdated ==
  ASSUME NEW T, NEW f \in [TaskCards -> T], NEW c \in TaskCards, NEW v \in T
  PROVE  [f EXCEPT ![c] = v] \in [TaskCards -> T]
  OBVIOUS

LEMMA CardAnsweredTyped ==
  ASSUME CardTypes, NEW c \in TaskCards, op[c].reqs # <<>>, NEW b \in BOOLEAN
  PROVE  Answered(c, b) \in OpT
<1>1. op[c] \in OpT /\ op[c].reqs \in Seq(CardRequests) BY DEF CardTypes, OpT
<1>2. Tail(op[c].reqs) \in Seq(CardRequests) BY <1>1, CardTail
<1>3. Free \in OpT BY DEF OpT, Free
<1>4. [op[c] EXCEPT !.reqs = Tail(op[c].reqs), !.bad = b] \in OpT BY <1>1, <1>2 DEF OpT
<1> QED BY <1>3, <1>4 DEF Answered

LEMMA CardTypesKept ==
  ASSUME CardTypes, CardsNext, anchor.at = "refreshed" => saved[1].kind \in CardEnds,
         \A k \in CardKeys : /\ answer[k].at = "found" => answer[k].target \in TaskCards
                             /\ answer[k].at \in {"asked", "found"} => answer[k].card \in TaskCards
  PROVE  CardTypes'
<1> USE DEF TaskCards
<1>1. ASSUME NEW c \in TaskCards, Lands(c) PROVE CardTypes'
  <2>1. op[c].reqs \in Seq(CardRequests) /\ op[c].reqs # <<>>
    BY <1>1 DEF Lands, CardTypes, OpT
  <2>2. Head(op[c].reqs) \in CardRequests /\ Tail(op[c].reqs) \in Seq(CardRequests)
    BY <2>1, CardTail
  <2>3. kit' \in [TaskCards -> KitT] BY <1>1, <2>2, CardApplied DEF Lands, CardTypes
  <2>4. op' \in [TaskCards -> OpT]
    <3>1. (op[c].bad \/ Rejected(Head(op[c].reqs))) \in BOOLEAN OBVIOUS
    <3>2. PICK b \in BOOLEAN : op' = [op EXCEPT ![c] = Answered(c, b)]
      BY <1>1, <3>1 DEF Lands
    <3> QED BY <2>1, <3>2, CardAnsweredTyped, CardUpdated DEF CardTypes
  <2>5. saved' \in [TaskCards -> SavedT] /\ reg' \in [TaskCards -> RegT]
    <3>1. Recorded(saved[c].status, saved[c].update) \in RegT
      BY CardNumbers, CardRecordTyped
    <3>2. saved' = [saved EXCEPT ![c].done = TRUE] \/ saved' = saved
      BY <1>1 DEF Lands, Struck
    <3>3. reg' = [reg EXCEPT ![c] = Recorded(saved[c].status, saved[c].update)] \/ reg' = reg
      BY <1>1 DEF Lands, Struck
    <3>4. [saved[c] EXCEPT !.done = TRUE] \in SavedT BY DEF CardTypes, SavedT
    <3> QED BY <3>1, <3>2, <3>3, <3>4, CardUpdated DEF CardTypes
  <2> QED BY <1>1, <2>3, <2>4, <2>5 DEF Lands, CardTypes
<1>23. ASSUME NEW c \in TaskCards, TurnsDown(c) PROVE CardTypes'
  <2>1. op[c].reqs # <<>> /\ op[c].reqs \in Seq(CardRequests)
    BY <1>23 DEF TurnsDown, CardTypes, OpT
  <2>2. Head(op[c].reqs) \in CardRequests BY <2>1, CardTail
  <2>3. kit' \in [TaskCards -> KitT]
    BY <1>23, <2>2 DEF TurnsDown, CardTypes, KitT, CardRequests
  <2>4. op' \in [TaskCards -> OpT]
    <3>1. PICK b \in BOOLEAN : op' = [op EXCEPT ![c] = Answered(c, b)]
      BY <1>23 DEF TurnsDown, CardTypes, OpT
    <3> QED BY <2>1, <3>1, CardAnsweredTyped, CardUpdated DEF CardTypes
  <2>5. saved' \in [TaskCards -> SavedT] /\ reg' \in [TaskCards -> RegT]
    <3>1. Recorded(saved[c].status, saved[c].update) \in RegT
      BY CardNumbers, CardRecordTyped
    <3>2. /\ saved' = [saved EXCEPT ![c].done = TRUE] \/ saved' = saved
          /\ reg' = [reg EXCEPT ![c] = Recorded(saved[c].status, saved[c].update)] \/ reg' = reg
      BY <1>23 DEF TurnsDown, Struck
    <3>3. [saved[c] EXCEPT !.done = TRUE] \in SavedT BY DEF CardTypes, SavedT
    <3> QED BY <3>1, <3>2, <3>3, CardUpdated DEF CardTypes
  <2> QED BY <1>23, <2>3, <2>4, <2>5 DEF TurnsDown, CardTypes
<1>2. ASSUME NEW c \in TaskCards, Reopens(c) PROVE CardTypes'
  <2>1. \E seq \in Nat : /\ op' = [op EXCEPT ![c].reqs = <<Request(c, "enable", seq, Working, {}, NoId), Request(c, "text", seq + 1, Working, {}, NoId)>>]
                         /\ strm' = [strm EXCEPT ![c].seq = seq + 1]
                         /\ reg' = IF reg[c].on THEN [reg EXCEPT ![c].seq = seq + 1] ELSE reg
    BY <1>2, CardNumbers DEF Reopens, NextSeq
  <2>2. PICK seq \in Nat : /\ op' = [op EXCEPT ![c].reqs = <<Request(c, "enable", seq, Working, {}, NoId), Request(c, "text", seq + 1, Working, {}, NoId)>>]
                          /\ strm' = [strm EXCEPT ![c].seq = seq + 1]
                          /\ reg' = IF reg[c].on THEN [reg EXCEPT ![c].seq = seq + 1] ELSE reg
    BY <2>1
  <2>3. Request(c, "enable", seq, Working, {}, NoId) \in CardRequests /\ Request(c, "text", seq + 1, Working, {}, NoId) \in CardRequests
    BY CardRequestTyped DEF Working, CardStatuses, CardParts, CardIds
  <2>4. op' \in [TaskCards -> OpT]
    <3>1. <<Request(c, "enable", seq, Working, {}, NoId), Request(c, "text", seq + 1, Working, {}, NoId)>> \in Seq(CardRequests)
      BY <2>3, CardSeqs
    <3>2. PICK rs \in Seq(CardRequests) : op' = [op EXCEPT ![c].reqs = rs] BY <2>2, <3>1
    <3> QED BY <3>2 DEF CardTypes, OpT
  <2>5. strm' \in [TaskCards -> StrmT] /\ reg' \in [TaskCards -> RegT]
    BY <2>2 DEF CardTypes, StrmT, RegT
  <2> QED BY <1>2, <2>4, <2>5 DEF Reopens, CardTypes
<1>3. ASSUME NEW c \in TaskCards, TimesOut(c) PROVE CardTypes'
  <2>1. op[c].reqs \in Seq(CardRequests) /\ op[c].reqs # <<>>
    BY <1>3 DEF TimesOut, CardTypes, OpT
  <2>2. Head(op[c].reqs) \in CardRequests /\ Tail(op[c].reqs) \in Seq(CardRequests)
    BY <2>1, CardTail
  <2>4. op' \in [TaskCards -> OpT]
    BY <1>3, <2>1, CardAnsweredTyped, CardUpdated DEF TimesOut, CardTypes
  <2> QED BY <1>3, <2>2, <2>4 DEF TimesOut, CardTypes
<1>4. ASSUME NEW c \in TaskCards, StreamExpires(c) PROVE CardTypes'
  BY <1>4 DEF StreamExpires, CardTypes, KitT
<1>5. ASSUME NEW c \in TaskCards, UpdatePresentation(c) PROVE CardTypes'
  <2>1. op' \in [TaskCards -> OpT]
    BY <1>5, CardNumbers, CardShownTyped, CardSeqs, CardHoldsTyped DEF UpdatePresentation
  <2>2. strm' \in [TaskCards -> StrmT] /\ reg' \in [TaskCards -> RegT]
    BY <1>5, CardNumbers DEF UpdatePresentation, Numbered, CardTypes, StrmT, RegT
  <2> QED BY <1>5, <2>1, <2>2 DEF UpdatePresentation, CardTypes
<1>6. ASSUME NEW c \in TaskCards, UpdateText(c) PROVE CardTypes'
  <2>0. Request(c, "text", NextSeq(c), Working, {}, NoId) \in CardRequests
    BY CardNumbers, CardRequestTyped DEF Working, CardStatuses, CardParts, CardIds
  <2>1. op' \in [TaskCards -> OpT]
    BY <1>6, <2>0, CardSeqs, CardHoldsTyped DEF UpdateText
  <2>2. strm' \in [TaskCards -> StrmT] /\ reg' \in [TaskCards -> RegT]
    BY <1>6, CardNumbers DEF UpdateText, Numbered, CardTypes, StrmT, RegT
  <2> QED BY <1>6, <2>1, <2>2 DEF UpdateText, CardTypes
<1>7. ASSUME NEW c \in TaskCards, RefreshReference(c) PROVE CardTypes'
  BY CardNumbers, <1>7 DEF LastGiven, RefreshReference, CardTypes, SavedT
<1>8. ASSUME NEW c \in TaskCards, ExpandCard(c) PROVE CardTypes'
  <2>1. op' \in [TaskCards -> OpT]
    <3>1. reg[c].seq + 1 \in Nat BY CardNumbers
    <3>2. <<Shown(c, reg[c].seq + 1)>> \in Seq(CardRequests)
      BY <3>1, CardShownTyped, CardSeqs
    <3> QED BY <1>8, <3>2, CardHoldsTyped DEF ExpandCard
  <2>2. reg' \in [TaskCards -> RegT]
    BY <1>8, CardNumbers DEF ExpandCard, CardTypes, RegT
  <2> QED BY <1>8, <2>1, <2>2 DEF ExpandCard, CardTypes
<1>9. ASSUME NEW c \in TaskCards, PurgeRecord(c) PROVE CardTypes'
  BY <1>9 DEF NoCardRecord, RegT, NoCard, CardStatuses, PurgeRecord, CardTypes
<1>10. ASSUME NEW c \in TaskCards, PrepareTerminal(c) PROVE CardTypes'
  <2> DEFINE n == NextSeq(c)
             t == [at |-> "closed", seq |-> n + 1]
             e == [kind |-> "terminal", seq |-> n + 1, disable |-> n, update |-> n + 1, status |-> "done", done |-> FALSE]
             g == [reg[c] EXCEPT !.status = "done", !.seq = n + 1, !.waits = {}]
  <2>1. n \in Nat BY CardNumbers
  <2> HIDE DEF n
  <2>2. t \in StrmT /\ e \in SavedT BY <2>1 DEF StrmT, SavedT, CardStatuses
  <2>3. g \in RegT
    <3>1. reg[c] \in RegT BY DEF CardTypes
    <3>2. n + 1 \in Nat /\ "done" \in CardStatuses /\ {} \in SUBSET CardKeys
      BY <2>1 DEF CardStatuses
    <3> HIDE DEF n
    <3> QED BY <3>1, <3>2 DEF RegT
  <2>4. strm' = [strm EXCEPT ![c] = t] /\ saved' = [saved EXCEPT ![c] = e] /\ (reg' = [reg EXCEPT ![c] = g] \/ reg' = reg)
    BY <1>10 DEF PrepareTerminal, Ended, n
  <2> HIDE DEF t, e, g
  <2>5. strm' \in [TaskCards -> StrmT] /\ saved' \in [TaskCards -> SavedT] /\ reg' \in [TaskCards -> RegT]
    BY <2>2, <2>3, <2>4, CardUpdated DEF CardTypes
  <2> QED BY <1>10, <2>5 DEF PrepareTerminal, CardTypes
<1>11. ASSUME NEW c \in TaskCards, WorkerDelivers(c) PROVE CardTypes'
  BY <1>11, CardReplayTyped, CardHoldsTyped DEF WorkerDelivers, CardEnds, CardTypes
<1>12. ASSUME NEW c \in TaskCards, RecoverTerminal(c) PROVE CardTypes'
  <2>1. PICK seq \in Nat : /\ reg' = [reg EXCEPT ![c] = Recorded("stopped", seq + 2)]
     /\ saved' = [saved EXCEPT ![c] = [kind |-> "terminal", seq |-> seq + 2, disable |-> seq + 1, update |-> seq + 2,
                                       status |-> "stopped", done |-> FALSE]]
    BY <1>12, CardNumbers DEF RecoverTerminal
  <2>2. Recorded("stopped", seq + 2) \in RegT BY CardRecordTyped DEF CardStatuses
  <2>3. saved' \in [TaskCards -> SavedT] /\ reg' \in [TaskCards -> RegT]
    BY <2>1, <2>2 DEF CardTypes, SavedT, CardStatuses
  <2> QED BY <1>12, <2>3 DEF RecoverTerminal, CardTypes
<1>13. ASSUME NEW r \in loose, ArrivesLate(r) \/ NeverArrives(r) PROVE CardTypes'
  BY CardApplied, <1>13 DEF CardTypes, CardRequests, ArrivesLate, NeverArrives
<1>14. ASSUME ReanchorPrepares PROVE CardTypes'
  BY <1>14, CardNumbers DEF ReanchorPrepares, CardTypes, AnchorT
<1>15. ASSUME ReanchorOpens PROVE CardTypes'
  BY <1>15, CardRecordTyped DEF ReanchorOpens, CardTypes, KitT, StrmT, Blank, Working, CardStatuses, SavedT, NotSaved, AnchorT
<1>16. ASSUME BindTaskCard PROVE CardTypes'
  <2>1. reg' \in [TaskCards -> RegT]
    <3>1. reg[1] \in RegT /\ reg[2] \in RegT BY DEF CardTypes
    <3>2. reg' = reg \/ reg' = [reg EXCEPT ![1].next = 2, ![1].waits = {}, ![2].settled = @ \cup reg[1].settled,
                                       ![2].waits = (@ \cup reg[1].waits) \ reg[1].settled]
      BY <1>16 DEF BindTaskCard
    <3>3. reg' \in [TaskCards -> RegT] BY <3>1, <3>2 DEF CardTypes, RegT
    <3> QED BY <3>3
  <2> QED BY <1>16, <2>1 DEF BindTaskCard, CardTypes, AnchorT
<1>17. ASSUME RefreshWaiting PROVE CardTypes'
  <2>1. op' \in [TaskCards -> OpT]
    <3>1. CASE UNCHANGED op BY <3>1 DEF CardTypes
    <3>2. CASE Holds(2, "live", <<Shown(2, reg[2].seq + 1)>>)
      <4>1. reg[2].seq + 1 \in Nat BY CardNumbers
      <4> QED BY <3>2, <4>1, CardShownTyped, CardSeqs, CardHoldsTyped
    <3> QED BY <1>17, <3>1, <3>2 DEF RefreshWaiting
  <2>2. reg' \in [TaskCards -> RegT]
    BY <1>17, CardNumbers DEF RefreshWaiting, CardTypes, RegT
  <2> QED BY <1>17, <2>1, <2>2 DEF RefreshWaiting, CardTypes, AnchorT
<1>18. ASSUME FreezesOld PROVE CardTypes'
  <2>0. saved[1].kind \in CardEnds BY <1>18 DEF FreezesOld
  <2>1. op' \in [TaskCards -> OpT]
    BY <1>18, <2>0, CardReplayTyped, CardHoldsTyped DEF FreezesOld
  <2>2. reg' \in [TaskCards -> RegT] /\ strm' \in [TaskCards -> StrmT]
    BY <1>18 DEF FreezesOld, CardTypes, RegT, StrmT, CardStatuses
  <2> QED BY <1>18, <2>1, <2>2 DEF FreezesOld, CardTypes, AnchorT
<1>19. ASSUME CardCrash PROVE CardTypes'
  <2>1. \A c \in TaskCards : op[c].reqs # <<>> => Head(op[c].reqs) \in CardRequests
    BY CardTail DEF CardTypes, OpT
  <2>2. loose' \subseteq CardRequests BY <1>19, <2>1 DEF CardCrash, CardTypes
  <2>3. reg' \in [TaskCards -> RegT] /\ strm' \in [TaskCards -> StrmT] /\ op' \in [TaskCards -> OpT]
    BY <1>19 DEF CardCrash, RegT, StrmT, OpT, NoCardRecord, NoStream, Free, NoCard, CardStatuses
  <2>4. answer' \in [CardKeys -> AnswerT] /\ anchor' \in AnchorT
    BY <1>19 DEF CardCrash, CardTypes, AnswerT, AnchorT
  <2> QED BY <1>19, <2>2, <2>3, <2>4 DEF CardCrash, CardTypes
<1>20. ASSUME NEW k \in CardKeys, AskApproval(k) PROVE CardTypes'
  <2>1. Current \in TaskCards /\ Successor(Current) \in TaskCards
    BY DEF Current, Successor, CardTypes, RegT, NoCard
  <2>2. answer' \in [CardKeys -> AnswerT]
    BY <1>20, <2>1 DEF AskApproval, CardTypes, AnswerT, Unasked, NoCard
  <2>3. PICK c \in TaskCards :
          \/ /\ Holds(c, "live", <<[Shown(c, reg[c].seq + 1) EXCEPT !.waits = @ \cup {k}]>>)
             /\ reg' = [reg EXCEPT ![c].waits = @ \cup {k}, ![c].seq = @ + 1]
          \/ UNCHANGED <<op, reg>>
    BY <1>20, <2>1 DEF AskApproval
  <2>4. op' \in [TaskCards -> OpT]
    <3>1. reg[c].seq + 1 \in Nat BY CardNumbers
    <3>2. Shown(c, reg[c].seq + 1).waits \cup {k} \in SUBSET CardKeys /\ Shown(c, reg[c].seq + 1).waits \ {k} \in SUBSET CardKeys
      BY <3>1, CardShownTyped
    <3>3. /\ <<[Shown(c, reg[c].seq + 1) EXCEPT !.waits = @ \cup {k}]>> \in Seq(CardRequests)
          /\ <<[Shown(c, reg[c].seq + 1) EXCEPT !.waits = @ \ {k}]>> \in Seq(CardRequests)
      BY <3>1, <3>2, CardShownTyped, CardSeqs
    <3> QED BY <2>3, <3>3, CardHoldsTyped DEF CardTypes
  <2>5. reg' \in [TaskCards -> RegT] BY <2>3, CardNumbers DEF CardTypes, RegT
  <2> QED BY <1>20, <2>2, <2>4, <2>5 DEF AskApproval, CardTypes
<1>21. ASSUME NEW k \in CardKeys, Decide(k) PROVE CardTypes'
  <2>1. Successor(answer[k].card) \in {0, 1, 2}
    BY <1>21 DEF CardTypes, RegT, AnswerT, NoCard, Decide, Successor
  <2> QED BY <1>21, <2>1 DEF Decide, CardTypes, AnswerT
<1>22. ASSUME NEW k \in CardKeys, SettleApproval(k) PROVE CardTypes'
  <2>1. Successor(answer[k].card) \in {0, 1, 2}
    BY <1>22 DEF CardTypes, RegT, AnswerT, NoCard, SettleApproval, Successor
  <2>2. answer' \in [CardKeys -> AnswerT]
    BY <1>22, <2>1 DEF SettleApproval, CardTypes, AnswerT
  <2>3. PICK c \in TaskCards :
          \/ /\ Holds(c, "live", <<[Shown(c, reg[c].seq + 1) EXCEPT !.waits = @ \ {k}]>>)
             /\ reg' = [reg EXCEPT ![c].settled = @ \cup {k}, ![c].waits = @ \ {k}, ![c].seq = @ + 1]
          \/ UNCHANGED <<op, reg>>
    <3>1. answer[k].target \in TaskCards BY <1>22 DEF SettleApproval
    <3> HIDE DEF TaskCards
    <3> QED BY <1>22, <3>1 DEF SettleApproval
  <2>4. op' \in [TaskCards -> OpT]
    <3>1. reg[c].seq + 1 \in Nat BY CardNumbers
    <3>2. Shown(c, reg[c].seq + 1).waits \cup {k} \in SUBSET CardKeys /\ Shown(c, reg[c].seq + 1).waits \ {k} \in SUBSET CardKeys
      BY <3>1, CardShownTyped
    <3>3. /\ <<[Shown(c, reg[c].seq + 1) EXCEPT !.waits = @ \cup {k}]>> \in Seq(CardRequests)
          /\ <<[Shown(c, reg[c].seq + 1) EXCEPT !.waits = @ \ {k}]>> \in Seq(CardRequests)
      BY <3>1, <3>2, CardShownTyped, CardSeqs
    <3> QED BY <2>3, <3>3, CardHoldsTyped DEF CardTypes
  <2>5. reg' \in [TaskCards -> RegT] BY <2>3, CardNumbers DEF CardTypes, RegT
  <2> QED BY <1>22, <2>2, <2>4, <2>5 DEF SettleApproval, CardTypes
<1> QED
  BY <1>1, <1>2, <1>3, <1>4, <1>5, <1>6, <1>7, <1>8, <1>9, <1>10, <1>11, <1>12, <1>13, <1>14, <1>15, <1>16, <1>17, <1>18, <1>19,
     <1>20, <1>21, <1>22, <1>23 DEF CardsNext

--------------------
\* A live request is made under the lock of a card.
LEMMA CardHeld ==
  ASSUME CardTypes, NEW c \in TaskCards, CardAt(c), NEW r \in CardRequests, Holds(c, "live", <<r>>),
         kit' = kit, saved' = saved, loose' = loose, strm'[c].at = strm[c].at,
         reg'[c].on = reg[c].on, reg'[c].status = reg[c].status,
         strm[c].at = "open" \/ reg[c].on,
         LastGiven(reg'[c], strm'[c]) = LastGiven(reg[c], strm[c]) + 1,
         r.card = c, r.id = NoId, strm[c].at = "open" => r.seq <= LastGiven(reg[c], strm[c]) + 1,
         \/ r.part = "full" /\ (reg[c].on => r.status = reg[c].status)
         \/ strm[c].at = "open"
  PROVE  CardAt(c)'
<1> DEFINE o == [who |-> "live", reqs |-> <<r>>, bad |-> FALSE]
           n == LastGiven(reg[c], strm[c])
<1>0. op[c].who = "none" /\ op'[c] = o /\ n \in Nat /\ r.seq \in Nat
  BY CardNumbers DEF Holds, Unlocked, CardTypes, CardRequests, LastGiven
<1>1. CardStage(c, reg[c], strm[c], saved[c], op[c].who)' BY <1>0 DEF CardAt, CardStage
<1>2. OpFits(c, op[c], kit[c], saved[c], strm[c])' BY <1>0 DEF CardAt, CardStage, OpFits
<1>3. ASSUME NEW q \in loose, q.card = c PROVE Wire(c, q, reg[c], strm[c], saved[c])'
  BY <1>3, <1>0 DEF CardAt, CardTypes, CardRequests, Wire
<1>4. Wire(c, r, reg[c], strm[c], saved[c])'
  BY <1>0 DEF Wire, CardAt, CardStage, IsEnd, CardEnds
<1>5. \A i \in 1..Len(op[c].reqs)' : Wire(c, op[c].reqs[i], reg[c], strm[c], saved[c])'
  BY <1>0, <1>4
<1>6. KitFits(kit[c], saved[c])' BY DEF CardAt
<1> QED BY <1>1, <1>2, <1>3, <1>5, <1>6 DEF CardAt

\* The first request under the lock is over: what is left belongs there.
LEMMA CardLeft ==
  ASSUME CardTypes, NEW c \in TaskCards, CardAt(c), op[c].reqs # <<>>, NEW b \in BOOLEAN, NEW k, Tried(kit[c]) \subseteq Tried(k),
         Head(op[c].reqs) = ModeRequest(c, saved[c]) /\ op[c].who # "live" /\ ~b => ModeId(saved[c]) \in Tried(k)
  PROVE  /\ OpFits(c, Answered(c, b), k, saved[c], strm[c])
         /\ Answered(c, b).who \in {"none", op[c].who}
         /\ \A i \in 1..Len(Answered(c, b).reqs) : \E j \in 1..Len(op[c].reqs) : Answered(c, b).reqs[i] = op[c].reqs[j]
         /\ Head(op[c].reqs) \in CardRequests /\ Wire(c, Head(op[c].reqs), reg[c], strm[c], saved[c])
         /\ op[c].who # "live" => /\ IsEnd(saved[c])
                                  /\ Len(op[c].reqs) = 1 => Head(op[c].reqs) = CardRequest(c, saved[c])
<1> DEFINE s == saved[c]
           M == ModeRequest(c, s)
           C == CardRequest(c, s)
           q == op[c].reqs
<1>1. q \in Seq(CardRequests) /\ OpFits(c, op[c], kit[c], s, strm[c]) /\ op[c] \in OpT
  BY DEF CardTypes, OpT, CardAt
<1>2. /\ Head(q) = q[1] /\ Head(q) \in CardRequests /\ Tail(q) \in Seq(CardRequests) /\ Len(Tail(q)) = Len(q) - 1 /\ Len(q) \in Nat \ {0}
      /\ \A i \in 1..Len(Tail(q)) : Tail(q)[i] = q[i + 1] /\ i + 1 \in 1..Len(q)
  BY <1>1, CardTail
<1>3. Wire(c, Head(q), reg[c], strm[c], s) BY <1>2 DEF CardAt
<1>4. CASE Answered(c, b) = Free
  <2>2. OpFits(c, Free, k, s, strm[c]) BY DEF OpFits, Free
  <2>3. op[c].who # "live" => IsEnd(s) /\ (Len(q) = 1 => Head(q) = C)
    <3>0. op[c].who # "live" => IsEnd(s) BY <1>1 DEF OpFits, OpT
    <3>1. SUFFICES ASSUME op[c].who # "live", Len(q) = 1 PROVE IsEnd(s) /\ Head(q) = C
      BY <3>0
    <3>2. IsEnd(s) /\ q \in {<<M, C>>, <<C>>} BY <1>1, <3>1 DEF OpFits, OpT
    <3> HIDE DEF M, C
    <3>3. q = <<C>> BY <3>1, <3>2
    <3> QED BY <1>2, <3>2, <3>3
  <2> QED BY <1>2, <1>3, <1>4, <2>2, <2>3 DEF Free
<1>5. CASE Answered(c, b) # Free
  <2>1. Answered(c, b) = [op[c] EXCEPT !.reqs = Tail(q), !.bad = b] /\ Len(q) # 1
    BY <1>5 DEF Answered
  <2>2. Answered(c, b).who = op[c].who /\ Answered(c, b).reqs = Tail(q) /\ Answered(c, b).bad = b
    BY <1>1, <2>1 DEF OpT
  <2>3. Len(Tail(q)) # 0 /\ Tail(q) # <<>>
    <3>1. Len(Tail(q)) # 0 BY <1>2, <2>1
    <3> QED BY <1>2, <3>1, EmptySeq
  <2>4. op[c].who # "live" => IsEnd(s) /\ q = <<M, C>> /\ Head(q) = M /\ Tail(q) = <<C>>
    <3>1. SUFFICES ASSUME op[c].who # "live" PROVE IsEnd(s) /\ q = <<M, C>> /\ Head(q) = M /\ Tail(q) = <<C>>
      OBVIOUS
    <3>2. IsEnd(s) /\ q \in {<<M, C>>, <<C>>} BY <1>1, <3>1 DEF OpFits, OpT
    <3> HIDE DEF M, C
    <3>3. q = <<M, C>> BY <2>1, <3>2
    <3> QED BY <1>2, <3>2, <3>3
  <2>5. op[c].who = "live" => \A i \in 1..Len(Tail(q)) : Tail(q)[i].id = NoId /\ (Tail(q)[i].part = "full" \/ strm[c].at = "open")
    BY <1>1, <1>2 DEF OpFits
  <2>6. op[c].who # "none" BY <1>1 DEF OpFits
  <2>7. OpFits(c, Answered(c, b), k, s, strm[c])
    BY <2>2, <2>3, <2>4, <2>5, <2>6 DEF OpFits
  <2>8. \A i \in 1..Len(Tail(q)) : \E j \in 1..Len(q) : Tail(q)[i] = q[j] BY <1>2
  <2> QED BY <1>2, <1>3, <2>1, <2>2, <2>4, <2>7, <2>8
<1> QED BY <1>4, <1>5

\* The other cards.
LEMMA CardOthers ==
  ASSUME CardTypes, NEW c \in TaskCards, \A d \in TaskCards : CardAt(d), CardAt(c)',
         \A d \in TaskCards \ {c} : /\ kit'[d] = kit[d] /\ strm'[d] = strm[d] /\ op'[d] = op[d] /\ saved'[d] = saved[d]
                                    /\ reg'[d].on = reg[d].on /\ reg'[d].seq = reg[d].seq /\ reg'[d].status = reg[d].status,
         \A r \in loose' : r.card # c => r \in loose
  PROVE  \A d \in TaskCards : CardAt(d)'
<1> SUFFICES ASSUME NEW d \in TaskCards, d # c PROVE CardAt(d)' OBVIOUS
<1> QED BY CardFrame

\* The first request is answered, and the checkpoint struck off if it was the last and none failed.
LEMMA CardAnswers ==
  ASSUME CardTypes, \A d \in TaskCards : CardAt(d), NEW c \in TaskCards, op[c].reqs # <<>>, NEW k, NEW b \in BOOLEAN,
         KitFits(k, saved[c]), Tried(kit[c]) \subseteq Tried(k),
         op[c].bad => b, op[c].who # "live" /\ ~b => Head(op[c].reqs).id \in Tried(k),
         kit' = [kit EXCEPT ![c] = k], op' = [op EXCEPT ![c] = Answered(c, b)], strm' = strm, loose' = loose,
         Struck(c, b, Len(op[c].reqs) = 1)
  PROVE  \A d \in TaskCards : CardAt(d)'
<1> DEFINE r == Head(op[c].reqs)
           s == saved[c]
<1>1. CardAt(c) /\ op[c] \in OpT /\ s \in SavedT BY DEF CardTypes
<1>4. r = ModeRequest(c, s) /\ op[c].who # "live" /\ ~b => ModeId(s) \in Tried(k)
  BY DEF ModeRequest, Request
<1> DEFINE o == Answered(c, b)
<1>5. /\ OpFits(c, o, k, s, strm[c])
      /\ o.who \in {"none", op[c].who}
      /\ \A i \in 1..Len(o.reqs) : \E j \in 1..Len(op[c].reqs) : o.reqs[i] = op[c].reqs[j]
      /\ op[c].who # "live" => /\ IsEnd(s)
                               /\ Len(op[c].reqs) = 1 => r = CardRequest(c, s)
  BY <1>1, <1>4, CardLeft
<1> HIDE DEF o
<1>7. kit'[c] = k /\ op'[c] = o BY DEF CardTypes, o
<1>6. op' = [op EXCEPT ![c] = o] BY DEF o
<1>8. CASE saved' = saved /\ reg' = reg
  BY <1>1, <1>5, <1>6, <1>7, <1>8, CardOthers DEF CardAt, CardStage, CardTypes
<1>9. CASE ~(saved' = saved /\ reg' = reg)
  <2>1. /\ Len(op[c].reqs) = 1 /\ ~b /\ op[c].who # "live"
        /\ saved' = [saved EXCEPT ![c].done = TRUE]
        /\ reg' = [reg EXCEPT ![c] = Recorded(s.status, s.update)] \/ reg' = reg
    BY <1>9 DEF Struck
  <2>2. op[c].reqs \in Seq(CardRequests) /\ r = CardRequest(c, s) /\ IsEnd(s)
    BY <1>1, <1>5, <2>1 DEF OpT
  <2>4. CardId(s) \in Tried(k) BY <2>1, <2>2 DEF CardRequest, Request
  <2>5. ModeId(s) \in Tried(k) BY <1>1, <2>1 DEF OpFits, CardAt, OpT
  <2>6. o = Free BY <2>1 DEF o, Answered
  <2>7. /\ saved'[c].kind = s.kind /\ saved'[c].disable = s.disable /\ saved'[c].update = s.update /\ saved'[c].status = s.status
    BY <1>1, <2>1 DEF CardTypes
  <2>8. KitFits(kit[c], saved[c])'
    BY <1>7, <2>2, <2>4, <2>5, <2>7 DEF KitFits, ModeId, CardId, IsEnd, AsOf
  <2>9. OpFits(c, op[c], kit[c], saved[c], strm[c])' /\ op'[c].reqs = <<>> /\ op'[c].who = "none"
    BY <1>7, <2>6 DEF OpFits, Free
  <2>10. CardStage(c, reg[c], strm[c], saved[c], op[c].who)'
    BY <2>1, <1>1, <2>2, <2>7, <2>9 DEF CardTypes, Recorded, NoCardRecord, CardAt, CardStage, IsEnd, CardEnds
  <2>11. ASSUME NEW q \in loose, q.card = c PROVE Wire(c, q, reg[c], strm[c], saved[c])'
    BY <1>1, <2>11, <2>2, <2>7 DEF CardAt, Wire, ModeRequest, CardRequest, Request, ModeId, CardId, IsEnd, CardEnds
  <2>12. CardAt(c)' BY <2>8, <2>9, <2>10, <2>11 DEF CardAt
  <2> QED BY <1>6, <2>1, <2>12, CardOthers DEF CardTypes
<1> QED BY <1>8, <1>9

\* The head of the requests under a lock.
LEMMA CardFirst ==
  ASSUME CardTypes, NEW c \in TaskCards, CardAt(c), op[c].reqs # <<>>
  PROVE  /\ Head(op[c].reqs) \in CardRequests /\ Wire(c, Head(op[c].reqs), reg[c], strm[c], saved[c])
         /\ op[c].who # "live" => Head(op[c].reqs).id \in {ModeId(saved[c]), CardId(saved[c])} \ {NoId}
<1>1. op[c].reqs \in Seq(CardRequests) BY DEF CardTypes, OpT
<1>2. Head(op[c].reqs) = op[c].reqs[1] /\ Head(op[c].reqs) \in CardRequests /\ 1 \in 1..Len(op[c].reqs)
  BY <1>1, CardTail
<1>3. op[c].who # "live" => Head(op[c].reqs) \in {ModeRequest(c, saved[c]), CardRequest(c, saved[c])}
  BY DEF CardAt, OpFits, CardTypes, OpT
<1> QED BY <1>2, <1>3 DEF CardAt, ModeRequest, CardRequest, Request, ModeId, CardId, NoId

LEMMA CardLands ==
  ASSUME CardTypes, \A d \in TaskCards : CardAt(d), NEW c \in TaskCards, Lands(c)
  PROVE  \A d \in TaskCards : CardAt(d)'
<1> DEFINE r == Head(op[c].reqs)
           b == op[c].bad \/ Rejected(r)
           k == Applied(r)
<1>1. CardAt(c) /\ op[c].reqs # <<>> /\ b \in BOOLEAN BY DEF Lands, CardTypes
<1>2. r \in CardRequests /\ Wire(c, r, reg[c], strm[c], saved[c]) /\ (op[c].who # "live" => r.id # NoId)
  BY <1>1, CardFirst
<1>3. KitFits(k, saved[c]) /\ Tried(kit[c]) \subseteq Tried(k) /\ (r.id # NoId /\ ~Stale(r) => r.id \in Tried(k))
  BY <1>1, <1>2, CardFits DEF Tried
<1>4. op[c].who # "live" /\ ~b => r.id \in Tried(k) BY <1>2, <1>3 DEF Rejected
<1>5. /\ kit' = [kit EXCEPT ![c] = k] /\ op' = [op EXCEPT ![c] = Answered(c, b)] /\ strm' = strm /\ loose' = loose
      /\ Struck(c, b, Len(op[c].reqs) = 1) /\ (op[c].bad => b)
  BY DEF Lands
<1> HIDE DEF k, b
<1> QED BY <1>1, <1>3, <1>4, <1>5, CardAnswers

LEMMA CardTurnsDown ==
  ASSUME CardTypes, \A d \in TaskCards : CardAt(d), NEW c \in TaskCards, TurnsDown(c)
  PROVE  \A d \in TaskCards : CardAt(d)'
<1> DEFINE r == Head(op[c].reqs)
           b == op[c].bad \/ r.part = "enable"
           k == [kit[c] EXCEPT !.refused = IF r.id = NoId THEN @ ELSE @ \cup {r.id}]
<1>1. CardAt(c) /\ op[c].reqs # <<>> /\ b \in BOOLEAN /\ kit[c] \in KitT /\ op[c] \in OpT
  BY DEF TurnsDown, CardTypes
<1>2. op[c].who # "live" => r.id # NoId BY <1>1, CardFirst
<1>3. /\ k.seq = kit[c].seq /\ k.status = kit[c].status /\ k.stream = kit[c].stream /\ k.done = kit[c].done
      /\ k.refused = IF r.id = NoId THEN kit[c].refused ELSE kit[c].refused \cup {r.id}
  BY <1>1 DEF KitT
<1>5. /\ kit' = [kit EXCEPT ![c] = k] /\ op' = [op EXCEPT ![c] = Answered(c, b)] /\ strm' = strm /\ loose' = loose
      /\ Struck(c, b, Len(op[c].reqs) = 1) /\ (op[c].bad => b)
  BY <1>1 DEF TurnsDown, CardTypes
<1> HIDE DEF k, b, r
<1>6. KitFits(k, saved[c]) /\ Tried(kit[c]) \subseteq Tried(k) /\ (op[c].who # "live" => r.id \in Tried(k))
  BY <1>1, <1>2, <1>3 DEF CardAt, KitFits, AsOf, Tried
<1> QED BY <1>1, <1>5, <1>6, CardAnswers DEF r

LEMMA CardReopens ==
  ASSUME CardTypes, \A d \in TaskCards : CardAt(d), NEW c \in TaskCards, Reopens(c)
  PROVE  \A d \in TaskCards : CardAt(d)'
<1>. PICK n \in Nat : LastGiven(reg[c], strm[c]) + 1 = n BY CardNumbers
<1> DEFINE q == <<Request(c, "enable", n, Working, {}, NoId), Request(c, "text", n + 1, Working, {}, NoId)>>
<1>0. n \in Nat /\ LastGiven(reg[c], strm[c]) + 1 = n /\ LastGiven(reg[c], strm[c]) \in Nat
  BY CardNumbers DEF LastGiven
<1>1. /\ op' = [op EXCEPT ![c].reqs = q] /\ strm' = [strm EXCEPT ![c].seq = n + 1]
      /\ reg' = (IF reg[c].on THEN [reg EXCEPT ![c].seq = n + 1] ELSE reg)
      /\ kit' = kit /\ loose' = loose /\ saved' = saved
  BY DEF Reopens, LastGiven
<1>2. op[c] \in OpT /\ op[c].reqs \in Seq(CardRequests) /\ op[c].reqs # <<>> /\ CardAt(c)
  BY DEF Reopens, CardTypes, OpT
<1>3. op[c].who = "live" /\ strm[c].at = "open"
  <2>1. Head(op[c].reqs) = op[c].reqs[1] /\ 1 \in 1..Len(op[c].reqs) BY <1>2, CardTail
  <2>2. op[c].reqs[1].part = "text" BY <2>1 DEF Reopens
  <2>3. op[c].who # "live" => FALSE
    <3>1. SUFFICES ASSUME op[c].who # "live" PROVE FALSE OBVIOUS
    <3>2. op[c].reqs \in {<<ModeRequest(c, saved[c]), CardRequest(c, saved[c])>>, <<CardRequest(c, saved[c])>>}
      BY <1>2, <3>1 DEF CardAt, OpFits, OpT
    <3>3. op[c].reqs[1] \in {ModeRequest(c, saved[c]), CardRequest(c, saved[c])}
      <4> HIDE DEF ModeRequest, CardRequest
      <4> QED BY <3>2
    <3> QED BY <2>2, <3>3 DEF ModeRequest, CardRequest, Request
  <2> QED BY <1>2, <2>1, <2>2, <2>3 DEF CardAt, OpFits
<1>4. op'[c].who = "live" /\ op'[c].reqs = q /\ strm'[c].at = "open" /\ strm'[c].seq = n + 1
      /\ reg'[c].on = reg[c].on /\ reg'[c].status = reg[c].status /\ LastGiven(reg'[c], strm'[c]) = n + 1
  BY <1>0, <1>1, <1>2, <1>3 DEF CardTypes, LastGiven, OpT, StrmT, RegT
<1>5. CardStage(c, reg[c], strm[c], saved[c], op[c].who)'
  BY <1>1, <1>2, <1>3, <1>4 DEF CardAt, CardStage
<1>6. Len(q) = 2 /\ q # <<>> /\ (\A i \in 1..2 : q[i].id = NoId /\ q[i].card = c /\ q[i].seq <= n + 1)
  BY <1>0 DEF Request
<1>7. OpFits(c, op[c], kit[c], saved[c], strm[c])'
  <2> HIDE DEF q
  <2> QED BY <1>4, <1>6 DEF OpFits
<1>8. \A i \in 1..2 : Wire(c, q[i], reg[c], strm[c], saved[c])'
  <2> HIDE DEF q
  <2>1. saved[c].kind \in {"stream", "freeze"} BY <1>2, <1>3 DEF CardAt, CardStage
  <2>2. saved'[c].kind \in {"stream", "freeze"} BY <1>1, <2>1
  <2>3. ASSUME NEW r, r.id = NoId, r.card = c, r.seq <= n + 1 PROVE Wire(c, r, reg[c], strm[c], saved[c])'
    BY <1>0, <1>4, <2>2, <2>3 DEF Wire
  <2> QED BY <1>6, <2>3
<1>9. ASSUME NEW r \in loose, r.card = c PROVE Wire(c, r, reg[c], strm[c], saved[c])'
  <2>1. Wire(c, r, reg[c], strm[c], saved[c]) /\ r.seq \in Nat
    BY <1>2, <1>9 DEF CardAt, CardTypes, CardRequests
  <2> HIDE DEF q
  <2> QED BY <1>0, <1>1, <1>3, <1>4, <2>1 DEF Wire
<1>10. CardAt(c)'
  <2> HIDE DEF q
  <2>1. \A i \in 1..Len(op[c].reqs)' : Wire(c, op[c].reqs[i], reg[c], strm[c], saved[c])'
    BY <1>4, <1>6, <1>8
  <2>2. KitFits(kit[c], saved[c])' BY <1>1, <1>2 DEF CardAt
  <2> QED BY <1>1, <1>5, <1>7, <1>9, <2>1, <2>2 DEF CardAt
<1> HIDE DEF q
<1> QED BY <1>1, <1>10, CardOthers DEF CardTypes

LEMMA CardTimesOut ==
  ASSUME CardTypes, \A d \in TaskCards : CardAt(d), NEW c \in TaskCards, TimesOut(c)
  PROVE  \A d \in TaskCards : CardAt(d)'
<1> DEFINE o == Answered(c, TRUE)
           r == Head(op[c].reqs)
<1>1. /\ op' = [op EXCEPT ![c] = o] /\ loose' = loose \cup {r} /\ op[c].reqs # <<>>
      /\ kit' = kit /\ reg' = reg /\ strm' = strm /\ saved' = saved /\ CardAt(c)
  BY DEF TimesOut
<1>2. /\ OpFits(c, o, kit[c], saved[c], strm[c])
      /\ o.who \in {"none", op[c].who}
      /\ \A i \in 1..Len(o.reqs) : \E j \in 1..Len(op[c].reqs) : o.reqs[i] = op[c].reqs[j]
      /\ Wire(c, r, reg[c], strm[c], saved[c])
  BY <1>1, CardLeft
<1> HIDE DEF o, r
<1>3. op'[c] = o BY <1>1 DEF CardTypes
<1>4. CardAt(c)' BY <1>1, <1>2, <1>3 DEF CardAt, CardStage
<1> QED BY <1>1, <1>2, <1>4, CardOthers DEF CardTypes, Wire

LEMMA CardLate ==
  ASSUME CardTypes, \A d \in TaskCards : CardAt(d), NEW r \in loose, ArrivesLate(r) \/ NeverArrives(r)
  PROVE  \A d \in TaskCards : CardAt(d)'
<1> DEFINE c == r.card
           k == Applied(r)
<1>1. /\ loose' = loose \ {r} /\ reg' = reg /\ strm' = strm /\ saved' = saved /\ op' = op
      /\ kit' = kit \/ kit' = [kit EXCEPT ![c] = k]
  BY DEF ArrivesLate, NeverArrives
<1>2. r \in CardRequests /\ c \in TaskCards /\ CardAt(c) BY DEF CardTypes, CardRequests
<1>3. Wire(c, r, reg[c], strm[c], saved[c]) BY <1>2 DEF CardAt
<1>4. KitFits(k, saved[c]) /\ Tried(kit[c]) \subseteq Tried(k) BY <1>2, <1>3, CardFits
<1> HIDE DEF k
<1>5. CardAt(c)' BY <1>1, <1>2, <1>4 DEF CardTypes, CardAt, OpFits, CardStage
<1> QED BY <1>1, <1>2, <1>5, CardOthers DEF CardTypes

LEMMA CardExpires ==
  ASSUME CardTypes, \A d \in TaskCards : CardAt(d), NEW c \in TaskCards, StreamExpires(c)
  PROVE  \A d \in TaskCards : CardAt(d)'
<1>1. /\ kit' = [kit EXCEPT ![c].stream = FALSE]
      /\ reg' = reg /\ strm' = strm /\ saved' = saved /\ op' = op /\ loose' = loose /\ CardAt(c) /\ kit[c] \in KitT
  BY DEF StreamExpires, CardTypes
<1>2. kit'[c].done = kit[c].done /\ kit'[c].refused = kit[c].refused /\ kit'[c].seq = kit[c].seq /\ kit'[c].status = kit[c].status /\ kit'[c].stream = FALSE
  BY <1>1 DEF CardTypes, KitT
<1>3. KitFits(kit[c], saved[c])' /\ OpFits(c, op[c], kit[c], saved[c], strm[c])'
  BY <1>1, <1>2 DEF CardAt, KitFits, OpFits, AsOf, Tried
<1>4. CardAt(c)' BY <1>1, <1>3 DEF CardAt
<1> QED BY <1>1, <1>4, CardOthers DEF CardTypes

\* The live updates.
LEMMA CardUpdates ==
  ASSUME CardTypes, \A d \in TaskCards : CardAt(d), NEW c \in TaskCards, UpdatePresentation(c) \/ UpdateText(c) \/ ExpandCard(c)
  PROVE  \A d \in TaskCards : CardAt(d)'
<1>1. PICK n \in Nat : n = LastGiven(reg[c], strm[c]) + 1 BY CardNumbers
<1>2. PICK r \in CardRequests :
        /\ Holds(c, "live", <<r>>) /\ r.card = c /\ r.id = NoId
        /\ strm[c].at = "open" => r.seq <= n
        /\ strm' = strm \/ strm' = [strm EXCEPT ![c].seq = n]
        /\ IF reg[c].on THEN reg' = [reg EXCEPT ![c].seq = n] ELSE reg' = reg /\ strm' = [strm EXCEPT ![c].seq = n]
        /\ strm[c].at = "open" \/ reg[c].on
        /\ \/ r.part = "full" /\ (reg[c].on => r.status = reg[c].status)
           \/ strm[c].at = "open"
  <2>1. CASE UpdatePresentation(c)
    <3>1. Shown(c, NextSeq(c)) \in CardRequests /\ NextSeq(c) = n
      BY <1>1, CardNumbers, CardShownTyped
    <3>2. /\ Shown(c, NextSeq(c)).card = c /\ Shown(c, NextSeq(c)).id = NoId /\ Shown(c, NextSeq(c)).seq = n
          /\ Shown(c, NextSeq(c)).part = "full" /\ (reg[c].on => Shown(c, NextSeq(c)).status = reg[c].status)
      BY <3>1 DEF Shown, Request
    <3>3. /\ Holds(c, "live", <<Shown(c, NextSeq(c))>>) /\ strm[c].at = "open" /\ strm' = [strm EXCEPT ![c].seq = n]
          /\ reg' = IF reg[c].on THEN [reg EXCEPT ![c].seq = n] ELSE reg
      BY <2>1, <3>1 DEF UpdatePresentation, Streaming, Numbered
    <3>4. n <= n BY <1>1
    <3> QED BY <3>1, <3>2, <3>3, <3>4
  <2>2. CASE UpdateText(c)
    <3>1. Request(c, "text", NextSeq(c), Working, {}, NoId) \in CardRequests /\ NextSeq(c) = n
      BY <1>1, CardNumbers, CardRequestTyped DEF Working, CardStatuses, CardParts, CardIds
    <3> DEFINE q == Request(c, "text", NextSeq(c), Working, {}, NoId)
    <3>2. q \in CardRequests /\ q.card = c /\ q.id = NoId /\ q.seq = n
      BY <3>1 DEF Request
    <3>3. Holds(c, "live", <<q>>) /\ strm[c].at = "open" /\ Numbered(c, n)
      BY <2>2, <3>1 DEF UpdateText, Streaming
    <3> HIDE DEF q
    <3>4. n <= n OBVIOUS
    <3> QED BY <3>2, <3>3, <3>4 DEF Numbered
  <2>3. CASE ExpandCard(c)
    <3>1. reg[c].seq + 1 = n /\ reg[c].on BY <1>1, <2>3 DEF ExpandCard, LastGiven
    <3>2. Shown(c, n) \in CardRequests BY <3>1, CardShownTyped
    <3> DEFINE q == Shown(c, n)
    <3>3. q \in CardRequests /\ q.card = c /\ q.id = NoId /\ q.seq = n /\ q.part = "full" /\ q.status = reg[c].status
      BY <3>1, <3>2 DEF Shown, Request
    <3>4. Holds(c, "live", <<q>>) /\ strm' = strm /\ reg' = [reg EXCEPT ![c].seq = n]
      BY <2>3, <3>1 DEF ExpandCard
    <3> HIDE DEF q
    <3>5. n <= n OBVIOUS
    <3> QED BY <3>1, <3>3, <3>4, <3>5
  <2> QED BY <2>1, <2>2, <2>3
<1>3. /\ kit' = kit /\ saved' = saved /\ loose' = loose /\ op' = [op EXCEPT ![c] = [who |-> "live", reqs |-> <<r>>, bad |-> FALSE]]
  BY <1>2 DEF UpdatePresentation, UpdateText, ExpandCard, Holds
<1>4. strm'[c].at = strm[c].at /\ reg'[c].on = reg[c].on /\ reg'[c].status = reg[c].status /\ LastGiven(reg'[c], strm'[c]) = n
  BY <1>2 DEF CardTypes, RegT, StrmT, LastGiven
<1>5. CardAt(c)' BY <1>1, <1>2, <1>3, <1>4, CardHeld
<1> QED BY <1>2, <1>3, <1>5, CardOthers DEF CardTypes

LEMMA CardReference ==
  ASSUME CardTypes, \A d \in TaskCards : CardAt(d), NEW c \in TaskCards, RefreshReference(c)
  PROVE  \A d \in TaskCards : CardAt(d)'
<1>1. /\ saved' = [saved EXCEPT ![c].seq = NextSeq(c) - 1] /\ CardAt(c) /\ saved[c] \in SavedT
      /\ reg' = reg /\ strm' = strm /\ kit' = kit /\ op' = op /\ loose' = loose
  BY DEF RefreshReference, CardTypes
<1>2. /\ saved'[c].kind = saved[c].kind /\ saved'[c].disable = saved[c].disable /\ saved'[c].update = saved[c].update
      /\ saved'[c].status = saved[c].status /\ saved'[c].done = saved[c].done
  BY <1>1 DEF CardTypes, SavedT
<1>3. /\ ModeRequest(c, saved'[c]) = ModeRequest(c, saved[c]) /\ CardRequest(c, saved'[c]) = CardRequest(c, saved[c])
      /\ ModeId(saved'[c]) = ModeId(saved[c]) /\ CardId(saved'[c]) = CardId(saved[c]) /\ (IsEnd(saved'[c]) <=> IsEnd(saved[c]))
  BY <1>2 DEF ModeRequest, CardRequest, ModeId, CardId, IsEnd
<1>4. KitFits(kit[c], saved[c])' /\ OpFits(c, op[c], kit[c], saved[c], strm[c])' /\ CardStage(c, reg[c], strm[c], saved[c], op[c].who)'
  BY <1>1, <1>2, <1>3 DEF CardAt, KitFits, OpFits, AsOf, CardStage
<1>5. ASSUME NEW r, Wire(c, r, reg[c], strm[c], saved[c]) PROVE Wire(c, r, reg[c], strm[c], saved[c])'
  BY <1>1, <1>2, <1>3, <1>5 DEF Wire
<1>6. CardAt(c)' BY <1>1, <1>4, <1>5 DEF CardAt
<1> QED BY <1>1, <1>6, CardOthers DEF CardTypes

LEMMA CardPurge ==
  ASSUME CardTypes, \A d \in TaskCards : CardAt(d), NEW c \in TaskCards, PurgeRecord(c)
  PROVE  \A d \in TaskCards : CardAt(d)'
<1>1. /\ reg' = [reg EXCEPT ![c] = NoCardRecord] /\ CardAt(c) /\ op[c].who # "live" /\ \A r \in loose : r.card = c => r.id # NoId
      /\ saved' = saved /\ strm' = strm /\ kit' = kit /\ op' = op /\ loose' = loose
  BY DEF PurgeRecord
<1>2. ~reg'[c].on BY <1>1 DEF CardTypes, NoCardRecord
<1>3. \A i \in 1..Len(op[c].reqs) : op[c].reqs[i].id # NoId
  BY <1>1 DEF CardAt, OpFits, ModeRequest, CardRequest, Request, ModeId, CardId, NoId, CardTypes, OpT
<1>4. \A r : r.id # NoId /\ Wire(c, r, reg[c], strm[c], saved[c]) => Wire(c, r, reg'[c], strm[c], saved[c])
  BY DEF Wire
<1>5. CardStage(c, reg[c], strm[c], saved[c], op[c].who)' /\ OpFits(c, op[c], kit[c], saved[c], strm[c])' /\ KitFits(kit[c], saved[c])'
  BY <1>1, <1>2 DEF CardAt, CardStage
<1>6. CardAt(c)' BY <1>1, <1>3, <1>4, <1>5 DEF CardAt
<1> QED BY <1>1, <1>6, CardOthers DEF CardTypes

\* The end of a card takes the next two numbers.
LEMMA CardPrepares ==
  ASSUME CardTypes, \A d \in TaskCards : CardAt(d) /\ Anchored(d), NEW c \in TaskCards, PrepareTerminal(c)
  PROVE  (\A d \in TaskCards : CardAt(d)') /\ saved'[c].kind = "terminal" /\ saved[c].kind = "stream"
<1>1. PICK n \in Nat : n = LastGiven(reg[c], strm[c]) + 1 /\ n = NextSeq(c)
  BY CardNumbers
<1> DEFINE s == [kind |-> "terminal", seq |-> n + 1, disable |-> n, update |-> n + 1, status |-> "done", done |-> FALSE]
<1>2. /\ strm' = [strm EXCEPT ![c] = [at |-> "closed", seq |-> n + 1]]
      /\ reg' = IF reg[c].on THEN Ended(c, n) ELSE reg
      /\ saved' = [saved EXCEPT ![c] = s]
      /\ kit' = kit /\ op' = op /\ loose' = loose /\ strm[c].at = "open" /\ op[c].who = "none" /\ anchor.at \in {"none", "done"}
      /\ CardAt(c) /\ Anchored(c)
  BY <1>1 DEF PrepareTerminal, Unlocked
<1>3. saved[c].kind = "stream" /\ op[c].reqs = <<>>
  BY <1>2 DEF CardAt, CardStage, Anchored, OpFits
<1>4. saved'[c] = s /\ strm'[c].at = "closed" /\ reg'[c].on = reg[c].on /\ (reg[c].on => reg'[c].status = "done")
  BY <1>2 DEF CardTypes, Ended, RegT
<1>5. kit[c].done = {} BY <1>2, <1>3 DEF CardAt, KitFits, IsEnd, CardEnds
<1>6. ASSUME NEW r \in loose, r.card = c PROVE Wire(c, r, reg[c], strm[c], saved[c])'
  BY <1>2, <1>6, <1>3, CardNumbers, <1>1, <1>4 DEF CardAt, CardTypes, CardRequests, Wire, IsEnd, CardEnds, LastGiven
<1>7. KitFits(kit[c], saved[c])' /\ OpFits(c, op[c], kit[c], saved[c], strm[c])'
  BY <1>2, <1>3, <1>4, <1>5 DEF KitFits, OpFits
<1>8. CardStage(c, reg[c], strm[c], saved[c], op[c].who)'
  BY <1>2, <1>4 DEF CardStage, IsEnd, CardEnds
<1>9. CardAt(c)'
  <2>1. op'[c].reqs = <<>> /\ Len(op'[c].reqs) = 0 /\ loose' = loose BY <1>2, <1>3
  <2> QED BY <1>6, <1>7, <1>8, <2>1 DEF CardAt
<1>10. /\ \A d \in TaskCards \ {c} : strm'[d] = strm[d] /\ saved'[d] = saved[d] /\ reg'[d] = reg[d]
  BY <1>2 DEF CardTypes, Ended
<1> QED BY <1>2, <1>3, <1>4, <1>9, <1>10, CardOthers

LEMMA CardDelivers ==
  ASSUME CardTypes, \A d \in TaskCards : CardAt(d), NEW c \in TaskCards, WorkerDelivers(c)
  PROVE  \A d \in TaskCards : CardAt(d)'
<1> DEFINE M == ModeRequest(c, saved[c])
           C == CardRequest(c, saved[c])
<1>1. Replay(c) = <<M, C>> /\ IsEnd(saved[c])
  BY CardReplayTyped DEF WorkerDelivers, IsEnd, CardEnds
<1>2. /\ op' = [op EXCEPT ![c] = [who |-> "worker", reqs |-> <<M, C>>, bad |-> FALSE]]
      /\ saved' = saved /\ strm' = strm /\ kit' = kit /\ reg' = reg /\ loose' = loose /\ CardAt(c) /\ op[c].who = "none"
  BY <1>1 DEF WorkerDelivers, Holds, Unlocked
<1>3. Wire(c, M, reg[c], strm[c], saved[c]) /\ Wire(c, C, reg[c], strm[c], saved[c])
  BY <1>1 DEF Wire, ModeRequest, CardRequest, Request, ModeId, CardId, NoId, IsEnd, CardEnds
<1>4. CardStage(c, reg[c], strm[c], saved[c], op[c].who)'
  BY <1>1, <1>2 DEF CardAt, CardStage
<1>5. op'[c] = [who |-> "worker", reqs |-> <<M, C>>, bad |-> FALSE]
  BY <1>2 DEF CardTypes
<1> DEFINE q == <<M, C>>
<1>6. Len(q) = 2 /\ q # <<>> /\ q[1] = M /\ q[2] = C OBVIOUS
<1>7. OpFits(c, op[c], kit[c], saved[c], strm[c])' BY <1>1, <1>2, <1>5, <1>6 DEF OpFits
<1>8. \A i \in 1..Len(op[c].reqs)' : Wire(c, op[c].reqs[i], reg[c], strm[c], saved[c])'
  <2>1. SUFFICES ASSUME NEW i \in 1..2 PROVE Wire(c, op[c].reqs[i], reg[c], strm[c], saved[c])'
    BY <1>5, <1>6
  <2>2. op'[c].reqs[i] = M \/ op'[c].reqs[i] = C BY <1>5, <1>6
  <2> HIDE DEF M, C
  <2> QED BY <1>2, <1>3, <2>2
<1>9. CardAt(c)' BY <1>2, <1>4, <1>7, <1>8 DEF CardAt
<1> QED BY <1>2, <1>9, CardOthers DEF CardTypes

LEMMA CardRecovers ==
  ASSUME CardTypes, \A d \in TaskCards : CardAt(d), NEW c \in TaskCards, RecoverTerminal(c)
  PROVE  (\A d \in TaskCards : CardAt(d)') /\ saved'[c].kind = "terminal" /\ saved[c].kind = "stream" /\ strm[c].at = "none"
<1>1. PICK n \in Nat : n = saved[c].seq BY CardNumbers
<1> DEFINE s == [kind |-> "terminal", seq |-> n + 2, disable |-> n + 1, update |-> n + 2, status |-> "stopped", done |-> FALSE]
<1>2. /\ reg' = [reg EXCEPT ![c] = Recorded("stopped", n + 2)]
      /\ saved' = [saved EXCEPT ![c] = s]
      /\ kit' = kit /\ op' = op /\ loose' = loose /\ loose = {} /\ strm' = strm /\ strm[c].at = "none" /\ saved[c].kind = "stream"
      /\ CardAt(c)
  BY <1>1 DEF RecoverTerminal
<1>3. op[c].who = "none" /\ op[c].reqs = <<>>
  BY <1>2 DEF CardAt, CardStage, OpFits, IsEnd, CardEnds
<1>4. saved'[c] = s /\ reg'[c].status = "stopped"
  BY <1>2 DEF CardTypes, Recorded, NoCardRecord
<1>5. kit[c].done = {} BY <1>2 DEF CardAt, KitFits, IsEnd, CardEnds
<1>6. KitFits(kit[c], saved[c])' /\ OpFits(c, op[c], kit[c], saved[c], strm[c])'
  BY <1>2, <1>3, <1>4, <1>5 DEF KitFits, OpFits
<1>7. CardStage(c, reg[c], strm[c], saved[c], op[c].who)'
  BY <1>2, <1>4 DEF CardStage, IsEnd, CardEnds
<1>8. CardAt(c)' BY <1>2, <1>3, <1>6, <1>7 DEF CardAt
<1> QED BY <1>2, <1>4, <1>8, CardOthers DEF CardTypes

--------------------
\* The second card: it is new, and the first one's freeze follows the numbers of the exported reference.
LEMMA CardOpens ==
  ASSUME CardTypes, \A d \in TaskCards : CardAt(d) /\ Anchored(d), ReanchorOpens
  PROVE  \A d \in TaskCards : CardAt(d)'
<1> USE DEF TaskCards
<1> DEFINE f == [kind |-> "freeze", seq |-> 0, disable |-> anchor.disable, update |-> anchor.update, status |-> "superseded", done |-> FALSE]
           e == [NotSaved EXCEPT !.kind = "stream", !.seq = 2]
<1>1. /\ kit' = [kit EXCEPT ![2] = [Blank EXCEPT !.seq = 2, !.status = Working, !.stream = TRUE]]
      /\ reg' = [reg EXCEPT ![2] = Recorded(Working, 2)]
      /\ strm' = [strm EXCEPT ![2] = [at |-> "open", seq |-> 2]]
      /\ saved' = [saved EXCEPT ![2] = e, ![1] = f]
      /\ anchor.at = "prepared" /\ op[2].who = "none" /\ op' = op /\ loose' = loose
      /\ CardAt(1) /\ CardAt(2) /\ Anchored(1) /\ Anchored(2)
  BY DEF ReanchorOpens, Unlocked
<1>2. /\ kit'[1] = kit[1] /\ reg'[1] = reg[1] /\ strm'[1] = strm[1] /\ saved'[1] = f /\ saved'[2] = e
      /\ kit'[2].done = {} /\ strm'[2].at = "open"
  BY <1>1 DEF CardTypes, Blank
<1>3. saved[1].kind = "stream" /\ strm[1].at = "open" /\ anchor.update = anchor.disable + 1 /\ saved[2].kind = "none"
  BY <1>1 DEF Anchored
<1>4. e.kind = "stream" /\ e.done = FALSE BY DEF NotSaved
<1>5. CardAt(2)'
  <2>1. op[2].reqs = <<>> /\ \A r \in loose : r.card # 2
    BY <1>1, <1>3 DEF CardAt, OpFits, Wire
  <2> HIDE DEF e
  <2>2. KitFits(kit[2], saved[2])' /\ OpFits(2, op[2], kit[2], saved[2], strm[2])'
    BY <1>1, <1>2, <1>4, <2>1 DEF KitFits, OpFits, IsEnd, CardEnds, ModeId, CardId
  <2>3. CardStage(2, reg[2], strm[2], saved[2], op[2].who)'
    BY <1>1, <1>2, <1>4 DEF CardStage, IsEnd, CardEnds
  <2>4. op'[2].reqs = <<>> /\ Len(op'[2].reqs) = 0 BY <1>1, <2>1
  <2> QED BY <1>1, <2>1, <2>2, <2>3, <2>4 DEF CardAt
<1>6. CardAt(1)'
  BY <1>1, <1>3, <1>2 DEF CardAt, KitFits, IsEnd, CardEnds, CardTypes, OpFits, OpT, CardStage, Wire
<1> QED BY <1>5, <1>6

\* The old card is frozen.
LEMMA CardFreezes ==
  ASSUME CardTypes, \A d \in TaskCards : CardAt(d) /\ Anchored(d), FreezesOld
  PROVE  \A d \in TaskCards : CardAt(d)'
<1>0. 1 \in TaskCards BY DEF TaskCards
<1> DEFINE M == ModeRequest(1, saved[1])
           C == CardRequest(1, saved[1])
<1>1. CardAt(1) /\ saved[1].kind = "freeze" /\ IsEnd(saved[1])
  BY <1>0 DEF FreezesOld, Anchored, IsEnd, CardEnds
<1>2. Replay(1) = <<M, C>> BY <1>0, <1>1, CardReplayTyped DEF CardEnds
<1>3. /\ op' = [op EXCEPT ![1] = [who |-> "session", reqs |-> <<M, C>>, bad |-> FALSE]]
      /\ strm' = [strm EXCEPT ![1].at = "closed"] /\ saved' = saved /\ kit' = kit /\ loose' = loose /\ op[1].who = "none"
      /\ reg' = IF reg[1].on THEN [reg EXCEPT ![1].status = "superseded"] ELSE reg
  BY <1>2 DEF FreezesOld, Holds, Unlocked
<1>4. /\ op'[1] = [who |-> "session", reqs |-> <<M, C>>, bad |-> FALSE] /\ strm'[1].at = "closed"
      /\ reg'[1].on = reg[1].on
  BY <1>0, <1>3 DEF CardTypes, StrmT, RegT
<1>5. \A d \in TaskCards \ {1} : strm'[d] = strm[d] /\ op'[d] = op[d] /\ reg'[d] = reg[d]
  BY <1>0, <1>3 DEF CardTypes
<1>6. Wire(1, M, reg[1], strm[1], saved[1])' /\ Wire(1, C, reg[1], strm[1], saved[1])'
  BY <1>1, <1>3 DEF Wire, ModeRequest, CardRequest, Request, ModeId, CardId, NoId, IsEnd, CardEnds
<1>7. \A r \in loose : r.card = 1 => Wire(1, r, reg[1], strm[1], saved[1])'
  BY <1>1, <1>3 DEF CardAt, Wire
<1>8. CardStage(1, reg[1], strm[1], saved[1], op[1].who)'
  BY <1>1, <1>3, <1>4 DEF CardAt, CardStage
<1> DEFINE q == <<M, C>>
<1>9. Len(q) = 2 /\ q # <<>> /\ q[1] = M /\ q[2] = C OBVIOUS
<1>10. OpFits(1, op[1], kit[1], saved[1], strm[1])' BY <1>1, <1>3, <1>4, <1>9 DEF OpFits
<1>11. \A i \in 1..Len(op[1].reqs)' : Wire(1, op[1].reqs[i], reg[1], strm[1], saved[1])'
  <2>1. SUFFICES ASSUME NEW i \in 1..2 PROVE Wire(1, op[1].reqs[i], reg[1], strm[1], saved[1])'
    BY <1>4, <1>9
  <2>2. op'[1].reqs[i] = M' \/ op'[1].reqs[i] = C' BY <1>3, <1>4, <1>9
  <2> HIDE DEF M, C
  <2> QED BY <1>6, <2>2
<1>12. CardAt(1)' BY <1>1, <1>3, <1>7, <1>8, <1>10, <1>11 DEF CardAt
<1> QED BY <1>0, <1>3, <1>5, <1>12, CardOthers

LEMMA CardCrashes ==
  ASSUME CardTypes, \A d \in TaskCards : CardAt(d), CardCrash
  PROVE  \A d \in TaskCards : CardAt(d)'
<1>1. SUFFICES ASSUME NEW c \in TaskCards PROVE CardAt(c)' OBVIOUS
<1>2. /\ reg'[c] = NoCardRecord /\ strm'[c] = NoStream /\ op'[c] = Free /\ kit' = kit /\ saved' = saved
      /\ loose' = loose \cup {Head(op[d].reqs) : d \in {x \in TaskCards : op[x].reqs # <<>>}}
  BY DEF CardCrash
<1>3. \A r \in loose' : r.card = c => Wire(c, r, reg[c], strm[c], saved[c])
  <2>1. SUFFICES ASSUME NEW d \in TaskCards, op[d].reqs # <<>>, Head(op[d].reqs).card = c
                 PROVE  Wire(c, Head(op[d].reqs), reg[c], strm[c], saved[c])
    BY <1>2 DEF CardAt
  <2>2. op[d].reqs \in Seq(CardRequests) BY DEF CardTypes, OpT
  <2>3. Head(op[d].reqs) = op[d].reqs[1] /\ 1 \in 1..Len(op[d].reqs)
    BY <2>1, <2>2, CardTail
  <2>4. Wire(d, Head(op[d].reqs), reg[d], strm[d], saved[d]) BY <2>3 DEF CardAt
  <2> QED BY <2>1, <2>4 DEF Wire
<1>4. ASSUME NEW r, Wire(c, r, reg[c], strm[c], saved[c]) PROVE Wire(c, r, reg[c], strm[c], saved[c])'
  BY <1>2, <1>4 DEF Wire, NoStream
<1>5. CardStage(c, reg[c], strm[c], saved[c], op[c].who)'
  BY <1>2 DEF CardAt, CardStage, NoCardRecord, NoStream, Free
<1>6. OpFits(c, op[c], kit[c], saved[c], strm[c])' BY <1>2 DEF OpFits, Free
<1>7. KitFits(kit[c], saved[c])' BY <1>2 DEF CardAt
<1>8. op'[c].reqs = <<>> BY <1>2 DEF Free
<1> QED BY <1>3, <1>4, <1>5, <1>6, <1>7, <1>8 DEF CardAt

\* What is said of approvals on a card.
LEMMA CardSays ==
  ASSUME CardTypes, \A d \in TaskCards : CardAt(d), NEW c \in TaskCards, NEW waits \in SUBSET CardKeys,
         kit' = kit, saved' = saved, loose' = loose, strm' = strm, reg[c].on,
         Holds(c, "live", <<[Shown(c, reg[c].seq + 1) EXCEPT !.waits = waits]>>),
         reg'[c].on = reg[c].on, reg'[c].status = reg[c].status, reg'[c].seq = reg[c].seq + 1,
         \A d \in TaskCards \ {c} : reg'[d] = reg[d]
  PROVE  \A d \in TaskCards : CardAt(d)'
<1> DEFINE q == [Shown(c, reg[c].seq + 1) EXCEPT !.waits = waits]
<1>1. reg[c].seq + 1 \in Nat /\ LastGiven(reg[c], strm[c]) = reg[c].seq
  BY CardNumbers DEF LastGiven
<1>2. q \in CardRequests BY <1>1, CardShownTyped
<1>3. q.card = c /\ q.id = NoId /\ q.seq = reg[c].seq + 1 /\ q.part = "full" /\ q.status = reg[c].status
  BY DEF Shown, Request
<1>4. LastGiven(reg'[c], strm'[c]) = reg[c].seq + 1 BY DEF LastGiven
<1>5. Holds(c, "live", <<q>>) OBVIOUS
<1> HIDE DEF q
<1>6. q.seq <= LastGiven(reg[c], strm[c]) + 1 BY <1>1, <1>3
<1>7. CardAt(c)'
  <2>1. PICK r \in CardRequests : r = q BY <1>2
  <2> QED BY <1>1, <1>3, <1>4, <1>5, <1>6, <2>1, CardHeld
<1> QED BY <1>5, <1>7, CardOthers DEF Holds, CardTypes

LEMMA CardApprovals ==
  ASSUME CardTypes, \A d \in TaskCards : CardAt(d), WaitsAt, NEW k \in CardKeys, AskApproval(k) \/ Decide(k) \/ SettleApproval(k)
  PROVE  \A d \in TaskCards : CardAt(d)'
<1>1. kit' = kit /\ saved' = saved /\ loose' = loose /\ strm' = strm
  BY DEF AskApproval, Decide, SettleApproval
<1>2. \/ UNCHANGED <<op, reg>>
      \/ \E c \in TaskCards, waits \in SUBSET CardKeys :
           /\ Holds(c, "live", <<[Shown(c, reg[c].seq + 1) EXCEPT !.waits = waits]>>) /\ reg[c].on
           /\ reg'[c].on = reg[c].on /\ reg'[c].status = reg[c].status /\ reg'[c].seq = reg[c].seq + 1
           /\ \A d \in TaskCards \ {c} : reg'[d] = reg[d]
  <2>1. CASE AskApproval(k)
    <3> DEFINE c == Successor(Current)
    <3>1. c \in TaskCards BY DEF Current, Successor, CardTypes, RegT, NoCard, TaskCards
    <3> HIDE DEF c
    <3>2. \/ UNCHANGED <<op, reg>>
          \/ /\ Holds(c, "live", <<[Shown(c, reg[c].seq + 1) EXCEPT !.waits = @ \cup {k}]>>) /\ reg[c].on
             /\ reg' = [reg EXCEPT ![c].waits = @ \cup {k}, ![c].seq = @ + 1]
      BY <2>1 DEF AskApproval, c
    <3>3. Shown(c, reg[c].seq + 1).waits \cup {k} \in SUBSET CardKeys
      <4>1. reg[c].seq + 1 \in Nat BY <3>1, CardNumbers
      <4> QED BY <3>1, <4>1, CardShownTyped
    <3> QED BY <3>1, <3>2, <3>3 DEF CardTypes, RegT
  <2>2. CASE Decide(k) BY <2>2 DEF Decide
  <2>3. CASE SettleApproval(k)
    <3> DEFINE c == answer[k].target
    <3>1. c \in TaskCards BY <2>3 DEF WaitsAt, SettleApproval
    <3> HIDE DEF c
    <3>2. \/ UNCHANGED <<op, reg>>
          \/ /\ Holds(c, "live", <<[Shown(c, reg[c].seq + 1) EXCEPT !.waits = @ \ {k}]>>) /\ reg[c].on
             /\ reg' = [reg EXCEPT ![c].settled = @ \cup {k}, ![c].waits = @ \ {k}, ![c].seq = @ + 1]
      BY <2>3 DEF SettleApproval, c
    <3>3. Shown(c, reg[c].seq + 1).waits \ {k} \in SUBSET CardKeys
      <4>1. reg[c].seq + 1 \in Nat BY <3>1, CardNumbers
      <4> QED BY <3>1, <4>1, CardShownTyped
    <3> QED BY <3>1, <3>2, <3>3 DEF CardTypes, RegT
  <2> QED BY <2>1, <2>2, <2>3
<1>3. CASE UNCHANGED <<op, reg>> BY <1>1, <1>3, CardFrame
<1>4. CASE ~UNCHANGED <<op, reg>>
  <2>1. PICK c \in TaskCards, waits \in SUBSET CardKeys :
           /\ Holds(c, "live", <<[Shown(c, reg[c].seq + 1) EXCEPT !.waits = waits]>>) /\ reg[c].on
           /\ reg'[c].on = reg[c].on /\ reg'[c].status = reg[c].status /\ reg'[c].seq = reg[c].seq + 1
           /\ \A d \in TaskCards \ {c} : reg'[d] = reg[d]
    BY <1>2, <1>4
  <2> QED BY <1>1, <2>1, CardSays
<1> QED BY <1>3, <1>4

\* The steps of the move that touch no request but the one that shows what is waited for.
LEMMA CardMoves ==
  ASSUME CardTypes, \A d \in TaskCards : CardAt(d), ReanchorPrepares \/ BindTaskCard \/ RefreshWaiting
  PROVE  \A d \in TaskCards : CardAt(d)'
<1>0. kit' = kit /\ saved' = saved /\ loose' = loose /\ strm' = strm
  BY DEF ReanchorPrepares, BindTaskCard, RefreshWaiting
<1>1. CASE ReanchorPrepares BY <1>0, <1>1, CardFrame DEF ReanchorPrepares
<1>2. CASE BindTaskCard
  BY <1>2, <1>0, CardFrame DEF BindTaskCard, CardTypes, RegT, TaskCards
<1>3. CASE RefreshWaiting
  <2>1. CASE UNCHANGED <<op, reg>> BY <1>0, <2>1, CardFrame
  <2>2. CASE ~UNCHANGED <<op, reg>>
    <3>0. 2 \in TaskCards BY DEF TaskCards
    <3>1. reg[2].on /\ Holds(2, "live", <<Shown(2, reg[2].seq + 1)>>) /\ reg' = [reg EXCEPT ![2].seq = @ + 1]
      BY <1>3, <2>2 DEF RefreshWaiting
    <3>2. Shown(2, reg[2].seq + 1) = [Shown(2, reg[2].seq + 1) EXCEPT !.waits = reg[2].waits] /\ reg[2].waits \in SUBSET CardKeys
      BY <3>0 DEF Shown, Request, CardTypes, RegT
    <3>3. reg'[2].on = reg[2].on /\ reg'[2].status = reg[2].status /\ reg'[2].seq = reg[2].seq + 1
          /\ \A d \in TaskCards \ {2} : reg'[d] = reg[d]
      BY <3>0, <3>1 DEF CardTypes, RegT
    <3>4. PICK waits \in SUBSET CardKeys : waits = reg[2].waits BY <3>2
    <3>5. Holds(2, "live", <<[Shown(2, reg[2].seq + 1) EXCEPT !.waits = waits]>>)
      BY <3>1, <3>2, <3>4
    <3> QED BY <1>0, <3>0, <3>1, <3>3, <3>5, CardSays
  <2> QED BY <2>1, <2>2
<1> QED BY <1>1, <1>2, <1>3

LEMMA CardsStayAnchored ==
  ASSUME CardTypes, \A d \in TaskCards : CardAt(d) /\ Anchored(d), CardsNext
  PROVE  \A d \in TaskCards : Anchored(d)'
<1> USE DEF TaskCards
<1>0. Anchored(1) /\ Anchored(2) /\ CardAt(1) /\ CardAt(2) OBVIOUS
<1>1. ASSUME anchor' = anchor, \A d \in TaskCards : strm'[d].at = strm[d].at /\ saved'[d].kind = saved[d].kind
      PROVE  \A d \in TaskCards : Anchored(d)'
  BY <1>1 DEF Anchored
<1>2. ASSUME NEW c \in TaskCards, Lands(c) \/ TurnsDown(c) PROVE \A d \in TaskCards : Anchored(d)'
  BY <1>1, <1>2 DEF Lands, TurnsDown, Struck, CardTypes, SavedT
<1>3. ASSUME NEW c \in TaskCards, Reopens(c) \/ TimesOut(c) \/ StreamExpires(c) \/ UpdatePresentation(c) \/ UpdateText(c) \/ ExpandCard(c)
                                 \/ RefreshReference(c) \/ PurgeRecord(c) \/ WorkerDelivers(c)
      PROVE  \A d \in TaskCards : Anchored(d)'
  <2>1. anchor' = anchor
    BY <1>3 DEF Reopens, TimesOut, StreamExpires, UpdatePresentation, UpdateText, ExpandCard, RefreshReference, PurgeRecord, WorkerDelivers
  <2>2. strm' = strm \/ \E n : strm' = [strm EXCEPT ![c].seq = n]
    BY <1>3 DEF Reopens, TimesOut, StreamExpires, UpdatePresentation, UpdateText, ExpandCard, RefreshReference, PurgeRecord, WorkerDelivers,
                Numbered
  <2>3. saved' = saved \/ \E n : saved' = [saved EXCEPT ![c].seq = n]
    BY <1>3 DEF Reopens, TimesOut, StreamExpires, UpdatePresentation, UpdateText, ExpandCard, RefreshReference, PurgeRecord, WorkerDelivers
  <2>4. \A d \in TaskCards : strm'[d].at = strm[d].at /\ saved'[d].kind = saved[d].kind
    BY <2>2, <2>3 DEF CardTypes, StrmT, SavedT
  <2> QED BY <1>1, <2>1, <2>4
<1>4. ASSUME NEW c \in TaskCards, PrepareTerminal(c) PROVE \A d \in TaskCards : Anchored(d)'
  BY <1>4, CardPrepares, <1>0 DEF PrepareTerminal, CardTypes, Anchored
<1>5. ASSUME NEW c \in TaskCards, RecoverTerminal(c) PROVE \A d \in TaskCards : Anchored(d)'
  BY <1>5, CardRecovers, <1>0 DEF RecoverTerminal, CardTypes, Anchored
<1>6. ASSUME NEW r \in loose, ArrivesLate(r) \/ NeverArrives(r) PROVE \A d \in TaskCards : Anchored(d)'
  BY <1>1, <1>6 DEF ArrivesLate, NeverArrives
<1>7. ASSUME ReanchorPrepares PROVE \A d \in TaskCards : Anchored(d)'
  BY <1>7, <1>0 DEF ReanchorPrepares, CardTypes, AnchorT, Anchored
<1>8. ASSUME ReanchorOpens PROVE \A d \in TaskCards : Anchored(d)'
  <2>1. anchor'.at = "opened" /\ saved'[1].kind = "freeze" /\ saved'[2].kind = "stream"
    <3>1. anchor'.at = "opened" /\ anchor' = [anchor EXCEPT !.at = "opened"]
      BY <1>8 DEF ReanchorOpens, CardTypes, AnchorT
    <3>2. saved' = [saved EXCEPT ![2] = [NotSaved EXCEPT !.kind = "stream", !.seq = 2],
                            ![1] = [kind |-> "freeze", seq |-> 0, disable |-> anchor.disable, update |-> anchor.update,
                                    status |-> "superseded", done |-> FALSE]]
      BY <1>8 DEF ReanchorOpens
    <3>3. saved'[2] = [NotSaved EXCEPT !.kind = "stream", !.seq = 2] /\ saved'[1].kind = "freeze"
      BY <3>2 DEF CardTypes
    <3> QED BY <3>1, <3>3 DEF NotSaved
  <2> QED BY <2>1 DEF Anchored
<1>9. ASSUME BindTaskCard \/ RefreshWaiting PROVE \A d \in TaskCards : Anchored(d)'
  BY <1>9, <1>0 DEF BindTaskCard, RefreshWaiting, CardTypes, AnchorT, Anchored
<1>10. ASSUME FreezesOld PROVE \A d \in TaskCards : Anchored(d)'
  BY <1>0, <1>10 DEF FreezesOld, CardTypes, AnchorT, StrmT, CardAt, CardStage, Anchored
<1>11. ASSUME CardCrash PROVE \A d \in TaskCards : Anchored(d)'
  BY <1>11 DEF CardCrash, CardTypes, AnchorT, NoStream, Anchored
<1>12. ASSUME NEW k \in CardKeys, AskApproval(k) \/ Decide(k) \/ SettleApproval(k) PROVE \A d \in TaskCards : Anchored(d)'
  BY <1>12, <1>1 DEF AskApproval, Decide, SettleApproval
<1> HIDE DEF TaskCards
<1> QED BY <1>2, <1>3, <1>4, <1>5, <1>6, <1>7, <1>8, <1>9, <1>10, <1>11, <1>12 DEF CardsNext

--------------------
\* A step that changes no approval: no record gains one, or one that leads to the other card.
LEMMA CardWaitsFrame ==
  ASSUME CardTypes, WaitsAt, answer' = answer, Current \in {1, 2}, Current = 2 => Current' = 2, Current' \in {1, 2},
         \A d \in TaskCards : /\ reg'[d].waits \subseteq reg[d].waits
                              /\ reg'[d].next = reg[d].next \/ (reg'[d].next = NoCard /\ reg'[d].waits = {})
                              /\ reg'[d].on \/ (reg'[d].waits = {} /\ reg'[d].next = NoCard)
  PROVE  WaitsAt'
  BY DEF WaitsAt, TaskCards, NoCard

LEMMA CardsWait ==
  ASSUME CardTypes, WaitsAt, \A d \in TaskCards : CardAt(d) /\ Anchored(d), CardsNext
  PROVE  WaitsAt'
<1>0. Current \in {1, 2} /\ Current' \in {1, 2} BY DEF Current
<1>a. \A d \in TaskCards : reg[d] \in RegT /\ (reg[d].on \/ (reg[d].waits = {} /\ reg[d].next = NoCard))
  BY DEF WaitsAt, CardTypes
<1>1. ASSUME NEW c \in TaskCards, answer' = answer, anchor' = anchor,
             \A d \in TaskCards \ {c} : reg'[d] = reg[d],
             \/ reg'[c].waits \subseteq reg[c].waits /\ reg'[c].next = reg[c].next /\ reg'[c].on = reg[c].on
             \/ reg'[c].waits = {} /\ reg'[c].next = NoCard
      PROVE  WaitsAt'
  BY <1>1, <1>0, CardWaitsFrame DEF Current, WaitsAt
<1>2. ASSUME NEW c \in TaskCards, Lands(c) \/ TurnsDown(c) PROVE WaitsAt'
  <2>1. reg' = reg \/ reg' = [reg EXCEPT ![c] = Recorded(saved[c].status, saved[c].update)]
    BY <1>2 DEF Lands, TurnsDown, Struck
  <2>2. answer' = answer /\ anchor' = anchor BY <1>2 DEF Lands, TurnsDown
  <2>3. CASE reg' = reg BY <1>1, <2>2, <2>3
  <2>4. CASE reg' = [reg EXCEPT ![c] = Recorded(saved[c].status, saved[c].update)]
    BY <2>4, <1>1, <2>2 DEF CardTypes, Recorded, NoCardRecord
  <2> QED BY <2>1, <2>3, <2>4
<1>3. ASSUME NEW c \in TaskCards, Reopens(c) \/ TimesOut(c) \/ StreamExpires(c) \/ UpdatePresentation(c) \/ UpdateText(c) \/ ExpandCard(c)
                                 \/ RefreshReference(c) \/ WorkerDelivers(c)
      PROVE  WaitsAt'
  <2>1. answer' = answer /\ anchor' = anchor
    BY <1>3 DEF Reopens, TimesOut, StreamExpires, UpdatePresentation, UpdateText, ExpandCard, RefreshReference, WorkerDelivers
  <2>2. reg' = reg \/ \E n : reg' = [reg EXCEPT ![c].seq = n]
    BY <1>3 DEF Reopens, TimesOut, StreamExpires, UpdatePresentation, UpdateText, ExpandCard, RefreshReference, WorkerDelivers, Numbered
  <2> QED BY <1>1, <2>1, <2>2 DEF CardTypes, RegT
<1>4. ASSUME NEW c \in TaskCards, PrepareTerminal(c) PROVE WaitsAt'
  <2>1. answer' = answer /\ anchor' = anchor BY <1>4 DEF PrepareTerminal
  <2>2. PICK n : reg' = reg \/ reg' = Ended(c, n) BY <1>4 DEF PrepareTerminal
  <2> QED BY <1>1, <2>1, <2>2 DEF CardTypes, RegT, Ended
<1>5. ASSUME NEW c \in TaskCards, RecoverTerminal(c) \/ PurgeRecord(c) PROVE WaitsAt'
  <2>1. answer' = answer /\ anchor' = anchor BY <1>5 DEF RecoverTerminal, PurgeRecord
  <2>2. reg' = [reg EXCEPT ![c] = NoCardRecord] \/ \E n : reg' = [reg EXCEPT ![c] = Recorded("stopped", n)]
    BY <1>5 DEF RecoverTerminal, PurgeRecord
  <2>3. CASE reg' = [reg EXCEPT ![c] = NoCardRecord]
    BY <2>3, <1>1, <2>1 DEF CardTypes, NoCardRecord
  <2>4. CASE \E n : reg' = [reg EXCEPT ![c] = Recorded("stopped", n)]
    <3>1. PICK n : reg' = [reg EXCEPT ![c] = Recorded("stopped", n)] BY <2>4
    <3>2. reg'[c].waits = {} /\ reg'[c].next = NoCard /\ \A d \in TaskCards \ {c} : reg'[d] = reg[d]
      BY <3>1 DEF CardTypes, Recorded, NoCardRecord
    <3> QED BY <1>1, <2>1, <3>2
  <2> QED BY <2>2, <2>3, <2>4
<1>6. ASSUME NEW r \in loose, ArrivesLate(r) \/ NeverArrives(r) PROVE WaitsAt'
  BY <1>6, <1>1 DEF ArrivesLate, NeverArrives, TaskCards
<1>7. ASSUME ReanchorPrepares PROVE WaitsAt'
  BY <1>7, <1>a, CardWaitsFrame DEF ReanchorPrepares, Current, CardTypes, AnchorT
<1>8. ASSUME ReanchorOpens PROVE WaitsAt'
  BY <1>8, <1>a, CardWaitsFrame DEF ReanchorOpens, Current, CardTypes, AnchorT, TaskCards, Recorded, NoCardRecord, WaitsAt
<1>9. ASSUME BindTaskCard PROVE WaitsAt'
  <2>1. answer' = answer /\ Current = 1 /\ Current' = 2
    BY <1>9 DEF BindTaskCard, Current, CardTypes, AnchorT
  <2>2. CASE ~Moves BY <1>9, <2>2, <1>a, <2>1, CardWaitsFrame DEF BindTaskCard
  <2>3. CASE Moves
    BY <1>9, <2>3, <2>1 DEF BindTaskCard, CardTypes, RegT, TaskCards, WaitsAt, Moves, NoCard
  <2> QED BY <2>2, <2>3
<1>10. ASSUME RefreshWaiting \/ FreezesOld PROVE WaitsAt'
  <2>1. answer' = answer /\ Current = 2 /\ Current' = 2
    BY <1>10 DEF RefreshWaiting, FreezesOld, Current, CardTypes, AnchorT
  <2>2. reg' = reg \/ reg' = [reg EXCEPT ![2].seq = @ + 1] \/ reg' = [reg EXCEPT ![1].status = "superseded"]
    BY <1>10 DEF RefreshWaiting, FreezesOld
  <2>3. \A d \in TaskCards : reg'[d].waits = reg[d].waits /\ reg'[d].next = reg[d].next /\ reg'[d].on = reg[d].on
    BY <2>2 DEF CardTypes, RegT
  <2> QED BY <1>a, <2>1, <2>3, CardWaitsFrame
<1>11. ASSUME CardCrash PROVE WaitsAt'
  BY <1>11 DEF CardCrash, CardTypes, AnswerT, AnchorT, Current, WaitsAt, NoCardRecord, TaskCards, NoCard
<1>12. ASSUME NEW k \in CardKeys, AskApproval(k) PROVE WaitsAt'
  <2>1. Successor(Current) = Current
    BY <1>0, <1>a DEF Successor, WaitsAt, NoCard, RegT, TaskCards
  <2>2. /\ answer[k].at = "none" /\ answer' = [answer EXCEPT ![k] = [Unasked EXCEPT !.at = "asked", !.card = Current]]
        /\ Current' = Current
        /\ \/ reg' = reg
           \/ reg[Current].on /\ reg' = [reg EXCEPT ![Current].waits = @ \cup {k}, ![Current].seq = @ + 1]
    BY <1>12, <2>1 DEF AskApproval, Current
  <2>3. answer'[k].at = "asked" /\ answer'[k].card = Current /\ \A j \in CardKeys \ {k} : answer'[j] = answer[j]
    BY <2>2 DEF CardTypes, AnswerT, Unasked
  <2>4. CASE reg' = reg BY <1>0, <2>2, <2>3, <2>4 DEF WaitsAt, TaskCards
  <2>5. CASE reg' # reg
    BY <1>0, <2>2, <2>5, <2>3 DEF CardTypes, RegT, WaitsAt, TaskCards, NoCard
  <2> QED BY <2>4, <2>5
<1>13. ASSUME NEW k \in CardKeys, Decide(k) PROVE WaitsAt'
  BY <1>13, <1>a DEF Decide, CardTypes, AnswerT, Current, WaitsAt, Successor, RegT, TaskCards, NoCard
<1>14. ASSUME NEW k \in CardKeys, SettleApproval(k) PROVE WaitsAt'
  <2> DEFINE c == answer[k].target
             x == answer[k].card
  <2>1. answer[k].at = "found" /\ c \in TaskCards /\ x \in TaskCards /\ Current' = Current /\ Successor(x) \in TaskCards
    BY <1>14, <1>a DEF SettleApproval, WaitsAt, Successor, RegT, TaskCards, NoCard, Current
  <2>2. CASE ~TargetCurrent(k)
    BY <1>14, <2>1, <2>2 DEF SettleApproval, CardTypes, AnswerT, WaitsAt, TaskCards
  <2>3. CASE TargetCurrent(k)
    <3>1. /\ answer'[k].at = "settled" /\ answer'[k].card = x /\ answer'[k].target = c
          /\ (\A j \in CardKeys \ {k} : answer'[j] = answer[j])
      BY <1>14, <2>1, <2>3 DEF SettleApproval, CardTypes, AnswerT
    <3>2. /\ \A d \in TaskCards : reg'[d].on = reg[d].on /\ reg'[d].next = reg[d].next
          /\ \A d \in TaskCards : reg'[d].waits = IF d = c THEN reg[d].waits \ {k} ELSE reg[d].waits
      <4>1. CASE reg[c].on
        <5>1. reg' = [reg EXCEPT ![c].settled = @ \cup {k}, ![c].waits = @ \ {k}, ![c].seq = @ + 1]
          BY <1>14, <2>3, <4>1 DEF SettleApproval
        <5> QED BY <2>1, <5>1 DEF CardTypes, RegT
      <4>2. CASE ~reg[c].on BY <1>14, <2>1, <2>3, <4>2 DEF SettleApproval, WaitsAt
      <4> QED BY <4>1, <4>2
    <3>3. Successor(x) = c BY <2>3 DEF TargetCurrent
    <3>4. k \notin reg'[c].waits BY <2>1, <3>2
    <3>5. k \in reg'[1].waits => x = 1 /\ Current = 2
      BY <2>1, <3>2, <3>3, <3>4 DEF WaitsAt, Successor, TaskCards, NoCard
    <3>6. k \in reg'[2].waits => Current = 2 /\ x = 1 /\ reg[1].next = NoCard
      BY <1>a, <2>1, <3>2, <3>3, <3>4 DEF WaitsAt, Successor, TaskCards, NoCard, RegT
    <3> QED BY <2>1, <3>1, <3>2, <3>5, <3>6 DEF WaitsAt, TaskCards
  <2> QED BY <2>2, <2>3
<1> QED BY <1>2, <1>3, <1>4, <1>5, <1>6, <1>7, <1>8, <1>9, <1>10, <1>11, <1>12, <1>13, <1>14 DEF CardsNext

--------------------
\* Every step keeps the invariant.
LEMMA CardsStep == CardsInv /\ [CardsNext]_cardVars => CardsInv'
<1> SUFFICES ASSUME CardsInv, [CardsNext]_cardVars PROVE CardsInv' OBVIOUS
<1>0. CardTypes /\ WaitsAt /\ \A d \in TaskCards : CardAt(d) /\ Anchored(d)
  BY DEF CardsInv
<1>1. CASE UNCHANGED cardVars
  BY <1>0, <1>1 DEF cardVars, CardsInv, CardTypes, WaitsAt, Current, CardAt, Anchored, CardStage, OpFits, KitFits, Wire, LastGiven, AsOf, Tried
<1>2. CASE CardsNext
  <2>1. CardTypes'
    BY <1>0, <1>2, CardTypesKept DEF Anchored, TaskCards, CardEnds, WaitsAt
  <2>2. \A d \in TaskCards : CardAt(d)'
    BY <1>0, <1>2, CardLands, CardTurnsDown, CardReopens, CardTimesOut, CardLate, CardExpires, CardUpdates, CardReference, CardPurge, CardPrepares,
       CardDelivers, CardRecovers, CardOpens, CardFreezes, CardCrashes, CardApprovals, CardMoves DEF CardsNext
  <2>3. (\A d \in TaskCards : Anchored(d)') /\ WaitsAt'
    BY <1>0, <1>2, CardsStayAnchored, CardsWait
  <2> QED BY <2>1, <2>2, <2>3 DEF CardsInv
<1> QED BY <1>1, <1>2

\* Each card's stage, requests, numbers and checkpoint fit each other, and an approval waits on the card that answers it
\* (stream.go, task_card.go, approval_waiting.go).
THEOREM CardsInvariant == CardsSpec => []CardsInv
  BY CardsInitSound, CardsStep, PTL DEF CardsSpec

\* What the outbox and the approval broker believe of a card is what the card shows (stream.go, task_card.go).
THEOREM CardsStaySound == CardsSpec => []CardsSound
<1>1. CardsInv => CardsSound
  <2> SUFFICES ASSUME CardsInv PROVE CardsSound OBVIOUS
  <2>1. DeliveredIsShown
    <3>1. SUFFICES ASSUME NEW c \in TaskCards, saved[c].done
                   PROVE  /\ \A step \in {"mode", "card"} : Told(c, step) \/ TurnedDown(c, step)
                          /\ \/ FreezeOvertaken(c)
                             \/ /\ Told(c, "card") => kit[c].status = saved[c].status
                                /\ Told(c, "mode") => ~kit[c].stream
      BY DEF DeliveredIsShown
    <3>2. /\ KitFits(kit[c], saved[c]) /\ kit[c].seq \in Nat /\ saved[c].update \in Nat /\ saved[c].disable \in Nat
          /\ saved[c].update = saved[c].disable + 1
      BY <3>1, CardNumbers DEF CardsInv, CardAt, CardStage, KitFits
    <3>3. /\ \A step \in {"mode", "card"} : Told(c, step) \/ TurnedDown(c, step)
          /\ saved[c].kind \in CardEnds
      BY <3>1, <3>2 DEF KitFits, Told, TurnedDown, Tried, ModeId, CardId, IsEnd
    <3> QED BY <3>1, <3>2, <3>3 DEF KitFits, ModeId, CardId, AsOf, Told, FreezeOvertaken, CardEnds
  <2>2. SettledNotWaiting
    <3>1. SUFFICES ASSUME NEW k \in CardKeys, answer[k].at = "settled", Successor(answer[k].card) = Current, NEW c \in TaskCards,
                          k \in reg[c].waits
                   PROVE  FALSE
      BY DEF SettledNotWaiting
    <3> QED BY <3>1 DEF CardsInv, WaitsAt, Successor, TaskCards, NoCard
  <2> QED BY <2>1, <2>2 DEF CardsSound
<1> QED BY <1>1, CardsInvariant, PTL
=============================================================================
