-------------------------- MODULE AgentPartsSafety --------------------------
(***************************************************************************)
(* Three parts of the agents, for all values of their constants.           *)
(*                                                                         *)
(* The Codex account store: no saved account loses its secret and no       *)
(* secret is left unnamed.  On disk the two files account for every        *)
(* secret.  A transaction works on a copy, so the invariant relates the    *)
(* copy to the disk: what the disk refers to the copy refers to or has     *)
(* marked for deletion, and what the copy refers to exists, until the      *)
(* transaction is given up.                                                *)
(*                                                                         *)
(* The Claude host: a prompt is written only to a process that has its     *)
(* session, and a reply is gathered only from what the process of its      *)
(* prompt says.  The first rests on which process a generation is, the     *)
(* second on whose number every request and line still in a process        *)
(* carries.                                                                *)
(*                                                                         *)
(* The provider migration: no record is lost, and a change that was cut    *)
(* short is recorded as such.                                              *)
(***************************************************************************)
EXTENDS CodexAccountStore, ClaudeHost, CodexProviderMigration, FiniteSetTheorems,
        SequenceTheorems, TLAPS

--------------------
(* The shape of the values.                                                *)

IsIndex(ix) ==
  /\ ix = [profiles |-> ix.profiles, active |-> ix.active, deletes |-> ix.deletes, status |-> ix.status]
  /\ ix.profiles = [l \in DOMAIN ix.profiles |-> ix.profiles[l]]

IsTx ==
  tx = [at |-> tx.at, todo |-> tx.todo, index |-> tx.index, base |-> tx.base, intents |-> tx.intents, new |-> tx.new,
        drop |-> tx.drop, dirty |-> tx.dirty, hand |-> tx.hand, batch |-> tx.batch, back |-> tx.back]

Open == tx.at # "closed"
\* The transaction may still commit.
Live == tx.at \notin {"closed", "abort", "abort-write", "end"} /\ tx.back # "end"

Shape ==
  /\ IsIndex(index) /\ IsTx
  /\ tx.at \in {"closed", "creates", "creates-write", "deletes", "deletes-write", "orphans", "run", "undo", "settle",
                "abort", "abort-write", "end"}
  /\ tx.back \in {"deletes", "run", "end", NoLabel}
  /\ tx.dirty \in BOOLEAN
  /\ Open => IsIndex(tx.index)

\* Two labels never share a secret.
OneEach(ix) == \A k, l \in DOMAIN ix.profiles : ix.profiles[k] = ix.profiles[l] => k = l

\* What is numbered so far.
Numbered(S) == \A s \in S : s.n \in Nat /\ s.n <= made

--------------------
(* The parts of the invariant.                                             *)

Disk ==
  /\ CommittedSecretsExist /\ SecretsAccountedFor
  /\ Refs(index) \cap index.deletes = {}
  /\ OneEach(index)
  /\ made \in Nat /\ Numbered(secrets \cup intents \cup index.deletes)

\* The copy in memory begins as the files and keeps up with their commits.
Copy ==
  Open =>
    /\ tx.base = index /\ tx.intents = intents
    /\ Refs(index) \subseteq Refs(tx.index) \cup tx.index.deletes \cup tx.drop
    /\ secrets \subseteq Refs(tx.index) \cup tx.index.deletes \cup tx.drop \cup intents
    /\ Numbered(tx.index.deletes \cup tx.drop \cup tx.new)

\* What a commit would write is as sound as what is on disk.
Candidate ==
  Live =>
    /\ Refs(tx.index) \subseteq secrets
    /\ Refs(tx.index) \cap (tx.index.deletes \cup tx.drop) = {}
    /\ OneEach(tx.index)
    /\ tx.new \subseteq Refs(tx.index) \cup tx.index.deletes \cup tx.drop

\* Nothing changed in memory that is not on disk, except deletes already done.
Clean ==
  /\ Live /\ ~tx.dirty => tx.index.profiles = index.profiles /\ tx.index.deletes \subseteq index.deletes
                          /\ tx.drop = {} /\ tx.new = {}
  /\ Live /\ tx.at \notin {"run", "undo"} => ~tx.dirty
  /\ tx.back = "deletes" => tx.hand.n = 0
  /\ tx.at \in {"creates", "creates-write"} => tx.back \in {"deletes", "end"}
  /\ tx.at \in {"run", "undo", "settle"} => tx.back = "run"
  /\ tx.at \in {"deletes", "deletes-write", "orphans"} => tx.back \in {"deletes", "run"}
  /\ tx.at = "orphans" => tx.back = "deletes"
  /\ tx.at = "abort-write" => tx.back = "end"

\* The secrets of this transaction are not committed, the one in hand is not stored yet.
Fresh ==
  Open =>
    /\ tx.new \cap Refs(index) = {}
    /\ Live /\ tx.hand.n # 0 => tx.hand \in intents
                         /\ tx.hand \notin secrets \cup tx.index.deletes \cup tx.drop \cup tx.new
                         /\ (tx.at = "settle" => tx.hand \notin tx.batch)

\* The batches of intents about to be withdrawn or kept.
Batches ==
  /\ tx.at = "creates-write" => /\ tx.batch \subseteq intents
                                /\ secrets \cap intents \subseteq Refs(index) \cup tx.batch
  /\ tx.at = "settle" => tx.index = index /\ tx.batch \subseteq Refs(index) \cup index.deletes
  /\ tx.at = "abort-write" => tx.batch \cap secrets = {}

StoreInv == Shape /\ Disk /\ Copy /\ Candidate /\ Clean /\ Fresh /\ Batches

--------------------
(* The secrets a set of profiles refers to.                                *)

\* Refs depends on the profiles alone.
LEMMA RefsOf ==
  ASSUME NEW ix, NEW jx, ix.profiles = jx.profiles
  PROVE  Refs(ix) = Refs(jx) /\ (OneEach(ix) <=> OneEach(jx))
BY DEF Refs, OneEach

\* PutAt refers to the new secret in place of the one the label had.
LEMMA RefsPut ==
  ASSUME NEW ix, IsIndex(ix), NEW jx, NEW l, NEW s, jx.profiles = PutAt(ix.profiles, l, s),
         OneEach(ix), s \notin Refs(ix)
  PROVE  /\ s \in Refs(jx) /\ Refs(jx) \subseteq Refs(ix) \cup {s}
         /\ OneEach(jx)
         /\ l \in DOMAIN ix.profiles => /\ Refs(ix) \subseteq Refs(jx) \cup {ix.profiles[l]}
                                       /\ ix.profiles[l] \in Refs(ix) /\ ix.profiles[l] \notin Refs(jx)
         /\ l \notin DOMAIN ix.profiles => Refs(ix) \subseteq Refs(jx)
BY DEF Refs, OneEach, PutAt, IsIndex

\* Without refers to all but the secret of the label.
LEMMA RefsWithout ==
  ASSUME NEW ix, IsIndex(ix), NEW jx, NEW l, jx.profiles = Without(ix.profiles, l),
         OneEach(ix), l \in DOMAIN ix.profiles
  PROVE  /\ Refs(jx) \subseteq Refs(ix) /\ Refs(ix) \subseteq Refs(jx) \cup {ix.profiles[l]}
         /\ ix.profiles[l] \in Refs(ix) /\ ix.profiles[l] \notin Refs(jx)
         /\ OneEach(jx)
BY DEF Refs, OneEach, Without, IsIndex

--------------------
(* Every step of the store keeps the invariant.                            *)

\* A transaction that is over, or whose process stopped, leaves the disk as it is.
LEMMA ClosedKeeps ==
  ASSUME StoreInv, tx' = ClosedTx, UNCHANGED <<index, intents, secrets, made>>
  PROVE  StoreInv'
<1>1. tx'.at = "closed" /\ tx'.back = NoLabel /\ tx'.dirty = FALSE /\ tx'.hand.n = 0 /\ IsTx'
  BY DEF ClosedTx, NoSecret, IsTx
<1>2. Shape' BY <1>1 DEF StoreInv, Shape, Open
<1>3. Disk' BY DEF StoreInv, Disk, CommittedSecretsExist, SecretsAccountedFor, Numbered
<1> QED BY <1>1, <1>2, <1>3 DEF StoreInv, Copy, Candidate, Clean, Fresh, Batches, Open, Live, NoLabel

LEMMA BeginKeeps ==
  ASSUME StoreInv, NEW script, BeginTx(script)
  PROVE  StoreInv'
<1>1. /\ tx'.at = "creates" /\ tx'.back = "deletes" /\ tx'.dirty = FALSE /\ tx'.hand.n = 0 /\ IsTx'
      /\ tx'.index = index /\ tx'.base = index /\ tx'.intents = intents /\ tx'.new = {} /\ tx'.drop = {}
      /\ UNCHANGED <<index, intents, secrets, made>>
  BY DEF BeginTx, ClosedTx, NoSecret, IsTx
<1>2. Shape' BY <1>1 DEF StoreInv, Shape, Open
<1>3. Disk'
  BY <1>1 DEF StoreInv, Disk, CommittedSecretsExist, SecretsAccountedFor, Numbered
<1>4. Copy' BY <1>1 DEF StoreInv, Disk, Copy, Open, SecretsAccountedFor, Numbered
<1>5. Candidate' BY <1>1 DEF StoreInv, Disk, Candidate, CommittedSecretsExist
<1> QED BY <1>1, <1>2, <1>3, <1>4, <1>5 DEF StoreInv, Clean, Fresh, Batches, Open, Live

\* A transaction that is given up keeps its copy, and never commits it.
LEMMA AbortKeeps ==
  ASSUME StoreInv, Open, tx' = Aborted, UNCHANGED <<index, intents, secrets, made>>
  PROVE  StoreInv'
<1>1. /\ tx'.at = "abort" /\ tx'.back = tx.back /\ tx'.dirty = tx.dirty /\ tx'.hand = tx.hand /\ IsTx'
      /\ tx'.index = tx.index /\ tx'.base = tx.base /\ tx'.intents = tx.intents /\ tx'.new = tx.new /\ tx'.drop = tx.drop
  BY DEF Aborted, StoreInv, Shape, IsTx
<1>2. Shape' BY <1>1 DEF StoreInv, Shape, Open
<1>3. Disk' BY DEF StoreInv, Disk, CommittedSecretsExist, SecretsAccountedFor, Numbered
<1>4. Copy' BY <1>1 DEF StoreInv, Copy, Open, Numbered
<1> QED BY <1>1, <1>2, <1>3, <1>4 DEF StoreInv, Candidate, Clean, Fresh, Batches, Open, Live

\* RetryCreates deletes secrets the commit does not refer to.
LEMMA RetryCreatesKeeps ==
  ASSUME StoreInv, NEW failed, RetryCreates(failed)
  PROVE  StoreInv'
<1> DEFINE loose == {s \in tx.intents : ~IndexReferencesSecret(tx.base, s)}
<1>1. /\ tx.at = "creates" /\ failed \subseteq loose /\ loose \subseteq intents /\ loose \cap Refs(index) = {}
      /\ \A s \in intents : s \in loose \/ s \in Refs(index)
  BY DEF RetryCreates, IndexReferencesSecret, StoreInv, Copy, Open
<1>2. /\ tx'.at \in {tx.back, "creates-write"} /\ tx'.back = tx.back /\ tx'.dirty = tx.dirty /\ tx'.hand = tx.hand /\ IsTx'
      /\ tx'.index = tx.index /\ tx'.base = tx.base /\ tx'.intents = tx.intents /\ tx'.new = tx.new /\ tx'.drop = tx.drop
      /\ tx'.batch = failed
      /\ secrets' = secrets \ (loose \ failed) /\ UNCHANGED <<index, intents, made>>
  BY DEF RetryCreates, StoreInv, Shape, IsTx
<1> HIDE DEF loose
<1>0. tx.back \in {"deletes", "end"} BY <1>1 DEF StoreInv, Clean
<1>3. Shape' BY <1>0, <1>1, <1>2 DEF StoreInv, Shape, Open
<1>4. Disk'
  BY <1>1, <1>2 DEF StoreInv, Disk, CommittedSecretsExist, SecretsAccountedFor, Numbered
<1>5. Copy' BY <1>0, <1>1, <1>2 DEF StoreInv, Copy, Open, Numbered
<1>6. Candidate' BY <1>1, RefsOf, <1>2, <1>0 DEF StoreInv, Clean, Live, Candidate
<1>7. Clean' BY <1>0, <1>1, <1>2 DEF StoreInv, Clean, Live
<1>8. Fresh' BY <1>0, <1>1, <1>2 DEF StoreInv, Clean, Fresh, Open, Live
<1>9. Batches' BY <1>0, <1>1, <1>2 DEF StoreInv, Batches
<1> QED BY <1>3, <1>4, <1>5, <1>6, <1>7, <1>8, <1>9 DEF StoreInv

\* WriteCreates forgets the intents whose secrets are gone or committed.
LEMMA WriteCreatesKeeps ==
  ASSUME StoreInv, NEW ok \in BOOLEAN, WriteCreates(ok)
  PROVE  StoreInv'
<1>1. /\ tx.at = "creates-write" /\ tx.back \in {"deletes", "end"}
      /\ tx'.at = tx.back /\ tx'.back = tx.back /\ tx'.dirty = tx.dirty /\ tx'.hand = tx.hand /\ IsTx'
      /\ tx'.index = tx.index /\ tx'.base = tx.base /\ tx'.new = tx.new /\ tx'.drop = tx.drop
      /\ tx'.intents = intents' /\ intents' \in {tx.batch, intents} /\ UNCHANGED <<index, secrets, made>>
  BY DEF WriteCreates, StoreInv, Shape, IsTx, Copy, Open, Clean
<1>2. /\ intents' \subseteq intents
      /\ secrets \cap intents \subseteq Refs(index) \cup intents'
  BY <1>1 DEF StoreInv, Batches
<1>3. Shape' BY <1>1 DEF StoreInv, Shape, Open
<1>4. Disk'
  BY <1>1, <1>2 DEF StoreInv, Disk, CommittedSecretsExist, SecretsAccountedFor, Numbered
<1>5. Copy' BY <1>1, <1>2 DEF StoreInv, Copy, Open, Numbered
<1>6. Candidate' /\ Clean' /\ Batches'
  BY <1>1 DEF StoreInv, Candidate, Clean, Batches, Live
<1>7. Fresh' BY <1>1 DEF StoreInv, Clean, Fresh, Open, Live
<1> QED BY <1>3, <1>4, <1>5, <1>6, <1>7 DEF StoreInv

\* Where nothing was edited the copy refers to what the commit refers to.
LEMMA CleanCopy ==
  ASSUME StoreInv, Live, ~tx.dirty
  PROVE  /\ Refs(tx.index) = Refs(index) /\ tx.index.deletes \subseteq index.deletes
         /\ tx.drop = {} /\ tx.new = {}
<1>1. tx.index.profiles = index.profiles BY DEF StoreInv, Clean
<1> QED BY <1>1, RefsOf DEF StoreInv, Clean

\* RetryDeletes deletes secrets no profile refers to.
LEMMA RetryDeletesKeeps ==
  ASSUME StoreInv, NEW failed, RetryDeletes(failed)
  PROVE  StoreInv'
<1>0. Live /\ ~tx.dirty /\ Open /\ tx.at = "deletes" /\ tx.back \in {"deletes", "run"} /\ IsIndex(tx.index)
  BY DEF RetryDeletes, StoreInv, Clean, Live, Open, Shape
<1>1. /\ tx'.at \in {"deletes-write", IF tx.back = "run" THEN "run" ELSE "orphans"}
      /\ tx'.back = tx.back /\ tx'.dirty = tx.dirty /\ tx'.hand = tx.hand /\ IsTx'
      /\ tx'.base = tx.base /\ tx'.intents = tx.intents /\ tx'.new = tx.new /\ tx'.drop = tx.drop
      /\ tx'.index = [tx.index EXCEPT !.deletes = failed] /\ failed \subseteq tx.index.deletes
      /\ secrets' = secrets \ (tx.index.deletes \ failed) /\ UNCHANGED <<index, intents, made>>
  BY DEF RetryDeletes, StoreInv, Shape, IsTx
<1>2. IsIndex(tx'.index) /\ tx'.index.deletes = failed /\ tx'.index.profiles = tx.index.profiles
  BY <1>0, <1>1 DEF IsIndex
<1>3. Refs(tx'.index) = Refs(tx.index) /\ (OneEach(tx'.index) <=> OneEach(tx.index))
  BY <1>2, RefsOf
<1>4. /\ Refs(tx.index) = Refs(index) /\ tx.index.deletes \subseteq index.deletes
      /\ tx.drop = {} /\ tx.new = {}
  BY <1>0, CleanCopy
<1>5. Shape' BY <1>0, <1>1, <1>2 DEF StoreInv, Shape
<1>6. Disk'
  BY <1>1, <1>4 DEF StoreInv, Disk, CommittedSecretsExist, SecretsAccountedFor, Numbered
<1>7. Copy' BY <1>0, <1>1, <1>2, <1>3, <1>4 DEF StoreInv, Copy, Numbered
<1>8. Candidate' BY <1>0, <1>1, <1>2, <1>3, <1>4 DEF StoreInv, Candidate
<1>9. Clean' BY <1>0, <1>1, <1>2, <1>4 DEF StoreInv, Clean, Live
<1>10. Fresh' BY <1>0, <1>1, <1>2, <1>4 DEF StoreInv, Fresh
<1>11. Batches' BY <1>0, <1>1 DEF Batches
<1> QED BY <1>5, <1>6, <1>7, <1>8, <1>9, <1>10, <1>11 DEF StoreInv

\* WriteDeletes commits the copy with the deletes that remain.
LEMMA WriteDeletesKeeps ==
  ASSUME StoreInv, NEW ok \in BOOLEAN, WriteDeletes(ok)
  PROVE  StoreInv'
<1>0. Live /\ ~tx.dirty /\ Open /\ tx.at = "deletes-write" /\ tx.back \in {"deletes", "run"} /\ IsIndex(tx.index)
  BY DEF WriteDeletes, StoreInv, Clean, Live, Open, Shape
<1>1. /\ tx'.at = (IF tx.back = "run" THEN "run" ELSE "orphans")
      /\ tx'.back = tx.back /\ tx'.dirty = tx.dirty /\ tx'.hand = tx.hand /\ IsTx'
      /\ tx'.base = index' /\ tx'.intents = tx.intents /\ tx'.new = tx.new /\ tx'.drop = tx.drop
      /\ tx'.index = tx.index /\ index' \in {tx.index, index} /\ UNCHANGED <<intents, secrets, made>>
  BY <1>0 DEF WriteDeletes, StoreInv, Shape, IsTx, Copy
<1>2. /\ Refs(tx.index) = Refs(index) /\ tx.index.deletes \subseteq index.deletes
      /\ tx.drop = {} /\ tx.new = {} /\ tx.index.profiles = index.profiles
  BY <1>0, CleanCopy DEF StoreInv, Clean
<1>3. /\ Refs(index') = Refs(index) /\ OneEach(index') /\ index'.profiles = index.profiles
      /\ tx.index.deletes \subseteq index'.deletes
  BY <1>0, <1>1, <1>2 DEF StoreInv, Candidate, Disk
<1>4. Shape' BY <1>0, <1>1 DEF StoreInv, Shape
<1>5. Disk'
  BY <1>0, <1>1, <1>2, <1>3 DEF StoreInv, Copy, Disk, SecretsAccountedFor, CommittedSecretsExist, Numbered
<1>6. Copy' BY <1>0, <1>1, <1>2, <1>3 DEF StoreInv, Copy, Numbered
<1>7. Candidate' /\ Batches' BY <1>0, <1>1 DEF StoreInv, Candidate, Batches
<1>8. Clean' BY <1>0, <1>1, <1>2, <1>3 DEF StoreInv, Clean, Live
<1>9. Fresh' BY <1>0, <1>1, <1>2 DEF StoreInv, Fresh
<1> QED BY <1>4, <1>5, <1>6, <1>7, <1>8, <1>9 DEF StoreInv

\* CleanupOrphanFileSecrets deletes what neither file names.
LEMMA OrphansKeep ==
  ASSUME StoreInv, NEW failed, CleanupOrphanFileSecrets(failed)
  PROVE  StoreInv'
<1> DEFINE orphans == {s \in secrets : s.backend = "file" /\ s \notin Refs(tx.index) \cup tx.index.deletes \cup tx.intents}
<1>0. Live /\ ~tx.dirty /\ Open /\ tx.at = "orphans" /\ tx.back = "deletes" /\ IsIndex(tx.index) /\ tx.hand.n = 0
  BY DEF CleanupOrphanFileSecrets, StoreInv, Clean, Live, Open, Shape
<1>1. /\ tx'.at = "run" /\ tx'.back = "run" /\ tx'.dirty = tx.dirty /\ tx'.hand = tx.hand /\ IsTx'
      /\ tx'.base = tx.base /\ tx'.intents = tx.intents /\ tx'.new = tx.new /\ tx'.drop = tx.drop
      /\ tx'.index = tx.index
      /\ secrets' = secrets \ (orphans \ failed) /\ orphans \cap Refs(tx.index) = {} /\ UNCHANGED <<index, intents, made>>
  BY <1>0 DEF CleanupOrphanFileSecrets, StoreInv, Shape, IsTx
<1> HIDE DEF orphans
<1>2. /\ Refs(tx.index) = Refs(index) /\ tx.drop = {} /\ tx.new = {} BY <1>0, CleanCopy
<1>3. Shape' BY <1>0, <1>1 DEF StoreInv, Shape, Open
<1>4. Disk'
  BY <1>1, <1>2 DEF StoreInv, Disk, CommittedSecretsExist, SecretsAccountedFor, Numbered
<1>5. Copy' BY <1>0, <1>1 DEF StoreInv, Copy, Numbered
<1>6. Candidate' BY <1>0, <1>1 DEF StoreInv, Candidate
<1>7. Clean' /\ Fresh' /\ Batches'
  BY <1>0, <1>1, <1>2 DEF StoreInv, Clean, Live, Fresh, Batches
<1> QED BY <1>3, <1>4, <1>5, <1>6, <1>7 DEF StoreInv

\* The caller's function runs on a copy that may still be committed.
LEMMA Running ==
  ASSUME StoreInv, tx.at = "run"
  PROVE  Live /\ Open /\ tx.back = "run" /\ IsIndex(tx.index)
BY DEF StoreInv, Shape, Clean, Live, Open

\* An edit of the copy that keeps its profiles, its deletes and the secrets in play.
LEMMA EditKeeps ==
  ASSUME StoreInv, Live, tx.back = "run", tx'.at = "run", tx'.back = "run", tx'.dirty = TRUE, IsTx', IsIndex(tx'.index),
         tx'.index.profiles = tx.index.profiles, tx'.index.deletes = tx.index.deletes,
         tx'.base = tx.base, tx'.intents = tx.intents, tx'.new = tx.new, tx'.drop = tx.drop, tx'.hand = tx.hand,
         UNCHANGED <<index, intents, secrets, made>>
  PROVE  StoreInv'
<1>0. Open /\ Live' BY DEF Open, Live
<1>1. Refs(tx'.index) = Refs(tx.index) /\ (OneEach(tx'.index) <=> OneEach(tx.index))
  BY RefsOf
<1>2. Shape' BY DEF StoreInv, Shape, Open
<1>3. Disk' BY DEF StoreInv, Disk, CommittedSecretsExist, SecretsAccountedFor, Numbered
<1>4. Copy' BY <1>0, <1>1 DEF StoreInv, Copy, Numbered
<1>5. Candidate' BY <1>0, <1>1 DEF StoreInv, Candidate
<1>6. Clean' /\ Fresh' /\ Batches' BY <1>0 DEF StoreInv, Clean, Fresh, Batches
<1> QED BY <1>2, <1>3, <1>4, <1>5, <1>6 DEF StoreInv

LEMMA RollBackKeeps ==
  ASSUME StoreInv, NEW status, RollBack(status)
  PROVE  StoreInv'
<1>0. Live /\ tx.back = "run" /\ IsIndex(tx.index)
  BY DEF RollBack, TxAt, StoreInv, Clean, Live, Shape, Open
<1>1. /\ tx'.at = "run" /\ tx'.back = "run" /\ tx'.dirty = TRUE /\ tx'.hand = tx.hand /\ IsTx'
      /\ tx'.base = tx.base /\ tx'.intents = tx.intents /\ tx'.new = tx.new /\ tx'.drop = tx.drop
      /\ tx'.index = [tx.index EXCEPT !.active = tx.base.active] /\ UNCHANGED <<index, intents, secrets, made>>
  BY <1>0 DEF RollBack, StoreInv, Shape, IsTx
<1>2. IsIndex(tx'.index) /\ tx'.index.profiles = tx.index.profiles /\ tx'.index.deletes = tx.index.deletes
  BY <1>0, <1>1 DEF IsIndex
<1> QED BY <1>0, <1>1, <1>2, EditKeeps

\* A secret is numbered and its intent written before it is made.
LEMMA IntentKeeps ==
  ASSUME StoreInv, tx.at = "run", NEW s, s.n = made + 1, made' = made + 1, intents' = tx.intents \cup {s},
         tx' = [tx EXCEPT !.intents = @ \cup {s}, !.hand = s], UNCHANGED <<index, secrets>>
  PROVE  StoreInv'
<1>0. Live /\ Open /\ tx.back = "run" /\ IsIndex(tx.index) /\ intents' = intents \cup {s}
  BY Running DEF StoreInv, Copy
<1>1. /\ tx'.at = "run" /\ tx'.back = "run" /\ tx'.dirty = tx.dirty /\ tx'.hand = s /\ IsTx'
      /\ tx'.index = tx.index /\ tx'.base = tx.base /\ tx'.intents = intents' /\ tx'.new = tx.new /\ tx'.drop = tx.drop
  BY <1>0 DEF StoreInv, Shape, IsTx
<1>2. /\ made \in Nat /\ Numbered(secrets \cup intents \cup index.deletes)
      /\ Numbered(tx.index.deletes \cup tx.drop \cup tx.new)
  BY <1>0 DEF StoreInv, Disk, Copy
<1>3. s \notin secrets \cup tx.index.deletes \cup tx.drop \cup tx.new
  BY <1>2 DEF Numbered
<1>4. Shape' BY <1>0, <1>1 DEF StoreInv, Shape, Open
<1>5. Disk'
  BY <1>0, <1>2 DEF StoreInv, Disk, CommittedSecretsExist, SecretsAccountedFor, Numbered
<1>6. Copy' BY <1>0, <1>1, <1>2 DEF StoreInv, Copy, Numbered
<1>7. Candidate' /\ Clean' BY <1>0, <1>1 DEF StoreInv, Candidate, Clean, Live
<1>8. Fresh' /\ Batches' BY <1>0, <1>1, <1>3 DEF StoreInv, Fresh, Batches
<1> QED BY <1>4, <1>5, <1>6, <1>7, <1>8 DEF StoreInv

\* No secret is in hand any more: the invariant asks less.
LEMMA EmptyHandKeeps ==
  ASSUME StoreInv, tx.at = "run", tx'.at \in {"run", "abort"}, tx'.hand.n = 0, IsTx',
         tx'.index = tx.index, tx'.base = tx.base, tx'.new = tx.new, tx'.drop = tx.drop, tx'.back = tx.back,
         tx'.dirty = tx.dirty, tx'.intents = intents', intents' \subseteq intents, secrets \cap intents \subseteq intents',
         made' \in {made, made + 1}, UNCHANGED <<index, secrets>>
  PROVE  StoreInv'
<1>0. Live /\ Open /\ tx.back = "run" /\ IsIndex(tx.index) /\ made \in Nat
  BY Running DEF StoreInv, Disk
<1>1. Shape' BY <1>0 DEF StoreInv, Shape, Open
<1>2. Disk'
  BY <1>0 DEF StoreInv, Disk, CommittedSecretsExist, SecretsAccountedFor, Numbered
<1>3. Copy' BY <1>0 DEF StoreInv, Disk, Copy, Numbered
<1>4. Candidate' /\ Clean' /\ Fresh' /\ Batches'
  BY <1>0 DEF StoreInv, Candidate, Clean, Fresh, Batches, Live
<1> QED BY <1>1, <1>2, <1>3, <1>4 DEF StoreInv

LEMMA AddCreateIntentKeeps ==
  ASSUME StoreInv, NEW ok \in BOOLEAN, AddCreateIntent(ok)
  PROVE  StoreInv'
<1> DEFINE s == [n |-> made + 1, backend |-> IF TxArg.do = "put" THEN "keyring" ELSE RefreshBackend]
<1>0. tx.at = "run" /\ Open /\ made' = made + 1 /\ UNCHANGED <<index, secrets>> /\ tx.hand = NoSecret
  BY DEF AddCreateIntent, Stores, TxAt, Open
<1>1. CASE ok BY <1>0, <1>1, IntentKeeps DEF AddCreateIntent
<1>2. CASE ~ok
  BY <1>0, <1>2, EmptyHandKeeps DEF AddCreateIntent, StoreInv, Copy, Aborted, NoSecret, Shape, IsTx
<1> QED BY <1>1, <1>2

LEMMA AddFileIntentKeeps ==
  ASSUME StoreInv, NEW ok \in BOOLEAN, AddFileIntent(ok)
  PROVE  StoreInv'
<1>0. tx.at = "run" /\ Open /\ made' = made + 1 /\ UNCHANGED <<index, secrets>> /\ tx.hand.n = 0
  BY DEF AddFileIntent, Open
<1>1. CASE ok
  <2> DEFINE s == [n |-> made + 1, backend |-> "file"]
  <2>1. s.n = made + 1 /\ intents' = tx.intents \cup {s} /\ tx' = [tx EXCEPT !.intents = @ \cup {s}, !.hand = s]
    BY <1>1 DEF AddFileIntent
  <2> HIDE DEF s
  <2> QED BY <1>0, <2>1, IntentKeeps
<1>2. CASE ~ok
  BY <1>0, <1>2, EmptyHandKeeps DEF AddFileIntent, StoreInv, Copy, Aborted, Shape, IsTx
<1> QED BY <1>1, <1>2

LEMMA SecretFailsKeeps ==
  ASSUME StoreInv, NEW cleared \in BOOLEAN, SecretFails(cleared)
  PROVE  StoreInv'
<1>0. tx.at = "run" /\ Open /\ Live /\ tx.hand.n # 0 /\ UNCHANGED <<index, secrets, made>> /\ tx.intents = intents
  BY Running DEF SecretFails, StoreInv, Copy
<1>1. tx.hand \notin secrets BY <1>0 DEF StoreInv, Fresh
<1>2. /\ intents' \in {intents \ {tx.hand}, intents} /\ tx'.intents = intents'
      /\ tx'.at \in {"run", "abort"} /\ tx'.hand.n = 0 /\ IsTx' /\ tx'.index = tx.index /\ tx'.base = tx.base
      /\ tx'.new = tx.new /\ tx'.drop = tx.drop /\ tx'.back = tx.back /\ tx'.dirty = tx.dirty
  BY <1>0 DEF SecretFails, NoSecret, StoreInv, Shape, IsTx
<1> QED BY <1>0, <1>1, <1>2, EmptyHandKeeps

\* A stored secret takes the place of the profile's earlier one, which the commit will delete.
LEMMA SecretStoredKeeps ==
  ASSUME StoreInv, SecretStored
  PROVE  StoreInv'
<1> DEFINE s == tx.hand
           l == IF TxArg.do = "put" THEN TxArg.label ELSE tx.index.active
           dropped == IF TxKnows(l) THEN {tx.index.profiles[l]} ELSE {}
<1>0. Live /\ Open /\ tx.at = "run" /\ tx.back = "run" /\ IsIndex(tx.index) /\ s.n # 0
  BY Running DEF SecretStored
<1>1. /\ tx'.at = "run" /\ tx'.back = "run" /\ tx'.dirty = TRUE /\ tx'.hand.n = 0 /\ IsTx'
      /\ tx'.base = tx.base /\ tx'.intents = tx.intents /\ tx'.new = tx.new \cup {s}
      /\ tx'.index = [tx.index EXCEPT !.profiles = PutAt(tx.index.profiles, l, s)]
      /\ tx'.drop = tx.drop \cup dropped
      /\ secrets' = secrets \cup {s} /\ UNCHANGED <<index, intents, made>>
  BY <1>0 DEF SecretStored, NoSecret, StoreInv, Shape, IsTx
<1>2. /\ IsIndex(tx'.index) /\ tx'.index.deletes = tx.index.deletes
      /\ tx'.index.profiles = PutAt(tx.index.profiles, l, s)
  BY <1>0, <1>1 DEF IsIndex, PutAt
<1>3. /\ s \in intents /\ s \notin secrets \cup tx.index.deletes \cup tx.drop \cup tx.new
      /\ Refs(tx.index) \subseteq secrets /\ Refs(index) \subseteq secrets /\ OneEach(tx.index)
  BY <1>0 DEF StoreInv, Fresh, Candidate, Disk, CommittedSecretsExist
<1> HIDE DEF s
<1>4. /\ s \in Refs(tx'.index) /\ Refs(tx'.index) \subseteq Refs(tx.index) \cup {s} /\ OneEach(tx'.index)
      /\ Refs(tx.index) \subseteq Refs(tx'.index) \cup dropped
      /\ dropped \subseteq Refs(tx.index) /\ dropped \cap Refs(tx'.index) = {}
  <2>1. s \notin Refs(tx.index) BY <1>3
  <2> HIDE DEF l
  <2>2. /\ s \in Refs(tx'.index) /\ Refs(tx'.index) \subseteq Refs(tx.index) \cup {s} /\ OneEach(tx'.index)
        /\ l \in DOMAIN tx.index.profiles =>
              /\ Refs(tx.index) \subseteq Refs(tx'.index) \cup {tx.index.profiles[l]}
              /\ tx.index.profiles[l] \in Refs(tx.index) /\ tx.index.profiles[l] \notin Refs(tx'.index)
        /\ l \notin DOMAIN tx.index.profiles => Refs(tx.index) \subseteq Refs(tx'.index)
    <3>1. IsIndex(tx.index) /\ OneEach(tx.index) /\ tx'.index.profiles = PutAt(tx.index.profiles, l, s)
      BY <1>0, <1>2, <1>3
    <3> QED BY ONLY <3>1, <2>1, RefsPut, Zenon
  <2> QED BY <2>2 DEF TxKnows
<1> HIDE DEF l, dropped
<1>5. Shape' BY <1>0, <1>1, <1>2 DEF StoreInv, Shape
<1>6. Disk'
  BY <1>1, <1>3 DEF StoreInv, Disk, CommittedSecretsExist, SecretsAccountedFor, Numbered
<1>7. Copy' BY <1>0, <1>1, <1>2, <1>3, <1>4 DEF StoreInv, Copy, Disk, Numbered
<1>8. Candidate' BY <1>0, <1>1, <1>2, <1>3, <1>4 DEF StoreInv, Candidate
<1>9. Clean' /\ Batches' BY <1>0, <1>1 DEF StoreInv, Clean, Batches
<1>10. Fresh' BY <1>0, <1>1, <1>3 DEF StoreInv, Fresh
<1> QED BY <1>5, <1>6, <1>7, <1>8, <1>9, <1>10 DEF StoreInv

\* A removed profile's secret is left to the commit, which will delete it.
LEMMA RemoveKeeps ==
  ASSUME StoreInv, NEW l, tx.at = "run", TxKnows(l), UNCHANGED <<index, intents, secrets, made>>,
         tx' = [tx EXCEPT !.index.profiles = Without(@, l), !.drop = @ \cup {tx.index.profiles[l]},
                          !.dirty = TRUE, !.todo = Tail(@)]
  PROVE  StoreInv'
<1>0. Live /\ Open /\ tx.back = "run" /\ IsIndex(tx.index) /\ OneEach(tx.index) /\ Refs(tx.index) \subseteq secrets
  BY Running DEF StoreInv, Candidate
<1>1. /\ tx'.at = "run" /\ tx'.back = "run" /\ tx'.dirty = TRUE /\ tx'.hand = tx.hand /\ IsTx'
      /\ tx'.base = tx.base /\ tx'.intents = tx.intents /\ tx'.new = tx.new
      /\ tx'.index = [tx.index EXCEPT !.profiles = Without(tx.index.profiles, l)]
      /\ tx'.drop = tx.drop \cup {tx.index.profiles[l]}
  BY <1>0 DEF StoreInv, Shape, IsTx
<1>2. /\ IsIndex(tx'.index) /\ tx'.index.deletes = tx.index.deletes
      /\ tx'.index.profiles = Without(tx.index.profiles, l)
  BY <1>0, <1>1 DEF IsIndex, Without
<1>3. /\ Refs(tx'.index) \subseteq Refs(tx.index) /\ Refs(tx.index) \subseteq Refs(tx'.index) \cup {tx.index.profiles[l]}
      /\ tx.index.profiles[l] \in Refs(tx.index) /\ tx.index.profiles[l] \notin Refs(tx'.index)
      /\ OneEach(tx'.index)
  BY <1>0, <1>2, RefsWithout DEF TxKnows
<1>4. Shape' BY <1>0, <1>1, <1>2 DEF StoreInv, Shape
<1>5. Disk' BY DEF StoreInv, Disk, CommittedSecretsExist, SecretsAccountedFor, Numbered
<1>6. Copy' BY <1>0, <1>1, <1>2, <1>3 DEF StoreInv, Copy, Disk, Numbered
<1>7. Candidate' BY <1>0, <1>1, <1>2, <1>3 DEF StoreInv, Candidate
<1>8. Clean' /\ Fresh' /\ Batches'
  BY <1>0, <1>1, <1>2, <1>3 DEF StoreInv, Clean, Fresh, Batches
<1> QED BY <1>4, <1>5, <1>6, <1>7, <1>8 DEF StoreInv

LEMMA EditIndexKeeps ==
  ASSUME StoreInv, EditIndex
  PROVE  StoreInv'
<1>0. tx.at = "run" /\ Live /\ Open /\ tx.back = "run" /\ IsIndex(tx.index) /\ UNCHANGED <<index, intents, secrets, made>>
  BY Running DEF EditIndex, TxAt
<1>1. ASSUME NEW a, NEW b, tx' = [tx EXCEPT !.index = [tx.index EXCEPT !.active = a, !.status = b], !.dirty = TRUE,
                                           !.todo = Tail(@)]
      PROVE  StoreInv'
  BY <1>0, <1>1, EditKeeps DEF StoreInv, Shape, IsTx, IsIndex
<1>2. CASE TxAt("activate") /\ tx' = [tx EXCEPT !.index.active = TxArg.label, !.dirty = TRUE, !.todo = Tail(@)]
  <2>1. tx' = [tx EXCEPT !.index = [tx.index EXCEPT !.active = TxArg.label, !.status = tx.index.status], !.dirty = TRUE,
                         !.todo = Tail(@)]
    BY <1>0, <1>2 DEF IsIndex
  <2> QED BY <1>1, <2>1
<1>3. CASE TxAt("journal") /\ tx' = [tx EXCEPT !.index.status = TxArg.status, !.dirty = TRUE, !.todo = Tail(@)]
  <2>1. tx' = [tx EXCEPT !.index = [tx.index EXCEPT !.active = tx.index.active, !.status = TxArg.status], !.dirty = TRUE,
                         !.todo = Tail(@)]
    BY <1>0, <1>3 DEF IsIndex
  <2> QED BY <1>1, <2>1
<1>4. CASE /\ TxAt("remove") /\ TxKnows(TxArg.label)
           /\ tx' = [tx EXCEPT !.index.profiles = Without(@, TxArg.label), !.drop = @ \cup {tx.index.profiles[TxArg.label]},
                               !.dirty = TRUE, !.todo = Tail(@)]
  BY <1>0, <1>4, RemoveKeeps
<1>5. CASE tx' = [tx EXCEPT !.todo = Tail(@)]
  <2>1. /\ tx'.at = tx.at /\ tx'.back = tx.back /\ tx'.dirty = tx.dirty /\ tx'.hand = tx.hand /\ IsTx'
        /\ tx'.base = tx.base /\ tx'.intents = tx.intents /\ tx'.new = tx.new /\ tx'.drop = tx.drop
        /\ tx'.index = tx.index /\ tx'.batch = tx.batch
    BY <1>5 DEF StoreInv, Shape, IsTx
  <2>2. Shape' /\ Disk'
    BY <1>0, <2>1 DEF StoreInv, Shape, Open, Disk, CommittedSecretsExist, SecretsAccountedFor, Numbered
  <2>3. Copy' /\ Candidate' BY <1>0, <2>1 DEF StoreInv, Copy, Candidate, Numbered
  <2>4. Clean' /\ Fresh' /\ Batches'
    BY <1>0, <2>1 DEF StoreInv, Clean, Fresh, Batches, Live
  <2> QED BY <2>2, <2>3, <2>4 DEF StoreInv
<1> QED BY <1>2, <1>3, <1>4, <1>5 DEF EditIndex

\* FlushIndex commits the copy, or leaves the disk as it is.
LEMMA FlushIndexKeeps ==
  ASSUME StoreInv, NEW ok \in BOOLEAN, FlushIndex(ok)
  PROVE  StoreInv'
<1> DEFINE next == [tx.index EXCEPT !.deletes = @ \cup tx.drop]
<1>0. tx.at = "run" /\ Live /\ Open /\ tx.back = "run" /\ IsIndex(tx.index) /\ UNCHANGED <<intents, secrets, made>>
  BY Running DEF FlushIndex, TxAt
<1>1. CASE ~tx.dirty
  <2>1. /\ tx'.at = "deletes" /\ tx'.back = "run" /\ tx'.dirty = tx.dirty /\ tx'.hand = tx.hand /\ IsTx'
        /\ tx'.base = tx.base /\ tx'.intents = tx.intents /\ tx'.new = tx.new /\ tx'.drop = tx.drop
        /\ tx'.index = tx.index /\ index' = index
    BY <1>0, <1>1 DEF FlushIndex, StoreInv, Shape, IsTx
  <2>2. Shape' /\ Disk'
    BY <1>0, <2>1 DEF StoreInv, Shape, Open, Disk, CommittedSecretsExist, SecretsAccountedFor, Numbered
  <2>3. Copy' /\ Candidate' BY <1>0, <2>1 DEF StoreInv, Copy, Candidate, Numbered
  <2>4. Clean' /\ Fresh' /\ Batches'
    BY <1>0, <1>1, <2>1 DEF StoreInv, Clean, Fresh, Batches, Live
  <2> QED BY <2>2, <2>3, <2>4 DEF StoreInv
<1>n. /\ IsIndex(next) /\ next.profiles = tx.index.profiles /\ next.deletes = tx.index.deletes \cup tx.drop
      /\ Refs(next) = Refs(tx.index) /\ (OneEach(next) <=> OneEach(tx.index))
  <2>1. IsIndex(next) /\ next.profiles = tx.index.profiles /\ next.deletes = tx.index.deletes \cup tx.drop
    BY <1>0 DEF IsIndex
  <2> HIDE DEF next
  <2> QED BY <2>1, RefsOf
<1>2. CASE tx.dirty /\ ok
  <2>1. /\ tx'.at = "settle" /\ tx'.back = "run" /\ tx'.dirty = FALSE /\ tx'.hand = tx.hand /\ IsTx'
        /\ tx'.base = next /\ tx'.intents = tx.intents /\ tx'.new = {} /\ tx'.drop = {} /\ tx'.batch = tx.new
        /\ tx'.index = next /\ index' = next
    BY <1>0, <1>2 DEF FlushIndex, StoreInv, Shape, IsTx
  <2> HIDE DEF next
  <2>2. Shape' BY <1>0, <1>n, <2>1 DEF StoreInv, Shape, Open
  <2>3. Disk'
    BY <1>0, <1>n, <2>1 DEF StoreInv, Disk, Copy, Candidate, CommittedSecretsExist, SecretsAccountedFor, Numbered
  <2>4. Copy' BY <1>0, <1>n, <2>1 DEF StoreInv, Copy, Numbered
  <2>5. Candidate' BY <1>0, <1>n, <2>1 DEF StoreInv, Candidate
  <2>6. Clean' /\ Fresh' /\ Batches'
    BY <1>0, <1>n, <2>1 DEF StoreInv, Candidate, Clean, Fresh, Batches, Live
  <2> QED BY <2>2, <2>3, <2>4, <2>5, <2>6 DEF StoreInv
<1>3. CASE tx.dirty /\ ~ok
  <2>1. /\ tx'.at \in {"undo", "abort"} /\ tx'.back = "run" /\ tx'.dirty = tx.dirty /\ tx'.hand = tx.hand /\ IsTx'
        /\ tx'.base = tx.base /\ tx'.intents = tx.intents /\ tx'.new = tx.new /\ tx'.drop = {}
        /\ tx'.index = next /\ index' = index
    BY <1>0, <1>3 DEF FlushIndex, StoreInv, Shape, IsTx
  <2> HIDE DEF next
  <2>2. Shape' BY <1>0, <1>n, <2>1 DEF StoreInv, Shape, Open
  <2>3. Disk'
    BY <1>0, <2>1 DEF StoreInv, Disk, CommittedSecretsExist, SecretsAccountedFor, Numbered
  <2>4. Copy' BY <1>0, <1>n, <2>1 DEF StoreInv, Copy, Numbered
  <2>5. Candidate' BY <1>0, <1>n, <2>1 DEF StoreInv, Candidate
  <2>6. Clean' /\ Fresh' /\ Batches'
    BY <1>0, <1>3, <1>n, <2>1 DEF StoreInv, Clean, Fresh, Batches, Live
  <2> QED BY <2>2, <2>3, <2>4, <2>5, <2>6 DEF StoreInv
<1> QED BY <1>1, <1>2, <1>3

\* SettleIntents forgets the intents of secrets the commit names.
LEMMA SettleIntentsKeeps ==
  ASSUME StoreInv, NEW ok \in BOOLEAN, SettleIntents(ok)
  PROVE  StoreInv'
<1>0. tx.at = "settle" /\ Live /\ Open /\ tx.back = "run" /\ ~tx.dirty /\ IsIndex(tx.index)
  BY DEF SettleIntents, StoreInv, Clean, Live, Open, Shape
<1>1. /\ tx'.at = "deletes" /\ tx'.back = "run" /\ tx'.dirty = tx.dirty /\ tx'.hand = tx.hand /\ IsTx'
      /\ tx'.base = tx.base /\ tx'.new = tx.new /\ tx'.drop = tx.drop /\ tx'.index = tx.index
      /\ tx'.intents = intents' /\ intents' \in {intents \ tx.batch, intents} /\ UNCHANGED <<index, secrets, made>>
  BY <1>0 DEF SettleIntents, StoreInv, Shape, IsTx, Copy
<1>2. tx.index = index /\ tx.batch \subseteq Refs(index) \cup index.deletes
  BY <1>0 DEF StoreInv, Batches
<1>3. Shape' BY <1>0, <1>1 DEF StoreInv, Shape
<1>4. Disk'
  BY <1>1, <1>2 DEF StoreInv, Disk, CommittedSecretsExist, SecretsAccountedFor, Numbered
<1>5. Copy' BY <1>0, <1>1, <1>2 DEF StoreInv, Copy, Numbered
<1>6. Candidate' /\ Clean' /\ Batches'
  BY <1>0, <1>1 DEF StoreInv, Candidate, Clean, Batches, Live
<1>7. Fresh' BY <1>0, <1>1 DEF StoreInv, Fresh
<1> QED BY <1>3, <1>4, <1>5, <1>6, <1>7 DEF StoreInv

\* CleanupNewSecrets deletes secrets that were never committed.
LEMMA CleanupNewSecretsKeeps ==
  ASSUME StoreInv, NEW failed, CleanupNewSecrets(failed)
  PROVE  StoreInv'
<1>1. /\ Open /\ failed \subseteq tx.new
      /\ tx'.at = "abort-write" /\ tx'.back = "end" /\ tx'.dirty = tx.dirty /\ tx'.hand = tx.hand /\ IsTx'
      /\ tx'.base = tx.base /\ tx'.intents = tx.intents /\ tx'.new = {} /\ tx'.drop = tx.drop /\ tx'.index = tx.index
      /\ tx'.batch = tx.new \ failed
      /\ secrets' = secrets \ (tx.new \ failed) /\ UNCHANGED <<index, intents, made>>
  BY DEF CleanupNewSecrets, StoreInv, Shape, IsTx, Open
<1>2. tx.new \cap Refs(index) = {} BY <1>1 DEF StoreInv, Fresh
<1>3. Shape' BY <1>1 DEF StoreInv, Shape, Open
<1>4. Disk'
  BY <1>1, <1>2 DEF StoreInv, Disk, CommittedSecretsExist, SecretsAccountedFor, Numbered
<1>5. Copy' BY <1>1 DEF StoreInv, Copy, Numbered
<1> QED BY <1>1, <1>3, <1>4, <1>5 DEF StoreInv, Candidate, Clean, Fresh, Batches, Live

\* WithdrawIntents forgets the intents of secrets that are gone.
LEMMA WithdrawIntentsKeeps ==
  ASSUME StoreInv, NEW ok \in BOOLEAN, WithdrawIntents(ok)
  PROVE  StoreInv'
<1>0. tx.at = "abort-write" /\ Open /\ tx.back = "end" /\ tx.batch \cap secrets = {}
  BY DEF WithdrawIntents, StoreInv, Clean, Batches, Open
<1>1. /\ tx'.at = "creates" /\ tx'.back = "end" /\ tx'.dirty = tx.dirty /\ tx'.hand = tx.hand /\ IsTx'
      /\ tx'.base = tx.base /\ tx'.new = tx.new /\ tx'.drop = tx.drop /\ tx'.index = tx.index
      /\ tx'.intents = intents' /\ intents' \in {intents \ tx.batch, intents} /\ UNCHANGED <<index, secrets, made>>
  BY <1>0 DEF WithdrawIntents, StoreInv, Shape, IsTx, Copy
<1>2. Shape' BY <1>0, <1>1 DEF StoreInv, Shape, Open
<1>3. Disk'
  BY <1>0, <1>1 DEF StoreInv, Disk, CommittedSecretsExist, SecretsAccountedFor, Numbered
<1>4. Copy' BY <1>0, <1>1 DEF StoreInv, Copy, Numbered
<1> QED BY <1>0, <1>1, <1>2, <1>3, <1>4 DEF StoreInv, Candidate, Clean, Fresh, Batches, Live

\* A function that fails gives the transaction up.
LEMMA FailureKeeps ==
  ASSUME StoreInv, TxRefused \/ CallerFails
  PROVE  StoreInv'
<1>1. Open /\ tx' = Aborted /\ UNCHANGED <<index, intents, secrets, made>>
  BY DEF TxRefused, CallerFails, TxAt, Open
<1> QED BY <1>1, AbortKeeps

LEMMA UnchangedKeeps ==
  ASSUME StoreInv, UNCHANGED storeVars
  PROVE  StoreInv'
<1>1. UNCHANGED <<index, intents, secrets, tx, made>> BY DEF storeVars
<1>2. Shape' /\ Disk'
  BY <1>1 DEF StoreInv, Shape, IsTx, Open, Disk, CommittedSecretsExist, SecretsAccountedFor, Numbered
<1>3. Copy' /\ Candidate' BY <1>1 DEF StoreInv, Copy, Candidate, Open, Live, Numbered
<1>4. Clean' /\ Fresh' /\ Batches'
  BY <1>1 DEF StoreInv, Clean, Fresh, Batches, Open, Live
<1> QED BY <1>2, <1>3, <1>4 DEF StoreInv

--------------------
\* The invariant holds of an empty store.
LEMMA StoreStarts ==
  ASSUME StoreInit
  PROVE  StoreInv
<1>1. /\ index.profiles = [l \in {} |-> NoSecret] /\ index.deletes = {} /\ IsIndex(index)
      /\ intents = {} /\ secrets = {} /\ made = 0
  BY DEF StoreInit, IsIndex
<1>2. Refs(index) = {} /\ OneEach(index) BY <1>1 DEF Refs, OneEach
<1>3. tx.at = "closed" /\ tx.back = NoLabel /\ tx.dirty = FALSE /\ tx.hand.n = 0 /\ IsTx
  BY DEF StoreInit, ClosedTx, NoSecret, IsTx
<1>4. Shape /\ Disk
  BY <1>1, <1>2, <1>3 DEF Shape, Disk, Open, CommittedSecretsExist, SecretsAccountedFor, Numbered
<1> QED BY <1>3, <1>4 DEF StoreInv, Copy, Candidate, Clean, Fresh, Batches, Open, Live, NoLabel

\* Every step of a transaction, failed or not, keeps the copy in memory and the two files in step with the secrets:
\* the invariant of codexauth/store.go and secret_intent.go is inductive.
THEOREM StoreInvariant == StoreSpec => []StoreInv
<1>1. StoreInit => StoreInv BY StoreStarts
<1>2. StoreInv /\ [StoreNext]_storeVars => StoreInv'
  <2> SUFFICES ASSUME StoreInv, [StoreNext]_storeVars PROVE StoreInv' OBVIOUS
  <2>1. ASSUME NEW script, BeginTx(script) PROVE StoreInv' BY <2>1, BeginKeeps
  <2>2. ASSUME NEW failed, RetryCreates(failed) \/ RetryDeletes(failed) \/ CleanupOrphanFileSecrets(failed) \/ CleanupNewSecrets(failed)
        PROVE  StoreInv'
    BY <2>2, RetryCreatesKeeps, RetryDeletesKeeps, OrphansKeep, CleanupNewSecretsKeeps
  <2>3. ASSUME NEW ok \in BOOLEAN,
               \/ WriteCreates(ok) \/ WriteDeletes(ok) \/ AddCreateIntent(ok) \/ AddFileIntent(ok) \/ SecretFails(ok)
               \/ FlushIndex(ok) \/ SettleIntents(ok) \/ WithdrawIntents(ok)
        PROVE  StoreInv'
    BY <2>3, WriteCreatesKeeps, WriteDeletesKeeps, AddCreateIntentKeeps, AddFileIntentKeeps, SecretFailsKeeps, FlushIndexKeeps,
       SettleIntentsKeeps, WithdrawIntentsKeeps
  <2>4. ASSUME NEW status, RollBack(status) PROVE StoreInv' BY <2>4, RollBackKeeps
  <2>5. CASE TxRefused \/ CallerFails BY <2>5, FailureKeeps
  <2>6. CASE SecretStored BY <2>6, SecretStoredKeeps
  <2>7. CASE EditIndex BY <2>7, EditIndexKeeps
  <2>8. CASE EndTx \/ StoreCrash BY <2>8, ClosedKeeps DEF EndTx, StoreCrash
  <2>9. CASE UNCHANGED storeVars BY <2>9, UnchangedKeeps
  <2> QED BY <2>1, <2>2, <2>3, <2>4, <2>5, <2>6, <2>7, <2>8, <2>9 DEF StoreNext
<1> QED BY <1>1, <1>2, PTL DEF StoreSpec

\* Whatever write or delete fails and wherever the process stops, every profile of the index on disk has its secret,
\* and every secret is a profile's or is recorded as one to delete or one being made, for every set of labels and
\* any number of transactions and mishaps.
THEOREM StoreSafe == StoreSpec => []StoreSound
<1>1. StoreInv => StoreSound BY DEF StoreInv, Disk, StoreSound
<1> QED BY <1>1, StoreInvariant, PTL

--------------------
(* The Claude host.                                                        *)

\* The shape of the values.
AdapterSteps == {"rest", "begin", "await", "launch", "started", "bound", "unbind", "list", "lock", "wait", "commit", "prompt"}
Requests == {"initialize", "new", "resume", "prompt"}
Named == Sessions \cup {NoSession}

Caller ==
  [at : AdapterSteps, does : {"none", "chat", "use", "new", "rename"}, conv : Conversations \cup {"none"},
   sess : Named, rev : Nat, gen : Nat, number : Nat, seen : Nat, wrote : Nat,
   asks : Requests \cup {"none"}, got : {"none", "ok", "error", "failed", "unsent"},
   text : SUBSET [of : Nat, number : Nat], awaits : Nat]

Request == [number : Nat, asks : Requests, sess : Named]
WireLine == [number : Nat, asks : Requests, says : {"ok", "error", "update"}, sess : Named]
Adapter == [alive : BOOLEAN, memory : SUBSET Sessions, asked : SUBSET Request, running : SUBSET Request, output : Seq(WireLine)]

Runtime == [started : BOOLEAN, starting : BOOLEAN, failed : BOOLEAN, process : Nat, generation : Nat, of : Seq(Nat),
            starts : Nat, ended : Nat, ready : Nat]
Binding == [sess : Named, gen : Nat, rev : Nat]

ClaudeTypes ==
  /\ plan \in HostPlans
  /\ runtime \in Runtime
  /\ adapters \in Seq(Adapter)
  /\ bindings \in [Conversations -> Binding]
  /\ resumed \in [Sessions -> Nat]
  /\ mailboxes \in [Sessions -> HostCallers \cup {NoCaller}]
  /\ callers \in [HostCallers -> Caller]
  /\ revisions \in Nat /\ hostOps \in Nat

\* What names a session where one is needed names one.
NamesSession(c) ==
  /\ c.at # "rest" => c.conv \in Conversations
  /\ c.at = "list" => c.does # "chat"
  /\ c.at = "bound" => c.does = "chat"
  /\ c.at \in {"lock", "commit"} => c.sess \in Sessions
  /\ c.at = "prompt" /\ c.does # "chat" => c.sess \in Sessions
  /\ c.at = "wait" /\ c.asks \in {"resume", "prompt"} => c.sess \in Sessions
  /\ c.at = "wait" /\ c.asks = "new" /\ c.got = "ok" => c.sess \in Sessions
\* A line about a prompt names its session, and so does the answer to a request for a new one.
LineNames(l) ==
  /\ l.says = "update" => l.asks = "prompt"
  /\ l.asks = "prompt" => l.sess \in Sessions
  /\ l.asks = "new" /\ l.says = "ok" => l.sess \in Sessions
WireNames(a) ==
  /\ \A r \in a.asked \cup a.running : r.asks = "prompt" => r.sess \in Sessions
  /\ \A i \in DOMAIN a.output : LineNames(a.output[i])
\* Wherever a session is needed one is named.
NamesInv ==
  /\ \A k \in HostCallers : NamesSession(callers[k])
  /\ \A p \in DOMAIN adapters : WireNames(adapters[p])

\* The caller leads a start.
Leads(c) == c.at \in {"launch", "started"} \/ (c.at = "wait" /\ c.asks = "initialize")
\* A process that somebody found running was launched before the one now being started.
SeenBefore(n) == n <= Len(adapters) /\ (runtime.starting /\ runtime.process # 0 => n < runtime.process)
\* The last handshake was with this process.
Made(p) == runtime.generation > 0 /\ runtime.of[runtime.generation] = p

\* What the agent says of its process is so: the last one launched, and of this generation once it is started.
RuntimeTrue ==
  /\ runtime.started = (runtime.process # 0)
  /\ runtime.process # 0 => runtime.process = Len(adapters)
  /\ runtime.generation = Len(runtime.of)
  /\ \A g \in 1 .. runtime.generation : runtime.of[g] \in 1 .. Len(adapters)
  /\ SeenBefore(runtime.ready)
  /\ ~runtime.starting /\ runtime.process # 0 => Made(runtime.process)
\* A start has one leader, and it waits for the process it launched.
LeaderTrue(c) ==
  /\ Leads(c) => runtime.starting
  /\ c.at = "launch" => runtime.process = 0
  /\ Leads(c) /\ c.at # "launch" => c.wrote = Len(adapters) /\ Len(adapters) > 0
  /\ c.at = "started" => Made(c.wrote)
\* The agent, the leader of a start and the callers agree on which process there is.
RunInv ==
  /\ RuntimeTrue
  /\ \A j, k \in HostCallers : Leads(callers[j]) /\ Leads(callers[k]) => j = k
  /\ \A k \in HostCallers : LeaderTrue(callers[k]) /\ SeenBefore(callers[k].seen)

\* The process of this generation has the session, or a stamp says so wrongly.
Has(s, g) == s \in misstamped \/ (g > 0 /\ s \in adapters[runtime.of[g]].memory)
\* The process the caller found running is still the one named.
InStep(c) == c.seen = runtime.process /\ runtime.process # 0
\* The conversation has no session, or one of this generation.
Settled(v) == bindings[v].sess = NoSession \/ bindings[v].gen = runtime.generation
\* The session of a conversation was loaded by the process of the generation it is bound in.
BoundLoaded(v) ==
  /\ bindings[v].gen <= runtime.generation
  /\ bindings[v].sess # NoSession => Has(bindings[v].sess, bindings[v].gen)
\* A session stamped with this generation is with this process.
StampTrue(s) ==
  /\ resumed[s] <= runtime.generation
  /\ resumed[s] > 0 /\ resumed[s] = runtime.generation => Has(s, runtime.generation)
\* What a caller has been through under its generation is true of the process of that generation.
Loads(c) ==
  /\ c.gen <= runtime.generation
  /\ c.at = "commit" /\ c.gen = runtime.generation => Has(c.sess, runtime.generation)
  /\ InStep(c) /\ (c.at = "commit" \/ (c.at = "wait" /\ c.asks \in {"new", "resume"})) => c.gen = runtime.generation
  /\ InStep(c) /\ c.at = "prompt" /\ c.does # "chat" => Has(c.sess, runtime.generation)
  /\ InStep(c) /\ c.at = "prompt" /\ c.does = "chat" => Settled(c.conv)
  /\ InStep(c) /\ c.at = "lock" /\ c.does = "chat" => Settled(c.conv) \/ bindings[c.conv].sess = c.sess
\* Bindings, stamps and callers are right about what the process has loaded.
LoadInv ==
  /\ \A v \in Conversations : BoundLoaded(v)
  /\ \A s \in Sessions : StampTrue(s)
  /\ \A k \in HostCallers : Loads(callers[k])
  /\ ResumedBeforePrompt

\* The caller has a prompt out.
Prompting(c) == c.at = "wait" /\ c.asks = "prompt"
\* What a process still has to do or to say for a prompt.
Begun(a) == {r \in a.asked \cup a.running : r.asks = "prompt"}
\* Somebody waits for this prompt, and has no answer yet.
Answerable(p, x) ==
  LET k == mailboxes[x.sess] IN
  k # NoCaller /\ callers[k].number = x.number /\ callers[k].wrote = p /\ callers[k].got \in {"none", "failed"}
\* The number of the prompt belongs to nobody, or to the caller that wrote it to this process.
Accounted(p, x) ==
  /\ x.number <= hostOps
  /\ \A k \in HostCallers : callers[k].at # "rest" /\ callers[k].number = x.number =>
       Prompting(callers[k]) /\ callers[k].wrote = p /\ callers[k].sess = x.sess
\* The prompt is given up or awaited; who owns its session asked the process it is in, if that is the one named.
Owned(p, x) ==
  /\ x.number \in deserted \/ Answerable(p, x)
  /\ runtime.process = p /\ mailboxes[x.sess] # NoCaller => callers[mailboxes[x.sess]].wrote = p
\* Once a prompt somebody waits for is answered its process has nothing more to do or say for it.
LastWord(a, i) ==
  LET l == a.output[i] IN
  l.asks = "prompt" /\ l.says # "update" /\ l.number \notin deserted =>
    /\ \A x \in Begun(a) : x.number # l.number
    /\ \A j \in DOMAIN a.output : j > i /\ a.output[j].asks = "prompt" => a.output[j].number # l.number
\* What a process has to do and to say for prompts is accounted for.
WireTrue(p, a) ==
  /\ \A x \in Begun(a) : Accounted(p, x) /\ Owned(p, x)
  /\ \A i \in DOMAIN a.output : a.output[i].asks = "prompt" =>
       Accounted(p, a.output[i]) /\ (a.output[i].says = "update" => Owned(p, a.output[i]))
  /\ \A i \in DOMAIN a.output : LastWord(a, i)
  /\ \A x \in a.asked \cap a.running : x.asks = "prompt" => x.number \in deserted
\* Two operations have two numbers.
OneNumber ==
  \A j, k \in HostCallers : j # k /\ callers[j].at # "rest" /\ callers[k].at # "rest" => callers[j].number # callers[k].number
\* A caller owns its session while its prompt is out, and has gathered nothing but its own.
CallerOwns(k) ==
  LET c == callers[k] IN
  /\ c.at # "rest" => c.number <= hostOps /\ c.number \notin deserted
  /\ Prompting(c) => mailboxes[c.sess] = k
  /\ c.text # {} => Prompting(c)
  /\ \A u \in c.text : u.of = c.wrote /\ (u.number = c.number \/ u.number \in deserted)
\* Prompts, mailboxes and what the processes still say belong together.
OwnInv ==
  /\ \A n \in deserted : n \in Nat /\ n <= hostOps
  /\ \A s \in Sessions : mailboxes[s] # NoCaller => Prompting(callers[mailboxes[s]]) /\ callers[mailboxes[s]].sess = s
  /\ OneNumber
  /\ \A k \in HostCallers : CallerOwns(k)
  /\ \A p \in DOMAIN adapters : WireTrue(p, adapters[p])

\* The invariant of the Claude host.
ClaudeInv == ClaudeTypes /\ NamesInv /\ RunInv /\ LoadInv /\ OwnInv

--------------------
(* What the steps have in common.                                          *)

\* One entry of a sequence is replaced.
LEMMA OneReplaced ==
  ASSUME NEW S, NEW f \in Seq(S), NEW p \in DOMAIN f, NEW a \in S, NEW g, g = [f EXCEPT ![p] = a]
  PROVE  /\ g \in Seq(S) /\ Len(g) = Len(f) /\ DOMAIN g = DOMAIN f
         /\ g[p] = a /\ \A q \in DOMAIN f : q # p => g[q] = f[q]
<1>1. p \in 1 .. Len(f) OBVIOUS
<1>2. g \in Seq(S) /\ Len(g) = Len(f) BY <1>1, ExceptSeq
<1>3. DOMAIN g = DOMAIN f /\ g[p] = a /\ \A q \in DOMAIN f : q # p => g[q] = f[q]
  BY Zenon
<1> QED BY <1>2, <1>3

\* One caller goes on.
LEMMA OneCaller ==
  ASSUME ClaudeTypes, NEW k \in HostCallers, NEW c \in Caller, callers' = [callers EXCEPT ![k] = c]
  PROVE  /\ callers' \in [HostCallers -> Caller] /\ callers'[k] = c
         /\ \A j \in HostCallers : j # k => callers'[j] = callers[j]
BY DEF ClaudeTypes

\* The caller of an operation that is over.
LEMMA RestTyped ==
  /\ Resting \in Caller
  /\ NamesSession(Resting)
  /\ ~Leads(Resting) /\ ~Prompting(Resting)
  /\ Resting.at = "rest" /\ Resting.seen = 0 /\ Resting.gen = 0 /\ Resting.text = {}
  /\ NoSession \notin Sessions /\ NoCaller \notin HostCallers
BY ClaudeAssumption DEF Resting, Caller, AdapterSteps, Requests, Named, NamesSession, Leads, Prompting, NoSession, Sessions, NoCaller

\* What the agent knows of its processes stays, unless a start begins, goes on or ends.
LEMMA RunKeeps ==
  ASSUME ClaudeTypes, RunInv, runtime' \in Runtime, adapters' \in Seq(Adapter), Len(adapters') = Len(adapters),
         \/ runtime' = runtime
         \/ /\ runtime'.started = FALSE /\ runtime'.process = 0 /\ runtime'.of = runtime.of
            /\ runtime'.generation = runtime.generation /\ runtime'.ready = runtime.ready /\ runtime'.starting = runtime.starting,
         \A k \in HostCallers :
           /\ Leads(callers'[k]) => /\ Leads(callers[k]) /\ callers'[k].at = callers[k].at /\ callers'[k].wrote = callers[k].wrote
           /\ SeenBefore(callers'[k].seen)
  PROVE  RunInv'
<1>1. RuntimeTrue' BY DEF RunInv, RuntimeTrue, SeenBefore, Made, ClaudeTypes, Runtime
<1>2. \A j, k \in HostCallers : Leads(callers[j])' /\ Leads(callers[k])' => j = k
  BY DEF RunInv, Leads
<1>3. ASSUME NEW k \in HostCallers PROVE LeaderTrue(callers[k])' /\ SeenBefore(callers[k].seen)'
  <2>1. Leads(callers'[k]) => LeaderTrue(callers[k]) BY DEF RunInv
  <2>2. SeenBefore(callers'[k].seen) OBVIOUS
  <2> QED BY <2>1, <2>2 DEF LeaderTrue, SeenBefore, Made, Leads, ClaudeTypes, Runtime
<1> QED BY <1>1, <1>2, <1>3 DEF RunInv

\* A caller whose operation is over, or that saw the process it saw before.
LEMMA SeenStays ==
  ASSUME ClaudeTypes, RunInv, NEW k \in HostCallers, NEW c, c.seen \in {0, callers[k].seen}
  PROVE  SeenBefore(c.seen)
BY DEF ClaudeTypes, RunInv, SeenBefore, Runtime, RuntimeTrue

\* What was loaded stays loaded.
Grows ==
  /\ runtime'.of = runtime.of /\ runtime'.generation = runtime.generation
  /\ \/ runtime'.process \in {runtime.process, 0}
     \/ runtime'.process > Len(adapters)
  /\ \A p \in DOMAIN adapters : adapters[p].memory \subseteq adapters'[p].memory
  /\ misstamped \subseteq misstamped'

\* A session that was loaded is loaded after a step that takes nothing away.
LEMMA HasStays ==
  ASSUME ClaudeTypes, RunInv, Grows, NEW s, NEW g \in Nat, g <= runtime.generation, Has(s, g)
  PROVE  Has(s, g)'
<1>1. g > 0 => runtime.of[g] \in DOMAIN adapters
  BY DEF RunInv, RuntimeTrue, ClaudeTypes, Runtime
<1> QED BY <1>1 DEF Has, Grows

\* A caller that still sees its process saw it before.
LEMMA InStepStays ==
  ASSUME ClaudeTypes, RunInv, Grows, NEW c, c.seen \in Nat, SeenBefore(c.seen), InStep(c)'
  PROVE  InStep(c) /\ runtime'.process = runtime.process
BY DEF InStep, Grows, SeenBefore, ClaudeTypes, Runtime

\* A conversation is bound as before; its revision may be newer.
SameBinding(v) == bindings'[v].sess = bindings[v].sess /\ bindings'[v].gen = bindings[v].gen

\* What a caller knows of its session it still knows after such a step.
LEMMA LoadsStays ==
  ASSUME ClaudeTypes, RunInv, Grows, NEW c \in Caller, SeenBefore(c.seen), Loads(c),
         c.at \in {"lock", "prompt"} /\ c.does = "chat" => SameBinding(c.conv) \/ Settled(c.conv)'
  PROVE  Loads(c)'
<1>1. runtime'.generation = runtime.generation /\ runtime.generation \in Nat
  BY DEF Grows, ClaudeTypes, Runtime
<1>2. InStep(c)' => InStep(c) BY InStepStays DEF Caller
<1>3. Has(c.sess, runtime.generation) => Has(c.sess, runtime.generation)'
  BY <1>1, HasStays
<1>4. Settled(c.conv) /\ SameBinding(c.conv) => Settled(c.conv)'
  BY <1>1 DEF Settled, SameBinding
<1> QED BY <1>1, <1>2, <1>3, <1>4 DEF Loads, SameBinding

\* What is bound, stamped or about to be is looked at where it changes.
LEMMA LoadKeeps ==
  ASSUME ClaudeTypes, RunInv, LoadInv, Grows, ResumedBeforePrompt',
         callers' \in [HostCallers -> Caller],
         \A v \in Conversations : bindings'[v] = bindings[v] \/ SameBinding(v) \/ (BoundLoaded(v)' /\ Settled(v)'),
         \A s \in Sessions : resumed'[s] = resumed[s] \/ StampTrue(s)',
         \A k \in HostCallers : callers'[k].at \in {"lock", "prompt"} => callers'[k].conv \in Conversations,
         \A k \in HostCallers : (SeenBefore(callers'[k].seen) /\ Loads(callers'[k])) \/ Loads(callers[k])'
  PROVE  LoadInv'
<1>1. ASSUME NEW k \in HostCallers PROVE Loads(callers[k])'
  <2>1. PICK c \in Caller : c = callers'[k] OBVIOUS
  <2>2. CASE SeenBefore(c.seen) /\ Loads(c)
    BY <2>1, <2>2, LoadsStays DEF SameBinding, Loads, InStep, Settled, Has
  <2> QED BY <2>1, <2>2
<1>2. ASSUME NEW v \in Conversations, SameBinding(v) PROVE BoundLoaded(v)'
  <2>1. bindings[v].gen \in Nat /\ bindings[v].gen <= runtime.generation /\ runtime'.generation = runtime.generation
    BY DEF LoadInv, BoundLoaded, ClaudeTypes, Binding, Grows
  <2>2. PICK s, g : s = bindings[v].sess /\ g = bindings[v].gen OBVIOUS
  <2>3. s # NoSession => Has(s, g)' BY <2>1, <2>2, HasStays DEF LoadInv, BoundLoaded
  <2> QED BY <1>2, <2>1, <2>2, <2>3 DEF BoundLoaded, Has, SameBinding
<1>3. ASSUME NEW s \in Sessions, resumed'[s] = resumed[s] PROVE StampTrue(s)'
  <2>1. resumed[s] \in Nat /\ runtime.generation \in Nat /\ runtime'.generation = runtime.generation
    BY DEF ClaudeTypes, Runtime, Grows
  <2>2. Has(s, runtime.generation) => Has(s, runtime.generation)'
    <3>1. PICK g \in Nat : g = runtime.generation BY <2>1
    <3>2. Has(s, g) => Has(s, g)' BY <3>1, HasStays
    <3> QED BY <2>1, <3>1, <3>2 DEF Has
  <2> QED BY <1>3, <2>1, <2>2 DEF LoadInv, StampTrue
<1>4. \A v \in Conversations : SameBinding(v) \/ BoundLoaded(v)' BY DEF SameBinding
<1> QED BY <1>1, <1>2, <1>3, <1>4 DEF LoadInv

--------------------
(* Whose words are read.                                                   *)

\* A caller that has no prompt out, before and after.
Aside(j) ==
  /\ ~Prompting(callers[j]) /\ ~Prompting(callers'[j]) /\ callers'[j].text = {}
  /\ callers'[j].at # "rest" => callers[j].at # "rest" /\ callers'[j].number = callers[j].number
\* A caller whose prompt stays out; it may be failed.
StillWaits(j) ==
  /\ Prompting(callers[j]) /\ Prompting(callers'[j]) /\ callers'[j].number = callers[j].number
  /\ callers'[j].wrote = callers[j].wrote /\ callers'[j].sess = callers[j].sess
  /\ callers'[j].got \in {callers[j].got, "failed"}
Waits(j) == StillWaits(j) /\ callers'[j].text = callers[j].text
\* A caller that begins an operation.
Begins(j) == callers[j].at = "rest" /\ callers'[j].at = "begin" /\ callers'[j].number > hostOps
\* The prompts that are out stay out.
PromptsStay == \A j \in HostCallers : Aside(j) \/ StillWaits(j) \/ Begins(j)

\* The number of a prompt stays the number of at most the caller it was written by.
LEMMA AccountedStays ==
  ASSUME OwnInv, hostOps \in Nat, hostOps' \in Nat, hostOps' >= hostOps, NEW p, NEW x, x.number \in Nat, Accounted(p, x),
         PromptsStay
  PROVE  Accounted(p, x)'
<1>1. ASSUME NEW j \in HostCallers, callers'[j].at # "rest", callers'[j].number = x.number
      PROVE  Prompting(callers'[j]) /\ callers'[j].wrote = p /\ callers'[j].sess = x.sess
  BY <1>1 DEF Accounted, Begins, PromptsStay, Aside, StillWaits, Prompting
<1> QED BY <1>1 DEF Accounted, Prompting

\* A prompt that is awaited or given up stays so.
LEMMA OwnedStays ==
  ASSUME ClaudeTypes, OwnInv, UNCHANGED <<mailboxes, deserted>>, NEW p, NEW x, x.sess \in Sessions, Owned(p, x),
         PromptsStay, runtime'.process = p => runtime.process = p
  PROVE  Owned(p, x)'
<1> DEFINE m == mailboxes[x.sess]
<1>1. m # NoCaller => m \in HostCallers /\ Prompting(callers[m])
  BY DEF ClaudeTypes, OwnInv
<1>2. m # NoCaller => StillWaits(m) BY <1>1 DEF Aside, Begins, PromptsStay, Prompting
<1>3. Answerable(p, x) => Answerable(p, x)' BY <1>2 DEF Answerable, StillWaits
<1> QED BY <1>2, <1>3 DEF Owned, StillWaits

\* What a process has to say stays accounted for while its prompts stay out.
LEMMA WireStays ==
  ASSUME ClaudeTypes, OwnInv, UNCHANGED <<mailboxes, deserted>>, hostOps' \in Nat, hostOps' >= hostOps,
         NEW p, NEW a \in Adapter, WireNames(a), WireTrue(p, a),
         PromptsStay, runtime'.process = p => runtime.process = p
  PROVE  WireTrue(p, a)'
<1>1. ASSUME NEW x \in Begun(a) PROVE Accounted(p, x)' /\ Owned(p, x)'
  BY AccountedStays, OwnedStays DEF Begun, WireNames, WireTrue, Adapter, Request, ClaudeTypes
<1>2. ASSUME NEW i \in DOMAIN a.output, a.output[i].asks = "prompt"
      PROVE  Accounted(p, a.output[i])' /\ (a.output[i].says = "update" => Owned(p, a.output[i])')
  <2>1. PICK l : l = a.output[i] OBVIOUS
  <2>2. a.output \in Seq(WireLine) BY DEF Adapter
  <2>3. l \in WireLine BY <2>1, <2>2
  <2>4. l.number \in Nat /\ l.sess \in Sessions /\ Accounted(p, l) /\ (l.says = "update" => Owned(p, l)) /\ hostOps \in Nat
    BY <1>2, <2>1, <2>3 DEF WireNames, LineNames, WireTrue, WireLine, ClaudeTypes
  <2>5. Accounted(p, l)' /\ (l.says = "update" => Owned(p, l)')
    BY <2>4, AccountedStays, OwnedStays
  <2> QED BY <2>1, <2>5
<1>3. \A i \in DOMAIN a.output : LastWord(a, i)' BY DEF WireTrue, LastWord, Begun
<1> QED BY <1>1, <1>2, <1>3 DEF WireTrue, Begun

\* What a process has to say is as true of it when it is looked at through the agent's state.
LEMMA WireSeen ==
  ASSUME NEW p, NEW a, a = adapters'[p], WireTrue(p, a)'
  PROVE  WireTrue(p, adapters[p])'
<1>1. /\ (\A x \in Begun(adapters[p]) : Accounted(p, x) /\ Owned(p, x))'
      /\ (\A x \in adapters[p].asked \cap adapters[p].running : x.asks = "prompt" => x.number \in deserted)'
  BY DEF WireTrue, Begun
<1>2. ASSUME NEW i \in DOMAIN a.output
      PROVE  /\ LastWord(adapters[p], i)'
             /\ (a.output[i].asks = "prompt" =>
                   Accounted(p, a.output[i])' /\ (a.output[i].says = "update" => Owned(p, a.output[i])'))
  BY DEF WireTrue, LastWord, Begun
<1>3. (\A i \in DOMAIN adapters[p].output : LastWord(adapters[p], i))' BY <1>2
<1>4. (\A i \in DOMAIN adapters[p].output : adapters[p].output[i].asks = "prompt" =>
        Accounted(p, adapters[p].output[i]) /\ (adapters[p].output[i].says = "update" => Owned(p, adapters[p].output[i])))'
  BY <1>2 DEF Accounted, Owned, Answerable, Prompting
<1> QED BY <1>1, <1>3, <1>4 DEF WireTrue

\* What every process has to say stays accounted for.
LEMMA WiresStay ==
  ASSUME ClaudeTypes, OwnInv, UNCHANGED <<mailboxes, deserted>>, hostOps' \in Nat, hostOps' >= hostOps, PromptsStay,
         adapters' \in Seq(Adapter), \A p \in DOMAIN adapters' : WireNames(adapters'[p]) /\ WireTrue(p, adapters'[p]),
         \/ runtime'.process \in {runtime.process, 0}
         \/ Begun(adapters'[runtime'.process]) = {} /\ adapters'[runtime'.process].output = << >>
  PROVE  \A p \in DOMAIN adapters' : WireTrue(p, adapters[p])'
<1> SUFFICES ASSUME NEW p \in DOMAIN adapters' PROVE WireTrue(p, adapters[p])' OBVIOUS
<1>1. PICK a \in Adapter : a = adapters'[p] OBVIOUS
<1>2. WireNames(a) /\ WireTrue(p, a) /\ p # 0 BY <1>1
<1>3. CASE runtime'.process = p => runtime.process = p
  BY <1>2, <1>3, WireStays, <1>1, WireSeen
<1>4. CASE Begun(a) = {} /\ a.output = << >> BY <1>1, <1>4 DEF WireTrue, Begun
<1> QED BY <1>1, <1>2, <1>3, <1>4

\* The prompts that are out stay out.
LEMMA OwnKeeps ==
  ASSUME ClaudeTypes, OwnInv, UNCHANGED <<mailboxes, hostOps, deserted>>, adapters' \in Seq(Adapter),
         \A j \in HostCallers : Aside(j) \/ Waits(j),
         \A p \in DOMAIN adapters' : WireNames(adapters'[p]) /\ WireTrue(p, adapters'[p]),
         \/ runtime'.process \in {runtime.process, 0}
         \/ Begun(adapters'[runtime'.process]) = {} /\ adapters'[runtime'.process].output = << >>
  PROVE  OwnInv'
<1>1. ASSUME NEW s \in Sessions, mailboxes[s] # NoCaller
      PROVE  Prompting(callers'[mailboxes[s]]) /\ callers'[mailboxes[s]].sess = s
  BY <1>1 DEF ClaudeTypes, OwnInv, Aside, Waits, StillWaits
<1>2. OneNumber' BY DEF OwnInv, OneNumber, Aside, Waits, StillWaits, Prompting
<1>3. ASSUME NEW k \in HostCallers PROVE CallerOwns(k)'
  BY DEF OwnInv, CallerOwns, Aside, Waits, StillWaits, Prompting
<1>4. \A p \in DOMAIN adapters' : WireTrue(p, adapters[p])'
  BY WiresStay DEF PromptsStay, Waits, ClaudeTypes
<1> QED BY <1>1, <1>2, <1>3, <1>4 DEF OwnInv, Prompting

\* A process with less to do, and nothing more to say.
LEMMA LessToDo ==
  ASSUME NEW p, NEW a, NEW b, WireNames(a), WireTrue(p, a), b.output = a.output, b.running \subseteq a.running,
         \A r \in b.asked : r \in a.asked \/ r.asks # "prompt"
  PROVE  WireNames(b) /\ WireTrue(p, b)
<1>1. Begun(b) \subseteq Begun(a) BY DEF Begun
<1>2. WireNames(b) BY <1>1 DEF WireNames, Begun
<1>3. \A i \in DOMAIN b.output : LastWord(b, i) BY <1>1 DEF LastWord, WireTrue
<1> QED BY <1>1, <1>2, <1>3 DEF WireTrue

\* A line that is not about a prompt.
LEMMA OtherLine ==
  ASSUME NEW p, NEW a \in Adapter, NEW b, WireNames(a), WireTrue(p, a), NEW l \in WireLine, LineNames(l), l.asks # "prompt",
         b.output = Append(a.output, l), b.running = a.running, b.asked \subseteq a.asked
  PROVE  WireNames(b) /\ WireTrue(p, b)
<1>1. Begun(b) \subseteq Begun(a) BY DEF Begun
<1>2. /\ a.output \in Seq(WireLine)
      /\ DOMAIN b.output = 1 .. Len(a.output) + 1 /\ DOMAIN a.output = 1 .. Len(a.output) /\ Len(a.output) \in Nat
      /\ b.output[Len(a.output) + 1] = l /\ \A i \in DOMAIN a.output : b.output[i] = a.output[i]
  BY DEF Adapter
<1>3. WireNames(b) BY <1>1, <1>2 DEF WireNames, Begun
<1>4. \A i \in DOMAIN b.output : LastWord(b, i) BY <1>1, <1>2 DEF LastWord, WireTrue
<1>5. \A i \in DOMAIN b.output : b.output[i].asks = "prompt" =>
       Accounted(p, b.output[i]) /\ (b.output[i].says = "update" => Owned(p, b.output[i]))
  BY <1>2 DEF WireTrue
<1> QED BY <1>1, <1>3, <1>4, <1>5 DEF WireTrue

\* Its oldest line is read, or all of them are dropped.
LEMMA LineRead ==
  ASSUME NEW p, NEW a \in Adapter, NEW b, WireNames(a), WireTrue(p, a), a.output # << >>,
         b.output \in {Tail(a.output), << >>}, b.running = a.running, b.asked = a.asked
  PROVE  WireNames(b) /\ WireTrue(p, b)
<1>1. Begun(b) = Begun(a) BY DEF Begun
<1>2. /\ a.output \in Seq(WireLine)
      /\ DOMAIN Tail(a.output) = 1 .. Len(a.output) - 1 /\ DOMAIN a.output = 1 .. Len(a.output) /\ Len(a.output) \in Nat
      /\ \A i \in DOMAIN Tail(a.output) : i \in Nat /\ i + 1 \in DOMAIN a.output /\ Tail(a.output)[i] = a.output[i + 1]
  BY DEF Adapter
<1>3. CASE b.output = << >> BY <1>1, <1>3 DEF WireNames, WireTrue, Begun
<1>4. CASE b.output = Tail(a.output)
  BY <1>1, <1>2, <1>4 DEF WireNames, Begun, WireTrue, LastWord
<1> QED BY <1>3, <1>4

--------------------
(* Steps of a caller that asks nothing.                                    *)

\* The other callers, before and after.
LEMMA OthersAside ==
  ASSUME ClaudeTypes, OwnInv, NEW j \in HostCallers, callers'[j] = callers[j]
  PROVE  Aside(j) \/ Waits(j)
<1>1. callers[j].text # {} => Prompting(callers[j]) BY DEF OwnInv, CallerOwns
<1> QED BY <1>1 DEF Aside, Waits, StillWaits

\* A caller goes on, and nothing but the caller, its lock and its request changes.
LEMMA CallerGoes ==
  ASSUME ClaudeInv, NEW k \in HostCallers, NEW c \in Caller, callers' = [callers EXCEPT ![k] = c], NamesSession(c),
         UNCHANGED <<plan, runtime, adapters, bindings, resumed, mailboxes, revisions, hostOps, misstamped, deserted, prompted>>,
         ~Leads(c), SeenBefore(c.seen), Loads(c), ~Prompting(callers[k]), ~Prompting(c), c.text = {},
         c.at # "rest" => callers[k].at # "rest" /\ c.number = callers[k].number
  PROVE  ClaudeInv'
<1>0. ClaudeTypes /\ NamesInv /\ RunInv /\ LoadInv /\ OwnInv BY DEF ClaudeInv
<1>1. /\ callers' \in [HostCallers -> Caller] /\ callers'[k] = c
      /\ \A j \in HostCallers : j # k => callers'[j] = callers[j]
  BY <1>0, OneCaller
<1>2. ClaudeTypes' BY <1>0, <1>1 DEF ClaudeTypes
<1>3. NamesInv' BY <1>0, <1>1 DEF NamesInv, NamesSession, WireNames, LineNames
<1>4. ASSUME NEW j \in HostCallers
      PROVE  /\ SeenBefore(callers'[j].seen) /\ Loads(callers'[j])
             /\ Leads(callers'[j]) => Leads(callers[j]) /\ callers'[j].at = callers[j].at /\ callers'[j].wrote = callers[j].wrote
             /\ Aside(j) \/ Waits(j)
  BY <1>1, <1>0, OthersAside DEF Aside, RunInv, LoadInv
<1>5. RunInv' BY <1>0, <1>1, <1>4, RunKeeps DEF ClaudeTypes
<1>6. LoadInv'
  BY <1>0, <1>1, <1>4, LoadKeeps DEF LoadInv, ResumedBeforePrompt, Grows, NamesInv, NamesSession
<1>7. OwnInv' BY <1>0, <1>4, OwnKeeps DEF NamesInv, OwnInv, ClaudeTypes
<1> QED BY <1>2, <1>3, <1>5, <1>6, <1>7 DEF ClaudeInv

\* An operation ends, without a prompt.
LEMMA OverGoes ==
  ASSUME ClaudeInv, NEW k \in HostCallers, callers' = Over(k), ~Prompting(callers[k]),
         UNCHANGED <<plan, runtime, adapters, bindings, resumed, mailboxes, revisions, hostOps, misstamped, deserted, prompted>>
  PROVE  ClaudeInv'
<1>1. callers' = [callers EXCEPT ![k] = Resting] BY DEF Over
<1>2. SeenBefore(Resting.seen) BY RestTyped, SeenStays DEF ClaudeInv
<1>3. Loads(Resting) BY RestTyped DEF Loads, ClaudeInv, ClaudeTypes, Runtime
<1> QED BY <1>1, <1>2, <1>3, RestTyped, CallerGoes

\* It goes to its next step, and what it holds stays as it is.
LEMMA StepTyped ==
  ASSUME ClaudeInv, NEW k \in HostCallers, callers[k].at # "rest", NEW step \in AdapterSteps \ {"rest"}
  PROVE  LET c == [callers[k] EXCEPT !.at = step] IN
         /\ Went(k, step) = [callers EXCEPT ![k] = c]
         /\ c \in Caller /\ c.at = step /\ c.seen = callers[k].seen /\ c.gen = callers[k].gen /\ c.does = callers[k].does
         /\ c.conv = callers[k].conv /\ c.sess = callers[k].sess /\ c.number = callers[k].number /\ c.text = callers[k].text
         /\ c.asks = callers[k].asks /\ c.got = callers[k].got /\ c.wrote = callers[k].wrote
         /\ callers[k].conv \in Conversations /\ SeenBefore(callers[k].seen) /\ callers[k] \in Caller
         /\ (~Prompting(callers[k]) => callers[k].text = {})
<1> DEFINE c == [callers[k] EXCEPT !.at = step]
<1>1. callers[k] \in Caller /\ callers \in [HostCallers -> Caller]
  BY DEF ClaudeInv, ClaudeTypes
<1>2. Went(k, step) = [callers EXCEPT ![k] = c] BY <1>1 DEF Went
<1>3. /\ c \in Caller /\ c.at = step /\ c.seen = callers[k].seen /\ c.gen = callers[k].gen /\ c.does = callers[k].does
      /\ c.conv = callers[k].conv /\ c.sess = callers[k].sess /\ c.number = callers[k].number /\ c.text = callers[k].text
      /\ c.asks = callers[k].asks /\ c.got = callers[k].got /\ c.wrote = callers[k].wrote
  BY <1>1 DEF Caller
<1>4. callers[k].conv \in Conversations /\ SeenBefore(callers[k].seen) /\ (~Prompting(callers[k]) => callers[k].text = {})
  BY DEF ClaudeInv, NamesInv, NamesSession, RunInv, OwnInv, CallerOwns
<1> QED BY <1>1, <1>2, <1>3, <1>4

\* A chat without a session and without a process ends at once (chat).
LEMMA ChatBeginsSafe == ASSUME ClaudeInv, UNCHANGED plan, NEW k \in HostCallers, ChatBegins(k) PROVE ClaudeInv'
BY OverGoes DEF ChatBegins, Prompting

\* A follower of a start goes on with the process of the last start that ended, or ends (waitACPStart).
LEMMA AwaitStartSafe == ASSUME ClaudeInv, UNCHANGED plan, NEW k \in HostCallers, AwaitStart(k) PROVE ClaudeInv'
<1>1. CASE callers' = Over(k) BY <1>1, OverGoes DEF AwaitStart, Prompting
<1>2. CASE callers' = [callers EXCEPT ![k].at = Onward(callers[k].does), ![k].seen = runtime.ready]
  <2> DEFINE c == [callers[k] EXCEPT !.at = Onward(callers[k].does), !.seen = runtime.ready]
  <2>1. /\ Onward(callers[k].does) \in {"bound", "unbind", "list"}
        /\ Onward(callers[k].does) = "list" => callers[k].does # "chat"
        /\ Onward(callers[k].does) = "bound" => callers[k].does = "chat"
    BY DEF Onward
  <2>2. callers' = [callers EXCEPT ![k] = c] BY <1>2 DEF ClaudeInv, ClaudeTypes
  <2>3. /\ c \in Caller /\ c.at = Onward(callers[k].does) /\ c.seen = runtime.ready /\ c.gen = callers[k].gen
        /\ c.conv = callers[k].conv /\ c.does = callers[k].does /\ c.number = callers[k].number /\ c.text = callers[k].text
    <3>1. callers[k] \in Caller /\ runtime.ready \in Nat
      BY DEF ClaudeInv, ClaudeTypes, Runtime
    <3> QED BY <2>1, <3>1 DEF Caller, AdapterSteps
  <2>4. callers[k].conv \in Conversations /\ ~Prompting(callers[k]) /\ callers[k].text = {} /\ callers[k].at # "rest"
    BY DEF AwaitStart, ClaudeInv, NamesInv, NamesSession, OwnInv, CallerOwns, Prompting
  <2>5. SeenBefore(runtime.ready) /\ callers[k].gen <= runtime.generation
    BY DEF ClaudeInv, RunInv, RuntimeTrue, LoadInv, Loads
  <2> HIDE DEF c
  <2>6. NamesSession(c) /\ ~Leads(c) /\ ~Prompting(c) /\ Loads(c)
    BY <2>1, <2>3, <2>4, <2>5 DEF NamesSession, Leads, Prompting, Loads
  <2> QED BY <2>2, <2>3, <2>4, <2>5, <2>6, CallerGoes DEF AwaitStart
<1> QED BY <1>1, <1>2 DEF AwaitStart

\* A session found in the catalog is a session (ListClaudeSessions).
LEMMA ListSafe == ASSUME ClaudeInv, UNCHANGED plan, NEW k \in HostCallers, List(k) PROVE ClaudeInv'
<1>1. CASE callers' = Over(k) BY <1>1, OverGoes DEF List, Prompting
<1>2. CASE InCatalog(callers[k].sess) /\ callers' = Went(k, "lock")
  <2>1. PICK c : c = [callers[k] EXCEPT !.at = "lock"] OBVIOUS
  <2>2. callers[k].sess \in Sessions
    <3>1. \A p \in DOMAIN adapters : adapters[p] \in Adapter
      BY DEF ClaudeInv, ClaudeTypes
    <3> QED BY <1>2, <3>1 DEF InCatalog, Adapter, Sessions
  <2>3. callers[k].at = "list" /\ callers[k].does # "chat" /\ ~Prompting(callers[k])
    BY DEF List, ClaudeInv, NamesInv, NamesSession, Prompting
  <2>4. "lock" \in AdapterSteps \ {"rest"} /\ callers[k].at # "rest"
    BY <2>3 DEF AdapterSteps
  <2>5. /\ callers' = [callers EXCEPT ![k] = c]
        /\ c \in Caller /\ c.at = "lock" /\ c.seen = callers[k].seen /\ c.gen = callers[k].gen /\ c.does = callers[k].does
        /\ c.conv = callers[k].conv /\ c.sess = callers[k].sess /\ c.number = callers[k].number /\ c.text = {}
        /\ callers[k].conv \in Conversations /\ SeenBefore(callers[k].seen)
    BY <1>2, <2>1, <2>3, <2>4, StepTyped
  <2>6. NamesSession(c) /\ ~Leads(c) /\ ~Prompting(c)
    BY <2>2, <2>3, <2>5 DEF NamesSession, Leads, Prompting
  <2>7. Loads(c) BY <2>3, <2>5 DEF Loads, ClaudeInv, LoadInv
  <2> QED BY <2>3, <2>4, <2>5, <2>6, <2>7, CallerGoes DEF List
<1> QED BY <1>1, <1>2 DEF List

\* A request for a session that got no usable answer ends the operation.
LEMMA GiveUpSafe == ASSUME ClaudeInv, UNCHANGED plan, NEW k \in HostCallers, GiveUp(k) PROVE ClaudeInv'
BY OverGoes DEF GiveUp, Prompting

\* A new session whose defaults are refused is left (configureClaudeSession).
LEMMA ConfigureFailsSafe == ASSUME ClaudeInv, UNCHANGED plan, NEW k \in HostCallers, ConfigureFails(k) PROVE ClaudeInv'
BY OverGoes DEF ConfigureFails, Prompting

\* A chat takes the session its conversation is bound to, and sees whether it is of this generation (requireSession).
LEMMA RequireSessionSafe == ASSUME ClaudeInv, UNCHANGED plan, NEW k \in HostCallers, RequireSession(k) PROVE ClaudeInv'
<1>1. CASE callers' = Over(k) BY <1>1, OverGoes DEF RequireSession, Prompting
<1>2. CASE callers' # Over(k)
  <2>1. PICK s, step : /\ s = bindings[callers[k].conv].sess /\ s # NoSession
                       /\ step = IF Stale(callers[k].conv, s) THEN "lock" ELSE "prompt"
                       /\ callers' = [callers EXCEPT ![k].at = step, ![k].sess = s]
    BY <1>2 DEF RequireSession
  <2>2. PICK c : c = [callers[k] EXCEPT !.at = step, !.sess = s] OBVIOUS
  <2>3. callers[k].at = "bound" /\ ~Prompting(callers[k]) /\ callers[k].conv \in Conversations /\ callers[k].text = {} /\ callers[k] \in Caller
    BY DEF RequireSession, Prompting, ClaudeInv, ClaudeTypes, NamesInv, NamesSession, OwnInv, CallerOwns
  <2>4. s \in Sessions /\ step \in {"lock", "prompt"}
    BY <2>1, <2>3 DEF ClaudeInv, ClaudeTypes, Binding, Named
  <2>5. callers' = [callers EXCEPT ![k] = c] BY <2>1, <2>2 DEF ClaudeInv, ClaudeTypes
  <2>6. /\ c \in Caller /\ c.at = step /\ c.seen = callers[k].seen /\ c.gen = callers[k].gen /\ c.does = callers[k].does
        /\ c.conv = callers[k].conv /\ c.sess = s /\ c.number = callers[k].number /\ c.text = {}
    BY <2>2, <2>3, <2>4 DEF Caller, AdapterSteps, Named
  <2>7. SeenBefore(callers[k].seen) /\ callers[k].gen <= runtime.generation
    BY DEF ClaudeInv, RunInv, LoadInv, Loads
  <2>8. step = "lock" \/ Settled(callers[k].conv)
    BY <2>1, <2>3 DEF Stale, Settled, ClaudeInv, LoadInv, BoundLoaded, ClaudeTypes, Binding, Runtime
  <2>9. NamesSession(c) /\ ~Leads(c) /\ ~Prompting(c)
    BY <2>3, <2>4, <2>6 DEF NamesSession, Leads, Prompting
  <2>10. callers[k].does = "chat" BY <2>3 DEF ClaudeInv, NamesInv, NamesSession
  <2>11. Loads(c) BY <2>1, <2>4, <2>6, <2>7, <2>8, <2>10 DEF Loads
  <2> QED BY <2>3, <2>5, <2>6, <2>7, <2>9, <2>11, CallerGoes DEF RequireSession
<1> QED BY <1>1, <1>2

\* Its session is there: the prompt of a rename is next.
LEMMA CommandKnownSafe == ASSUME ClaudeInv, UNCHANGED plan, NEW k \in HostCallers, CommandKnown(k) PROVE ClaudeInv'
<1>1. CASE callers' = Over(k) BY <1>1, OverGoes DEF CommandKnown, Prompting
<1>2. CASE callers' = Went(k, "prompt")
  <2>1. PICK c : c = [callers[k] EXCEPT !.at = "prompt"] OBVIOUS
  <2>2. callers[k].at = "commit" /\ callers[k].does = "rename" /\ ~Prompting(callers[k])
    BY DEF CommandKnown, Prompting
  <2>3. "prompt" \in AdapterSteps \ {"rest"} /\ callers[k].at # "rest"
    BY <2>2 DEF AdapterSteps
  <2>4. /\ callers' = [callers EXCEPT ![k] = c]
        /\ c \in Caller /\ c.at = "prompt" /\ c.seen = callers[k].seen /\ c.gen = callers[k].gen /\ c.does = callers[k].does
        /\ c.conv = callers[k].conv /\ c.sess = callers[k].sess /\ c.number = callers[k].number /\ c.text = {}
        /\ callers[k].conv \in Conversations /\ SeenBefore(callers[k].seen)
    BY <1>2, <2>1, <2>2, <2>3, StepTyped
  <2>5. NamesSession(callers[k]) /\ Loads(callers[k])
    BY DEF ClaudeInv, NamesInv, LoadInv
  <2>6. NamesSession(c) /\ ~Leads(c) /\ ~Prompting(c)
    BY <2>2, <2>4, <2>5 DEF NamesSession, Leads, Prompting
  <2>7. Loads(c) BY <2>2, <2>4, <2>5 DEF Loads, InStep
  <2> QED BY <2>2, <2>3, <2>4, <2>6, <2>7, CallerGoes DEF CommandKnown
<1> QED BY <1>1, <1>2 DEF CommandKnown

--------------------
(* Requests and stamps.                                                    *)

\* The request r of caller k, which is c from now on, is with the process.
AskedAs(k, what, s, c, r) ==
  /\ callers' = [callers EXCEPT ![k] = c]
  /\ c.at = "wait" /\ c.asks = what /\ c.sess = s /\ c.gen = runtime.generation /\ c.wrote = runtime.process
  /\ c.got \in {"none", "unsent"} /\ (runtime.process # 0 => c.got = "none")
  /\ c.number = callers[k].number /\ c.text = callers[k].text
  /\ c.does = callers[k].does /\ c.conv = callers[k].conv /\ c.seen = callers[k].seen
  /\ r.number = callers[k].number /\ r.asks = what /\ r.sess = s
  /\ adapters' \in Seq(Adapter) /\ Len(adapters') = Len(adapters) /\ DOMAIN adapters' = DOMAIN adapters
  /\ \A p \in DOMAIN adapters :
       /\ adapters'[p].memory = adapters[p].memory /\ adapters'[p].output = adapters[p].output
       /\ adapters'[p].running = adapters[p].running
       /\ adapters'[p].asked = IF p = runtime.process THEN adapters[p].asked \cup {r} ELSE adapters[p].asked

\* A request goes to the process the agent names.
LEMMA AskTyped ==
  ASSUME ClaudeInv, NEW k \in HostCallers, NEW what \in Requests, NEW s \in Named, NEW rev \in Nat, Ask(k, what, s, rev)
  PROVE  \E c \in Caller, r \in Request : AskedAs(k, what, s, c, r)
<1>1. /\ callers[k] \in Caller /\ runtime.generation \in Nat /\ runtime.process \in Nat
      /\ adapters \in Seq(Adapter) /\ callers \in [HostCallers -> Caller]
  BY DEF ClaudeInv, ClaudeTypes, Runtime
<1> DEFINE got == IF runtime.process = 0 THEN "unsent" ELSE "none"
<1>2. PICK c : c = [callers[k] EXCEPT !.at = "wait", !.asks = what, !.sess = s, !.rev = rev,
                                      !.gen = runtime.generation, !.wrote = runtime.process, !.got = got]
  OBVIOUS
<1>3. got \in {"none", "unsent"} /\ (runtime.process # 0 => got = "none") OBVIOUS
<1>4. callers' = [callers EXCEPT ![k] = c] BY <1>1, <1>2 DEF Ask
<1> HIDE DEF got
<1>5. /\ c \in Caller /\ c.at = "wait" /\ c.asks = what /\ c.sess = s /\ c.gen = runtime.generation /\ c.wrote = runtime.process
      /\ c.got = got /\ c.number = callers[k].number /\ c.text = callers[k].text
      /\ c.does = callers[k].does /\ c.conv = callers[k].conv /\ c.seen = callers[k].seen
  BY <1>1, <1>2, <1>3 DEF Caller, AdapterSteps
<1>6. PICK r : r = [number |-> callers[k].number, asks |-> what, sess |-> s] OBVIOUS
<1>7. r \in Request /\ r.number = callers[k].number /\ r.asks = what /\ r.sess = s
  BY <1>1, <1>6 DEF Request, Caller
<1>8. CASE runtime.process = 0
  <2>1. adapters' = adapters /\ 0 \notin DOMAIN adapters BY <1>1, <1>8 DEF Ask
  <2> QED BY <1>1, <1>3, <1>4, <1>5, <1>7, <1>8, <2>1 DEF AskedAs
<1>9. CASE runtime.process # 0
  <2> DEFINE p == runtime.process
  <2>1. p \in DOMAIN adapters BY <1>1, <1>9 DEF ClaudeInv, RunInv, RuntimeTrue
  <2>2. adapters[p] \in Adapter BY <1>1, <2>1
  <2>3. PICK a : a = [adapters[p] EXCEPT !.asked = @ \cup {r}] OBVIOUS
  <2>4. a \in Adapter /\ a.memory = adapters[p].memory /\ a.output = adapters[p].output /\ a.running = adapters[p].running
        /\ a.asked = adapters[p].asked \cup {r}
    BY <1>7, <2>2, <2>3 DEF Adapter
  <2>5. adapters' = [adapters EXCEPT ![p] = a] BY <1>1, <1>6, <1>9, <2>1, <2>3 DEF Ask
  <2>6. /\ adapters' \in Seq(Adapter) /\ Len(adapters') = Len(adapters) /\ DOMAIN adapters' = DOMAIN adapters
        /\ adapters'[p] = a /\ \A q \in DOMAIN adapters : q # p => adapters'[q] = adapters[q]
    BY <1>1, <2>1, <2>4, <2>5, OneReplaced
  <2> QED BY <1>3, <1>4, <1>5, <1>7, <2>4, <2>6 DEF AskedAs
<1> QED BY <1>8, <1>9

\* A session is asked for; a conversation may lose its own.
LEMMA AskGoes ==
  ASSUME ClaudeInv, NEW k \in HostCallers, NEW what \in {"new", "resume"}, NEW s \in Named, NEW rev \in Nat, Ask(k, what, s, rev),
         what = "resume" => s \in Sessions, callers[k].at \notin {"rest", "wait"},
         UNCHANGED <<plan, runtime, resumed, mailboxes, hostOps, misstamped, deserted, prompted>>,
         bindings' \in [Conversations -> Binding], revisions' \in Nat,
         \A v \in Conversations : bindings'[v] = bindings[v] \/
           (bindings'[v].sess = NoSession /\ bindings'[v].gen = bindings[v].gen)
  PROVE  ClaudeInv'
<1>0. ClaudeTypes /\ NamesInv /\ RunInv /\ LoadInv /\ OwnInv /\ what \in Requests
  BY DEF ClaudeInv, Requests
<1>1. PICK c \in Caller, r \in Request : AskedAs(k, what, s, c, r) BY <1>0, AskTyped
<1>2. /\ callers' \in [HostCallers -> Caller] /\ callers'[k] = c
      /\ \A j \in HostCallers : j # k => callers'[j] = callers[j]
  BY <1>0, <1>1, OneCaller DEF AskedAs
<1>3. ClaudeTypes' BY <1>0, <1>1, <1>2 DEF ClaudeTypes, AskedAs
<1>4. /\ callers[k].conv \in Conversations /\ ~Prompting(callers[k]) /\ callers[k].text = {} /\ SeenBefore(callers[k].seen)
  BY <1>0 DEF NamesInv, NamesSession, Prompting, OwnInv, CallerOwns, RunInv
<1>5. NamesSession(c) /\ ~Leads(c) /\ ~Prompting(c)
  BY <1>1, <1>4 DEF NamesSession, Leads, Prompting, AskedAs
<1>6. Loads(c) BY <1>0, <1>1 DEF Loads, ClaudeTypes, Runtime, AskedAs
<1>7. ASSUME NEW p \in DOMAIN adapters' PROVE WireNames(adapters'[p]) /\ WireTrue(p, adapters'[p])
  <2>1. WireNames(adapters[p]) /\ WireTrue(p, adapters[p])
    BY <1>0, <1>1 DEF NamesInv, OwnInv, AskedAs
  <2>2. /\ adapters'[p].output = adapters[p].output /\ adapters'[p].running \subseteq adapters[p].running
        /\ \A x \in adapters'[p].asked : x \in adapters[p].asked \/ x.asks # "prompt"
    BY <1>1 DEF AskedAs
  <2> QED BY <2>1, <2>2, LessToDo
<1>8. ASSUME NEW j \in HostCallers
      PROVE  /\ SeenBefore(callers'[j].seen) /\ Loads(callers'[j])
             /\ Leads(callers'[j]) => Leads(callers[j]) /\ callers'[j].at = callers[j].at /\ callers'[j].wrote = callers[j].wrote
             /\ Aside(j) \/ Waits(j)
             /\ callers'[j].at # "rest" => callers'[j].conv \in Conversations
             /\ NamesSession(callers'[j])
  BY <1>1, <1>2, <1>4, <1>5, <1>6, <1>0, OthersAside DEF Aside, AskedAs, NamesInv, NamesSession, RunInv, LoadInv
<1>9. NamesInv' BY <1>7, <1>8 DEF NamesInv, NamesSession, WireNames, LineNames
<1>10. RunInv' BY <1>0, <1>1, <1>8, RunKeeps DEF ClaudeTypes, AskedAs
<1>11. LoadInv'
  BY <1>0, <1>1, <1>2, <1>8, LoadKeeps DEF LoadInv, ResumedBeforePrompt, Grows, AskedAs, BoundLoaded, Settled
<1>12. OwnInv' BY <1>0, <1>1, <1>7, <1>8, OwnKeeps DEF ClaudeTypes, AskedAs
<1> QED BY <1>3, <1>9, <1>10, <1>11, <1>12 DEF ClaudeInv

\* A conversation loses its session, and another is asked for (ResetSession).
LEMMA ResetSessionSafe == ASSUME ClaudeInv, UNCHANGED plan, NEW k \in HostCallers, ResetSession(k) PROVE ClaudeInv'
<1>1. callers[k].at = "unbind" /\ callers[k].conv \in Conversations /\ revisions \in Nat /\ NoSession \in Named
  BY DEF ResetSession, ClaudeInv, NamesInv, NamesSession, ClaudeTypes, Named
<1>2. PICK b : b = [bindings[callers[k].conv] EXCEPT !.sess = NoSession, !.rev = revisions + 1]
  OBVIOUS
<1>3. bindings[callers[k].conv] \in Binding /\ bindings \in [Conversations -> Binding]
  BY <1>1 DEF ClaudeInv, ClaudeTypes
<1>4. b \in Binding /\ b.sess = NoSession /\ b.gen = bindings[callers[k].conv].gen
  <2>1. revisions + 1 \in Nat BY <1>1
  <2> QED BY <1>1, <1>2, <1>3, <2>1 DEF Binding
<1>5. bindings' = [bindings EXCEPT ![callers[k].conv] = b]
  BY <1>1, <1>2, <1>3 DEF ResetSession
<1>6. /\ bindings' \in [Conversations -> Binding]
      /\ \A v \in Conversations : bindings'[v] = bindings[v] \/
           (bindings'[v].sess = NoSession /\ bindings'[v].gen = bindings[v].gen)
  BY <1>3, <1>4, <1>5
<1>7. /\ Ask(k, "new", NoSession, revisions + 1) /\ callers[k].at \notin {"rest", "wait"}
      /\ UNCHANGED <<plan, runtime, resumed, mailboxes, hostOps, misstamped, deserted, prompted>>
  BY <1>1 DEF ResetSession
<1>8. revisions + 1 \in Nat /\ revisions' \in Nat BY <1>1 DEF ResetSession
<1> QED BY <1>1, <1>6, <1>7, <1>8, AskGoes

\* Under the control lock a session is found loaded, or is asked to be (ensureClaudeHostSessionLoadedLocked).
LEMMA UnderControlSafe == ASSUME ClaudeInv, UNCHANGED plan, NEW k \in HostCallers, UnderControl(k) PROVE ClaudeInv'
<1>0. /\ callers[k].at = "lock" /\ callers[k].sess \in Sessions /\ callers[k].conv \in Conversations /\ ~Prompting(callers[k])
      /\ callers[k] \in Caller /\ NamesSession(callers[k]) /\ Loads(callers[k]) /\ SeenBefore(callers[k].seen) /\ callers[k].text = {}
  BY DEF UnderControl, Prompting, ClaudeInv, ClaudeTypes, NamesInv, NamesSession, LoadInv, RunInv, OwnInv, CallerOwns
<1>1. CASE callers' = Over(k) /\ UNCHANGED adapters
  BY <1>0, <1>1, OverGoes DEF UnderControl
<1>2. CASE ResumedMeanwhile(callers[k]) /\ callers' = Went(k, "prompt") /\ UNCHANGED adapters
  <2>1. PICK c : c = [callers[k] EXCEPT !.at = "prompt"] OBVIOUS
  <2>2. "prompt" \in AdapterSteps \ {"rest"} /\ callers[k].at # "rest"
    BY <1>0 DEF AdapterSteps
  <2>3. /\ callers' = [callers EXCEPT ![k] = c]
        /\ c \in Caller /\ c.at = "prompt" /\ c.seen = callers[k].seen /\ c.gen = callers[k].gen /\ c.does = callers[k].does
        /\ c.conv = callers[k].conv /\ c.sess = callers[k].sess /\ c.number = callers[k].number /\ c.text = {}
    BY <1>0, <1>2, <2>1, <2>2, StepTyped
  <2>4. NamesSession(c) /\ ~Leads(c) /\ ~Prompting(c)
    BY <1>0, <2>3 DEF NamesSession, Leads, Prompting
  <2>5. callers[k].does = "chat" /\ (bindings[callers[k].conv].sess = callers[k].sess => Settled(callers[k].conv))
    BY <1>0, <1>2 DEF ResumedMeanwhile, Stale, Settled, ClaudeInv, LoadInv, BoundLoaded, ClaudeTypes, Binding, Runtime
  <2>6. Loads(c) BY <1>0, <2>3, <2>5 DEF Loads, InStep
  <2> QED BY <1>0, <1>2, <2>2, <2>3, <2>4, <2>6, CallerGoes DEF UnderControl
<1>3. CASE \E rev \in Nat : Load(k, rev)
  <2>1. PICK rev \in Nat : Load(k, rev) BY <1>3
  <2>2. CASE Reusable(callers[k].sess)
    <3>1. PICK c : c = [callers[k] EXCEPT !.at = "commit", !.rev = rev, !.gen = runtime.generation]
      OBVIOUS
    <3>2. callers' = [callers EXCEPT ![k] = c] /\ UNCHANGED adapters
      BY <2>1, <2>2, <3>1 DEF Load, ClaudeInv, ClaudeTypes
    <3>3. runtime.generation \in Nat /\ runtime.generation > 0 /\ resumed[callers[k].sess] = runtime.generation
      BY <2>2 DEF Reusable, ClaudeInv, ClaudeTypes, Runtime
    <3>4. /\ c \in Caller /\ c.at = "commit" /\ c.seen = callers[k].seen /\ c.gen = runtime.generation /\ c.does = callers[k].does
          /\ c.conv = callers[k].conv /\ c.sess = callers[k].sess /\ c.number = callers[k].number /\ c.text = {}
      BY <1>0, <3>1, <3>3 DEF Caller, AdapterSteps
    <3>5. NamesSession(c) /\ ~Leads(c) /\ ~Prompting(c)
      BY <1>0, <3>4 DEF NamesSession, Leads, Prompting
    <3>6. Has(callers[k].sess, runtime.generation)
      BY <1>0, <3>3 DEF ClaudeInv, LoadInv, StampTrue
    <3>7. Loads(c) BY <3>3, <3>4, <3>6 DEF Loads
    <3> QED BY <1>0, <3>2, <3>4, <3>5, <3>7, CallerGoes DEF UnderControl
  <2>3. CASE Ask(k, "resume", callers[k].sess, rev)
    BY <1>0, <2>3, AskGoes DEF UnderControl, Named, ClaudeInv, ClaudeTypes
  <2> QED BY <2>1, <2>2, <2>3 DEF Load
<1>4. callers[k].rev \in Nat /\ bindings[callers[k].conv].rev \in Nat
  BY <1>0 DEF Caller, ClaudeInv, ClaudeTypes, Binding
<1> QED BY <1>1, <1>2, <1>3, <1>4 DEF UnderControl

\* A stamp is given for a session the process has, or counted as given wrongly.
LEMMA StampGiven ==
  ASSUME ClaudeTypes, RunInv, NEW s, misstamped' = Misstamp(s), UNCHANGED <<runtime, adapters>>
  PROVE  /\ misstamped \subseteq misstamped' /\ Grows
         /\ \A g \in Nat : g = runtime.generation => Has(s, g)'
<1>1. misstamped \subseteq misstamped' /\ Grows BY DEF Misstamp, Grows
<1>2. ASSUME NEW g \in Nat, g = runtime.generation PROVE Has(s, g)'
  BY <1>2 DEF RunInv, RuntimeTrue, ClaudeTypes, Runtime, Misstamp, ProcessOf, Has
<1> QED BY <1>1, <1>2

\* A caller goes on; stamps are given, bindings change, prompts are as they were.
LEMMA CallerBinds ==
  ASSUME ClaudeInv, NEW k \in HostCallers, NEW c \in Caller, callers' = [callers EXCEPT ![k] = c], NamesSession(c),
         UNCHANGED <<plan, runtime, adapters, mailboxes, revisions, hostOps, deserted, prompted>>,
         misstamped \subseteq misstamped', bindings' \in [Conversations -> Binding], resumed' \in [Sessions -> Nat],
         \A v \in Conversations : bindings'[v] = bindings[v] \/ (BoundLoaded(v)' /\ Settled(v)'),
         \A s \in Sessions : resumed'[s] = resumed[s] \/ StampTrue(s)',
         ~Leads(c), SeenBefore(c.seen), Loads(c)', ~Prompting(callers[k]), ~Prompting(c), c.text = {},
         c.at # "rest" => callers[k].at # "rest" /\ c.number = callers[k].number
  PROVE  ClaudeInv'
<1>0. ClaudeTypes /\ NamesInv /\ RunInv /\ LoadInv /\ OwnInv BY DEF ClaudeInv
<1>1. /\ callers' \in [HostCallers -> Caller] /\ callers'[k] = c
      /\ \A j \in HostCallers : j # k => callers'[j] = callers[j]
  BY <1>0, OneCaller
<1>2. ClaudeTypes' BY <1>0, <1>1 DEF ClaudeTypes
<1>3. NamesInv' BY <1>0, <1>1 DEF NamesInv, NamesSession, WireNames, LineNames
<1>4. ASSUME NEW j \in HostCallers
      PROVE  /\ SeenBefore(callers'[j].seen)
             /\ (SeenBefore(callers'[j].seen) /\ Loads(callers'[j])) \/ Loads(callers[j])'
             /\ Leads(callers'[j]) => Leads(callers[j]) /\ callers'[j].at = callers[j].at /\ callers'[j].wrote = callers[j].wrote
             /\ Aside(j) \/ Waits(j)
  BY <1>1, <1>0, OthersAside DEF Aside, Loads, InStep, Settled, Has, RunInv, LoadInv
<1>5. RunInv' BY <1>0, <1>1, <1>4, RunKeeps DEF ClaudeTypes
<1>6. LoadInv'
  BY <1>0, <1>1, <1>4, LoadKeeps DEF LoadInv, ResumedBeforePrompt, Grows, NamesInv, NamesSession
<1>7. OwnInv' BY <1>0, <1>4, OwnKeeps DEF NamesInv, OwnInv, ClaudeTypes
<1> QED BY <1>2, <1>3, <1>5, <1>6, <1>7 DEF ClaudeInv

\* A stamp of this moment is true, or counted as given wrongly (markClaudeSessionLoaded).
LEMMA MarkLoadedSafe == ASSUME ClaudeInv, UNCHANGED plan, NEW k \in HostCallers, MarkLoaded(k) PROVE ClaudeInv'
<1>0. ClaudeTypes /\ RunInv /\ LoadInv /\ NamesSession(callers[k]) /\ Loads(callers[k]) /\ runtime.generation \in Nat
  BY DEF ClaudeInv, NamesInv, LoadInv, ClaudeTypes, Runtime
<1>1. /\ callers[k].at = "wait" /\ callers[k].asks \in {"new", "resume"} /\ callers[k].got = "ok"
      /\ resumed' = [resumed EXCEPT ![callers[k].sess] = runtime.generation]
      /\ misstamped' = Misstamp(callers[k].sess) /\ callers' = Went(k, "commit")
      /\ UNCHANGED <<runtime, adapters, bindings, mailboxes, revisions, hostOps, deserted, prompted>>
  BY DEF MarkLoaded
<1>2. callers[k].sess \in Sessions /\ ~Prompting(callers[k])
  BY <1>0, <1>1 DEF NamesSession, Prompting
<1>3. PICK c : c = [callers[k] EXCEPT !.at = "commit"] OBVIOUS
<1>4. "commit" \in AdapterSteps \ {"rest"} /\ callers[k].at # "rest"
  BY <1>1 DEF AdapterSteps
<1>5. /\ callers' = [callers EXCEPT ![k] = c]
      /\ c \in Caller /\ c.at = "commit" /\ c.seen = callers[k].seen /\ c.gen = callers[k].gen /\ c.does = callers[k].does
      /\ c.conv = callers[k].conv /\ c.sess = callers[k].sess /\ c.number = callers[k].number /\ c.text = {}
      /\ callers[k].conv \in Conversations /\ SeenBefore(callers[k].seen)
  BY <1>1, <1>2, <1>3, <1>4, StepTyped
<1>6. NamesSession(c) /\ ~Leads(c) /\ ~Prompting(c)
  BY <1>2, <1>5 DEF NamesSession, Leads, Prompting
<1>7. PICK s, g : s = callers[k].sess /\ g = runtime.generation OBVIOUS
<1>8. misstamped \subseteq misstamped' /\ Grows /\ Has(s, g)'
  BY <1>0, <1>1, <1>7, StampGiven
<1>9. resumed' \in [Sessions -> Nat] /\ \A t \in Sessions : resumed'[t] = resumed[t] \/ StampTrue(t)'
  BY <1>0, <1>1, <1>2, <1>7, <1>8 DEF ClaudeTypes, StampTrue, Has
<1>10. Loads(c)' BY <1>0, <1>1, <1>5, <1>7, <1>8 DEF Loads, InStep, Has
<1>11. bindings' \in [Conversations -> Binding] BY <1>0, <1>1 DEF ClaudeTypes
<1> QED BY <1>1, <1>2, <1>4, <1>5, <1>6, <1>8, <1>9, <1>10, <1>11, CallerBinds

\* The latest intent binds its conversation (commitBindingIntent).
LEMMA CommitBindingSafe == ASSUME ClaudeInv, UNCHANGED plan, NEW k \in HostCallers, CommitBinding(k) PROVE ClaudeInv'
<1>0. /\ ClaudeTypes /\ RunInv /\ LoadInv /\ runtime.generation \in Nat
      /\ callers[k].at = "commit" /\ ~Prompting(callers[k]) /\ callers[k].sess \in Sessions /\ callers[k].conv \in Conversations
      /\ callers' = Over(k) /\ UNCHANGED <<runtime, adapters, resumed, mailboxes, revisions, hostOps, deserted, prompted>>
  BY DEF ClaudeInv, NamesInv, NamesSession, ClaudeTypes, Runtime, CommitBinding, Prompting
<1>1. CASE UNCHANGED <<bindings, misstamped>> BY <1>0, <1>1, OverGoes
<1>2. CASE /\ bindings' = [bindings EXCEPT ![callers[k].conv].sess = callers[k].sess, ![callers[k].conv].gen = runtime.generation]
           /\ misstamped' = Misstamp(callers[k].sess)
  <2>1. PICK s, g, v, b : /\ s = callers[k].sess /\ g = runtime.generation /\ v = callers[k].conv
                          /\ b = [bindings[v] EXCEPT !.sess = s, !.gen = g]
    OBVIOUS
  <2>2. bindings[v] \in Binding /\ v \in Conversations /\ s \in Sessions /\ g \in Nat
    BY <1>0, <2>1 DEF ClaudeTypes
  <2>3. b \in Binding /\ b.sess = s /\ b.gen = g BY <2>1, <2>2 DEF Binding, Named
  <2>4. bindings' = [bindings EXCEPT ![v] = b] BY <1>0, <1>2, <2>1, <2>2 DEF ClaudeTypes
  <2>5. bindings' \in [Conversations -> Binding] /\ bindings'[v] = b /\ \A w \in Conversations : w # v => bindings'[w] = bindings[w]
    BY <1>0, <2>2, <2>3, <2>4 DEF ClaudeTypes
  <2>6. misstamped \subseteq misstamped' /\ Has(s, g)'
    BY <1>0, <1>2, <2>1, <2>2, StampGiven
  <2>7. BoundLoaded(v)' /\ Settled(v)'
    BY <1>0, <2>1, <2>2, <2>3, <2>5, <2>6 DEF BoundLoaded, Settled, Has
  <2>8. \A w \in Conversations : bindings'[w] = bindings[w] \/ (BoundLoaded(w)' /\ Settled(w)')
    BY <2>5, <2>7 DEF BoundLoaded, Settled, Has
  <2>9. SeenBefore(Resting.seen) /\ Loads(Resting)'
    BY <1>0, RestTyped, SeenStays DEF Loads, ClaudeTypes, Runtime
  <2>10. resumed' \in [Sessions -> Nat] /\ callers' = [callers EXCEPT ![k] = Resting]
    BY <1>0 DEF ClaudeTypes, Over
  <2> QED BY <1>0, <2>5, <2>6, <2>8, <2>9, <2>10, RestTyped, CallerBinds
<1> QED BY <1>1, <1>2 DEF CommitBinding

\* A binding moves to the generation in which its session was resumed (commitClaudeSessionGeneration).
LEMMA CommitGenerationSafe == ASSUME ClaudeInv, UNCHANGED plan, NEW k \in HostCallers, CommitGeneration(k) PROVE ClaudeInv'
<1>0. /\ ClaudeTypes /\ RunInv /\ LoadInv /\ runtime.generation \in Nat
      /\ callers[k].at = "commit" /\ callers[k].does = "chat" /\ ~Prompting(callers[k])
      /\ callers[k].sess \in Sessions /\ callers[k].conv \in Conversations /\ Loads(callers[k])
      /\ UNCHANGED <<runtime, adapters, resumed, mailboxes, revisions, hostOps, misstamped, deserted, prompted>>
  BY DEF ClaudeInv, NamesInv, NamesSession, LoadInv, ClaudeTypes, Runtime, CommitGeneration, Prompting
<1>1. CASE UNCHANGED bindings /\ callers' = Over(k) BY <1>0, <1>1, OverGoes
<1>2. CASE /\ bindings[callers[k].conv].sess = callers[k].sess /\ runtime.generation = callers[k].gen
           /\ bindings' = [bindings EXCEPT ![callers[k].conv].gen = callers[k].gen] /\ callers' = Went(k, "prompt")
  <2>1. PICK g, v, b, c : /\ g = runtime.generation /\ v = callers[k].conv
                          /\ b = [bindings[v] EXCEPT !.gen = g] /\ c = [callers[k] EXCEPT !.at = "prompt"]
    OBVIOUS
  <2>2. bindings[v] \in Binding /\ v \in Conversations /\ g \in Nat
    BY <1>0, <2>1 DEF ClaudeTypes
  <2>3. b \in Binding /\ b.sess = bindings[v].sess /\ b.gen = g
    BY <2>1, <2>2 DEF Binding
  <2>4. bindings' = [bindings EXCEPT ![v] = b] BY <1>0, <1>2, <2>1, <2>2 DEF ClaudeTypes
  <2>5. bindings' \in [Conversations -> Binding] /\ bindings'[v] = b /\ \A w \in Conversations : w # v => bindings'[w] = bindings[w]
    BY <1>0, <2>2, <2>3, <2>4 DEF ClaudeTypes
  <2>6. (Has(b.sess, g) /\ g > 0) \/ b.sess \in misstamped
    BY <1>0, <1>2, <2>1, <2>3 DEF Loads, Has
  <2>7. BoundLoaded(v)' /\ Settled(v)'
    BY <1>0, <2>1, <2>2, <2>3, <2>5, <2>6 DEF BoundLoaded, Settled, Has
  <2>8. \A w \in Conversations : bindings'[w] = bindings[w] \/ (BoundLoaded(w)' /\ Settled(w)')
    BY <2>5, <2>7 DEF BoundLoaded, Settled, Has
  <2>9. "prompt" \in AdapterSteps \ {"rest"} /\ callers[k].at # "rest"
    BY <1>0 DEF AdapterSteps
  <2>10. /\ callers' = [callers EXCEPT ![k] = c]
         /\ c \in Caller /\ c.at = "prompt" /\ c.seen = callers[k].seen /\ c.gen = callers[k].gen /\ c.does = callers[k].does
         /\ c.conv = callers[k].conv /\ c.sess = callers[k].sess /\ c.number = callers[k].number /\ c.text = {}
         /\ SeenBefore(callers[k].seen)
    BY <1>0, <1>2, <2>1, <2>9, StepTyped
  <2>11. NamesSession(c) /\ ~Leads(c) /\ ~Prompting(c)
    BY <1>0, <2>10 DEF NamesSession, Leads, Prompting
  <2>12. c.at = "prompt" /\ c.does = "chat" /\ c.gen = g /\ c.conv = v /\ Settled(v)'
    BY <1>0, <1>2, <2>1, <2>7, <2>10
  <2>13. Loads(c)' BY <1>0, <2>1, <2>2, <2>12 DEF Loads
  <2>14. resumed' \in [Sessions -> Nat] BY <1>0 DEF ClaudeTypes
  <2> QED BY <1>0, <2>5, <2>8, <2>9, <2>10, <2>11, <2>13, <2>14, CallerBinds
<1> QED BY <1>1, <1>2 DEF CommitGeneration

--------------------
(* Processes, and callers that are failed.                                 *)

\* Callers keep their steps; processes work, die or are given up.
LEMMA ManyGo ==
  ASSUME ClaudeInv, UNCHANGED <<plan, bindings, resumed, mailboxes, revisions, hostOps, misstamped, deserted, prompted>>,
         callers' \in [HostCallers -> Caller], runtime' \in Runtime, adapters' \in Seq(Adapter), Len(adapters') = Len(adapters),
         \A p \in DOMAIN adapters : adapters[p].memory \subseteq adapters'[p].memory,
         \/ runtime' = runtime
         \/ /\ runtime'.started = FALSE /\ runtime'.process = 0 /\ runtime'.of = runtime.of
            /\ runtime'.generation = runtime.generation /\ runtime'.ready = runtime.ready /\ runtime'.starting = runtime.starting,
         \A j \in HostCallers :
           /\ NamesSession(callers'[j]) /\ SeenBefore(callers'[j].seen) /\ Loads(callers'[j])
           /\ Leads(callers'[j]) => Leads(callers[j]) /\ callers'[j].at = callers[j].at /\ callers'[j].wrote = callers[j].wrote
           /\ Aside(j) \/ Waits(j),
         \A p \in DOMAIN adapters' : WireNames(adapters'[p]) /\ WireTrue(p, adapters'[p])
  PROVE  ClaudeInv'
<1>0. ClaudeTypes /\ NamesInv /\ RunInv /\ LoadInv /\ OwnInv BY DEF ClaudeInv
<1>1. ClaudeTypes' BY <1>0 DEF ClaudeTypes
<1>2. NamesInv' BY DEF NamesInv, NamesSession, WireNames, LineNames
<1>3. RunInv' BY <1>0, RunKeeps
<1>4. LoadInv' BY <1>0, LoadKeeps DEF LoadInv, ResumedBeforePrompt, Grows, NamesSession
<1>5. OwnInv' BY <1>0, OwnKeeps
<1> QED BY <1>1, <1>2, <1>3, <1>4, <1>5 DEF ClaudeInv

\* A caller as it was, or failed while it waited.
LEMMA FailedGoes ==
  ASSUME ClaudeInv, NEW j \in HostCallers,
         \/ callers'[j] = callers[j]
         \/ /\ callers[j].at = "wait" /\ callers[j].got = "none" /\ callers'[j] = [callers[j] EXCEPT !.got = "failed"]
  PROVE  /\ callers'[j] \in Caller
         /\ NamesSession(callers'[j]) /\ SeenBefore(callers'[j].seen) /\ Loads(callers'[j])
         /\ Leads(callers'[j]) => Leads(callers[j]) /\ callers'[j].at = callers[j].at /\ callers'[j].wrote = callers[j].wrote
         /\ Aside(j) \/ Waits(j)
<1>0. /\ callers[j] \in Caller /\ NamesSession(callers[j]) /\ SeenBefore(callers[j].seen) /\ Loads(callers[j])
      /\ ClaudeTypes /\ OwnInv /\ (callers[j].text # {} => Prompting(callers[j]))
  BY DEF ClaudeInv, ClaudeTypes, NamesInv, RunInv, LoadInv, OwnInv, CallerOwns
<1>1. CASE callers'[j] = callers[j] BY <1>0, <1>1, OthersAside
<1>2. CASE callers[j].at = "wait" /\ callers[j].got = "none" /\ callers'[j] = [callers[j] EXCEPT !.got = "failed"]
  <2>1. PICK c : c = callers'[j] OBVIOUS
  <2>2. /\ c \in Caller /\ c.at = callers[j].at /\ c.seen = callers[j].seen /\ c.gen = callers[j].gen /\ c.does = callers[j].does
        /\ c.conv = callers[j].conv /\ c.sess = callers[j].sess /\ c.number = callers[j].number /\ c.text = callers[j].text
        /\ c.asks = callers[j].asks /\ c.got = "failed" /\ c.wrote = callers[j].wrote
    BY <1>0, <1>2, <2>1 DEF Caller
  <2>3. NamesSession(c) /\ SeenBefore(c.seen) /\ Loads(c) /\ (Leads(c) => Leads(callers[j]))
    BY <1>0, <1>2, <2>2 DEF NamesSession, Loads, InStep, Leads
  <2>4. Aside(j) \/ Waits(j)
    BY <1>0, <1>2, <2>1, <2>2 DEF Aside, Waits, StillWaits, Prompting
  <2> QED BY <2>1, <2>2, <2>3, <2>4
<1> QED BY <1>1, <1>2

\* A process that is stopped does and is asked nothing more.
LEMMA KilledTyped ==
  ASSUME ClaudeInv, NEW p \in DOMAIN adapters \cup {0}, adapters' = Killed(p)
  PROVE  /\ adapters' \in Seq(Adapter) /\ Len(adapters') = Len(adapters)
         /\ \A q \in DOMAIN adapters : adapters[q].memory \subseteq adapters'[q].memory
         /\ \A q \in DOMAIN adapters' : WireNames(adapters'[q]) /\ WireTrue(q, adapters'[q])
<1>0. adapters \in Seq(Adapter) /\ \A q \in DOMAIN adapters : WireNames(adapters[q]) /\ WireTrue(q, adapters[q])
  BY DEF ClaudeInv, ClaudeTypes, NamesInv, OwnInv
<1>1. CASE p = 0 BY <1>0, <1>1 DEF Killed
<1>2. CASE p # 0
  <2>1. PICK a : a = [adapters[p] EXCEPT !.alive = FALSE, !.asked = {}, !.running = {}]
    OBVIOUS
  <2>2. p \in DOMAIN adapters /\ adapters[p] \in Adapter BY <1>0, <1>2
  <2>3. a \in Adapter /\ a.memory = adapters[p].memory /\ a.output = adapters[p].output /\ a.asked = {} /\ a.running = {}
    BY <2>1, <2>2 DEF Adapter
  <2>4. adapters' = [adapters EXCEPT ![p] = a] BY <1>0, <1>2, <2>1, <2>2 DEF Killed
  <2>5. /\ adapters' \in Seq(Adapter) /\ Len(adapters') = Len(adapters) /\ DOMAIN adapters' = DOMAIN adapters
        /\ adapters'[p] = a /\ \A q \in DOMAIN adapters : q # p => adapters'[q] = adapters[q]
    BY <1>0, <2>2, <2>3, <2>4, OneReplaced
  <2>6. WireNames(a) /\ WireTrue(p, a) BY <1>0, <2>2, <2>3, LessToDo
  <2> QED BY <1>0, <2>2, <2>3, <2>5, <2>6
<1> QED BY <1>1, <1>2

\* A caller that waits gives up (callWithSequence).
LEMMA CancelledSafe == ASSUME ClaudeInv, UNCHANGED plan, NEW k \in HostCallers, Cancelled(k) PROVE ClaudeInv'
<1>1. ASSUME NEW j \in HostCallers
      PROVE  \/ callers'[j] = callers[j]
             \/ callers[j].at = "wait" /\ callers[j].got = "none" /\ callers'[j] = [callers[j] EXCEPT !.got = "failed"]
  BY DEF Cancelled, ClaudeInv, ClaudeTypes
<1>2. callers' = [j \in HostCallers |-> callers'[j]]
  BY DEF Cancelled, ClaudeInv, ClaudeTypes
<1>3. callers' \in [HostCallers -> Caller] BY <1>1, <1>2, FailedGoes
<1> QED BY <1>1, <1>3, FailedGoes, ManyGo DEF Cancelled, ClaudeInv, ClaudeTypes, NamesInv, OwnInv

\* All who wait are failed (failAllWithCause).
LEMMA WakeSafe == ASSUME ClaudeInv, UNCHANGED plan, Wake PROVE ClaudeInv'
<1>1. ASSUME NEW j \in HostCallers
      PROVE  \/ callers'[j] = callers[j]
             \/ callers[j].at = "wait" /\ callers[j].got = "none" /\ callers'[j] = [callers[j] EXCEPT !.got = "failed"]
  BY DEF Wake
<1>2. callers' = [j \in HostCallers |-> callers'[j]] BY DEF Wake
<1>3. callers' \in [HostCallers -> Caller] BY <1>1, <1>2, FailedGoes
<1> QED BY <1>1, <1>3, FailedGoes, ManyGo DEF Wake, ClaudeInv, ClaudeTypes, NamesInv, OwnInv

\* Callers rest while processes act.
LEMMA ProcessGoes ==
  ASSUME ClaudeInv,
         UNCHANGED <<plan, callers, bindings, resumed, mailboxes, revisions, hostOps, misstamped, deserted, prompted>>,
         runtime' \in Runtime, adapters' \in Seq(Adapter), Len(adapters') = Len(adapters),
         \A p \in DOMAIN adapters : adapters[p].memory \subseteq adapters'[p].memory,
         \/ runtime' = runtime
         \/ /\ runtime'.started = FALSE /\ runtime'.process = 0 /\ runtime'.of = runtime.of
            /\ runtime'.generation = runtime.generation /\ runtime'.ready = runtime.ready /\ runtime'.starting = runtime.starting,
         \A p \in DOMAIN adapters' : WireNames(adapters'[p]) /\ WireTrue(p, adapters'[p])
  PROVE  ClaudeInv'
<1>1. \A j \in HostCallers : callers'[j] = callers[j] OBVIOUS
<1>2. callers' \in [HostCallers -> Caller] BY DEF ClaudeInv, ClaudeTypes
<1> QED BY <1>1, <1>2, FailedGoes, ManyGo

\* The process the agent names is stopped (Stop).
LEMMA StopAdapterSafe == ASSUME ClaudeInv, UNCHANGED plan, StopAdapter PROVE ClaudeInv'
<1>1. runtime.process \in DOMAIN adapters
  BY DEF StopAdapter, ClaudeInv, RunInv, RuntimeTrue, ClaudeTypes, Runtime
<1>2. /\ runtime' \in Runtime
      /\ runtime'.started = FALSE /\ runtime'.process = 0 /\ runtime'.of = runtime.of
      /\ runtime'.generation = runtime.generation /\ runtime'.ready = runtime.ready /\ runtime'.starting = runtime.starting
  BY DEF StopAdapter, ClaudeInv, ClaudeTypes, Runtime
<1>3. PICK p : p = runtime.process OBVIOUS
<1>4. adapters' = Killed(p) BY <1>3 DEF StopAdapter
<1> QED BY <1>1, <1>2, <1>3, <1>4, KilledTyped, ProcessGoes DEF StopAdapter

\* The reader of the process the agent names ends (finishReadLoop).
LEMMA ReaderEndsSafe == ASSUME ClaudeInv, UNCHANGED plan, NEW p \in DOMAIN adapters, ReaderEnds(p) PROVE ClaudeInv'
<1>2. /\ runtime' \in Runtime
      /\ runtime'.started = FALSE /\ runtime'.process = 0 /\ runtime'.of = runtime.of
      /\ runtime'.generation = runtime.generation /\ runtime'.ready = runtime.ready /\ runtime'.starting = runtime.starting
  BY DEF ReaderEnds, ClaudeInv, ClaudeTypes, Runtime
<1> QED BY <1>2, ProcessGoes DEF ReaderEnds, ClaudeInv, ClaudeTypes, NamesInv, OwnInv

\* A process dies.
LEMMA AdapterExitsSafe == ASSUME ClaudeInv, UNCHANGED plan, NEW p \in DOMAIN adapters, AdapterExits(p) PROVE ClaudeInv'
<1>1. runtime' \in Runtime BY DEF AdapterExits, ClaudeInv, ClaudeTypes
<1> QED BY <1>1, KilledTyped, ProcessGoes DEF AdapterExits

\* One process goes on, and nothing else changes.
LEMMA AdapterGoes ==
  ASSUME ClaudeInv, NEW p \in DOMAIN adapters, NEW a \in Adapter, adapters' = [adapters EXCEPT ![p] = a],
         adapters[p].memory \subseteq a.memory, WireNames(a), WireTrue(p, a),
         UNCHANGED <<plan, runtime, callers, bindings, resumed, mailboxes, revisions, hostOps, misstamped, deserted, prompted>>
  PROVE  ClaudeInv'
<1>1. adapters \in Seq(Adapter) /\ runtime' \in Runtime /\ \A q \in DOMAIN adapters : WireNames(adapters[q]) /\ WireTrue(q, adapters[q])
  BY DEF ClaudeInv, ClaudeTypes, NamesInv, OwnInv
<1>2. /\ adapters' \in Seq(Adapter) /\ Len(adapters') = Len(adapters) /\ DOMAIN adapters' = DOMAIN adapters
      /\ adapters'[p] = a /\ \A q \in DOMAIN adapters : q # p => adapters'[q] = adapters[q]
  BY <1>1, OneReplaced
<1>3. \A q \in DOMAIN adapters : adapters[q].memory \subseteq adapters'[q].memory
  BY <1>2
<1>4. \A q \in DOMAIN adapters' : WireNames(adapters'[q]) /\ WireTrue(q, adapters'[q])
  BY <1>1, <1>2
<1> QED BY <1>1, <1>2, <1>3, <1>4, ProcessGoes

\* What a process was asked, and the process itself, are of their types.
LEMMA AskedTyped ==
  ASSUME ClaudeInv, NEW p \in DOMAIN adapters
  PROVE  /\ adapters[p] \in Adapter /\ WireNames(adapters[p]) /\ WireTrue(p, adapters[p])
         /\ \A r \in adapters[p].asked \cup adapters[p].running : r \in Request
<1>1. adapters[p] \in Adapter /\ WireNames(adapters[p]) /\ WireTrue(p, adapters[p])
  BY DEF ClaudeInv, ClaudeTypes, NamesInv, OwnInv
<1> QED BY <1>1 DEF Adapter

\* A process answers a handshake or resumes a session.
LEMMA AnswerSafe ==
  ASSUME ClaudeInv, UNCHANGED plan, NEW p \in DOMAIN adapters, NEW r, Answer(p, r) PROVE ClaudeInv'
<1>1. /\ adapters[p] \in Adapter /\ WireNames(adapters[p]) /\ WireTrue(p, adapters[p]) /\ r \in Request /\ r \in adapters[p].asked
      /\ r.asks \in {"initialize", "resume"}
  BY AskedTyped DEF Answer
<1>2. PICK l : l = [number |-> r.number, asks |-> r.asks, says |-> "ok", sess |-> r.sess]
  OBVIOUS
<1>3. l \in WireLine /\ LineNames(l) /\ l.asks # "prompt"
  BY <1>1, <1>2 DEF WireLine, Request, LineNames
<1>4. PICK a : a = [adapters[p] EXCEPT !.asked = @ \ {r}, !.output = Append(@, l), !.memory = @ \cup ({r.sess} \cap Sessions)]
  OBVIOUS
<1>5. adapters' = [adapters EXCEPT ![p] = a]
  BY <1>1, <1>2, <1>4 DEF Answer, Say, ClaudeInv, ClaudeTypes
<1>6. Append(adapters[p].output, l) \in Seq(WireLine) BY <1>1, <1>3 DEF Adapter
<1>7. /\ a \in Adapter /\ a.memory = adapters[p].memory \cup ({r.sess} \cap Sessions) /\ a.running = adapters[p].running
      /\ a.asked = adapters[p].asked \ {r} /\ a.output = Append(adapters[p].output, l)
  BY <1>1, <1>4, <1>6 DEF Adapter
<1>8. WireNames(a) /\ WireTrue(p, a) BY <1>1, <1>3, <1>7, OtherLine
<1> QED BY <1>5, <1>7, <1>8, AdapterGoes DEF Answer

\* A process creates a session.
LEMMA CreateSessionSafe ==
  ASSUME ClaudeInv, UNCHANGED plan, NEW p \in DOMAIN adapters, NEW r, CreateSession(p, r) PROVE ClaudeInv'
<1>1. /\ adapters[p] \in Adapter /\ WireNames(adapters[p]) /\ WireTrue(p, adapters[p]) /\ r \in Request /\ r \in adapters[p].asked
      /\ r.asks = "new"
  BY AskedTyped DEF CreateSession
<1>2. PICK s \in Unused : adapters' = [adapters EXCEPT ![p].asked = @ \ {r}, ![p].output = Say(p, r, "ok", s), ![p].memory = @ \cup {s}]
  BY DEF CreateSession
<1>3. PICK l : l = [number |-> r.number, asks |-> r.asks, says |-> "ok", sess |-> s]
  OBVIOUS
<1>4. l \in WireLine /\ LineNames(l) /\ l.asks # "prompt" /\ s \in Sessions
  BY <1>1, <1>3 DEF WireLine, Request, LineNames, Sessions, Named
<1>5. PICK a : a = [adapters[p] EXCEPT !.asked = @ \ {r}, !.output = Append(@, l), !.memory = @ \cup {s}]
  OBVIOUS
<1>6. adapters' = [adapters EXCEPT ![p] = a]
  BY <1>1, <1>2, <1>3, <1>5 DEF Say, ClaudeInv, ClaudeTypes
<1>7. Append(adapters[p].output, l) \in Seq(WireLine) BY <1>1, <1>4 DEF Adapter
<1>8. /\ a \in Adapter /\ a.memory = adapters[p].memory \cup {s} /\ a.running = adapters[p].running
      /\ a.asked = adapters[p].asked \ {r} /\ a.output = Append(adapters[p].output, l)
  BY <1>1, <1>4, <1>5, <1>7 DEF Adapter
<1>9. WireNames(a) /\ WireTrue(p, a) BY <1>1, <1>4, <1>8, OtherLine
<1> QED BY <1>6, <1>8, <1>9, AdapterGoes DEF CreateSession

\* A prompt that somebody waits for is in a process once.
LEMMA OnePrompt ==
  ASSUME ClaudeInv, NEW p \in DOMAIN adapters, NEW x \in Begun(adapters[p]), NEW r \in Begun(adapters[p]),
         x.number = r.number, r.number \notin deserted
  PROVE  x = r
<1>1. x \in Request /\ r \in Request /\ x.asks = "prompt" /\ r.asks = "prompt" /\ x.sess \in Sessions /\ r.sess \in Sessions
  BY AskedTyped DEF Begun, WireNames
<1>2. Answerable(p, x) /\ Answerable(p, r) BY DEF ClaudeInv, OwnInv, WireTrue, Owned
<1>3. mailboxes[x.sess] \in HostCallers /\ mailboxes[r.sess] \in HostCallers
  BY <1>1, <1>2 DEF Answerable, ClaudeInv, ClaudeTypes
<1>4. /\ callers[mailboxes[x.sess]].at # "rest" /\ callers[mailboxes[x.sess]].sess = x.sess
      /\ callers[mailboxes[r.sess]].at # "rest" /\ callers[mailboxes[r.sess]].sess = r.sess
  BY <1>1, <1>2 DEF Answerable, ClaudeInv, OwnInv, Prompting
<1>5. mailboxes[x.sess] = mailboxes[r.sess]
  BY <1>2, <1>3, <1>4 DEF Answerable, ClaudeInv, OwnInv, OneNumber
<1>6. x.sess = r.sess BY <1>4, <1>5
<1> QED BY <1>1, <1>6 DEF Request

\* A line about a prompt it was asked.
LEMMA PromptLine ==
  ASSUME ClaudeInv, NEW p \in DOMAIN adapters, NEW r \in Begun(adapters[p]), NEW a \in Adapter, NEW says \in {"ok", "error", "update"},
         a.output = Append(adapters[p].output, [number |-> r.number, asks |-> r.asks, says |-> says, sess |-> r.sess]),
         \/ a.asked = adapters[p].asked \ {r} /\ a.running = adapters[p].running \cup {r} /\ says = "update"
         \/ a.asked = adapters[p].asked \ {r} /\ a.running = adapters[p].running /\ r \in adapters[p].asked
         \/ a.asked = adapters[p].asked /\ a.running = adapters[p].running \ {r} /\ r \in adapters[p].running
  PROVE  WireNames(a) /\ WireTrue(p, a)
<1>1. /\ adapters[p] \in Adapter /\ WireNames(adapters[p]) /\ WireTrue(p, adapters[p]) /\ r \in Request
      /\ r.asks = "prompt" /\ r.sess \in Sessions /\ Accounted(p, r) /\ Owned(p, r)
  BY AskedTyped DEF Begun, WireNames, WireTrue
<1>2. PICK l : l = [number |-> r.number, asks |-> r.asks, says |-> says, sess |-> r.sess]
  OBVIOUS
<1>3. l \in WireLine /\ LineNames(l) /\ l.asks = "prompt" /\ l.number = r.number /\ l.sess = r.sess /\ l.says = says
  BY <1>1, <1>2 DEF WireLine, Request, LineNames, Requests
<1>4. Accounted(p, l) /\ Owned(p, l) BY <1>1, <1>3 DEF Accounted, Owned, Answerable
<1> DEFINE b == adapters[p]
<1>5. /\ b.output \in Seq(WireLine)
      /\ DOMAIN a.output = 1 .. Len(b.output) + 1 /\ DOMAIN b.output = 1 .. Len(b.output) /\ Len(b.output) \in Nat
      /\ a.output[Len(b.output) + 1] = l /\ \A i \in DOMAIN b.output : a.output[i] = b.output[i]
  BY <1>1, <1>2 DEF Adapter
<1>6. Begun(a) \subseteq Begun(b) BY <1>1 DEF Begun
<1>7. WireNames(a) BY <1>1, <1>6, <1>3, <1>5 DEF Begun, WireNames
<1>8. ASSUME NEW i \in DOMAIN a.output PROVE LastWord(a, i)
  BY <1>1, <1>5, <1>3, <1>6, OnePrompt DEF WireTrue, LastWord, Begun
<1>9. \A i \in DOMAIN a.output : a.output[i].asks = "prompt" =>
       Accounted(p, a.output[i]) /\ (a.output[i].says = "update" => Owned(p, a.output[i]))
  BY <1>1, <1>4, <1>5 DEF WireTrue
<1>10. \A x \in a.asked \cap a.running : x.asks = "prompt" => x.number \in deserted
  BY <1>1 DEF WireTrue
<1>11. \A x \in Begun(a) : Accounted(p, x) /\ Owned(p, x) BY <1>1, <1>6 DEF WireTrue
<1> QED BY <1>7, <1>8, <1>9, <1>10, <1>11 DEF WireTrue

\* A process refuses a request.
LEMMA RefuseRequestSafe ==
  ASSUME ClaudeInv, UNCHANGED plan, NEW p \in DOMAIN adapters, NEW r, RefuseRequest(p, r) PROVE ClaudeInv'
<1>1. /\ adapters[p] \in Adapter /\ WireNames(adapters[p]) /\ WireTrue(p, adapters[p]) /\ r \in Request /\ r \in adapters[p].asked
  BY AskedTyped DEF RefuseRequest
<1>2. PICK l : l = [number |-> r.number, asks |-> r.asks, says |-> "error", sess |-> r.sess]
  OBVIOUS
<1>3. l \in WireLine /\ (r.asks # "prompt" => LineNames(l) /\ l.asks # "prompt")
  BY <1>1, <1>2 DEF WireLine, Request, LineNames
<1>4. PICK a : a = [adapters[p] EXCEPT !.asked = @ \ {r}, !.output = Append(@, l)]
  OBVIOUS
<1>5. adapters' = [adapters EXCEPT ![p] = a]
  BY <1>1, <1>2, <1>4 DEF RefuseRequest, Say, ClaudeInv, ClaudeTypes
<1>6. Append(adapters[p].output, l) \in Seq(WireLine) BY <1>1, <1>3 DEF Adapter
<1>7. /\ a \in Adapter /\ a.memory = adapters[p].memory /\ a.running = adapters[p].running
      /\ a.asked = adapters[p].asked \ {r} /\ a.output = Append(adapters[p].output, l)
  BY <1>1, <1>4, <1>6 DEF Adapter
<1>8. WireNames(a) /\ WireTrue(p, a)
  BY <1>1, <1>3, <1>7, OtherLine, <1>2, PromptLine DEF Begun
<1> QED BY <1>5, <1>7, <1>8, AdapterGoes DEF RefuseRequest

\* A process runs a prompt, and ends it.
LEMMA RunPromptSafe ==
  ASSUME ClaudeInv, UNCHANGED plan, NEW p \in DOMAIN adapters, NEW r, RunPrompt(p, r) PROVE ClaudeInv'
<1>1. adapters[p] \in Adapter /\ r.asks = "prompt" /\ r \in adapters[p].asked \cup adapters[p].running /\ r \in Request
  BY AskedTyped DEF RunPrompt
<1>2. r \in Begun(adapters[p]) BY <1>1 DEF Begun
<1>3. CASE /\ r \in adapters[p].asked
           /\ adapters' = [adapters EXCEPT ![p].asked = @ \ {r}, ![p].running = @ \cup {r}, ![p].output = Say(p, r, "update", r.sess)]
  <2>1. PICK l : l = [number |-> r.number, asks |-> r.asks, says |-> "update", sess |-> r.sess]
    OBVIOUS
  <2>2. PICK a : a = [adapters[p] EXCEPT !.asked = @ \ {r}, !.running = @ \cup {r}, !.output = Append(@, l)]
    OBVIOUS
  <2>3. adapters' = [adapters EXCEPT ![p] = a]
    BY <1>1, <1>3, <2>1, <2>2 DEF Say, ClaudeInv, ClaudeTypes
  <2>4. l \in WireLine BY <1>1, <2>1 DEF WireLine, Request
  <2>5. Append(adapters[p].output, l) \in Seq(WireLine) BY <1>1, <2>4 DEF Adapter
  <2>6. /\ a \in Adapter /\ a.memory = adapters[p].memory /\ a.running = adapters[p].running \cup {r}
        /\ a.asked = adapters[p].asked \ {r} /\ a.output = Append(adapters[p].output, l)
    BY <1>1, <2>2, <2>5 DEF Adapter
  <2>7. WireNames(a) /\ WireTrue(p, a) BY <1>2, <2>1, <2>6, PromptLine
  <2> QED BY <2>3, <2>6, <2>7, AdapterGoes DEF RunPrompt
<1>4. CASE /\ r \in adapters[p].running
           /\ adapters' = [adapters EXCEPT ![p].running = @ \ {r}, ![p].output = Say(p, r, "ok", r.sess)]
  <2>1. PICK l : l = [number |-> r.number, asks |-> r.asks, says |-> "ok", sess |-> r.sess]
    OBVIOUS
  <2>2. PICK a : a = [adapters[p] EXCEPT !.running = @ \ {r}, !.output = Append(@, l)]
    OBVIOUS
  <2>3. adapters' = [adapters EXCEPT ![p] = a]
    BY <1>1, <1>4, <2>1, <2>2 DEF Say, ClaudeInv, ClaudeTypes
  <2>4. l \in WireLine BY <1>1, <2>1 DEF WireLine, Request
  <2>5. Append(adapters[p].output, l) \in Seq(WireLine) BY <1>1, <2>4 DEF Adapter
  <2>6. /\ a \in Adapter /\ a.memory = adapters[p].memory /\ a.running = adapters[p].running \ {r}
        /\ a.asked = adapters[p].asked /\ a.output = Append(adapters[p].output, l)
    BY <1>1, <2>2, <2>5 DEF Adapter
  <2>7. WireNames(a) /\ WireTrue(p, a) BY <1>2, <1>4, <2>1, <2>6, PromptLine
  <2> QED BY <2>3, <2>6, <2>7, AdapterGoes DEF RunPrompt
<1> QED BY <1>3, <1>4 DEF RunPrompt

--------------------
(* Starting the process.                                                   *)

\* A caller goes on with the start.
LEMMA StartGoes ==
  ASSUME ClaudeInv, NEW k \in HostCallers, NEW c \in Caller, callers' = [callers EXCEPT ![k] = c], NamesSession(c),
         UNCHANGED <<plan, bindings, resumed, mailboxes, revisions, hostOps, misstamped, deserted, prompted>>,
         runtime' \in Runtime, adapters' \in Seq(Adapter), Grows, RunInv', Loads(c)',
         ~Prompting(callers[k]), ~Prompting(c), c.text = {},
         c.at # "rest" => callers[k].at # "rest" /\ c.number = callers[k].number,
         \A p \in DOMAIN adapters' : WireNames(adapters'[p]) /\ WireTrue(p, adapters'[p]),
         \/ runtime'.process \in {runtime.process, 0}
         \/ Begun(adapters'[runtime'.process]) = {} /\ adapters'[runtime'.process].output = << >>
  PROVE  ClaudeInv'
<1>0. ClaudeTypes /\ NamesInv /\ RunInv /\ LoadInv /\ OwnInv BY DEF ClaudeInv
<1>1. /\ callers' \in [HostCallers -> Caller] /\ callers'[k] = c
      /\ \A j \in HostCallers : j # k => callers'[j] = callers[j]
  BY <1>0, OneCaller
<1>2. ClaudeTypes' BY <1>0, <1>1 DEF ClaudeTypes
<1>3. ASSUME NEW j \in HostCallers
      PROVE  /\ (SeenBefore(callers'[j].seen) /\ Loads(callers'[j])) \/ Loads(callers[j])'
             /\ Aside(j) \/ Waits(j)
             /\ NamesSession(callers'[j])
  BY <1>1, <1>0, OthersAside DEF Aside, Loads, InStep, Settled, Has, RunInv, LoadInv, NamesInv
<1>4. NamesInv' BY <1>3 DEF NamesInv, NamesSession, WireNames, LineNames
<1>5. LoadInv'
  BY <1>0, <1>3, <1>1, LoadKeeps DEF LoadInv, ResumedBeforePrompt, NamesSession
<1>6. OwnInv' BY <1>0, <1>3, OwnKeeps
<1> QED BY <1>2, <1>4, <1>5, <1>6 DEF ClaudeInv

\* The caller after the start, with the process it saw.
WentOnward(k, n) == [callers EXCEPT ![k].at = Onward(callers[k].does), ![k].seen = n]
IsOnward(k, n, c) ==
  /\ callers' = [callers EXCEPT ![k] = c]
  /\ c.seen = n /\ c.number = callers[k].number /\ c.text = {} /\ c.at # "rest"
  /\ NamesSession(c) /\ ~Leads(c) /\ ~Prompting(c) /\ c.gen = callers[k].gen /\ c.at \in {"bound", "unbind", "list"}

\* Where an operation goes once the process runs.
LEMMA OnwardTyped ==
  ASSUME ClaudeInv, NEW k \in HostCallers, callers[k].at # "rest", ~Prompting(callers[k]), NEW n \in Nat, callers' = WentOnward(k, n)
  PROVE  \E c \in Caller : IsOnward(k, n, c)
<1>0. PICK c : c = [callers[k] EXCEPT !.at = Onward(callers[k].does), !.seen = n]
  OBVIOUS
<1>1. /\ Onward(callers[k].does) \in {"bound", "unbind", "list"}
      /\ Onward(callers[k].does) = "list" => callers[k].does # "chat"
      /\ Onward(callers[k].does) = "bound" => callers[k].does = "chat"
  BY DEF Onward
<1>2. callers[k] \in Caller /\ callers \in [HostCallers -> Caller] /\ callers[k].conv \in Conversations /\ callers[k].text = {}
  BY DEF ClaudeInv, ClaudeTypes, NamesInv, NamesSession, OwnInv, CallerOwns
<1>3. callers' = [callers EXCEPT ![k] = c] BY <1>0, <1>2 DEF WentOnward
<1>4. /\ c \in Caller /\ c.at = Onward(callers[k].does) /\ c.seen = n /\ c.gen = callers[k].gen
      /\ c.conv = callers[k].conv /\ c.does = callers[k].does /\ c.number = callers[k].number /\ c.text = {}
  BY <1>0, <1>1, <1>2 DEF Caller, AdapterSteps
<1>5. NamesSession(c) /\ ~Leads(c) /\ ~Prompting(c)
  BY <1>1, <1>2, <1>4 DEF NamesSession, Leads, Prompting
<1> QED BY <1>1, <1>3, <1>4, <1>5 DEF IsOnward

\* A caller finds the process there, follows a start or leads one (ensureStarted, Start).
LEMMA BeginStartSafe == ASSUME ClaudeInv, UNCHANGED plan, NEW k \in HostCallers, BeginStart(k) PROVE ClaudeInv'
<1>0. /\ callers[k].at = "begin" /\ callers[k] \in Caller /\ ~Prompting(callers[k]) /\ callers[k].conv \in Conversations
      /\ callers[k].text = {} /\ callers[k].gen <= runtime.generation /\ SeenBefore(callers[k].seen) /\ runtime \in Runtime
      /\ UNCHANGED <<adapters, bindings, resumed, mailboxes, revisions, hostOps, misstamped, deserted, prompted>>
      /\ ClaudeTypes /\ NamesInv /\ RunInv /\ LoadInv /\ OwnInv
  BY DEF BeginStart, Prompting, ClaudeInv, ClaudeTypes, NamesInv, NamesSession, LoadInv, Loads, RunInv, OwnInv, CallerOwns
<1>1. CASE RuntimeStarted /\ callers' = [callers EXCEPT ![k].at = Onward(callers[k].does), ![k].seen = runtime.process] /\ UNCHANGED runtime
  <2>1. PICK n : n = runtime.process OBVIOUS
  <2>2. n \in Nat /\ SeenBefore(n)
    BY <1>0, <1>1, <2>1 DEF Runtime, SeenBefore, RunInv, RuntimeTrue, RuntimeStarted, ClaudeTypes
  <2>3. PICK c \in Caller : IsOnward(k, n, c)
    BY <1>0, <1>1, <2>1, <2>2, OnwardTyped DEF WentOnward
  <2>4. Loads(c) BY <1>0, <2>3 DEF Loads, IsOnward
  <2> QED BY <1>0, <1>1, <2>2, <2>3, <2>4, CallerGoes DEF IsOnward
<1>2. CASE callers' = [callers EXCEPT ![k].at = "await", ![k].awaits = runtime.starts] /\ UNCHANGED runtime
  <2>1. PICK c : c = [callers[k] EXCEPT !.at = "await", !.awaits = runtime.starts]
    OBVIOUS
  <2>2. runtime.starts \in Nat BY <1>0 DEF Runtime
  <2>3. /\ callers' = [callers EXCEPT ![k] = c]
        /\ c \in Caller /\ c.at = "await" /\ c.seen = callers[k].seen /\ c.number = callers[k].number /\ c.text = {}
        /\ c.conv = callers[k].conv /\ c.gen = callers[k].gen
    BY <1>0, <1>2, <2>1, <2>2 DEF Caller, AdapterSteps, ClaudeTypes
  <2>4. Loads(c) /\ NamesSession(c) /\ ~Leads(c) /\ ~Prompting(c)
    BY <1>0, <2>3 DEF Loads, NamesSession, Leads, Prompting
  <2> QED BY <1>0, <1>2, <2>3, <2>4, CallerGoes
<1>3. CASE ~runtime.starting /\ ~runtime.started /\ runtime' = StartBegun /\ callers' = Went(k, "launch")
  <2>1. PICK c : c = [callers[k] EXCEPT !.at = "launch"] OBVIOUS
  <2>2. "launch" \in AdapterSteps \ {"rest"} BY DEF AdapterSteps
  <2>3. /\ callers' = [callers EXCEPT ![k] = c]
        /\ c \in Caller /\ c.at = "launch" /\ c.seen = callers[k].seen /\ c.gen = callers[k].gen
        /\ c.conv = callers[k].conv /\ c.number = callers[k].number /\ c.text = {}
    BY <1>0, <1>3, <2>1, <2>2, StepTyped
  <2>4. /\ runtime' \in Runtime /\ runtime'.starting = TRUE /\ runtime'.process = runtime.process /\ runtime'.started = runtime.started
        /\ runtime'.of = runtime.of /\ runtime'.generation = runtime.generation /\ runtime'.ready = runtime.ready
    <3>1. runtime.starts + 1 \in Nat BY <1>0 DEF Runtime
    <3>2. PICK n : n = runtime.starts + 1 OBVIOUS
    <3>3. runtime' = [runtime EXCEPT !.starting = TRUE, !.failed = FALSE, !.starts = n]
      BY <1>0, <1>3, <3>2 DEF StartBegun, Runtime
    <3> QED BY <1>0, <3>1, <3>2, <3>3 DEF Runtime
  <2>5. runtime.process = 0 BY <1>0, <1>3 DEF RunInv, RuntimeTrue
  <2>6. NamesSession(c) /\ ~Prompting(c) /\ Grows /\ Loads(c)'
    BY <1>0, <2>3, <2>4 DEF NamesSession, Prompting, Grows, Loads
  <2>7. RunInv'
    BY <1>0, <2>4, <2>5, <2>3, OneCaller, <1>3 DEF RunInv, RuntimeTrue, SeenBefore, LeaderTrue, Leads
  <2>8. adapters' \in Seq(Adapter) /\ \A p \in DOMAIN adapters' : WireNames(adapters'[p]) /\ WireTrue(p, adapters'[p])
    BY <1>0 DEF ClaudeTypes, NamesInv, OwnInv
  <2> QED BY <1>0, <2>3, <2>4, <2>6, <2>7, <2>8, StartGoes
<1> QED BY <1>1, <1>2, <1>3 DEF BeginStart

\* The leader of a start launches the process, or cannot (launchACPSubprocess).
LEMMA LaunchAdapterSafe == ASSUME ClaudeInv, UNCHANGED plan, NEW k \in HostCallers, LaunchAdapter(k) PROVE ClaudeInv'
<1>0. /\ callers[k].at = "launch" /\ callers[k] \in Caller /\ ~Prompting(callers[k]) /\ callers[k].conv \in Conversations
      /\ callers[k].text = {} /\ callers[k].gen <= runtime.generation /\ SeenBefore(callers[k].seen) /\ runtime \in Runtime
      /\ UNCHANGED <<bindings, resumed, mailboxes, revisions, hostOps, misstamped, deserted, prompted>>
      /\ ClaudeTypes /\ NamesInv /\ RunInv /\ LoadInv /\ OwnInv /\ adapters \in Seq(Adapter) /\ Len(adapters) \in Nat
  BY DEF LaunchAdapter, Prompting, ClaudeInv, ClaudeTypes, NamesInv, NamesSession, LoadInv, Loads, RunInv, OwnInv, CallerOwns
<1>1. Leads(callers[k]) /\ runtime.starting /\ runtime.process = 0 /\ \A j \in HostCallers : j # k => ~Leads(callers[j])
  BY <1>0 DEF Leads, RunInv, LeaderTrue
<1>2. CASE /\ adapters' = Append(adapters, [Empty EXCEPT !.asked = {[number |-> callers[k].number, asks |-> "initialize", sess |-> NoSession]}])
           /\ runtime' = [runtime EXCEPT !.started = TRUE, !.process = Len(adapters) + 1]
           /\ callers' = [callers EXCEPT ![k].at = "wait", ![k].asks = "initialize", ![k].got = "none", ![k].wrote = Len(adapters) + 1]
  <2>1. PICK n, c, r, a : /\ n = Len(adapters) + 1 /\ r = [number |-> callers[k].number, asks |-> "initialize", sess |-> NoSession]
                          /\ a = [Empty EXCEPT !.asked = {r}]
                          /\ c = [callers[k] EXCEPT !.at = "wait", !.asks = "initialize", !.got = "none", !.wrote = n]
    OBVIOUS
  <2>2. n \in Nat /\ n > 0 /\ r \in Request /\ r.asks = "initialize"
    BY <1>0, <2>1 DEF Request, Requests, Named, Caller
  <2>3. a \in Adapter /\ a.asked = {r} /\ a.running = {} /\ a.output = << >>
    <3>1. a = [alive |-> TRUE, memory |-> {}, asked |-> {r}, running |-> {}, output |-> << >>]
      BY <2>1 DEF Empty
    <3>2. << >> \in Seq(WireLine) OBVIOUS
    <3> QED BY <2>2, <3>1, <3>2 DEF Adapter
  <2>4. /\ c \in Caller /\ c.at = "wait" /\ c.asks = "initialize" /\ c.wrote = n /\ c.seen = callers[k].seen /\ c.gen = callers[k].gen
        /\ c.conv = callers[k].conv /\ c.number = callers[k].number /\ c.text = {}
    BY <1>0, <2>1, <2>2 DEF Caller, AdapterSteps, Requests
  <2>5. callers' = [callers EXCEPT ![k] = c] BY <1>0, <1>2, <2>1 DEF ClaudeTypes
  <2>6. /\ adapters' \in Seq(Adapter) /\ Len(adapters') = n /\ DOMAIN adapters' = DOMAIN adapters \cup {n}
        /\ adapters'[n] = a /\ \A p \in DOMAIN adapters : adapters'[p] = adapters[p]
    BY <1>2, <2>1, <1>0, <2>3
  <2>7. /\ runtime' \in Runtime /\ runtime'.starting = TRUE /\ runtime'.process = n /\ runtime'.started = TRUE
        /\ runtime'.of = runtime.of /\ runtime'.generation = runtime.generation /\ runtime'.ready = runtime.ready
    BY <1>0, <1>1, <1>2, <2>1, <2>2 DEF Runtime
  <2>8. Begun(a) = {} /\ WireNames(a) /\ WireTrue(n, a)
    BY <2>2, <2>3 DEF Begun, WireNames, WireTrue
  <2>9. \A p \in DOMAIN adapters' : WireNames(adapters'[p]) /\ WireTrue(p, adapters'[p])
    BY <1>0, <2>6, <2>8 DEF NamesInv, OwnInv
  <2>10. Grows BY <1>0, <2>1, <2>2, <2>6, <2>7 DEF Grows
  <2>11. NamesSession(c) /\ ~Prompting(c) /\ Loads(c)'
    BY <1>0, <2>4, <2>7 DEF NamesSession, Prompting, Loads
  <2>12. RunInv'
    <3>1. RuntimeTrue'
      BY <1>0, <2>1, <2>2, <2>6, <2>7 DEF RunInv, RuntimeTrue, SeenBefore, Runtime
    <3>2. callers'[k] = c /\ \A j \in HostCallers : j # k => callers'[j] = callers[j]
      BY <1>0, <2>4, <2>5, OneCaller
    <3>3. \A i, j \in HostCallers : Leads(callers[i])' /\ Leads(callers[j])' => i = j
      BY <1>1, <3>2 DEF Leads
    <3>4. ASSUME NEW j \in HostCallers PROVE LeaderTrue(callers[j])' /\ SeenBefore(callers[j].seen)'
      <4>1. callers[j].seen \in Nat /\ callers[j].seen <= Len(adapters) /\ callers'[j].seen = callers[j].seen
        BY <1>0, <2>4, <3>2 DEF RunInv, SeenBefore, ClaudeTypes, Caller
      <4>2. SeenBefore(callers[j].seen)' BY <1>0, <2>1, <2>6, <2>7, <4>1 DEF SeenBefore
      <4>3. LeaderTrue(callers[j])'
        BY <1>1, <2>2, <2>4, <2>6, <2>7, <3>2 DEF LeaderTrue, Leads
      <4> QED BY <4>2, <4>3
    <3> QED BY <3>1, <3>3, <3>4 DEF RunInv
  <2> QED BY <1>0, <2>3, <2>4, <2>5, <2>6, <2>7, <2>8, <2>9, <2>10, <2>11, <2>12, StartGoes
<1>3. CASE /\ runtime' = [runtime EXCEPT !.starting = FALSE, !.failed = TRUE, !.ended = runtime.starts]
           /\ callers' = Over(k) /\ UNCHANGED adapters
  <2>1. /\ runtime' \in Runtime /\ runtime'.starting = FALSE /\ runtime'.process = 0 /\ runtime'.started = runtime.started
        /\ runtime'.of = runtime.of /\ runtime'.generation = runtime.generation /\ runtime'.ready = runtime.ready
    BY <1>0, <1>1, <1>3 DEF Runtime
  <2>2. callers' = [callers EXCEPT ![k] = Resting] /\ Grows /\ Loads(Resting)'
    BY <1>0, <1>1, <1>3, <2>1, RestTyped DEF Over, Grows, Loads, Runtime
  <2>3. RunInv'
    <3>1. RuntimeTrue' BY <1>0, <1>1, <1>3, <2>1 DEF RunInv, RuntimeTrue, SeenBefore
    <3>2. callers'[k] = Resting /\ \A j \in HostCallers : j # k => callers'[j] = callers[j]
      BY <1>0, <2>2, RestTyped, OneCaller
    <3>3. \A j \in HostCallers : ~Leads(callers'[j]) BY <1>1, <3>2, RestTyped
    <3>4. \A j \in HostCallers : LeaderTrue(callers[j])' /\ SeenBefore(callers[j].seen)'
      BY <1>0, <1>3, <2>1, <3>2, <3>3, RestTyped DEF LeaderTrue, SeenBefore, RunInv, Leads
    <3> QED BY <3>1, <3>3, <3>4 DEF RunInv, Leads
  <2>4. adapters' \in Seq(Adapter) /\ \A p \in DOMAIN adapters' : WireNames(adapters'[p]) /\ WireTrue(p, adapters'[p])
    BY <1>0, <1>3 DEF ClaudeTypes, NamesInv, OwnInv
  <2> QED BY <1>0, <2>1, <2>2, <2>3, <2>4, RestTyped, StartGoes
<1> QED BY <1>2, <1>3 DEF LaunchAdapter

\* A handshake makes a generation (cacheAndValidateACPCapabilities).
LEMMA InitializedSafe == ASSUME ClaudeInv, UNCHANGED plan, NEW k \in HostCallers, Initialized(k) PROVE ClaudeInv'
<1>0. /\ callers[k].at = "wait" /\ callers[k].asks = "initialize" /\ callers[k] \in Caller /\ ~Prompting(callers[k])
      /\ callers[k].conv \in Conversations
      /\ callers[k].text = {} /\ callers[k].gen <= runtime.generation /\ runtime \in Runtime
      /\ UNCHANGED <<adapters, bindings, mailboxes, revisions, hostOps, misstamped, deserted, prompted>>
      /\ ClaudeTypes /\ NamesInv /\ RunInv /\ LoadInv /\ OwnInv /\ adapters \in Seq(Adapter) /\ Len(adapters) \in Nat
  BY DEF Initialized, Prompting, ClaudeInv, ClaudeTypes, NamesInv, NamesSession, LoadInv, Loads, RunInv, OwnInv, CallerOwns
<1>1. Leads(callers[k]) /\ runtime.starting /\ \A j \in HostCallers : j # k => ~Leads(callers[j])
  BY <1>0 DEF Leads, RunInv, LeaderTrue
<1>2. callers[k].wrote = Len(adapters) /\ Len(adapters) > 0
  BY <1>0, <1>1 DEF RunInv, LeaderTrue
<1>3. PICK n, w, c, of : /\ n = runtime.generation + 1 /\ w = callers[k].wrote /\ c = [callers[k] EXCEPT !.at = "started"]
                         /\ of = Append(runtime.of, w)
  OBVIOUS
<1>4. /\ n \in Nat /\ n > 0 /\ w \in Nat /\ of \in Seq(Nat) /\ Len(of) = n /\ of[n] = w /\ runtime.generation = n - 1
      /\ \A g \in 1 .. runtime.generation : g # n /\ of[g] = runtime.of[g]
  BY <1>0, <1>2, <1>3 DEF Runtime, RunInv, RuntimeTrue
<1>5. /\ runtime' \in Runtime /\ runtime'.starting = TRUE /\ runtime'.process = runtime.process /\ runtime'.started = runtime.started
      /\ runtime'.of = of /\ runtime'.generation = n /\ runtime'.ready = runtime.ready
  BY <1>0, <1>3, <1>1, <1>4 DEF Initialized, Runtime
<1>6. "started" \in AdapterSteps \ {"rest"} /\ callers[k].at # "rest"
  BY <1>0 DEF AdapterSteps
<1>7. /\ callers' = [callers EXCEPT ![k] = c]
      /\ c \in Caller /\ c.at = "started" /\ c.seen = callers[k].seen /\ c.gen = callers[k].gen /\ c.wrote = w
      /\ c.conv = callers[k].conv /\ c.number = callers[k].number /\ c.text = {}
  BY <1>0, <1>3, <1>6, StepTyped DEF Initialized
<1>8. callers' \in [HostCallers -> Caller] /\ callers'[k] = c /\ \A j \in HostCallers : j # k => callers'[j] = callers[j]
  BY <1>0, <1>7, OneCaller
<1>9. resumed' = [s \in Sessions |-> 0] BY DEF Initialized
<1>10. ClaudeTypes' BY <1>0, <1>5, <1>8, <1>9 DEF ClaudeTypes
<1>11. NamesSession(c) /\ ~Prompting(c) BY <1>0, <1>7 DEF NamesSession, Prompting
<1>12. NamesInv' BY <1>0, <1>8, <1>11 DEF NamesInv, NamesSession, WireNames, LineNames
<1>13. RunInv'
  BY <1>0, <1>2, <1>3, <1>4, <1>1, <1>5, <1>8, <1>7 DEF RunInv, RuntimeTrue, SeenBefore, Leads, Made, LeaderTrue
<1>14. LoadInv'
  <2>1. ASSUME NEW j \in HostCallers PROVE Loads(callers[j])'
    <3>1. callers'[j].gen \in Nat /\ callers'[j].gen < n
      <4>1. callers[j].gen \in Nat /\ callers[j].gen <= runtime.generation /\ runtime.generation \in Nat
        BY <1>0 DEF LoadInv, Loads, ClaudeTypes, Caller, Runtime
      <4> QED BY <1>4, <1>7, <1>8, <4>1
    <3>2. callers'[j].seen = callers[j].seen /\ (runtime.process # 0 => callers[j].seen < runtime.process) /\ callers[j].seen \in Nat
      BY <1>0, <1>1, <1>7, <1>8 DEF RunInv, SeenBefore, ClaudeTypes, Caller
    <3>3. ~InStep(callers[j])' BY <1>0, <1>5, <3>2 DEF InStep, Runtime
    <3> QED BY <1>4, <1>5, <3>1, <3>3 DEF Loads
  <2>2. ASSUME NEW v \in Conversations PROVE BoundLoaded(v)'
    <3>1. bindings[v].gen \in Nat /\ bindings[v].gen <= runtime.generation /\ bindings' = bindings
      BY <1>0 DEF LoadInv, BoundLoaded, ClaudeTypes, Binding
    <3>2. bindings[v].gen > 0 => of[bindings[v].gen] = runtime.of[bindings[v].gen]
      BY <1>4, <3>1
    <3> QED BY <1>0, <1>4, <1>5, <3>1, <3>2 DEF BoundLoaded, Has, LoadInv
  <2>3. \A s \in Sessions : StampTrue(s)' BY <1>4, <1>5, <1>9 DEF StampTrue
  <2> QED BY <1>0, <2>1, <2>2, <2>3 DEF LoadInv, ResumedBeforePrompt
<1>15. OwnInv'
  BY <1>0, <1>7, <1>8, <1>11, OthersAside, <1>5, OwnKeeps DEF Aside, NamesInv, OwnInv
<1> QED BY <1>10, <1>12, <1>13, <1>14, <1>15 DEF ClaudeInv

\* A start ends, with a process or without (finishACPStart, failACPStartup).
LEMMA FinishStartSafe == ASSUME ClaudeInv, UNCHANGED plan, NEW k \in HostCallers, FinishStart(k) PROVE ClaudeInv'
<1>0. /\ callers[k].at \in {"started", "wait"} /\ (callers[k].at = "wait" => callers[k].asks = "initialize") /\ callers[k] \in Caller
      /\ ~Prompting(callers[k]) /\ callers[k].conv \in Conversations
      /\ callers[k].text = {} /\ callers[k].gen <= runtime.generation /\ runtime \in Runtime
      /\ UNCHANGED <<bindings, resumed, mailboxes, revisions, hostOps, misstamped, deserted, prompted>>
      /\ ClaudeTypes /\ NamesInv /\ RunInv /\ LoadInv /\ OwnInv /\ adapters \in Seq(Adapter) /\ Len(adapters) \in Nat
  BY DEF FinishStart, Prompting, ClaudeInv, ClaudeTypes, NamesInv, NamesSession, LoadInv, Loads, RunInv, OwnInv, CallerOwns
<1>1. Leads(callers[k]) /\ runtime.starting /\ \A j \in HostCallers : j # k => ~Leads(callers[j])
  BY <1>0 DEF Leads, RunInv, LeaderTrue
<1>2. callers[k].wrote = Len(adapters) /\ Len(adapters) > 0 /\ (callers[k].at = "started" => Made(callers[k].wrote))
  BY <1>0, <1>1 DEF RunInv, LeaderTrue
<1>3. PICK bad \in BOOLEAN : bad = (callers[k].at = "wait" \/ ~runtime.started) OBVIOUS
<1>4. PICK w, pr : w = callers[k].wrote /\ pr = IF bad THEN 0 ELSE runtime.process
  OBVIOUS
<1>5. w \in Nat /\ pr \in Nat /\ runtime.starts \in Nat /\ (bad => pr = 0) /\ (~bad => pr = runtime.process)
  BY <1>0, <1>2, <1>4 DEF Runtime
<1>6. /\ runtime' \in Runtime /\ runtime'.starting = FALSE /\ runtime'.process = pr /\ runtime'.started = ~bad
      /\ runtime'.of = runtime.of /\ runtime'.generation = runtime.generation /\ runtime'.ready = w
  BY <1>0, <1>3, <1>4, <1>5 DEF FinishStart, Runtime
<1>7. /\ adapters' \in Seq(Adapter) /\ Len(adapters') = Len(adapters)
      /\ \A q \in DOMAIN adapters : adapters[q].memory \subseteq adapters'[q].memory
      /\ \A q \in DOMAIN adapters' : WireNames(adapters'[q]) /\ WireTrue(q, adapters'[q])
  <2>1. CASE adapters' = adapters BY <1>0, <2>1 DEF NamesInv, OwnInv
  <2>2. CASE adapters' = Killed(runtime.process)
    <3>1. PICK p : p = runtime.process OBVIOUS
    <3>2. p \in DOMAIN adapters \cup {0} BY <1>0, <3>1 DEF RunInv, RuntimeTrue
    <3> QED BY <2>2, <3>1, <3>2, KilledTyped
  <2> QED BY <2>1, <2>2 DEF FinishStart
<1>8. Grows BY <1>0, <1>5, <1>6, <1>7 DEF Grows
<1>9. ~bad => runtime.process = Len(adapters) /\ Made(runtime.process)
  BY <1>0, <1>2, <1>3 DEF RunInv, RuntimeTrue
<1>10. RuntimeTrue'
  BY <1>5, <1>6, <1>9, <1>2, <1>0, <1>4, <1>7 DEF Made, SeenBefore, RunInv, RuntimeTrue
<1>11. ASSUME NEW c \in Caller, callers' = [callers EXCEPT ![k] = c], ~Leads(c), c.seen \in {0, w}
       PROVE  RunInv'
  <2>1. callers'[k] = c /\ \A j \in HostCallers : j # k => callers'[j] = callers[j]
    BY <1>0, <1>11, OneCaller
  <2>2. \A j \in HostCallers : ~Leads(callers'[j]) BY <1>1, <1>11, <2>1
  <2>3. ASSUME NEW j \in HostCallers PROVE LeaderTrue(callers[j])' /\ SeenBefore(callers[j].seen)'
    BY <1>0, <1>2, <1>4, <1>11, <2>1, <1>6, <1>7, <2>2 DEF RunInv, SeenBefore, LeaderTrue, Leads
  <2> QED BY <1>10, <2>2, <2>3 DEF RunInv, Leads
<1>12. runtime'.process \in {runtime.process, 0} BY <1>5, <1>6
<1>13. CASE bad
  <2>1. callers' = [callers EXCEPT ![k] = Resting] BY <1>3, <1>13 DEF FinishStart, Over
  <2>2. Loads(Resting)' /\ RunInv'
    <3>1. RunInv' BY <1>11, <2>1, RestTyped
    <3>2. Loads(Resting)' BY <1>0, <1>6, RestTyped DEF Loads, Runtime
    <3> QED BY <3>1, <3>2
  <2> QED BY <1>0, <1>6, <1>7, <1>8, <1>12, <2>1, <2>2, RestTyped, StartGoes
<1>14. CASE ~bad
  <2>1. callers' = WentOnward(k, w) /\ callers[k].at # "rest" /\ ~Prompting(callers[k])
    BY <1>0, <1>3, <1>4, <1>14 DEF FinishStart, WentOnward
  <2>2. PICK c \in Caller : IsOnward(k, w, c) BY <1>5, <2>1, OnwardTyped
  <2>3. Loads(c)' BY <1>0, <1>6, <2>2 DEF Loads, IsOnward
  <2>4. RunInv' BY <1>11, <2>2 DEF IsOnward
  <2> QED BY <1>0, <1>6, <1>7, <1>8, <1>12, <2>1, <2>2, <2>3, <2>4, StartGoes DEF IsOnward
<1> QED BY <1>13, <1>14

--------------------
(* Operations that begin, prompts, and the lines that are read.            *)

\* A step that starts no process, given that prompts stay owned.
LEMMA Together ==
  ASSUME ClaudeInv, UNCHANGED <<plan, runtime, resumed, misstamped>>,
         revisions' \in Nat, hostOps' \in Nat, mailboxes' \in [Sessions -> HostCallers \cup {NoCaller}],
         bindings' \in [Conversations -> Binding], callers' \in [HostCallers -> Caller],
         adapters' \in Seq(Adapter), Len(adapters') = Len(adapters),
         \A p \in DOMAIN adapters : adapters[p].memory \subseteq adapters'[p].memory,
         \A v \in Conversations : SameBinding(v) \/ (BoundLoaded(v)' /\ Settled(v)'),
         \A j \in HostCallers :
           /\ NamesSession(callers'[j]) /\ SeenBefore(callers'[j].seen) /\ Loads(callers'[j])
           /\ Leads(callers'[j]) => Leads(callers[j]) /\ callers'[j].at = callers[j].at /\ callers'[j].wrote = callers[j].wrote,
         \A p \in DOMAIN adapters' : WireNames(adapters'[p]),
         ResumedBeforePrompt', OwnInv'
  PROVE  ClaudeInv'
<1>0. ClaudeTypes /\ NamesInv /\ RunInv /\ LoadInv /\ OwnInv BY DEF ClaudeInv
<1>1. ClaudeTypes' BY <1>0 DEF ClaudeTypes
<1>2. NamesInv' BY DEF NamesInv, NamesSession, WireNames, LineNames
<1>3. RunInv' BY <1>0, RunKeeps DEF ClaudeTypes
<1>4. LoadInv' BY <1>0, LoadKeeps DEF Grows, NamesSession
<1> QED BY <1>1, <1>2, <1>3, <1>4 DEF ClaudeInv

\* What a caller that does not act shows.
LEMMA Idle ==
  ASSUME ClaudeInv, NEW j \in HostCallers, callers'[j] = callers[j]
  PROVE  /\ NamesSession(callers'[j]) /\ SeenBefore(callers'[j].seen) /\ Loads(callers'[j])
         /\ Leads(callers'[j]) => Leads(callers[j]) /\ callers'[j].at = callers[j].at /\ callers'[j].wrote = callers[j].wrote
BY DEF ClaudeInv, NamesInv, RunInv, LoadInv

\* The next operation of the plan is one of the kinds there are.
LEMMA OpTyped ==
  ASSUME ClaudeInv, hostOps < Len(plan)
  PROVE  plan[hostOps + 1] \in [does : {"chat", "use", "new", "rename", "clear"}, conv : Conversations, sess : Named]
<1>1. plan \in Seq([does : {"chat", "use", "new", "rename", "clear"}, conv : Conversations, sess : Saved \cup Unused \cup {"no session"}])
  BY ClaudeAssumption DEF ClaudeInv, ClaudeTypes
<1>2. PICK S : S = [does : {"chat", "use", "new", "rename", "clear"}, conv : Conversations, sess : Named]
  OBVIOUS
<1>3. plan \in Seq(S) BY <1>1, <1>2 DEF Named, Sessions, NoSession
<1>4. hostOps + 1 \in 1 .. Len(plan) BY <1>3 DEF ClaudeInv, ClaudeTypes
<1>5. plan[hostOps + 1] \in S BY <1>3, <1>4
<1> QED BY <1>2, <1>5

\* An operation begins: its number is new to every process.
LEMMA BeginOpSafe == ASSUME ClaudeInv, UNCHANGED plan, NEW k \in HostCallers, BeginOp(k) PROVE ClaudeInv'
<1>0. ClaudeTypes /\ NamesInv /\ RunInv /\ LoadInv /\ OwnInv /\ hostOps \in Nat /\ revisions \in Nat
  BY DEF ClaudeInv, ClaudeTypes
<1>1. PICK op, n, rev : /\ op = plan[hostOps + 1] /\ n = hostOps + 1
                        /\ rev = IF op.does = "use" THEN revisions + 1 ELSE 0
  OBVIOUS
<1>2. op \in [does : {"chat", "use", "new", "rename", "clear"}, conv : Conversations, sess : Named] /\ op.does # "clear"
  BY <1>1, OpTyped DEF BeginOp
<1>3. n \in Nat /\ n > hostOps /\ hostOps' = n /\ rev \in Nat /\ revisions + 1 \in Nat /\ revisions' \in Nat
  BY <1>0, <1>1 DEF BeginOp
<1>4. PICK c : c = [Resting EXCEPT !.at = "begin", !.does = op.does, !.conv = op.conv, !.sess = op.sess, !.number = n, !.rev = rev]
  OBVIOUS
<1>5. c \in Caller /\ c.at = "begin" /\ c.conv \in Conversations /\ c.gen = 0 /\ c.number = n /\ c.seen = 0 /\ c.text = {}
  BY <1>2, <1>3, <1>4, RestTyped DEF Caller, AdapterSteps
<1>6. callers' = [callers EXCEPT ![k] = c] /\ callers[k] = Resting
  BY <1>1, <1>4, Zenon DEF BeginOp
<1>7. /\ callers' \in [HostCallers -> Caller] /\ callers'[k] = c
      /\ \A j \in HostCallers : j # k => callers'[j] = callers[j]
  BY <1>0, <1>5, <1>6, OneCaller
<1>8. UNCHANGED <<runtime, adapters, resumed, mailboxes, misstamped, deserted, prompted>>
  BY DEF BeginOp
<1>9. bindings' \in [Conversations -> Binding] /\ \A v \in Conversations : SameBinding(v)
  <2>1. CASE UNCHANGED bindings BY <1>0, <2>1 DEF SameBinding, ClaudeTypes
  <2>2. CASE bindings' = [bindings EXCEPT ![op.conv].rev = revisions + 1]
    <3>1. PICK b : b = [bindings[op.conv] EXCEPT !.rev = revisions + 1] OBVIOUS
    <3>2. bindings[op.conv] \in Binding /\ bindings \in [Conversations -> Binding] /\ op.conv \in Conversations
      BY <1>0, <1>2 DEF ClaudeTypes
    <3>3. b \in Binding /\ b.sess = bindings[op.conv].sess /\ b.gen = bindings[op.conv].gen
      BY <1>3, <3>1, <3>2 DEF Binding
    <3>4. bindings' = [bindings EXCEPT ![op.conv] = b] BY <2>2, <3>1, <3>2
    <3> QED BY <3>2, <3>3, <3>4 DEF SameBinding
  <2> QED BY <1>1, <2>1, <2>2 DEF BeginOp
<1>10. NamesSession(c) /\ ~Leads(c) /\ ~Prompting(c) /\ SeenBefore(c.seen) /\ Loads(c)
  BY <1>0, <1>5, SeenStays DEF NamesSession, Leads, Prompting, Loads, ClaudeTypes, Runtime
<1>11. ASSUME NEW j \in HostCallers
       PROVE  /\ NamesSession(callers'[j]) /\ SeenBefore(callers'[j].seen) /\ Loads(callers'[j])
              /\ Leads(callers'[j]) => Leads(callers[j]) /\ callers'[j].at = callers[j].at /\ callers'[j].wrote = callers[j].wrote
  BY <1>7, <1>10, Idle
<1>12. OwnInv'
  <2>1. \A s \in Sessions : mailboxes[s] # NoCaller => mailboxes[s] \in HostCallers \ {k}
    BY <1>0, <1>6, RestTyped DEF ClaudeTypes, OwnInv
  <2>2. (\A s \in Sessions : mailboxes[s] # NoCaller => Prompting(callers[mailboxes[s]]) /\ callers[mailboxes[s]].sess = s)'
    BY <1>0, <1>7, <1>8, <2>1 DEF OwnInv, Prompting
  <2>3. \A j \in HostCallers : j # k /\ callers[j].at # "rest" => callers[j].number \in Nat /\ callers[j].number <= hostOps
    BY <1>0 DEF OwnInv, CallerOwns, ClaudeTypes, Caller
  <2>4. OneNumber' BY <1>0, <1>3, <1>5, <1>7, <2>3 DEF OwnInv, OneNumber
  <2>5. ASSUME NEW j \in HostCallers PROVE CallerOwns(j)'
    BY <1>0, <1>3, <1>5, <1>7, <1>8, <1>10, <2>3 DEF CallerOwns, OwnInv, Prompting
  <2>6. PromptsStay
    BY <1>3, <1>5, <1>6, <1>7, RestTyped, <1>0, OthersAside DEF Begins, PromptsStay, Waits
  <2>7. \A p \in DOMAIN adapters' : WireTrue(p, adapters[p])'
    BY <1>0, <1>3, <1>8, <2>6, WiresStay DEF ClaudeTypes, NamesInv, OwnInv
  <2>8. \A m \in deserted : m \in Nat /\ m <= n BY <1>0, <1>3 DEF OwnInv
  <2> QED BY <1>3, <1>8, <2>2, <2>4, <2>5, <2>7, <2>8 DEF OwnInv
<1>13. ResumedBeforePrompt' /\ (\A p \in DOMAIN adapters' : WireNames(adapters'[p]))
  BY <1>0, <1>8 DEF LoadInv, ResumedBeforePrompt, NamesInv
<1> QED BY <1>0, <1>3, <1>7, <1>8, <1>9, <1>11, <1>12, <1>13, Together DEF ClaudeTypes

\* A conversation is left without a session.
LEMMA ClearSessionSafe == ASSUME ClaudeInv, UNCHANGED plan, ClearSession PROVE ClaudeInv'
<1>0. ClaudeTypes /\ NamesInv /\ RunInv /\ LoadInv /\ OwnInv /\ hostOps \in Nat /\ revisions \in Nat /\ runtime.generation \in Nat
  BY DEF ClaudeInv, ClaudeTypes, Runtime
<1>1. hostOps' \in Nat /\ hostOps' >= hostOps /\ revisions + 1 \in Nat /\ revisions' \in Nat
  BY <1>0 DEF ClearSession
<1>2. UNCHANGED <<runtime, adapters, resumed, mailboxes, callers, misstamped, deserted, prompted>>
  BY DEF ClearSession
<1>3. PICK v, b : v = plan[hostOps + 1].conv /\ b = [sess |-> NoSession, gen |-> 0, rev |-> revisions + 1]
  OBVIOUS
<1>4. v \in Conversations BY <1>3, OpTyped DEF ClearSession
<1>5. b \in Binding /\ b.sess = NoSession /\ b.gen = 0 BY <1>1, <1>3 DEF Binding, Named
<1>6. bindings' = [bindings EXCEPT ![v] = b] BY <1>3 DEF ClearSession
<1>7. bindings' \in [Conversations -> Binding] /\ bindings'[v] = b /\ \A w \in Conversations : w # v => SameBinding(w)
  BY <1>0, <1>4, <1>5, <1>6 DEF ClaudeTypes, SameBinding
<1>8. BoundLoaded(v)' /\ Settled(v)' BY <1>0, <1>2, <1>5, <1>7 DEF BoundLoaded, Settled
<1>9. \A w \in Conversations : SameBinding(w) \/ (BoundLoaded(w)' /\ Settled(w)')
  BY <1>7, <1>8
<1>10. OwnInv'
  <2>1. PromptsStay BY <1>0, <1>2, OthersAside DEF PromptsStay, Waits
  <2>2. \A p \in DOMAIN adapters' : WireTrue(p, adapters[p])'
    BY <1>0, <1>1, <1>2, <2>1, WiresStay DEF ClaudeTypes, NamesInv, OwnInv
  <2>3. ASSUME NEW j \in HostCallers PROVE CallerOwns(j)'
    BY <1>0, <1>1, <1>2 DEF OwnInv, ClaudeTypes, Caller, CallerOwns, Prompting
  <2>4. \A m \in deserted : m \in Nat /\ m <= hostOps' BY <1>0, <1>1 DEF OwnInv
  <2>5. OneNumber' BY <1>0, <1>2 DEF OwnInv, OneNumber
  <2> QED BY <1>0, <1>2, <2>2, <2>3, <2>4, <2>5 DEF OwnInv, Prompting
<1>11. ResumedBeforePrompt' /\ (\A p \in DOMAIN adapters' : WireNames(adapters'[p]))
  BY <1>0, <1>2 DEF LoadInv, ResumedBeforePrompt, NamesInv
<1>12. \A j \in HostCallers : callers'[j] = callers[j] BY <1>2
<1> QED BY <1>0, <1>1, <1>2, <1>7, <1>9, <1>10, <1>11, <1>12, Together, Idle DEF ClaudeTypes

\* What a process says for a prompt, by name.
LEMMA Said ==
  ASSUME ClaudeInv, NEW q \in DOMAIN adapters, NEW i \in DOMAIN adapters[q].output, adapters[q].output[i].asks = "prompt"
  PROVE  /\ adapters[q].output[i].number \in Nat /\ adapters[q].output[i].sess \in Sessions
         /\ Accounted(q, adapters[q].output[i])
         /\ adapters[q].output[i].says = "update" => Owned(q, adapters[q].output[i])
         /\ LastWord(adapters[q], i)
<1>1. adapters[q] \in Adapter /\ WireNames(adapters[q]) /\ WireTrue(q, adapters[q])
  BY AskedTyped
<1>2. adapters[q].output \in Seq(WireLine) BY <1>1 DEF Adapter
<1>3. adapters[q].output[i] \in WireLine BY <1>2
<1> QED BY <1>1, <1>3 DEF WireNames, LineNames, WireTrue, WireLine

\* A prompt that is begun, by name.
LEMMA BegunTrue ==
  ASSUME ClaudeInv, NEW q \in DOMAIN adapters, NEW x \in Begun(adapters[q])
  PROVE  x.number \in Nat /\ x.sess \in Sessions /\ Accounted(q, x) /\ Owned(q, x)
BY AskedTyped DEF Begun, WireNames, WireTrue, Request

\* What a prompt of an earlier process, or one given up, is to the caller that now writes a prompt.
LEMMA OwnedBeside ==
  ASSUME ClaudeInv, NEW k \in HostCallers, callers[k].at = "prompt", NEW s \in Sessions, mailboxes[s] = NoCaller,
         NEW c, AskedAs(k, "prompt", s, c, [number |-> callers[k].number, asks |-> "prompt", sess |-> s]),
         callers' \in [HostCallers -> Caller], callers'[k] = c, \A j \in HostCallers : j # k => callers'[j] = callers[j],
         mailboxes' = [mailboxes EXCEPT ![s] = k], UNCHANGED <<runtime, deserted, hostOps>>,
         NEW q, NEW x, x.sess \in Sessions, Accounted(q, x)
  PROVE  Accounted(q, x)' /\ (Owned(q, x) => Owned(q, x)') /\ x.number # callers[k].number
<1>0. ClaudeTypes /\ OwnInv BY DEF ClaudeInv
<1>1. x.number # callers[k].number BY DEF Accounted, Prompting
<1>2. Accounted(q, x)' BY <1>1 DEF Accounted, Prompting, AskedAs
<1>3. CASE x.sess = s
  BY <1>0, <1>3, <1>1, <1>2 DEF ClaudeTypes, AskedAs, Owned, Answerable
<1>4. CASE x.sess # s
  <2>1. mailboxes'[x.sess] = mailboxes[x.sess] BY <1>0, <1>4 DEF ClaudeTypes
  <2>2. mailboxes[x.sess] # NoCaller => mailboxes[x.sess] \in HostCallers \ {k}
    BY <1>0 DEF ClaudeTypes, OwnInv, Prompting
  <2> QED BY <1>1, <1>2, <2>1, <2>2 DEF Owned, Answerable
<1> QED BY <1>3, <1>4

\* The process a caller found running, while it runs, is the one of this generation.
LEMMA InStepMade ==
  ASSUME ClaudeInv, NEW k \in HostCallers, InStep(callers[k])
  PROVE  runtime.process \in DOMAIN adapters /\ runtime.generation > 0 /\ runtime.of[runtime.generation] = runtime.process
<1>1. RuntimeTrue /\ SeenBefore(callers[k].seen) /\ callers[k].seen = runtime.process /\ runtime.process # 0 /\ runtime.process \in Nat
  BY DEF ClaudeInv, RunInv, InStep, ClaudeTypes, Runtime
<1>2. ~runtime.starting BY <1>1 DEF SeenBefore
<1>3. Len(adapters) \in Nat /\ adapters \in Seq(Adapter) BY DEF ClaudeInv, ClaudeTypes
<1> QED BY <1>1, <1>2, <1>3 DEF RuntimeTrue, Made

\* A prompt is written, for a session nobody prompts.
LEMMA PromptWritten ==
  ASSUME ClaudeInv, NEW k \in HostCallers, callers[k].at = "prompt", NEW s \in Sessions, mailboxes[s] = NoCaller,
         s = IF callers[k].does = "chat" THEN bindings[callers[k].conv].sess ELSE callers[k].sess,
         mailboxes' = [mailboxes EXCEPT ![s] = k], Ask(k, "prompt", s, callers[k].rev),
         prompted' = IF runtime.process = 0 \/ s \in adapters[runtime.process].memory THEN prompted
             ELSE prompted \cup {[same |-> runtime.process = callers[k].seen, stamped |-> s \in misstamped]},
         UNCHANGED <<plan, runtime, bindings, resumed, revisions, hostOps, misstamped, deserted>>
  PROVE  ClaudeInv'
<1>0. ClaudeTypes /\ NamesInv /\ RunInv /\ LoadInv /\ OwnInv /\ callers[k] \in Caller /\ callers[k].rev \in Nat
  BY DEF ClaudeInv, ClaudeTypes, Caller
<1>1. PICK c \in Caller, r \in Request : AskedAs(k, "prompt", s, c, r)
  BY <1>0, AskTyped DEF Requests, Named
<1>2. r = [number |-> callers[k].number, asks |-> "prompt", sess |-> s] /\ AskedAs(k, "prompt", s, c, [number |-> callers[k].number, asks |-> "prompt", sess |-> s])
  BY <1>1 DEF AskedAs, Request
<1>3. /\ callers' \in [HostCallers -> Caller] /\ callers'[k] = c
      /\ \A j \in HostCallers : j # k => callers'[j] = callers[j]
  BY <1>0, <1>1, OneCaller DEF AskedAs
<1>4. /\ callers[k].conv \in Conversations /\ ~Prompting(callers[k]) /\ callers[k].text = {} /\ SeenBefore(callers[k].seen)
      /\ callers[k].number <= hostOps /\ callers[k].number \notin deserted /\ callers[k].number \in Nat /\ Loads(callers[k])
  BY <1>0 DEF NamesInv, NamesSession, Prompting, OwnInv, CallerOwns, RunInv, Caller, LoadInv
<1>5. NamesSession(c) /\ ~Leads(c) /\ Prompting(c) /\ c.text = {} /\ c.seen = callers[k].seen /\ c.number = callers[k].number /\ c.sess = s
      /\ c.wrote = runtime.process /\ c.conv = callers[k].conv
  BY <1>1, <1>4 DEF NamesSession, Leads, Prompting, AskedAs
<1>6. Loads(c) BY <1>0, <1>1 DEF Loads, ClaudeTypes, Runtime, AskedAs
<1>7. ASSUME NEW j \in HostCallers
      PROVE  /\ NamesSession(callers'[j]) /\ SeenBefore(callers'[j].seen) /\ Loads(callers'[j])
             /\ Leads(callers'[j]) => Leads(callers[j]) /\ callers'[j].at = callers[j].at /\ callers'[j].wrote = callers[j].wrote
  BY <1>3, <1>4, <1>5, <1>6, Idle
<1>8. ResumedBeforePrompt'
  <2>1. ASSUME InStep(callers[k]), s \notin adapters[runtime.process].memory PROVE s \in misstamped
    BY <2>1, InStepMade, <1>4, RestTyped, <1>0 DEF Loads, Settled, LoadInv, BoundLoaded, Has
  <2>2. runtime.process # 0 /\ runtime.process = callers[k].seen => InStep(callers[k])
    BY DEF InStep
  <2>3. PICK w : w = [same |-> runtime.process = callers[k].seen, stamped |-> s \in misstamped]
    OBVIOUS
  <2>4. w.same = (runtime.process = callers[k].seen) /\ w.stamped = (s \in misstamped)
    BY <2>3
  <2>5. prompted' = prompted \/ (prompted' = prompted \cup {w} /\ (w.same => w.stamped))
    BY <2>1, <2>2, <2>3, <2>4
  <2>6. \A v \in prompted : v.same => v.stamped BY <1>0 DEF LoadInv, ResumedBeforePrompt
  <2>7. \A v \in prompted' : v.same => v.stamped BY <2>5, <2>6
  <2> QED BY <2>7 DEF ResumedBeforePrompt
<1>9. ASSUME NEW p \in DOMAIN adapters
      PROVE  /\ \A x \in Begun(adapters'[p]) : x \in Begun(adapters[p]) \/ (x = r /\ p = runtime.process)
             /\ adapters'[p].output = adapters[p].output
             /\ DOMAIN adapters' = DOMAIN adapters
  BY <1>1 DEF AskedAs, Begun
<1>10. DOMAIN adapters' = DOMAIN adapters BY <1>1 DEF AskedAs
<1>11. \A p \in DOMAIN adapters' : WireNames(adapters'[p])
  <2> SUFFICES ASSUME NEW p \in DOMAIN adapters PROVE WireNames(adapters'[p]) BY <1>10
  <2>1. \A x \in Begun(adapters'[p]) : x.sess \in Sessions BY <1>2, <1>9, BegunTrue
  <2>2. \A i \in DOMAIN adapters'[p].output : LineNames(adapters'[p].output[i])
    BY <1>0, <1>9 DEF NamesInv, WireNames
  <2> QED BY <2>1, <2>2 DEF WireNames, Begun
<1>12. OwnInv'
  <2>1. mailboxes' \in [Sessions -> HostCallers \cup {NoCaller}] /\ mailboxes'[s] = k /\ \A t \in Sessions : t # s => mailboxes'[t] = mailboxes[t]
    BY <1>0 DEF ClaudeTypes
  <2>2. \A t \in Sessions : mailboxes[t] # NoCaller => mailboxes[t] \in HostCallers \ {k}
    BY <1>0, <1>4 DEF ClaudeTypes, OwnInv
  <2>3. (\A t \in Sessions : mailboxes[t] # NoCaller => Prompting(callers[mailboxes[t]]) /\ callers[mailboxes[t]].sess = t)'
    BY <1>0, <1>3, <1>5, <2>1, <2>2 DEF OwnInv, Prompting
  <2>4. OneNumber' BY <1>0, <1>3, <1>5 DEF OwnInv, OneNumber
  <2>5. ASSUME NEW j \in HostCallers PROVE CallerOwns(j)'
    BY <1>3, <1>4, <1>5, <2>1, <1>0, RestTyped DEF CallerOwns, Prompting, OwnInv, NamesInv, NamesSession
  <2>6. \A q, x : x.sess \in Sessions /\ Accounted(q, x) =>
          Accounted(q, x)' /\ (Owned(q, x) => Owned(q, x)') /\ x.number # callers[k].number
    BY <1>2, <1>3, OwnedBeside
  <2>7. ASSUME NEW p \in DOMAIN adapters PROVE WireTrue(p, adapters[p])'
    <3>1. PICK a : a = adapters'[p] OBVIOUS
    <3>2. ASSUME p = runtime.process PROVE Accounted(p, r)' /\ Owned(p, r)'
      <4>1. \A j \in HostCallers : callers'[j].at # "rest" /\ callers'[j].number = r.number => j = k
        BY <1>0, <1>2, <1>3, <1>5 DEF OwnInv, OneNumber
      <4>2. runtime.process # 0 BY <1>0, <3>2 DEF ClaudeTypes
      <4>3. c.got = "none" BY <1>1, <4>2 DEF AskedAs
      <4>4. r.number = c.number /\ r.sess = s BY <1>2, <1>5
      <4>5. Accounted(p, r)'
        BY <1>3, <1>4, <1>5, <3>2, <4>1, <4>4 DEF Accounted, Prompting
      <4>6. Owned(p, r)'
        BY <1>3, <1>5, <2>1, <3>2, <4>4, RestTyped, <4>3 DEF Owned, Answerable
      <4> QED BY <4>5, <4>6
    <3>3. ASSUME NEW x \in Begun(a) PROVE Accounted(p, x)' /\ Owned(p, x)'
      BY <1>9, <2>6, <3>1, <3>2, BegunTrue
    <3>4. ASSUME NEW i \in DOMAIN a.output, a.output[i].asks = "prompt"
          PROVE  Accounted(p, a.output[i])' /\ (a.output[i].says = "update" => Owned(p, a.output[i])')
                 /\ a.output[i].number # callers[k].number
      <4>1. a.output = adapters[p].output BY <1>9, <3>1
      <4>2. PICK l : l = a.output[i] OBVIOUS
      <4>3. l.sess \in Sessions /\ Accounted(p, l) /\ (l.says = "update" => Owned(p, l))
        BY <3>4, <4>1, <4>2, Said
      <4>4. Accounted(p, l)' /\ (l.says = "update" => Owned(p, l)') /\ l.number # callers[k].number
        BY <2>6, <4>3
      <4> QED BY <4>2, <4>4
    <3>5. ASSUME NEW i \in DOMAIN a.output PROVE LastWord(a, i)'
      BY <1>0, <1>9, <3>1, <1>2, <3>4 DEF OwnInv, WireTrue, LastWord, Begun
    <3>6. \A x \in a.asked \cap a.running : x.asks = "prompt" => x.number \in deserted
      <4>1. WireTrue(p, adapters[p]) /\ a.running = adapters[p].running
        BY <1>0, <1>1, <3>1 DEF OwnInv, AskedAs
      <4>2. a.asked \subseteq adapters[p].asked \cup {r} BY <1>1, <3>1 DEF AskedAs
      <4>3. r \notin adapters[p].running BY <1>2, <2>6, BegunTrue DEF Begun
      <4> QED BY <4>1, <4>2, <4>3 DEF WireTrue
    <3>7. WireTrue(p, a)' BY <3>3, <3>4, <3>5, <3>6 DEF WireTrue, Begun
    <3> QED BY <3>1, <3>7, WireSeen
  <2> QED BY <1>0, <1>10, <2>3, <2>4, <2>5, <2>7 DEF OwnInv
<1>13. mailboxes' \in [Sessions -> HostCallers \cup {NoCaller}] BY <1>0 DEF ClaudeTypes
<1>14. /\ adapters' \in Seq(Adapter) /\ Len(adapters') = Len(adapters)
       /\ \A p \in DOMAIN adapters : adapters[p].memory \subseteq adapters'[p].memory
  BY <1>1 DEF AskedAs
<1>15. bindings' \in [Conversations -> Binding] /\ revisions' \in Nat /\ hostOps' \in Nat /\ \A v \in Conversations : SameBinding(v)
  BY <1>0 DEF ClaudeTypes, SameBinding
<1> QED BY <1>3, <1>7, <1>8, <1>11, <1>12, <1>13, <1>14, <1>15, Together

\* A prompt is written, or the caller finds its session taken or gone.
LEMMA PromptSafe == ASSUME ClaudeInv, UNCHANGED plan, NEW k \in HostCallers, Prompt(k) PROVE ClaudeInv'
<1>1. callers[k].at = "prompt" /\ ~Prompting(callers[k]) /\ callers[k].conv \in Conversations /\ NamesSession(callers[k]) /\ callers[k] \in Caller
  BY DEF Prompt, Prompting, ClaudeInv, NamesInv, NamesSession, ClaudeTypes
<1>2. CASE callers' = Over(k) /\ UNCHANGED <<mailboxes, adapters, prompted>>
  BY <1>1, <1>2, OverGoes DEF Prompt
<1>3. CASE ~(callers' = Over(k) /\ UNCHANGED <<mailboxes, adapters, prompted>>)
  <2>1. PICK s : s = IF callers[k].does = "chat" THEN bindings[callers[k].conv].sess ELSE callers[k].sess
    OBVIOUS
  <2>2. /\ s # NoSession /\ mailboxes[s] = NoCaller
        /\ mailboxes' = [mailboxes EXCEPT ![s] = k] /\ Ask(k, "prompt", s, callers[k].rev)
        /\ prompted' = IF runtime.process = 0 \/ s \in adapters[runtime.process].memory THEN prompted
             ELSE prompted \cup {[same |-> runtime.process = callers[k].seen, stamped |-> s \in misstamped]}
    BY <1>3, <2>1 DEF Prompt
  <2>3. s \in Sessions
    BY <1>1, <2>1, <2>2 DEF NamesSession, ClaudeInv, ClaudeTypes, Binding, Named
  <2> QED BY <1>1, <2>1, <2>2, <2>3, PromptWritten DEF Prompt
<1> QED BY <1>2, <1>3

\* The caller of a prompt, by name.
LEMMA PrompterTyped ==
  ASSUME ClaudeInv, NEW k \in HostCallers, Prompting(callers[k])
  PROVE  /\ callers[k].sess \in Sessions /\ mailboxes[callers[k].sess] = k /\ k # NoCaller
         /\ callers[k].number \in Nat /\ callers[k].number <= hostOps /\ callers[k].number \notin deserted
         /\ callers[k].at # "rest" /\ callers[k] \in Caller
BY RestTyped DEF ClaudeInv, ClaudeTypes, Caller, NamesInv, NamesSession, OwnInv, CallerOwns, Prompting

\* A prompt is over: what a process still says of it is given up, or was said before.
LEMMA PromptOverSafe == ASSUME ClaudeInv, UNCHANGED plan, NEW k \in HostCallers, PromptOver(k) PROVE ClaudeInv'
<1>0. ClaudeTypes /\ NamesInv /\ RunInv /\ LoadInv /\ OwnInv BY DEF ClaudeInv
<1>1. /\ Prompting(callers[k]) /\ callers[k].got # "none"
      /\ mailboxes' = [mailboxes EXCEPT ![callers[k].sess] = NoCaller]
      /\ deserted' = IF callers[k].got = "failed" THEN deserted \cup {callers[k].number} ELSE deserted
      /\ callers' = Over(k)
      /\ UNCHANGED <<runtime, adapters, bindings, resumed, revisions, hostOps, misstamped, prompted>>
  BY DEF PromptOver, Prompting
<1>2. PICK s, n : s = callers[k].sess /\ n = callers[k].number OBVIOUS
<1>3. s \in Sessions /\ mailboxes[s] = k /\ k # NoCaller /\ n \in Nat /\ n <= hostOps /\ n \notin deserted /\ callers[k].at # "rest"
  BY <1>1, <1>2, PrompterTyped
<1>4. /\ callers' \in [HostCallers -> Caller] /\ callers'[k] = Resting
      /\ \A j \in HostCallers : j # k => callers'[j] = callers[j]
  BY <1>0, <1>1, OneCaller, RestTyped DEF Over
<1>5. mailboxes' \in [Sessions -> HostCallers \cup {NoCaller}] /\ mailboxes'[s] = NoCaller /\ \A t \in Sessions : t # s => mailboxes'[t] = mailboxes[t]
  BY <1>0, <1>1, <1>2, <1>3 DEF ClaudeTypes
<1>6. \A t \in Sessions : t # s /\ mailboxes[t] # NoCaller => mailboxes[t] \in HostCallers \ {k}
  BY <1>0, <1>2 DEF ClaudeTypes, OwnInv
<1>7. deserted \subseteq deserted' /\ deserted' \subseteq deserted \cup {n} /\ (callers[k].got = "failed" => n \in deserted')
  BY <1>1, <1>2
<1>8. (\A t \in Sessions : mailboxes[t] # NoCaller => Prompting(callers[mailboxes[t]]) /\ callers[mailboxes[t]].sess = t)'
  BY <1>0, <1>4, <1>5, <1>6 DEF OwnInv, Prompting
<1>9. OneNumber' /\ (\A m \in deserted : m \in Nat /\ m <= hostOps)'
  BY <1>0, <1>1, <1>3, <1>4, <1>7, RestTyped DEF OwnInv, OneNumber
<1>10. ASSUME NEW j \in HostCallers PROVE CallerOwns(j)'
  BY <1>4, RestTyped, <1>0, PrompterTyped, <1>3, <1>5, <1>2, <1>1, <1>7 DEF CallerOwns, Prompting, OwnInv, OneNumber
<1>11. ASSUME NEW q, NEW x, x.sess \in Sessions, Accounted(q, x)
       PROVE  Accounted(q, x)' /\ (Owned(q, x) => Owned(q, x)')
  BY <1>1, <1>4, <1>11, RestTyped, <1>5, <1>2, <1>3, <1>7, <1>6 DEF Accounted, Prompting, Answerable, Owned
<1>12. ASSUME NEW p \in DOMAIN adapters PROVE WireTrue(p, adapters[p])'
  <2>1. PICK a : a = adapters[p] OBVIOUS
  <2>2. ASSUME NEW x \in Begun(a) PROVE Accounted(p, x)' /\ Owned(p, x)'
    BY <1>11, <2>1, BegunTrue
  <2>3. ASSUME NEW i \in DOMAIN a.output, a.output[i].asks = "prompt"
        PROVE  Accounted(p, a.output[i])' /\ (a.output[i].says = "update" => Owned(p, a.output[i])')
    <3>1. PICK l : l = a.output[i] OBVIOUS
    <3>2. l.sess \in Sessions /\ Accounted(p, l) /\ (l.says = "update" => Owned(p, l))
      BY <2>1, <2>3, <3>1, Said
    <3>3. Accounted(p, l)' /\ (l.says = "update" => Owned(p, l)') BY <1>11, <3>2
    <3> QED BY <3>1, <3>3
  <2>4. (\A i \in DOMAIN a.output : LastWord(a, i)') /\ (\A x \in a.asked \cap a.running : x.asks = "prompt" => x.number \in deserted')
    BY <1>0, <1>7, <2>1 DEF OwnInv, WireTrue, LastWord, Begun
  <2>5. WireTrue(p, a)' BY <2>2, <2>3, <2>4 DEF WireTrue, Begun
  <2> QED BY <1>1, <2>1, <2>5, WireSeen
<1>13. OwnInv' BY <1>1, <1>8, <1>9, <1>10, <1>12 DEF OwnInv
<1>14. ResumedBeforePrompt' /\ (\A p \in DOMAIN adapters' : WireNames(adapters'[p]))
  BY <1>0, <1>1 DEF LoadInv, ResumedBeforePrompt, NamesInv
<1>15. SeenBefore(Resting.seen) /\ Loads(Resting)
  BY <1>0, RestTyped, SeenStays DEF Loads, ClaudeTypes, Runtime
<1>16. ASSUME NEW j \in HostCallers
       PROVE  /\ NamesSession(callers'[j]) /\ SeenBefore(callers'[j].seen) /\ Loads(callers'[j])
              /\ Leads(callers'[j]) => Leads(callers[j]) /\ callers'[j].at = callers[j].at /\ callers'[j].wrote = callers[j].wrote
  BY <1>4, <1>15, RestTyped, Idle
<1>17. bindings' \in [Conversations -> Binding] /\ revisions' \in Nat /\ hostOps' \in Nat /\ adapters' \in Seq(Adapter)
       /\ \A v \in Conversations : SameBinding(v)
  BY <1>0, <1>1 DEF ClaudeTypes, SameBinding
<1> QED BY <1>1, <1>4, <1>5, <1>13, <1>14, <1>16, <1>17, Together

\* A caller, when an answer is delivered to whoever waits for it.
LEMMA DeliveredGoes ==
  ASSUME ClaudeInv, NEW line \in WireLine, LineNames(line), line.says # "update", callers' = Delivered(line), NEW j \in HostCallers
  PROVE  /\ callers'[j] \in Caller
         /\ NamesSession(callers'[j]) /\ SeenBefore(callers'[j].seen) /\ Loads(callers'[j])
         /\ Leads(callers'[j]) => Leads(callers[j]) /\ callers'[j].at = callers[j].at /\ callers'[j].wrote = callers[j].wrote
         /\ callers'[j].at = callers[j].at /\ callers'[j].asks = callers[j].asks /\ callers'[j].number = callers[j].number
         /\ callers'[j].wrote = callers[j].wrote /\ callers'[j].text = callers[j].text
         /\ line.asks # "new" => callers'[j].sess = callers[j].sess
         /\ callers'[j].got = callers[j].got \/ (callers[j].at = "wait" /\ callers[j].asks = line.asks /\ callers[j].number = line.number)
         /\ callers'[j] = callers[j] \/ (callers[j].at = "wait" /\ callers[j].asks = line.asks)
<1>0. callers[j] \in Caller /\ NamesSession(callers[j]) /\ SeenBefore(callers[j].seen) /\ Loads(callers[j])
  BY DEF ClaudeInv, ClaudeTypes, NamesInv, RunInv, LoadInv
<1>1. CASE callers'[j] = callers[j] BY <1>0, <1>1
<1>2. CASE callers'[j] # callers[j]
  <2>1. /\ callers[j].at = "wait" /\ callers[j].got = "none" /\ callers[j].asks = line.asks /\ callers[j].number = line.number
        /\ callers'[j] = [callers[j] EXCEPT !.got = line.says, !.sess = IF line.asks = "new" THEN line.sess ELSE @]
    BY <1>2 DEF Delivered
  <2>2. PICK says, sess : says = line.says /\ sess = IF line.asks = "new" THEN line.sess ELSE callers[j].sess
    OBVIOUS
  <2>3. says \in {"ok", "error"} /\ sess \in Named BY <1>0, <2>2 DEF WireLine, Caller
  <2>4. PICK c : c = [callers[j] EXCEPT !.got = says, !.sess = sess] OBVIOUS
  <2>5. callers'[j] = c BY <1>0, <2>1, <2>2, <2>4
  <2>6. /\ c \in Caller /\ c.at = callers[j].at /\ c.seen = callers[j].seen /\ c.gen = callers[j].gen /\ c.does = callers[j].does
        /\ c.conv = callers[j].conv /\ c.sess = sess /\ c.number = callers[j].number /\ c.text = callers[j].text
        /\ c.asks = callers[j].asks /\ c.got = says /\ c.wrote = callers[j].wrote
    BY <1>0, <2>3, <2>4 DEF Caller
  <2>7. NamesSession(c) BY <1>0, <2>1, <2>2, <2>6 DEF NamesSession, LineNames
  <2>8. SeenBefore(c.seen) /\ Loads(c) BY <1>0, <2>1, <2>6 DEF Loads, InStep
  <2>9. Leads(c) => Leads(callers[j]) BY <2>6 DEF Leads
  <2> QED BY <2>1, <2>2, <2>5, <2>6, <2>7, <2>8, <2>9
<1> QED BY <1>1, <1>2

\* An update is added to what its session's owner gathers.
LEMMA UpdateGathered ==
  ASSUME ClaudeInv, NEW p, p = runtime.process, NEW l \in WireLine, l.sess \in Sessions, Owned(p, l),
         NEW k, k = mailboxes[l.sess], k # NoCaller,
         callers' = [callers EXCEPT ![k].text = @ \cup {[of |-> p, number |-> l.number]}],
         UNCHANGED <<plan, runtime, bindings, resumed, mailboxes, revisions, hostOps, misstamped, deserted, prompted>>,
         adapters' \in Seq(Adapter), Len(adapters') = Len(adapters),
         \A q \in DOMAIN adapters : adapters[q].memory \subseteq adapters'[q].memory,
         \A q \in DOMAIN adapters' : WireNames(adapters'[q]) /\ WireTrue(q, adapters'[q])
  PROVE  ClaudeInv'
<1>0. ClaudeTypes /\ NamesInv /\ RunInv /\ LoadInv /\ OwnInv BY DEF ClaudeInv
<1>1. k \in HostCallers /\ Prompting(callers[k]) /\ callers[k].sess = l.sess /\ callers[k].wrote = p
      /\ (l.number = callers[k].number \/ l.number \in deserted)
  BY <1>0 DEF ClaudeTypes, OwnInv, Owned, Answerable
<1>2. callers[k] \in Caller /\ NamesSession(callers[k]) /\ SeenBefore(callers[k].seen) /\ Loads(callers[k]) /\ CallerOwns(k)
  BY <1>0, <1>1 DEF ClaudeTypes, NamesInv, RunInv, LoadInv, OwnInv
<1>3. PICK u, c : u = [of |-> p, number |-> l.number] /\ c = [callers[k] EXCEPT !.text = @ \cup {u}]
  OBVIOUS
<1>4. u \in [of : Nat, number : Nat] /\ u.of = p /\ u.number = l.number
  BY <1>0, <1>3 DEF WireLine, ClaudeTypes, Runtime
<1>5. /\ c \in Caller /\ c.at = callers[k].at /\ c.seen = callers[k].seen /\ c.gen = callers[k].gen /\ c.does = callers[k].does
      /\ c.conv = callers[k].conv /\ c.sess = callers[k].sess /\ c.number = callers[k].number /\ c.text = callers[k].text \cup {u}
      /\ c.asks = callers[k].asks /\ c.got = callers[k].got /\ c.wrote = callers[k].wrote
  BY <1>2, <1>3, <1>4 DEF Caller
<1>6. callers' = [callers EXCEPT ![k] = c] BY <1>0, <1>1, <1>3 DEF ClaudeTypes
<1>7. /\ callers' \in [HostCallers -> Caller] /\ callers'[k] = c
      /\ \A j \in HostCallers : j # k => callers'[j] = callers[j]
  BY <1>0, <1>1, <1>5, <1>6, OneCaller
<1>8. NamesSession(c) /\ SeenBefore(c.seen) /\ Loads(c) /\ ~Leads(c) /\ Prompting(c)
  BY <1>1, <1>2, <1>5 DEF NamesSession, Loads, InStep, Leads, Prompting
<1>9. ASSUME NEW j \in HostCallers
      PROVE  /\ NamesSession(callers'[j]) /\ SeenBefore(callers'[j].seen) /\ Loads(callers'[j])
             /\ Leads(callers'[j]) => Leads(callers[j]) /\ callers'[j].at = callers[j].at /\ callers'[j].wrote = callers[j].wrote
  BY <1>7, <1>8, Idle
<1>10. PromptsStay
  BY <1>1, <1>5, <1>7, <1>8, <1>0, OthersAside DEF StillWaits, PromptsStay, Waits
<1>11. \A q \in DOMAIN adapters' : WireTrue(q, adapters[q])'
  BY <1>0, <1>10, WiresStay DEF ClaudeTypes
<1>12. ASSUME NEW j \in HostCallers PROVE CallerOwns(j)'
  <2>1. CASE j = k
    <3>1. \A t \in c.text : t.of = c.wrote /\ (t.number = c.number \/ t.number \in deserted)
      BY <1>1, <1>2, <1>4, <1>5 DEF CallerOwns
    <3>2. c.number <= hostOps /\ c.number \notin deserted /\ mailboxes[c.sess] = k /\ c.at = "wait" /\ c.asks = "prompt"
      BY <1>1, <1>2, <1>5 DEF CallerOwns, Prompting
    <3>3. CallerOwns(k)' BY <1>7, <3>1, <3>2 DEF CallerOwns, Prompting
    <3> QED BY <2>1, <3>3
  <2>2. CASE j # k BY <1>0, <1>7, <2>2 DEF OwnInv, CallerOwns, Prompting
  <2> QED BY <2>1, <2>2
<1>13. OneNumber' BY <1>0, <1>5, <1>7 DEF OwnInv, OneNumber
<1>14. ASSUME NEW s \in Sessions, mailboxes[s] # NoCaller
       PROVE  Prompting(callers'[mailboxes[s]]) /\ callers'[mailboxes[s]].sess = s
  <2>1. PICK m : m = mailboxes[s] OBVIOUS
  <2>2. m \in HostCallers /\ Prompting(callers[m]) /\ callers[m].sess = s
    BY <1>0, <1>14, <2>1 DEF OwnInv, ClaudeTypes
  <2>3. Prompting(callers'[m]) /\ callers'[m].sess = s BY <1>5, <1>7, <1>8, <2>2
  <2> QED BY <2>1, <2>3
<1>15. OwnInv' BY <1>0, <1>11, <1>12, <1>13, <1>14 DEF OwnInv, Prompting
<1>16. /\ bindings' \in [Conversations -> Binding] /\ revisions' \in Nat /\ hostOps' \in Nat
       /\ mailboxes' \in [Sessions -> HostCallers \cup {NoCaller}]
       /\ (\A v \in Conversations : SameBinding(v)) /\ ResumedBeforePrompt'
  BY <1>0 DEF ClaudeTypes, SameBinding, LoadInv, ResumedBeforePrompt
<1> QED BY <1>7, <1>9, <1>15, <1>16, Together

\* A prompt is answered: nothing its process still has to say is about it.
LEMMA PromptAnswered ==
  ASSUME ClaudeInv, NEW p \in DOMAIN adapters, adapters[p].output # << >>, NEW l, l = Head(adapters[p].output),
         l.asks = "prompt", l.says # "update", callers' = Delivered(l),
         NEW b \in Adapter, adapters' = [adapters EXCEPT ![p] = b], b.output = Tail(adapters[p].output),
         b.asked = adapters[p].asked, b.running = adapters[p].running, b.memory = adapters[p].memory,
         UNCHANGED <<plan, runtime, bindings, resumed, mailboxes, revisions, hostOps, misstamped, deserted, prompted>>
  PROVE  ClaudeInv'
<1>0. ClaudeTypes /\ NamesInv /\ RunInv /\ LoadInv /\ OwnInv BY DEF ClaudeInv
<1>1. adapters[p] \in Adapter /\ WireNames(adapters[p]) /\ WireTrue(p, adapters[p])
  BY AskedTyped
<1>2. /\ adapters[p].output \in Seq(WireLine) /\ 1 \in DOMAIN adapters[p].output /\ l = adapters[p].output[1]
      /\ l \in WireLine /\ LineNames(l)
  BY <1>1 DEF Adapter, WireNames
<1>3. Accounted(p, l) /\ LastWord(adapters[p], 1) /\ l.number \in Nat BY <1>2, Said
<1>4. /\ adapters' \in Seq(Adapter) /\ Len(adapters') = Len(adapters) /\ DOMAIN adapters' = DOMAIN adapters
      /\ adapters'[p] = b /\ \A q \in DOMAIN adapters : q # p => adapters'[q] = adapters[q]
  BY <1>0, OneReplaced DEF ClaudeTypes
<1>5. WireNames(b) /\ WireTrue(p, b) BY <1>1, LineRead
<1>6. \A q \in DOMAIN adapters : WireNames(adapters'[q]) /\ WireTrue(q, adapters'[q]) /\ adapters[q].memory \subseteq adapters'[q].memory
  BY <1>0, <1>4, <1>5 DEF NamesInv, OwnInv
<1>7. ASSUME NEW j \in HostCallers
      PROVE  /\ callers'[j] \in Caller
             /\ NamesSession(callers'[j]) /\ SeenBefore(callers'[j].seen) /\ Loads(callers'[j])
             /\ Leads(callers'[j]) => Leads(callers[j]) /\ callers'[j].at = callers[j].at /\ callers'[j].wrote = callers[j].wrote
             /\ callers'[j].at = callers[j].at /\ callers'[j].asks = callers[j].asks /\ callers'[j].number = callers[j].number
             /\ callers'[j].wrote = callers[j].wrote /\ callers'[j].text = callers[j].text /\ callers'[j].sess = callers[j].sess
             /\ callers'[j].got = callers[j].got \/ (callers[j].at = "wait" /\ callers[j].number = l.number)
  BY <1>2, DeliveredGoes
<1>8. callers' \in [HostCallers -> Caller] BY <1>7 DEF Delivered
<1>9. ASSUME NEW q, NEW x, Accounted(q, x) PROVE Accounted(q, x)'
  BY <1>7, <1>9 DEF Accounted, Prompting
<1>10. ASSUME NEW q, NEW x, x.sess \in Sessions, Owned(q, x), x.number # l.number \/ x.number \in deserted PROVE Owned(q, x)'
  BY <1>0, <1>10, <1>7 DEF ClaudeTypes, Answerable, Owned
\* The number of the answer is in no other process, and in this one no more.
<1>11. ASSUME NEW q \in DOMAIN adapters, NEW j \in HostCallers, callers[j].at = "wait", callers[j].number = l.number
       PROVE  /\ \A x \in Begun(adapters'[q]) : x.number # l.number
              /\ \A i \in DOMAIN adapters'[q].output : adapters'[q].output[i].asks = "prompt" =>
                   adapters'[q].output[i].number # l.number
  <2>1. l.number \notin deserted /\ callers[j].wrote = p
    BY <1>0, <1>3, <1>11 DEF OwnInv, CallerOwns, Accounted
  <2>2. CASE q # p BY <1>4, <2>2, <1>11, <2>1, BegunTrue, Said DEF Accounted
  <2>3. CASE q = p
    <3>1. Begun(b) = Begun(adapters[p]) BY DEF Begun
    <3>2. \A i \in DOMAIN b.output : i + 1 \in DOMAIN adapters[p].output /\ b.output[i] = adapters[p].output[i + 1] /\ i + 1 > 1
      BY <1>2
    <3>3. /\ \A x \in Begun(adapters[p]) : x.number # l.number
          /\ \A i \in DOMAIN adapters[p].output : i > 1 /\ adapters[p].output[i].asks = "prompt" => adapters[p].output[i].number # l.number
      BY <1>2, <1>3, <2>1 DEF LastWord
    <3>4. \A i \in DOMAIN b.output : b.output[i].asks = "prompt" => b.output[i].number # l.number
      BY <3>2, <3>3
    <3> QED BY <1>4, <2>3, <3>1, <3>3, <3>4
  <2> QED BY <2>2, <2>3
<1>12. ASSUME NEW q \in DOMAIN adapters PROVE WireTrue(q, adapters[q])'
  <2>1. PICK a : a = adapters'[q] OBVIOUS
  <2>2. a \in Adapter /\ WireNames(a) /\ WireTrue(q, a) BY <1>4, <1>6, <2>1
  <2>3. a.output \in Seq(WireLine) /\ \A x \in Begun(a) : x \in Request
    BY <2>2 DEF Adapter, Begun
  <2>4. CASE \E j \in HostCallers : callers[j].at = "wait" /\ callers[j].number = l.number
    <3>1. ASSUME NEW x \in Begun(a) PROVE Accounted(q, x)' /\ Owned(q, x)'
      BY <1>11, <2>1, <2>2, <2>4, <1>9, <1>10 DEF WireTrue, WireNames, Begun
    <3>2. ASSUME NEW i \in DOMAIN a.output, a.output[i].asks = "prompt"
          PROVE  Accounted(q, a.output[i])' /\ (a.output[i].says = "update" => Owned(q, a.output[i])')
      <4>1. PICK m : m = a.output[i] OBVIOUS
      <4>2. Accounted(q, m) /\ (m.says = "update" => Owned(q, m)) /\ m.sess \in Sessions /\ m.number # l.number
        BY <1>11, <2>1, <2>2, <2>4, <3>2, <4>1 DEF WireTrue, WireNames, LineNames
      <4>3. Accounted(q, m)' /\ (m.says = "update" => Owned(q, m)') BY <1>9, <1>10, <4>2
      <4> QED BY <4>1, <4>3
    <3>3. (\A i \in DOMAIN a.output : LastWord(a, i)') /\ (\A x \in a.asked \cap a.running : x.asks = "prompt" => x.number \in deserted')
      BY <2>2 DEF WireTrue, LastWord, Begun
    <3>4. WireTrue(q, a)' BY <3>1, <3>2, <3>3 DEF WireTrue, Begun
    <3> QED BY <2>1, <3>4, WireSeen
  <2>5. CASE ~\E j \in HostCallers : callers[j].at = "wait" /\ callers[j].number = l.number
    <3>1. \A j \in HostCallers : callers'[j] = callers[j] BY <2>5 DEF Delivered
    <3>2. PromptsStay BY <1>0, <3>1, OthersAside DEF PromptsStay, Waits
    <3>3. hostOps' \in Nat /\ hostOps' >= hostOps BY <1>0 DEF ClaudeTypes
    <3> QED BY <1>0, <1>4, <1>6, <3>2, <3>3, WiresStay
  <2> QED BY <2>4, <2>5
<1>13. ASSUME NEW j \in HostCallers PROVE CallerOwns(j)'
  BY <1>0, <1>7 DEF OwnInv, CallerOwns, Prompting
<1>14. ASSUME NEW s \in Sessions, mailboxes[s] # NoCaller
       PROVE  Prompting(callers'[mailboxes[s]]) /\ callers'[mailboxes[s]].sess = s
  BY <1>0, <1>7, <1>14 DEF OwnInv, ClaudeTypes, Prompting
<1>15. OneNumber' BY <1>0, <1>7 DEF OwnInv, OneNumber
<1>16. OwnInv' BY <1>0, <1>4, <1>12, <1>13, <1>14, <1>15 DEF OwnInv, Prompting
<1>17. /\ bindings' \in [Conversations -> Binding] /\ revisions' \in Nat /\ hostOps' \in Nat
       /\ mailboxes' \in [Sessions -> HostCallers \cup {NoCaller}]
       /\ (\A v \in Conversations : SameBinding(v)) /\ ResumedBeforePrompt'
  BY <1>0 DEF ClaudeTypes, SameBinding, LoadInv, ResumedBeforePrompt
<1> QED BY <1>4, <1>6, <1>7, <1>8, <1>16, <1>17, Together

\* A reader takes one line, or finds that its process is not the one named.
LEMMA ReadLineSafe == ASSUME ClaudeInv, UNCHANGED plan, NEW p \in DOMAIN adapters, ReadLine(p) PROVE ClaudeInv'
<1>0. /\ adapters[p] \in Adapter /\ WireNames(adapters[p]) /\ WireTrue(p, adapters[p]) /\ adapters \in Seq(Adapter)
      /\ adapters[p].output # << >>
      /\ UNCHANGED <<plan, runtime, bindings, resumed, mailboxes, revisions, hostOps, misstamped, deserted, prompted>>
  BY AskedTyped DEF ReadLine, ClaudeInv, ClaudeTypes
<1>1. PICK l : l = Head(adapters[p].output) OBVIOUS
<1>2. /\ adapters[p].output \in Seq(WireLine) /\ Tail(adapters[p].output) \in Seq(WireLine)
      /\ l \in WireLine /\ LineNames(l) /\ (l.asks = "prompt" => l.sess \in Sessions)
      /\ (l.says = "update" => Owned(p, l) /\ l.asks = "prompt")
  BY <1>0, <1>1 DEF Adapter, WireNames, LineNames, WireTrue
<1>3. PICK b : b = [adapters[p] EXCEPT !.output = IF Current(p) THEN Tail(@) ELSE << >>]
  OBVIOUS
<1>4. /\ b \in Adapter /\ b.memory = adapters[p].memory /\ b.asked = adapters[p].asked /\ b.running = adapters[p].running
      /\ b.output = IF Current(p) THEN Tail(adapters[p].output) ELSE << >>
  <2>1. PICK out : out = IF Current(p) THEN Tail(adapters[p].output) ELSE << >> OBVIOUS
  <2>2. out \in Seq(WireLine) /\ b = [adapters[p] EXCEPT !.output = out]
    BY <1>0, <1>2, <1>3, <2>1
  <2> QED BY <1>0, <2>1, <2>2 DEF Adapter
<1>5. adapters' = [adapters EXCEPT ![p] = b] BY <1>0, <1>3 DEF ReadLine
<1>6. WireNames(b) /\ WireTrue(p, b) BY <1>0, <1>4, LineRead
<1>7. /\ adapters' \in Seq(Adapter) /\ Len(adapters') = Len(adapters)
      /\ \A q \in DOMAIN adapters : adapters[q].memory \subseteq adapters'[q].memory
      /\ \A q \in DOMAIN adapters' : WireNames(adapters'[q]) /\ WireTrue(q, adapters'[q])
  BY <1>0, <1>4, <1>5, OneReplaced, <1>6 DEF ClaudeInv, NamesInv, OwnInv
<1>8. CASE UNCHANGED callers BY <1>0, <1>4, <1>5, <1>6, <1>8, AdapterGoes
<1>9. CASE Current(p) /\ l.says = "update" /\ callers' = Updated(p, l)
  <2>1. CASE mailboxes[l.sess] = NoCaller BY <1>8, <1>9, <2>1 DEF Updated
  <2>2. CASE mailboxes[l.sess] # NoCaller
    <3>1. PICK k : k = mailboxes[l.sess] OBVIOUS
    <3>2. callers' = [callers EXCEPT ![k].text = @ \cup {[of |-> p, number |-> l.number]}]
      BY <1>9, <2>2, <3>1 DEF Updated
    <3> QED BY <1>0, <1>2, <1>7, <1>9, <2>2, <3>1, <3>2, UpdateGathered DEF Current
  <2> QED BY <2>1, <2>2
<1>10. CASE Current(p) /\ l.says # "update" /\ callers' = Delivered(l)
  <2>1. CASE l.asks = "prompt" BY <1>0, <1>1, <1>4, <1>5, <1>10, <2>1, PromptAnswered
  <2>2. CASE l.asks # "prompt"
    <3>1. ASSUME NEW j \in HostCallers
          PROVE  /\ callers'[j] \in Caller
                 /\ NamesSession(callers'[j]) /\ SeenBefore(callers'[j].seen) /\ Loads(callers'[j])
                 /\ Leads(callers'[j]) => Leads(callers[j]) /\ callers'[j].at = callers[j].at /\ callers'[j].wrote = callers[j].wrote
                 /\ Aside(j) \/ Waits(j)
      BY <1>2, <1>10, DeliveredGoes, OthersAside, <2>2 DEF ClaudeInv, Prompting, OwnInv, CallerOwns, Aside
    <3>2. callers' \in [HostCallers -> Caller] BY <1>10, <3>1 DEF Delivered
    <3>3. runtime' \in Runtime BY <1>0 DEF ClaudeInv, ClaudeTypes
    <3> QED BY <1>0, <1>7, <3>1, <3>2, <3>3, ManyGo
  <2> QED BY <2>1, <2>2
<1> QED BY <1>1, <1>8, <1>9, <1>10 DEF ReadLine

--------------------
(* The invariant.                                                          *)

\* Before anything has happened nobody asks and nothing is said.
LEMMA ClaudeBegins == ASSUME ClaudeInit PROVE ClaudeInv
<1>1. ClaudeTypes BY RestTyped DEF ClaudeInit, Runtime, Binding, Named, ClaudeTypes
<1>2. \A k \in HostCallers : callers[k] = Resting BY DEF ClaudeInit
<1>3. DOMAIN adapters = {} /\ adapters = << >> /\ Len(adapters) = 0 BY DEF ClaudeInit
<1>4. NamesInv BY <1>2, <1>3, RestTyped DEF NamesInv
<1>5. RunInv
  <2>1. /\ runtime.started = FALSE /\ runtime.starting = FALSE /\ runtime.process = 0 /\ runtime.generation = 0
        /\ runtime.of = << >> /\ runtime.ready = 0
    BY DEF ClaudeInit
  <2>2. RuntimeTrue
    <3>1. runtime.started = (runtime.process # 0) /\ ~(runtime.process # 0) BY <2>1
    <3>2. runtime.generation = Len(runtime.of) /\ (\A g \in 1 .. runtime.generation : runtime.of[g] \in 1 .. Len(adapters))
      BY <2>1
    <3>3. SeenBefore(runtime.ready) BY <1>3, <2>1 DEF SeenBefore
    <3> QED BY <3>1, <3>2, <3>3 DEF RuntimeTrue
  <2>3. ASSUME NEW k \in HostCallers PROVE ~Leads(callers[k]) /\ SeenBefore(callers[k].seen)
    BY <1>2, <1>3, <2>1, RestTyped DEF SeenBefore
  <2> QED BY <2>2, <2>3 DEF RunInv, LeaderTrue, Leads
<1>6. LoadInv
  BY <1>2, RestTyped DEF ClaudeInit, BoundLoaded, StampTrue, Loads, LoadInv, ResumedBeforePrompt
<1>7. OwnInv BY <1>2, RestTyped, <1>3 DEF ClaudeInit, OneNumber, CallerOwns, OwnInv
<1> QED BY <1>1, <1>4, <1>5, <1>6, <1>7 DEF ClaudeInv

\* No step of a caller, of a process or of the service breaks it.
LEMMA ClaudeSteps == ASSUME ClaudeInv, ClaudeNext PROVE ClaudeInv'
<1>0. UNCHANGED plan BY DEF ClaudeNext
<1>1. ASSUME NEW k \in HostCallers, CallerSteps(k) PROVE ClaudeInv'
  <2>1. CASE BeginOp(k) \/ ChatBegins(k) \/ BeginStart(k) \/ AwaitStart(k) \/ LaunchAdapter(k)
    BY <1>0, <2>1, BeginOpSafe, ChatBeginsSafe, BeginStartSafe, AwaitStartSafe, LaunchAdapterSafe
  <2>2. CASE Initialized(k) \/ FinishStart(k) \/ Cancelled(k) \/ ResetSession(k) \/ List(k)
    BY <1>0, <2>2, InitializedSafe, FinishStartSafe, CancelledSafe, ResetSessionSafe, ListSafe
  <2>3. CASE GiveUp(k) \/ RequireSession(k) \/ UnderControl(k) \/ MarkLoaded(k) \/ ConfigureFails(k)
    BY <1>0, <2>3, GiveUpSafe, RequireSessionSafe, UnderControlSafe, MarkLoadedSafe, ConfigureFailsSafe
  <2>4. CASE CommitBinding(k) \/ CommitGeneration(k) \/ CommandKnown(k) \/ Prompt(k)
    BY <1>0, <2>4, CommitBindingSafe, CommitGenerationSafe, CommandKnownSafe, PromptSafe
  <2>5. CASE FinishPrompt(k) \/ FinishRename(k)
    BY <1>0, <2>5, PromptOverSafe DEF FinishPrompt, FinishRename
  <2> QED BY <1>1, <2>1, <2>2, <2>3, <2>4, <2>5 DEF CallerSteps
<1>2. ASSUME NEW p \in DOMAIN adapters, ProcessSteps(p) PROVE ClaudeInv'
  BY <1>0, <1>2, ReadLineSafe, ReaderEndsSafe, AdapterExitsSafe, AnswerSafe, RefuseRequestSafe, CreateSessionSafe, RunPromptSafe
  DEF ProcessSteps
<1>3. CASE ClearSession \/ Wake \/ StopAdapter
  BY <1>0, <1>3, ClearSessionSafe, WakeSafe, StopAdapterSafe
<1> QED BY <1>1, <1>2, <1>3 DEF ClaudeNext

\* Nothing changes, nothing is broken.
LEMMA ClaudeStutters == ASSUME ClaudeInv, UNCHANGED claudeVars PROVE ClaudeInv'
<1>1. UNCHANGED <<runtime, adapters, bindings, resumed, mailboxes, callers, revisions, plan, hostOps, misstamped, deserted, prompted>>
  BY DEF claudeVars
<1> QED BY <1>1, ProcessGoes DEF ClaudeInv, ClaudeTypes, NamesInv, OwnInv

\* The agent's idea of its process, the stamps of sessions and bindings and the owners of prompts agree at every step.
THEOREM ClaudeInvariant == ClaudeSpec => []ClaudeInv
<1>1. ClaudeInit => ClaudeInv BY ClaudeBegins
<1>2. ClaudeInv /\ [ClaudeNext]_claudeVars => ClaudeInv' BY ClaudeSteps, ClaudeStutters
<1> QED BY <1>1, <1>2, PTL DEF ClaudeSpec

\* A prompt is written only to a process that has its session, unless a stamp says so wrongly or the process is a later one; what
\* a reply is gathered from was said by the process the prompt went to.
THEOREM PromptsStaySound == ClaudeSpec => []PromptsSound
<1>1. ClaudeInv => PromptsSound
  BY DEF ClaudeInv, OwnInv, CallerOwns, PromptsSound, UpdatesAreOwn, LoadInv
<1> QED BY <1>1, ClaudeInvariant, PTL

--------------------
(***************************************************************************)
(* The provider migration.  Its invariant follows a migration step by      *)
(* step: what it has read, what it has written of it, and that its backup  *)
(* directory is recorded as unfinished until the stores agree again.       *)
(***************************************************************************)

\* A provider, or none: what a row, a catalog and a manifest name.
ProviderNames == Providers \cup {"none"}
ThreadRecords == [ord : Nat, kind : Kinds]
Rollouts == {r \in [prov : ProviderNames, head : Nat, body : SUBSET ThreadRecords] : IsFiniteSet(r.body)}
OffsetMap == [Children -> Nat]
\* What a manifest or the script's log may say of a change.
Statuses == {"prepared", "rollout_written", "lineage_written", "state_updated",
             "storage_committed", "verified", "rolled_back", "rollback_failed",
             "backup-verified", "applied", "failed"}
\* The backup directories of migrations and of script runs.
BackupT == [by : {"weclaw", "script"}, roll : Rollouts, row : ProviderNames, cat : ProviderNames, kids : OffsetMap,
            status : Statuses, holds : SUBSET (ThreadStores \cup {"kids"})]
\* Where a migration is.
MigAts == {"none", "check", "stop", "read", "backup", "rollout", "rollout_written", "lineage",
           "lineage_written", "row", "state_updated", "catalog", "storage_committed",
           "undo_kids", "undo_cat", "undo_row", "undo_roll", "undone", "start"}
MigT == [at : MigAts, to : ProviderNames, orig : Rollouts, from : ProviderNames, catWas : ProviderNames, offs : OffsetMap,
         todo : SUBSET Children, wrote : SUBSET (Children \cup ThreadStores \cup {"failed"}),
         id : Nat, dead : BOOLEAN]
SwT == [at : {"none", "planned", "backed", "replacing", "undoing"}, kind : {"switch", "restore"},
        id : Nat, roll : Rollouts, row : ProviderNames, cat : ProviderNames,
        left : SUBSET ThreadStores, put : SUBSET ThreadStores]

\* Type correctness.
MigTypes ==
  /\ roll \in Rollouts /\ row \in ProviderNames /\ cat \in ProviderNames
  /\ kids \in [Children -> [end : Nat, off : Nat]]
  /\ backups \in Seq(BackupT)
  /\ hostUp \in BOOLEAN /\ turnOn \in BOOLEAN
  /\ migGate \in {"open", "closed", "failed"} /\ conf \in ProviderNames
  /\ mig \in MigT /\ sw \in SwT
  /\ ever \in SUBSET ThreadRecords /\ IsFiniteSet(ever)
  /\ unseen \in BOOLEAN /\ restores \in BOOLEAN
  /\ migMishaps \in Nat /\ switches \in Nat

\* no child ends past what Codex wrote
KidsInside == \A c \in Children : kids[c].end <= Cardinality(ever) + 1

\* one of the two runs at a time, and the files are left alone by the Host
RunsApart ==
  /\ mig.at # "none" => sw.at = "none"
  /\ mig.at \notin {"none", "check", "stop"} => ~hostUp
  /\ sw.at \in {"replacing", "undoing"} => ~hostUp

Holds(i, x) == "roll" \in backups[i].holds /\ x \in backups[i].roll.body
\* Every record Codex wrote is in a rollout some backup directory holds.
AllBackedUp == \A x \in ever : \E i \in DOMAIN backups : Holds(i, x)

Unfinished(i) == i \in DOMAIN backups /\ backups[i].status \notin Finished
\* what sets the second half of MigrationSound aside: the three things it names, or
\* the backup directory of another change that did not come to its end
Excused == unseen \/ restores \/ \E i \in DOMAIN backups : Unfinished(i)
ExcusedBefore == unseen \/ restores \/ \E i \in DOMAIN backups : i # mig.id /\ Unfinished(i)
\* The script has run once; and the stores agree, the children pointing where they end.
Scripted == \E i \in DOMAIN backups : backups[i].by = "script"
ThreadWhole == roll.prov = row /\ (Aligned \/ Scripted)

\* The steps before the backup directory is there, those that write, and the rollback.
BeforeBackup == {"none", "check", "stop", "read", "backup"}
Writing == {"rollout", "rollout_written", "lineage", "lineage_written", "row", "state_updated",
            "catalog", "storage_committed"}
Undoing == {"undo_kids", "undo_cat", "undo_row", "undo_roll", "undone"}

\* What the migration writes, whether the thread was whole when it was read, and which
\* children need another offset.
NewRollout == Transformed(mig.orig, mig.to)
WasWhole ==
  /\ mig.orig.prov = mig.from
  /\ (\A c \in Children : mig.offs[c] = OffsetAt(mig.orig, kids[c].end)) \/ Scripted
Todo == mig.todo = {c \in Children : mig.offs[c] # OffsetAt(NewRollout, kids[c].end)}

\* the migration has copied what it is about to write
MigBackedUp ==
  /\ mig.at \in BeforeBackup => mig.id = 0 /\ mig.wrote = {}
  /\ mig.at = "backup" => roll = mig.orig /\ row = mig.from
                          /\ mig.offs = [c \in Children |-> kids[c].off] /\ Todo
  /\ mig.at \in Writing \cup Undoing => Unfinished(mig.id) /\ AllBackedUp
  /\ mig.at = "start" /\ mig.id # 0 =>
       mig.id \in DOMAIN backups /\ backups[mig.id].status = "storage_committed"

\* what a step forward has written
RollAs == roll = (IF "roll" \in mig.wrote THEN NewRollout ELSE mig.orig)
RowAs == row = (IF "row" \in mig.wrote THEN mig.to ELSE mig.from)
KidsAs == \A c \in Children : kids[c].off = (IF c \in mig.wrote THEN OffsetAt(NewRollout, kids[c].end)
                                                               ELSE mig.offs[c])
KidsPutBack == \A c \in Children : c \in mig.wrote \/ kids[c].off = mig.offs[c]
UndoFailed == "failed" \in mig.wrote

\* What a step forward finds and leaves.
MigWriting ==
  mig.at \in Writing =>
    /\ WasWhole /\ Todo /\ RollAs /\ RowAs /\ KidsAs /\ ~UndoFailed
    /\ mig.at # "rollout" => "roll" \in mig.wrote
    /\ mig.at \in {"lineage_written", "row", "state_updated", "catalog", "storage_committed"} =>
         mig.todo \subseteq mig.wrote
    /\ mig.at \in {"state_updated", "catalog", "storage_committed"} => "row" \in mig.wrote

\* What a step of the rollback finds and leaves.
MigUndoing ==
  mig.at \in Undoing =>
    /\ WasWhole
    /\ UndoFailed \/ KidsPutBack
    /\ mig.at # "undo_kids" => mig.wrote \cap Children = {}
    /\ mig.at \in {"undo_kids", "undo_cat", "undo_row"} => RowAs
    /\ mig.at \in {"undo_roll", "undone"} => UndoFailed \/ row = mig.from
    /\ mig.at # "undone" => RollAs
    /\ mig.at = "undone" => UndoFailed \/ roll = mig.orig

\* Between two runs a thread is whole or excused; within a migration its steps are as
\* they should be, or it was excused before.
MigTorn ==
  /\ mig.at \in BeforeBackup \cup {"start"} /\ sw.at \in {"none", "planned"} => Excused \/ ThreadWhole
  /\ mig.at \in Writing \cup Undoing => ExcusedBefore \/ (MigWriting /\ MigUndoing)

\* A switch still has to write what does not agree; a run that has its backup is
\* recorded as unfinished, and what it replaces is in that backup.
SwSound ==
  /\ sw.at \in {"planned", "backed"} => sw.put = {}
  /\ sw.at \in {"planned", "backed", "replacing"} /\ sw.kind = "switch" =>
       /\ "row" \in sw.left \/ row = sw.row
       /\ "roll" \in sw.left \/ roll.prov = sw.row
       /\ sw.roll.prov = sw.row
  /\ sw.at \in {"backed", "replacing", "undoing"} =>
       /\ Unfinished(sw.id) /\ backups[sw.id].by = "script"
       /\ sw.left \cup sw.put \subseteq backups[sw.id].holds
  /\ sw.at \in {"replacing", "undoing"} /\ "roll" \in backups[sw.id].holds => AllBackedUp

\* The invariant.
MigInv == MigTypes /\ KidsInside /\ RunsApart /\ HistoryKept /\ MigBackedUp /\ MigTorn /\ SwSound

--------------------
(* What the helpers give.                                                  *)

\* A boundary in a rollout is a number.
LEMMA OffsetIsNat == ASSUME NEW r \in Rollouts, NEW o \in Nat PROVE OffsetAt(r, o) \in Nat
<1>1. IsFiniteSet({x \in r.body : x.ord < o}) BY FS_Subset DEF Rollouts
<1>2. Cardinality({x \in r.body : x.ord < o}) \in Nat BY <1>1, FS_CardinalityType
<1>3. r.head \in Nat BY DEF Rollouts
<1> QED BY <1>2, <1>3 DEF OffsetAt

\* A rollout put together from its parts is one.
LEMMA RolloutTyped ==
  ASSUME NEW p \in ProviderNames, NEW w \in Nat, NEW b \in SUBSET ThreadRecords, IsFiniteSet(b)
  PROVE  Rollout(p, w, b) \in Rollouts /\ Rollout(p, w, b).prov = p
BY DEF Rollouts, Rollout

\* The migration's transformation gives a rollout of the new provider.
LEMMA TransformedTyped ==
  ASSUME NEW r \in Rollouts, NEW p \in ProviderNames
  PROVE  Transformed(r, p) \in Rollouts /\ Transformed(r, p).prov = p
<1> DEFINE kept == {x \in r.body : /\ x.kind # "reasoning"
                                   /\ x.kind = "reference" => Reasons(r) = {}}
<1>1. r.body \in SUBSET ThreadRecords /\ IsFiniteSet(r.body) BY DEF Rollouts
<1>2. kept \in SUBSET ThreadRecords /\ IsFiniteSet(kept) BY <1>1, FS_Subset
<1> HIDE DEF kept
<1>3. Rollout(p, 1, kept) \in Rollouts /\ Rollout(p, 1, kept).prov = p
  BY <1>2, RolloutTyped
<1> QED BY <1>3 DEF Transformed, kept

\* So does the script's.
LEMMA SwitchedTyped ==
  ASSUME NEW r \in Rollouts, NEW p \in ProviderNames
  PROVE  Switched(r, p) \in Rollouts /\ Switched(r, p).prov = p
<1>1. r.body \in SUBSET ThreadRecords /\ IsFiniteSet(r.body) BY DEF Rollouts
<1> QED BY <1>1, RolloutTyped DEF Switched

\* No rollout, no migration and no script run have the types of one.
LEMMA NothingTyped == NoRollout \in Rollouts /\ NoMig \in MigT /\ NoSwitch \in SwT
<1>1. {} \in SUBSET ThreadRecords /\ IsFiniteSet({}) BY FS_EmptySet
<1>2. NoRollout \in Rollouts BY <1>1, RolloutTyped DEF NoRollout, ProviderNames
<1>3. [c \in Children |-> 0] \in OffsetMap BY DEF OffsetMap
<1> QED BY <1>2, <1>3 DEF NoMig, NoSwitch, MigT, SwT, MigAts, ProviderNames, ThreadStores

\* Recording a status changes nothing else of a backup directory, and no other one.
LEMMA MarkedTyped ==
  ASSUME NEW b \in Seq(BackupT), NEW i \in DOMAIN b, NEW s \in Statuses
  PROVE  LET c == [b EXCEPT ![i].status = s]
         IN  /\ c \in Seq(BackupT) /\ DOMAIN c = DOMAIN b /\ c[i].status = s
             /\ \A j \in DOMAIN b : /\ c[j].roll = b[j].roll /\ c[j].holds = b[j].holds
                                    /\ c[j].by = b[j].by
                                    /\ j # i => c[j].status = b[j].status
<1> DEFINE c == [b EXCEPT ![i].status = s]
<1>1. b[i] \in BackupT BY ElementOfSeq
<1>2. [b[i] EXCEPT !.status = s] \in BackupT BY <1>1 DEF BackupT
<1>3. /\ c \in Seq(BackupT) /\ Len(c) = Len(b) /\ c[i] = [b[i] EXCEPT !.status = s]
      /\ \A j \in DOMAIN b : j # i => c[j] = b[j]
  BY <1>2, ExceptSeq
<1>4. DOMAIN c = DOMAIN b BY <1>3
<1>5. LET e == [b[i] EXCEPT !.status = s]
      IN  e.roll = b[i].roll /\ e.holds = b[i].holds /\ e.by = b[i].by /\ e.status = s
  BY <1>1 DEF BackupT
<1> QED BY <1>3, <1>4, <1>5

\* A new backup directory leaves the others as they are.
LEMMA AppendedTyped ==
  ASSUME NEW b \in Seq(BackupT), NEW e \in BackupT
  PROVE  LET c == Append(b, e)
         IN  /\ c \in Seq(BackupT) /\ DOMAIN c = 1 .. (Len(b) + 1) /\ c[Len(b) + 1] = e
             /\ DOMAIN b = 1 .. Len(b) /\ Len(b) \in Nat
             /\ \A j \in DOMAIN b : j \in DOMAIN c /\ c[j] = b[j]
BY AppendProperties, LenProperties

\* The next store to write, or to put back, is one of those left.
LEMMA FirstIsOne == ASSUME NEW s \in SUBSET ThreadStores, s # {} PROVE FirstStore(s) \in s /\ LastStore(s) \in s
BY DEF ThreadStores, FirstStore, LastStore

--------------------
\* The initial states: the types, and children that end at the last record.
LEMMA MigInitTyped == ASSUME MigAssumption, MigInit PROVE MigTypes /\ KidsInside
<1>1. PICK c0 \in {row, "none"}, k \in {"reasoning", "pinned", "sealed"}, q \in {"message", "reference"} :
        cat = c0 /\ roll = Rollout(row, 2, {Record(1, "reasoning"), Record(2, q), Record(3, k)})
  BY DEF MigInit
<1> DEFINE b0 == {Record(1, "reasoning"), Record(2, q), Record(3, k)}
<1>2. row \in ProviderNames /\ conf \in ProviderNames /\ cat \in ProviderNames
  BY <1>1 DEF MigInit, ProviderNames
<1>3. b0 \in SUBSET ThreadRecords BY DEF ThreadRecords, Record, Kinds
<1>4. IsFiniteSet(b0) /\ Cardinality(b0) = 3
  <2> DEFINE s1 == {Record(1, "reasoning")}
             s2 == s1 \cup {Record(2, q)}
  <2>1. IsFiniteSet(s1) /\ Cardinality(s1) = 1 BY FS_Singleton
  <2>2. Record(2, q) \notin s1 BY DEF Record
  <2>4. Record(3, k) \notin s2 BY DEF Record
  <2>5. b0 = s2 \cup {Record(3, k)} /\ s2 = s1 \cup {Record(2, q)} OBVIOUS
  <2> HIDE DEF s1, s2, b0
  <2>3. IsFiniteSet(s1 \cup {Record(2, q)}) /\ Cardinality(s1 \cup {Record(2, q)}) = 1 + 1
    BY <2>1, <2>2, FS_AddElement
  <2>6. IsFiniteSet(s2 \cup {Record(3, k)}) /\ Cardinality(s2 \cup {Record(3, k)}) = 1 + 1 + 1
    BY <2>3, <2>4, <2>5, FS_AddElement
  <2> QED BY <2>5, <2>6
<1>5. roll \in Rollouts /\ roll.body = b0
  BY <1>1, <1>2, <1>3, <1>4, RolloutTyped DEF Rollout
<1>6. ever = b0 BY <1>5 DEF MigInit
<1>7. OffsetAt(roll, 3) \in Nat BY <1>5, OffsetIsNat
<1>8. kids \in [Children -> [end : Nat, off : Nat]] /\ \A c \in Children : kids[c].end = 3
  BY <1>7 DEF MigInit
<1> HIDE DEF b0
<1>9. KidsInside BY <1>4, <1>6, <1>8 DEF KidsInside
<1>10. backups \in Seq(BackupT) BY DEF MigInit
<1>11. mig \in MigT /\ sw \in SwT BY NothingTyped DEF MigInit
<1> QED BY <1>2, <1>3, <1>4, <1>5, <1>6, <1>8, <1>9, <1>10, <1>11 DEF MigTypes, MigInit

\* The initial states: the thread is whole and nothing runs.
LEMMA MigInitSound == ASSUME MigAssumption, MigInit PROVE MigInv
<1>1. MigTypes /\ KidsInside BY MigInitTyped
<1>2. RunsApart /\ MigBackedUp /\ SwSound
  BY DEF MigInit, NoMig, NoSwitch, RunsApart, MigBackedUp, SwSound, BeforeBackup, Writing, Undoing
<1>3. HistoryKept BY DEF MigInit, HistoryKept
<1>4. ThreadWhole
  <2>1. PICK c0 \in {row, "none"}, k \in {"reasoning", "pinned", "sealed"}, q \in {"message", "reference"} :
          roll = Rollout(row, 2, {Record(1, "reasoning"), Record(2, q), Record(3, k)})
    BY DEF MigInit
  <2>2. roll.prov = row BY <2>1 DEF Rollout
  <2>3. Aligned BY DEF MigInit, Aligned
  <2> QED BY <2>2, <2>3 DEF ThreadWhole
<1>5. MigTorn BY <1>4 DEF MigTorn, MigInit, NoMig, Writing, Undoing
<1> QED BY <1>1, <1>2, <1>3, <1>5 DEF MigInv

--------------------
(* Type correctness.                                                       *)

\* the fields of the migration under way
LEMMA MigFields ==
  ASSUME mig \in MigT
  PROVE  /\ mig.at \in MigAts /\ mig.to \in ProviderNames /\ mig.orig \in Rollouts /\ mig.from \in ProviderNames
         /\ mig.catWas \in ProviderNames /\ mig.offs \in OffsetMap /\ mig.todo \in SUBSET Children
         /\ mig.wrote \in SUBSET (Children \cup ThreadStores \cup {"failed"})
         /\ mig.id \in Nat /\ mig.dead \in BOOLEAN
BY DEF MigT

\* A migration that goes on keeps its type.
LEMMA MovesTyped ==
  ASSUME mig \in MigT, NEW a \in MigAts, NEW w \in SUBSET (Children \cup ThreadStores \cup {"failed"})
  PROVE  [mig EXCEPT !.at = a] \in MigT /\ [mig EXCEPT !.at = a, !.wrote = w] \in MigT
         /\ [mig EXCEPT !.wrote = w] \in MigT
BY DEF MigT

\* Types: providers changed, the Host at work, exits and cancellations.
LEMMA SurroundingsTyped ==
  ASSUME MigAssumption, MigTypes, ChangeProvider \/ HostWorks \/ HostToggles \/ ServiceExits
                                  \/ ServiceRestarts \/ Cancel
  PROVE  MigTypes'
<1>1. CASE ChangeProvider
  BY <1>1 DEF ChangeProvider, MigTypes, files, ghosts, ProviderNames
<1>2. CASE HostWorks
  <2>1. CASE turnOn' = ~turnOn /\ UNCHANGED <<roll, ever>>
    BY <1>2, <2>1 DEF HostWorks, MigTypes
  <2>2. CASE \E k \in {"message", "reasoning"} :
               LET x == Record(Cardinality(ever) + 1, k)
               IN  roll' = [roll EXCEPT !.body = @ \cup {x}] /\ ever' = ever \cup {x}
    <3>1. PICK k \in {"message", "reasoning"} :
               /\ roll' = [roll EXCEPT !.body = @ \cup {Record(Cardinality(ever) + 1, k)}]
               /\ ever' = ever \cup {Record(Cardinality(ever) + 1, k)}
      BY <2>2
    <3> DEFINE x == Record(Cardinality(ever) + 1, k)
    <3>2. Cardinality(ever) \in Nat BY FS_CardinalityType DEF MigTypes
    <3>3. x \in ThreadRecords BY <3>2 DEF ThreadRecords, Record, Kinds
    <3> HIDE DEF x
    <3>4. ever' \in SUBSET ThreadRecords /\ IsFiniteSet(ever')
      BY <3>1, <3>3, FS_AddElement DEF MigTypes, x
    <3>5. roll.body \in SUBSET ThreadRecords /\ IsFiniteSet(roll.body)
      BY DEF MigTypes, Rollouts
    <3>6. IsFiniteSet(roll.body \cup {x}) BY <3>5, FS_AddElement
    <3>7. roll' = [roll EXCEPT !.body = roll.body \cup {x}] BY <3>1 DEF x
    <3>8. roll' \in Rollouts BY <3>3, <3>5, <3>6, <3>7 DEF MigTypes, Rollouts
    <3> QED BY <1>2, <2>2, <3>4, <3>8 DEF HostWorks, MigTypes
  <2>3. turnOn' \in BOOLEAN BY <1>2 DEF HostWorks, MigTypes
  <2> QED BY <1>2, <2>1, <2>2 DEF HostWorks
<1>3. CASE HostToggles BY <1>3 DEF HostToggles, MigTypes, files, ghosts
<1>4. CASE ServiceExits
  BY <1>4, NothingTyped DEF ServiceExits, MigMishap, MigTypes, files, ghosts
<1>5. CASE ServiceRestarts BY <1>5 DEF ServiceRestarts, MigTypes, files, ghosts
<1>6. CASE Cancel
  <2>1. [mig EXCEPT !.dead = TRUE] \in MigT BY DEF MigTypes, MigT
  <2> QED BY <1>6, <2>1 DEF Cancel, MigMishap, MigTypes, files, ghosts
<1> QED BY <1>1, <1>2, <1>3, <1>4, <1>5, <1>6

\* Types: the start of a migration.
LEMMA StartTyped ==
  ASSUME MigAssumption, MigTypes, Prepare \/ CheckIdle \/ StopForMigration \/ ReadThread
  PROVE  MigTypes'
<1>1. CASE Prepare
  BY NothingTyped, <1>1 DEF MigTypes, MigT, MigAts, Prepare, files, ghosts
<1>2. CASE CheckIdle
  <2>1. [mig EXCEPT !.at = "stop"] \in MigT BY DEF MigTypes, MigT, MigAts
  <2> QED BY <1>2, <2>1, NothingTyped DEF CheckIdle, MigTypes, files, ghosts
<1>3. CASE StopForMigration
  <2>1. [mig EXCEPT !.at = "read"] \in MigT BY DEF MigTypes, MigT, MigAts
  <2>2. CASE /\ hostUp' = FALSE /\ turnOn' = FALSE /\ mig' = [mig EXCEPT !.at = "read"]
             /\ UNCHANGED <<migGate, migMishaps>>
    BY <1>3, <2>1, <2>2 DEF StopForMigration, MigTypes, files, ghosts
  <2>3. CASE MigMishap /\ mig' = NoMig /\ migGate' = "failed" /\ UNCHANGED <<hostUp, turnOn>>
    BY <1>3, <2>3, NothingTyped DEF StopForMigration, MigMishap, MigTypes, files, ghosts
  <2> QED BY <1>3, <2>2, <2>3 DEF StopForMigration
<1>4. CASE ReadThread
  <2>1. [mig EXCEPT !.at = "start"] \in MigT BY DEF MigTypes, MigT, MigAts
  <2> DEFINE o == [c \in Children |-> kids[c].off]
             t == Repairs(Transformed(roll, mig.to))
  <2>2. o \in OffsetMap BY DEF MigTypes, OffsetMap
  <2>3. t \in SUBSET Children BY DEF Repairs
  <2> HIDE DEF o, t
  <2>4. [mig EXCEPT !.at = "backup", !.orig = roll, !.from = row, !.catWas = cat, !.offs = o,
                    !.todo = t] \in MigT
    BY <2>2, <2>3 DEF MigTypes, MigT, MigAts
  <2>5. mig' \in MigT BY <1>4, <2>1, <2>4 DEF ReadThread, To, o, t
  <2> QED BY <1>4, <2>5 DEF ReadThread, MigTypes, files, ghosts
<1> QED BY <1>1, <1>2, <1>3, <1>4

\* Types: the steps that write.
LEMMA WritingTyped ==
  ASSUME MigAssumption, MigInv, WriteBackups \/ WriteRollout \/ RecordStatus \/ WriteLineage
                                \/ UpdateRow \/ UpdateCatalog
  PROVE  MigTypes'
<1> USE DEF MigInv
<1>0. mig \in MigT BY DEF MigTypes
<1>m. mig.wrote \in SUBSET (Children \cup ThreadStores \cup {"failed"}) /\ mig.at \in MigAts
  BY <1>0, MigFields
<1>a. \A a \in MigAts : [mig EXCEPT !.at = a] \in MigT BY <1>0, <1>m, MovesTyped
<1>1. CASE WriteBackups
  <2> DEFINE b == Backup("weclaw", mig.orig, mig.from, mig.catWas, mig.offs, "prepared",
                         {"roll", "kids"})
  <2>1. b \in BackupT BY <1>0, MigFields DEF Backup, BackupT, Statuses, ThreadStores
  <2> HIDE DEF b
  <2>2. Append(backups, b) \in Seq(BackupT) /\ Len(backups) + 1 \in Nat
    BY <2>1, AppendedTyped DEF MigTypes
  <2>3. backups' \in Seq(BackupT) BY <1>1, <2>2 DEF WriteBackups, b, MigTypes
  <2>4. \A n \in Nat : [mig EXCEPT !.at = "rollout", !.id = n] \in MigT
    BY <1>0 DEF MigT, MigAts
  <2>5. mig' \in MigT BY <1>1, <1>a, <2>2, <2>4 DEF WriteBackups, To, MigAts
  <2> QED BY <1>1, <2>3, <2>5 DEF WriteBackups, MigMishap, MigTypes, files, ghosts
<1>2. CASE WriteRollout
  <2>1. Transformed(mig.orig, mig.to) \in Rollouts BY <1>0, MigFields, TransformedTyped
  <2>2. mig.wrote \cup {"roll"} \in SUBSET (Children \cup ThreadStores \cup {"failed"})
    BY <1>m DEF ThreadStores
  <2>3. [mig EXCEPT !.at = "rollout_written", !.wrote = mig.wrote \cup {"roll"}] \in MigT
    BY <1>0, <2>2, MovesTyped DEF MigAts
  <2>4. mig' \in MigT BY <1>2, <1>a, <2>3 DEF WriteRollout, To, MigAts
  <2> QED BY <1>2, <2>1, <2>4 DEF WriteRollout, MigMishap, MigTypes, ghosts
<1>3. CASE RecordStatus
  <2>1. mig.at \in {"rollout_written", "lineage_written", "state_updated", "storage_committed"}
    BY <1>3 DEF RecordStatus, Following
  <2>2. mig.at \in Statuses /\ Following[mig.at] \in MigAts
    BY <2>1 DEF Statuses, Following, MigAts
  <2>3. mig.id \in DOMAIN backups BY <2>1 DEF MigBackedUp, Writing, Unfinished
  <2>4. [backups EXCEPT ![mig.id].status = mig.at] \in Seq(BackupT)
    BY <2>2, <2>3, MarkedTyped DEF MigTypes
  <2>5. backups' \in Seq(BackupT) BY <1>3, <2>4 DEF RecordStatus, MigTypes
  <2>6. mig' \in MigT BY <1>3, <1>a, <2>2 DEF RecordStatus, To, MigAts
  <2> QED BY <1>3, <2>5, <2>6 DEF RecordStatus, MigMishap, MigTypes, files, ghosts
<1>4. CASE WriteLineage
  <2>1. ASSUME NEW c \in mig.todo \ mig.wrote,
               kids' = [kids EXCEPT ![c].off = OffsetAt(roll, kids[c].end)]
        PROVE  kids' \in [Children -> [end : Nat, off : Nat]]
    BY <1>0, MigFields, OffsetIsNat, <2>1 DEF MigTypes
  <2>2. ASSUME NEW c \in mig.todo \ mig.wrote
        PROVE  [mig EXCEPT !.wrote = mig.wrote \cup {c}] \in MigT
    BY <1>0, <1>m, MigFields, MovesTyped
  <2>3. mig' \in MigT BY <1>4, <1>a, <2>2 DEF WriteLineage, To, MigAts
  <2>4. kids' \in [Children -> [end : Nat, off : Nat]]
    BY <1>4, <2>1 DEF WriteLineage, MigTypes
  <2> QED BY <1>4, <2>3, <2>4 DEF WriteLineage, MigMishap, MigTypes, ghosts
<1>5. CASE UpdateRow
  <2>1. mig.wrote \cup {"row"} \in SUBSET (Children \cup ThreadStores \cup {"failed"})
    BY <1>m DEF ThreadStores
  <2>2. [mig EXCEPT !.at = "state_updated", !.wrote = mig.wrote \cup {"row"}] \in MigT
    BY <1>0, <2>1, MovesTyped DEF MigAts
  <2>3. mig' \in MigT BY <1>5, <1>a, <2>2 DEF UpdateRow, CallsDatabase, To, MigAts
  <2>4. row' \in {row, mig.to} /\ unseen' \in {unseen, TRUE}
        /\ migMishaps' \in {migMishaps, migMishaps + 1}
    BY <1>5 DEF UpdateRow, CallsDatabase, MigMishap
  <2>5. row' \in ProviderNames /\ unseen' \in BOOLEAN /\ migMishaps' \in Nat
    <3>1. row' \in ProviderNames /\ migMishaps' \in Nat
      BY <2>4, <1>0, MigFields DEF MigTypes
    <3>2. unseen' \in BOOLEAN BY <2>4, Zenon DEF MigTypes
    <3> QED BY <3>1, <3>2
  <2> QED BY <1>5, <2>3, <2>5 DEF UpdateRow, MigTypes
<1>6. CASE UpdateCatalog
  <2>1. mig.wrote \cup {"cat"} \in SUBSET (Children \cup ThreadStores \cup {"failed"})
    BY <1>m DEF ThreadStores
  <2>2. [mig EXCEPT !.at = "storage_committed", !.wrote = mig.wrote \cup {"cat"}] \in MigT
    BY <1>0, <2>1, MovesTyped DEF MigAts
  <2>3. mig' \in MigT BY <1>6, <1>a, <2>2 DEF UpdateCatalog, CallsDatabase, To, MigAts
  <2>4. cat' \in {cat, mig.to} /\ unseen' \in {unseen, TRUE}
        /\ migMishaps' \in {migMishaps, migMishaps + 1}
    BY <1>6 DEF UpdateCatalog, CallsDatabase, MigMishap
  <2>5. cat' \in ProviderNames /\ unseen' \in BOOLEAN /\ migMishaps' \in Nat
    <3>1. cat' \in ProviderNames /\ migMishaps' \in Nat
      BY <2>4, <1>0, MigFields DEF MigTypes
    <3>2. unseen' \in BOOLEAN BY <2>4, Zenon DEF MigTypes
    <3> QED BY <3>1, <3>2
  <2> QED BY <1>6, <2>3, <2>5 DEF UpdateCatalog, MigTypes
<1> QED BY <1>1, <1>2, <1>3, <1>4, <1>5, <1>6

\* Types: the rollback and the end.
LEMMA UndoingTyped ==
  ASSUME MigAssumption, MigInv, UndoLineage \/ UndoCatalog \/ UndoRow \/ UndoRollout
                                \/ RecordRollback \/ FinishPrepare
  PROVE  MigTypes'
<1> USE DEF MigInv
<1>0. mig \in MigT BY DEF MigTypes
<1>m. mig.wrote \in SUBSET (Children \cup ThreadStores \cup {"failed"}) /\ mig.at \in MigAts
  BY <1>0, MigFields
<1>a. \A a \in MigAts : [mig EXCEPT !.at = a] \in MigT BY <1>0, <1>m, MovesTyped
<1>f. \A a \in MigAts : [mig EXCEPT !.at = a, !.wrote = mig.wrote \cup {"failed"}] \in MigT
  BY <1>m, <1>0, MovesTyped
<1>1. CASE UndoLineage
  <2>1. ASSUME NEW c \in Undone, kids' = [kids EXCEPT ![c].off = mig.offs[c]]
        PROVE  kids' \in [Children -> [end : Nat, off : Nat]]
    BY <1>0, MigFields, <2>1 DEF Undone, OffsetMap, MigTypes
  <2>2. ASSUME NEW c \in Undone
        PROVE  /\ [mig EXCEPT !.wrote = mig.wrote \ {c}] \in MigT
               /\ [mig EXCEPT !.wrote = (mig.wrote \ {c}) \cup {"failed"}] \in MigT
    BY <1>m, <1>0, MovesTyped
  <2>3. mig' \in MigT BY <1>1, <1>a, <2>2 DEF UndoLineage, To, MigAts
  <2>4. kids' \in [Children -> [end : Nat, off : Nat]]
    BY <1>1, <2>1 DEF UndoLineage, MigTypes
  <2> QED BY <1>1, <2>3, <2>4 DEF UndoLineage, MigMishap, MigTypes, ghosts
<1>2. CASE UndoCatalog
  <2>1. mig' \in MigT
    BY <1>2, <1>a, <1>f DEF UndoCatalog, CallsDatabase, After, Missed, MigAts
  <2>2. cat' \in {cat, mig.catWas} /\ unseen' \in {unseen, TRUE}
        /\ migMishaps' \in {migMishaps, migMishaps + 1}
    BY <1>2 DEF UndoCatalog, CallsDatabase, MigMishap
  <2>3. cat' \in ProviderNames /\ unseen' \in BOOLEAN /\ migMishaps' \in Nat
    <3>1. cat' \in ProviderNames /\ migMishaps' \in Nat
      BY <2>2, <1>0, MigFields DEF MigTypes
    <3>2. unseen' \in BOOLEAN BY <2>2, Zenon DEF MigTypes
    <3> QED BY <3>1, <3>2
  <2> QED BY <1>2, <2>1, <2>3 DEF UndoCatalog, MigTypes
<1>3. CASE UndoRow
  <2>1. mig' \in MigT
    BY <1>3, <1>a, <1>f DEF UndoRow, CallsDatabase, After, Missed, MigAts
  <2>2. row' \in {row, mig.from} /\ unseen' \in {unseen, TRUE}
        /\ migMishaps' \in {migMishaps, migMishaps + 1}
    BY <1>3 DEF UndoRow, CallsDatabase, MigMishap
  <2>3. row' \in ProviderNames /\ unseen' \in BOOLEAN /\ migMishaps' \in Nat
    <3>1. row' \in ProviderNames /\ migMishaps' \in Nat
      BY <2>2, <1>0, MigFields DEF MigTypes
    <3>2. unseen' \in BOOLEAN BY <2>2, Zenon DEF MigTypes
    <3> QED BY <3>1, <3>2
  <2> QED BY <1>3, <2>1, <2>3 DEF UndoRow, MigTypes
<1>4. CASE UndoRollout
  <2>1. mig' \in MigT BY <1>4, <1>a, <1>f DEF UndoRollout, After, Missed, MigAts
  <2>2. roll' \in {roll, mig.orig} /\ migMishaps' \in {migMishaps, migMishaps + 1}
    BY <1>4 DEF UndoRollout, MigMishap
  <2>3. roll' \in Rollouts /\ migMishaps' \in Nat BY <2>2, <1>0, MigFields DEF MigTypes
  <2> QED BY <1>4, <2>1, <2>3 DEF UndoRollout, MigTypes, ghosts
<1>5. CASE RecordRollback
  <2>1. mig.id \in DOMAIN backups
    BY <1>5 DEF RecordRollback, MigBackedUp, Undoing, Unfinished
  <2>2. [backups EXCEPT ![mig.id].status = RollbackStatus] \in Seq(BackupT)
    BY <2>1, MarkedTyped DEF MigTypes, RollbackStatus, Statuses
  <2>3. backups' \in Seq(BackupT) BY <1>5, <2>2 DEF RecordRollback, MigTypes
  <2>4. mig' \in MigT BY <1>5, <1>0 DEF RecordRollback, MigT, MigAts
  <2> QED BY <1>5, <2>3, <2>4 DEF RecordRollback, MigMishap, MigTypes, files, ghosts
<1>6. CASE FinishPrepare
  <2>1. mig.id # 0 => [backups EXCEPT ![mig.id].status = "verified"] \in Seq(BackupT)
    <3>1. SUFFICES ASSUME mig.id # 0
                   PROVE  [backups EXCEPT ![mig.id].status = "verified"] \in Seq(BackupT)
      OBVIOUS
    <3>2. mig.id \in DOMAIN backups BY <1>6, <3>1 DEF FinishPrepare, MigBackedUp
    <3> QED BY <3>2, MarkedTyped DEF MigTypes, Statuses
  <2>2. backups' \in Seq(BackupT) BY <1>6, <2>1 DEF FinishPrepare, MigTypes
  <2>3. hostUp' \in BOOLEAN /\ migGate' \in {"open", "closed", "failed"} /\ migMishaps' \in Nat
    <3>1. hostUp' \in {TRUE, hostUp, mig.id # 0} BY <1>6 DEF FinishPrepare
    <3>2. hostUp' \in BOOLEAN BY <3>1, Zenon DEF MigTypes
    <3>3. migGate' \in {"open", "closed", "failed"} BY <1>6 DEF FinishPrepare
    <3>4. migMishaps' \in {migMishaps, migMishaps + 1}
      BY <1>6 DEF FinishPrepare, MigMishap
    <3> QED BY <3>2, <3>3, <3>4 DEF MigTypes
  <2> QED BY <1>6, <2>2, <2>3, NothingTyped DEF FinishPrepare, MigTypes, files, ghosts
<1> QED BY <1>1, <1>2, <1>3, <1>4, <1>5, <1>6

\* Types: the script.
LEMMA ScriptTyped ==
  ASSUME MigAssumption, MigInv, PlanSwitch \/ PlanRestore \/ MakeBackup \/ CheckSources
                                \/ ReplaceFile \/ UndoReplace \/ FinishReplace \/ ScriptKilled
  PROVE  MigTypes'
<1> USE DEF MigInv
<1>0. sw \in SwT /\ NoSwitch \in SwT /\ backups \in Seq(BackupT)
  BY NothingTyped DEF MigTypes
<1>b. \A i \in DOMAIN backups : backups[i] \in BackupT BY <1>0, ElementOfSeq
<1>s. sw.at \in {"backed", "replacing", "undoing"} => sw.id \in DOMAIN backups
  BY DEF SwSound, Unfinished
<1>m. sw.at \in {"backed", "replacing", "undoing"} =>
        \A s \in {"failed", "applied"} : [backups EXCEPT ![sw.id].status = s] \in Seq(BackupT)
  <2> SUFFICES ASSUME sw.at \in {"backed", "replacing", "undoing"}, NEW s \in {"failed", "applied"}
               PROVE  [backups EXCEPT ![sw.id].status = s] \in Seq(BackupT)
    OBVIOUS
  <2>1. s \in Statuses BY DEF Statuses
  <2> QED BY <1>0, <1>s, <2>1, MarkedTyped
<1>1. CASE PlanSwitch
  <2>1. PICK p \in Providers :
          LET new == [NoSwitch EXCEPT !.at = "planned", !.roll = Switched(roll, p), !.row = p,
                                      !.cat = IF cat = "none" THEN "none" ELSE p]
          IN  sw' = [new EXCEPT !.left = Changed(new)]
    BY <1>1 DEF PlanSwitch
  <2> DEFINE new == [NoSwitch EXCEPT !.at = "planned", !.roll = Switched(roll, p), !.row = p,
                                     !.cat = IF cat = "none" THEN "none" ELSE p]
  <2>2. p \in ProviderNames /\ Switched(roll, p) \in Rollouts /\ (IF cat = "none" THEN "none" ELSE p) \in ProviderNames
    BY SwitchedTyped DEF MigTypes, ProviderNames
  <2>3. new \in SwT BY <1>0, <2>2 DEF SwT
  <2>4. Changed(new) \in SUBSET ThreadStores BY DEF Changed
  <2>5. sw' = [new EXCEPT !.left = Changed(new)] BY <2>1
  <2> HIDE DEF new
  <2>6. sw' \in SwT BY <2>3, <2>4, <2>5 DEF SwT
  <2> QED BY <1>1, <2>6 DEF PlanSwitch, MigTypes, files, ghosts
<1>2. CASE PlanRestore
  <2>1. PICK i \in DOMAIN backups :
          sw' = [NoSwitch EXCEPT !.at = "planned", !.kind = "restore", !.roll = backups[i].roll,
                                 !.row = backups[i].row, !.cat = backups[i].cat,
                                 !.left = ThreadStores \cap backups[i].holds]
    BY <1>2 DEF PlanRestore
  <2>2. backups[i].roll \in Rollouts /\ backups[i].row \in ProviderNames /\ backups[i].cat \in ProviderNames
    BY <1>b DEF BackupT
  <2>3. sw' \in SwT BY <1>0, <2>1, <2>2 DEF SwT
  <2> QED BY <1>2, <2>3 DEF PlanRestore, MigTypes, files, ghosts
<1>3. CASE MakeBackup
  <2> DEFINE b == Backup("script", roll, row, cat, NoMig.offs, "backup-verified", sw.left)
  <2>1. b \in BackupT
    BY <1>0, NothingTyped DEF MigTypes, MigT, SwT, Backup, BackupT, Statuses
  <2> HIDE DEF b
  <2>2. Append(backups, b) \in Seq(BackupT) /\ Len(backups) + 1 \in Nat
    BY <1>0, <2>1, AppendedTyped
  <2>3. \A n \in Nat : [sw EXCEPT !.at = "backed", !.id = n] \in SwT BY <1>0 DEF SwT
  <2>4. sw' \in SwT /\ backups' \in Seq(BackupT)
    BY <1>0, <1>3, <2>2, <2>3 DEF MakeBackup, b
  <2> QED BY <1>3, <2>4 DEF MakeBackup, MigTypes, files, ghosts
<1>4. CASE CheckSources
  BY <1>0, <1>4, <1>m DEF SwT, CheckSources, MigTypes, files, ghosts
<1>5. CASE ReplaceFile
  <2>1. [sw EXCEPT !.at = "undoing"] \in SwT BY <1>0 DEF SwT
  <2>2. sw.left # {} => [sw EXCEPT !.left = sw.left \ {FirstStore(sw.left)},
                                   !.put = sw.put \cup {FirstStore(sw.left)}] \in SwT
    BY <1>0, FirstIsOne DEF SwT
  <2>3. sw' \in SwT BY <1>5, <2>1, <2>2 DEF ReplaceFile
  <2>4. row' \in {row, sw.row} /\ cat' \in {cat, sw.cat} /\ roll' \in {roll, sw.roll}
        /\ migMishaps' \in {migMishaps, migMishaps + 1}
    BY <1>5 DEF ReplaceFile, Put, MigMishap
  <2>5. row' \in ProviderNames /\ cat' \in ProviderNames /\ roll' \in Rollouts /\ migMishaps' \in Nat
    BY <1>0, <2>4 DEF MigTypes, SwT
  <2> QED BY <1>5, <2>3, <2>5 DEF ReplaceFile, MigTypes, ghosts
<1>6. CASE UndoReplace
  <2>0. backups[sw.id] \in BackupT BY <1>6, <1>b, <1>s DEF UndoReplace
  <2>2. [sw EXCEPT !.put = sw.put \ {LastStore(sw.put)}] \in SwT BY <1>0 DEF SwT
  <2>3. sw' \in SwT /\ backups' \in Seq(BackupT)
    BY <1>0, <1>6, <1>m, <2>2 DEF UndoReplace
  <2>4. row' \in {row, backups[sw.id].row} /\ cat' \in {cat, backups[sw.id].cat}
        /\ roll' \in {roll, backups[sw.id].roll} /\ migMishaps' \in {migMishaps, migMishaps + 1}
    BY <1>6 DEF UndoReplace, Put, MigMishap
  <2>5. row' \in ProviderNames /\ cat' \in ProviderNames /\ roll' \in Rollouts /\ migMishaps' \in Nat
    BY <2>0, <2>4 DEF MigTypes, BackupT
  <2> QED BY <1>6, <2>3, <2>5 DEF UndoReplace, MigTypes, ghosts
<1>7. CASE FinishReplace BY <1>0, <1>7, <1>m DEF FinishReplace, MigTypes, files
<1>8. CASE ScriptKilled BY <1>0, <1>8 DEF ScriptKilled, MigTypes, MigMishap, files
<1> QED BY <1>1, <1>2, <1>3, <1>4, <1>5, <1>6, <1>7, <1>8

--------------------
(* What a step leaves as it was.                                           *)

\* the backup directories stay, with what they hold
BackupsStay == \A j \in DOMAIN backups :
           /\ j \in DOMAIN backups' /\ backups'[j].roll = backups[j].roll
           /\ backups'[j].holds = backups[j].holds /\ backups'[j].by = backups[j].by
MarksOnly(n) == \A j \in DOMAIN backups : j # n => backups'[j].status = backups[j].status
NothingForgiven == (unseen => unseen') /\ (restores => restores')

\* the migration goes on with what it has read
SameRest == /\ mig'.to = mig.to /\ mig'.orig = mig.orig /\ mig'.from = mig.from
            /\ mig'.offs = mig.offs /\ mig'.todo = mig.todo /\ mig'.id = mig.id
Goes(a, w) == mig'.at = a /\ mig'.wrote = w /\ SameRest

\* The three ways a step moves the migration on.
LEMMA MigGoes ==
  ASSUME mig \in MigT, NEW a, NEW w
  PROVE  /\ mig' = [mig EXCEPT !.at = a] => Goes(a, mig.wrote)
         /\ mig' = [mig EXCEPT !.at = a, !.wrote = w] => Goes(a, w)
         /\ mig' = [mig EXCEPT !.wrote = w] => Goes(mig.at, w)
BY DEF MigT, Goes, SameRest

\* Backups left alone stay.
LEMMA SameStay == ASSUME UNCHANGED backups, NEW n PROVE BackupsStay /\ MarksOnly(n)
BY DEF BackupsStay, MarksOnly

\* A status recorded leaves the backups what they hold.
LEMMA MarkStay ==
  ASSUME backups \in Seq(BackupT), NEW n \in DOMAIN backups, NEW s \in Statuses,
         backups' = [backups EXCEPT ![n].status = s]
  PROVE  BackupsStay /\ MarksOnly(n) /\ n \in DOMAIN backups' /\ backups'[n].status = s
BY MarkedTyped DEF BackupsStay, MarksOnly

\* So does a new backup directory.
LEMMA AppendStay ==
  ASSUME backups \in Seq(BackupT), NEW e \in BackupT, backups' = Append(backups, e), NEW n
  PROVE  /\ BackupsStay /\ MarksOnly(n) /\ Len(backups) + 1 \in DOMAIN backups'
         /\ backups'[Len(backups) + 1] = e /\ Len(backups) + 1 \notin DOMAIN backups
         /\ Len(backups) + 1 \in Nat
BY AppendedTyped DEF BackupsStay, MarksOnly

\* While the backups stay, what they hold stays held.
LEMMA StayKeeps ==
  ASSUME BackupsStay, UNCHANGED ever
  PROVE  /\ AllBackedUp => AllBackedUp'
         /\ Scripted => Scripted'
         /\ AllBackedUp' => HistoryKept'
         /\ (HistoryKept /\ UNCHANGED roll) => HistoryKept'
BY DEF BackupsStay, AllBackedUp, Holds, Scripted, HistoryKept

\* An excuse is not taken back by a step that records at most its own status.
LEMMA ExcusedStays ==
  ASSUME BackupsStay, NothingForgiven
  PROVE  /\ (MarksOnly(0) /\ 0 \notin DOMAIN backups /\ Excused) => Excused'
         /\ (MarksOnly(mig.id) /\ ExcusedBefore) => Excused'
         /\ (MarksOnly(mig.id) /\ ExcusedBefore /\ mig'.id = mig.id) => ExcusedBefore'
         /\ (MarksOnly(0) /\ 0 \notin DOMAIN backups /\ Excused /\ mig'.id \notin DOMAIN backups)
              => ExcusedBefore'
BY DEF BackupsStay, MarksOnly, NothingForgiven, Excused, ExcusedBefore, Unfinished

\* A backup directory recorded as unfinished excuses.
LEMMA MarkedExcuses == ASSUME NEW n, Unfinished(n)' PROVE Excused'
BY DEF Excused, Unfinished

\* No backup directory has the number of a migration without one.
LEMMA ZeroIsNone == ASSUME backups \in Seq(BackupT) PROVE 0 \notin DOMAIN backups
BY LenProperties

\* What the migration has read does not change under it.
LEMMA WasStays ==
  ASSUME SameRest, BackupsStay, \A c \in Children : kids'[c].end = kids[c].end
  PROVE  NewRollout' = NewRollout /\ (WasWhole => WasWhole') /\ (Todo => Todo')
<1>1. NewRollout' = NewRollout BY DEF NewRollout, SameRest
<1>2. Scripted => Scripted' BY DEF Scripted, BackupsStay
<1>3. Todo => Todo' BY <1>1 DEF Todo, SameRest
<1>4. WasWhole => WasWhole' BY <1>2 DEF WasWhole, SameRest
<1> QED BY <1>1, <1>3, <1>4

\* Offsets may move; where a child ends does not.
LEMMA StillInside ==
  ASSUME MigInv, UNCHANGED ever, \A c \in Children : kids'[c].end = kids[c].end
  PROVE  KidsInside'
BY DEF MigInv, KidsInside

\* Without a script run there is nothing to show about it.
LEMMA NoScript == ASSUME sw'.at = "none" PROVE SwSound'
BY DEF SwSound

\* a step that touches neither the files nor the records
LEMMA NothingMoves ==
  ASSUME MigInv, UNCHANGED <<files, backups, sw, ghosts>>, Goes(mig.at, mig.wrote)
  PROVE  (KidsInside /\ HistoryKept /\ MigBackedUp /\ MigTorn /\ SwSound)'
<1> USE DEF MigInv, files, ghosts
<1>1. KidsInside' /\ HistoryKept' BY DEF KidsInside, HistoryKept
<1>2. NewRollout' = NewRollout BY DEF Goes, SameRest, NewRollout
<1>3. AllBackedUp' = AllBackedUp /\ Excused' = Excused /\ ExcusedBefore' = ExcusedBefore /\ Scripted' = Scripted
  BY DEF AllBackedUp, Holds, Excused, ExcusedBefore, Unfinished, Scripted, Goes, SameRest
<1>4. Aligned' = Aligned /\ ThreadWhole' = ThreadWhole BY <1>3 DEF Aligned, ThreadWhole
<1>5. Todo' = Todo /\ WasWhole' = WasWhole
  BY <1>2, <1>3 DEF Todo, WasWhole, Goes, SameRest
<1>6. MigBackedUp' BY <1>3, <1>5 DEF MigBackedUp, Unfinished, Goes, SameRest
<1>7. /\ RollAs' = RollAs /\ RowAs' = RowAs /\ KidsAs' = KidsAs /\ KidsPutBack' = KidsPutBack
      /\ UndoFailed' = UndoFailed
  BY <1>2 DEF RollAs, RowAs, KidsAs, KidsPutBack, UndoFailed, Goes, SameRest
<1>8. (MigWriting => MigWriting') /\ (MigUndoing => MigUndoing')
  BY <1>5, <1>7 DEF MigWriting, MigUndoing, Goes, SameRest
<1>9. MigTorn' BY <1>3, <1>4, <1>8 DEF MigTorn, Goes
<1>10. SwSound' BY <1>3 DEF SwSound, Unfinished
<1> QED BY <1>1, <1>6, <1>9, <1>10

\* The invariant after a step, its types apart.
MigRest == (KidsInside /\ RunsApart /\ HistoryKept /\ MigBackedUp /\ MigTorn /\ SwSound)'

--------------------
(* The surroundings and the start of a migration.                          *)

\* The Host adds a record: no child ends past it (a turn of codex app-server).
LEMMA HostWorksSound == ASSUME MigAssumption, MigInv, HostWorks PROVE MigRest
<1> USE DEF MigInv
<1>1. CASE turnOn' = ~turnOn /\ UNCHANGED <<roll, ever>>
  BY <1>1, NothingMoves DEF HostWorks, files, ghosts, Goes, SameRest, RunsApart, MigRest
<1>2. CASE \E k \in {"message", "reasoning"} :
             LET x == Record(Cardinality(ever) + 1, k)
             IN  roll' = [roll EXCEPT !.body = @ \cup {x}] /\ ever' = ever \cup {x}
  <2>1. PICK x : /\ x.ord = Cardinality(ever) + 1
                 /\ roll' = [roll EXCEPT !.body = roll.body \cup {x}] /\ ever' = ever \cup {x}
    BY <1>2 DEF Record
  <2>2. roll \in Rollouts /\ IsFiniteSet(ever) /\ Cardinality(ever) \in Nat
    BY FS_CardinalityType DEF MigTypes
  <2>3. roll'.prov = roll.prov /\ roll'.head = roll.head /\ roll'.body = roll.body \cup {x}
    BY <2>1, <2>2 DEF Rollouts
  <2>4. Cardinality(ever) <= Cardinality(ever') /\ Cardinality(ever') \in Nat
    <3>1. Cardinality(ever \cup {x}) = IF x \in ever THEN Cardinality(ever) ELSE Cardinality(ever) + 1
      BY <2>2, FS_AddElement
    <3> QED BY <2>1, <2>2, <3>1
  <2>5. UNCHANGED <<row, cat, kids, backups, mig, sw, unseen, restores, hostUp>>
    BY DEF HostWorks
  <2>6. \A c \in Children : kids[c].end \in Nat /\ kids[c].end <= Cardinality(ever) + 1
    BY DEF MigTypes, KidsInside
  <2>7. KidsInside' BY <2>2, <2>4, <2>5, <2>6 DEF KidsInside
  <2>8. mig.at \in {"none", "check", "stop"} /\ sw.at \notin {"replacing", "undoing"}
    BY DEF HostWorks, RunsApart
  <2>9. RunsApart' BY <2>5 DEF RunsApart
  <2>10. HistoryKept' BY <2>1, <2>3, <2>5 DEF HistoryKept
  <2>11. MigBackedUp' BY <2>5, <2>8 DEF MigBackedUp, BeforeBackup, Writing, Undoing
  <2>12. ASSUME NEW c \in Children PROVE OffsetAt(roll', kids[c].end) = OffsetAt(roll, kids[c].end)
    <3>1. ~(x.ord < kids[c].end) BY <2>1, <2>2, <2>6
    <3>2. {y \in roll'.body : y.ord < kids[c].end} = {y \in roll.body : y.ord < kids[c].end}
      BY <2>3, <3>1
    <3> QED BY <2>3, <3>2 DEF OffsetAt
  <2>13. Aligned => Aligned' BY <2>5, <2>12 DEF Aligned
  <2>14. Scripted' = Scripted /\ Excused' = Excused
    BY <2>5 DEF Scripted, Excused, Unfinished
  <2>15. MigTorn'
    BY <2>3, <2>5, <2>8, <2>13, <2>14 DEF MigTorn, ThreadWhole, BeforeBackup, Writing, Undoing
  <2>16. SwSound' BY <2>3, <2>5, <2>8 DEF SwSound, Unfinished
  <2> QED BY <2>7, <2>9, <2>10, <2>11, <2>15, <2>16 DEF MigRest
<1> QED BY <1>1, <1>2 DEF HostWorks

\* The provider changed, the Host stopped or started, the service gone or back, the
\* request cancelled.
LEMMA SurroundingsSound ==
  ASSUME MigAssumption, MigInv, ChangeProvider \/ HostToggles \/ ServiceExits \/ ServiceRestarts
                                \/ Cancel
  PROVE  MigRest
<1> USE DEF MigInv
<1>1. CASE ChangeProvider \/ HostToggles \/ ServiceRestarts
  BY <1>1, NothingMoves DEF ChangeProvider, HostToggles, ServiceRestarts, Goes, SameRest, RunsApart, Quiet, MigRest
<1>2. CASE Cancel
  BY <1>2, NothingMoves DEF Cancel, Goes, SameRest, MigTypes, MigT, RunsApart, MigRest
<1>3. CASE ServiceExits
  <2>1. sw.at = "none" /\ sw' = sw /\ mig'.at = "none" /\ mig'.id = 0 /\ mig'.wrote = {}
    BY <1>3 DEF ServiceExits, RunsApart, NoMig
  <2>2. UNCHANGED <<roll, row, kids, backups, ever, unseen, restores>>
    BY <1>3 DEF ServiceExits, files, ghosts
  <2>3. KidsInside' /\ HistoryKept' /\ RunsApart'
    BY <2>1, <2>2 DEF KidsInside, HistoryKept, RunsApart
  <2>4. MigBackedUp' BY <2>1 DEF MigBackedUp, BeforeBackup, Writing, Undoing
  <2>5. SwSound' BY <2>1, NoScript
  <2>6. Excused' = Excused /\ ThreadWhole' = ThreadWhole
    BY <2>2 DEF Excused, Unfinished, ThreadWhole, Aligned, Scripted
  <2>7. Excused \/ ThreadWhole
    BY <2>1 DEF MigTorn, MigBackedUp, Excused, Unfinished, MigTypes, MigT, MigAts, BeforeBackup, Writing, Undoing
  <2>8. MigTorn' BY <2>1, <2>6, <2>7 DEF MigTorn, Writing, Undoing
  <2> QED BY <2>3, <2>4, <2>5, <2>8 DEF MigRest
<1> QED BY <1>1, <1>2, <1>3

\* The migration starts, checks, stops the Host and reads the thread
\* (prepareCodexThreadProviderLocked).
LEMMA StartSound ==
  ASSUME MigAssumption, MigInv, Prepare \/ CheckIdle \/ StopForMigration \/ ReadThread
  PROVE  MigRest
<1> USE DEF MigInv
<1>1. UNCHANGED <<roll, row, kids, backups, sw, ever, unseen, restores>>
  BY DEF Prepare, CheckIdle, StopForMigration, ReadThread, files, ghosts
<1>2. mig.at \in {"none", "check", "stop", "read"} /\ sw.at = "none"
  BY DEF Prepare, CheckIdle, StopForMigration, ReadThread, RunsApart
<1>3. Excused \/ ThreadWhole BY <1>2 DEF MigTorn, BeforeBackup
<1>4. Excused' = Excused /\ ThreadWhole' = ThreadWhole
  BY <1>1 DEF Excused, Unfinished, ThreadWhole, Aligned, Scripted
<1>5. KidsInside' /\ HistoryKept' BY <1>1 DEF KidsInside, HistoryKept
<1>6. SwSound' BY <1>1, <1>2, NoScript
<1>7. mig \in MigT /\ mig.id = 0 /\ mig.wrote = {}
  BY <1>2 DEF MigTypes, MigBackedUp, BeforeBackup
<1> DEFINE Small == /\ mig'.at \in {"none", "check", "stop", "read", "start"}
                    /\ mig'.id = 0 /\ mig'.wrote = {}
                    /\ mig'.at \in {"none", "check", "stop"} \/ ~hostUp'
           Large == ReadThread /\ Portable(roll)
<1>10. Small \/ Large
  <2>1. CASE Prepare BY <2>1 DEF Prepare, NoMig
  <2>2. CASE CheckIdle BY <1>7, <2>2 DEF CheckIdle, NoMig, MigT
  <2>3. CASE StopForMigration BY <1>7, <2>3 DEF StopForMigration, NoMig, MigT
  <2>4. CASE ReadThread /\ ~Portable(roll)
    BY <2>4, <1>7 DEF ReadThread, To, RunsApart, MigT
  <2> QED BY <2>1, <2>2, <2>3, <2>4
<1>8. CASE Small
  BY <1>8, <1>3, <1>4, <1>1, <1>2, <1>5, <1>6 DEF MigBackedUp, BeforeBackup, Writing, Undoing, MigTorn, RunsApart, MigRest
<1>9. CASE Large
  <2> DEFINE o == [c \in Children |-> kids[c].off]
             t == Repairs(Transformed(roll, mig.to))
  <2>2. mig' = [mig EXCEPT !.at = "backup", !.orig = roll, !.from = row, !.catWas = cat,
                           !.offs = o, !.todo = t]
    BY <1>9 DEF ReadThread
  <2> HIDE DEF o, t
  <2>3. /\ mig'.orig = roll /\ mig'.from = row /\ mig'.offs = o /\ mig'.todo = t
        /\ mig'.to = mig.to /\ mig'.id = 0 /\ mig'.wrote = {} /\ mig'.at = "backup"
    BY <1>7, <2>2 DEF MigT
  <2>5. NewRollout' = Transformed(roll, mig.to) BY <2>3 DEF NewRollout
  <2>6. Todo' BY <1>1, <2>3, <2>5 DEF Todo, Repairs, t, o
  <2>7. MigBackedUp'
    BY <1>1, <2>3, <2>6 DEF MigBackedUp, BeforeBackup, Writing, Undoing, o
  <2>8. MigTorn' BY <1>3, <1>4, <2>3 DEF MigTorn, Writing, Undoing
  <2>9. RunsApart' BY <1>1, <1>2, <1>9 DEF RunsApart, ReadThread
  <2> QED BY <1>5, <1>6, <2>7, <2>8, <2>9 DEF MigRest
<1> QED BY <1>8, <1>9, <1>10

--------------------
(* The steps that write.                                                   *)

\* what a step of a migration that has its backup directory leaves to be shown
LEMMA InHand ==
  ASSUME MigInv, mig.at \in Writing \cup Undoing, mig'.at \in Writing \cup Undoing, SameRest,
         UNCHANGED <<sw, ever, restores, hostUp>>, unseen => unseen',
         BackupsStay, MarksOnly(mig.id), Unfinished(mig.id)',
         \A c \in Children : kids'[c].end = kids[c].end
  PROVE  /\ NewRollout' = NewRollout /\ (WasWhole => WasWhole') /\ (Todo => Todo')
         /\ (ExcusedBefore \/ unseen' \/ (MigWriting /\ MigUndoing)') => MigRest
<1> USE DEF MigInv
<1>1. NewRollout' = NewRollout /\ (WasWhole => WasWhole') /\ (Todo => Todo') BY WasStays
<1>2. KidsInside' BY StillInside
<1>3. sw.at = "none" /\ ~hostUp BY DEF RunsApart, Writing, Undoing
<1>4. SwSound' BY <1>3, NoScript
<1>5. AllBackedUp' /\ HistoryKept' BY StayKeeps DEF MigBackedUp
<1>6. mig'.at \notin BeforeBackup \cup {"start"} BY DEF Writing, Undoing, BeforeBackup
<1>7. MigBackedUp' BY <1>5, <1>6 DEF MigBackedUp, SameRest, Unfinished, BeforeBackup
<1>8. RunsApart' BY <1>3 DEF RunsApart
<1>9. NothingForgiven /\ mig'.id = mig.id BY DEF NothingForgiven, SameRest
<1>10. ExcusedBefore => ExcusedBefore' BY <1>9, ExcusedStays
<1>11. unseen' => ExcusedBefore' BY DEF ExcusedBefore
<1>12. (ExcusedBefore \/ unseen' \/ (MigWriting /\ MigUndoing)') => MigTorn'
  BY <1>6, <1>10, <1>11 DEF MigTorn
<1> QED BY <1>1, <1>2, <1>4, <1>5, <1>7, <1>8, <1>12 DEF MigRest

\* The backup directory holds all that was read, so from here on nothing can be lost.
LEMMA WriteBackupsSound == ASSUME MigAssumption, MigInv, WriteBackups PROVE MigRest
<1> USE DEF MigInv
<1>1. /\ mig.at = "backup" /\ sw.at = "none" /\ ~hostUp /\ mig.id = 0 /\ mig.wrote = {}
      /\ roll = mig.orig /\ row = mig.from /\ mig.offs = [c \in Children |-> kids[c].off] /\ Todo
  BY DEF WriteBackups, RunsApart, MigBackedUp, BeforeBackup
<1>2. Excused \/ ThreadWhole BY <1>1 DEF MigTorn, BeforeBackup
<1>3. UNCHANGED <<roll, row, kids, sw, ever, unseen, restores, hostUp>> /\ mig \in MigT
  BY DEF WriteBackups, files, ghosts, MigTypes
<1>4. KidsInside' /\ SwSound' /\ RunsApart'
  BY <1>1, <1>3, NoScript DEF KidsInside, RunsApart
<1>5. CASE mig' = [mig EXCEPT !.at = "start"] /\ UNCHANGED backups
  BY <1>1, <1>3, <1>5, <1>2, <1>4 DEF MigT, HistoryKept, MigBackedUp, BeforeBackup, Writing, Undoing, Excused, Unfinished,
     ThreadWhole, Aligned, Scripted, MigTorn, MigRest
<1>6. CASE /\ backups' = Append(backups, Backup("weclaw", mig.orig, mig.from, mig.catWas, mig.offs,
                                                "prepared", {"roll", "kids"}))
           /\ mig' = [mig EXCEPT !.at = "rollout", !.id = Len(backups) + 1]
  <2>1. PICK b : b = Backup("weclaw", mig.orig, mig.from, mig.catWas, mig.offs, "prepared",
                            {"roll", "kids"})
    OBVIOUS
  <2>2. b \in BackupT
    BY <1>3, <2>1, MigFields DEF Backup, BackupT, Statuses, ThreadStores
  <2>3. b.roll = mig.orig /\ b.status = "prepared" /\ "roll" \in b.holds
    BY <2>1 DEF Backup
  <2>4. PICK n : n = Len(backups) + 1 OBVIOUS
  <2>5. backups' = Append(backups, b) /\ backups \in Seq(BackupT)
    BY <1>6, <2>1 DEF MigTypes
  <2>6. /\ BackupsStay /\ MarksOnly(0) /\ n \in DOMAIN backups' /\ backups'[n] = b
        /\ n \notin DOMAIN backups /\ n \in Nat /\ 0 \notin DOMAIN backups
    BY <2>2, <2>4, <2>5, AppendStay, ZeroIsNone
  <2>7. mig' = [mig EXCEPT !.at = "rollout", !.id = n] BY <1>6, <2>4
  <2>8. /\ mig'.at = "rollout" /\ mig'.id = n /\ mig'.wrote = {} /\ mig'.to = mig.to
        /\ mig'.orig = mig.orig /\ mig'.from = mig.from /\ mig'.offs = mig.offs /\ mig'.todo = mig.todo
    BY <1>1, <1>3, <2>7 DEF MigT
  <2>9. AllBackedUp'
    BY <1>1, <2>3, <2>6, <1>3 DEF HistoryKept, Holds, BackupsStay, AllBackedUp
  <2>10. HistoryKept' BY <1>3, <2>6, <2>9, StayKeeps
  <2>11. Unfinished(mig.id)' BY <2>3, <2>6, <2>8 DEF Unfinished, Finished
  <2>12. MigBackedUp' BY <2>8, <2>9, <2>11 DEF MigBackedUp, BeforeBackup
  <2>13. NewRollout' = NewRollout BY <2>8 DEF NewRollout
  <2>14. Todo' BY <1>1, <1>3, <2>8, <2>13 DEF Todo
  <2>15. Excused => ExcusedBefore' BY <1>3, <2>6, <2>8, ExcusedStays DEF NothingForgiven
  <2>16. ThreadWhole => WasWhole'
    BY <1>3, <2>6, StayKeeps, <1>1, <2>8 DEF Aligned, ThreadWhole, WasWhole
  <2>17. KidsAs' /\ RollAs' /\ RowAs' /\ ~UndoFailed'
    BY <1>1, <1>3, <2>8 DEF KidsAs, RollAs, RowAs, UndoFailed
  <2>18. ThreadWhole => MigWriting' BY <2>8, <2>14, <2>16, <2>17 DEF MigWriting
  <2>19. MigUndoing' BY <2>8 DEF MigUndoing, Undoing
  <2>20. MigTorn' BY <1>2, <2>8, <2>15, <2>18, <2>19 DEF MigTorn, BeforeBackup
  <2> QED BY <1>4, <2>10, <2>12, <2>20 DEF MigRest
<1> QED BY <1>5, <1>6 DEF WriteBackups, To

\* A step forward that fails starts the rollback with what was written so far.
LEMMA WritingFails ==
  ASSUME MigInv, mig.at \in Writing, Goes("undo_kids", mig.wrote),
         UNCHANGED <<roll, row, kids, backups, sw, ever, restores, hostUp>>, unseen => unseen'
  PROVE  MigRest
<1> USE DEF MigInv
<1>1. SameRest /\ mig'.at = "undo_kids" /\ mig'.wrote = mig.wrote /\ BackupsStay /\ MarksOnly(mig.id)
  BY SameStay DEF Goes
<1>2. Unfinished(mig.id)' BY <1>1 DEF MigBackedUp, Unfinished, SameRest
<1>3. /\ NewRollout' = NewRollout /\ (WasWhole => WasWhole') /\ (Todo => Todo')
      /\ (ExcusedBefore \/ unseen' \/ (MigWriting /\ MigUndoing)') => MigRest
  BY <1>1, <1>2, InHand DEF Undoing
<1>4. SUFFICES ASSUME ~ExcusedBefore PROVE (MigWriting /\ MigUndoing)' BY <1>3
<1>5. WasWhole /\ RollAs /\ RowAs /\ KidsAs BY <1>4 DEF MigTorn, MigWriting
<1>6. RollAs' /\ RowAs' /\ KidsPutBack'
  BY <1>1, <1>3, <1>5 DEF RollAs, RowAs, KidsAs, KidsPutBack, SameRest
<1> QED BY <1>1, <1>3, <1>5, <1>6 DEF MigWriting, MigUndoing, Writing

\* The rollout is replaced (writeCodexProviderFileAtomically).
LEMMA WriteRolloutSound == ASSUME MigAssumption, MigInv, WriteRollout PROVE MigRest
<1> USE DEF MigInv
<1>1. mig \in MigT /\ mig.at \in Writing /\ mig.at = "rollout"
  BY DEF WriteRollout, MigTypes, Writing
<1>2. UNCHANGED <<row, kids, backups, sw, ever, unseen, restores, hostUp>>
  BY DEF WriteRollout, ghosts
<1>3. CASE mig' = [mig EXCEPT !.at = "undo_kids"] /\ UNCHANGED roll
  BY <1>1, <1>2, <1>3, MigGoes, WritingFails
<1>4. CASE /\ roll' = Transformed(mig.orig, mig.to)
           /\ mig' = [mig EXCEPT !.at = "rollout_written", !.wrote = mig.wrote \cup {"roll"}]
  <2>1. /\ SameRest /\ mig'.at = "rollout_written" /\ mig'.wrote = mig.wrote \cup {"roll"}
        /\ BackupsStay /\ MarksOnly(mig.id)
    BY <1>1, <1>2, <1>4, MigGoes, SameStay DEF Goes
  <2>2. Unfinished(mig.id)' BY <1>1, <1>2, <2>1 DEF MigBackedUp, Unfinished, SameRest
  <2>3. /\ NewRollout' = NewRollout /\ (WasWhole => WasWhole') /\ (Todo => Todo')
        /\ (ExcusedBefore \/ unseen' \/ (MigWriting /\ MigUndoing)') => MigRest
    BY <1>1, <1>2, <2>1, <2>2, InHand DEF Writing
  <2>4. SUFFICES ASSUME ~ExcusedBefore PROVE (MigWriting /\ MigUndoing)' BY <2>3
  <2>5. WasWhole /\ Todo /\ RowAs /\ KidsAs /\ ~UndoFailed
    BY <1>1, <2>4 DEF MigTorn, MigWriting
  <2>6. RollAs' /\ RowAs' /\ KidsAs' /\ ~UndoFailed'
    BY <1>2, <1>4, <2>1, <2>3, <2>5 DEF MigAssumption, RollAs, RowAs, KidsAs, UndoFailed, SameRest, NewRollout
  <2> QED BY <2>1, <2>3, <2>5, <2>6 DEF MigWriting, MigUndoing, Undoing
<1> QED BY <1>3, <1>4 DEF WriteRollout, To

\* The status is recorded; at the last one every store agrees
\* (writeCodexProviderManifest).
LEMMA RecordStatusSound == ASSUME MigAssumption, MigInv, RecordStatus PROVE MigRest
<1> USE DEF MigInv
<1>1. /\ mig \in MigT /\ mig.at \in Writing /\ Unfinished(mig.id) /\ backups \in Seq(BackupT)
      /\ mig.at \in {"rollout_written", "lineage_written", "state_updated", "storage_committed"}
  BY DEF RecordStatus, Following, MigTypes, Writing, MigBackedUp
<1>2. UNCHANGED <<roll, row, kids, sw, ever, unseen, restores, hostUp>>
  BY DEF RecordStatus, files, ghosts
<1>3. CASE mig' = [mig EXCEPT !.at = "undo_kids"] /\ UNCHANGED backups
  BY <1>1, <1>2, <1>3, MigGoes, WritingFails
<1>4. CASE /\ backups' = [backups EXCEPT ![mig.id].status = mig.at]
           /\ mig' = [mig EXCEPT !.at = Following[mig.at]]
  <2>1. PICK n, a : n = mig.id /\ a = mig.at OBVIOUS
  <2>2. n \in DOMAIN backups /\ a \in Statuses BY <1>1, <2>1 DEF Unfinished, Statuses
  <2>3. backups' = [backups EXCEPT ![n].status = a] BY <1>4, <2>1
  <2>4. BackupsStay /\ MarksOnly(n) /\ n \in DOMAIN backups' /\ backups'[n].status = a
    BY <1>1, <2>2, <2>3, MarkStay
  <2>5. SameRest /\ mig'.at = Following[a] /\ mig'.wrote = mig.wrote
    BY <1>1, <1>4, <2>1, MigGoes DEF Goes
  <2>6. CASE a # "storage_committed"
    <3>1. Unfinished(mig.id)'
      BY <1>1, <2>1, <2>4, <2>5, <2>6 DEF Unfinished, Finished, SameRest
    <3>2. mig'.at \in {"lineage", "row", "catalog"}
      BY <1>1, <2>1, <2>5, <2>6 DEF Following
    <3>3. /\ NewRollout' = NewRollout /\ (WasWhole => WasWhole') /\ (Todo => Todo')
          /\ (ExcusedBefore \/ unseen' \/ (MigWriting /\ MigUndoing)') => MigRest
      BY <1>1, <1>2, <2>1, <2>4, <2>5, <3>1, <3>2, InHand DEF Writing
    <3>4. SUFFICES ASSUME ~ExcusedBefore PROVE (MigWriting /\ MigUndoing)' BY <3>3
    <3>5. WasWhole /\ Todo /\ RowAs /\ KidsAs /\ RollAs /\ ~UndoFailed /\ MigWriting
      BY <1>1, <3>4 DEF MigTorn, MigWriting
    <3>6. RollAs' /\ RowAs' /\ KidsAs' /\ ~UndoFailed'
      BY <1>2, <2>5, <3>3, <3>5 DEF RollAs, RowAs, KidsAs, UndoFailed, SameRest
    <3>7. /\ "roll" \in mig.wrote
          /\ mig'.at \in {"row", "catalog"} => mig.todo \subseteq mig.wrote
          /\ mig'.at = "catalog" => "row" \in mig.wrote
      BY <1>1, <2>1, <2>5, <2>6, <3>5 DEF MigWriting, Following, Writing
    <3>8. mig'.todo = mig.todo BY <2>5 DEF SameRest
    <3> QED BY <2>5, <3>2, <3>3, <3>5, <3>6, <3>7, <3>8 DEF MigWriting, MigUndoing, Undoing
  <2>7. CASE a = "storage_committed"
    <3>1. mig'.at = "start" /\ mig'.id = n /\ sw.at = "none" /\ ~hostUp
      BY <1>1, <2>1, <2>5, <2>7 DEF Following, SameRest, RunsApart
    <3>2. KidsInside' /\ SwSound' /\ RunsApart'
      BY <1>2, <3>1, NoScript DEF KidsInside, RunsApart
    <3>3. HistoryKept' BY <1>2, <2>4, StayKeeps
    <3>4. MigBackedUp'
      BY <2>4, <2>7, <3>1 DEF MigBackedUp, BeforeBackup, Writing, Undoing
    <3>5. NothingForgiven BY <1>2 DEF NothingForgiven
    <3>6. ExcusedBefore => Excused' BY <2>1, <2>4, <3>5, ExcusedStays
    <3>7. MigWriting => ThreadWhole'
      <4>1. SUFFICES ASSUME MigWriting PROVE ThreadWhole' OBVIOUS
      <4>2. WasWhole /\ Todo /\ RowAs /\ KidsAs /\ RollAs /\ "roll" \in mig.wrote
            /\ mig.todo \subseteq mig.wrote /\ "row" \in mig.wrote
        BY <1>1, <2>1, <2>7, <4>1 DEF MigWriting
      <4>3. roll = NewRollout /\ row = mig.to BY <4>2 DEF RollAs, RowAs
      <4>4. NewRollout.prov = mig.to BY <1>1, MigFields, TransformedTyped DEF NewRollout
      <4>5. \A c \in Children : kids[c].off = OffsetAt(NewRollout, kids[c].end)
        BY <4>2 DEF KidsAs, Todo
      <4> QED BY <1>2, <4>3, <4>4, <4>5 DEF ThreadWhole, Aligned
    <3>8. MigTorn' BY <1>1, <3>1, <3>6, <3>7 DEF MigTorn, BeforeBackup, Writing, Undoing
    <3> QED BY <3>2, <3>3, <3>4, <3>8 DEF MigRest
  <2> QED BY <2>6, <2>7
<1> QED BY <1>3, <1>4 DEF RecordStatus, To

\* A child gets the offset that the new rollout has for its end
\* (rewriteCodexPaginatedLineageOffset).
LEMMA WriteLineageSound == ASSUME MigAssumption, MigInv, WriteLineage PROVE MigRest
<1> USE DEF MigInv
<1>1. mig \in MigT /\ mig.at \in Writing /\ mig.at = "lineage"
  BY DEF WriteLineage, MigTypes, Writing
<1>2. UNCHANGED <<roll, row, backups, sw, ever, unseen, restores, hostUp>>
  BY DEF WriteLineage, ghosts
<1>3. CASE mig' = [mig EXCEPT !.at = "undo_kids"] /\ UNCHANGED kids
  BY <1>1, <1>2, <1>3, MigGoes, WritingFails
<1>4. CASE mig' = [mig EXCEPT !.at = "lineage_written"] /\ UNCHANGED kids /\ mig.todo \ mig.wrote = {}
  <2>1. SameRest /\ mig'.at = "lineage_written" /\ mig'.wrote = mig.wrote /\ BackupsStay /\ MarksOnly(mig.id)
    BY <1>1, <1>2, <1>4, MigGoes, SameStay DEF Goes
  <2>2. Unfinished(mig.id)' BY <1>1, <1>2, <2>1 DEF MigBackedUp, Unfinished, SameRest
  <2>3. /\ NewRollout' = NewRollout /\ (WasWhole => WasWhole') /\ (Todo => Todo')
        /\ (ExcusedBefore \/ unseen' \/ (MigWriting /\ MigUndoing)') => MigRest
    BY <1>1, <1>2, <1>4, <2>1, <2>2, InHand DEF Writing
  <2>4. SUFFICES ASSUME ~ExcusedBefore PROVE (MigWriting /\ MigUndoing)' BY <2>3
  <2>5. WasWhole /\ Todo /\ RollAs /\ RowAs /\ KidsAs /\ ~UndoFailed /\ "roll" \in mig.wrote
    BY <1>1, <2>4 DEF MigTorn, MigWriting
  <2>6. RollAs' /\ RowAs' /\ KidsAs' /\ ~UndoFailed' /\ mig'.todo \subseteq mig'.wrote
    BY <1>2, <1>4, <2>1, <2>3, <2>5 DEF RollAs, RowAs, KidsAs, UndoFailed, SameRest
  <2> QED BY <2>1, <2>3, <2>5, <2>6 DEF MigWriting, MigUndoing, Undoing
<1>5. CASE \E c \in mig.todo \ mig.wrote :
             /\ kids' = [kids EXCEPT ![c].off = OffsetAt(roll, kids[c].end)]
             /\ mig' = [mig EXCEPT !.wrote = mig.wrote \cup {c}]
  <2>0. PICK c \in mig.todo \ mig.wrote :
             /\ kids' = [kids EXCEPT ![c].off = OffsetAt(roll, kids[c].end)]
             /\ mig' = [mig EXCEPT !.wrote = mig.wrote \cup {c}]
    BY <1>5
  <2>k. /\ c \in Children /\ c \notin {"row", "cat", "roll", "failed"}
        /\ kids \in [Children -> [end : Nat, off : Nat]]
    BY <1>1, MigFields DEF MigAssumption, MigTypes
  <2>e. /\ \A d \in Children : kids'[d].end = kids[d].end
        /\ \A d \in Children : d # c => kids'[d] = kids[d]
        /\ kids'[c].off = OffsetAt(roll, kids[c].end)
    BY <2>0, <2>k
  <2>1. SameRest /\ mig'.at = "lineage" /\ mig'.wrote = mig.wrote \cup {c} /\ BackupsStay /\ MarksOnly(mig.id)
    BY <1>1, <1>2, <2>0, MigGoes, SameStay DEF Goes
  <2>2. Unfinished(mig.id)' BY <1>1, <1>2, <2>1 DEF MigBackedUp, Unfinished, SameRest
  <2>3. /\ NewRollout' = NewRollout /\ (WasWhole => WasWhole') /\ (Todo => Todo')
        /\ (ExcusedBefore \/ unseen' \/ (MigWriting /\ MigUndoing)') => MigRest
    BY <1>1, <1>2, <2>e, <2>1, <2>2, InHand DEF Writing
  <2>4. SUFFICES ASSUME ~ExcusedBefore PROVE (MigWriting /\ MigUndoing)' BY <2>3
  <2>5. WasWhole /\ Todo /\ RollAs /\ RowAs /\ KidsAs /\ ~UndoFailed /\ "roll" \in mig.wrote
    BY <1>1, <2>4 DEF MigTorn, MigWriting
  <2>6. RollAs' /\ RowAs' /\ ~UndoFailed'
    BY <1>2, <2>k, <2>1, <2>3, <2>5 DEF RollAs, RowAs, UndoFailed, SameRest
  <2>7. KidsAs' BY <2>5, <2>e, <2>1, <2>3 DEF RollAs, KidsAs, SameRest
  <2> QED BY <2>1, <2>3, <2>5, <2>6, <2>7 DEF MigWriting, MigUndoing, Undoing
<1> QED BY <1>3, <1>4, <1>5 DEF WriteLineage, To

\* The row names the new provider, or may do so unseen.
LEMMA UpdateRowSound == ASSUME MigAssumption, MigInv, UpdateRow PROVE MigRest
<1> USE DEF MigInv
<1>1. mig \in MigT /\ mig.at \in Writing /\ mig.at = "row"
  BY DEF UpdateRow, MigTypes, Writing
<1>2. UNCHANGED <<roll, kids, backups, sw, ever, restores, hostUp>> BY DEF UpdateRow
<1>3. CASE mig' = [mig EXCEPT !.at = "undo_kids"] /\ UNCHANGED <<row, unseen>>
  BY <1>1, <1>2, <1>3, MigGoes, WritingFails
<1>4. CASE mig' = [mig EXCEPT !.at = "undo_kids"] /\ unseen'
  BY <1>1, <1>2, <1>4, MigGoes, SameStay, InHand DEF Goes, MigBackedUp, Unfinished, SameRest, Undoing
<1>5. CASE /\ mig' = [mig EXCEPT !.at = "state_updated", !.wrote = mig.wrote \cup {"row"}]
           /\ row' = mig.to /\ UNCHANGED unseen
  <2>1. /\ SameRest /\ mig'.at = "state_updated" /\ mig'.wrote = mig.wrote \cup {"row"}
        /\ BackupsStay /\ MarksOnly(mig.id)
    BY <1>1, <1>2, <1>5, MigGoes, SameStay DEF Goes
  <2>2. Unfinished(mig.id)' BY <1>1, <1>2, <2>1 DEF MigBackedUp, Unfinished, SameRest
  <2>3. /\ NewRollout' = NewRollout /\ (WasWhole => WasWhole') /\ (Todo => Todo')
        /\ (ExcusedBefore \/ unseen' \/ (MigWriting /\ MigUndoing)') => MigRest
    BY <1>1, <1>2, <1>5, <2>1, <2>2, InHand DEF Writing
  <2>4. SUFFICES ASSUME ~ExcusedBefore PROVE (MigWriting /\ MigUndoing)' BY <2>3
  <2>5. WasWhole /\ Todo /\ RollAs /\ KidsAs /\ ~UndoFailed /\ "roll" \in mig.wrote
        /\ mig.todo \subseteq mig.wrote
    BY <1>1, <2>4 DEF MigTorn, MigWriting
  <2>6. RollAs' /\ RowAs' /\ KidsAs' /\ ~UndoFailed'
    BY <1>2, <1>5, <2>1, <2>3, <2>5 DEF MigAssumption, RollAs, RowAs, KidsAs, UndoFailed, SameRest
  <2>7. mig'.todo \subseteq mig'.wrote BY <2>1, <2>5 DEF SameRest
  <2> QED BY <2>1, <2>3, <2>5, <2>6, <2>7 DEF MigWriting, MigUndoing, Undoing
<1> QED BY <1>3, <1>4, <1>5 DEF UpdateRow, CallsDatabase, To

\* The catalog, in the same way.
LEMMA UpdateCatalogSound == ASSUME MigAssumption, MigInv, UpdateCatalog PROVE MigRest
<1> USE DEF MigInv
<1>1. mig \in MigT /\ mig.at \in Writing /\ mig.at = "catalog"
  BY DEF UpdateCatalog, MigTypes, Writing
<1>2. UNCHANGED <<roll, row, kids, backups, sw, ever, restores, hostUp>>
  BY DEF UpdateCatalog
<1>3. CASE mig' = [mig EXCEPT !.at = "undo_kids"] /\ (unseen => unseen')
  BY <1>1, <1>2, <1>3, MigGoes, WritingFails
<1>5. CASE /\ \E w \in {mig.wrote, mig.wrote \cup {"cat"}} : Goes("storage_committed", w)
           /\ UNCHANGED unseen
  <2>0. PICK w \in {mig.wrote, mig.wrote \cup {"cat"}} : Goes("storage_committed", w)
    BY <1>5
  <2>1. SameRest /\ mig'.at = "storage_committed" /\ mig'.wrote = w /\ BackupsStay /\ MarksOnly(mig.id)
    BY <1>2, <2>0, SameStay DEF Goes
  <2>2. Unfinished(mig.id)' BY <1>1, <1>2, <2>1 DEF MigBackedUp, Unfinished, SameRest
  <2>3. /\ NewRollout' = NewRollout /\ (WasWhole => WasWhole') /\ (Todo => Todo')
        /\ (ExcusedBefore \/ unseen' \/ (MigWriting /\ MigUndoing)') => MigRest
    BY <1>1, <1>2, <1>5, <2>1, <2>2, InHand DEF Writing
  <2>4. SUFFICES ASSUME ~ExcusedBefore PROVE (MigWriting /\ MigUndoing)' BY <2>3
  <2>5. WasWhole /\ Todo /\ RollAs /\ RowAs /\ KidsAs /\ ~UndoFailed /\ "roll" \in mig.wrote
        /\ mig.todo \subseteq mig.wrote /\ "row" \in mig.wrote
    BY <1>1, <2>4 DEF MigTorn, MigWriting
  <2>6. RollAs' /\ RowAs' /\ KidsAs' /\ ~UndoFailed'
    BY <2>0, <1>2, <2>1, <2>3, <2>5 DEF MigAssumption, RollAs, RowAs, KidsAs, UndoFailed, SameRest
  <2>7. mig'.todo \subseteq mig'.wrote /\ "row" \in w /\ "roll" \in w
    BY <2>1, <2>5 DEF SameRest
  <2> QED BY <2>1, <2>3, <2>5, <2>6, <2>7 DEF MigWriting, MigUndoing, Undoing
<1>6. \/ mig' = [mig EXCEPT !.at = "undo_kids"] /\ (unseen => unseen')
      \/ mig' = [mig EXCEPT !.at = "storage_committed"] /\ UNCHANGED unseen
      \/ mig' = [mig EXCEPT !.at = "storage_committed", !.wrote = mig.wrote \cup {"cat"}]
         /\ UNCHANGED unseen
  BY DEF UpdateCatalog, CallsDatabase, To
<1> QED BY <1>1, <1>3, <1>5, <1>6, MigGoes

--------------------
(* The rollback and the end of a migration.                                *)

\* The rollback of the children: each is put back or remembered as missed.
LEMMA UndoLineageSound == ASSUME MigAssumption, MigInv, UndoLineage PROVE MigRest
<1> USE DEF MigInv
<1>1. mig \in MigT /\ mig.at \in Undoing /\ mig.at = "undo_kids"
  BY DEF UndoLineage, MigTypes, Undoing
<1>2. UNCHANGED <<roll, row, backups, sw, ever, unseen, restores, hostUp>>
  BY DEF UndoLineage, ghosts
<1>3. CASE mig' = [mig EXCEPT !.at = "undo_cat"] /\ UNCHANGED kids /\ Undone = {}
  <2>1. SameRest /\ mig'.at = "undo_cat" /\ mig'.wrote = mig.wrote /\ BackupsStay /\ MarksOnly(mig.id)
    BY <1>1, <1>2, <1>3, MigGoes, SameStay DEF Goes
  <2>2. Unfinished(mig.id)' BY <1>1, <1>2, <2>1 DEF MigBackedUp, Unfinished, SameRest
  <2>3. /\ NewRollout' = NewRollout /\ (WasWhole => WasWhole')
        /\ (ExcusedBefore \/ unseen' \/ (MigWriting /\ MigUndoing)') => MigRest
    BY <1>1, <1>2, <1>3, <2>1, <2>2, InHand DEF Undoing
  <2>4. SUFFICES ASSUME ~ExcusedBefore PROVE (MigWriting /\ MigUndoing)' BY <2>3
  <2>5. WasWhole /\ RollAs /\ RowAs /\ (UndoFailed \/ KidsPutBack)
    BY <1>1, <2>4 DEF MigTorn, MigUndoing
  <2>6. RollAs' /\ RowAs' /\ (UndoFailed \/ KidsPutBack)' /\ mig'.wrote \cap Children = {}
    BY <1>2, <1>3, <2>1, <2>3, <2>5 DEF RollAs, RowAs, KidsPutBack, UndoFailed, SameRest, Undone
  <2> QED BY <2>1, <2>3, <2>5, <2>6 DEF MigWriting, MigUndoing, Writing
<1>4. CASE \E c \in Undone :
             \/ /\ kids' = [kids EXCEPT ![c].off = mig.offs[c]]
                /\ mig' = [mig EXCEPT !.wrote = mig.wrote \ {c}]
             \/ /\ mig' = [mig EXCEPT !.wrote = (mig.wrote \ {c}) \cup {"failed"}]
                /\ UNCHANGED kids
  <2>0. PICK c \in Undone :
             \/ /\ kids' = [kids EXCEPT ![c].off = mig.offs[c]]
                /\ mig' = [mig EXCEPT !.wrote = mig.wrote \ {c}]
             \/ /\ mig' = [mig EXCEPT !.wrote = (mig.wrote \ {c}) \cup {"failed"}]
                /\ UNCHANGED kids
    BY <1>4
  <2>k. /\ c \in Children /\ c \notin {"row", "cat", "roll", "failed"}
        /\ kids \in [Children -> [end : Nat, off : Nat]]
    BY DEF MigAssumption, MigTypes, Undone
  <2>e. \A d \in Children : kids'[d].end = kids[d].end BY <2>0, <2>k
  <2>w. PICK w \in {mig.wrote \ {c}, (mig.wrote \ {c}) \cup {"failed"}} :
           /\ Goes("undo_kids", w)
           /\ "failed" \in w \/ (kids' = [kids EXCEPT ![c].off = mig.offs[c]] /\ w = mig.wrote \ {c})
    BY <1>1, <2>0, MigGoes
  <2>1. SameRest /\ mig'.at = "undo_kids" /\ mig'.wrote = w /\ BackupsStay /\ MarksOnly(mig.id)
    BY <1>2, <2>w, SameStay DEF Goes
  <2>2. Unfinished(mig.id)' BY <1>1, <1>2, <2>1 DEF MigBackedUp, Unfinished, SameRest
  <2>3. /\ NewRollout' = NewRollout /\ (WasWhole => WasWhole')
        /\ (ExcusedBefore \/ unseen' \/ (MigWriting /\ MigUndoing)') => MigRest
    BY <1>1, <1>2, <2>e, <2>1, <2>2, InHand DEF Undoing
  <2>4. SUFFICES ASSUME ~ExcusedBefore PROVE (MigWriting /\ MigUndoing)' BY <2>3
  <2>5. WasWhole /\ RollAs /\ RowAs /\ (UndoFailed \/ KidsPutBack)
    BY <1>1, <2>4 DEF MigTorn, MigUndoing
  <2>6. RollAs' /\ RowAs' BY <2>k, <1>2, <2>1, <2>3, <2>5 DEF RollAs, RowAs, SameRest
  <2>7. (UndoFailed \/ KidsPutBack)'
    BY <2>1, <2>w, <2>k, <2>5 DEF UndoFailed, KidsPutBack, SameRest
  <2> QED BY <2>1, <2>3, <2>5, <2>6, <2>7 DEF MigWriting, MigUndoing, Writing
<1> QED BY <1>3, <1>4 DEF UndoLineage, To

\* The rollback of the catalog, the row and the rollout.
LEMMA UndoStoresSound ==
  ASSUME MigAssumption, MigInv, UndoCatalog \/ UndoRow \/ UndoRollout PROVE MigRest
<1> USE DEF MigInv
<1>1. /\ mig \in MigT /\ mig.at \in Undoing
      /\ mig.at \in {"undo_cat", "undo_row", "undo_roll"}
  BY DEF UndoCatalog, UndoRow, UndoRollout, MigTypes, Undoing
<1>2. UNCHANGED <<kids, backups, sw, ever, restores, hostUp>> /\ (unseen => unseen')
  BY DEF UndoCatalog, UndoRow, UndoRollout, CallsDatabase, ghosts
<1> DEFINE next == IF mig.at = "undo_cat" THEN "undo_row"
                   ELSE IF mig.at = "undo_row" THEN "undo_roll" ELSE "undone"
<1>3. /\ Goes(next, mig.wrote) \/ Goes(next, mig.wrote \cup {"failed"})
  <2>1. mig' = [mig EXCEPT !.at = next] \/ mig' = [mig EXCEPT !.at = next, !.wrote = mig.wrote \cup {"failed"}]
    BY DEF UndoCatalog, UndoRow, UndoRollout, CallsDatabase, After, Missed
  <2> HIDE DEF next
  <2> QED BY <1>1, <2>1, MigGoes
<1>4. PICK w \in {mig.wrote, mig.wrote \cup {"failed"}} : Goes(next, w) BY <1>3
<1>5. SameRest /\ mig'.at = next /\ mig'.wrote = w /\ BackupsStay /\ MarksOnly(mig.id)
  BY <1>2, <1>4, SameStay DEF Goes
<1>6. Unfinished(mig.id)' BY <1>1, <1>2, <1>5 DEF MigBackedUp, Unfinished, SameRest
<1>7. /\ NewRollout' = NewRollout /\ (WasWhole => WasWhole')
      /\ (ExcusedBefore \/ unseen' \/ (MigWriting /\ MigUndoing)') => MigRest
  BY <1>1, <1>2, <1>5, <1>6, InHand DEF Undoing
<1>8. SUFFICES ASSUME ~ExcusedBefore, ~unseen' PROVE (MigWriting /\ MigUndoing)' BY <1>7
<1>9. WasWhole /\ RollAs /\ (UndoFailed \/ KidsPutBack) /\ mig.wrote \cap Children = {} /\ MigUndoing
  BY <1>1, <1>8 DEF MigTorn, MigUndoing
<1>10. /\ (UndoFailed \/ KidsPutBack)' /\ (UndoFailed => UndoFailed') /\ mig'.wrote \cap Children = {}
       /\ ("roll" \in w <=> "roll" \in mig.wrote) /\ ("row" \in w <=> "row" \in mig.wrote)
  BY <1>2, <1>5, <1>9 DEF MigAssumption, KidsPutBack, UndoFailed, SameRest
<1>11. CASE UndoCatalog
  BY <1>9, <1>11, <1>5, <1>7, <1>10 DEF UndoCatalog, MigUndoing, Undoing, RollAs, RowAs, SameRest, MigWriting, Writing
<1>12. CASE UndoRow
  <2>1. mig.at = "undo_row" /\ UNCHANGED roll /\ RowAs
    BY <1>9, <1>12 DEF UndoRow, MigUndoing, Undoing
  <2>2. RollAs' BY <1>5, <1>7, <1>9, <1>10, <2>1 DEF RollAs, SameRest
  <2>3. UndoFailed' \/ row' = mig.from
    <3>1. CASE "row" \in mig.wrote
      <4>1. unseen' = TRUE \/ row' = mig.from
            \/ mig' = [mig EXCEPT !.at = "undo_roll", !.wrote = mig.wrote \cup {"failed"}]
        BY <1>12, <3>1 DEF UndoRow, CallsDatabase, After, Missed
      <4>2. mig' = [mig EXCEPT !.at = "undo_roll", !.wrote = mig.wrote \cup {"failed"}] => UndoFailed'
        BY <1>1 DEF MigT, UndoFailed
      <4> QED BY <1>8, <4>1, <4>2
    <3>2. CASE "row" \notin mig.wrote BY <1>12, <2>1, <3>2 DEF UndoRow, RowAs
    <3> QED BY <3>1, <3>2
  <2> QED BY <1>5, <1>7, <1>9, <1>10, <2>1, <2>2, <2>3 DEF MigWriting, MigUndoing, Writing, SameRest
<1>13. CASE UndoRollout
  <2>1. mig.at = "undo_roll" /\ UNCHANGED row /\ (UndoFailed \/ row = mig.from)
    BY <1>9, <1>13 DEF UndoRollout, MigUndoing, Undoing
  <2>2. UndoFailed' \/ row' = mig'.from BY <1>5, <1>10, <2>1 DEF SameRest
  <2>3. UndoFailed' \/ roll' = mig'.orig
    <3>1. mig'.orig = mig.orig BY <1>5 DEF SameRest
    <3>2. CASE "roll" \in mig.wrote
      <4>1. roll' = mig.orig
            \/ mig' = [mig EXCEPT !.at = "undone", !.wrote = mig.wrote \cup {"failed"}]
        BY <1>13, <3>2 DEF UndoRollout, Missed
      <4>2. mig' = [mig EXCEPT !.at = "undone", !.wrote = mig.wrote \cup {"failed"}] => UndoFailed'
        BY <1>1 DEF MigT, UndoFailed
      <4> QED BY <3>1, <4>1, <4>2
    <3>3. CASE "roll" \notin mig.wrote
      BY <1>9, <1>13, <3>1, <3>3 DEF UndoRollout, RollAs
    <3> QED BY <3>2, <3>3
  <2> QED BY <1>5, <1>7, <1>9, <1>10, <2>1, <2>2, <2>3 DEF MigWriting, MigUndoing, Writing
<1> QED BY <1>11, <1>12, <1>13

\* A rollback recorded as complete put everything back.
LEMMA RecordRollbackSound == ASSUME MigAssumption, MigInv, RecordRollback PROVE MigRest
<1> USE DEF MigInv
<1>1. /\ mig \in MigT /\ mig.at \in Undoing /\ mig.at = "undone" /\ Unfinished(mig.id)
      /\ backups \in Seq(BackupT) /\ sw.at = "none" /\ ~hostUp
  BY DEF RecordRollback, MigTypes, MigBackedUp, Undoing, RunsApart
<1>2. UNCHANGED <<roll, row, kids, sw, ever, unseen, restores, hostUp>>
  BY DEF RecordRollback, files, ghosts
<1>3. mig'.at = "start" /\ mig'.id = 0 BY <1>1 DEF RecordRollback, MigT
<1>4. PICK n, s : n = mig.id /\ s = RollbackStatus OBVIOUS
<1>5. n \in DOMAIN backups /\ s \in Statuses
  BY <1>1, <1>4 DEF Unfinished, RollbackStatus, Statuses
<1>6. UNCHANGED backups \/ backups' = [backups EXCEPT ![n].status = s]
  BY <1>4 DEF RecordRollback
<1>7. /\ BackupsStay /\ MarksOnly(n) /\ n \in DOMAIN backups'
      /\ (UNCHANGED backups \/ backups'[n].status = s)
  BY <1>1, <1>5, <1>6, MarkStay, SameStay
<1>8. KidsInside' /\ SwSound' /\ RunsApart' /\ HistoryKept'
  BY <1>1, <1>2, <1>7, StayKeeps, NoScript DEF KidsInside, RunsApart
<1>9. MigBackedUp' BY <1>3 DEF MigBackedUp, BeforeBackup, Writing, Undoing
<1>10. Excused' \/ ThreadWhole'
  BY <1>1, <1>4, MarkedExcuses, <1>7, <1>2, ExcusedStays, StayKeeps DEF Unfinished, RollbackStatus, UndoFailed, Finished,
     NothingForgiven, MigTorn, MigUndoing, KidsPutBack, ThreadWhole, WasWhole, Aligned
<1>11. MigTorn' BY <1>3, <1>10 DEF MigTorn, Writing, Undoing
<1> QED BY <1>8, <1>9, <1>11 DEF MigRest

\* Only a migration that recorded its stores as committed is marked verified.
LEMMA FinishPrepareSound == ASSUME MigAssumption, MigInv, FinishPrepare PROVE MigRest
<1> USE DEF MigInv
<1>1. mig.at = "start" /\ backups \in Seq(BackupT) /\ sw.at = "none"
  BY DEF FinishPrepare, MigTypes, RunsApart
<1>2. UNCHANGED <<roll, row, kids, sw, ever, unseen, restores>>
  BY DEF FinishPrepare, files, ghosts
<1>3. mig'.at = "none" /\ mig'.id = 0 /\ mig'.wrote = {} BY DEF FinishPrepare, NoMig
<1>4. Excused \/ ThreadWhole BY <1>1 DEF MigTorn
<1>5. /\ BackupsStay /\ 0 \notin DOMAIN backups
      /\ \A j \in DOMAIN backups : backups[j].status \notin Finished => backups'[j].status \notin Finished
  <2>1. CASE UNCHANGED backups BY <1>1, <2>1, SameStay, ZeroIsNone
  <2>2. CASE mig.id # 0 /\ backups' = [backups EXCEPT ![mig.id].status = "verified"]
    <3>1. PICK n : n = mig.id OBVIOUS
    <3>2. n \in DOMAIN backups /\ backups[n].status = "storage_committed"
      BY <1>1, <2>2, <3>1 DEF MigBackedUp
    <3>3. BackupsStay /\ MarksOnly(n) BY <1>1, <2>2, <3>1, <3>2, MarkStay DEF Statuses
    <3> QED BY <1>1, <3>2, <3>3, ZeroIsNone DEF MarksOnly, Finished
  <2> QED BY <2>1, <2>2 DEF FinishPrepare
<1>6. KidsInside' /\ SwSound' /\ RunsApart' /\ HistoryKept'
  BY <1>1, <1>2, <1>3, <1>5, StayKeeps, NoScript DEF KidsInside, RunsApart
<1>7. MigBackedUp' BY <1>3 DEF MigBackedUp, BeforeBackup, Writing, Undoing
<1>8. Excused => Excused' BY <1>2, <1>5 DEF Excused, Unfinished, BackupsStay
<1>9. ThreadWhole => ThreadWhole' BY <1>2, <1>5, StayKeeps DEF ThreadWhole, Aligned
<1>10. MigTorn' BY <1>3, <1>4, <1>8, <1>9 DEF MigTorn, Writing, Undoing
<1> QED BY <1>6, <1>7, <1>10 DEF MigRest

--------------------
(* The script.                                                             *)

\* A script run leaves nothing to show about migrations, since none is under way.
LEMMA NoMigration ==
  ASSUME MigInv, UNCHANGED mig, mig.at = "none",
         sw'.at \in {"none", "planned"} => Excused' \/ ThreadWhole'
  PROVE  MigBackedUp' /\ MigTorn'
<1>1. mig.id = 0 /\ mig.wrote = {} BY DEF MigInv, MigBackedUp, BeforeBackup
<1> QED BY <1>1 DEF MigBackedUp, MigTorn, BeforeBackup, Writing, Undoing

\* The script plans a switch or a restore.
LEMMA PlanSound == ASSUME MigAssumption, MigInv, PlanSwitch \/ PlanRestore PROVE MigRest
<1> USE DEF MigInv
<1>1. sw.at = "none" /\ mig.at = "none" /\ UNCHANGED <<roll, row, kids, backups, mig, ever, unseen, restores, hostUp>>
  BY DEF PlanSwitch, PlanRestore, files, ghosts
<1>2. KidsInside' /\ HistoryKept' BY <1>1 DEF KidsInside, HistoryKept
<1>3. Excused' \/ ThreadWhole'
  BY <1>1 DEF MigTorn, BeforeBackup, Excused, Unfinished, ThreadWhole, Aligned, Scripted
<1>4. MigBackedUp' /\ MigTorn' BY <1>1, <1>3, NoMigration
<1>5. CASE PlanSwitch
  <2>1. PICK p \in Providers :
          LET new == [NoSwitch EXCEPT !.at = "planned", !.roll = Switched(roll, p), !.row = p,
                                      !.cat = IF cat = "none" THEN "none" ELSE p]
          IN  sw' = [new EXCEPT !.left = Changed(new)]
    BY <1>5 DEF PlanSwitch
  <2> DEFINE new == [NoSwitch EXCEPT !.at = "planned", !.roll = Switched(roll, p), !.row = p,
                                     !.cat = IF cat = "none" THEN "none" ELSE p]
  <2>2. /\ new.at = "planned" /\ new.put = {} /\ new.row = p /\ new.roll = Switched(roll, p)
        /\ "left" \in DOMAIN new
    BY DEF NoSwitch
  <2>3. sw' = [new EXCEPT !.left = Changed(new)] BY <2>1
  <2>4. Switched(roll, p).prov = p BY SwitchedTyped DEF MigTypes, ProviderNames
  <2>5. ("row" \in Changed(new) \/ row = p) /\ ("roll" \in Changed(new) \/ roll = Switched(roll, p))
    <3> HIDE DEF new
    <3> QED BY <2>2 DEF Changed, ThreadStores
  <2> HIDE DEF new
  <2>6. /\ sw'.at = "planned" /\ sw'.put = {} /\ sw'.row = p /\ sw'.roll = Switched(roll, p)
        /\ sw'.left = Changed(new)
    BY <2>2, <2>3
  <2>7. SwSound' BY <1>1, <2>4, <2>5, <2>6 DEF SwSound
  <2>8. RunsApart' BY <1>1, <2>6 DEF RunsApart
  <2> QED BY <1>2, <1>4, <2>7, <2>8 DEF MigRest
<1>6. CASE PlanRestore
  BY <1>6, <1>1, <1>2, <1>4 DEF PlanRestore, NoSwitch, SwSound, RunsApart, MigRest
<1> QED BY <1>5, <1>6

\* The script copies what it is about to replace (make_backup).
LEMMA MakeBackupSound == ASSUME MigAssumption, MigInv, MakeBackup PROVE MigRest
<1> USE DEF MigInv
<1>1. sw.at = "planned" /\ mig.at = "none" /\ sw \in SwT /\ backups \in Seq(BackupT)
  BY DEF MakeBackup, RunsApart, MigTypes
<1>2. UNCHANGED <<roll, row, kids, mig, ever, unseen, restores, hostUp>>
  BY DEF MakeBackup, files, ghosts
<1>3. KidsInside' BY <1>2 DEF KidsInside
<1>4. CASE sw' = NoSwitch /\ UNCHANGED backups
  BY <1>4, <1>2, <1>1, NoMigration, NoScript, <1>3 DEF NoSwitch, Excused, Unfinished, ThreadWhole, Aligned, Scripted,
     HistoryKept, MigTorn, BeforeBackup, RunsApart, MigRest
<1>5. CASE /\ backups' = Append(backups, Backup("script", roll, row, cat, NoMig.offs,
                                                "backup-verified", sw.left))
           /\ sw' = [sw EXCEPT !.at = "backed", !.id = Len(backups) + 1]
  <2>1. PICK b : b = Backup("script", roll, row, cat, NoMig.offs, "backup-verified", sw.left)
    OBVIOUS
  <2>2. b \in BackupT
    BY <1>1, <2>1, NothingTyped DEF MigTypes, MigT, SwT, Backup, BackupT, Statuses
  <2>3. b.by = "script" /\ b.status = "backup-verified" /\ b.holds = sw.left
    BY <2>1 DEF Backup
  <2>4. PICK n : n = Len(backups) + 1 OBVIOUS
  <2>5. BackupsStay /\ n \in DOMAIN backups' /\ backups'[n] = b
    BY <1>1, <1>5, <2>1, <2>2, <2>4, AppendStay
  <2>6. /\ sw'.at = "backed" /\ sw'.id = n /\ sw'.kind = sw.kind /\ sw'.roll = sw.roll
        /\ sw'.row = sw.row /\ sw'.left = sw.left /\ sw'.put = sw.put
    BY <1>1, <1>5, <2>4 DEF SwT
  <2>7. SwSound' BY <1>1, <1>2, <2>3, <2>5, <2>6 DEF SwSound, Unfinished, Finished
  <2>8. RunsApart' BY <1>1, <1>2, <2>6 DEF RunsApart
  <2>9. MigBackedUp' /\ MigTorn' BY <1>1, <1>2, <2>6, NoMigration
  <2>10. HistoryKept' BY <1>2, <2>5, StayKeeps
  <2> QED BY <1>3, <2>7, <2>8, <2>9, <2>10 DEF MigRest
<1> QED BY <1>4, <1>5 DEF MakeBackup

\* a script run that ends without having finished, or having been killed
LEMMA ScriptFails ==
  ASSUME MigAssumption, MigInv, sw.at \in {"backed", "replacing", "undoing"}, sw' = NoSwitch,
         UNCHANGED <<roll, row, kids, mig, ever, unseen, hostUp>>, restores => restores',
         \/ UNCHANGED backups
         \/ backups' = [backups EXCEPT ![sw.id].status = "failed"]
  PROVE  MigRest
<1> USE DEF MigInv
<1>1. mig.at = "none" /\ Unfinished(sw.id) /\ backups \in Seq(BackupT)
  BY DEF RunsApart, SwSound, MigTypes
<1>2. sw'.at = "none" BY DEF NoSwitch
<1>3. PICK n : n = sw.id OBVIOUS
<1>4. BackupsStay /\ Unfinished(n)'
  BY <1>1, <1>3, SameStay, MarkStay DEF Unfinished, Statuses, Finished
<1>5. Excused' BY <1>4, MarkedExcuses
<1>6. MigBackedUp' /\ MigTorn' BY <1>1, <1>5, NoMigration
<1>7. KidsInside' /\ SwSound' /\ RunsApart' /\ HistoryKept'
  BY <1>1, <1>2, <1>4, StayKeeps, NoScript DEF KidsInside, RunsApart
<1> QED BY <1>6, <1>7 DEF MigRest

\* What the backup holds is still what the files hold, and the Host is down.
LEMMA CheckSourcesSound == ASSUME MigAssumption, MigInv, CheckSources PROVE MigRest
<1> USE DEF MigInv
<1>1. sw.at = "backed" /\ mig.at = "none" /\ sw \in SwT
  BY DEF CheckSources, RunsApart, MigTypes
<1>2. UNCHANGED <<roll, row, kids, mig, ever, unseen, restores, hostUp>>
  BY DEF CheckSources, files, ghosts
<1>3. CASE sw' = NoSwitch /\ backups' = [backups EXCEPT ![sw.id].status = "failed"]
  BY <1>1, <1>2, <1>3, ScriptFails
<1>4. CASE ~hostUp /\ Unmoved(backups[sw.id]) /\ sw' = [sw EXCEPT !.at = "replacing"] /\ UNCHANGED backups
  <2>1. /\ sw'.at = "replacing" /\ sw'.id = sw.id /\ sw'.kind = sw.kind /\ sw'.roll = sw.roll
        /\ sw'.row = sw.row /\ sw'.left = sw.left /\ sw'.put = sw.put
    BY <1>1, <1>4 DEF SwT
  <2>2. KidsInside' /\ HistoryKept' /\ RunsApart'
    BY <1>1, <1>2, <1>4, <2>1 DEF KidsInside, HistoryKept, RunsApart
  <2>3. MigBackedUp' /\ MigTorn' BY <1>1, <1>2, <2>1, NoMigration
  <2>4. "roll" \in backups[sw.id].holds => AllBackedUp
    <3>1. SUFFICES ASSUME "roll" \in backups[sw.id].holds PROVE AllBackedUp OBVIOUS
    <3>2. roll = backups[sw.id].roll /\ sw.id \in DOMAIN backups
      BY <1>1, <1>4, <3>1 DEF Unmoved, SwSound, Unfinished
    <3> QED BY <3>1, <3>2 DEF HistoryKept, AllBackedUp, Holds
  <2>5. SwSound'
    BY <1>2, <1>4, <1>1, <2>1, <2>4 DEF AllBackedUp, Holds, SwSound, Unfinished
  <2> QED BY <2>2, <2>3, <2>5 DEF MigRest
<1> QED BY <1>3, <1>4 DEF CheckSources

\* A file is replaced, or the others are put back.
LEMMA ReplaceFileSound == ASSUME MigAssumption, MigInv, ReplaceFile PROVE MigRest
<1> USE DEF MigInv
<1>1. sw.at = "replacing" /\ mig.at = "none" /\ sw \in SwT /\ ~hostUp
  BY DEF ReplaceFile, RunsApart, MigTypes
<1>2. UNCHANGED <<kids, backups, mig, ever, unseen, restores, hostUp>>
  BY DEF ReplaceFile, ghosts
<1>3. KidsInside' /\ AllBackedUp' = AllBackedUp
  BY <1>2 DEF KidsInside, AllBackedUp, Holds
<1>4. /\ Unfinished(sw.id) /\ backups[sw.id].by = "script"
      /\ sw.left \cup sw.put \subseteq backups[sw.id].holds
      /\ "roll" \in backups[sw.id].holds => AllBackedUp
  BY <1>1 DEF SwSound
<1>5. CASE sw' = [sw EXCEPT !.at = "undoing"] /\ UNCHANGED <<row, cat, roll>>
  BY <1>1, <1>5, <1>2, NoMigration, <1>3, <1>4 DEF SwT, HistoryKept, RunsApart, SwSound, Unfinished, MigRest
<1>6. CASE /\ sw.left # {} /\ Put(FirstStore(sw.left), sw)
           /\ sw' = [sw EXCEPT !.left = @ \ {FirstStore(@)}, !.put = @ \cup {FirstStore(sw.left)}]
  <2>1. PICK x : x = FirstStore(sw.left) OBVIOUS
  <2>2. x \in sw.left BY <1>1, <1>6, <2>1, FirstIsOne DEF SwT
  <2>3. /\ sw'.at = "replacing" /\ sw'.id = sw.id /\ sw'.kind = sw.kind /\ sw'.roll = sw.roll
        /\ sw'.row = sw.row /\ sw'.left = sw.left \ {x} /\ sw'.put = sw.put \cup {x}
    BY <1>1, <1>6, <2>1 DEF SwT
  <2>4. /\ row' = (IF x = "row" THEN sw.row ELSE row)
        /\ roll' = (IF x = "roll" THEN sw.roll ELSE roll)
    BY <1>6, <2>1 DEF Put
  <2>5. HistoryKept'
    BY <1>3, <1>4, <2>2, <1>2, StayKeeps, SameStay, <2>4 DEF HistoryKept
  <2>6. RunsApart' BY <1>1, <1>2, <2>3 DEF RunsApart
  <2>7. MigBackedUp' /\ MigTorn' BY <1>1, <1>2, <2>3, NoMigration
  <2>8. sw.kind = "switch" =>
          /\ "row" \in sw'.left \/ row' = sw'.row
          /\ "roll" \in sw'.left \/ roll'.prov = sw'.row
          /\ sw'.roll.prov = sw'.row
    BY <1>1, <2>3, <2>4 DEF SwSound
  <2>9. Unfinished(sw.id)' /\ sw'.left \cup sw'.put \subseteq backups'[sw'.id].holds
    BY <1>2, <1>4, <2>2, <2>3 DEF Unfinished
  <2>10. SwSound' BY <1>2, <1>3, <1>4, <2>3, <2>8, <2>9 DEF SwSound, Unfinished
  <2> QED BY <1>3, <2>5, <2>6, <2>7, <2>10 DEF MigRest
<1> QED BY <1>5, <1>6 DEF ReplaceFile

\* A file is put back from the backup.
LEMMA UndoReplaceSound == ASSUME MigAssumption, MigInv, UndoReplace PROVE MigRest
<1> USE DEF MigInv
<1>1. sw.at = "undoing" /\ mig.at = "none" /\ sw \in SwT /\ ~hostUp
  BY DEF UndoReplace, RunsApart, MigTypes
<1>2. UNCHANGED <<kids, mig, ever, unseen, restores, hostUp>> BY DEF UndoReplace, ghosts
<1>3. /\ Unfinished(sw.id) /\ backups[sw.id].by = "script"
      /\ sw.left \cup sw.put \subseteq backups[sw.id].holds
      /\ "roll" \in backups[sw.id].holds => AllBackedUp
  BY <1>1 DEF SwSound
<1>4. CASE /\ backups' = [backups EXCEPT ![sw.id].status = "failed"]
           /\ sw' = NoSwitch /\ UNCHANGED <<row, cat, roll>>
  BY <1>1, <1>2, <1>4, ScriptFails
<1>5. CASE /\ sw.put # {} /\ Put(LastStore(sw.put), backups[sw.id]) /\ UNCHANGED backups
           /\ sw' = [sw EXCEPT !.put = @ \ {LastStore(@)}]
  <2>1. PICK x : x = LastStore(sw.put) OBVIOUS
  <2>2. x \in sw.put BY <1>1, <1>5, <2>1, FirstIsOne DEF SwT
  <2>3. /\ sw'.at = "undoing" /\ sw'.id = sw.id /\ sw'.left = sw.left /\ sw'.put = sw.put \ {x}
    BY <1>1, <1>5, <2>1 DEF SwT
  <2>4. roll' = (IF x = "roll" THEN backups[sw.id].roll ELSE roll) BY <1>5, <2>1 DEF Put
  <2>5. AllBackedUp' = AllBackedUp /\ KidsInside'
    BY <1>2, <1>5 DEF AllBackedUp, Holds, KidsInside
  <2>6. HistoryKept'
    BY <1>3, <2>2, <2>5, <1>2, <1>5, StayKeeps, SameStay, <2>4 DEF HistoryKept
  <2>7. RunsApart' BY <1>1, <1>2, <2>3 DEF RunsApart
  <2>8. MigBackedUp' /\ MigTorn' BY <1>1, <1>2, <2>3, NoMigration
  <2>9. Unfinished(sw.id)' /\ sw'.left \cup sw'.put \subseteq backups'[sw'.id].holds
    BY <1>2, <1>3, <1>5, <2>3 DEF Unfinished
  <2>10. SwSound' BY <1>2, <1>3, <1>5, <2>3, <2>5, <2>9 DEF SwSound, Unfinished
  <2> QED BY <2>5, <2>6, <2>7, <2>8, <2>10 DEF MigRest
<1> QED BY <1>4, <1>5 DEF UndoReplace

\* A switch that ends has written the row and the rollout alike.
LEMMA FinishReplaceSound == ASSUME MigAssumption, MigInv, FinishReplace PROVE MigRest
<1> USE DEF MigInv
<1>1. sw.at = "replacing" /\ sw.left = {} /\ mig.at = "none" /\ sw \in SwT /\ ~hostUp /\ backups \in Seq(BackupT)
  BY DEF FinishReplace, RunsApart, MigTypes
<1>2. UNCHANGED <<roll, row, kids, mig, ever, unseen, hostUp>> /\ (restores => restores')
  BY DEF FinishReplace, files
<1>3. PICK n : n = sw.id OBVIOUS
<1>4. n \in DOMAIN backups /\ backups[n].by = "script"
  BY <1>1, <1>3 DEF SwSound, Unfinished
<1>5. BackupsStay BY <1>1, <1>3, <1>4, MarkStay DEF FinishReplace, Statuses
<1>6. sw'.at = "none" BY DEF FinishReplace, NoSwitch
<1>7. KidsInside' /\ SwSound' /\ RunsApart' /\ HistoryKept'
  BY <1>1, <1>2, <1>5, <1>6, StayKeeps, NoScript DEF KidsInside, RunsApart
<1>8. Excused' \/ ThreadWhole'
  BY <1>1, <1>4, <1>5, StayKeeps, <1>2 DEF FinishReplace, Excused, SwSound, Scripted, ThreadWhole, SwT
<1>9. MigBackedUp' /\ MigTorn' BY <1>1, <1>2, <1>8, NoMigration
<1> QED BY <1>7, <1>9 DEF MigRest

\* A script that is killed leaves its backup recorded as unfinished.
LEMMA ScriptKilledSound == ASSUME MigAssumption, MigInv, ScriptKilled PROVE MigRest
<1>1. /\ sw.at \in {"backed", "replacing", "undoing"} /\ sw' = NoSwitch
      /\ UNCHANGED <<roll, row, kids, mig, ever, unseen, hostUp, backups>> /\ (restores => restores')
  BY DEF ScriptKilled, files
<1> QED BY <1>1, ScriptFails

--------------------
\* Every step preserves the invariant.
LEMMA MigStep == ASSUME MigAssumption, MigInv, [MigNext]_migVars PROVE MigInv'
<1> USE DEF MigInv
<1>1. CASE UNCHANGED migVars
  BY <1>1, NothingMoves DEF migVars, files, ghosts, Goes, SameRest, RunsApart, MigTypes
<1>2. CASE MigNext
  <2>1. MigTypes'
    BY <1>2, SurroundingsTyped, StartTyped, WritingTyped, UndoingTyped, ScriptTyped DEF MigNext
  <2>2. CASE HostWorks \/ ChangeProvider \/ HostToggles \/ ServiceExits \/ ServiceRestarts \/ Cancel
    BY <2>1, <2>2, HostWorksSound, SurroundingsSound DEF MigRest
  <2>3. CASE Prepare \/ CheckIdle \/ StopForMigration \/ ReadThread
    BY <2>1, <2>3, StartSound DEF MigRest
  <2>4. CASE \/ WriteBackups \/ WriteRollout \/ RecordStatus \/ WriteLineage \/ UpdateRow
             \/ UpdateCatalog
    BY <2>1, <2>4, WriteBackupsSound, WriteRolloutSound, RecordStatusSound, WriteLineageSound,
       UpdateRowSound, UpdateCatalogSound DEF MigRest
  <2>5. CASE \/ UndoLineage \/ UndoCatalog \/ UndoRow \/ UndoRollout \/ RecordRollback
             \/ FinishPrepare
    BY <2>1, <2>5, UndoLineageSound, UndoStoresSound, RecordRollbackSound, FinishPrepareSound
    DEF MigRest
  <2>6. CASE \/ PlanSwitch \/ PlanRestore \/ MakeBackup \/ CheckSources \/ ReplaceFile
             \/ UndoReplace \/ FinishReplace \/ ScriptKilled
    BY <2>1, <2>6, PlanSound, MakeBackupSound, CheckSourcesSound, ReplaceFileSound,
       UndoReplaceSound, FinishReplaceSound, ScriptKilledSound DEF MigRest
  <2> QED BY <1>2, <2>2, <2>3, <2>4, <2>5, <2>6 DEF MigNext
<1> QED BY <1>1, <1>2

\* A migration writes nothing before all it read is backed up, each of its steps finds
\* what
\* the one before left, and its rollback knows what was written
\* (migrateCodexThreadProvider);
\* the script replaces only what its verified backup holds (codex-provider-switch.sh).
THEOREM MigrationInvariant == MigSpec => []MigInv
<1>1. MigInit => MigInv BY MigInitSound, MigAssumption
<1>2. MigInv /\ [MigNext]_migVars => MigInv' BY MigStep, MigAssumption
<1> QED BY <1>1, <1>2, PTL DEF MigSpec

\* A migration or script run loses no record Codex wrote, and one that was cut short, by a
\* failure, a cancellation or an exit at any step, is recorded as unfinished in its backup
\* directory (codex_provider_migration.go, codex-provider-switch.sh).
THEOREM MigrationsStaySound == MigSpec => []MigrationSound
<1>1. MigInv => MigrationSound
  <2>1. SUFFICES ASSUME MigInv PROVE HistoryKept /\ TornIsRecorded BY DEF MigrationSound
  <2>2. HistoryKept BY <2>1 DEF MigInv
  <2>3. TornIsRecorded
    <3>1. SUFFICES ASSUME ~unseen, ~restores, sw.at = "none", mig.at = "none", Torn
                   PROVE  \E i \in DOMAIN backups : backups[i].status \notin Finished
      BY DEF TornIsRecorded
    <3>2. Excused \/ ThreadWhole BY <2>1, <3>1 DEF MigInv, MigTorn, BeforeBackup
    <3>3. \A i \in DOMAIN backups : backups[i].by \in {"weclaw", "script"}
      <4>1. ASSUME NEW i \in DOMAIN backups PROVE backups[i] \in BackupT
        BY <2>1, ElementOfSeq DEF MigInv, MigTypes
      <4> QED BY <4>1 DEF BackupT
    <3>4. ~ThreadWhole BY <3>1, <3>3 DEF Torn, ThreadWhole, Scripted
    <3> QED BY <3>1, <3>2, <3>4 DEF Excused, Unfinished
  <2> QED BY <2>2, <2>3
<1> QED BY <1>1, MigrationInvariant, PTL
=============================================================================
