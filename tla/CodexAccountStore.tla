-------------------------- MODULE CodexAccountStore --------------------------
(***************************************************************************)
(* The store of saved Codex accounts (codexauth/store.go,                  *)
(* codexauth/secret_intent.go).                                            *)
(*                                                                         *)
(* Three places hold its state: the index file, the file of secret create  *)
(* intents, and the secrets themselves, in the system key ring or in files *)
(* of their own.  No write spans two of them, any of them may fail, and    *)
(* the process may stop between any two.  A transaction holds switch.lock, *)
(* so one runs at a time, in the service or in the command line.  A label  *)
(* stands for a profile; what a secret says is not modelled, only whether  *)
(* it exists.                                                              *)
(***************************************************************************)
EXTENDS Naturals, Sequences, FiniteSets

CONSTANTS
  Labels,        \* labels of profiles
  MaxSecrets,    \* bound: secrets ever made
  MaxTx,         \* bound: transactions
  MaxMishaps     \* bound: failed writes and deletes, and stops of the process

ASSUME StoreAssumption == MaxSecrets \in Nat /\ MaxTx \in Nat /\ MaxMishaps \in Nat

VARIABLES
  index,     \* index.json: [profiles, active, deletes, status]
  intents,   \* secret-create-intents.json
  secrets,   \* the secrets that exist, each [n, backend]
  tx,        \* the open transaction, in memory
  made,      \* secrets numbered so far
  txs, mishaps

storeVars == <<index, intents, secrets, tx, made, txs, mishaps>>

NoLabel == "none"
NoSecret == [n |-> 0, backend |-> "none"]
Backends == {"keyring", "file"}

\* The scripts of the callers: save, remove, an offline use and an online switch.
SaveScript(l, replace, file) == <<[do |-> "put", label |-> l, replace |-> replace, file |-> file],
                            [do |-> "activate", label |-> l], [do |-> "flush"]>>
RemoveScript(l) == <<[do |-> "remove", label |-> l], [do |-> "flush"]>>
OfflineScript(l) == <<[do |-> "activate", label |-> l], [do |-> "journal", status |-> "offline"], [do |-> "flush"]>>
UseScript(l) == <<[do |-> "refresh"], [do |-> "flush"], [do |-> "journal", status |-> "switching"], [do |-> "flush"],
            [do |-> "activate", label |-> l], [do |-> "journal", status |-> "success"], [do |-> "flush"]>>
TxScripts ==
  {SaveScript(l, r, f) : l \in Labels, r \in BOOLEAN, f \in BOOLEAN}
    \cup {RemoveScript(l) : l \in Labels} \cup {OfflineScript(l) : l \in Labels} \cup {UseScript(l) : l \in Labels}

ClosedTx == [at |-> "closed", todo |-> <<>>, index |-> NoLabel, base |-> NoLabel, intents |-> {}, new |-> {}, drop |-> {},
           dirty |-> FALSE, hand |-> NoSecret, batch |-> {}, back |-> NoLabel]

StoreInit ==
  /\ index = [profiles |-> [l \in {} |-> NoSecret], active |-> NoLabel, deletes |-> {}, status |-> NoLabel]
  /\ intents = {} /\ secrets = {} /\ tx = ClosedTx
  /\ made = 0 /\ txs = 0 /\ mishaps = 0

Mishap == mishaps < MaxMishaps /\ mishaps' = mishaps + 1
NoMishap == UNCHANGED mishaps
\* A write or a delete succeeds or fails.
Outcome(ok) == IF ok THEN NoMishap ELSE Mishap

PutAt(f, l, s) == [k \in DOMAIN f \cup {l} |-> IF k = l THEN s ELSE f[k]]
Without(f, l) == [k \in DOMAIN f \ {l} |-> f[k]]
Refs(ix) == {ix.profiles[l] : l \in DOMAIN ix.profiles}

-----------------------------------------------------------------------------
(* Recovery at the start of every transaction.                             *)

\* The lock is taken and both files are read.
BeginTx(script) ==
  /\ tx.at = "closed" /\ txs < MaxTx
  /\ tx' = [ClosedTx EXCEPT !.at = "creates", !.todo = script, !.index = index, !.base = index, !.intents = intents,
                          !.back = "deletes"]
  /\ txs' = txs + 1
  /\ UNCHANGED <<index, intents, secrets, made>> /\ NoMishap

\* Intents left by an earlier transaction: those the last commit refers to are settled, the others' secrets are deleted.
IndexReferencesSecret(ix, s) == s \in Refs(ix)
RetryCreates(failed) ==
  LET loose == {s \in tx.intents : ~IndexReferencesSecret(tx.base, s)}
  IN /\ tx.at = "creates"
     /\ failed \subseteq loose
     /\ Outcome(failed = {})
     /\ secrets' = secrets \ (loose \ failed)
     /\ tx' = [tx EXCEPT !.at = IF failed = tx.intents THEN tx.back ELSE "creates-write", !.batch = failed]
     /\ UNCHANGED <<index, intents, made, txs>>

\* What remains is written; a failed write keeps the intents in memory too and they are tried again later.
WriteCreates(ok) ==
  /\ tx.at = "creates-write"
  /\ Outcome(ok)
  /\ intents' = IF ok THEN tx.batch ELSE intents
  /\ tx' = [tx EXCEPT !.at = tx.back, !.intents = IF ok THEN tx.batch ELSE @, !.batch = {}]
  /\ UNCHANGED <<index, secrets, made, txs>>

\* Secrets a commit left to delete.
RetryDeletes(failed) ==
  /\ tx.at = "deletes"
  /\ failed \subseteq tx.index.deletes
  /\ Outcome(failed = {})
  /\ secrets' = secrets \ (tx.index.deletes \ failed)
  /\ tx' = [tx EXCEPT !.at = IF failed = tx.index.deletes THEN (IF tx.back = "run" THEN "run" ELSE "orphans") ELSE "deletes-write",
                      !.index.deletes = failed]
  /\ UNCHANGED <<index, intents, made, txs>>

WriteDeletes(ok) ==
  /\ tx.at = "deletes-write"
  /\ Outcome(ok)
  /\ index' = IF ok THEN tx.index ELSE index
  /\ tx' = [tx EXCEPT !.at = IF tx.back = "run" THEN "run" ELSE "orphans", !.base = IF ok THEN tx.index ELSE @]
  /\ UNCHANGED <<intents, secrets, made, txs>>

\* Secret files nothing protects are removed; then the caller's function runs.
CleanupOrphanFileSecrets(failed) ==
  LET orphans == {s \in secrets : s.backend = "file" /\ s \notin Refs(tx.index) \cup tx.index.deletes \cup tx.intents}
  IN /\ tx.at = "orphans"
     /\ failed \subseteq orphans
     /\ Outcome(failed = {})
     /\ secrets' = secrets \ (orphans \ failed)
     /\ tx' = [tx EXCEPT !.at = "run", !.back = "run"]
     /\ UNCHANGED <<index, intents, made, txs>>

-----------------------------------------------------------------------------
(* The steps of a caller's function.                                       *)

TxAt(do) == tx.at = "run" /\ tx.todo # <<>> /\ Head(tx.todo).do = do
TxArg == Head(tx.todo)
TxKnows(l) == l \in DOMAIN tx.index.profiles
Aborted == [tx EXCEPT !.at = "abort"]

\* A missing or taken label, a profile in use, a changed revision: the function fails before it writes anything.
TxRefused ==
  /\ \/ TxAt("put") /\ TxKnows(TxArg.label) /\ ~TxArg.replace
     \/ TxAt("remove") /\ (~TxKnows(TxArg.label) \/ tx.index.active = TxArg.label)
     \/ TxAt("activate") /\ ~TxKnows(TxArg.label)
     \/ TxAt("fail")
  /\ tx' = Aborted
  /\ UNCHANGED <<index, intents, secrets, made, txs>> /\ NoMishap

\* An error of the caller itself: a stale revision, an unreadable secret, a host that did not stop.
CallerFails ==
  /\ tx.at = "run" /\ tx.todo # <<>> /\ tx.hand = NoSecret
  /\ Mishap /\ tx' = Aborted
  /\ UNCHANGED <<index, intents, secrets, made, txs>>

\* A switch that fails once the host is stopped, its last commit included, puts the active profile back and records
\* whether the old host runs again; the transaction then fails.
RollBack(status) ==
  /\ tx.at = "undo" \/ (TxAt("activate") /\ tx.todo[2].do = "journal" /\ tx.todo[2].status = "success")
  /\ IF tx.at = "undo" THEN NoMishap ELSE Mishap
  /\ tx' = [tx EXCEPT !.at = "run", !.index.active = tx.base.active, !.dirty = TRUE,
                      !.todo = <<[do |-> "journal", status |-> status], [do |-> "flush"], [do |-> "fail"]>>]
  /\ UNCHANGED <<index, intents, secrets, made, txs>>

\* writeSecret and materializeSecret: the intent is written, then the secret, in the key ring first.
Stores(do) == TxAt(do) /\ (do = "put" => ~TxKnows(TxArg.label) \/ TxArg.replace)
RefreshBackend == IF tx.index.active = NoLabel THEN NoLabel ELSE tx.index.profiles[tx.index.active].backend
AddCreateIntent(ok) ==
  /\ Stores("put") \/ (Stores("refresh") /\ tx.index.active # NoLabel)
  /\ tx.hand = NoSecret /\ made < MaxSecrets
  /\ Outcome(ok)
  /\ LET first == IF TxArg.do = "put" THEN "keyring" ELSE RefreshBackend
         s == [n |-> made + 1, backend |-> first]
     IN IF ok
        THEN /\ intents' = tx.intents \cup {s}
             /\ tx' = [tx EXCEPT !.intents = @ \cup {s}, !.hand = s]
        ELSE UNCHANGED intents /\ tx' = IF TxArg.do = "put" /\ TxArg.file THEN [tx EXCEPT !.hand = [s EXCEPT !.n = 0]] ELSE Aborted
  /\ made' = made + 1
  /\ UNCHANGED <<index, secrets, txs>>

\* The secret is stored and the profile points at it; the secret it had is to be deleted with the commit.
SecretStored ==
  LET s == tx.hand
      l == IF TxArg.do = "put" THEN TxArg.label ELSE tx.index.active
  IN /\ tx.at = "run" /\ s.n # 0
     /\ secrets' = secrets \cup {s}
     /\ tx' = [tx EXCEPT !.hand = NoSecret, !.new = @ \cup {s}, !.index.profiles = PutAt(@, l, s),
                         !.drop = IF TxKnows(l) THEN @ \cup {tx.index.profiles[l]} ELSE @,
                         !.dirty = TRUE, !.todo = Tail(@)]
     /\ UNCHANGED <<index, intents, made, txs>> /\ NoMishap

\* The secret is not stored: its intent is withdrawn, and a save that may use a file tries one.
SecretFails(cleared) ==
  LET s == tx.hand
      file == TxArg.do = "put" /\ TxArg.file /\ s.backend = "keyring"
  IN /\ tx.at = "run" /\ s.n # 0
     /\ Mishap
     /\ intents' = IF cleared THEN tx.intents \ {s} ELSE intents
     /\ tx' = [tx EXCEPT !.intents = IF cleared THEN @ \ {s} ELSE @,
                         !.at = IF file THEN "run" ELSE "abort",
                         !.hand = IF file THEN [n |-> 0, backend |-> "keyring"] ELSE NoSecret]
     /\ UNCHANGED <<index, secrets, made, txs>>

\* The second attempt of a save, with a secret file.
AddFileIntent(ok) ==
  /\ tx.at = "run" /\ tx.hand = [n |-> 0, backend |-> "keyring"] /\ made < MaxSecrets
  /\ Outcome(ok)
  /\ LET s == [n |-> made + 1, backend |-> "file"]
     IN IF ok
        THEN intents' = tx.intents \cup {s} /\ tx' = [tx EXCEPT !.intents = @ \cup {s}, !.hand = s]
        ELSE UNCHANGED intents /\ tx' = Aborted
  /\ made' = made + 1
  /\ UNCHANGED <<index, secrets, txs>>

\* Changes of the index in memory: the active profile, the record of the last switch, a profile removed.
EditIndex ==
  /\ \/ /\ TxAt("activate") /\ TxKnows(TxArg.label)
        /\ tx' = [tx EXCEPT !.index.active = TxArg.label, !.dirty = TRUE, !.todo = Tail(@)]
     \/ /\ TxAt("journal")
        /\ tx' = [tx EXCEPT !.index.status = TxArg.status, !.dirty = TRUE, !.todo = Tail(@)]
     \/ /\ TxAt("remove") /\ TxKnows(TxArg.label) /\ tx.index.active # TxArg.label
        /\ tx' = [tx EXCEPT !.index.profiles = Without(@, TxArg.label), !.drop = @ \cup {tx.index.profiles[TxArg.label]},
                            !.dirty = TRUE, !.todo = Tail(@)]
     \/ /\ TxAt("refresh") /\ tx.index.active = NoLabel
        /\ tx' = [tx EXCEPT !.todo = Tail(@)]
  /\ UNCHANGED <<index, intents, secrets, made, txs>> /\ NoMishap

-----------------------------------------------------------------------------
(* Flush and abort.                                                        *)

\* The index is written with the secrets to delete; a failed write fails the transaction.
FlushIndex(ok) ==
  LET next == [tx.index EXCEPT !.deletes = @ \cup tx.drop]
  IN /\ TxAt("flush")
     /\ Outcome(ok \/ ~tx.dirty)
     /\ IF ~tx.dirty
        THEN tx' = [tx EXCEPT !.at = "deletes", !.todo = Tail(@)] /\ UNCHANGED index
        ELSE /\ tx' = IF ok
                      THEN [tx EXCEPT !.at = "settle", !.index = next, !.base = next, !.drop = {}, !.dirty = FALSE,
                                      !.batch = tx.new, !.new = {}, !.todo = Tail(@)]
                      ELSE [tx EXCEPT !.at = IF tx.base.status = "switching" /\ tx.index.status = "success" THEN "undo" ELSE "abort", !.index = next, !.drop = {}]
             /\ index' = IF ok THEN next ELSE index
     /\ UNCHANGED <<intents, secrets, made, txs>>

\* The intents of the committed secrets are withdrawn; a failure is only logged.  Then the deletes are tried.
SettleIntents(ok) ==
  /\ tx.at = "settle"
  /\ Outcome(ok) /\ (ok \/ tx.batch # {})
  /\ intents' = IF ok THEN tx.intents \ tx.batch ELSE intents
  /\ tx' = [tx EXCEPT !.at = "deletes", !.intents = IF ok THEN @ \ tx.batch ELSE @, !.batch = {}]
  /\ UNCHANGED <<index, secrets, made, txs>>

\* cleanupNewSecrets: the secrets of this transaction are deleted, their intents withdrawn, and the creates retried.
CleanupWithdrawingAll(failed) ==   \* mutant: the intents of secrets that could not be deleted are withdrawn too
  /\ tx.at = "abort"
  /\ failed \subseteq tx.new
  /\ Outcome(failed = {})
  /\ secrets' = secrets \ (tx.new \ failed)
  /\ tx' = [tx EXCEPT !.at = "abort-write", !.batch = tx.new, !.new = {}, !.back = "end"]
  /\ UNCHANGED <<index, intents, made, txs>>
CleanupNewSecrets(failed) ==
  /\ tx.at = "abort"
  /\ failed \subseteq tx.new
  /\ Outcome(failed = {})
  /\ secrets' = secrets \ (tx.new \ failed)
  /\ tx' = [tx EXCEPT !.at = "abort-write", !.batch = tx.new \ failed, !.new = {}, !.back = "end"]
  /\ UNCHANGED <<index, intents, made, txs>>

WithdrawIntents(ok) ==
  /\ tx.at = "abort-write"
  /\ Outcome(ok) /\ (ok \/ tx.batch # {})
  /\ intents' = IF ok THEN tx.intents \ tx.batch ELSE intents
  /\ tx' = [tx EXCEPT !.at = "creates", !.intents = IF ok THEN @ \ tx.batch ELSE @, !.batch = {}]
  /\ UNCHANGED <<index, secrets, made, txs>>

\* The function returned and its last flush ran, or the abort is complete: the lock is released.
EndTx ==
  /\ tx.at = "end" \/ (tx.at = "run" /\ tx.todo = <<>>)
  /\ tx' = ClosedTx
  /\ UNCHANGED <<index, intents, secrets, made, txs>> /\ NoMishap

\* The process stops; the system releases the lock.
StoreCrash ==
  /\ tx.at # "closed" /\ Mishap
  /\ tx' = ClosedTx
  /\ UNCHANGED <<index, intents, secrets, made, txs>>

StoreNext ==
  \/ \E s \in TxScripts : BeginTx(s)
  \/ \E failed \in SUBSET (tx.intents \cup tx.new \cup secrets) :
       RetryCreates(failed) \/ RetryDeletes(failed) \/ CleanupOrphanFileSecrets(failed) \/ CleanupNewSecrets(failed)
  \/ \E ok \in BOOLEAN :
       \/ WriteCreates(ok) \/ WriteDeletes(ok) \/ AddCreateIntent(ok) \/ AddFileIntent(ok) \/ SecretFails(ok)
       \/ FlushIndex(ok) \/ SettleIntents(ok) \/ WithdrawIntents(ok)
  \/ \E status \in {"rolled_back", "rollback_failed"} : RollBack(status)
  \/ TxRefused \/ CallerFails \/ SecretStored \/ EditIndex \/ EndTx \/ StoreCrash

StoreSpec == StoreInit /\ [][StoreNext]_storeVars

-----------------------------------------------------------------------------
\* No saved account loses its login: every profile of the index on disk has its secret, whatever failed and wherever
\* the process stopped; recovery deletes nothing a commit refers to.
CommittedSecretsExist == Refs(index) \subseteq secrets

\* No login is left behind: every secret that exists is a profile's, or is recorded on disk as one to delete or as
\* one being made, so a later transaction finds it.
SecretsAccountedFor == secrets \subseteq Refs(index) \cup index.deletes \cup intents

\* The store after any failed write or exit: nothing committed is missing and nothing unnamed is kept
\* (retryPendingSecretCreates, cleanupNewSecrets).
StoreSound == CommittedSecretsExist /\ SecretsAccountedFor
=============================================================================
