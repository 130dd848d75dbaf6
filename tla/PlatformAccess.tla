--------------------------- MODULE PlatformAccess ---------------------------
(***************************************************************************)
(* Who may talk to a bot: the configuration file with its allowed users,   *)
(* the commands that rewrite it (chat, command line, web console, an       *)
(* editor), the list of the running registry, the reloader that brings the *)
(* two together, the identities the service has seen and the authorization *)
(* codes it hands out, and the follower endpoint an admitted user leaves.  *)
(*                                                                         *)
(* One Feishu account.  A message always carries the sender's open id and  *)
(* may carry the union id too, so one person is known under two keys.      *)
(* The commands run in three processes: "chat" inside the service, "cli"   *)
(* and "web" outside of it; they share the file, its lock and nothing else.*)
(***************************************************************************)
EXTENDS Naturals, FiniteSets

CONSTANTS
    AccessUsers,      \* the people who write to the bot
    UnionUsers,       \* those whose messages may also carry a union id
    EnvAgent,         \* the default agent WECLAW_DEFAULT_AGENT sets
    FileAgents,       \* the default agents a command may save
    MaxAccessOps,     \* bound: commands and edits
    MaxAccessMessages,\* bound: messages
    MaxAccessMishaps  \* bound: failed reads and writes, exits of the service

ASSUME AccessAssumption ==
    /\ UnionUsers \subseteq AccessUsers
    /\ EnvAgent \notin FileAgents
    /\ FileAgents # {}
    /\ MaxAccessOps \in Nat /\ MaxAccessMessages \in Nat
    /\ MaxAccessMishaps \in Nat

VARIABLES
    cfgFile,      \* config.json
    cfgLock,      \* who holds config.json.lock
    cmdJob,       \* the command each process is running
    webView,      \* the page the console's user has open
    regAllowed,   \* the registry's allowed keys
    cfgChanged,   \* the file is newer than the reloader's lastMod
    reload,       \* where the reloader is, and what its Load returned
    idMem,        \* identity records in the service
    idFile,       \* feishu-identities.json
    inbox,        \* the key under which a message was admitted and is handled
    endpoint,     \* the key of the stored follower endpoint
    deliveryHeld, \* the chat command holds codexFollowerDeliveryMu
    accessOps, accessMessages, accessMishaps,
    gone,         \* history: [told, soon]: keys a chat command reported as
                  \* revoked, or has removed and not yet reported, and that
                  \* nobody has granted since
    unclosed,     \* history: the endpoint could not be cleared on disk
    edited        \* history: an editor wrote since the lock was taken

accessVars == <<cfgFile, cfgLock, cmdJob, webView, regAllowed, cfgChanged,
                reload, idMem, idFile, inbox, endpoint, deliveryHeld,
                accessOps, accessMessages, accessMishaps, gone, unclosed,
                edited>>

NoUser == "nobody"
NoKey == <<"none", "none">>
OpenId(u) == <<"open", u>>
UnionId(u) == <<"union", u>>
AccessKeys == {OpenId(u) : u \in AccessUsers} \cup {UnionId(u) : u \in UnionUsers}
ConfigCommands == {"chat", "cli", "web"}
Masked == "masked"

\* What a command means to change: keys to add and to remove, the default
\* agent to save (EnvAgent: none, or the very value the environment shows).
NoIntent == [add |-> {}, del |-> {}, agent |-> EnvAgent, enable |-> FALSE]
NoBase == [allowed |-> {}, agent |-> EnvAgent, token |-> Masked,
           enabled |-> FALSE, readable |-> FALSE]
IdleJob == [at |-> "idle", intent |-> NoIntent, base |-> NoBase,
            mem |-> <<>>, rec |-> NoKey]

\* Keys that are granted again are no longer revoked ones.
Granted(g, keys) == [told |-> g.told \ keys, soon |-> g.soon \ keys]
-----------------------------------------------------------------------------
(* The identity records.  A record's key is its union id, else its open id;  *)
(* a record keyed by the union id also knows the open id of this account.    *)

NewRecord == [approved |-> FALSE, code |-> FALSE]

\* feishuIdentityAuthKeys: the keys that admit the person of a record here.
AuthKeys(key) ==
    IF key[1] = "union" THEN {key, OpenId(key[2])} ELSE {key}

\* feishuIdentityRecordMatches.
RecordMatches(key, selector) == selector \in AuthKeys(key)

\* feishuIdentityRecordNeedsApproval: new, or with a code that is still valid.
NeedsApproval(rec) == ~rec.approved \/ rec.code

\* resolveFeishuIdentityApprovalRecord: a pending record before any other;
\* which of several is a matter of when they were last seen.
ApprovalRecords(mem, selector) ==
    LET found == {k \in DOMAIN mem : RecordMatches(k, selector)}
        pending == {k \in found : NeedsApproval(mem[k])}
    IN  IF pending # {} THEN pending ELSE found

\* mergeFeishuIdentityRecords.
MergedRecord(current, incoming) ==
    [approved |-> current.approved \/ incoming.approved,
     code     |-> current.code \/ incoming.code]

RecordOf(mem, key) == IF key \in DOMAIN mem THEN mem[key] ELSE NewRecord

\* mergeOpenIDRecord and applyFeishuIdentity: the record under the union id
\* takes over what was kept under the open id.
Absorbs(mem, user, key) == key = UnionId(user) /\ OpenId(user) \in DOMAIN mem
Absorbed(mem, user, key) ==
    IF Absorbs(mem, user, key)
    THEN MergedRecord(RecordOf(mem, key), mem[OpenId(user)])
    ELSE RecordOf(mem, key)

\* upsertLocked, under the best key the message carries.
Upserted(mem, user, key) ==
    LET kept == IF Absorbs(mem, user, key) THEN DOMAIN mem \ {OpenId(user)}
                ELSE DOMAIN mem
    IN  [k \in kept \cup {key} |->
            IF k = key THEN Absorbed(mem, user, key) ELSE mem[k]]

\* purgeStalePendingLocked and enforcePendingRecordLimitLocked.
MayDrop(mem, user) == {k \in DOMAIN mem : k[2] # user /\ ~mem[k].approved}

\* Remember: the sender is recorded, then pending records of others may fall
\* to the age limit or to the limit on their number.
Remember(mem, user, key, dropped) ==
    LET seen == Upserted(mem, user, key)
    IN  [k \in DOMAIN seen \ dropped |-> seen[k]]

\* IssueAuthCode: a valid code is reused, otherwise a new unique one is set.
IssueAuthCode(mem, key) == [mem EXCEPT ![key].code = TRUE]

\* FindByAuthCode: the records whose code is still valid.
CodeHolders(mem) == {k \in DOMAIN mem : mem[k].code}

\* Approve: the record is approved and its code is spent.
Approved(mem, key) == [mem EXCEPT ![key] = [approved |-> TRUE, code |-> FALSE]]

\* save: a failed write is logged and nothing else.
SaveIdentities(mem) ==
    \/ idFile' = mem /\ UNCHANGED accessMishaps
    \/ /\ accessMishaps < MaxAccessMishaps
       /\ accessMishaps' = accessMishaps + 1
       /\ UNCHANGED idFile
-----------------------------------------------------------------------------
(* config.Load, config.Update and the lock both sides take.                  *)

\* loadEnv: the environment covers the default agent.
WithEnv(cfg) == [cfg EXCEPT !.agent = EnvAgent]

\* addIdentityToFeishuBots and removeIdentityFromFeishuBots, on the account
\* the command names.
AddIdentity(users, keys) == users \cup keys
RemoveIdentity(users, keys) == users \ keys

\* The mutation a command hands to Update.
Mutated(cfg, intent) ==
    [cfg EXCEPT !.allowed = AddIdentity(RemoveIdentity(@, intent.del), intent.add),
                !.agent = intent.agent,
                !.enabled = @ \/ intent.enable]

\* restoreUnchangedEnvironmentBackedValues, mutant: the effective value stays.
EnvironmentSaved(cfg, persisted) == cfg

\* restoreUnchangedEnvironmentBackedValues: what still shows the environment's
\* value is written as it was on disk.
RestoreUnchanged(cfg, persisted) ==
    IF cfg.agent = EnvAgent THEN [cfg EXCEPT !.agent = persisted.agent] ELSE cfg

\* redactConfig: the page shows the effective values and a mask for the token.
Redacted(cfg) == [shown |-> [WithEnv(cfg) EXCEPT !.token = Masked],
                  revision |-> WithEnv(cfg)]

\* mergeSecret: the mask stands for the value in the file.
MergeSecret(incoming, existing) ==
    IF incoming = Masked THEN existing ELSE incoming

\* mergeView: the page's values over the file's, the secrets aside.
MergeView(current, page) ==
    [page.shown EXCEPT !.token = MergeSecret(@, current.token)]

\* validateConfigViewRevision.
SameRevision(current, page) == page.revision = current

\* withConfigMutationLock and the read inside of it.  An unreadable file ends
\* the command.
LockAndRead(p) ==
    /\ cmdJob[p].at = "ready"
    /\ cfgLock = NoUser
    /\ edited' = FALSE
    /\ IF cfgFile.readable
       THEN /\ cfgLock' = p
            /\ cmdJob' = [cmdJob EXCEPT ![p].at = "locked", ![p].base = cfgFile]
       ELSE /\ cmdJob' = [cmdJob EXCEPT ![p] = IdleJob]
            /\ UNCHANGED cfgLock
    /\ UNCHANGED <<accessMessages, cfgFile, webView, regAllowed, cfgChanged,
                   reload, idMem, idFile, inbox, endpoint, deliveryHeld,
                   accessOps, accessMishaps, gone, unclosed>>

\* The value Update writes for a command.
NewContent(p) ==
    LET base == cmdJob[p].base
        result == IF p = "web" THEN Mutated(MergeView(WithEnv(base), webView),
                                            cmdJob[p].intent)
                  ELSE Mutated(WithEnv(base), cmdJob[p].intent)
    IN  RestoreUnchanged(result, base)

\* A revocation that removed nothing is answered "not found"; everything else
\* that the chat wrote goes on to the record and the registry.
JobOutcome(p) ==
    LET j == cmdJob[p]
    IN  IF p = "web" THEN "idle"
        ELSE IF j.intent.del # {} /\ j.intent.del \cap j.base.allowed = {} THEN "idle"
        ELSE IF p = "cli" /\ j.rec = NoKey THEN "idle" ELSE "written"

\* Update: check, save atomically, release.
WriteConfig(p) ==
    /\ cmdJob[p].at = "locked"
    /\ IF p = "web" => SameRevision(WithEnv(cmdJob[p].base), webView)
       THEN /\ cfgFile' = NewContent(p)
            /\ cfgChanged' = TRUE
            /\ gone' = Granted(IF p = "chat" THEN [gone EXCEPT !.soon = cmdJob[p].intent.del]
                               ELSE gone, cmdJob[p].intent.add)
            /\ cmdJob' = [cmdJob EXCEPT ![p] =
                   IF JobOutcome(p) = "idle" THEN IdleJob ELSE [@ EXCEPT !.at = "written"]]
       ELSE /\ cmdJob' = [cmdJob EXCEPT ![p] = IdleJob]
            /\ UNCHANGED <<cfgFile, cfgChanged, gone>>
    /\ cfgLock' = NoUser
    /\ UNCHANGED <<accessMessages, webView, regAllowed, reload, idMem, idFile,
                   inbox, endpoint, deliveryHeld, accessOps, accessMishaps,
                   unclosed, edited>>

\* The write fails, or the command outside of the service is interrupted.
AccessWriteFails(p) ==
    /\ cmdJob[p].at = "locked"
    /\ accessMishaps < MaxAccessMishaps
    /\ accessMishaps' = accessMishaps + 1
    /\ cfgLock' = NoUser
    /\ cmdJob' = [cmdJob EXCEPT ![p] = IdleJob]
    /\ UNCHANGED <<accessMessages, cfgFile, webView, regAllowed, cfgChanged,
                   reload, idMem, idFile, inbox, endpoint, deliveryHeld,
                   accessOps, gone, unclosed, edited>>
-----------------------------------------------------------------------------
(* The commands.                                                             *)

BeginJob(p, intent, mem, rec) ==
    /\ cmdJob[p].at = "idle"
    /\ accessOps < MaxAccessOps
    /\ accessOps' = accessOps + 1
    /\ cmdJob' = [cmdJob EXCEPT ![p] =
           [IdleJob EXCEPT !.at = "ready", !.intent = intent, !.mem = mem, !.rec = rec]]

\* The records a command looks at: the service's, or a copy of the file.
StoreFor(p) == IF p = "chat" THEN idMem ELSE idFile

\* Load: a file that cannot be read or parsed ends the command.
CanRead == cfgFile.readable

\* approveFeishuIdentity, found by selector or by code.
BeginApprove(p) ==
    /\ CanRead
    /\ \E sel \in AccessKeys : \E k \in ApprovalRecords(StoreFor(p), sel) :
           BeginJob(p, [NoIntent EXCEPT !.add = {k}], StoreFor(p), k)
    /\ UNCHANGED <<accessMessages, cfgFile, cfgLock, webView, regAllowed,
                   cfgChanged, reload, idMem, idFile, inbox, endpoint,
                   deliveryHeld, accessMishaps, gone, unclosed, edited>>

\* FindByAuthCode, then approveFeishuIdentity with the record's key.
BeginApproveCode(p) ==
    /\ CanRead
    /\ \E c \in CodeHolders(StoreFor(p)) :
           \E k \in ApprovalRecords(StoreFor(p), c) :
                  BeginJob(p, [NoIntent EXCEPT !.add = {k}], StoreFor(p), k)
    /\ UNCHANGED <<accessMessages, cfgFile, cfgLock, webView, regAllowed,
                   cfgChanged, reload, idMem, idFile, inbox, endpoint,
                   deliveryHeld, accessMishaps, gone, unclosed, edited>>

\* feishuIdentityRevokeKeys: every key of the record, else the bare selector.
RevokeKeys(mem, selector) ==
    IF ApprovalRecords(mem, selector) = {} THEN {{selector}}
    ELSE {AuthKeys(k) : k \in ApprovalRecords(mem, selector)}

\* revokeFeishuIdentity.
BeginRevoke(p) ==
    /\ CanRead
    /\ \E sel \in AccessKeys : \E keys \in RevokeKeys(StoreFor(p), sel) :
           BeginJob(p, [NoIntent EXCEPT !.del = keys], <<>>, NoKey)
    /\ UNCHANGED <<accessMessages, cfgFile, cfgLock, webView, regAllowed,
                   cfgChanged, reload, idMem, idFile, inbox, endpoint,
                   deliveryHeld, accessMishaps, gone, unclosed, edited>>

\* saveDefaultAgent.
BeginSaveAgent ==
    /\ \E a \in FileAgents \cup {EnvAgent} :
           BeginJob("cli", [NoIntent EXCEPT !.agent = a], <<>>, NoKey)
    /\ UNCHANGED <<accessMessages, cfgFile, cfgLock, webView, regAllowed,
                   cfgChanged, reload, idMem, idFile, inbox, endpoint,
                   deliveryHeld, accessMishaps, gone, unclosed, edited>>

\* runFeishuBootstrap for a bot that exists: the platform is switched on and
\* what was not given keeps its value.
BeginBootstrap ==
    /\ BeginJob("cli", [NoIntent EXCEPT !.enable = TRUE], <<>>, NoKey)
    /\ UNCHANGED <<accessMessages, cfgFile, cfgLock, webView, regAllowed,
                   cfgChanged, reload, idMem, idFile, inbox, endpoint,
                   deliveryHeld, accessMishaps, gone, unclosed, edited>>

\* view: the console loads the page.
OpenPage ==
    /\ cmdJob["web"].at = "idle"
    /\ cfgFile.readable
    /\ webView # Redacted(cfgFile)
    /\ webView' = Redacted(cfgFile)
    /\ UNCHANGED <<accessMessages, cfgFile, cfgLock, cmdJob, regAllowed,
                   cfgChanged, reload, idMem, idFile, inbox, endpoint,
                   deliveryHeld, accessOps, accessMishaps, gone, unclosed,
                   edited>>

\* apply: the console's user saves the page after changing the agent, or a key.
BeginPage ==
    /\ \/ \E a \in FileAgents : BeginJob("web", [NoIntent EXCEPT !.agent = a], <<>>, NoKey)
       \/ \E k \in AccessKeys : BeginJob("web", [NoIntent EXCEPT !.add = {k}], <<>>, NoKey)
    /\ UNCHANGED <<accessMessages, cfgFile, cfgLock, webView, regAllowed,
                   cfgChanged, reload, idMem, idFile, inbox, endpoint,
                   deliveryHeld, accessMishaps, gone, unclosed, edited>>

\* Somebody edits the file: no lock, anything may be in it afterwards.
EditByHand ==
    /\ accessOps < MaxAccessOps
    /\ accessOps' = accessOps + 1
    /\ \/ \E k \in AccessKeys :
              /\ cfgFile.readable
              /\ cfgFile' = [cfgFile EXCEPT !.allowed =
                     IF k \in @ THEN @ \ {k} ELSE @ \cup {k}]
              /\ gone' = Granted(gone, {k})
       \/ /\ cfgFile' = [cfgFile EXCEPT !.readable = ~@]
          /\ UNCHANGED gone
       \/ /\ cfgFile' = [cfgFile EXCEPT !.enabled = FALSE]
          /\ UNCHANGED gone
    /\ cfgChanged' = TRUE
    /\ edited' = TRUE
    /\ UNCHANGED <<accessMessages, cfgLock, cmdJob, webView, regAllowed,
                   reload, idMem, idFile, inbox, endpoint, deliveryHeld,
                   accessMishaps, unclosed>>

\* store.Approve after the configuration was written: in the service's memory,
\* or in the command line's copy, which is then saved whole.  A record that
\* fell to the limits meanwhile ends the command with an error, and the chat
\* does not refresh.
RecordApproval(p) ==
    LET j == cmdJob[p]
        mem == IF p = "chat" THEN idMem ELSE j.mem
        found == {k \in DOMAIN mem : RecordMatches(k, j.rec)}
    IN  /\ j.at = "written"
        /\ j.rec # NoKey
        /\ IF found = {}
           THEN /\ cmdJob' = [cmdJob EXCEPT ![p] = IdleJob]
                /\ UNCHANGED <<idMem, idFile, accessMishaps>>
           ELSE \E k \in found :
                /\ SaveIdentities(Approved(mem, k))
                /\ idMem' = IF p = "chat" THEN Approved(mem, k) ELSE idMem
                /\ cmdJob' = [cmdJob EXCEPT ![p] =
                       IF p = "chat" THEN [@ EXCEPT !.rec = NoKey, !.mem = <<>>]
                       ELSE IdleJob]
        /\ UNCHANGED <<accessMessages, cfgFile, cfgLock, webView, regAllowed,
                       cfgChanged, reload, inbox, endpoint, deliveryHeld,
                       accessOps, gone, unclosed, edited>>
-----------------------------------------------------------------------------
(* The registry's list.                                                      *)

\* configuredPlatformAccountAccess: nothing is allowed on a platform that is
\* switched off.
ConfiguredAccess(cfg) == IF cfg.enabled THEN cfg.allowed ELSE {}

\* applyLatestPlatformAccess, mutant: what was loaded before the lock.
LoadedAccess(loaded) == loaded

\* applyLatestPlatformAccess: the file as it is under the lock, whatever was
\* loaded before.
LatestAccess(loaded) == cfgFile

\* UpdateAccessForAccount: the list is replaced as a whole.
SetAllowed(keys) == regAllowed' = keys

\* AccessControl.Allowed.
AccessAdmits(key) == key \in regAllowed

\* clearFollowerIfMatches: gone in memory only when the file could be written.
ClearEndpoint(key) ==
    \/ /\ endpoint' = NoKey
       /\ unclosed' = FALSE
       /\ UNCHANGED accessMishaps
    \/ /\ accessMishaps < MaxAccessMishaps
       /\ accessMishaps' = accessMishaps + 1
       /\ unclosed' = TRUE
       /\ UNCHANGED endpoint

\* detachUnauthorizedCodexFollowersLocked.
DetachUnauthorized ==
    IF endpoint # NoKey /\ ~AccessAdmits(endpoint)
    THEN ClearEndpoint(endpoint)
    ELSE UNCHANGED <<endpoint, unclosed, accessMishaps>>

\* refreshFeishuAccountAccess: under the delivery lock and the lock of the
\* configuration, the list is replaced.
Refresh ==
    /\ cmdJob["chat"].at = "written" /\ cmdJob["chat"].rec = NoKey
    /\ cfgLock = NoUser
    /\ cfgFile.readable
    /\ SetAllowed(ConfiguredAccess(cfgFile))
    /\ deliveryHeld' = TRUE
    /\ cmdJob' = [cmdJob EXCEPT !["chat"].at = "refreshed"]
    /\ UNCHANGED <<accessMessages, cfgFile, cfgLock, webView, cfgChanged,
                   reload, idMem, idFile, inbox, endpoint, accessOps,
                   accessMishaps, gone, unclosed, edited>>

\* The list cannot be read: a warning in the log, and the command goes on to
\* answer.  An unreadable file is no mishap of its own.
RefreshFails ==
    /\ cmdJob["chat"].at = "written" /\ cmdJob["chat"].rec = NoKey
    /\ cfgLock = NoUser
    /\ IF cfgFile.readable
       THEN /\ accessMishaps < MaxAccessMishaps
            /\ accessMishaps' = accessMishaps + 1
       ELSE UNCHANGED accessMishaps
    /\ cmdJob' = [cmdJob EXCEPT !["chat"].at = "unrefreshed"]
    /\ deliveryHeld' = TRUE
    /\ UNCHANGED <<accessMessages, cfgFile, cfgLock, webView, regAllowed,
                   cfgChanged, reload, idMem, idFile, inbox, endpoint,
                   accessOps, gone, unclosed, edited>>

\* The endpoints are detached, the delivery lock is released and the chat is
\* told.  From here on what was revoked counts as gone, unless the refresh
\* failed or somebody has granted it since it was removed.
Answer ==
    /\ cmdJob["chat"].at \in {"refreshed", "unrefreshed"}
    /\ DetachUnauthorized
    /\ deliveryHeld' = FALSE
    /\ gone' = IF cmdJob["chat"].at = "refreshed"
               THEN [told |-> gone.told \cup gone.soon, soon |-> {}]
               ELSE gone
    /\ cmdJob' = [cmdJob EXCEPT !["chat"] = IdleJob]
    /\ UNCHANGED <<accessMessages, cfgFile, cfgLock, webView, regAllowed,
                   cfgChanged, reload, idMem, idFile, inbox, accessOps,
                   edited>>

ReloadIdle == [at |-> "idle", loaded |-> NoBase]

\* runSoftConfigReloader: a tick that finds a newer file.  A Load that fails
\* keeps the previous configuration and counts the file as seen.
ReloadTick ==
    /\ reload.at = "idle"
    /\ cfgChanged
    /\ cfgChanged' = FALSE
    /\ reload' = IF cfgFile.readable
                 THEN [at |-> "loaded", loaded |-> cfgFile]
                 ELSE reload
    /\ UNCHANGED <<accessMessages, cfgFile, cfgLock, cmdJob, webView,
                   regAllowed, idMem, idFile, inbox, endpoint, deliveryHeld,
                   accessOps, accessMishaps, gone, unclosed, edited>>

\* applySoftConfig and applyLatestPlatformAccess.
ReloadApply ==
    /\ reload.at = "loaded"
    /\ cfgLock = NoUser
    /\ IF cfgFile.readable
       THEN /\ SetAllowed(ConfiguredAccess(LatestAccess(reload.loaded)))
            /\ reload' = [at |-> "applied", loaded |-> NoBase]
            /\ UNCHANGED cfgChanged
       ELSE /\ reload' = ReloadIdle
            /\ cfgChanged' = TRUE
            /\ UNCHANGED regAllowed
    /\ UNCHANGED <<accessMessages, cfgFile, cfgLock, cmdJob, webView, idMem,
                   idFile, inbox, endpoint, deliveryHeld, accessOps,
                   accessMishaps, gone, unclosed, edited>>

\* ReconcilePlatformAccess for every account.
ReloadReconcile ==
    /\ reload.at = "applied"
    /\ ~deliveryHeld
    /\ DetachUnauthorized
    /\ reload' = ReloadIdle
    /\ UNCHANGED <<accessMessages, cfgFile, cfgLock, cmdJob, webView,
                   regAllowed, cfgChanged, idMem, idFile, inbox, deliveryHeld,
                   accessOps, gone, edited>>
-----------------------------------------------------------------------------
(* Messages.                                                                 *)

\* accessAllowedIdentity: the first of the sender's keys (the open id, then
\* the aliases) that is on the list.
AllowedIdentity(user, key) ==
    IF AccessAdmits(OpenId(user)) THEN OpenId(user)
    ELSE IF AccessAdmits(key) THEN key ELSE NoKey

\* ObserveDeniedFeishuIdentity behind the limiter of sendDenyNotice: once in a
\* while a sender who is refused is told a code.
AfterDenial(seen, key) == {seen, IssueAuthCode(seen, key)}

\* guardedDispatch: the sender is observed, then admitted, or told a code when
\* the limiter lets the notice out.
GuardedDispatch(user, key) ==
    LET identity == AllowedIdentity(user, key)
    IN  /\ inbox = NoKey
        /\ accessMessages < MaxAccessMessages
        /\ accessMessages' = accessMessages + 1
        /\ \E dropped \in {{}, MayDrop(idMem, user)} :
           LET seen == Remember(idMem, user, key, dropped)
           IN  /\ idMem' \in IF identity = NoKey THEN AfterDenial(seen, key) ELSE {seen}
               /\ IF idMem' = idMem THEN UNCHANGED <<idFile, accessMishaps>>
                  ELSE SaveIdentities(idMem')
        /\ inbox' = identity
        /\ UNCHANGED <<cfgFile, cfgLock, cmdJob, webView, regAllowed,
                       cfgChanged, reload, endpoint, deliveryHeld, accessOps,
                       gone, unclosed, edited>>

\* The half hour of a code is over.
CodeExpires ==
    /\ \E k \in DOMAIN idMem :
           /\ idMem[k].code
           /\ idMem' = [idMem EXCEPT ![k].code = FALSE]
           /\ idFile' = IF k \in DOMAIN idFile THEN [idFile EXCEPT ![k].code = FALSE]
                        ELSE idFile
    /\ UNCHANGED <<accessMessages, cfgFile, cfgLock, cmdJob, webView,
                   regAllowed, cfgChanged, reload, inbox, endpoint,
                   deliveryHeld, accessOps, accessMishaps, gone, unclosed,
                   edited>>

\* codexFollowerIdentityAuthorized: the list as it is now.
IdentityAuthorized(key) == AccessAdmits(key)

\* acquireCodexSession: under the delivery lock the identity the message was
\* admitted with is checked again before its endpoint is stored.
StoreEndpoint ==
    /\ inbox # NoKey
    /\ ~deliveryHeld
    /\ IF IdentityAuthorized(inbox)
       THEN endpoint' = inbox /\ unclosed' = FALSE
       ELSE UNCHANGED <<endpoint, unclosed>>
    /\ inbox' = NoKey
    /\ UNCHANGED <<accessMessages, cfgFile, cfgLock, cmdJob, webView,
                   regAllowed, cfgChanged, reload, idMem, idFile,
                   deliveryHeld, accessOps, accessMishaps, gone, edited>>

\* The message is an ordinary one and leaves no endpoint.
OrdinaryMessage ==
    /\ inbox # NoKey
    /\ inbox' = NoKey
    /\ UNCHANGED <<accessMessages, cfgFile, cfgLock, cmdJob, webView,
                   regAllowed, cfgChanged, reload, idMem, idFile, endpoint,
                   deliveryHeld, accessOps, accessMishaps, gone, unclosed,
                   edited>>

\* The service exits and is started again with what the files say
\* (EnsureAPIToken, NewRegistry, SetFilePath).
AccessRestart ==
    /\ accessMishaps < MaxAccessMishaps
    /\ accessMishaps' = accessMishaps + 1
    /\ cfgFile.readable
    /\ cfgLock \in {NoUser, "chat"}
    /\ cfgLock' = NoUser
    /\ cmdJob' = [cmdJob EXCEPT !["chat"] = IdleJob]
    /\ SetAllowed(ConfiguredAccess(cfgFile))
    /\ reload' = ReloadIdle
    /\ cfgChanged' = FALSE
    /\ idMem' = idFile
    /\ inbox' = NoKey
    /\ deliveryHeld' = FALSE
    /\ UNCHANGED <<accessMessages, cfgFile, webView, idFile, endpoint,
                   accessOps, gone, unclosed, edited>>
-----------------------------------------------------------------------------
\* A service that has run for a while: some people were approved under both of
\* their keys when only the open id was on record, the others hold a code.
AccessInit ==
    /\ cfgFile = [allowed |-> {OpenId(u) : u \in UnionUsers} \cup
                              {UnionId(u) : u \in UnionUsers},
                  agent |-> CHOOSE a \in FileAgents : TRUE,
                  token |-> "token", enabled |-> TRUE, readable |-> TRUE]
    /\ cfgLock = NoUser
    /\ cmdJob = [p \in ConfigCommands |-> IdleJob]
    /\ webView = Redacted(cfgFile)
    /\ regAllowed = cfgFile.allowed
    /\ cfgChanged = FALSE
    /\ reload = ReloadIdle
    /\ idMem = [k \in {OpenId(u) : u \in AccessUsers} |->
                   [approved |-> k[2] \in UnionUsers, code |-> k[2] \notin UnionUsers]]
    /\ idFile = idMem
    /\ inbox = NoKey /\ endpoint = NoKey
    /\ deliveryHeld = FALSE
    /\ accessOps = 0 /\ accessMessages = 0 /\ accessMishaps = 0
    /\ gone = [told |-> {}, soon |-> {}]
    /\ unclosed = FALSE /\ edited = FALSE

AccessNext ==
    \/ \E p \in ConfigCommands : LockAndRead(p) \/ WriteConfig(p) \/ AccessWriteFails(p)
    \/ \E p \in {"chat", "cli"} : BeginApprove(p) \/ BeginApproveCode(p)
                                  \/ BeginRevoke(p) \/ RecordApproval(p)
    \/ BeginSaveAgent \/ BeginBootstrap \/ OpenPage \/ BeginPage \/ EditByHand
    \/ Refresh \/ RefreshFails \/ Answer
    \/ ReloadTick \/ ReloadApply \/ ReloadReconcile
    \/ \E u \in AccessUsers :
          GuardedDispatch(u, OpenId(u))
    \/ \E u \in UnionUsers :
          GuardedDispatch(u, UnionId(u))
    \/ CodeExpires \/ StoreEndpoint \/ OrdinaryMessage
    \/ AccessRestart

AccessSpec == AccessInit /\ [][AccessNext]_accessVars
-----------------------------------------------------------------------------
(* Once a revocation in the chat was answered with success, the person stays  *)
(* out under every key it removed until somebody grants it again: no reload   *)
(* begun before it, no console page opened before it, no command of another   *)
(* process and no message admitted before it brings the key back to the       *)
(* registry or leaves a follower endpoint behind.                             *)
RevokedStaysOut ==
    /\ regAllowed \cap gone.told = {}
    /\ endpoint \in gone.told => unclosed

(* A command changes what it is about and nothing else.  The token behind the *)
(* console's mask, the value on disk behind the environment's, and what other *)
(* processes wrote since the command was typed or the page was opened all     *)
(* survive its write (only an editor, which takes no lock, can be undone).    *)
KeptTheRest(p) ==
    LET i == cmdJob[p].intent
    IN  /\ cfgFile'.allowed = (cfgFile.allowed \ i.del) \cup i.add
        /\ cfgFile'.agent = IF i.agent = EnvAgent THEN cfgFile.agent ELSE i.agent
        /\ cfgFile'.token = cfgFile.token
        /\ cfgFile'.enabled = (cfgFile.enabled \/ i.enable)

\* Every write of a command (config.Update) that no editor crossed keeps the rest of the file.
UpdatesKeepTheRest ==
    [][\A p \in ConfigCommands :
          (WriteConfig(p) /\ cfgFile' # cfgFile /\ ~edited) => KeptTheRest(p)]_accessVars
=============================================================================
