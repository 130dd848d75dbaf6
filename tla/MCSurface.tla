----------------------------- MODULE MCSurface -----------------------------
(***************************************************************************)
(* The parts around the agents that share no state in this development:    *)
(* the account store, the launch environment, the provider migration, the  *)
(* Feishu cards and events, the WeChat poll, the service's own life, the   *)
(* Claude windows, and access to the platforms.  As in MCAgentParts, a     *)
(* behaviour takes the steps of one part and the others stay in an initial *)
(* state.                                                                  *)
(***************************************************************************)
EXTENDS CodexAccountStore, CodexLaunchEnv, CodexProviderMigration, FeishuCards,
        FeishuIngress, WeChatPolling, ServiceUpgrade, ClaudeWindows, PlatformAccess

VARIABLE part  \* the part that runs

Parts == {"store", "env", "provider", "cards", "ingress", "wechat", "upgrade",
          "windows", "access"}

-----------------------------------------------------------------------------
(* Values of the constants.                                                *)

TheKeys == <<"cli", "switch", "home">>

TheBody == {Record(1, "reasoning"), Record(2, "message"), Record(3, "reasoning")}

\* What Feishu delivers: a text twice with another one, a topic message twice
\* with its copy, a text with two copies, two texts and a click with a /stop,
\* a click twice with a /stop.
TheDeliveries ==
  {{}, {<<"text", 1>>, <<"text", 2>>, <<"other", 1>>},
   {<<"topic", 1>>, <<"topic", 2>>, <<"mirror", 1>>},
   {<<"text", 1>>, <<"mirror", 1>>, <<"mirror", 2>>},
   {<<"text", 1>>, <<"other", 1>>, <<"card", 1>>, <<"stop", 1>>},
   {<<"card", 1>>, <<"card", 2>>, <<"stop", 1>>}}

TheHomes == [s \in {"s1", "s2", "s3"} |-> IF s = "s3" THEN "h2" ELSE "h1"]

\* A window switched while it has a message under way, a new session and /cwd
\* around a broadcast, a setting and a rename beside another window's message,
\* and a window that leaves its workspace.
Jb(does, w, s) == [does |-> does, w |-> w, s |-> s]
TheJobs ==
  {<<>>,
   <<Jb("switch", "w1", "s1"), Jb("message", "w1", "s1"), Jb("switch", "w1", "s3"),
     Jb("message", "w1", "s1")>>,
   <<Jb("switch", "w1", "s1"), Jb("new", "w1", "s1"), Jb("switch", "w1", "s1"),
     Jb("broadcast", "w1", "s1"), Jb("cwd", "w1", "s3")>>,
   <<Jb("switch", "w1", "s1"), Jb("switch", "w2", "s1"), Jb("message", "w1", "s1"),
     Jb("setting", "w2", "s1"), Jb("rename", "w2", "s1")>>,
   <<Jb("switch", "w1", "s1"), Jb("cd", "w1", "s3"), Jb("broadcast", "w1", "s1"),
     Jb("switch", "w1", "s3")>>}

-----------------------------------------------------------------------------
Init ==
  /\ part \in Parts
  /\ StoreInit /\ EnvInit /\ CardsInit /\ AccessInit
  /\ MigInit
  /\ row = "openai"   \* no definition tells one provider from another
  /\ part = "provider" \/ (cat = row /\ roll.body = TheBody)
  /\ IngressInit
  /\ part = "ingress" <=> plan # {}
  /\ brief => part = "ingress"
  /\ <<"stop", 1>> \in plan => brief   \* no message comes twice in these: age makes no difference
  /\ WeChatInit
  /\ part = "wechat" \/ allowed
  /\ UpgradeInit
  /\ part = "upgrade" \/ runLock = NoService
  /\ WindowsInit
  /\ part = "windows" <=> ccPlan # <<>>

Next ==
  /\ UNCHANGED part
  /\ \/ /\ part = "store" /\ StoreNext
        /\ UNCHANGED <<envVars, migVars, cardVars, ingressVars, wxVars, upgradeVars,
                       ccVars, accessVars>>
     \/ /\ part = "env" /\ EnvNext
        /\ UNCHANGED <<storeVars, migVars, cardVars, ingressVars, wxVars, upgradeVars,
                       ccVars, accessVars>>
     \/ /\ part = "provider" /\ MigNext
        /\ UNCHANGED <<storeVars, envVars, cardVars, ingressVars, wxVars, upgradeVars,
                       ccVars, accessVars>>
     \/ /\ part = "cards" /\ CardsNext
        /\ UNCHANGED <<storeVars, envVars, migVars, ingressVars, wxVars, upgradeVars,
                       ccVars, accessVars>>
     \/ /\ part = "ingress" /\ IngressNext
        /\ UNCHANGED <<storeVars, envVars, migVars, cardVars, wxVars, upgradeVars,
                       ccVars, accessVars>>
     \/ /\ part = "wechat" /\ WeChatNext
        /\ UNCHANGED <<storeVars, envVars, migVars, cardVars, ingressVars, upgradeVars,
                       ccVars, accessVars>>
     \/ /\ part = "upgrade" /\ UpgradeNext
        /\ UNCHANGED <<storeVars, envVars, migVars, cardVars, ingressVars, wxVars,
                       ccVars, accessVars>>
     \/ /\ part = "windows" /\ WindowsNext
        /\ UNCHANGED <<storeVars, envVars, migVars, cardVars, ingressVars, wxVars,
                       upgradeVars, accessVars>>
     \/ /\ part = "access" /\ AccessNext
        /\ UNCHANGED <<storeVars, envVars, migVars, cardVars, ingressVars, wxVars,
                       upgradeVars, ccVars>>

Spec ==
  Init /\ [][Next]_<<part, storeVars, envVars, migVars, cardVars, ingressVars, wxVars,
                     upgradeVars, ccVars, accessVars>>
=============================================================================
