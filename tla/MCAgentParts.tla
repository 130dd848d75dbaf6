---------------------------- MODULE MCAgentParts ----------------------------
(***************************************************************************)
(* The parts of the agent side that share no state in this development are *)
(* explored side by side: a behaviour takes the steps of one part, chosen  *)
(* at the start, and the others stay in an initial state.  The states of a *)
(* run are then the sum of the parts', not their product.                  *)
(***************************************************************************)
EXTENDS CodexHost, CodexHostConflict, CodexAppShared, CodexDesktopStream, ClaudeHost

VARIABLE part  \* the part that runs

Parts == {"host", "conflict", "shared", "desktop", "claude"}

-----------------------------------------------------------------------------
(* Values of the constants.                                                *)

\* Command lines: a Codex server with an option of a later release, an
\* installed one, the application with and without a server, another program,
\* and a server of another user.
Line(exe, app, before, sub, after, me) ==
  [exe |-> exe, app |-> app, before |-> before, sub |-> sub, after |-> after, me |-> me]
TheCommands ==
  {Line("codex", FALSE, {}, "app-server", <<"newOption">>, TRUE),
   Line("codex", FALSE, {"standalone"}, "app-server", <<>>, TRUE),
   Line("codex", TRUE, {}, "none", <<>>, TRUE),
   Line("codex", TRUE, {}, "app-server", <<>>, TRUE),
   Line("other", FALSE, {}, "none", <<>>, TRUE),
   Line("codex", FALSE, {}, "app-server", <<"tool">>, FALSE)}

\* What the windows ask of the Claude host: a session resumed and used by two
\* messages, renamed, replaced by a new one, cleared while it is made, and
\* used from two windows.
Asks(does, conv, sess) == [does |-> does, conv |-> conv, sess |-> sess]
ThePlans ==
  {<<>>,
   <<Asks("use", "c1", "s1"), Asks("chat", "c1", NoSession), Asks("chat", "c1", NoSession)>>,
   <<Asks("use", "c1", "s1"), Asks("rename", "c1", "s1"), Asks("chat", "c1", NoSession)>>,
   <<Asks("new", "c1", NoSession), Asks("use", "c1", "s1"), Asks("chat", "c1", NoSession)>>,
   <<Asks("new", "c1", NoSession), Asks("clear", "c1", NoSession), Asks("chat", "c1", NoSession)>>,
   <<Asks("use", "c1", "s1"), Asks("use", "c2", "s1"), Asks("chat", "c2", NoSession)>>}

-----------------------------------------------------------------------------
Init ==
  /\ part \in Parts
  /\ HostInit /\ ConflictInit /\ SharedInit /\ DeskInit /\ ClaudeInit
  /\ part = "claude" <=> plan # <<>>
  /\ part = "host" \/ (idx.saved = Accounts /\ auth = CHOOSE a \in Accounts : TRUE)

Next ==
  /\ UNCHANGED part
  /\ \/ /\ part = "host" /\ CodexHostNext
        /\ UNCHANGED <<conflictVars, sharedVars, deskVars, claudeVars>>
     \/ /\ part = "conflict" /\ ConflictNext
        /\ UNCHANGED <<hostVars, sharedVars, deskVars, claudeVars>>
     \/ /\ part = "shared" /\ SharedNext
        /\ UNCHANGED <<hostVars, conflictVars, deskVars, claudeVars>>
     \/ /\ part = "desktop" /\ DeskNext
        /\ UNCHANGED <<hostVars, conflictVars, sharedVars, claudeVars>>
     \/ /\ part = "claude" /\ ClaudeNext
        /\ UNCHANGED <<hostVars, conflictVars, sharedVars, deskVars>>

Spec == Init /\ [][Next]_<<part, hostVars, conflictVars, sharedVars, deskVars, claudeVars>>
=============================================================================
