----------------------------- MODULE ClaudeHost -----------------------------
(***************************************************************************)
(* The Claude host (agent/acp_process.go, acp_read_loop.go,                *)
(* acp_pending_registry.go, acp_rpc.go, acp_chat.go, acp_sessions.go,      *)
(* acp_session_catalog.go, claude_session_state.go,                        *)
(* claude_session_rename.go).  One adapter process serves every window: it *)
(* is started by whichever caller needs it first, keeps in its memory the  *)
(* sessions it created or resumed, answers requests in any order and may   *)
(* die at any time; a successor starts empty.  What the agent remembers of *)
(* the process is a generation, counted up by each handshake, and the      *)
(* generation at which each session was resumed and each conversation      *)
(* bound.                                                                  *)
(*                                                                         *)
(* Every caller's operation is a sequence of steps between locks; the      *)
(* reader of each process's output and the delayed failure of the waiting  *)
(* callers are steps of their own.  A session's directory is fixed, so it  *)
(* is left out, as are the option values a new session is given.           *)
(***************************************************************************)
EXTENDS Naturals, Sequences, FiniteSets

CONSTANTS
  HostCallers,    \* goroutines that use the agent at one time, numbered
  Conversations,  \* windows' conversations
  Saved,          \* sessions the catalog holds at first
  Unused,         \* ids of sessions still to be created
  HostPlans,      \* sequences of operations, begun in that order
  MaxAdapters,       \* adapter processes launched in all
  MaxHostMishaps  \* exits, stops, cancellations and refusals in all

ASSUME ClaudeAssumption ==
  /\ Saved \cap Unused = {} /\ "no session" \notin Saved \cup Unused
  /\ HostCallers \subseteq Nat \ {0}
  /\ \A p \in HostPlans :
       p \in Seq([does : {"chat", "use", "new", "rename", "clear"}, conv : Conversations,
                 sess : Saved \cup Unused \cup {"no session"}])
  /\ {MaxAdapters, MaxHostMishaps} \subseteq Nat

VARIABLES
  runtime,     \* started, starting, the process it names, the generation
  adapters,    \* each process launched: its memory, requests and output
  bindings,    \* each conversation: session, generation, revision
  resumed,     \* the generation at which each session was loaded (0: never)
  mailboxes,   \* the caller whose prompt owns a session's updates
  control,     \* holder of claudeHostControlMu
  callers,     \* each caller's operation and where it stands
  wakes,       \* failures of all waiting callers still to be carried out
  revisions,   \* the last binding revision given out
  plan, hostOps, hostMishaps,
  misstamped,  \* (history) sessions stamped for a process without them
  deserted,    \* (history) prompts given up while a process had them
  prompted     \* (history) prompts written to a process without the session

claudeVars == <<runtime, adapters, bindings, resumed, mailboxes, control,
                callers, wakes, revisions, plan, hostOps, hostMishaps,
                misstamped, deserted, prompted>>

Sessions == Saved \cup Unused
NoSession == "no session"
NoCaller == 0

\* A caller between two operations.
Resting == [at |-> "rest", does |-> "none", conv |-> "none", sess |-> NoSession,
            rev |-> 0, gen |-> 0, number |-> 0, seen |-> 0, wrote |-> 0,
            asks |-> "none", got |-> "none", text |-> {}, awaits |-> 0]

\* A process just launched: nothing resumed, nothing asked, nothing said.
Empty == [alive |-> TRUE, memory |-> {}, asked |-> {}, running |-> {},
          output |-> <<>>]

Went(k, step) == [callers EXCEPT ![k].at = step]
Over(k) == [callers EXCEPT ![k] = Resting]
\* stopACPProcess: nothing more is done there, what it said may still be read.
Killed(p) ==
  IF p = 0 THEN adapters
  ELSE [adapters EXCEPT ![p].alive = FALSE, ![p].asked = {}, ![p].running = {}]
HostMishap == hostMishaps < MaxHostMishaps /\ hostMishaps' = hostMishaps + 1

-----------------------------------------------------------------------------
(* Starting the process.                                                   *)

RuntimeStarted == runtime.started /\ ~runtime.starting

\* Where an operation goes once the runtime is there (chat, ResetSession,
\* UseClaudeSession, RenameClaudeSession).
Onward(does) == CASE does = "chat" -> "bound"
                  [] does = "new" -> "unbind"
                  [] OTHER -> "list"

\* chat: a conversation without a session does not start a runtime.
ChatBegins(k) ==
  LET c == callers[k] IN
  /\ c.at = "begin"
  /\ c.does = "chat" /\ ~RuntimeStarted /\ bindings[c.conv].sess = NoSession
  /\ callers' = Over(k)
  /\ UNCHANGED <<runtime, adapters, bindings, resumed, mailboxes, control,
                 wakes, revisions, hostOps, hostMishaps, misstamped, deserted,
                 prompted>>

\* beginACPStart: a new start, with nothing known of its outcome.
StartBegun == [runtime EXCEPT !.starting = TRUE, !.failed = FALSE, !.starts = @ + 1]

\* ensureStarted and Start: one caller leads, the others wait for it.
BeginStart(k) ==
  LET c == callers[k] IN
  /\ c.at = "begin"
  /\ RuntimeStarted \/ c.does # "chat" \/ bindings[c.conv].sess # NoSession
  /\ \/ /\ RuntimeStarted
        /\ callers' = [callers EXCEPT ![k].at = Onward(c.does),
                                      ![k].seen = runtime.process]
        /\ UNCHANGED runtime
     \/ /\ runtime.starting
        /\ callers' = [callers EXCEPT ![k].at = "await",
                                      ![k].awaits = runtime.starts]
        /\ UNCHANGED runtime
     \/ /\ ~runtime.starting /\ ~runtime.started
        /\ runtime' = StartBegun
        /\ callers' = Went(k, "launch")
  /\ UNCHANGED <<adapters, bindings, resumed, mailboxes, control, wakes,
                 revisions, hostOps, hostMishaps, misstamped, deserted,
                 prompted>>

\* waitACPStart: what it reads is the verdict of the latest start begun.
AwaitStart(k) ==
  LET c == callers[k] IN
  /\ c.at = "await" /\ runtime.ended >= c.awaits
  /\ callers' = IF runtime.failed THEN Over(k)
                ELSE [callers EXCEPT ![k].at = Onward(c.does),
                                     ![k].seen = runtime.ready]
  /\ UNCHANGED <<runtime, adapters, bindings, resumed, mailboxes, control,
                 wakes, revisions, hostOps, hostMishaps, misstamped, deserted,
                 prompted>>

\* launchACPSubprocess, and the handshake it sends.
LaunchAdapter(k) ==
  /\ callers[k].at = "launch"
  /\ \/ /\ Len(adapters) < MaxAdapters
        /\ adapters' = Append(adapters,
             [Empty EXCEPT !.asked = {[number |-> callers[k].number,
                                       asks |-> "initialize", sess |-> NoSession]}])
        /\ runtime' = [runtime EXCEPT !.started = TRUE, !.process = Len(adapters) + 1]
        /\ callers' = [callers EXCEPT ![k].at = "wait", ![k].asks = "initialize",
                                      ![k].got = "none", ![k].wrote = Len(adapters) + 1]
     \/ /\ Len(adapters) = MaxAdapters
        /\ runtime' = [runtime EXCEPT !.starting = FALSE, !.failed = TRUE,
                                      !.ended = runtime.starts]
        /\ callers' = Over(k)
        /\ UNCHANGED adapters
  /\ UNCHANGED <<bindings, resumed, mailboxes, control, wakes, revisions,
                 hostOps, hostMishaps, misstamped, deserted, prompted>>

\* cacheAndValidateACPCapabilities: a new generation forgets what the last
\* process had resumed.
Initialized(k) ==
  LET c == callers[k] IN
  /\ c.at = "wait" /\ c.asks = "initialize" /\ c.got = "ok"
  /\ runtime' = [runtime EXCEPT !.generation = @ + 1, !.of = Append(@, c.wrote)]
  /\ resumed' = [s \in Sessions |-> 0]
  /\ callers' = Went(k, "started")
  /\ UNCHANGED <<adapters, bindings, mailboxes, control, wakes, revisions,
                 hostOps, hostMishaps, misstamped, deserted, prompted>>

\* failACPStartup: a handshake refused, failed or timed out; and
\* finishACPStart: a process that left during the handshake is a failure.
FinishStart(k) ==
  LET c == callers[k]
      bad == c.at = "wait" \/ ~runtime.started
  IN
  /\ \/ c.at = "started"
     \/ c.at = "wait" /\ c.asks = "initialize" /\ c.got \in {"error", "failed"}
  /\ runtime' = [runtime EXCEPT !.starting = FALSE, !.failed = bad,
                                !.ended = runtime.starts, !.ready = c.wrote,
                                !.started = ~bad, !.process = IF bad THEN 0 ELSE @]
  /\ adapters' = IF c.at = "wait" THEN Killed(runtime.process) ELSE adapters
  /\ callers' = IF bad THEN Over(k)
                ELSE [callers EXCEPT ![k].at = Onward(c.does), ![k].seen = c.wrote]
  /\ UNCHANGED <<bindings, resumed, mailboxes, control, wakes, revisions,
                 hostOps, hostMishaps, misstamped, deserted, prompted>>

-----------------------------------------------------------------------------
(* Requests.                                                               *)

\* writeJSONLine: a request reaches the process the agent names, if any.
Ask(k, what, s, rev) ==
  LET p == runtime.process IN
  /\ callers' = [callers EXCEPT ![k] =
       [@ EXCEPT !.at = "wait", !.asks = what, !.sess = s, !.rev = rev,
                 !.gen = runtime.generation, !.wrote = p,
                 !.got = IF p = 0 THEN "unsent" ELSE "none"]]
  /\ adapters' = IF p = 0 THEN adapters
       ELSE [adapters EXCEPT ![p].asked =
              @ \cup {[number |-> callers[k].number, asks |-> what, sess |-> s]}]

\* callWithSequence: the context of a caller ends while it waits.
Cancelled(k) ==
  /\ callers[k].at = "wait" /\ callers[k].got = "none"
  /\ HostMishap
  /\ callers' = [callers EXCEPT ![k].got = "failed"]
  /\ UNCHANGED <<runtime, adapters, bindings, resumed, mailboxes, control,
                 wakes, revisions, hostOps, misstamped, deserted, prompted>>

\* failAllWithCause, carried out after the locks that named the process were
\* given up: whoever waits by then is failed, whatever process it asked.
Wake ==
  /\ wakes > 0
  /\ wakes' = wakes - 1
  /\ callers' = [k \in HostCallers |->
       IF callers[k].at = "wait" /\ callers[k].got = "none"
       THEN [callers[k] EXCEPT !.got = "failed"] ELSE callers[k]]
  /\ UNCHANGED <<runtime, adapters, bindings, resumed, mailboxes, control,
                 revisions, hostOps, hostMishaps, misstamped, deserted, prompted>>

\* Stop, from a reload or the end of the service.
StopAdapter ==
  /\ HostMishap
  /\ runtime.process # 0
  /\ runtime' = [runtime EXCEPT !.started = FALSE, !.process = 0]
  /\ adapters' = Killed(runtime.process)
  /\ wakes' = wakes + 1
  /\ UNCHANGED <<bindings, resumed, mailboxes, control, callers, revisions,
                 hostOps, misstamped, deserted, prompted>>

\* handleCurrentACPWireLine: the reader's process is still the one named.
Current(p) == runtime.process = p

\* pending.deliver: to the caller that still waits for this very request.
Delivered(line) ==
  [k \in HostCallers |->
     IF /\ callers[k].at = "wait" /\ callers[k].got = "none"
        /\ callers[k].asks = line.asks /\ callers[k].number = line.number
     THEN [callers[k] EXCEPT !.got = line.says,
             !.sess = IF line.asks = "new" THEN line.sess ELSE @]
     ELSE callers[k]]

\* handleSessionUpdateAt: to whoever owns the session's mailbox now.
Updated(p, line) ==
  LET k == mailboxes[line.sess] IN
  IF k = NoCaller THEN callers
  ELSE [callers EXCEPT ![k].text = @ \cup {[of |-> p, number |-> line.number]}]

\* readLoop takes one line; a reader that is no longer current stops.
ReadLine(p) ==
  LET line == Head(adapters[p].output) IN
  /\ adapters[p].output # <<>>
  /\ IF Current(p)
     THEN /\ callers' = IF line.says = "update" THEN Updated(p, line)
                        ELSE Delivered(line)
          /\ adapters' = [adapters EXCEPT ![p].output = Tail(@)]
     ELSE /\ adapters' = [adapters EXCEPT ![p].output = <<>>]
          /\ UNCHANGED callers
  /\ UNCHANGED <<runtime, bindings, resumed, mailboxes, control, wakes,
                 revisions, hostOps, hostMishaps, misstamped, deserted, prompted>>

\* finishReadLoop: the process is gone and its output read.
ReaderEnds(p) ==
  /\ ~adapters[p].alive /\ adapters[p].output = <<>>
  /\ runtime.process = p
  /\ runtime' = [runtime EXCEPT !.started = FALSE, !.process = 0]
  /\ wakes' = wakes + 1
  /\ UNCHANGED <<adapters, bindings, resumed, mailboxes, control, callers,
                 revisions, hostOps, hostMishaps, misstamped, deserted, prompted>>

-----------------------------------------------------------------------------
(* The adapter process.                                                    *)

Say(p, r, says, s) ==
  Append(adapters[p].output, [number |-> r.number, asks |-> r.asks,
                              says |-> says, sess |-> s])

Answer(p, r) ==
  /\ adapters[p].alive /\ r \in adapters[p].asked
  /\ r.asks \in {"initialize", "resume"}
  /\ adapters' = [adapters EXCEPT ![p].asked = @ \ {r},
                                  ![p].output = Say(p, r, "ok", r.sess),
                                  ![p].memory = @ \cup ({r.sess} \cap Sessions)]
  /\ UNCHANGED <<runtime, bindings, resumed, mailboxes, control, callers, wakes,
                 revisions, hostOps, hostMishaps, misstamped, deserted, prompted>>

\* An error, or an answer the agent cannot use.
RefuseRequest(p, r) ==
  /\ adapters[p].alive /\ r \in adapters[p].asked
  /\ IF r.asks = "prompt" /\ r.sess \notin adapters[p].memory
     THEN UNCHANGED hostMishaps ELSE HostMishap
  /\ adapters' = [adapters EXCEPT ![p].asked = @ \ {r},
                                  ![p].output = Say(p, r, "error", r.sess)]
  /\ UNCHANGED <<runtime, bindings, resumed, mailboxes, control, callers, wakes,
                 revisions, hostOps, misstamped, deserted, prompted>>

CreateSession(p, r) ==
  /\ adapters[p].alive /\ r \in adapters[p].asked /\ r.asks = "new"
  /\ \E s \in Unused :
       /\ \A q \in DOMAIN adapters : s \notin adapters[q].memory
       /\ adapters' = [adapters EXCEPT ![p].asked = @ \ {r},
                                       ![p].output = Say(p, r, "ok", s),
                                       ![p].memory = @ \cup {s}]
  /\ UNCHANGED <<runtime, bindings, resumed, mailboxes, control, callers, wakes,
                 revisions, hostOps, hostMishaps, misstamped, deserted, prompted>>

\* A prompt runs, says something once, and ends.
RunPrompt(p, r) ==
  /\ adapters[p].alive /\ r.asks = "prompt"
  /\ \/ /\ r \in adapters[p].asked /\ r.sess \in adapters[p].memory
        /\ adapters' = [adapters EXCEPT ![p].asked = @ \ {r},
                                        ![p].running = @ \cup {r},
                                        ![p].output = Say(p, r, "update", r.sess)]
     \/ /\ r \in adapters[p].running
        /\ adapters' = [adapters EXCEPT ![p].running = @ \ {r},
                                        ![p].output = Say(p, r, "ok", r.sess)]
  /\ UNCHANGED <<runtime, bindings, resumed, mailboxes, control, callers, wakes,
                 revisions, hostOps, hostMishaps, misstamped, deserted, prompted>>

AdapterExits(p) ==
  /\ adapters[p].alive /\ HostMishap
  /\ adapters' = Killed(p)
  /\ UNCHANGED <<runtime, bindings, resumed, mailboxes, control, callers, wakes,
                 revisions, hostOps, misstamped, deserted, prompted>>

-----------------------------------------------------------------------------
(* Sessions and bindings.                                                  *)

\* The process whose handshake made the generation.
ProcessOf(g) == IF g = 0 THEN 0 ELSE runtime.of[g]

\* (history) a stamp of this generation for a session its process lacks.
Misstamp(s) ==
  LET p == ProcessOf(runtime.generation) IN
  IF p = 0 \/ s \notin adapters[p].memory THEN misstamped \cup {s} ELSE misstamped

ReusableOnceStarted(s) == runtime.generation > 0  \* mutant: any process that runs is taken to have it
\* reusableClaudeSession
Reusable(s) == runtime.generation > 0 /\ resumed[s] = runtime.generation

\* staleClaudeSessionState
Stale(c, s) == bindings[c].sess = s /\ bindings[c].gen < runtime.generation

\* The next operation arrives.  UseClaudeSession begins its binding intent
\* (beginBindingIntent) before anything else.
BeginOp(k) ==
  LET op == plan[hostOps + 1] IN
  /\ hostOps < Len(plan)
  /\ callers[k] = Resting /\ \A j \in HostCallers : j < k => callers[j] # Resting
  /\ op.does # "clear"
  /\ hostOps' = hostOps + 1
  /\ callers' = [callers EXCEPT ![k] =
       [Resting EXCEPT !.at = "begin", !.does = op.does, !.conv = op.conv,
                       !.sess = op.sess, !.number = hostOps + 1,
                       !.rev = IF op.does = "use" THEN revisions + 1 ELSE 0]]
  /\ IF op.does = "use"
     THEN /\ revisions' = revisions + 1
          /\ bindings' = [bindings EXCEPT ![op.conv].rev = revisions + 1]
     ELSE UNCHANGED <<revisions, bindings>>
  /\ UNCHANGED <<runtime, adapters, resumed, mailboxes, control, wakes,
                 hostMishaps, misstamped, deserted, prompted>>

\* ClearClaudeSession
ClearSession ==
  /\ hostOps < Len(plan) /\ plan[hostOps + 1].does = "clear"
  /\ hostOps' = hostOps + 1
  /\ revisions' = revisions + 1
  /\ bindings' = [bindings EXCEPT ![plan[hostOps + 1].conv] =
                     [sess |-> NoSession, gen |-> 0, rev |-> revisions + 1]]
  /\ UNCHANGED <<runtime, adapters, resumed, mailboxes, control, callers, wakes,
                 hostMishaps, misstamped, deserted, prompted>>

\* ResetSession forgets the session; createSession begins its intent and asks
\* for another.
ResetSession(k) ==
  LET c == callers[k] IN
  /\ c.at = "unbind"
  /\ revisions' = revisions + 1
  /\ bindings' = [bindings EXCEPT ![c.conv].sess = NoSession,
                                  ![c.conv].rev = revisions + 1]
  /\ Ask(k, "new", NoSession, revisions + 1)
  /\ UNCHANGED <<runtime, resumed, mailboxes, control, wakes, hostOps,
                 hostMishaps, misstamped, deserted, prompted>>

Answers ==
  IF runtime.process = 0 THEN FALSE ELSE adapters[runtime.process].alive

\* listClaudeSessionPage, page after page, has the session (findClaudeSession).
InCatalog(s) == s \in Saved \/ \E p \in DOMAIN adapters : s \in adapters[p].memory

\* ListClaudeSessions: a session that is to be resumed or renamed must be in
\* the catalog.
List(k) ==
  /\ callers[k].at = "list"
  /\ callers' = IF Answers /\ InCatalog(callers[k].sess) THEN Went(k, "lock") ELSE Over(k)
  /\ UNCHANGED <<runtime, adapters, bindings, resumed, mailboxes, control,
                 wakes, revisions, hostOps, hostMishaps, misstamped, deserted,
                 prompted>>

\* Any request but a prompt or a handshake that got no usable answer.
GiveUp(k) ==
  LET c == callers[k] IN
  /\ c.at = "wait" /\ c.asks \in {"new", "resume"}
  /\ c.got \in {"error", "failed", "unsent"}
  /\ callers' = Over(k)
  /\ control' = IF control = k THEN NoCaller ELSE control
  /\ UNCHANGED <<runtime, adapters, bindings, resumed, mailboxes, wakes,
                 revisions, hostOps, hostMishaps, misstamped, deserted, prompted>>

\* chat: requireSession, then the first look at the generation.
RequireSession(k) ==
  LET c == callers[k]
      s == bindings[c.conv].sess
  IN
  /\ c.at = "bound"
  /\ callers' = IF s = NoSession THEN Over(k)
                ELSE [callers EXCEPT ![k].at = IF Stale(c.conv, s) THEN "lock" ELSE "prompt",
                                     ![k].sess = s]
  /\ UNCHANGED <<runtime, adapters, bindings, resumed, mailboxes, control,
                 wakes, revisions, hostOps, hostMishaps, misstamped, deserted,
                 prompted>>

\* RenameClaudeSession: a session with a prompt in it is not renamed
\* (legacySessionChannelsInUse).
RenameBusy(c) == c.does = "rename" /\ mailboxes[c.sess] # NoCaller
\* resumeClaudeSessionIfStale looks again once it has the lock.
ResumedMeanwhile(c) == c.does = "chat" /\ ~Stale(c.conv, c.sess)
\* The session is resumed unless this process has it
\* (ensureClaudeHostSessionLoadedLocked, and the same in the two others).
Load(k, rev) ==
  LET c == callers[k] IN
  IF Reusable(c.sess)
  THEN /\ callers' = [callers EXCEPT ![k].at = "commit", ![k].rev = rev,
                                     ![k].gen = runtime.generation]
       /\ UNCHANGED adapters
  ELSE Ask(k, "resume", c.sess, rev)

\* UseClaudeSession, and the two others, under claudeHostControlMu.
UnderControl(k) ==
  LET c == callers[k] IN
  /\ c.at = "lock" /\ control = NoCaller
  /\ \/ /\ RenameBusy(c)
        /\ callers' = Over(k)
        /\ UNCHANGED <<adapters, control>>
     \/ /\ ResumedMeanwhile(c)
        /\ callers' = Went(k, "prompt")
        /\ UNCHANGED <<adapters, control>>
     \/ /\ ~RenameBusy(c) /\ ~ResumedMeanwhile(c)
        /\ control' = k
        /\ Load(k, IF c.does = "chat" THEN bindings[c.conv].rev ELSE c.rev)
  /\ UNCHANGED <<runtime, bindings, resumed, mailboxes, wakes, revisions,
                 hostOps, hostMishaps, misstamped, deserted, prompted>>

\* markClaudeSessionLoaded: the stamp is the generation of this moment.
MarkLoaded(k) ==
  LET c == callers[k] IN
  /\ c.at = "wait" /\ c.asks \in {"new", "resume"} /\ c.got = "ok"
  /\ resumed' = [resumed EXCEPT ![c.sess] = runtime.generation]
  /\ misstamped' = Misstamp(c.sess)
  /\ callers' = Went(k, "commit")
  /\ UNCHANGED <<runtime, adapters, bindings, mailboxes, control, wakes,
                 revisions, hostOps, hostMishaps, deserted, prompted>>

\* configureClaudeSession: a new session whose defaults are refused is left.
ConfigureFails(k) ==
  /\ HostMishap
  /\ callers[k].at = "wait" /\ callers[k].asks = "new" /\ callers[k].got = "ok"
  /\ callers' = Over(k)
  /\ UNCHANGED <<runtime, adapters, bindings, resumed, mailboxes, control,
                 wakes, revisions, hostOps, misstamped, deserted, prompted>>

\* commitBindingIntent: only the latest intent of the conversation binds.
CommitBinding(k) ==
  LET c == callers[k] IN
  /\ c.at = "commit" /\ c.does \in {"use", "new"}
  /\ IF bindings[c.conv].rev = c.rev
     THEN /\ bindings' = [bindings EXCEPT ![c.conv].sess = c.sess,
                                          ![c.conv].gen = runtime.generation]
          /\ misstamped' = Misstamp(c.sess)
     ELSE UNCHANGED <<bindings, misstamped>>
  /\ callers' = Over(k)
  /\ control' = IF control = k THEN NoCaller ELSE control
  /\ UNCHANGED <<runtime, adapters, resumed, mailboxes, wakes, revisions,
                 hostOps, hostMishaps, deserted, prompted>>

\* commitClaudeSessionGeneration: neither binding nor process has changed.
CommitGeneration(k) ==
  LET c == callers[k]
      unchanged == /\ bindings[c.conv].sess = c.sess /\ bindings[c.conv].rev = c.rev
                   /\ runtime.generation = c.gen
  IN
  /\ c.at = "commit" /\ c.does = "chat"
  /\ bindings' = IF unchanged THEN [bindings EXCEPT ![c.conv].gen = c.gen] ELSE bindings
  /\ callers' = IF unchanged THEN Went(k, "prompt") ELSE Over(k)
  /\ control' = NoCaller
  /\ UNCHANGED <<runtime, adapters, resumed, mailboxes, wakes, revisions,
                 hostOps, hostMishaps, misstamped, deserted, prompted>>

\* waitForClaudeRenameCommand: the adapter offers the command, or not.
CommandKnown(k) ==
  /\ callers[k].at = "commit" /\ callers[k].does = "rename"
  /\ \/ callers' = Went(k, "prompt") /\ UNCHANGED control
     \/ callers' = Over(k) /\ control' = NoCaller
  /\ UNCHANGED <<runtime, adapters, bindings, resumed, mailboxes, wakes,
                 revisions, hostOps, hostMishaps, misstamped, deserted, prompted>>

-----------------------------------------------------------------------------
(* Prompts.                                                                *)

\* registerLegacySessionChannels, with the session as it is bound now, and
\* startLegacyPrompt.
Prompt(k) ==
  LET c == callers[k]
      s == IF c.does = "chat" THEN bindings[c.conv].sess ELSE c.sess
      p == runtime.process
  IN
  /\ c.at = "prompt"
  /\ \/ /\ s = NoSession \/ (s # NoSession /\ mailboxes[s] # NoCaller)
        /\ callers' = Over(k)
        /\ control' = IF control = k THEN NoCaller ELSE control
        /\ UNCHANGED <<mailboxes, adapters, prompted>>
     \/ /\ s # NoSession /\ mailboxes[s] = NoCaller
        /\ mailboxes' = [mailboxes EXCEPT ![s] = k]
        /\ Ask(k, "prompt", s, c.rev)
        /\ prompted' = IF p = 0 \/ s \in adapters[p].memory THEN prompted
             ELSE prompted \cup {[same |-> p = c.seen, stamped |-> s \in misstamped]}
        /\ UNCHANGED control
  /\ UNCHANGED <<runtime, bindings, resumed, wakes, revisions, hostOps,
                 hostMishaps, misstamped, deserted>>

\* The answer, a failure, or the caller's own cancellation.  The mailbox is
\* given up at once; what a process still does for a prompt nobody waits for
\* is not awaited.
PromptOver(k) ==
  LET c == callers[k] IN
  /\ c.at = "wait" /\ c.asks = "prompt" /\ c.got # "none"
  /\ mailboxes' = [mailboxes EXCEPT ![c.sess] = NoCaller]
  /\ deserted' = IF c.got = "failed" THEN deserted \cup {c.number} ELSE deserted
  /\ callers' = Over(k)
  /\ UNCHANGED <<runtime, adapters, bindings, resumed, wakes, revisions,
                 hostOps, hostMishaps, misstamped, prompted>>

\* waitLegacyPrompt and finishLegacyPrompt.
FinishPrompt(k) == callers[k].does = "chat" /\ PromptOver(k) /\ UNCHANGED control
\* runClaudeRenamePrompt, inside the control lock to its end.
FinishRename(k) == callers[k].does = "rename" /\ PromptOver(k) /\ control' = NoCaller

-----------------------------------------------------------------------------
ClaudeInit ==
  /\ plan \in HostPlans
  /\ runtime = [started |-> FALSE, starting |-> FALSE, failed |-> FALSE,
                process |-> 0, generation |-> 0, of |-> <<>>, starts |-> 0,
                ended |-> 0, ready |-> 0]
  /\ adapters = <<>>
  /\ bindings = [c \in Conversations |-> [sess |-> NoSession, gen |-> 0, rev |-> 0]]
  /\ resumed = [s \in Sessions |-> 0]
  /\ mailboxes = [s \in Sessions |-> NoCaller]
  /\ control = NoCaller
  /\ callers = [k \in HostCallers |-> Resting]
  /\ wakes = 0 /\ revisions = 0 /\ hostOps = 0 /\ hostMishaps = 0
  /\ misstamped = {} /\ deserted = {} /\ prompted = {}

CallerSteps(k) ==
  \/ BeginOp(k) \/ ChatBegins(k) \/ BeginStart(k) \/ AwaitStart(k) \/ LaunchAdapter(k)
  \/ Initialized(k) \/ FinishStart(k) \/ Cancelled(k)
  \/ ResetSession(k) \/ List(k) \/ GiveUp(k) \/ RequireSession(k)
  \/ UnderControl(k) \/ MarkLoaded(k)
  \/ ConfigureFails(k) \/ CommitBinding(k) \/ CommitGeneration(k)
  \/ CommandKnown(k) \/ Prompt(k) \/ FinishPrompt(k) \/ FinishRename(k)

ProcessSteps(p) ==
  \/ ReadLine(p) \/ ReaderEnds(p) \/ AdapterExits(p)
  \/ \E r \in adapters[p].asked \cup adapters[p].running :
       Answer(p, r) \/ RefuseRequest(p, r) \/ CreateSession(p, r) \/ RunPrompt(p, r)

ClaudeNext ==
  /\ UNCHANGED plan
  /\ \/ \E k \in HostCallers : CallerSteps(k)
     \/ \E p \in DOMAIN adapters : ProcessSteps(p)
     \/ ClearSession \/ Wake \/ StopAdapter

ClaudeSpec == ClaudeInit /\ [][ClaudeNext]_claudeVars

-----------------------------------------------------------------------------
\* A prompt is written only to a process that has its session resumed, as
\* long as the process is the one the caller found running and the session's
\* stamp was not given for a process that never had it: a successor starts
\* empty, and a prompt it does not know is refused (acp_sessions.go, the lazy
\* resume).
ResumedBeforePrompt ==
  \A w \in prompted : w.same => w.stamped

\* What a caller's reply is gathered from was said by the process its prompt
\* went to, and for that prompt, or for one given up earlier in that process:
\* nothing a predecessor left in its pipe gets in (handleCurrentACPWireLine).
UpdatesAreOwn ==
  \A k \in HostCallers : \A u \in callers[k].text :
    /\ callers[k].at = "wait" => u.of = callers[k].wrote
    /\ u.number = callers[k].number \/ u.number \in deserted

\* A prompt and its reply belong to one process: it has the session, and what comes back is its own (acp_sessions.go,
\* acp_read_loop.go).
PromptsSound == ResumedBeforePrompt /\ UpdatesAreOwn
=============================================================================
