-------------------------- MODULE CodexHostConflict --------------------------
(***************************************************************************)
(* Stopping Codex Hosts WeClaw may not own (agent/codex_host_conflict.go,  *)
(* codex_host_conflict_stop_unix.go, codex_host_supervisor.go,             *)
(* codex_daemon_host.go).                                                  *)
(*                                                                         *)
(* The only thing WeClaw can name when it stops a process group is a       *)
(* number, and the operating system reuses numbers.  The process table     *)
(* moves freely between any two looks WeClaw takes at it: processes exit,  *)
(* new ones start under old numbers, the official daemon is replaced.  A   *)
(* stop plans from one snapshot, proves every target from a second one,    *)
(* proves it again right before the signal, and signals.  Start times are  *)
(* taken to be unique; a command line is reduced to the words the          *)
(* classification tells apart.                                             *)
(***************************************************************************)
EXTENDS Naturals, Sequences, FiniteSets

CONSTANTS
  Pids,            \* process numbers
  Commands,        \* command lines processes are started with
  MaxStarts,       \* bound: processes ever started
  MaxStops         \* bound: stop operations

ASSUME ConflictAssumption == Pids \subseteq Nat \ {0} /\ IsFiniteSet(Pids) /\ MaxStarts \in Nat /\ MaxStops \in Nat

VARIABLES
  procs,       \* the process table
  starts,      \* processes started so far: the clock of start times
  hostMeta,    \* the protected metadata file of the WeClaw Host
  pidRecord,   \* the official daemon's own PID record
  stop,        \* the stop operation under way
  stops,       \* stop operations so far
  signal       \* the last signal sent

conflictVars == <<procs, starts, hostMeta, pidRecord, stop, stops, signal>>

NoCommand == [exe |-> "none", app |-> FALSE, before |-> {}, sub |-> "none", after |-> <<>>, me |-> FALSE]
NoProcess == [start |-> 0, group |-> 0, made |-> 0, cmd |-> NoCommand]
NoMeta == [pid |-> 0, start |-> 0, state |-> "absent", manager |-> "weclaw"]
NoRecord == [pid |-> 0, start |-> 0]
NoTarget == [group |-> 0, kind |-> "unknown", host |-> 0, pids |-> {}]
NoSignal == [group |-> 0, hit |-> {}, proof |-> {}, looked |-> 0, kind |-> "unknown", force |-> FALSE]
IdleStop == [at |-> "idle", force |-> FALSE, plan |-> <<>>, i |-> 1, round |-> "verify", seen |-> {}, members |-> {},
             proofs |-> <<>>, looked |-> 0, sent |-> "none", lock |-> FALSE]

Live(p) == p \in Pids /\ procs[p].start # 0
LivePids == {p \in Pids : Live(p)}
Group(g) == {p \in LivePids : procs[p].group = g}
Setting(f, p, v) == [f EXCEPT ![p] = v]

-----------------------------------------------------------------------------
(* What a command line is.  Words before the subcommand are global options *)
(* with their values; words after it decide whether app-server runs a      *)
(* Host.  What is not known is taken for a Host.                           *)

\* App-server's own words: help and the listed tools do not run a Host, unless an unknown option may have consumed them.
ArgsRunHost(after) ==
  LET words == {i \in 1..Len(after) : after[i] \in {"help", "--", "tool", "word"}}
      first == CHOOSE i \in words : \A j \in words : i <= j
  IN words # {} => \/ after[first] \in {"--", "word"}
                   \/ after[first] = "tool" /\ \E j \in 1..(first - 1) : after[j] = "newOption"

AppServerHost(c) ==
  /\ c.exe \in {"codex", "node"} /\ ~(c.app /\ "codeMode" \in c.before)
  /\ c.before \cap {"remote", "--"} = {} /\ c.sub = "app-server" /\ ArgsRunHost(c.after)

\* The App itself, and the Host it starts for its own use.
AppRoot(c) == c.app /\ c.exe = "codex" /\ c.sub = "none"
PrivateHost(c) == c.app /\ AppServerHost(c)
OfficialDaemon(c) == AppServerHost(c) /\ "standalone" \in c.before

\* Whether the protected metadata names the process at p, by number, group, start time and command.
Named(mt, p) == mt.state = "running" /\ mt.pid = p /\ Live(p) /\ procs[p].start = mt.start /\ procs[p].group = p

\* The groups with a Host of an allowed user, and what kind each is.
HostsIn(g) == {p \in Group(g) : procs[p].cmd.me /\ AppServerHost(procs[p].cmd)}
HostGroups == {procs[p].group : p \in {q \in LivePids : procs[q].cmd.me /\ AppServerHost(procs[q].cmd)}}
Trusted(g) == \A p \in Group(g) : procs[p].cmd.me

Classify(g) ==
  LET daemons == {p \in HostsIn(g) : OfficialDaemon(procs[p].cmd)}
      roots == {p \in Group(g) : AppRoot(procs[p].cmd)}
      private == {p \in HostsIn(g) : PrivateHost(procs[p].cmd)}
      leader == IF g \in HostsIn(g) THEN g ELSE 0
      target(kind, host) == [group |-> g, kind |-> kind, host |-> host, pids |-> HostsIn(g)]
  IN CASE daemons # {} /\ Trusted(g) -> target("daemon", CHOOSE p \in daemons : TRUE)
       [] daemons = {} /\ private # {} /\ roots # {} /\ Trusted(g) -> target("app", CHOOSE p \in private : TRUE)
       [] OTHER -> IF Named(hostMeta, g) /\ hostMeta.manager = "weclaw" /\ Trusted(g) THEN target("managed", g) ELSE target("unknown", leader)

\* The authority: the Host the metadata names is left alone by a restart without force.
Authorities == {0} \cup {p \in Pids : Named(hostMeta, p)}
Conflicts(authority) == {Classify(g) : g \in HostGroups \ (IF authority = 0 THEN {} ELSE {procs[authority].group})}

\* The preflight before a launch: nobody else may be running one.
NoOtherHost(authority) == Conflicts(authority) = {}

-----------------------------------------------------------------------------
(* The rest of the machine.                                                *)

\* A free number that no group still carries.
FreePid(p) == ~Live(p) /\ Group(p) = {}
Started(p, g, c) == [start |-> starts + 1, group |-> g, made |-> IF g = p THEN starts + 1 ELSE procs[g].made, cmd |-> c]

\* A program starts in a group of its own, or as a child in its parent's group.
Spawn(p, c) ==
  /\ starts < MaxStarts /\ FreePid(p) /\ starts' = starts + 1
  /\ procs' = Setting(procs, p, Started(p, p, c))
  /\ pidRecord' = IF OfficialDaemon(c) THEN [pid |-> p, start |-> starts + 1] ELSE pidRecord
  /\ UNCHANGED <<hostMeta, stop, stops, signal>>

Fork(p, parent, c) ==
  /\ starts < MaxStarts /\ FreePid(p) /\ Live(parent) /\ Live(procs[parent].group) /\ starts' = starts + 1
  /\ AppRoot(procs[parent].cmd) \/ c.exe = "other"
  /\ procs' = Setting(procs, p, Started(p, procs[parent].group, c))
  /\ UNCHANGED <<hostMeta, pidRecord, stop, stops, signal>>

Exit(p) ==
  /\ Live(p) /\ procs' = Setting(procs, p, NoProcess)
  /\ pidRecord' = IF pidRecord = [pid |-> p, start |-> procs[p].start] THEN NoRecord ELSE pidRecord
  /\ UNCHANGED <<starts, hostMeta, stop, stops, signal>>

\* WeClaw's own launch, all of it under the lifecycle lock: no other Host, start, look again, record.
LaunchManaged(p, c) ==
  /\ ~stop.lock /\ starts < MaxStarts /\ FreePid(p) /\ NoOtherHost(0) /\ AppServerHost(c) /\ c.me /\ ~OfficialDaemon(c) /\ ~c.app
  /\ procs' = Setting(procs, p, Started(p, p, c)) /\ starts' = starts + 1
  /\ hostMeta' = [pid |-> p, start |-> starts + 1, state |-> "running", manager |-> "weclaw"]
  /\ UNCHANGED <<pidRecord, stop, stops, signal>>

\* Attaching to the official daemon: its record, proved against the process, becomes the metadata.
RecordDaemon ==
  /\ ~stop.lock /\ Live(pidRecord.pid) /\ procs[pidRecord.pid].start = pidRecord.start /\ procs[pidRecord.pid].group = pidRecord.pid
  /\ hostMeta' = [pid |-> pidRecord.pid, start |-> pidRecord.start, state |-> "running", manager |-> "daemon"]
  /\ hostMeta' # hostMeta /\ UNCHANGED <<procs, starts, pidRecord, stop, stops, signal>>

-----------------------------------------------------------------------------
(* A stop of the Hosts that are in the way.                                *)

\* A plan, in the order of the groups.  With force the App has been closed first.
PlanHostConflicts(force, authority) ==
  /\ stop.at = "idle" /\ stops < MaxStops /\ (force => authority = 0)
  /\ force => \A p \in LivePids : ~AppRoot(procs[p].cmd)
  /\ LET found == Conflicts(authority)
     IN /\ found # {} /\ \A t \in found : t.kind = "unknown" => (force /\ t.host # 0)
        /\ \E ordered \in [1..Cardinality(found) -> found] :
             /\ \A i, j \in DOMAIN ordered : i < j => ordered[i].group < ordered[j].group
             /\ stop' = [IdleStop EXCEPT !.at = "look", !.force = force, !.plan = ordered]
  /\ stops' = stops + 1 /\ UNCHANGED <<procs, starts, hostMeta, pidRecord, signal>>

Target == IF stop.i \in DOMAIN stop.plan THEN stop.plan[stop.i] ELSE NoTarget
Abandon == stop' = IdleStop /\ UNCHANGED <<procs, starts, hostMeta, pidRecord, stops, signal>>
Advance(s) == stop' = s /\ UNCHANGED <<procs, starts, hostMeta, pidRecord, stops, signal>>

\* captureCodexHostConflictTarget: a fresh snapshot must show the same target; the members' identities are read after it.
CaptureSnapshot ==
  /\ stop.at \in {"look", "locked"}
  /\ IF Target.group \in HostGroups /\ Classify(Target.group) = Target /\ Trusted(Target.group)
     THEN Advance([stop EXCEPT !.at = IF stop.at = "look" THEN "inspect" ELSE "inspectLocked",
                               !.seen = Group(Target.group), !.members = {}, !.looked = starts])
     ELSE Abandon

InspectMember(p) ==
  /\ stop.at \in {"inspect", "inspectLocked"} /\ p \in stop.seen
  /\ IF Live(p) /\ procs[p].group = Target.group /\ procs[p].cmd.me
     THEN Advance([stop EXCEPT !.seen = @ \ {p},
                     !.members = @ \cup {[pid |-> p, start |-> procs[p].start, cmd |-> procs[p].cmd]}])
     ELSE Abandon

\* The lifecycle command of the official daemon answers with the number it recorded.
VersionSays(p) == pidRecord.pid = p
NeedsVersion == Target.kind = "daemon" /\ ~stop.force

\* First round: every target is proved before any is touched.
Verified ==
  /\ stop.at = "inspect" /\ stop.seen = {} /\ stop.round = "verify"
  /\ IF NeedsVersion => VersionSays(Target.host)
     THEN Advance(IF stop.i = Len(stop.plan)
                  THEN [stop EXCEPT !.at = "look", !.round = "stop", !.i = 1, !.proofs = Append(@, stop.members)]
                  ELSE [stop EXCEPT !.at = "look", !.i = @ + 1, !.proofs = Append(@, stop.members)])
     ELSE Abandon

\* Second round: the proof taken now must be the one taken then.
ProofUnread(then, now) == {m.pid : m \in then} = {m.pid : m \in now}   \* mutant: numbers are compared, start times are not
SameProof(then, now) == then = now
Reproved ==
  /\ stop.at \in {"inspect", "inspectLocked"} /\ stop.seen = {} /\ stop.round = "stop"
  /\ IF /\ SameProof(stop.proofs[stop.i], stop.members)
        /\ NeedsVersion => IF stop.at = "inspect" THEN VersionSays(Target.host)
                            ELSE \E m \in stop.members : m.pid = hostMeta.pid /\ m.start = hostMeta.start
     THEN Advance(CASE stop.at = "inspect" /\ Target.kind = "managed" /\ ~stop.force -> [stop EXCEPT !.at = "locked", !.lock = TRUE]
                    [] stop.at = "inspect" /\ NeedsVersion -> [stop EXCEPT !.at = "daemon"]
                    [] OTHER -> [stop EXCEPT !.at = "ready"])
     ELSE Abandon

\* The daemon's own stop command ends whatever it recorded; one that calls the process unmanaged leads to the fallback,
\* which proves the group once more under the lock, against the metadata as well.
StopDaemon ==
  /\ stop.at = "daemon" /\ VersionSays(Target.host) /\ Live(pidRecord.pid)
  /\ procs' = Setting(procs, pidRecord.pid, NoProcess) /\ pidRecord' = NoRecord
  /\ signal' = [group |-> pidRecord.pid, hit |-> {procs[pidRecord.pid]}, proof |-> stop.members, looked |-> stop.looked,
                kind |-> "daemon", force |-> stop.force]
  /\ stop' = [stop EXCEPT !.at = "wait", !.sent = "kill"] /\ UNCHANGED <<starts, hostMeta, stops>>
DaemonUnmanaged ==
  /\ stop.at = "daemon" /\ VersionSays(Target.host)
  /\ IF hostMeta.manager = "daemon" /\ hostMeta.state = "running" /\ hostMeta.pid = Target.host /\ Target.host = Target.group
     THEN Advance([stop EXCEPT !.at = "locked", !.lock = TRUE]) ELSE Abandon
DaemonMoved == stop.at = "daemon" /\ ~VersionSays(Target.host) /\ Abandon

\* A signal goes to every process of the group, whoever they are by now.
Signalled(kill) ==
  LET g == Target.group
  IN /\ signal' = [group |-> g, hit |-> {procs[p] : p \in Group(g)}, proof |-> stop.members, looked |-> stop.looked,
                   kind |-> Target.kind, force |-> stop.force]
     /\ procs' = IF kill THEN [p \in Pids |-> IF p \in Group(g) THEN NoProcess ELSE procs[p]] ELSE procs
     /\ pidRecord' = IF kill /\ pidRecord.pid \in Group(g) THEN NoRecord ELSE pidRecord
     /\ UNCHANGED <<starts, hostMeta, stops>>

Interrupt == stop.at = "ready" /\ Signalled(FALSE) /\ stop' = [stop EXCEPT !.at = "wait", !.sent = "int"]

\* The members are watched by number, start time and command: gone, still there, or somebody else.
Gone(m) == ~Live(m.pid)
StillThere(m) == Live(m.pid) /\ procs[m.pid].start = m.start /\ procs[m.pid].group = Target.group
Drifted == \E m \in stop.members : ~Gone(m) /\ ~StillThere(m)
IdentityDrift == stop.at = "wait" /\ Drifted /\ Abandon
GraceExpired ==
  /\ stop.at = "wait" /\ stop.sent = "int" /\ ~Drifted /\ \E m \in stop.members : StillThere(m)
  /\ Advance([stop EXCEPT !.at = "kill", !.looked = starts])
Kill == stop.at = "kill" /\ Signalled(TRUE) /\ stop' = [stop EXCEPT !.at = "wait", !.sent = "kill"]

\* All gone: a managed Host's metadata is marked, and the next target is taken.
MembersExited ==
  /\ stop.at = "wait" /\ \A m \in stop.members : Gone(m)
  /\ hostMeta' = IF stop.lock /\ hostMeta.pid = Target.host
                 THEN [hostMeta EXCEPT !.state = "stopped"] ELSE hostMeta
  /\ stop' = IF stop.i = Len(stop.plan) THEN IdleStop
             ELSE [stop EXCEPT !.at = "look", !.i = @ + 1, !.sent = "none", !.lock = FALSE]
  /\ UNCHANGED <<procs, starts, pidRecord, stops, signal>>

-----------------------------------------------------------------------------
ConflictInit ==
  /\ procs = [p \in Pids |-> NoProcess] /\ starts = 0
  /\ hostMeta = NoMeta /\ pidRecord = NoRecord /\ stop = IdleStop /\ stops = 0 /\ signal = NoSignal

ConflictNext ==
  \/ \E p \in Pids : \/ \E c \in Commands : Spawn(p, c) \/ LaunchManaged(p, c) \/ \E q \in Pids : Fork(p, q, c)
                     \/ Exit(p) \/ InspectMember(p)
  \/ \E force \in BOOLEAN, authority \in Authorities : PlanHostConflicts(force, authority)
  \/ RecordDaemon \/ CaptureSnapshot \/ Verified \/ Reproved \/ StopDaemon \/ DaemonUnmanaged \/ DaemonMoved
  \/ Interrupt \/ IdentityDrift \/ GraceExpired \/ Kill \/ MembersExited

ConflictSpec == ConflictInit /\ [][ConflictNext]_conflictVars

-----------------------------------------------------------------------------
(* A signal reaches nobody the stop has not proved: every process it hits  *)
(* that was running when the stop last looked belongs to a group one of    *)
(* whose proved members, by start time, leads or leads back to it, and     *)
(* without force it is of a kind WeClaw can prove.  Process numbers may be *)
(* reused between plan, proof and signal, by Hosts and by strangers.       *)
OnlyProvenSignalled ==
  \A v \in signal.hit :
    \/ v.start > signal.looked
    \/ /\ \E m \in signal.proof : m.start = v.start \/ m.start = v.made
       /\ \E m \in signal.proof : AppServerHost(m.cmd)
       /\ signal.force \/ signal.kind # "unknown"
=============================================================================
