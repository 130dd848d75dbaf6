--------------------------- MODULE CodexAppShared ---------------------------
(***************************************************************************)
(* The Host the Codex App and WeClaw's clients share                       *)
(* (agent/codex_app_bridge.go, codex_app_bootstrap.go).                    *)
(*                                                                         *)
(* The App starts its server through WeClaw's bridge, more than once in a  *)
(* launch: first a configuration reader with bare arguments, then the      *)
(* formal connection with its full ones.  The Host the reader started is   *)
(* provisional and may be replaced; a Host a task runs on may not.  What   *)
(* tells them apart are files the bridge writes around the start, one by   *)
(* one, and the bridge is a process of the App: it can be gone after any   *)
(* of them.  Message clients take the same lock; tool clients do not.      *)
(***************************************************************************)
EXTENDS Naturals

CONSTANTS
  Formals,       \* full configurations of the App
  Pipes,         \* tool pipes, one per launch of the App
  MaxSharedHosts,      \* bound: Hosts ever started
  MaxBridges     \* bound: bridge connections

ASSUME SharedAssumption == MaxSharedHosts \in Nat /\ MaxBridges \in Nat

VARIABLES
  appHost,      \* the running Host: [gen, args, base], gen 0 when there is none
  appMeta,      \* the generation the protected metadata calls running, 0 for none
  files,        \* app-args.json, app-bootstrap.json, app-pipe.json, app-pipe-applied.json
  bridge,       \* the bridge holding the startup lock
  tool,         \* a tool client on its way in
  joined,       \* clients that may run tasks, as [gen, args]
  retired,      \* Hosts a bridge replaced
  hostsMade, bridges

sharedVars == <<appHost, appMeta, files, bridge, tool, joined, retired, hostsMade, bridges>>

Bare == "bare"
NoPipe == "none"
NoHost == [gen |-> 0, args |-> Bare, base |-> 0]
NoFiles == [args |-> "absent", base |-> 0, boot |-> "none", bootGen |-> 0, pipe |-> NoPipe, applied |-> NoPipe]
NoBridge == [at |-> "idle", args |-> Bare, base |-> 0, pipe |-> NoPipe, boot |-> FALSE, who |-> "app"]

Formal(args) == args \in Formals
\* A socket that answers, with metadata that names the process behind it.
Proven == appHost.gen # 0 /\ appMeta = appHost.gen
\* The provisional record can be read: it names no Host, or the one the metadata names.
BootReadable == files.boot = "host" => files.bootGen = appMeta

BridgeStep(b) == bridge' = b /\ UNCHANGED <<tool, hostsMade, bridges>>
Untouched == UNCHANGED <<appHost, appMeta, files, joined, retired>>

-----------------------------------------------------------------------------
(* A bridge connection, under the startup lock to its end.                 *)

\* The App, or WeClaw restarting the Host with the arguments saved last.
RunAppBridge(args, base, pipe, who) ==
  /\ bridge.at = "idle" /\ bridges < MaxBridges
  /\ who = "app" \/ (pipe = NoPipe /\ files.args = args /\ files.base = base)
  /\ bridge' = [at |-> "dial", args |-> args, base |-> base, pipe |-> pipe, boot |-> ~Formal(args), who |-> who]
  /\ bridges' = bridges + 1 /\ UNCHANGED <<tool, hostsMade>> /\ Untouched

\* A bridge that gives up, or whose process is gone: the lock goes with it, what it wrote stays.
BridgeEnds == bridge.at # "idle" /\ BridgeStep(NoBridge) /\ Untouched

\* Nobody listens: an unproved Host in the process table still stops the launch.  A bare start takes the last full
\* arguments over when they share its base.
BridgeFindsNone ==
  /\ bridge.at = "dial" /\ appHost.gen = 0
  /\ LET adopt == bridge.boot /\ Formal(files.args) /\ files.base = bridge.base
     IN BridgeStep([bridge EXCEPT !.at = "savePipe", !.args = IF adopt THEN files.args ELSE bridge.args])
  /\ Untouched

\* Somebody listens: a reader is let in as it is, equal arguments refresh the pipe, others replace a provisional Host.
BridgeFindsHost ==
  /\ bridge.at = "dial" /\ Proven /\ files.args # "absent" /\ files.base = bridge.base /\ BootReadable
  /\ BridgeStep(CASE bridge.boot -> NoBridge
                  [] ~bridge.boot /\ files.args = bridge.args -> [bridge EXCEPT !.at = "refresh"]
                  [] OTHER -> [bridge EXCEPT !.at = "replace"])
  /\ Untouched

\* Only the provisional Host the record names, with no thread loaded, is stopped.
NoThreads == ~\E c \in joined : c.gen = appHost.gen
RetireBootstrap ==
  /\ bridge.at = "replace" /\ Proven /\ files.boot = "host" /\ files.bootGen = appHost.gen /\ NoThreads
  /\ appHost' = NoHost /\ appMeta' = 0 /\ retired' = retired \cup {appHost.gen}
  /\ BridgeStep([bridge EXCEPT !.at = "savePipe"]) /\ UNCHANGED <<files, joined>>

\* The start, one write at a time.
SavePipe ==
  /\ bridge.at = "savePipe" /\ appHost.gen = 0
  /\ files' = [files EXCEPT !.pipe = IF bridge.pipe = NoPipe THEN @ ELSE bridge.pipe]
  /\ BridgeStep([bridge EXCEPT !.at = "mark"]) /\ UNCHANGED <<appHost, appMeta, joined, retired>>

StartUnmarked ==   \* mutant: the record is only written once the Host is up
  /\ bridge.at = "mark" /\ BridgeStep([bridge EXCEPT !.at = "writeArgs"]) /\ Untouched
MarkStarting ==
  /\ bridge.at = "mark" /\ files' = [files EXCEPT !.boot = "starting", !.bootGen = 0]
  /\ BridgeStep([bridge EXCEPT !.at = "writeArgs"]) /\ UNCHANGED <<appHost, appMeta, joined, retired>>

WriteArgs ==
  /\ bridge.at = "writeArgs" /\ files' = [files EXCEPT !.args = bridge.args, !.base = bridge.base]
  /\ BridgeStep([bridge EXCEPT !.at = "start"]) /\ UNCHANGED <<appHost, appMeta, joined, retired>>

StartSharedHost ==
  /\ bridge.at = "start" /\ hostsMade < MaxSharedHosts /\ hostsMade' = hostsMade + 1
  /\ appHost' = [gen |-> hostsMade + 1, args |-> bridge.args, base |-> bridge.base]
  /\ bridge' = [bridge EXCEPT !.at = "metadata"] /\ UNCHANGED <<appMeta, files, tool, joined, retired, bridges>>

WriteMetadata ==
  /\ bridge.at = "metadata" /\ appHost.gen # 0 /\ appMeta' = appHost.gen
  /\ BridgeStep([bridge EXCEPT !.at = "applied"]) /\ UNCHANGED <<appHost, files, joined, retired>>

WriteApplied ==
  /\ bridge.at = "applied" /\ Proven
  /\ files' = [files EXCEPT !.applied = IF bridge.pipe = NoPipe THEN @ ELSE bridge.pipe]
  /\ BridgeStep([bridge EXCEPT !.at = "settle"]) /\ UNCHANGED <<appHost, appMeta, joined, retired>>

\* A reader's Host becomes provisional, a formal one is confirmed.  A restart then attaches its own client.
Settle ==
  /\ bridge.at = "settle"
  /\ IF bridge.boot THEN appMeta # 0 /\ files' = [files EXCEPT !.boot = "host", !.bootGen = appMeta]
     ELSE files' = [files EXCEPT !.boot = "none", !.bootGen = 0]
  /\ joined' = IF bridge.who = "restart" /\ ~bridge.boot /\ appHost.gen # 0
               THEN joined \cup {[gen |-> appHost.gen, args |-> appHost.args]} ELSE joined
  /\ BridgeStep(NoBridge) /\ UNCHANGED <<appHost, appMeta, retired>>

\* The formal connection to a Host with its own arguments: new pipe, reload, confirmation.
RefreshPipe ==
  /\ bridge.at = "refresh" /\ files' = [files EXCEPT !.pipe = IF bridge.pipe = NoPipe THEN @ ELSE bridge.pipe]
  /\ BridgeStep([bridge EXCEPT !.at = IF bridge.pipe \in {NoPipe, files.applied} THEN "confirm" ELSE "reload"])
  /\ UNCHANGED <<appHost, appMeta, joined, retired>>
ReloadMCP ==
  /\ bridge.at = "reload" /\ appHost.gen # 0 /\ files' = [files EXCEPT !.applied = bridge.pipe]
  /\ BridgeStep([bridge EXCEPT !.at = "confirm"]) /\ UNCHANGED <<appHost, appMeta, joined, retired>>
Confirm ==
  /\ bridge.at = "confirm" /\ files.boot # "starting"
  /\ files' = [files EXCEPT !.boot = "none", !.bootGen = 0]
  /\ joined' = IF bridge.who = "restart" /\ appHost.gen # 0
               THEN joined \cup {[gen |-> appHost.gen, args |-> appHost.args]} ELSE joined
  /\ BridgeStep(NoBridge) /\ UNCHANGED <<appHost, appMeta, retired>>

-----------------------------------------------------------------------------
(* Clients, and the Host's own end.                                        *)

Ready == Proven /\ BootReadable /\ files.boot = "none"

\* A message client looks under the lock and dials after it.
AttachReadyHost ==
  /\ bridge.at = "idle" /\ Ready /\ joined' = joined \cup {[gen |-> appHost.gen, args |-> appHost.args]}
  /\ joined' # joined /\ UNCHANGED <<appHost, appMeta, files, bridge, tool, retired, hostsMade, bridges>>

\* A tool client dials first and looks afterwards, without the lock.
ToolDials ==
  /\ tool = 0 /\ appHost.gen # 0 /\ tool' = appHost.gen
  /\ UNCHANGED <<bridge, hostsMade, bridges>> /\ Untouched
ToolAdmitted ==
  /\ tool # 0 /\ tool' = 0
  /\ joined' = IF Ready /\ tool = appHost.gen THEN joined \cup {[gen |-> tool, args |-> appHost.args]} ELSE joined
  /\ UNCHANGED <<appHost, appMeta, files, bridge, retired, hostsMade, bridges>>

\* The Host ends by itself, or a coordinated restart stops it; its waiter marks the metadata or never does.
SharedHostEnds(marked) ==
  /\ appHost.gen # 0 /\ appHost' = NoHost /\ appMeta' = IF marked THEN 0 ELSE appMeta
  /\ UNCHANGED <<files, bridge, tool, joined, retired, hostsMade, bridges>>

-----------------------------------------------------------------------------
SharedInit ==
  /\ appHost = NoHost /\ appMeta = 0 /\ files = NoFiles /\ bridge = NoBridge /\ tool = 0
  /\ joined = {} /\ retired = {} /\ hostsMade = 0 /\ bridges = 0

SharedNext ==
  \/ \E args \in Formals \cup {Bare}, base \in {1, 2}, pipe \in Pipes \cup {NoPipe}, who \in {"app", "restart"} :
       RunAppBridge(args, base, pipe, who)
  \/ BridgeEnds \/ BridgeFindsNone \/ BridgeFindsHost \/ RetireBootstrap
  \/ SavePipe \/ MarkStarting \/ WriteArgs \/ StartSharedHost \/ WriteMetadata \/ WriteApplied \/ Settle
  \/ RefreshPipe \/ ReloadMCP \/ Confirm
  \/ AttachReadyHost \/ ToolDials \/ ToolAdmitted \/ \E marked \in BOOLEAN : SharedHostEnds(marked)

SharedSpec == SharedInit /\ [][SharedNext]_sharedVars

-----------------------------------------------------------------------------
(* A client that may run tasks only ever got in on a Host with a full      *)
(* configuration of the App, and no bridge replaced that Host afterwards:  *)
(* whatever write of a start the bridge did not live to make, and although *)
(* tool clients look without the lock.                                     *)
ClientsOnFormalHost == \A c \in joined : Formal(c.args) /\ c.gen \notin retired
=============================================================================
