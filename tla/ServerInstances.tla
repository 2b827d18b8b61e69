-------------------------- MODULE ServerInstances --------------------------
(***************************************************************************)
(* Processes of "tbyd start" on one data directory, one after another or   *)
(* at the same time (cmd/tbyd/server.go): what they share is the port, the *)
(* PID file and the API token.  "tbyd stop" reads the PID file and sends   *)
(* SIGTERM; the macOS application starts a process of its own and sends it *)
(* SIGTERM (ProcessManager.swift), as Ctrl-C does.  Every other command    *)
(* gets the token the way a start does: if there is none, it makes one.    *)
(* The store of secrets tells a missing token from a failure to read it,   *)
(* which that of macOS does not, and takes each of its calls at once.      *)
(*                                                                         *)
(* A process is its own PID and runs once; that the system gives the       *)
(* number to another program is left out.  What a server does while it     *)
(* serves is in the other modules.                                         *)
(***************************************************************************)
EXTENDS Naturals, FiniteSets

CONSTANTS
  Proc,       \* processes that may run "tbyd start"
  Stop,       \* runs of "tbyd stop"
  Command,    \* runs of the commands that call the server or ask its status
  MaxFaults   \* bound: crashes and health requests that time out

ASSUME InstancesAssumption == MaxFaults \in Nat

VARIABLES
  at,         \* where runServer of a process is
  signalled,  \* processes whose context a signal has cancelled
  port,       \* who listens on server.port, if any
  pidFile,    \* whom tbyd.pid names, if it exists
  token,      \* who made the stored API token, if there is one
  making,     \* commands that found no token and have not stored theirs yet
  held,       \* the token a server compares requests with
  target,     \* the process a stop has read from the file
  app,        \* ProcessManager.process
  reaped,     \* processes whose termination the application has handled
  faults,
  byApp,      \* history: processes the application started
  cutOff,     \* history: processes that died without their deferred calls
  disturbed,  \* history: processes whose time in the file met another's
  racing      \* history: who was making a token when a server took the stored one

process == <<at, signalled, port>>
files == <<pidFile, token, making, held>>
mac == <<app, reaped, byApp>>
history == <<cutOff, disturbed, racing>>
instancesVars == <<process, files, target, mac, faults, history>>

Early == {"token", "generate", "check", "write"}
Inside == {"install", "ready", "serve", "closing", "unwind", "remove"}

(* Before NotifyContext and after its stop a signal ends the process.       *)
Unprotected == Early \cup {"install", "remove"}

(* Whose token the stored one may be; each stores one at most.              *)
Maker == Proc \cup Command

(* The type of the state; a server listens only while it serves.            *)
InstancesTypeOK ==
  /\ at \in [Proc -> {"new", "ended"} \cup Early \cup Inside]
  /\ signalled \subseteq Proc /\ reaped \subseteq byApp /\ byApp \subseteq Proc
  /\ \A S \in {port, pidFile, app} : S \subseteq Proc /\ Cardinality(S) <= 1
  /\ \A p \in port : at[p] \in {"serve", "closing"}
  /\ making \subseteq Command
  /\ token \subseteq Maker /\ Cardinality(token) <= 1
  /\ held \in [Proc -> SUBSET Maker] /\ racing \in [Proc -> SUBSET Maker]
  /\ target \in [Stop -> SUBSET Proc]
  /\ faults \in 0 .. MaxFaults
  /\ cutOff \subseteq Proc /\ disturbed \subseteq Proc

InstancesInit ==
  /\ at = [p \in Proc |-> "new"]
  /\ signalled = {} /\ port = {} /\ pidFile = {}
  /\ token = {} /\ making = {} /\ held = [p \in Proc |-> {}]
  /\ target = [s \in Stop |-> {}]
  /\ app = {} /\ reaped = {} /\ byApp = {}
  /\ faults = 0 /\ cutOff = {} /\ disturbed = {} /\ racing = [p \in Proc |-> {}]

Live(p) == at[p] \in Early \cup Inside

-----------------------------------------------------------------------------
(* runServer, up to the listener *)

Goes(p, from, to) == at[p] = from /\ at' = [at EXCEPT ![p] = to]

RestUnchanged == UNCHANGED <<signalled, target, mac, cutOff>>

(* Seeded bug: a token is made at every start. *)
GetAPIToken_AlwaysNew(p) ==
  /\ Goes(p, "token", "generate")
  /\ UNCHANGED <<port, files, faults, disturbed, racing>> /\ RestUnchanged

GetAPIToken(p) ==
  /\ Goes(p, "token", IF token = {} THEN "generate" ELSE "check")
  /\ UNCHANGED <<port, files, faults, disturbed, racing>> /\ RestUnchanged

(* What a start or a command has stored since is replaced. *)
SetAPIToken(p) ==
  /\ Goes(p, "generate", "check")
  /\ token' = {p}
  /\ UNCHANGED <<port, pidFile, making, held, faults, disturbed, racing>> /\ RestUnchanged

(* Seeded bug: the removal of the file is deferred before the check. *)
CheckHealth_DeferredBefore(p) ==
  /\ Goes(p, "check", IF port = {} THEN "write" ELSE "remove")
  /\ UNCHANGED <<port, files, faults, disturbed, racing>> /\ RestUnchanged

(* Any answer at the port means that a server is running. *)
CheckHealth(p) ==
  /\ Goes(p, "check", IF port = {} THEN "write" ELSE "ended")
  /\ UNCHANGED <<port, files, faults, disturbed, racing>> /\ RestUnchanged

(* A server that takes longer than two seconds to answer passes for none.   *)
HealthTimesOut(p) ==
  /\ port # {} /\ Goes(p, "check", "write")
  /\ faults < MaxFaults /\ faults' = faults + 1
  /\ UNCHANGED <<port, files, disturbed, racing>> /\ RestUnchanged

(* Who else is between writing and removing the file, or is about to remove *)
(* it because a stop has read a PID.                                        *)
InTheFile == {q \in Proc : at[q] \in Inside}

WritePIDFile(p) ==
  /\ Goes(p, "write", "install")
  /\ pidFile' = {p}
  /\ disturbed' = IF InTheFile # {} \/ \E s \in Stop : target[s] # {}
                    THEN disturbed \cup InTheFile \cup {p} ELSE disturbed
  /\ UNCHANGED <<port, token, making, held, faults, racing>> /\ RestUnchanged

(* Configuration, token or file: an error before the first deferred call.   *)
FailsEarly(p) ==
  /\ \E from \in {"token", "generate", "write"} : Goes(p, from, "ended")
  /\ UNCHANGED <<port, files, faults, disturbed, racing>> /\ RestUnchanged

NotifyContext(p) ==
  /\ Goes(p, "install", "ready")
  /\ UNCHANGED <<port, files, faults, disturbed, racing>> /\ RestUnchanged

(* The engine is not ready, or the store does not open. *)
StartFails(p) ==
  /\ Goes(p, "ready", "unwind")
  /\ UNCHANGED <<port, files, faults, disturbed, racing>> /\ RestUnchanged

(* Who has found no token and has not stored one yet.                       *)
Makers == {q \in Proc : at[q] = "generate"} \cup making

(* Once engine and models are ready, maybe minutes later, the token for the *)
(* management API is read; then workers and listeners start.                *)
TakeAPIToken(p) ==
  /\ Goes(p, "ready", "serve")
  /\ held' = [held EXCEPT ![p] = token]
  /\ racing' = [racing EXCEPT ![p] = Makers]
  /\ UNCHANGED <<port, pidFile, token, making, faults, disturbed>> /\ RestUnchanged

-----------------------------------------------------------------------------
(* runServer, from the listener on *)

(* The listener's goroutine; it may come after the signal.  Nobody can bind *)
(* a port that is taken.                                                    *)
Listen(p) ==
  /\ at[p] \in {"serve", "closing"} /\ port = {}
  /\ port' = {p}
  /\ UNCHANGED <<at, files, faults, disturbed, racing>> /\ RestUnchanged

(* Seeded bug: the error is logged only, as that of the MCP port is. *)
ListenFails_Logged(p) ==
  /\ port \notin {{}, {p}} /\ Goes(p, "serve", "serve")
  /\ UNCHANGED <<port, files, faults, disturbed, racing>> /\ RestUnchanged

ListenFails(p) ==
  /\ port \notin {{}, {p}} /\ Goes(p, "serve", "unwind")
  /\ UNCHANGED <<port, files, faults, disturbed, racing>> /\ RestUnchanged

ContextDone(p) ==
  /\ p \in signalled /\ Goes(p, "serve", "closing")
  /\ UNCHANGED <<port, files, faults, disturbed, racing>> /\ RestUnchanged

(* After the MCP server's: the port is free at once, a listener that was    *)
(* not up yet never comes up, the open connections have five seconds.       *)
Shutdown(p) ==
  /\ Goes(p, "closing", "unwind")
  /\ port' = port \ {p}
  /\ UNCHANGED <<files, faults, disturbed, racing>> /\ RestUnchanged

(* The save loop has ended, or the connections have not in time.  Deferred: *)
(* the store is closed, signals are no longer caught ...                    *)
StopNotify(p) ==
  /\ Goes(p, "unwind", "remove")
  /\ UNCHANGED <<port, files, faults, disturbed, racing>> /\ RestUnchanged

(* ... and the file is removed, whomever it names. *)
RemovePIDFile(p) ==
  /\ Goes(p, "remove", "ended")
  /\ pidFile' = {}
  /\ UNCHANGED <<port, token, making, held, faults, disturbed, racing>> /\ RestUnchanged

-----------------------------------------------------------------------------
(* Signals and crashes *)

Dies(p) ==
  /\ at' = [at EXCEPT ![p] = "ended"]
  /\ port' = port \ {p}
  /\ cutOff' = cutOff \cup {p}

(* SIGTERM or SIGINT. *)
SendSignal(p) ==
  IF at[p] \in Unprotected
    THEN Dies(p) /\ signalled' = signalled
    ELSE signalled' = signalled \cup {p} /\ UNCHANGED <<at, port, cutOff>>

Interrupt(p) ==
  /\ Live(p) /\ SendSignal(p)
  /\ UNCHANGED <<files, target, mac, faults, disturbed, racing>>

Crash(p) ==
  /\ Live(p) /\ faults < MaxFaults /\ faults' = faults + 1
  /\ Dies(p)
  /\ UNCHANGED <<signalled, files, target, mac, disturbed, racing>>

-----------------------------------------------------------------------------
(* stopServer *)

ReadPIDFile(s) ==
  /\ target[s] = {} /\ pidFile # {}
  /\ target' = [target EXCEPT ![s] = pidFile]
  /\ UNCHANGED <<process, files, mac, faults, history>>

(* A PID that cannot be signalled is stale, and the file goes. *)
SignalTarget(s, p) ==
  /\ p \in target[s]
  /\ target' = [target EXCEPT ![s] = {}]
  /\ IF Live(p) THEN SendSignal(p) /\ pidFile' = pidFile
                ELSE pidFile' = {} /\ UNCHANGED <<process, cutOff>>
  /\ UNCHANGED <<token, making, held, mac, faults, disturbed, racing>>

-----------------------------------------------------------------------------
(* The command line and the application *)

Start(p) ==
  /\ Goes(p, "new", "token")
  /\ UNCHANGED <<signalled, port, files, target, mac, faults, history>>

AppStart(p) ==
  /\ app = {} /\ Goes(p, "new", "token")
  /\ app' = {p} /\ byApp' = byApp \cup {p}
  /\ UNCHANGED <<signalled, port, files, target, reaped, faults, history>>

(* terminate() does not wait; the next start may follow at once. *)
AppStop(p) ==
  /\ app = {p} /\ app' = {}
  /\ IF Live(p) THEN SendSignal(p) ELSE UNCHANGED <<process, cutOff>>
  /\ UNCHANGED <<files, target, reaped, byApp, faults, disturbed, racing>>

(* Seeded bug: the handler does not ask whose end it is told. *)
HandleTermination_Any(p) ==
  /\ p \in byApp \ reaped /\ at[p] = "ended"
  /\ reaped' = reaped \cup {p}
  /\ app' = {}
  /\ UNCHANGED <<process, files, target, byApp, faults, history>>

(* Queued to the main actor when the process ends. *)
HandleTermination(p) ==
  /\ p \in byApp \ reaped /\ at[p] = "ended"
  /\ reaped' = reaped \cup {p}
  /\ app' = app \ {p}
  /\ UNCHANGED <<process, files, target, byApp, faults, history>>

(* newAPIClient and "tbyd status": GetAPIToken again, by a process that is  *)
(* no server and ends at once.                                              *)
CommandFindsNoToken(c) ==
  /\ token = {} /\ c \notin making
  /\ making' = making \cup {c}
  /\ UNCHANGED <<process, pidFile, token, held, target, mac, faults, history>>

CommandSetsToken(c) ==
  /\ c \in making /\ making' = making \ {c}
  /\ token' = {c}
  /\ UNCHANGED <<process, pidFile, held, target, mac, faults, history>>

(* The token cannot be stored, or the user interrupts the command. *)
CommandFails(c) ==
  /\ c \in making /\ making' = making \ {c}
  /\ UNCHANGED <<process, pidFile, token, held, target, mac, faults, history>>

-----------------------------------------------------------------------------
Runs(p) ==
  \/ GetAPIToken(p) \/ SetAPIToken(p) \/ CheckHealth(p) \/ WritePIDFile(p)
  \/ NotifyContext(p) \/ StartFails(p) \/ TakeAPIToken(p)
  \/ Listen(p) \/ ListenFails(p) \/ ContextDone(p)
  \/ Shutdown(p) \/ StopNotify(p) \/ RemovePIDFile(p)

InstancesNext ==
  \/ \E p \in Proc :
       \/ Runs(p) \/ HealthTimesOut(p) \/ FailsEarly(p)
       \/ Interrupt(p) \/ Crash(p)
       \/ Start(p) \/ AppStart(p) \/ AppStop(p) \/ HandleTermination(p)
  \/ \E s \in Stop : ReadPIDFile(s) \/ \E p \in Proc : SignalTarget(s, p)
  \/ \E c \in Command : CommandFindsNoToken(c) \/ CommandSetsToken(c) \/ CommandFails(c)

InstancesSpec == InstancesInit /\ [][InstancesNext]_instancesVars

(* A process that has started goes on: each call has a timeout or ends when *)
(* the signal comes.  Nobody has to start or stop one.  The goroutine of    *)
(* the listener and the one that waits for the signal take turns.           *)
InstancesFairness ==
  \A p \in Proc : WF_instancesVars(Runs(p)) /\ WF_instancesVars(ContextDone(p)) /\ WF_instancesVars(Shutdown(p))

InstancesFairSpec == InstancesSpec /\ InstancesFairness

-----------------------------------------------------------------------------
(* What the code must achieve *)

(* No run of the server leaves its PID file behind unless it was killed: a  *)
(* file names a process that is on its way to remove it, or a dead one.     *)
FileHasOwner == \A p \in pidFile : at[p] \in Inside \/ p \in cutOff

(* "tbyd stop" reaches the server: a server that has not met another start  *)
(* or a stop on its way to the file is named by it, whatever was tried      *)
(* beside it since.                                                         *)
LoneServerIsNamed ==
  \A p \in port : p \notin signalled \cup disturbed => pidFile = {p}

(* A server has a token, and it is the stored one, which is what clients    *)
(* send.  Starts and commands look for a token and store one in two steps:  *)
(* only one that had already found none when the server took its token can  *)
(* put another in its place, and the server then refuses every client.      *)
(* However many start later and however long the server runs, nobody who    *)
(* looks after that does.                                                   *)
TokensAgree ==
  \A p \in port : held[p] # {} /\ (held[p] = token \/ token \subseteq racing[p])

(* A process of the application is the one it shows and would stop, or has  *)
(* been told to end: quick restarts leave no server behind it forgets.      *)
AppForgetsNoServer == \A p \in byApp : Live(p) => app = {p} \/ p \in signalled

(* Two processes do not keep working on one database: one finds the port    *)
(* taken and ends.                                                          *)
DoubleStartResolves ==
  \A p, q \in Proc : p # q => (at[p] = "serve" /\ at[q] = "serve" ~> at[p] # "serve" \/ at[q] # "serve")

(* What the plan of the command line promises of start and stop: when no    *)
(* process was killed, the only one there is, a server nobody told to stop, *)
(* is the one "tbyd stop" would reach.                                      *)
StopFindsServer ==
  \A p \in port :
    cutOff = {} /\ p \notin signalled /\ (\A q \in Proc \ {p} : ~Live(q)) => pidFile = {p}
=============================================================================
