---------------------------- MODULE NicoShutdown ----------------------------
(***************************************************************************)
(* A nico process from start() to process.exit: the servers it listens     *)
(* with, the listener createServer installs for each signal, the close     *)
(* callback that runs the user's handler, and the timer that forces the    *)
(* exit.  A process may be signalled again while it stops, and start() may *)
(* be called again, since nothing ever sets #started.                      *)
(*                                                                         *)
(* A shutdown is one run of one server's signal listener.  All signals     *)
(* have a listener (#signalHandlers starts with SIGINT and SIGTERM), so    *)
(* which signal it was only says which handler runs.                       *)
(***************************************************************************)
EXTENDS Integers, Sequences, FiniteSets

CONSTANTS
  MaxStarts,       \* bound: calls of start()
  MaxSignals,      \* bound: signals the process gets
  MaxConnections,  \* bound: open connections of a server
  ForceExitTime    \* config.advancedConfigs.forceExitTime

ASSUME ShutdownAssumption ==
  /\ MaxStarts \in Nat /\ MaxSignals \in Nat /\ MaxConnections \in Nat
  /\ ForceExitTime \in Nat \ {0}

VARIABLES
  servers,    \* how many servers were created
  listening,  \* which of them hold their socket
  conns,      \* the open connections of each
  signals,    \* signals received
  shutdowns,  \* the runs of the signal listeners, in order
  exitCode,   \* "none" while the process runs
  age         \* time since the first signal (history)

vars == <<servers, listening, conns, signals, shutdowns, exitCode, age>>

Servers == 1..MaxStarts
Running == exitCode = "none"
Stages == {"closing", "handler", "rejected", "finished"}

Init ==
  /\ servers = 0
  /\ listening = {}
  /\ conns = [s \in Servers |-> 0]
  /\ signals = 0
  /\ shutdowns = <<>>
  /\ exitCode = "none"
  /\ age = 0

(***************************************************************************)
(* start(): the guard reads a flag that stays false.  The port may be in   *)
(* use: the server's error event ends in the uncaughtException listener,   *)
(* and the process runs on with a server that does not listen.             *)
(***************************************************************************)
Started == FALSE

Start ==
  /\ Running /\ servers < MaxStarts
  /\ ~Started
  /\ servers' = servers + 1
  /\ \E bound \in BOOLEAN :
       listening' = IF bound THEN listening \cup {servers + 1} ELSE listening
  /\ UNCHANGED <<conns, signals, shutdowns, exitCode, age>>

Connect(s) ==
  /\ Running /\ s \in listening /\ conns[s] < MaxConnections
  /\ conns' = [conns EXCEPT ![s] = @ + 1]
  /\ UNCHANGED <<servers, listening, signals, shutdowns, exitCode, age>>

Disconnect(s) ==
  /\ Running /\ conns[s] > 0
  /\ conns' = [conns EXCEPT ![s] = @ - 1]
  /\ UNCHANGED <<servers, listening, signals, shutdowns, exitCode, age>>

(***************************************************************************)
(* A signal: each server's listener sets a timer of its own and closes the *)
(* server.  Closing one that is closed already is an error its callback    *)
(* will be given.                                                          *)
(***************************************************************************)
CloseFails(s) == s \notin listening

ShutdownOf(s) ==
  [server |-> s, stage |-> "closing", failed |-> CloseFails(s), left |-> ForceExitTime]

(* A variation with one timer for the process, set again by every signal. *)
KeptRestarted(runs) == [i \in 1..Len(runs) |-> [runs[i] EXCEPT !.left = ForceExitTime]]
Kept(runs) == runs

Signal ==
  /\ Running /\ servers > 0 /\ signals < MaxSignals
  /\ signals' = signals + 1
  /\ shutdowns' = Kept(shutdowns) \o [s \in 1..servers |-> ShutdownOf(s)]
  /\ listening' = {}
  /\ UNCHANGED <<servers, conns, exitCode, age>>

(***************************************************************************)
(* The close event, once the last connection is gone, calls every callback *)
(* that waits for it, in order; each runs the user's handler.              *)
(***************************************************************************)
MayCloseUndrained(s) == s \notin listening
MayClose(s) == s \notin listening /\ conns[s] = 0

Closing(s) == {i \in 1..Len(shutdowns) : shutdowns[i].server = s /\ shutdowns[i].stage = "closing"}

Closed(s) ==
  /\ Running /\ MayClose(s) /\ Closing(s) # {}
  /\ shutdowns' = [i \in 1..Len(shutdowns) |->
                     IF i \in Closing(s) THEN [shutdowns[i] EXCEPT !.stage = "handler"]
                                         ELSE shutdowns[i]]
  /\ UNCHANGED <<servers, listening, conns, signals, exitCode, age>>

(* The handler's promise resolves: clearTimeout and process.exit(code). *)
CodeAlwaysZero(run) == "0"
CodeOf(run) == IF run.failed THEN "1" ELSE "0"

HandlerResolves(i) ==
  /\ Running /\ shutdowns[i].stage = "handler"
  /\ shutdowns' = [shutdowns EXCEPT ![i].stage = "finished"]
  /\ exitCode' = CodeOf(shutdowns[i])
  /\ UNCHANGED <<servers, listening, conns, signals, age>>

(* It rejects: the uncaughtException listener logs it, the timer stays. *)
HandlerRejects(i) ==
  /\ Running /\ shutdowns[i].stage = "handler"
  /\ shutdowns' = [shutdowns EXCEPT ![i].stage = "rejected"]
  /\ UNCHANGED <<servers, listening, conns, signals, exitCode, age>>

ForcesExitUnlessHandling(run) == run.left = 0 /\ run.stage = "closing"
ForcesExit(run) == run.left = 0

ForceExit(i) ==
  /\ Running /\ ForcesExit(shutdowns[i])
  /\ exitCode' = "1"
  /\ UNCHANGED <<servers, listening, conns, signals, shutdowns, age>>

(* A unit of time.  The event loop is not blocked: a timer that is due fires  *)
(* before more time passes.                                                   *)
Tick ==
  /\ Running /\ signals > 0
  /\ \A i \in 1..Len(shutdowns) : ~ForcesExit(shutdowns[i])
  /\ age <= ForceExitTime
  /\ shutdowns' = [i \in 1..Len(shutdowns) |-> [shutdowns[i] EXCEPT !.left = @ - 1]]
  /\ age' = age + 1
  /\ UNCHANGED <<servers, listening, conns, signals, exitCode>>

Timers == Tick \/ \E i \in 1..Len(shutdowns) : ForceExit(i)

Next ==
  \/ Start \/ Signal \/ Timers
  \/ \E s \in Servers : Connect(s) \/ Disconnect(s) \/ Closed(s)
  \/ \E i \in 1..Len(shutdowns) : HandlerResolves(i) \/ HandlerRejects(i)

Spec == Init /\ [][Next]_vars

(* Time passes and timers fire; connections and handlers may last for ever. *)
FairSpec == Spec /\ WF_vars(Timers)

-----------------------------------------------------------------------------
TypeOK ==
  /\ servers \in 0..MaxStarts
  /\ listening \subseteq 1..servers
  /\ conns \in [Servers -> 0..MaxConnections]
  /\ signals \in 0..MaxSignals
  /\ shutdowns \in Seq([server : 1..servers, stage : Stages, failed : BOOLEAN,
                        left : 0..ForceExitTime])
  /\ exitCode \in {"none", "0", "1"}
  /\ age \in 0..ForceExitTime + 1

(* forceExitTime counts from the first signal: neither a second signal, nor a *)
(* hanging connection, nor a handler that hangs or rejects keeps the process  *)
(* longer.                                                                    *)
ExitsInTime == Running => age <= ForceExitTime

(* A handler that closes databases never runs under an open connection of the *)
(* server it was called for.                                                  *)
HandlersRunDrained ==
  \A i \in 1..Len(shutdowns) :
    shutdowns[i].stage # "closing" =>
      shutdowns[i].server \notin listening /\ conns[shutdowns[i].server] = 0

(* However many signals come, the handler of a server is told once, and only  *)
(* for the first signal, that the server closed without error.                *)
OneCleanClosePerServer ==
  \A i, j \in 1..Len(shutdowns) :
    /\ shutdowns[i].server = shutdowns[j].server
    /\ ~shutdowns[i].failed /\ ~shutdowns[j].failed
    => i = j

(* Exit code 0 means a handler has finished its work after a clean close; with *)
(* one server no connection was cut off by it.                                *)
CleanExitIsComplete ==
  exitCode = "0" =>
    /\ \E i \in 1..Len(shutdowns) : shutdowns[i].stage = "finished" /\ ~shutdowns[i].failed
    /\ servers = 1 => \A s \in Servers : conns[s] = 0

Process == INSTANCE GracefulProcess WITH
  phase <- IF ~Running THEN "exited" ELSE IF signals > 0 THEN "stopping" ELSE "serving",
  code <- exitCode

(* The process is the graceful one its surroundings count on: no error event, *)
(* rejection or hang ends it before a signal, and each ends after one.        *)
ImplementsGracefulProcess == Process!Spec
=============================================================================
