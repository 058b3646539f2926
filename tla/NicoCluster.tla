---------------------------- MODULE NicoCluster ----------------------------
(***************************************************************************)
(* startCluster: a master that forks workers, replaces those that exit,    *)
(* and on a signal passes it on and stops replacing.  Once booted a worker *)
(* is a process that createServer made ready for signals: it serves, stops *)
(* and exits as NicoShutdown shows a GracefulProcess does, or crashes.     *)
(*                                                                         *)
(* The processes are asynchronous: a signal sent by kill or by a terminal  *)
(* reaches each at its own time, and the master hears of an exit later     *)
(* than it happens.  A fork gets the next id; ids are never used again.    *)
(***************************************************************************)
EXTENDS Integers, FiniteSets

CONSTANTS
  Instances,   \* how many workers startCluster forks
  MaxForks,    \* bound: workers ever forked
  MaxSent      \* bound: signals anybody sends

ASSUME ClusterAssumption ==
  /\ Instances \in Nat \ {0} /\ MaxForks \in Nat /\ MaxSent \in Nat
  /\ Instances <= MaxForks

VARIABLES
  forks,      \* workers forked so far: ids 1..forks
  state,      \* of each worker: booting, serving, stopping, dead
  known,      \* cluster.workers: those whose exit the master has not handled
  closing,    \* the master's flag
  master,     \* running or exited
  pending,    \* signals on their way to each worker
  toMaster,   \* signals on their way to the master
  sent        \* signals sent by the outside (history, bounded)

clusterVars == <<forks, state, known, closing, master, pending, toMaster, sent>>

Ids == 1..MaxForks
Live == {w \in 1..forks : state[w] # "dead"}

(* startCluster in the master, up to its return. *)
ClusterInit ==
  /\ forks = Instances
  /\ state = [w \in Ids |-> "booting"]
  /\ known = 1..Instances
  /\ closing = FALSE
  /\ master = "running"
  /\ pending = [w \in Ids |-> 0]
  /\ toMaster = 0
  /\ sent = 0

(***************************************************************************)
(* The workers.                                                            *)
(***************************************************************************)
(* startCluster in the worker: createServer installs the signal listeners. *)
Boot(w) ==
  /\ w \in Live /\ state[w] = "booting"
  /\ state' = [state EXCEPT ![w] = "serving"]
  /\ UNCHANGED <<forks, known, closing, master, pending, toMaster, sent>>

(* Before that a signal has its default action. *)
OnSignal(st) == IF st = "booting" THEN "dead" ELSE "stopping"

WorkerGetsSignal(w) ==
  /\ w \in Live /\ pending[w] > 0
  /\ pending' = [pending EXCEPT ![w] = @ - 1]
  /\ state' = [state EXCEPT ![w] = OnSignal(@)]
  /\ UNCHANGED <<forks, known, closing, master, toMaster, sent>>

(* The end of a shutdown. *)
WorkerExits(w) ==
  /\ w \in Live /\ state[w] = "stopping"
  /\ state' = [state EXCEPT ![w] = "dead"]
  /\ UNCHANGED <<forks, known, closing, master, pending, toMaster, sent>>

(* A worker is killed, or runs out of memory. *)
WorkerCrashes(w) ==
  /\ w \in Live
  /\ state' = [state EXCEPT ![w] = "dead"]
  /\ UNCHANGED <<forks, known, closing, master, pending, toMaster, sent>>

(***************************************************************************)
(* The outside: a terminal signals the whole process group, a container    *)
(* only the master, an operator one worker.                                *)
(***************************************************************************)
SignalGroup ==
  /\ master = "running" /\ sent < MaxSent
  /\ sent' = sent + 1
  /\ toMaster' = toMaster + 1
  /\ pending' = [w \in Ids |-> IF w \in Live THEN pending[w] + 1 ELSE pending[w]]
  /\ UNCHANGED <<forks, state, known, closing, master>>

SignalMaster ==
  /\ master = "running" /\ sent < MaxSent
  /\ sent' = sent + 1
  /\ toMaster' = toMaster + 1
  /\ UNCHANGED <<forks, state, known, closing, master, pending>>

SignalWorker(w) ==
  /\ w \in Live /\ sent < MaxSent
  /\ sent' = sent + 1
  /\ pending' = [pending EXCEPT ![w] = @ + 1]
  /\ UNCHANGED <<forks, state, known, closing, master, toMaster>>

(***************************************************************************)
(* The master.                                                             *)
(***************************************************************************)
ReplacesNever == FALSE
Replaces == ~closing

(* cluster.on('exit'). *)
HandleExit(w) ==
  /\ master = "running"
  /\ w \in known \ Live
  /\ IF Replaces
     THEN /\ forks < MaxForks
          /\ forks' = forks + 1
          /\ known' = (known \ {w}) \cup {forks + 1}
     ELSE known' = known \ {w} /\ UNCHANGED forks
  /\ UNCHANGED <<state, closing, master, pending, toMaster, sent>>

(* process.on(signal): every worker in cluster.workers is killed with it. *)
SentToServing(w) == IF w \in known /\ state[w] = "serving" THEN 1 ELSE 0
SentTo(w) == IF w \in known THEN 1 ELSE 0

HandleSignal ==
  /\ master = "running" /\ toMaster > 0
  /\ toMaster' = toMaster - 1
  /\ closing' = TRUE
  /\ pending' = [w \in Ids |-> pending[w] + SentTo(w)]
  /\ UNCHANGED <<forks, state, known, master, sent>>

(* With no worker left nothing keeps the master's event loop alive. *)
NothingLeftOnceClosing == closing
NothingLeft == known = {}

MasterExits ==
  /\ master = "running" /\ NothingLeft
  /\ master' = "exited"
  /\ UNCHANGED <<forks, state, known, closing, pending, toMaster, sent>>

Worker(w) == Boot(w) \/ WorkerGetsSignal(w) \/ WorkerExits(w)

ClusterNext ==
  \/ SignalGroup \/ SignalMaster \/ HandleSignal \/ MasterExits
  \/ \E w \in Ids : HandleExit(w) \/ Worker(w) \/ WorkerCrashes(w) \/ SignalWorker(w)

ClusterSpec == ClusterInit /\ [][ClusterNext]_clusterVars

(* The operating system delivers signals and exits; a worker that stops exits *)
(* (NicoShutdown), and boots if nothing stops it.                             *)
ClusterFairness ==
  /\ WF_clusterVars(HandleSignal) /\ WF_clusterVars(MasterExits)
  /\ \A w \in Ids :
       WF_clusterVars(Boot(w)) /\ WF_clusterVars(WorkerGetsSignal(w)) /\ WF_clusterVars(WorkerExits(w))
         /\ WF_clusterVars(HandleExit(w))

ClusterFairSpec == ClusterSpec /\ ClusterFairness

-----------------------------------------------------------------------------
ClusterTypeOK ==
  /\ forks \in Instances..MaxForks
  /\ state \in [Ids -> {"booting", "serving", "stopping", "dead"}]
  /\ known \subseteq 1..forks
  /\ closing \in BOOLEAN
  /\ master \in {"running", "exited"}
  /\ pending \in [Ids -> 0..2 * MaxSent]
  /\ toMaster \in 0..MaxSent
  /\ sent \in 0..MaxSent

(* Until it closes the master keeps exactly Instances workers, counting those *)
(* whose exit it has yet to hear of; it never runs more.                      *)
WorkersAreCounted ==
  /\ Live \subseteq known
  /\ Cardinality(known) <= Instances
  /\ ~closing /\ master = "running" => Cardinality(known) = Instances

(* The master leaves no worker behind.                                        *)
NoOrphans == master = "exited" => Live = {}

(* A signal to the master ends the cluster, whichever worker was booting,     *)
(* crashing or being replaced when it came.                                   *)
ClusterStops == (toMaster > 0 \/ closing) ~> (master = "exited" /\ Live = {})
=============================================================================
