-------------------------- MODULE NicoProcessProofs -------------------------
(***************************************************************************)
(* The processes of a nico application: what NicoShutdown keeps for every  *)
(* number of servers, signals and connections and every forceExitTime, and *)
(* that it implements the steps of GracefulProcess; and what NicoCluster   *)
(* keeps for every number of workers, replacements and signals.            *)
(***************************************************************************)
EXTENDS NicoShutdown, NicoCluster, SequenceTheorems, FiniteSetTheorems, TLAPS

Runs == 1..Len(shutdowns)
Run(n) == [server : 1..n, stage : Stages, failed : BOOLEAN, left : 0..ForceExitTime]

(* The steps that a handler, a connection or a timer takes, without those  *)
(* that leave the shutdowns as they are.                                   *)
Progress ==
  \/ Tick
  \/ \E s \in Servers : Closed(s)
  \/ \E i \in Runs : HandlerResolves(i) \/ HandlerRejects(i)

LEMMA Steps ==
  ASSUME [Next]_vars
  PROVE  \/ Start \/ Signal \/ Progress \/ UNCHANGED vars
         \/ \E s \in Servers : Connect(s) \/ Disconnect(s)
         \/ \E i \in Runs : ForceExit(i)
BY DEF Next, Timers, Progress, Runs

-----------------------------------------------------------------------------
(* Type correctness.                                                       *)

LEMMA TypeInit == Init => TypeOK
BY ShutdownAssumption DEF Init, TypeOK, Servers

(* What a signal adds, and where it stands.                                *)
LEMMA AddedBySignal ==
  ASSUME TypeOK, Signal
  PROVE  /\ shutdowns' \in Seq(Run(servers))
         /\ Len(shutdowns') = Len(shutdowns) + servers
         /\ \A i \in Runs : shutdowns'[i] = shutdowns[i]
         /\ \A s \in 1..servers : shutdowns'[Len(shutdowns) + s] = ShutdownOf(s)
<1> DEFINE new == [s \in 1..servers |-> ShutdownOf(s)]
<1>1. servers \in Nat /\ shutdowns \in Seq(Run(servers))
  BY DEF TypeOK, Run
<1>2. \A s \in 1..servers : ShutdownOf(s) \in Run(servers)
  BY ShutdownAssumption DEF ShutdownOf, Run, Stages, CloseFails
<1>3. new \in Seq(Run(servers)) /\ Len(new) = servers
  BY <1>1, <1>2
<1>4. shutdowns' = shutdowns \o new
  BY DEF Signal, Kept
<1> HIDE DEF new
<1>5. /\ shutdowns' \in Seq(Run(servers))
      /\ Len(shutdowns') = Len(shutdowns) + servers
      /\ \A i \in 1..Len(shutdowns) + servers : shutdowns'[i] =
           IF i <= Len(shutdowns) THEN shutdowns[i] ELSE new[i - Len(shutdowns)]
  BY <1>1, <1>3, <1>4, ConcatProperties
<1>6. Len(shutdowns) \in Nat
  BY <1>1
<1>7. \A i \in Runs : shutdowns'[i] = shutdowns[i]
  BY <1>1, <1>5, <1>6 DEF Runs
<1>8. \A s \in 1..servers : shutdowns'[Len(shutdowns) + s] = new[s]
  BY <1>1, <1>5, <1>6
<1> QED BY <1>5, <1>7, <1>8 DEF new

LEMMA RunType ==
  ASSUME TypeOK
  PROVE  /\ shutdowns \in Seq(Run(servers)) /\ Len(shutdowns) \in Nat
         /\ \A i \in Runs : shutdowns[i] \in Run(servers)
<1>1. shutdowns \in Seq(Run(servers))
  BY DEF TypeOK, Run
<1> QED BY <1>1, ElementOfSeq, LenProperties DEF Runs

(* Whatever moves a shutdown on leaves its server and how it was closed.   *)
LEMMA MovedByProgress ==
  ASSUME TypeOK, Progress
  PROVE  /\ shutdowns' \in Seq(Run(servers))
         /\ Len(shutdowns') = Len(shutdowns)
         /\ \A i \in Runs : /\ shutdowns'[i].server = shutdowns[i].server
                            /\ shutdowns'[i].failed = shutdowns[i].failed
         /\ UNCHANGED <<servers, listening, conns, signals>>
<1>1. shutdowns \in Seq(Run(servers)) /\ Len(shutdowns) \in Nat
      /\ \A i \in Runs : shutdowns[i] \in Run(servers)
  BY RunType
<1>2. CASE Tick
  <2>1. shutdowns' = [i \in Runs |-> [shutdowns[i] EXCEPT !.left = @ - 1]]
    BY <1>2 DEF Tick, Runs
  <2>2. \A i \in Runs : shutdowns[i].left # 0
    BY <1>2 DEF Tick, ForcesExit, Runs
  <2>3. \A i \in Runs : [shutdowns[i] EXCEPT !.left = @ - 1] \in Run(servers)
    <3> TAKE i \in Runs
    <3>1. shutdowns[i].left \in 0..ForceExitTime /\ shutdowns[i].left # 0
      BY <1>1, <2>2 DEF Run
    <3>2. shutdowns[i].left - 1 \in 0..ForceExitTime
      BY <3>1, ShutdownAssumption
    <3> QED BY <1>1, <3>2 DEF Run
  <2>4. shutdowns' \in Seq(Run(servers)) /\ Len(shutdowns') = Len(shutdowns)
    BY <1>1, <2>1, <2>3 DEF Runs
  <2> QED BY <1>1, <1>2, <2>1, <2>4 DEF Tick, Run
<1>3. ASSUME NEW s \in Servers, Closed(s)
      PROVE  /\ shutdowns' \in Seq(Run(servers)) /\ Len(shutdowns') = Len(shutdowns)
             /\ \A i \in Runs : /\ shutdowns'[i].server = shutdowns[i].server
                                /\ shutdowns'[i].failed = shutdowns[i].failed
  <2>1. shutdowns' = [i \in Runs |->
                       IF i \in Closing(s) THEN [shutdowns[i] EXCEPT !.stage = "handler"]
                                           ELSE shutdowns[i]]
    BY <1>3 DEF Closed, Runs
  <2>2. \A i \in Runs : [shutdowns[i] EXCEPT !.stage = "handler"] \in Run(servers)
    BY <1>1 DEF Run, Stages
  <2>3. \A i \in Runs : shutdowns'[i] \in Run(servers)
    BY <1>1, <2>1, <2>2
  <2>4. shutdowns' \in Seq(Run(servers)) /\ Len(shutdowns') = Len(shutdowns)
    BY <1>1, <2>1, <2>2 DEF Runs
  <2> QED BY <1>1, <2>1, <2>4 DEF Run
<1>4. ASSUME NEW i \in Runs, HandlerResolves(i) \/ HandlerRejects(i)
      PROVE  /\ shutdowns' \in Seq(Run(servers)) /\ Len(shutdowns') = Len(shutdowns)
             /\ \A j \in Runs : /\ shutdowns'[j].server = shutdowns[j].server
                                /\ shutdowns'[j].failed = shutdowns[j].failed
  <2>1. PICK stage \in Stages : shutdowns' = [shutdowns EXCEPT ![i].stage = stage]
    BY <1>4 DEF HandlerResolves, HandlerRejects, Stages
  <2>2. [shutdowns[i] EXCEPT !.stage = stage] \in Run(servers)
    BY <1>1 DEF Run
  <2>3. shutdowns' \in Seq(Run(servers)) /\ Len(shutdowns') = Len(shutdowns)
    BY <1>1, <2>1, <2>2 DEF Runs
  <2> QED BY <1>1, <2>1, <2>3 DEF Run, Runs
<1>5. UNCHANGED <<servers, listening, conns, signals>>
  BY DEF Progress, Tick, Closed, HandlerResolves, HandlerRejects
<1> QED BY <1>2, <1>3, <1>4, <1>5 DEF Progress

LEMMA TypeNext == TypeOK /\ [Next]_vars => TypeOK'
<1> SUFFICES ASSUME TypeOK, [Next]_vars PROVE TypeOK'
  OBVIOUS
<1>1. CASE Start
  <2>1. servers' \in 0..MaxStarts /\ listening' \subseteq 1..servers'
    BY <1>1, ShutdownAssumption DEF Start, TypeOK
  <2>2. Run(servers) \subseteq Run(servers')
    BY <1>1, ShutdownAssumption DEF Start, TypeOK, Run
  <2>3. shutdowns \in Seq(Run(servers'))
    BY <2>2, SeqMonotonic DEF TypeOK, Run
  <2> QED BY <1>1, <2>1, <2>3 DEF Start, TypeOK, Run
<1>2. CASE Signal
  <2>1. signals' \in 0..MaxSignals /\ listening' = {}
    BY <1>2, ShutdownAssumption DEF Signal, TypeOK
  <2> QED BY <1>2, <2>1, AddedBySignal DEF Signal, TypeOK, Run
<1>3. CASE Progress
  <2>1. exitCode' \in {"none", "0", "1"}
    BY <1>3 DEF Progress, Tick, Closed, HandlerResolves, HandlerRejects, CodeOf, TypeOK
  <2>2. age' \in 0..ForceExitTime + 1
    BY <1>3, ShutdownAssumption DEF Progress, Tick, Closed, HandlerResolves, HandlerRejects, TypeOK
  <2> QED BY <1>3, <2>1, <2>2, MovedByProgress DEF TypeOK, Run
<1>4. ASSUME NEW s \in Servers, Connect(s) \/ Disconnect(s) PROVE TypeOK'
  <2>1. conns' \in [Servers -> 0..MaxConnections]
    <3>1. PICK n \in 0..MaxConnections : conns' = [conns EXCEPT ![s] = n]
      <4>1. CASE Connect(s)
        <5>1. conns[s] + 1 \in 0..MaxConnections
          BY <4>1, ShutdownAssumption DEF Connect, TypeOK
        <5> QED BY <4>1, <5>1 DEF Connect
      <4>2. CASE Disconnect(s)
        <5>1. conns[s] - 1 \in 0..MaxConnections
          BY <4>2, ShutdownAssumption DEF Disconnect, TypeOK
        <5> QED BY <4>2, <5>1 DEF Disconnect
      <4> QED BY <1>4, <4>1, <4>2
    <3> QED BY <3>1 DEF TypeOK
  <2>2. UNCHANGED <<servers, listening, signals, shutdowns, exitCode, age>>
    BY <1>4 DEF Connect, Disconnect
  <2> QED BY <2>1, <2>2 DEF TypeOK
<1>5. ASSUME NEW i \in Runs, ForceExit(i) PROVE TypeOK'
  BY <1>5 DEF ForceExit, TypeOK
<1>6. CASE UNCHANGED vars
  BY <1>6 DEF vars, TypeOK
<1> QED BY <1>1, <1>2, <1>3, <1>4, <1>5, <1>6, Steps

(* Servers, connections, shutdowns and timers keep their types: no timer of *)
(* a signal listener counts below zero, no listener runs for a server that  *)
(* was not created (createServer).                                          *)
THEOREM TypeCorrect == Spec => []TypeOK
<1> QED BY TypeInit, TypeNext, PTL DEF Spec

-----------------------------------------------------------------------------
(* Time.                                                                   *)

(* The timer of the first shutdown and the time since the first signal add *)
(* up to forceExitTime: no later signal sets it again.                     *)
Timed ==
  IF signals = 0
  THEN shutdowns = <<>> /\ age = 0
  ELSE Len(shutdowns) > 0 /\ shutdowns[1].left + age = ForceExitTime

LEMMA TimedInit == Init => Timed
BY DEF Init, Timed

LEMMA TimedNext == TypeOK /\ Timed /\ [Next]_vars => Timed'
<1> SUFFICES ASSUME TypeOK, Timed, [Next]_vars PROVE Timed'
  OBVIOUS
<1>1. CASE Signal
  <2>1. signals' > 0 /\ signals \in Nat /\ servers \in Nat /\ servers > 0 /\ age' = age
    BY <1>1 DEF Signal, TypeOK
  <2>2. shutdowns \in Seq(Run(servers)) /\ Len(shutdowns) \in Nat
    BY DEF TypeOK, Run
  <2>3. Len(shutdowns') = Len(shutdowns) + servers
    BY <1>1, AddedBySignal
  <2>4. CASE signals = 0
    <3>1. Len(shutdowns) = 0 /\ age = 0
      BY <2>4 DEF Timed
    <3>2. shutdowns'[Len(shutdowns) + 1] = ShutdownOf(1)
      BY <1>1, <2>1, AddedBySignal
    <3>3. shutdowns'[1].left = ForceExitTime
      BY <3>1, <3>2 DEF ShutdownOf
    <3> QED BY <2>1, <2>3, <3>1, <3>3, ShutdownAssumption DEF Timed
  <2>5. CASE signals # 0
    <3>1. 1 \in Runs
      BY <2>2, <2>5 DEF Timed, Runs
    <3>2. shutdowns'[1] = shutdowns[1]
      BY <1>1, <3>1, AddedBySignal
    <3> QED BY <2>1, <2>2, <2>3, <2>5, <3>2 DEF Timed
  <2> QED BY <2>4, <2>5
<1>2. CASE Tick
  <2>1. 1 \in Runs /\ shutdowns[1].left + age = ForceExitTime /\ Len(shutdowns) > 0
    BY <1>2 DEF Tick, Timed, TypeOK, Runs
  <2>2. shutdowns[1] \in Run(servers) /\ age \in Nat
    BY <2>1, RunType DEF TypeOK
  <2>3. shutdowns'[1].left = shutdowns[1].left - 1
    BY <1>2, <2>1, <2>2 DEF Tick, Runs, Run
  <2>4. Len(shutdowns') = Len(shutdowns) /\ signals' = signals /\ signals # 0
    BY <1>2, MovedByProgress DEF Progress, Tick, TypeOK
  <2>5. shutdowns[1].left \in Nat
    BY <2>2 DEF Run
  <2> QED BY <1>2, <2>1, <2>2, <2>3, <2>4, <2>5, ShutdownAssumption DEF Timed, Tick
<1>3. ASSUME NEW s \in Servers, Closed(s) PROVE Timed'
  <2>1. Len(shutdowns') = Len(shutdowns) /\ UNCHANGED <<signals, age>>
    BY <1>3, MovedByProgress DEF Progress, Closed
  <2>2. 1 \in Runs /\ signals # 0
    BY <1>3 DEF Closed, Closing, Timed, Runs
  <2>3. shutdowns[1] \in Run(servers)
    BY <2>2, RunType
  <2>4. shutdowns'[1].left = shutdowns[1].left
    BY <1>3, <2>2, <2>3 DEF Closed, Runs, Run
  <2> QED BY <2>1, <2>2, <2>4 DEF Timed
<1>4. ASSUME NEW i \in Runs, HandlerResolves(i) \/ HandlerRejects(i) PROVE Timed'
  <2>1. Len(shutdowns') = Len(shutdowns) /\ UNCHANGED <<signals, age>>
    BY <1>4, MovedByProgress DEF Progress, HandlerResolves, HandlerRejects
  <2>2. 1 \in Runs /\ signals # 0
    BY <1>4 DEF Timed, Runs
  <2>3. shutdowns[1] \in Run(servers) /\ shutdowns[i] \in Run(servers)
    BY <1>4, <2>2, RunType
  <2>4. PICK stage \in Stages : shutdowns' = [shutdowns EXCEPT ![i].stage = stage]
    BY <1>4 DEF HandlerResolves, HandlerRejects, Stages
  <2>5. shutdowns'[1].left = shutdowns[1].left
    BY <2>2, <2>3, <2>4 DEF Run, Runs
  <2> QED BY <2>1, <2>2, <2>5 DEF Timed
<1>5. CASE UNCHANGED <<signals, shutdowns, age>>
  BY <1>5 DEF Timed
<1> QED
  BY <1>1, <1>2, <1>3, <1>4, <1>5, Steps DEF Progress, Start, Connect, Disconnect, ForceExit, vars

LEMMA TimedAlways == Spec => [](TypeOK /\ Timed)
<1>1. Spec => []Timed
  BY TimedInit, TimedNext, TypeCorrect, PTL DEF Spec
<1> QED BY <1>1, TypeCorrect, PTL

(* Whatever signals, connections and handlers do, a process that runs is    *)
(* not past forceExitTime since its first signal (createServer).            *)
THEOREM ExitComesInTime == Spec => []ExitsInTime
<1>1. TypeOK /\ Timed => ExitsInTime
  <2> SUFFICES ASSUME TypeOK, Timed PROVE age <= ForceExitTime
    BY DEF ExitsInTime
  <2>1. CASE signals = 0
    BY <2>1, ShutdownAssumption DEF Timed
  <2>2. CASE signals # 0
    <3>1. shutdowns[1] \in Run(servers)
      BY <2>2, RunType DEF Timed, Runs
    <3>2. shutdowns[1].left \in Nat /\ age \in Nat
      BY <3>1 DEF Run, TypeOK
    <3> QED BY <2>2, <3>2, ShutdownAssumption DEF Timed
  <2> QED BY <2>1, <2>2
<1> QED BY <1>1, TimedAlways, PTL

-----------------------------------------------------------------------------
(* Closing.                                                                *)

(* A server that was closed listens no more, so that closing it again      *)
(* fails; one whose callbacks were called has no connection, and gets no   *)
(* new one; one not yet created has none either.                           *)
Drained ==
  /\ \A i \in Runs : shutdowns[i].server \notin listening
  /\ \A i \in Runs : shutdowns[i].stage # "closing" => conns[shutdowns[i].server] = 0
  /\ \A i, j \in Runs :
       /\ shutdowns[i].server = shutdowns[j].server
       /\ ~shutdowns[i].failed /\ ~shutdowns[j].failed
       => i = j
  /\ \A s \in Servers : s > servers => conns[s] = 0

LEMMA DrainedInit == Init => Drained
BY DEF Init, Drained, Runs

LEMMA SignalDrained ==
  ASSUME TypeOK, Drained, Signal
  PROVE  Drained'
<1>1. /\ Len(shutdowns) \in Nat /\ servers \in Nat
      /\ \A i \in Runs : shutdowns[i] \in Run(servers)
  BY RunType DEF TypeOK
<1>2. /\ Len(shutdowns') = Len(shutdowns) + servers
      /\ \A i \in Runs : shutdowns'[i] = shutdowns[i]
      /\ \A s \in 1..servers : shutdowns'[Len(shutdowns) + s] = ShutdownOf(s)
  BY AddedBySignal
<1>3. ASSUME NEW i \in Runs' \ Runs
      PROVE  /\ i - Len(shutdowns) \in 1..servers
             /\ shutdowns'[i].server = i - Len(shutdowns)
             /\ shutdowns'[i].stage = "closing"
             /\ ~shutdowns'[i].failed => shutdowns'[i].server \in listening
  <2>1. PICK s \in 1..servers : i = Len(shutdowns) + s
    BY <1>1, <1>2, <1>3 DEF Runs
  <2>2. shutdowns'[i] = ShutdownOf(s)
    BY <1>2, <2>1
  <2>3. ShutdownOf(s).failed = CloseFails(s)
    BY Zenon DEF ShutdownOf
  <2>4. ShutdownOf(s).server = s /\ ShutdownOf(s).stage = "closing"
    BY DEF ShutdownOf
  <2>5. ~shutdowns'[i].failed => s \in listening
    BY <2>2, <2>3 DEF CloseFails
  <2>6. i - Len(shutdowns) = s
    BY <1>1, <2>1
  <2> QED BY <2>2, <2>4, <2>5, <2>6
<1>4. listening' = {} /\ UNCHANGED <<conns, servers>>
  BY DEF Signal
<1>5. \A i \in Runs' : shutdowns'[i].stage # "closing" => conns'[shutdowns'[i].server] = 0
  BY <1>2, <1>3, <1>4 DEF Drained
<1>6. ASSUME NEW i \in Runs', NEW j \in Runs',
             shutdowns'[i].server = shutdowns'[j].server,
             ~shutdowns'[i].failed, ~shutdowns'[j].failed
      PROVE  i = j
  <2>1. CASE i \in Runs /\ j \in Runs
    BY <1>2, <1>6, <2>1 DEF Drained
  <2>2. CASE i \notin Runs /\ j \notin Runs
    <3>1. i - Len(shutdowns) = j - Len(shutdowns)
      BY <1>3, <1>6, <2>2
    <3> QED BY <1>1, <3>1 DEF Runs
  <2>3. ASSUME NEW k \in Runs, NEW l \in Runs' \ Runs,
               shutdowns'[k].server = shutdowns'[l].server, ~shutdowns'[l].failed
        PROVE  FALSE
    <3>1. shutdowns'[l].server \in listening
      BY <1>3, <2>3
    <3>2. shutdowns'[k].server \notin listening
      BY <1>2, <2>3 DEF Drained
    <3> QED BY <2>3, <3>1, <3>2
  <2> QED BY <1>6, <2>1, <2>2, <2>3
<1> QED BY <1>4, <1>5, <1>6 DEF Drained

LEMMA ProgressDrained ==
  ASSUME TypeOK, Drained, Progress
  PROVE  Drained'
<1>1. /\ Runs' = Runs /\ UNCHANGED <<servers, listening, conns>>
      /\ \A i \in Runs : /\ shutdowns'[i].server = shutdowns[i].server
                         /\ shutdowns'[i].failed = shutdowns[i].failed
  BY MovedByProgress DEF Runs
<1>2. \A i \in Runs : shutdowns[i] \in Run(servers)
  BY RunType
<1>3. ASSUME NEW i \in Runs, shutdowns'[i].stage # "closing"
      PROVE  conns[shutdowns[i].server] = 0
  <2>1. CASE shutdowns[i].stage # "closing"
    BY <2>1 DEF Drained
  <2>2. CASE shutdowns[i].stage = "closing"
    <3>1. CASE Tick
      BY <1>2, <1>3, <2>2, <3>1 DEF Tick, Runs, Run
    <3>2. ASSUME NEW s \in Servers, Closed(s) PROVE conns[shutdowns[i].server] = 0
      BY <1>2, <1>3, <2>2, <3>2 DEF Closed, Closing, MayClose, Runs, Run
    <3>3. ASSUME NEW j \in Runs, HandlerResolves(j) \/ HandlerRejects(j) PROVE FALSE
      <4>1. PICK stage : shutdowns' = [shutdowns EXCEPT ![j].stage = stage]
        BY <3>3 DEF HandlerResolves, HandlerRejects
      <4>2. i # j
        BY <2>2, <3>3 DEF HandlerResolves, HandlerRejects
      <4>3. shutdowns'[i] = shutdowns[i]
        BY <4>1, <4>2, RunType DEF Runs
      <4> QED BY <1>3, <2>2, <4>3
    <3> QED BY <3>1, <3>2, <3>3 DEF Progress
  <2> QED BY <2>1, <2>2
<1> QED BY <1>1, <1>3 DEF Drained

LEMMA DrainedNext == TypeOK /\ Drained /\ [Next]_vars => Drained'
<1> SUFFICES ASSUME TypeOK, Drained, [Next]_vars PROVE Drained'
  OBVIOUS
<1>1. CASE Start
  <2>1. \A i \in Runs : shutdowns[i].server \in 1..servers
    BY RunType DEF Run
  <2>2. servers \in Nat /\ servers' = servers + 1 /\ UNCHANGED <<conns, shutdowns>>
        /\ listening' \subseteq listening \cup {servers + 1}
    BY <1>1 DEF Start, TypeOK
  <2>3. \A i \in Runs : shutdowns[i].server \notin listening'
    BY <2>1, <2>2 DEF Drained
  <2>4. \A s \in Servers : s > servers' => conns'[s] = 0
    BY <2>2 DEF Drained, Servers
  <2> QED BY <2>2, <2>3, <2>4 DEF Drained, Runs
<1>2. CASE Signal
  BY <1>2, SignalDrained
<1>3. CASE Progress
  BY <1>3, ProgressDrained
<1>4. ASSUME NEW s \in Servers, Connect(s) PROVE Drained'
  <2>1. s \in listening /\ UNCHANGED <<servers, listening, shutdowns>>
        /\ \A v \in Servers : v # s => conns'[v] = conns[v]
    BY <1>4 DEF Connect, TypeOK
  <2>2. \A i \in Runs : shutdowns[i].server \in Servers /\ shutdowns[i].server # s
    <3>1. \A i \in Runs : shutdowns[i].server \in 1..servers
      BY RunType DEF Run
    <3>2. 1..servers \subseteq Servers
      BY ShutdownAssumption DEF Servers, TypeOK
    <3> QED BY <2>1, <3>1, <3>2 DEF Drained
  <2>3. s <= servers
    BY <2>1 DEF TypeOK
  <2>4. \A v \in Servers : v > servers => conns'[v] = 0
    BY <2>1, <2>3 DEF Drained, TypeOK, Servers
  <2> QED BY <2>1, <2>2, <2>4 DEF Drained, Runs
<1>5. ASSUME NEW s \in Servers, Disconnect(s) PROVE Drained'
  <2>1. conns[s] > 0 /\ UNCHANGED <<servers, listening, shutdowns>>
        /\ \A v \in Servers : v # s => conns'[v] = conns[v]
    BY <1>5 DEF Disconnect, TypeOK
  <2>2. \A i \in Runs : shutdowns[i].server \in Servers
    BY RunType, ShutdownAssumption DEF Run, Servers, TypeOK
  <2>3. \A v \in Servers : conns[v] = 0 => conns'[v] = 0
    BY <2>1
  <2> QED BY <2>1, <2>2, <2>3 DEF Drained, Runs
<1>6. CASE UNCHANGED <<servers, listening, conns, shutdowns>>
  BY <1>6 DEF Drained, Runs
<1> QED BY <1>1, <1>2, <1>3, <1>4, <1>5, <1>6, Steps DEF ForceExit, vars

LEMMA DrainedAlways == Spec => [](TypeOK /\ Drained)
<1>1. Spec => []Drained
  BY DrainedInit, DrainedNext, TypeCorrect, PTL DEF Spec
<1> QED BY <1>1, TypeCorrect, PTL

(* The user's handler for a server never runs while the server accepts or   *)
(* serves a connection, however many signals came (createServer).           *)
THEOREM HandlersAreDrained == Spec => []HandlersRunDrained
<1>1. Drained => HandlersRunDrained
  BY DEF Drained, HandlersRunDrained, Runs
<1> QED BY <1>1, DrainedAlways, PTL

(* The handler of a server is told once at most, and only by the shutdown   *)
(* that closed it, that the server closed without an error.                 *)
THEOREM CleanCloseIsOnce == Spec => []OneCleanClosePerServer
<1>1. Drained => OneCleanClosePerServer
  BY DEF Drained, OneCleanClosePerServer, Runs
<1> QED BY <1>1, DrainedAlways, PTL

-----------------------------------------------------------------------------
(* The exit.                                                               *)

(* A process that has exited takes no step.                                *)
LEMMA ExitIsFinal == [Next]_vars /\ ~Running => UNCHANGED vars
BY DEF Next, Timers, Start, Signal, Connect, Disconnect, Closed, HandlerResolves,
       HandlerRejects, ForceExit, Tick

(* While it runs it sets exit code 0 in one way only.                       *)
LEMMA CleanNext ==
  TypeOK /\ Drained /\ CleanExitIsComplete /\ [Next]_vars => CleanExitIsComplete'
<1> SUFFICES ASSUME TypeOK, Drained, CleanExitIsComplete, [Next]_vars, exitCode' = "0"
             PROVE  /\ \E i \in Runs' : shutdowns'[i].stage = "finished" /\ ~shutdowns'[i].failed
                    /\ servers' = 1 => \A s \in Servers : conns'[s] = 0
  BY DEF CleanExitIsComplete, Runs
<1>1. CASE ~Running
  BY <1>1, ExitIsFinal DEF CleanExitIsComplete, vars, Runs
<1>2. CASE Running
  <2>1. PICK i \in Runs : HandlerResolves(i)
    BY <1>2, Steps DEF Running, Start, Signal, Progress, Tick, Closed, HandlerRejects, Connect,
                       Disconnect, ForceExit, vars
  <2>2. ~shutdowns[i].failed
    BY <2>1 DEF HandlerResolves, CodeOf
  <2>3. /\ Len(shutdowns') = Len(shutdowns) /\ UNCHANGED <<servers, conns>>
        /\ shutdowns'[i].failed = shutdowns[i].failed
    BY <2>1, MovedByProgress DEF Progress
  <2>4. shutdowns[i] \in Run(servers) /\ shutdowns[i].stage = "handler"
    BY <2>1, RunType DEF HandlerResolves
  <2>5. shutdowns'[i].stage = "finished"
    BY <2>1, <2>4, RunType DEF HandlerResolves, Run, Runs
  <2>6. ASSUME servers = 1, NEW s \in Servers PROVE conns[s] = 0
    <3>1. shutdowns[i].server = 1 /\ conns[shutdowns[i].server] = 0
      BY <2>4, <2>6 DEF Run, Drained
    <3>2. s = 1 \/ s > servers
      BY <2>6 DEF Servers
    <3> QED BY <3>1, <3>2 DEF Drained
  <2> QED BY <2>2, <2>3, <2>5, <2>6 DEF Runs
<1> QED BY <1>1, <1>2

(* Exit code 0 means that a handler finished after a clean close, and with  *)
(* one server that no connection was cut off (createServer).                *)
THEOREM CleanExitsAreComplete == Spec => []CleanExitIsComplete
<1>1. Init => CleanExitIsComplete
  BY DEF Init, CleanExitIsComplete
<1> QED BY <1>1, CleanNext, DrainedAlways, PTL DEF Spec

(* No error event, rejection or hang ends the process before a signal, and  *)
(* it exits once: its steps are those of GracefulProcess.  (That it does    *)
(* end is checked, not proved.)                                             *)
THEOREM StepsAreGraceful ==
  Spec => Process!Init /\ [][Process!Next]_(Process!vars)
<1>1. Init => Process!Init
  BY DEF Init, Process!Init, Running
<1>2. TypeOK /\ Timed /\ [Next]_vars => [Process!Next]_(Process!vars)
  <2> SUFFICES ASSUME TypeOK, Timed, [Next]_vars PROVE [Process!Next]_(Process!vars)
    OBVIOUS
  <2> USE DEF Process!Next, Process!Stop, Process!Exit, Process!vars, Running
  <2>1. CASE ~Running
    BY <2>1, ExitIsFinal DEF vars
  <2>2. CASE Running /\ Signal
    BY <2>2 DEF Signal, TypeOK
  <2>3. ASSUME NEW i \in Runs, Running, HandlerResolves(i) \/ ForceExit(i)
        PROVE  [Process!Next]_(Process!vars)
    <3>1. signals > 0
      BY <2>3 DEF Timed, TypeOK, Runs
    <3>2. exitCode' \in {"0", "1"} /\ UNCHANGED signals
      BY <2>3 DEF HandlerResolves, CodeOf, ForceExit
    <3> QED BY <2>3, <3>1, <3>2
  <2>4. CASE UNCHANGED <<exitCode, signals>>
    BY <2>4
  <2> QED
    BY <2>1, <2>2, <2>3, <2>4, Steps DEF Start, Progress, Tick, Closed, HandlerRejects, Connect,
                                         Disconnect, vars
<1> QED BY <1>1, <1>2, TimedAlways, PTL DEF Spec

-----------------------------------------------------------------------------
(* Type correctness.                                                       *)

(* A process gets a signal of the outside directly, and once more through  *)
(* the master.                                                             *)
Passed == toMaster <= sent /\ \A w \in Ids : pending[w] + toMaster <= 2 * sent

Typed == ClusterTypeOK /\ Passed

LEMMA ClusterTypeInit == ClusterInit => Typed
<1> SUFFICES ASSUME ClusterInit PROVE Typed
  OBVIOUS
<1>1. forks \in Instances..MaxForks /\ known \subseteq 1..forks
  BY ClusterAssumption DEF ClusterInit
<1>2. \A w \in Ids : pending[w] = 0
  BY DEF ClusterInit
<1>3. 0 \in 0..2 * MaxSent /\ toMaster \in 0..MaxSent /\ sent \in 0..MaxSent
  BY ClusterAssumption DEF ClusterInit
<1>4. Passed
  BY <1>2 DEF ClusterInit, Passed
<1> QED BY <1>1, <1>3, <1>4 DEF ClusterInit, Typed, ClusterTypeOK

LEMMA ClusterTypeNext == Typed /\ [ClusterNext]_clusterVars => Typed'
<1> SUFFICES ASSUME Typed, [ClusterNext]_clusterVars PROVE Typed'
  OBVIOUS
<1> USE ClusterAssumption DEF Typed, ClusterTypeOK, Passed
<1>1. CASE SignalGroup
  <2>1. \A w \in Ids : pending'[w] \in Nat /\ pending'[w] <= pending[w] + 1
    BY <1>1 DEF SignalGroup
  <2>2. Passed'
    BY <1>1, <2>1 DEF SignalGroup
  <2>3. pending' = [w \in Ids |-> pending'[w]] /\ \A w \in Ids : pending'[w] \in 0..2 * MaxSent
    BY <1>1, <2>1, <2>2 DEF SignalGroup
  <2> QED BY <1>1, <2>2, <2>3 DEF SignalGroup
<1>2. CASE SignalMaster
  BY <1>2 DEF SignalMaster
<1>3. CASE HandleSignal
  <2>1. \A w \in Ids : pending'[w] \in Nat /\ pending'[w] <= pending[w] + 1
    BY <1>3 DEF HandleSignal, SentTo
  <2>2. Passed'
    BY <1>3, <2>1 DEF HandleSignal
  <2>3. pending' = [w \in Ids |-> pending'[w]] /\ \A w \in Ids : pending'[w] \in 0..2 * MaxSent
    BY <1>3, <2>1, <2>2 DEF HandleSignal
  <2> QED BY <1>3, <2>2, <2>3 DEF HandleSignal
<1>4. CASE MasterExits
  BY <1>4 DEF MasterExits
<1>5. ASSUME NEW w \in Ids, HandleExit(w) PROVE Typed'
  <2>1. UNCHANGED <<state, closing, master, pending, toMaster, sent>>
    BY <1>5 DEF HandleExit
  <2>2. forks' \in Instances..MaxForks /\ known' \subseteq 1..forks'
    <3>1. CASE Replaces
      <4>1. forks < MaxForks /\ forks' = forks + 1 /\ known' = (known \ {w}) \cup {forks + 1}
        BY <1>5, <3>1 DEF HandleExit
      <4>2. forks \in Nat /\ forks + 1 \in Instances..MaxForks
        BY <4>1
      <4>3. known \subseteq 1..(forks + 1) /\ forks + 1 \in 1..(forks + 1)
        BY <4>2
      <4> QED BY <4>1, <4>2, <4>3
    <3>2. CASE ~Replaces
      <4>1. forks' = forks /\ known' = known \ {w}
        BY <1>5, <3>2 DEF HandleExit
      <4> QED BY <4>1
    <3> QED BY <3>1, <3>2
  <2> QED BY <2>1, <2>2
<1>6. ASSUME NEW w \in Ids, Worker(w) PROVE Typed'
  <2>1. CASE Boot(w)
    BY <2>1 DEF Boot
  <2>2. CASE WorkerGetsSignal(w)
    BY <2>2 DEF WorkerGetsSignal, OnSignal
  <2>3. CASE WorkerExits(w)
    BY <2>3 DEF WorkerExits
  <2> QED BY <1>6, <2>1, <2>2, <2>3 DEF Worker
<1>7. ASSUME NEW w \in Ids, WorkerCrashes(w) PROVE Typed'
  BY <1>7 DEF WorkerCrashes
<1>8. ASSUME NEW w \in Ids, SignalWorker(w) PROVE Typed'
  BY <1>8 DEF SignalWorker
<1>9. CASE UNCHANGED clusterVars
  BY <1>9 DEF clusterVars
<1> QED BY <1>1, <1>2, <1>3, <1>4, <1>5, <1>6, <1>7, <1>8, <1>9 DEF ClusterNext

LEMMA TypedAlways == ClusterSpec => []Typed
BY ClusterTypeInit, ClusterTypeNext, PTL DEF ClusterSpec

(* Every variable of the cluster keeps its type; no worker ever has more    *)
(* signals on their way than twice those sent (startCluster).               *)
THEOREM ClusterTypeCorrect == ClusterSpec => []ClusterTypeOK
<1>1. Typed => ClusterTypeOK
  BY DEF Typed
<1> QED BY <1>1, TypedAlways, PTL

-----------------------------------------------------------------------------
(* The workers the master counts.                                          *)

(* Whoever lives is known, an id not yet forked is as a fork will find it, *)
(* and a master that exited had no worker left.                            *)
Counted ==
  /\ \A w \in Ids : w > forks => state[w] = "booting"
  /\ Live \subseteq known
  /\ Cardinality(known) <= Instances
  /\ ~closing /\ master = "running" => Cardinality(known) = Instances
  /\ master = "exited" => known = {}

LEMMA KnownIsFinite == ClusterTypeOK => IsFiniteSet(known) /\ Cardinality(known) \in Nat
<1> SUFFICES ASSUME ClusterTypeOK PROVE IsFiniteSet(known) /\ Cardinality(known) \in Nat
  OBVIOUS
<1>1. IsFiniteSet(1..forks)
  BY FS_Interval, ClusterAssumption DEF ClusterTypeOK
<1>2. IsFiniteSet(known)
  BY <1>1, FS_Subset DEF ClusterTypeOK
<1> QED BY <1>2, FS_CardinalityType

LEMMA CountedInit == ClusterInit => Counted
<1> SUFFICES ASSUME ClusterInit PROVE Counted
  OBVIOUS
<1>1. Cardinality(known) = Instances
  BY FS_Interval, ClusterAssumption DEF ClusterInit
<1> QED BY <1>1, ClusterAssumption DEF ClusterInit, Counted, Live, Ids

(* A worker that dies, boots or stops changes nobody else.                 *)
LEMMA LiveShrinks ==
  ASSUME ClusterTypeOK, Counted, UNCHANGED <<forks, known, closing, master>>,
         NEW w \in Live, NEW st, state' = [state EXCEPT ![w] = st]
  PROVE  Counted'
<1>1. w <= forks /\ w \in known /\ w \in Ids
  BY ClusterAssumption DEF Counted, Live, ClusterTypeOK, Ids
<1>2. Live' \subseteq known'
  BY <1>1, ClusterAssumption DEF Live, ClusterTypeOK, Counted, Ids
<1>3. \A v \in Ids : v > forks' => state'[v] = "booting"
  BY <1>1, ClusterAssumption DEF ClusterTypeOK, Counted, Ids
<1> QED BY <1>2, <1>3 DEF Counted

LEMMA ExitIsCounted ==
  ASSUME ClusterTypeOK, Counted, NEW w \in Ids, HandleExit(w)
  PROVE  Counted'
<1>1. IsFiniteSet(known) /\ Cardinality(known) \in Nat
  BY KnownIsFinite
<1>2. IsFiniteSet(known \ {w}) /\ Cardinality(known \ {w}) = Cardinality(known) - 1
  BY <1>1, FS_RemoveElement DEF HandleExit
<1>3. CASE Replaces
  <2>1. forks + 1 \notin known \ {w} /\ forks + 1 \in Ids /\ forks' = forks + 1
    BY <1>3, ClusterAssumption DEF ClusterTypeOK, HandleExit, Ids
  <2>2. Cardinality(known') = Cardinality(known)
    BY <1>1, <1>2, <1>3, <2>1, FS_AddElement DEF HandleExit
  <2>3. Live' \subseteq Live \cup {forks + 1}
    BY <1>3, <2>1, ClusterAssumption DEF Live, HandleExit, ClusterTypeOK
  <2>4. Live' \subseteq known'
    BY <1>3, <2>3 DEF HandleExit, Counted
  <2>5. \A v \in Ids : v > forks' => state'[v] = "booting"
    BY <1>3, <2>1, ClusterAssumption DEF HandleExit, Counted, ClusterTypeOK, Ids
  <2> QED BY <1>3, <2>2, <2>4, <2>5 DEF Counted, HandleExit
<1>4. CASE ~Replaces
  <2>1. Live' \subseteq known' /\ \A v \in Ids : v > forks' => state'[v] = "booting"
    BY <1>4 DEF HandleExit, Counted, Live
  <2>2. closing' /\ Cardinality(known') <= Instances /\ master' = "running"
    BY <1>1, <1>2, <1>4, ClusterAssumption DEF HandleExit, Counted, Replaces
  <2> QED BY <2>1, <2>2 DEF Counted
<1> QED BY <1>3, <1>4

LEMMA CountedNext == ClusterTypeOK /\ Counted /\ [ClusterNext]_clusterVars => Counted'
<1> SUFFICES ASSUME ClusterTypeOK, Counted, [ClusterNext]_clusterVars PROVE Counted'
  OBVIOUS
<1>1. CASE SignalGroup \/ SignalMaster \/ UNCHANGED clusterVars
  BY <1>1 DEF SignalGroup, SignalMaster, clusterVars, Counted, Live
<1>2. CASE HandleSignal
  BY <1>2 DEF HandleSignal, Counted, Live
<1>3. CASE MasterExits
  BY <1>3 DEF MasterExits, NothingLeft, Counted, Live
<1>4. ASSUME NEW w \in Ids, HandleExit(w) PROVE Counted'
  BY <1>4, ExitIsCounted
<1>5. ASSUME NEW w \in Ids, Worker(w) \/ WorkerCrashes(w) PROVE Counted'
  <2>1. PICK st : w \in Live /\ state' = [state EXCEPT ![w] = st]
    BY <1>5 DEF Worker, Boot, WorkerGetsSignal, WorkerExits, WorkerCrashes
  <2>2. UNCHANGED <<forks, known, closing, master>>
    BY <1>5 DEF Worker, Boot, WorkerGetsSignal, WorkerExits, WorkerCrashes
  <2> QED BY <2>1, <2>2, LiveShrinks
<1>6. ASSUME NEW w \in Ids, SignalWorker(w) PROVE Counted'
  BY <1>6 DEF SignalWorker, Counted, Live
<1> QED BY <1>1, <1>2, <1>3, <1>4, <1>5, <1>6 DEF ClusterNext

LEMMA CountedAlways == ClusterSpec => [](ClusterTypeOK /\ Counted)
<1>1. ClusterSpec => []Counted
  BY CountedInit, CountedNext, ClusterTypeCorrect, PTL DEF ClusterSpec
<1> QED BY <1>1, ClusterTypeCorrect, PTL

(* Until it closes the master keeps exactly Instances workers, whichever    *)
(* crash or boot, and never runs more (startCluster's exit handler).        *)
THEOREM WorkersStayCounted == ClusterSpec => []WorkersAreCounted
<1>1. Counted => WorkersAreCounted
  BY DEF Counted, WorkersAreCounted
<1> QED BY <1>1, CountedAlways, PTL

(* The master leaves no worker behind, however many it replaced.            *)
THEOREM NobodyIsOrphaned == ClusterSpec => []NoOrphans
<1>1. Counted => NoOrphans
  BY DEF Counted, NoOrphans
<1> QED BY <1>1, CountedAlways, PTL
=============================================================================
