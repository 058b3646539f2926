--------------------------- MODULE ScanAllProofs ----------------------------
(***************************************************************************)
(* What ScanAll keeps for every finite set of keys, however many elements  *)
(* SCAN returns at once, and whatever other clients do meanwhile.          *)
(***************************************************************************)
EXTENDS ScanAll, SequenceTheorems, FiniteSetTheorems, TLAPS

Commands == {"export", "memory", "count", "list", "delete"}
Phases == {"scan", "batch", "ask", "delete", "finished", "crashed"}

(* A command under way, on an element of the batch at hand.                *)
Job == [cmd : {"type", "value", "usage"}, at : 1..Len(batch), type : Types \cup {"none"}]

TypeOK ==
  /\ command \in Commands /\ showValues \in BOOLEAN
  /\ db \in [Keys -> Types \cup {"none"}]
  /\ phase \in Phases
  /\ batch \in Seq(Keys) /\ last \in BOOLEAN
  /\ queue \in Seq(Job)
  /\ isFirstOne \in BOOLEAN /\ file \in Seq({"item", "comma"})
  /\ handled \subseteq Keys /\ stable \subseteq Keys /\ returned \subseteq Keys
  /\ bare \in BOOLEAN /\ refused \in BOOLEAN
  /\ scans \in 0..MaxScans /\ changes \in 0..MaxChanges

-----------------------------------------------------------------------------
(* Sequences.                                                              *)

(* An order of a set of keys has each of them.                             *)
LEMMA OrderOfKeys ==
  ASSUME NEW keys \in SUBSET Keys, NEW elements \in SetToSeqs(keys)
  PROVE  /\ elements \in Seq(Keys)
         /\ \A k \in keys : \E i \in 1..Len(elements) : elements[i] = k
<1> DEFINE n == Cardinality(keys)
<1>1. IsFiniteSet(keys) /\ n \in Nat
  BY ScanAssumption, FS_Subset, FS_CardinalityType
<1>2. elements \in [1..n -> keys] /\ \A i, j \in 1..n : i # j => elements[i] # elements[j]
  BY DEF SetToSeqs
<1>3. elements \in Injection(1..n, keys)
  BY <1>2 DEF Injection, IsInjective
<1>4. Cardinality(1..n) = n
  BY <1>1, FS_Interval
<1> HIDE DEF n
<1>5. Cardinality(1..n) = Cardinality(keys)
  BY <1>4 DEF n
<1>6. elements \in Surjection(1..n, keys)
  BY <1>1, <1>3, <1>5, FS_Injection
<1>7. elements \in Seq(Keys) /\ Len(elements) = n
  BY <1>1, <1>2
<1> QED BY <1>6, <1>7 DEF Surjection

(* Whoever is in a queue is at its head, or still in it behind the head.   *)
LEMMA LeftBehind ==
  ASSUME NEW S, NEW q \in Seq(S), q # <<>>, NEW i \in 1..Len(q)
  PROVE  q[i] = Head(q) \/ \E j \in 1..Len(Tail(q)) : Tail(q)[j] = q[i]
<1>1. CASE i = 1
  BY <1>1
<1>2. CASE i # 1
  <2>1. i - 1 \in 1..Len(Tail(q)) /\ Tail(q)[i - 1] = q[i]
    BY <1>2, HeadTailProperties
  <2> QED BY <2>1
<1> QED BY <1>1, <1>2

-----------------------------------------------------------------------------
(* Type correctness.                                                       *)

LEMMA TypeInit == Init => TypeOK
<1> SUFFICES ASSUME Init PROVE TypeOK
  OBVIOUS
<1>1. /\ command \in Commands /\ showValues \in BOOLEAN
      /\ db \in [Keys -> Types \cup {"none"}] /\ phase \in Phases /\ last \in BOOLEAN
      /\ isFirstOne \in BOOLEAN /\ bare \in BOOLEAN /\ refused \in BOOLEAN
  BY DEF Init, Commands, Phases
<1>2. batch \in Seq(Keys) /\ queue \in Seq(Job) /\ file \in Seq({"item", "comma"})
  BY DEF Init
<1>3. handled \subseteq Keys /\ stable \subseteq Keys /\ returned \subseteq Keys
  BY DEF Init
<1>4. scans \in 0..MaxScans /\ changes \in 0..MaxChanges
  BY ScanAssumption DEF Init
<1> QED BY <1>1, <1>2, <1>3, <1>4 DEF TypeOK

LEMMA HeadType ==
  ASSUME TypeOK, queue # <<>>
  PROVE  /\ Head(queue) \in Job /\ Tail(queue) \in Seq(Job)
         /\ Head(queue).at \in 1..Len(batch)
         /\ batch[Head(queue).at] \in Keys
<1>1. Head(queue) \in Job /\ Tail(queue) \in Seq(Job)
  BY HeadTailProperties DEF TypeOK
<1>2. Head(queue).at \in 1..Len(batch)
  BY <1>1 DEF Job
<1> QED BY <1>1, <1>2 DEF TypeOK

LEMMA ShowType ==
  ASSUME TypeOK, NEW i \in 1..Len(batch), Show(i)
  PROVE  /\ file' \in Seq({"item", "comma"}) /\ isFirstOne' \in BOOLEAN
         /\ handled' \subseteq Keys /\ handled \subseteq handled'
         /\ command # "delete" => batch[i] \in handled'
<1>1. batch[i] \in Keys
  BY DEF TypeOK
<1>2. <<"comma", "item">> \in Seq({"item", "comma"}) /\ <<"item">> \in Seq({"item", "comma"})
  OBVIOUS
<1>3. \A tail \in Seq({"item", "comma"}) : file \o tail \in Seq({"item", "comma"})
  BY DEF TypeOK
<1>4. file' = file \/ \E tail \in {<<"comma", "item">>, <<"item">>} : file' = file \o tail
  BY DEF Show
<1>5. file' \in Seq({"item", "comma"})
  BY <1>2, <1>3, <1>4 DEF TypeOK
<1> QED BY <1>1, <1>5 DEF Show, TypeOK

LEMMA ScanMakes ==
  ASSUME TypeOK, Scan
  PROVE  \E keys \in SUBSET Keys :
           /\ returned' = returned \cup keys
           /\ batch' \in Seq(Keys) /\ \A k \in keys : \E i \in 1..Len(batch') : batch'[i] = k
           /\ IF command = "count"
              THEN queue' = <<>> /\ handled' = handled \cup keys
              ELSE /\ queue' = [i \in 1..Len(batch') |->
                                  [cmd |-> FirstCommand, at |-> i, type |-> "none"]]
                   /\ UNCHANGED handled
<1>1. PICK keys \in SUBSET {k \in Keys : Exists(k)} : \E elements \in SetToSeqs(keys) :
        /\ batch' = elements /\ returned' = returned \cup keys
        /\ IF command = "count"
           THEN queue' = <<>> /\ handled' = handled \cup keys
           ELSE /\ queue' = [i \in 1..Len(elements) |->
                               [cmd |-> FirstCommand, at |-> i, type |-> "none"]]
                /\ UNCHANGED handled
  BY DEF Scan
<1>2. keys \in SUBSET Keys
  OBVIOUS
<1>3. \A elements \in SetToSeqs(keys) :
        /\ elements \in Seq(Keys)
        /\ \A k \in keys : \E i \in 1..Len(elements) : elements[i] = k
  BY <1>2, OrderOfKeys
<1> QED BY <1>1, <1>2, <1>3

LEMMA TypeNext == TypeOK /\ [Next]_vars => TypeOK'
<1> SUFFICES ASSUME TypeOK, [Next]_vars PROVE TypeOK'
  OBVIOUS
<1>1. CASE Scan
  <2>1. PICK keys \in SUBSET Keys :
           /\ returned' = returned \cup keys /\ batch' \in Seq(Keys)
           /\ IF command = "count"
              THEN queue' = <<>> /\ handled' = handled \cup keys
              ELSE /\ queue' = [i \in 1..Len(batch') |->
                                  [cmd |-> FirstCommand, at |-> i, type |-> "none"]]
                   /\ UNCHANGED handled
    BY <1>1, ScanMakes
  <2>2. queue' \in Seq(Job')
    <3>1. FirstCommand \in {"type", "value", "usage"}
      BY DEF FirstCommand
    <3>2. \A i \in 1..Len(batch') : [cmd |-> FirstCommand, at |-> i, type |-> "none"] \in Job'
      BY <3>1 DEF Job
    <3>3. CASE command = "count"
      BY <2>1, <3>3
    <3>4. CASE command # "count"
      <4>1. Len(batch') \in Nat
        BY <2>1
      <4> QED BY <2>1, <3>2, <3>4, <4>1
    <3> QED BY <3>3, <3>4
  <2>3. handled' \subseteq Keys /\ returned' \subseteq Keys
    BY <2>1 DEF TypeOK
  <2>4. scans' \in 0..MaxScans
    BY <1>1, ScanAssumption DEF Scan, TypeOK
  <2>5. /\ last' \in BOOLEAN /\ phase' = "batch"
        /\ UNCHANGED <<command, showValues, db, isFirstOne, file, stable, bare, refused, changes>>
    BY <1>1 DEF Scan
  <2> QED BY <2>1, <2>2, <2>3, <2>4, <2>5 DEF TypeOK, Phases
<1>2. CASE TypeArrives
  <2> DEFINE i == Head(queue).at
             job == [cmd |-> "value", at |-> i, type |-> db[batch[i]]]
  <2>1. queue # <<>> /\ i \in 1..Len(batch) /\ batch[i] \in Keys /\ Tail(queue) \in Seq(Job)
    BY <1>2, HeadType DEF TypeArrives
  <2>2. UNCHANGED <<command, showValues, db, batch, last, stable, returned, scans, refused, changes>>
    BY <1>2 DEF TypeArrives, history
  <2>3. Job' = Job
    BY <2>2 DEF Job
  <2>4. CASE WantsValue(db[batch[i]])
    <3>1. queue' = Append(Tail(queue), job) /\ UNCHANGED <<phase, isFirstOne, file, handled, bare>>
      BY <1>2, <2>4 DEF TypeArrives
    <3>2. job \in Job
      BY <2>1 DEF Job, TypeOK
    <3> HIDE DEF job
    <3>3. queue' \in Seq(Job)
      BY <2>1, <3>1, <3>2, AppendProperties
    <3> QED BY <2>2, <2>3, <3>1, <3>3 DEF TypeOK
  <2>5. CASE ~WantsValue(db[batch[i]])
    <3>1. queue' = Tail(queue) /\ Show(i) /\ bare' = TRUE
      BY <1>2, <2>5 DEF TypeArrives
    <3>2. phase' = phase
      BY <3>1 DEF Show
    <3> HIDE DEF i
    <3> QED BY <2>1, <2>2, <2>3, <3>1, <3>2, ShowType DEF TypeOK
  <2> QED BY <2>4, <2>5
<1>3. CASE ValueArrives
  <2> DEFINE i == Head(queue).at
  <2>1. queue # <<>> /\ i \in 1..Len(batch) /\ Tail(queue) \in Seq(Job)
    BY <1>3, HeadType DEF ValueArrives
  <2>2. UNCHANGED <<command, showValues, db, batch, last, stable, returned, scans, bare, refused,
                    changes>>
    BY <1>3 DEF ValueArrives, history
  <2>3. Job' = Job
    BY <2>2 DEF Job
  <2>4. \/ queue' = Tail(queue) /\ Show(i)
        \/ phase' = "crashed" /\ UNCHANGED <<queue, isFirstOne, file, handled>>
    BY <1>3 DEF ValueArrives
  <2> HIDE DEF i
  <2>5. CASE queue' = Tail(queue) /\ Show(i)
    <3>1. phase' = phase
      BY <2>5 DEF Show
    <3> QED BY <2>1, <2>2, <2>3, <2>5, <3>1, ShowType DEF TypeOK
  <2>6. CASE phase' = "crashed" /\ UNCHANGED <<queue, isFirstOne, file, handled>>
    BY <2>2, <2>3, <2>6 DEF TypeOK, Phases
  <2> QED BY <2>4, <2>5, <2>6
<1>4. CASE UsageArrives
  <2>1. /\ batch[Head(queue).at] \in Keys /\ Tail(queue) \in Seq(Job)
        /\ queue' = Tail(queue) /\ handled' \subseteq handled \cup {batch[Head(queue).at]}
        /\ UNCHANGED <<command, showValues, db, phase, batch, last, isFirstOne, file, stable,
                       returned, scans, bare, refused, changes>>
    BY <1>4, HeadType DEF UsageArrives, history
  <2>2. Job' = Job
    BY <2>1 DEF Job
  <2> QED BY <2>1, <2>2 DEF TypeOK
<1>5. CASE BatchEnds \/ Refuse \/ Confirm \/ Delete
  <2>1. /\ phase' \in Phases /\ refused' \in BOOLEAN
        /\ UNCHANGED <<command, showValues, batch, last, queue, isFirstOne, file, stable,
                       returned, scans, bare, changes>>
    BY <1>5 DEF BatchEnds, Refuse, Confirm, Delete, Advance, history, Phases, TypeOK
  <2>2. db' \in [Keys -> Types \cup {"none"}]
    BY <1>5 DEF BatchEnds, Refuse, Confirm, Delete, TypeOK
  <2>3. handled' \subseteq Keys
    BY <1>5 DEF BatchEnds, Refuse, Confirm, Delete, TypeOK, ToSet
  <2>4. Job' = Job
    BY <2>1 DEF Job
  <2> QED BY <2>1, <2>2, <2>3, <2>4 DEF TypeOK
<1>6. ASSUME NEW k \in Keys, Change(k) PROVE TypeOK'
  <2>1. /\ db' \in [Keys -> Types \cup {"none"}] /\ stable' \subseteq Keys
        /\ UNCHANGED <<command, showValues, phase, batch, last, queue, isFirstOne, file,
                       handled, returned, bare, refused, scans>>
    BY <1>6 DEF Change, TypeOK
  <2>2. changes' \in 0..MaxChanges
    BY <1>6, ScanAssumption DEF Change, TypeOK
  <2>3. Job' = Job
    BY <2>1 DEF Job
  <2> QED BY <2>1, <2>2, <2>3 DEF TypeOK
<1>7. CASE UNCHANGED vars
  BY <1>7 DEF vars, TypeOK, Job
<1> QED BY <1>1, <1>2, <1>3, <1>4, <1>5, <1>6, <1>7 DEF Next

(* The state keeps its types: whatever order answers arrive in, each       *)
(* command under way is on an element of the batch at hand (scanAll and    *)
(* its callbacks).                                                         *)
THEOREM TypeCorrect == Spec => []TypeOK
BY TypeInit, TypeNext, PTL DEF Spec

-----------------------------------------------------------------------------
(* Which keys are still to be handled.                                     *)

(* The callback will get to the key: an answer about it is awaited, or it  *)
(* is in the batch the user is asked about.                                *)
Awaited(k) == \E i \in 1..Len(queue) : batch[queue[i].at] = k
Doomed(k) == \E i \in 1..Len(batch) : batch[i] = k

Owed(k) ==
  \/ command # "delete" /\ phase = "batch" /\ Awaited(k)
  \/ command = "delete" /\ phase \in {"batch", "ask", "delete"} /\ Doomed(k)

Reached ==
  phase # "crashed" /\ ~refused => \A k \in stable \cap returned : k \in handled \/ Owed(k)

Ends ==
  /\ last => phase # "scan" /\ stable \subseteq returned
  /\ phase = "finished" /\ ~refused => last
  /\ phase = "delete" => command = "delete"

(* Only delete-keys makes keys that were there all along go away.          *)
Lasting == command # "delete" => \A k \in stable : Exists(k)

Covered == Reached /\ Ends /\ Lasting

LEMMA CoveredInit == Init => Covered
BY DEF Init, Covered, Reached, Ends, Lasting, Exists

LEMMA ScanCovered ==
  ASSUME TypeOK, Covered, Scan PROVE Covered'
<1>1. PICK keys \in SUBSET Keys :
        /\ returned' = returned \cup keys
        /\ batch' \in Seq(Keys) /\ \A k \in keys : \E i \in 1..Len(batch') : batch'[i] = k
        /\ IF command = "count"
           THEN queue' = <<>> /\ handled' = handled \cup keys
           ELSE /\ queue' = [i \in 1..Len(batch') |->
                               [cmd |-> FirstCommand, at |-> i, type |-> "none"]]
                /\ UNCHANGED handled
  BY ScanMakes
<1>2. /\ phase = "scan" /\ phase' = "batch" /\ (last' => stable \subseteq returned')
      /\ UNCHANGED <<command, db, stable, refused>>
  BY DEF Scan
<1>3. \A k \in stable \cap returned : ~refused => k \in handled'
  BY <1>1, <1>2 DEF Covered, Reached, Owed
<1>4. ASSUME NEW k \in keys PROVE k \in handled' \/ Owed(k)'
  <2>1. CASE command = "count"
    BY <1>1, <2>1
  <2>2. CASE command = "delete"
    BY <1>1, <1>2, <2>2 DEF Owed, Doomed
  <2>3. CASE command \notin {"count", "delete"}
    <3>1. PICK i \in 1..Len(batch') : batch'[i] = k
      BY <1>1
    <3>2. Len(batch') \in Nat
      BY <1>1
    <3>3. queue' \in [1..Len(batch') -> {queue'[j] : j \in 1..Len(batch')}]
      BY <1>1, <2>3
    <3>4. Len(queue') = Len(batch') /\ queue'[i].at = i
      BY <1>1, <2>3, <3>2, <3>3
    <3> QED BY <1>2, <2>3, <3>1, <3>4 DEF Owed, Awaited
  <2> QED BY <2>1, <2>2, <2>3
<1>5. Reached'
  BY <1>1, <1>2, <1>3, <1>4 DEF Reached
<1> QED BY <1>2, <1>5 DEF Covered, Ends, Lasting, Exists

(* An answer about the first in the queue leaves everyone else's.          *)
LEMMA AnswerCovered ==
  ASSUME TypeOK, Covered, phase = "batch", phase' = "batch", queue # <<>>,
         UNCHANGED <<command, db, batch, last, stable, returned, refused>>,
         handled \subseteq handled',
         \/ /\ queue' = Tail(queue)
            /\ command # "delete" /\ batch[Head(queue).at] \in stable =>
                 batch[Head(queue).at] \in handled'
         \/ \E job \in Job : queue' = Append(Tail(queue), job) /\ job.at = Head(queue).at
  PROVE  Covered'
<1>1. queue \in Seq(Job) /\ Tail(queue) \in Seq(Job)
  BY HeadType DEF TypeOK
<1>2. ASSUME NEW k \in stable, command # "delete", Awaited(k)
      PROVE  k \in handled' \/ Awaited(k)'
  <2>1. PICK i \in 1..Len(queue) : batch[queue[i].at] = k
    BY <1>2 DEF Awaited
  <2>2. queue[i] = Head(queue) \/ \E j \in 1..Len(Tail(queue)) : Tail(queue)[j] = queue[i]
    BY <1>1, LeftBehind
  <2>3. CASE queue' = Tail(queue)
             /\ (command # "delete" /\ batch[Head(queue).at] \in stable =>
                   batch[Head(queue).at] \in handled')
    BY <1>2, <2>1, <2>2, <2>3 DEF Awaited
  <2>4. ASSUME NEW job \in Job, queue' = Append(Tail(queue), job), job.at = Head(queue).at
        PROVE  Awaited(k)'
    <3>1. /\ Len(queue') = Len(Tail(queue)) + 1 /\ Len(Tail(queue)) \in Nat
          /\ \A j \in 1..Len(Tail(queue)) : queue'[j] = Tail(queue)[j]
          /\ queue'[Len(Tail(queue)) + 1] = job
      BY <1>1, <2>4, AppendProperties
    <3>2. CASE queue[i] = Head(queue)
      <4>1. Len(Tail(queue)) + 1 \in 1..Len(queue')
        BY <3>1
      <4> QED BY <2>1, <2>4, <3>1, <3>2, <4>1 DEF Awaited
    <3>3. ASSUME NEW j \in 1..Len(Tail(queue)), Tail(queue)[j] = queue[i] PROVE Awaited(k)'
      <4>1. j \in 1..Len(queue') /\ queue'[j] = queue[i]
        BY <3>1, <3>3
      <4> QED BY <2>1, <4>1 DEF Awaited
    <3> QED BY <2>2, <3>2, <3>3
  <2> QED BY <2>3, <2>4
<1>3. \A k : Doomed(k)' <=> Doomed(k)
  BY DEF Doomed
<1>4. Reached'
  BY <1>2, <1>3 DEF Covered, Reached, Owed
<1> QED BY <1>4 DEF Covered, Ends, Lasting, Exists

LEMMA AnswersCovered ==
  ASSUME TypeOK, Covered, TypeArrives \/ ValueArrives \/ UsageArrives
  PROVE  Covered'
<1> DEFINE i == Head(queue).at
<1>1. /\ phase = "batch" /\ queue # <<>>
      /\ UNCHANGED <<command, db, batch, last, stable, returned, refused>>
  BY DEF TypeArrives, ValueArrives, UsageArrives, history
<1>2. i \in 1..Len(batch) /\ batch[i] \in Keys
  BY <1>1, HeadType
<1>3. CASE queue' = Tail(queue) /\ Show(i)
  <2>1. phase' = phase
    BY <1>3 DEF Show
  <2>2. handled \subseteq handled' /\ (command # "delete" => batch[i] \in handled')
    BY <1>2, <1>3, ShowType
  <2> QED BY <1>1, <1>3, <2>1, <2>2, AnswerCovered
<1>4. CASE TypeArrives
  <2> DEFINE job == [cmd |-> "value", at |-> i, type |-> db[batch[i]]]
  <2>1. \/ queue' = Tail(queue) /\ Show(i)
        \/ queue' = Append(Tail(queue), job) /\ UNCHANGED <<phase, handled>>
    BY <1>4 DEF TypeArrives
  <2>2. job \in Job /\ job.at = i
    BY <1>2 DEF Job, TypeOK
  <2> HIDE DEF job
  <2>3. CASE queue' = Append(Tail(queue), job) /\ UNCHANGED <<phase, handled>>
    BY <1>1, <2>2, <2>3, AnswerCovered
  <2> QED BY <1>3, <2>1, <2>3
<1>5. CASE ValueArrives
  <2>1. \/ queue' = Tail(queue) /\ Show(i)
        \/ phase' = "crashed"
    BY <1>5 DEF ValueArrives
  <2>2. CASE phase' = "crashed"
    BY <1>1, <2>2 DEF Covered, Reached, Ends, Lasting, Exists
  <2> QED BY <1>3, <2>1, <2>2
<1>6. CASE UsageArrives
  <2>1. /\ queue' = Tail(queue) /\ phase' = phase
        /\ handled' = IF Exists(batch[i]) THEN handled \cup {batch[i]} ELSE handled
    BY <1>6 DEF UsageArrives
  <2>2. command # "delete" /\ batch[i] \in stable => batch[i] \in handled'
    BY <2>1 DEF Covered, Lasting
  <2> QED BY <1>1, <2>1, <2>2, AnswerCovered
<1> QED BY <1>4, <1>5, <1>6

(* The end of a batch, the answers of the user, and the deletion.          *)
LEMMA EndsCovered ==
  ASSUME TypeOK, Covered, BatchEnds \/ Refuse \/ Confirm \/ Delete
  PROVE  Covered'
<1>1. UNCHANGED <<command, batch, last, queue, stable, returned>>
  BY DEF BatchEnds, Refuse, Confirm, Delete, history
<1>2. \A k : (Awaited(k)' <=> Awaited(k)) /\ (Doomed(k)' <=> Doomed(k))
  BY <1>1 DEF Awaited, Doomed
<1>3. CASE Refuse
  <2>1. refused' = TRUE /\ phase' = "finished" /\ db' = db
    BY <1>3 DEF Refuse, Advance, Stops
  <2>2. last => stable \subseteq returned
    BY DEF Covered, Ends
  <2> QED BY <1>1, <2>1, <2>2 DEF Covered, Reached, Ends, Lasting, Exists
<1>4. CASE BatchEnds
  <2>1. /\ phase = "batch" /\ queue = <<>> /\ UNCHANGED <<db, handled, refused>>
        /\ IF Asks THEN phase' = "ask" ELSE phase' = IF last THEN "finished" ELSE "scan"
    BY <1>4 DEF BatchEnds, Advance, Stops
  <2>2. \A k : ~Awaited(k)
    BY <2>1 DEF Awaited
  <2>3. command = "delete" /\ ~Asks => \A k : ~Doomed(k)
    <3>1. command = "delete" /\ ~Asks => batch = <<>>
      BY DEF Asks
    <3> QED BY <3>1 DEF Doomed
  <2>4. Reached'
    BY <1>1, <1>2, <2>1, <2>2, <2>3 DEF Covered, Reached, Owed
  <2>5. Ends'
    BY <1>1, <2>1 DEF Covered, Ends
  <2> QED BY <1>1, <2>1, <2>4, <2>5 DEF Covered, Lasting, Exists
<1>5. CASE Confirm
  <2>1. /\ phase = "ask" /\ UNCHANGED <<db, handled, refused>>
        /\ phase' = IF command = "delete" THEN "delete"
                    ELSE IF last THEN "finished" ELSE "scan"
    BY <1>5 DEF Confirm, Advance, Stops
  <2>2. Reached'
    BY <1>1, <1>2, <2>1 DEF Covered, Reached, Owed
  <2>3. Ends'
    BY <1>1, <2>1 DEF Covered, Ends
  <2> QED BY <1>1, <2>1, <2>2, <2>3 DEF Covered, Lasting, Exists
<1>6. CASE Delete
  <2>1. /\ phase = "delete" /\ handled' = handled \cup ToSet(batch) /\ UNCHANGED refused
        /\ phase' = IF last THEN "finished" ELSE "scan"
    BY <1>6 DEF Delete, Advance, Stops
  <2>2. command = "delete"
    BY <2>1 DEF Covered, Ends
  <2>3. \A k : Doomed(k) => k \in handled'
    BY <2>1 DEF Doomed, ToSet, TypeOK
  <2>4. Reached'
    BY <1>1, <2>1, <2>2, <2>3 DEF Covered, Reached, Owed
  <2>5. Ends'
    BY <1>1, <2>1 DEF Covered, Ends
  <2> QED BY <1>1, <2>2, <2>4, <2>5 DEF Covered, Lasting
<1> QED BY <1>3, <1>4, <1>5, <1>6

LEMMA ChangeCovered ==
  ASSUME TypeOK, Covered, NEW k \in Keys, Change(k) PROVE Covered'
<1>1. /\ UNCHANGED <<command, phase, batch, last, queue, handled, returned, refused>>
      /\ stable' \subseteq stable
      /\ \A n \in stable' : Exists(n) => Exists(n)'
  BY DEF Change, TypeOK, Exists
<1>2. \A n : Owed(n)' <=> Owed(n)
  BY <1>1 DEF Owed, Awaited, Doomed
<1> QED BY <1>1, <1>2 DEF Covered, Reached, Ends, Lasting

LEMMA CoveredNext == TypeOK /\ Covered /\ [Next]_vars => Covered'
<1> SUFFICES ASSUME TypeOK, Covered, [Next]_vars PROVE Covered'
  OBVIOUS
<1>1. CASE UNCHANGED vars
  BY <1>1 DEF vars, Covered, Reached, Owed, Awaited, Doomed, Ends, Lasting, Exists
<1> QED BY <1>1, ScanCovered, AnswersCovered, EndsCovered, ChangeCovered DEF Next

(* A command that ends and was not refused has handled every key that was  *)
(* there all along, for any number of keys, sizes of batches and changes   *)
(* by others (scanAll and every callback).                                 *)
THEOREM EveryStableKeyIsHandled == Spec => []StableKeysHandled
<1>1. Spec => []Covered
  BY CoveredInit, CoveredNext, TypeCorrect, PTL DEF Spec
<1>2. Covered => StableKeysHandled
  BY DEF Covered, Reached, Ends, Owed, StableKeysHandled
<1> QED BY <1>1, <1>2, PTL

-----------------------------------------------------------------------------
(* What export writes.                                                     *)

(* The connection answers in order: the types of the batch, and behind the *)
(* last of them the values of those before it, in the order of the batch.  *)
AwaitsTypes(t) ==
  /\ t \in 0..Len(batch) /\ Len(queue) = Len(batch)
  /\ \A j \in 1..Len(batch) :
       IF j <= Len(batch) - t
       THEN queue[j].cmd = "type" /\ queue[j].at = t + j
       ELSE queue[j].cmd = "value" /\ queue[j].at = j - (Len(batch) - t)

AwaitsValues(v) ==
  /\ v \in 0..Len(batch) /\ Len(queue) = Len(batch) - v
  /\ \A j \in 1..(Len(batch) - v) : queue[j].cmd = "value" /\ queue[j].at = v + j
  /\ v > 0 => ~isFirstOne

InTurn == (\E t \in 0..Len(batch) : AwaitsTypes(t)) \/ \E v \in 0..Len(batch) : AwaitsValues(v)

(* A list that the next item goes on with: its comma goes before that item *)
(* and isFirstOne says whether it needs one.                               *)
Growing == IF isFirstOne THEN file = <<>> ELSE Len(file) % 2 = 1 /\ IsList(file)

Ordered ==
  IF command = "export"
  THEN ~bare => Growing /\ (phase = "batch" => InTurn)
  ELSE file = <<>>

LEMMA OrderedInit == Init => Ordered
BY DEF Init, Ordered, Growing

(* One more item keeps the list a list.                                    *)
LEMMA ShowGrows ==
  ASSUME TypeOK, Growing, command = "export", NEW i \in 1..Len(batch), Show(i),
         isFirstOne => i = 1
  PROVE  Growing' /\ ~isFirstOne'
<1>1. isFirstOne' = (isFirstOne /\ i # 1)
  BY DEF Show
<1>2. CASE isFirstOne
  <2>1. file' = file \o <<"item">> /\ file = <<>>
    BY <1>2 DEF Show, NeedsComma, Growing
  <2>2. file' = <<"item">>
    BY <2>1
  <2>3. ~isFirstOne'
    BY <1>1, <1>2
  <2>4. Len(file') = 1 /\ file'[1] = "item"
    BY <2>2
  <2>5. 1 % 2 = 1 /\ \A j \in 1..1 : j = 1
    OBVIOUS
  <2>6. IsList(file')
    BY <2>4, <2>5 DEF IsList
  <2> QED BY <2>3, <2>4, <2>5, <2>6 DEF Growing, IsList
<1>3. CASE ~isFirstOne
  <2>1. file' = file \o <<"comma", "item">>
    BY <1>3 DEF Show, NeedsComma
  <2>2. /\ file \in Seq({"item", "comma"}) /\ Len(file) \in Nat /\ Len(file) % 2 = 1
        /\ \A j \in 1..Len(file) : file[j] = IF j % 2 = 1 THEN "item" ELSE "comma"
    <3>1. file \in Seq({"item", "comma"}) /\ Len(file) \in Nat
      BY DEF TypeOK
    <3> QED BY <1>3, <3>1 DEF Growing, IsList
  <2>3. /\ Len(file') = Len(file) + 2
        /\ \A j \in 1..Len(file) : file'[j] = file[j]
        /\ file'[Len(file) + 1] = "comma" /\ file'[Len(file) + 2] = "item"
    BY <2>1, <2>2
  <2>4. (Len(file) + 1) % 2 = 0 /\ (Len(file) + 2) % 2 = 1
    BY <2>2
  <2>5. \A j \in 1..(Len(file) + 2) :
          j \in 1..Len(file) \/ j = Len(file) + 1 \/ j = Len(file) + 2
    BY <2>2
  <2>6. ASSUME NEW j \in 1..Len(file') PROVE file'[j] = IF j % 2 = 1 THEN "item" ELSE "comma"
    BY <2>2, <2>3, <2>4, <2>5
  <2> QED BY <1>1, <1>3, <2>3, <2>4, <2>6 DEF Growing, IsList
<1> QED BY <1>2, <1>3

(* A batch just fetched: its types are asked for, element by element.      *)
LEMMA ScanOrdered ==
  ASSUME TypeOK, Ordered, Scan PROVE Ordered'
<1>1. UNCHANGED <<command, bare, isFirstOne, file>>
  BY DEF Scan
<1>2. CASE command = "export"
  <2>1. /\ batch' \in Seq(Keys)
        /\ queue' = [i \in 1..Len(batch') |-> [cmd |-> FirstCommand, at |-> i, type |-> "none"]]
    BY <1>2, ScanMakes
  <2>2. FirstCommand = "type"
    BY <1>2 DEF FirstCommand
  <2>3. Len(batch') \in Nat /\ queue' \in [1..Len(batch') -> {queue'[j] : j \in 1..Len(batch')}]
    BY <2>1
  <2>4. Len(queue') = Len(batch')
    <3> DEFINE jobs == {queue'[j] : j \in 1..Len(batch')}
    <3>1. queue' \in [1..Len(batch') -> jobs]
      BY <2>3
    <3> HIDE DEF jobs
    <3> QED BY <2>3, <3>1
  <2>5. \A j \in 1..Len(batch') : queue'[j].cmd = "type" /\ queue'[j].at = 0 + j
    <3>1. \A j \in 1..Len(batch') :
            queue'[j] = [cmd |-> FirstCommand, at |-> j, type |-> "none"]
      BY <2>1
    <3> QED BY <2>2, <2>3, <3>1
  <2>6. AwaitsTypes(0)' /\ 0 \in 0..Len(batch')
    BY <2>3, <2>4, <2>5 DEF AwaitsTypes
  <2> QED BY <1>1, <1>2, <2>6 DEF Ordered, Growing, InTurn
<1> QED BY <1>1, <1>2 DEF Ordered

(* The type of an element: it was next to have its type read, and its      *)
(* value is the last to be.                                                *)
LEMMA TypeOrdered ==
  ASSUME TypeOK, Ordered, TypeArrives PROVE Ordered'
<1> DEFINE i == Head(queue).at
           job == [cmd |-> "value", at |-> i, type |-> db[batch[i]]]
           n == Len(batch)
<1>1. /\ phase = "batch" /\ queue # <<>> /\ Head(queue).cmd = "type"
      /\ UNCHANGED <<command, batch>>
  BY DEF TypeArrives
<1>2. \/ queue' = Append(Tail(queue), job) /\ UNCHANGED <<phase, isFirstOne, file, bare>>
      \/ Show(i) /\ bare' = TRUE
  BY DEF TypeArrives
<1>3. CASE command # "export"
  <2>1. file' = file
    BY <1>2, <1>3 DEF Show
  <2> QED BY <1>1, <1>3, <2>1 DEF Ordered
<1>4. CASE bare' = TRUE /\ command = "export"
  BY <1>1, <1>4 DEF Ordered
<1>5. CASE /\ command = "export" /\ ~bare /\ queue' = Append(Tail(queue), job)
           /\ UNCHANGED <<phase, isFirstOne, file, bare>>
  <2>1. queue \in Seq(Job) /\ Len(queue) \in Nat /\ n \in Nat /\ Head(queue) = queue[1]
    BY <1>1, HeadTailProperties DEF TypeOK
  <2>2. InTurn /\ Growing
    BY <1>1, <1>5 DEF Ordered
  <2>3. queue[1].cmd = "type" /\ Len(queue) >= 1
    BY <1>1, <2>1
  <2>4. \A v \in 0..n : ~AwaitsValues(v)
    BY <2>1, <2>3 DEF AwaitsValues
  <2>5. PICK t \in 0..n : AwaitsTypes(t)
    BY <2>2, <2>4 DEF InTurn
  <2>6. t < n /\ i = t + 1 /\ Len(queue) = n
    BY <2>1, <2>3, <2>5 DEF AwaitsTypes
  <2>7. Tail(queue) \in Seq(Job) /\ Len(Tail(queue)) = n - 1
        /\ \A j \in 1..(n - 1) : Tail(queue)[j] = queue[j + 1]
    BY <1>1, <2>1, <2>6, HeadTailProperties
  <2> HIDE DEF n, i
  <2>8. /\ Len(queue') = n
        /\ \A j \in 1..(n - 1) : queue'[j] = queue[j + 1]
        /\ queue'[n].cmd = "value" /\ queue'[n].at = i
    <3>1. /\ Len(queue') = Len(Tail(queue)) + 1
          /\ \A j \in 1..Len(Tail(queue)) : queue'[j] = Tail(queue)[j]
          /\ queue'[Len(Tail(queue)) + 1] = job
      BY <1>5, <2>7, AppendProperties
    <3> QED BY <2>1, <2>6, <2>7, <3>1
  <2>9. \A j \in 1..n : IF j <= n - t
                         THEN queue[j].cmd = "type" /\ queue[j].at = t + j
                         ELSE queue[j].cmd = "value" /\ queue[j].at = j - (n - t)
    BY <2>5 DEF AwaitsTypes, n
  <2>10. ASSUME NEW j \in 1..n
         PROVE  IF j <= n - (t + 1)
                THEN queue'[j].cmd = "type" /\ queue'[j].at = (t + 1) + j
                ELSE queue'[j].cmd = "value" /\ queue'[j].at = j - (n - (t + 1))
    <3>1. CASE j = n
      BY <2>1, <2>6, <2>8, <3>1
    <3>2. CASE j # n
      <4>1. j \in 1..(n - 1) /\ j + 1 \in 1..n
        BY <2>1, <3>2
      <4>2. queue'[j] = queue[j + 1]
        BY <2>8, <4>1
      <4>3. IF j + 1 <= n - t
            THEN queue[j + 1].cmd = "type" /\ queue[j + 1].at = t + (j + 1)
            ELSE queue[j + 1].cmd = "value" /\ queue[j + 1].at = (j + 1) - (n - t)
        BY <2>9, <4>1
      <4> QED BY <2>1, <4>2, <4>3
    <3> QED BY <3>1, <3>2
  <2>11. n' = n /\ t + 1 \in 0..n
    BY <1>1, <2>1, <2>6 DEF n
  <2>12. AwaitsTypes(t + 1)'
    BY <2>8, <2>10, <2>11 DEF AwaitsTypes, n
  <2>13. InTurn'
    BY <2>11, <2>12 DEF InTurn, n
  <2> QED BY <1>1, <1>5, <2>2, <2>13 DEF Ordered, Growing
<1> QED BY <1>2, <1>3, <1>4, <1>5 DEF TypeOK

(* The value of an element: the first one, or one behind it.               *)
LEMMA ValueOrdered ==
  ASSUME TypeOK, Ordered, ValueArrives PROVE Ordered'
<1> DEFINE i == Head(queue).at
           n == Len(batch)
<1>1. /\ phase = "batch" /\ queue # <<>> /\ Head(queue).cmd = "value"
      /\ UNCHANGED <<command, batch, bare>>
  BY DEF ValueArrives
<1>2. \/ queue' = Tail(queue) /\ Show(i)
      \/ phase' = "crashed" /\ UNCHANGED <<isFirstOne, file>>
  BY DEF ValueArrives
<1>3. CASE command # "export"
  BY <1>1, <1>2, <1>3 DEF Ordered, Show
<1>4. CASE bare
  BY <1>1, <1>2, <1>4 DEF Ordered, Show
<1>5. CASE phase' = "crashed" /\ UNCHANGED <<isFirstOne, file>>
  BY <1>1, <1>5 DEF Ordered, Growing
<1>6. CASE command = "export" /\ ~bare /\ queue' = Tail(queue) /\ Show(i)
  <2>1. /\ queue \in Seq(Job) /\ Len(queue) \in Nat /\ Len(queue) >= 1 /\ n \in Nat
        /\ Head(queue) = queue[1]
    BY <1>1, HeadTailProperties DEF TypeOK
  <2>2. InTurn /\ Growing
    BY <1>1, <1>6 DEF Ordered
  <2>3. ASSUME NEW t \in 0..n, AwaitsTypes(t) PROVE AwaitsValues(0)
    <3>1. t = n /\ Len(queue) = n
      BY <1>1, <2>1, <2>3 DEF AwaitsTypes
    <3> QED BY <2>1, <2>3, <3>1 DEF AwaitsTypes, AwaitsValues
  <2>4. PICK v \in 0..n : AwaitsValues(v)
    <3>1. 0 \in 0..n
      BY <2>1
    <3> QED BY <2>2, <2>3, <3>1 DEF InTurn
  <2>5. v < n /\ i = v + 1 /\ (isFirstOne => v = 0)
    BY <2>1, <2>4 DEF AwaitsValues
  <2>6. i \in 1..Len(batch) /\ (isFirstOne => i = 1)
    BY <2>1, <2>5
  <2> HIDE DEF i
  <2>7. Growing' /\ ~isFirstOne'
    BY <1>6, <2>2, <2>6, ShowGrows
  <2>8. Len(Tail(queue)) = n - (v + 1)
        /\ \A j \in 1..(n - (v + 1)) : Tail(queue)[j] = queue[j + 1]
    BY <1>1, <2>1, <2>4, HeadTailProperties DEF AwaitsValues
  <2>9. ASSUME NEW j \in 1..(n - (v + 1))
        PROVE  queue'[j].cmd = "value" /\ queue'[j].at = (v + 1) + j
    <3>1. j + 1 \in 1..(n - v)
      BY <2>1, <2>5
    <3>2. queue[j + 1].cmd = "value" /\ queue[j + 1].at = v + (j + 1)
      BY <2>4, <3>1 DEF AwaitsValues
    <3> QED BY <1>6, <2>1, <2>8, <3>2
  <2>10. AwaitsValues(v + 1)' /\ v + 1 \in 0..n
    BY <1>1, <1>6, <2>1, <2>5, <2>7, <2>8, <2>9 DEF AwaitsValues
  <2>11. phase' = phase
    BY <1>6 DEF Show
  <2> QED BY <1>1, <1>6, <2>7, <2>10, <2>11 DEF Ordered, InTurn
<1> QED BY <1>2, <1>3, <1>4, <1>5, <1>6

LEMMA OrderedNext == TypeOK /\ Ordered /\ [Next]_vars => Ordered'
<1> SUFFICES ASSUME TypeOK, Ordered, [Next]_vars PROVE Ordered'
  OBVIOUS
<1>1. CASE UsageArrives
  <2>1. UNCHANGED <<command, phase, batch, isFirstOne, file, bare>> /\ queue' = Tail(queue)
        /\ phase = "batch" /\ queue # <<>> /\ Head(queue).cmd = "usage"
    BY <1>1 DEF UsageArrives
  <2>2. CASE command = "export" /\ ~bare
    <3>1. Head(queue) = queue[1] /\ Len(queue) \in Nat /\ Len(queue) >= 1 /\ InTurn
          /\ Len(batch) \in Nat
      BY <2>1, <2>2, HeadTailProperties DEF TypeOK, Ordered
    <3>2. 1 \in 1..Len(queue)
      BY <3>1
    <3>3. queue[1].cmd \in {"type", "value"}
      BY <3>1, <3>2 DEF InTurn, AwaitsTypes, AwaitsValues
    <3> QED BY <2>1, <3>1, <3>3
  <2> QED BY <2>1, <2>2 DEF Ordered
<1>2. CASE BatchEnds \/ Refuse \/ Confirm \/ Delete
  <2>1. UNCHANGED <<command, isFirstOne, file, bare>> /\ phase' # "batch"
    BY <1>2 DEF BatchEnds, Refuse, Confirm, Delete, Advance
  <2> QED BY <2>1 DEF Ordered, Growing
<1>3. ASSUME NEW k \in Keys, Change(k) PROVE Ordered'
  <2>1. UNCHANGED <<command, phase, batch, queue, isFirstOne, file, bare>>
    BY <1>3 DEF Change
  <2> QED BY <2>1 DEF Ordered, Growing, InTurn, AwaitsTypes, AwaitsValues
<1>4. CASE UNCHANGED vars
  BY <1>4 DEF vars, Ordered, Growing, InTurn, AwaitsTypes, AwaitsValues
<1> QED BY <1>1, <1>2, <1>3, <1>4, ScanOrdered, TypeOrdered, ValueOrdered DEF Next

(* However the reads of a batch interleave with the changes of other       *)
(* clients, an export of keys that all have a value is a list with a comma *)
(* between each two items (export-keys, getValueByType): isFirstOne, which *)
(* every element of every batch shares, is read and set in order.          *)
THEOREM ExportIsAList == Spec => []ValuesExportInOrder
<1>1. Spec => []Ordered
  BY OrderedInit, OrderedNext, TypeCorrect, PTL DEF Spec
<1>2. TypeOK /\ Ordered => ValuesExportInOrder
  <2>1. Growing => IsList(file)
    BY DEF Growing, IsList
  <2>2. file = <<>> => IsList(file)
    BY DEF IsList
  <2> QED BY <2>1, <2>2 DEF Ordered, ValuesExportInOrder
<1> QED BY <1>1, <1>2, TypeCorrect, PTL
=============================================================================
