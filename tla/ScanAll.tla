------------------------------ MODULE ScanAll ------------------------------
(***************************************************************************)
(* The commands of redis-busy-box on one connection: scanAll fetches keys  *)
(* batch by batch and hands each batch to the command's callback, which    *)
(* starts on all its elements at once, asks the user, or deletes.  Other   *)
(* clients change the database meanwhile.                                  *)
(*                                                                         *)
(* The connection is first in, first out: a command is answered, and its   *)
(* answer is gone on with, after all commands sent before it.  SCAN is     *)
(* Redis's: it returns keys that exist, some again, and a scan that comes  *)
(* to its end has returned every key that was there all along.             *)
(***************************************************************************)
EXTENDS Integers, Sequences, SequencesExt

CONSTANTS
  Keys,
  BatchSize,    \* bound: elements SCAN returns at once
  MaxScans,     \* bound: batches of a scan
  MaxChanges    \* bound: changes other clients make

ASSUME ScanAssumption ==
  IsFiniteSet(Keys) /\ BatchSize \in Nat /\ MaxScans \in Nat /\ MaxChanges \in Nat

VARIABLES
  command,     \* which command runs
  showValues,  \* options.showValues
  db,          \* the type of each key, "none" for one that does not exist
  phase,       \* scan, batch, ask, delete, finished, crashed
  batch, last, \* what SCAN returned: elements, and whether the cursor is '0'
  queue,       \* commands under way on the elements of the batch
  isFirstOne,
  file,        \* what export wrote, as "item" and "comma"
  handled,     \* keys written, counted, shown or deleted
  stable,      \* keys that existed since the scan began (history)
  returned,    \* keys the scan has returned (history)
  bare,        \* an element was shown without a value (history)
  refused,     \* the user said no (history)
  scans, changes

vars == <<command, showValues, db, phase, batch, last, queue, isFirstOne, file, handled,
          stable, returned, bare, refused, scans, changes>>
history == <<stable, returned, scans>>

Readable == {"string", "list"}       \* types getValueByType knows
Types == Readable \cup {"module"}
Exists(k) == db[k] # "none"

Init ==
  /\ command \in {"export", "memory", "count", "list", "delete"}
  /\ showValues \in BOOLEAN
  /\ db \in [Keys -> Types \cup {"none"}]
  /\ phase = "scan" /\ batch = <<>> /\ last = FALSE /\ queue = <<>>
  /\ isFirstOne = TRUE /\ file = <<>> /\ handled = {}
  /\ stable = {k \in Keys : db[k] # "none"}
  /\ returned = {} /\ bare = FALSE /\ refused = FALSE /\ scans = 0 /\ changes = 0

(***************************************************************************)
(* scanAll: the loop ends with the cursor, or when the callback says false *)
(* (and not when it says nothing).                                         *)
(***************************************************************************)
StopsOnFalsy(said) == said \in {"nothing", "false"}
Stops(said) == said = "false"

Advance(said) ==
  phase' = IF last \/ Stops(said) THEN "finished" ELSE "scan"

(* The callback sends its first command for each element before any answer *)
(* arrives.                                                                *)
FirstCommand == IF command = "memory" THEN "usage" ELSE "type"

Scan ==
  /\ phase = "scan" /\ scans < MaxScans
  /\ \E keys \in SUBSET {k \in Keys : Exists(k)} : \E elements \in SetToSeqs(keys) :
       /\ Len(elements) <= BatchSize
       /\ batch' = elements
       /\ returned' = returned \cup keys
       /\ last' \in BOOLEAN /\ (last' => stable \subseteq returned')
       /\ IF command = "count"
          THEN queue' = <<>> /\ handled' = handled \cup keys
          ELSE /\ queue' = [i \in 1..Len(elements) |-> [cmd |-> FirstCommand, at |-> i, type |-> "none"]]
               /\ UNCHANGED handled
  /\ phase' = "batch" /\ scans' = scans + 1
  /\ UNCHANGED <<command, showValues, db, isFirstOne, file, stable, bare, refused, changes>>

(***************************************************************************)
(* The answers.  An element whose type getValueByType does not know is     *)
(* done with at once; the value of another takes a command of its own.     *)
(***************************************************************************)
NeedsCommaInBatch(i) == i # 1
NeedsComma(i) == ~(isFirstOne /\ i = 1)

Show(i) ==
  /\ IF command = "export"
     THEN /\ file' = file \o (IF NeedsComma(i) THEN <<"comma", "item">> ELSE <<"item">>)
          /\ isFirstOne' = (isFirstOne /\ i # 1)
     ELSE UNCHANGED <<file, isFirstOne>>
  /\ handled' = IF command = "delete" THEN handled ELSE handled \cup {batch[i]}
  /\ UNCHANGED phase

WantsValue(type) == type \in Readable /\ (command = "export" \/ showValues)

TypeArrives ==
  /\ phase = "batch" /\ queue # <<>> /\ Head(queue).cmd = "type"
  /\ LET i == Head(queue).at
         type == db[batch[i]]
     IN IF WantsValue(type)
        THEN /\ queue' = Append(Tail(queue), [cmd |-> "value", at |-> i, type |-> type])
             /\ UNCHANGED <<phase, isFirstOne, file, handled, bare>>
        ELSE queue' = Tail(queue) /\ Show(i) /\ bare' = TRUE
  /\ UNCHANGED <<command, showValues, db, batch, last, history, refused, changes>>

(* A key that is gone has an empty value; one of another type by now is an *)
(* error, which ends the command: nobody catches it.                       *)
ValueArrives ==
  /\ phase = "batch" /\ queue # <<>> /\ Head(queue).cmd = "value"
  /\ LET i == Head(queue).at
     IN IF db[batch[i]] \in {Head(queue).type, "none"}
        THEN queue' = Tail(queue) /\ Show(i)
        ELSE phase' = "crashed" /\ UNCHANGED <<queue, isFirstOne, file, handled>>
  /\ UNCHANGED <<command, showValues, db, batch, last, history, bare, refused, changes>>

UsageArrives ==
  /\ phase = "batch" /\ queue # <<>> /\ Head(queue).cmd = "usage"
  /\ LET k == batch[Head(queue).at]
     IN handled' = IF Exists(k) THEN handled \cup {k} ELSE handled
  /\ queue' = Tail(queue)
  /\ UNCHANGED <<command, showValues, db, phase, batch, last, isFirstOne, file, history, bare, refused, changes>>

(***************************************************************************)
(* The rest of the callback, once all elements are done.                   *)
(***************************************************************************)
Asks ==
  \/ command = "list" /\ batch # <<>> /\ ~last
  \/ command = "delete" /\ batch # <<>>

BatchEnds ==
  /\ phase = "batch" /\ queue = <<>>
  /\ IF Asks THEN phase' = "ask" ELSE Advance("nothing")
  /\ UNCHANGED <<command, showValues, db, batch, last, queue, isFirstOne, file, handled, history, bare, refused, changes>>

Refuse ==
  /\ phase = "ask"
  /\ Advance("false") /\ refused' = TRUE
  /\ UNCHANGED <<command, showValues, db, batch, last, queue, isFirstOne, file, handled, history, bare, changes>>

Confirm ==
  /\ phase = "ask"
  /\ IF command = "delete" THEN phase' = "delete" ELSE Advance("nothing")
  /\ UNCHANGED <<command, showValues, db, batch, last, queue, isFirstOne, file, handled, history, bare, refused, changes>>

Delete ==
  /\ phase = "delete"
  /\ db' = [k \in Keys |-> IF k \in ToSet(batch) THEN "none" ELSE db[k]]
  /\ handled' = handled \cup ToSet(batch)
  /\ Advance("nothing")
  /\ UNCHANGED <<command, showValues, batch, last, queue, isFirstOne, file, history, bare, refused, changes>>

(* Other clients: keys are created, expire, or get another type. *)
Change(k) ==
  /\ phase \in {"scan", "batch", "ask", "delete"} /\ changes < MaxChanges
  /\ \E type \in (Types \cup {"none"}) \ {db[k]} : db' = [db EXCEPT ![k] = type]
  /\ stable' = IF db'[k] = "none" THEN stable \ {k} ELSE stable
  /\ changes' = changes + 1
  /\ UNCHANGED <<command, showValues, phase, batch, last, queue, isFirstOne, file, handled, returned, bare, refused, scans>>

Next ==
  \/ Scan \/ TypeArrives \/ ValueArrives \/ UsageArrives
  \/ BatchEnds \/ Refuse \/ Confirm \/ Delete
  \/ \E k \in Keys : Change(k)

Spec == Init /\ [][Next]_vars

-----------------------------------------------------------------------------
(* A command that ends and was not refused has handled every key that was     *)
(* there all along: empty batches, keys that vanish and the changes of others *)
(* end no scan early (scanAll and every callback).                            *)
StableKeysHandled == phase = "finished" /\ ~refused => stable \subseteq handled

(* Items with a comma between each two.                                       *)
IsList(tokens) ==
  \A i \in 1..Len(tokens) : tokens[i] = IF i % 2 = 1 THEN "item" ELSE "comma"

(* Concurrent reads do not garble the export as long as every key has a value *)
(* to read: then the connection answers in the order of the batch.            *)
ValuesExportInOrder == phase = "finished" /\ ~bare => IsList(file)
=============================================================================
