-------------------------- MODULE SseStreamProofs --------------------------
(***************************************************************************)
(* What SseStream keeps for bodies of any length and content, however the  *)
(* network cuts them.  The functions the model computes with are recursive *)
(* over a prefix of the naturals, so what they return is proved by         *)
(* induction on its length.                                                *)
(***************************************************************************)
EXTENDS SseStream, SequenceTheorems, WellFoundedInduction, TLAPS

Bytes == Letters \cup {LF, CR}
Line == Seq(Letters)
Event == [isError : BOOLEAN, data : Seq(Line)]

TypeOK ==
  /\ input \in Seq(Bytes) /\ pos \in 0..(Len(input) + 1)
  /\ data \in Seq(Bytes)
  /\ held \in Line /\ trailingCR \in BOOLEAN
  /\ lines \in Seq(Line) /\ event \in Event
  /\ done \in BOOLEAN /\ aborted \in BOOLEAN
  /\ given \in Seq(Seq(Line))
  /\ pc \in {"consumer", "lines", "reading", "closed"}
  /\ ending \in {"none", "left", "failed", "aborted", "ended"}

-----------------------------------------------------------------------------
(* Induction and recursion on the naturals.                                *)

LEMMA Least ==
  ASSUME NEW S \in SUBSET Nat, S # {}
  PROVE  \E x \in S : \A y \in S : x <= y
<1>1. PICK x \in S : \A y \in S : ~ (<<y, x>> \in OpToRel(<, Nat))
  BY NatLessThanWellFounded, WFMin
<1>2. \A y \in S : ~ (y < x)
  BY <1>1 DEF OpToRel
<1> QED BY <1>2

LEMMA Induct ==
  ASSUME NEW n \in Nat, NEW S, 0 \in S, \A i \in 0..(n-1) : i \in S => i + 1 \in S
  PROVE  \A i \in 0..n : i \in S
<1> DEFINE T == {i \in 0..n : i \notin S}
<1>1. SUFFICES ASSUME T # {} PROVE FALSE
  OBVIOUS
<1>2. PICK x \in T : \A y \in T : x <= y
  <2>1. T \in SUBSET Nat
    OBVIOUS
  <2> HIDE DEF T
  <2> QED BY <1>1, <2>1, Least
<1>3. x # 0 /\ x - 1 \in 0..(n-1) /\ x - 1 \in S
  BY <1>2
<1> QED BY <1>2, <1>3

(* What a recursion keeps at every step holds of all it returns.           *)
LEMMA Kept ==
  ASSUME NEW n \in Nat, NEW St, NEW f, f[0] \in St,
         \A i \in 1..n : f[i-1] \in St => f[i] \in St
  PROVE  \A i \in 0..n : f[i] \in St
<1> DEFINE S == {i \in 0..n : f[i] \in St}
<1>1. 0 \in S
  OBVIOUS
<1>2. ASSUME NEW i \in 0..(n-1), i \in S PROVE i + 1 \in S
  <2>1. i + 1 \in 1..n /\ (i + 1) - 1 = i
    OBVIOUS
  <2> QED BY <1>2, <2>1
<1> HIDE DEF S
<1>3. \A i \in 0..n : i \in S
  BY <1>1, <1>2, Induct
<1> QED BY <1>3 DEF S

Computes(f, base, step, n) == f[0] = base /\ \A i \in 1..n : f[i] = step[i][f[i-1]]

LEMMA Recursion ==
  ASSUME NEW St, NEW base \in St, NEW n \in Nat, NEW step \in [1..n -> [St -> St]]
  PROVE  \E f \in [0..n -> St] : Computes(f, base, step, n)
<1> DEFINE Has(m) == \E f \in [0..m -> St] : Computes(f, base, step, m)
           S == {m \in 0..n : Has(m)}
<1>1. 0 \in S
  <2> DEFINE g == [i \in 0..0 |-> base]
  <2>1. g \in [0..0 -> St] /\ g[0] = base
    OBVIOUS
  <2>2. Computes(g, base, step, 0)
    BY <2>1 DEF Computes
  <2> QED BY <2>1, <2>2
<1>2. ASSUME NEW m \in 0..(n-1), m \in S PROVE m + 1 \in S
  <2>1. SUFFICES Has(m + 1)
    OBVIOUS
  <2>2. PICK f \in [0..m -> St] : Computes(f, base, step, m)
    BY <1>2
  <2> DEFINE g == [i \in 0..(m+1) |-> IF i = m + 1 THEN step[m + 1][f[m]] ELSE f[i]]
  <2>3. m \in Nat /\ m \in 0..m /\ m + 1 \in 1..n /\ f[m] \in St
    OBVIOUS
  <2>4. step[m + 1][f[m]] \in St
    BY <2>3
  <2>5. ASSUME NEW i \in 0..(m+1), i # m + 1 PROVE i \in 0..m
    BY <2>3, <2>5
  <2>6. g \in [0..(m+1) -> St]
    BY <2>4, <2>5
  <2>7. 0 \in 0..(m+1) /\ 0 # m + 1 /\ m + 1 \in 0..(m+1)
    BY <2>3
  <2>8. g[0] = base
    BY <2>2, <2>7 DEF Computes
  <2>9. ASSUME NEW i \in 1..(m+1) PROVE g[i] = step[i][g[i-1]]
    <3>1. i - 1 \in 0..(m+1) /\ i - 1 # m + 1 /\ i \in 0..(m+1)
      BY <2>3
    <3>2. CASE i = m + 1
      <4>1. g[i] = step[m + 1][f[m]] /\ i - 1 = m
        BY <2>3, <2>7, <3>2
      <4> QED BY <3>1, <3>2, <4>1
    <3>3. CASE i # m + 1
      <4>1. i \in 1..m
        BY <2>3, <3>3
      <4> QED BY <2>2, <3>1, <3>3, <4>1 DEF Computes
    <3> QED BY <3>2, <3>3
  <2> HIDE DEF g
  <2> QED BY <2>6, <2>8, <2>9 DEF Computes
<1> HIDE DEF S
<1>3. \A m \in 0..n : m \in S
  BY <1>1, <1>2, Induct
<1>4. n \in S
  BY <1>3
<1> QED BY <1>4 DEF S

-----------------------------------------------------------------------------
(* The recursive functions of the model.                                   *)

(* What is behind the last line end is a line.                              *)
LEMMA RestsAre ==
  ASSUME NEW text \in Seq(Bytes)
  PROVE  /\ Rests(text) \in [0..Len(text) -> Line]
         /\ Rests(text)[0] = <<>>
         /\ \A n \in 1..Len(text) :
              Rests(text)[n] = RestAfter(text, n, Rests(text)[n-1])
<1> DEFINE N == Len(text)
           After(n, x) == RestAfter(text, n, x)
           step == [n \in 1..N |-> [x \in Line |-> After(n, x)]]
           F == Rests(text)
<1>1. N \in Nat /\ <<>> \in Line
  BY DEF Line
<1>2. ASSUME NEW n \in 1..N, NEW x \in Line PROVE After(n, x) \in Line
  BY <1>1 DEF Line, RestAfter
<1>3. step \in [1..N -> [Line -> Line]]
  BY <1>2
<1>4. ASSUME NEW n \in 1..N, NEW x \in Line PROVE step[n][x] = After(n, x)
  OBVIOUS
<1> HIDE DEF step
<1>5. PICK f \in [0..N -> Line] : Computes(f, <<>>, step, N)
  BY <1>1, <1>3, Recursion
<1>6. f = [n \in 0..N |-> IF n = 0 THEN <<>> ELSE RestAfter(text, n, f[n-1])]
  <2>1. f[0] = <<>> /\ \A n \in 1..N : f[n] = step[n][f[n-1]] /\ f[n-1] \in Line
    <3>1. \A n \in 1..N : n - 1 \in 0..N
      BY <1>1
    <3> HIDE DEF N
    <3> QED BY <1>5, <3>1 DEF Computes
  <2>2. ASSUME NEW n \in 0..N PROVE f[n] = IF n = 0 THEN <<>> ELSE After(n, f[n-1])
    <3>1. n = 0 \/ n \in 1..N
      BY <1>1
    <3> QED BY <1>4, <2>1, <3>1
  <2> QED BY <1>5, <2>2
<1>7. F = [n \in 0..N |-> IF n = 0 THEN <<>> ELSE RestAfter(text, n, F[n-1])]
  BY <1>6, Zenon DEF Rests
<1>8. F[0] = <<>> /\ \A n \in 1..N : F[n] = After(n, F[n-1])
  <2>1. 0 \in 0..N /\ \A n \in 1..N : n \in 0..N /\ n # 0
    BY <1>1
  <2> HIDE DEF F, N
  <2> QED BY <1>7, <2>1
<1>9. \A n \in 0..N : F[n] \in Line
  <2> HIDE DEF F, After
  <2> QED BY <1>1, <1>2, <1>8, Kept
<1> QED BY <1>1, <1>7, <1>8, <1>9

(* What is before it are lines.                                            *)
LEMMA LinesAre ==
  ASSUME NEW text \in Seq(Bytes)
  PROVE  /\ Lines(text) \in [0..Len(text) -> Seq(Line)]
         /\ Lines(text)[0] = <<>>
         /\ \A n \in 1..Len(text) :
              Lines(text)[n] = LinesAfter(text, n, Lines(text)[n-1])
<1> DEFINE N == Len(text)
           After(n, x) == LinesAfter(text, n, x)
           step == [n \in 1..N |-> [x \in Seq(Line) |-> After(n, x)]]
           F == Lines(text)
<1>1. N \in Nat /\ <<>> \in Seq(Line)
  BY DEF Line
<1>2. ASSUME NEW n \in 1..N, NEW x \in Seq(Line) PROVE After(n, x) \in Seq(Line)
  <2>1. n - 1 \in 0..N
    BY <1>1
  <2>2. Rests(text)[n-1] \in Line
    BY <2>1, RestsAre
  <2> QED BY <2>2 DEF LinesAfter
<1>3. step \in [1..N -> [Seq(Line) -> Seq(Line)]]
  BY <1>2
<1>4. ASSUME NEW n \in 1..N, NEW x \in Seq(Line) PROVE step[n][x] = After(n, x)
  OBVIOUS
<1> HIDE DEF step
<1>5. PICK f \in [0..N -> Seq(Line)] : Computes(f, <<>>, step, N)
  BY <1>1, <1>3, Recursion
<1>6. f = [n \in 0..N |-> IF n = 0 THEN <<>> ELSE LinesAfter(text, n, f[n-1])]
  <2>1. f[0] = <<>> /\ \A n \in 1..N : f[n] = step[n][f[n-1]] /\ f[n-1] \in Seq(Line)
    <3>1. \A n \in 1..N : n - 1 \in 0..N
      BY <1>1
    <3> HIDE DEF N
    <3> QED BY <1>5, <3>1 DEF Computes
  <2>2. ASSUME NEW n \in 0..N PROVE f[n] = IF n = 0 THEN <<>> ELSE After(n, f[n-1])
    <3>1. n = 0 \/ n \in 1..N
      BY <1>1
    <3> QED BY <1>4, <2>1, <3>1
  <2> QED BY <1>5, <2>2
<1>7. F = [n \in 0..N |-> IF n = 0 THEN <<>> ELSE LinesAfter(text, n, F[n-1])]
  BY <1>6, Zenon DEF Lines
<1>8. F[0] = <<>> /\ \A n \in 1..N : F[n] = After(n, F[n-1])
  <2>1. 0 \in 0..N /\ \A n \in 1..N : n \in 0..N /\ n # 0
    BY <1>1
  <2> HIDE DEF F, N
  <2> QED BY <1>7, <2>1
<1>9. \A n \in 0..N : F[n] \in Seq(Line)
  <2> HIDE DEF F, After
  <2> QED BY <1>1, <1>2, <1>8, Kept
<1> QED BY <1>1, <1>7, <1>8, <1>9

(* The data of a group are lines of it.                                    *)
LEMMA DataAre ==
  ASSUME NEW group \in Seq(Line)
  PROVE  /\ DataOf(group) \in [0..Len(group) -> Seq(Line)]
         /\ DataOf(group)[0] = <<>>
         /\ \A n \in 1..Len(group) :
              DataOf(group)[n] = AddData(DataOf(group)[n-1], group[n])
<1> DEFINE N == Len(group)
           After(n, x) == AddData(x, group[n])
           step == [n \in 1..N |-> [x \in Seq(Line) |-> After(n, x)]]
           F == DataOf(group)
<1>1. N \in Nat /\ <<>> \in Seq(Line)
  BY DEF Line
<1>2. ASSUME NEW n \in 1..N, NEW x \in Seq(Line) PROVE After(n, x) \in Seq(Line)
  BY <1>1 DEF AddData
<1>3. step \in [1..N -> [Seq(Line) -> Seq(Line)]]
  BY <1>2
<1>4. ASSUME NEW n \in 1..N, NEW x \in Seq(Line) PROVE step[n][x] = After(n, x)
  OBVIOUS
<1> HIDE DEF step
<1>5. PICK f \in [0..N -> Seq(Line)] : Computes(f, <<>>, step, N)
  BY <1>1, <1>3, Recursion
<1>6. f = [n \in 0..N |-> IF n = 0 THEN <<>> ELSE AddData(f[n-1], group[n])]
  <2>1. f[0] = <<>> /\ \A n \in 1..N : f[n] = step[n][f[n-1]] /\ f[n-1] \in Seq(Line)
    <3>1. \A n \in 1..N : n - 1 \in 0..N
      BY <1>1
    <3> HIDE DEF N
    <3> QED BY <1>5, <3>1 DEF Computes
  <2>2. ASSUME NEW n \in 0..N PROVE f[n] = IF n = 0 THEN <<>> ELSE After(n, f[n-1])
    <3>1. n = 0 \/ n \in 1..N
      BY <1>1
    <3> QED BY <1>4, <2>1, <3>1
  <2> QED BY <1>5, <2>2
<1>7. F = [n \in 0..N |-> IF n = 0 THEN <<>> ELSE AddData(F[n-1], group[n])]
  BY <1>6, Zenon DEF DataOf
<1>8. F[0] = <<>> /\ \A n \in 1..N : F[n] = After(n, F[n-1])
  <2>1. 0 \in 0..N /\ \A n \in 1..N : n \in 0..N /\ n # 0
    BY <1>1
  <2> HIDE DEF F, N
  <2> QED BY <1>7, <2>1
<1>9. \A n \in 0..N : F[n] \in Seq(Line)
  <2> HIDE DEF F, After
  <2> QED BY <1>1, <1>2, <1>8, Kept
<1> QED BY <1>1, <1>7, <1>8, <1>9

(* A group makes an event, and one more line in it adds to the event what  *)
(* SSEDecoder adds.                                                        *)
LEMMA EventOfType ==
  ASSUME NEW group \in Seq(Line) PROVE EventOf(group) \in Event
<1>1. Len(group) \in 0..Len(group)
  OBVIOUS
<1>2. DataOf(group)[Len(group)] \in Seq(Line)
  BY <1>1, DataAre
<1> QED BY <1>2 DEF EventOf, Event

LEMMA NoEventOfNoLine == EventOf(<<>>) = NoEvent
<1>1. <<>> \in Seq(Line) /\ Len(<<>>) = 0
  OBVIOUS
<1>2. DataOf(<<>>)[Len(<<>>)] = <<>>
  BY <1>1, DataAre
<1>3. (\E i \in 1..Len(<<>>) : <<>>[i][1] = "E") = FALSE
  BY <1>1
<1> QED BY <1>2, <1>3, Zenon DEF EventOf, NoEvent

LEMMA LineAddsToEvent ==
  ASSUME NEW group \in Seq(Line), NEW line \in Line, line # <<>>
  PROVE  EventOf(Append(group, line)) = AddLine(EventOf(group), line)
<1> DEFINE more == Append(group, line)
           N == Len(group)
           S == {n \in 0..N : DataOf(more)[n] = DataOf(group)[n]}
<1>1. /\ more \in Seq(Line) /\ Len(more) = N + 1 /\ N \in Nat
      /\ \A i \in 1..N : more[i] = group[i]
      /\ more[N + 1] = line
  OBVIOUS
<1> HIDE DEF more
<1>2. /\ DataOf(group)[0] = <<>> /\ DataOf(more)[0] = <<>>
      /\ \A n \in 1..N : DataOf(group)[n] = AddData(DataOf(group)[n-1], group[n])
      /\ \A n \in 1..Len(more) : DataOf(more)[n] = AddData(DataOf(more)[n-1], more[n])
      /\ DataOf(group)[N] \in Seq(Line)
  <2>1. N \in 0..N
    BY <1>1
  <2> QED BY <1>1, <2>1, DataAre
<1> HIDE DEF N
<1>3. 0 \in S
  BY <1>1, <1>2
<1>4. ASSUME NEW i \in 0..(N-1), i \in S PROVE i + 1 \in S
  <2>1. i + 1 \in 1..N /\ i + 1 \in 1..Len(more) /\ (i + 1) - 1 = i
    BY <1>1
  <2>2. DataOf(more)[i+1] = AddData(DataOf(more)[i], more[i+1])
        /\ DataOf(group)[i+1] = AddData(DataOf(group)[i], group[i+1])
    BY <1>2, <2>1
  <2> QED BY <1>1, <1>4, <2>1, <2>2
<1> HIDE DEF S
<1>5. \A i \in 0..N : i \in S
  BY <1>1, <1>3, <1>4, Induct
<1>6. DataOf(more)[N] = DataOf(group)[N]
  BY <1>1, <1>5 DEF S
<1>7. DataOf(more)[N+1] = AddData(DataOf(group)[N], line)
  <2>1. N + 1 \in 1..Len(more) /\ (N + 1) - 1 = N
    BY <1>1
  <2>2. DataOf(more)[N+1] = AddData(DataOf(more)[N], more[N+1])
    BY <1>2, <2>1
  <2> QED BY <1>1, <1>6, <2>2
<1>8. (\E i \in 1..Len(more) : more[i][1] = "E")
        <=> (\E i \in 1..N : group[i][1] = "E") \/ line[1] = "E"
  <2>1. \A i \in 1..Len(more) : i \in 1..N \/ i = N + 1
    BY <1>1
  <2>2. N + 1 \in 1..Len(more) /\ \A i \in 1..N : i \in 1..Len(more)
    BY <1>1
  <2> QED BY <1>1, <2>1, <2>2
<1> DEFINE wasError == \E i \in 1..N : group[i][1] = "E"
           isError == \E i \in 1..Len(more) : more[i][1] = "E"
           had == DataOf(group)[N]
<1>9. EventOf(more) = [isError |-> isError, data |-> AddData(had, line)]
  BY <1>1, <1>7, Zenon DEF EventOf
<1>10. EventOf(group) = [isError |-> wasError, data |-> had]
  BY Zenon DEF EventOf, N
<1>11. wasError \in BOOLEAN /\ isError \in BOOLEAN
  OBVIOUS
<1>12. isError = (wasError \/ line[1] = "E")
  BY <1>8
<1> HIDE DEF wasError, isError, had
<1>13. CASE line[1] = "E"
  <2>1. AddData(had, line) = had /\ isError = TRUE
    BY <1>11, <1>12, <1>13 DEF AddData
  <2>2. AddLine(EventOf(group), line) = [EventOf(group) EXCEPT !.isError = TRUE]
    BY <1>13 DEF AddLine
  <2>3. [EventOf(group) EXCEPT !.isError = TRUE] = [isError |-> TRUE, data |-> had]
    <3>1. \A is : [[isError |-> wasError, data |-> had] EXCEPT !.isError = is]
                   = [isError |-> is, data |-> had]
      OBVIOUS
    <3> QED BY <1>10, <3>1, Zenon
  <2> QED BY <1>9, <2>1, <2>2, <2>3, Zenon DEF more
<1>14. CASE line[1] \in {"d", "D"}
  <2>1. AddData(had, line) = Append(had, line) /\ isError = wasError
    BY <1>11, <1>12, <1>14 DEF AddData
  <2>2. AddLine(EventOf(group), line) = [EventOf(group) EXCEPT !.data = Append(@, line)]
    BY <1>14 DEF AddLine
  <2>3. [EventOf(group) EXCEPT !.data = Append(@, line)]
          = [isError |-> wasError, data |-> Append(had, line)]
    <3>1. [[isError |-> wasError, data |-> had] EXCEPT !.data = Append(@, line)]
            = [isError |-> wasError, data |-> Append(had, line)]
      OBVIOUS
    <3> QED BY <1>10, <3>1, Zenon
  <2> QED BY <1>9, <2>1, <2>2, <2>3, Zenon DEF more
<1>15. CASE line[1] \notin {"E", "d", "D"}
  <2>1. AddData(had, line) = had /\ isError = wasError
    BY <1>11, <1>12, <1>15 DEF AddData
  <2>2. AddLine(EventOf(group), line) = EventOf(group)
    BY <1>15 DEF AddLine
  <2> QED BY <1>9, <1>10, <2>1, <2>2 DEF more
<1> QED BY <1>13, <1>14, <1>15

(* Where a reading of lines stands.                                        *)
Standing == [group : Seq(Line), items : Seq(Seq(Line)), over : {"no", "done", "throws"}]

LEMMA AfterLineType ==
  ASSUME NEW line \in Line, NEW so \in Standing
  PROVE  AfterLine(line, so) \in Standing
<1>1. EventOf(so.group) \in Event
  BY EventOfType DEF Standing
<1>2. EventOf(so.group).data \in Seq(Line)
  BY <1>1 DEF Event
<1>3. Meaning(EventOf(so.group)) \in {"done", "throws", "item"}
  BY DEF Meaning
<1>4. /\ so = [group |-> so.group, items |-> so.items, over |-> so.over]
      /\ so.group \in Seq(Line) /\ so.items \in Seq(Seq(Line))
      /\ so.over \in {"no", "done", "throws"}
  BY DEF Standing
<1> DEFINE ev == EventOf(so.group)
<1> HIDE DEF ev
<1>5. \/ AfterEvent(ev, so) = [group |-> <<>>, items |-> so.items, over |-> so.over]
      \/ AfterEvent(ev, so) = [group |-> <<>>, items |-> Append(so.items, ev.data), over |-> so.over]
      \/ /\ AfterEvent(ev, so) = [group |-> <<>>, items |-> so.items, over |-> Meaning(ev)]
         /\ Meaning(ev) \in {"done", "throws"}
  BY <1>3, <1>4 DEF AfterEvent, ev
<1>6. AfterEvent(ev, so) \in Standing
  <2>1. <<>> \in Seq(Line) /\ Append(so.items, ev.data) \in Seq(Seq(Line))
    BY <1>2, <1>4 DEF ev
  <2>2. \A items \in Seq(Seq(Line)), over \in {"no", "done", "throws"} :
          [group |-> <<>>, items |-> items, over |-> over] \in Standing
    BY <2>1 DEF Standing
  <2> QED BY <1>4, <1>5, <2>1, <2>2
<1>7. line # <<>> => AfterLine(line, so) \in Standing
  <2>1. Append(so.group, line) \in Seq(Line)
    BY <1>4
  <2>2. line # <<>> => AfterLine(line, so) = [group |-> Append(so.group, line), items |-> so.items, over |-> so.over]
    BY <1>4 DEF AfterLine
  <2> QED BY <1>4, <2>1, <2>2 DEF Standing
<1> QED BY <1>6, <1>7 DEF AfterLine, ev

(* A reading of lines stands somewhere after each of them.                 *)
LEMMA ReadingsStand ==
  ASSUME NEW ls \in Seq(Line)
  PROVE  /\ Reading(ls) \in [0..Len(ls) -> Standing]
         /\ Reading(ls)[0] = NothingRead
         /\ \A n \in 1..Len(ls) :
              Reading(ls)[n] = AfterLine(ls[n], Reading(ls)[n-1])
<1> DEFINE N == Len(ls)
           After(n, x) == AfterLine(ls[n], x)
           step == [n \in 1..N |-> [x \in Standing |-> After(n, x)]]
           F == Reading(ls)
<1>1. N \in Nat /\ NothingRead \in Standing
  BY DEF Line, Standing, NothingRead
<1>2. ASSUME NEW n \in 1..N, NEW x \in Standing PROVE After(n, x) \in Standing
  BY <1>1, AfterLineType
<1>3. step \in [1..N -> [Standing -> Standing]]
  BY <1>2
<1>4. ASSUME NEW n \in 1..N, NEW x \in Standing PROVE step[n][x] = After(n, x)
  OBVIOUS
<1> HIDE DEF step
<1>5. PICK f \in [0..N -> Standing] : Computes(f, NothingRead, step, N)
  BY <1>1, <1>3, Recursion
<1>6. f = [n \in 0..N |-> IF n = 0 THEN NothingRead ELSE AfterLine(ls[n], f[n-1])]
  <2>1. f[0] = NothingRead /\ \A n \in 1..N : f[n] = step[n][f[n-1]] /\ f[n-1] \in Standing
    <3>1. \A n \in 1..N : n - 1 \in 0..N
      BY <1>1
    <3> HIDE DEF N
    <3> QED BY <1>5, <3>1 DEF Computes
  <2>2. ASSUME NEW n \in 0..N PROVE f[n] = IF n = 0 THEN NothingRead ELSE After(n, f[n-1])
    <3>1. n = 0 \/ n \in 1..N
      BY <1>1
    <3> QED BY <1>4, <2>1, <3>1
  <2> QED BY <1>5, <2>2
<1>7. F = [n \in 0..N |-> IF n = 0 THEN NothingRead ELSE AfterLine(ls[n], F[n-1])]
  BY <1>6, Zenon DEF Reading
<1>8. F[0] = NothingRead /\ \A n \in 1..N : F[n] = After(n, F[n-1])
  <2>1. 0 \in 0..N /\ \A n \in 1..N : n \in 0..N /\ n # 0
    BY <1>1
  <2> HIDE DEF F, N
  <2> QED BY <1>7, <2>1
<1>9. \A n \in 0..N : F[n] \in Standing
  <2> HIDE DEF F, After
  <2> QED BY <1>1, <1>2, <1>8, Kept
<1> QED BY <1>1, <1>7, <1>8, <1>9

-----------------------------------------------------------------------------
(* What is decoded or read is never taken back.                            *)
Extends(t, s) == Len(s) <= Len(t) /\ \A j \in 1..Len(s) : t[j] = s[j]

LEMMA Grows ==
  ASSUME NEW n \in Nat, NEW St, NEW f, \A i \in 0..n : f[i] \in Seq(St),
         \A i \in 1..n : Extends(f[i], f[i-1])
  PROVE  \A i \in 0..n : \A m \in 0..i : Extends(f[i], f[m])
<1> DEFINE S == {i \in 0..n : \A m \in 0..i : Extends(f[i], f[m])}
<1>1. \A i \in 0..n : Extends(f[i], f[i])
  BY DEF Extends
<1>2. 0 \in S
  BY <1>1
<1>3. ASSUME NEW i \in 0..(n-1), i \in S PROVE i + 1 \in S
  <2>1. i + 1 \in 1..n /\ i + 1 \in 0..n /\ (i + 1) - 1 = i /\ i \in 0..n
    OBVIOUS
  <2>2. Extends(f[i+1], f[i])
    BY <2>1
  <2>3. ASSUME NEW m \in 0..(i+1) PROVE Extends(f[i+1], f[m])
    <3>1. CASE m = i + 1
      BY <1>1, <2>1, <3>1
    <3>2. CASE m # i + 1
      <4>1. m \in 0..i /\ m \in 0..n
        BY <3>2
      <4>2. Extends(f[i], f[m])
        BY <1>3, <4>1
      <4>3. f[i] \in Seq(St) /\ f[m] \in Seq(St) /\ f[i+1] \in Seq(St)
        BY <2>1, <4>1
      <4> QED BY <2>2, <4>2, <4>3 DEF Extends
    <3> QED BY <3>1, <3>2
  <2> QED BY <2>1, <2>3
<1> HIDE DEF S
<1>4. \A i \in 0..n : i \in S
  BY <1>2, <1>3, Induct
<1> QED BY <1>4 DEF S

LEMMA LinesGrow ==
  ASSUME NEW text \in Seq(Bytes), NEW n \in 0..Len(text), NEW m \in 0..n
  PROVE  Extends(Lines(text)[n], Lines(text)[m])
<1> DEFINE f == Lines(text)
           N == Len(text)
<1>1. N \in Nat /\ \A i \in 0..N : f[i] \in Seq(Line)
  BY LinesAre
<1>2. ASSUME NEW i \in 1..N PROVE Extends(f[i], f[i-1])
  <2>1. f[i] = LinesAfter(text, i, f[i-1])
    BY LinesAre
  <2>2. f[i-1] \in Seq(Line)
    BY <1>1
  <2>3. f[i] = f[i-1] \/ f[i] = Append(f[i-1], Rests(text)[i-1])
    BY <2>1 DEF LinesAfter
  <2> HIDE DEF f
  <2> QED BY <2>2, <2>3 DEF Extends
<1> HIDE DEF f, N
<1>3. \A i \in 0..N : \A j \in 0..i : Extends(f[i], f[j])
  BY <1>1, <1>2, Grows
<1> QED BY <1>3 DEF f, N

LEMMA ItemsGrow ==
  ASSUME NEW ls \in Seq(Line), NEW n \in 0..Len(ls), NEW m \in 0..n
  PROVE  Extends(Reading(ls)[n].items, Reading(ls)[m].items)
<1> DEFINE N == Len(ls)
           f == [i \in 0..N |-> Reading(ls)[i].items]
<1>1. N \in Nat /\ \A i \in 0..N : Reading(ls)[i] \in Standing
  BY ReadingsStand
<1>2. \A i \in 0..N : f[i] = Reading(ls)[i].items /\ f[i] \in Seq(Seq(Line))
  BY <1>1 DEF Standing
<1>3. ASSUME NEW i \in 1..N PROVE Extends(f[i], f[i-1])
  <2>1. i - 1 \in 0..N /\ i \in 0..N
    BY <1>1
  <2>2. Reading(ls)[i] = AfterLine(ls[i], Reading(ls)[i-1])
    BY ReadingsStand
  <2> DEFINE so == Reading(ls)[i-1]
  <2>3. so \in Standing
    BY <1>1, <2>1
  <2>4. AfterLine(ls[i], so).items \in {so.items, Append(so.items, EventOf(so.group).data)}
    <3> HIDE DEF so
    <3> QED BY <2>3 DEF AfterLine, AfterEvent, Standing
  <2>5. f[i] \in {f[i-1], Append(f[i-1], EventOf(so.group).data)} /\ f[i-1] \in Seq(Seq(Line))
    <3> HIDE DEF f
    <3> QED BY <1>2, <2>1, <2>2, <2>4
  <2> HIDE DEF f, so
  <2> QED BY <2>5 DEF Extends
<1> HIDE DEF f
<1>4. \A i \in 0..N : \A j \in 0..i : Extends(f[i], f[j])
  <2> HIDE DEF N
  <2> QED BY <1>1, <1>2, <1>3, Grows
<1>5. m \in 0..N
  BY <1>1
<1> QED BY <1>2, <1>4, <1>5

LEMMA ExtendedIsPrefix ==
  ASSUME NEW St, NEW s \in Seq(St), NEW t \in Seq(St), Extends(t, s)
  PROVE  IsPrefix(s, t)
BY DEF Extends, IsPrefix

-----------------------------------------------------------------------------
(* LineDecoder: a line that was held goes on with the text of the next     *)
(* chunk, and with it the lines of the chunks are those of the whole body. *)
Glued(rest, full) ==
  IF full = <<>> THEN <<>> ELSE <<rest \o full[1]>> \o Tail(full)
GluedRest(rest, full, next) == IF full = <<>> THEN rest \o next ELSE next

LEMMA GluedType ==
  ASSUME NEW rest \in Line, NEW full \in Seq(Line), NEW next \in Line
  PROVE  Glued(rest, full) \in Seq(Line) /\ GluedRest(rest, full, next) \in Line
<1>1. rest \o next \in Line
  BY DEF Line
<1>2. ASSUME full # <<>> PROVE Glued(rest, full) \in Seq(Line)
  <2>1. full[1] \in Line /\ Tail(full) \in Seq(Line)
    BY <1>2, HeadTailProperties
  <2>2. rest \o full[1] \in Line
    BY <2>1 DEF Line
  <2>3. <<rest \o full[1]>> \in Seq(Line)
    BY <2>2
  <2> QED BY <1>2, <2>1, <2>3 DEF Glued
<1> QED BY <1>1, <1>2 DEF Glued, GluedRest

LEMMA GluedAppend ==
  ASSUME NEW rest \in Line, NEW full \in Seq(Line), NEW next \in Line
  PROVE  Glued(rest, Append(full, next)) = Append(Glued(rest, full), GluedRest(rest, full, next))
<1> DEFINE more == Append(full, next)
<1>1. more \in Seq(Line) /\ more # <<>> /\ Len(more) = Len(full) + 1 /\ Len(full) \in Nat
      /\ more[Len(full) + 1] = next /\ \A i \in 1..Len(full) : more[i] = full[i]
  OBVIOUS
<1>2. Tail(more) \in Seq(Line) /\ Len(Tail(more)) = Len(full)
      /\ \A i \in 1..Len(full) : Tail(more)[i] = more[i + 1]
  <2> HIDE DEF more
  <2> QED BY <1>1, HeadTailProperties
<1>3. CASE full = <<>>
  <2>1. Len(full) = 0
    BY <1>3
  <2>2. Tail(more) = <<>>
    <3> HIDE DEF more
    <3> QED BY <1>2, <2>1, EmptySeq
  <2>3. more[1] = next
    BY <1>1, <2>1
  <2>4. Glued(rest, more) = <<rest \o next>> \o <<>>
    BY <1>1, <2>2, <2>3 DEF Glued
  <2>5. rest \o next \in Line
    BY DEF Line
  <2>6. <<rest \o next>> \o <<>> = Append(<<>>, rest \o next)
    BY <2>5
  <2> QED BY <1>3, <2>4, <2>6 DEF Glued, GluedRest
<1>4. CASE full # <<>>
  <2> DEFINE first == rest \o full[1]
  <2>1. full[1] \in Line /\ Len(full) >= 1 /\ Tail(full) \in Seq(Line)
        /\ Len(Tail(full)) = Len(full) - 1
        /\ \A i \in 1..(Len(full) - 1) : Tail(full)[i] = full[i + 1]
    BY <1>4, HeadTailProperties
  <2>2. first \in Line
    BY <2>1 DEF Line
  <2>3. Glued(rest, more) = <<first>> \o Tail(more)
    <3>1. more[1] = full[1]
      BY <1>1, <2>1
    <3> QED BY <1>1, <3>1 DEF Glued
  <2>4. Glued(rest, full) = <<first>> \o Tail(full) /\ GluedRest(rest, full, next) = next
    BY <1>4 DEF Glued, GluedRest
  <2> HIDE DEF first, more
  <2>5. Tail(more) = Append(Tail(full), next)
    <3>1. Len(Append(Tail(full), next)) = Len(full) /\ Append(Tail(full), next) \in Seq(Line)
      BY <2>1
    <3>2. ASSUME NEW i \in 1..Len(full) PROVE Tail(more)[i] = Append(Tail(full), next)[i]
      <4>1. CASE i = Len(full)
        BY <1>1, <1>2, <2>1, <4>1
      <4>2. CASE i # Len(full)
        BY <1>1, <1>2, <2>1, <4>2
      <4> QED BY <4>1, <4>2
    <3> QED BY <1>2, <3>1, <3>2, SeqEqual
  <2>6. <<first>> \o Append(Tail(full), next) = Append(<<first>> \o Tail(full), next)
    <3>1. <<first>> \in Seq(Line) /\ Len(<<first>>) = 1
      BY <2>2
    <3> QED BY <2>1, <3>1
  <2> QED BY <2>3, <2>4, <2>5, <2>6 DEF more
<1> QED BY <1>3, <1>4

LEMMA AppendToConcat ==
  ASSUME NEW St, NEW s \in Seq(St), NEW t \in Seq(St), NEW e \in St
  PROVE  s \o Append(t, e) = Append(s \o t, e) /\ Append(t, e) # <<>>
<1>1. s \o Append(t, e) \in Seq(St) /\ Append(s \o t, e) \in Seq(St)
  OBVIOUS
<1>2. Len(s \o Append(t, e)) = Len(Append(s \o t, e))
  OBVIOUS
<1>3. \A i \in 1..Len(s \o Append(t, e)) : (s \o Append(t, e))[i] = Append(s \o t, e)[i]
  OBVIOUS
<1>4. Len(Append(t, e)) = Len(t) + 1 /\ Len(t) \in Nat /\ Len(<<>>) = 0
  OBVIOUS
<1>5. Append(t, e) # <<>>
  BY <1>4
<1> QED BY <1>1, <1>2, <1>3, <1>5, SeqEqual

(* A piece of a text in which lines end where they end in the text.        *)
LEMMA PieceOfText ==
  ASSUME NEW text \in Seq(Bytes), NEW c \in 0..Len(text), NEW m \in c..Len(text),
         \A i \in 1..(m - c) :
           IsLineEnd(SubSeq(text, c + 1, m), i) <=> IsLineEnd(text, c + i)
  PROVE  LET piece == Split(SubSeq(text, c + 1, m))
         IN /\ piece.full \in Seq(Line) /\ piece.rest \in Line
            /\ Lines(text)[m] = Lines(text)[c] \o Glued(Rests(text)[c], piece.full)
            /\ Rests(text)[m] = GluedRest(Rests(text)[c], piece.full, piece.rest)
<1> DEFINE piece == SubSeq(text, c + 1, m)
           n == m - c
           R == Rests(text)
           L == Lines(text)
           r == Rests(piece)
           l == Lines(piece)
           Same(i) == /\ L[c + i] = L[c] \o Glued(R[c], l[i])
                      /\ R[c + i] = GluedRest(R[c], l[i], r[i])
           S == {i \in 0..n : Same(i)}
<1>1. /\ n \in Nat /\ c \in Nat /\ m \in Nat /\ piece \in Seq(Bytes) /\ Len(piece) = n
      /\ \A i \in 1..n : piece[i] = text[c + i]
  <2>1. n \in Nat /\ c \in Nat /\ m \in Nat
    OBVIOUS
  <2>2. \A i \in (c + 1)..m : text[i] \in Bytes
    OBVIOUS
  <2>3. /\ piece \in Seq(Bytes) /\ Len(piece) = IF c + 1 <= m THEN m - (c + 1) + 1 ELSE 0
        /\ \A i \in 1..(m - (c + 1) + 1) : piece[i] = text[(c + 1) + i - 1]
    <3>1. c + 1 \in Int /\ m \in Int
      BY <2>1
    <3> QED BY <2>2, <3>1, SubSeqProperties
  <2> HIDE DEF piece
  <2>4. \A i \in 1..n : i \in 1..(m - (c + 1) + 1) /\ (c + 1) + i - 1 = c + i
    BY <2>1
  <2>5. (IF c + 1 <= m THEN m - (c + 1) + 1 ELSE 0) = n
    BY <2>1
  <2> QED BY <2>1, <2>3, <2>4, <2>5
<1>2. \A i \in 1..n : IsLineEnd(piece, i) <=> IsLineEnd(text, c + i)
  OBVIOUS
<1> HIDE DEF piece
<1>3. /\ r[0] = <<>> /\ l[0] = <<>>
      /\ \A i \in 0..n : r[i] \in Line /\ l[i] \in Seq(Line)
      /\ \A i \in 1..n : r[i] = RestAfter(piece, i, r[i-1]) /\ l[i] = LinesAfter(piece, i, l[i-1])
  BY <1>1, RestsAre, LinesAre
<1>4. R[c] \in Line /\ L[c] \in Seq(Line)
  BY RestsAre, LinesAre
<1>5. \A i \in 1..n : /\ R[c + i] = RestAfter(text, c + i, R[c + i - 1])
                      /\ L[c + i] = LinesAfter(text, c + i, L[c + i - 1])
  <2>1. \A i \in 1..n : c + i \in 1..Len(text)
    BY <1>1
  <2> QED BY <2>1, RestsAre, LinesAre
<1>6. \A t, v \in Line : \A e \in Letters : t \o Append(v, e) = Append(t \o v, e)
  BY AppendToConcat DEF Line
<1>7. \A t, v \in Seq(Line) : \A e \in Line : t \o Append(v, e) = Append(t \o v, e)
  BY AppendToConcat
<1>8. \A v \in Seq(Line) : \A e \in Line : Append(v, e) # <<>>
  BY AppendToConcat
<1>9. 0 \in S
  <2>1. Glued(R[c], <<>>) = <<>> /\ GluedRest(R[c], <<>>, <<>>) = R[c] \o <<>>
    BY DEF Glued, GluedRest
  <2>2. R[c] \o <<>> = R[c] /\ L[c] \o <<>> = L[c] /\ c + 0 = c
    BY <1>1, <1>4, ConcatEmptySeq DEF Line
  <2>3. Same(0)
    BY <1>3, <2>1, <2>2
  <2>4. 0 \in 0..n
    BY <1>1
  <2> HIDE DEF Same, n
  <2> QED BY <2>3, <2>4
<1>10. ASSUME NEW i \in 0..(n-1), i \in S PROVE i + 1 \in S
  <2>1. /\ i + 1 \in 1..n /\ i + 1 \in 0..n /\ i \in 0..n
        /\ (i + 1) - 1 = i /\ c + (i + 1) - 1 = c + i
    BY <1>1
  <2> DEFINE b == text[c + (i + 1)]
             x == Glued(R[c], l[i])
             y == GluedRest(R[c], l[i], r[i])
  <2>2. /\ r[i+1] = RestAfter(piece, i + 1, r[i]) /\ l[i+1] = LinesAfter(piece, i + 1, l[i])
        /\ R[c + (i + 1)] = RestAfter(text, c + (i + 1), R[c + i])
        /\ L[c + (i + 1)] = LinesAfter(text, c + (i + 1), L[c + i])
        /\ piece[i + 1] = b
        /\ IsLineEnd(piece, i + 1) <=> IsLineEnd(text, c + (i + 1))
    BY <1>1, <1>2, <1>3, <1>5, <2>1
  <2>3. r[i] \in Line /\ l[i] \in Seq(Line) /\ L[c + i] = L[c] \o x /\ R[c + i] = y
    BY <1>3, <1>10, <2>1
  <2>4. x \in Seq(Line) /\ y \in Line
    BY <1>4, <2>3, GluedType
  <2>5. Glued(R[c], Append(l[i], r[i])) = Append(x, y)
    BY <1>4, <2>3, GluedAppend
  <2> HIDE DEF x, y, r, l, R, L
  <2>6. CASE b \in Letters
    <3>1. ~IsLineEnd(piece, i + 1)
      BY <2>2, <2>6 DEF IsLineEnd, Letters, LF, CR
    <3>2. r[i+1] = Append(r[i], b) /\ l[i+1] = l[i]
      BY <2>2, <2>6, <3>1 DEF RestAfter, LinesAfter
    <3>3. R[c + (i + 1)] = Append(y, b) /\ L[c + (i + 1)] = L[c] \o x
      BY <2>2, <2>3, <2>6, <3>1 DEF RestAfter, LinesAfter
    <3>4. GluedRest(R[c], l[i], Append(r[i], b)) = Append(y, b)
      <4>1. R[c] \o Append(r[i], b) = Append(R[c] \o r[i], b)
        BY <1>4, <1>6, <2>3, <2>6
      <4> QED BY <4>1 DEF GluedRest, y
    <3> QED BY <2>1, <3>2, <3>3, <3>4 DEF x
  <2>7. CASE IsLineEnd(text, c + (i + 1))
    <3>1. b \notin Letters
      BY <2>7 DEF IsLineEnd, Letters, LF, CR
    <3>2. r[i+1] = <<>> /\ l[i+1] = Append(l[i], r[i])
      <4>1. r[i+1] = <<>>
        BY <2>2, <2>7, <3>1 DEF RestAfter
      <4>2. LinesAfter(piece, i + 1, l[i]) = Append(l[i], Rests(piece)[i + 1 - 1])
        BY <2>2, <2>7 DEF LinesAfter
      <4>3. Rests(piece)[i + 1 - 1] = r[i]
        BY <2>1 DEF r
      <4> QED BY <2>2, <4>1, <4>2, <4>3
    <3>3. R[c + (i + 1)] = <<>> /\ L[c + (i + 1)] = Append(L[c] \o x, Rests(text)[c + i])
      <4>1. R[c + (i + 1)] = <<>>
        BY <2>2, <2>7, <3>1 DEF RestAfter
      <4>2. LinesAfter(text, c + (i + 1), L[c + i]) = Append(L[c + i], Rests(text)[c + (i + 1) - 1])
        BY <2>7 DEF LinesAfter
      <4> QED BY <2>1, <2>2, <2>3, <4>1, <4>2
    <3>4. Rests(text)[c + i] = y
      BY <2>3 DEF R
    <3>5. GluedRest(R[c], l[i+1], r[i+1]) = <<>>
      <4>1. l[i+1] # <<>>
        BY <1>8, <2>3, <3>2
      <4> QED BY <3>2, <4>1 DEF GluedRest
    <3>6. L[c] \o Append(x, y) = Append(L[c] \o x, y)
      BY <1>4, <1>7, <2>4
    <3> QED BY <2>1, <2>5, <3>2, <3>3, <3>4, <3>5, <3>6
  <2>8. CASE b \notin Letters /\ ~IsLineEnd(text, c + (i + 1))
    BY <2>1, <2>2, <2>3, <2>8 DEF RestAfter, LinesAfter, x, y
  <2> QED BY <2>6, <2>7, <2>8
<1> HIDE DEF S
<1>11. \A i \in 0..n : i \in S
  BY <1>1, <1>9, <1>10, Induct
<1>12. n \in S /\ c + n = m /\ n \in 0..n
  BY <1>1, <1>11
<1>13. Same(n)
  BY <1>12 DEF S
<1>14. Split(piece) = [full |-> l[n], rest |-> r[n]]
  BY <1>1 DEF Split
<1>15. r[n] \in Line /\ l[n] \in Seq(Line)
  BY <1>3, <1>12
<1>16. /\ Split(piece).full \in Seq(Line) /\ Split(piece).rest \in Line
       /\ Lines(text)[m] = Lines(text)[c] \o Glued(Rests(text)[c], Split(piece).full)
       /\ Rests(text)[m] = GluedRest(Rests(text)[c], Split(piece).full, Split(piece).rest)
  <2>1. Split(piece).full = l[n] /\ Split(piece).rest = r[n]
    BY <1>14
  <2>2. Lines(text)[m] = L[c] \o Glued(R[c], l[n]) /\ Rests(text)[m] = GluedRest(R[c], l[n], r[n])
    <3> HIDE DEF r, l, n
    <3> QED BY <1>12, <1>13
  <2> QED BY <1>15, <2>1, <2>2
<1> QED BY <1>16 DEF piece

LEMMA Piece ==
  ASSUME NEW text \in Seq(Bytes), NEW c \in 0..Len(text), NEW m \in c..Len(text)
  PROVE  /\ SubSeq(text, c + 1, m) \in Seq(Bytes) /\ Len(SubSeq(text, c + 1, m)) = m - c
         /\ \A i \in 1..(m - c) : SubSeq(text, c + 1, m)[i] = text[c + i]
<1>1. c \in Nat /\ m \in Nat /\ m - c \in Nat
  OBVIOUS
<1>2. \A i \in (c + 1)..m : text[i] \in Bytes
  OBVIOUS
<1>3. /\ SubSeq(text, c + 1, m) \in Seq(Bytes)
      /\ Len(SubSeq(text, c + 1, m)) = IF c + 1 <= m THEN m - (c + 1) + 1 ELSE 0
      /\ \A i \in 1..(m - (c + 1) + 1) : SubSeq(text, c + 1, m)[i] = text[(c + 1) + i - 1]
  <2>1. c + 1 \in Int /\ m \in Int
    BY <1>1
  <2> QED BY <1>2, <2>1, SubSeqProperties
<1>4. \A i \in 1..(m - c) : i \in 1..(m - (c + 1) + 1) /\ (c + 1) + i - 1 = c + i
  BY <1>1
<1>5. (IF c + 1 <= m THEN m - (c + 1) + 1 ELSE 0) = m - c
  BY <1>1
<1> QED BY <1>3, <1>4, <1>5

(* A piece that is not cut between a CR and what follows it.               *)
LEMMA LinesEndAlike ==
  ASSUME NEW text \in Seq(Bytes), NEW c \in 0..Len(text), NEW m \in c..Len(text),
         m > c => text[m] # CR \/ (m < Len(text) /\ text[m + 1] = CR)
  PROVE  \A i \in 1..(m - c) :
           IsLineEnd(SubSeq(text, c + 1, m), i) <=> IsLineEnd(text, c + i)
<1> SUFFICES ASSUME NEW i \in 1..(m - c)
             PROVE  IsLineEnd(SubSeq(text, c + 1, m), i) <=> IsLineEnd(text, c + i)
  OBVIOUS
<1> DEFINE piece == SubSeq(text, c + 1, m)
<1>1. /\ Len(piece) = m - c /\ piece[i] = text[c + i]
      /\ i < m - c => piece[i + 1] = text[c + i + 1]
  <2>1. i < m - c => i + 1 \in 1..(m - c) /\ c + (i + 1) = c + i + 1
    OBVIOUS
  <2> QED BY <2>1, Piece
<1>2. c \in Nat /\ m \in Nat /\ Len(text) \in Nat /\ m > c
  OBVIOUS
<1> HIDE DEF piece
<1>3. CASE i < m - c
  <2>1. c + i < Len(text)
    BY <1>2, <1>3
  <2> QED BY <1>1, <1>2, <1>3, <2>1 DEF IsLineEnd, piece
<1>4. CASE i = m - c
  <2>1. c + i = m /\ ~(i < Len(piece))
    BY <1>1, <1>2, <1>4
  <2>2. text[m] = CR => ~(m < Len(text) /\ text[m + 1] = LF)
    BY <1>2 DEF CR, LF
  <2> QED BY <1>1, <2>1, <2>2 DEF IsLineEnd, piece
<1> QED BY <1>2, <1>3, <1>4

(* The decoder stands at the end of a chunk, or before the CR that ends it. *)
End(st, m) == IF st.trailingCR THEN m - 1 ELSE m

DecodesTo(text, from, m, st) ==
  /\ st.trailingCR \in BOOLEAN /\ (st.trailingCR => m > 0 /\ text[m] = CR)
  /\ End(st, m) \in from..Len(text) /\ st.full \in Seq(Line)
  /\ st.held = Rests(text)[End(st, m)]
  /\ Lines(text)[End(st, m)] = Lines(text)[from] \o st.full

(* LineDecoder.decode of the chunk behind the first c bytes.               *)
LEMMA DecodesOn ==
  ASSUME NEW text \in Seq(Bytes), NEW c \in 0..Len(text), NEW m \in c..Len(text),
         NEW cr \in BOOLEAN, cr => c > 0 /\ text[c] = CR,
         NEW from, from = IF cr THEN c - 1 ELSE c,
         NEW st, st = DecodeText(SubSeq(text, c + 1, m),
                                 [held |-> Rests(text)[from], trailingCR |-> cr])
  PROVE  DecodesTo(text, from, m, st)
<1> DEFINE chunk == SubSeq(text, c + 1, m)
           all == (IF cr THEN <<CR>> ELSE <<>>) \o chunk
           last == all # <<>> /\ Last(all) = CR
           to == IF last THEN m - 1 ELSE m
           now == IF last THEN Front(all) ELSE all
           h == Rests(text)[from]
           s == Split(now)
<1>1. from \in 0..Len(text) /\ from <= m /\ from \in Nat /\ m \in Nat /\ m \in from..Len(text)
  OBVIOUS
<1>2. all = SubSeq(text, from + 1, m)
  <2>1. chunk \in Seq(Bytes) /\ Len(chunk) = m - c
        /\ \A i \in 1..(m - c) : chunk[i] = text[c + i]
    BY Piece
  <2> HIDE DEF chunk
  <2>2. CASE ~cr
    <3>1. all = chunk
      BY <2>1, <2>2, ConcatEmptySeq
    <3> QED BY <2>2, <3>1 DEF chunk
  <2>3. CASE cr
    <3>1. SubSeq(text, from + 1, m) \in Seq(Bytes) /\ Len(SubSeq(text, from + 1, m)) = m - from
          /\ \A i \in 1..(m - from) : SubSeq(text, from + 1, m)[i] = text[from + i]
      BY <1>1, Piece
    <3>2. <<CR>> \in Seq(Bytes) /\ Len(<<CR>>) = 1 /\ <<CR>>[1] = CR
      BY DEF Bytes
    <3>3. all \in Seq(Bytes) /\ Len(all) = 1 + (m - c)
          /\ \A i \in 1..(1 + (m - c)) : all[i] = IF i <= 1 THEN CR ELSE chunk[i - 1]
      <4>1. all = <<CR>> \o chunk
        BY <2>3
      <4>2. /\ <<CR>> \o chunk \in Seq(Bytes)
            /\ Len(<<CR>> \o chunk) = Len(<<CR>>) + Len(chunk)
            /\ \A i \in 1..(Len(<<CR>>) + Len(chunk)) :
                 (<<CR>> \o chunk)[i]
                   = IF i <= Len(<<CR>>) THEN <<CR>>[i] ELSE chunk[i - Len(<<CR>>)]
        BY <2>1, <3>2, ConcatProperties
      <4>3. \A i \in 1..(1 + (m - c)) : i <= 1 => i = 1
        OBVIOUS
      <4> HIDE DEF all
      <4> QED BY <2>1, <3>2, <4>1, <4>2, <4>3
    <3> HIDE DEF all
    <3>4. Len(all) = m - from
      BY <2>3, <3>3
    <3>5. ASSUME NEW i \in 1..Len(all) PROVE all[i] = SubSeq(text, from + 1, m)[i]
      <4>1. SubSeq(text, from + 1, m)[i] = text[from + i]
        BY <3>1, <3>4, <3>5
      <4>2. CASE i = 1
        BY <2>3, <3>3, <4>1, <4>2
      <4>3. CASE i # 1
        <5>1. i \in 1..(1 + (m - c)) /\ ~(i <= 1)
          BY <1>1, <3>3, <4>3
        <5>2. i - 1 \in 1..(m - c) /\ c + (i - 1) = from + i
          BY <1>1, <2>3, <5>1
        <5>3. all[i] = chunk[i - 1]
          BY <3>3, <5>1
        <5> QED BY <2>1, <4>1, <5>2, <5>3
      <4> QED BY <4>2, <4>3
    <3> QED BY <3>1, <3>3, <3>4, <3>5, SeqEqual
  <2> QED BY <2>2, <2>3
<1> HIDE DEF all, chunk
<1>3. /\ all \in Seq(Bytes) /\ Len(all) = m - from
      /\ \A i \in 1..(m - from) : all[i] = text[from + i]
  BY <1>1, <1>2, Piece
<1>4. last <=> m > from /\ text[m] = CR
  <2>1. all # <<>> <=> m > from
    BY <1>1, <1>3, EmptySeq
  <2>2. m > from => Last(all) = text[m]
    <3>1. m > from => m - from \in 1..(m - from) /\ from + (m - from) = m
      BY <1>1
    <3> QED BY <1>3, <3>1 DEF Last
  <2> QED BY <2>1, <2>2
<1>5. to \in from..Len(text)
  BY <1>1, <1>4
<1>6. now = SubSeq(text, from + 1, to)
  <2>1. CASE ~last
    BY <1>2, <2>1
  <2>2. CASE last
    <3>1. now = SubSeq(all, 1, m - from - 1) /\ to = m - 1
      BY <1>3, <2>2 DEF Front
    <3>2. m > from
      BY <1>4, <2>2
    <3>3. /\ SubSeq(all, 1, m - from - 1) \in Seq(Bytes)
          /\ Len(SubSeq(all, 1, m - from - 1)) = m - from - 1
          /\ \A i \in 1..(m - from - 1) : SubSeq(all, 1, m - from - 1)[i] = all[i]
      <4>1. 0 \in 0..Len(all) /\ m - from - 1 \in 0..Len(all) /\ (m - from - 1) - 0 = m - from - 1
            /\ 0 + 1 = 1 /\ \A i \in 1..(m - from - 1) : 0 + i = i
        BY <1>1, <1>3, <3>2
      <4> QED BY <1>3, <4>1, Piece
    <3>4. /\ SubSeq(text, from + 1, m - 1) \in Seq(Bytes)
          /\ Len(SubSeq(text, from + 1, m - 1)) = m - 1 - from
          /\ \A i \in 1..(m - 1 - from) : SubSeq(text, from + 1, m - 1)[i] = text[from + i]
      <4>1. m - 1 \in from..Len(text)
        BY <1>1, <3>2
      <4> QED BY <1>1, <4>1, Piece
    <3>5. m - 1 - from = m - from - 1 /\ \A i \in 1..(m - from - 1) : i \in 1..(m - from)
      BY <1>1
    <3>6. SubSeq(all, 1, m - from - 1) = SubSeq(text, from + 1, m - 1)
      BY <1>3, <3>3, <3>4, <3>5, SeqEqual
    <3> QED BY <3>1, <3>6
  <2> QED BY <2>1, <2>2
<1>7. \A i \in 1..(to - from) : IsLineEnd(SubSeq(text, from + 1, to), i) <=> IsLineEnd(text, from + i)
  <2>1. to > from => text[to] # CR \/ (to < Len(text) /\ text[to + 1] = CR)
    BY <1>1, <1>4
  <2> HIDE DEF to
  <2> QED BY <1>1, <1>5, <2>1, LinesEndAlike
<1>8. /\ s.full \in Seq(Line) /\ s.rest \in Line
      /\ Lines(text)[to] = Lines(text)[from] \o Glued(h, s.full)
      /\ Rests(text)[to] = GluedRest(h, s.full, s.rest)
  <2> HIDE DEF to, now
  <2> QED BY <1>1, <1>5, <1>6, <1>7, PieceOfText
<1>9. st.trailingCR = last /\ st.full = Glued(h, s.full) /\ st.held = GluedRest(h, s.full, s.rest)
  <2>1. st = IF s.full = <<>>
             THEN [full |-> <<>>, held |-> h \o s.rest, trailingCR |-> last]
             ELSE [full |-> <<h \o s.full[1]>> \o Tail(s.full),
                   held |-> s.rest, trailingCR |-> last]
    BY Zenon DEF DecodeText, all, chunk
  <2> HIDE DEF s, last, h
  <2>2. CASE s.full = <<>>
    <3>1. st = [full |-> <<>>, held |-> h \o s.rest, trailingCR |-> last]
      BY <2>1, <2>2
    <3> QED BY <2>2, <3>1 DEF Glued, GluedRest
  <2>3. CASE s.full # <<>>
    <3> DEFINE g == <<h \o s.full[1]>> \o Tail(s.full)
    <3>1. st = [full |-> g, held |-> s.rest, trailingCR |-> last]
      BY <2>1, <2>3
    <3>2. Glued(h, s.full) = g /\ GluedRest(h, s.full, s.rest) = s.rest
      BY <2>3 DEF Glued, GluedRest
    <3> HIDE DEF g
    <3>3. st.full = g /\ st.held = s.rest /\ st.trailingCR = last
      BY <3>1
    <3> QED BY <3>2, <3>3
  <2> QED BY <2>2, <2>3
<1>10. h \in Line
  BY <1>1, RestsAre
<1>11. st.full \in Seq(Line)
  BY <1>8, <1>9, <1>10, GluedType
<1>12. last => m > 0 /\ text[m] = CR
  BY <1>1, <1>4
<1>13. last \in BOOLEAN
  OBVIOUS
<1> HIDE DEF s, last, h, now
<1> QED BY <1>5, <1>8, <1>9, <1>11, <1>12, <1>13 DEF DecodesTo, End

-----------------------------------------------------------------------------
(* The types.                                                              *)
LEMMA SplitType ==
  ASSUME NEW text \in Seq(Bytes)
  PROVE  Split(text).full \in Seq(Line) /\ Split(text).rest \in Line
<1>1. Len(text) \in 0..Len(text)
  OBVIOUS
<1>2. Lines(text)[Len(text)] \in Seq(Line) /\ Rests(text)[Len(text)] \in Line
  BY <1>1, LinesAre, RestsAre
<1> QED BY <1>2 DEF Split

LEMMA DecodeTextType ==
  ASSUME NEW chunk \in Seq(Bytes), NEW h \in Line, NEW cr \in BOOLEAN,
         NEW st, st = DecodeText(chunk, [held |-> h, trailingCR |-> cr])
  PROVE  st.full \in Seq(Line) /\ st.held \in Line /\ st.trailingCR \in BOOLEAN
<1> DEFINE all == (IF cr THEN <<CR>> ELSE <<>>) \o chunk
           last == all # <<>> /\ Last(all) = CR
           now == IF last THEN Front(all) ELSE all
           s == Split(now)
<1>1. all \in Seq(Bytes)
  <2>1. <<CR>> \in Seq(Bytes) /\ <<>> \in Seq(Bytes)
    BY DEF Bytes
  <2>2. (IF cr THEN <<CR>> ELSE <<>>) \in Seq(Bytes)
    BY <2>1
  <2> QED BY <2>2, ConcatProperties
<1>2. now \in Seq(Bytes)
  <2>1. all # <<>> => Front(all) \in Seq(Bytes)
    <3> HIDE DEF all
    <3>1. all # <<>> => Len(all) \in Nat /\ Len(all) > 0 /\ Len(all) - 1 \in 0..Len(all)
      BY <1>1
    <3>2. all # <<>> => SubSeq(all, 0 + 1, Len(all) - 1) \in Seq(Bytes)
      BY <1>1, <3>1, Piece
    <3>3. 0 + 1 = 1
      OBVIOUS
    <3> QED BY <3>2, <3>3 DEF Front
  <2> HIDE DEF all
  <2> QED BY <1>1, <2>1
<1>3. s.full \in Seq(Line) /\ s.rest \in Line
  <2> HIDE DEF now
  <2> QED BY <1>2, SplitType
<1>4. h \o s.rest \in Line
  BY <1>3 DEF Line
<1>5. Glued(h, s.full) \in Seq(Line)
  BY <1>3, GluedType
<1>6. st = IF s.full = <<>>
           THEN [full |-> <<>>, held |-> h \o s.rest, trailingCR |-> last]
           ELSE [full |-> <<h \o s.full[1]>> \o Tail(s.full),
                 held |-> s.rest, trailingCR |-> last]
  BY Zenon DEF DecodeText, all
<1>7. last \in BOOLEAN /\ <<>> \in Seq(Line)
  OBVIOUS
<1> HIDE DEF s, last
<1>8. CASE s.full = <<>>
  <2> DEFINE g == h \o s.rest
  <2>1. st = [full |-> <<>>, held |-> g, trailingCR |-> last]
    BY <1>6, <1>8
  <2>2. g \in Line
    BY <1>4
  <2> HIDE DEF g
  <2>3. st.full = <<>> /\ st.held = g /\ st.trailingCR = last
    BY <2>1
  <2> QED BY <1>7, <2>2, <2>3, Zenon
<1>9. CASE s.full # <<>>
  <2> DEFINE g == <<h \o s.full[1]>> \o Tail(s.full)
  <2>1. st = [full |-> g, held |-> s.rest, trailingCR |-> last]
    BY <1>6, <1>9
  <2>2. g \in Seq(Line)
    BY <1>5, <1>9 DEF Glued
  <2> HIDE DEF g
  <2> QED BY <1>3, <1>7, <2>1, <2>2
<1> QED BY <1>8, <1>9

LEMMA FlushedType ==
  ASSUME NEW st, st.held \in Line
  PROVE  Flushed(st) \in Seq(Line)
BY DEF Flushed

LEMMA DelimiterInBuffer ==
  ASSUME NEW buffer \in Seq(Bytes) PROVE FirstDelimiter(buffer) \in 0..Len(buffer)
<1>1. DelimiterEnds(buffer) \subseteq 1..Len(buffer) /\ Len(buffer) \in Nat
  BY DEF DelimiterEnds
<1> DEFINE E == DelimiterEnds(buffer)
<1>2. E # {} => Min(E) \in E
  <2> HIDE DEF E
  <2>1. E \subseteq Nat
    BY <1>1 DEF E
  <2> QED BY <2>1, Least DEF Min
<1> HIDE DEF E
<1> QED BY <1>1, <1>2 DEF FirstDelimiter, E

LEMMA AddLineType ==
  ASSUME NEW ev \in Event, NEW line \in Line, line # <<>>
  PROVE  AddLine(ev, line) \in Event
<1>1. Append(ev.data, line) \in Seq(Line)
  BY DEF Event
<1>2. [ev EXCEPT !.isError = TRUE] \in Event
  BY DEF Event
<1>3. [ev EXCEPT !.data = Append(@, line)] \in Event
  BY <1>1 DEF Event
<1> QED BY <1>2, <1>3 DEF AddLine

LEMMA DecodeType ==
  ASSUME held \in Line, trailingCR \in BOOLEAN, NEW chunk \in Seq(Bytes),
         NEW flush \in BOOLEAN, Decode(chunk, flush)
  PROVE  held' \in Line /\ trailingCR' \in BOOLEAN /\ lines' \in Seq(Line)
<1> DEFINE st == DecodeText(chunk, [held |-> held, trailingCR |-> trailingCR])
<1>1. st.full \in Seq(Line) /\ st.held \in Line /\ st.trailingCR \in BOOLEAN
  BY DecodeTextType
<1>2. IF flush THEN lines' = st.full \o Flushed(st) /\ held' = <<>> /\ trailingCR' = FALSE
      ELSE lines' = st.full /\ held' = st.held /\ trailingCR' = st.trailingCR
  BY Zenon DEF Decode
<1> HIDE DEF st
<1>3. Flushed(st) \in Seq(Line)
  BY <1>1, FlushedType
<1>4. st.full \o Flushed(st) \in Seq(Line) /\ <<>> \in Line
  BY <1>1, <1>3 DEF Line
<1> QED BY <1>1, <1>2, <1>4

LEMMA TypeInit == Init => TypeOK
<1> SUFFICES ASSUME Init PROVE TypeOK
  OBVIOUS
<1>1. input \in Seq(Bytes)
  BY InputAssumption DEF Init, Bytes
<1>2. event \in Event
  BY DEF Init, NoEvent, Event, Line
<1>3. <<>> \in Seq(Bytes) /\ <<>> \in Line /\ <<>> \in Seq(Line) /\ <<>> \in Seq(Seq(Line))
  BY DEF Line
<1>4. pos \in 0..(Len(input) + 1)
  <2>1. Len(input) \in Nat
    BY <1>1
  <2> QED BY <2>1 DEF Init
<1> QED BY <1>1, <1>2, <1>3, <1>4, Zenon DEF Init, TypeOK

LEMMA HandleType ==
  ASSUME TypeOK, NEW ev \in Event, Handle(ev)
  PROVE  /\ done' \in BOOLEAN /\ aborted' \in BOOLEAN
         /\ given' \in Seq(Seq(Line))
         /\ pc' \in {"consumer", "lines", "reading", "closed"}
         /\ ending' \in {"none", "left", "failed", "aborted", "ended"}
<1>1. given \in Seq(Seq(Line)) /\ Append(given, ev.data) \in Seq(Seq(Line))
  BY DEF TypeOK, Event
<1> QED BY <1>1 DEF Handle, TypeOK, Close, AbortsOnClose

LEMMA TypeNext == TypeOK /\ [Next]_vars => TypeOK'
<1> SUFFICES ASSUME TypeOK, [Next]_vars PROVE TypeOK'
  OBVIOUS
<1> USE DEF TypeOK
<1>1. CASE Ask
  BY <1>1 DEF Ask, decoders
<1>2. CASE Leave
  BY <1>2 DEF Leave, Close, AbortsOnClose, decoders
<1>3. CASE Abort
  BY <1>3 DEF Abort, decoders
<1>4. CASE DecodeLine
  <2>1. lines' \in Seq(Line) /\ Head(lines) \in Line
    BY <1>4, HeadTailProperties DEF DecodeLine
  <2>2. NoEvent \in Event
    BY DEF NoEvent, Event
  <2>3. CASE Head(lines) # <<>>
    <3>1. event' \in Event
      BY <1>4, <2>1, <2>3, AddLineType DEF DecodeLine
    <3> QED BY <1>4, <2>1, <2>3, <3>1 DEF DecodeLine
  <2>4. CASE Head(lines) = <<>> /\ event = NoEvent
    BY <1>4, <2>1, <2>4 DEF DecodeLine
  <2>5. CASE Head(lines) = <<>> /\ event # NoEvent
    <3>1. event' = NoEvent /\ Handle(event)
      BY <1>4, <2>5 DEF DecodeLine
    <3>2. /\ done' \in BOOLEAN /\ aborted' \in BOOLEAN
          /\ given' \in Seq(Seq(Line))
          /\ pc' \in {"consumer", "lines", "reading", "closed"}
          /\ ending' \in {"none", "left", "failed", "aborted", "ended"}
      BY <3>1, HandleType
    <3> QED BY <1>4, <2>1, <2>2, <3>1, <3>2 DEF DecodeLine
  <2> QED BY <2>3, <2>4, <2>5
<1>5. CASE CutChunk
  <2> DEFINE f == FirstDelimiter(data)
  <2>1. f \in 1..Len(data)
    BY <1>5, DelimiterInBuffer DEF CutChunk
  <2> HIDE DEF f
  <2>2. SubSeq(data, 1, f) \in Seq(Bytes) /\ SubSeq(data, f + 1, Len(data)) \in Seq(Bytes)
    <3>1. 0 \in 0..Len(data) /\ f \in 0..Len(data) /\ Len(data) \in f..Len(data) /\ 0 + 1 = 1
      BY <2>1
    <3> QED BY <3>1, Piece
  <2>3. held' \in Line /\ trailingCR' \in BOOLEAN /\ lines' \in Seq(Line)
    BY <1>5, <2>2, DecodeType DEF CutChunk, f
  <2> QED BY <1>5, <2>2, <2>3 DEF CutChunk, f
<1>6. CASE AwaitBytes
  BY <1>6 DEF AwaitBytes, decoders
<1>7. CASE Receive
  <2>1. PICK to \in pos+1..Len(input) : data' = data \o SubSeq(input, pos + 1, to) /\ pos' = to
    BY <1>7 DEF Receive
  <2>2. pos \in 0..Len(input) /\ to \in pos..Len(input) /\ to \in 0..(Len(input) + 1)
    BY <2>1
  <2>3. SubSeq(input, pos + 1, to) \in Seq(Bytes)
    BY <2>2, Piece
  <2>4. data' \in Seq(Bytes)
    BY <2>1, <2>3
  <2> QED BY <1>7, <2>1, <2>2, <2>4 DEF Receive
<1>8. CASE BodyEnds
  <2>1. held' \in Line /\ trailingCR' \in BOOLEAN /\ lines' \in Seq(Line)
    BY <1>8, DecodeType DEF BodyEnds
  <2>2. pos' \in 0..(Len(input') + 1) /\ data' \in Seq(Bytes)
    BY <1>8 DEF BodyEnds
  <2> QED BY <1>8, <2>1, <2>2 DEF BodyEnds
<1>9. CASE Finish
  BY <1>9 DEF Finish, decoders
<1>10. CASE ReadAborted
  BY <1>10 DEF ReadAborted, Close, AbortsOnClose, decoders
<1>11. CASE ConnectionBreaks
  BY <1>11 DEF ConnectionBreaks, Close, AbortsOnClose, decoders
<1>12. CASE UNCHANGED vars
  BY <1>12 DEF vars
<1> QED
  BY <1>1, <1>2, <1>3, <1>4, <1>5, <1>6, <1>7, <1>8, <1>9, <1>10, <1>11, <1>12
  DEF Next, Pull, Environment

(* Decoded lines hold letters only and every buffer holds bytes of the body, *)
(* through every chunk, event, abort and end of the iteration.               *)
THEOREM TypeCorrect == Spec => []TypeOK
BY TypeInit, TypeNext, PTL DEF Spec

-----------------------------------------------------------------------------
(* Parts of sequences.                                                     *)
LEMMA Remaining ==
  ASSUME NEW s \in Seq(Line), NEW k \in 0..Len(s)
  PROVE  /\ SubSeq(s, k + 1, Len(s)) \in Seq(Line) /\ Len(SubSeq(s, k + 1, Len(s))) = Len(s) - k
         /\ \A i \in 1..(Len(s) - k) : SubSeq(s, k + 1, Len(s))[i] = s[k + i]
         /\ SubSeq(s, k + 1, Len(s)) = <<>> <=> k = Len(s)
<1> DEFINE left == SubSeq(s, k + 1, Len(s))
<1>1. k \in Nat /\ Len(s) \in Nat /\ Len(s) - k \in Nat /\ k + 1 \in Int
  OBVIOUS
<1>2. \A i \in (k + 1)..Len(s) : s[i] \in Line
  OBVIOUS
<1>3. /\ left \in Seq(Line)
      /\ Len(left) = IF k + 1 <= Len(s) THEN Len(s) - (k + 1) + 1 ELSE 0
      /\ \A i \in 1..(Len(s) - (k + 1) + 1) : left[i] = s[(k + 1) + i - 1]
  BY <1>1, <1>2, SubSeqProperties
<1>4. \A i \in 1..(Len(s) - k) : i \in 1..(Len(s) - (k + 1) + 1) /\ (k + 1) + i - 1 = k + i
  BY <1>1
<1>5. (IF k + 1 <= Len(s) THEN Len(s) - (k + 1) + 1 ELSE 0) = Len(s) - k
  BY <1>1
<1>6. left = <<>> <=> Len(left) = 0
  BY <1>3, EmptySeq
<1> QED BY <1>1, <1>3, <1>4, <1>5, <1>6

LEMMA NextRemaining ==
  ASSUME NEW s \in Seq(Line), NEW k \in 0..Len(s), k < Len(s),
         NEW left, left = SubSeq(s, k + 1, Len(s))
  PROVE  /\ left # <<>> /\ Head(left) = s[k + 1]
         /\ Tail(left) = SubSeq(s, (k + 1) + 1, Len(s))
<1> DEFINE next == SubSeq(s, (k + 1) + 1, Len(s))
           n == Len(s)
<1>1. k \in Nat /\ n \in Nat /\ k + 1 \in 0..n /\ 1 \in 1..(n - k)
  OBVIOUS
<1>2. left \in Seq(Line) /\ Len(left) = n - k /\ left # <<>>
      /\ \A i \in 1..(n - k) : left[i] = s[k + i]
  <2>1. /\ left \in Seq(Line) /\ Len(left) = Len(s) - k
        /\ \A i \in 1..(Len(s) - k) : left[i] = s[k + i]
        /\ left = <<>> <=> k = Len(s)
    BY Remaining
  <2>2. k # Len(s)
    BY <1>1
  <2> QED BY <2>1, <2>2
<1>3. next \in Seq(Line) /\ Len(next) = n - (k + 1)
      /\ \A i \in 1..(n - (k + 1)) : next[i] = s[(k + 1) + i]
  BY <1>1, Remaining
<1> HIDE DEF n, next
<1>4. Head(left) = left[1] /\ Tail(left) \in Seq(Line) /\ Len(Tail(left)) = Len(left) - 1
      /\ \A i \in 1..Len(Tail(left)) : Tail(left)[i] = left[i + 1]
  BY <1>2, HeadTailProperties
<1>5. ASSUME NEW i \in 1..Len(next) PROVE Tail(left)[i] = next[i]
  <2>1. i \in 1..(n - (k + 1)) /\ i \in 1..Len(Tail(left)) /\ i + 1 \in 1..(n - k)
        /\ k + (i + 1) = (k + 1) + i
    BY <1>1, <1>2, <1>3, <1>4
  <2> QED BY <1>2, <1>3, <1>4, <2>1
<1>6. Tail(left) = next
  <2>1. Len(Tail(left)) = Len(next)
    BY <1>1, <1>2, <1>3, <1>4
  <2> QED BY <1>3, <1>4, <1>5, <2>1, SeqEqual
<1> QED BY <1>1, <1>2, <1>4, <1>6 DEF next, n

LEMMA BehindPrefix ==
  ASSUME NEW s \in Seq(Line), NEW t \in Seq(Line)
  PROVE  Len(s) <= Len(s \o t) /\ SubSeq(s \o t, Len(s) + 1, Len(s \o t)) = t
<1> DEFINE all == s \o t
           left == SubSeq(all, Len(s) + 1, Len(all))
<1>1. all \in Seq(Line) /\ Len(all) = Len(s) + Len(t) /\ Len(s) \in Nat /\ Len(t) \in Nat
      /\ \A i \in 1..Len(t) : all[Len(s) + i] = t[i]
  OBVIOUS
<1> HIDE DEF all
<1>2. Len(s) \in 0..Len(all) /\ Len(all) - Len(s) = Len(t)
  BY <1>1
<1>3. left \in Seq(Line) /\ Len(left) = Len(t) /\ \A i \in 1..Len(t) : left[i] = all[Len(s) + i]
  BY <1>1, <1>2, Remaining
<1> HIDE DEF left
<1>4. left = t
  BY <1>1, <1>3, SeqEqual
<1> QED BY <1>2, <1>4 DEF left, all

LEMMA NextOfAppend ==
  ASSUME NEW s \in Seq(Line), NEW x \in Line
  PROVE  /\ s = <<>> => Head(Append(s, x)) = x /\ Tail(Append(s, x)) = <<>>
         /\ s # <<>> => /\ Head(Append(s, x)) = Head(s)
                        /\ Tail(Append(s, x)) = Append(Tail(s), x)
<1> DEFINE all == Append(s, x)
           n == Len(s)
<1>1. all \in Seq(Line) /\ Len(all) = n + 1 /\ n \in Nat /\ all[n + 1] = x
      /\ \A i \in 1..n : all[i] = s[i]
  OBVIOUS
<1>2. s = <<>> <=> n = 0
  BY EmptySeq
<1> HIDE DEF all, n
<1>3. all # <<>>
  BY <1>1, EmptySeq
<1>4. Head(all) = all[1] /\ Tail(all) \in Seq(Line) /\ Len(Tail(all)) = n
      /\ \A i \in 1..n : Tail(all)[i] = all[i + 1]
  BY <1>1, <1>3, HeadTailProperties
<1>5. ASSUME s = <<>> PROVE Head(all) = x /\ Tail(all) = <<>>
  <2>1. n = 0 /\ n + 1 = 1
    BY <1>2, <1>5
  <2>2. Len(Tail(all)) = 0
    BY <1>4, <2>1
  <2>3. Tail(all) = <<>>
    BY <1>4, <2>2, EmptySeq
  <2> QED BY <1>1, <1>4, <2>1, <2>3
<1>6. ASSUME s # <<>> PROVE Head(all) = Head(s) /\ Tail(all) = Append(Tail(s), x)
  <2>1. n >= 1 /\ Head(s) = s[1] /\ Tail(s) \in Seq(Line) /\ Len(Tail(s)) = n - 1
        /\ \A i \in 1..(n - 1) : Tail(s)[i] = s[i + 1]
    BY <1>1, <1>2, <1>6, HeadTailProperties DEF n
  <2> DEFINE u == Append(Tail(s), x)
  <2>2. u \in Seq(Line) /\ Len(u) = n /\ u[n] = x /\ \A i \in 1..(n - 1) : u[i] = Tail(s)[i]
    BY <1>1, <2>1
  <2> HIDE DEF u
  <2>3. ASSUME NEW i \in 1..n PROVE Tail(all)[i] = u[i]
    BY <1>1, <1>4, <2>1, <2>2
  <2>4. Tail(all) = u
    BY <1>4, <2>2, <2>3, SeqEqual
  <2> QED BY <1>1, <1>4, <2>1, <2>4 DEF u
<1> QED BY <1>5, <1>6 DEF all

LEMMA PieceOfPiece ==
  ASSUME NEW text \in Seq(Bytes), NEW p \in 0..Len(text), NEW c \in 0..p, NEW f \in 0..(p - c)
  PROVE  LET piece == SubSeq(text, c + 1, p)
         IN /\ SubSeq(piece, 1, f) = SubSeq(text, c + 1, c + f)
            /\ SubSeq(piece, f + 1, Len(piece)) = SubSeq(text, (c + f) + 1, p)
<1> DEFINE piece == SubSeq(text, c + 1, p)
<1>1. /\ c \in Nat /\ p \in Nat /\ f \in Nat /\ c \in 0..Len(text) /\ p \in c..Len(text)
      /\ c + f \in c..Len(text) /\ c + f \in 0..Len(text) /\ p \in (c + f)..Len(text)
      /\ (c + f) - c = f /\ p - (c + f) = (p - c) - f
  OBVIOUS
<1>2. /\ piece \in Seq(Bytes) /\ Len(piece) = p - c
      /\ \A i \in 1..(p - c) : piece[i] = text[c + i]
  BY <1>1, Piece
<1> HIDE DEF piece
<1> DEFINE a == SubSeq(piece, 1, f)
           b == SubSeq(text, c + 1, c + f)
           d == SubSeq(piece, f + 1, Len(piece))
           e == SubSeq(text, (c + f) + 1, p)
<1>3. a \in Seq(Bytes) /\ Len(a) = f /\ \A i \in 1..f : a[i] = piece[i]
  <2>1. 0 \in 0..Len(piece) /\ f \in 0..Len(piece) /\ f - 0 = f /\ 0 + 1 = 1
        /\ \A i \in 1..f : 0 + i = i
    BY <1>1, <1>2
  <2> QED BY <1>2, <2>1, Piece
<1>4. b \in Seq(Bytes) /\ Len(b) = f /\ \A i \in 1..f : b[i] = text[c + i]
  BY <1>1, Piece
<1>5. d \in Seq(Bytes) /\ Len(d) = (p - c) - f /\ \A i \in 1..((p - c) - f) : d[i] = piece[f + i]
  <2>1. f \in 0..Len(piece) /\ Len(piece) \in f..Len(piece)
    BY <1>1, <1>2
  <2> QED BY <1>2, <2>1, Piece
<1>6. e \in Seq(Bytes) /\ Len(e) = (p - c) - f
      /\ \A i \in 1..((p - c) - f) : e[i] = text[(c + f) + i]
  BY <1>1, Piece
<1> HIDE DEF a, b, d, e
<1>7. a = b
  <2>1. ASSUME NEW i \in 1..f PROVE a[i] = b[i]
    <3>1. i \in 1..(p - c)
      BY <1>1
    <3> QED BY <1>2, <1>3, <1>4, <3>1
  <2> QED BY <1>3, <1>4, <2>1, SeqEqual
<1>8. d = e
  <2>1. ASSUME NEW i \in 1..((p - c) - f) PROVE d[i] = e[i]
    <3>1. f + i \in 1..(p - c) /\ c + (f + i) = (c + f) + i
      BY <1>1
    <3> QED BY <1>2, <1>5, <1>6, <3>1
  <2> QED BY <1>5, <1>6, <2>1, SeqEqual
<1> QED BY <1>7, <1>8 DEF a, b, d, e, piece

LEMMA PiecesJoin ==
  ASSUME NEW text \in Seq(Bytes), NEW c \in 0..Len(text), NEW p \in c..Len(text),
         NEW to \in p..Len(text)
  PROVE  SubSeq(text, c + 1, p) \o SubSeq(text, p + 1, to) = SubSeq(text, c + 1, to)
<1> DEFINE a == SubSeq(text, c + 1, p)
           b == SubSeq(text, p + 1, to)
           all == SubSeq(text, c + 1, to)
<1>1. /\ c \in Nat /\ p \in Nat /\ to \in Nat /\ p \in 0..Len(text) /\ to \in c..Len(text)
      /\ p - c \in Nat /\ to - p \in Nat /\ (p - c) + (to - p) = to - c
  OBVIOUS
<1>2. a \in Seq(Bytes) /\ Len(a) = p - c /\ \A i \in 1..(p - c) : a[i] = text[c + i]
  BY <1>1, Piece
<1>3. b \in Seq(Bytes) /\ Len(b) = to - p /\ \A i \in 1..(to - p) : b[i] = text[p + i]
  BY <1>1, Piece
<1>4. all \in Seq(Bytes) /\ Len(all) = to - c /\ \A i \in 1..(to - c) : all[i] = text[c + i]
  BY <1>1, Piece
<1> HIDE DEF a, b, all
<1>5. a \o b \in Seq(Bytes) /\ Len(a \o b) = to - c
      /\ \A i \in 1..(to - c) : (a \o b)[i] = IF i <= p - c THEN a[i] ELSE b[i - (p - c)]
  <2>1. /\ a \o b \in Seq(Bytes) /\ Len(a \o b) = Len(a) + Len(b)
        /\ \A i \in 1..(Len(a) + Len(b)) :
             (a \o b)[i] = IF i <= Len(a) THEN a[i] ELSE b[i - Len(a)]
    BY <1>2, <1>3, ConcatProperties
  <2>2. Len(a) = p - c /\ Len(a) + Len(b) = to - c
    BY <1>1, <1>2, <1>3
  <2> QED BY <2>1, <2>2
<1>6. ASSUME NEW i \in 1..(to - c) PROVE (a \o b)[i] = all[i]
  <2>1. CASE i <= p - c
    BY <1>1, <1>2, <1>4, <1>5, <2>1
  <2>2. CASE ~(i <= p - c)
    <3>1. i - (p - c) \in 1..(to - p) /\ p + (i - (p - c)) = c + i
      BY <1>1, <2>2
    <3> QED BY <1>3, <1>4, <1>5, <2>2, <3>1
  <2> QED BY <2>1, <2>2
<1>7. a \o b = all
  BY <1>4, <1>5, <1>6, SeqEqual
<1> QED BY <1>7 DEF a, b, all

-----------------------------------------------------------------------------
(* How far the iteration has come: c bytes were cut into chunks, all but a *)
(* trailing CR were decoded, and k lines were looked at.                   *)
Decoded(c) == IF trailingCR THEN c - 1 ELSE c

Cut(c, k) ==
  /\ trailingCR => c > 0 /\ input[c] = CR
  /\ data = SubSeq(input, c + 1, pos)
  /\ held = Rests(input)[Decoded(c)]
  /\ k <= Len(Lines(input)[Decoded(c)])
  /\ lines = SubSeq(Lines(input)[Decoded(c)], k + 1, Len(Lines(input)[Decoded(c)]))

(* After the body there may be one more line, which no line end finishes.  *)
Left(k) == SubSeq(LinesOf(input), k + 1, Len(LinesOf(input)))
Flushes(k) == lines = Left(k) \/ \E x \in Line : x # <<>> /\ lines = Append(Left(k), x)

(* The decoders stand behind the k-th line of the body.                    *)
Behind(k) ==
  \/ BodyEnded /\ data = <<>> /\ Flushes(k)
  \/ ~BodyEnded /\ \E c \in 0..pos : Cut(c, k)

(* The consumer stands where a reading of the first k lines ends.          *)
Read(k) == Reading(LinesOf(input))[k]

Follows(k) ==
  /\ Read(k).over # "throws"
  /\ done <=> Read(k).over = "done"
  /\ lines # <<>> \/ ~BodyEnded => event = EventOf(Read(k).group)

StandsAt(k) ==
  /\ given = Read(k).items
  /\ ending = "ended" => k = Len(LinesOf(input)) /\ Read(k).over # "throws"
  /\ pc = "reading" => lines = <<>>
  /\ pc # "closed" => Follows(k) /\ Behind(k)

InStep == \E k \in 0..Len(LinesOf(input)) : StandsAt(k)

LEMMA LinesOfBody ==
  ASSUME NEW body \in Seq(Bytes)
  PROVE  /\ LinesOf(body) \in Seq(Line) /\ Len(LinesOf(body)) \in Nat
         /\ LinesOf(body) = Lines(body)[Len(body)]
         /\ \A k \in 0..Len(LinesOf(body)) : Reading(LinesOf(body))[k] \in Standing
<1>1. LinesOf(body) \in Seq(Line)
  BY SplitType DEF LinesOf
<1>2. LinesOf(body) = Lines(body)[Len(body)]
  BY DEF LinesOf, Split
<1>3. \A k \in 0..Len(LinesOf(body)) : Reading(LinesOf(body))[k] \in Standing
  BY <1>1, ReadingsStand
<1> QED BY <1>1, <1>2, <1>3

LEMMA StartsInStep == Init => InStep
<1> SUFFICES ASSUME Init PROVE InStep
  OBVIOUS
<1>1. input \in Seq(Bytes)
  BY InputAssumption DEF Init, Bytes
<1> DEFINE L == LinesOf(input)
<1>2. L \in Seq(Line) /\ 0 \in 0..Len(L) /\ Len(input) \in Nat /\ 0 \in 0..Len(input)
  BY <1>1, LinesOfBody
<1>3. Read(0) = NothingRead
  BY <1>2, ReadingsStand DEF Read
<1>4. Follows(0) /\ given = Read(0).items
  BY <1>3, NoEventOfNoLine DEF Follows, NothingRead, Init
<1>5. ~BodyEnded /\ 0 \in 0..pos
  BY <1>2 DEF Init, BodyEnded
<1>6. Cut(0, 0)
  <2>1. Rests(input)[0] = <<>> /\ Lines(input)[0] = <<>>
    BY <1>1, RestsAre, LinesAre
  <2>2. SubSeq(input, 0 + 1, 0) = <<>>
    <3>1. SubSeq(input, 0 + 1, 0) \in Seq(Bytes) /\ Len(SubSeq(input, 0 + 1, 0)) = 0 - 0
      BY <1>1, <1>2, Piece
    <3> QED BY <3>1, EmptySeq
  <2>3. SubSeq(<<>>, 0 + 1, Len(<<>>)) = <<>> /\ 0 <= Len(<<>>)
    <3>1. <<>> \in Seq(Line) /\ Len(<<>>) = 0 /\ 0 \in 0..Len(<<>>)
      OBVIOUS
    <3> QED BY <3>1, Remaining
  <2>4. Decoded(0) = 0 /\ trailingCR = FALSE
    BY DEF Init, Decoded
  <2> QED BY <2>1, <2>2, <2>3, <2>4 DEF Cut, Init
<1>7. StandsAt(0)
  BY <1>4, <1>5, <1>6 DEF StandsAt, Behind, Init
<1> QED BY <1>2, <1>7 DEF InStep

(* A line of the body is looked at: the reading goes one line on.          *)
LEMMA ReadsOn ==
  ASSUME TypeOK, DecodeLine, NEW k \in 0..Len(LinesOf(input)), StandsAt(k),
         k < Len(LinesOf(input)), Head(lines) = LinesOf(input)[k + 1], Behind(k + 1)'
  PROVE  StandsAt(k + 1)'
<1> DEFINE L == LinesOf(input)
           so == Read(k)
           line == Head(lines)
           next == AfterLine(line, so)
<1>1. /\ L \in Seq(Line) /\ k + 1 \in 1..Len(L) /\ (k + 1) - 1 = k /\ so \in Standing
      /\ input' = input /\ line \in Line
  <2>1. line \in Line
    BY HeadTailProperties DEF DecodeLine, TypeOK
  <2> QED BY <2>1, LinesOfBody DEF TypeOK, DecodeLine, Read
<1>2. Read(k + 1)' = next
  <2>1. Read(k + 1) = next
    BY <1>1, ReadingsStand DEF Read
  <2> QED BY <1>1, <2>1 DEF Read
<1>3. /\ given = so.items /\ ending # "ended" /\ so.over # "throws"
      /\ done <=> so.over = "done"
      /\ event = EventOf(so.group) /\ pc = "lines"
  BY DEF StandsAt, Follows, DecodeLine
<1>4. so.group \in Seq(Line) /\ so.items \in Seq(Seq(Line)) /\ so.over \in {"no", "done", "throws"}
      /\ so = [group |-> so.group, items |-> so.items, over |-> so.over]
  BY <1>1 DEF Standing
<1> SUFFICES /\ given' = next.items /\ ending' # "ended" /\ pc' # "reading"
             /\ pc' # "closed" =>
                  /\ next.over # "throws"
                  /\ done' <=> next.over = "done"
                  /\ event' = EventOf(next.group)
  BY <1>2 DEF StandsAt, Follows
<1> HIDE DEF so, L
<1>5. CASE line # <<>>
  <2>1. next = [group |-> Append(so.group, line), items |-> so.items, over |-> so.over]
    BY <1>4, <1>5 DEF AfterLine
  <2>2. event' = EventOf(Append(so.group, line))
    BY <1>1, <1>3, <1>4, <1>5, LineAddsToEvent DEF DecodeLine
  <2> HIDE DEF next, line
  <2>3. next.group = Append(so.group, line) /\ next.items = so.items /\ next.over = so.over
    BY <2>1
  <2>4. UNCHANGED <<done, given, pc, ending>>
    BY <1>5 DEF DecodeLine, line
  <2> QED BY <1>3, <2>2, <2>3, <2>4
<1>6. CASE line = <<>>
  <2>1. next = AfterEvent(event, so)
    BY <1>3, <1>6 DEF AfterLine
  <2>2. EventOf(<<>>) = NoEvent
    BY NoEventOfNoLine
  <2>3. /\ event = NoEvent \/ so.over # "no" =>
             next = [group |-> <<>>, items |-> so.items, over |-> so.over]
        /\ event # NoEvent /\ so.over = "no" /\ Meaning(event) = "item" =>
             next = [group |-> <<>>, items |-> Append(so.items, event.data), over |-> so.over]
        /\ event # NoEvent /\ so.over = "no" /\ Meaning(event) # "item" =>
             next = [group |-> <<>>, items |-> so.items, over |-> Meaning(event)]
    <3> HIDE DEF next
    <3> QED BY <1>4, <2>1 DEF AfterEvent
  <2>4. event' = NoEvent
    BY <1>6 DEF DecodeLine
  <2> HIDE DEF next
  <2>5. CASE event = NoEvent
    <3>1. UNCHANGED <<done, given, pc, ending>>
      BY <1>6, <2>5 DEF DecodeLine
    <3>2. next.group = <<>> /\ next.items = so.items /\ next.over = so.over
      BY <2>3, <2>5
    <3> QED BY <1>3, <2>2, <2>4, <3>1, <3>2
  <2>6. CASE event # NoEvent
    <3>1. Handle(event)
      BY <1>6, <2>6 DEF DecodeLine
    <3>2. CASE done
      <4>1. UNCHANGED <<done, given, pc, ending>>
        BY <3>1, <3>2 DEF Handle, Ignores
      <4>2. next.group = <<>> /\ next.items = so.items /\ next.over = so.over
        BY <1>3, <2>3, <3>2
      <4> QED BY <1>3, <2>2, <2>4, <4>1, <4>2
    <3>3. CASE ~done
      <4>1. so.over = "no"
        BY <1>3, <1>4, <3>3
      <4>2. CASE Meaning(event) = "done"
        <5>1. done' = TRUE /\ UNCHANGED <<given, pc, ending>>
          BY <3>1, <3>3, <4>2 DEF Handle, Ignores
        <5>2. next.group = <<>> /\ next.items = so.items /\ next.over = "done"
          BY <2>3, <2>6, <4>1, <4>2
        <5> QED BY <1>3, <2>2, <2>4, <5>1, <5>2
      <4>3. CASE Meaning(event) = "item"
        <5>1. given' = Append(given, event.data) /\ pc' = "consumer" /\ UNCHANGED <<done, ending>>
          BY <3>1, <3>3, <4>3 DEF Handle, Ignores
        <5>2. next.group = <<>> /\ next.items = Append(so.items, event.data) /\ next.over = so.over
          BY <2>3, <2>6, <4>1, <4>3
        <5> QED BY <1>3, <2>2, <2>4, <5>1, <5>2
      <4>4. CASE Meaning(event) = "throws"
        <5>1. pc' = "closed" /\ ending' = "failed" /\ given' = given
          BY <3>1, <3>3, <4>4 DEF Handle, Ignores, Close
        <5>2. next.items = so.items
          BY <2>3, <2>6, <4>1, <4>4
        <5> QED BY <1>3, <5>1, <5>2
      <4> QED BY <4>2, <4>3, <4>4 DEF Meaning
    <3> QED BY <3>2, <3>3
  <2> QED BY <2>5, <2>6
<1> QED BY <1>5, <1>6

LEMMA LineKeepsStep ==
  ASSUME TypeOK, DecodeLine, InStep PROVE InStep'
<1> DEFINE L == LinesOf(input)
<1>1. PICK k \in 0..Len(L) : StandsAt(k)
  BY DEF InStep
<1>2. /\ L \in Seq(Line) /\ Len(L) \in Nat /\ k \in Nat /\ L = Lines(input)[Len(input)]
      /\ input \in Seq(Bytes) /\ Len(input) \in Nat
  BY LinesOfBody DEF TypeOK
<1>3. /\ UNCHANGED <<input, pos, data, held, trailingCR>>
      /\ lines # <<>> /\ lines' = Tail(lines) /\ pc = "lines"
  BY DEF DecodeLine
<1>4. Behind(k) /\ Follows(k) /\ given = Read(k).items /\ (ending = "ended" => k = Len(L) /\ Read(k).over # "throws")
  BY <1>1, <1>3 DEF StandsAt
<1>5. ASSUME k < Len(L), Head(lines) = L[k + 1], Behind(k + 1)' PROVE InStep'
  <2>1. StandsAt(k + 1)'
    BY <1>1, <1>5, ReadsOn
  <2>2. k + 1 \in 0..Len(L) /\ L' = L
    BY <1>2, <1>3, <1>5
  <2> QED BY <2>1, <2>2 DEF InStep
<1>6. CASE ~BodyEnded
  <2>1. PICK c \in 0..pos : Cut(c, k)
    BY <1>4, <1>6 DEF Behind
  <2> DEFINE d == Decoded(c)
             l == Lines(input)[d]
  <2>2. d \in 0..Len(input) /\ Len(input) \in 0..Len(input) /\ d \in Nat
    BY <1>2, <1>6, <2>1 DEF Decoded, Cut, BodyEnded, TypeOK
  <2>3. l \in Seq(Line) /\ Extends(L, l)
    BY <1>2, <2>2, LinesAre, LinesGrow
  <2> HIDE DEF d
  <2>4. k \in 0..Len(l) /\ lines = SubSeq(l, k + 1, Len(l))
    BY <1>2, <2>1, <2>3 DEF Cut, d
  <2> HIDE DEF l, L
  <2>5. k < Len(l)
    BY <1>2, <1>3, <2>3, <2>4, Remaining
  <2>6. Head(lines) = l[k + 1] /\ lines' = SubSeq(l, (k + 1) + 1, Len(l))
    BY <1>3, <2>3, <2>4, <2>5, NextRemaining
  <2>7. k < Len(L) /\ l[k + 1] = L[k + 1] /\ k + 1 <= Len(l)
    BY <1>2, <2>3, <2>5 DEF Extends
  <2>8. Cut(c, k + 1)'
    <3>1. Decoded(c)' = d
      BY <1>3 DEF Decoded, d
    <3> QED BY <1>3, <2>1, <2>6, <2>7, <3>1 DEF Cut, d, l
  <2>9. Behind(k + 1)'
    <3>1. ~BodyEnded'
      BY <1>3, <1>6 DEF BodyEnded
    <3> QED BY <1>3, <2>1, <2>8, <3>1 DEF Behind
  <2> QED BY <1>5, <2>6, <2>7, <2>9
<1>7. CASE BodyEnded
  <2>1. BodyEnded' /\ data' = <<>> /\ Flushes(k)
    BY <1>3, <1>4, <1>7 DEF Behind, BodyEnded
  <2>2. Left(k) \in Seq(Line) /\ (Left(k) = <<>> <=> k = Len(L))
    BY <1>2, Remaining DEF Left
  <2>3. CASE k < Len(L)
    <3>1. /\ Left(k) # <<>> /\ Head(Left(k)) = L[k + 1] /\ Tail(Left(k)) = Left(k + 1)
      <4>1. k \in 0..Len(L)
        OBVIOUS
      <4> QED BY <1>2, <2>3, <4>1, NextRemaining DEF Left
    <3>2. Left(k + 1)' = Left(k + 1)
      BY <1>3 DEF Left
    <3>3. CASE lines = Left(k)
      <4>1. Head(lines) = L[k + 1] /\ Flushes(k + 1)'
        BY <1>3, <3>1, <3>2, <3>3 DEF Flushes
      <4> QED BY <1>5, <2>1, <2>3, <4>1 DEF Behind
    <3>4. CASE \E x \in Line : x # <<>> /\ lines = Append(Left(k), x)
      <4>1. PICK x \in Line : x # <<>> /\ lines = Append(Left(k), x)
        BY <3>4
      <4>2. Head(lines) = Head(Left(k)) /\ Tail(lines) = Append(Tail(Left(k)), x)
        BY <2>2, <3>1, <4>1, NextOfAppend
      <4>3. Head(lines) = L[k + 1] /\ lines' = Append(Left(k + 1), x)
        BY <1>3, <3>1, <4>2
      <4>4. Flushes(k + 1)'
        BY <3>2, <4>1, <4>3 DEF Flushes
      <4> QED BY <1>5, <2>1, <2>3, <4>3, <4>4 DEF Behind
    <3> QED BY <2>1, <3>3, <3>4 DEF Flushes
  <2>4. CASE ~(k < Len(L))
    <3>1. k = Len(L) /\ Left(k) = <<>>
      BY <1>2, <2>2, <2>4
    <3>2. PICK x \in Line : x # <<>> /\ lines = Append(Left(k), x)
      BY <1>3, <2>1, <3>1 DEF Flushes
    <3>3. Head(lines) = x /\ Tail(lines) = <<>>
      BY <2>2, <3>1, <3>2, NextOfAppend
    <3>4. /\ event' = AddLine(event, x) /\ lines' = <<>>
          /\ UNCHANGED <<done, given, pc, ending>>
      BY <3>2, <3>3 DEF DecodeLine
    <3>5. Read(k)' = Read(k) /\ Left(k)' = Left(k) /\ L' = L
      BY <1>3 DEF Read, Left
    <3>6. Flushes(k)'
      BY <3>1, <3>4, <3>5 DEF Flushes
    <3>7. Follows(k)'
      BY <1>4, <2>1, <3>4, <3>5 DEF Follows
    <3>8. StandsAt(k)'
      BY <1>3, <1>4, <2>1, <3>4, <3>5, <3>6, <3>7 DEF StandsAt, Behind
    <3> QED BY <3>5, <3>8 DEF InStep
  <2> QED BY <2>3, <2>4
<1> QED BY <1>6, <1>7

(* A chunk is decoded: the lines of the body go on up to its end.          *)
GoesOn(k, m, st) ==
  /\ st.trailingCR \in BOOLEAN /\ (st.trailingCR => m > 0 /\ input[m] = CR)
  /\ End(st, m) \in 0..Len(input) /\ st.full \in Seq(Line) /\ st.held \in Line
  /\ st.held = Rests(input)[End(st, m)]
  /\ \E before \in Seq(Line) :
       k = Len(before) /\ Lines(input)[End(st, m)] = before \o st.full

LEMMA DecodesBody ==
  ASSUME TypeOK, NEW c \in 0..Len(input), NEW m \in c..Len(input), NEW k \in Nat, Cut(c, k),
         lines = <<>>, NEW st,
         st = DecodeText(SubSeq(input, c + 1, m), [held |-> held, trailingCR |-> trailingCR])
  PROVE  GoesOn(k, m, st)
<1> DEFINE d == Decoded(c)
           to == End(st, m)
           before == Lines(input)[d]
<1>1. input \in Seq(Bytes) /\ trailingCR \in BOOLEAN /\ Len(input) \in Nat
  BY DEF TypeOK
<1>2. (trailingCR => c > 0 /\ input[c] = CR) /\ d = IF trailingCR THEN c - 1 ELSE c
  BY DEF Cut, Decoded
<1>3. d \in 0..Len(input)
  BY <1>1, <1>2
<1>4. before \in Seq(Line) /\ Rests(input)[d] \in Line
  BY <1>1, <1>3, LinesAre, RestsAre
<1>5. k = Len(before)
  <2>1. k \in 0..Len(before) /\ lines = SubSeq(before, k + 1, Len(before))
    BY <1>4 DEF Cut
  <2> HIDE DEF before
  <2> QED BY <1>4, <2>1, Remaining
<1>6. st = DecodeText(SubSeq(input, c + 1, m), [held |-> Rests(input)[d], trailingCR |-> trailingCR])
  BY DEF Cut
<1> HIDE DEF d
<1>7. DecodesTo(input, d, m, st)
  BY <1>1, <1>2, <1>6, DecodesOn
<1>8. to \in 0..Len(input)
  BY <1>3, <1>7 DEF DecodesTo
<1>9. st.held \in Line
  BY <1>1, <1>7, <1>8, RestsAre DEF DecodesTo
<1> HIDE DEF to
<1> QED BY <1>4, <1>5, <1>7, <1>8, <1>9 DEF DecodesTo, GoesOn, to

LEMMA ChunkKeepsStep ==
  ASSUME TypeOK, CutChunk, InStep PROVE InStep'
<1> DEFINE L == LinesOf(input)
<1>1. PICK k \in 0..Len(L) : StandsAt(k)
  BY DEF InStep
<1>2. input \in Seq(Bytes) /\ Len(input) \in Nat /\ k \in Nat
  BY LinesOfBody DEF TypeOK
<1> PICK f \in Nat : f = FirstDelimiter(data)
  BY DelimiterInBuffer DEF TypeOK
<1>3. /\ pc = "lines" /\ lines = <<>> /\ f > 0
      /\ Decode(SubSeq(data, 1, f), FALSE)
      /\ data' = SubSeq(data, f + 1, Len(data))
      /\ UNCHANGED <<input, pos, event, done, aborted, given, pc, ending>>
  BY DEF CutChunk
<1>4. f \in 1..Len(data)
  BY <1>3, DelimiterInBuffer DEF TypeOK
<1>5. Behind(k) /\ Follows(k)
  BY <1>1, <1>3 DEF StandsAt
<1>6. ~BodyEnded
  BY <1>4, <1>5 DEF Behind
<1>7. PICK c \in 0..pos : Cut(c, k)
  BY <1>5, <1>6 DEF Behind
<1> DEFINE m == c + f
<1>8. /\ pos \in 0..Len(input) /\ c \in 0..Len(input) /\ pos \in c..Len(input)
      /\ data = SubSeq(input, c + 1, pos) /\ Len(data) = pos - c
  <2>1. pos \in 0..Len(input)
    BY <1>2, <1>6 DEF TypeOK, BodyEnded
  <2>2. c \in 0..Len(input) /\ pos \in c..Len(input)
    BY <1>2, <2>1
  <2> QED BY <1>2, <1>7, <2>1, <2>2, Piece DEF Cut
<1>9. f \in 0..(pos - c) /\ m \in c..Len(input) /\ m \in 0..pos
  BY <1>2, <1>4, <1>8
<1>10. SubSeq(data, 1, f) = SubSeq(input, c + 1, m) /\ data' = SubSeq(input, m + 1, pos)
  <2>1. /\ SubSeq(data, 1, f) = SubSeq(input, c + 1, m)
        /\ SubSeq(data, f + 1, Len(data)) = SubSeq(input, m + 1, pos)
    <3>1. /\ input \in Seq(Bytes) /\ pos \in 0..Len(input) /\ c \in 0..pos /\ f \in 0..(pos - c)
      BY <1>2, <1>8, <1>9
    <3>2. LET piece == SubSeq(input, c + 1, pos)
          IN /\ SubSeq(piece, 1, f) = SubSeq(input, c + 1, c + f)
             /\ SubSeq(piece, f + 1, Len(piece)) = SubSeq(input, (c + f) + 1, pos)
      BY <3>1, PieceOfPiece
    <3> QED BY <1>8, <3>2
  <2> QED BY <1>3, <2>1
<1> PICK st :
      st = DecodeText(SubSeq(input, c + 1, m), [held |-> held, trailingCR |-> trailingCR])
  OBVIOUS
<1>11. lines' = st.full /\ held' = st.held /\ trailingCR' = st.trailingCR
  BY <1>3, <1>10, Zenon DEF Decode
<1> DEFINE to == End(st, m)
<1> HIDE DEF m
<1>12. /\ st.trailingCR \in BOOLEAN /\ (st.trailingCR => m > 0 /\ input[m] = CR)
       /\ to \in 0..Len(input) /\ st.full \in Seq(Line) /\ st.held = Rests(input)[to]
       /\ \E before \in Seq(Line) : k = Len(before) /\ Lines(input)[to] = before \o st.full
  <2>1. GoesOn(k, m, st)
    BY <1>2, <1>3, <1>7, <1>8, <1>9, DecodesBody
  <2> QED BY <2>1 DEF GoesOn
<1>13. PICK before \in Seq(Line) : k = Len(before) /\ Lines(input)[to] = before \o st.full
  BY <1>12
<1>14. /\ k <= Len(Lines(input)[to])
       /\ st.full = SubSeq(Lines(input)[to], k + 1, Len(Lines(input)[to]))
  BY <1>12, <1>13, BehindPrefix
<1>15. Decoded(m)' = to /\ (trailingCR' => m > 0 /\ input[m] = CR)
  BY <1>11, <1>12, Zenon DEF Decoded, End
<1> HIDE DEF to
<1>16. Cut(m, k)'
  BY <1>3, <1>10, <1>11, <1>12, <1>14, <1>15 DEF Cut
<1>17. Behind(k)'
  <2>1. ~BodyEnded' /\ m \in 0..pos'
    BY <1>3, <1>6, <1>9 DEF BodyEnded
  <2> QED BY <1>16, <2>1 DEF Behind
<1>18. StandsAt(k)'
  BY <1>1, <1>3, <1>5, <1>6, <1>17 DEF StandsAt, Follows, Read
<1> QED BY <1>3, <1>18 DEF InStep

LEMMA EndKeepsStep ==
  ASSUME TypeOK, BodyEnds, InStep PROVE InStep'
<1> DEFINE L == LinesOf(input)
<1> PICK m : m = Len(input)
  OBVIOUS
<1> PICK st : st = DecodeText(data, [held |-> held, trailingCR |-> trailingCR])
  OBVIOUS
<1> DEFINE to == End(st, m)
<1>1. PICK k \in 0..Len(L) : StandsAt(k)
  BY DEF InStep
<1>2. /\ input \in Seq(Bytes) /\ m \in Nat /\ k \in Nat /\ L \in Seq(Line)
      /\ L = Lines(input)[m]
  BY LinesOfBody DEF TypeOK
<1>3. /\ pc = "reading" /\ pos = m /\ pos' = m + 1 /\ data' = <<>> /\ pc' = "lines"
      /\ Decode(data, TRUE)
      /\ UNCHANGED <<input, event, done, aborted, given, ending>>
  BY DEF BodyEnds
<1>4. Behind(k) /\ Follows(k) /\ lines = <<>>
  BY <1>1, <1>3 DEF StandsAt
<1>5. ~BodyEnded /\ BodyEnded'
  BY <1>2, <1>3 DEF BodyEnded
<1>6. PICK c \in 0..m : Cut(c, k)
  BY <1>3, <1>4, <1>5 DEF Behind
<1>7. lines' = st.full \o Flushed(st)
  BY <1>3, Zenon DEF Decode
<1>8. /\ st.trailingCR \in BOOLEAN /\ (st.trailingCR => m > 0 /\ input[m] = CR)
      /\ to \in 0..m /\ st.full \in Seq(Line) /\ st.held \in Line /\ st.held = Rests(input)[to]
      /\ \E before \in Seq(Line) : k = Len(before) /\ Lines(input)[to] = before \o st.full
  <2>1. data = SubSeq(input, c + 1, m) /\ m \in c..Len(input)
    BY <1>2, <1>3, <1>6 DEF Cut
  <2>2. c \in 0..Len(input) /\ k \in Nat /\ lines = <<>> /\ Cut(c, k)
    BY <1>2, <1>4, <1>6
  <2>3. st = DecodeText(SubSeq(input, c + 1, m), [held |-> held, trailingCR |-> trailingCR])
    BY <2>1
  <2>4. GoesOn(k, m, st)
    BY <2>1, <2>2, <2>3, DecodesBody
  <2> QED BY <2>4 DEF GoesOn
<1>9. PICK before \in Seq(Line) : k = Len(before) /\ Lines(input)[to] = before \o st.full
  BY <1>8
<1> HIDE DEF to
<1>10. Flushes(k)'
  <2>1. Left(k)' = SubSeq(L, k + 1, Len(L))
    BY <1>3 DEF Left
  <2>2. CASE ~st.trailingCR
    <3>1. L = before \o st.full
      BY <1>2, <1>9, <2>2 DEF to, End
    <3> HIDE DEF L
    <3>2. Left(k)' = st.full
      BY <1>8, <1>9, <2>1, <3>1, BehindPrefix
    <3>3. CASE st.held = <<>>
      <4>1. lines' = st.full \o <<>>
        BY <1>7, <2>2, <3>3 DEF Flushed
      <4>2. lines' = st.full
        BY <1>8, <4>1, ConcatEmptySeq
      <4> QED BY <3>2, <4>2 DEF Flushes
    <3>4. CASE st.held # <<>>
      <4>1. lines' = st.full \o <<st.held>>
        BY <1>7, <3>4 DEF Flushed
      <4>2. lines' = Append(st.full, st.held)
        BY <1>8, <4>1
      <4> QED BY <1>8, <3>2, <3>4, <4>2 DEF Flushes
    <3> QED BY <3>3, <3>4
  <2>3. CASE st.trailingCR
    <3>1. m \in 1..m /\ to = m - 1 /\ IsLineEnd(input, m)
      BY <1>2, <1>8, <2>3 DEF IsLineEnd, to, End
    <3>2. L = Append(before \o st.full, st.held)
      BY <1>2, <1>8, <1>9, <3>1, LinesAre DEF LinesAfter
    <3> HIDE DEF L
    <3>3. L = before \o Append(st.full, st.held) /\ Append(st.full, st.held) \in Seq(Line)
      <4> PICK x \in Line, u \in Seq(Line) : x = st.held /\ u = st.full
        BY <1>8
      <4>1. \A t, v \in Seq(Line) : \A e \in Line : t \o Append(v, e) = Append(t \o v, e)
        BY AppendToConcat
      <4>2. before \o Append(u, x) = Append(before \o u, x)
        BY <4>1
      <4>3. Append(u, x) \in Seq(Line)
        OBVIOUS
      <4> QED BY <3>2, <4>2, <4>3
    <3>4. Left(k)' = Append(st.full, st.held)
      BY <1>9, <2>1, <3>3, BehindPrefix
    <3>5. lines' = st.full \o <<st.held>>
      BY <1>7, <2>3 DEF Flushed
    <3>6. lines' = Append(st.full, st.held)
      BY <1>8, <3>5
    <3> QED BY <3>4, <3>6 DEF Flushes
  <2> QED BY <1>8, <2>2, <2>3
<1>11. Behind(k)'
  BY <1>3, <1>5, <1>10 DEF Behind
<1>12. StandsAt(k)'
  BY <1>1, <1>3, <1>4, <1>5, <1>11 DEF StandsAt, Follows, Read
<1> QED BY <1>3, <1>12 DEF InStep

LEMMA ReceiveKeepsStep ==
  ASSUME TypeOK, Receive, InStep PROVE InStep'
<1>1. PICK k \in 0..Len(LinesOf(input)) : StandsAt(k)
  BY DEF InStep
<1>2. PICK to \in pos+1..Len(input) : data' = data \o SubSeq(input, pos + 1, to) /\ pos' = to
  BY DEF Receive
<1>3. /\ pc = "reading" /\ pc' = "lines"
      /\ UNCHANGED <<input, held, trailingCR, lines, event, done, aborted, given, ending>>
  BY DEF Receive
<1>4. /\ input \in Seq(Bytes) /\ Len(input) \in Nat /\ pos \in 0..Len(input) /\ to \in pos..Len(input)
      /\ ~BodyEnded /\ ~BodyEnded'
  BY <1>2, <1>3 DEF TypeOK, BodyEnded
<1>5. Behind(k) /\ Follows(k)
  BY <1>1, <1>3 DEF StandsAt
<1>6. PICK c \in 0..pos : Cut(c, k)
  BY <1>4, <1>5 DEF Behind
<1>7. data' = SubSeq(input, c + 1, to) /\ c \in 0..to
  <2>1. c \in 0..Len(input) /\ pos \in c..Len(input) /\ c \in 0..to
    BY <1>4
  <2> QED BY <1>2, <1>4, <1>6, <2>1, PiecesJoin DEF Cut
<1>8. Cut(c, k)'
  BY <1>2, <1>3, <1>6, <1>7 DEF Cut, Decoded
<1>9. Behind(k)'
  BY <1>2, <1>4, <1>7, <1>8 DEF Behind
<1>10. StandsAt(k)'
  BY <1>1, <1>3, <1>4, <1>5, <1>9 DEF StandsAt, Follows, Read
<1> QED BY <1>3, <1>10 DEF InStep

LEMMA KeepsInStep == TypeOK /\ InStep /\ [Next]_vars => InStep'
<1> SUFFICES ASSUME TypeOK, InStep, [Next]_vars PROVE InStep'
  OBVIOUS
<1>1. PICK k \in 0..Len(LinesOf(input)) : StandsAt(k)
  BY DEF InStep
<1>2. ASSUME UNCHANGED <<input, pos, data, held, trailingCR, lines, event, done, given, ending>>,
             pc' = "closed" => pc = "closed", pc = "closed" => pc' = "closed",
             pc' = "reading" => lines = <<>>
      PROVE  InStep'
  <2>1. Read(k)' = Read(k) /\ BodyEnded' = BodyEnded
    BY <1>2 DEF Read, BodyEnded
  <2>2. pc' # "closed" => Follows(k)' /\ Behind(k)'
    BY <1>1, <1>2, <2>1 DEF StandsAt, Follows, Behind, Flushes, Left, Cut, Decoded
  <2>3. StandsAt(k)'
    BY <1>1, <1>2, <2>1, <2>2 DEF StandsAt
  <2> QED BY <1>2, <2>3 DEF InStep
<1>3. ASSUME UNCHANGED <<input, given>>, pc' = "closed", ending' # "ended" PROVE InStep'
  <2>1. StandsAt(k)'
    BY <1>1, <1>3 DEF StandsAt, Read
  <2> QED BY <1>3, <2>1 DEF InStep
<1>4. CASE Ask
  BY <1>2, <1>4 DEF Ask, decoders
<1>5. CASE Leave
  BY <1>3, <1>5 DEF Leave, Close
<1>6. CASE Abort
  <2>1. pc = "reading" => lines = <<>>
    BY <1>1 DEF StandsAt
  <2> QED BY <1>2, <1>6, <2>1 DEF Abort, decoders
<1>7. CASE AwaitBytes
  BY <1>2, <1>7 DEF AwaitBytes, decoders
<1>8. CASE Finish
  <2>1. /\ pc = "lines" /\ lines = <<>> /\ BodyEnded /\ pc' = "closed"
        /\ UNCHANGED <<input, given>>
    BY <1>8 DEF Finish
  <2>2. Flushes(k) /\ Read(k).over # "throws" /\ given = Read(k).items
    BY <1>1, <2>1 DEF StandsAt, Behind, Follows
  <2>3. LinesOf(input) \in Seq(Line)
    BY LinesOfBody DEF TypeOK
  <2>4. Left(k) \in Seq(Line) /\ (Left(k) = <<>> <=> k = Len(LinesOf(input)))
    BY <2>3, Remaining DEF Left
  <2>5. \A x \in Line : Append(Left(k), x) # <<>>
    BY <2>4, AppendToConcat
  <2>6. k = Len(LinesOf(input))
    BY <2>1, <2>2, <2>4, <2>5 DEF Flushes
  <2>7. StandsAt(k)'
    BY <2>1, <2>2, <2>6 DEF StandsAt, Read
  <2> QED BY <2>1, <2>7 DEF InStep
<1>9. CASE ReadAborted
  BY <1>3, <1>9 DEF ReadAborted, Close
<1>10. CASE ConnectionBreaks
  BY <1>3, <1>10 DEF ConnectionBreaks, Close
<1>11. CASE UNCHANGED vars
  <2>1. pc = "reading" => lines = <<>>
    BY <1>1 DEF StandsAt
  <2> QED BY <1>2, <1>11, <2>1 DEF vars
<1> QED
  BY <1>4, <1>5, <1>6, <1>7, <1>8, <1>9, <1>10, <1>11,
     LineKeepsStep, ChunkKeepsStep, EndKeepsStep, ReceiveKeepsStep
  DEF Next, Pull, Environment

(* The inductive invariant: whatever the chunks were, the iteration stands *)
(* behind some line of the body and has made of the lines before it what a *)
(* reading of the whole body makes of them.                                *)
LEMMA StaysInStep == Spec => [](TypeOK /\ InStep)
<1>1. Init => TypeOK /\ InStep
  BY TypeInit, StartsInStep
<1>2. TypeOK /\ InStep /\ [Next]_vars => (TypeOK /\ InStep)'
  BY TypeNext, KeepsInStep
<1> QED BY <1>1, <1>2, PTL DEF Spec

-----------------------------------------------------------------------------
(* The properties.                                                         *)

(* However the network cuts a body of any length and content, the loop over *)
(* Stream.fromSSEResponse gets items of the body, in order, none twice and  *)
(* none after [DONE].                                                       *)
THEOREM NoItemTwice == Spec => []GivenIsPrefix
<1>1. TypeOK /\ InStep => GivenIsPrefix
  <2> SUFFICES ASSUME TypeOK, InStep PROVE GivenIsPrefix
    OBVIOUS
  <2> DEFINE L == LinesOf(input)
             all == Reading(L)[Len(L)].items
  <2>1. PICK k \in 0..Len(L) : StandsAt(k)
    BY DEF InStep
  <2>2. /\ L \in Seq(Line) /\ Len(L) \in 0..Len(L)
        /\ Reading(L)[k] \in Standing /\ Reading(L)[Len(L)] \in Standing
    BY LinesOfBody DEF TypeOK
  <2>3. given = Reading(L)[k].items
    BY <2>1 DEF StandsAt, Read
  <2>4. Extends(all, given)
    BY <2>2, <2>3, ItemsGrow
  <2>5. given \in Seq(Seq(Line)) /\ all \in Seq(Seq(Line))
    BY <2>2, <2>3 DEF Standing
  <2>6. ItemsOf(input) = all
    BY DEF ItemsOf, ReadingOf
  <2> HIDE DEF all
  <2>7. IsPrefix(given, all)
    BY <2>4, <2>5, ExtendedIsPrefix
  <2> QED BY <2>6, <2>7 DEF GivenIsPrefix
<1> QED BY <1>1, StaysInStep, PTL

(* An iteration of Stream.fromSSEResponse that ran to the end of the body   *)
(* has given every item that an empty line finishes, up to [DONE], and has  *)
(* not passed over an error event.                                          *)
THEOREM EndGivesAll == Spec => []EndIsComplete
<1>1. InStep => EndIsComplete
  BY DEF InStep, StandsAt, Read, EndIsComplete, ItemsOf, Throws, ReadingOf
<1> QED BY <1>1, StaysInStep, PTL

(* The finally block of Stream.fromSSEResponse: no iteration, however it is *)
(* over, leaves a connection open that has more to say.                     *)
THEOREM NoConnectionKept == Spec => []ConnectionReleased
<1>1. Init => ConnectionReleased
  BY DEF Init, ConnectionReleased
<1>2. TypeOK /\ ConnectionReleased /\ [Next]_vars => ConnectionReleased'
  <2> SUFFICES ASSUME TypeOK, ConnectionReleased, [Next]_vars PROVE ConnectionReleased'
    OBVIOUS
  <2> USE DEF TypeOK, ConnectionReleased, BodyEnded
  <2>1. CASE Ask \/ AwaitBytes \/ CutChunk \/ Receive \/ BodyEnds
    BY <2>1 DEF Ask, AwaitBytes, CutChunk, Receive, BodyEnds
  <2>2. CASE Leave \/ ReadAborted \/ ConnectionBreaks
    BY <2>2 DEF Leave, ReadAborted, ConnectionBreaks, Close, AbortsOnClose
  <2>3. CASE Abort \/ Finish
    BY <2>3 DEF Abort, Finish
  <2>4. CASE DecodeLine
    BY <2>4 DEF DecodeLine, Handle, Close, AbortsOnClose
  <2>5. CASE UNCHANGED vars
    BY <2>5 DEF vars
  <2> QED BY <2>1, <2>2, <2>3, <2>4, <2>5 DEF Next, Pull, Environment
<1> QED BY <1>1, <1>2, TypeCorrect, PTL DEF Spec
=============================================================================
