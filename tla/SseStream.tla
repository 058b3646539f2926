----------------------------- MODULE SseStream -----------------------------
(***************************************************************************)
(* Server-sent events of the zhipuai package, from the bytes of a response *)
(* body to the items of an `for await` loop: the generators iterSSEChunks, *)
(* iterSSEMessages and Stream.fromSSEResponse with the LineDecoder and     *)
(* SSEDecoder between them.  The generators are pulled: nothing runs while *)
(* the consumer has the control, and a pull runs until an item comes, more *)
(* bytes are needed, or the iteration ends.                                *)
(*                                                                         *)
(* A byte is LF, CR or a letter that says what the line it starts is:      *)
(* "d" a data field with a piece of JSON text (the pieces of an event join *)
(* to one), "D" the data field [DONE], "E" the field `event: error`; any   *)
(* other line is a comment or an unknown field.  Other event names, and an *)
(* error carried inside the data, are left out.                            *)
(***************************************************************************)
EXTENDS Integers, Sequences, SequencesExt

CONSTANT Inputs   \* the bodies the server may send

LF == "LF"
CR == "CR"
Letters == {"d", "D", "E", "x"}

ASSUME InputAssumption == Inputs \subseteq Seq(Letters \cup {LF, CR})

VARIABLES
  input, pos,        \* the whole body, and how much of it has been read
  data,              \* iterSSEChunks: bytes not yet cut into chunks
  held, trailingCR,  \* LineDecoder
  lines,             \* decoded lines iterSSEMessages has not looked at
  event,             \* SSEDecoder: the event being put together
  done,              \* Stream.fromSSEResponse
  aborted,           \* controller.signal.aborted
  given,             \* items the consumer got
  pc, ending

vars == <<input, pos, data, held, trailingCR, lines, event, done, aborted, given, pc, ending>>
decoders == <<data, held, trailingCR, lines>>

NoEvent == [isError |-> FALSE, data |-> <<>>]

Init ==
  /\ input \in Inputs /\ pos = 0
  /\ data = <<>> /\ held = <<>> /\ trailingCR = FALSE /\ lines = <<>>
  /\ event = NoEvent
  /\ done = FALSE /\ aborted = FALSE
  /\ given = <<>>
  /\ pc = "consumer" /\ ending = "none"

(***************************************************************************)
(* findDoubleNewlineIndex: where the first \n\n, \r\r or \r\n\r\n ends, 0  *)
(* when there is none.  The loop stops two bytes before the end of the     *)
(* buffer, so a pair that ends the buffer is not found.                    *)
(***************************************************************************)
EndsPattern(buffer, i) ==
  \/ i > 1 /\ buffer[i] \in {LF, CR} /\ buffer[i-1] = buffer[i]
  \/ i > 3 /\ SubSeq(buffer, i - 3, i) = <<CR, LF, CR, LF>>

PairAtEnd(buffer, i) == i = Len(buffer) /\ buffer[i-1] = buffer[i]

DelimiterEnds(buffer) ==
  {i \in 1..Len(buffer) : EndsPattern(buffer, i) /\ ~PairAtEnd(buffer, i)}
FirstDelimiter(buffer) == IF DelimiterEnds(buffer) = {} THEN 0 ELSE Min(DelimiterEnds(buffer))

(***************************************************************************)
(* LineDecoder.decode: the text is split at \r\n, \n and \r; a CR at its   *)
(* end waits for the next text, an unfinished line is held.                *)
(***************************************************************************)
IsLineEnd(text, i) ==
  \/ text[i] = LF
  \/ text[i] = CR /\ ~(i < Len(text) /\ text[i+1] = LF)

(* What of the first n bytes is behind their last line end, and the lines     *)
(* before it.                                                                 *)
RestAfter(text, n, rest) ==
  IF text[n] \in Letters THEN Append(rest, text[n])
  ELSE IF IsLineEnd(text, n) THEN <<>> ELSE rest

Rests(text) ==
  LET r[n \in 0..Len(text)] == IF n = 0 THEN <<>> ELSE RestAfter(text, n, r[n-1])
  IN r

LinesAfter(text, n, full) ==
  IF IsLineEnd(text, n) THEN Append(full, Rests(text)[n-1]) ELSE full

Lines(text) ==
  LET f[n \in 0..Len(text)] == IF n = 0 THEN <<>> ELSE LinesAfter(text, n, f[n-1])
  IN f

Split(text) == [full |-> Lines(text)[Len(text)], rest |-> Rests(text)[Len(text)]]

DecodeText(chunk, st) ==
  LET text == (IF st.trailingCR THEN <<CR>> ELSE <<>>) \o chunk
      cr   == text # <<>> /\ Last(text) = CR
      s    == Split(IF cr THEN Front(text) ELSE text)
  IN IF s.full = <<>>
     THEN [full |-> <<>>, held |-> st.held \o s.rest, trailingCR |-> cr]
     ELSE [full |-> <<st.held \o s.full[1]>> \o Tail(s.full),
           held |-> s.rest, trailingCR |-> cr]

(* LineDecoder.flush, after the last chunk. *)
FlushedIgnoringCR(st) == IF st.held = <<>> THEN <<>> ELSE <<st.held>>
Flushed(st) == IF st.held = <<>> /\ ~st.trailingCR THEN <<>> ELSE <<st.held>>

(***************************************************************************)
(* SSEDecoder.decode of a line that is not empty, and what the consumer's  *)
(* generator makes of an event: [DONE] is looked for first; an error event *)
(* and data that is not JSON throw.                                        *)
(***************************************************************************)
AddLine(ev, line) ==
  CASE line[1] = "E"         -> [ev EXCEPT !.isError = TRUE]
    [] line[1] \in {"d", "D"} -> [ev EXCEPT !.data = Append(@, line)]
    [] OTHER                 -> ev

IsJSON(ev) == ev.data # <<>> /\ \A i \in 1..Len(ev.data) : ev.data[i][1] = "d"
IsDone(ev) == ev.data # <<>> /\ ev.data[1][1] = "D"

Meaning(ev) ==
  CASE IsDone(ev) -> "done"
    [] ~IsDone(ev) /\ (ev.isError \/ ~IsJSON(ev)) -> "throws"
    [] OTHER -> "item"

(* The finally block aborts the connection of an iteration that ends early. *)
AbortsOnCloseNever == aborted
AbortsOnClose == aborted \/ ~done

Close(how) ==
  /\ pc' = "closed"
  /\ ending' = how
  /\ aborted' = AbortsOnClose

(***************************************************************************)
(* The consumer.                                                           *)
(***************************************************************************)
Ask ==
  /\ pc = "consumer"
  /\ pc' = "lines"
  /\ UNCHANGED <<input, pos, decoders, event, done, aborted, given, ending>>

(* `break`: the generator is resumed with return() where it yielded. *)
Leave ==
  /\ pc = "consumer" /\ given # <<>>
  /\ Close("left")
  /\ UNCHANGED <<input, pos, decoders, event, done, given>>

(* controller.abort(), or the signal of the request. *)
Abort ==
  /\ ~aborted /\ pc # "closed"
  /\ aborted' = TRUE
  /\ UNCHANGED <<input, pos, decoders, event, done, given, pc, ending>>

(***************************************************************************)
(* A pull.                                                                 *)
(***************************************************************************)
IgnoresNothing == FALSE
Ignores == done

(* The loop of Stream.fromSSEResponse, given an event. *)
Handle(ev) ==
  \/ /\ Ignores
     /\ UNCHANGED <<done, aborted, given, pc, ending>>
  \/ /\ ~Ignores /\ Meaning(ev) = "done"
     /\ done' = TRUE
     /\ UNCHANGED <<aborted, given, pc, ending>>
  \/ /\ ~Ignores /\ Meaning(ev) = "item"
     /\ given' = Append(given, ev.data)
     /\ pc' = "consumer"
     /\ UNCHANGED <<done, aborted, ending>>
  \/ /\ ~Ignores /\ Meaning(ev) = "throws"
     /\ Close("failed")
     /\ UNCHANGED <<done, given>>

DecodeLine ==
  /\ pc = "lines" /\ lines # <<>>
  /\ lines' = Tail(lines)
  /\ IF Head(lines) # <<>>
     THEN /\ event' = AddLine(event, Head(lines))
          /\ UNCHANGED <<done, aborted, given, pc, ending>>
     ELSE IF event = NoEvent
          THEN UNCHANGED <<event, done, aborted, given, pc, ending>>
          ELSE event' = NoEvent /\ Handle(event)
  /\ UNCHANGED <<input, pos, data, held, trailingCR>>

Decode(chunk, flush) ==
  \E st \in {DecodeText(chunk, [held |-> held, trailingCR |-> trailingCR])} :
    IF flush
    THEN lines' = st.full \o Flushed(st) /\ held' = <<>> /\ trailingCR' = FALSE
    ELSE lines' = st.full /\ held' = st.held /\ trailingCR' = st.trailingCR

CutChunk ==
  /\ pc = "lines" /\ lines = <<>>
  /\ FirstDelimiter(data) > 0
  /\ Decode(SubSeq(data, 1, FirstDelimiter(data)), FALSE)
  /\ data' = SubSeq(data, FirstDelimiter(data) + 1, Len(data))
  /\ UNCHANGED <<input, pos, event, done, aborted, given, pc, ending>>

AwaitBytes ==
  /\ pc = "lines" /\ lines = <<>>
  /\ FirstDelimiter(data) = 0
  /\ pc' = "reading"
  /\ UNCHANGED <<input, pos, decoders, event, done, aborted, given, ending>>

(* The network delivers the body in pieces of any size. *)
Receive ==
  /\ pc = "reading" /\ ~aborted
  /\ \E to \in pos+1..Len(input) :
       /\ data' = data \o SubSeq(input, pos + 1, to)
       /\ pos' = to
  /\ pc' = "lines"
  /\ UNCHANGED <<input, held, trailingCR, lines, event, done, aborted, given, ending>>

(* The body ends: what is left is the last chunk, and the decoder is flushed. *)
BodyEnds ==
  /\ pc = "reading" /\ ~aborted /\ pos = Len(input)
  /\ pos' = Len(input) + 1
  /\ Decode(data, TRUE)
  /\ data' = <<>>
  /\ pc' = "lines"
  /\ UNCHANGED <<input, event, done, aborted, given, ending>>

BodyEnded == pos = Len(input) + 1

(* The generators return: whatever event is still open is dropped. *)
Finish ==
  /\ pc = "lines" /\ lines = <<>> /\ BodyEnded
  /\ done' = TRUE
  /\ pc' = "closed" /\ ending' = "ended"
  /\ UNCHANGED <<input, pos, decoders, event, aborted, given>>

(* The read rejects: an AbortError ends the iteration in silence. *)
ReadRejectsNever == FALSE
ReadRejects == aborted

ReadAborted ==
  /\ pc = "reading" /\ ReadRejects
  /\ Close("aborted")
  /\ UNCHANGED <<input, pos, decoders, event, done, given>>

ConnectionBreaks ==
  /\ pc = "reading" /\ ~aborted
  /\ Close("failed")
  /\ UNCHANGED <<input, pos, decoders, event, done, given>>

Pull == DecodeLine \/ CutChunk \/ AwaitBytes \/ Finish \/ ReadAborted
Environment == Ask \/ Leave \/ Abort \/ Receive \/ BodyEnds \/ ConnectionBreaks

Next == Pull \/ Environment

Spec == Init /\ [][Next]_vars

(* A pull runs as far as it can; the server and the consumer owe nothing. *)
FairSpec == Spec /\ WF_vars(Pull)

-----------------------------------------------------------------------------
(* What the whole body means, decoded in one piece.  A group of lines up to a *)
(* blank one is an event, unless it says nothing; the items are those before  *)
(* the first [DONE] or the first event that throws, which is how it is over.  *)
AddData(sofar, line) == IF line[1] \in {"d", "D"} THEN Append(sofar, line) ELSE sofar

DataOf(group) ==
  LET d[n \in 0..Len(group)] == IF n = 0 THEN <<>> ELSE AddData(d[n-1], group[n])
  IN d

EventOf(group) ==
  [isError |-> \E i \in 1..Len(group) : group[i][1] = "E", data |-> DataOf(group)[Len(group)]]

AfterEvent(ev, so) ==
  IF ev = NoEvent \/ so.over # "no" THEN [so EXCEPT !.group = <<>>]
  ELSE IF Meaning(ev) = "item"
       THEN [so EXCEPT !.group = <<>>, !.items = Append(@, ev.data)]
       ELSE [so EXCEPT !.group = <<>>, !.over = Meaning(ev)]

AfterLine(line, so) ==
  IF line # <<>> THEN [so EXCEPT !.group = Append(@, line)]
  ELSE AfterEvent(EventOf(so.group), so)

NothingRead == [group |-> <<>>, items |-> <<>>, over |-> "no"]

Reading(ls) ==
  LET r[n \in 0..Len(ls)] == IF n = 0 THEN NothingRead ELSE AfterLine(ls[n], r[n-1])
  IN r

LinesOf(body) == Split(body).full
ReadingOf(body) == Reading(LinesOf(body))[Len(LinesOf(body))]
ItemsOf(body) == ReadingOf(body).items
Throws(body) == ReadingOf(body).over = "throws"

(* However the network cuts the body and whatever ends the iteration, the     *)
(* consumer gets items of the body, in order, none twice, none after [DONE].  *)
GivenIsPrefix == IsPrefix(given, ItemsOf(input))

(* An iteration that runs to the end of the body has given every item, and    *)
(* swallowed no error event.                                                  *)
EndIsComplete == ending = "ended" => given = ItemsOf(input) /\ ~Throws(input)

(* No connection is left open behind the consumer's back: an iteration that   *)
(* is over has read the whole body, has seen [DONE] or has aborted it.         *)
ConnectionReleased == pc = "closed" => BodyEnded \/ done \/ aborted

(* An abort ends a pull, even one that waits for a silent server.             *)
AbortEndsPull ==
  (aborted /\ pc \in {"lines", "reading"}) ~> pc \in {"consumer", "closed"}

(* What iter-sse-chunks.ts says of the search: it is for the end patterns \r\r, *)
(* \n\n and \r\n\r\n, so an event whose end pattern has been read does not wait *)
(* for further bytes.                                                         *)
DelimitedEventsAreCut ==
  pc = "reading" => \A i \in 1..Len(data) : ~EndsPattern(data, i)
=============================================================================
