---------------------------- MODULE MCSseStream ----------------------------
(* SseStream for TLC: every body of up to FramingLength line ends and data    *)
(* bytes, so that every delimiter meets every cut, and bodies of two events   *)
(* of up to EventLines lines, or three of one, so that all kinds of events    *)
(* meet.                                                                      *)
EXTENDS SseStream, TLC

CONSTANTS FramingLength, EventLines

Event(letters) == FlattenSeq([i \in 1..Len(letters) |-> <<letters[i], LF>>]) \o <<LF>>

Events(n) == {Event(letters) : letters \in BoundedSeq(Letters, n) \ {<<>>}}

MCInputs ==
  BoundedSeq({LF, CR, "d"}, FramingLength)
    \cup {a \o b : a, b \in Events(EventLines)}
    \cup {a \o b \o c : a, b, c \in Events(1)}

(* A server that sends two events and then thinks. *)
MCTwoEvents == {a \o b : a, b \in {<<"d", LF, LF>>, <<"d", CR, LF, CR, LF>>}}
============================================================================
