--------------------------- MODULE InputExpression ----------------------------
(***************************************************************************)
(* The parser of input-expression: the value of an expression over the     *)
(* data of the nodes it names.                                             *)
(*                                                                         *)
(* Expressions and JavaScript values are tuples that begin with their      *)
(* kind.  A string is a sequence of words, each of them a letter, a blank  *)
(* or a word; the text of an object in a template is one word, which the   *)
(* functions of strings leave as it is.                                    *)
(***************************************************************************)
EXTENDS Integers, SequencesExt, TLC

Undefined == <<"undefined">>
Null == <<"null">>
Text(words) == <<"string", words>>
Throws == <<"throws">>

-----------------------------------------------------------------------------
(* String, String.prototype and JSON, as far as expressions reach them. *)
Joined(texts, separator) ==
    FoldLeft(LAMBDA all, k : all \o (IF k = 1 THEN <<>> ELSE separator) \o texts[k],
             <<>>, [k \in 1..Len(texts) |-> k])

RECURSIVE StringOf(_)
StringOf(v) ==
    CASE v[1] = "string" -> v[2]
      [] v[1] = "number" -> <<ToString(v[2])>>
      [] v[1] = "array" ->
           Joined([k \in DOMAIN v[2] |->
                      IF v[2][k] \in {Null, Undefined} THEN <<>> ELSE StringOf(v[2][k])],
                  <<",">>)
      [] v[1] = "object" -> <<"[object", " ", "Object]">>
      [] OTHER -> <<v[1]>>

(* A word in small letters, in capitals, and beginning with a capital. *)
Cases == {<<"a", "A", "A">>, <<"b", "B", "B">>, <<"name", "NAME", "Name">>,
          <<"null", "NULL", "Null">>,
          <<"undefined", "UNDEFINED", "Undefined">>, <<"[object", "[OBJECT", "[object">>,
          <<"object]", "OBJECT]", "Object]">>}

InCase(word, form) ==
    IF \E c \in Cases : word \in ToSet(c)
    THEN (CHOOSE c \in Cases : word \in ToSet(c))[form]
    ELSE word

LengthOf(words) == FoldLeft(LAMBDA n, w : n + Len(w), 0, words)

LettersOf(words) ==
    FoldLeft(LAMBDA all, w : all \o [k \in 1..Len(w) |-> SubSeq(w, k, k)], <<>>, words)

Trimmed(words) ==
    LET solid == {k \in DOMAIN words : words[k] # " "}
    IN IF solid = {} THEN <<>> ELSE SubSeq(words, Min(solid), Max(solid))

(* convertToString: what a template makes of a value. *)
RECURSIVE ConvertToString(_)
ConvertToString(v) ==
    CASE v[1] = "array" ->
           Joined([k \in DOMAIN v[2] |-> ConvertToString(v[2][k])], <<",">>)
      [] v \in {Null, Undefined} -> <<>>
      [] v[1] = "object" -> <<ToString(v)>>
      [] OTHER -> StringOf(v)

BuiltIn(function, v) ==
    LET s == StringOf(v)
    IN CASE function = "trim" -> Text(Trimmed(s))
         [] function = "lowercase" -> Text([k \in DOMAIN s |-> InCase(s[k], 1)])
         [] function = "uppercase" -> Text([k \in DOMAIN s |-> InCase(s[k], 2)])
         [] function = "length" ->
              <<"number", IF v[1] = "array" THEN Len(v[2]) ELSE LengthOf(s)>>
         [] function = "capitalize" ->
              Text([k \in DOMAIN s |->
                       IF k = 1 \/ s[k - 1] = " " THEN InCase(s[k], 3) ELSE s[k]])
         [] OTHER -> Throws

-----------------------------------------------------------------------------
(***************************************************************************)
(* Nodes are identified by the function last registered for their type:    *)
(* here it returns a value of its own, or one of the data it is given.     *)
(***************************************************************************)
NoData == <<>>

Identify(registered, data, type, id) ==
    LET ofType == SelectSeq(registered, LAMBDA r : r[1] = type)
    IN IF ofType = <<>> THEN Undefined
       ELSE IF Last(ofType)[2] = "own" THEN Last(ofType)[3]
       ELSE IF id \in DOMAIN data THEN data[id] ELSE Undefined

(* result?.[key] of a lookup, for the objects, arrays and strings of data. *)
Property(v, key) ==
    IF v[1] = "object" /\ StringOf(key) \in DOMAIN v[2] THEN v[2][StringOf(key)]
    ELSE IF v[1] = "array" /\ key[1] = "number" /\ key[2] + 1 \in DOMAIN v[2]
    THEN v[2][key[2] + 1]
    ELSE IF v[1] = "string" /\ key[1] = "number" /\ key[2] + 1 \in DOMAIN LettersOf(v[2])
    THEN Text(<<LettersOf(v[2])[key[2] + 1]>>)
    ELSE Undefined

Lookup(v, path) ==
    LET keys == CASE path[1] = "array" -> path[2]
                  [] path[1] = "string" ->
                         [k \in DOMAIN LettersOf(path[2]) |-> Text(<<LettersOf(path[2])[k]>>)]
                  [] OTHER -> <<>>
    IN IF path[1] \notin {"array", "string"} THEN Throws
       ELSE FoldLeft(Property, v, keys)

(* All of them, or the first that throws. *)
AllOr(values, result) == IF Throws \in ToSet(values) THEN Throws ELSE result

ObjectOf(keys, values) ==
    FoldLeft(LAMBDA o, k : (StringOf(keys[k]) :> values[k]) @@ o, <<>>,
             [k \in DOMAIN keys |-> k])

RECURSIVE Parse(_, _, _)
ParseAll(es, registered, data) ==
    [k \in DOMAIN es |-> Parse(es[k], registered, data)]

ParseTemplateBare(es, registered, data) ==
    LET values == ParseAll(es, registered, NoData)
    IN AllOr(values, Text(Joined([k \in DOMAIN es |-> ConvertToString(values[k])], <<>>)))

ParseTemplate(es, registered, data) ==
    LET values == ParseAll(es, registered, data)
    IN AllOr(values, Text(Joined([k \in DOMAIN es |-> ConvertToString(values[k])], <<>>)))

ParseObject(properties, registered, data) ==
    LET keys == ParseAll([k \in DOMAIN properties |-> properties[k][1]], registered, data)
        values == ParseAll([k \in DOMAIN properties |-> properties[k][2]], registered, data)
    IN AllOr(keys \o values, <<"object", ObjectOf(keys, values)>>)

Parse(e, registered, data) ==
    CASE e[1] = "Literal" -> e[2]
      [] e[1] = "Object" -> ParseObject(e[2], registered, data)
      [] e[1] = "Template" -> ParseTemplate(e[2], registered, data)
      [] e[1] = "ObjectPropertyLookup" ->
           LET both == ParseAll(<<e[2], e[3]>>, registered, data)
           IN AllOr(both, Lookup(both[1], both[2]))
      [] e[1] = "NodeIdentifier" -> Identify(registered, data, e[2], e[3])
      [] e[1] = "Array" ->
           LET values == ParseAll(e[2], registered, data)
           IN AllOr(values, <<"array", values>>)
      [] e[1] = "FunctionCall" ->
           LET values == ParseAll(e[3], registered, data)
           IN AllOr(values, BuiltIn(e[2], IF values = <<>> THEN Undefined ELSE values[1]))
      [] OTHER -> Throws

-----------------------------------------------------------------------------
(* The expression with its nodes replaced by literals of their values. *)
RECURSIVE Closed(_, _, _)
Closed(e, registered, data) ==
    LET All(es) == [k \in DOMAIN es |-> Closed(es[k], registered, data)]
    IN CASE e[1] = "NodeIdentifier" ->
              <<"Literal", Identify(registered, data, e[2], e[3])>>
         [] e[1] = "Object" -> <<"Object", [k \in DOMAIN e[2] |-> All(e[2][k])]>>
         [] e[1] \in {"Template", "Array"} -> <<e[1], All(e[2])>>
         [] e[1] = "ObjectPropertyLookup" -> <<e[1]>> \o All(<<e[2], e[3]>>)
         [] e[1] = "FunctionCall" -> <<e[1], e[2], All(e[3])>>
         [] OTHER -> e

=============================================================================
