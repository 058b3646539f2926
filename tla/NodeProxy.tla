------------------------------ MODULE NodeProxy -------------------------------
(***************************************************************************)
(* node-proxy: what becomes of a request that is passed to a target, and   *)
(* of the headers of the target's response.                                *)
(*                                                                         *)
(* Node gives a response's headers twice: by names in small letters, with  *)
(* cookies as an array, and as they were sent, each <<name in small        *)
(* letters, name, value>>.  A cookie is a sequence of its parts,           *)
(* <<kind, value>>, that ";" separates; the text of several cookies keeps  *)
(* between two ";" the parts that "," separates.                           *)
(***************************************************************************)
EXTENDS Integers, FiniteSetsExt, SequencesExt

(* String of an array of cookies: a comma joins the last part of one with  *)
(* the first of the next.                                                  *)
TextOf(cookie) == [p \in DOMAIN cookie |-> <<cookie[p]>>]

AddCookie(text, cookie) ==
    [p \in 1..(Len(text) + Len(cookie) - 1) |->
        IF p < Len(text) THEN text[p]
        ELSE IF p = Len(text) THEN Append(text[p], cookie[1])
        ELSE <<cookie[p - Len(text) + 1]>>]

Texts(cookies) ==
    LET T[k \in 1..Len(cookies)] ==
            IF k = 1 THEN TextOf(cookies[1]) ELSE AddCookie(T[k-1], cookies[k])
    IN T

CookieText(cookies) == Texts(cookies)[Len(cookies)]

(* A configuration may be a value for every old one, or a table. *)
RewriteCookieConfig(config) ==
    IF config[1] = "string" THEN [old \in {"*"} |-> config[2]] ELSE config[2]

(***************************************************************************)
(* The expression takes all between "; domain=" and the next ";" for the   *)
(* old value: what a comma adds to it is looked up, and replaced, with it. *)
(***************************************************************************)
Rewritten(segment, attribute, table) ==
    IF Head(segment)[1] # attribute THEN segment
    ELSE IF Len(segment) = 1 /\ Head(segment)[2] \in DOMAIN table
    THEN <<<<attribute, table[Head(segment)[2]]>>>>
    ELSE IF "*" \in DOMAIN table THEN <<<<attribute, table["*"]>>>>
    ELSE segment

ParseCookieOnce(attribute, text, table) ==
    LET found == {k \in 2..Len(text) : Head(text[k])[1] = attribute}
    IN IF found = {} THEN text
       ELSE [text EXCEPT ![Min(found)] = Rewritten(@, attribute, table)]

ParseCookie(attribute, text, table) ==
    [k \in DOMAIN text |->
        IF k = 1 THEN text[k] ELSE Rewritten(text[k], attribute, table)]

RewroteCookie(text, options) ==
    LET Configured(attribute, t) ==
            IF options[attribute][1] = "unset" THEN t
            ELSE ParseCookie(attribute, t, RewriteCookieConfig(options[attribute]))
    IN Configured("path", Configured("domain", text))

-----------------------------------------------------------------------------
(* The connection header of the reply, from the request and the response. *)
SetConnection(version, asked, given) ==
    IF version = "1.0" THEN (IF asked = "" THEN "close" ELSE asked)
    ELSE IF given # "" THEN given
    ELSE IF asked # "" THEN asked
    ELSE IF version = "1.1" THEN "keep-alive" ELSE ""

(* The headers that are passed on: by their own names, of a name that was  *)
(* sent more than once the last, or as node gives them.                    *)
RawHeaders(response) ==
    LET sent == response.rawHeaders
        At(name) == {k \in DOMAIN sent : sent[k][2] = name}
    IN [name \in {h[2] : h \in ToSet(sent)} |-> sent[Max(At(name))][3]]

CookieNames(response, raw) ==
    IF raw THEN {h[2] : h \in {x \in ToSet(response.rawHeaders) : x[1] = "set-cookie"}}
    ELSE {"set-cookie"} \cap DOMAIN response.headers

(* setHeader: a name replaces one in other letters that was set before it; *)
(* names are set in the order in which they first came.                    *)
FirstAt(response, name) ==
    Min({k \in DOMAIN response.rawHeaders : response.rawHeaders[k][2] = name})

SmallLetters(response, name) == response.rawHeaders[FirstAt(response, name)][1]

IsReplaced(response, name, names) ==
    \E other \in names :
        /\ SmallLetters(response, other) = SmallLetters(response, name)
        /\ FirstAt(response, other) > FirstAt(response, name)

WriteHeaders(response, connection, options) ==
    LET raw == options.preserveHeaderKeyCase
        headers == IF raw THEN RawHeaders(response)
                   ELSE [n \in DOMAIN response.headers \cup {"connection"} |->
                            IF n = "connection" THEN connection ELSE response.headers[n]]
        ofCookie == CookieNames(response, raw)
        set == {m \in DOMAIN headers : m \in ofCookie \/ headers[m] # ""}
        Cookies(value) == IF raw THEN <<value>> ELSE value
    IN [n \in {m \in set : ~(raw /\ IsReplaced(response, m, set))} |->
           IF n \in ofCookie THEN RewroteCookie(CookieText(Cookies(headers[n])), options)
           ELSE headers[n]]

Given(headers, name) == IF name \in DOMAIN headers THEN headers[name] ELSE ""

(***************************************************************************)
(* pass: without a target it throws; a target that cannot be reached is    *)
(* thrown from an event, which ends the process; else the reply has the    *)
(* target's headers and body, and always the status 200.                   *)
(***************************************************************************)
Port(target) ==
    IF target.port # 0 THEN target.port
    ELSE IF target.protocol \in {"https:", "wss:"} THEN 443 ELSE 80

Pass(request, options, response) ==
    IF options.target.protocol = "" THEN [outcome |-> "throws"]
    ELSE IF response.kind = "error" THEN [outcome |-> "process ends"]
    ELSE [outcome |-> "reply", status |-> 200, port |-> Port(options.target),
          headers |-> WriteHeaders(response,
                          SetConnection(request.version, request.connection,
                                        Given(response.headers, "connection")),
                          options)]

=============================================================================
