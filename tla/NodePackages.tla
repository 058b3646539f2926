----------------------------- MODULE NodePackages ------------------------------
(***************************************************************************)
(* Calls of node-proxy and node-qrcode: a request that is passed on, and a *)
(* logo that is sized for a code.                                          *)
(***************************************************************************)
EXTENDS OneCall, QrLogo, FiniteSets, SequencesExt

CONSTANT NodeCalls      \* <<"proxy" or "logo", arguments>>

NodeProxy == INSTANCE NodeProxy

(***************************************************************************)
(* A cookie begins with its name, and goes on with attributes.  A name in  *)
(* small letters belongs to each name as it was sent.                      *)
(***************************************************************************)
Parts == STRING \X STRING
CookieValues == {c \in Seq(Parts) : c # <<>> /\ c[1][1] \notin {"domain", "path"}}
IsResponse(response) ==
    LET sent == response.rawHeaders
        headers == response.headers
    IN /\ sent \in Seq(ToSet(sent))
       /\ \A h, g \in ToSet(sent) : h[2] = g[2] => h[1] = g[1]
       /\ \A h \in ToSet(sent) : h[1] = "set-cookie" => h[3] \in CookieValues
       /\ "set-cookie" \in DOMAIN headers =>
            headers["set-cookie"] \in Seq(CookieValues) \ {<<>>}

(* The sizes of all QR codes. *)
Counts == {4 * version + 17 : version \in 1..40}

ASSUME NodeAssumption ==
    \A c \in NodeCalls :
        \/ /\ c[1] = "proxy" /\ c[3].preserveHeaderKeyCase \in BOOLEAN
           /\ c[4].kind = "error" \/ IsResponse(c[4])
        \/ /\ c[1] = "logo" /\ c[2] \in Counts /\ c[3] \in DOMAIN Percent
           /\ c[4] \in Nat /\ c[4] >= 8
           /\ c[5] \in (Nat \ {0}) \X (Nat \ {0}) /\ c[6] \in Nat

-----------------------------------------------------------------------------
PassRequest == Answer("proxy", NodeProxy!Pass(call[2], call[3], call[4]))

(* The modules of a pixel width, and the logo in them. *)
DotOf(count, width) == (width - 8) \div count

SizeLogo ==
    Answer("logo", LogoSize(DotOf(call[2], call[4]), MaxHidden(call[3], call[2]),
                            call[5][1], call[5][2], call[6]))

NodeInit == call \in NodeCalls /\ result = Pending
NodeNext == PassRequest \/ SizeLogo
NodeSpec == NodeInit /\ [][NodeNext]_<<call, result>>

-----------------------------------------------------------------------------
(***************************************************************************)
(* A logo costs no more modules than the error correction can restore:     *)
(* those that are not drawn for it and those it lies on; and it spares the *)
(* position patterns.  (QRCanvas._drawLogo squares the share, and centres  *)
(* a range that its half modules may widen.)                               *)
(***************************************************************************)
LeavesEnough(lost, level, count) ==
    LET edge == (0..6) \cup ((count - 7)..(count - 1))
    IN /\ 100 * Cardinality(lost) <= Percent[level] * count * count
       /\ \A m \in lost : ~(m[1] \in edge /\ m[2] \in edge)

LogoLeavesEnough ==
    Answered("logo") /\ Got.innerWidth > 0 /\ Got.innerHeight > 0 =>
        LeavesEnough(Lost(Got, DotOf(call[2], call[4]), call[2]), call[3], call[2])

-----------------------------------------------------------------------------
Configured(attribute, options) ==
    attribute \in {"domain", "path"} /\ options[attribute][1] # "unset"

Replaced(part, options) ==
    LET table == NodeProxy!RewriteCookieConfig(options[part[1]])
    IN IF ~Configured(part[1], options) THEN part
       ELSE IF part[2] \in DOMAIN table THEN <<part[1], table[part[2]]>>
       ELSE IF "*" \in DOMAIN table THEN <<part[1], table["*"]>> ELSE part

AllReplaced(cookies, options) ==
    [k \in DOMAIN cookies |-> [p \in DOMAIN cookies[k] |-> Replaced(cookies[k][p], options)]]

(* Cookies under a name: all of them, or the last of those sent under it. *)
Sent(response, name, raw) ==
    IF raw THEN <<NodeProxy!RawHeaders(response)[name]>> ELSE response.headers[name]

Apart(cookies, options) ==
    \A k \in 1..(Len(cookies) - 1) : ~Configured(Last(cookies[k])[1], options)

(***************************************************************************)
(* The cookies of the target arrive under one name, with domain and path   *)
(* as they are configured and the rest as it was, also when several are    *)
(* one text, as long as none but the last ends in an attribute that is     *)
(* rewritten.  Where names keep their letters, only one cookie does: the   *)
(* last of the name that came after all others for cookies                 *)
(* (write-headers.ts:22-40, whose setHeader ignores the letters' case).    *)
(***************************************************************************)
CookiesRewritten ==
    Answered("proxy") /\ Got.outcome = "reply" =>
        LET options == call[3]
            response == call[4]
            raw == options.preserveHeaderKeyCase
            names == NodeProxy!CookieNames(response, raw)
            First(name) == NodeProxy!FirstAt(response, name)
        IN names # {} =>
             \E name \in names :
                LET cookies == Sent(response, name, raw)
                IN /\ DOMAIN Got.headers \cap names = {name}
                   /\ raw => \A other \in names : First(other) <= First(name)
                   /\ Apart(cookies, options) =>
                        Got.headers[name] = NodeProxy!CookieText(AllReplaced(cookies, options))

=============================================================================
