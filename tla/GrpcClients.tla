----------------------------- MODULE GrpcClients ------------------------------
(***************************************************************************)
(* The wiring of GrpcClientsModule: which client, options and definition   *)
(* the proxy of a service is given.  Packages and services are sequences   *)
(* of words, those that dots separate.  The definitions of the packages    *)
(* are loaded together, and settle in any order.                           *)
(***************************************************************************)
EXTENDS FiniteSetsExt, SequencesExt, TLC

Health == <<"Health">>
HealthClientKey(package) == <<"grpc.health.v1", package>>

(* getProtoPath: the files in the order they are loaded. *)
ProtoPath(o) ==
    <<o.common>> \o (IF o.healthCheck THEN <<o.health>> ELSE <<>>)
    \o o.dependent \o <<o.main>>

(***************************************************************************)
(* forRoot: what of the loaded definitions is a service under its          *)
(* package's name.                                                         *)
(***************************************************************************)
Loaded(o, files) == UNION {files[f] : f \in ToSet(ProtoPath(o))}

ServicesOf(o, files) ==
    {d \in Loaded(o, files) : IsStrictPrefix(o.package, d.key) /\ ~d.format}

ServiceName(o, d) == SubSeq(d.key, Len(o.package) + 1, Len(d.key))

(* One for every service, of the package that was loaded at-th. *)
Providers(order, files) ==
    UNION {{[at |-> k, o |-> order[k], name |-> ServiceName(order[k], d), d |-> d] :
               d \in ServicesOf(order[k], files)} : k \in DOMAIN order}

(* The methods of a service are kept under its name alone, in one table    *)
(* that all packages write to: of a method that several have, the last.    *)
Definition(providers, name) ==
    LET all == {p \in providers : p.name = name}
        Latest(m) == CHOOSE p \in all :
                        /\ m \in p.d.methods
                        /\ \A q \in all : m \in q.d.methods => q.at <= p.at
    IN [m \in UNION {p.d.methods : p \in all} |-> Latest(m).d.key \o <<m>>]

-----------------------------------------------------------------------------
(* The clients, and under the same keys the options. *)
KeysOf(o) == {o.package} \cup IF o.healthCheck THEN {HealthClientKey(o.package)} ELSE {}
ClientKeys(options) == UNION {KeysOf(o) : o \in ToSet(options)}
OptionsUnder(options, key) ==
    options[Max({k \in DOMAIN options : key \in KeysOf(options[k])})]

ClientOf(o, name) == IF name = Health THEN HealthClientKey(o.package) ELSE o.package

(* getService keeps the services it has made by client and name: a second  *)
(* provider of a key is given what the first one made.                     *)
ServiceKeyByName(clientKey, name) == <<name>>
ServiceKey(clientKey, name) == <<clientKey, name>>

ServiceMade(providers, options, clientKey, name) ==
    LET makers == {p \in providers :
                      LET client == ClientOf(p.o, p.name)
                      IN /\ client \in ClientKeys(options)
                         /\ ServiceKey(client, p.name) = ServiceKey(clientKey, name)}
        first == CHOOSE p \in makers : \A q \in makers : p.at <= q.at
    IN [client |-> ClientOf(first.o, first.name), service |-> first.name]

(* The proxy a provider makes: its factory throws without a client. *)
GetService(providers, options, o, name) ==
    LET key == ClientOf(o, name)
    IN IF key \notin ClientKeys(options)
       THEN [o |-> o, name |-> name, error |-> "ERR_CLIENT_NOT_FOUND"]
       ELSE [o |-> o, name |-> name,
             service |-> ServiceMade(providers, options, key, name),
             options |-> OptionsUnder(options, key),
             definition |-> Definition(providers, name)]

Proxies(options, order, files) ==
    LET providers == Providers(order, files)
    IN {GetService(providers, options, p.o, p.name) : p \in providers}

=============================================================================
