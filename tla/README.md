# A verification project for pkg-universe

pkg-universe is a monorepo of TypeScript packages for Node. Most are thin; a few
carry logic over time that tests hardly reach: a retrying HTTP client, decoders
of event streams, a gRPC proxy with timeouts and retries, a web framework's
shutdown and cluster, a message queue whose consumers are split in two,
interceptors that write into what other requests hold. This directory models
those in TLA+, and the packages that keep nothing between calls as functions;
it checks the models with TLC, and proves the most important results with TLAPS.

Paths below are relative to `src/packages/`. `PROJECT.json` maps every
definition to the lines it models.

## 1. Inventory

| Component | State it keeps | Operations | Talks to | Hard behaviour | Correct when |
|---|---|---|---|---|---|
| **zhipuai: request engine** (`zhipuai/src/core/api-client`, `zhipuai-auth-manager`) | per call: attempt, retries left, timer, sleep, error body being read; shared: cached token, timeout of the HTTP agent | `makeRequest`, `buildRequest`, `fetchWithTimeout`, `retryRequest`, `shouldRetry`, `getToken` | `node-fetch`, the caller's `AbortSignal` | aborts at every await, timers against answers, retries over mixed failures, several calls on one client | the budget holds, nothing is sent after an abort or with a stale token, errors name their cause, every call ends |
| **zhipuai: event streams** (`core/streaming`) | bytes not yet cut, held-back CR, lines of the open event, whether iteration ended | `iterSSEChunks`, `LineDecoder.decode/flush`, `SSEDecoder.decode`, `Stream.fromSSEResponse` | the response body, its `AbortController` | the network cuts anywhere, consumers stop early, silent servers | the items are those of the body whatever the cuts; the connection is released |
| zhipuai: resources, shims, errors | none | one-line calls of the engine | the engine | none | types |
| **nest-grpc-helper: ServiceProxy, GrpcHelperMethod** (`service-proxy`, `grpc-server`) | per call: subscription, first-value timer, retries left | `send`, handler wrapper | gRPC client observables, the server's handlers | late answers, handlers that ran though the caller was told otherwise, streams that fail half way | the caller sees one attempt at a time; the handler runs within the budget |
| nest-grpc-helper: exception filter, replies (`grpc-filter`, `grpc-server`, `exceptions`) | none | `catch`, `GrpcHelperMethod`'s reply, `send`'s reading of it | nest-common-helper's filter, which a server may use in its place | families of exceptions with payloads of many shapes, tags added and taken off | the caller is told what the handler did |
| nest-grpc-helper: clients and health (`grpc-clients`) | the table of definitions, clients and services made | `forRoot`, `getService`, proxies | Nest, proto files | packages loaded at once into one table keyed by service name | every service has a proxy on its own package's client |
| **nico: process and shutdown** (`nico/src/index.ts`) | servers, signal listeners, force-exit timers, exit code | `start`, `createServer`, `useSignalHandler` | Node's process and http server, user handlers | repeated signals, handlers that hang or reject, connections that linger | drains before the handler runs, exits in time, 0 only if complete |
| **nico: cluster** (`startCluster`) | the master's closing flag, workers | fork, kill, `exit` event | workers | crashes while stopping, signals before boot, a terminal that signals everybody | count of workers kept; nobody outlives a signal |
| **nico: request pipeline** (`nico/src/middleware`) | `ctx` of a request, timers of its controllers | policies, body parser, validator, controllers, error handler | koa, koa-compose | a controller that lost its race goes on | checked before it runs, answered in time, one answer in one piece |
| nico: configuration and init (`nico/src/index.ts`, `utils/deepmerge`, `middleware/router`) | lists of middlewares, custom ones, merged configuration, koa's stack, `#initialed` | `useAppMiddleware`, `useRouteMiddleware`, `mergeConfigs`, `init`, `getMiddlewares`, `serve` | koa | lists that grow by names, factories that throw half way, `init` twice | own middlewares keep their order, custom ones stand where they were put, routes are those of all configurations |
| **nest-rabbitmq** (`rabbitmq.service.ts`, `services`) | wrapping of the channel, consumers | `publish`, `sendToQueue`, `consume`, `nack`, compress/decompress, setups | amqp-connection-manager, the broker | redelivery, requeueing between pods, setups that wrap twice | nothing is lost, contents survive, a chain of messages stays on its side |
| **redis-busy-box** | SCAN cursor, first-element flag, output file | export, list, delete, count, memory usage | Redis, the user | elements of a batch handled concurrently, other clients' changes | keys that stay are handled; the file is valid JSON |
| node-proxy | none | headers, cookies and connection of a proxied request | http | cookies joined into one text, errors in event handlers | each cookie is rewritten as configured and nothing else is |
| input-expression | none | values of expressions over the data of nodes | none | nesting | a node may stand for its value anywhere |
| socket.io-msgpack-parser (and client) | decoder listeners | encode, decode, validity of packets | socket.io | malformed packets | only valid packets pass |
| **nest-common-helper** (`trace`, `propagation`, `exception`) | per request: headers, asyncLocalStorage; shared: exceptions | the interceptors, `StandardExceptionFilter` | Nest, nest-grpc-helper, nest-rabbitmq | exceptions that several requests hold, two orders of the interceptors, four transports | an error names its request, a chain keeps its id |
| nest-async-cache-dedupe | a cache per decorated method | cached call | async-cache-dedupe | callers share the call under way | as above |
| node-qrcode (`core`) | the context of a canvas: transform, path, colours | dots, corners, logo of every style | `qrcode`, `canvas` | transforms that must be put back, paths left open over a column, a range of half modules for the logo | the page is the code, and the logo leaves enough of it |
| logger, jest, inject-config, nest-oidc-provider, nest-typeorm-helper | configuration | wiring | | none | |

The packages do not call each other at run time, apart from logging and
configuration, and through an application that uses several: its requests come
in through nest-common-helper, whose headers nest-grpc-helper and nest-rabbitmq
propagate, perhaps inside a method of nest-async-cache-dedupe. `NestRequest` is
that composition. The other models stand alone, except where they say that they
compose or refine another.

`PROJECT.json` "hazards" lists, line by line, what is hard to test, with the
properties that watch it, or why none does.

## 2. Modules

| Module | Models | Reads as |
|---|---|---|
| `ApiClient` | `api-client.ts`, `zhipuai-auth-manager.ts` | the phases of `makeRequest` between its awaits: `Build`, `Send`, (`ServerAnswers`, `ConnectionFails`, `UserAborts`, `TimerFires`), `FetchSettles`, `HandleError`, `HandleResponse`, the error body, `Wake` |
| `SseStream` | `core/streaming/*` | one pull of the consumer at a time through three generators: a chunk is cut (`FirstDelimiter`), split in lines (`DecodeText`, `Flushed`), lines added to an event (`AddLine`), an event turned into an item, an end or an error (`Meaning`) |
| `AtLeastOnceCall` | what `send` promises | abstract: a call answered at most once, a handler that runs at most so often |
| `GrpcRequest` | `service-proxy.ts`, `grpc-helper-method.decorator.ts` | attempts on the wire, at the server, answered; implements `AtLeastOnceCall` |
| `GracefulProcess` | what a nico process promises | abstract: serving, stopping, exited |
| `NicoShutdown` | `start`, `createServer` | servers, one run of the listener per signal and server (a *shutdown*), force-exit timers; implements `GracefulProcess` |
| `NicoCluster` | `startCluster` | master and workers; once booted a worker moves as a `GracefulProcess` does, and may crash |
| `NicoRequest` | route middlewares, `error-handler` | nested controllers racing their timers; one answer |
| `RabbitMQ` | `rabbitmq.service.ts`, `services/*` | pods with wrapped channels around a broker |
| `ScanAll` | redis-busy-box's `scanAll` and the commands on it | a batch at a time: `Scan`, the answers on the connection (`TypeArrives`, `ValueArrives`, `UsageArrives`), the end of the callback |
| `NestRequest` | nest-common-helper's interceptors and filter with what `ServiceProxy`, nest-rabbitmq and nest-async-cache-dedupe propagate | requests, each the call of another: `Intercept`, the handler (`Call`, `Publish`, `CallCached`, `Resume`, `HandlerThrows`, `EndsEmpty`), `Mark` (what the interceptor writes into an exception) and `Catch` (what the filter reads) |
| `QrCanvas` | a 2D context, and `saveQRCodeData` | transform, path and ink after each operation |
| `QrLogo` | the size of a logo, and what it hides | functions of the code, the level and the picture |
| `QrCode` | `QRCanvas.ts`, `QRDot.ts`, `QRCorner.ts`, the logo | `DrawDots` a column at a time, `DrawCorners`, `DrawTheLogo` |
| `InputExpression`, `NodeProxy`, `GrpcReply`, `GrpcClients` | the package of that name, nest-grpc-helper's replies and clients | functions of their input |
| `NicoMiddlewares` | nico's lists of middlewares, and `init` | the application after each of its calls (`AppAfter`); what a configuration is, is left to constants |
| `NicoApp` | nico's configurations, merged, and the routes made of them | functions, with which `Packages` instantiates `NicoMiddlewares` |
| `OneCall` | a call and what it answers | the two variables of the modules below, and the step that answers |
| `GrpcHelper` | nest-grpc-helper as an application meets it | a call of a handler and what its caller gets (`CallHandler`), the clients forRoot makes (`WireClients`); one step each |
| `NodePackages` | node-proxy and the logos of node-qrcode, as an application meets them | a request passed on (`PassRequest`), a logo sized (`SizeLogo`); one step each |
| `Packages` | all the packages that keep nothing, together | a call and its answer, an action for each package (those of `GrpcHelper` and `NodePackages` among them); a drawing runs step by step |
| `MCApiClient`, `MCSseStream`, `MCGrpcRequest`, `MCRabbitMQ`, `MCNestRequest`, `MCPackages` | values of the constants that a `.cfg` cannot write | the other modules are checked as they are |
| `ApiClientProofs`, `SseStreamProofs`, `PackagesProofs` (of `GrpcRequest`, `GrpcHelper`, `NodePackages` and `NicoMiddlewares`), `NicoRequestProofs`, `NicoProcessProofs` (of `NicoShutdown` and `NicoCluster`), `NestRequestProofs`, `RabbitMQProofs`, `ScanAllProofs` | theorems | section 5 |

Node runs one callback at a time, so an action is what runs between two awaits
that really wait; steps separated by microtasks only are one action, or a phase
in which no time passes. Time is a countdown moved by `Tick`. A timer that is
due fires before more time passes, which is what makes "in time" provable; it
may still lose against anything that happens at the same moment.

### Readings worth knowing

* **ApiClient.** The two places that spend a retry differ in the code (`> 0` for
  errors, truthiness for statuses), and so do `HasRetry` and `MayRetry`.
  Headers are a record of the four fields the client reads; a delay is a
  number or `NoHint`. A call whose `maxRetries` is negative is allowed by the
  code, and `AttemptsBounded` says nothing of it. A timeout that is not a
  natural number is one value, `Invalid`, which `Build` rejects.
* **SseStream.** A byte is a line end or a letter naming what its line is.
  Text decoding (UTF-8 cut between bytes) is left out: chunks are cut after a
  line end before they are decoded, so no character is ever split.
* **GrpcRequest.** gRPC itself is external: a request may be lost, its handler
  may run late, its answers may be late. It is not duplicated by the transport.
* **NicoShutdown.** `server.close` is Node's: its callback comes when the last
  connection has ended, or at once with an error when the server was closed.
* **NicoCluster.** `worker.kill` is Node's. The master itself is not killed and
  does not crash.
* **NicoRequest.** Hooks other than `onError` are absent; koa sends what `ctx`
  holds when the outermost middleware returns. Each controller awaits its
  `next()`. An error is its text, as the error handler goes by it: `timeout`
  is `Request timeout`, whoever throws it.
* **RabbitMQ.** A queue is its number of `canary-` prefixes. The number of
  times a method of a channel is wrapped is state, because it depends on how
  many setups started before the method was called. Order between messages is
  not kept, as `sendToQueue` does not keep it. A callback that rejects is an
  unhandled rejection: `ProcessEnds` takes the pod's callbacks, its channel and
  what it had not yet sent, and the pod starts again (`Starts`). One whose error
  `onError` hears of stays, and keeps its slot of the prefetch. What a pod has
  packed waits in it until there is a channel.
* **ScanAll.** One connection answers in the order of sending, so answers are a
  queue, and each is answered and gone on with in one action. A type is
  `string`, `list` (for all the types `getValueByType` reads) or `module` (for
  one it does not). SCAN promises what Redis documents: keys there from start
  to end are returned, others may be, some in two batches. A read of a key whose
  type changed rejects, nobody catches it, and the process ends (`crashed`).
* **NestRequest.** An id is named by where it came from: generated by a request,
  sent by a client, or given in a socket's handshake. Asynchronous contexts give
  each request its own headers, so they are a field of it. A caller may be told
  before its call is answered (`CallSettles` with `rejected`): the call goes on.
  An exception created per request is an entry of `Constants` that one request
  throws. `sharers` is a history variable: it says who held the same exception
  at the same time, and no step reads it but the property. An Observable that completes
  without a value (`EndsEmpty`) makes the `lastValueFrom` of both interceptors reject:
  `catchError` sees the rejection of the inner one when `TraceInterceptor` is the outer one, and
  nothing otherwise. `ownMeta` are the exceptions whose response has a `meta`: the filter writes
  the id into that object, and `kept` is what stays there.
* **QrCode.** A module is eight pixels wide and is looked at in nine points, so
  that the roundings of every style fall between points. All shapes,
  turned by an eighth or not, are compared in whole numbers, without roots.
  `canvas` and `qrcode` are external: a context does what the standard of canvas
  says of transforms, paths and fills; the matrix is one that the library made.
* **InputExpression.** A string is a sequence of words, enough for each function
  (`trim`, `length`, capitals) to matter. What an unknown kind of expression or
  function does (undefined, or a throw) is kept.
* **NodeProxy.** A cookie is a sequence of its parts; joining cookies with a comma
  joins the last part of one with the first of the next, which is what the
  expression that rewrites a part then takes for one. Node gives the headers of a
  response twice, as a table with the cookies in an array, and as the list of what was
  sent; `preserveHeaderKeyCase` chooses the list, of which the last of a name is kept.
  Names that differ in their letters are two in the table made of that list and one to
  `setHeader`: the one set later, in the order in which names first came, replaces the other.
* **GrpcReply.** `Wire` is what protobuf makes of the messages of `protos/common.proto`: an
  `Any` carries an object with the name of a declared type and nothing of another, the data
  of an `ArrayReply` must be a list, and a list in the one `Any` of a `Reply` has no type. The
  types that `GrpcHelperMethod` names are taken as declared, and a meta as a pagination. A
  reply that cannot be written is an error of the request to its caller (`Fails`).
* **GrpcReply, GrpcClients, NicoApp.** A body that nobody looks into is a name.
  What a configuration holds besides the keys that choose middlewares is a name
  too.

## 3. Runs

All bounds are in the `.cfg` files and `MC` modules.

| Run | Question | Bounds, and why they suffice |
|---|---|---|
| `api_client` | Do several calls on one client keep budget, token, agent and abort discipline, and end? | Three calls: one with two retries (so that both paths that spend one can follow each other) and a timeout above the client's, one with the client's options, one with an invalid timeout. Five responses reach every branch of `shouldRetry` and of the header parsing. Tokens live two units and are renewed at one. |
| `sse_stream` | Does the consumer get the items of the body, whatever the cuts, and is the connection released? | Every body of up to 6 bytes over LF, CR and a data byte, which has every delimiter and every pair of them, cut in every way; two events of up to two lines of every kind; three events of one line. |
| `sse_delay` | Is an event cut once its end pattern is there? **No**, see findings. | Two events. |
| `grpc_request` | Does `send` keep its promise against late and lost work? | A unary call with two retries (a first, a middle and a last attempt) and a stream of two values (a failure after the first) with one. |
| `nico_shutdown` | Does a process drain, then handle, then exit, in time? | Two servers (as a second `start` makes), three signals, one connection each. Three signals are a first, one that comes while it drains and one while its handler runs. |
| `nico_request` | Are controllers run only when checked, and answered once, whole and in time? | Three nested controllers (an outer, one with both neighbours, an inner), two awaited checks and a function on a file, timeout 2, followed to twice the timeout so that losers act after the answer. |
| `nico_cluster` | Does the cluster keep its count and stop as one? | Two workers, four forks (two replacements), two signals. |
| `rabbitmq` | Is nothing lost, damaged or handled on the wrong side? | A stable and a canary pod, both strategies, with and without `onError`; an order from outside or a request, with any headers or none, the compressed mail its handler publishes, whose own handler throws, and a note a request cannot publish, too long even compressed. One setup per channel that consumes after an await, a prefetch of two (so that messages wait while one keeps its slot), two events (messages from outside, requests, lost connections); any number of processes that end. |
| `rabbitmq_two_setups` | Does a compressed message survive a second setup? **No**, see findings. | Two setups. |
| `scan_all` | Does each command cover the keys that stay, and does an export come out in order? | Two keys, three batches (so that a batch is empty, and one is the same as an earlier one) of up to two elements (one overtakes the other), two changes by other clients. |
| `nest_request` | Does an error name its request, and a chain keep its id? | Entry 1 comes in every way (HTTP, socket, gRPC, with or without data, id or handshake) with two calls or messages behind it, so that an id must pass an application that did not generate it; entry 2 comes over HTTP and may wait for the cached call of entry 1; one exception that all may throw, whose response has a meta of its own or not; handlers that give no value; both orders of the interceptors. 4 million states. |
| `packages` | Is what the packages answer right? | The version 1 code of a short text in each of eleven styles of dots, seven of corners, three of radii, and with logos of three shapes over two styles; logo sizes for four codes, all four levels, two widths, four shapes and three borders. Every expression of two leaves inside up to one more, over two sets of registered identifiers. Up to two cookies of four shapes under four configurations. Results and exceptions of every family, to both filters. Two packages with and without health check, services that share a name or do not, both orders of loading. Three calls that configure a nico application: two of any kind and an `init`. |

### Properties

*ApiClient*: `AttemptsBounded` (first attempt plus retries, over both paths),
`ErrorNamesCause` (a timeout error means a timer fired, an abort error that the
caller aborted, and so on), `AgentOutlastsTimers` (the shared agent never cuts a
socket before the timer of an attempt that relies on it), `NoFetchAfterAbort`,
`SentTokenIsFresh`, `CallSettles`, `AbortSettles`.

*SseStream*: `GivenIsPrefix` and `EndIsComplete` compare what was given with the
items of the whole body, decoded at once by a definition of its own;
`ConnectionReleased`, `AbortEndsPull`.

*GrpcRequest*: `ValuesOfCurrentAttempt` (no value of an abandoned
attempt reaches the caller), `FailureIsFinal`, `CallEnds`,
`ImplementsAtLeastOnce`, which holds the count of handlers that ran.

*NicoShutdown*: `ExitsInTime`, `HandlersRunDrained`,
`CleanExitIsComplete`, `ImplementsGracefulProcess`. *NicoCluster*:
`WorkersAreCounted`, `NoOrphans`, `ClusterStops`. *NicoRequest*:
`ControllersRunChecked`, `AnsweredInTime`, `AnswerIsWhole`.

*RabbitMQ*: `ChainStaysOnOneSide`, `NothingLost`, `HandledAsSent`,
`EveryMessageHandled`.

*ScanAll*: `StableKeysHandled` relates the set of keys that existed all along to what
a finished command has counted, shown, written or deleted; `ValuesExportInOrder` says when
the comma rule of the export is right: all keys have values to read, so that the
connection's order is that of the batch.

*NestRequest*: `ErrorNamesRequest` relates the payload of an error to the id its
request is traced under, over what other requests did with the same exception;
`ChainKeepsId` compares an application with the first of its chain.

*Packages*: `RendersCode` (the ink in the centre of every module, the position
patterns a scanner looks for, neighbours that should flow into each other),
`LogoLeavesEnough` (what the error correction can restore), `NodesAreTheirValues`
(an expression is compared with itself, the values put in first), `CookiesRewritten`
(of several cookies one arrives where names keep their letters),
`ReplyIsFaithful` (from the handler of one process over the wire to the caller in another;
with an `ArrayReply` it says which exceptions cannot be told),
`ProxiesAreWired` (in every order of loading), `AppIsConfigured`.

### Deadlock

`api_client` checks it: in its model time always passes. The others really stop:
the iteration ends, the process, command or cluster exits, every call and every
message is done, every drawing drawn, or the bound on the time a request is
followed is reached.

### Fairness

* `ApiClient`, `GrpcRequest`, `NicoShutdown`: time passes, and what the event
  loop has ready is run. No fairness is given to servers, networks, handlers or
  callers: a server may be silent for ever, and the call must end all the same.
  `CallSettles` excludes the one place where the code waits without a timer,
  the body of an error (hazard at `api-client.ts:438`); `AbortSettles` says that
  an abort ends that too. `CallEnds` likewise excludes a stream that stalls after
  its first value, which `timeout({ first })` does not watch.
* `SseStream`: a pull that can go on does. The network is not fair.
* `NicoCluster`: processes get the signals sent to them, boot, and exit once they
  stop, as `NicoShutdown` shows of each; the master hears of exits.
* `RabbitMQ`: callbacks run, compression ends, connections come back, a process
  with an unhandled rejection ends and is started again, and the broker's dispatch is
  strongly fair: under the requeue strategy a message goes back and forth, and
  only a broker that does not always choose the same consumer gets it across.
  That is round robin, which the code relies on and does not enforce.
  `EveryMessageHandled` does not speak of a system in which callbacks reject for
  ever (a message without headers goes from process to process and ends each of
  them), nor of a message all of whose pods are clogged, each slot of their
  prefetch kept by a message that only `onError` heard of.

## 4. Findings

Two runs show that the code does not do what the repository says of it:

1. `sse_delay`: `findDoubleNewlineIndex` never looks at the last two bytes as a
   pair. An event whose `\n\n` has arrived waits until bytes of the next one do.
   Nothing is lost (`EndIsComplete` holds) but each event is late.
2. `rabbitmq_two_setups`: every setup wraps the same channel again, so a second
   setup's consumer inflates twice, and a compressed message that is delivered to
   it does not reach its handler.

The rest was seen while modelling. The models have it, and where a property would
be broken by it the property says so; no document speaks against it.

* **nico.** `#started` is read by `start` and assigned nowhere, so a second `start`
  makes a second server. An `init` that failed because a factory threw may be
  called again, and adds its middlewares again. A custom middleware added under
  a name that is there is listed twice. `deepmerge` of arrays that mix objects
  and primitives loses items, and adds some again when given the same
  configuration. While an asynchronous `onError` runs, or under a controller
  that caught the timeout of the one below, the controller that lost still
  writes to the response (`AnswerIsWhole` leaves these out). Routes with
  `cors: false` keep their CORS headers when the controller throws. The functions
  of a file validator are called and not awaited, so a controller may run before one
  settles, whatever it rejects (`ControllersRunChecked` leaves them out). The error
  handler knows a timeout by its text, so an error of a controller or a policy that
  says `Request timeout` is answered 408 although no timer ran out.
* **nest-common-helper.** Requests that throw one exception object at the same
  moment (a constant, or the rejection of a shared call) may show each other's
  id or none. The error of a guard has no id. A thrown primitive becomes a
  `TypeError`. With `PropagationInterceptor` registered first, a handler whose Observable
  completes without a value fails outside `catchError`, and its error has no id. An
  exception whose response has a `meta` of its own keeps the last id there, and a guard
  that throws it later answers with the id of another request. A gRPC request or a
  message without an id gets another one at each hop, as does one of a socket without
  data, or with the interceptors in the other order.
* **nest-async-cache-dedupe.** A cached method closes over the instance that
  called it first. Its key is the name of class and method, which two classes of
  one name share.
* **nest-rabbitmq.** `onError` is used only where a propagation context is
  configured; the model assumes one wherever it has `onError`. A callback that
  rejects otherwise, because its message has no headers or its handler threw, is
  an unhandled rejection that ends the process; the message is given back and
  ends the next one. With `onError` it is neither acknowledged nor given back, and
  keeps its slot until the channel closes. `sendToQueue` awaits compression, so
  small messages overtake.
* **nest-grpc-helper.** Where the response is an `ArrayReply`, a `GrpcException` without a list
  for its data, and every exception under `StandardExceptionFilter`, is replied with an object,
  which cannot be serialised: the caller gets a request error, after its retries ran the
  handler again. A handler of a `Reply` that returns a list has it lost without an error.
  A handler that returns nothing replies an error; an `RpcException` made of an object loses code and
  message; a payload whose `error` is null makes the filter itself throw; a reply
  that is passed on loses its error; a `GrpcException` thrown outside the
  decorator loses its data. Services of one name in two packages share their
  definitions, by the order in which files were loaded. A service called `Health`
  in a package without health check has no client. An unknown method throws a
  `TypeError` before the error meant for it.
* **node-proxy.** A rewritten attribute at the end of a cookie swallows the start
  of the next one; the reply's status is always 200; with
  `preserveHeaderKeyCase` the last of several headers of a name is kept, so of several
  cookies one arrives, names that differ in their letters replace each other, and the
  connection header is not set. An error of the target ends the process, one in
  the middle of its answer leaves the client waiting.
* **node-qrcode.** A logo may hide more modules than `maxHiddenDots` (still within
  what can be restored), and has a negative size in a small picture at level L.
  Its size is read before an image given by URL has loaded. A radius of 0 counts
  as unset.
* **redis-busy-box.** The export leaves out the comma at index 0 of a batch: an
  element with nothing to read that is overtaken makes the file invalid JSON
  (`ValuesExportInOrder` says when it is right). A key that SCAN returns twice
  counts twice. What is deleted may have changed since it was shown.
* **zhipuai.** A negative `maxRetries` of a call means no end of retries by status.

## 5. Proofs

`ApiClientProofs` proves, for every set of calls, every option, every set of
responses and every length of time:

* `TypeCorrect`: `TypeOK`.
* `AttemptsAreBounded`: `AttemptsBounded` is not inductive, since it does not say
  how attempts and retries left add up. `Budget` does, phase by phase: an attempt
  that is over and may be retried has not been counted yet, one under way has.
* `ErrorsNameTheirCause`: `Causes` says which flags hold in which phase, so that
  the error made out of the flags when the fetch rejects is the right one; the
  error of a settled call is then traced back to the step that settled it.
* `AgentAlwaysOutlastsTimers`: `Relied` says that the agent's timeout is already high
  enough when a request is built, and no step lowers it.
* `WaitIsBounded`: no header makes a call sleep as long as the limit or longer. Not
  checked by a run, since it follows from one step; `AttemptsBounded` and the
  liveness of `CallSettles` rely on it.
* `NothingSentAfterAbort`, `SentTokensAreFresh`: action properties. Only `Send`
  starts a fetch, and its guard and `Build` before it, with no time between, do
  the rest.

They rest on the assumptions in `ApiClient` alone: delays and timeouts are
natural numbers, the longest backoff is below the limit for headers, and the
margin of a token is below its life, as the constants of the code are. TLC evaluates them in `api_client`. Each theorem has lemmas for
`Init`, for each step, and for the operators (`DelayBound`, `AskedType`,
`OutcomeKinds`).

`PackagesProofs` proves of `GrpcRequest`, for every set of calls, budget, delay and length of stream:

* `TypeCorrect`: `TypeOK`.
* `ExecutionsAreBounded`: `ExecutionsBounded` follows from `Attempts`: what is on the
  wire and what ran are disjoint sets of attempts already made, and the attempts
  made stay within the budget, phase by phase.
* `OnlyCurrentValues`, `FailuresAreFinal`: `Values` says that the newest values are
  those of the current attempt and that a unary call completes with its first.
* `ImplementsCall`: every behaviour is one of `AtLeastOnceCall`, with the number of
  handlers that ran as its effects. The step that needs the invariants is
  `Execute`: a handler runs for an attempt that has not run, so the count grows
  by one, and stays below the budget. `Backed` says that a value came from a
  handler, so that an answered call had an effect.

and of `GrpcHelper`, for every set of calls that `HelperAssumption` admits, one
invariant is enough (`Settled`: a call is pending, or its result is what the functions give
for it), and the argument is about the functions:

* `HandlersAreHeard`: `DataIsCarried` says that the wire leaves tagged data that fits the
  response as it is, `TypesComeOff` that the types come off again at the caller, of an object
  and of an array of any length (together `DataSurvives`), and `Arrives` what is left of a
  reply whose data does not fit; one lemma for each way a
  handler ends (`Returned`, `GrpcExceptionTold`, `StandardExceptionTold`,
  `HttpExceptionTold`, `ErrorTold`) follows it through either filter.
  `HelperAssumption` leaves out what the property is not true of: data with an "@type" of its
  own, which is taken off as one of the reply's; a `StandardException` with an empty text,
  which the filter replaces, or with a message alone, which gets a code of its own; and an
  exception of nest's whose body has a code other than its status.
* `ClientsAreOwn`: a key is under one package's options (`OptionsAreOwn`, `ClientIsOwn`), one
  provider has made the service of each key (`OneProvider`, `ServiceIsOwn`), and no other
  package writes to the definition of a service whose name it does not have
  (`DefinitionIsOwn`). It needs that packages are named once, that none is named as
  the key of another's health client, and that a loaded file defines a name once; the order
  of loading is any.

It proves of `NodePackages`, for every set of calls that `NodeAssumption` admits, where
again a call is pending or has the result of its functions (`NodeSettled`):

* `LogosLeaveEnough`: `LogoLeavesEnough`, for every QR code (all 40 sizes), level, width of
  page, picture and border. The logo's area is at most that of the hidden modules
  (`AreaFits`, through the rounded root of `FloorSqrtIs`). The modules lost lie in a box
  around the centre, of 2u + 1 by 2v + 1 (`LostIsNear`) with 4uv within the number of
  hidden ones (`ReachesFit`). So what the halves and the centre add is a row and a
  column of modules, and the share of a level, which the code squares, leaves room for
  them (`SharesLeaveRoom`); a long thin logo stays within one row (`LineSize`). The box
  stays off the position patterns by the same bounds.
* `CookiesArrive`: `CookiesRewritten`, for any number of cookies with any attributes, any
  configuration and either kind of headers. The text of k cookies is defined by recursion
  (`TextsAre`), and rewriting it is shown, by induction, to give the text of k rewritten
  cookies (`TextsAreRewritten`). The step is `NextIsRewritten`: the part where two cookies meet is
  kept, because the first does not end in a rewritten attribute and the second begins
  with its name. `CookieIsWritten` finds the cookies among the headers that are
  passed on (`SentAreCookies` for the list, where the last of a name counts), and
  `OneNameIsLeft` shows that `setHeader` leaves one name: of the names in other letters the one
  that came after the others (`CameFirst`, `OneCameLast`).

`NodeAssumption` says that a code has one of the sizes codes have, that the page is not
narrower than its margins, that pictures and borders are whole pixels, that a cookie begins with
a name other than an attribute's, and that headers of exactly one name are one in small letters too.

It proves of `NicoMiddlewares`, whatever a configuration is and whichever factory throws:

* `MiddlewaresStayInPlace`: after any sequence of `useAppMiddleware`, `useRouteMiddleware`
  and `init`, of any length, `InPlace` holds, the half of `AppIsConfigured` that is about
  middlewares. By induction over the calls, with the loop of `init` by induction in it
  (`AllAreUsed`): nico's own stay in order because a list only grows by one name at one place
  (`InsertedIs`, `GrownOrder`); each one that was added stays behind the one it named,
  since what stands behind another goes on to (`Placed`); and koa has the list that
  the first successful `init` went through (`Begun`), every name of which is known
  (`Listed`). The hypothesis is that no middleware is added under the name of one of
  nico's: the code then mounts its own a second time in place of the application's.

`Packages` takes these steps with those of its other packages, and its run checks the
properties on enumerated calls.

`NicoRequestProofs` proves, for every depth of controllers, timeout and set of checks:

* `TypeCorrect`: `TypeOK`.
* `AnswersComeInTime`: `Onion` says how the controllers are nested (the one above a
  controller still in its race awaits it) and that, while the request is in its
  controllers, the first is in its race and its timer and the time that passed
  add up to the timeout.
* `ControllersAreChecked`: inductive together with `Onion`; nothing has begun while the
  checks are looked at, and those that settle later only leave `pending`.
* `AnswersAreWhole`: `Speaks` says that the error handler has not spoken while the
  request is on its way; whoever loses the outermost race to the timer throws its error,
  and nobody loses it after the answer.

`NicoProcessProofs` proves of `NicoShutdown`, for every number of servers, connections and signals and every `forceExitTime`:

* `TypeCorrect`: `TypeOK`, with lemmas for what a signal adds to the list of
  shutdowns and for what moves one of them on.
* `ExitComesInTime`: `Timed` says that the timer of the first shutdown and the time
  since the first signal add up to `forceExitTime`; the property alone says nothing of the
  timer.
* `HandlersAreDrained`, `CleanCloseIsOnce`: `Drained` says that a server with a shutdown
  listens no more, so that no connection can come back after it was found empty,
  and that closing it a second time fails.
* `CleanExitsAreComplete`: an exit with 0 is by the handler of a clean close, of which
  there is one, and with one server it is that server's.
* `StepsAreGraceful`: the first state and every step map to those of
  `GracefulProcess`. Its liveness is checked by the run.

and of `NicoCluster`, for every number of workers, forks and signals:

* `ClusterTypeCorrect`; what needs an argument is that a worker has at most two signals on
  their way for each one sent (`Passed`: the terminal's and the master's).
* `WorkersStayCounted`, `NobodyIsOrphaned`: `Counted` adds that ids not yet forked are
  untouched, so that a replacement is new to `known`, and that a master exits with
  nobody known. Facts on cardinalities come from the library.

`NestRequestProofs` proves, for every set of entries, arrivals and shared exceptions and every
length of chains:

* `TypeCorrect`: `TypeOK`, where what is thrown or marked is an exception and who waits,
  waits for a call.
* `ChainsKeepTheirId`: `Chained` says that a request behind the first came from a handler,
  and so after the first was traced (`Traceable`), and that what each request
  carries and propagates is that id already (`Carries`), which the property does not say.
* `ErrorsNameTheirRequest`: `Signed` says that requests in flight with one exception know
  of each other (`Acquainted`), that a mark was made by one that is in flight
  (`Worn`), that it is the request's own where nobody shares the exception
  (`Marked`), that a `TypeError` made by the interceptor is nobody else's
  (`OwnType`), and that what an exception keeps in a meta of its own is the id of a request that
  was marked or answered with it (`Remembers`; `Sources` are the requests an id may come from). The steps are first sorted into few kinds (`Steps`: what moves a handler,
  calls, throws), so that each invariant is proved once for each kind.

`RabbitMQProofs` proves, for every set of pods, canary pods and messages, every chain of
messages and any number of setups, lost connections and processes that end:

* `TypeCorrect`: `TypeOK`, with which a callback still to unpack has a layer left, after
  the steps are sorted into kinds (`Kinds`: channels, a message on its way to the queue,
  a callback that goes on or is done with, a delivery, a pod that loses its channel, with
  its process or without: `Disconnects`).
* `NothingIsLost`: `Tracked` says of each callback where its message is (`Traced`), that two
  live callbacks are of two messages (`Alone`), and of each message what the property
  says (`Found`). A callback that survives its channel is not live, so what it
  ends with no longer settles the message.
* `ChainsStayOnOneSide`: `Sided` says that all callbacks past the first look are of their
  message's side (`Owned`), and that a message is begun only after the one it
  follows was sent, and is of its side when it is sent, or, where the publisher tells the
  side, from the beginning (`Continued`). With strategy canaryQueue this is
  so from the delivery on (`QueuesApart`), however often a pod's queue name is
  prefixed; it needs that no pod is `None`.
* `OneSetupHandlesAsSent`: `HandledAsSent` under the hypothesis that `Setups` is 1:
  then a body is deflated as its header says as long as there is a layer to unpack
  (`Intact`). `rabbitmq_two_setups` shows that the hypothesis is needed.

`ScanAllProofs` proves, for every finite set of keys, size of batches and number of changes:

* `TypeCorrect`: `TypeOK`; each command under way is on an element of the batch at hand.
* `EveryStableKeyIsHandled`: `Reached` says that a stable key SCAN has returned is
  handled, or awaited in the batch at hand, or about to be deleted (`Owed`);
  `Ends` says that a scan at its end has returned all stable keys, and `Lasting` that only
  `Delete` makes stable keys vanish, so that a size that comes back empty is of
  a key that was not stable. That a batch holds every key SCAN chose is a lemma about
  injections (`OrderOfKeys`), for which the keys must be finite.
* `ExportIsAList`: `Ordered` says what is on the connection while a batch is exported
  (`InTurn`): the types of its elements in the order of the batch, with the values of those
  answered behind them, then the values alone. So element 1, the only one that leaves the
  comma out, is the first to be printed, and the file is a list whenever it
  holds anything (`Growing`). A key without a value would let a later one overtake it;
  `bare` is the exception the property makes.

`SseStreamProofs` proves, for bodies of any length over the bytes of the model, cut by the
network in any way:

* `TypeCorrect`: `TypeOK`.
* `NoItemTwice`, `EndGivesAll`: `InStep` says that the iteration stands behind some line of
  the body. The bytes not yet cut are those of the body behind the last chunk, the line that is
  held and the lines not yet looked at are those of the body up to there (`Cut`), less a CR
  that waits for the next chunk; `given`, `done` and the open event are what a
  reading of the lines before makes of them (`Follows`). The step that needs an
  argument is `CutChunk`: `DecodesOn` shows that to decode a chunk from where the
  decoder stands is to decode the body one chunk further, through every case of a CR at
  either end of it. `EndKeepsStep` does the same for the last chunk and `flush`, which may add
  a line that nothing ends.
* `NoConnectionKept`: inductive as it stands.

What the model computes by recursion over a body or over its lines (`Rests`, `Lines`, `DataOf`,
`Reading`) is a function on `0..Len`, and the lemmas about it are by induction on that index.
The library's induction theorems take an operator as a parameter, which the provers
cannot instantiate, so the module states its own over sets: `Least` (from the
well-foundedness of `<`), `Induct`, `Kept`, and `Recursion`, which says that a function
defined step by step exists and so is what its definition says. `PackagesProofs` states
the same for cookies and for the calls of an application.

They rest on the assumptions of the modules, which say that the options are natural
numbers (of the cluster, that its ids suffice for it to start; of the pods, that `None` is
none of them; of the keys, that they are finite; of the calls of nest-grpc-helper, node-proxy and
node-qrcode, what is said above).

Only model-checked: liveness (`CallSettles`, `AbortSettles`, `AbortEndsPull`, `CallEnds`,
`ClusterStops`, `EveryMessageHandled`, and the liveness half of
`ImplementsGracefulProcess`), which the prover cannot do under fairness nor with
ENABLED; and three properties of `Packages`, which TLC compares with a reference over all small
inputs. `NodesAreTheirValues` is about expressions, whose functions descend with recursive
operators that the prover does not accept, and an induction over expressions is beyond it.
`RendersCode` compares what is drawn, point by point, with the code, over finitely many styles.
Of `AppIsConfigured`, the routes and the merged configuration are left to TLC: configurations
are trees that a recursive operator merges.

## 6. Plan

Done, in this order: `ApiClient` with its proofs, `SseStream`, `AtLeastOnceCall` and
`GrpcRequest`, `GracefulProcess`, `NicoShutdown` and `NicoCluster`, `RabbitMQ`,
`NicoRequest`, `ScanAll`, the first proofs; then `NestRequest`, the modules of
`Packages`, and the proofs about `NicoShutdown`, `NicoCluster`, `NestRequest`, `RabbitMQ`,
`ScanAll`, `SseStream`, `GrpcHelper`, `NodePackages` and `NicoMiddlewares`.

What would come next: in `NicoRequest` the
hooks besides `onError` and the sending of files; in `ApiClient` the parsing of a
successful body.

## Not modelled

* logger, jest, inject-config, nest-oidc-provider, nest-typeorm-helper: configuration
  and formatting; no state that changes after start.
* socket.io-msgpack-parser: a codec call and a test of a packet's fields, one
  condition each; a model would repeat it.
* Resources, shims and error classes of zhipuai, generated clients, types: no
  behaviour of their own.
* Libraries: koa, amqp-connection-manager, Nest, ioredis, node-fetch,
  async-cache-dedupe, `qrcode`, `canvas` appear as the code uses them. How long
  async-cache-dedupe keeps results, and how `qrcode` encodes, are theirs.
* Parts of modelled packages that only format: the numbers `memory-usage` rounds, URLs
  and headers that zhipuai builds, addresses and channel options of gRPC clients,
  default configurations.

## 7. Running it

    tlc -config MCApiClient.cfg MCApiClient      # each run: PROJECT.json "runs"
    tlapm ApiClientProofs.tla

Runs take from a second to about two minutes each with two workers. In each module,
definitions named for a mistake (`HasRetryUnderflow`, `StatusOnlyAnswer`, ...) are
the mutants of the definition below them: with one in its place, TLC finds the
property violated (`PROJECT.json` "mutants").
