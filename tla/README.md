# GoM in TLA+

GoM is a library of parts for Go microservices: a worker pool, HTTP and gRPC
servers that put requests on such pools, a broadcaster over linked channels,
event helpers, a loader of configuration from environment variables, CRUD
handlers over a SQL table, a retry client and thin clients of other services.
These modules say what the code of each part does, step by step, and what can be
relied on when its goroutines, callers and failures interleave. TLC checks it on
small instances; what is about safety TLAPS proves for every size.

Paths below are relative to the repository's root, which is `src/` in
`PROJECT.json`.

## 1. The system

| part | state it keeps | operations | goroutines | what makes it correct |
|---|---|---|---|---|
| `pool/worker.go` | `WorkerPool` (a channel of jobChannels), `isStopped`, `quit`, `mux` | StartServer, QueueJob, StopServer | MaxWorkers workers, one stopper, the callers | an accepted job is executed once, by one worker; never a send on a closed channel; registering never blocks under the lock; callers and workers end |
| `http/job.go`, `http/middleware_workerpool.go`, `grpc/job.go` | per request: the job and its channel `c` | ServeHTTP, the async handler, the unary interceptor, Execute | one per request, and the pool's | the reply says what became of the handler; the handler does not run on two goroutines at once; workers become free again |
| `broadcast/broadcaster.go` | the chain of one-place channels, `isClosed`, `shutdown` | Listen, Write, Read, Close | the broadcaster, writers, receivers | each receiver sees all values after its Listen, in order, with all earlier modifications; nothing blocks that must not; Close ends everything |
| `event/client.go`, `event/server.go` | a `sync.Cond` per event; per client the flag `emitted`, the channel `off` | On, Off, Emit, IsEmitted | one per On | one condition or handler of an event at a time; a call stands for an emission; a listener that is woken is called |
| `event/combine_signal.go` | none but its goroutines | OR, AND | one per level | OR signals at the first, AND at the last signal; no goroutine is left |
| `environment/parse.go` | the struct being filled, error variables shared by goroutines | Parse, scanStructENV | one per nested struct | an error is reported, whole and true; when Parse returns, nobody writes any more |
| `http/server.go` | `Routes`, `Mux`, `S`, `WorkerPools` | CreateServer, Start with options, Stop, BuildHandler | one per Start | requests reach a handler of their path (the tests expect: of their method), Stop undoes Start, no pattern twice |
| `grpc/server.go` | `ServerOptions`, `S`, `Conn`, `WorkerPools` | CreateServer, Start, Stop, options | one per Start | likewise |
| `crudl`, `http/handler.go` | per table: the fields of each statement; the table is the database's | Register, five handlers, ParseParameters, SendError, SendResponse | one per request | only validated values are stored, answers are true, paging misses nothing |
| `retry/client.go` | one `BackOff` per client | CreateClient, Init with options, Do | one per Do | attempts are limited, a cancelled context ends them, Do answers |
| `redis`, `mqtt`, `mysql`, `grpc/client.go` | `c.Config`, the connection `c.C`; grpc's `DialOptions` | Connect with options, Disconnect | none | a connected client has the settings it was given; Disconnect closes what is open |
| `trace/tracer.go`, `http/middleware_tracer.go`, Send of `mqtt/client.go` and `http/client.go`, `log` | `Collector`, `Tracer`, and the process's one global tracer | Connect, Disconnect, StartTracing, StopTracing, ServeHTTP, Send, logging | the callers' | spans reach their client's collector with what was logged; a Send returns |
| `circuitbreaker/client.go` | the manager's circuits and default properties | CreateClient, Start, Execute | the callers' | the limit of the Start that counts is kept; answers tell what was called |
| `http/filesystem_handler.go`, `mysql/map.go`, `mysql/slice.go`, `library` | none | | none | section 7 |

They interact so: the HTTP and gRPC servers create pools in their options and
call `QueueJob` from each request's goroutine; a job carries the request's
channel, on which the worker that executes it answers. The pool knows nothing of
its servers, so the only shared state are the pool's channels and the job's. The
handlers of `crudl` are given to the HTTP server as routes, with validators that
reach `ParseParameters` in the request's context. The tracer middleware of the HTTP
server and Send of the mqtt and http clients use a trace client, and all trace
clients of a process share the global tracer of `opentracing`. The broadcaster,
events, signals, environment, retry, circuit breaker and the connections stand
alone; every `Create...` function loads its
configuration through the environment.

What is hard in this code is concurrency: channels that are sent to after their
receiver has left, locks held over channel operations, state shared by
goroutines without a lock, `close` at the wrong time; and life cycles: what Start
leaves behind when it fails or is called again, which options of Connect come too
late, and what all trace clients share. Nothing is persisted, so there is
no crash recovery, and no part speaks a protocol with another process of its own.
The hazards, each at its line with the properties that cover it, are in
`PROJECT.json`.

## 2. Modules

| module | models | state ↔ code |
|---|---|---|
| `JobPool` | what a pool promises (abstract) | each call is `none`, `pending`, `doomed` (made after the pool shut down), `running`, `done` or `rejected` |
| `WorkerPool` | `pool/worker.go` | `pool`, `queue` = `WorkerPool`; `stops` = `quit` closed; `wpc`, `stopper`, `cpc` = where workers, stopper and callers are. `StartServer`, `StopServer`, `Worker*` (the worker's loop), `Stopper*`, `QueueJob*` (the select), `Handoff` (the unbuffered send), `Execute` |
| `PoolMiddleware` | the three users of a pool, composed with `WorkerPool` (EXTENDS) | `kind` = which of the three, `request`, `exec`, `filled` = `job.c`; the actions conjoin the pool's actions with what request and job do |
| `BroadcastLog` | a log with readers (abstract) | |
| `Broadcaster` | `broadcast/broadcaster.go` | `buf[ch]` = what is in the channels of the chain, `currc`, `bpc`; `Listen`, `Write` and `Read` in as many steps as they have channel operations |
| `CombineSignal` | `event/combine_signal.go` | a program counter for each level of goroutines |
| `EventBus` | `event/client.go`, `event/server.go` | `locked` = `event.L`, `emitted`, `off`; each step of the loop of `On` is an action |
| `EnvParse` | `environment/parse.go` | one scan for each struct of a tree; errors are sets of two words, since an interface is stored a word at a time |
| `HttpServer` | `http/server.go` | `routes`, `server`, `pools`; `mux` = the patterns, each with the one route its closure has captured; options are actions between `Start` and `Launch` |
| `GrpcServer` | `grpc/server.go` | `unary` = the interceptors in `ServerOptions`, `server`, `conn`, `open` |
| `Crud` | `crudl`, `http/handler.go` | `tags` = what `scanStructMySQL` reads; `table`, `next` = the database's table; a request is handled, executed, answered; `Rejects` = what the validators of each column reject, of a create and of an update. Which handler a request reaches is `HttpServer`'s matter; several servers may have handlers of one table |
| `RetryClient` | `retry/client.go` with the library's loop | `wraps` = how options have wrapped `c.C`, `tries` = its count |
| `ServerBounds` | | the bounds of both servers and their assumption |
| `ClientConnection` | `redis`, `mqtt`, `mysql`, `grpc/client.go` | `kind` = which of the four; `config` = `c.Config`, a setting known by how often it was changed; `held` = `c.C`, one of the connections that were `made`; `broker` = the address in mqtt's `opts`, `dial` = the tracer in grpc's `DialOptions`; options are actions between `Connect` and `Ping`, `Establish` or `ConnectFails` |
| `TracedSend` | `trace/tracer.go`, `http/middleware_tracer.go`, Send of `mqtt/client.go` and `http/client.go`, `log` | `collector`, `tracer` = `t.Collector`, what `t.Tracer` reports to; `global` = the global tracer; `call` = each call with its span and what was logged to it; `reported` = what collectors were given |
| `CircuitClient` | `circuitbreaker/client.go` | `default`, `circuits` = the manager's; an Execute is `found`, counted, `running`, `returned`, given to its fallback, `over` |
| `MCEventBus`, `MCEnvParse`, `MCCrud` | | the constants of TLC's runs that a .cfg cannot write, and a symmetry set |
| `MCServers`, `MCForks`, `MCClients` | `HttpServer` and `GrpcServer`; `EnvParse` and `CombineSignal`; `ClientConnection`, `RetryClient`, `TracedSend` and `CircuitClient` | modules that share nothing, one extended and the others as instances: a behaviour is one of just one of them, so that their state spaces add up and do not multiply |
| `PoolProofs`, `BroadcasterProofs`, `EventBusProofs`, `ForksProofs`, `HttpServerProofs`, `GrpcServerProofs`, `CrudProofs`, `ClientsProofs` | | the theorems about these modules, with their inductive invariants: `PoolProofs` is about `WorkerPool` and `PoolMiddleware`, `ForksProofs` about `CombineSignal` and `EnvParse`, `ClientsProofs` about the four of `MCClients` |

Every action is a maximal stretch of code that no other goroutine can observe in
the middle: it ends where the code next locks, unlocks, sends, receives, selects,
starts a goroutine or reads what others write. A send and a receipt on an
unbuffered channel are one step. Where the code has a data race (`EnvParse`,
`GrpcServer`, `RetryClient`), the reads and the writes are steps of their own.
Definitions marked with a `\* mutant` comment are changed forms of the definition
that follows, used to see that a property depends on that code; no specification
uses them.

## 3. Runs

Eight runs pass, each with all the properties of one part, or of several that have
nothing in common. The types are a conjunct of an invariant that is checked; in
`WorkerPool`, `EventBus`, `HttpServer`, `GrpcServer`, `Crud` and `ClientConnection`,
TLAPS proves them instead.

| run | question | instance, and why it is enough |
|---|---|---|
| `pool` | do lock, jobChannels and jobs stay consistent, does the pool implement `JobPool`, do goroutines end after StopServer, are calls answered? | 2 workers, 3 calls (plain, timed, nil job), StopServer twice: two callers compete for a worker, a third sees what they leave, and a second close panics |
| `middleware` | does a reply tell what became of the handler, do its runs not overlap, do requests end and workers become free? | each of the three kinds of request, the async ones also with a nil handler; 3 requests for 1 worker, so that some must wait; one without a timeout; the pool stopped |
| `broadcast` | does the chain of channels implement a log, can no send block that must not, does every value reach every receiver, does Close end them? | 2 writers, 2 modifying receivers, the handlers of one may fail, 3 writes, Close: a receiver is up to three values behind the other |
| `events` | do handlers exclude each other and stand for emissions, and what does Off promise? | two clients on one event, one emission more than the limit |
| `forks` | is what Parse returns true, and does nobody write later; are OR and AND right for every order of signals? | a struct and two pointers in one struct, where one pointer's scan fails or has a struct below it that is still scanned, and the other, to an empty struct, comes to nil: every combination of skip, set and fail; 2 to 7 channels: one select; a second and a third level of no, one or two channels |
| `servers` | what survives restarts of an http server; do requests find a handler of their path; do late goroutines of an http or a grpc server leave a listener open? | three starts of either: a goroutine can be two starts late; two paths with two methods; two pools; two interceptors, for the second one panics |
| `crud` | are rows valid, answers true, pages complete? | two requests on four keys, tagged and untagged struct, one row a page; validators that reject one value of creates and updates, and the zero value of creates, as that of `crudl/handler_test.go:21` does |
| `clients` | what does a failed Connect leave, and has a connected client the settings it asked for; are attempts counted and cancelled; does every Do end; do spans reach the collector of their client; does every Send return; is the limit of a circuit kept and its answer true? | three Connects, of which two may fail, with two changes of a setting, one in time and one late; two calls of Do, in turn or at the same time, two retries: a count that is read, stale, and stored; two trace clients with two collectors, one of which may be made, closed and replaced while one call is traced (calls read what the clients left and write nothing that other calls read, save that a Fatal or a panic ends the process; with two calls and one trace client the same properties hold); two Starts of one name with different limits, three Executes for a limit of two |

Four runs are expected to find a violation of what the repository says of itself:

| run | disagreement |
|---|---|
| `pool_timeout` | "QueueJob queue a job with timeout", but after StopServer it can wait for ever: a worker may have left when its jobChannel is sent to |
| `broadcast_close` | "after stop can't listen", but Listen may not return: Close can leave the broadcaster waiting for the lock that Listen and Write hold while they wait for the broadcaster |
| `http_methods` | `crudl/handler_test.go:392` sends each method of one path and expects its own handler, but all methods of a path reach the handler of the path's first route: the closure of `http/server.go:237` looks up the method of the route it was made for, not the request's, so that the error "not allowed" (line 240) is never sent. The four routes that `crudl` registers for one path are such |
| `mqtt_host` | "SetHostPortOption set client host port", but Connect has read the address before it calls its options (`mqtt/client.go:60-65`): the option is used by the next Connect |

### Where the properties stop

Several properties hold only with a condition. Each condition is a place where
the code does less than its docs or tests suggest; dropping it makes TLC print
the behaviour.

| condition | what happens without it |
|---|---|
| `Panicked` in `WorkersEnd`, `CallSettles` | a nil job, which the worker checks for and logs (`worker.go:86-88`), panics in ErrorLog; a second StopServer panics |
| `sees[c] # "stale"` in `CallSettles` | a call evaluates `w.WorkerPool` once, without the lock (`worker.go:128`); if an option of StartServer then replaces it, the call waits at a channel that no worker sends to, for ever if it has no timeout |
| `kind = "async" => nilHandler` in `WorkerIsFreed` | the job of SetupWorkerPoolHandler has no channel (`http/server.go:300-304`), and its worker never comes back from `http/job.go:35`, unless its handler is nil (line 31). The unary interceptor's Execute would return an error for a nil channel (`grpc/job.go:41`), but always has one |
| `kind # "sync"` in `ReplyTellsTruth` | WorkerPoolMiddleware runs the handler a second time, on the request's goroutine (`http/middleware_workerpool.go:29`): outside the pool, and outside its limit of workers |
| `Stranded` in `RequestEnds` | WorkerPoolMiddleware drops the error of QueueJob and waits for a job nobody has (line 28); the others follow from the rows above and from `pool_timeout` |
| `cut` in `EveryReceiverReads` | a handler's error takes the value, and all later ones, from the receivers that have not read it (`broadcaster.go:105`) |
| `n % 3 # 0` in `SignalsArrive` | AND of three or six channels ends with AND of none, nil, and never signals (`combine_signal.go:55`) |
| `Alone` in `EventBus` | listeners of one client share `emitted` and `off`: a handler is called for another event's emission, and Off for one event ends the listener of another (`client.go:43, 58`) |
| "woken" in `WakingCalls` | an emission between a listener's condition and its wait wakes nobody (`server.go:15`), although `event_test.go:56-60` waits for it |
| `Fails` in `CompleteWhenPassed` | a scan that fails returns without waiting for the goroutines it has started (`parse.go:180`); when its error is lost on the way, as the next row says, Parse calls the validators and returns while they write |
| `Shares` in `EnvParse` | goroutines of two pointer fields (or two structs) of one struct assign one error variable, and a nil may overwrite an error (`parse.go:158, 165`) |
| a route of the same path in `RoutesServed` | of the routes of one path the Mux has only the first, whatever the method of the request: run `http_methods` |
| `earlier` in `RoutesServed` | `s.Routes` survives a restart and the Mux does not: paths of earlier starts are not found (`http/server.go:164-166, 221`) |
| `~panicked` in `DownIsDeaf` (grpc) | a second interceptor makes NewServer panic, also in a second Start; a late goroutine may serve a nil listener |
| first answer only in `AnswersAreTrue` | after an error of the database all handlers but delete send the error and then a success (`crudl/handler.go:35-42`) |
| `"lost"` of a Read in `AnswersAreTrue` | Read takes rows that end as no row, and does not look at `rows.Err` (`crudl/model.go:192-204`): if the connection fails while it fetches, it answers success without the row. List looks (line 254) |
| `"none"` in `RowsAreValid` | a column that a create does not insert has the database's default, and no validator sees it, since only those of the fields taken are run (`crudl/register.go:152-160`). A field that a request leaves out is its zero value: rejected or stored, as its validator says |
| `~deleted` in `PagesMissNothing` | rows move up when one is deleted |
| `~overlapped` in `RetriesCounted` | calls of Do share one count (`retry/client.go:146`): one is retried too often or given up too early |
| `~again` in `NothingLeftOpen` | a Connect over an open connection, or a second connecting option of redis, replaces `c.C`, and nobody can close the one before, although Disconnect is documented to "close all mqtt connections" (`mqtt/client.go:77`) and to release "any open resources" (`redis/client.go:68`) |
| `late` and `dial = 0` in `ConnectedAsAsked` | a redis password set after the option that connects, a grpc tracer set after SetMiddlewareTracerOption, or without it, and mqtt's host are not used |
| `last` in `SpansArrive` | StartTracing of every trace client uses the global tracer, which is that of the client that connected last (`tracer.go:97, 182`): spans of the others go to its collector |
| `"none"` for the middleware in `SpansArrive` | the middleware ends its span before it calls the handler (`middleware_tracer.go:41-43`): what the handler logs is lost |
| `limited` in `SendEnds`, and no http Send with a trace client | a configured timeout of zero is none (`http/client.go:162-165`); with a trace client Send panics, for `request` is nil (line 118), and unless net/http recovers this ends the process |
| `span = 0`, `"fatal"` in `SendEnds` | a trace client that connected without a collector, or whose collector could not be made, is the global tracer all the same, and the end of a span panics; the middleware exits the process over headers that it cannot read (`middleware_tracer.go:29`) |
| the first Start in `LimitHolds` | a second Start of a name returns nil, and its options are lost (`circuitbreaker/client.go:77-81`) |

Three more are in the models, and no property speaks of them. Both servers' Stop
returns before the loop that stops their worker pools (`http/server.go:155`,
`grpc/server.go:118`): `running` is not emptied. A goroutine of an earlier grpc
Start that has read the stopped server closes the listener of a later one
(`Serve`), which then is up without a listener. The exponential options of the
retry client are refused after another option, with the message that the client
is not exponential (`SetInterval`).

## 4. Bounds

The bounds are constants named in their modules: `StopLimit`, `MaxWrites`,
`MaxEmits`, `MaxStarts`, `MaxOptions`, `MaxConnects`, `MaxSets`, `MaxCollectors`,
`MaxKey`, `Cap`. They limit
how often the environment acts (a call, an emission, a start), or cap a history
variable, never a step the code takes by itself. `Calls`, `Requests` and `Writers`
are as many as it takes for one to be overtaken by another while a third holds
what both want. `CHECK_DEADLOCK FALSE` is set where the system may really come to
rest: all calls are answered and nothing more is asked, or, as section 3 says,
somebody is stuck. Only `crud`, which checks no liveness, uses symmetry.

## 5. Fairness

- Weak fairness on the steps of a goroutine: Go's scheduler runs every goroutine
  that can run. Jobs, handlers and operations are assumed to end.
- Strong fairness where a goroutine competes: Go's channels serve waiting
  goroutines first in, first out (`QueueJob` taking a jobChannel), and a mutex in
  starvation mode is handed to its longest waiter (`Lock` and `Rewake` of
  `EventBus`). Without it another goroutine could overtake for ever, which Go
  excludes.
- A timer expires only where the specification says so (`TimerSpec`, `MFairSpec`,
  `Timer` of `RetryClient` and `TimesOut` of `TracedSend`); elsewhere timeouts may or may not come, so safety
  holds for all timings.
- A message that is published without asking for an acknowledgement is on its way
  in time (`Answer` of mqtt in `Goes` of `TracedSend`); an http server need never
  answer. `MCClients` asks for the fairness of `RetryClient` and `TracedSend`; the
  properties of `CircuitClient` are about safety.
- Nothing from outside is fair: StopServer, Close, Emit, Stop, Cancel, Connect,
  Disconnect and new requests need never happen.

## 6. Proofs

| theorem | says |
|---|---|
| `TypeCorrect`, `PoolInvariant` | the pool's variables and its inductive invariant |
| `JobChannelsHaveOneHolder` | a jobChannel is with one worker, one caller or in the queue, never in two places |
| `NeverSendsOnClosed` | QueueJob never sends on a closed channel, whatever StopServer does |
| `RegistrationNeverBlocks` | a worker that registers finds room, so the read lock is never held for ever |
| `PoolKeepsPromise` | the pool implements `JobPool` |
| `RequestsUsePool` | a pool with requests on it is a `WorkerPool`, so that all of these hold of it |
| `ResultsFindRoom`, `RepliesTellTruth`, `HandlerRunsAlone` | each of the three users of a pool, for any requests and workers: `job.c`, replies and the runs of a handler |
| `ChainHolds`, `ModificationsReachAll` | the chain of channels, and the changes that a broadcast carries, for any writers, receivers and handlers |
| `BroadcasterKeepsLog` | the broadcaster implements `BroadcastLog` |
| `BusTypeCorrect`, `HandlersExclude`, `CallsStandForEmissions`, `AtMostOneLateCall` | the events' lock discipline, and, for a listener that is alone on its client, calls against emissions and what Off leaves |
| `SignalsAreRight` | OR and AND of any number of channels, closed in any order |
| `ParsingInvariant`, `PassedIsComplete`, `ErrorsAreReported` | Parse on any tree of structs: what it returns is complete and at rest, and errors come up to it |
| `UnsharedParseIsExact` | Parse on a tree in which no two goroutines share a variable: an error if and only if something fails, and nobody left behind |
| `ServerTypeCorrect`, `PatternsAreGivenOnce`, `DownServersAreDeaf`, `AskedPathsAreServed` | the HTTP server through any number of restarts; the last says that every path asked for is served by one of its routes' handlers, not which |
| `GrpcTypeCorrect`, `DownGrpcIsDeaf` | the gRPC server likewise |
| `CrudTypeCorrect`, `StoredRowsAreValid`, `AnswersToldAreTrue`, `PagingMissesNothing` | the table, the answers and the pages, for any columns, tags, validators, requests and size of pages; the zero value may be valid or not |
| `ConnectionTypeCorrect`, `DisconnectClosesAll`, `ConnectsAsAsked` | the clients of redis, mqtt, mysql and grpc, for any number of Connects, settings and failures |
| `CircuitKeepsLimit`, `ExecuteAnswersTruly` | circuits and their calls, for any limits and numbers of both |
| `RetriesAreCounted` | attempts against retries, and against a context that is done |
| `DueSpansArrive` | spans and collectors, for any trace clients and calls |
| `RunsAreOfServers`, `RunsAreOfForks`, `RunsAreOfClients` | the behaviours of the `servers`, `forks` and `clients` runs are behaviours of each module in them: what is proved of each holds in the run |

*WorkerPool.* The invariant `PoolInv` adds three parts to the types. `StopInv`:
the pool is stopped exactly when its channel is nil and the stopper is done, a
stopper gets so far only after a quit and when nobody holds the read lock, and
before that no caller has seen the pool stopped. `HolderInv`: the queue holds
distinct workers that offered their jobChannel and wait or have left, a caller
about to send has the jobChannel of such a worker, and no two callers, nor a caller
and the queue, have the same. `JobInv`: a worker runs exactly the call that it was
handed, and no call is with two workers.
Neither `OneHolder` nor `NoSendOnClosed` is inductive alone: both forget why the
queue does not hold a busy worker. That registering never blocks is then counting:
the queue holds distinct workers, not the one that registers, so it is shorter than
`MaxWorkers`. The refinement maps a call to the state `JobPool` gives it by `cpc`,
`sees` and `cur`; each action is a step of one call or a stutter.

*PoolMiddleware.* Every step of a request leaves the pool alone or is a step of it
(`RequestsUsePool`), so `PoolInv` may be used. `RequestInv` says, of each call, what
the request, its job and `job.c` know of each other: Execute is at a step just while a
worker has the job; before the pool has accepted the job there is no run and no
result; from then on there is one run, whose result is in `job.c` from the end of
Execute until the request takes it. None of the three properties mentions the pool's
`cpc`, and none is inductive without it.

*Broadcaster.* `ReadInv` gives each receiver a position, `start` and what it has
received, and its channel is the next one. `ChannelInv` says that the broadcast of a
channel is in the channel or with one receiver, never both nor with two, and that it
carries the value written there, the next channel and the changes of those who are
past it. With `WriteInv` (`currc` is the channel after those written) the send to
`currc` and the one that puts a broadcast back find their channels empty, and a step
of `Read` takes exactly the next value of the log: this is the refinement.

*EventBus.* `OneAtATime` and the conjunct of `TypeOK` that says when `event.L` is
locked need each other: who unlocks must have been the only one inside.
`CountInv` follows `emitted` around the loop: it is off when the loop begins, and
while it is on there is an emission that was not counted yet. This needs that no
other listener sets the flag, and so it is stated for a listener that is `Alone`.
`OffInv` adds that what Off sent is in the channel until such a listener is over, so
that it meets it at the top of its loop.

*CombineSignal.* What a level is given has a closed form, `OrArgs` and `AndArgs`, from
which lemmas compute what it waits for. `LevelsInv` goes up from the last level: a
level of AND has seen all channels before its place, and when it has ended, all from
its first to the `n`-th; a level of OR has ended only if some channel was closed.

*EnvParse.* `ParsingInv` has five parts. `TreeInv`: a goroutine runs from the moment
its parent comes to its field, and a WaitGroup is the number of the struct's
goroutines that have not ended. `ScanInv`: a scan has passed its fields without a
failure and set those to set; it ends at a field that fails, or when all its
goroutines are done. `ErrsInv`: a word in an error variable was returned by one who
assigns it, and one who has it for itself finds there what it stored. `RetInv`:
errors are whole, unless goroutines with one variable have returned some.
`ResultInv`: Parse's result is that of Root's scan. The theorems then go down the way
from Root to a struct (`DownTheWay`), parent by parent, which ends because no struct
is inside itself. The first attempt at this failed: `CompleteWhenPassed` was stated
for all structs, and the step from a scan that fails to its goroutines could not be
proved. TLC found the behaviour as soon as the instance had a struct below a pointer
(`Fails` in section 3), and the property now excepts it. Where no variable is
shared nothing needs to be excepted: with `QuietInv`, by which no scan returns an
error unless something failed, the two theorems give `UnsharedParseIsExact`.

*HttpServer.* `ServeInv` says that `s.S` is shut down, or nil, whenever the server
is not up, that the Start that goes through its options has not made its server
yet, and that a goroutine that listens does so for the present `s.S`, which is not
shut down. `RouteInv` says what is in the Mux from Start's options to Stop: of
each path that is known, less those that were known when Start was called, one of the
routes that were asked for.

*GrpcServer.* A listener is open only while it is `s.Conn`, and only while the
server is up: Stop closes `s.Conn` itself, so it does not matter who serves it.

*Crud.* Rows are valid because the values that a request carries past parsing are
valid for the fields of its statement; the rest of a row is the database's default,
which nobody wrote, or was valid before. Answers are true because of `Truthful`: a handler about to
answer that saw no error has carried out its statement, with its result unless it is
a Read, and its object has the key of the row. For paging, `PagingInv` counts: until a row is deleted, every row that
the client has still to be sent has at least as many newer rows before it as the
pages that were read can hold. Rows that are inserted only add to them, so that the
row cannot slip onto a page that has been read; and the end is reached on a page that
is not full, which all of them would be before such a row.

*ClientConnection.* `OptionsInv`: while Connect is at its options the client does not
count as connected, and unless one is opened over another only an option of redis has
opened a connection. So the one that `Establish` makes is the only one. `ReachedInv`
says how far a setting that is not late has come before the connection is made: into
the client that redis will ping, the broker in mqtt's options, the last interceptor
of grpc. `ConnectedAsAsked` alone forgets this, for it only speaks of a client that
is connected.

*CircuitClient.* `CountsInv` and `LoadInv` count: a circuit's count is the number of
calls it has admitted or refused and that have not left it, so one more is admitted
only while the admitted ones are fewer than its limit. `MadeInv` relates the circuit
to the Start that made it, `CallInv` what has come of a call to where it is.

*RetryClient.* `WrapInv`: an option's wrapper is on if and only if it was asked for.
`CountInv`: while no two calls of Do have overlapped, the attempts of the one that
runs are the count, or one more between an attempt and its being counted.
`CancelInv`: an attempt after the context is done leads to the end.

*TracedSend.* `TracerInv`: what a trace client that is up reports to is open and its
own, and the global tracer is that of the client that connected last. `SpanInv`: so
a span that is due, which was started while its client was the last, can be reported
there until its call returns.

The assumptions are the named ASSUMEs of the modules, which TLC evaluates in
every run: bounds are numbers, values that stand for "none" are not among the others,
and sets that are counted (`Writers`, `Executes`, `Structs`) are finite, as a process
has finitely many goroutines. `EnvParseAssumption` says that the structs are a tree:
each is in one field, and none is inside itself. Parse follows pointers, and would not
end on a struct that points to itself; one that two fields point to is scanned twice,
and is two structs of the model. `MCClientsAssumption` asks that a circuit's limits
contain zero, which stands for an option that is not given.

All invariants that the passing runs check, and both refinements, are proved. TLC
finds each inductive invariant to hold on the instances of the runs.
Liveness is only model-checked, because TLAPS does not reach it: `WorkersEnd`,
`CallSettles`, `RequestEnds`, `WorkerIsFreed`, `EveryReceiverReads`, `ReceiversEnd`,
`WakingCalls`, `ParseEnds`, `SignalsArrive`, `DoEnds` and `SendEnds`. The four
disagreements are behaviours that TLC finds.

## 7. Assumptions and what is not modelled

- StartServer of a pool succeeds once; every caller in the repository makes a pool
  of its own. Start and Stop of a server are called in turn by one owner. Each
  wrapper of a retry client is put on once.
- External code is modelled by what the repository needs of it: `net/http`'s
  Shutdown and ServeMux, grpc's NewServer, Serve and Stop, `cenkalti/backoff`, a
  database whose statements are atomic and may fail before or after they were
  carried out.
- Likewise: `cep21/circuit` keeps the first circuit of a name, merges options as
  `Merged` says, counts calls and refuses those over the limit; when it opens and
  closes is left open. OpenTracing and Zipkin: a span is reported when it ends, to
  the collector of its tracer if that is open. paho's mqtt client, `go-redis`, `sqlx`
  and grpc's Dial: a connection that could not be made leaves nothing open, and the
  last interceptor given to Dial is used. The owner of a client or of a trace client
  calls its Connect and Disconnect one after the other, and closes a collector once.
- Of a setting the models know how often it was changed, of a span whose it is, of a
  message nothing. Parsing of strings, SQL texts, JSON, and the wording of logs are
  left out.
- `http/client.go`: how a request is put together (headers, query, body, transport)
  and how its answer is read keep no state and are not modelled.
- `circuitbreaker`: GetMetricsHandler starts a goroutine that only reads.
- `log`: the conversion of fields, and what zap prints.
- `library`, `mysql/map.go`, `mysql/slice.go`, `http/filesystem_handler.go`,
  `interface.go`: conversions, a wrapper and declarations without state of their own.
- `environment/parse.go:1-118`: the `EV...` functions convert one string each, and
  CreateENV only keeps a prefix.

## 8. Plan

1. Done: the pool and its users, broadcaster, signals, events, environment,
   servers, CRUD, retry; the clients' connections, tracing and Send, the circuit
   breaker.
2. Done: theorems for every invariant that a run checks and for both refinements.
3. Next: what liveness rests on, as invariants that say without ENABLED which step is
   possible where somebody waits.
4. If more is wanted: `Crud` behind `HttpServer` and `PoolMiddleware`, as one
   composition.
