# RXH in TLA+

RXH is an HTTP reverse proxy and static file server written in Rust on tokio and
hyper. This directory holds TLA+ models of it, TLC configurations that check the
models on small instances, and TLAPS proofs of the properties that matter most
for every value of the constants.

    tlc -workers 2 -config MCServerSafety.cfg MCServer
    tlapm ServerProofs.tla

`PROJECT.json` says which lines of the source every definition stands for, which
properties each run checks, and which hazard of the code each property is about.

## 1. The system

| Component | Source | State it keeps | Operations |
|---|---|---|---|
| Master | `src/task/master.rs` | list of servers, one broadcast sender for the shutdown, a `JoinSet` | `init`, `shutdown_on`, `sockets`, `run` |
| Server, Listener | `src/task/server.rs` | `State` (watch channel), listening socket, semaphore of `connections` permits, leaked configuration, notifier, shutdown future | `init`, `run`, `listen`, `shutdown_on` |
| Connection task | `src/task/server.rs` (spawned by `listen`) | its permit, its `Subscription`, hyper's connection | serve, look for the notification, acknowledge, drop the permit |
| Notifier, Subscription | `src/sync/notify.rs` | broadcast(1) of notifications, mpsc(1) of acknowledgements | `subscribe`, `send`, `collect_acknowledgements`, `receive_notification`, `acknowledge_notification` |
| Ring | `src/sync/ring.rs` | a vector and an `AtomicUsize` | `new`, `next_index`, `next_as_ref`, `next_as_owned`, `next_as_cloned` |
| Scheduler | `src/sched/` | a Ring over the cycle of weighted backends | `WeightedRoundRobin::new`, `next_server`, `make` |
| Service | `src/service/mod.rs` | reads the configuration | route a request to `forward` or `transfer`, add the log line |
| Proxy | `src/service/proxy.rs` | an upstream connection, an upgraded pair of sockets | `forward`, `tunnel` |
| Static files | `src/service/files.rs` | none | `transfer` |
| HTTP | `src/http/` | values only | `into_forwarded` of requests and responses, local responses |
| Configuration | `src/config/` | values only | serde visitors, defaults |
| Entry | `src/main.rs`, `src/lib.rs` | none | parse the configuration, run the master until CTRL-C |

How they meet. `main` gives CTRL-C to the Master as its shutdown future. The
Master makes one Server per listening address, each from a clone of its
configuration with schedulers of its own, spawns them in a `JoinSet` and
forwards the shutdown through a broadcast channel. A Server races
`Listener::listen` against that signal in `select!`; the Listener spawns one
task per accepted connection, which takes a permit and a Subscription with it
and shares the leaked `&'static` configuration. A request of the connection is
routed by Service, and a forwarded one asks the Scheduler, shared by every
connection to that address, for a backend, and tells it by a `Forwarded` header
who has sent it. An upgrade spawns one more task, the
tunnel, which outlives the connection task and holds neither a permit nor a
Subscription. After the signal the Server drops the listening socket,
broadcasts `Shutdown`, waits for the acknowledgements, frees the configuration
by hand and publishes `Done`.

What is hard about it, and what makes each part right:

- **Server and Notifier.** The shutdown may cut `listen` off at either of its
  awaits, once with a permit in its hands. The notification races with the end
  of connections. The acknowledgement channel holds one message. The
  configuration is freed with `unsafe`. Right means: permits are conserved; the published
  `State` is true; nothing reads freed memory; no acknowledgement goes to a
  dropped receiver; a shutdown completes; a full server accepts again.
- **Master.** Servers fail and panic on their own, before, during and after the
  signal, and connections are tasks that the master does not know. Right means:
  all addresses or none, the failure of one server is its own, nobody is left at
  work when the master returns, and it sees of a server what a server promises.
- **Ring and Scheduler.** Threads overtake each other between `fetch_add` and
  the read, and the counter wraps. Right means: every turn follows the weights,
  a wrap starves nobody, and each caller gets what its own ticket stands for.
- **Service, Proxy, files, HTTP.** One step of several fails (connect, send,
  header, upgrade), and two detached tasks may outlive the request. Right means:
  turns of a scheduler follow the requests of its pattern and address, the
  client, the backend and the tunnel agree on an upgrade, no connection to a
  backend is left behind, and the chain of `Forwarded` hops is passed on.
- **Configuration.** The visitor decides key by key, so its verdict may depend
  on their order, and it builds the schedulers as it goes. Right means: no mix
  is accepted, what is accepted is what was written, nothing is rejected without
  a reason, and a scheduler never has nothing to schedule.

The full list of hazards, each at its line, is in `PROJECT.json`.

## 2. The modules

| Module | What it is |
|---|---|
| `Notify` | operators for the two channels of `sync/notify.rs`; no next-state relation of its own |
| `ServerLife` | abstract: what a server promises (opens once, at most `MaxConnections` served, nobody admitted after closing, done when all have left) |
| `ServerLifeProofs` | what follows from the promise of `ServerLife` |
| `Exchange` | abstract: what one connection does for its client (one request at a time, the last of which may hand the socket to a tunnel) |
| `Server` | `task/server.rs` with Notify inside; refines `ServerLife`, and `Exchange` for each connection |
| `ServerProofs` | theorems about `Server` |
| `MCServer` | TLC instance of `Server`: the symmetry of connections |
| `Master` | `main.rs` and `task/master.rs` over servers at the grain of `ServerLife`, which each of them refines |
| `MasterProofs` | theorems about `Master` |
| `Ring` | `sync/ring.rs` with the width of its counter |
| `RingProofs` | theorems about `Ring` |
| `WeightedRoundRobin` | `sched/wrr.rs`, extends `Ring` |
| `WeightedRoundRobinProofs` | theorems about the scheduler, over those of `RingProofs` |
| `InductionLemmas` | induction and recursion over the natural numbers, in the form in which the proofs need them |
| `MCWeightedRoundRobin` | TLC instance: all small lists of backends |
| `Service` | `service/`, `http/`: concurrent requests from their routing to the end of their upstream connections and tunnels; refines `Exchange` for each request |
| `ServiceProofs` | theorems about `Service` |
| `MCService` | TLC instance: shadowed patterns, a directory, a URI that fits none, requests with and without header fields |
| `ServerVisitor` | `config/deser.rs`: one `[[server]]` table, key by key |
| `ServerVisitorProofs` | theorems about `ServerVisitor` |
| `MCServerVisitor` | TLC instance: for each key the values its handler tells apart |

Definitions whose name ends in `Mutant` are deliberately wrong variants of the
definition after them. No specification uses them; putting one in the place of
the right definition makes the property it is paired with in `PROJECT.json`
fail, which shows that the property depends on that line of the code.

### Server

One step is what a task does between two points where another task can see or
disturb it. `pc` is the server task:

| `pc` | Where the code is |
|---|---|
| `starting` | `init` is done, the socket listens, `run` has not been polled |
| `select` | `Listening` is published, the configuration leaked, `select!` is about to poll |
| `check` | top of the loop in `listen`, only after a connection was spawned |
| `acquire` | at `acquire_owned().await` |
| `accept` | at `accept().await`, holding a permit |
| `notify` | `select!` is over: the listen future and the socket are dropped |
| `collect` | in `collect_acknowledgements` |
| `free` | about to free the configuration |
| `done` | `Done` is published and `run` has returned |

`Shutdown` is possible at `select`, `acquire` and `accept` only: `select!` polls
its other branch when `listen` is suspended, or first. Between the spawn of a
task and the next await nothing can cut in (`check`).

`stage[c]` is the connection `c`: `away`, `backlog` (in the kernel's accept
queue), `reset` (thrown away with the socket), `idle`/`busy` (being served
by hyper, without and with a request in flight), `served` (`serve_connection`
returned), `acking`, `releasing`, `leaving` (the rest of the task, one step per
await or drop), `unwinding` (the handler panicked), `ended`. `tunnel[c]` is the
detached task of an upgrade. `subs`, `unread`, `acks` and `notifier` are the
channels, see `Notify`: live Subscriptions, receivers with an unread
notification, messages in the acknowledgement channel, and the Notifier itself,
whose own ack sender is dropped when it starts to collect.

External, and modelled by how `src/` uses it: the kernel's accept queue, the
clients, hyper, and the tokio channels. A connection is a name and is made at
most once; a client that reconnects is another name.

### Master

`pc` is the main task: `config` (before `rxh.toml` was read), `init`, `select`,
`send`, `join`, then `returned`, `failed` or `panicked`. `server[s]` is a server
seen from outside: `new`, `bound`, `spawned` (not polled yet), `serving`,
`draining`, `returned`, `panicked`; `closed` when it was dropped before it ran,
`aborted` when the `JoinSet` was dropped under it. `live[s]` and `admitted[s]`
are its connections, which are tasks of their own: a panic of the server does
not end them, the end of the process does. A server that serves holds a receiver
of the shutdown channel; one that has stopped does not. `joinOff` is the branch
of `select!` that disables itself when the pattern `Some(Ok(Err(err)))` does not
match, which is always, since `Server::run` has no error result after its `init`.

`Life(s)` maps the master's view of server `s` to `ServerLife`, and
`ServersImplementLife` says that it never goes beyond it. So `Server` refines
`ServerLife` and `Master` uses no more of a server than `ServerLife` allows: the
two meet there, and no model has to hold both.

### Ring and WeightedRoundRobin

`TakeTicket` is `fetch_add`; `Return` is what the thread does with the result.
The counter is taken modulo `UsizeModulus`. `calls` is a history of the tickets, which
the properties are stated on. `Cycle` is the construction in
`WeightedRoundRobin::new`, written with a fold. A configuration without any
weight never becomes a ring: `Ring::new` panics on an empty vector, which is the guard of
`NewRing`.

### Service

A request has a connection of its own, since what connections share are the
schedulers. `stage[r]` is where its future is: `connecting` and `sending` at the
awaits of `proxy::forward`, `reading` at the one of `files::transfer`, then
`answered` or `failed` (the future returned `Ok` or `Err`), `dropped` (hyper
drops it when the client leaves) or `panicked` (one of the two `unwrap`s:
`OnUpgrade` is missing, or the `Forwarded` value has a character that no header
may have, which only the configured `name` can bring in). `upstream[r]` is the
connection to the backend, `sent[r]` the `Forwarded` field that was sent on it,
`tunnel[r]` the tunnel's task. `CallForward` is all that happens before the
first await, the scheduler's turn included.

A URI is abstracted to the pattern prefixes it starts with, a scheduler to its
cycle and a count of turns; `Ring` and `WeightedRoundRobin` are where the turns
themselves are modelled. There is one scheduler for each pattern and listening
address, as `Forward::clone` makes a new one; so the weights that `README.md:36`
promises of the requests "at port 8200", to a server that listens on two
addresses, hold for each address and not for both together. A `Forwarded` header
is a list of fields and a field a list of hops, or `Unreadable` when it is not
visible ASCII. `into_forwarded` keeps the hops of the first field, if it is
readable, and drops all others, although several fields are one list;
`ForwardedChain` names this exception and shows that nothing else is lost.

What is a detail of `Server` stays there (permits, subscriptions), and what is a
detail of `Service` is one step there (`Request`, `Respond`, `SpawnTunnel`,
`Panic`). `Exchange` is what both say about a connection: `Server` refines it for
each of its connections (`ServesExchanges`), `Service` for the connection of each
request (`AnswersExchanges`), where a client that has gone counts as the end of a
tunnel that was still waiting for it.

### ServerVisitor

The variables are the locals of `visit_map`; `doc` is the history of the keys it has seen.
One action per `Field`, in the order of the code's checks, then `Finish`. A key
may be repeated: toml 0.5 hands every key of a table to the visitor of a struct. A list
of addresses is its length, a backend its weight, and a value that its type
rejects is `Malformed`. An entry of a `match` lists its action keys in their order:
the action is flattened into it, so the first is taken, the others are not even
looked at, and an entry without any is an error. Deserializing a `Forward` makes its scheduler, so that a
list without any weight ends the visit in a panic (`panicked`). `Consistent` and
`Complete` say, from the set of keys alone, which documents should be accepted.

## 3. What the runs check

| Run | Instance | Shows |
|---|---|---|
| `server_safety` | 4 connections, 2 permits, queue of 2, symmetry | permits conserved, published state true, no use after free, acknowledgements have a receiver, refinement of `ServerLife` and `Exchange` |
| `server_live` | 3 connections, 2 permits, `LeavingSpec` | shutdown completes, tasks end, a full server accepts again, the queue drains, `ServerLife`'s liveness |
| `scheduler` | lists of up to 3 backends, weights 0..2, 3-bit counter, 2 threads, 12 calls | turns follow weights, the wrap starves nobody, answers match tickets, order of the first turn |
| `master` | 3 servers, 2 of which may panic, 2 clients and 1 permit each | all or none, isolation of failures, nobody outlives the master, CTRL-C ends it, refinement of `ServerLife` |
| `service` | 2 requests, 2 addresses, 3 patterns, 2 backends, 5 request heads, 3 names | turns follow requests, upgrades agree, the chain of hops is kept, upstream connections are released, refinement of `Exchange` |
| `config` | all documents of up to 5 keys | mixes rejected, accepted as written, rejected for a reason, accepted servers can schedule |
| `config_forms` | all documents of up to 3 keys | disagreement 6 |
| `notified_tasks` | 2 connections, 1 permit | disagreement 1 below |
| `tunnel_shutdown` | the same | disagreement 2 |
| `tunnel_permit` | the same | disagreement 3 |
| `master_aborts` | 2 servers, 1 client | disagreement 4 |
| `master_failure` | 2 servers, 1 client | disagreement 5 |

The last six look for a counterexample and find one. Each is a sentence of the
documentation or a comment that the code does not keep:

1. **A notified connection need not end.** `docs/task.md:221` has notified tasks
   finish their current work, acknowledge and end. The task looks for the
   notification only after `serve_connection` has returned, so a keep-alive
   client that goes on sending requests holds up the shutdown for as long as it
   likes (`server.rs:317-322`).
2. **`Done` with open sockets.** `README.md:69` promises not to end the process until all sockets are
   closed. The tunnel of an upgraded connection is detached
   (`proxy.rs:51`); the server does not wait for it.
3. **The permit does not last as long as the socket.** The comment at `server.rs:326` says it
   does. hyper's future completes when the socket is handed
   to the tunnel, and the permit goes back. `connections` does
   not bound upgraded sockets.
4. **CTRL-C can abort servers that drain.** If the listeners of all servers have failed,
   nobody is subscribed to the shutdown and `send(()).unwrap()` panics
   (`master.rs:188`), which aborts servers that still wait for their
   connections. `master.rs:108` says the master waits for pending tasks.
5. **A failed server stops nobody.** `docs/task.md:81` has the failure of a server
   trigger the shutdown of all; the pattern in `select!` never matches, because
   `Server::run` returns `Ok(())` after a listener error too.
6. **A documented form of `forward` is rejected.** `deser.rs:97-136` lists "all the
   legal patterns" and `README.md:48` shows one of them, `[[server.forward]]`. In
   TOML that is an array that holds a table, and `ForwardOption` takes a table or
   an array of backends, so the document ends in `invalid value`. The table
   has to be written as `[server.forward]`.

One more is not a run of its own but an exception named in `MixesAreRejected`:
`docs/config.md:251` does not allow a simple pattern (`uri`, `forward`, `serve`)
to be mixed with `match`, and the visitor accepts `uri` followed by `match` and
drops the `uri`; in the other order it is an error (`deser.rs:345`).
(The error for a repeated `match` names the field `listen`, `deser.rs:299`; the
model tells errors apart by their kind only.)

### Bounds

- *Connections and permits.* Two permits and a third connection reach a full
  server; the fourth waits in the queue while the listener waits for a
  permit, so shutdown can come with tasks, a held permit and a queue at the same
  time. The acknowledgement channel holds one, so two notified tasks already compete for it. The
  liveness run has three connections: two competing tasks and one that
  waits.
- *Queue.* `Backlog` is 1024 in the code and 2 here, so that the queue fills and
  its order matters.
- *Counter.* 64 bits become 3. Cycles of 3 do not divide 8, cycles of 1, 2 and 4 do; the
  twelve calls start before the wrap and go on past it.
- *Lists.* Up to three backends over two addresses, so that an address is
  listed twice, and weights from 0 so that entries vanish; `Len(Cycle) <= 4`
  keeps two whole turns within the calls. `MaxCalls` is a bound of the model.
- *Servers.* Three, two of which may panic: one result is swallowed by
  `select!`, one meets the join, and one is left to be aborted. Two clients and
  one permit let a connection be live, over, or refused while a server drains or
  panics; more are `server_safety`'s.
- *Requests.* Two requests meet in every pair of stages. One pattern has one
  backend, so that its second turn wraps, the other two; one shadows the other.
  Two addresses suffice for one scheduler to stand still while the other turns.
  The heads have no, one and two `Forwarded` fields, one unreadable, and each kind
  of `Upgrade` and `Host`; the names are none, a fit and an unfit one.
- *Keys.* Five keys hold a complete document (`listen`, an action, `uri`) with
  two more: a repetition, a mix or an optional key at any place. Three are enough for the
  rejected form. `MaxKeys` is a bound of the model; the theorems hold for any.

`CHECK_DEADLOCK` is never switched off: the states in which nothing more can
happen are named (`Terminated`, `Exhausted`), and anything else that is stuck is
an error.

### Fairness

- `Server!FairSpec`: the server task and each connection task are polled while
  they can make progress, which is tokio's contract; a request in flight is
  answered (the proxy's upstream is assumed to answer: the code has no timeout).
  Nothing is assumed of clients, of `accept()` failing, of panics or of anybody
  asking for a shutdown.
- `Server!LeavingSpec`: also, each client closes its connection in the end. The
  liveness of a shutdown needs it, which is what `notified_tasks` shows.
- `Master!FairSpec`: the master task is polled, so is the task of each server, a
  server without connections that drains returns, and clients leave in the end.
  These are the assumptions of `ServerLife!FairSpec`, which `Server` was shown to
  keep for clients that leave. Nothing forces a failure, a panic or CTRL-C.
- `Service!FairSpec`: once the client has gone, the detached tasks of its
  request end, since the end of file reaches both of their sides. Nothing bounds
  how long a backend may take to accept or to answer (the code has no timeout), so
  nothing is assumed of a future, and nothing of clients.

## 4. What is proved

Every invariant that a run checks and both refinements in their safety part are
theorems, for any constants that satisfy the named assumptions:

| Assumption | Says | Because |
|---|---|---|
| `MaxConnectionsAssumption`, `ConnectionsAssumption` | the limit is a natural number | `usize`; the parser accepts 0 |
| `BacklogAssumption` | the accept queue has a positive length | it is the constant 1024 |
| `PanickyAssumption` | who may panic is a server | a bound of the model |
| `UsizeAssumption` | a counter has at least two values | it has 2^64 |
| `BackendListsAssumption` | weights are natural numbers; a cycle is shorter than the range of the counter | `usize`; the cycle is the content of a `Vec`, whose length is a `usize` |
| `PatternsAssumption` | a forward pattern's scheduler has an entry | `Ring::new` panics on an empty list while the configuration is read, which `AcceptedServersCanSchedule` is about |
| `HeadsAssumption`, `NamesAssumption`, `AbsentAssumption` | the shape of a request's head; absence is no field | the types of `http::HeaderMap` and `Option` |
| `ValuesAssumption`, `MatchAssumption`, `MaxKeysAssumption` | the shape of the values in a document | what the visitors of its types return |

The sets of connections, servers, requests, listening addresses and threads need
not be finite.

**InductionLemmas.** `LeastNumber`, `SetInduction` and `RecursionDefines`. The
induction theorems of the library take an operator, which the provers cannot
instantiate; these take the set of the numbers for which the claim holds, and come from
the library's `WFMin`. With them what `FoldLeft`, `FlattenSeq` and
`MapThenSumSet` return for data of any length is proved and not only checked.

**ServerProofs.** `TypeCorrect`, `PermitsAreConserved`,
`PublishedStateIsAlwaysTrue`, `ConfigOutlivesReaders`, `AcksAreReceived` and
`Refinement` all come from one inductive invariant, `Inv`:

- `TypeInv` types the variables;
- `QueueInv` ties the accept queue to the stages: it holds exactly the
  connections in stage `backlog`, each once. Without it `Accept` might take a connection
  that is already being served;
- `TaskInv` ties permits and subscriptions to the stages: who is served holds
  both, who is leaving has given the permit back, who has ended holds nothing;
- `PhaseInv` ties the configuration and the notifier to `pc`: the configuration
  is freed only past `collect`, and there no Subscription is left, so by
  `TaskInv` no task is being served;
- `StateInv` is what `PublishedStateIsTrue` needs of earlier steps:
  `MaxConnectionsReached` is published only together with the flag that makes
  the listener publish `Listening` again;
- `PermitsConserved` itself.

None of the properties is inductive alone: `NoUseAfterFree`, say, is about
`config` and `stage`, and what keeps it is that a task that is served is subscribed, that
`collect` ends only when nobody is, and that nobody subscribes after
`select!`. `Refinement` shows `Spec => Life!Spec`: `Acquire`/`Accept` implement
`Admit`, for which the count of permits gives the bound on live connections;
leaving `select!` implements `Close`; `Finish` implements `Finish`.
`ServerServesExchanges` adds `TunnelInv`, that a tunnel waits for its socket only
while its connection is busy: then whatever ends a connection cancels it.

**ServerLifeProofs.** `PromiseIsBounded`: whoever behaves as `ServerLife` serves at
most `MaxConnections` at a time, and nobody when done. `ServedAreBounded` in
`ServerProofs` carries it over to the server through the refinement, by an instance of
the whole proof module. `Master` refines the same module, once for each server;
there it is not carried over, because the prover does not take an instance of
theorems with a parameter.

**RingProofs.** `EveryTurnVisitsEveryEntry`: for any ring, width and threads, as
many calls in a row as the ring has entries get different entries, unless the
counter wraps among them. The invariant says that tickets are consecutive
modulo the width (`Consecutive`) and that `next` follows the last; the rest is
`RemaindersDiffer`, that two numbers closer than the length have different
remainders.

**WeightedRoundRobinProofs.** What the comment of the scheduler promises, for every
list of backends. The argument has three parts:

- *The cycle.* `CycleIsBuilt`: the fold is the loop over the backends, the cycle
  after `i` of them being that after `i - 1` and `weight` times the next
  address. `CycleIsFair` then has by induction over `i` that the cycle lists
  backends in order (`InOrder`) and each address as often as its weights add
  up to (`InProportion`). The sums are `MapThenSumSet`, which adds in an arbitrary
  order; `TotalIsSlots` shows that the order does not matter, as the sum is the
  cardinality of the set of pairs of a backend and a number up to its weight.
- *A turn.* `TurnIsCycle`: the calls of a turn without a wrap and the
  positions of the cycle correspond one to one, by `EveryTurnVisitsEveryEntry` and
  because an injection between sets of equal size is a bijection. From both parts:
  `EveryTurnFollowsWeights`.
- *The wrap.* Of `2n - 1` calls in a row the first `n` are a turn without a
  wrap, or the counter wraps among them to 0, and the `n` calls from there on
  are one, as a cycle is shorter than the range of the counter (`TurnWithin`):
  hence `NobodyEverStarves`. `OrderInv` adds to the ring's invariant that the first
  ticket is 0 and each other one follows the one before it (`Chained`), from which
  also `FirstTurnKeepsConfigOrder`.

`AnswersAlwaysMatchTickets` needs to know of those who have a ticket and no answer yet:
`Accounted` says that answers and pending tickets of an address add up to the calls
for it, and no thread can have two.

**MasterProofs.** `MasterIsLast`, `ServesAllOrNone`, `FailuresStayIsolated` and
`ServersKeepTheirPromise`, for any servers and any connections. `JoinedInv` counts what the two places that
take results out of the `JoinSet` may take: `select!` one of any kind, the join
only results that are not panics. `DrainedInv` says that who has returned has
drained, and `AddressInv` which stages a server may be in while the main task is
at each of its points; `SignalInv` says that nobody is signalled before CTRL-C. The
refinement is proved for an arbitrary server `t`: a
step of another server, or of the master, leaves `Life(t)` alone or closes it.

**ServiceProofs.** For any requests, patterns, addresses and clients:

- `TypeCorrect`: a request that is forwarded has a backend of its pattern's
  cycle, whatever the count of turns.
- `UpgradesAlwaysAgree` and `ServiceAnswersExchanges`. The property is not inductive:
  `FutureInv` adds at which stages an answer, an upstream connection and a
  tunnel can be there at all, and that a client that has gone leaves no future pending.
- `ForwardedChainIsKept`, from an invariant that ties what was sent to the head
  of the request and the name of the configuration, neither of which changes
  any more; what `FlattenSeq` makes of the fields is by induction over their number.
- `TurnsAlwaysFollowRequests` counts: `TurnsInv` says for each scheduler that
  the requests routed to it are a finite set as large as its count of turns,
  and for each backend that its share is as large as the set of turns that the
  cycle gives it. `NextServer` adds one request to both sides.

**ServerVisitorProofs.** For documents of any length and any values.

- `MixesAreAlwaysRejected` rests on an invariant that says what the locals know of the
  keys already seen (`LocalsKnow`): `simplePattern` is set exactly when one
  action was given, `patterns` is not empty exactly when one list that is not
  empty was.
- `AcceptedServersCanSchedule` carries "every forward action so far can
  schedule" through the locals, since `Finish` only moves patterns.
- `AcceptedIsAlwaysAsWritten`: while the visitor reads, each local is what the
  document gives last for its key (`WrittenInv`); a step appends one key, so
  that the last of it changes and the last of every other stays
  (`WrittenStays`, `EarlierStay`).
- `RejectionsAlwaysHaveAReason`: an error of a field is a statement about the
  locals, `WrittenInv` and `LocalsKnow` translate it into one about the keys, and that
  contradicts `Consistent` or `Complete`.

Only model-checked: liveness, as fairness and ENABLED are out of the
prover's reach. These are `ShutdownCompletes`, `ServedTasksEnd`,
`MaxConnectionsIsTransient`, `BacklogDrains` and `ImplementsFairLife` of the server,
`ShutdownEndsMaster`, and `UpstreamsAreReleased` of the service.

## 5. What is not modelled

- *Files.* Which path of a directory names a file, MIME types, contents.
- *serde, toml, hyper, tokio and the kernel*: by how `src/` uses them.
- The handshake with a backend, which sends nothing and does not fail in HTTP/1.
- Log lines, wording of responses and their `Server` header, the address formats;
  an empty `Forwarded` field.
- The derived `Serialize` of the configuration, which no code calls, and the
  error type of `lib.rs`, which is data.
- The integration tests, which were read for the behaviour that they fix.
- `Server::state`'s watchers: they see what `state` holds, and miss values at
  will; the properties are about the value published.

## 6. Plan

The models cover every component that keeps state, and every invariant that is
checked is proved. What is left:

1. The safety halves of the liveness properties: what must hold for their
   last step to be possible (a server that collects and has no subscriber
   can take `Finish`; a permit that is given back reaches the listener that waits).
2. That the disagreements of section 3 are the only reasons for which the
   documentation's properties fail: `SocketsClosedWhenDone` without upgrades,
   `PermitOutlivesSocket` without tunnels, as theorems.
