# A verification of Akamata's core

Akamata is a web framework in Zig that runs as a native threaded HTTP server and
as a WASM module on Cloudflare Workers. This directory models the parts of it in
which threads, processes, crashes, timeouts and limits meet, checks them with TLC
on small instances and proves the most important properties with TLAPS for all
instances. Every definition is translated from the source; `PROJECT.json` maps
each to its lines.

## The system's parts

| Part (sources) | State it keeps | Operations | What is hard | What makes it correct |
|---|---|---|---|---|
| Job queue and cron (`jobs.zig`) | table `akamata_jobs`; per process handlers, crons, shutdown flag; per worker a claimed batch | enqueue, cleanup, handler, cron, Worker.run / stop | several processes on one table, crashes between claim and completion, leases, reused row ids | claims exclusive, success means the handler ran, failure means it really failed, retries bounded, due jobs served |
| Database pool (`db/pool.zig`, `sync.zig`) | available flags, closed flag, one condition | acquire, release, deinit | signal after unlock, spurious wake-ups, barging, deinit under waiters | a handle has one holder, no lost wake-up |
| HTTP connection (`serve.zig` handleConnection, `http/parser.zig`, `http/response.zig`, `chunked.zig`, `fixed_length.zig`) | receive buffer, reader's own buffer, request counters, stream in progress | read head and body, parse, dispatch, answer, stream, upgrade | bytes split anywhere, pipelining, four timeouts, limits, failures mid-stream | answers in order, limits exact, no buffer asked for beyond them, framing complete, no wait for a peer's bytes keeps the thread |
| HTTP server lifecycle (`serve.zig` serveNative, acceptLoop; `app.zig` requestShutdown) | listener and its published descriptor, shutdown flag, connection count | bind, accept, refuse, serve, shut down, drain | several accept loops, failing accept and spawn, concurrent shutdown | exact and bounded count, nothing left at return, shutdown obeyed |
| Application, routing, dispatch (`app.zig`, `router.zig`, `static_router.zig`) | routes, static index, middleware chain | prepare, dispatch | HEAD and GET precedence, two lookup orders, errors after partial bodies | one route by precedence, one status per request |
| Realtime and WebSocket (`realtime.zig`, `ws/*`) | rooms, presence, connections | attach, detach, send, broadcast, disconnect, close | callbacks outside the lock on a snapshot, close against send | nothing used after detach, everyone in the room reached |
| Sessions, rate limits, idempotency (`mw/session.zig`, `mw/ratelimit.zig`, `idempotency.zig`) | maps under a mutex, a table | get, set, rotate, revoke; hit; claim | concurrent requests of one client, expiry, eviction, crash after claim | revoked stays revoked, window limits, one winner |
| Migrations (`model/migrate.zig`) | `schema_migrations`, the Once flag | Once.run, up, down | racing starters, failure and retry, backends without transactions | applied once, recorded iff applied |
| Database backends (`db/*.zig`) | Turso's baton, statement state | exec, prepare, step, transaction | shared baton, stale stream | statements of one transaction in one stream |
| Workers host (`deploy/worker/index.mjs`, `wasm_dispatch.mjs`, `platform/workers.zig`, `runtime/workers.zig`, `db/d1.zig`) | the WASM instance and its promise, the dispatch lock, guest buffers, the D1 and R2 registries | fetch, queue, instantiate, handle_fetch, handle_queue, the D1 and R2 imports | calls that suspend in the middle of a dispatch, one instance for all requests, traps, failed initialisation, queue retries | dispatches one at a time in order, own responses and rows, nothing leaked, acknowledged iff consumed |
| Durable Objects and their gateway (`realtime_object.mjs`, `chat_room.mjs`, `internal_routes.mjs`, the public handler) | sockets and attachments, presence rows, chat sessions and messages | upgrade, message, close, error, broadcast; authorise and forward | a wait in the middle of a message, dead peers, crashes that keep the rows, forged headers | the trust boundary, presence equals sockets, the table's order |
| Everything else | none that outlives a request | generation, formatting, crypto, I/O bindings | | |

How they interact: `App.serve` runs the server lifecycle; an accept loop hands each
socket to a thread that runs the connection; the connection calls
`App.dispatchWithPeer`, whose handlers use the pool, enqueue jobs, upgrade to a
WebSocket. Job workers run on threads of their own and share the database with
everything else. On Workers the JavaScript glue takes the place of server and
connection: it instantiates the module once per isolate, takes a lock for each
dispatch, and serves the guest's imports, which may suspend the guest. The public
handler also is the gateway to the Durable Objects; a realtime room calls back into
the application for every message.

`PROJECT.json` lists every component with its sources and status, and under
`hazards` what is hard to test, each with its line and the properties that watch it.

## Modules

| Module | Models | State and actions against the code |
|---|---|---|
| `JobQueue`, `JobLife` | `jobs.zig`; what a queue promises for a job | One action per SQL statement: `Enqueue`, `Claim` (UPDATE ... RETURNING), `Record` (the three completions), `Cleanup`. `Poll`, `CronCheck`, `CronMark`, `DrainBatch`, `Dispatch` are the steps of `Worker.run` between statements. `Crash` takes a process with everything in memory; `RunFails` is an error that leaves `Worker.run`. `clock` is unix time. `runs` records what handlers really did; the code has no such state. `Enqueue` reads the clock some time before its INSERT, so a row may be due earlier than its insertion says. `JobLife` knows a job by its call of enqueue: submitted, attempted, concluded, purged; `LifeOf` reads where it is off the row with its serial number. |
| `DbPool`, `LeasePool` | `db/pool.zig` over `sync.zig`; what a pool promises | A critical section is one action, since nothing in it waits but `changed.wait`. `Release` ends at the unlock, `Signal` follows. `Spurious` wakes a waiter for no reason. `Close`, `Broadcast`, `FreeAll` are deinit. |
| `HttpConnection` | `handleConnection` with parser limits and stream writers | Bytes are counted. `received`, `ahead` and `sent` are the bytes in recv_buf, in the reader's buffer and on the wire; `HeadLoop`, `ParseLoop`, `Read`, `ReadEnd`, `TimeOut` the read loops; `Answer`, `StartStream`, `Write`, `Flush`, `EndStream`, `FinishStream`, `Upgrade`, `DispatchFails` what dispatch may do. Each of the server's writes may hang instead (`WriteBlocks`): pc is then "blocked" until the peer resets the connection (`BlockedWriteFails`). `AtLeast` is `ensureTotalCapacity`, which gives what it is asked or more. |
| `HttpServer` | `serveNative`, `acceptLoop`, `requestShutdown` | `main`, `at` and `stop` are program counters of main, the accept loops and the callers of requestShutdown, one step per shared access (atomic load, store, fetchAdd, system call). A connection is a thread that ends. |
| `WasmDispatch`, `SerialCalls` | `WasmDispatchQueue`; what its comment promises | `Link` is run() up to its await, `Admit` the end of the await, `Release` the finally. `SerialCalls` is the FIFO lock without promises. |
| `D1Bridge` | the `akamata_d1` imports and `db/d1.zig` | One action per import, with the guest function around it: `D1Prepare`, `D1Bind`, `D1Ran`, `D1Step`, `D1Reset`, `D1Finalize`, `D1Executed`, `D1LastInsertId`; `D1Trap` is a guest that is gone. `ColumnInt`, `ColumnTextCopy` and `AsNumber` are the conversions. |
| `R2Bridge` | the `akamata_r2` imports and `R2Store` of `platform/workers.zig` | `PutBegin`, `PutWrite`, `PutFinish`, `GiveUp`; `GetBegin`, `GetRead`, `GetClose`; `Delete`. `bucket` is the store, with one key. |
| `WorkersHost` | one isolate: the rest of `index.mjs` up to the gateway, `platform/workers.zig`, `runtime/workers.zig` | Composes the three above. A task is a call of dispatchWasm or of queue(); `job[t].pc` says at which await it is. `Instantiated` is instantiate(); `Begin` to `FinishFetch` / `FinishMessage` a dispatch; `Suspend`, `Settle`, `SettleError`, `Resume` an import that suspends; `Trap` the guest's trap. |
| `IsolateTasks` | the tasks' names | Shared by the three bridges. |
| `ChatRoom` | `chat_room.mjs` | `HandleSession`, `ChatMessage`, `ChatCleanup` are its listeners, `ChatRestart` an eviction. |
| `RealtimeRoom` | `realtime_object.mjs` | `Accept`, `Receive` (webSocketMessage to its await), `Answered` and `Rejected` (the rest), `SocketEnds`, `RoomCrash`. |
| `RealtimeEdge` | the gateway in `index.mjs`, `internal_routes.mjs`, AkamataRealtimeApplication | Composes the two rooms: `PublicRequest`, `JoinChat`, `AskRealtime`, `Allow`, `Deny`, `Connect`, `Handle`. A path is kept as it came: `IsInternalRealtimePath` compares it exactly, `NormPath` is what the application's router makes of it. |
| `*Proofs` | theorems | Each extends its module; `WorkersHostProofs` also extends `WasmDispatchProofs`, and `WorkersBridgeProofs` extends it. |
| `MC*` | instances | The constants' definitions for TLC. |

`HttpServer` uses of a connection only that its thread ends; `HttpConnection`'s
`ConnectionEnds` is that fact, for handlers that return and peers that read. In the same way
`RealtimeEdge` lets an answer of the application come at any time, or never;
`WorkersHost` is how an answer comes about.

Definitions marked "(Faulty variant ...)" are not part of a specification. Each is
a plausible mistake in the definition that follows it, and is there to show that the
properties can be violated: substituting it makes TLC report the property that
`PROJECT.json` names for it.

## Runs

Passing runs:

- `jobs`: two processes with one worker each, two jobs, batches of two, one fault,
  purge after zero seconds. Every batch finishes within its lease (`Punctual`, see
  below). Two workers and two rows are the least for a contested claim, a batch that
  is dropped in the middle and a purge between; time runs long enough for one lease to
  expire and be reclaimed. Checks exclusive claims, honest and final verdicts, bounded
  retries, and that the queue implements `JobLife`: no job disappears before a verdict
  its runs account for, and none is attempted after it. 1,904,500 distinct states, about 2.5 minutes.
- `jobs_late`: two threads of one Queue, one-row batches, not punctual, no purge: a job is
  reclaimed while its first worker still runs it. Success still means the handler ran.
  Liveness: due jobs are served, stop is obeyed.
- `jobs_cron`: one worker, one cron of period two, six seconds, one fault between any
  two steps: the number of jobs a cron makes is bounded by periods and restarts.
- `pool`: four threads, two handles, two leases each: with more threads than handles on
  both sides, waiters, newcomers, signallers and a deinit meet. Also the refinement of
  `LeasePool`.
- `http_conn`: nine scripts of requests (pipelined, Content-Length and chunked
  bodies, oversize in each way, a malformed chunk behind a good request, a legal body whose chunk framing outgrows the buffer and
  is dropped unanswered, bad heads, unsupported coding) sent in pieces of every
  size, head limit and body limit three, first capacity two, an allocator that may
  give one unit more than asked (`Slack`) each time, read-ahead one, timeouts
  1-3, three requests a connection. Each limit is reached and exceeded by one unit.
  178,818 distinct states, about 1.5 minutes.
- `server`: main and one more accept loop, three clients, one slot, two failures, one
  shutdown from another thread at any time: both loops compete for the last slot,
  refuse, and see failures of accept and spawn.
- `workers`: two fetches and a queue batch in one isolate, and four applications
  (`Plans`): one that runs a statement through every state of the registry, one whose
  three handlers insert rows and read their ids, one that stores an object another
  deletes, one that serves what a queue consumer uploads. With and without JSPI, with
  and without a queue consumer, instantiation failing in three ways, and one fault
  anywhere: a body that aborts, a handler error, a malformed response, a trap, a failed
  import. 280,199 distinct states, about 2.5 minutes. Checks the refinement of the FIFO lock, that
  every response, row and object is the request's own, that nothing is left in
  the registries, acknowledgements, and that every task ends.
- `realtime`: three clients, two rooms, two resources; one client is authorised for
  another room than the others, and every client claims somebody else's room and
  identity. One client sends two messages, so that two calls of one socket overlap at the await,
  and the answers include a direct action, a disconnect followed by a broadcast, one with a code
  that close() refuses between two broadcasts, and two broadcasts. Public requests are made for the
  application's own routes, with and without a slash at the end. The chat room runs beside them with two messages, dead sessions and an
  eviction. 518,974 distinct states, about 1.5 minutes. Checks the trust boundary, the presence
  rows against the sockets, and the order in which chat clients see the table.

Runs that show a disagreement (each expects its property to fail; `findings` in
`PROJECT.json` quotes the lines):

- `jobs_id_reuse`: completions go by row id, and SQLite reuses purged ids; a worker
  that outlived its lease marks a job it never ran as succeeded.
- `http_fixed`: nothing ends a fixed-length stream, so what the writer still buffers is
  lost and the length is not checked.
- `http_readahead`: the poll before a read does not see bytes in the reader's own
  buffer, so a request that has arrived can be timed out.
- `server_stop`: requestShutdown on another thread may shut down a descriptor that
  serve has closed and the system has given to something else.

Deadlock checking is on in `workers`, where `Ended` is the only step of a finished
isolate. It is off elsewhere because those instances stop: workers are stopped, pools
freed, connections closed, servers returned, clients gone.

### Bounds

`MaxIds`, `MaxJobs`, `MaxTime`, `MaxFaults` (jobs), `Rounds` (pool), `MaxStream` and the
finite `Scripts` (connection), `MaxErrors` and the finite `Conns` (server) bound what is
unbounded in the code, `Slack` (connection) what the allocator may add; each is in a guard and named
in its module. For the Workers parts
these are `MaxFaults`, `Plans` (what a handler uses and how many imports it calls),
`MaxRows`, `MaxMessages` and `MaxChat`; `Buffer` (2 units for 64 KiB), `MaxUpload` (3 for 8 MiB) and
`SafeInt` (4 for 2^53 - 1) are scaled limits, each met and exceeded by one unit: an upload
of four units is refused, a chunk of three is split, and the integer 5 loses its last bit. The theorems hold for
every value of them. `MaxTime` bounds the clock of the liveness run `jobs_late`: `WaitsForTime`
is what a job may then still wait for.

### Fairness

- Jobs: weak fairness of each worker's own steps. A live thread is scheduled, handlers
  return. Nothing forces a crash, a spawn, an enqueue or the clock.
- Pool: weak fairness of each thread's steps inside the pool, and of a holder's release
  (a caller's duty). `AcquireReturns` holds because `Rounds` bounds the newcomers: pthread
  conditions are not fair, and with endless newcomers a waiter may starve.
- Connection: weak fairness of the server's steps, of the clock, and of handlers
  returning. None of the peer, and none of a write that hangs: a step that writes may
  enter "blocked", and nothing need ever leave it. So `ConnectionEnds` excepts exactly
  the connections whose thread hangs in a write, which the code lets happen
  (serve.zig:170-187: no write timeout).
- Server: weak fairness of main, of each accept loop, and of connection threads ending.
  A WebSocket that stays open, or a peer that never reads, keeps a thread: there is no
  write timeout, and then the drain waits.
- Workers: weak fairness of an instantiation's end and of each task's steps. The event
  loop runs what is ready, a promise of the platform (an import, a request body) settles one
  way or the other, and guest code ends. Nothing makes a request arrive. A body that
  never ends would hold the lock, since it is read inside it; the platform ends such requests.
- Realtime: only safety. Whether an answer comes is the application's affair.

### Assumptions worth knowing

- `Punctual` (jobs): no live worker holds a batch longer than the lease. Nothing in the
  code enforces it. Without it claims are not exclusive, by design of a lease;
  `jobs_late` shows what still holds, `jobs_id_reuse` what does not.
- Handlers and crons are registered before the workers of their Queue start: the two
  lists have no lock (`Quiet`).
- A pool's leases are released before deinit, and no thread enters afterwards
  (docs/en/db-backends.md). A thread that deinit wakes may find the pool freed; the model
  stops it there.
- If an accept thread cannot be spawned, serve returns with the earlier ones running on
  its frame; the model stops there.
- A copy of a Lease (`db/pool.zig:74`) is not released a second time.
- Each request of an isolate drives one statement or one transfer at a time; the
  registries tell entries apart by handle only, and handles are never reused. Of R2 there
  is one key; a conditional put whose condition does not hold stores nothing and is reported
  as a success, as put_finish ignores what R2's put returns.
- D1 gives row ids in the order of the calls and answers a query with rows of its
  own parameter, so that a mixed-up answer can be seen.
- The gateway makes connection ids unique (crypto.randomUUID); the model uses the client.
- In what order the runtime lists the sockets of a room is not specified: a loop over them that a throw
  ends has reached any of them. An inbox says which actions reached a client; the event's id
  and the order inside one answer are left out.
- Storage of a Durable Object survives it, its sockets and its memory do not. A room's
  message whose answer is outstanding when the room dies is lost.
- A handler is taken to be well behaved towards the framework: it does not register
  handlers, and uses the writer it was given.

## Proofs

Every safety invariant, action property and refinement that a passing run checks is proved,
for every value of the constants that satisfies the ASSUME of the module. Where a
theorem has a hypothesis of its own, it is named below; each is what the run that checks the
property assumes too.

- `JobQueueProofs`. `TypeCorrect` proves TypeOK together with `Locals` (a worker that is
  down or polling has nothing in hand, one that records has a row, ...), which typing the
  dispatch needs. `Exclusive` adds `Ownership`: every row in a worker's hands is running,
  carries the serial it was claimed with, was last touched at `claimedAt`, less than a
  lease ago, and is in no other hands. It is inductive because a punctual worker's lease cannot have expired
  at a claim (`ClaimSpares`), and only terminal rows are purged. `Final` follows from it:
  a terminal row is in nobody's hands. `Candour` and `GivenUp` (SucceededRan, FailedHonest)
  need `Honest`: what a row or a worker's copy says of attempts and verdicts is backed
  by `runs`. It holds with punctuality or with no purge, which is exactly the line between
  `jobs` / `jobs_late` and `jobs_id_reuse`.
  - `Retries` (punctual) needs an account, since `attempts` is not the number of failed
    runs. `Account`: a row's errors exceed its attempts by at most the faults so far, and by
    one more only while a failed run waits for its verdict or after the verdict "failed",
    which does not count itself; copies in hand agree with their rows. A worker lost between
    the run and the verdict turns its one into a fault, so the account stays balanced.
  - `CronJobs` is proved where the run checks it: only crons enqueue and each Queue has one
    worker (`Alone`), for finitely many crons and processes. `Ledger`: every job is paid for, by a fault or by a
    spent point: a process, a cron and a multiple of its period that is not after the last
    firing or, while a job is inserted and its entry not marked, not after the time the worker
    read; before a first firing all but the start are spent. A firing spends one more
    (`NextMultiple`), marking gives none back (`LedgerMark`), and a crash, which makes the
    entries forget, gives back one per cron and is a fault (`LedgerCrash`). `Timely`
    orders the times involved.
  - `Lifetime` (punctual): the queue implements `JobLife`. Serial numbers are unique among rows
    (`Account`), so a job is where its one row says it is (`Places`), although rowids are
    reused. Enqueue and a cron's insertion submit; a dispatch attempts, and `Ownership`
    says the job is still open; a verdict concludes, and `Honest` after the step says its
    runs account for it; a purge takes only concluded jobs; claims, crashes, errors and
    retries change no job.
- `DbPoolProofs`. `IInv` is TypeOK, LeaseExclusive, NoLostWakeup and that the wait set is
  exactly the threads blocked in wait. NoLostWakeup counts: free handles never exceed the
  threads on their way (entering, woken, or about to signal) while somebody waits; each
  action moves both sides, by lemmas on cardinalities. `Refinement` maps `lease` and
  `~closed` to LeasePool, step by step.
- `HttpServerProofs`. `IInv` is TypeOK; `Hands`, that a connection in a loop's hand is its
  alone; CountExact; `SlotsBounded`, that threads and loops about to start one fit in
  max_connections, which is what makes ConnectionsBounded inductive although the counter
  itself overshoots while a loop refuses; and `Phases`, what main has behind it.
- `HttpConnectionProofs`. `Shape` is the types, `Buffers` the order of the byte counts and
  the bound on recv_buf, the limits and one `Slack` (`GrownType`: growing keeps both,
  since it asks for no more than the limits and only when what it holds is full). `Phase` is what makes the rest
  inductive: while a connection serves, everything so far was answered in full and keeps
  the connection, and recv_buf starts exactly where the next request does, so `Current` is
  that request (`AtFront`) and a verdict is about it alone. `Waits`: a read is only begun
  when the request at the front is not whole; `Answers` is InOrder and LimitsHeld together;
  `Streams` relates the last answer to its writer. That requests lie one behind the other,
  and that sums of sizes grow, are facts about every sequence: `SumsExist` and `SumsGrow`
  prove them from the least counterexample, which exists because inclusion of
  finite sets is well founded (`Least`), so no induction theorem is needed.
- `WasmDispatchProofs`. `DispatchInv`: links point backwards, the tail is the last link,
  and a link that runs or has been released has every link before it released. From it,
  `Fifo`: each step of the chain is a step of `SerialCalls`, with `PhaseProperties` and the two
  lemmas after it moving between the records and their phases.
- `WorkersHostProofs`. `LockInv` adds to `DispatchInv` which link a task holds (`Lined`): a task
  between `Enqueue` and its end holds a link of its own, in the state its pc says, so two
  tasks inside a dispatch would be two running links (`OneHolder`). `HostIsDispatch`
  shows that each host step is a step of the queue or leaves it alone, so `Serialized`
  follows from the same step lemmas. `OutInv` says that while a task is at
  "return" with a response, lastResponse is that task's: only the holder of the lock sets it.
  `HostTypes` proves TypeOK with `Shape`: a task that is not done is at one of its plan's
  dispatches, and no instantiation is under way once there is an instance.
- `WorkersBridgeProofs`, the isolate's registries, each with an invariant of its own.
  `R2Inv`: every entry is one task's or was given up (`R2Table`), and an entry together with
  what its task sent or was given is the whole body (`R2Data`; `ReadSplit` is one read of
  a download). `D1Inv`: the same of statements (`D1Table`), the rows of an entry are those of
  the query its task ran last (`Reading`), and a task with an insert id to read holds the
  lock (`D1Waits`), so by `OneHolder` no other d1_exec comes between. `HeapInv`: which buffers a task
  has at each pc. `Whole`, `OwnAnswers` and `NothingLeft` follow.
- `RealtimeEdgeProofs`. `IInv` has one part per hazard besides the types. `Gates`: what
  the gateway knows of a client decides which sockets it has, and a realtime socket carries
  the room and identity of the authorisation. `Talk`: messages are numbered and answered at
  most once. `Sent`: whatever is in an inbox was returned for a message of the same room,
  and that action permits it. `Rows`: a row without a socket belongs to a socket that is gone.
  `Table`: whoever is connected to the chat is among the sessions and has been sent the
  table from where it joined. A step of a room neither makes a socket nor moves it to
  another room (`RoomKeeps`), on which `Sent` and `Rows` rest. `Boundary`, `Presence`
  and `Ordered` follow.

Only model-checked: liveness (`DueJobsServed`, `StopObeyed`, `AcquireReturns`,
`ConnectionEnds`, `ShutdownReturns`, `ClientsTaken`, `EveryTaskEnds`), because the provers
used have no rules for fairness or ENABLED.

## Not modelled, and the plan

Not modelled: the parts listed with status `not_modelled`, with the reason. Inside the
modelled parts: formatting, logging, header syntax, the socket writer's own buffer (every
path flushes it), TCP_NODELAY, accept backoff lengths, out-of-memory except as a failing
dispatch or claim (so also not a D1 statement whose wrapper cannot be allocated, `d1.zig:108`). Of the Workers glue: `akamata_fetch`, push, `r2_head` and `r2_list` keep nothing
between calls but a result buffer and are the suspending call `"other"`; environment
lookups and logging imports change nothing; `alloc` returning 0 is not modelled. Of the
Durable Objects: `putState`, `getState` and `disconnect`, which nothing calls.

The JavaScript of the repository that is not mapped is tools, benchmark servers and
`deploy/guestbook/worker/index.mjs`, an older copy of the glue without queue and R2.

Known hazards of the parts without a model, besides those in `PROJECT.json`: `Hub.broadcast`
copies at most 256 connections although its comment says all (`ws/hub.zig:119`);
`Conn.send` looks at closed before it takes the write lock (`ws/conn.zig:96`); Turso's
baton is shared by threads without a lock (`db/turso.zig:138`); memorySet brings back a
session that was revoked (`mw/session.zig:123`); an idempotency claim is durable before the work is done
(`idempotency.zig:36`); a HEAD request takes the first matching GET before an explicit
HEAD route (`app.zig:755`); a handler that fails after part of a buffered body is answered with
200 (`app.zig:844`).

One disagreement is in a model but in no run of its own. index.mjs:465-466 says of the
two internal routes that they are "never public HTTP API", but the gateway compares the path as it
came (`internal_routes.mjs:5`) and the router takes a slash off its end (`app.zig:976`), so a
public request for `/realtime/message/` reaches the message handler. `PublicRequest` does
this, as a call of `handled` that no room knows; `TrustBoundary` and `PresenceExact` are checked and
proved with it: what the handler returns goes to its caller and to no socket.

Done, in this order: `JobQueue`, `DbPool`, `HttpConnection`, `HttpServer` with four proof
modules; `WasmDispatch`, `WorkersHost` and its bridges with three proof modules;
`RealtimeEdge` and its rooms with one proof module. What the plan has left, most important first:

1. The native `Realtime` rooms, `Hub` and `WsConn`: callbacks on a snapshot, 256-connection
   broadcasts, close against send; an abstract room as their specification.
2. `Migrations`: `Once` (winner, losers, failure and reset) and the migrator over
   transactional and non-transactional backends; abstract: recorded iff applied.
3. `Session` and `RateLimit`: store operations of concurrent requests, rotation,
   revocation, expiry, eviction.
4. `Router`: the static index and the linear scan against a reference precedence, as
   pure operators over all small route tables.
5. `TursoBaton`, `Idempotency`, outgoing fetches of a Worker.
6. Proofs: an abstract server as the specification of `HttpServer`, a per-message
   specification of the queue dispatches; mutual exclusion and single application in `Once`.
