# XTokenHub in TLA+

XTokenHub is a gateway in front of language-model vendors: it authenticates a
client, chooses a channel (a vendor account), forwards or converts the request,
relays the answer, logs what it cost, and shows all this live on a dashboard.
Beside the gateway it keeps a library of memories for agents. This directory
models the parts of the server whose correctness depends on interleaving,
failure, order or arithmetic, checks the models with TLC on small instances, and
proves the most important properties with TLAPS for every instance.

Contents: [inventory](#inventory) - [modules](#modules) - [correspondence](#correspondence) -
[runs](#runs) - [findings](#findings) - [also seen](#also-seen) - [fairness](#fairness) -
[proofs](#proofs) - [abstractions](#abstractions) - [not modelled](#not-modelled) - [plan](#plan).

To run: `tlc -config MCExecutor.cfg MCExecutor` (each cfg names its bounds),
`tlapm ExecutorProofs.tla`.

## Inventory

The server is one Go process over one SQLite database. Requests are goroutines
of the HTTP server; background tasks, a bus with a consumer per subscription,
and two goroutines per WebSocket client run beside them.

| Component | State it keeps | Operations | Talks to | Hard because | Correct when | Status |
|---|---|---|---|---|---|---|
| Gateway executor (`gateway/executor.go`, `provider/client.go`) | per request: candidates, the one being tried, the attempt's log row, whether the client has been written to | Handle, handleNonStream, handleStream, finish | channel and group tables, upstreams, log table, bus, throughput | failover after failures of every kind, clients that leave, streams without a timeout, settings edited meanwhile | one answer and one row per request, in agreement; nothing after the first byte; no work for a client that left | modelled |
| Candidate selection (`gateway/selector.go`) | none | SelectCandidates, upstreamProtoFor, weightedOrder | executor | random order, weights of 0 and below, unprobed channels | only usable channels; the load follows the weights | modelled |
| SSE splitter and stream relay (`gateway/sse.go`, `executor.go`) | a partial line, the data of an event | Write, Flush, the relay loop | upstream, converter, client | the network cuts anywhere; the upstream breaks off; the client leaves | what the client gets does not depend on the cuts | modelled |
| Stream conversion (`provider/convert_stream.go`) | open blocks or items, tool calls, what was said | Feed, Finalize of three converters | relay | calls and text alternate; three grammars of events | text and calls once, in order, in well-formed events | modelled |
| Usage parsing (`provider/usage.go`) | tokens reported so far | Feed, estimate | relay, pricing | usage may come late, in parts or never | output is never recorded as nothing | partly |
| Live throughput (`gateway/throughput.go`) | sliding window, contributions of sessions | StreamBegin, StreamUpdate, StreamFinish, Add, rotate | relay | corrections larger than what is left in the window | tokens counted once; the rate settles to 0 | modelled |
| Request log and statistics store (`repository/`) | `request_logs`, `daily_*_stats`, the status columns of `data_settings` | RebuildDay, BackfillAll, DeleteBefore, UpdateAggStatus, UpdateCleanupStatus | the tasks below | COUNT and transaction are two statements | see the next rows | partly |
| Daily aggregation (`aggregation/aggregate.go`) | watermark, `runMu` | Run, ensureBackfill, TickOnce, RebuildAll, RebuildRange | store | three callers, midnight, crashes, late rows | sealed days exact; every row counted in the end | modelled |
| Retention (`cleanup/cleanup.go`) | pass in progress, last run | runIfDue, Trigger, delete loop, finish | store | runs unsynchronised with aggregation; partial batches | deletes what is old, all of it, nothing of today | partly |
| Cost recomputation (`service/cost.go`, Recompute) | scan position, `postRecompute` | per-row update, then a rebuild | store, aggregation | interrupted half-way; runs before main has wired it | aggregates agree with the rows again | partly |
| Event bus (`eventbus/eventbus.go`) | subscriptions, a queue and a counter each | Subscribe, unsubscribe, Publish, consume, dispatch, Wait | gateway, hub | snapshot taken before the sends; a full queue; quit against queued events | order kept, nothing lost once accepted, counter exact | modelled |
| WebSocket hub (`ws/ws.go`) | registry, one bounded channel per client | ServeHTTP, Broadcast, both pumps, unregister, Close | bus, clients | either pump may go first; a channel that others send on is closed | no gap in what a client gets; no panic; everything cleaned up | modelled |
| Live list (`frontend/src/utils/transform.ts`) | rows of the dashboard | mergeLiveEvent | hub | two event types over two queues | one row per request, done iff its completion arrived | partly |
| Memory library (`service/memory.go`, `repository/memory_repo.go`) | memories, full-text index, namespaces, edges | Add, Update, Forget, Supersede, AddLink, RemoveLink, BatchMoveNamespace, namespaces | agents, console, classifier | each call is several statements without a transaction around them | index and rows agree; a superseded memory has its successor and its edge | partly |
| Automatic links (`service/memory_autolink.go`) | edges made by the system | autoLink, refreshAutoLinks, RebuildAutoLinks | library | delete and remake beside what users link | what users linked stays | modelled |
| Memory classifier (`service/memory_classify.go`) | the lock, a status in the settings | Start, Run, ResetStale | model upstream, library | copies read, seconds pass, whole rows written; crashes | the status tells the truth; a job ends; nothing else is changed | modelled |
| Agent interface (`handler/mcp`, `handler/memory`, `handler/admin/memory.go`) | none | which calls there are | library | any order, at once | see the library | partly |
| Pricing and peak window (`provider/pricing.go`, `model/model_price.go`, `model/peak_window.go`) | none | index and match of names, parse of the public table, rates of an hour, bill | executor | aliases, tiers, holidays, two currencies | each token is paid once, at the rate of its hour and size, by the row that stands for the model | partly |
| Price table service (`service/cost.go`) | prices, exchange rate, their two caches | create, update, delete, Sync, billing settings, cache refill | store, public table | refill against write, failed refills, two admins | caches current; prices set by hand stay | modelled |
| Session headers, rewriting rules, holiday calendar (`service/session_header.go`, `reasoning_rewrite.go`, `holiday.go`) | tables and a cache each | CRUD, refill, synchronisation | executor | the same | caches current | modelled |
| Channel, key and custom-model administration, probe (`service/service.go`, `key_service.go`, `custom_model.go`) | rows | Create, Update, Delete, Probe | vendor | row read, seconds pass, whole row written | what is deleted stays deleted | partly |
| Balance (`service/balance.go`) | results with an expiry | Balances, invalidate | vendor | in-flight queries | see [also seen](#also-seen) | partly |
| Request and answer conversion, key check, forecasts, configuration, migrations, handlers, front end, packaging | rows or none | field mappings, CRUD, decoding, rendering | - | nothing interleaves | - | [not modelled](#not-modelled) |

How they interact, along one request: the handler calls `Handle`, which
publishes `request.started`, reads the channel table, tries candidates, relays
the answer through splitter and converter, reports tokens to the throughput,
prices the row from the caches, inserts it and publishes `request.completed`.
The bus queues each event for the hub's subscription of its type; the hub
broadcasts it to the dashboards. The aggregation task folds rows into days,
behind a watermark that seals them; retention deletes rows by age; the
recomputation reprices rows and asks the aggregation to rebuild. The last three
know nothing of each other except through the tables. Admins edit the tables the
gateway reads, through services that keep a cache of them. The memory library
shares the process and the database but no row with the gateway; its classifier
is a client of the vendors.

`PROJECT.json`, `hazards`, lists what can go wrong at which line and which
property watches it.

## Modules

```
StatsStore            the tables                 Selector          who may serve a request
  Aggregation           the watermark task         Executor          a request's life
  Cleanup               the retention task           GatewayContract   what it promises (abstract)
    LogLifecycle          all on one database        ExecutorProofs
      LogLifecycleProofs                         WeightedOrder     the weighted shuffle
                                                   WeightedOrderProofs
EventBus              queues and consumers       WsHub             registry and pumps
    LiveMonitor  = EventBus + WsHub + gateway + dashboard
      LiveMonitorProofs (of the bus, and of the whole)

StreamConverter       the three converters       MemoryStore       tables, statements, transactions
  SSESplitter           bytes to payloads          MemoryService     the calls of agents and console
    StreamRelay           relay + Throughput       MemoryClassifier  the background job
      StreamRelayProofs                              Memory            both, failures, restarts
Throughput            the sliding window               MemoryProofs
Pricing               the bill, twice
  ConfigCaches          tables and their caches
    CostService           prices, exchange rate
      SettingsServices      headers, rules, calendar
        Directory             channels, keys, models, balances
          Configuration         all of them, time, failures, restarts
            ConfigurationProofs

Sums                  least, greatest and sum, as the proofs of StreamRelay, WeightedOrder
                      and Configuration need them
```

`LogLifecycle`, `LiveMonitor`, `StreamRelay`, `Memory` and `Configuration` compose
the components above them. `Executor` is shown to implement `GatewayContract`;
`Pricing` states each bill twice, as the code computes it and as a reader of the
price table would work it out. Each `MC*` module instantiates one of them for TLC.

## Correspondence

`PROJECT.json`, `map`, gives the lines of every definition. In outline:

**StatsStore.** A row is a request id with the moment it began (`at`), the
request's stage (`phase`) and whether it has a cost (`priced`). The sums of an
aggregate row are abstracted to the set of rows they are sums of (`ids`) and
those of them that had a cost. Time is a day and a tick within it, so that a
retention cutoff falls inside a day as `AddDate(0,0,-n)` does.

**Aggregation.** `runMu` and, per caller (ticker, settings page,
recomputation), a program counter `job`. `TickOnce` enters the loop over
yesterday and today; `CountDay`/`WriteDay` are the COUNT and the transaction of
`RebuildDay`; `Watermarked` is the decision in `tickLocked`; `Seal` is
`UpdateAggStatus`; `Backfill`/`MarkAll` are the two statements of `RebuildAll`;
`AggError` is any failing statement (`return err`, mutex released by the defer).

**Cleanup.** `RunIfDue` and `Trigger` start a pass with a fixed cutoff,
`DeleteBefore` is one batch, `Finish` is `finish`. Any statement may fail.

**LogLifecycle.** `Accept`, `Complete`, `CreateError` are what the gateway does
to the table. `StartRecompute`, `RecomputeRow`, `EndRecompute` are Recompute and
its `postRecompute`. `Clock` moves time; `Crash`, `Restart`, `Wire` are the
process's death, `main`'s start and the point where `main` has set
`postRecompute` and started the tasks.

**Selector, WeightedOrder.** `Usable` is the filter, `SortKey` the order,
`SelectCandidates` the set of sequences the shuffle may return; `WeightedOrder`
is the loop of the shuffle with `rand.Intn` as a free choice, which justifies
"every order within a tier" in `Selector`.

**Executor.** `phase` is the place of a request in `Handle`. `ListEnabled` and
`Select` are the two reads of tables that an administrator (`EditChannel`,
`EditGroups`) changes at any time. `Send`/`SendFails` build and send;
`AttemptFails`, `UpstreamRefuses`, `ConvertResponseFails`, `RespondNonStream`,
`Commit`, `StreamEnds` are what the upstream may do to the attempt;
`NextCandidate` is what follows a failed one; `LogNonStream`, `LogStream`,
`Exhausted`, `NoCandidate` call `finish`. `tried` is history: the candidates an
attempt has been made with, in the order of the attempts. A success is written first and logged
afterwards, a refusal the other way round, as in the code. `gone` is the
request's cancelled context.

**EventBus.** `PublishBegin` is the snapshot under the read lock, `CountIn` is
`pending.Add(1)`, `Send` the non-blocking send with its default branch,
`Take`/`Handled` are receive and dispatch (with the deferred `pending.Done`),
`SeeQuit`/`Return` the two selects of the draining consumer, `WaitBegin`,
`WaitOne`, `WaitEnd` the body of `Wait`.

**WsHub.** `BroadcastBegin`..`BroadcastEnd` is `Broadcast` under the read lock,
client by client; `Leave` is `unregister` and `conn.Close`; `ReadPing`,
`SendPong`, `ReadFails` are `readPump`, `WriteFrame`, `WriteFails`,
`SeesClosed` are `writePump`; `Forget` and `HangUp` are `Close`.

**LiveMonitor.** The handler that `AttachBus` subscribes for each type is one
caster of the hub. A request publishes its completion after its start.
`mergeLiveEvent` is the front end's reducer, `rows` what it has made of the
events written to a client (`Write`): the dashboard merges them in batches, event
by event.

**StreamConverter, SSESplitter.** A converter is a record (`NewConverter`) and
`Feed`, `Finalize` are its methods as functions of it; the events written are
its `out`. A text is the sequence of its pieces. The splitter works on a line
gathered from "bytes" (parts of a line that are cut no further), and
`lineYields`/`flushYields` are the calls of `onData` a step makes.

**StreamRelay.** `Read` takes any allowed number of bytes from the wire,
`WriteLine` is one round of the loop in `SSESplitter.Write`, with the callback:
feed the converter, write, report to the throughput. `ReadEnds` is EOF or an
error, `WriteFails` a passthrough's failed write, `Flush`, `Close`,
`FinishSession` what follows the loop, in the order of the code and its defers.

**Throughput.** One operator per method, each of which holds `t.mu`; `rotate` is
the ticker's. `StreamRelay` calls them where the code does.

**MemoryStore.** One operator per repository method: one statement or one
transaction, hence one step. A memory's id is its position in `row`; title,
kind and tags travel with the content.

**MemoryService.** A call is a record `op[a]` with a program counter, the row's
copy it holds (`m`) and what is left to do. Each repository call is a step, named
for it: `FindDuplicate`, `Ensure`, `Create`, `GetForUpdate`, `Save`, `GetOld`,
`GetNew`, `MarkSuperseded`, `AddSupersedesEdge`, `Recycle`, `FindRelated`, ...
Between two steps other calls and the job go on; `CallFails` is a failing
statement or a cancelled context at any of them, `AutoLinkFails` the failures
that automatic linking swallows.

**MemoryClassifier.** `StartJob` is `Start` with `TryLock`, `Configure` to
`FinishJob` are the stages of `run`; `Ask` is a batch sent and any answer to it;
`EnsureAssigned` and `Assign` are the two statements per assignment of
`applyClassify`; `ResetStale` runs at start.

**Memory.** Both over one store, with `Fault` (a repository call fails), `Crash`
and `Restart`. `torn` and `lost` are history: pairs whose edge was never
written, and a job status that could not be.

**Pricing.** `IndexPrices`, `MatchPrice`, `ParsePricing`, `NewPeakWindow`,
`IsPeak`, `Rates`, `SplitInputTokens`, `Calculate`, `Cost` follow the functions
of these names (`Turns` are the entries in the order the two loops of
`IndexPrices` offer their keys, `put` keeps a key that is taken); `BookRow`, `BookRate`, `BookCost` define the same bill without
an index, from the rows. The book is the table as `Rates` and its comments read it
(`model_price.go:72-75` and `85-86`): a cache rate that is not set for the hours off
peak is the input rate of those hours. The comment of the columns
(`model_price.go:32-33`) makes it the peak rate; this reading is `Documented`, and
the two disagree ([findings](#findings), 4).

**ConfigCaches.** `cache[k]` is a cache with its flags, `filling[l]` the refill
that holds lock `l`: `BeginFill` is the query, `EndFill` the assignment, and an
invalidation waits for the lock as in the code. `Age` is the time to live.

**CostService, SettingsServices, Directory.** A call of an admin or a job is
`calls[c]`: it validates on what it read when it began, writes in a later step
and invalidates in another. `Inserted` applies the column default that replaces a
zero status; `UpdateRow` is an UPDATE of every column; `WriteProbed` writes back
the row that `Probe` read.

**Configuration.** All of it, with failing statements and crashes. The services
share no state, so a behaviour is about one area (`area`).

## Runs

| Run | Instance | Shows |
|---|---|---|
| `log_lifecycle` | 1 row, days 3..5 of 2 ticks, both retention modes, `max_days` 0 and 1, rebuilds of everything and of one day, 1 fault (1.49 M states) | aggregates behind the watermark are exact, never unsealed, and changed by nothing but a rebuild somebody asked for; retention is complete and never touches today |
| `log_live` | 1 row, no retention, recomputation of all and of missing costs, 1 fault (114 k) | every logged row is counted in the end; repriced sealed days end with exact costs if nothing failed |
| `executor` | 2 channels over 4 settings, a group of 2 models, 1 request of 4 kinds; beside it the shuffle of a tier of 3 channels with weights -1..3 (408 k) | one answer, one row, in agreement; every candidate tried in order before giving up, none twice; abandonment; the abstract contract; requests end; the shuffle draws in proportion |
| `event_bus` | 3 publishers, 1 subscription, queue of 2, one Wait (200 k) | order, exact counter, Wait's promise, accepted events are handled |
| `live_monitor` | 2 requests, 2 event types, 1 client, queue and buffer of 1 (722 k) | no gap and publication order from gateway to client, right live rows, no broadcast on a closed channel; however a connection ends, its pumps end and its client is forgotten |
| `live_panic` | the same | finding 1 |
| `memory` | 2 stored memories and one more, 2 agents, 2 namespaces, 2 calls or jobs, batches of 1, 1 failing statement and 1 crash (875 k) | index and rows agree, supersessions keep successor and trace, users' edges stay, the job's status is true and every job ends |
| `memory_classify` | the same | finding 2 |
| `stream_relay` | 1 stream of 7 pairs of protocols over up to 4 scripts each, reads of 1, 2 and 5 "bytes", data on one or two lines, one other request, window of 2 (442 k); the scripts let the arguments of two calls alternate, some come before the announcement, and tear a payload | what the client gets is what the upstream said, framed as its protocol wants it, however it is cut and wherever it breaks off; its row has its tokens; the tracker counts tokens once, through corrections in both directions, and its rate settles |
| `configuration` | 5 spellings of a model, prices in yuan with a window and in dollars with a threshold, 2 callers with 2 calls, 1 fault or crash, 29 bills (321 k) | caches are current, bills are right, prices by hand and deletions stay, and what a failed read has served for current does not last |
| `off_peak` | the same | finding 4 |
| `rule_stale` | the same | finding 3 |

Why the bounds are enough. *Log*: the interesting distance is `sealLag` = 2
days, and three days let a day be written, roll out of the window and be sealed,
with the clock moving inside every pass; a row is treated independently of the
others everywhere but in the batch size and in a partly purged day. With one row
and batches of one, the full batch and the batch after it both occur.
*Executor*: requests share nothing but the tables, and the tables are edited by
an actor who may do anything between any two steps, so one request is enough for
its own properties; two channels times two members of a group give up to four
candidates, hence a first, a middle and a last one. The proofs remove both
bounds. *Bus*: three events overflow a queue of two, and make "order" say
something between a full and a drained queue; the subscriptions do not interact,
and are unbounded in the proofs. *Live*: buffer and queue of one make both
overflow with three events. A second client would only show that clients do not
interact, which holds by the indexing; two casters do interact through the
registry lock and are both there. *Memory*: every hazard is between two actors
(two calls, or a call and the job) that hold copies of one row, and `MaxCalls` =
2 with a fault and a crash covers each pair; the proofs remove the bounds from the
safety properties. *Relay*: a read of 1, 2 or 5 bytes puts a cut at every place
of an event and makes one read span several; the scripts contain a repeated
announcement of a call, text after a call, usage in the middle, at the end and
never. *Configuration*: staleness needs one write, one refill and one failure;
two calls let a second write fall between the first and its invalidation. The
instants cover both sides of a window's edge, a holiday and a makeup workday,
and the usages both sides of the threshold and both vendors' counting.

`CHECK_DEADLOCK FALSE` is set where the system may stop: all requests done, all
events handled, all calls returned. The log models never stop (the clock stops
at `LastDay`, a tick is always possible), so there it is checked.

## Findings

Where a comment or a test of the repository says something the code does not do,
and a run shows it:

1. `live_panic`: "a client that breaks off does not affect the others"
   (`ws_test.go:197`). The pong is sent on a channel that the client's writer may
   have closed (`ws.go:190`); the panic ends the process.
2. `memory_classify`: "only changes the namespace fields, an explicit namespace
   has precedence" (`memory_classify.go:47-48`). The job saves the whole row it
   copied before asking the model: an edit, a deletion, a supersession or a
   namespace chosen meanwhile is undone.
3. `rule_stale`: "an index in memory, invalidated on writes"
   (`reasoning_rewrite.go:137`). A reload that fails uses up the invalidation, and
   this cache has no time to live: the old rules are served until the next
   write.
4. `off_peak`: "an off-peak rate that is not configured (0) falls back to the peak
   rate", of all four of them (`model_price.go:32-33`). `Rates` does so for input and
   output only; an off-peak cache rate of 0 becomes the off-peak input rate
   (`model_price.go:94` and `85-86`), which may be far from the peak cache rate.

## Also seen

Disagreements that are stated in a module but in no run (adding the property
to the cfg of the module's run, with the bound given, gives the trace):

* `LogLifecycle!SealedRowsNeverShrink` (2 rows, `MaxRebuildDays` 2, `RebuildDays` {1, 2}): "a sealed row
  no longer changes, retention does not affect the totals" (`aggregate.go:4-5`). A
  rebuild of a day which retention has purged in part replaces the sealed row by
  the sums of what is left. In the same way "a source day without details is not
  touched, so the method may be called for any day" (`daily_stats_repo.go:78-80`)
  does not hold when retention deletes the last rows of the day between the COUNT
  and the transaction of a rebuild: the row is emptied. `SealedUntilAsked` shows what
  remains of the promise, that the ticker never does this to a sealed day.
* `LogLifecycle!UnchangedMeansConsistent`: "with no change the aggregates still
  agree" (`cost.go:571`). A recomputation that ended half-way has changed rows
  without a rebuild, and the next one finds nothing to change and skips it too.
* `Executor!FailsOverBeforeBytes`: "a failure before any byte was written: next
  candidate" (`executor.go:137`). An answer that cannot be converted ends the
  request.
* `Executor!CandidatesBuild`: "channels that would only fail at run time are
  excluded" (`selector.go:22`). An unprobed channel is a conversion candidate for
  its own vendor's protocol, for which no request can ever be built.
* `LiveMonitor!StartedFirst`: "the order of started and completed is not reversed"
  (`eventbus.go:3-4`). It is one queue per subscription, and the hub subscribes
  once per event type. `LiveRowsRight` shows that the dashboard copes.
* `StreamRelay!UnreportedEstimated`: "usage the upstream did not report is
  estimated" (`README.zh-CN.md:76`). A messages stream passed through and cut after
  `message_start` has reported 0 output tokens, and 0 is recorded.
* `StreamRelay!SequenceIncreasing`: the sequence numbers of a responses stream
  grow (`convert_stream_test.go:413`). The closing events of the message are built,
  and numbered, before those of the calls, but all are written in the order of
  their items (`convert_stream.go:760-800`): where a call was announced before the
  message, the numbers the client reads go down.
* `Memory!ToldEdgesStay` (`MaxCalls` 3): an edge a user asks for that the system has already made
  stays the system's (`MemoryLinkRepo.Add` answers with the existing one) and goes
  at the next refresh, although users' edges are to be left alone
  (`memory_autolink.go:5-6`).

Behaviour met while modelling, which no doc promises otherwise:

* Streams: an upstream that ends without an event leaves a messages client a
  `content_block_stop` without a start and a responses client without
  `response.created`; a messages client gets no text after the first tool call;
  arguments that come for a call after another one has been announced are sent to
  a block that has been closed (`convert_stream.go:475-486`); `MessagesFramed` asks
  that a call's arguments are inside its block until another block is started.
* Memories: two calls that supersede each other's memory leave neither active;
  two Adds of the same content at once both create it; `Save` writes the access
  counter it read; moved and classified memories keep their old automatic links;
  a namespace removed under a call in progress comes back on its rows only;
  the automatic relinking knows the system's edges by `created_by` = 'system' only,
  a name that `key_service.go` lets a key carry, whose edges it would then remove;
  the classifier accepts the reserved name `all`; RenameNamespace does not trim
  the new name.
* Settings: `Save` of GORM inserts a deleted price, header or rule again; an
  UpdateRule whose re-read fails returns without invalidating; a status of 0 given
  on creation becomes the column's default 1 (`channel_repo.go:26`); a probe writes
  the row as it was read; a balance fetched with the old key may be cached after
  the invalidation; a failed LoadCache leaves the calendar empty until the next
  synchronisation, and one whose admin has left leaves it stale (`holiday.go:154`);
  `validateRates` does not look at the cache rates above the threshold; an update
  of a key can revert a concurrent disabling.
* Shutdown: `main` calls `bus.Wait` after `hub.Close` has removed every
  subscription, so it waits for nothing (`main.go:337-338`). A `Wait` whose
  subscription is closed meanwhile may block for ever (`WaitReturns` states exactly
  that exception).

## Fairness

*Log* (`LogLifecycle!Fairness`): weak fairness of the pass that holds the mutex
(a running goroutine goes on), of restart and of `main`'s wiring; strong
fairness of the ticker's `TickOnce` and `EnsureBackfill`, because the mutex is
taken and released by others again and again, and Go's mutex hands over to a
waiter that has starved for a millisecond. Faults are bounded (`MaxFaults`).
Nothing is assumed of gateway, retention, recomputation or clock.

*Executor*: goroutines are scheduled; a non-stream attempt ends because its HTTP
client has an overall timeout (`client.go`); a cancelled context ends whatever
waits for the upstream. No upstream is assumed to answer or to end a stream, and
no client to leave.

*Bus*: publishers, consumers and handlers that can run do. Nobody has to publish,
subscribe, unsubscribe or wait; once `unsubscribe` has been called it finishes.
In `LiveMonitor` the handler's fairness is that of its own steps, and a pump is
fair when it is past its blocking read or write or its connection is closed (the
ticker of `writePump` makes sure there is a write to fail). A client that keeps
its connection open without reading is not assumed to do anything.

*Memory*: weak fairness of the job's own steps: its questions to the model have a
timeout (`NewClassifierCaller`), its batches a bound. Calls need not go on.

*Relay*: weak fairness of the ticker of `Throughput`. No upstream has to send, no
request to complete.

*Configuration* (`Configuration!Fairness`): weak fairness of the *short* time to live
of prices and exchange rate, the one a failed read leaves (ten seconds, `cost.go:38`), of the
end of their refill (a read of the database ends), and strong fairness of the
invalidation a call owes, because Go's mutex hands over to a waiter that has starved
for a millisecond. Nothing is assumed of the normal time to live: if a failed read
were served for that long, `StalenessPasses` would not hold, and does not in its
mutant. No caller has to go on before it writes, no cache has to be read.

## Proofs

TLAPS checks, for every value of the constants that satisfies the named
assumptions (`CalendarAssumption`, `ExecutorAssumption`, `BusAssumption`,
`LiveAssumption`, `MemoryStoreAssumption`, `BillAssumption`, ...):

| Module | Theorems | Argument |
|---|---|---|
| `LogLifecycleProofs` | `TypeCorrect`, `SealedLeftAlone`, `Sealed`, `Monotone`, `RetentionComplete`, `CostsSealed` | `IInv` adds to the properties: the mutex is held by the one worker in a pass (`LockHeld`); that pass took today's date, or yesterday's at the first tick after midnight (`BaseIsFresh`); an open request began today or is a late one of yesterday (`OpenIsFresh`); the watermark has left the window that gets new rows (`WatermarkBehind`); and how far a pass has made days exact (`PassProgress`). Exactness alone is not inductive: it needs to know that a day about to be sealed has been rebuilt since its last row, which `PassProgress` and `OpenIsFresh` say together. `SealedLeftAlone` adds where the ticker is (`TickerInv`): it never rebuilds a range, its rolling loop is ahead of the watermark, and it rebuilds everything only while nothing is sealed; so every aggregate it writes is ahead of the watermark (`WritesAhead`). `Monotone` follows from `PassProgress` (a pass that seals started below its goal) and `WatermarkBehind`. `RetentionInv` relates a pass in progress to its cutoff, so that a last batch that was not full leaves nothing behind. `CostInv` follows a recomputation: the cost of a sealed day is exact, or the rebuild that will make it so is owed, because a row of its range has been changed, or the rebuild has not come to that day yet; a row that is repriced while a rebuild reads its day keeps the debt open. |
| `ExecutorProofs` | type correctness, the five safety invariants, the two action properties, and `ContractKept` (refinement of `GatewayContract`) | `IInv` contains `Life`, which says for each phase what has been answered, logged and asked. An action of one request leaves the others alone (`Elsewhere`, `Frame`), so each action is examined for its own request only. `EveryCandidateTried` needs `Line`, which says that `tried` holds the candidates before the current one, and the current one itself once an attempt has been made with it; giving up is the step that finds no next one after an attempt. `NeverTheSameUpstream` rests on the lemmas that `SelectCandidates` returns a sequence without repetition. |
| `LiveMonitorProofs`, the bus | `BusConserves`, `BusOrders`, `BusCounts`, `BusWaits` | `Conserved`: accepted = handled + in hand + queued, as sequences. `PendingExact` needs a cardinality lemma for the publishers between count and send. `PublishOrder` is inductive with `Once` (an accepted event's publisher is past that subscription) and `Returned` (who had returned stays returned). `Owed` says where what `Wait` found is; with the exact counter, 0 means that nothing is underway. |
| `LiveMonitorProofs`, the whole | `ChannelsOpen`, `NothingMissed`, `RowsStayRight` | An event is followed from hand to hand: the bus's order says in which order a handler gets the events of its type; a client's broadcasts are handled events, or the one in hand if it has been visited (`Handed`), in that order (`CastInOrder`); its channel, its writer and what it got are a prefix of them up to where it was found slow (`Delivered`, `SendFifo`, `GotFifo`). A channel is closed only under the write lock, when no broadcast is under way, or by the broadcast that found it full. `LiveRowsRight` is inductive by itself; it does not depend on any order. |
| `ConfigurationProofs` | `Current`, `NoRowReturns`, `ManualPricesStay`, `BillsByTheBook` | Between a query and its assignment a refill holds what the table said. `CInv` says that what a refill in progress will store is what the table says now, or some call that has written still owes the invalidation, which waits for the lock the refill holds; so the cache, too, is current or its invalidation is owed. `NoRowReturns` needs to know which calls there are where (`Numbered`): ids are numbered among the directory's own calls. `BillsByTheBook` has two halves. `CostIsBook` is about the algorithms alone: for every price table, calendar, usage and hour, the index built by two rounds of "who comes first keeps the key" answers a name with the row the book names (`FirstComes`, `IndexKeeps`, `MatchIsBook`), the nested rates equal the first amount configured (`PeakAgrees`, `RatesAgree`), and the two sums are one. `PInv` is about the calls: the table has one row for a model and what is about to be written keeps it so, because an edit never changes a row's model, two edits of a row agree, ids are not reused, and a synchronisation leaves out the models set by hand. With `CInv` the cache is of that table. |
| `StreamRelayProofs`, the tokens | `TokensCountedOnce`, `OutputIsRecorded` | `StreamsInv` says what a converter has been told (sequences of pieces, a natural number or nothing for the usage) and that a row records what the converter says; it needs that opening, tool events, text and the closing events only write (`Same`), and that the splitter hands over payloads of the script or torn ones. A payload's tool events are folded over the converter: `FoldSteps` shows that the library's fold is a run of single steps, `FlatType` what its concatenation returns. `TrackerInv` is `Counted` with the types; each step is a fact about sums: a value changes, comes in as zero or goes, and a window moves by one. |
| `StreamRelayProofs`, the framing | `ChatIsFramed`, `MessagesAreFramed`, `ResponsesAreFramed`, together `StreamsAreFramed` | `FramesInv`: until its closing events a stream is open (`ChatOpen`, `MessagesOpen`, `ResponsesOpen`), from then on complete (`ChatClosed`, `MessagesClosed`, `ResponsesClosed`). What is open relates the converter's fields to what it has written: a call in the map has been announced at its number, the number of openings is the next number, the open block is the last opened and the only one not closed (`OpenBlocks`), what is remembered of an item is what its deltas have said (`Spoken`). Each of these is a fact about counting and about concatenation over a sequence to which an event is added (`Plus`); a converter writes one event or two at a time. The closing events of the responses are the concatenation of one short sequence per item in the order of the items (`Closers`), which is followed item by item. No assumption on the payloads is needed: a call may be named again, arguments may come before or without an announcement, text may come at any time. |
| `StreamRelayProofs`, what is said | `StreamsAreFaithful`, `ReasonIsKept` | `HeardInv` has two halves. The first is the splitter's: after x bytes of the wire, that is `i` whole events and `m` bytes of the next, it has handed over the payloads of those events and holds what it should of the next (`Through`). One byte keeps this (`OneByte`, `ByteStep`), so do a chunk without an end of line, a chunk with one and the closing flush (`Quiet`, `WriteThrough`, `FlushThrough`); what a client is owed follows from the number of bytes read (`HeardUpto`), wherever reads cut them. The second is the converter's: what it has written is what is owed for the payloads fed to it (`Heeds`: the text, the arguments of each call that has been announced, the last reason). A payload adds to both sides the same pieces in the same order (`FeedHeeds`), a torn one adds to neither (`TornHeeds`), and the closing events add to what was said only the reason, that of the upstream's last word (`EndFaith`). No assumption on the payloads is needed here either. |
| `WeightedOrderProofs` | `LoadFollowsWeights` | The running sums of weights grow, so that the numbers selecting a position are an interval as long as its weight (`PickedIn`, `Shares`); what is left and what is drawn are apart and cover the tier (`OrderInv`). |
| `Sums` | lemmas | A set of natural numbers has a least element, a bounded one a greatest. The library's sum folds a set in an order it does not tell. `SumOnAny` shows that any element may be taken out first, by induction on the size of the set; `SumUpdate`, `SumGrow`, `SumOnInterval` follow. |
| `MemoryProofs` | `IndexRight`, `SuccessorExists`, `TraceKept`, `JobTold`, `UserEdgesSafe` | The rows alone say too little: any call may save a copy it has held through any number of steps of others. `IInv` therefore says of every copy that may still be saved (`OpSound` by the place of the call, `JobSound` for the classifier's) what it says of a row: `Good(i, m)`, a successor that exists and a trace of the supersession (`Linked`: an edge, a pair in `torn`, or a call about to write the edge). It is inductive because no step removes rows or traces (`Stays`): the one step that removes an edge writes it down in `torn`, and so does what cuts off a call before its edge. The classifier's copies are sound because they are of active rows (`Sane`). `JobTold` adds `JobTruth`; `UserEdgesSafe` is a property of single steps. No bound of the run is used: ids, calls, faults and crashes may be any number. |

The library's induction theorems take an operator as a parameter, which the
provers cannot instantiate. `Sums!NatRange` states induction over the natural
numbers with a set instead of an operator, and is proved from the theorem of
well-founded sets that takes one; with it the facts about sums could be proved for
every input. No theorem about a recursive operator is claimed.

Only model-checked: everything about liveness (`EventuallyCounted`,
`RequestsEnd`, `Dispatched`, `WaitReturns`, `CleanedUp`, `JobEnds`, `RateSettles`,
`StalenessPasses`), which is beyond the prover. Every invariant and every action
property of a passing run is stated by a theorem.

`BillAssumption` says what the program is started with and given: a price table
with one row for a model (the unique index), ids no higher than those given
(`ids` starts at 10), the types of a form, and a public price table that names a
model once (it is a JSON object), with no rate below zero and no threshold of
zero, for one of which the code would go on to the next. Token counts are natural
numbers. What `validateRates` refuses is not assumed. `StreamRelayAssumption` says
what a script of the upstream is: a finite sequence of payloads of the three
protocols, in any order and with any content; the sizes of reads are natural numbers.

## Abstractions

* **Time.** A tick is longer than a pass or a non-stream request:
  `Clock` lets a request of yesterday be open only during today's first tick, and a
  pass see at most one tick. The code gives passes no bound, and a stream has no
  timeout at all (`client.go:113`): one that is logged more than a day
  after the day it began on would be counted by no tick (a manual rebuild finds
  it). The window of `sealLag` days is exactly this assumption, and `SealedExact`
  and `EventuallyCounted` hold under it.
* **Sums** are sets of rows (StatsStore): two rows are never confused, a cost is
  there or not.
* **Bodies, tokens, error texts** are left out of `Executor`; a stream is relayed
  as a whole there, and event by event in `StreamRelay`. A candidate keeps the
  upstream protocol it will be written in, because it is a copy of a row that may
  change.
* **`SealedCostExact`** is claimed only without faults: see
  `UnchangedMeansConsistent` above for what happens with them.
* **Hub**: `unregister` and `conn.Close` are one step, the frame a writer holds
  stays in the channel until written (one more place of the buffer). The
  upgrade and JSON are left out. In `LiveMonitor` unsubscription is left
  to `EventBus`, whose steps only stop broadcasts earlier.
* **Handlers** that panic count as returned (`dispatch` recovers).
* **Live list**: trimming to a maximum, the session view and rows with id 0 are
  left out.
* **Retention**: header trimming and VACUUM change nothing that statistics read.
* **Streams**: a text is a sequence of pieces of one token each, JSON is two
  halves that may be torn apart; ids, names and constant fields are left out. The
  counts an upstream reports are natural numbers.
* **Memories**: what is similar is a relation (`Similar`) instead of a score;
  input that validation rejects is not offered; an Add names at most one memory to
  supersede and one to link. What comes first, in a batch, a page or the model's
  answer, is any order, because it depends on times of access; an assignment the
  model repeats word for word is saved once.
* **Prices**: four amounts make a rate; amounts are integers of the smallest unit
  and a bill keeps `Micro` parts of a dollar, so that rounding is one division.
* **Configuration**: a call reads and validates in one step, for what it reads is
  not changed by itself; forms offer a few values of each field.

## Not modelled

* **Conversion of requests and whole answers** (`provider/convert.go`): a mapping
  of JSON documents field by field, without state. Its effect on control, whether
  a request can be built, is `Executor`'s `RequestBuilds`; its data is what the
  repository's table tests are for.
* **Key check, forecast, model usage**: stateless checks of a row, and read-only
  arithmetic over aggregates.
* **Configuration file, database, migrations**: run once, before anything else.
* **Handlers, router, front end, packaging**: decode, call one service, render.
  What a handler validates before the call is part of the modelled operation; of
  the front end the live list is modelled.
* **Within modelled components**: search and ranking of memories and their access
  counter, parsing of usage in whole answers (`ParseUsage`), the vendors' balance
  formats and the cookie of one of them, read-only queries of the log.

## Plan

1. Shutdown: the order of `main`'s shutdown with the bus's `Wait`.
2. Completion rows without an id in the live list (`executor.go:651`).
