# A verification of the network-quality analysis agent

The repository holds two programs. A Python agent (`src/`) answers questions
about network quality ("did the RTT of Guangdong rise last night, and why?"): it
plans measurements, runs them against ClickHouse through a guarded tool runtime,
checks what the measurements show, and answers with claims that cite them. A Go
service (`biz/`, `router.go`) receives the callbacks of a work-order platform and
of Argos, its alarm system, and serves pages for tests; it also holds a client
of the agent. This directory has TLA+ models of the parts of both that decide
what happens, the TLC runs that check them on small instances, and theorems
about them that TLAPS checks for every value of the constants. Paths are
relative to the root of the repository.

1. Inventory of the system
2. Plan: what is done and what is left
3. The harness: `Investigation`, `Harness`, `HarnessClaims`, `HarnessProofs`, `RecipeProofs`
4. The tool runtime: `Invocation`, `ToolRuntime`, `ToolRuntimeProofs`
5. The queries on their threads: `Batch`, `QueryThreads`, `QueryThreadsProofs`
6. The sessions: `Sessions`, `SessionsProofs`
7. The alerts of the callback service: `CallbackData`, `AlertBook`, `OncallAlert`, `OncallAlertProofs`
8. Its pages, cache and proxy: `Pages`, `Gateway`, `GatewayProofs`
9. The client of the agent: `AgentClient`, `AgentClientProofs`
10. Runs, bounds and fairness
11. What is proved, and how
12. Where the code differs from what is said of it
13. What is not modelled

## 1. Inventory

### Components, their state and operations

| Component | Source | State | Operations |
|---|---|---|---|
| Evidence-driven harness | `src/harness/graph.py`, `nodes.py`, `state.py` | one `HarnessState` per request: task, round, plan, execution, verification, answer | `execute`; nodes understand, context, planner, executor, verifier, synthesizer; router `_after_verifier` |
| Evidence ledger | `src/harness/ledger.py` | append-only list of items per request, claims bound to items | `add_result`, `add_error`, `observed`, `has`, `bind_claim` |
| Query catalog and adapter | `src/harness/catalog.py`, `mcp_adapter.py`, `query_ir.py` | none of its own; one shared `ToolRuntime` | one handler per query: compile SQL, run it |
| Tool runtime | `src/runtime/tool_runtime.py` | per tool: circuit breaker; per runtime: idempotency store, audit list | `execute`, `register` |
| Checkpoints, execution ledger | `src/runtime/checkpoint.py` | Redis records that outlive the process | `get`, `put`, `put_if_absent` (no caller) |
| ClickHouse client | `src/clickhouse/client.py` | one driver client per process, with one connection | `execute`, the queries built on it |
| Sessions and chat API | `src/session/service.py`, `src/api/router/chat.py` | sessions and a list of them, in Redis or in memory | create, add message, list, delete, clear, chat |
| LLM gateway and router | `src/llm/` | provider list, one budget per harness run | `generate`, `generate_with_fallback` |
| MCP client | `src/mcp/client.py` | one subprocess per server, a pool of four threads | `call_tool`, `start`, `stop` (used by a benchmark script only) |
| Skill lifecycle | `src/skill/lifecycle.py` | versions of each skill with a status | register candidate, validate, approve, publish, roll back (called by tests and a benchmark only) |
| Cache | `src/cache/` | values with a TTL | `get_or_set`, delete (no caller outside the package) |
| Legacy agents | `src/agents/` | LangGraph state | kept for compatibility, not reached by the chat API |
| Knowledge, tools, tracing, evaluation, visualisation | see `PROJECT.json` | none that decides | I/O, scores, text |
| Callback service: alerts | `biz/handler/get_oncall_*.go`, `biz/util/common/metrics.go`, `biz/service/calculate_alert_task_res.go`, `biz/dal/` | tables `oncall_origin_record`, `alert_task`, `oncall_listen_alert_task`, with read replicas; the alarm metric | work-order callback, Argos card callback |
| Callback service: pages, cache, proxy | `router.go`, `biz/handler/dispose_handler.go`, `osgw_callback.go`, `idv_mock.go`, `alarm_callback_proxy.go`, `biz/util/common/tcc.go` | `listenerCache`, a process-wide map that listeners of the configuration platform TCC fill | the routes; constant pages, pages read from TCC, mocks of the disposal centre, the alarm callback relayed to another region |
| Go client of the agent | `biz/grpc_client/client.go` | one global client under a `sync.Once`; connections | `NewAgentClient`, `GetGlobalClient`, `Close`, `IsConnected`, `HealthCheck`, `Diagnose`, ... |
| Frontend | `frontend/` | presentation | shows a verdict and its claims |

### How they interact

A chat request appends its question to a session, awaits
`EvidenceHarness.execute`, and appends the answer to the session as it is then.
The graph's nodes run one after another on the event loop of the server. The
executor starts every query of a batch in a thread with an event loop of its own
(`src/harness/nodes.py:789`), where the catalog's adapter calls the shared
`ToolRuntime.execute`; the runtime runs the handler in yet another thread, which
uses the one ClickHouse client of the process. So the queries of a round, and of
all runs at once, share a breaker per catalog entry and one connection. The
results come back as ledger items. The LLM gateway is asked from understand,
context, planner, verifier and synthesizer, each time under a timeout, and every
answer is filtered by a guard. Telemetry watches and decides nothing.

The callback service shares nothing with the agent but the client library, which
no handler calls. Its handlers run at once in any number of pods and share only
the database, whose reads go to replicas that lag. The work-order callback saves
an order, raises a metric once per order and level, and keeps what is being
listened to; Argos turns the metric into an alarm and asks for its card, which
marks the alert as called back so that it is not raised again.

### Behaviours that are hard to test

- **Two deciders of one question.** Verifier and router each decide whether a
  run is re-planned, from different guards and from two reads of the clock.
- **A long sequence of legal steps.** Which query comes next depends on the
  outcomes of all before it; a failed one may be retried, skipped, or asked
  again by a branch that does not know of the failure.
- **Two readings of the ledger.** Facts cite the first observed item of a
  query, decisions read its latest item.
- **Proposals of a model** that may repeat, exceed the budget or depend on what
  never runs.
- **Interleaved calls** on one circuit breaker and under one idempotency key; and
  **threads** that share that breaker without a lock, and a connection that
  carries one query.
- **Crashes** between an effect and its record, **records** that are applied though
  their call was given an exception, or after its process has stopped; crashes between
  a session and its entry in
  the list, between the rows of an alert; records that cannot be written.
- **Timeouts** that abandon a thread which goes on to have its effect, holds its
  thread of the pool, and closes the connection another query uses.
- **Deletion, expiry, a change of store** while a chat awaits its answer.
- **Two statements with a gap**: count and insert of an alert, a lagging replica.
- **A cache filled by several listeners** in any order, while reads fail.
- **An error that only one of many waiters is handed** (`sync.Once`).
- **Termination** in spite of re-planning, retries, unmet dependencies, hanging
  threads.

`PROJECT.json` lists each at its line under "hazards".

### What makes the components correct

- The harness ends; it stays within its budgets; it does not ask what it knows;
  when it asks for another round there is something to ask; PASS means that
  nothing is left to ask; a claim cites what was really observed, and the
  latest of it.
- The tool runtime returns what happened: a success only when the handler had its
  effect, a recorded one only when it can be replayed; what it has returned under a
  key is not done again; a replay does not freeze a failure that may go away; breaker
  and audit agree with the calls. On threads: every query gets an item, and what an
  ended query left behind makes no later one fail.
- A chat's question and answer are in the session it was about, once and in
  order, unless that session was removed; a removed session stays removed.
- An alert is raised, is raised again only by a race, and is withheld only when it
  was answered; it has its order; a later delivery is not overwritten.
- A page shows what was configured; an alarm reported as taken was taken.
- Goroutines share one client, and none waits for ever.

## 2. Plan

Done, in this order: the harness with its ledger and its abstract contract (3);
the tool runtime with breaker and store (4); the alerts of the callback service
(7) and its pages, cache and proxy (8); the sessions (6); the queries on their
threads, which put the executor, the runtime's breaker and the driver's
connection together (5); the client of the agent (9); and the proofs (11).

Left, with what speaks for each:

- `QueryThreads` and `Harness` are two views of one executor, and meet in `Batch`, what
  the harness relies on: `QueryThreads` implements it, and `Harness` takes from it that
  each query of a batch has one final item; that a failed one is retryable or not is
  free in `Harness`. To compose the two modules themselves would mean to carry the data
  of the ledger through threads.
- The sessions and the pages have no abstract specification: `OnlyAppends` says of the
  messages what one would say, `EventuallyFresh` of the cache.
- The skill lifecycle, the MCP client and the cache have state and a protocol, but
  no caller in either program. They are worth a module when they get one.
- The LLM budget counts the calls that returned. No property of the harness rests
  on it.
- A proof of liveness is out of the prover's reach (11); every invariant, action property
  and refinement that a run checks is proved, and so is the bound on what a run, a call
  and a query have left to do.

## 3. The harness

`Harness.tla` is one execution of the graph. Its variables are fields of
`HarnessState` (`src/harness/state.py:22-53`): `task`, `round`, `plan`
(`plan.steps`), `evidence` (`execution.evidence`), `verification`, `claims`
(`answer.claims`); `pc` is the node LangGraph runs next; `pending` is the
executor's local `pending`; `late` says that `deadline_seconds` have passed since
`started_at`.

| Action | Code |
|---|---|
| `Understand` | `nodes.py` understand: the rule draft, perhaps replaced by the model's task with the draft's routing intents kept |
| `Context`, `ContextRaises` | retrieval, best effort; the synthesis of the model's JSON, which iterates over fields outside any `try` |
| `Planner`, `PlannerRaises` | `_steps` (the recipe), `_llm_plan` with its guard, the cut to the remaining budget, `round + 1` |
| `ExecuteStep`, `ExecutorDone` | `_execute_with_runtime`: the ready batch, the fallback to the first pending step, one item per step in plan order |
| `Verifier`, `VerifierFails` | facts, missing objectives, critic, the verdict |
| `AfterVerifier` | `_after_verifier` in `graph.py` |
| `Synthesizer` | `bind_claim` for each fact: a claim needs its items in the ledger |
| `Deadline` | time passes, at any moment |

A run starts from nothing: `create_initial_state` writes every key of the state,
so the checkpoint that an earlier question of the same session left under its
`thread_id` gives nothing to this one, and `execute` never resumes a run.
Negative budgets, which the metadata of a request could name, are excluded by
`BudgetAssumption`.

What is kept and what is abstracted:

- The recipe (`EarlyQuery`, `DrilldownQuery`, `RetryPlans`, `InitialPlan`) and
  the verifier (`FactsOf`, `Missing`, `VerdictOf`) keep every branch in its
  order.
- A result is reduced to what branches read of it (`Datum`): whether the rows a
  fact needs are there, whether a metric invariant is broken, the P95 of the
  first row with `None`, `0.0` and NaN told apart as the code's truthiness and
  comparisons do, the mean, and whether the first row names its ASN or prefix.
- A failure is `retryable` (none, timeout or transient) or `permanent`, which is
  all `_retryable` distinguishes.
- A text answer of a model is reduced to what its guard lets through:
  another task (`EnrichedTasks`), one proposed step (`LLMSteps`), an objective
  of the critic. Failure or timeout of a model is "the recipe stands".
- `HARNESS_VERIFIER_LLM_ENABLED` is taken with mode "always": mode "on_issues"
  calls the critic in a subset of these states.
- Prose, charts, trace entries and the rendering of SQL are left out: no later
  decision reads them.
- A batch's items are appended one per action. Nothing reads the list in
  between, and the code records them in plan order whatever order they end in,
  so only the order of the plan is modelled.

`Investigation.tla` is the abstract contract: questions are put at most
`Budget` times, what is known is not asked again, the answer cites only what is
known. `Harness` refines it (`KeepsContract`) under the mapping at the end of the
module. The one query that may be asked again is `query.ir`, whose text the
model writes anew each time.

Properties (each stated with the code it is about, in the module):

- `NeverRepeatsSuccess`: an answered catalog query is never asked again. Both
  readings of the ledger agree only because of it.
- `WithinBudget`: asked plus pending never exceed `max_queries`; no round beyond
  the first exceeds `max_rounds` (the first is run without looking).
- `ReplanIsActionable` (recipe mode): when the verdict is REPLAN, the planner has
  a step and does not raise. With the LLM critic it does not hold by design: the
  critic's objective may be one the recipe cannot serve, and an empty plan then
  sends the run to the synthesizer.
- `PassIsComplete` (recipe mode): PASS means nothing to ask or retry. It leaves
  out path questions outside the ASN part, where it is false, and holds for budgets
  of at least three queries (section 12).
- `ClaimsCiteLatest`: a claim cites observed items, of exactly its queries, and
  no later item of the query says otherwise.
- `BoundedRun`: `StepsLeft`, a number bounded at the start, falls with every step. A
  round is worth more than all that can happen in one, and a plan never exceeds the
  budget that is left.
- `NeverStuck` (proved, not in a run): a run that has not ended has a step to take.
- `EventuallyEnds`.

## 4. The tool runtime

`ToolRuntime.tla` is calls of `ToolRuntime.execute` for one tool on one event
loop. A step is the code between two awaits, so calls interleave where the code
lets them: at the store, in the handler, in the sleep between attempts.
`failures` and `opened` are the breaker's two fields (`opened_at` with the clock
reduced to "the recovery timeout has elapsed or not"); `store` is the
idempotency store; `puts` what each call has sent to it that is not applied yet;
`cached` what its lookup has read; `audit` the events of each call; `commits` counts
the effects of the handler under each key, which the code does not know.

A call of the Redis ledger is a request, its application and its answer, and each is
a step. A put that is on its way is applied (`Apply`) at some moment or never: before
its call hears of it, after the call was given an exception because the answer was
lost or late, after other calls have put theirs, after the process has stopped. A put
that returns has been applied; one that raises may have been. Likewise a lookup
reads (`Lookup`) before its answer is acted upon, and a put may be applied between.
The store in memory is written by `put` itself.

| Action | Code (`src/runtime/tool_runtime.py`) |
|---|---|
| `Reject` | unknown tool, schema, permission, missing key |
| `StartKeyed`, `Lookup`, `LookupHit`, `LookupMiss`, `LookupFails`; `StartUnkeyed` | the lookup: sent, read, answered or raised; then `breaker.allow()` (`Admit`) |
| `HandlerEffect`, `HandlerReturns`, `HandlerTimesOut`, `HandlerIsTransient`, `HandlerIsPermanent` | one attempt and its three `except` branches; a success is put (`Put`), an outcome is audited and put if permanent (`GiveUp`) |
| `Wake` | the next iteration after `asyncio.sleep` |
| `Apply` | Redis applies a put (`checkpoint.py:85-87`) |
| `Record`, `RecordFails` | the put of a success returns, and the call is told; or it raises, inside the attempt's `try` |
| `RecordFailure`, `RecordFailureFails` | the put of a permanent failure, after `_finish`, returns or raises |
| `ZombieEffect` | a thread that `wait_for` abandoned has its effect |
| `Recover` | `recovery_timeout_seconds` elapse |
| `Crash` | the process restarts: breaker and in-memory store are new, calls in flight are lost |

Properties: `BreakerAgrees`, `ReplaySound`, `SuccessIsRecorded`, `AuditAgrees`,
`FinalIsNotDoneAgain` (once a success or a permanent failure was returned under a key,
a call that starts later never runs the tool, whatever became of the puts and the
process), `KeepsPromise`, `BoundedCalls` (what a call has left to do falls with each of
its steps and nothing else raises it), `EveryCallEnds`.

`Invocation.tla` is what the runtime promises its callers: a call acts any number of
times and its outcome is settled once. The record of a success that is due is a step of
its own (`Note`), which others see before the call succeeds and which stays when the
call never does; a success is settled only after an act under its key and with a record
there; of the errors only a permanent one that was settled is recorded (`Freeze`); what
a call has read of the record may be replayed; a record is forgotten only when records
do not last. `ToolRuntime` refines it (`KeepsPromise`): settled are the `result`s,
records `store`, what was seen `cached`, acts the effects under each key. Attempts,
sleeps, the breaker, the audit, the sending of a put and its answer are stutters or
settle an outcome, `Apply` is `Note` or `Freeze`, an abandoned thread's effect is an
act, a restart that empties the store in memory is `Forget`.

What is abstracted of the store: a record's TTL of a day is taken to outlive the run;
the client is taken to send a put once; the store in memory does not give way between a
lookup and `allow()`, nor after a put, and the model lets it, so there it has more
interleavings than the code. A record is the fact of a success or a permanent failure,
so that a later put that replaces a record by one of its kind changes nothing. One tool
is enough because tools share nothing but the store. `BreakerAgrees` is about one loop;
the threads of the catalog are in the next module.

## 5. The queries on their threads

`QueryThreads.tla` is what lies between the executor of section 3 and the calls
of section 4: `execute_step` puts each query of a round on the default thread
pool, where it runs an event loop of its own for `ToolRuntime.execute`, which
puts the handler on a thread of that loop, which uses the one ClickHouse client.
The queries, of one run or of several, are of one catalog entry: they share its
breaker. All entries share the connection.

| Action | Code |
|---|---|
| `Begin`, `End` | `asyncio.to_thread(asyncio.run, ...)`: a thread of the pool is taken and, when the threads of the inner loop have ended too, given back (`nodes.py:789`) |
| `TimeOut` | the executor's `wait_for` (`nodes.py:788`): a queued query is cancelled, a running thread goes on |
| `FirstRead`, `SecondRead` | `CircuitBreaker.state` as `allow` reads it: `opened_at` is read twice, with `time.monotonic()` between |
| `Execute`, `Answer`, `Raise`, `RaiseCut`, `AttemptTimesOut` | an attempt and how it ends (`tool_runtime.py:207-234`), on the connection |
| `Opens` | the second half of `failure`: the assignment of `opened_at` after the comparison |
| `Wake`, `Recover` | the sleep between attempts; the recovery timeout |
| `AbandonedEnds` | a handler thread that nobody waits for ends |

A step is what a thread does between two points where CPython 3.11, on which
`docker/Dockerfile.backend` builds, may switch threads: it looks for a switch at
calls and backward jumps, so `failures += 1` is one step and `state` is two. The
driver is external, modelled from how `client.py` uses it: a connection carries
one query, a query that finds it busy raises, and each exception closes it, which
makes the query it was busy with raise in turn.

Properties: `BreakerRace` (the breaker and its count disagree only by one named
race), `PermanentHasCause` (a failure the harness will not retry is caused by the
database, by another running query on the connection, or by a success between
the two reads; never by something an ended query left behind), `EveryQueryEnds`
(each query gets its item and each thread comes free, also when all threads of
the pool hang and whatever was retried or abandoned in them), `BoundedQueries` (what a
query has left to do falls with each of its steps, and neither the breaker nor the
connection it shares gives it more), `KeepsBatch`. Section 12 has what the module
refutes.

`Batch.tla` is what the harness relies on when it asks a batch: each query is given one
item, once; it waits for one of `Workers` threads, runs, and is over. One that is given
up in the queue never runs; one that is given up while it runs keeps its thread, and
what the thread finds is dropped. `QueryThreads` refines it: what is given is `item`,
and `Stage` says which of its places are waiting, running and over. The breaker, the
connection, attempts and sleeps are stutters.

## 6. The sessions

`Sessions.tla` is the session service (`src/session/service.py`) and the endpoints
that change sessions (`src/api/router/chat.py`). `redis` and `memory` are the two
stores, each a function from ids to the messages of a session or `Absent`; `list`
is the ids in `session:list`; `client` says that `_redis` is a client, which is
tried anew by each call until it has answered once. One process serves all
requests on one event loop that the synchronous Redis client blocks, so requests
take turns only where a chat awaits the harness: `loop` is the request that runs.
A step is one command and the code up to the next.

| Action | Code |
|---|---|
| `Send`, `GetSession`, `CreateSession`, `Push` | `POST /send` up to the session: get, setex, lpush and expire |
| `AddMessage`, `UpdateSession`, `WriteSession` | `add_message` and its `update_session`: the get, the second get, the setex; the user's message first, the assistant's after the harness |
| `Answer`, `HarnessRaises` | `execute` returns or raises |
| `StartDeletion`, `DeleteSession`, `Unlist` | `DELETE /sessions/{id}`: delete, lrem |
| `StartClear`, `Keys`, `Wipe` | `DELETE /sessions`: keys, delete |
| `CommandFails` | a command raises without having been executed; the steps that write also end in "failed" after having been executed |
| `SessionExpires`, `ListExpires`, `RedisGoes`, `RedisComes`, `Restart` | the environment |

Of a session its messages are kept (titles, counts and times are functions of them
or of the clock), of the list which ids it holds. The reading endpoints change
nothing and are left out.

Properties: `OnlyAppends` (messages are appended one at a time, to a session that
is there), `AnswerIsKept` (an answered chat whose session was not removed or hidden
has its question and its answer there, in order), `DeletedStaysDeleted`,
`SessionsAreListed`. Each names its exceptions, which are real: a key that expires
between `update_session`'s get and its setex comes back whole, a chat that reaches
Redis in the midst of an operation moves a session from memory, a creation that
stops before `lpush` and a list that expires before its sessions leave them
unlisted.

## 7. The alerts of the callback service

`CallbackData.tla` has the messages, the rows and the statements; `OncallAlert.tla`
the two callbacks. Handlers of any number of pods run at once and share only the
database: writes go to the primary, reads to a replica that lags; a step is one
statement and the code up to the next; a statement may fail, and a failed write
may have been applied; a pod may die between two statements.

At this commit the two saves of the handler (`biz/handler/get_oncall_callback.go`)
and `query.Init` (`main.go`) are commented out. `wired = FALSE` is the program as it
is, where a delivery is answered and nothing is kept and a card that names an order
panics on the nil database handle; `wired = TRUE` is the program with those lines,
whose functions are all there. Both are initial states of every run and covered by
every theorem.

| Action | Code |
|---|---|
| `BadRequest`, `Receive` | `GetOncallCallback` up to its first statement |
| `SaveOrigin` | `saveOncallWorkFlow`: insert or update of the order |
| `Need` | `needNewAlertMetrics`: has Argos called back for the order and level? |
| `CountTask`, `InsertTask` | `saveAlertMetricsTask`: count on the primary, insert |
| `NoCrossFlow`, `Emit` | `EmitCounterWithWorkOrderLevel`: the metric, unless Argos has called back for the flow |
| `SaveListen` | `saveListenAlertTask` |
| `BadCardRequest`, `AskCard`, `ReadRecord`, `MarkCalledBack` | `GetOncallArgosDIYCardCallback`, `BuildDIYArgosCard`, `BuildWorkOrderLevelCard`, `UpdateIsCallbackTrue` |
| `Lose`, `LoseCard`, `Replicate` | the environment |

Properties: `DuplicateMeansRace`, `KeepsBook`, `SilenceIsJustified` (an
alert is never swallowed), `SilencedStaysSilent` (nor raised once all replicas know
it was answered), `LaterDeliveryWins`, `MarkedMeansAsked`, `EveryAlertHasItsRecord` (a row,
a metric and a listening row have the order they are about). A row has one column
that the table has not, `by`, the delivery that wrote it, which only properties
read.

`AlertBook.tla` is what the two callbacks promise: a delivery comes and is about a
subject; its order is kept, for good; then its alert is entered in the book and raised,
at most once by the delivery, or withheld because the book says that it, or another of
its level, flow and business, was answered; an answer is never taken back. `OncallAlert`
refines it (`KeepsBook`): what is kept and listened to are the orders with a row, the
book is the set of alerts with a row in `alert_task`, duplicates or not, the answered
ones those with a called-back row on the primary. That a delivery reads a replica, that
a statement fails and was not applied, that a pod dies are stutters.

## 8. Pages, cache and proxy

`Pages.tla` is the routes (`router.go`, `router_gen.go`) and the answers of the
constant pages and of those that read one key of TCC, each named, not spelled.
`Gateway.tla` runs requests through them: `Receive` dispatches, `Get` reads TCC,
`Load`, `ListenFails`, `ListenFetches`, `AddListener`, `Value` are `TccGet` with the
process-wide cache, `Poll` and `Deliver` the listeners' polling loop, `IDV` the
mocks that relay the disposal centre, `RegionAnswers`, `CallSkipped`, `CallFails`,
`CallReturns` the alarm proxy and `CrossIDCCallV2`. `site` is where the service runs.

External, modelled from their use: the TCC client (a fetch may fail; `AddListener`
hands the callback the value it has fetched before it returns, and one polling loop
hands it each later one), the disposal centre, the other region.

Properties: `WarmKeysServe` (a key that was cached is served, whatever TCC does),
`BodyWasConfigured`, `AlarmTruth` (an alarm reported as taken was taken),
`EventuallyFresh` (the cache becomes the latest version though
fetches of several first requests and of the loop are stored in any order), and the
invariant behind it, `StaleIsNoticed` (as long as the cached value is not the latest, a
listener of the key has not been handed the latest either, and will poll it).

## 9. The client of the agent

`AgentClient.tla` is `biz/grpc_client/client.go`: goroutines make clients of their
own (`NewAgentClient`) or share the global one (`GetGlobalClient`, `Do`, `Dial`,
`Return`: `sync.Once` and what it runs), and use them (`Diagnose` for the three
methods that need generated code, `HealthCheck`, `IsConnected`, `Close`);
`ConnectionMoves` is grpc's. The client has no caller in the repository but an
example in a document.

Properties: `NothingOnlyAfterError` (a nil client without an error is handed out
only after another goroutine was handed the error of the one dial), `OneForAll`,
`EveryCallReturns`.

## 10. Runs, bounds and fairness

| Run | Question | Instance |
|---|---|---|
| `recipe` | Does the recipe-only harness keep its safety properties? | the defaults of `state.py` (4 rounds, 8 queries, 3 failures), every reading of a network question, one answer per branch the code takes |
| `llm` | And with a model that plans, criticises, reads the question? Does it implement `Investigation`, is it bounded, does it end? | 4 rounds, 4 queries, 3 failures; four proposals, a dependency that is met once the ASN query has been asked |
| `tool_calls` | Do interleaved calls keep breaker, ledger and audit right, whenever puts are applied and whatever becomes of their answers? | three calls, two under one key and one without; 2 attempts, threshold 2, synchronous handler, the Redis ledger, one restart |
| `tool_ends` | Is every call bounded, does it end? Do calls implement `Invocation`, and is what was returned not done again? | two calls of a side-effecting tool under one key, the Redis ledger, one restart |
| `query_threads` | Do threads keep the breaker right, do failures have causes, do they implement `Batch`, is every query bounded, does it end? | three queries, pool of two, 2 attempts, threshold 2 |
| `sessions` | Are messages kept, deletions final, sessions listed? | two chats, a deletion and a clearing of one session, two outages or restarts |
| `alerts` | Are alerts raised, and only once, whatever fails? Do the callbacks implement `AlertBook`? | two deliveries of six bodies, a card of five, two orders of one flow, two levels, one replica; wired and not |
| `gateway` | Is what is served configured, what is reported true, the cache fresh? | two requests for one path of each kind of handler, two versions of a key, one of them broken |
| `agent_client` | Do goroutines share the client, is a waiter served? | three goroutines |
| `visible_verdict`, `degrades` | Is what is said of the harness true? (section 12) | the defaults |
| `parallel_queries` | Can queries of a round run in parallel? (section 12) | two queries, a database that answers in time |

`PROJECT.json` lists the properties of each run. The type invariant `TypeOK` of each
module and `NeverStuck` are in none of them: they are proved (section 11).

Why the bounds are enough to be interesting. Four rounds are exhausted by the recipe,
three failures by the initial queries and a retry. Eight queries are not: a run asks
at most seven under the defaults (three, two retried, one in each of two more rounds).
So `llm` takes four: three initial queries of which two fail leave room for one of the
two that are retried, and the cut of the plan bites. `recipe` runs with the deadline
free to pass at any state. Two attempts and threshold 2 let one call open the breaker
alone and two calls open it together; two calls under one key are what it takes to
race for a record, and a third without a key drives the same breaker; one restart
separates a call from its replay, and leaves a put that may be applied after it. Three
queries on two threads leave one in the queue, and let one query's success fall
between the halves of another's failure while a third reads. Two chats of one session
can overlap with each other, with a deletion and a clearing, and two outages let Redis
go, come back and go, or the process restart in between. Two deliveries can race each
other between count and insert, and one can come after the other has ended and a card
has been asked for between them. Two requests can add two listeners for one key and
have their fetches delivered in either order. Three goroutines are the one that dials
and two that wait for it.

The runs of the runtime take the Redis ledger (`Durable`). The theorems are about the
store in memory as well, which never fails and is forgotten with the process.

Bounds that are not the code's: `MaxCrashes` (restarts of the runtime), `MaxOutages`
(Redis going away and restarts of the process), `MaxVersion` (versions of a key).
`MaxRounds`, `MaxQueries`, `MaxToolFailures`, `MaxAttempts`, `Threshold` and `Pool` are
the code's own parameters. `QueryThreads` keeps `failures` at `Threshold`, above which
the code makes no difference. Deadlock is not an error in any of the runs:
executions, calls and requests end, and the models stop there. `sessions`, `alerts`
and `tool_calls` use the symmetry of chats, of deliveries and of the two calls under one
key, and have no liveness property.

Fairness.

- `Harness`: weak fairness of the nodes. Each await of a node is bounded (models
  5 s, retrieval 1 or 2 s, tools `AGENT_TOOL_TIMEOUT_SECONDS`), so the node that runs
  ends. Nothing is assumed of the deadline: the run ends even if it never passes.
- `ToolRuntime`: weak fairness of each call's own steps, since an attempt is bounded
  by `wait_for`, a sleep by `max_delay_ms`, and the Redis client answers or raises.
  Nothing forces a call to start, an abandoned thread to finish, a put to be applied
  (its call then ends with an exception), the recovery timeout to elapse or the
  process to stop.
- `QueryThreads`: timers fire, a thread runs, and the driver gives up a query at last
  (its socket has a timeout of its own). Nothing forces a queued query to get a
  thread: it gets its item by its timeout.
- `Gateway`: weak fairness of each request that has begun and of the callback of the
  polling loop; strong fairness of a listener's poll, which the loop repeats and which
  does not fail for ever.
- `AgentClient`: weak fairness of the steps of `GetGlobalClient`; a dial does not wait
  for a connection.
- `Sessions` and `OncallAlert` promise nothing that needs fairness.

## 11. What is proved

The theorems are checked by TLAPS for every value of the constants that meets the
named assumptions: `BudgetAssumption` (the three budgets are naturals, zero included),
`ModeAssumption`, `InputAssumption` (tasks, answers, proposals and dependencies are of
their types, of any size); `CallAssumption`, `PolicyAssumption` (at least one attempt,
a threshold of at least one) and `SettingAssumption`; `NilAssumption` and
`RequestAssumption` (nil is none of the values, bodies are of their types);
`ThreadAssumption`; `SessionAssumption`; `ClientAssumption`; `GatewayAssumption`
(there is a version, the broken ones and the blank ones are versions, and apart).

`HarnessProofs`:

| Theorem | Statement | Argument |
|---|---|---|
| `TypeCorrect` | `Spec => []TypeOK` | inductive as it stands; the lemmas give the types of the plans and of the facts |
| `BudgetsHold` | `Spec => []WithinBudget` | `BudgetInv`: the bound on rounds is not inductive, for the planner itself never compares `round` with `max_rounds`. It holds because a second round starts only from `AfterVerifier`, so the invariant carries the router's guard to the planner |
| `SuccessIsNeverRepeated` | `Spec => []NeverRepeatsSuccess` | `FreshInv`: no pending step is of an observed catalog query and no two pending steps are of one query. A plan is fresh when it is made (lemmas on the retry branch, the recipe and the model's guard) and each recorded item removes its step |
| `ClaimsAreCurrent` | `Spec => []ClaimsCiteLatest` | `CitedInv`: the facts of the last verification stay well cited through the rounds after it, because the ledger only grows, and claims are among them; with `NeverRepeatsSuccess` the first observed item is the latest |
| `ContractIsKept` | `Spec => KeepsContract` | each action maps to `Ask`, `Answer`, `Fail` or a stutter, from the three invariants above |
| `RunsAreBounded` | `Spec => BoundedRun` | the variant `StepsLeft`: a `RoundLength` for each round left, nodes left in this one, pending steps, the deadline. Only the planner puts steps in, and gives up a round for them: `BudgetInv` has the guard that leaves it one, and the cut plan is no longer than the budget (`TruncatedIsPrefix`) |
| `RunsAreNeverStuck` | `Spec => []NeverStuck` | from the types: a finite set of retries can be listed, so the planner has a plan; pending steps that are ready, or all when none is, have a least index (`LeastElement`), which is next; every query has an outcome |

`RecipeProofs`, about the recipe without a model that plans or criticises. Both
theorems compare the verifier's case analysis with the planner's, which the code keeps
apart; the conditions are stated in the formulas.

| Theorem | Statement | Argument |
|---|---|---|
| `ReplansAreActionable` | `Spec => [](~PlannerLLM /\ ~CriticLLM => ReplanIsActionable)` | `VerdictInv` (a verdict speaks of the ledger it was given for), `PlanInv` (only catalog queries of a plannable task are asked) and `ActionInv`; lemma `MissingIsAskable`: what the verifier misses, the recipe asks for |
| `PassesAreComplete` | `Spec => [](~PlannerLLM /\ MaxQueries >= 3 => PassIsComplete)` | `VerdictInv` and `OrderInv` (the trend is asked from the start, the ASN breakdown of a path question after the path change); lemma `NothingLeftToAsk`. With one or two queries the cut of the first plan makes it false, as TLC shows |

`ToolRuntimeProofs`:

| Theorem | Statement | Argument |
|---|---|---|
| `TypeCorrect` | `Spec => []TypeOK` | with `StoreAccess`: a call at the store has a key, a put is of a call past its attempts, and a failure that is put is a permanent one of its own |
| `BreakerIsConsistent` | `Spec => []BreakerAgrees` | `BreakerStep`: every action does one of four things to the breaker, whatever the rest does |
| `ReplaysAreSound` | `Spec => []ReplaySound` | `EffectInv` (a call whose attempt had its effect has committed, and every success that is put, recorded or read has an effect behind it) and `ReportInv` (so has every result) |
| `SuccessesAreRecorded` | `Spec => []SuccessIsRecorded` | `LedgerInv`: a call whose put was applied, and one that has read a record, finds one, perhaps another call's: a record is overwritten, never removed, when the ledger is durable |
| `AuditIsFaithful` | `Spec => []AuditAgrees` | `AuditInv`: no event before the result, one after it |
| `PromiseIsKept` | `Spec => KeepsPromise` | each action maps to one of `Invocation` or a stutter: `EffectInv` gives the act behind a success, also one that is applied long after, `LedgerInv` the record with which it is reported, `ProgressInv` that a call in hand has been told nothing yet, `StoreAccess` the permanent error behind `Freeze` |
| `NothingFinalIsDoneAgain` | `Spec => FinalIsNotDoneAgain` | `Settled`: when something final was returned under the key of a call that is not begun, the call is at its start, at its lookup, has read a record, or is at an end. `FinalStays` (what was returned stays returned, and `LedgerInv` has its record) and `SettledStays` |
| `CallsAreBounded` | `Spec => BoundedCalls` | the variant `CallLeft`: three steps for each attempt not begun, what is left of this one, the lookup and the two puts |

`QueryThreadsProofs`:

| Theorem | Statement | Argument |
|---|---|---|
| `TypeCorrect` | `Spec => []TypeOK` | `CountInv` (a query that sleeps has an attempt left) and `ThreadInv` (the handler that is awaited has its thread, and a connection is busy with a thread that runs) |
| `BreakerRacesOnce` | `Spec => []BreakerRace` | inductive with the types: only `Opens` sets `opened_at`, and says in `late` whether the count was cleared |
| `PermanentIsCaused` | `Spec => []PermanentHasCause` | `CauseInv`: the cause is there when the outcome is, before the item; a query on a connection that is no longer its own was cut from it |
| `BatchIsKept` | `Spec => KeepsBatch` | lemma `WithinTheThread`: the steps between taking and giving back a thread change neither item nor stage; `OutcomeInv`: a query whose thread is about to end has an outcome to give |
| `QueriesAreBounded` | `Spec => BoundedQueries` | the variant `QueryLeft`; `BusyQueriesRun` (a connection is busy only with a query whose handler runs), `OthersKeepTheirs` and `NothingIsAdded`: what is shared changes nobody's place |

`OncallAlertProofs`:

| Theorem | Statement | Argument |
|---|---|---|
| `TypeCorrect` | `Spec => []TypeOK` | `TypeInv`: with which calls have a body |
| `DuplicatesAreRaces` | `Spec => []DuplicateMeansRace` | `RaceInv`: a delivery about to insert saw no row of its order and level among those it counted, and rows are only appended |
| `AlertsHaveRecords` | `Spec => []EveryAlertHasItsRecord` | `RecordInv`: past `SaveOrigin` the order is saved, and orders are never deleted |
| `MarksAreAsked` | `Spec => []MarkedMeansAsked` | `MarkInv`: a card about to mark is about its own tags |
| `LaterWins` | `Spec => []LaterDeliveryWins` | `LaterInv`: a saved order or listening row is never by a delivery that had ended before: an ended one writes no more |
| `SilenceLasts` | `Spec => []SilencedStaysSilent` | `ReplicaInv` (the rows of a replica are kept by the primary, marks are not taken back) and `SilentInv` |
| `NoAlertIsSwallowed` | `Spec => []SilenceIsJustified` | `JustifyInv`: what made a delivery skip the metric is on the primary as well, and stays |
| `BookIsKept` | `Spec => KeepsBook` | `RecordInv` (an alert that is due has its order), `JustifyInv` and `ReplicaInv` (what withholds it is in the book), `FirstInv` (a delivery before its metric has not raised it); lemmas: an insert adds one entry that is not answered, the update answers the entries of one order and level, a step of a delivery moves its own fate only |

`AgentClientProofs`:

| Theorem | Statement | Argument |
|---|---|---|
| `TypeCorrect` | `Spec => []TypeOK` | with `OnceInv`: the one that dials is alone, and once is running exactly then |
| `NothingNeedsAnError` | `Spec => []NothingOnlyAfterError` | `ErrorInv`: once is done without a client only if somebody has the error |
| `AllShareOne` | `Spec => []OneForAll` | `SharedInv`: whoever shares has the global client or nothing |

`SessionsProofs`:

| Theorem | Statement | Argument |
|---|---|---|
| `TypeCorrect` | `Spec => []TypeOK` | `ControlInv` (one request runs, each kind has its own steps), `DataInv`, `HistoryInv` |
| `AnswersAreKept` | `Spec => []AnswerIsKept` | `AnswerInv`: what an undisturbed chat sees of its session at each of its steps, whatever the other requests do |
| `DeletionsLast` | `Spec => []DeletedStaysDeleted` | `GoneInv`: what is deleted is not there, and no chat is about to write it |
| `ListIsComplete` | `Spec => []SessionsAreListed` | `ListInv`: what a chat is about to write in Redis is in the list, or known to be missing |
| `MessagesAreKept` | `Spec => OnlyAppends` | `HeldInv`: what a chat has read and is about to write still follows what is there |

`GatewayProofs`:

| Theorem | Statement | Argument |
|---|---|---|
| `TypeCorrect` | `Spec => []TypeOK` | `PlaceInv`: a request is where its handler leads. The lemmas on the tables of `Pages` (which handler reads TCC, what a constant page says) are what it rests on |
| `WarmKeysAreServed` | `Spec => []WarmKeysServe` | `WarmInv`: from `Load` to `Value` the key stays cached, for no callback empties the cache (`CallbackKeeps`) and no other request adds a listener for this one |
| `BodiesAreConfigured` | `Spec => []BodyWasConfigured` | `VersionInv`: what is cached, fetched or polled of a key was published of that key, whichever listener stored it |
| `AlarmsAreTrue` | `Spec => []AlarmTruth` | `AlarmInv`: an alarm nobody answered is done with |
| `StalenessIsNoticed` | `Spec => []StaleIsNoticed` | `SeenInv`: the cached value is what one of its listeners was handed last, and a key whose listener was handed something is cached (`CallbackIsSeen`, for each way a callback is called) |

Model-checked only: everything under fairness (`EventuallyEnds`, `EveryCallEnds`,
`EveryQueryEnds`, `EventuallyFresh`, `EveryCallReturns`), which is out of the prover's
reach, and the three properties of section 12, which the runs refute. Of the first
what fairness is not needed for is proved: that a run, a call and a query have a bounded
number of steps, that the harness is never stuck before its end, that a stale value has
a listener which will notice. What is left to fairness is
that a step which can be taken is taken. No definition recurses, so nothing rests on
induction over data.

## 12. Where the code differs from what is said of it

With a run that shows it (`PROJECT.json` "findings" quotes the lines):

- `visible_verdict`. `graph.py:56-57` says that only REPLAN continues the graph and
  that the other verdicts are what the user sees; the design document names PASS,
  PARTIAL and ABSTAIN as the answer's verdicts, and the frontend knows no other. The
  verifier sets REPLAN from `can_replan` (`nodes.py:996`), which looks neither at the
  failed queries nor at the plan, and the router reads the clock again. Where they
  differ, the answer is delivered with REPLAN.
- `degrades`. The design document says that an unavailable source degrades the answer
  to ABSTAIN or PARTIAL. `_asn_concentration` (`nodes.py:92`) reads
  `.get("data", {}).get(...)` of an item whose data is None: with `ping.summary` failed
  and `ping.by_asn` answered, planner or verifier raises and the run fails.
- `parallel_queries`. The design document (line 240) lets independent queries of a round
  run in parallel, and the executor does. They share one `clickhouse_driver.Client`
  (`client.py:797`), whose connection carries one query: both raise, and both
  failures are recorded as permanent, which the recipe does not retry.

Seen while modelling, each in the model as the code has it, without a run of its own:

- The harness. A path question outside the ASN part can pass with no path measured.
  With `max_queries` of one or two the first plan is cut before `ping.trend`, and a PASS
  can come without it. Four rounds are one short of the full evidence path when
  `trace.path_change` takes a round (`state.py:43` says four are enough). The recipe asks
  again for a query that has failed for good. A retry of `ping.by_prefix24` loses the
  ASN it was scoped to (`nodes.py:494`), and a failed retryable `query.ir` makes `_steps`
  return no step. A long-tail question can pass without a claim. LangGraph's default
  recursion limit ends runs with `max_rounds` above seven.
- The tool runtime. A crash between effect and record repeats the effect on replay,
  and so does a second call under the key that looks it up while the first one runs,
  where `checkpoint.py:3-5` says that tool records are kept "so replaying a checkpoint
  cannot repeat an already committed side effect". What holds is
  `FinalIsNotDoneAgain`: what a caller was told is not done again by a call that
  starts later. A call that is given the exception of its first put may have left a
  success in the ledger, and overwrites it with its failure if the second put is
  applied later; retries do not pass the breaker; `deadline_seconds` bounds an
  attempt, not the call (`tool_runtime.py:202`); the ledger's `put` is unconditional
  and `put_if_absent` has no caller. `prefer_provider` is not read by the router
  (`llm/router.py:198`).
- The callback service. An alarm the other region does not answer is reported with
  status 200 and the text of the error (`alarm_callback_proxy.go`), where
  `specs/oncall-callback-test/test/case.md` expects 504 or an error. An order of no
  cross flow inserts its row and then dereferences its nil id (`metrics.go:71`).
- The client of the agent. `HealthCheck` always says SERVING; `GetGlobalClient` hands
  out nil without an error after a failed dial.
- The skill lifecycle (not modelled). `approve`, `publish` and `rollback` change the
  latest registered version, not the one they are given.

## 13. What is not modelled

`PROJECT.json` has every component with the reason. In short:

- no state or no protocol: SQL compilation (`query_ir.py`), statistics, matching,
  retrieval, rendering, evaluation, tracing, the frontend;
- no caller in the program: the skill lifecycle, the MCP client (a benchmark script
  apart), the cache, `put_if_absent`;
- superseded: the legacy agents and their `tool_node`, whose runtime is section 4's;
- a counter no property rests on: the LLM budget. Models and their providers are any
  answer, or none;
- not this repository's: LangGraph and its checkpoints, the ClickHouse driver, Redis,
  MySQL and its replication, TCC, Argos, the disposal centre, grpc. They are modelled
  from how the code uses them;
- generated: query builders and messages, except the statements and rows that handlers
  use (`CallbackData`).

Of what is modelled, the following is abstracted: texts, numbers beyond what a branch
compares, clocks (a timeout has elapsed or not), and identities of requests. Undefined
behaviour is left to chance where it is met: `QueryThreads` takes every switch of
threads that CPython 3.11 may make. Four modules are shown to implement an abstract
specification (`Investigation`, `Invocation`, `Batch`, `AlertBook`); the others state their
promises as invariants and action properties.
