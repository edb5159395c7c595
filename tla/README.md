# A formal model of the Vortex AI gateway

TLA+ modules for `src/vortex_ai_gateway/`, TLC runs that model-check them on
small instances, and TLAPS proofs for every value of the constants. The source
is the reference throughout; where its own documentation promises something the
code does not do, section 3 says so, and for two of these a run exhibits it.

Paths below are relative to `src/vortex_ai_gateway/`.

## 1. The system

An asyncio gateway in front of several LLM vendors. A request is authenticated,
admitted against its key's rate limits, looked up in two caches, sent through a
retry loop and a circuit breaker (possibly through a chain of them) to a vendor,
relayed whole or as a stream, and accounted for: the reservation is reconciled
with what was used and a row is added to the spend ledger. The durable and
shared state is in Redis, and the keys in an SQLite file; everything else belongs
to one worker process, whose concurrency is that of its event loop: between two awaits that suspend, nothing
else runs.

### Inventory

| component | state | operations | talks to | modelled |
|---|---|---|---|---|
| circuit breaker (`resilience.py`) | state, failures, window, window end, trial permit | `allow`, `record_success`, `record_failure`, `release_trial`, `retry_after_seconds` | called by every attempt on its provider | `CircuitBreaker`, `UpstreamGate` |
| retry loop, policy, budget (`providers/resilience_wrapper.py`, `resilience.py`) | per call: attempt, permit, start; shared: budget tokens | `_call`, `_backoff_or_give_up`, `_refuse`, `RetryBudget.consume` | breaker, adapter, clock | `ResilientProvider` |
| fallback chain (`providers/resilience_wrapper.py`) | none of its own; a list of providers | `complete`, `stream`, `_first_to_serve` | several `ResilientProvider`s | `FallbackChain` |
| rate limiter (`ratelimit.py`) | two Redis hashes a key (level, timestamp), a TTL | `ADMIT_SCRIPT`, `SETTLE_SCRIPT`, `admit`, `reconcile` | Redis, the workers' wall clocks | `TokenBucket`, `RateLimiter` |
| metering (`metering.py`) | a `Reservation` a request | `admit`, `discard`, `settle` | limiter, ledger, pricing | `RateLimiter`, `ChatCompletion`, `Accounts` |
| chat route and stream relay (`routes.py`, `streaming.py`) | a request's locals, a `StreamRecord`, `_PENDING_SETTLEMENTS` | `create_chat_completion`, `_stream_events`, `_settle_stream`, `aclose_stream` | metering, caches, provider, Starlette | `ChatCompletion` |
| response cache (`cache.py`) | one Redis string a digest, with a TTL | `lookup`, `store` | the route, Redis | `Caches`; for one key in `ChatCompletion` |
| semantic cache (`semantic.py`) | per-namespace vectors, in process | `lookup`, `skipped`, `store` | the route, the embedder | `Caches`; a set of answers in `ChatCompletion` |
| embedder (`embedding.py`) | an HTTP client | `embed` | the embedding server | `Caches` |
| spend ledger (`spend.py`) | one Redis hash a key and day, with a TTL | `record`, `report` | metering, the usage endpoint | `Ledger`; one write in `ChatCompletion` |
| pricing (`pricing.py`) | a table, fixed at start | `cost` | ledger | `Ledger` |
| keys, auth (`keys.py`, `auth.py`) | rows of an SQLite database | `create`, `revoke`, `verify`, `require_api_key` | every request, the operator's command line | `Edge` |
| middleware (`middleware.py`), error handlers (`error_handling.py`) | a request's id, status, buffered body | request ids, telemetry, body limit, rendering of failures | ASGI server, the app | `Edge` |
| routing (`routing.py`) | a table of patterns and the chains, fixed at start | `provider_for`, `build_router` | route, fallback chain | `FallbackChain` |
| contracts (`contracts/*.py`) | - | validation of a request, the shape of chunks | route, adapters | `Contract`, in part |
| adapters and error classes (`providers/*.py`) | an HTTP client each; the locals of a stream; a mock's place in its script | `complete`, `stream`, status classification | vendors | `Dialects`, `Adapters`, `AnswerStream`; classification in `Failures` |
| metrics, tracing, logging | label budget, counters | observation | everything | the label budget, in `Edge` |
| config, application assembly, command line | settings | start-up, the order of the middlewares, minting and revoking | everything | what boots and what the operator does, in `Edge` |
| load generator, experiments, benchmarks, Postman collection | - | clients of the gateway | its HTTP interface | no |

### What is hard about it, and what makes each part correct

* **Breaker and retry loop.** Calls outlive the breaker state they were admitted
  in: a verdict may arrive while the breaker is open, or half-open with somebody
  else on trial. The half-open slot is a resource with one owner and must be
  handed back by every way an attempt can end, cancellation included, or the
  breaker refuses everybody for ever. Correct means: the slot has a live owner;
  a closed breaker is short of its threshold; no window but an outage's first is
  longer than the maximum;
  a request is judged once however often it was retried; nobody sleeps on the
  slot; once the provider is well, traffic closes the breaker.
* **Fallback chain.** Several requests are in several chains that share members,
  hence breakers; a request leaves one breaker and asks the next in one step.
  Correct means: members are asked in order, the next only for what it may cure
  and never after a chunk; a breaker hears only of its own provider and keeps its
  promise; a caller is blamed only for its own fault.
* **Rate limiter.** Scripts are atomic, but their clocks are the workers', their
  replies can be lost, a settlement comes later than its admission, and an idle
  key expires. Correct means: over no stretch of time does a key get more than a
  capacity plus its refill; a refusal costs nothing; Retry-After is exact.
* **The route.** A request can be cancelled at any await. Up to four tasks can
  reach a request's settlement: the route, the relay, the task in which the
  event loop closes an orphaned relay, and a spawned settlement. Correct means:
  settled once; reservation and ledger row agree with how the request ended;
  caches hold only what was paid for; a stream's record says what its client was
  sent; no upstream call outlives its request.
* **The caches.** Two tiers with conditions of their own are consulted one after the
  other and filled from one another, with an await between every two steps, while
  entries expire, the embedder is replaced and the process restarts with half of
  the state. Correct means: an answer stays with its tenant, route and shape; it is
  served only for prompts near the one it was generated for, however often promoted;
  who opts out of one tier leaves no trace in the other; an index stays of one
  dimension.
* **The adapters.** Three vendors number, name and order the parts of an answer
  differently, and a conversation may change vendor at every turn. Correct means: a
  vendor is sent only what it takes; what one adapter hands out every other, and the
  contract, accepts when it comes back; a streamed answer arrives as it was said,
  with its calls numbered alike whoever made them.
* **The edge.** Keys are revoked while they are looked up in a thread; bodies come
  in pieces of any size, declared or not; a failure may be answered at five places.
  Correct means: handlers serve only known, live keys; the limit holds for the sum
  and the app reads what arrived; whatever happens is counted once, as the caller saw
  it, under an id the caller has.
* **The ledger.** Its pipelines are not transactions, retention is counted in
  seconds and reported in days. Correct means: a report shows nothing twice, nothing
  of another key or day, nothing impossible, and nothing expires in its window.

The hazards, each at its line and with the properties that watch it, are in
`PROJECT.json` under `hazards`.

## 2. The modules

    CircuitBreaker <- ResilientProvider            --implements-->  UpstreamGate
    CircuitBreaker, Failures <- FallbackChain      --each member implements-->  UpstreamGate
    TokenBucket <- RateLimiter
    ChatCompletion                                 --implements-->  Accounts
    Caches
    Contract <- Dialects <- Adapters               --implements-->  AnswerStream
    Edge
    Ledger
    MC*             instances for TLC              *_proofs    TLAPS proofs

A definition that stands for code has its source's name where TLA+ allows it,
and its lines in `PROJECT.json` under `map`. Operators whose comment begins with
"Mutant:" are deliberate errors. Nothing uses them in the specification: each is
the plausible bug that one of the properties catches, and shows the property is
not idle.

### CircuitBreaker, UpstreamGate

`CircuitBreaker` has no variables. A breaker is a record (`state`, `failures`,
`left`, `window`, `trial`) and each method of the class an operator from record
to record, because no method holds its lock across an await. `left` is
`_opened_until - now` cut off at zero, so a clock tick is `Elapse`. A trial
permit is named by the caller that holds it, which is the object identity of
`Permit(trial=True)`: a caller holds one permit at a time.

`UpstreamGate` is what a breaker promises about the calls that get through,
without counts, windows or budgets: shut means shut until the window has
elapsed, a probe takes the only slot, a slot is given back by its owner or with
a verdict. It allows what the code allows and no more: a verdict of a straggler
may close the gate.

### ResilientProvider

`_call` for any number of concurrent callers. The two awaits that suspend are the
attempt (`pc = "calling"`) and the backoff sleep (`"sleeping"`); one action is
all the code between two of them, so `Attempt` is the release in the `finally` of
the last attempt together with the `allow` of the next.

| action | code |
|---|---|
| `Start`, `Attempt`, `Refused` | entering `_call`, `breaker.allow`, `_refuse` |
| `Succeed` | the `else` branch: `record_success`, then the `finally` |
| `EndUnjudged` | a non-retryable error, a foreign exception, cancellation while calling or sleeping |
| `FailTrial` | a retryable failure on a trial permit |
| `FailForGood` | `_backoff_or_give_up` returns a reason: last attempt, no budget, past the deadline |
| `Backoff`, `Wake` | the sleep, and the loop's next round |
| `Tick` | one tick for window, sleep, deadline and budget |

`stream` shares `_call`; its attempt is the wait for the first chunk. Jitter and
Retry-After are any value the code could compute. Refilling the budget at each
tick equals refilling it on demand, because the cap commutes with both.

### Failures, FallbackChain

`Failures` classifies twice, as the code does: `KindOf` is what the adapter raises
for a cause (a vendor's status, no answer, an unreadable one, a request the dialect
cannot express), `FailureStatus` what the route answers for the class raised.

`FallbackChain` takes a request from its model's name (`ProviderFor`, `Members`)
through the members of a chain. `brk` holds one breaker a provider, shared by every
chain it is in and by requests routed to it alone; `req` a request's place.

| action | code |
|---|---|
| `Arrive` | `provider_for`; the first member that does not refuse |
| `Serve` | a completion, or the first chunk: `record_success`, and no more hops |
| `Reject` | a failure that is not retryable: the slot handed back, no verdict, no hop |
| `Backoff`, `Wake` | the member's own retries, the breaker asked again |
| `GiveUp` | `record_failure`, then `_first_to_serve`'s next member |
| `StreamEnds`, `BreakOff`, `Cancel` | the rest of a stream; cancellation at any await |

`Hop` skips every refusing member in one step, because a refusal suspends nothing.
A member's retry loop is `ResilientProvider`'s with the clock left out: why and
when it stops retrying is any of what it could be. `fate` is history: what came of
the request at each provider.

### TokenBucket, RateLimiter

`TokenBucket` is the arithmetic of the two Lua scripts. A bucket is absent or
holds the level last written, the ticks since (Redis's time), and by how much the
timestamp stored with it was ahead of Redis; the code's absolute `ts` is recovered
from those relative values and the state stays finite. A tick is the refill unit:
a window is `Window` ticks, a capacity `rate * Window`, so levels are integers.
The code's fractional levels are this with a finer tick.

`RateLimiter` is one key's two buckets and its requests. `Admitted`, `Rejected`
and `FailsOpen` are the three answers of `admit` (the last with or without the
script having run before the reply was lost); `Reconcile` is `discard` and
`settle`, `KeepHold` both with Redis away or with a usage nobody knows; `Tick`
ages a bucket and expires it. `Offsets` is what a worker's clock, together with
the delay of its call, may be away from Redis's time. `burst` is history: a leaky
bucket filled by enforced admissions, drained at the configured rate. It stays
within the capacity exactly when no interval of length *t* admits more than
capacity + rate * *t*.

### ChatCompletion, Accounts

Many requests for *one* prompt, key and route, so that caches connect them. `at`
names the await a request is suspended in; a step is everything to the next one.

| stage | await |
|---|---|
| `admitting`, `exact`, `near` | `meter.admit`, `cache.lookup`, `semantic_cache.lookup` |
| `calling` | `provider.complete` |
| `waiting`, `starting` | `anext(stream, None)`; then the status line on its way, the relay not yet run |
| `pulling`, `sending`, `failing`, `sentinel` | the next chunk; the yields of a chunk, the error event, `[DONE]` |
| `discarding` | `meter.discard` in `_failed` |
| `reconciling`, `recording` | the two awaits of `Meter.settle` |
| `storing`, `closing` | the caches' `store`; `aclose_stream` |

Cancellation is a step of its own at each of them. `CancelStream` (waiting or
pulling) takes the abandoned trail and spawns its settlement; `CancelSend` leaves
the relay at its `yield` for the event loop to close (`Finalize`);
`CancelUnsettled` is where nothing catches it; `CancelSettling` is a settlement
cut short with the call in flight applied or not; `CancelLate` loses nothing the
accounts see. Every Redis call may fail: `Reconciled` and `Recorded` are what a
call may leave. A deployment without a limiter or a ledger is covered by the
reservation `"none"` and the row `"lost"`.

`Accounts` is the promise to a key's owner: a reservation is taken once and
decided once, a row is written once and after it, and the two agree.

### Caches

Both tiers and the route between them, for several tenants, routes, shapes and
prompts. `exact` is Redis: a key is the caller's space, the route and a digest, which
is a shape and a prompt. `near` is the process: an index for every space, route and
shape. A vector is a text with the dimension its embedder had; `Score` is any table
of similarities, so nearness need not be transitive. A request is in one of five
places and carries its two lookups, as the code carries `Lookup` and
`SemanticLookup`, from where they were made to where they decide what is stored.

| action | code |
|---|---|
| `Arrive` | `ResponseCache.lookup`, taken when its GET is answered, and the route up to the next await |
| `Search`, `EmbedFails` | `SemanticCache.lookup` once the embedder has answered, or not |
| `Promote` | a semantic hit: settled, then stored under the exact key |
| `Call` | the provider's answer, stored under the exact key |
| `Index` | `SemanticCache.store`, with the index the lookup chose; `VectorIndex.add` or its `ValueError` |
| `Leave` | an upstream failure, or a cancellation at any await |
| `Tick`, `Reembed`, `Restart` | expiry; another model behind the embedding server; the process goes, Redis stays, perhaps in another build's format |

What is settled and when is `ChatCompletion`'s subject, which has one prompt and one
key; `Caches` has many of each and settles nothing.

### Contract, Dialects, Adapters, AnswerStream

`Contract` is what every part understands: messages, calls, the rules of a request
that relate its parts (`Coherent`, `SaysSomething`, `ResultsHaveCalls`), chunks, and
how a client assembles them. Arguments of a call are a string in five states:
nothing, begun, the rest, whole, or garbled.

`Dialects` is translation as operators: `AnthropicTurns` and `OllamaMessages` from a
history, `Supported` and `Expressible` for what is refused, and, on the other side,
`AnthropicTakes` and `OllamaTakes`, what the adapters' own docstrings say a vendor
takes.

`Adapters` is one caller's conversation. At every turn any vendor may be asked, as
routes and chains send it. One action reads one event of the vendor's and yields its
chunks; a generator goes no further before they are taken (`Deliver`).

| action | code |
|---|---|
| `Say`, `AnswerCalls`, `Keep`, `Drop`, `Trim` | the client: a message, results of calls, the answer kept or not, the oldest message dropped |
| `Refuse`, `Send` | the contract's validators, `_reject_unsupported`, the translation; the request goes out |
| `AskMock`, `Reset` | `MockProvider`, scripted or derived |
| `MessageStart` .. `MessageStop` | the events of `AnthropicAdapter.stream`; `local.ordinals` is its block-to-call map |
| `OllamaLine` | a line of `OllamaAdapter.stream`, with text, calls and `done` as they come |
| `Chunk*`, `StreamDone` | `OpenAIAdapter.stream`, which validates and passes on |
| `WholeAnswer` | `_decode` of an answer in one piece |
| `HangUp`, `Breaks` | a connection that just ends; everything that raises |
| `Deliver`, `Ends` | `_stream_events` and `StreamRecord.observe` |

`told` is history: what the vendor said. Vendors are external; they behave as their
protocol says (blocks in order, a stop reason that fits, fresh ids), which the guards
of their events state.

`AnswerStream` is what a caller may rely on whoever answers: calls numbered from zero
without gaps and opened before they are extended, arguments that join up, one reason
to finish that agrees with the calls, nothing after it but usage.

### Edge

A request from its first byte to its last: `RequestIDMiddleware`,
`TelemetryMiddleware`, `BodyLimitMiddleware`, the app's dependencies and handlers,
`ServerErrorMiddleware`. What a handler does is the other modules' subject: here it
answers, streams, raises or is cancelled.

| action | code |
|---|---|
| `Arrive` | the id is taken or made, the declared length is read |
| `RefuseDeclared`, `Receive` | `BodyLimitMiddleware`: buffered, measured message by message |
| `ReadBody`, `Unreadable` | the replay to the framework, before any dependency runs |
| `Authenticate`, `LookUp`, `Resume` | `require_api_key`; the `SELECT` in its thread; back on the loop with what it said |
| `Violates` | the contract's validation, after the key and before the handler: no model is named yet |
| `Serve`, `Decline`, `StartStream`, `StreamEnds` | a handler's endings |
| `Fails`, `InternalError` | a bug, or the key database's error in the lookup's thread: logged and counted by the middlewares, answered outside them |
| `Cancel` | the server cancels the task at any of its awaits |
| `Create`, `Revoke` | `vortex-keys`, from another process |

`config` is chosen once, among those `ensure_key_source` lets start. A message of a
body is the number of its bytes. `late` is history: the key was revoked before the
request came.

### Ledger

`record` and `report` as the Redis commands they send, since nothing keeps another
client out between two of them. A hash is its five fields for each model; the
pipeline is a sequence of steps of which `Cut` drops the rest. `Summarise` is the
report's arithmetic, prices included: `NoPrice` is a model no rule covers and not a
price of zero. Time is a clock of ticks, so many to a day. `owed` and `settled` are
history: what `record` was handed, and how often.

| action | code |
|---|---|
| `Record` | the day is read from the clock, the pipeline is built |
| `Increment`, `Expire` | one HINCRBY, the EXPIRE |
| `Cut` | the connection is lost, what ran stays |
| `Report`, `ReadDay`, `ReadBreaks`, `Answer` | `GET /v1/usage`: one HGETALL a day, or a report of nothing |
| `Tick` | the clock, and Redis dropping what has expired |

## 3. The runs

| run | instance | question |
|---|---|---|
| `resilient` | 3 callers, threshold 2, 2 attempts, window 1 escalating to 2, deadline 2, budget 1; fair, with traffic | the slot, its owner, the count below the threshold; the refinement of `UpstreamGate`; every request ends, the breaker recovers |
| `fallback_safety` | 2 requests; a chain of 3, and its second member routed to alone; threshold 1, 2 attempts, window 1 | order of hops, no splice, blame, connections, verdicts; `UpstreamGate` for every member |
| `limiter_in_step` | 2 requests, window 2, 1 request and 2 tokens a tick, estimates 1, 3, 5, usages 0, 2, 4, clocks equal | the allowance; refusals; Retry-After |
| `limiter_skewed` | the same, clocks a tick apart either way | no clock drains a bucket |
| `chat_safety` | 2 requests, every stage, every cancellation | endings and accounts, caches, records, upstreams; refinement of `Accounts` |
| `chat_live` | 1 request, fair | an orphaned relay is closed; an abandoned stream reaches the ledger |
| `caches` | 2 requests of nine kinds, 2 tenants, 2 routes of which one is never cached, 2 shapes, 4 prompts, 2 dimensions, 2 answers | isolation, drift, opt-outs, the shape of an index |
| `adapters` | a conversation of up to 5 messages with Anthropic, Ollama, OpenAI and two mocks | what is sent, what comes back, what arrives; refinement of `AnswerStream` |
| `edge` | 1 request slot, 2 keys, 2 models and a budget of one, bodies of up to 3 messages around a limit of 2 bytes, every configuration that boots | who is served; answers, counts and logs; bodies |
| `ledger` | 2 keys, 2 jobs, 2 models, 2 settlements, 3 days of which 2 are retained | reports add up; nothing expires in the window |
| `cancelled_unsettled` | as `chat_safety` | *violated*: every ending settles |
| `additive_block` | one answer of Anthropic's, 2 blocks, one of a type that is skipped but has argument deltas | *violated*: the client has what the vendor said |

### Why these bounds

* *Three callers*: a straggler admitted while closed, the trial, and a bystander
  who may be refused or take a freed slot. A threshold of two tells counting from
  tripping; a maximum window of twice the first tells escalation from its cap; two
  attempts and one budget token make every reason for giving up reachable.
* *A chain of three*: a member in the middle can be skipped, and the last failure is
  told apart from the first. A second request that comes to the middle member by
  itself opens, closes or probes its breaker under the first. With a threshold of
  one a single failure opens a breaker; counting to a higher one is
  `resilient`'s. Three causes stand for the classes that differ in control
  (rejected, the vendor's fault or the caller's; hoppable).
* *Two requests and four tokens*: either bucket can be the one that refuses; the
  estimates include one that never fits, and usages lie on both sides of the
  estimates, so settlements refund and charge. A window of two ticks separates
  refill, expiry and their order.
* *Two requests for one prompt*: one is served by what the other stored, or
  promotes it. What one relay does to itself needs only one request, so liveness
  is checked with one.
* *Nine kinds of requests* (`caches`): of three prompts only neighbours are near, so
  a promotion has a prompt to drift to; each of the other kinds differs in one thing
  the tiers tell apart (tenant, shape, route, image, stream, bypass). Two answers
  (`MaxCalls`) make an index one is found in and the other added to; the first block
  has one row, so the second doubles it. A TTL of one second is enough to expire
  between any two awaits.
* *Five messages* (`adapters`): a question, a turn that calls twice, its two results,
  and the answer to them, of which any vendor may make any part; or the same cut at
  the front by a client that forgets. Streams are explored from the first message
  (`MaxStreamed`), since a stream reads nothing of the history; two blocks tell a
  call's number from its block's, and two calls a line's from an answer's. Whatever
  is longer repeats these.
* *One request slot* (`edge`): requests share only the key database and the label
  budget, and one after the other leaves both in every state another could find them
  in; revocation runs beside the one. Declared lengths are 0 to one byte over the
  limit, or none; messages are 0 to 2 bytes, so a body can pass the limit in any
  message or meet it exactly.
* *Three days, two retained* (`ledger`): a hash is written on one day, read on the
  next and expires on the third. With a day to a tick every write is on the stroke of
  midnight, the earliest a hash can go. A socket timeout bounds a pipeline, so it may
  run into the next tick but not through it; it is sent once, because the gateway
  asks its Redis client for no retry. Reports ask for more days than are retained and
  are clamped. Two jobs are a writer and a reader, or two writers of one hash.
* `failures` and the deadline clock are the only counters that could grow. The
  breaker resets the first on every trip (a half-open or open breaker counts at
  most the callers in flight), and the second stops one tick past the deadline,
  beyond which the code cannot tell. `burst` is unbounded only with skewed clocks;
  `limiter_skewed` therefore looks at the limiter's own state (its `VIEW`), which
  neither the actions nor that run's property go beyond.
* Symmetry is used for safety runs only, over callers, requests, keys, jobs or models
  that no definition orders and no constant tells apart. `resilient` checks liveness
  too and has none.

### Fairness

* `Fairness` of `ResilientProvider`: time passes; a due sleep is resumed; an
  attempt ends, since every adapter call is bounded by `request_timeout_seconds`.
  `Start` is fair only in `TrafficSpec`, the specification of `resilient`: nothing but a request
  probes an open breaker, so without traffic nothing recovers. `Recovers` further
  assumes that from some point attempts succeed, which is the premise of the
  property and not a fairness condition.
* `Fairness` of `ChatCompletion`: an awaited call returns (Redis calls are bounded
  by timeouts, ADR-033; provider reads too), the loop closes generators nobody
  holds (`asyncio`'s hooks), and a spawned task runs. Arrivals, expiry and
  cancellation are never fair.

### Where the code and its documentation part

Two are `violation` runs.

1. `cancelled_unsettled`. `metering.py:19`: settlement on every ending. A buffered
   call that is cancelled, or a stream cancelled with its status line on the way
   (its relay never runs, nor does its `finally`), is neither settled nor
   discarded: the reservation stays debited and the ledger has no row.
2. `additive_block`. `providers/anthropic.py:25`: an additive block costs the caller
   nothing. The start of such a block is skipped; an `input_json_delta` inside it is
   not, and is attributed to call 0 (`anthropic.py:511`).

Met while modelling, and within what the models allow:

* A straggler's success while a trial is out closes the breaker and clears the slot
  (`resilience.py:259` asks neither the state nor whose verdict it is), so a later
  window's trial may run beside the first; `resilience.py:164` says exactly one. The
  gate's promise (`KeepsGate`) still holds: each was admitted alone. The same line
  closes an *open* breaker without a trial.
* The retry deadline is compared with the sleep, not with the attempt after it
  (`providers/resilience_wrapper.py:285`, against `resilience.py:6`), and a sequence
  that gives up on it has already spent a budget token (`:274`).
* A call writes its own worker's clock even if that moves `ts` backwards
  (`ratelimit.py:118`): with clocks apart, time is credited twice and a key admitted
  beyond its allowance, which ADR-021 says holds across workers.
* A client that hangs up once it has `[DONE]` cuts a settlement between its two
  writes, though `routes.py:508` has it awaited where nothing is cancelling.
* `SemanticCache.store` can raise `ValueError` after the request was settled
  (`semantic.py:412`): a paid answer becomes a 500, where the module's docstring
  says nothing in the tier stops the gateway.
* An entry outlives its TTL: an index keeps vectors until the process goes, and a
  promotion starts a new TTL for an old answer (against `config.py:179-181`). With no
  exact tier a route with a zero TTL is still cached by the semantic one
  (`semantic.py:361`), which is why `OptOutsLeaveNoTrace` assumes Redis.
* `prompt_text` leaves tool calls out: two histories that differ only there have one
  text, and one shape.
* An answer in one piece without text or calls has no content, and is refused when
  it comes back (`contracts/messages.py:119`); `anthropic.py:228` calls such a turn
  legal.
* A vendor's connection that ends early is a stream that completes without a
  `finish_reason` (against `providers/base.py:46`); `AnswerKept` says that is the
  only way to have none.
* Ollama is sent nothing of `parallel_tool_calls`, `user` or a refusal's text, and
  Anthropic no `tool_choice` without tools, all without a word, where both modules
  reject what they cannot express; a conversation of system messages alone is sent to
  Anthropic without messages. Ollama's ids are made of a position and a name, so they
  repeat from turn to turn; results go to the latest call of that id.
* `metrics.configure` rebinds `model_label`, which `metering.py:40` and
  `streaming.py` have imported by name: two budgets count afterwards.
* A ledger pipeline cut before its EXPIRE leaves a hash without a TTL until the next
  write of that key and day; a report that cannot be read is a `200` full of zeros.
* `spend.py:139-142` counts a request before its unmetered mark, so that a report
  never shows more marks than requests. Where one day is retained
  (`usage_retention_days` of 1 or less) the hash may expire at midnight between the
  two, and a report that straddles midnight may then see the mark alone. The attempt to prove
  `ReportsAddUp` without a condition found this; TLC confirms it with
  `RetentionDays = 1`, and the property states the condition.
* A cancelled request is counted, as a 500, and never access-logged.

## 4. The proofs

Eight modules of theorems, one for each component with a state, for
every value of the constants that satisfies the named assumptions:
`ResilientProvider_proofs`, `FallbackChain_proofs`, `RateLimiter_proofs`,
`ChatCompletion_proofs`, `Caches_proofs`, `Adapters_proofs`, `Edge_proofs` and
`Ledger_proofs`. The lemmas about a breaker's methods are in both of the first two,
each of which has a breaker as a variable. Each module is laid out alike: what the operators compute, one lemma an action
that takes `IInv` to `IInv'`, `THEOREM Invariant`, and then the properties, each read
off `IInv` or off a step from it. TLC has checked every `IInv` on its run's instance.

**Assumptions.** Each component's `...Assumption` types its constants and keeps the null
values apart. What they say beyond that is:

* `MaxAttempts`, `Threshold`, `BaseOpen`, `Multiplier` and `MaxOpen` are not zero: that
  comes from the defaults, and `config.py` does not validate it. A zero window would be
  no refusal at all, and `UpstreamGate` would promise nothing. Nothing is assumed of
  `MaxOpen` beside `BaseOpen`: where the maximum is the smaller, the first window of an
  outage is longer than the maximum, since `_open` applies it to escalations only, and
  `WindowBounded` says that no other is.
* The chains of `RoutingAssumption` begin with their head, name nobody twice and have
  two members or more, and their heads are routed to, which `routing.py` checks at start.
* The prices of `LedgerAssumption` are not negative, which `pricing.py` checks of a
  price file. `Jobs` is finite, because what is in flight is summed over it.
* `ScriptsAssumption` (`Adapters`) says of a mock's script that its replies are answers a
  vendor could give: ids that differ, a reason that agrees with the calls where it is
  given, no call left incomplete but at the token limit. `CannedReply` checks none of it; whoever
  writes a script is trusted to. Nothing is assumed of a reply the mock derives itself.
* `Offsets = {0}` is a hypothesis of `AllowanceHolds`, `LevelsCoverBursts` and
  `RetryAfterHolds`, visible in their statements. With skewed clocks all three fail
  (section 3).

**ResilientProvider.** `IInv` adds to the checked invariants that permits are held
by whoever is running and a trial permit only by its namesake (`PermitsHeld`), and
that a sleeper has an attempt left (`SleepersMayRetry`). `TrialSlotOwned` alone is
not inductive: that a release frees only one's own slot needs every other caller's
permit to be different. The operators of `CircuitBreaker` are handled once each,
as lemmas that take `BreakerInv` to `BreakerInv`; the actions then split into what
the breaker does and what the caller's locals do. `GateKept` maps each step to one
of `Pass`, `Probe`, `Leave`, `WindowElapses` or a stutter.

**FallbackChain.** `ReqInv` places a request on its chain: members behind it have passed
the request on, members beyond it are untried, and at its own it holds the call and the
permit its stage says. Across requests there is one fact: a breaker's slot is held by a
request that is calling that provider, with the permit that frees it. `Hop` chooses the first
member that does not refuse, so what it chooses is a least element, found by a
least-element argument since chains have any length. For `VerdictsStayHome` and
`KeepsGates` every action but time is first shown to be one shape (`Step`): each
provider's breaker is passed by, left by the request, or entered by it. The
breakers' lemmas are then applied to the shape: in one step one breaker takes a `Leave`
while another takes a `Pass` or a `Probe`, and each sees only its own.

**RateLimiter.** The allowance is not inductive: from `burst` within the capacity
nothing says the next admission fits. `LevelCoversBurst` (what Redis would compute
now, plus what is admitted and not yet paid for, fits the capacity) is, together
with types and with `HoldsCounted` (a reservation is what was really debited for it,
so a settlement refunds nothing that an unenforced admission only imagined);
it implies the allowance because levels are never negative. The step
that needs care is time: a bucket left alone expires and comes back full, and
`IdleTTL` is exactly what makes the burst zero by then. Products are made opaque by
three lemmas, since the solver does no nonlinear arithmetic. `RetryAfterHolds` rests on
`WaitIsExact`, which says of one bucket that the rounded-up division is the first tick
at which the cost fits, and on the longer of two waits being a wait of one of them.

**ChatCompletion.** Nearly all of it is about one request's record. `LocalInv` says
what a record holds at each await (accounts, ending, answer, stream); one lemma a
handler takes `x` to `y` with `LocalInv` kept and the accounts moved as `Accounts`
allows. Requests meet only in the caches, and a row is never erased, so what was
paid for stays so (`PaidInv`). The temporal theorems read the invariants off `IInv`
and the refinement off the account half of the same lemmas.

**Caches.** None of the four properties is inductive, because each speaks of what is
served and a store happens an await or more after the lookup that decided it.
`ReqInv` says what a request carries from the one to the other: its own key or none, its own
namespace with its own text or none, and while it promotes, an answer that serves it.
`EntryInv` and `IndexInv` say of a key and of an index that what lies there serves whoever asks
there. Drift cannot compound because a promotion writes the exact key only: rows keep the
vector of the prompt they were made for, so an answer is one step of similarity away
however it came. Nothing is assumed of `Score`.

**Adapters.** The chunks on their way are a *path*: each may follow the answer so far
(`Follows`, a step of `AnswerStream`), and the last leads to the answer the client will
have (`Becomes`), which is what the vendor has said. `Deliver` takes the first of a path,
so a chunk yielded out of place would break the invariant where it is yielded, not where it
arrives. What makes the yielding right is that *where an adapter stands is where its vendor
stands* (`Stands`): Anthropic's block-to-call map has one ordinal for every call told and
the open block's is the last; Ollama's count is the number of calls told and its ids are
those of their places; OpenAI's chunks pass on. A line of Ollama's or a mock's reply yields
chunks of any number, so their paths are joined from shorter ones (`Joins`, `Texts`,
`CallsPath`), and `Completes` says that folding a path's chunks is where it leads. The one chunk
a client may not be handed, the usage it did not ask for, is the last of its path
(`UsageLast`). The conversation's half is `HistoryInv`: only answers call, a whole answer
calls with whole arguments, and until the caller trims, a result has its call before
it. Turn by turn that gives `AnthropicTakes` (`AddsTurn`; there is no first message after
which it fails) and `OllamaTakes`, and a refusal then names a message that is no ordinary one.

**Edge.** Three invariants of one request: its body (`BodyInv`), its answer
(`AnswerInv`), and its key (`KeyInv`). The last is the one with a concurrent actor. A
key found in the database is the presented one and was in the table; revocation never deletes
a row and nothing revives one, so `late` (revoked before the request arrived) implies
that the row still says so when the thread reads it. `Size` is a recursive function
over a body of any length; that a prefix is no longer than the whole, and a message more is
its bytes more, is proved by least counterexample.

**Ledger.** `Held` counts, for every key, day, model and field, what Redis holds together
with what is in flight: it never exceeds what was handed over. The sum over jobs in flight is
what makes it inductive when several pipelines write one hash. `Behind` is the same
for marks and requests, and is where the order of the pipeline's commands is used, and that a pipeline
runs into the next tick at most: with two days retained its hash is there until its end.
`Lasts` says a TTL never ends before its day's window does. It holds because the day of a
write is read before its EXPIRE is sent, so the seconds of the retention are added to a moment in
that day or after it. `Faithful` says of a report that each
line it has read was below what was owed and above what Redis held when it began, and
that what it has yet to read still is. `Summarise` is sums of sums of columns of any
length: lemmas about `Total` (natural, monotone, zero only if all are zero, changed by one
term's change) carry line-by-line facts to the report. `TotalCost` is a price exactly
when some line has one.

**Recursion.** The library's induction theorems cannot be instantiated here, but a
statement about one concrete recursive function can be proved without them: if it fails,
it fails at a least argument (`LeastNatural`, from the well-founded inclusion of finite
sets), where one unfolding of the
function contradicts it. That the function exists at all is proved the same way (`SumsExist`).
`Upto` in `Edge` and in `Ledger`, `TurnsUpto` in `Dialects` and `After` in `Contract` are
written as recursive functions for this reason.

**What is proved.** The named results are in `PROJECT.json` under `theorems`. Every state
invariant and action property that a passing run checks has a theorem, and so do all four
refinements: of `Accounts`, of `AnswerStream`, and of `UpstreamGate` for a provider alone and for
every member of every chain. Eight more are proved and
for that reason are not run: the types of three modules, `WindowBounded`,
`OneVerdictPerRequest`, `NobodySleepsOnTrial`, `LevelCoversBurst` and `SettledOnce`.
They are parts of the inductive invariants, and the checked properties rest on them.

**Only model-checked.** Liveness (`EveryRequestEnds`, `Recovers`, `OrphansReleased`,
`AbandonedIsRecorded`): fairness and ENABLED are out of the prover's reach. The two
`violation` runs are counterexamples of TLC's; nothing is to be proved of them.

## 5. What is not modelled

* *Redis* is external: a script or pipeline runs at most once a call (the clients
  are built without retries), acknowledged writes are kept, and expiry is exact.
* *A process exit*: spawned settlements live in the process and go with it. The
  code keeps nothing that could resume them, so there is no promise to check.
* *Payloads*: token estimates, prices and usages are arbitrary members of small sets;
  a prompt is a value with a text, a text a value with similarities. Digests collide
  never. Tool arguments are the five states above; text is a number of fragments.
* *Counters of observation*: `CacheStats`, the semantic tier's bypass counts (an exact
  hit counts as one), histograms, spans.
* *Of the adapters*: parameters that are only renamed, headers, `n > 1` choices and
  usage numbers of the mock, recorded requests, `aclose` at shutdown.
* *Of the edge*: the minting and hashing of a key, its own limits (`Principal`'s
  ladder), the time of a revocation, the command line's output; `report` without a
  ledger, which is an empty report.
* *Collecting a generator that never started*, hence closing the provider's stream
  under it, is taken as immediate (reference counting).
* Settings parsing, the load generator, the experiments and the Postman collection:
  start-up, or clients of the gateway.

## 6. Plan

Done: every component with a state of its own, each with its safety properties, four
refinements of three abstract specifications, and proofs of all of it but liveness.

Left:

1. `RateLimiter`'s hold discipline as a refinement of `Accounts`, so that the accounts of a
   request and the levels of its buckets are one statement.
2. Answers of several choices (`n > 1`), which the mock makes and OpenAI's adapter passes on;
   the other two adapters refuse to ask for them.
3. Several conversations at once with one mock, whose script is replayed in whatever order
   their requests come.

## 7. Running it

    tlc -workers 2 -config ChatSafety.cfg MCChatCompletion.tla
    tlapm ChatCompletion_proofs.tla

Each run of section 3 names its module and `.cfg` in `PROJECT.json`. The slowest
takes under two minutes; the proofs take about twenty minutes in all, the longest of
them `Adapters_proofs`, `ChatCompletion_proofs` and `Ledger_proofs`.
