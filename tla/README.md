# Formal models of the function agent

TLA+ models of the request path of the agent in `src/pkg/agent` (the
gateway in front of short-lived wasm functions). There are TLC
configurations for small instances and TLAPS proofs for every instance.

## The system

An inbound request for a function reaches its `functionHandler` through
the `mutableRouter`. The parts that hold state and interact are these:

| part | code | state |
|---|---|---|
| InvocationHandler | `functionHandler.handler` 134–194 | per request: the Redis lookup, the executor call, the wait on the channel |
| completion callback | `functionOutputHandler` 222–246, `depoDateRedis` 211–219 | per run: the body read, the send on `fh.functionOutput`, the Redis `Set` |
| the rendezvous | `fh.functionOutput chan string` (line 72) | one channel per function, shared by all of its requests and callbacks |
| result store | Redis, key = the function's UID | one value per function, no TTL |
| RetryingForwarder | `RetryingRoundTripper.RoundTrip` 249–486 | per call: round `i`, `retryCounter`, `serviceURL`, `urlFromCache` |
| address resolver | `getServiceEntry` 705–746, `getServiceEntryFromExecutor`, cache stubs 633–666 | the throttler's lock per function key |
| canary selector | `findCeil`, `getCanaryBackend` 541–569 | pure |
| route table | `mutableRouter` in `mutablemux.go` 16–41 | an `atomic.Value` holding the router |
| wasm job | `wasm/job.go` | a Kubernetes Job per function |

Here is how a request moves through them. The handler first reads Redis.
- A hit is answered at once.
- A miss makes the handler ask the executor for the service, which starts the job.
- For the `WasmShortS` executor type the handler then blocks in a `select`. It waits for the channel and for a 10 s timer. Any other type is acknowledged at once.

When the job finishes, it POSTs its result to `functionOutputHandler`. For
`WasmShortS` the callback sends the result on the channel and then stores
it in Redis.

The forwarder proxies ordinary requests with retries. Whenever its
`retryCounter` is 0 it resolves the service address. For every executor
type but poolmgr that resolution goes through the single-flight
`svcAddrUpdateThrottler`.

In this build the service cache is stubbed:
- `getServiceEntryFromCache` returns `nil, nil`.
- Inserting into the cache and evicting from it do nothing.

## Modules

- `Invocation.tla` covers the handler and the callback of one function.
  - **State:**
    - `rpc[r]`: the place of each request's goroutine.
    - `resp[r]` and `metric[r]`: what the client receives and the status the metric records.
    - `run[j]`: the backend run started by request `j`, and its callback.
    - `cbCode[j]`: what the callback answers the backend.
    - `chan`: the buffered values.
    - `store`: the Redis value.
  - **Actions:**
    - `HandlerLookup` (Get hit or miss), `HandlerLookupError`, `HandlerResolve` (executor error, sync wait or async ack).
    - `HandlerReceive` (from the buffer), `HandlerTimeout`.
    - `OutputReceive` (body read or 500), `OutputBuffer` (a send into the buffer), `Rendezvous` (an unbuffered hand-over to a waiting `select`), `OutputDeposit` (Set, 200 or 500).
  - **Abstractions:**
    - A run and its result are named by the request that started it.
    - The executor chooses between starting a new run and reusing one that is already there.
  - **Constants:** `ChanCap` and `SyncMode`.
- `MCInvocation.tla` instantiates it with three requests as model values.
  It also states `MetricMatchesResponse`: the status recorded by `collectFunctionMetric` matches the response. It is false after a Redis error (line 151); one request reaches that, so no run of its own is kept for it.
- `InvocationProofs.tla` holds the TLAPS proofs about `Invocation`.
- `Forwarder.tla` covers `RoundTrip` and `getServiceEntry` for concurrent calls of one function.
  - **State:** `pc`, `iter` (i), `rc` (retryCounter), `url`, `fromCache`, `untaps` (the deferred poolmgr untaps), `outcome`, `leader` (the throttler's lock holder), and `cancelled` (the client has gone and the request's context is cancelled).
  - **Actions:**
    - `Resolve`: retryCounter = 0; poolmgr goes straight to the executor, otherwise the cache misses and `RunOnce` makes the call leader or follower.
    - `ExecutorReply`: an address, a 429 or another error; the key is released. The executor call runs under the request's context, so a cancelled request only gets an error.
    - `Resume`: a follower reads the stubbed cache, gets nil and goes to sleep (line 344).
    - `ThrottleTimeout`.
    - `Forward`: one round trip, with its error classified as ok, dial timeout, other dial error or non-dial error, plus the retryCounter update and reset; a dial error goes to sleep (line 479). Once the context is cancelled the transport fails before dialling, which is a non-dial error.
    - `Wake`: `time.Sleep` returns and the loop starts its next round. The sleep does not watch the context.
    - `Cancel`: the client disconnects. `setContext` derives every dial context from the request's, so all of them are cancelled with it.
    - `Exhausted`.
  - **Abstractions:** durations and the URL/header rewrite are left out; neither changes control flow. A sleep is a place (`"backoff"`) that `Wake` leaves.
  - **Not in the repository:** the throttler (`pkg/throttler`) is modelled from design section 4.3. `Release` and `ThrottleTimeout` are marked `spec_modelled` in the map.
- `MCForwarder.tla` instantiates it with three calls and one address; no property tells addresses apart. Only `r3`'s client may disconnect (`Disconnects`), which keeps the run under a minute and still lets the cancelled call be a leader or a follower.
- `ForwarderProofs.tla` holds the TLAPS proofs about `Forwarder`.
- `FindCeil.tla` covers `getCanaryBackend` and `findCeil` (541–569).
  - **State:** the prefix sums of the variant list, the draw, `low`, `high`, `pc` and the returned index.
  - **Actions:** `Draw` (`rand.Intn(total + 1)` and the search's start), `Step` (one loop iteration, or an index-out-of-range panic), `Exit` (the return after the loop).
  - **Abstractions:** one call is one behaviour. The list is chosen in `Init` among all lists of up to `MaxLen` positive weights (design section 3). `Lists` and `Increasing` model the prefix sums built outside this repository and are marked `spec_modelled`. `Lists` is stated directly: the sequences in `1..Total` whose first entry and successive differences are at most `MaxWeight` and that increase strictly. These are exactly the prefix sums of positive weights, and stating them without a recursive accumulator keeps the module within the prover's reach.
  - `mid` is computed as written, `low + high/2`.
- `MCFindCeil.tla` runs it with lists of up to five variants of weight 1 or 2.
- `WasmJob.tla` covers `createOrGetJob` and `deleteJob` in `wasm/job.go` for one job name.
  - **State:** each call's `pc` and `result`, the job stored in the API server, and the `deleteJob` calls made.
  - **Actions:** `Start` (building the Job, which dereferences the pod spec), `Get`, `Create`, `Reget` (the Get after AlreadyExists), and `Delete`. Every API call may also fail.
  - **Constants:** `PodSpec` is complete, lacks the grace period, or is missing.
  - It also states `NoPanic`. That is false for a function without a pod spec (job.go:22), which one call reaches, so no run of its own is kept for it.
- `JobRegistry.tla` is what `createOrGetJob` promises: each call gets or creates the job in one atomic step, fails, or crashes (only with an incomplete pod spec), and `deleteJob` removes the job. `WasmJob` maps onto it through its `Registry` instance: a call is `"pending"` while it is at `start`, `get`, `create` or `reget`, and the stored job and results map as they are.
- `MCWasmJob.tla` runs it with three callers and one deleter.
- `WasmJobProofs.tla` holds the TLAPS proofs about `WasmJob`.
## Runs

| run | cfg | checks | result |
|---|---|---|---|
| invocation_buffered | MCInvocationBuffered.cfg (ChanCap 1, sync) | TypeOK, RequestsEventuallyRespond | pass |
| invocation_async | MCInvocationAsync.cfg (async types) | CallbackEventuallyAnswered | pass |
| callback_blocks | MCInvocation_CallbackEventuallyAnswered.cfg | CallbackEventuallyAnswered | violation |
| forwarder_throttled | MCForwarder.cfg (maxRetries 3, svcAddrRetryCount 2) | TypeOK, SingleFlight, AddressHeld, AllReturn | pass |
| follower_nil_address | MCForwarder_FollowerGetsAddress.cfg | FollowerGetsAddress | violation |
| findceil | MCFindCeil.cfg | TypeOK, SelectsCeiling, CeilingUpToTie | pass |
| findceil_lowest | MCFindCeil_LowestCeiling.cfg | LowestCeiling | violation |
| findceil_panic | MCFindCeil_IndexInRange.cfg | IndexInRange | violation |
| findceil_ends | MCFindCeil_SearchEnds.cfg | SearchEnds | violation |
| forwarder_cancel | MCForwarder_CancelStopsRetries.cfg | CancelStopsRetries | violation |
| wasmjob | MCWasmJob.cfg (complete pod spec) | Agreement, ImplementsRegistry | pass |

`fh.functionOutput` is created where the handler is constructed, outside `src/`, so its capacity is a constant of the model. With `ChanCap` 1 a send may still stay blocked until a receiver comes, so the buffered run contains every unbuffered behaviour. The violation run `callback_blocks` uses `ChanCap` 0, an unbuffered channel, where the block is easiest to see. `MCForwarder` fixes `Poolmgr` to FALSE, the throttled path; the poolmgr path only skips the lock.

**What the properties say.**
- `TypeOK` of `Invocation`: handler answers its clients only 200 or 404 and records the same codes in its metric, and the callback answers the backend only 200 or 500.
- `RequestsEventuallyRespond`: every request is answered.
- `CallbackEventuallyAnswered`: a callback that read its body answers the backend.
- `SingleFlight`: at most one executor call per function at a time, outside poolmgr.
- `AddressHeld`: no round forwards with a nil `serviceURL`, including the rounds that reuse an address because `retryCounter` is not 0. TypeOK also bounds `retryCounter` below `svcAddrRetryCount`.
- `AllReturn`: every `RoundTrip` returns.
- `SelectsCeiling`: a finished search returns a variant, never `""`, whose prefix sum reaches the draw. `CeilingUpToTie`: the search never returns a variant past one whose prefix sum exceeds the draw. The result is the lowest ceiling or, on a tie, the next entry, which bounds finding 4. `LowestCeiling` asks more: the lowest such variant. `IndexInRange`: the search never indexes past the end of the list.
- `CancelStopsRetries`: once its client has disconnected, a `RoundTrip` starts no further round (design section 5: cancellation wins and every wait unblocks).
- `Agreement`: while nothing is deleted, concurrent `createOrGetJob` calls that succeed return the same job, whichever one won the Create.
- `ImplementsRegistry`: the Get, Create and second Get of every call, interleaved with deletes, behave as one atomic get-or-create per call.

**Bounds.** Three requests or calls are enough for every interleaving these properties are about:
- a request waiting while another's late run sends;
- one leader and two followers;
- a follower arriving after the leader released the key.

`ChanCap` 1 covers both the rendezvous and a result waiting in the buffer. `maxRetries` 3 with `svcAddrRetryCount` 2 lets one call reach the threshold, reset, resolve again and still reach its last round. Lists of up to five variants reach every depth of the search at which `low + high/2` leaves the list, and weights up to 2 give draws that fall between and on prefix sums. Three `createOrGetJob` calls cover a winner, a loser of the Create race and a caller whose first Get already sees the job.

**Fairness.**
- Handler goroutines and their timers are weakly fair: the Go scheduler and `time.After`.
- So is a callback past its body read.
- Job completion and request arrival are not fair: they belong to the backend and the client.
- In `Forwarder`, every call's steps are weakly fair, and the executor is assumed to answer; its call carries the function timeout or the request context.
- A sleep ends (`Wake` is weakly fair): `time.Sleep` always returns.
- The throttler timeout of a follower and the client's disconnect (`Cancel`) are not assumed fair.
- `FindCeil`'s loop runs on the request's goroutine, so its steps are weakly fair.
- `WasmJob` checks only safety and assumes no fairness.

**Deadlock.** Every run sets `CHECK_DEADLOCK FALSE`. The sets of requests and calls are finite, so the model stops once all of them are answered. Blocking that matters is checked as liveness instead: `CallbackEventuallyAnswered` and `AllReturn`.

## Findings

1. **The callback can block forever.** `functionOutputHandler` blocks in `fh.functionOutput <- ans` (line 235) whenever no request is waiting, for example after a timeout. It then never stores the result. Design 4.2 says this send is non-blocking. Run `callback_blocks`.
2. **The metric misses Redis errors.** After a Redis error (line 151) the metric records 200 for a 404 response. `MetricMatchesResponse` states the property; a unit test with a failing Redis reaches this, so no run is kept for it.
3. **Followers get no address.** A single-flight follower runs the `RunOnce` callback, reads the stubbed cache and gets a nil address marked `cacheHit = true` (lines 722–727). Design 4.3 and 8 say followers share the leader's address. Run `follower_nil_address`.
4. **Ties select the next variant.** `findCeil` moves `low` past `mid` when the draw equals its prefix sum (line 551), while design 3 and 4.5 ask for the lowest entry whose sum is at least the draw. Run `findceil_lowest`: sums `<<1, 2>>` with draw 1 return entry 1.
5. **The index can run past the list.** `mid = low + high/2` (line 550) can exceed the last index. Run `findceil_panic`: with sums `<<1, 2, 3, 4, 5>>` and draw 3, `low` becomes 3 and `mid = 3 + 4/2 = 5`, so `wtDistrList[mid]` panics (line 551). The final `wtDistrList[low]` (line 557) can panic the same way, for example with sums `<<1, 2, 3, 5>>` and draw 5.
6. **The search can loop forever.** With `mid = low + high/2`, `high = mid` can leave `low < high` unchanged, so `findCeil` spins (line 550). Run `findceil_ends`: sums `<<1, 2, 3, 4>>`, draw 3, `low` 2 and `high` 3.
7. **A function without a pod spec crashes the executor.** `createOrGetJob` dereferences `fn.Spec.PodSpec.TerminationGracePeriodSeconds` (job.go:22) before the check that returns "podSpec is not set". `NoPanic` states it; one call reaches it, so no run is kept for it.
8. **Cancellation does not stop the retry loop.** `RoundTrip` waits with `time.Sleep` after a nil address (line 344) and after a dial error (line 479). The sleep ignores the request's context, so a client that disconnects during it leaves the call sleeping, and then the loop starts another round. Design section 5 says cancellation wins at once and every wait, the backoff sleep included, unblocks. Run `forwarder_cancel`: a follower sleeps after its nil address, its client disconnects, and it wakes into round 2.

The per-function channel also hands the late result of a timed-out request to the next request of the function (lines 169 and 235). This is not listed as a finding. The job takes no input from the request, `createOrGetJob` reuses the running job, and design 8 lets a request return whatever completion arrives in its wait. Every nil-address wait also takes one of the `maxRetries` rounds (the `continue` at line 346). No run here shows a call running out of rounds that way.

## Proofs

`InvocationProofs.tla` proves `TypeCorrect`: `Spec => []TypeOK`. It holds for all values of `Requests`, `ChanCap` and `SyncMode`. It assumes `ConstAssumption`: `ChanCap \in Nat`, `SyncMode \in BOOLEAN`, `None \notin Requests`. `TypeOK` pins the status codes that handler writes (200 or 404, in the response and in the metric) and that the callback writes (200 or 500). The proof has one step per action. It uses the lemmas `AnswerType` (a return keeps `rpc`, `resp` and `metric` typed) and `ResponsesTyped`.

`WasmJobProofs.tla` proves, for all sets of callers and deleters and every pod spec, `TypeCorrect` (`Spec => []TypeOK`) and `AgreementHolds` (`Spec => []Agreement`). `Agreement` is not inductive: a loser of the Create race must find the winner's job. The inductive invariant adds `ReturnedIsStored`: while nothing is deleted, every call that returned holds the stored job, and a job is stored. `Create` stores only under a free name, so by this invariant no call has returned before it.

`WasmJobProofs.tla` also proves `RegistryRefinement`: `Spec => ImplementsRegistry`. Every `WasmJob` step maps to a `JobRegistry` step or a stutter. `Get` finding the job, `Create` succeeding and `Reget` finding the job are `GetOrCreate`; an API error is `Fail`; `Start` without a complete pod spec is `Crash`; `Delete` is `Delete`; the other moves between pending places are stutters. Two lemmas say how the mapped `Status` changes: `PendingMove` (unchanged) and `EndMove` (one call's status set).

`ForwarderProofs.tla` proves, for every set of calls and addresses and all positive `maxRetries` and `svcAddrRetryCount`:
- `TypeCorrect`: `Spec => []TypeOK`.
- `SingleFlightHolds`: `Spec => []SingleFlight`.
- `AddressHeldHolds`: `Spec => []AddressHeld`.

The positivity of the two settings is `ForwarderAssumption`. `agent.go` does not enforce it: line 109 parses both settings with `strconv.Atoi` and never checks the range. So these theorems cover the deployments that configure both settings positive.

None of these is inductive by itself. `IInv` adds three facts:
- `LeaderCalls`: outside poolmgr, a call at the executor holds the throttler's key;
- `ResolvingFresh`: a call that is resolving has `retryCounter` 0;
- `RoundBounds`: a call inside a round has `i < maxRetries`, and the untaps deferred never exceed its rounds.

`LeaderCalls` puts every executor call inside `{leader}`, whose cardinality is 1. `ResolvingFresh` is what `AddressHeld` needs when a follower's `Resume` sets `serviceURL` to nil: `retryCounter` is then 0. `RoundBounds` keeps `i` and the untap count inside their types. The step lemma `IInvStep` has one step per action. `ExecutorReply` is split by its two outcomes, with a step per conjunct, because `Release` also moves every follower of the key. TLC checked `IInv` as an invariant, with `Poolmgr` both TRUE and FALSE, before the proof.

`FindCeilProofs.tla` proves, for all `MaxLen` and `MaxWeight` (`FindCeilAssumption`):
- `TypeCorrect`: `Spec => []TypeOK`;
- `SelectsCeilingHolds`: `Spec => []SelectsCeiling`;
- `CeilingUpToTieHolds`: `Spec => []CeilingUpToTie`.

The inductive invariant adds two facts about the running loop:
- `Bracketed`: entry `high` exists and its prefix sum is at least the draw;
- `PassedBelow`: `low` is at most the length and has only moved past entries whose sum is at most the draw.

`Bracketed` holds because the draw is at most the total and `high` moves only to a `mid` whose sum exceeds the draw. At the exit, `low >= high`, and because the sums increase (`ListFacts`), entry `low` reaches the draw. `PassedBelow` holds because `Step` moves `low` past `mid` only when the draw is at least `mid`'s sum, and so at least every earlier sum. The out-of-range `mid` shows in the model only as the panic state, never as a wrong variant. TLC checked this `IInv` before the proof.

**What stays with TLC.**
- The liveness properties, because TLAPS does not handle fairness and ENABLED: `RequestsEventuallyRespond`, `CallbackEventuallyAnswered` and `AllReturn`.
- The properties the code violates (`CallbackEventuallyAnswered` with `ChanCap` 0, `LowestCeiling`, `IndexInRange`, `SearchEnds`, `FollowerGetsAddress`, `CancelStopsRetries`). For these, the counterexamples TLC finds are the result.

## Not modelled, and the plan

Not modelled, and why:
- `functionServiceMap` (`pkg/router`): the agent does not reach it in this build, because `fmap` is commented out of `functionHandler` and the stubbed cache functions stand in for it. Its methods wrap `pkg/cache`, which is not in this repository, so a model would restate the design's TTL contract rather than translate code.
- The overflow of the backoff product (`executingTimeout * timeoutExponent`, lines 345 and 480). `time.Duration` is a 64-bit count of nanoseconds, and TLC's integers are 32 bits wide, so the wrap at 2^63 cannot be reproduced. Reaching it would also take backoff sleeps of centuries, so it is no practical hazard. Durations are left out of `Forwarder`, where they change no control flow.
- `mutableRouter` (`mutablemux.go`): `ServeHTTP` loads the router from an `atomic.Value` and calls it, and `updateRouter` stores a new one. `atomic.Value` alone makes each dispatch use one whole router, whatever this code does, so a model would check Go's semantics rather than this code.
- `util.MergePodSpec` (job.go:39) is outside the repository, so what it returns with its ignored error is not known.

Planned next:
- `Agreement` under deletes, as a property of `JobRegistry` carried to `WasmJob` by the refinement.

Left out on purpose:
- the agent bootstrap in `agent.go`, which is configuration parsing;
- the `test-short` CLI;
- the tests;
- request and header formatting (`addForwardedHostHeader`, the path rewrite);
- the reverse proxy's error-status mapping.
