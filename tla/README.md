# ProofGate in TLA+

ProofGate is a gateway in front of LLM providers: it authenticates a tenant's
call, runs it through a pipeline of stages (metering, agent-run limits, rate
limit, smart routing, budget, guard, cache), sends it to a provider with retries,
failover and hedging, and monitors in the background whether its cost-saving
routing and caching keep their quality. This directory models the parts of it
that are hard to test: state shared between concurrent requests, between
replicas through Redis, and between a request and time.

- `PROJECT.json` lists components, runs, mutants, findings, hazards and theorems,
  and maps every definition to the lines it models.
- `tlc -config X.cfg MCModule` repeats a run, `tlapm XProofs.tla` a proof.

## 1. Inventory

Paths are relative to `src/internal/` unless they start with `src/`.

| Component | State it keeps | Operations | What is hard | What makes it correct |
|---|---|---|---|---|
| Circuit breakers, `router/breaker.go` | per target and replica: failures, openUntil, probing | Allow, Success, Failure, OpenFor, open | every request of the replica calls them in between everything else | it trips, it closes only on success, openings are bounded, a probe resolves |
| Plan and Execute, `router/route.go`, `execute.go` | the loop of one request | Plan, Order, Execute | stale breaker state, context ending anywhere, retries | every request is tried, failover is exhausted, attempts are bounded, it returns |
| Hedging, `router/hedge.go`, `server/stream.go` | decaying hedge budget; two racing attempts | Request, Allow, ExecuteHedged, openStream | the loser ends after the request did | one answer, the loser is cancelled, the share of hedges is bounded |
| Pipeline, `pipeline/pipeline.go`, `app/pipeline.go` | how many stages ran | Before, Respond, After | short circuits; After of the stage that refused | what a Before booked its After settles |
| Rate limit, `ratelimit/` | two Redis buckets per tenant | Take, Adjust, key expiry | estimates replaced by usage later, debt, expiry | usage is paced by bucket and refill |
| Budget, `budget/` | Redis ledger per tenant and month | Reserve, Add, Spent, PurgeTenant | reservations of overlapping calls, month's turn, fail-open | the ledger is the cost plus what is reserved, within the limit; what is stranded on it is known |
| Agent runs, `agentrun/` | Redis hash, fingerprint list and embeddings per run | Step, Charge, fuzzy Check, PurgeTenant | check and charge apart, expiry in flight | counters cover the usage, loops are stopped |
| Auth cache, `auth/` | LRU of principals, negative entries | resolve, EvictKey, EvictTenant | a lookup in flight during a revocation | a revoked key stops within its TTL |
| Control bus, `control/` | Redis pub/sub; handlers per operation | Publish, Subscribe, Run | loss while disconnected, late delivery | an event is applied or the TTL bounds the staleness |
| Provider keys, `secrets/` | cache with single flight, epoch and stale grace | Get, Purge, PurgeProvider | joiners of an old resolve | a purged credential is not cached again |
| Admin sessions, `adminauth/`, `store/admin_users.go` | sessions, index sets and lockout counters in Redis, accounts in PostgreSQL | Login, ValidateSession, RevokeSession, RevokeAllUserSessions, ListSessions, the account handlers | every operation is several round trips, most of whose errors are ignored; requests interleave between them | a revoked session never returns, account changes end sessions, lockouts hold for parallel guesses |
| Response cache, `cache/` | exact entries, vectors, tag sets in Redis; write slots | Before, After (asynchronous put), Purge by scan or tag | a put after a purge, a reload in between, purges of peers | an answer fits the request it is given to, purged content stays purged |
| Erasure and stores, `store/` | SQL records, overrides, Redis keys | Erase, PurgeTenant, SetOverride | a sequence of steps that may fail one by one | after an accepted erasure only a message under way or a late lookup keeps the tenant in |
| Streams and analytics, `server/stream.go`, `analytics/`, `proof/shadow_cache.go` | chunk channel, timers and contexts of a stream; buffered rows | serveStream, pump, Emit, loop, Close | stalls, clients that leave or stop reading, late timers, a signal or a failing listener at any moment | streams end, no cut answer is cached, accepted rows are written |
| Proof, `proof/` | leader lock, labels, daily shadow spend, monitors' verdicts | Step, RunOnce, CanSpend, AddSpend, EvaluateAndRecord, RunMonitor | two leaders after a stall, check-then-spend, lost replies | the lock is a lease, spend stays near its limit, scores credit the right model |
| Health, `health/` | averages, counts and breaches per target; peers' reports | Observe, Merge, evaluate, broadcast, publish, pull, probe | reports are repeated, reordered, echoed and lost | no degradation that nobody measured, old reports do not keep a target degraded |
| Configuration, `config/`, `server/overrides.go`, `server/runtime.go` | file, override rows, the current runtime | Load, Watcher, reload, PollOverrides, rebuild, rollbacks | two goroutines set one half each and rebuild | the newest of both wins, it is always valid, a rollback arrives |
| MCP proxy, guard, smart routing, telemetry | little or none of their own | | | see "Not modelled" |

How they interact: a handler (`server/chat.go`) loads the current runtime, builds a
`pipeline.Call`, runs the stages' Before hooks in order, calls `router.Execute` or
`ExecuteHedged` over the breakers, which are shared by all requests of the replica,
and runs the After hooks in reverse. The stages share state with the calls of other
replicas through Redis scripts. Health samples and breaker reports flow from the
calls back into the order of later plans. Control events, overrides and reloads
change what later calls see. Monitors run beside all this on one elected replica.

## 2. Plan

| # | Modules | What they compose | Status |
|---|---|---|---|
| 1 | `Breaker`, `RouterExecute`, `RouterProofs` | requests, clock and contexts over shared breakers | done |
| 2 | `TokenBucket`, `Admission`, `AdmissionProofs` | three pipeline stages over Redis, faults, expiry, purge | done |
| 3 | `HedgeBudget`, `HedgedExecute`, `RouterProofs` | ExecuteHedged over `RouterExecute`, the hedge budget, the goroutines that open a stream | done |
| 4 | `ControlBus`, `KeyCache`, `AuthCache`, `KeyCacheProofs`, `AuthCacheProofs` | provider credentials and API keys cached on every replica, over a lossy control bus | done |
| 5 | `LeaderLease`, `ProofLeader`, `ProofLeaderProofs` | the leader lock, label worker, routing evaluations and the spend guard; `LeaderLease` is the abstract specification | done |
| 6 | `HealthSharing`, `GatewayProofs` | trackers of several replicas over gossip and Redis | done |
| 7 | `AdminSessions`, `AdminSessionsProofs` | login, sessions, index, accounts and the control CLI | done |
| 8 | `ResponseCache`, `ResponseCacheProofs` | lookups and asynchronous writes against purges, erasure, reloads and peers | done |
| 9 | `Serving`, `GatewayProofs` | handlers, streams, cache writers, usage batcher and shadow recorder against shutdown | done |
| 10 | `Config`, `ControlLoop`, `GatewayProofs` | parsing, validation, lint and overlay as operators; watcher, poller, monitors and administrator as actions | done |

Every invariant and action property of the passing runs is also a theorem; what the runs
check beyond that is liveness (section 5).

## 3. Modules

### Breaker and RouterExecute

`Breaker` has one operator per method of `Breakers`, on one breaker record. The
mutex is held for each method's whole body, so a method is one atomic function.
`RouterExecute` has one `breaker` record per target and, per request, Execute's local
variables: the plan, `ti`, `n`, `res.Attempts`, the kind of `lastErr` and whether the
context has ended.

| Action | Code |
|---|---|
| `Start`, `OrderTarget`, `OrderDone` | Plan hands over a base plan; Order classifies target by target, one breaker read each; health may answer anything |
| `Visit` | Allow, the skip unless last, the context check, the count of the attempt |
| `CallSucceeds`, `CallFails` | fn returns; Success, or OpenFor with a Retry-After |
| `Classify` | second context check, Failure, and the decision: done, next target, retry |
| `Wake` | the end of the jittered sleep, by timer or context |
| `ContextEnds`, `Tick` | plan deadline or client cancellation at any moment; the clock |

Steps are cut at the breaker's critical sections: between two of them other requests
run. Errors are abstracted to the four kinds `classify` tells apart. The nil breaker
registry of tests and the shortest Retry-After that is copied into the error are
left out.

### TokenBucket and Admission

`TokenBucket` holds the arithmetic of the two Lua scripts and the key's expiry;
levels are integers, with a whole refill per tick, so the scripts' fractions of a token
do not occur. `Admission` follows the calls of one tenant, all of one agent run,
through `agentrun`, `ratelimit` and `budget`, in the order of `StageOrder`; one Redis
script is one step. `pc` is the stage a call is in; a refusal jumps to the After of the
stage that refused (`c.ran` counts it), then down in reverse order.

| Action | Code |
|---|---|
| `Arrive` | Chat builds the call |
| `RunBefore`, `FuzzyBefore` | stepScript; the fuzzy check with its extra Take |
| `LimitBefore` | takeScript |
| `BudgetBefore` | reserveScript, or the read of `reserve: off` |
| `Upstream` | guard, cache, execChat or the stream and `price`: any usage, cost and hedge cost of `Usages` |
| `BudgetAfter`, `LimitAfter`, `RunAfter` | addScript, adjustScript, Charge |
| `Crash`, `Tick`, `PurgeLedger`, `PurgeRuns` | a replica dies; time and key expiry; tenant erasure |

Each Redis round trip may fail, before the command took effect or after it: the reply of a
script that ran may be lost, and the client library may then repeat the command or give up
(`RepeatOrFail`). An error refuses a strict tenant's call and lets any other through. So an
estimate may stay booked without `budget.reserved` being set, and a call that failed open is
charged in full on top of it; `stranded` counts what is booked in this way. `policy` fixes
strictness, reservation and fuzzy check for a behaviour. Ghost variables (`bill`, `over`,
`stranded`, `drawn`, `deepDebt`, `ledgerOff`, `runOff`) record what really happened, to
state the properties; no guard reads them. Left out: limits of zero (unlimited) and calls
without a run, which skip a stage; the run's cost estimate, which the code passes as 0; the
embeddings of the fuzzy detector; the 40 day expiry of the ledger, longer than a month; and
two further writers of the same keys, the embeddings handler (`server/embeddings.go`), with
a Take and a Reserve of its own, and the embeddings that the cache and the fuzzy check ask
for (`src/cmd/proofgate/main.go:243`), which only add their cost.

### HedgeBudget and HedgedExecute

`HedgeBudget` has one operator per method, each atomic under the budget's mutex. The
code's float counters are exact fractions here (`hedges / unit`, `ShareNum / ShareDen`);
rounding is left out. `HedgedExecute` EXTENDS `RouterExecute`: a request first races the
first two targets of its plan and hands the rest of a lost race, or a plan too short
to be raced, to the same `Visit`, `CallFails`, `Classify` and `Wake` as before.

| Action | Code |
|---|---|
| `StartRace` | the budget's Request, the launch of the primary, the timer |
| `TimerFires` | Allow and the launch of the hedge |
| `AttemptReturns` | fn returns (for a stream: after the first token, a failure, or the first-token timer) and sends its outcome to the channel |
| `Watch` | openStream's goroutine that cancels the stream with its attempt's context |
| `ReceiveSuccess` | finish: breaker Success, the loser cancelled, the discarding goroutine started |
| `ReceiveFailure` | classify, breaker Failure; on the last failure the return or the rest of the plan |
| `RaceContext` | the plan's deadline or the client ends the race |
| `Discard` | the discarding goroutine takes the loser's outcome |
| `ExecuteStep`, `ExecuteServes` | Execute over the rest |
| `OthersRequest`, `OthersHedge` | other requests of the route on the same budget |

The watcher has three states, since Go's select behaves differently in them: `new` (it
has not run yet: if both channels are ready when it does, it may take either),
`waiting` (blocked, so the first event wakes it) and `off`. `total`, `launched` and
`raced` are ghosts. Left out: the delay's length (the timer may fire at any moment), the
cost of the wasted attempt, which `Admission` takes as an input, and metrics.

### ControlBus, KeyCache and AuthCache

`ControlBus` is Redis pub/sub as `control/bus.go` uses it: `Publish` reaches any subset of
the replicas (the ones whose subscription is up; none if Redis fails), `Take` is the
loop of `Run`. `KeyCache` and `AuthCache` EXTEND it. In both, a lookup is one singleflight
per name, cut where its locks are free; the requests that join it get its answer.

| `KeyCache` action | Code |
|---|---|
| `Miss`, `Begin`, `Check` | Get's fast path, singleflight, the second check |
| `ReadEpoch`, `Load` | loadEpoch; the store's answer and the decryption, or a failure of either |
| `Answer`, `Fallback` | the entry is kept if the epoch has not moved; a stale entry within its grace, or the error |
| `SetCredential`, `PurgeLocal`, `Invalidate` | handleSetCredential: commit, local purge, event |
| `PurgeSecrets`, `AnnouncePurge` | POST /admin/secrets/purge |
| `ProviderKeySet` | proofgatectl, which tells nobody |
| `Dispatch`, `Tick` | the bus handlers; the clock |

A credential is its version; `commits` records when each became active, `purged` and the
flight's `floor` are ghosts: the active version at the last purge, now and when the
flight began.

| `AuthCache` action | Code |
|---|---|
| `Miss`, `Begin`, `Check` | both caches missed, singleflight, the second check |
| `Lookup`, `Accept`, `Refuse` | KeyByHash; the entry of the positive or the negative cache |
| `CreateKey`, `RevokeKey`, `EraseTenant` | the store's part of a command, by a replica's admin API or the CLI |
| `EvictLocal`, `Announce`, `Dispatch` | EvictKey or EvictTenant here, the event, and there |

`evicted` and `crossed` are ghosts. Left out: the limiter of failed attempts, which only
refuses; the recency order of the LRU (any other entry may be the one evicted) and the
negative cache's capacity (a dropped negative entry costs a lookup); restarts, which
empty both caches; the message format. `Tick` lets a load or a lookup, with
the instructions that store its answer, take no longer than its timeout (5 s in the code); a
goroutine that is suspended for longer between the answer and the store would add to the
bounds of `ServedRecently` and `AnswersRecent`.

### LeaderLease and ProofLeader

`LeaderLease` says what the lock promises: one holder, passed on only by lapse or by the
holder, and a belief in leading that starts only with a grant. `ProofLeader` is the
code: a Redis key with a TTL, the steps of the leader goroutine, the label worker, the
routing evaluations and the daily counter. `Lease` maps the key and its TTL to the
lease, a successful SETNX whose reply is under way to a grant, and `isLeader` to the
belief.

| Action | Code |
|---|---|
| `Step` (`StepAcquire`, `StepRenew`, `StepReply`) | Leader.Step: the renew script or SETNX in Redis, then the reply, which may be lost |
| `Release`, `Released`, `Exit` | Stop's release script and its reply; the process ends anywhere |
| `LabelStart`, `LabelFetch`, `LabelJudge`, `LabelInsert`, `LabelBook` | RunOnce: IsLeader once, then per record CanSpend, the judge, the row, AddSpend |
| `EvalStart`, `EvaluateRouting`, `EvalInsert`, `EvalBook` | RoutingShadow's goroutine: both answers judged in a random order, the scores mapped back, row, AddSpend |
| `Tick`, `Midnight` | expiry of the lock; the next day's counter |

Texts and prompts are left out; a judge's reply is its verdict. A judge that cannot be
understood twice yields "not acceptable" or a tie of 0.5. One estimate is one unit of
spend.

### HealthSharing

One target, any number of replicas, one record per tracker: the average and the count
of each metric, breaches, degraded, the age of the last breach. Averages are rounded to a
small scale in either direction (`Blends`), so every float outcome is included. A metric
is bad above its limit or, in `LowIsBad`, below it (`Outside`). What a request adds
(`Samples`) depends on its outcome: a successful one adds its times and token rate, whatever
they are, and a zero to the error rate; a failed one only a one to the error rate; one whose
client left may still add a token rate. `missed` is a ghost: some request failed or
measured outside its limit. A slow success is therefore enough to degrade a target, as in
`tracker.go:232-237`. The limits are fixed for a behaviour; whether a replica has an SLO for the
target may change (`SetTargets`).

| Action | Code |
|---|---|
| `Request`, `Probe` | Observe of a call's outcome or of the prober's |
| `BroadcastOnce`, `MergeMessage`, `Lose` | gossip: a signed datagram that is checked, merged, repeated, delayed or lost |
| `PublishOnce`, `PullField` | the Redis hash: own field written, the others merged |
| `SetTargets`, `Crash` | SetTargets and SetSLOs; a restart, which empties the tracker |
| `Tick` | time: recovery, the skew check and the Redis TTL |

The acceptance checks of `validateStats` are two predicates (`MayAccept`, `MayReject`) since
counts are capped at `Cap` in the model: at the cap either may be true. Signatures are
either right or the message is dropped.

### AdminSessions

Each command to Redis and each statement to PostgreSQL is a step of the request that
issues it; requests of several clients interleave between them. A command that changes
Redis may fail, before it took effect or after it; the code ignores most of these errors
and goes on, so a DEL that failed is followed by the SREM (`RevokeSession`,
`RevokeUnindex`) and leaves a session that no later revocation finds. Such a session is in
`crossed`. An error of the address's counter lets an uncounted attempt pass
(`login.go:133`).

| Actions | Code |
|---|---|
| `RunLogin`, `RunUser`, `RunSession`, `RunOwn` | the commands of proofgatectl and its session file |
| `Login`, `CheckLoginLockout`, `CountUser`, `CountIP`, `LookUp`, `ClearFailed` | handleLogin and Service.Login: the attempt is counted, then judged |
| `NewSession`, `StoreSession`, `IndexSession`, `FinishLogin` | CreateSession: SET, then the two SADD |
| `AuthGet`, `AuthTouch`, `Dispatch` | ValidateSession with its SETXX; the permission check |
| `RevokeSession`, `RevokeUnindex`, `SweepList`, `SweepDel`, `SweepDrop`, `SweepForget`, `ListSessions`, `ListPrune` | revocation of one, of a user's and of all sessions, and the listing that prunes |
| `CreateAdminUser`, `ReadRow`, `Statement`, `Commit`, `BootstrapAdmin` | account changes; a statement reads its snapshot before it commits |

`basis`, `dead`, `crossed`, `tickets` and `admitted` are ghosts: the row a login was judged
by, the sessions that ended, those whose login crossed a sweep or on which a command
failed, the attempts a counter has counted and not yet turned away, and those of them
whose password was compared (`Compare`, where `LookUp` compares it) since the counter's
reset. A password is its version. Left out: the in-memory store of tests, hashing, errors
that only end a request, the repetition of an INCR by the client library, which only
makes the lockout stricter, and two things the code has but never uses (`ResetFailedLogin`,
`must_change`). The ceiling per address counts successful logins too,
although the comment at `login.go:68` calls it a failures ceiling.

### ResponseCache

Redis is a function from keys to entries (with the life left) and one of tag sets; a call
has the plan, the cache section it was started with, and the place it has come to.

| Action | Code |
|---|---|
| `Begin` | Eligibility, Scope and ContextHash under the configuration of the moment |
| `LookExact`, `LookSemantic` | Before: exact hit, nearest vector, shadow candidates |
| `Upstream` | After: the shadow record, `storable`, the slot of a writer |
| `PutExact`, `PutSemantic` | the writer's goroutine |
| `PurgeByScan`, `ScanBatch`, `NextPattern`, `PurgeEnd` | purgeByScan, one key of a batch at a time; an entry written meanwhile may be scanned or not |
| `PurgeByTags`, `UnlinkTagged`, `TagsEnd` | purgeByTags: members read, then batches of UNLINK in any order |
| `PeerPurge`, `PeerPurgeEnd`, `PurgeUnheard`, `PurgeRefused` | purge_cache at the other replicas, or lost to one of them; a request that is refused and published all the same |
| `ErasePostgres`, `EraseRedisEnd`, `EraseEnd` | TenantEraser.Erase, handleTenantErase |
| `AuthStored`, `EvictTenant`, `AuthExpires` | a replica caches a tenant's principal, takes the eviction message, or drops the principal by its TTL |
| `Tick` | expiry of entries and tag sets |

Hashes are injective, so a key is the tuple it hashes. A vector is its text, and
nearness a relation on texts. `EraseEnd` evicts the tenant's principals on the replica that
runs it and publishes a message for each of the others (`notices`), which takes it later or
never; a PUBLISH that fails may have been sent all the same. A lookup that read the
tenant's key before the erasure may store it afterwards (`AuthStored`, at most `MaxLate`
times); `missed`, a ghost, has the replicas to which that happened. A replica lets a tenant in
(`Admitted`) while Postgres or its own cache has a key. A writer's command may fail before it took
effect or after it (`Store`). Left out: the mutations in ClickHouse, which the receipt
reports as pending, and the other Redis families of an erasure (`Admission` has
the ledger and the runs).

### Serving

A call is its handler, the pump's goroutine, the upstream stream, the chunk channel and
what the assembler holds; the usage batcher and the shadow recorder are queues with a
loop; `main` is how far run has come in its shutdown.

| Action | Code |
|---|---|
| `Chat`, `ExecChat`, `ServeStream`, `ReplayStream` | Chat with a hit or a miss, whole or streamed |
| `OpenStream`, `FirstTokenTimeout` | openStream of one attempt; its timer, which may fire after the token came |
| `PumpSend`, `PumpRecv`, `StreamIdleTimeout` | pump: send or give up, Recv of one of three providers, the stall timer |
| `ServeChunk`, `LoopEnds`, `Finish` | serveStream's loop, its error frame, `[DONE]` and the assembled answer |
| `ClientLeaves` | the request's context ends; a write may still succeed |
| `AnswerBlocks`, `WriteReturns` | a write to a client that reads no more blocks; it returns when the client reads on or the connection ends |
| `AfterCache`, `WriterEnds`, `AfterUsage` | the After hooks that hand rows to queues and answers to a writer |
| `Collect`, `FlushInterval`, `NoticeStop`, `FinalFlush` | the loops of Batcher and ShadowRecorder |
| `Shutdown`, `Drain`, `CloseUsage`, `CloseShadow`, `RunReturns` | the end of run after a signal; drain and flush timeouts |
| `ListenerFails` | run returns a listener's error at once: no drain, no flush, no Close |

A wire is the sequence of events one provider sends: which carry text, the finish reason or
usage, and where the stream ends (OpenAI by `[DONE]`, Anthropic by `message_stop`, Gemini by
EOF). `ServingAssumption` says of wires that the finish reason comes with the last text or
after it, as it does in all three protocols: the code takes the finish reason for the sign
that an answer is whole. No server has a WriteTimeout and no write a deadline
(`src/cmd/proofgate/main.go:532-538`), so `Deliver` and `AnswerBlocks` may block for as long
as the client keeps its connection. Once a handler is done the call is reduced to what its
writer and pump still need (`Answered`). Left out: clients that close only their sending
half, the guard's chunk filter, headers, and the `mcpAudit` and `decisionBatch` batchers,
which are further instances of the same type. The model shows that an early, clean EOF ends
a stream with `[DONE]` and without an error, that a client that leaves while no write fails
does so too (neither is cached, the finish reason is missing), and that the stall timer also
fires when the client is slow, which does not end a blocked write.

### Config and ControlLoop

`Config` holds operators without state: `applyEnvOverrides`, `applyDefaults`, `validate`,
`Lint`'s errors and `ApplyOverrides`, on a record with the fields they tell apart. The many
numeric fields are one function, so a default or a check is one line for all; of a name, a
proxy list and a URL there is what the checks find. `PlanTargets` is what a call of a route
may be sent to: with smart_route on, its cheap or strong target comes first
(`smartroute/stage.go:114-123`, `server/exec.go:76-86`). `validate` does not look at the
providers of these (`config.go:938-942`), so `Routable`, the last part of `RuntimeSound`,
excepts them: a call whose smart_route target names an unknown provider ends with 503,
without failover, since `classify` takes that error for final. `ControlLoop` is the process
around them.

| Action | Code |
|---|---|
| `Load`, `NewWatcher`, `Exit` | start-up (the only place that lints), the watcher's first hash, the end |
| `Watch`, `Reload`, `WatchRebuild` | Watcher.Run and handleReloadConfig, then the callback's rebuild |
| `PollRead`, `PollApply`, `PollRebuild` | PollOverrides: the query, `lastOvs`, the rebuild if they differ |
| `MonitorTick`, `MonitorCheck` | MonitorAllRoutes: a bad verdict sets the mode to shadow or off |
| `CacheApplyMode`, `CacheApplyThreshold` | the two rows of ProofAdminHandlers.CacheApply, which is wired to no route of the repository: it stands for an administrator who writes them |
| `Edit` | the file changes at any time, also to an invalid one |

After a start the overrides apply only from the first poll on, since start-up reads
none. The monitors' statistics are a verdict that may be anything.

## 4. Runs

| Run | Result | What it shows |
|---|---|---|
| `router` | pass, 1.2 M states | tripping, bounded openings, every request tried, failover exhausted, only success closes |
| `admission` | pass, 4.0 M states | ledger accounted for, limit, pacing, run counters, loop limit, with lost replies and repeated commands |
| `hedged` | pass, 0.8 M states | the hedge share, losers released, failover after the race, every request returns and no goroutine is left behind (`RacesEnd`) |
| `keycache` | pass, 2.1 M states | a purged credential does not come back; a replaced one is used for a bounded time |
| `auth` | pass, 4.5 M states | answers are bounded by lookup and TTL; evicted keys stay out unless a lookup crossed |
| `leader` | pass, 0.9 M states | spend, overlapping runs, double labels, the right score; Redis implements the lease; somebody leads again |
| `reload` | pass, 0.3 M states | a settled runtime is current and always valid, with registered providers in its plans but for smart_route's targets; a rollback arrives |
| `sessions` | pass, 2.9 M states | revoked for good; only a login that crossed the sweep or a failed command keeps a session from it or from its index; lockouts hold |
| `health` | pass, 0.4 M states | no degradation that no request measured; echoes die |
| `cache` | pass, 4.3 M states | answers fit, purged entries stay gone, who still lets an erased tenant in |
| `serving` | pass, 0.5 M states | only whole answers are stored, accepted rows are written or known to wait, streams end unless their client blocks, shutdown ends |
| `cache_purge_scope` | violation | a purge limited to a route becomes a global one at every peer |

The type invariants of `RouterExecute`, `Admission` and `KeyCache` are proved as `TypeCorrect`;
each other module's is a conjunct of one of its invariants (`LosersReleased`,
`EvictedUnlessCrossed`, `LabelledOnce`, `RuntimeSound`, `SessionsIndexed`, `NoRumour`,
`AnswerFits`, `RowsKept`).

Bounds of `router`: two requests and two targets are the least for interference and
failover; the plans `<<a, b>>` and `<<b>>` make b the last resort of one request and
the fallback of the other. Threshold 2 needs failures of both requests or a retry;
cooldown 1, Retry-After 2 and a clock of 2 let a breaker open, become half-open and
be probed, with openings of both lengths. The requests are symmetric.

Bounds of `admission`: two calls overlap in every way and compete for a budget of 3
with estimates of 2 (or 0, without a price), a bucket of 4 with estimates of 2 and
usages up to 4, and a run of 2 steps with 2 allowed repeats. A clock of 2 covers two
refills, the expiry of the buckets and of the run, and one month's turn.
`MaxFaults = 1` allows one fault anywhere: an error, a lost reply, a repeated command,
a crash or a purge.

Bounds of `hedged`: one request, since requests meet only in the breakers (covered by
`router`) and in the budget, where the others are an environment that may ask at any
time; plans of three, two and one target, for a race with and without a rest and no
race. Two attempts per target, threshold 1 and a clock of 2 let breakers open and be
probed by the rest of the plan. A window of 2 requests decays at the third
(`MaxHedgeRequests = 3`, and the request's own); a share of 1/2 allows a hedge within it.

Bounds of `keycache`: two replicas, one of which is asked, so that rotations and
purges come from the same and from another replica; two of them, a TTL, a grace and a
load timeout of one tick and a clock of 4 let an entry expire, be served in its
grace and be replaced, with both events lost or late. `auth`: one replica and the CLI,
two keys of one tenant in a positive cache of capacity 1 (eviction by capacity, an erasure
that covers both), two commands and a clock of 3, which is one tick past the bound.

Bounds of `leader`: two processes are enough for a stale leader and its successor; a
TTL of 2 lets a leader miss one renewal and keep the lock, and lose it at the next; one
record that both may label, one evaluation, a limit of one estimate, so that three
workers can pass the check together; one error (a lost reply or a failed command) and one
midnight. Nothing bounds time: the clock only counts the lease down.

Bounds of `reload`: one process (processes meet only in the override table, where the
monitor and the administrator write beside it), five versions of the file (valid, a
ticker stopped, an unknown provider, a cache mode lint refuses, and a smart_route target of
an unknown provider, which is valid), leftover rows that are out
of range or of a route that is gone; one edit, apply, error and restart.

Bounds of `sessions`: an administrator and a second one, two tokens (the first one issued
and a new login), two symmetric clients with three requests in all, two account
changes, one error, and timeouts and lockouts of one tick with a clock of 1, so that
each expires once. One attempt and one address are allowed, so two parallel guesses
suffice to break a lockout.

Bounds of `health`: two replicas, one metric, the token rate, on a scale of two values
(within the SLO or not, so that slow and failed requests differ) with two breaches to
degrade, one restart or reload and one packet in flight, which may be delivered any number
of times. The error rate and the time to the first token are in the theorem. Breaches of 1
are excluded, since there one peer's report degrades a target at once and `EchoDies` does
not hold; the default is 3.

Bounds of `cache`: two calls, the first of which writes what the second may find, with
requests that differ in tenant, user, text or history; two configurations (per user or not,
shadow or on) between which a reload may switch at any time; one purge by route or tag, or
one erasure, with its message to one peer, taken, late or lost; one lookup that ends after
the erasure; one Redis fault.

Bounds of `serving`: a streamed and a whole call, each provider's wire with its three or
two events, a chunk channel of 1 (16 in the code, so that it fills), queues of capacity 1
(so that they overflow) and batches of 2. Either client may block at any write.

Deadlock checking is off where requests, edits or calls are finite and everything may
end; in `leader` and `health`, which go on for ever, it is on.

Fairness. `HedgedSpec`: weak fairness of each goroutine by itself, the request's, each
attempt, each watcher and the discarding one: the Go scheduler runs every goroutine, a sleep
ends by timer or context, and a provider call ends because the HTTP client has a timeout and
the plan a deadline. An attempt that waits for room in the channel is not enabled, so
fairness does not hide a leaked goroutine. `ProofLeader`: the leader's ticker and the clock;
nothing of Redis, whose errors are bounded, or of the workers. `ControlLoop`: the tickers of
watcher and poller and the goroutines they drive, and that a process that can start is
started. `HealthSharing`: the prober's ticker and the clock; nothing of traffic, network or
Redis. `Serving`: the handlers, the loops and the timers. A write that blocks is fair only
once the connection is gone (the context is done, and the server closes it): `StreamsEnd`
therefore excepts a client that stays connected and never reads again, and nothing else. A
provider's Recv is fair only once its context is cancelled, so a provider may stall for ever
and the timers have to end it; the client's steps and the shutdown signal are not fair.

## 5. Proofs

For every value of the constants that satisfies `BreakerAssumption` and
`ExecuteAssumption` (positive threshold, cooldown and attempts, non-empty plans over
the targets, 0 among the Retry-Afters), `RouterProofs` shows:
`TypeCorrect`, `FailuresTrip`, `WindowBounded`, `RequestsAreTried`,
`FailoverExhausted`, `BoundedAttempts` and the action property `ClosedBySuccess`.

The properties are not inductive by themselves. `IInv` adds where each request is in its
plan: from `visit` on, the plan is non-empty and `ti` is one of its positions; while the
plan is being ordered, base and tiers together are non-empty; during an attempt,
`attempts` is at least 1 and leaves room for the retries that remain (`n` below
`MaxAttempts`); after a failure, `lastErr` is an error kind. Without it neither the last
resort (the loop could run off an empty plan) nor the bound on attempts can be
derived. The proof has a lemma per action, with a step per conjunct it may disturb.

`AdmissionProofs` shows, under `AdmissionAssumption`, `TypeCorrect`,
`LimitRespected` and `BucketPaced`. Its `IInv` adds `TokSound`: a live token bucket is
at most full, was not written in the future and, without a deep debt, is at least
minus one bucket. This is what makes expiry harmless: after a life of two refills
(`BucketTTL * TokRate = 2 * TokCap`) such a bucket would be full anyway, so the
full bucket that replaces the expired key forgives nothing. `OveruseIsPaid` drops the
proviso, and `MCAdmissionClaims.cfg` refutes it.

`LedgerIsAccounted`, `RunCounted` and `LoopsAreStopped` rest on a second inductive
invariant, `AccountInv`. The sums of the model are cardinalities (`SumOver` counts units),
so that a change of one call's share moves the sum by as much (`SumMoves`) without an
induction over the calls. `LedgerOK` is the balance itself, with `stranded` for what no call
knows of; what makes it inductive is `CallOK`: a call holds nothing before the budget stage,
and what it holds is booked on the month it noted, so that `BudgetAfter` takes from a month
that has it and the floor of `addScript` is never met. `CountOK` counts the calls between
`stepScript` and the note that `After` relies on as well, which `RunCountsAll` leaves out: a
fuzzy refusal only lowers what must be covered. `WindowOK` says that the window holds all
steps of the run while they fit, one for every call that entered with the fingerprint, and
fewer than `LoopRepeats`. No finiteness of `Calls` is assumed: only finitely many ever hold
something.

Of `HedgedExecute`, `RouterProofs` shows `ShareKept`: for every window and share, the hedges ever
launched stay within the share of all requests. Its inductive invariant `BudgetInv`
splits them into two parts, the hedges in the window within the share of
the window's requests, and those that decay took out within the share of the requests it
took out. The first alone says nothing about the route's life, and the total alone is
not kept by decay.

`LosersAreReleased` and `FailoverFollowsRace` rest on `RaceInv`, which relates the
goroutines of a race: every attempt that has returned has at most one outcome in the channel
(`ChannelOK`), an open stream is the winner's or its outcome is still in the channel
(`StreamsOK`), `pending` is the number of outcomes due and the discarding goroutine waits
exactly if the loser's is (`RaceOK`). It also carries what the order of the plan keeps
(`OrderOK`). `FailoverFollowsRace` assumes `DistinctPlans`: the configuration does not
refuse a route that lists a target twice, and such a route would call a raced target again.
The proof reuses the lemmas about `RouterExecute` for the rest of the plan.

`KeyCacheProofs` shows, under `KeyCacheAssumption`, `TypeCorrect`, `PurgedForGood` and
`AnsweredRecently`, for any number of replicas and names. `PurgedStaysPurged` alone is not
inductive: a load under way may hold an old version. `IInv` adds that a flight's
epoch is at most the cache's, and that a loaded version is not older than the last
purge if the two are equal (`FlightOK`): a purge moves the epoch past every flight,
and what is read later is at least the version active at the purge. For `ServedRecently` it
adds that a loaded version was active when the load began (`AliveAt`), at most a
timeout ago, and that an entry ends within a TTL and a grace from now, whatever
is replaced next (`EntrySound`).

`AuthCacheProofs` shows `AnswersStayRecent` and `EvictedStaysOut` under
`AuthCacheAssumption`, for any number of replicas and any finite set of keys (the capacity
is a cardinality). `Cell` dates what a replica knows of a key: a lookup under way is within
its timeout, and an answer that the key's end or creation has overtaken was asked for before
it. `Gone` adds that an evicted key which no lookup crossed is neither cached nor found by a
lookup under way.

`ProofLeaderProofs` shows, under `LeaderAssumption` (finite sets of processes and evaluations, which
the bound on the spend counts), `SpendStaysBounded`, `OverlapNeedsLapse`, `RecordsLabelledOnce`,
`ScoresTurnedBack` and the refinement `ImplementsLease`. `SpendSound` bounds the booked spend plus
one for every worker between CanSpend and AddSpend, since the spend alone does not say who
is still going to book; `UncutHolds` ties a run to the lock; `LabelSound` says that what a
run has left to label has no label as long as no two runs overlapped.

`AdminSessionsProofs` shows `RevocationLasts`, `SweepsCatchStale`, `SessionsFound` and
`LockoutNeverPassed` for any number of clients, users, tokens and errors. Its invariant says
what each handler may rely on after each round trip (`ReqOK`): a login's token is its own
and unused until it is stored, a validation that is about to touch a session has read one of
the same user, a sweep holds only tokens that were stored. `IndexedUnlessOwed` and
`StaleMet` are the two promises with the request that still owes their fulfilment; `Counted`
says that the attempts a counter has let through, compared or about to be, are no more than
it has counted and no more than it allows.

`ResponseCacheProofs` shows `AnswersFit`, `PurgedIsGone` and `AcceptedLocksOut` under
`CacheAssumption` (modes, lifetimes and flags of the routes have their types; requests and
purges name tenants and routes that exist). `EntryOK` says that an entry is the answer of the call
it names, under a key that call derives from its own snapshot; `ScanOK` that the scan still
has to come to every entry it has to delete (`Ahead`), over the patterns it visits one by
one; `PurgedOK` carries what a finished purge has established past later writes, and of an
erasure that no replica has the tenant cached without a message for it or a late lookup (`Locked`).

`GatewayProofs` has the theorems of three specifications that share no state (their top-level
names therefore differ: `HealthSpec`, `ServingSpec`).

Of `ControlLoop` it shows `RuntimeIsCurrent` and `RuntimeIsSound` under `ControlAssumption`
(the files decode to the configuration's types, and the table starts with one row per route
and key), for any number of processes and any environment. Its core is about `Config`:
defaults keep the shape of a file and leave no number zero (`ParsedShape`), an override that
is taken has a value its field allows (`EffectiveValue`), and so the overlay of a valid file
is valid under any rows, those of unknown routes, with unknown keys or with bad values
included (`OverlayValid`). `Kept` adds that the file a process rebuilds from has parsed.
Then `rebuild` never keeps the runtime it had, which is what makes `RuntimeCurrent`
inductive: a rebuild that failed would leave a settled process on the old file or on the old
overrides.

Of `HealthSharing` it shows `DegradedOnlyIfMeasured` under `HealthAssumption`, for any number
of replicas, any metrics, SLOs, smoothing weights and bounds. `NoRumour` is not inductive: a
target is degraded by averages, and the averages come from reports. `HealthInv` adds
`Unblemished`: until a request fails or measures outside a limit, every tracker, every packet in
flight and every field in Redis that has counted a metric holds a value within its limit,
and no breach is counted. It rests on two lemmas about the rounded weighted average, for
any weights: a blend stays on the scale (`BlendsRange`), and a blend of values within a
limit is within it, whichever way it is rounded (`BlendsWithin`). Without the second,
merging reports could drift over an SLO by rounding alone.

Of `Serving` it shows `AnswersStoredWhole` and `RowsAreKept` under `ServingAssumption`, for
any number of calls, any wires, and any lengths of the channel, the queues and the batches.
For the first, `LiveOK` says that there is a number of events the assembler has taken in
(`Assembled`), that the chunks in the channel are made of the events after it, in their
order (`ChannelOK`), and that the pump holds or reads the one after these (`PumpOK`); only
Gemini's usage chunk is made of no event, and it is the last. So an assembler that has a
finish reason has every event up to it, and by the assumption on wires all the text
(`TextsAll`). `PhaseOK` says that a writer runs only on a provider's answer with a finish
reason, and that serveStream waited for the pump. For the second, `Ledger` is the balance of
a queue: a row was accepted exactly if it is in the channel, in the batch or written.
`Ends`, `Closing` and `Idle` follow the order of the shutdown: the usage queue is closed
only after the drain, so a drained process refuses nothing; the recorder accepts rows after
its end too, and only `Idle` (no handler is left once the requests are drained) excludes
that one is offered then. Of a process that a listener's error ended only `Ledger` is left:
what it had accepted and not written was waiting in a queue or a batch.

Only model-checked: what is about liveness under fairness (`RacesEnd`, `SomebodyLeads`,
`RollbackReaches`, `EchoDies`, `StreamsEnd`), which the prover does not
reach.

## 6. Findings

`cache_purge_scope`: handleCachePurge publishes `purge_cache` without its options, also
when it refused the request, and the subscriber of every other replica purges
everything. All replicas share one Redis, so with two of them a purge of one tenant or
route ends as a purge of the whole cache (`server/admin_cp.go:889`,
`src/cmd/proofgate/main.go:503`, against `src/docs/admin-cli.md:182`).

### Known disagreements

Further properties that a comment, a document or a test claims and the model refutes. Each
has a configuration; `tlc -config X.cfg M` prints the counterexample. Where a configuration
lists two, TLC stops at the first it refutes: leave that one out for the other.

| Configuration, module | Property | What happens |
|---|---|---|
| `MCRouterClaims`, `MCRouterExecute` | `ProbeResolves` | a probe that ends in a 429 without Retry-After, in a fatal error or with its context leaves `probing` set; the breaker refuses its target until it is called as some plan's last resort |
| `MCRouterClaims`, `MCRouterExecute` | `RetryAfterHonoured` | `Failure` overwrites a longer opening by a Retry-After with the cooldown |
| `MCAdmissionClaims`, `MCAdmission` | `RunReconciled` | a refusal by the fuzzy loop check leaves its estimate in the run |
| `MCAdmissionClaims`, `MCAdmission` | `OveruseIsPaid` | a token debt deeper than one bucket is forgiven by the key's expiry, since refused takes do not refresh it |
| `MCHedgedWinner`, `MCHedgedExecute` | `WinnerKept` | the watcher of a race's winner, if it first runs after ExecuteHedged has returned, may cancel the stream the client is reading |
| `MCAuthEvicted`, `MCAuthCache` | `EvictedAtOnce` | a key lookup that crosses a revocation or an erasure caches the key after the eviction, for another TTL |
| `MCAdminLast`, `MCAdminSessions` | `AdminRemains` | two statements that disable or delete the last two administrators each see the other's row unchanged and both pass, unlike "at least one active administrator always exists" (`store/admin_users.go:107`) |
| `MCControlLoopEdits`, `MCControlLoop` | `EveryEditLoaded` | an edit between Load and NewWatcher is taken for the loaded file and not applied until the next edit, unlike "calls onChange with each new valid config" |
| `MCHealthCounts`, `MCHealthCounts` | `ReportsAccepted` | Merge adds the peers' counts to its own, so a few replicas that report to each other pass the count that `validateStats` accepts, and their reports are dropped from then on |
| `MCCacheTags`, `MCResponseCache` | `TaggedArePurged` | a purge by tag and route deletes the tag set with the other routes' members, and a tag set takes the life of the last entry written; later purges by the tag miss entries |
| `MCCacheDocuments`, `MCResponseCache` | `DocumentsIsolated` | ContextHash leaves out the last user message, so with a client's query text two requests whose documents are in that message share an answer, unlike `src/docs/configuration.md:411` |

Noticed while reading, without a property: operators have no `session:manage` permission, so
the self-service that `src/docs/admin-cli.md:103` describes is refused; an SLO that is
removed by a reload while its target is degraded leaves it degraded; ShadowRecorder
accepts tasks after Close, which are lost, while a closed Batcher refuses rows
without calling onDrop; a listener's error ends the process without its drain and its
last flush; a client that keeps its connection and reads no more holds its handler and pump
until the process ends; the targets of smart_route are not validated.

## 7. Not modelled

- Guard, smart routing and the MCP proxy: pattern matching, a stateless choice and the
  translation of one exchange. Their refusals and choices are inputs of the models.
- The tuner and the statistics: confidence intervals over real numbers, which a finite
  model cannot represent; a verdict may be anything.
- Provider formats, tool calls and requests: text. `Serving` has the order and the end of
  their streams.
- Envelope encryption, the Vault client, ClickHouse, tracing, metrics, HTTP helpers and the
  benchmark tools: cryptography and I/O without state that other parts race for.
- Two hazards of `agentrun` have no property: a Charge that recreates the hash of
  a run that expired meanwhile (`agentrun/runs.go:114`), and the fuzzy check's extra
  request from the tenant's bucket (`agentrun/stage.go:115`); both are in `Admission` as
  the code has them, and its ghosts account for them.
- Composition: the modules meet through the assumptions each makes of the others (any
  answer of health to `RouterExecute`, any usage to `Admission`, any verdict to
  `ControlLoop`); they are not run as one model, whose states would be the product.
