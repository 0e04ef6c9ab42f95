# gmiter in TLA+

gmiter is a traffic-governance library for Go services, a relative of
Sentinel: an application wraps each call of a *resource* in an *entry*, and rules
decide whether the call passes, waits, is refused, is mocked or is routed
elsewhere. Everything happens in the goroutines of the application, on shared
atomic words, with hardly a lock; this project models what those goroutines do
to each other.

Paths below are relative to the root of the repository (`src/` in
`PROJECT.json`). Modules, configurations and proofs are all in this directory.

## 1. Inventory

### How a request travels

    api.Entry ── options from entryOptsPool, context from ctxPool
      └─ SlotChain.Entry
           prepare   stat.ResourceNodePrepareSlot        finds or creates the stat node
           check     system 1000, flow 2000, isolation 3000, hotspot 4000,
                     circuitbreaker 5000, mock 5000      first refusal wins
           route     gray                                runs for refused requests too
           stat      stat.Slot 1000, log, flow standalone 3000,
                     hotspot concurrency 4000, circuitbreaker 5000
      ├─ refused: SeaEntry.Exit at once, the caller gets a BlockError
      └─ passed:  the caller works, reports errors (SetError, TraceError) and calls
                  SeaEntry.Exit ── exit handlers, SlotChain.exit (OnCompleted of every
                  stat slot), RefurbishContext (the context goes back to its pool)

Rules reach the components through their rule managers (`LoadRules` and
`LoadRulesOfResource`, each a copy-on-write swap under a mutex), which are called
by the application, by data sources (`ext/datasource`), by the command centre
(`transport/http/command`) and by the goroutine that polls the dashboard
(`transport/http/fetch_rule_init_func.go`).

### Components

| Component | State it keeps | Operations | What makes it correct | Here |
|---|---|---|---|---|
| Circuit breaker, `core/circuitbreaker` | `state`, `nextRetryTimestampMs`, `curProbeNumber`, a one-bucket (by default) statistic | `TryPass`, exit hook, `OnRequestComplete` | follows its diagram; nobody passes before the retry timeout; never stuck HalfOpen; closes after `ProbeNum` probes | `CircuitBreaker`, `BreakerStateMachine` |
| Slot chain and entries, `core/base`, `api` | context and option pools, per-entry `exitCtl`, handlers, error, result | `Entry`, `Exit`, `SetError`, `Reset` | a context serves one entry; nothing of an earlier request is seen by a later one; each pass completed exactly once | `EntryLifecycle` |
| Stat node, `core/stat` | `resNodeMap`, concurrency, two sliding windows | `GetOrCreateResourceNode`, `OnEntryPassed`, `OnCompleted` | concurrency is the number of entries in flight | `EntryLifecycle` |
| Sliding window, `core/stat/base` | ring of buckets (start, counters), update lock | `AddCountWithTime`, `GetSumWithTime` | a sum is what was added in the window | `LeapArray` |
| Flow: reject, `core/flow/tc_default.go` | the rule's statistic | `DoCheck` | no more than `Threshold` grants per interval | `RejectChecker` |
| Flow: throttling, `core/flow/tc_throttling.go` | `lastPassedTime`, `lastSystemTime` | `DoCheck` | places in the queue keep their distance; refused requests leave no trace; a clock set back is noticed | `ThrottlingChecker` |
| Flow: warm-up, memory-adaptive | stored tokens, last fill time | `CalculateAllowedTokens` | tokens and thresholds stay within bounds | `FlowTokens` |
| Flow: cluster | downgrade time, cluster metric, request limiter | `checkInCluster`, token client, server and Redis service | what is granted is bounded whatever is late, lost or asked again | `FlowTokens` |
| Hot spot, `core/hotspot` | LRU caches of times, tokens and concurrency by parameter | `PerformChecking`, concurrency stat slot | token bucket per parameter, concurrency never negative, loops end | `HotSpot`, `LruCache` |
| Isolation, `core/isolation` | none (reads the stat node) | `checkPass` | refuses above the threshold | in `EntryLifecycle` |
| Rule managers (flow, breaker, hot spot, isolation, system, mock, gray, retry, weight) | raw, valid and built rules | `LoadRules`, `LoadRulesOfResource` | what runs is what was loaded last; unchanged rules keep their state, and counts survive | `RuleManager`; retry and weight in `ClientCall` |
| Data sources, rule fetching | last property, rule versions, watcher | `Handle`, timer loop, `ImmediatelyLoadOnce` | the newest rules are in force in the end; nothing takes rules away | `RuleSources` |
| Mock, `core/mock`, response cache in `core/base` | rules; responses with ages | `PerformChecking`, `MockRspExitHandler` | first answering rule decides; limit on resources, ageing, reports | `MockResponses` |
| Gray routing, weight router | rules | `Router`, `GetTargetNodeByWeightRule` | a decision belongs to its request; a drained node gets no call | `EntryLifecycle`, `ClientCall` |
| Retry, `core/retry` | retry context, backoff context | `ExecuteWithRecoverAndState` | attempts and waits as the policy says | `ClientCall` |
| Metric log, `core/log/metric` | last fetch time, files and index | `doAggregate`, `Write`, search | every second once, found again by the index | `MetricLog` |
| System check and metrics, configuration, logging, exporter, heartbeat, spi, utilities, other adapters | little or none | I/O, reading the system, start-up | - | not modelled |

`PROJECT.json` lists the same components with the files of each.

### What is hard here

Concurrency without locks is the heart of it: check-then-act on separate atomic
words (breaker, throttling, reject, isolation, hot spot), objects reused through
`sync.Pool`, buckets that are recycled while others read and write them, entries
that are exited from other goroutines than they were opened in, panics in the
middle of the chain, and a wall clock that may be set back. Around it are the slow
parties: rules that arrive by four ways at once, token servers that answer late or not
at all, calls that are tried again while the rules behind them change, files that are
rolled while they are searched. `PROJECT.json`,
"hazards", lists 40 places with the line and the properties that watch it, or
the reason why none does.

## 2. The modules

| Module | Models |
|---|---|
| `BreakerStateMachine` | the diagram of `circuit_breaker.go`: the promise of a breaker to an observer of its state, with the fairness that a HalfOpen breaker gets decided |
| `CircuitBreaker` | one breaker, any number of goroutines, every atomic operation a step; implements `BreakerStateMachine` |
| `CircuitBreakerProofs` | its theorems |
| `EntryLifecycle` | entries of one resource from `api.Entry` to `RefurbishContext`, the two pools, the stat node |
| `EntryLifecycleProofs` | its theorems |
| `LeapArray` | the sliding window as a component: `AddCountWithTime` and `GetSumWithTime`, step by step, for any number of callers |
| `RejectChecker` | `RejectTrafficShapingChecker.DoCheck`, composed with `LeapArray` (EXTENDS): it starts the operations, `LeapArray` carries them out |
| `RejectCheckerProofs` | their theorems |
| `ThrottlingChecker` | `ThrottlingChecker.DoCheck`, every atomic operation and every reading of the clock a step |
| `ThrottlingCheckerProofs` | its theorems |
| `LruCache` | the LRU cache of `core/hotspot/cache` as operators on its value: `AddIfAbsent`, `Get`, eviction of the oldest |
| `HotSpot` | the hot spot slot and its stat slot for one resource: `PerformChecking` of both strategies and of the concurrency metric, every atomic operation and every operation on a cache a step |
| `HotSpotProofs` | its theorems |
| `RuleManager` | the rule managers of flow, breaker, hot spot, mock, gray, isolation and system rules: both loads, comparison, reuse of controllers and statistics |
| `RuleSources` | how rules reach a manager: fetch timer, single load, command centre, file and its watcher, crashes |
| `RuleSourcesProofs` | its theorems |
| `MockResponses` | which mock rule answers; the requests and responses kept for the dashboard and their reports |
| `MockResponsesProofs` | its theorems |
| `FlowTokens` | how many tokens a flow rule allows: warm-up, memory-adaptive, token server, Redis, downgrade |
| `FlowTokensProofs` | its theorems |
| `ClientCall` | one outgoing call of the go-micro wrapper: gray selection, weight router, retry, while rules are replaced |
| `MetricLog` | the metric log: aggregator, writer, rolling files, both searches, the window of the sender |
| `MC...` | the finite sets that TLC needs |

An action is named after the Go function or, when a function has several atomic
steps, after what the step does; its comment names the statement. A goroutine has
a program counter (`pc`, `phase`, `step`) because that is what a preempted
goroutine keeps. Variables carry the Go names of the fields they stand for;
variables that stand for nothing in the code are marked "history" in their
declaration and only record what the properties speak of. Definitions under the
comment "A plausible slip" are not part of the specifications: they are mutants,
and `PROJECT.json` says which property each one breaks.

### CircuitBreaker

`TryPass`, `RetryTimeoutArrived`, `FromOpenToHalfOpen` are the check;
`BlockedDownstream` and `ExitHook` the fate of a request that this breaker
admitted and a later slot refused; `OnRequestComplete` to `ResetTotal` the
completion of a request that ran. The three strategies differ only in what a
failure is and in `ThresholdReached`; everything else is the same code three
times, and one set of actions.

- Time is the variable `wait`: how far `nextRetryTimestampMs` lies ahead, and `due`, the same of the
  sum that a goroutine has computed from its reading of the clock (`ReadClock`) and not yet
  stored (`UpdateNextRetryTimestamp`). `overtaken` and `lost` are history: the age of such a reading when
  another opening overtook it, and the same of the goroutine that stored last.
- `PassBy` is a request of a service the rule is not for (`LimitApp`): it is not checked, and completes on
  the breaker like any other.
- `curProbeNumber` saturates at `ProbeNum`, which is all its comparison can tell.
- The statistic is one bucket, the default of the rules. It can be found expired
  at any moment, and there always is one, so the path of `OnRequestComplete` that finds no counter
  is not there. With `StatSlidingWindowBucketCount` above 1 it is: a goroutine whose reading of the
  clock is outdated returns early (`circuit_breaker.go:300-304`), and if it was the probe, the breaker stays HalfOpen,
  for ever with `ProbeNum` 0. That is not modelled. `StatCap` bounds its counters; for `ErrorCount` nothing is lost
  as long as it reaches the thresholds.

### EntryLifecycle

`Entry`, `LookUpNode`, `CreateNode`, `Check`, `Route`, `OnEntryPassed`, `Return`
are `api.Entry` and `SlotChain.Entry`; `Recover` is its deferred `recover`; `Exit`,
`RunExitHandlers`, `OnCompleted`, `ExitPanics`, `Reset` and `RefurbishContext` (the reset of the context, and its return to
the pool) are `SeaEntry.Exit`; `SetError` may come at any moment from any goroutine. A value a
request leaves somewhere (error, gray route, source service) is represented by
the entry it came from, so that "whose is it?" can be asked.

- Only isolation has state of its own among the rule checks; the others may
  refuse anything.
- A panic strikes an entry of `Faulty` between the effects of two slots.
- `SeaEntry` keeps its pointer to a context that after `Exit` belongs to the pool or to another entry, and
  `SetError` and a further `Exit(WithError)` write to it (`core/base/entry.go:52`, `:131`). `late` is history: whose
  error came after the reset. `ErrorsOwned` says that no other error gets from one user of a context to the
  next; that such a late one does is in section 3.
- The inbound node of the system does the same arithmetic as the node of the
  resource and is left out.

### LeapArray and RejectChecker

Time is counted in buckets. A caller of the statistic compares the start of the
bucket, tries the lock, stores the start, zeroes the counter and adds, each a
step; a reader collects the valid buckets and sums them later. A request sums,
adds itself in advance, sums again and takes itself back if that is too much.

Buckets are turned by several requests at once and the clock moves on in the middle of a check, so
additions do get lost, and the quota is not kept strictly (section 3). Three history variables say how far it is
out: `plus` and `minus` are the requests whose addition or subtraction is in the counter of its bucket,
`astray` those whose addition was wiped out by a turn, dropped or made to a bucket of another period, who
took back what was gone, or who decided by a sum for a period that was over. `QuotaKept` and
`CountIsGrants` allow one grant, or one count, for each of these and nothing more.

`Statistic` says what the rule was given to count in: with "view", a statistic of the resource that it shares, there is
nothing to write to, `DoCheck` lets everything pass and `QuotaKept` fails at once.

### ThrottlingChecker

`lastPassedTime` is the end of the queue, `lastSystemTime` the clock reading of
the last call; reading the clock for it and storing it are two steps. The clock moves on in the middle of calls
(`delay` is history: how far during one call) and may be set back once, by more than the tolerated second, also
then. A granted request has a `place`, the value `lastPassedTime` got for it; it is told to wait from its own reading of
the clock up to its place, so it does not run before it. `displaced` is history: a request that was
granted its place while another had added to the queue in vain and not yet taken that back, and those from
before the queue was started afresh because of a skew. `Spacing` and `QueueIsGrants` except these and no
others. `lastPassedTime` is any integer: the roll-backs of two requests can leave it below the time of the first grant.

### HotSpot

A counter is an `int64` that a request allocates and hands to `AddIfAbsent`, so the
request stands for the pointer, and `time`, `token` and `concurrent` hold what is
behind it. This keeps apart what the code keeps apart: a counter that was evicted
lives on in the hands of those who loaded it. Each iteration of the loop of
`PerformChecking` starts at `ReadClock` with new locals; the reject strategy goes
`AddTime`, `LoadTime`, then `Refill`, `LoadOld`, `SwapRefill`, `Stamp` when the
window has passed and `Spend`, `LoadRest`, `SwapSpend` within it; throttling goes
`AddTime`, `LoadTime`, `SwapTime`, `StampExpected`, `Wake`. `Decide`,
`OnEntryPassed`, `AddPassed`, `Exit`, `OnCompleted`, `AddCompleted` are the slot chain
and the stat slot, which unlike `Slot.Check` does not ask for `LimitApp`.

- The clock counts from the first arrival. After `LastStart` it goes on only for
  those who wait for it, up to `MaxClock`, and a sleep ends by then.
- `ExtractArgs` looks, in the order of the code, at attachments, header, metadata, and
  the arguments with the fields of the first. A request has at least one
  argument: on an empty list `args[0]` panics, and the recovery of `SlotChain.Entry` lets
  the request through.
- `disturbed` is a history variable: it becomes true when a request takes a step
  while another is between the two writes that fill a bucket or set a time. The code
  swaps the tokens and stores the time afterwards, and throttling swaps in the
  present and stores the end of the queue afterwards, so `RateKept` and `Spaced`
  claim nothing any more once somebody was disturbed. Without that premise TLC
  violates both: the window is refilled twice, two requests take the same place. These two say
  nothing of the interleavings that are hard, only that nothing else breaks rate and spacing.
  `TokensInBucket` and `SlotGetsEmpty` hold for every interleaving.
- `NoEviction` restricts `RateKept`, `Spaced` and `ConcurrencyExact` to rules whose
  cache has had room for every argument so far: an eviction starts an argument
  anew, which is what an LRU of bounded size is meant to do.
- `SlotGetsEmpty` needs time to pass: times and tokens are two caches, and while the
  tokens of an argument are evicted and its time is not, `Spend` sends the loop
  round again until the window has passed.

### RuleManager

The seven managers under `core` are copies of one design, so a behaviour is about
one of them (`mgr`) and two goroutines that update it. `Load...` is a call up to the
comparison with what was loaded last and the building of the new controllers,
`...OnRuleUpdate` and `...OnResourceRuleUpdate` the swap under the second lock, `Record`
the note of what was loaded. A rule has what its manager's equality compares (`key`),
what its statistic depends on (`group`) and what the equality overlooks (`id`), so that
"the same rule" means what the code means by it. `Place` is the loop of
`buildResourceTrafficShapingController` over `calculateReuseIndexFor`: a controller or
statistic that was used leaves the list of the old ones. `byId` is `tcIdMap` of flow, one map of all
resources keyed by the identifier alone: a whole load makes it anew in the order of a Go map, a load of one
resource overwrites what others have under its identifiers, and removes the entries that lead to it when it
has no controllers left. `shared` is history: identifiers that two resources had in force at once. What
`FoundById` says is for the others; section 3 has what happens to these.

### RuleSources

The dashboard publishes versions; a rule list is its version. `Timer` is the fetching
goroutine, `Once` is `ImmediatelyLoadOnce`, `Command` a push handled by the command
centre, `Watcher` a file source: `Initialize`, `ReadSource`, `Update`, `Gone`. Writing a
file is two steps (truncate, write), so a watcher can read it empty and two writers can
tear it; the timer and the single load share a lock, the command centre has none.
`Crash` leaves the files and nothing else. `registered` says whether `Initial` of the fetching function got as far
as registering the handlers and starting the timer; if not, `ImmediatelyLoadOnce` finds no handler, applies nothing and
records the version (`HandleNothing`).

`NewestInForce` is a liveness property with two excuses. One is that no timer was started. The other is `spoiled`, for
which the code gives five reasons:
a push that comes late, the single load and an initialisation that put older rules over newer
ones (the initialisers run in the order of a Go map, so the timer may be ahead
of the file), a file that two writers tore or that could not be written, a property that was remembered before its
update failed, and a file that disappeared, whose watcher gets stuck in its own
`Close`. With any one of these taken away TLC finds the property violated.
The updater registered for isolation files is the one of gray rules and refuses
them, and the authority handler does nothing: both are in the model (`FileUpdates`, `Handles`).

### MockResponses

`Perform` and what it uses are the matching of `core/mock`; how strings match by prefix, part or regular expression
is the constant `Pattern`, so what holds, holds for every way of matching. `IsFor` and `Says` state the matching of rules once
more, as a reference for `AnsweredByFirst`. `Call` walks the rules one by one, sleeps where they say so and
stores the request. `NeedReportRequest`, `NextResource`, `LoadOrStore`, `SendRequest` are the report of
requests, by the timer and by a command, resource by resource and along the list of each; `MockRspExitHandler` and the steps after it
(`GetResourceNode`, `NewResourceNode`, `Stamp`, `RemoveResourceNode`) store a response,
split where the node is looked up and taken; `SendRsp`, `Posted`, `PostFails` send responses. A post fails before it arrived
or after: the sender cannot tell, and remembers the older list (`unanswered`). Facts the model shows: an "or" rule asks for a present key and not
for its value; of a full list of requests the newest is dropped together with the
oldest (`reqs[1:OneResourceLimit]`); requests of failed posts are lost; a request without headers is
answered by every rule of its resource, which a comment and a test deny (`Mock_headers`, section 3).

### FlowTokens

`Call` is a caller in cluster mode: `canPassCheck`, `allowRemoteProceed`,
`GetClientRequestLimiter`, `ClientTryPass`, then `RequestToken` and `sendTokenRequest`, or
`RedisRequestToken` with its `luaScript`. `Serve` is a handler of a token server, from
`acquireClusterToken` to `Grant` or, for the throttling behaviour, from `priorityHandle`
to `Append` and `Undo`. `Local` is `syncToken` atom by atom (`LoadOld`, `LoadTokens` and `CoolDown` to `Fill`),
`CalculateAllowedTokens` and `PerformChecking`. Time is in seconds and a count is that of the present
second: the buckets are `LeapArray`'s. The client gives up after 3 s and the window
of the downgrade is 2 s from before the request, so after a time-out it is over
when it begins; `DowngradeDurationInMs` is never read. A threshold so small that the warning
line is the size of the bucket makes the slope NaN, and nothing is limited.

### ClientCall

One call of the go-micro wrapper from its entry to its answer. `Router` and what it
uses are the selectors of `core/gray`; `GetActualRule` to `GetTargetIndexByWeightRule`
the weight router; `Build`, `CanRetry`, `RegisterError`, `Sleeps` the retry template with
every policy and back-off a rule can name. The weight rules are read at the start of a
call and the retry rules in two steps (`ReadRules`, `ReadTemplate`), while
`LoadWeightRules` and `LoadRetryRules` replace them. `AnsweredWithinPolicy` counts for policies that count (`simple`, `max`, and a call without a template): each attempt is one call and
the three the wrapper may add. The "never" policy does not make the first attempt, which its comments promise (section 3).
`drained` and `blank` are history: what
the lists in force since the call began said. What the model shows and no property
forbids: clearing the
rules of a resource leaves their template in force; a nil rule that heads a list leaves
the manager locked (`locked`); after a 408 the new context is cancelled with its attempt,
so the next attempt is made on a dead one; a list of weights all zero sends calls
anywhere.

### MetricLog

`Aggregate` is `doAggregate`, `TakeBatch` to `CreateIndex` the writer task at the grain of
what a search can see of it: the index entry, the items, each removal, each creation.
`FindOffset` and `Read` are a search, one step per file, over the names that it
listed at its beginning; `Handle` and `SendMetric` start it, one at a time, because the handler
holds its lock to the end. `Indexed` says which lines a search owes: those of the second
in which a process starts have no index entry, and those whose entry was removed with
an older file have none any more. A roll that fails after the old files were closed
leaves the writer with a closed file for the rest of the process, and the sender
passes over a window whatever became of its posts. `SearchExact` does not notice the closed file, for its lines
are never on the disk. The lines of a second are written in one step; `metricOut` flushes every 4096 bytes
(`writer.go:104-119`), so a search may meet a part of a second or a torn line, which the reader skips: that is not
modelled. A query without `maxLines` does not get the default of 6000 the handler sets, and the handler documents a parameter
`identify` and reads `identity`; the model does what the code does.

## 3. The runs

All of them pass, except `Mock_headers`, which is there to be violated. Those of throttling, hot spot, sources, mock,
client and metric log need between one and three minutes, the others less.

| Run | Bounds | What it shows |
|---|---|---|
| `Breaker_probe` | 2 goroutines, ErrorCount, threshold 2, timeout 2 ticks, `ProbeNum` 0, counters up to 2; 546,072 states | type invariant (the timestamp never lies further ahead than the timeout); `HalfOpenOwned`; `TimeoutArmed`; the refinement of `BreakerStateMachine`, safety and fairness |
| `Entry_pooled` | 2 entries, contexts, options and nodes, 2 stat slots, isolation threshold 1, one entry that may panic; 151,101 states | type invariant; `ContextPartition`; `ErrorsOwned`; `ConcurrencyExact`; `EveryEntryFinishes` |
| `Throttling_queue` | 3 requests, batches 0 to 2, thresholds 0 and 1, queue 2, clock 0 to 5, set back by 2; 3,650,897 states | type invariant (nobody waits longer than the longest queue); `Spacing`; `QueueIsGrants`; `SkewNoticed` |
| `Reject_quota` | 3 requests, ring of 3 buckets, window of 2, clock 4 to 8, threshold 1; 579,608 states | type invariant; `QuotaKept`; `CountIsGrants` |
| `HotSpot_params` | 3 requests, 2 arguments, a token bucket, a throttling or a concurrency rule with room for one argument, arrivals up to 1, clock up to 4; 340,821 states | type invariant with the consistency of list and map; `TokensInBucket`; `ConcurrencyExact`; `RateKept`; `Spaced`; `SlotGetsEmpty` |
| `Rules_update` | each of 7 managers, 2 updaters, 2 resources, 8 kinds of rule, 3 loads; 269,548 states | `RunsWhatWasLoaded`; `StatisticOwnedOnce`; `FoundById`; `StatisticsSurvive` |
| `Rules_sources` | 1 rule type, 2 versions, 1 push, 1 failure or crash; 474,050 states | `RecordedWasApplied`; `RulesStay`; `NewestInForce` |
| `Mock_responses` | 2 goroutines with 2 calls, 2 resources, lists of 2 requests, responses of 1 resource, 1 failed post, 1 load of rules; 998,886 states | `AnsweredByFirst`; `ReportedOnce`; `NodesBounded`; `ResponsesArrive` |
| `Mock_headers` | the same | that `HeadersRequired`, the comment on `MockCheck`, is violated: a request without headers is answered |
| `Flow_tokens` | 2 callers with 2 calls, 2 handlers, 10 rules, 4 seconds, 1 fault; 1.18 million states | `GrantsBounded`; `ThresholdInBounds` |
| `Client_call` | 1 call, 10 setups of rules, 1 load of new ones, 9 calls of the client; 2.9 million states | `DrainedNodeAvoided`; `AnsweredWithinPolicy` |
| `Metric_log` | 3 seconds over 2 days, files of 2 lines, 2 kept, 2 runs of the process, 1 failure, 1 search; 2.66 million states | `SearchExact` |

Why the bounds are enough to meet the interesting cases:

- Breaker: every race of the code is between two goroutines (two openers, opener
  and prober, probe and latecomer of the Closed period); threshold 2 keeps one
  failure from tripping, so that the counters matter; two ticks let a timestamp
  be half spent when another opening overwrites it. The clock needs no bound:
  `wait` and `age` are bounded by the timeout.
- Entries: two entries with two contexts can hold different contexts, or the
  second can take over what the first gave back; two nodes are what two racing
  first requests create; two stat slots put a panic between them. Entries are
  used once, so the system stops, in the explicit step `Finished`.
- Throttling: three requests are one that passes, one that queues and one whose
  addition races with the second one's; queue 2 against intervals 1 and 2 makes
  some fit and others not. The clock is the bound; it may reach any moment of it between two steps of a call.
- Reject: a ring larger than the window makes a read meet buckets outside it;
  five periods wrap the ring; three requests are two that turn the same bucket and one that
  lost its addition by it or is granted instead. With threshold 1 every lost addition can show.
- Hot spot: capacity 1 and two arguments make every second new argument evict;
  three requests are a pair that share an argument and one that evicts it between
  their steps. Two moments of arrival at a window of one tick are a first request
  and one at the end of the window. Three ticks more let the longest queue drain, and
  a loop without tokens see its window pass.

- Rule managers: two updaters are what the lock is there for, two resources tell a whole
  load from that of one, and the third load can undo or repeat what the first two left.
- Rule sources: two versions are an older and a newer one; with one failure or crash every
  single step can go wrong once. Types share only the lock of the timer and the
  single load, and two of them would take ten times the states.
- Mock responses: a limit of one resource is passed by two goroutines, two calls of each fill a list of two
  requests beyond its limit.
- Flow tokens: the second of a time-out (3), the downgrade (2) and the fourth second see a
  late answer after the window; two handlers compare before either adds; bucket and
  threshold are small enough to be drained and filled.
- Client call: nine calls are one more than the two attempts of the largest policy in the instance with three calls
  added to each, so that the bound of every counting policy could be passed; one load at any moment between the
  readings of the rules.
- Metric log: three seconds with a new day in them, a roll by size and one by day, removals
  from the third file on, a restart within a second that has been written already.

Symmetry is used for goroutines and requests where no property is a liveness property.

### Fairness

`CircuitBreaker`: weak fairness of each goroutine's next step, once it has
taken on a request. A goroutine that can run is scheduled by Go, and an admitted
request ends because callers must exit entries (`core/base/entry.go`); nothing is
assumed about new requests or about the clock. This is what lets
`ImplementsFairMachine` hold: a HalfOpen breaker is decided because its probe ends.
`EntryLifecycle`: the same for each entry that has begun. `HotSpot`: the same
for each request, and weak fairness of the clock, which code that sleeps relies
on. `RuleSources`: weak fairness of the timer, the single load, the command centre and
each watcher, goroutines in an endless loop or with a call to finish; nothing obliges
the dashboard, the disk or the process to fail or to come back. `MockResponses`: the timer that
sends responses. That a post ends is not assumed: the time-out of the client is set on a copy of it
(`simple_http_client.go:39`, a value receiver) and never in force, so `ResponsesArrive` excuses a post that never ends. In
`RuleSources` the fairness of the timer includes that the dashboard answers or refuses, which for the same
reason the code cannot enforce. The other modules state
safety only.

### What TLC refutes

Some comments of the code promise more than the code does, and some properties one would wish for hold only with a
premise. Their definitions are in the modules, marked "Refuted by TLC", and only `HeadersRequired` has a run; to see a counterexample, put
the definition into the configuration named last.

- `CircuitBreaker!NoEarlyProbe`: `rule.go:51` says no request is permitted during the open
  period. `fromClosedToOpen` swaps the state to Open and only then stores
  `nextRetryTimestampMs` (`circuit_breaker.go:160`): a request between the two reads the old
  timestamp and is let through at once. `Breaker_probe.cfg`.
- `CircuitBreaker!TimeoutArmed` without its term `lost`. `updateNextRetryTimestamp` reads the clock and then stores
  (`circuit_breaker.go:146`). A goroutine preempted in between stores its older sum over that of a later opening, and the
  breaker is Open for less than the rule's timeout. `TimeoutArmed` says it is less by the age of that reading at most.
  `Breaker_probe.cfg`.
- `CircuitBreaker!ProbeQuota`: `rule.go:82` says the breaker closes after the number of
  probes is reached. The exit hook goes back to Open without resetting `curProbeNumber`
  (`circuit_breaker.go:192`): probes of one round count in the next. `Breaker_probe.cfg` with `ProbeNum` 2.
- `EntryLifecycle!RoutedByOwnDecision`: `context.go:134` says all fields are reset.
  `ResetToPass` leaves the gray fields (`result.go:137`), and `api.entry` copies them to the
  next entry without a gray rule. `Entry_pooled.cfg`.
- `EntryLifecycle!FromServiceOwned`: `api.go:35` says an empty source service means none was
  set. `EntryOptions.Reset` leaves `fromService` (`api.go:39`) to the next caller. `Entry_pooled.cfg`.
- `EntryLifecycle!ErrorsNeverStray`: `entry.go` says one entry bounds with one context. An error that a caller writes between
  `Reset` and `Put`, or later, is in the context when the next entry takes it, and is counted for that one. `Entry_pooled.cfg`.
- `RejectChecker!QuotaStrict`: `flow/rule.go` says `Threshold` is the threshold during the interval. `currentBucketOfTime` does
  not look again under the lock (`leap_array.go:193`) and `ResetBucketTo` publishes the start before
  it zeroes, so an addition can be wiped out and another request be granted for it. `Reject_quota.cfg`.
- `ThrottlingChecker!SpacingStrict`, and `QueueIsGrants` of all places. Two
  requests are refused at once: the roll-back of one makes room in
  front of the other, whose interval is still in the sum. A request that is granted
  a place in between has its place above `lastPassedTime` once the second roll-back is
  done, and the next one gets too close to it (`tc_throttling.go:103`). `Throttling_queue.cfg`.
- `ThrottlingChecker!SkewNoticed` without `Skipped`: a request with an empty batch, or a threshold of zero, refreshes
  `lastSystemTime` without the test for a skew (`tc_throttling.go:50`). `Throttling_queue.cfg`.
- `HotSpot!ConcurrencyRealTime`: a rule for one service is not asked about by the stat slot
  (`concurrency_stat_slot.go:70`): a completion is counted whose pass was not, and the
  counter falls below zero. `HotSpot_params.cfg` with `RuleLists <- ForOneService`.
- `RuleManager!FoundWhenShared`, `FoundInForce`: of two resources with a rule of the same identifier (the
  identifier is optional, `flow/rule.go:141`) the one loaded last has the entry; when it is unloaded the other rule is not found any more, and an
  entry can lead to a controller that is not in force. `FoundByLoadedId`: a rule that differs from the old one only in its
  identifier keeps the controller with the old one (`flow/rule.go:191`). `Rules_update.cfg`.
- `RuleManager!ShownIsInForce`: `onResourceRuleUpdate` of the breaker builds from the raw rules and records the valid ones
  (`circuitbreaker/rule_manager.go:288`). `Rules_update.cfg`.
- `RuleSources!RecordedAlwaysApplied`: without handlers `HandleRule` returns nil (`simple_http_rule_sender.go:308-311`)
  and the version is recorded. `Rules_sources.cfg`.
- `MockResponses!HeadersRequired`: `traffic_shaping.go:262` says of `MockCheck` that headers are required, and
  `tests/mock/mock_test.go:65` asserts that a request without any is let through. `HeadersCheck` answers true
  for it (`traffic_shaping.go:137`). `Mock_headers.cfg`.
- `MockResponses!ResponsesArriveAlways`: when the answer to a delivered list is lost, the list before it is remembered as the
  last; responses that return to that one are not sent (`simple_http_rsp_sender.go:86-97`). `Mock_responses.cfg`.
- `ClientCall!NeverAllowsFirst`: `nerver_retry_policy.go:8` and `retry/rule/rule.go:12` say the first attempt is
  allowed. `CanRetry` is false until an error was registered, so none is made. `Client_call.cfg`.

## 4. The proofs

Eight modules hold theorems; `tlapm` on each of them checks all of it, for every number of
goroutines, entries, contexts, requests, arguments, callers and handlers and for every
rule. None of the bounds of the runs plays a part. The assumptions are those of the modules:

- constants have their types, sets of entries, arguments and the like are finite, and "nobody" or
  "nothing" (`NoThread`, `None`, `NoArg`) is none of the things it is told apart from
  (`EntriesAssumption`, `NoneAssumption`, `TypesAssumption`, `HotSpotAssumption`, `MockAssumption`);
- rules have fields of the types of the Go structs, and pass the `IsValidRule` of their
  manager, which lets no other rule through (`IsRule`, `IsValidRule`);
- two theorems about reject assume a statistic of the rule's own; without one the checker does not limit.

| Theorem | Says |
|---|---|
| `CircuitBreakerProofs!TimeoutAlwaysArmed` | `Spec => []TimeoutArmed` |
| `CircuitBreakerProofs!HalfOpenAlwaysOwned` | `Spec => []HalfOpenOwned` |
| `CircuitBreakerProofs!RefinesMachine` | `Spec => ImplementsMachine` |
| `EntryLifecycleProofs!TypeCorrect` | `Spec => []TypeOK` |
| `EntryLifecycleProofs!ContextsPartitioned` | `Spec => []ContextPartition` |
| `EntryLifecycleProofs!ErrorsStayOwned` | `Spec => []ErrorsOwned` |
| `EntryLifecycleProofs!ConcurrencyStaysExact` | `Spec => []ConcurrencyExact` |
| `HotSpotProofs!TokensAlwaysInBucket` | `Spec => []TokensInBucket` |
| `HotSpotProofs!ConcurrencyAlwaysExact` | `Spec => []ConcurrencyExact` |
| `HotSpotProofs!AlwaysSpaced` | `Spec => []Spaced` |
| `HotSpotProofs!TypeCorrect` | `Spec => []TypeOK`, with the consistency of the three caches |
| `ThrottlingCheckerProofs!TypeCorrect` | `Spec => []TypeOK`, in which nobody waits longer than the longest queue |
| `ThrottlingCheckerProofs!RequestsKeepDistance` | `Spec => []Spacing` |
| `ThrottlingCheckerProofs!QueueEndsWithGrant` | `Spec => []QueueIsGrants` |
| `ThrottlingCheckerProofs!SkewStaysNoticed` | `Spec => []SkewNoticed` |
| `RejectCheckerProofs!TypeCorrect` | `Spec => []TypeOK`, for checks of any length and any interleaving of the bucket resets |
| `RejectCheckerProofs!QuotaHolds` | `Statistic = "own"` gives `Spec => []QuotaKept` |
| `RejectCheckerProofs!CountHolds` | `Statistic = "own"` gives `Spec => []CountIsGrants` |
| `RuleSourcesProofs!RecordedApplied` | `Spec => []RecordedWasApplied` |
| `RuleSourcesProofs!InForceStay` | `Spec => RulesStay` |
| `FlowTokensProofs!GrantsStayBounded` | `Spec => []GrantsBounded` |
| `FlowTokensProofs!ThresholdStaysInBounds` | `Spec => []ThresholdInBounds` |
| `MockResponsesProofs!RequestsReportedOnce` | `Spec => []ReportedOnce` |
| `MockResponsesProofs!NodesStayBounded` | `Spec => []NodesBounded` |
| `MockResponsesProofs!FirstRuleAnswers` | `Spec => []AnsweredByFirst` |

Breaker. `TimeoutArmed` is inductive on top of `TypeOK` and `DueCovers`, which says the same of a sum that is computed and not
yet stored: it covers the timeout but for what it was overtaken by. Opening puts a goroutine on the way to the timestamp
(`Arming`) and notes the age of every other reading under way; the store turns `DueCovers` into `TimeoutArmed`; a
tick takes from `wait` and `due` what it gives to `age`, or less. `HalfOpenOwned` is inductive too:
only the winner of the swap becomes `prober`, and each of its steps leaves it
`Undecided` or finds the state no longer HalfOpen. For the refinement each action
that writes `state` is one arrow of the diagram, and every other one a stutter.

Entries. `ErrorsOwned` alone is not inductive: a completion counts what is in its
context, so one must know that the context is the entry's own and was clean when
it was taken, unless somebody wrote to it late. `IInv` therefore joins `Progress` (outcome and completions by phase),
`Holdings` (a live entry has a context, and options until `api.Entry` returns),
`ContextPartition` and `CleanPool` (no error in the pool but a late one; in a live context only
the owner's or a late one). There is one lemma per conjunct and one step per action that can
disturb it. `ConcurrencyExact` needs to know where an entry stands with the stat slot that
counts: `Decided` ties the outcome of an entry to its phase and to the stat slots it has
passed. `Counts` says that the counter of a node is the number of entries in flight less
those whose completion it saw and whose pass it did not (`Unpassed`); on a node that
no panic hit there are none of these.

Hot spot. A swap writes what a request worked out from a counter it loaded some
steps before, so the proof follows the pointers. `IInv` joins `Ranges`, `Owned` (a
counter in a cache belongs to a request that began with the argument it is found
under), `Fresh` (a request that has not begun has no tokens), `InOrder` for every
request (in the loop it has an argument, no more than the bucket can give, a
counter of that argument when it has taken one, and a value within the bucket
when it is about to write one) and `TokensInBucket`. A step moves its own request
(`Moves`) and does something to the buckets (`KeepsBuckets`); `StepKeeps` says the
two are enough, and there is one lemma per action. `disturbed` plays no part.

`ConcurrencyExact` needs `CInv` on top of it. `Belonging` and `Room` are about the caches: a
counter belongs to a request with its argument, and the list repeats no key and has
those of the map. So a cache with room for all arguments met so far evicts none
(`RoomForMore`), and the counters in it stay (`PointersStay`). `Placed` and `Counted` are about
the requests: one whose check by a controller is over finds the counter of its
argument there, and holds the right one in its hands when it is about to change it.
`CountOnFlies` says which controllers have counted a request that is on its way through the
stat slot. Then each action changes the counter of its argument and the set of
entries in flight together, or neither.

`Spaced` needs `DInv` on top of both. `UpToTime`: nobody passed later than the time in the
cache says, unless somebody is between the two writes of throttling (`Stamping`) and has
left the present there. `OnTime` says of such a request that its place is an interval after
the time it swapped out, and that nobody passed later than that. `OneHalfWay`: while nothing was
disturbed there is at most one such request. So whoever finds the expected time in its
swap has found the last place taken (`TakesPlace`); every other step leaves the times of throttled
arguments alone (`PlainSpaces`). TLC checked `DInv` first: completely for one throttling rule,
batches of 1 and 2 and a clock up to 3 (445,957 states), and on 6.3 million states of larger
instances. `TypeOK` needs of `TInv` that what is written to a time is one, and that the caches of
tokens, too, repeat no key.

`RateKept` is a lemma only (`RateKeptUndisturbed`): it is about executions in which nobody came between the tokens and their
time. It needs `RInv` as well: the tokens of an argument and the
time they are counted from are two words, written one after the other. `Balanced`: a full
bucket, and what time has added since the first grant, are `Enough` for what was granted
and for the tokens left, unless a request is between the two writes that fill a bucket
(`Filling`). `WorkedOut`: what a request has worked out half way still holds while nobody has
disturbed it, so its swap and its stamp restore the balance. `Carries`: it does so to the
counters of its argument, which a cache with room has not replaced. `Timely` (nobody has
read a moment to come) and `Ahead` (nobody has passed what it has yet to pass) keep the moments in order.
What was granted is a sum of batches; that one more grant adds its batch, and that other steps
add nothing, is again by way of the smallest counterexample (`SumAdds`, `SumSame`). TLC checked an
equivalent earlier form of `RInv` first: completely for batches of 1 and 2 under one rule with one
token, and for three controllers (2,170,134 and 2,404,804 states), and on 5.1 million states with a longer
duration, a burst and batches up to 3.

Throttling. `lastPassedTime` is the end of the queue and, above it, what refused
requests have added and not yet taken back (`Rollers`). A sum over those requests would need
induction; `Stacked` lists them instead, with what `lastPassedTime` would be below
each. The invariant is `TypeOK` with `Known` (what a request has read is still worth
something when it acts on it), `Queue` (the places that count keep their distance, and there is an end of the queue below
what is stacked on it that none of them is beyond), `Timed` (how old a reading of the clock can be, by `delay`) and `Skew`
(how far the end of the queue reaches after the clock was set back). None of them asks how long a call takes.

Reject. The proof begins with sums over finite
sets: `SetMin` is induction over the subsets of a finite set, by way of a smallest
counterexample, and from it follow the sums that `MapThenSumSet` denotes (`SumsExist`, `SumsUnique`), one element more,
one less, a sum through a map and a set counted by the buckets of its members. The invariant `Inv` follows a bucket
through the steps of its callers, whatever they do to each other. `StartFits`: a bucket has a start of its own (`Idx`). `HistoryFits` and
`NothingLost` tie the history to the steps: a request that has added and is not `astray` is in `plus`, one that has taken
back is in `minus`. `CountFits`: the counter of a bucket is the number of requests in `plus` there less those in
`minus`. `ClearedFits` is the quota, of the requests that did not go astray and are granted or have read a second sum that allows
it. That sum counts every request cleared before, and the one who reads it (`ValidFits`: the buckets it collected are those of its
window), so one more cleared is still within the threshold. TLC checked `Inv` first, on the configuration of `Reject_quota`.

Rule sources. A version goes through a loader: it is seen, rules at least as new are
fetched, they are put in force, then the version is recorded. The invariant has one
conjunct for each stage (`InOrder` of a caller) beside `RecordedWasApplied` and the
ranges. `RulesStay` is an action property: one step per action, from the same invariant.

Flow tokens. `LInv` is about the callers and the bucket: it never holds more than its
maximum, and a caller in `syncToken` is about to swap in no more than that. `SInv` is about
the server: `Compared` counts the handlers that have compared and not yet added, each of
which may exceed the threshold once, and `Turns` those that have to take back their turn in the queue.

Mock responses. `Handed` follows a request from where it is kept to the one report that carries it; `Room` counts the goroutines that have found room for a resource and not yet
taken it, and `AllKnown` says of a call that no rule it has passed by would have answered, by the reference `IsFor` and `Says`.

Only model-checked:

- liveness (`EveryEntryFinishes`, `ImplementsFairMachine`, `SlotGetsEmpty`, `NewestInForce`,
  `ResponsesArrive`): the prover has no rule for fairness;
- what is computed by recursion or by a fold over a sequence, which takes induction over data that the
  provers cannot do: the properties of `RuleManager`, `ClientCall!DrainedNodeAvoided`, `MetricLog!SearchExact`.
  (Sums over a finite set are within reach, by the smallest counterexample, as in `RejectCheckerProofs` and `HotSpotProofs`);
- `ClientCall!AnsweredWithinPolicy`: on the list below.

## 5. The plan

Done: the breaker, entries, throttling, reject with its window, and hot spot with their
proofs (steps 1 to 5); `RuleManager` and `RuleSources`, `MockResponses`, `FlowTokens`,
`ClientCall`, `MetricLog` with a run each (steps 6 to 10). The modules compose where parts share state:
`RejectChecker` with `LeapArray`, `HotSpot` with `LruCache`; elsewhere one module hands the
other a value: a rule list in force from `RuleManager` to `MockResponses` and `ClientCall`,
a decision of the gray router from `ClientCall` to `EntryLifecycle`.

Proved since: recorded versions, token bounds, reports of mock responses, the concurrency
of entries and of hot spot arguments, the queue of throttling, the distance, the rate and the
types of hot spot control (the rate only for undisturbed requests), and the quota of reject with the counters of its window (section 4).

Left are proofs, most important first:

1. `ClientCall!AnsweredWithinPolicy` for policies that count.
2. `RuleManager!FoundById`, where it does not rest on the folds.

There are twelve runs and there shall be no more than that, so that a look at them all
stays possible.

## 6. Not modelled, and why

- Configuration is read at start and only read; logging, the exporter and the heartbeat put
  out what others hold; the system's load, CPU and memory are read from the
  operating system into atomic words; the system check compares them with rules and keeps nothing.
- The server wrapper of go-micro, the other adapters and utilities, and the generated
  reflection code: glue, or third-party.
- Input and output of requests in `EntryLifecycle`: data its properties do not tell apart.
- JSON, HTTP, the protocol of Redis, the form of a line of the metric log: a message is its content, or lost.
- Batch counts in the entries and the reject checker are 1: larger ones add up in the
  same way. Floating-point thresholds are integers over a common scale.
- Functions that nothing calls: `Remove`, `Contains`, `Keys`, `Len`, `Purge` of the LRU cache,
  the cached position of a metric search, stateful retry, listeners of a retry template.
- Clocks set back, except in `ThrottlingChecker`; the unlimited product in `coolDownTokens`
  from a threshold of 500 on; a Redis client that could not look up its host and is nil.
- Several rules on one statistic of a resource, and requests in flight while their
  breaker is replaced: `RuleManager` has the updates, the checkers have the requests, and no
  document says what the two together should do.
