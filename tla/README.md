# guard-core-go in TLA+

Specifications of the Go library `src/guardcore`: a request-security engine
that an HTTP adapter calls once per request.  The modules model the parts that
keep state between requests or share it between goroutines and processes, and
the decisions taken on one request and its content; TLC checks them on small
instances and TLAPS proves the central invariants for every instance.

## 1. Inventory

### The system

An adapter builds one `Engine` from a `SecurityConfig`, calls `Initialize`,
then `Check` for every request and `ProcessResponse` for every response, and
`Close` at the end.  Requests are served by concurrent goroutines.  An engine
owns a Redis client, an IP-ban manager, a rate-limit manager, a behaviour
tracker, a registry of routes, a pipeline of checks and, if the config enables
them, a dynamic-rule manager; the cloud-range and pattern registries are
process globals.  Several processes may share one Redis.

| Component | State | Operations | Talks to | Hard behaviour | Correct when |
|---|---|---|---|---|---|
| IP bans (`ipban.go`) | local bounded map and its eviction order, list of networks, Redis keys with TTL | `Ban`, `Unban`, `IsIPBanned`, `Reset` | Redis; called by the pipeline, rate limiter, behaviour tracker, dynamic rules | read-through fill racing bans and unbans of other goroutines and processes; failing Redis; expiry | nobody is banned who was not; bans last and end; protected addresses are never banned; cache bounded |
| Check pipeline (`pipeline.go`, `routeconfig.go`) | list of built checks with the revisions it was built for; route registry; config revision | `Execute`, `rebuildIfStale`, `Register`, `BumpRevision` | every check, dynamic rules | rebuild overlapping updates, registrations and rollbacks; failing checks | a list taken for fresh is current; fail-secure admits only the vetted |
| Rate limiting (`ratelimit.go`) | per-key windows in a bounded store or in Redis sorted sets, script id, denial counters | `CheckRateLimit`, `CheckRateLimitByIP`, `Reset` | Redis, IP bans | lost updates, script flushes, lost replies, clocks, eviction | a window lets exactly the limit through; a denial is earned |
| Dynamic rules (`dynamicrules.go`) | current rule, base config, persisted snapshot in Redis and a file | `UpdateRules`, expiry, `HydrateLastKnownRules`, `Start`, `Stop` | agent, config, pipeline (revision), Redis | rules layering, panicking half way, expiring; crash between persist and commit | the rule in force is whole; its end leaves no trace; restarts resume it |
| Engine life cycle (`composition.go`, `middlewarestate.go`, `lifecycle.go`) | once-flag, registry of warmed stacks | `Initialize`, adopt, `MarkInitialized`, `Close` | all managers | two engines of one config initialising or closing at once; failed start-up | one stack per config; closing one engine harms no other |
| Redis manager (`redis.go`) | lazily created client | every store call, `Close` | Redis | unsynchronised client | no call uses a nil client |
| Behaviour tracker (`behavior.go`) | per endpoint and client, timestamps in a window | track usage and return patterns, act | Redis, IP bans | eviction, one store or the other answering, requests counting with the time they came | an action is earned by hits of that client within one window |
| Cloud ranges (`cloudproviders.go`, `checks_cloud.go`) | ranges per provider, refresh stamp, one background refresh | look-up, schedule, refresh, fetch | HTTP, Redis | stamp races, failed and empty fetches; networks within each other; links dated ahead, retries under one deadline | one refresh at a time, known ranges stay; a worker answers alike from fetched and stored ranges |
| Geo database (`geoip.go`) | reader, file, failed flag | open, download, refresh, look-up, close | HTTP, Redis, disk | refresh closing a reader in use, corrupt downloads | no reader is lost; a closed one is held only after a database that does not open |
| Performance monitor (`performance_monitor.go`) | bounded statistics per pattern, insertion order, emission times | record, anomaly detection, removal, reports | agent | a pattern is evicted or removed while a measurement of it waits | map and order agree; statistics end with their pattern; the cooldown holds |
| Pattern registry (`suspatterns_registry.go`, `patternvalidationcache.go`) | default and custom patterns, their compiled forms, the persisted text, cached verdicts | add, remove, detect, hydrate | Redis, ReDoS analysis | persist failures, restarts, several workers, an older verdict cache | what is scanned, listed and persisted agree; nothing unsafe comes back |
| Security headers (`securityheaders*.go`) | bounded cache, blocks of the configuration in Redis | get, load, store, reset | Redis | eviction order, a load between look-up and store | cached headers were in force; preload only with its conditions |
| Events and agents (`events.go`, `enricher.go`, `agenthandler.go`, `otel_handler.go`, `logfire_handler.go`) | buffers, started and stopped flags | send, flush, start, stop | agent, HTTP | restart after stop, flush racing send | no event is lost or sent twice |
| Threat response (`pipeline.go`, `websocket.go`) | counts of threats per address and category | record, evaluate, ban | IP bans, detection | two requests passing one threshold, a ban that fails | no ban is missed, none is unearned |
| Access control (`checks_route*.go`, `ipextraction.go`, `websocket.go`, ...) | none | one decision per request | config | precedence of lists and overrides; forged chains; the same rules written twice | a ban holds, HTTP and WebSocket agree, identities are not made up |
| Engine dispatch (`composition.go`, `cors.go`, `pathmatch.go`, `response_modifier.go`) | excluded paths in normal form, announced paths | `Check`, `ProcessResponse` | pipeline, behaviour tracker | ways around the pipeline; encoded paths; a list that changes | what is refused stays refused; exclusions are exact |
| Configuration (`config.go`) | the config being validated | `Validate` | all | refused, corrected and validated again, by several engines | acceptance is repeatable and a refusal leaves nothing behind |
| Detection (`bodyscan.go`, `jsonwalk.go`, `multipartscan.go`, `detect.go`, `truncation.go`, ...) | slots of the body reader | read a body, extract values, scan, judge | config | hung streams; duplicate keys, depth caps, broken multipart bodies; budgets, windows, truncation | nothing is skipped but what is excluded or beyond a budget |
| Pickle scanner (`picklevm.go`) | none | judge one candidate | - | a window of a longer text | what cannot be seen is suspect |
| ReDoS analysis (`redos_*.go`) | the load factor of the host | judge one custom pattern | pattern registry | searches timed on a busy host and extrapolated, under a deadline | noise makes no costly pattern safe and one spike costs a cheap one nothing |
| Logging, conformance runner, examples | - | - | - | - | not modelled (section 6) |

The hazards of each part, at the line where they bite, are in `PROJECT.json`
under `hazards`, with the property that covers each or the reason none does yet.

### Modules

| Module | Models | Extended or instantiated by |
|---|---|---|
| `IPBan` | `IPBanManager` of several processes on one Redis | `MCIPBan`, `IPBanPromises`, `IPBanProofs` |
| `IPBanPromises` | what tests promise callers of `IPBan`, with a history of returned calls | run directly |
| `CheckPipeline` | `SecurityCheckPipeline`, `RouteRegistry` and the writer of the config | `MCCheckPipeline`, `CheckPipelineProofs` |
| `RateLimit` | `RateLimitManager` of one process, with Redis | `MCRateLimit`, `RateLimitProofs` |
| `DynamicRules` | `DynamicRuleManager`s of several processes | `MCDynamicRules`, `DynamicRulesProofs` |
| `EngineLifecycle` | `Engine.Initialize`, adoption, `Close`, the state registry, `RedisManager`'s client | `MCSharedResources` (proved about in `SharedResourcesProofs`) |
| `CloudRanges` | `CloudManager`'s refresh and the refresh check | `MCSharedResources` (`SharedResourcesProofs`) |
| `GeoDatabase` | `GeoIPManager`: open, download, refresh, look-up, close | `MCSharedResources` (`SharedResourcesProofs`) |
| `AutoBan` | the abstract promise of automatic banning | `ThreatResponse` (refinement) |
| `ThreatResponse` | threat counts, thresholds and bans by concurrent requests | `MCServices`, `ServicesProofs` |
| `BehaviorTracker` | usage and return rules of routes and their windows | `MCServices`, `ServicesProofs` |
| `PatternMonitor` | `PerformanceMonitor` | `MCServices`, `ServicesProofs` |
| `PatternRegistry` | `SusPatternsManager` of several processes and the verdict cache | `MCServices`, `ServicesProofs` |
| `SecurityHeaders` | `SecurityHeadersManager`, its cache and its blocks in Redis | `MCServices`, `ServicesProofs` |
| `AgentStream` | event bus, composite handler, buffering exporters | `MCProgress`, `ProgressProofs` |
| `BodyRead` | the bounded reader of request bodies | `MCProgress`, `ProgressProofs` |
| `AccessDecision` | address, country and cloud rules, over HTTP and WebSocket | `MCDecisions`, `DecisionsProofs` |
| `RouteGuards` | the checks a route switches on | `MCDecisions`, `DecisionsProofs` |
| `ClientIdentity` | the chain of proxies and `extractClientIP` | `MCDecisions`, `DecisionsProofs` |
| `ThreatScan` | which values of a request are scanned | `MCDecisions`, `DecisionsProofs` |
| `Configuration` | `Validate`, repeated, refused and corrected | `MCDecisions` |
| `Dispatch` | `Engine.Check` and the response around the pipeline | `MCDecisions`, `DecisionsProofs` |
| `PathExclusion` | normal form of paths, the exclusion list and its announcements | `MCDecisions` |
| `BodyValues` | the values extracted from JSON, form and multipart bodies | `MCDecisions` |
| `ContentBounds` | truncation, scan windows, binary density | `MCDecisions` |
| `PatternViews` | one `Detect` over the views of a value | `MCDecisions` |
| `PickleScan` | the abstract pickle machine | `MCDecisions` |
| `PatternCost` | the verdict on a custom pattern and the timing behind it | `MCDecisions` |
| `CloudMatch` | selectors, carve-outs and stored ranges | `MCDecisions`, `DecisionsProofs` |
| `AzureFetch` | the choice and the download of Azure's file | `MCDecisions` |

The `MC...` modules give values to the constants a `.cfg` file cannot write.
`MCSharedResources`, `MCServices` and `MCProgress` also put components side by
side that do not affect each other: a behaviour picks one and the others stay
where they start, so the states add up instead of multiplying and each part of a
property still speaks of its own component only.  `MCServices` extends
`MCDecisions`, which holds the stateless decisions, one question and one answer
(or one walk) each, asked for every question of a set.  Both extend the
components that theorems speak of, as `MCProgress` does, so that the runs check
the very properties the proofs are about; the other components are instances.

A property of a run over several components is a conjunction of properties of
their modules, each with a name and a comment there; a run lists one property
per component or per idea that two components share.

## 2. Plan

Done, in this order: IP bans, check pipeline, rate limiting and dynamic rules,
because every request depends on the first three and the fourth rewrites the
config under them; the life cycle of the shared resources; the services with
state of their own (threat response, behaviour rules, monitor, registry,
headers, exporters, body reader), the first with its refinement of `AutoBan`; the
decisions on one request (access, route guards, identity, dispatch, exclusions,
configuration); and the algorithms on its content.  Proofs came in the same
order: the first four components, the three shared resources, the exporters, the
body reader, the response to threats with its refinement, the pattern monitor,
the security headers, the pattern registry, the behaviour rules, and six of the
decisions on one request: access, route guards, identity, dispatch, cloud
ranges and the scan for threats.

Left, in this order:

1. **Proofs**: the properties of `ContentBounds`, `PickleScan` and `Configuration`, which no recursive operator keeps from the prover.
2. **Composition**: `ThreatResponse` and `BehaviorTracker` ask for bans as actions
   whose outcome is open; composed with `IPBan` they would show how long a ban
   takes to reach all workers.
3. **Left operations**: the migration of legacy ban keys, the bans and patterns of
   a dynamic rule, `ClearMiddlewareStateRegistry`.

## 3. How the models correspond to the code

In every module a goroutine's call is a sequence of steps, one per lock section
or external call, because the managers' mutexes cover single accesses; the
variable that holds the progress of a call (`call`, `req`, `task`, `asks`, `check`,
`look`) is
the call's locals.  `PROJECT.json` maps each definition to its lines.

**`IPBan`.** `bannedIPs` and `lruOrder` are `localBanned` and its slice,
`bannedNets` the network list, `redis` the keys `banned_ips:<ip>`.  A look-up is
`CheckLocal`, `CheckNetworks`, `ReadRedis`, then `FillLocal` or `DropExpired`; a
ban `BanExact` then `StoreBan`, or `BanNetwork`; `Unban` and `Reset` touch the
local map and Redis in two steps.  Any Redis call may fail, `Restart` empties a
process, `Tick` moves the clock.  `granted` is a history of what bans asked for.
Addresses are members of a set with a map from spellings to canonical form; a
network is the set of its members.

**`CheckPipeline`.** A config is a *content*: which checks it makes apply and how
long its watched containers are.  `Arrive` is the staleness test, then
`ReadRevision`, `ReadRoutes`, `Evaluate`, `ReadRouteRevision` and `Store` are the
reads of `rebuildIfStale` and `buildChecks` one by one, `TakeChecks`,
`PassCheck`, `BlockByCheck`, `CheckErrors` and `Admit` the walk.  The writer
applies a rule in `BeginUpdate` (half applied), `FinishFields` and
`CommitUpdate`, or `FailUpdate` rolls it back; `GrowContainer` is the embedding
program, `RegisterRoute` and `BumpRoutes` the two lock sections of `Register`.
What a check decides is left open: pass, block or error.

**`RateLimit`.** `store` holds the three `lruStore`s with their map and order,
`redis` the sorted sets.  A call runs its tiers through `StartTier`; a tier is
counted by `EvalSha`, `ReloadScript` and `RunPipeline`, or by `ReadWindow` and
`WriteWindow` in memory, and ends in `Pass`, `Deny` or `Fail`.  A lost reply
records the hit and fails.  The auto-ban is `ReadCount` and `WriteCount`, `Reset`
is `ResetStores`, `ResetRedis` and `Detach`.  `dep` fixes the deployment, and `log` is
the history of all tier runs with their clock reads and verdicts.
`CountsExactly` are the deployments in which no hit is lost or merged; `Timely`
leaves out a run that was overtaken: a later clock read, counted first, trims the
bucket past the window of the earlier one (section 6).

**`DynamicRules`.** A rule overwrites four fields of the config and a threshold,
each with a value or `Keep`.  `Expire`, `Fetch` and `Gate` are the two lock
sections of `UpdateRules` and the fetch between them; inside the second,
`ApplyStage` applies stage after stage, `FailApply` panics and restores,
`PersistRedis`, `PersistFile` and `Commit` follow.  `Crash` and `Hydrate` are the
end and the start of a process, `Stop` and `EndLoop` the shutdown.  `UpdateRules`
is exported, so callers other than the loop poll as well (`Direct`).  `announced`
and `recent` are histories.

**`EngineLifecycle`.** `engine` is the once, its error and the stack in use,
`registry` the middleware-state registry at the one key of a config, `redis` the
clients a manager created and the one it holds, `loop` the rule loop with
`stopOnce`.  `Initialize` enters the once; `Adopt`, `Connect`, `Attach`,
`StartLoop` and `Register` are the start-up, each of which the code may leave with
an error where the model does.  `Use`, `Redial` and `Operate` are
`safeOperation`; `Close`, `Drain`, `Join`, `Disconnect`, `Shut` and `Forget` are
`Engine.Close`.  A call on a nil client ends in pc `panicked`.

**`CloudRanges`.** `LookAtStamp`, `ReadPrevious`, `SetStamp`, `Schedule` and
`RestoreStamp` are the check; `NextProvider`, `GetStored`, `Fetch`, `PutStored`,
`Install` and `EndRefresh` the refresh, which a starting engine runs too, without
the flag.  Ranges are the time they were published, or `Absent`, or `Empty`.

**`GeoDatabase`.** `Look` enters the once, `InitFromCopy`, `InitByDownload`,
`InitByFile` and `InitOpen` are `Initialize`, `TakeReader` and `Answer` a look-up,
`Refresh` and `Swap` the refresh.  A database is `good` or `bad`.  Readers are
numbered in the order they are opened, so a lost one can be told.

**`ThreatResponse`** implements `AutoBan`.  `counts` is `suspiciousCountStore`,
whose lock covers one access: `RecordCategories` adds, `Evaluate` looks at the
categories one by one, `Ban` asks for a ban for one that is at its threshold, and
the walk goes on until a ban is applied (`Stops`); `EvaluateTotal` is the other
caller, which compares the sum.  In `AutoBan` counting is one step and a ban needs
a count at its threshold; the history `attempts` tells who asked.  The sum of the
counts is the number of their violations, each told by its category and number.

**`BehaviorTracker`.** A request arrives, takes its rules in order (`TrackRule`),
each counted by `TrackShared` in Redis or `TrackLocal` in a table that evicts an
arbitrary bucket and client, and again on the response (`Return`, `StartGlobal`).
Usage and returns have a table each, with a bound of its own; a bucket is of the one
or the other by its length (`Table`).
Requests count with the time at which they arrived, `clock` moves between.  A request
whose path an exclusion spares from the tracker does not arrive: it counts nothing.

**`PatternMonitor`.** `Record` is the first lock section of `RecordMetric`, which
leaves `call` with the anomalies, `ReadClock` the reading of the clock before the
second, and `Reserve` that one, which tests the cooldown against what was read;
`order` is the queue of evictions.  A z-score is compared by
multiplication.  `log` and `events` are histories.

**`PatternRegistry`.** `custom`, `defaults` and `compiled` are the manager's, `redis`
the text joined with commas, `file` the verdicts on disk.  `InitializeRedis` attaches,
`RestoreNext` validates one restored piece at a time.  A pattern is validated before the
lock is taken (`Validate`) and waits in `validated` until `Register` puts it into the
lists, so that removals, resets and `ClearCustomPatterns`, which changes the
lists and not what Redis holds, come in between.  A pattern with a comma comes back
in pieces (`Pieces`).

**`SecurityHeaders`.** A request is `CacheGet`, `Compute`, `CacheSet`;
`LoadBlock` and `StoreBlock` are one block of `InitializeRedis` each, `Purge`,
`Restore`, `Delete` and `Detach` the steps of `Reset`.  A block that is loaded while
`Reset` has detached Redis is not looked at.

**`AgentStream`.** `PassesBus` and `PassesComposite` filter, `Put` appends under
the lock, `EnterFlush`, `Swap` and `Post` take the buffers and post them outside
of it; `LoopTick` and `LoopEnd` are the exporter's goroutine.

**`BodyRead`.** `Acquire` and `TimeOut` are the two cases of the `select`, for the
slot and for the result; `Goroutine` is the read, which gives the slot back when
the stream returns; `Hang` is a stream that never does.

**`AccessDecision`, `RouteGuards`, `ClientIdentity`, `ThreatScan`.** A question is
a record of everything the code reads; `Judge` and `Guard` answer as the chain of
checks does, with the flags that one check leaves for the next; `Socket` closes a
handshake of an unknown address first, if the engine is to fail secure.  `Relay` is a proxy that
appends the address it was called from.  `ScanValue` takes any value of the next
surface, because Go's maps have no order, and uses up the budget.

**`Configuration`, `Dispatch`, `PathExclusion`.** `Checks` lists the checks of
`Validate` in their order, of a few kinds (`Refuse`, `Default`, `Clamp`, ...);
`Correct` is the program that sets the refused settings right.  Behaviour rules get
their defaults one after the other, up to the one that is refused, and keep them
(`NormalRules`).  `Check` and
`ProcessResponse` are the two calls of an adapter for one exchange.  `Arrive` decodes,
folds and collapses a path and compares it with the list in force (`Current`);
`Reconfigure` is the program that changes the list.

**`PatternCost`.** A pattern is what the tests of its syntax say of it and the texts
that are made against it; a search takes the text's cost and a disturbance the
host chooses.  `Gates` are the tests both modes share; `ProbeString` is one test
string; `MeasureLoad`, `Build` and `BuiltInTime` the arbiter up to the timing, `NextSet`,
`Search` and `Judge` the timing of one set of texts, with the median left out
(only a message has it).  Times are integers, loads are in quarters, and the power of the
growth is compared without division.

**`BodyValues`, `ContentBounds`, `PatternViews`, `PickleScan`, `CloudMatch`,
`AzureFetch`.** The walks are step by step where the code loops over a stack or
an input (`EmitValue`, `WalkEntry`, `WalkNode`; `ScanView`; `Execute`; `FetchPage`,
`Download`), and functions where it computes; the properties compare them with a
definition by sets and quantifiers.  In `BodyValues` every text of a part goes through the
walk of embedded JSON, its headers and islands too (`Payload`), and `Panics` tells the
bodies whose scan ends with an error (section 6).  `BodyValues` uses recursive operators, so it
and the modules above it stay with TLC.

## 4. What TLC checks

| Run | Instance | Shows |
|---|---|---|
| `IPBan_shared` | 2 processes, 1 goroutine each, an address, a protected one, a network with each, clock to 2; the processes are interchangeable | no look-up answers *banned* outside a time some `Ban` asked for, or for a protected address |
| `CheckPipeline_safety` | 2 requests, 4 checks, 2 contents, 1 route, 2 updates | a list taken for fresh is current; fail-secure admits only what the always-enabled checks passed |
| `RateLimit_limits` | 3 deployments: in memory; Redis that must answer, 2 goroutines; Redis that may not, stores of one key, auto-ban and `Reset` | a run that is counted in time and exactly passes only within its limit, a denial has more hits than the limit behind it; a full store has a victim; bans are earned |
| `DynamicRules_safety` | loop and a direct caller, 3 rules of which 2 share an identifier, clock to 3, 1 crash | no trace of an ended rule, the active one in force, changes announced; rules move forward, also over a restart |
| `SharedResources` | 2 engines and 2 goroutines; 2 requests, 1 starting engine and 1 provider, clock to 1; 2 look-ups, 2 refreshers and 3 readers | only warmed stacks are shared, late engines adopt, calls return; one refresh at a time, ranges stay, refreshes end; no reader is lost |
| `Services` | the ban map of 1 entry under 2 goroutines; 3 patterns, statistics of 2; 2 paths, a cache of 1; 2 requests and 2 categories; 2 requests, 2 clients, of whom detection may flag one, tables of 1 for 1 usage rule and 2 return rules; patterns with a comma, 2 that wait for the lock, 1 default pattern and one crash; and the questions of `MCDecisions` | tables and their orders agree; statistics, headers and the registry hold; reactions are due and earned, and implement `AutoBan`; the decisions on one request and its content |
| `Progress` | the pipeline with one update; the rule loop with 3 rules; 3 exporters under 2 engines; 2 body reads of 2 slots | the list in use becomes the right one, expired rules end, `Stop` returns, buffers drain, nobody waits for a body for ever; exporters and reads do not disturb each other |

Five runs look for a violation and find it; each is a disagreement between the
code and a test, comment or document, quoted under `findings`:

| Run | Violated | What happens |
|---|---|---|
| `IPBan_unban` | `UnbanLifts` | a look-up that read the ban before `Unban` deleted it caches it afterwards |
| `CheckPipeline_routes` | `RoutesAreSeen` | a route registered between the copy of the routes and the read of their revision is never built |
| `RateLimit_bounded` | `StoreBounded` | a key hit twice has two entries in the order, and evicting the stale one frees nothing |
| `DynamicRules_lost_write` | `StoredIsHydrated` | a failed Redis write leaves an older rule there, which a restart prefers to the newer file |
| `Scan_excluded_headers` | `ExcludedHeadersAreScanned` | the first value with any finding ends the scan even if all its findings are filtered out |

**Bounds.** Two goroutines meet in every race the hazards list: each of them
needs one actor between two steps of another (and symmetry between the processes
of `IPBan_shared` is sound: nothing orders them).  Two processes are what sharing a
Redis takes.  The clock runs just far enough for something to be cached, to
expire and to be looked at after that (2 or 3).  One crash between two steps of a
rule's application and one restart reach every combination of what Redis and the
file hold.  Maps of one or two entries overflow at the second or third.
`MaxUpdates`, `maxHits`, `maxResets`, `MaxCrashes`, `MaxClients`, `MaxReaders`,
`MaxDefaults` and `MaxValidated`
bound counters that the code does not bound; each stands in the guard of the
action that counts.  In `Progress` one update of the config is
enough: what must happen in the end does not depend on earlier ones.  The
questions of the decisions are all combinations of what a check can tell apart,
cut into two or three sets where their product would be too large: each set
varies the settings that one check reads and holds the others fixed; lists
overlap, share an address or are empty.  Texts are of nine characters and bodies
of four lines: two indicators, their contexts and the gap between them fit, and
so do a header, its continuation and what follows, in every order; pickles are
all of up to three bytes around a global, against a window of three.  A search of `PatternCost`
is undisturbed or takes 3 more, below and above the budget of 4, and is killed at
20; two samples, two sets and a deadline that two measurements exceed.  In
`SharedResources` each manager creates one client, so a
client is created at start-up or by the first operation after a start-up without
Redis, and none after `Close`.

**Deadlock** is checked in the runs of `IPBan` and `CheckPipeline`.  The others
really may stop: hits, clock or crashes are used up, or all goroutines have
panicked or closed.

**Fairness.** `CheckPipeline`: requests keep arriving and are served to the end,
and a begun update or registration ends; goroutines are scheduled and neither
takes a lock that another call keeps.  `DynamicRules`: a poll that holds the mutex
or fetches goes on (weak); the mutex is obtained eventually (strong on `Expire`,
`Gate` and `Hydrate`: Go's mutex hands over to a waiter that starves); a loop that
finds its stop channel closed again and again takes that branch of the `select`
eventually (strong on `EndLoop`: the choice is uniform); time passes.
`EngineLifecycle`: start-up, waiting and closing go on, dialling Redis ends with a
client or an error (it has a timeout), and a loop with a closed stop channel ends.
`CloudRanges`: a scheduled refresh goes on (its HTTP client has a timeout).
`AgentStream`: the ticker of a loop ticks (weak on `LoopTick`), a call of a
handler or of a loop goes on, and a post ends (its client has a timeout).
`BodyRead`: a started timer fires in the end, and the goroutine of a read goes on
unless its stream hangs: nothing is assumed of the stream.
No more is assumed of agents or Redis: their calls end, with an error or an answer.

## 5. What TLAPS proves

| Module | Theorem | Property |
|---|---|---|
| `IPBanProofs` | `TypeCorrect`, `CacheStaysInSync`, `BansAreGranted`, `ProtectedStayFree` | `TypeOK`, `CacheInSync`, `NoPhantomBan`, `NeverSelfDoS` |
| `CheckPipelineProofs` | `TypeCorrect`, `FreshIsCurrent`, `AdmissionIsVetted` | `TypeOK`, `FreshMeansCurrent`, `AdmittedIsVetted` |
| `RateLimitProofs` | `AStoreCanEvict`, `NoDenialCountsTwice`, `NoLimitIsPassed`, `NoDenialIsUnearned` | `StoresAreSound`, `BansAreEarned`, `LimitEnforced`, `DenialsAreEarned` |
| `DynamicRulesProofs` | `TypeCorrect`, `EndLeavesNoTrace`, `ActiveStaysInForce`, `EveryChangeAnnounced` | `TypeOK`, `NoRuleNoTrace`, `ActiveIsInForce`, `ChangesAreAnnounced` |
| `SharedResourcesProofs` | `OnlyWarmStacksAreShared`, `RefreshesAreSingle`, `RangesAreKept`, `NoReaderIsLost` | `StacksAreShared`, `OneRefresh`, `RangesStay`, `ReadersAreKept` |
| `ServicesProofs` | `WhatIsDueIsDone`, `ResponseImplementsAutoBan`, `MonitorIsInStep`, `HeadersAreInForce`, `RegistryIsInStep`, `ActionsHaveHits` | `ReactionsAreDue`, `AutoBanKept`, `MonitorHolds`, `HeadersHold`, `RegistryHolds`, `BehaviorHolds` |
| `ProgressProofs` | `ExportersDoNotInterfere`, `SlotsAndStreams` | `ExportsAreSeparate`, `ReadsAreCounted` |
| `DecisionsProofs` | `IdentityIsOfTheRequest`, `AccessIsDecided`, `GuardsAreRight`, `DispatchIsRight`, `MatchIsRight`, `ScanIsExplained` | `IdentityHolds`, `AccessHolds`, `GuardsHold`, `DispatchHolds`, `MatchHolds`, `ScanHolds` |

They hold for every value of the constants that the modules' `ASSUME`s admit;
TLC evaluates those assumptions on the instances above.  The assumptions are the
types of the constants and what the code ensures of them: windows and thresholds
are numbers, `IPs` is not empty (`RateLimit`); goroutines that start an engine
serve no request meanwhile (`InstanceAssumption` of `MCSharedResources`); each
composite lists an exporter once and two engines share none (`StreamAssumption`); the default number of slots of the body
reader is positive (`BodyAssumption`); requests and categories are finitely
many and thresholds positive (`ResponseAssumption`; `Validate` refuses others);
the sizes and the cooldown of the monitor are positive (`MonitorAssumption`: its
constructor clamps them); each block of the headers may be empty, what Redis
holds of it is a value of the block or no JSON, and the cache has room for an
entry (`HeadersAssumption`; `HeadersCacheMaxSize` is a constant); the source of a
pattern is one of the texts that can be stored (`RegistryAssumption`); the tables
of the tracker have room for an entry, and limits and windows are those that
`ValidateBehaviorRuleConfig` accepts (`BehaviorAssumption`); hosts on the way have
an address and a proxy depth is at least 1 (`IdentityAssumption`; `config.go:580`);
the settings of a request are of their types (`AccessAssumption`); times of day are minutes of the day
(`GuardsAssumption`); the settings of an exchange are of their types
(`DispatchAssumption`); providers have names (`CloudAssumption`); a request has
finitely many values and the category an operator key forces is its own
(`ScanAssumption`).

**IP bans.** `NoPhantomBan` is not inductive: a false ban may enter from Redis, a
network, the local map or the locals of a call.  `IInv` says of each of them that
what it holds is covered by a granted ban (`LocalInv`, `NetsInv`, `RedisInv`,
`CallsInv`), with networks and addresses that are never protected, and
`OrderInv` that the eviction order lists the map's keys once each.  One lemma per
action; the lemmas about `Without`, `LocalSet` and `LocalPurge` carry the
sequences, and `Lists` with the cardinality of a sequence's elements carries the
bound.

**Check pipeline.** A list can only be called fresh if it was built from the
content that the revision it carries announced.  `FreshInv` says so of the stored
list and of every rebuild under way: `Known` bounds
a revision and a signature that were read by those of the config - watched
containers only grow between revisions, so an equal signature read earlier means
an equal content - and `Fits` says that a list built after they were read agrees
with the config as long as it still has both, the writer is at rest and no rule
was rolled back since the last revision (`AtRest`).  `VettedInv` says that the checks
a request has behind it were passed.

**Dynamic rules.** `RuleInv` splits the states by the mutex: while no call is
inside, `Rest` holds (no rule: the config is the static one; a rule: its base is
the static config, its fields are in force, its contents announced); a call inside
is at a stage, and `Progress` says how much of the config it has written and what
a failure would restore.  `OneAtWork` is the mutex.  The three theorems assume
`OneManagerEach`, every config has exactly one manager: two managers of one
config restore each other's rules as if they were the base, and then
`NoRuleNoTrace` fails.  `NewEngine` makes a manager per engine, so the assumption
is that engines of one config that both start up cold do not both run the loop.

**Rate limiting.** A store evicts by the head of its order; `EvictionHasVictim` is
kept because every operation of `lruStore` appends or leaves the key it stores
(`GetOrCreateSound`, `PutSound`, `InsertSound`, `TrimmedTyped`).  `BansAreEarned`
counts the denials of the history, so `LimitInv` ties each call to the one tier
run of `log` it is counting (`CallInv`: its key, its tier, no other call has it),
and says that the auto-ban count, stored or read by a call, is at most the number
of denials already fed to it (`FeedInv`): two calls that read the same count
lose one, none is counted twice.
For `LimitEnforced` and `DenialsAreEarned`, `Exact` ties the windows to the history,
where `CountsExactly` holds: the runs are in the order of their clock reads
(`LogInOrder`), and the hits are counted in one of two places.  In Redis
(`RedisCounts`) each hit in a set was made by a run on its bucket, and each run that
passed is in the set until a later run trims it (`Outrun`) or time does (`Outdated`);
a run that is counted in time finds neither, so the runs that passed with it map
one to one to hits, by timestamps that differ.  In memory (`MemoryCounts`) each window,
stored or read by a call, is in order and has by number at least the runs passed
since the last window began, and at most those counted (`Fits`): timestamps may
agree there, so that positions are counted, not values (`AboveAppended`,
`TrimFits`, `WriteFits`).  Nothing is evicted, as the buckets all have room
(`PutWindow`, `CreatedWindow`), and the one caller counts a run before it starts
the next (`Alone`).

**Shared resources.** `CloudInv`: the flag is set exactly while a request's refresh
runs, which is then the only one (`FlagInv`), and a job that installs has found
ranges.  `GeoInv`: each reader opened is in use or closed, a closed one is in use
only after a failure (`ReadersOK`), and before the once is done only one look-up
opens (`OnceInv`).  `LifecycleInv`: the goroutine inside an engine's once is the
only one (`StartupInv`) and what it has passed is done (`Passed`); until its
start-up nobody touches an engine's stack, and a stack in use is that of an engine
that uses it itself (`EngineInv`).  The registry may be overwritten by an engine that
read it empty and was overtaken, but it never becomes empty again, nor that of
an engine which started late (`LateInv`): such an engine gets no further than adopting.

**Threat response.** `NoMissedBan` speaks of requests at rest, so `ResponseInv`
follows each category that reached its threshold to the request that will act
on it: `DueInHand` (it has been tried, is looked at next, or is still to come)
and `ReachedInHand` (someone attends to it until the first attempt).  `CountsFit`
bounds the counts by the violations, for the type.  In the refinement a step of
`RecordCategories` is `Violate`, an applied ban is `GrantBan`, because the count
that was at its threshold when `Evaluate` read it still is (counts never fall:
`DueReached`, `BansReached`, `BansTotal`), and every other step stutters.

**Pattern monitor.** Each life of a pattern - from the first record to its eviction
or removal - has a number that no earlier one had (`StatsFit`), so that an event of a
former life says nothing of the stamp (`Stamped`: the stamp of a tracked pattern
is no earlier than the events of this life).  `QueueFits` has the queue without
duplicates, its elements the tracked patterns and its length their number:
`RemovedOnce`, `HeadGone` and `Appended` say what removal, eviction and a new
pattern do to a queue without duplicates.

The statistics are those of this life because `LifeOf` says so of each field against
the part of the history since the pattern is tracked: a sum and a window of a
sequence that grew by one are those before with the new element (`TimesOf` is a
recursive function, which `Recursion` computes).

**Security headers.** What a request computed must still have been in force when
another stores it: `RequestsInForce` follows it from the computation on, and
`StaysInForce` says that a history that only grows takes nothing back.  `CacheFits`
needs no more of the order than that it lists what is cached (`RemovedAlone`),
duplicates or not; a full cache then has an entry to evict.

**Pattern registry.** `RegistryInv`: the verdicts a worker remembers and those of a
file of this engine's version agree with the probe (`Probed`; a file of an older
version may not, and is dropped), the custom patterns of a worker have no
duplicates, are safe and are the compiled ones (`Listed`), and so are the defaults
(`DefaultsSafe`), and what waits for the lock (`WaitingSafe`).  The text in Redis is the list of the last writer as long as it
runs and its Redis is attached (`Persisted`); a pattern with a comma needs no
exception, because it is the text that is compared.

**Behaviour rules.** An action names its limit and the hits in its window, so
`Earned` needs that a table never holds a hit twice nor one of another client or
bucket: `TableRight` and `SharedRight` for the local table and for Redis, with the
bounds of the local one (`Room`).  No two hits are of one rule of one request
because a request walks its rules in one order (`Precedes`, `CountedOnce`); the
count that is compared with the limit is then the cardinality of a set of hits.

**Decisions.** A decision is one step, so the invariants `AccessInv`, `GuardsInv`,
`DispatchInv` and `MatchInv` say that the answer is the function of the question;
the work is in the functions, whose cases the lemmas reduce to what each check
finds (`HttpAnswers`: the checks before the one that ends the walk found nothing;
a longer blacklist only adds findings; `WindowArc`: an interval that crosses midnight is an
arc modulo the minutes of a day).  `IdentityInv` follows the request: the chain ends
in what the hops appended, so the client's own entry is at `Own`, `Hops` from the
right, whatever precedes it.  The walk from the right meets it at the latest
(`WalkStopsInTime`), and an entry that the depth selects with nothing unlisted to
its right is not left of it (`SelectedInTime`): the forged part is never reached.

**Scan.** `ScanInv` goes from value to value, in any order: the budget's characters
are those of what was scanned (`SizesAdd`), and as long as some are left the values
scanned are as many as were counted, or all that the budget allows.  So a value
that was passed over was so with the budget spent, and it stays spent; and a scan
that ended with nothing has either seen everything else or stopped at a value
whose findings do not count (`ScanFinds`).

**Exporters and bodies.** `StreamInv` says where a message is: at one place of an
exporter at most - buffered, posted, or with one goroutine that brings or posts it
(`Apart`) -, that the engine of that exporter sent it (`Sourced`), and that it is
somewhere once sent (`Somewhere`).  `BodyInv` numbers the reads of a request, so
that the slots count the reads that run (`OneReadACall`, `SlotsAreReads`).

**What the attempts showed.** Two properties of `RateLimit` were false in general
and are stated with the reason in sight: a request that is overtaken between its
clock read and its count passes as one too many, so `LimitEnforced` asks for
`Timely`; and a key that two windows trim loses hits of the longer one, so both
ask that a bucket has one window (`CountsExactly`).

Nor is `SocketAgreesWithHttp` true of every list of countries.  An address may be in
the database without a code, and a list may hold the empty code (nothing validates
the codes, `config.go:786`): the global rules over HTTP (`pipeline.go:343`) look such
an address up in the lists, while those of a route (`pipeline.go:250`) and of a
handshake (`websocket.go:143`) take it for one of unknown country.  So the property
speaks of lists without the empty code.  A carve-out with an empty region would
spare any address without one; `CarveOutsAreRegional` speaks of regions that have a
name.

Only model-checked: liveness everywhere, which is outside the prover's reach, and
`VerdictsAreSound` and `ConfiguredIsInForce`, which state of several
content modules at once what rests in part on recursive operators
(`BodyValues`) and on operators of the libraries the provers do not know
(`SelectSeq`, folds, sorting).  Recursive *functions* are within reach: induction is
stated with sets (`SetInduction`), so `TimesOf` and the running statistics are proved
about.  `BooksAreRight` is `CacheInSync`, which `IPBanProofs` proves of any instance of
`IPBan`, and `SlowestIsReported`, which sorts.
`RulesMoveForward` stays with TLC: the gate ensures a part of it that
hydration bypasses, so that it holds on the instance and not for every one, and
another part needs Redis writes not to fail.

## 6. What is not modelled

Of the **ReDoS analysis**, the tests that walk the syntax tree of a pattern and the
builders of texts against it are inputs: they keep no state, each is a long case
distinction over the syntax of regular expressions, and a model that is short
enough to read keeps little of it.  `PatternRegistry` takes the verdict as an input.
What a regular expression matches, the decoders and the
matchers' validators, the semantic score, uploads and XML entities are inputs of
the detection modules.  Encodings (Redis values, OTLP, JSON logs), the documents
of the other cloud providers, the content of events and metrics, the request log
and the texts of responses, **logging**, the **sample applications** and the
**conformance runner** are left out: nothing else depends on them.
`SeedCustomPattern` (`suspatterns_registry.go:256`), a seam of the conformance harness
that puts a pattern past validation and persistence into the lists, is left out: with it
neither what Redis holds nor what is safe could be said of the registry.  The bans and
patterns that a dynamic rule adds, the migration of legacy ban keys and the
country look-up of a rate limit are left out of their managers.  `GeoDatabase`
takes it that hosts refresh and close a manager after its first use,
`EngineLifecycle` that one goroutine finishes `Initialize` before an engine is
used or closed.

Hazards that are real and that `PROJECT.json` does not list, because no module
has the operation or nothing in the code promises what should happen: the
migration copies a key and deletes the old one in separate calls
(`ipban.go:430`); the rate-limit manager copies its limits when it is built, so
dynamic rules never reach them (`pipeline.go:1346`); two managers of one config
snapshot each other's rules (`dynamicrules.go:513`); the Redis client is tested
and used without a lock (`redis.go:228`); a look-up uses the reader it copied
after a refresh has closed it (`geoip.go:525`).

Other disagreements the models show and no run states:

- A ban of a network is kept in the process that made it: with Redis, other
  processes never see it.
- A look-up that read an expired value deletes the key even if another process
  has since stored a new ban under it.
- In memory, two goroutines on one bucket lose a hit between read and write
  (`ratelimit.go:229`); in Redis two hits of the same instant are one member; the
  bucket of a path is shared by tiers of different windows and trimmed by the
  shorter.
- A request that read the clock earlier and is counted after a later one finds the
  hits of its own window trimmed (`ratelimit.go:449`), so a window may let one more
  through than `docs/configuration.md:61` ("Requests per window") says;
  `LimitEnforced` speaks of requests that are not overtaken.
- A rule whose application failed half way leaves lists built meanwhile in use
  until the next revision.
- A start-up that failed is never retried, although `composition.go:171` says the
  next attempt does.
- `Close` of an engine stops the loop and closes the client of every engine that
  adopted its stack, and the registry still offers it.
- `redis.go:83` says the mutex guards lazily created clients; it does not: two
  first operations create two clients and one is lost, and a `Close` between test
  and use leaves a nil client.
- `geoip.go:131` says a refresh keeps the existing reader on failure: if the new
  file does not open, the kept reader is closed and every look-up misses until
  the next refresh; `ReadersAreKept` admits a closed reader in this case only.
- `behavior.go:210` says that an unavailable store "must not quietly disable the
  rule"; without Redis and without leave to fail open, the hit is not counted and
  the rule does not apply.
- `securityheaders_cache.go:147`: `Reset` restores the configuration the manager was
  constructed with, but blocks loaded from Redis were written into that same
  object.
- `multipartscan.go:22` says that a part without a closing boundary is kept as far as
  it was parsed.  If the text ends with a newline while the headers of a part are
  read, the payload is taken to begin one past the end of the text and the slice at
  line 136 panics; `runCheck` turns that into an error of the check
  (`pipeline.go:1287`).  `LinesAreScanned` speaks of bodies without it (`Panics`).
- A custom pattern with a comma is persisted in a list joined by commas, and comes
  back as its pieces (`suspatterns_registry.go:93`).
- `composition.go:448` clears the whole map of announced paths when it is full and
  an expired path is announced again, so another path may be announced twice
  within its period; `AnnouncedOnce` speaks of fewer paths than fit.
- A cloud document is fetched with a client that follows redirects, so the refusal
  at `cloudproviders.go:323` meets only answers that a client cannot follow.
- `otel_handler.go:131`: an exporter that was stopped and started again has no loop.
- `redos_arbiter.go:241` compiles a pattern for its timing without the rewriting of
  named groups that `redos_compiler.go:51` announces for the probe stages, so one
  pattern may be refused as invalid in one mode only (`compiles` is a set of modes).
- `patternvalidationcache.go:158` times a pattern without flags and files the verdict
  under the default ones; the registry compiles it to ignore case.
- A disturbed search at 16000 characters lowers the growth that a pattern is
  extrapolated with, so one over the budget only at the cap may pass;
  `HostileIsRefused` speaks of the cost at 32000.  The load is measured once per
  process: one that was measured in a busy moment scales every later verdict.
