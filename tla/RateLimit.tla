----------------------------- MODULE RateLimit -----------------------------
(***************************************************************************)
(* RateLimitManager (ratelimit.go): sliding windows of hits, one bucket    *)
(* per client address or per address and path, kept in Redis when it is    *)
(* connected and in bounded in-memory stores otherwise.  CheckRateLimit    *)
(* runs a request through its tiers, CheckRateLimitByIP through one, and a *)
(* denial by the latter feeds the auto-ban.  Goroutines (Callers) run      *)
(* concurrently: the mutexes cover single accesses only, and a call is a   *)
(* sequence of steps.  Limiting is enabled throughout.                     *)
(***************************************************************************)
EXTENDS Integers, Sequences, FiniteSets

CONSTANTS
    Callers, IPs, Paths,
    NoPath,          \* the global tier's endpointPath
    EndpointLimits,  \* cfg.EndpointRateLimits: some paths -> limit
    RouteLimits,     \* RouteConfig.RateLimit of the route at some paths
    GeoLimits,       \* RouteRateConfig.GeoRateLimits: some paths -> limit
    Thresholds,      \* AutoBanThreshold and the rate_limit threat entry's
    Deployments      \* configurations, each with its load and its bounds

Limit == [requests : Nat, window : Nat \ {0}]
Keys == IPs \X (Paths \cup {NoPath})

\* limit is cfg.RateLimit and cfg.RateLimitWindow, maxKeys is
\* maxTrackedRateLimitKeys, autoBan is EnableRateLimitAutoBan with
\* EnableIPBanning and not passive; with a fineClock no two reads of the clock
\* return the same value.  The bounds are on time, tier runs and resets.
Deployment ==
    [callers : SUBSET Callers, ips : SUBSET IPs, paths : SUBSET Paths,
     limit : Limit, maxKeys : Nat \ {0},
     redis : BOOLEAN, failOpen : BOOLEAN, autoBan : BOOLEAN,
     fineClock : BOOLEAN, maxClock : Nat, maxHits : Nat, maxResets : Nat]

ASSUME DeploymentAssumption == \A d \in Deployments : d \in Deployment
ASSUME LimitAssumption ==
    /\ \A f \in {EndpointLimits, RouteLimits, GeoLimits} :
          DOMAIN f \subseteq Paths /\ \A p \in DOMAIN f : f[p] \in Limit
    /\ NoPath \notin Paths /\ IPs # {}
    /\ Thresholds \subseteq Nat \ {0}

VARIABLES
    dep,          \* the deployment, one throughout
    clock,
    store,        \* the lruStores: timestamps, byIPTimestamps, autobanCounts
    redis,        \* redis[k]: the sorted set of bucket k and when it expires
    connected,    \* m.redis and m.rlRedis are set
    script,       \* m.scriptSHA is set; Redis has the script cached
    banned,       \* addresses banned through the auto-ban
    resetting,    \* the progress of Reset, and how often it ran
    req,          \* req[c]: the progress of goroutine c's call
    log           \* history: the tier runs, in the order of their clock reads

vars == <<dep, clock, store, redis, connected, script, banned, resetting, req, log>>
shared == <<redis, connected, script>>

----------------------------------------------------------------------------
(* lruStore: a map and the order in which its keys are evicted.            *)

EmptyStore == [items |-> <<>>, order |-> <<>>]

\* The store with one more key, the head of the order evicted when it is full.
Insert(st, key, value) ==
    LET full == Cardinality(DOMAIN st.items) >= dep.maxKeys
        kept == IF full THEN DOMAIN st.items \ {Head(st.order)} ELSE DOMAIN st.items
    IN [items |-> [k \in kept \cup {key} |->
                      IF k = key THEN value ELSE st.items[k]],
        order |-> Append(IF full THEN Tail(st.order) ELSE st.order, key)]

\* Mutation of GetOrCreate: a hit takes the key out of the order.
GetOrCreateUnlisted(st, key, zero) ==
    IF key \in DOMAIN st.items
    THEN [st EXCEPT !.order = SelectSeq(@, LAMBDA k : k # key)]
    ELSE Insert(st, key, zero)

\* getOrCreate: a hit appends the key to the order and removes nothing from it.
GetOrCreate(st, key, zero) ==
    IF key \in DOMAIN st.items THEN [st EXCEPT !.order = Append(@, key)]
    ELSE Insert(st, key, zero)

\* set.
Put(st, key, value) ==
    IF key \in DOMAIN st.items THEN [st EXCEPT !.items[key] = value]
    ELSE Insert(st, key, value)

\* Mutation of Trimmed: a timestamp at the start of the window is kept.
TrimmedInclusive(ts, start) ==
    LET inside == {i \in DOMAIN ts : ts[i] >= start}
    IN IF inside = {} THEN <<>>
       ELSE SubSeq(ts, CHOOSE i \in inside : \A j \in inside : i <= j, Len(ts))

\* The timestamps without those at the front that left the window.
Trimmed(ts, start) ==
    LET inside == {i \in DOMAIN ts : ts[i] > start}
    IN IF inside = {} THEN <<>>
       ELSE SubSeq(ts, CHOOSE i \in inside : \A j \in inside : i <= j, Len(ts))

----------------------------------------------------------------------------
Tier(name, limit, path) == [name |-> name, requests |-> limit.requests,
                            window |-> limit.window, path |-> path]

OneTier(name, limits, path) ==
    IF path \in DOMAIN limits THEN <<Tier(name, limits[path], path)>> ELSE <<>>

\* tiersFor; CheckRateLimitByIP has the global limit only, on any bucket.
TiersOf(api, path) ==
    IF api = "byIP" THEN <<Tier("byIP", dep.limit, path)>>
    ELSE OneTier("endpoint", EndpointLimits, path)
         \o OneTier("route", RouteLimits, path)
         \o OneTier("geo", GeoLimits, path)
         \o <<Tier("global", dep.limit, NoPath)>>

Steps == {"idle", "tier", "eval", "reload", "pipeline", "read", "write",
          "feed", "feedWrite", "allowed", "denied", "failed"}

NoCall == [pc |-> "idle", api |-> "tiers", ip |-> CHOOSE ip \in IPs : TRUE,
           path |-> NoPath, tier |-> 1, entry |-> 0, retried |-> FALSE,
           seen |-> <<>>, count |-> 0]

Doing(c, step) == req[c].pc = step
Finished(c) == req[c].pc \in {"idle", "allowed", "denied", "failed"}

TierOf(c) == TiersOf(req[c].api, req[c].path)[req[c].tier]
KeyOf(c) == <<req[c].ip, TierOf(c).path>>
Now(c) == log[req[c].entry].at
WindowStart(c) == Now(c) - TierOf(c).window

Init ==
    /\ dep \in Deployments
    /\ clock = 0
    /\ store = [s \in {"tiers", "byIP", "autoban"} |-> EmptyStore]
    /\ redis = [k \in Keys |-> [hits |-> {}, dies |-> 0]]
    /\ connected = dep.redis
    /\ script \in [known : BOOLEAN, cached : BOOLEAN]
    /\ script.known => connected /\ script.cached
    /\ banned = {}
    /\ resetting = [pc |-> "idle", times |-> 0]
    /\ req = [c \in Callers |-> NoCall]
    /\ log = <<>>

----------------------------------------------------------------------------
(* CheckRateLimit and CheckRateLimitByIP.                                  *)

Begin(c, api, ip, path) ==
    /\ Finished(c)
    /\ Len(log) < dep.maxHits
    /\ req' = [req EXCEPT ![c] = [NoCall EXCEPT !.pc = "tier", !.api = api,
                                                !.ip = ip, !.path = path]]
    /\ UNCHANGED <<dep, clock, store, shared, banned, resetting, log>>

\* runTier reads the clock, redisRequestCount the handler and the script's
\* SHA.  The primitive always takes the pipeline.
StartTier(c) ==
    /\ Doing(c, "tier")
    /\ clock' = IF dep.fineClock THEN clock + 1 ELSE clock
    /\ log' = Append(log, [key |-> KeyOf(c), tier |-> TierOf(c), at |-> clock,
                           verdict |-> "open"])
    /\ req' = [req EXCEPT
          ![c].pc = IF ~connected THEN "read"
                    ELSE IF script.known /\ req[c].api = "tiers" THEN "eval"
                    ELSE "pipeline",
          ![c].entry = Len(log) + 1, ![c].retried = FALSE]
    /\ UNCHANGED <<dep, store, shared, banned, resetting>>

\* The tier lets the request through: on to the next, or the call is allowed.
Pass(c) ==
    /\ log' = [log EXCEPT ![req[c].entry].verdict = "passed"]
    /\ req' = IF req[c].tier < Len(TiersOf(req[c].api, req[c].path))
              THEN [req EXCEPT ![c].pc = "tier", ![c].tier = @ + 1]
              ELSE [req EXCEPT ![c].pc = "allowed"]

\* The first tier that blocks ends the call.
Deny(c) ==
    /\ log' = [log EXCEPT ![req[c].entry].verdict = "denied"]
    /\ req' = [req EXCEPT ![c].pc = IF req[c].api = "byIP" THEN "feed" ELSE "denied"]

\* A failed Redis call: the in-memory window, or an error.
Fail(c) ==
    /\ req' = [req EXCEPT ![c].pc = IF dep.failOpen THEN "read" ELSE "failed"]
    /\ UNCHANGED log

\* The hit enters the sorted set, once however many share its timestamp, the
\* set is trimmed and its TTL is renewed.
HitsAfter(c) ==
    LET old == IF clock < redis[KeyOf(c)].dies THEN redis[KeyOf(c)].hits ELSE {}
    IN {t \in old \cup {Now(c)} : t > WindowStart(c)}

RecordHit(c) ==
    redis' = [redis EXCEPT ![KeyOf(c)] =
                 [hits |-> HitsAfter(c), dies |-> clock + 2 * TierOf(c).window]]

\* The script or the pipeline runs atomically in Redis; the reply may be lost.
CountInRedis(c) ==
    \/ /\ RecordHit(c)
       /\ IF Cardinality(HitsAfter(c)) > TierOf(c).requests THEN Deny(c) ELSE Pass(c)
    \/ RecordHit(c) /\ Fail(c)
    \/ UNCHANGED redis /\ Fail(c)

RunPipeline(c) ==
    /\ Doing(c, "pipeline")
    /\ CountInRedis(c)
    /\ UNCHANGED <<dep, clock, store, connected, script, banned, resetting>>

\* EvalSha: NOSCRIPT is answered by one reload, a second one is an error.
EvalSha(c) ==
    /\ Doing(c, "eval")
    /\ IF script.cached THEN CountInRedis(c)
       ELSE /\ UNCHANGED redis
            /\ IF req[c].retried THEN Fail(c)
               ELSE req' = [req EXCEPT ![c].pc = "reload"] /\ UNCHANGED log
    /\ UNCHANGED <<dep, clock, store, connected, script, banned, resetting>>

ReloadScript(c) ==
    /\ Doing(c, "reload")
    /\ \/ /\ script' = [known |-> TRUE, cached |-> TRUE]
          /\ req' = [req EXCEPT ![c].pc = "eval", ![c].retried = TRUE]
          /\ UNCHANGED log
       \/ Fail(c) /\ UNCHANGED script
    /\ UNCHANGED <<dep, clock, store, redis, connected, banned, resetting>>

\* inMemoryRequestCount: getOrCreate and set lock the store one by one.
ReadWindow(c) ==
    LET st == GetOrCreate(store[req[c].api], KeyOf(c), <<>>) IN
    /\ Doing(c, "read")
    /\ store' = [store EXCEPT ![req[c].api] = st]
    /\ req' = [req EXCEPT ![c].pc = "write",
                          ![c].seen = Trimmed(st.items[KeyOf(c)], WindowStart(c))]
    /\ UNCHANGED <<dep, clock, shared, banned, resetting, log>>

\* Mutation of WriteWindow: one request too many passes.
WriteWindowLenient(c) ==
    /\ Doing(c, "write")
    /\ store' = [store EXCEPT ![req[c].api] =
                    Put(@, KeyOf(c), Append(req[c].seen, Now(c)))]
    /\ IF Len(req[c].seen) > TierOf(c).requests THEN Deny(c) ELSE Pass(c)
    /\ UNCHANGED <<dep, clock, shared, banned, resetting>>

\* Two goroutines that append to one slice may share its array: the
\* timestamp that ends up stored is either's.
WriteWindow(c) ==
    /\ Doing(c, "write")
    /\ \E o \in Callers :
          /\ o = c \/ (/\ Doing(o, "write") /\ req[o].api = req[c].api
                       /\ KeyOf(o) = KeyOf(c) /\ req[o].seen = req[c].seen)
          /\ store' = [store EXCEPT ![req[c].api] =
                          Put(@, KeyOf(c), Append(req[c].seen, Now(o)))]
    /\ IF Len(req[c].seen) >= TierOf(c).requests THEN Deny(c) ELSE Pass(c)
    /\ UNCHANGED <<dep, clock, shared, banned, resetting>>

----------------------------------------------------------------------------
(* feedRateLimitAutoban: the count is read and written in two steps.       *)

ReadCount(c) ==
    LET st == GetOrCreate(store["autoban"], req[c].ip, 0) IN
    /\ Doing(c, "feed")
    /\ IF dep.autoBan /\ req[c].ip \notin banned
       THEN /\ store' = [store EXCEPT !["autoban"] = st]
            /\ req' = [req EXCEPT ![c].pc = "feedWrite",
                                  ![c].count = st.items[req[c].ip] + 1]
       ELSE /\ req' = [req EXCEPT ![c].pc = "denied"]
            /\ UNCHANGED store
    /\ UNCHANGED <<dep, clock, shared, banned, resetting, log>>

\* Mutation of WriteCount: the denial counts twice.
WriteCountTwice(c) ==
    /\ Doing(c, "feedWrite")
    /\ store' = [store EXCEPT !["autoban"] = Put(@, req[c].ip, req[c].count + 1)]
    /\ \/ /\ \E t \in Thresholds : req[c].count + 1 >= t
          /\ banned' = banned \cup {req[c].ip}
       \/ UNCHANGED banned
    /\ req' = [req EXCEPT ![c].pc = "denied"]
    /\ UNCHANGED <<dep, clock, shared, resetting, log>>

\* resolveAndApplyThresholdBan; the ban itself may fail or be refused.
WriteCount(c) ==
    /\ Doing(c, "feedWrite")
    /\ store' = [store EXCEPT !["autoban"] = Put(@, req[c].ip, req[c].count)]
    /\ \/ /\ \E t \in Thresholds : req[c].count >= t
          /\ banned' = banned \cup {req[c].ip}
       \/ UNCHANGED banned
    /\ req' = [req EXCEPT ![c].pc = "denied"]
    /\ UNCHANGED <<dep, clock, shared, resetting, log>>

----------------------------------------------------------------------------
(* Reset clears the stores, then the Redis keys, then forgets Redis.       *)

\* What passed before no longer counts.
Forget == log' = [i \in DOMAIN log |-> [log[i] EXCEPT
                     !.verdict = IF @ = "passed" THEN "open" ELSE @]]

ResetStores ==
    /\ resetting.pc = "idle"
    /\ resetting.times < dep.maxResets
    /\ resetting' = [pc    |-> IF connected THEN "redis" ELSE "detach",
                     times |-> resetting.times + 1]
    /\ store' = [s \in DOMAIN store |-> EmptyStore]
    /\ Forget
    /\ UNCHANGED <<dep, clock, shared, banned, req>>

ResetRedis ==
    /\ resetting.pc = "redis"
    /\ resetting' = [resetting EXCEPT !.pc = "detach"]
    /\ redis' \in {redis, [k \in Keys |-> [hits |-> {}, dies |-> 0]]}
    /\ Forget
    /\ UNCHANGED <<dep, clock, store, connected, script, banned, req>>

Detach ==
    /\ resetting.pc = "detach"
    /\ resetting' = [resetting EXCEPT !.pc = "idle"]
    /\ connected' = FALSE
    /\ Forget
    /\ UNCHANGED <<dep, clock, store, redis, script, banned, req>>

\* InitializeRedis; loading the script may fail.
Attach ==
    /\ dep.redis /\ ~connected
    /\ connected' = TRUE
    /\ script' \in {script, [known |-> TRUE, cached |-> TRUE]}
    /\ UNCHANGED <<dep, clock, store, redis, banned, resetting, req, log>>

----------------------------------------------------------------------------
(* The environment.                                                        *)

Tick == /\ clock < dep.maxClock
        /\ clock' = clock + 1
        /\ UNCHANGED <<dep, store, shared, banned, resetting, req, log>>

\* Redis loses its script cache.
FlushScripts == /\ script.cached
                /\ script' = [script EXCEPT !.cached = FALSE]
                /\ UNCHANGED <<dep, clock, store, redis, connected, banned, resetting,
                               req, log>>

\* A ban ends or is lifted.
Lift(ip) == /\ ip \in banned
            /\ banned' = banned \ {ip}
            /\ UNCHANGED <<dep, clock, store, shared, resetting, req, log>>

Serve(c) ==
    \/ \E ip \in dep.ips, path \in dep.paths \cup {NoPath}, api \in {"tiers", "byIP"} :
          Begin(c, api, ip, path)
    \/ StartTier(c) \/ EvalSha(c) \/ ReloadScript(c) \/ RunPipeline(c)
    \/ ReadWindow(c) \/ WriteWindow(c) \/ ReadCount(c) \/ WriteCount(c)

Next ==
    \/ \E c \in dep.callers : Serve(c)
    \/ ResetStores \/ ResetRedis \/ Detach \/ Attach
    \/ Tick \/ FlushScripts \/ \E ip \in IPs : Lift(ip)

Spec == Init /\ [][Next]_vars

----------------------------------------------------------------------------
(* Properties.                                                             *)

Call == [pc : Steps, api : {"tiers", "byIP"}, ip : IPs, path : Paths \cup {NoPath},
         tier : Nat, entry : Nat, retried : BOOLEAN, seen : Seq(Nat), count : Nat]

TierRun == [key : Keys, at : Nat, verdict : {"open", "passed", "denied"},
            tier : [name : {"endpoint", "route", "geo", "global", "byIP"},
                    requests : Nat, window : Nat \ {0}, path : Paths \cup {NoPath}]]

StoreOK(st, keys, values) ==
    /\ DOMAIN st = {"items", "order"}
    /\ st.items \in [DOMAIN st.items -> values]
    /\ DOMAIN st.items \subseteq keys
    /\ st.order \in Seq(keys)

\* Every variable keeps its type.
TypeOK ==
    /\ dep \in Deployments
    /\ clock \in Nat
    /\ DOMAIN store = {"tiers", "byIP", "autoban"}
    /\ \A s \in {"tiers", "byIP"} : StoreOK(store[s], Keys, Seq(Nat))
    /\ StoreOK(store["autoban"], IPs, Nat)
    /\ redis \in [Keys -> [hits : SUBSET Nat, dies : Nat]]
    /\ connected \in BOOLEAN
    /\ script \in [known : BOOLEAN, cached : BOOLEAN]
    /\ banned \subseteq IPs
    /\ resetting \in [pc : {"idle", "redis", "detach"}, times : Nat]
    /\ req \in [Callers -> Call]
    /\ log \in Seq(TierRun)

\* Every stored key is in the order: a full store always has a head to evict
\* (getOrCreate and set index order[0] unchecked).
EvictionHasVictim ==
    \A s \in DOMAIN store :
        DOMAIN store[s].items \subseteq {store[s].order[i] : i \in DOMAIN store[s].order}

\* Whatever calls and resets interleave, a full store can evict.
StoresAreSound == TypeOK /\ EvictionHasVictim

\* A store keeps at most maxKeys keys (coverage_sweep2_test.go, "stores stay
\* bounded").  An evicted order entry left behind by a hit frees no place.
StoreBounded == \A s \in DOMAIN store : Cardinality(DOMAIN store[s].items) <= dep.maxKeys

\* The tier runs of the same client and tier that passed within the window
\* that ends at run i.
PassedWith(i) ==
    {j \in DOMAIN log : /\ log[j].verdict = "passed"
                        /\ log[j].key = log[i].key /\ log[j].tier = log[i].tier
                        /\ log[j].at <= log[i].at
                        /\ log[j].at > log[i].at - log[i].tier.window}

\* The windows by which the bucket of a path is trimmed.
WindowsAt(p) ==
    {f[p].window : f \in {g \in {EndpointLimits, RouteLimits, GeoLimits} :
                                 p \in DOMAIN g}}
    \cup (IF dep.redis THEN {dep.limit.window} ELSE {})

\* Every hit is counted where all are, and kept as long as any tier needs it: in
\* Redis, by distinct clock values and without falling back or detaching, or in
\* memory by one call at a time and without eviction; and no bucket is trimmed by
\* two windows.
CountsExactly ==
    /\ IF dep.redis THEN dep.fineClock /\ ~dep.failOpen /\ dep.maxResets = 0
       ELSE /\ \E c \in Callers : dep.callers = {c}
            /\ IsFiniteSet(dep.ips) /\ IsFiniteSet(dep.paths)
            /\ Cardinality(dep.ips \X (dep.paths \cup {NoPath})) <= dep.maxKeys
    /\ \A p \in dep.paths : Cardinality(WindowsAt(p)) <= 1

\* Tier run i has not been counted yet.
Pending(i) ==
    \E c \in Callers : /\ req[c].entry = i
                       /\ req[c].pc \in {"eval", "reload", "pipeline", "read", "write"}

\* It is counted within a window of its clock read, and no run of the same bucket
\* that read the clock later was counted, or gave up, before it.
Timely(i) ==
    /\ clock <= log[i].at + log[i].tier.window
    /\ \A j \in DOMAIN log : j > i /\ log[j].key = log[i].key => Pending(j)

\* Where the hits are counted exactly, whatever tiers, script reloads, lost
\* replies and resets interleave, a tier run that is counted in time passes only
\* if with it no more have passed in its window than the limit.
LimitEnforced ==
    [][\A i \in DOMAIN log :
          CountsExactly /\ Timely(i) /\ log'[i].verdict = "passed"
            /\ log[i].verdict # "passed" =>
              Cardinality(PassedWith(i))' <= log[i].tier.requests]_vars

\* There too a tier denies a request only if more hits than the limit, its own
\* among them, were made on its bucket since the window began.
DenialsAreEarned ==
    [][\A i \in DOMAIN log :
          CountsExactly /\ log'[i].verdict = "denied" /\ log[i].verdict # "denied" =>
              Cardinality({j \in DOMAIN log :
                              /\ log[j].key = log[i].key
                              /\ log[j].at > log[i].at - log[i].tier.window})
                  > log[i].tier.requests]_vars

\* An address is auto-banned only after as many denials as some threshold.
BansAreEarned ==
    \A ip \in banned : \E t \in Thresholds :
        Cardinality({i \in DOMAIN log : /\ log[i].key[1] = ip
                                        /\ log[i].tier.name = "byIP"
                                        /\ log[i].verdict = "denied"}) >= t
=============================================================================
