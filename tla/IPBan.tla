------------------------------- MODULE IPBan -------------------------------
(***************************************************************************)
(* IPBanManager (ipban.go): every worker process keeps a bounded local map *)
(* of banned addresses and a list of banned networks, and all workers      *)
(* share one Redis.  A worker's goroutines (Callers) run IsIPBanned, Ban,  *)
(* Unban and Reset concurrently; the manager's mutex covers one map access *)
(* at a time, never a whole call, so a call is a sequence of steps that    *)
(* begins with a read of the clock and ends in pc "done".                  *)
(* Time is counted in the unit in which durations and the local cache cap  *)
(* are expressed.                                                          *)
(***************************************************************************)
EXTENDS Integers, Sequences, FiniteSets

CONSTANTS
    Workers,         \* engine processes
    Callers,         \* goroutines
    Home,            \* Home[c]: the process goroutine c runs in
    Spellings,       \* texts of an address callers may pass
    IPs,             \* canonical addresses
    Canonical,       \* CanonicalizeIP: Spellings -> IPs
    Nets,            \* CIDR networks callers may ban
    Members,         \* Members[n]: the addresses network n contains
    Protected,       \* loopback and trusted-proxy addresses
    Durations,       \* ban durations callers pass
    Cap,             \* LOCAL_CACHE_TTL_CAP_SECONDS
    MaxSize,         \* localCacheMaxSize
    RedisConfigured, \* m.redis != nil && m.redis.Enabled()
    MaxClock,        \* bound on time
    NoEntry          \* an absent key

ASSUME CallersAssumption == Home \in [Callers -> Workers]
ASSUME AddressAssumption == /\ Canonical \in [Spellings -> IPs]
                            /\ Members \in [Nets -> SUBSET IPs]
                            /\ Protected \subseteq IPs
ASSUME NumberAssumption == /\ Durations \subseteq Nat \ {0}
                           /\ Cap \in Nat \ {0}
                           /\ MaxSize \in Nat \ {0}
                           /\ MaxClock \in Nat
ASSUME SwitchAssumption == RedisConfigured \in BOOLEAN

LocalEntry  == [expiry : Nat, inserted : Nat]
StoredEntry == [expiry : Nat, dies : Nat]
NetEntry    == [net : Nets, expiry : Nat]

ASSUME NoEntryAssumption == NoEntry \notin LocalEntry \cup StoredEntry

VARIABLES
    clock,
    bannedIPs,   \* bannedIPs[w][ip]: the local entry of ip, or NoEntry
    lruOrder,    \* lruOrder[w]: the order in which local keys are evicted
    bannedNets,  \* bannedNets[w]: the local network bans
    redis,       \* redis[ip]: the key banned_ips:ip and when its TTL ends
    call,        \* call[c]: the progress of goroutine c's call
    granted      \* history: granted[t] is the last moment a Ban of t asked for

vars == <<clock, bannedIPs, lruOrder, bannedNets, redis, call, granted>>
local == <<bannedIPs, lruOrder>>

----------------------------------------------------------------------------
Smaller(a, b) == IF a <= b THEN a ELSE b

\* clampToLocalCap.
ClampToLocalCap(duration) == Smaller(duration, Cap)

\* A Ban of target asks for a ban that lasts until end.
Grant(target, end) ==
    granted' = [granted EXCEPT ![target] = IF @ < end THEN end ELSE @]

\* The slice without x, cut out where the search for it stops.
Without(s, x) ==
    IF \E i \in DOMAIN s : s[i] = x
    THEN LET at == CHOOSE i \in DOMAIN s : s[i] = x
         IN [j \in 1..(Len(s) - 1) |-> IF j < at THEN s[j] ELSE s[j + 1]]
    ELSE s

Cached(w) == {ip \in IPs : bannedIPs[w][ip] # NoEntry}

\* Mutation of LocalSet: a known key enters the order a second time.
LocalSetReappended(w, ip, expiry) ==
    LET evict == bannedIPs[w][ip] = NoEntry /\ Cardinality(Cached(w)) >= MaxSize
        kept  == IF evict
                 THEN [bannedIPs[w] EXCEPT ![Head(lruOrder[w])] = NoEntry]
                 ELSE bannedIPs[w]
        order == IF evict THEN Tail(lruOrder[w]) ELSE lruOrder[w]
    IN /\ bannedIPs' = [bannedIPs EXCEPT
              ![w] = [kept EXCEPT ![ip] = [expiry |-> expiry, inserted |-> clock]]]
       /\ lruOrder' = [lruOrder EXCEPT ![w] = Append(order, ip)]

\* localSet: a new key evicts the oldest one when the map is full.
LocalSet(w, ip, expiry) ==
    LET new   == bannedIPs[w][ip] = NoEntry
        evict == new /\ Cardinality(Cached(w)) >= MaxSize
        kept  == IF evict
                 THEN [bannedIPs[w] EXCEPT ![Head(lruOrder[w])] = NoEntry]
                 ELSE bannedIPs[w]
        order == IF evict THEN Tail(lruOrder[w]) ELSE lruOrder[w]
    IN /\ bannedIPs' = [bannedIPs EXCEPT
              ![w] = [kept EXCEPT ![ip] = [expiry   |-> expiry,
                                           inserted |-> clock]]]
       /\ lruOrder' = [lruOrder EXCEPT
              ![w] = IF new THEN Append(order, ip) ELSE order]

\* localPurge, and the removal of a stale key in localGet.
LocalPurge(w, ip) ==
    IF bannedIPs[w][ip] = NoEntry
    THEN UNCHANGED local
    ELSE /\ bannedIPs' = [bannedIPs EXCEPT ![w][ip] = NoEntry]
         /\ lruOrder' = [lruOrder EXCEPT ![w] = Without(lruOrder[w], ip)]

\* Mutation of LocalHit: the age is tested, the expiry is not.
LocalHitByAge(w, ip, now) ==
    bannedIPs[w][ip] # NoEntry /\ now <= bannedIPs[w][ip].inserted + Cap

\* localGet's test: neither past its expiry nor past the cap on its age.
LocalHit(w, ip, now) ==
    /\ bannedIPs[w][ip] # NoEntry
    /\ now <= bannedIPs[w][ip].expiry
    /\ now <= bannedIPs[w][ip].inserted + Cap

----------------------------------------------------------------------------
Steps == {"networks", "redis", "fill", "drop", "store", "delete", "clear",
          "done"}

Call == [pc : Steps, ip : IPs \cup {NoEntry}, now : Nat, end : Nat,
         ttl : Nat, banned : BOOLEAN]

Idle == [pc |-> "done", ip |-> NoEntry, now |-> 0, end |-> 0, ttl |-> 0,
         banned |-> FALSE]

Ready(c) == call[c].pc = "done"
Doing(c, step) == call[c].pc = step

\* The call of c goes on at the given step; a finished one keeps its answer.
Continue(c, step, ip, now, end, ttl) ==
    call' = [call EXCEPT ![c] = [pc |-> step, ip |-> ip, now |-> now,
                                 end |-> end, ttl |-> ttl, banned |-> FALSE]]
Answer(c, ip, now, verdict) ==
    call' = [call EXCEPT ![c] = [Idle EXCEPT !.ip = ip, !.now = now,
                                             !.banned = verdict]]
Finish(c) == call' = [call EXCEPT ![c] = Idle]

Init ==
    /\ clock = 0
    /\ bannedIPs = [w \in Workers |-> [ip \in IPs |-> NoEntry]]
    /\ lruOrder = [w \in Workers |-> <<>>]
    /\ bannedNets = [w \in Workers |-> {}]
    /\ redis = [ip \in IPs |-> NoEntry]
    /\ call = [c \in Callers |-> Idle]
    /\ granted = [t \in IPs \cup Nets |-> -1]

----------------------------------------------------------------------------
(* IsIPBanned: the local map, the local networks, then Redis.              *)

CheckLocal(c, s) ==
    LET ip == Canonical[s] IN
    /\ Ready(c)
    /\ IF LocalHit(Home[c], ip, clock)
       THEN /\ Answer(c, ip, clock, TRUE)
            /\ UNCHANGED local
       ELSE /\ LocalPurge(Home[c], ip)
            /\ Continue(c, "networks", ip, clock, 0, 0)
    /\ UNCHANGED <<clock, bannedNets, redis, granted>>

\* checkNetworkCache drops the expired networks as it searches.
CheckNetworks(c) ==
    LET ip     == call[c].ip
        now    == call[c].now
        active == {b \in bannedNets[Home[c]] : b.expiry > now}
    IN
    /\ Doing(c, "networks")
    /\ bannedNets' = [bannedNets EXCEPT ![Home[c]] = active]
    /\ IF \E b \in active : ip \in Members[b.net]
       THEN Answer(c, ip, now, TRUE)
       ELSE IF RedisConfigured
            THEN Continue(c, "redis", ip, now, 0, 0)
            ELSE Answer(c, ip, now, FALSE)
    /\ UNCHANGED <<clock, local, redis, granted>>

\* checkRedisExact's GetKey: an error and a missing key both mean no ban.
ReadRedis(c) ==
    LET ip == call[c].ip  now == call[c].now IN
    /\ Doing(c, "redis")
    /\ \/ Answer(c, ip, now, FALSE)
       \/ /\ redis[ip] # NoEntry
          /\ Continue(c, IF now <= redis[ip].expiry THEN "fill" ELSE "drop",
                      ip, now, redis[ip].expiry, 0)
    /\ UNCHANGED <<clock, local, bannedNets, redis, granted>>

\* The expiry read from Redis enters the local map.
FillLocal(c) ==
    /\ Doing(c, "fill")
    /\ LocalSet(Home[c], call[c].ip, call[c].end)
    /\ Answer(c, call[c].ip, call[c].now, TRUE)
    /\ UNCHANGED <<clock, bannedNets, redis, granted>>

\* An expired value is deleted from Redis, whatever the key holds by then.
DropExpired(c) ==
    /\ Doing(c, "drop")
    /\ \/ redis' = [redis EXCEPT ![call[c].ip] = NoEntry]
       \/ UNCHANGED redis
    /\ Answer(c, call[c].ip, call[c].now, FALSE)
    /\ UNCHANGED <<clock, local, bannedNets, granted>>

----------------------------------------------------------------------------
(* Ban.  A target that overlaps a protected address is refused: no state   *)
(* changes.  With Redis the local entry is set before the shared one.      *)

BanExact(c, s, duration) ==
    LET ip  == Canonical[s]
        end == clock + (IF RedisConfigured THEN duration
                        ELSE ClampToLocalCap(duration))
    IN
    /\ Ready(c)
    /\ ip \notin Protected
    /\ LocalSet(Home[c], ip, end)
    /\ Grant(ip, clock + duration)
    /\ IF RedisConfigured
       THEN Continue(c, "store", ip, clock, end, duration)
       ELSE Finish(c)
    /\ UNCHANGED <<clock, bannedNets, redis>>

\* SetKey with the duration as TTL, counted from its arrival at Redis; when
\* it fails the local entry is set again, clamped.
StoreBan(c) ==
    /\ Doing(c, "store")
    /\ \/ /\ redis' = [redis EXCEPT ![call[c].ip] =
                          [expiry |-> call[c].end,
                           dies   |-> clock + call[c].ttl]]
          /\ UNCHANGED local
       \/ /\ LocalSet(Home[c], call[c].ip,
                      call[c].now + ClampToLocalCap(call[c].ttl))
          /\ UNCHANGED redis
    /\ Finish(c)
    /\ UNCHANGED <<clock, bannedNets, granted>>

\* Mutation of BanNetwork: networks skip the test of protected addresses.
BanNetworkUnguarded(c, n, duration) ==
    /\ Ready(c)
    /\ Grant(n, clock + duration)
    /\ \/ RedisConfigured /\ UNCHANGED bannedNets
       \/ bannedNets' = [bannedNets EXCEPT ![Home[c]] = @ \cup
              {[net |-> n, expiry |-> clock + ClampToLocalCap(duration)]}]
    /\ Finish(c)
    /\ UNCHANGED <<clock, local, redis>>

\* banNetwork: a ban Redis accepts is kept under banned_networks only, a key
\* nothing reads; only without Redis does it enter the local list.
BanNetwork(c, n, duration) ==
    /\ Ready(c)
    /\ Members[n] \cap Protected = {}
    /\ Grant(n, clock + duration)
    /\ \/ RedisConfigured /\ UNCHANGED bannedNets
       \/ bannedNets' = [bannedNets EXCEPT ![Home[c]] = @ \cup
              {[net |-> n, expiry |-> clock + ClampToLocalCap(duration)]}]
    /\ Finish(c)
    /\ UNCHANGED <<clock, local, redis>>

----------------------------------------------------------------------------
(* Unban and Reset: the local state first, then Redis.                     *)

\* Mutation of UnbanLocal: the Redis key takes the spelling as it came.
UnbanLocalAsSpelled(c, s) ==
    /\ Ready(c)
    /\ LocalPurge(Home[c], Canonical[s])
    /\ IF RedisConfigured
       THEN Continue(c, "delete", s, clock, 0, 0)
       ELSE Finish(c)
    /\ UNCHANGED <<clock, bannedNets, redis, granted>>

UnbanLocal(c, s) ==
    /\ Ready(c)
    /\ LocalPurge(Home[c], Canonical[s])
    /\ IF RedisConfigured
       THEN Continue(c, "delete", Canonical[s], clock, 0, 0)
       ELSE Finish(c)
    /\ UNCHANGED <<clock, bannedNets, redis, granted>>

UnbanRedis(c) ==
    /\ Doing(c, "delete")
    /\ \/ redis' = [redis EXCEPT ![call[c].ip] = NoEntry]
       \/ UNCHANGED redis
    /\ Finish(c)
    /\ UNCHANGED <<clock, local, bannedNets, granted>>

ResetLocal(c) ==
    /\ Ready(c)
    /\ bannedIPs' = [bannedIPs EXCEPT ![Home[c]] = [ip \in IPs |-> NoEntry]]
    /\ lruOrder' = [lruOrder EXCEPT ![Home[c]] = <<>>]
    /\ bannedNets' = [bannedNets EXCEPT ![Home[c]] = {}]
    /\ IF RedisConfigured
       THEN Continue(c, "clear", NoEntry, clock, 0, 0)
       ELSE Finish(c)
    /\ UNCHANGED <<clock, redis, granted>>

ResetRedis(c) ==
    /\ Doing(c, "clear")
    /\ \/ redis' = [ip \in IPs |-> NoEntry]
       \/ UNCHANGED redis
    /\ Finish(c)
    /\ UNCHANGED <<clock, local, bannedNets, granted>>

----------------------------------------------------------------------------
(* The environment: time passes and Redis drops the keys whose TTL ended;  *)
(* a worker process restarts, its goroutines and its memory gone.          *)

Tick ==
    /\ clock < MaxClock
    /\ clock' = clock + 1
    /\ redis' = [ip \in IPs |->
                    IF redis[ip] # NoEntry /\ redis[ip].dies > clock + 1
                    THEN redis[ip] ELSE NoEntry]
    /\ UNCHANGED <<local, bannedNets, call, granted>>

Restart(w) ==
    /\ bannedIPs' = [bannedIPs EXCEPT ![w] = [ip \in IPs |-> NoEntry]]
    /\ lruOrder' = [lruOrder EXCEPT ![w] = <<>>]
    /\ bannedNets' = [bannedNets EXCEPT ![w] = {}]
    /\ call' = [c \in Callers |-> IF Home[c] = w THEN Idle ELSE call[c]]
    /\ UNCHANGED <<clock, redis, granted>>

Step(c) ==
    \/ \E s \in Spellings : CheckLocal(c, s)
    \/ CheckNetworks(c)
    \/ ReadRedis(c)
    \/ FillLocal(c)
    \/ DropExpired(c)
    \/ \E s \in Spellings, d \in Durations : BanExact(c, s, d)
    \/ StoreBan(c)
    \/ \E n \in Nets, d \in Durations : BanNetwork(c, n, d)
    \/ \E s \in Spellings : UnbanLocal(c, s)
    \/ UnbanRedis(c)
    \/ ResetLocal(c)
    \/ ResetRedis(c)

Next ==
    \/ \E c \in Callers : Step(c)
    \/ Tick
    \/ \E w \in Workers : Restart(w)

Spec == Init /\ [][Next]_vars

----------------------------------------------------------------------------
(* Properties.                                                             *)

\* Every variable keeps its type.
TypeOK ==
    /\ clock \in Nat
    /\ bannedIPs \in [Workers -> [IPs -> LocalEntry \cup {NoEntry}]]
    /\ lruOrder \in [Workers -> Seq(IPs)]
    /\ bannedNets \in [Workers -> SUBSET NetEntry]
    /\ redis \in [IPs -> StoredEntry \cup {NoEntry}]
    /\ call \in [Callers -> Call]
    /\ \A c \in Callers : call[c].pc \notin {"done", "clear"} => call[c].ip \in IPs
    /\ granted \in [IPs \cup Nets -> Int]

\* The map and the eviction order hold the same keys, each once, and no more
\* than MaxSize: otherwise localSet evicts a key that is not there, or
\* indexes an empty order, and the map outgrows its bound.
CacheInSync ==
    \A w \in Workers :
        /\ Cached(w) = {lruOrder[w][i] : i \in DOMAIN lruOrder[w]}
        /\ Len(lruOrder[w]) = Cardinality(Cached(w))
        /\ Len(lruOrder[w]) <= MaxSize

\* IsIPBanned never answers true for an address past every ban a caller
\* asked for, of it or of a network around it, through any interleaving of
\* the clamped, unclamped and read-back expiries of concurrent calls.
NoPhantomBan ==
    \A c \in Callers : call[c].banned =>
        \/ call[c].now <= granted[call[c].ip]
        \/ \E n \in Nets : /\ call[c].ip \in Members[n]
                           /\ call[c].now <= granted[n]

\* No sequence of calls bans a loopback or trusted-proxy address, directly
\* or through a network around it, in this worker or read from another's.
NeverSelfDoS == \A c \in Callers : call[c].banned => call[c].ip \notin Protected

=============================================================================
