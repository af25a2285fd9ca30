-------------------------- MODULE SecurityHeaders --------------------------
(***************************************************************************)
(* The security-headers manager (securityheaders_cache.go) and the headers *)
(* it computes (securityheaders.go): a bounded cache of computed headers   *)
(* with a time to live, and three blocks of the configuration that workers *)
(* exchange through Redis.  A request looks in the cache, computes the     *)
(* headers on a miss, and stores them, each under its own lock section;    *)
(* InitializeRedis loads the blocks one by one into the very configuration *)
(* the manager was built with, and writes them back one by one.            *)
(*                                                                         *)
(* The headers are computed in one step: the loader changes one block at a *)
(* time, so a request sees mixed blocks as it does in the code.            *)
(***************************************************************************)
EXTENDS Integers, Sequences, FiniteSets, FiniteSetsExt, SequencesExt, Functions

CONSTANTS
    Callers,       \* goroutines that call GetHeaders
    CacheKeys,     \* request paths, as normalised by GenerateCacheKey
    CSPs, Customs, \* values of two blocks, Empty among them
    HSTSs,         \* values of the third: Empty or [age, subdomains, preload]
    Empty,
    Valid,         \* the custom headers whose names and values are legal
    Garbled,       \* a stored text that is no JSON of the block
    Stored,        \* what other workers may have left in Redis
    Built,         \* the configuration of NewSecurityHeadersManager
    MaxSize, TTL,  \* HeadersCacheMaxSize, HeadersCacheTTL
    Year,          \* 31536000 seconds, in units of the ages
    MaxTime,
    MaxOrder       \* bound on the length of the order, which has none

\* A block may be empty; what other workers have left is a block or no JSON.
HeadersConstants ==
    /\ Empty \in CSPs /\ Empty \in HSTSs /\ Empty \in Customs
    /\ HSTSs \ {Empty} \subseteq [age: Nat, subdomains: BOOLEAN, preload: BOOLEAN]
    /\ Built \in [csp: CSPs, hsts: HSTSs, custom: Customs]
    /\ Stored \subseteq [csp: CSPs \cup {Garbled}, hsts: HSTSs \cup {Garbled},
                         custom: Customs \cup {Garbled}]
    /\ Valid \subseteq Customs
    /\ MaxSize \in Nat \ {0} /\ TTL \in Nat /\ Year \in Nat /\ MaxTime \in Nat
ASSUME HeadersAssumption == HeadersConstants

VARIABLES
    time,
    config,        \* state, one object with boundDefault: the blocks
    attached,      \* the manager has a Redis handler
    store,         \* what Redis holds for each block, Empty if nothing
    entries,       \* cached headers: path -> [headers, expires, began]
    keyOrder,      \* insertion order of the cache keys
    request,       \* where each request is
    sync,          \* the blocks InitializeRedis has still to load and to store
    reset,         \* where Reset is
    current        \* history: when a value of a block was last in force

headersVars == <<time, config, attached, store, entries, keyOrder, request, sync,
                 reset, current>>

Blocks == {"csp", "hsts", "custom"}
Values == [csp |-> CSPs, hsts |-> HSTSs, custom |-> Customs]
InOrder == <<"csp", "hsts", "custom">>
Waiting == [at |-> "idle"]

HeadersInit ==
    /\ time = 0
    /\ config = Built
    /\ attached = FALSE
    /\ store \in Stored
    /\ entries = <<>> /\ keyOrder = <<>>
    /\ request = [r \in Callers |-> Waiting]
    /\ sync = [load |-> <<>>, write |-> <<>>]
    /\ reset = "idle"
    /\ current = [b \in Blocks |-> [v \in Values[b] |->
                    IF v = Built[b] THEN 0 ELSE -1]]

----------------------------------------------------------------------------
(* The headers                                                             *)

\* buildHSTS: preload needs a year, and takes the subdomains with it even
\* when the age is too small for it.
BuildHSTS(h) ==
    IF h = Empty THEN Empty
    ELSE [age        |-> h.age,
          subdomains |-> h.subdomains \/ h.preload,
          preload    |-> h.preload /\ h.age >= Year]

\* Mutation of Computed: from the configuration of the constructor.
ComputedAsBuilt(c) ==
    [csp |-> Built.csp, hsts |-> BuildHSTS(Built.hsts), custom |-> Built.custom]

\* responseHeaders, for the three blocks that change.
Computed(c) == [csp |-> c.csp, hsts |-> BuildHSTS(c.hsts), custom |-> c.custom]

----------------------------------------------------------------------------
(* The cache                                                               *)

\* get: an expired entry goes, and the first mention of it in the order.
CacheGet(r, p) ==
    LET hit     == p \in DOMAIN entries /\ time <= entries[p].expires
        expired == p \in DOMAIN entries /\ ~hit
    IN /\ request[r] = Waiting
       /\ request' = [request EXCEPT ![r] =
             IF hit THEN Waiting ELSE [at |-> "compute", path |-> p,
                                       began |-> time]]
       /\ entries' = IF expired THEN Restrict(entries, DOMAIN entries \ {p})
                     ELSE entries
       /\ keyOrder' = IF expired THEN RemoveFirst(keyOrder, p) ELSE keyOrder
       /\ UNCHANGED <<time, config, attached, store, sync, reset, current>>

Compute(r) ==
    /\ request[r].at = "compute"
    /\ request' = [request EXCEPT ![r] =
          [at |-> "set", path |-> @.path, began |-> @.began,
           headers |-> Computed(config)]]
    /\ UNCHANGED <<time, config, attached, store, entries, keyOrder, sync, reset,
                   current>>

\* Mutation of Evictable: the head of the order, cached or not.
EvictableAny == DOMAIN keyOrder

\* The places of the order whose key is still cached.
Evictable == {i \in DOMAIN keyOrder : keyOrder[i] \in DOMAIN entries}
Oldest    == keyOrder[Min(Evictable)]

\* set: the first key of the order that is still cached makes room; the key
\* is listed once more, also when it is cached already.
CacheSet(r) ==
    LET p      == request[r].path
        full   == p \notin DOMAIN entries /\ Cardinality(DOMAIN entries) >= MaxSize
        Evict  == full /\ Evictable # {}
        kept   == DOMAIN entries \ (IF Evict THEN {Oldest} ELSE {})
        fresh  == [headers |-> request[r].headers, expires |-> time + TTL,
                   began |-> request[r].began]
    IN /\ request[r].at = "set" /\ Len(keyOrder) < MaxOrder
       /\ request' = [request EXCEPT ![r] = Waiting]
       /\ entries' = [k \in kept \cup {p} |-> IF k = p THEN fresh ELSE entries[k]]
       /\ keyOrder' = Append(IF Evict THEN RemoveFirst(keyOrder, Oldest)
                             ELSE keyOrder, p)
       /\ UNCHANGED <<time, config, attached, store, sync, reset, current>>

----------------------------------------------------------------------------
(* Redis                                                                   *)

InitializeRedis ==
    /\ ~attached /\ reset # "done"                          \* bound: once
    /\ attached' = TRUE
    /\ sync' = [load |-> InOrder, write |-> InOrder]
    /\ UNCHANGED <<time, config, store, entries, keyOrder, request, reset, current>>

\* LoadCachedConfig, one block: an error, nothing, or no JSON keeps what is in
\* force; illegal custom headers are left out.  Like the storing below, it does
\* not start without a handler, which Reset may have taken away.
LoadBlock(fails) ==
    LET b == Head(sync.load)
        v == IF b = "custom" /\ store[b] \notin Valid THEN Empty ELSE store[b]
        gone   == sync.load = InOrder /\ ~attached
        loaded == ~gone /\ ~fails /\ store[b] \notin {Empty, Garbled}
    IN /\ sync.load # <<>>
       /\ sync' = [sync EXCEPT !.load = IF gone THEN <<>> ELSE Tail(@)]
       /\ config' = IF loaded THEN [config EXCEPT ![b] = v] ELSE config
       /\ current' = IF loaded THEN [current EXCEPT ![b][v] = time] ELSE current
       /\ UNCHANGED <<time, attached, store, entries, keyOrder, request, reset>>

\* CacheConfiguration, one block: nothing is written for an empty one, and it
\* does not start without a handler.
StoreBlock(fails) ==
    LET b == Head(sync.write)
        begins == sync.write = InOrder
    IN /\ sync.load = <<>> /\ sync.write # <<>>
       /\ IF begins /\ ~attached
          THEN sync' = [sync EXCEPT !.write = <<>>] /\ UNCHANGED store
          ELSE /\ sync' = [sync EXCEPT !.write = Tail(@)]
               /\ store' = IF fails \/ config[b] = Empty THEN store
                           ELSE [store EXCEPT ![b] = config[b]]
       /\ UNCHANGED <<time, config, attached, entries, keyOrder, request, reset,
                      current>>

----------------------------------------------------------------------------
(* Reset                                                                   *)

Purge ==
    /\ reset = "idle"
    /\ reset' = "restore"
    /\ entries' = <<>> /\ keyOrder' = <<>>
    /\ UNCHANGED <<time, config, attached, store, request, sync, current>>

\* state = boundDefault: the object the loader has written into.
Restore ==
    /\ reset = "restore"
    /\ reset' = IF attached THEN "delete" ELSE "detach"
    /\ UNCHANGED <<time, config, attached, store, entries, keyOrder, request, sync,
                   current>>

\* The keys of every worker go; a failure is logged.
Delete(fails) ==
    /\ reset = "delete"
    /\ reset' = "detach"
    /\ store' = IF fails THEN store ELSE [b \in Blocks |-> Empty]
    /\ UNCHANGED <<time, config, attached, entries, keyOrder, request, sync, current>>

\* SetRedis(nil).
Detach ==
    /\ reset = "detach"
    /\ reset' = "done"                                      \* bound: once
    /\ attached' = FALSE
    /\ UNCHANGED <<time, config, store, entries, keyOrder, request, sync, current>>

Pass == /\ time < MaxTime
        /\ time' = time + 1
        /\ current' = [b \in Blocks |-> [current[b] EXCEPT ![config[b]] = time']]
        /\ UNCHANGED <<config, attached, store, entries, keyOrder, request, sync,
                       reset>>

HeadersNext ==
    \/ \E r \in Callers : \/ \E p \in CacheKeys : CacheGet(r, p)
                           \/ Compute(r)
                           \/ CacheSet(r)
    \/ InitializeRedis
    \/ \E fails \in BOOLEAN : LoadBlock(fails) \/ StoreBlock(fails) \/ Delete(fails)
    \/ Purge \/ Restore \/ Detach
    \/ Pass

HeadersSpec == HeadersInit /\ [][HeadersNext]_headersVars

----------------------------------------------------------------------------
(* Properties                                                              *)

HeadersTypeOK ==
    /\ time \in 0..MaxTime /\ attached \in BOOLEAN
    /\ \A b \in Blocks : config[b] \in Values[b]
    /\ DOMAIN entries \subseteq CacheKeys
    /\ keyOrder \in Seq(CacheKeys)
    /\ reset \in {"idle", "restore", "delete", "detach", "done"}

\* The cache stays within its bound, because whatever duplicates two requests
\* for one path leave in the order, each cached path is still listed there
\* for eviction to find.
HeadersBounded ==
    /\ Cardinality(DOMAIN entries) <= MaxSize
    /\ DOMAIN entries \subseteq Range(keyOrder)

\* The headers were in force, block by block, no earlier than the time.
WereInForce(h, began) ==
    /\ current["csp"][h.csp] >= began
    /\ current["custom"][h.custom] >= began
    /\ \E v \in HSTSs : BuildHSTS(v) = h.hsts /\ current["hsts"][v] >= began

\* Headers in the cache were in force, block by block, no earlier than the
\* request that computed them began, and are not served later than the time
\* to live after they were stored, although loading does not purge the cache.
CachedWereInForce ==
    \A p \in DOMAIN entries : /\ entries[p].expires <= time + TTL
                             /\ WereInForce(entries[p].headers, entries[p].began)

\* What is served and asks browsers to preload qualifies for preloading, also
\* when the age was stored by another worker.
PreloadQualifies ==
    \A p \in DOMAIN entries :
      LET h == entries[p].headers.hsts
      IN h # Empty /\ h.preload => h.age >= Year /\ h.subdomains

\* What the manager keeps fits together.
HeadersHold == HeadersTypeOK /\ HeadersBounded /\ CachedWereInForce /\ PreloadQualifies
=============================================================================
