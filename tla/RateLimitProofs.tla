-------------------------- MODULE RateLimitProofs --------------------------
(***************************************************************************)
(* Proofs about RateLimit, for every set of goroutines, addresses, paths,  *)
(* limits and thresholds and every deployment.                             *)
(***************************************************************************)
EXTENDS RateLimit, FiniteSetTheorems, SequenceTheorems, WellFoundedInduction, TLAPS

----------------------------------------------------------------------------
(* Types.                                                                  *)

TierNames == {"endpoint", "route", "geo", "global", "byIP"}
TierSet == [name : TierNames, requests : Nat, window : Nat \ {0},
            path : Paths \cup {NoPath}]

\* The tiers a call for a path may run through.
TiersAt(api, path) ==
    {t \in TierSet : /\ t.path \in {path, NoPath}
                     /\ t.name = "byIP" <=> api = "byIP"
                     /\ IF api = "byIP" \/ t.path = NoPath THEN t.window = dep.limit.window
                        ELSE \E f \in {EndpointLimits, RouteLimits, GeoLimits} :
                                t.path \in DOMAIN f /\ t.window = f[t.path].window}

LEMMA DeploymentTypes ==
    ASSUME dep \in Deployments
    PROVE  /\ dep \in Deployment /\ dep.limit \in Limit /\ dep.maxKeys \in Nat \ {0}
           /\ dep.ips \subseteq IPs /\ dep.paths \subseteq Paths
           /\ dep.callers \subseteq Callers
           /\ dep.limit.requests \in Nat /\ dep.limit.window \in Nat \ {0}
BY DeploymentAssumption DEF Deployment, Limit

LEMMA OneTierTyped ==
    ASSUME dep \in Deployments, NEW path \in Paths \cup {NoPath},
           NEW limits \in {EndpointLimits, RouteLimits, GeoLimits},
           NEW name \in {"endpoint", "route", "geo"}
    PROVE  OneTier(name, limits, path) \in Seq(TiersAt("tiers", path))
<1>1. CASE path \in DOMAIN limits
  <2>1. limits[path] \in Limit /\ path \in Paths /\ path # NoPath
    BY <1>1, LimitAssumption
  <2> DEFINE t == Tier(name, limits[path], path)
  <2>2. t \in TierSet /\ t.path = path /\ t.name = name /\ t.window = limits[path].window
    BY <2>1 DEF Tier, TierSet, TierNames, Limit
  <2>3. t \in TiersAt("tiers", path)
    BY <1>1, <2>1, <2>2 DEF TiersAt
  <2> HIDE DEF t
  <2>4. <<t>> \in Seq(TiersAt("tiers", path))
    BY <2>3
  <2> QED
    BY <1>1, <2>4 DEF OneTier, t
<1>2. CASE path \notin DOMAIN limits
  BY <1>2 DEF OneTier
<1> QED
  BY <1>1, <1>2

LEMMA TiersTyped ==
    ASSUME dep \in Deployments, NEW path \in Paths \cup {NoPath},
           NEW api \in {"tiers", "byIP"}
    PROVE  /\ TiersOf(api, path) \in Seq(TiersAt(api, path))
           /\ Len(TiersOf(api, path)) >= 1
<1>0. dep.limit \in Limit
  BY DeploymentTypes
<1>1. CASE api = "byIP"
  <2> DEFINE t == Tier("byIP", dep.limit, path)
  <2>1. t \in TierSet /\ t.path = path /\ t.name = "byIP" /\ t.window = dep.limit.window
    BY <1>0 DEF Tier, TierSet, TierNames, Limit
  <2>2. t \in TiersAt("byIP", path)
    BY <2>1 DEF TiersAt
  <2> HIDE DEF t
  <2>3. <<t>> \in Seq(TiersAt("byIP", path)) /\ Len(<<t>>) = 1
    BY <2>2
  <2> QED
    BY <1>1, <2>3 DEF TiersOf, t
<1>2. CASE api = "tiers"
  <2> DEFINE t == Tier("global", dep.limit, NoPath)
             S == TiersAt("tiers", path)
             e == OneTier("endpoint", EndpointLimits, path)
             r == OneTier("route", RouteLimits, path)
             g == OneTier("geo", GeoLimits, path)
  <2>1. t \in TierSet /\ t.path = NoPath /\ t.name = "global" /\ t.window = dep.limit.window
    BY <1>0 DEF Tier, TierSet, TierNames, Limit
  <2>2. t \in S
    BY <2>1 DEF TiersAt
  <2>3. e \in Seq(S) /\ r \in Seq(S) /\ g \in Seq(S)
    BY OneTierTyped
  <2>4. TiersOf(api, path) = e \o r \o g \o <<t>>
    BY <1>2 DEF TiersOf
  <2> HIDE DEF t, S, e, r, g
  <2>5. e \o r \in Seq(S)
    BY <2>3
  <2>6. e \o r \o g \in Seq(S)
    BY <2>3, <2>5
  <2>7. e \o r \o g \o <<t>> \in Seq(S) /\ Len(e \o r \o g \o <<t>>) = Len(e \o r \o g) + 1
    BY <2>2, <2>6
  <2>8. Len(e \o r \o g) \in Nat
    BY <2>6
  <2>9. S = TiersAt(api, path)
    BY <1>2 DEF S
  <2> QED
    BY <2>4, <2>7, <2>8, <2>9
<1> QED
  BY <1>1, <1>2

----------------------------------------------------------------------------
(* The bounded stores.                                                     *)

LEMMA AppendFacts ==
    ASSUME NEW S, NEW s \in Seq(S), NEW e \in S
    PROVE  /\ Append(s, e) \in Seq(S) /\ Len(s) \in Nat /\ DOMAIN s = 1..Len(s)
           /\ Len(Append(s, e)) = Len(s) + 1 /\ DOMAIN Append(s, e) = 1..(Len(s) + 1)
           /\ Append(s, e)[Len(s) + 1] = e /\ Len(s) + 1 \in DOMAIN Append(s, e)
           /\ \A i \in DOMAIN s : i \in DOMAIN Append(s, e) /\ Append(s, e)[i] = s[i]
<1> DEFINE t == Append(s, e)
<1>1. /\ t \in Seq(S) /\ Len(t) = Len(s) + 1 /\ t[Len(s) + 1] = e
      /\ \A i \in 1..Len(s) : t[i] = s[i]
  BY AppendProperties
<1>2. Len(s) \in Nat /\ DOMAIN s = 1..Len(s) /\ DOMAIN t = 1..Len(t)
  BY <1>1, LenProperties
<1> HIDE DEF t
<1>3. DOMAIN t = 1..(Len(s) + 1) /\ Len(s) + 1 \in DOMAIN t /\ DOMAIN s \subseteq DOMAIN t
  BY <1>1, <1>2
<1> QED
  BY <1>1, <1>2, <1>3 DEF t

Victims(st) == DOMAIN st.items \subseteq {st.order[i] : i \in DOMAIN st.order}

LEMMA EmptyStoreSound ==
    ASSUME NEW keys, NEW values
    PROVE  StoreOK(EmptyStore, keys, values) /\ Victims(EmptyStore)
           /\ DOMAIN EmptyStore.items = {}
<1>1. /\ DOMAIN EmptyStore = {"items", "order"}
      /\ EmptyStore.items = <<>> /\ EmptyStore.order = <<>> /\ DOMAIN <<>> = {}
  BY DEF EmptyStore
<1> QED
  BY <1>1 DEF StoreOK, Victims

\* A full store is not empty, and neither is its order.
LEMMA FullHasHead ==
    ASSUME NEW st, NEW keys, NEW values, StoreOK(st, keys, values), Victims(st),
           dep.maxKeys \in Nat \ {0}, Cardinality(DOMAIN st.items) >= dep.maxKeys
    PROVE  st.order # <<>> /\ st.order \in Seq(keys)
<1>1. st.order \in Seq(keys)
  BY DEF StoreOK
<1>2. DOMAIN st.items # {}
  BY FS_EmptySet
<1> QED
  BY <1>1, <1>2 DEF Victims

LEMMA InsertSound ==
    ASSUME NEW st, NEW keys, NEW values, StoreOK(st, keys, values), Victims(st),
           NEW key \in keys, NEW value \in values, dep.maxKeys \in Nat \ {0},
           key \notin DOMAIN st.items
    PROVE  /\ StoreOK(Insert(st, key, value), keys, values)
           /\ Victims(Insert(st, key, value))
           /\ key \in DOMAIN Insert(st, key, value).items
           /\ Insert(st, key, value).items[key] = value
           /\ \A k \in DOMAIN Insert(st, key, value).items \ {key} :
                 /\ k \in DOMAIN st.items
                 /\ Insert(st, key, value).items[k] = st.items[k]
<1> DEFINE full == Cardinality(DOMAIN st.items) >= dep.maxKeys
           kept == IF full THEN DOMAIN st.items \ {Head(st.order)} ELSE DOMAIN st.items
           items == [k \in kept \cup {key} |-> IF k = key THEN value ELSE st.items[k]]
           order == Append(IF full THEN Tail(st.order) ELSE st.order, key)
<1>1. Insert(st, key, value) = [items |-> items, order |-> order]
  BY DEF Insert
<1>2. /\ st.items \in [DOMAIN st.items -> values] /\ DOMAIN st.items \subseteq keys
      /\ st.order \in Seq(keys) /\ kept \subseteq DOMAIN st.items
      /\ DOMAIN st.items \subseteq {st.order[i] : i \in DOMAIN st.order}
  BY DEF StoreOK, Victims
<1>3. /\ DOMAIN items = kept \cup {key} /\ items \in [DOMAIN items -> values]
      /\ DOMAIN items \subseteq keys /\ items[key] = value
      /\ \A k \in DOMAIN items \ {key} : k \in DOMAIN st.items /\ items[k] = st.items[k]
  BY <1>2
<1>4. order \in Seq(keys) /\ DOMAIN items \subseteq {order[i] : i \in DOMAIN order}
  <2>1. CASE full
    <3>1. st.order # <<>>
      BY <2>1, FullHasHead
    <3> DEFINE rest == Tail(st.order)
    <3>2. /\ rest \in Seq(keys) /\ Len(rest) = Len(st.order) - 1
          /\ \A i \in 1..Len(rest) : rest[i] = st.order[i + 1]
          /\ Head(st.order) = st.order[1]
          /\ DOMAIN rest = 1..Len(rest) /\ DOMAIN st.order = 1..Len(st.order)
      BY <1>2, <3>1, HeadTailProperties, LenProperties
    <3> HIDE DEF rest
    <3>3. \A k \in kept : \E i \in DOMAIN rest : rest[i] = k
      <4> SUFFICES ASSUME NEW k \in kept PROVE \E i \in DOMAIN rest : rest[i] = k
        OBVIOUS
      <4>1. PICK i \in DOMAIN st.order : st.order[i] = k
        BY <1>2
      <4>2. i # 1
        BY <2>1, <3>2, <4>1
      <4>3. i - 1 \in DOMAIN rest /\ rest[i - 1] = k
        BY <3>2, <4>1, <4>2
      <4> QED
        BY <4>3
    <3>4. order = Append(rest, key)
      BY <2>1 DEF rest
    <3> HIDE DEF order, kept
    <3>5. /\ order \in Seq(keys) /\ order[Len(rest) + 1] = key
          /\ Len(rest) + 1 \in DOMAIN order
          /\ \A i \in DOMAIN rest : i \in DOMAIN order /\ order[i] = rest[i]
      BY <3>2, <3>4, AppendFacts
    <3> QED
      BY <1>3, <3>3, <3>5
  <2>2. CASE ~full
    <3>1. order = Append(st.order, key) /\ kept = DOMAIN st.items
      BY <2>2
    <3> HIDE DEF order, kept
    <3>2. /\ order \in Seq(keys) /\ order[Len(st.order) + 1] = key
          /\ Len(st.order) + 1 \in DOMAIN order
          /\ \A i \in DOMAIN st.order : i \in DOMAIN order /\ order[i] = st.order[i]
      BY <1>2, <3>1, AppendFacts
    <3> QED
      BY <1>2, <1>3, <3>1, <3>2
  <2> QED
    BY <2>1, <2>2
<1> HIDE DEF items, order
<1> QED
  BY <1>1, <1>3, <1>4 DEF StoreOK, Victims

LEMMA GetOrCreateSound ==
    ASSUME NEW st, NEW keys, NEW values, StoreOK(st, keys, values), Victims(st),
           NEW key \in keys, NEW zero \in values, dep.maxKeys \in Nat \ {0}
    PROVE  /\ StoreOK(GetOrCreate(st, key, zero), keys, values)
           /\ Victims(GetOrCreate(st, key, zero))
           /\ key \in DOMAIN GetOrCreate(st, key, zero).items
           /\ \A k \in DOMAIN GetOrCreate(st, key, zero).items :
                 \/ k \in DOMAIN st.items /\ GetOrCreate(st, key, zero).items[k] = st.items[k]
                 \/ k = key /\ GetOrCreate(st, key, zero).items[k] = zero
<1>1. CASE key \in DOMAIN st.items
  <2> DEFINE order == Append(st.order, key)
             new == [st EXCEPT !.order = order]
  <2>1. GetOrCreate(st, key, zero) = new
    BY <1>1 DEF GetOrCreate
  <2>2. st.order \in Seq(keys)
    BY DEF StoreOK
  <2>3. /\ order \in Seq(keys)
        /\ \A i \in DOMAIN st.order : i \in DOMAIN order /\ order[i] = st.order[i]
    BY <2>2
  <2> HIDE DEF order
  <2>4. new.items = st.items
    OBVIOUS
  <2> QED
    BY <1>1, <2>1, <2>3, <2>4 DEF StoreOK, Victims
<1>2. CASE key \notin DOMAIN st.items
  BY <1>2, InsertSound DEF GetOrCreate
<1> QED
  BY <1>1, <1>2

LEMMA PutSound ==
    ASSUME NEW st, NEW keys, NEW values, StoreOK(st, keys, values), Victims(st),
           NEW key \in keys, NEW value \in values, dep.maxKeys \in Nat \ {0}
    PROVE  /\ StoreOK(Put(st, key, value), keys, values)
           /\ Victims(Put(st, key, value))
           /\ \A k \in DOMAIN Put(st, key, value).items :
                 \/ k \in DOMAIN st.items /\ Put(st, key, value).items[k] = st.items[k]
                 \/ k = key /\ Put(st, key, value).items[k] = value
<1>1. CASE key \in DOMAIN st.items
  <2> DEFINE items == [st.items EXCEPT ![key] = value]
             new == [st EXCEPT !.items = items]
  <2>1. Put(st, key, value) = new
    BY <1>1 DEF Put
  <2>2. /\ DOMAIN items = DOMAIN st.items /\ items \in [DOMAIN items -> values]
        /\ \A k \in DOMAIN items : items[k] = IF k = key THEN value ELSE st.items[k]
    BY <1>1 DEF StoreOK
  <2> HIDE DEF items
  <2>3. new.order = st.order /\ (DOMAIN new = DOMAIN st)
    OBVIOUS
  <2>4. new.items = items
    BY DEF StoreOK
  <2> QED
    BY <1>1, <2>1, <2>2, <2>3, <2>4 DEF StoreOK, Victims
<1>2. CASE key \notin DOMAIN st.items
  BY <1>2, InsertSound DEF Put
<1> QED
  BY <1>1, <1>2

LEMMA Least ==
    ASSUME NEW S, S \subseteq Nat, S # {}
    PROVE  \E i \in S : \A j \in S : i <= j
<1> DEFINE R == OpToRel(<, Nat)
<1>1. IsWellFoundedOn(R, Nat)
  BY NatLessThanWellFounded
<1>2. \A x \in S, y \in S : y < x => <<y, x>> \in R
  BY DEF OpToRel
<1> HIDE DEF R
<1>3. \E x \in S : \A y \in S : ~(<<y, x>> \in R)
  BY <1>1, WFMin
<1>4. \E x \in S : \A y \in S : ~(y < x)
  BY <1>2, <1>3, Zenon
<1>5. \A x \in S, y \in S : ~(y < x) => x <= y
  OBVIOUS
<1> QED
  BY <1>4, <1>5

LEMMA TrimmedTyped ==
    ASSUME NEW ts \in Seq(Nat), NEW start \in Int
    PROVE  Trimmed(ts, start) \in Seq(Nat)
<1> DEFINE inside == {i \in DOMAIN ts : ts[i] > start}
           first == CHOOSE i \in inside : \A j \in inside : i <= j
<1>1. ts \in [1..Len(ts) -> Nat] /\ Len(ts) \in Nat /\ DOMAIN ts = 1..Len(ts)
  BY LenProperties
<1>2. CASE inside = {}
  BY <1>2 DEF Trimmed
<1>3. CASE inside # {}
  <2>1. inside \subseteq Nat
    BY <1>1
  <2>2. first \in inside
    <3>1. \E i \in inside : \A j \in inside : i <= j
      BY <1>3, <2>1, Least
    <3> QED
      BY <3>1
  <2>3. first \in 1..Len(ts)
    BY <1>1, <2>2
  <2>4. Trimmed(ts, start) = SubSeq(ts, first, Len(ts))
    BY <1>3 DEF Trimmed
  <2> HIDE DEF first
  <2>5. \A i \in first..Len(ts) : ts[i] \in Nat
    BY <1>1, <2>3
  <2> QED
    BY <1>1, <2>3, <2>4, <2>5, SubSeqProperties
<1> QED
  BY <1>2, <1>3

----------------------------------------------------------------------------
(* The inductive invariant.                                                *)

Counting == {"eval", "reload", "pipeline", "read", "write"}
Entered == Counting \cup {"feed"}

\* A call runs through the tiers of its path; while a tier run is counted, and
\* until its denial has been fed to the auto-ban, it is the call's alone.
CallInv(c) ==
    /\ req[c].pc # "idle" =>
          /\ req[c].ip \in dep.ips /\ req[c].path \in dep.paths \cup {NoPath}
          /\ req[c].tier \in 1..Len(TiersOf(req[c].api, req[c].path))
    /\ req[c].pc \in Entered =>
          /\ req[c].entry \in DOMAIN log
          /\ log[req[c].entry].key = KeyOf(c) /\ log[req[c].entry].tier = TierOf(c)
          /\ log[req[c].entry].verdict = IF req[c].pc = "feed" THEN "denied" ELSE "open"
          /\ \A d \in Callers :
                req[d].pc \in Entered /\ req[d].entry = req[c].entry => d = c
    /\ req[c].pc \in {"feed", "feedWrite"} => req[c].api = "byIP"

\* The denials of an address by the primitive, without those not fed yet.
Fed(ip) ==
    {i \in DOMAIN log : /\ log[i].key[1] = ip /\ log[i].tier.name = "byIP"
                        /\ log[i].verdict = "denied"
                        /\ ~\E c \in Callers : req[c].pc = "feed" /\ req[c].entry = i}

\* Two calls that read the same count lose one; no count is ahead of the denials.
FeedInv ==
    /\ \A ip \in DOMAIN store["autoban"].items :
          store["autoban"].items[ip] <= Cardinality(Fed(ip))
    /\ \A c \in Callers :
          req[c].pc = "feedWrite" => req[c].count <= Cardinality(Fed(req[c].ip))

LimitInv ==
    /\ TypeOK /\ EvictionHasVictim
    /\ \A c \in Callers : CallInv(c)
    /\ FeedInv /\ BansAreEarned
LEMMA InvTypes ==
    ASSUME LimitInv
    PROVE  /\ dep \in Deployments /\ clock \in Nat /\ req \in [Callers -> Call]
           /\ log \in Seq(TierRun) /\ DOMAIN log = 1..Len(log) /\ Len(log) \in Nat
           /\ \A i \in DOMAIN log : log[i] \in TierRun
           /\ \A c \in Callers : req[c] \in Call
           /\ DOMAIN store = {"tiers", "byIP", "autoban"}
           /\ \A s \in DOMAIN store : Victims(store[s])
           /\ \A s \in {"tiers", "byIP"} : StoreOK(store[s], Keys, Seq(Nat))
           /\ StoreOK(store["autoban"], IPs, Nat)
<1>1. log \in Seq(TierRun)
  BY DEF LimitInv, TypeOK
<1>2. DOMAIN log = 1..Len(log) /\ Len(log) \in Nat
      /\ \A i \in DOMAIN log : log[i] \in TierRun
  BY <1>1
<1> QED
  BY <1>1, <1>2 DEF LimitInv, TypeOK, EvictionHasVictim, Victims

----------------------------------------------------------------------------
(* A step of one call.                                                     *)

\* What a step of goroutine c does to the history: it may append, and change the
\* verdict of the tier run c is counting.
RunsKept(c) ==
    /\ log' \in Seq(TierRun)
    /\ \A i \in DOMAIN log :
          /\ i \in DOMAIN log' /\ log'[i].key = log[i].key /\ log'[i].tier = log[i].tier
          /\ log'[i].verdict = log[i].verdict
                \/ (req[c].pc \in Counting /\ req[c].entry = i)

Denials(ip) == {i \in DOMAIN log : /\ log[i].key[1] = ip /\ log[i].tier.name = "byIP"
                                   /\ log[i].verdict = "denied"}

LEMMA SeqIndexes ==
    ASSUME NEW S, NEW s \in Seq(S), NEW T, T \subseteq DOMAIN s
    PROVE  IsFiniteSet(T) /\ Cardinality(T) \in Nat
<1>1. DOMAIN s = 1..Len(s) /\ Len(s) \in Nat
  OBVIOUS
<1>2. IsFiniteSet(1..Len(s))
  BY <1>1, FS_Interval
<1> QED
  BY <1>1, <1>2, FS_Subset, FS_CardinalityType

LEMMA CallStep ==
    ASSUME LimitInv, NEW c \in Callers, NEW new \in Call, UNCHANGED dep,
           req' = [req EXCEPT ![c] = new], RunsKept(c), CallInv(c)',
           \/ new.pc \notin Entered
           \/ req[c].pc \in Counting /\ new.entry = req[c].entry
           \/ new.entry \notin DOMAIN log
    PROVE  /\ req' \in [Callers -> Call] /\ \A d \in Callers : CallInv(d)'
           /\ \A ip \in IPs : Fed(ip) \subseteq Fed(ip)' /\ Denials(ip) \subseteq Denials(ip)'
<1>1. /\ req' \in [Callers -> Call] /\ req'[c] = new
      /\ \A d \in Callers : d # c => req'[d] = req[d]
  BY InvTypes
<1>2. req[c].pc \in Counting => /\ req[c].entry \in DOMAIN log
                                /\ log[req[c].entry].verdict = "open"
  BY DEF LimitInv, CallInv, Entered, Counting
<1>3. ASSUME NEW d \in Callers PROVE CallInv(d)'
  <2>1. CASE d = c
    BY <2>1
  <2>2. CASE d # c
    <3>1. req'[d] = req[d] /\ KeyOf(d)' = KeyOf(d) /\ TierOf(d)' = TierOf(d)
      BY <1>1, <2>2 DEF KeyOf, TierOf, TiersOf
    <3>2. TiersOf(req[d].api, req[d].path)' = TiersOf(req[d].api, req[d].path)'
      OBVIOUS
    <3>3. CallInv(d)
      BY DEF LimitInv
    <3>4. /\ req'[d].pc # "idle" =>
               /\ req'[d].ip \in dep'.ips /\ req'[d].path \in dep'.paths \cup {NoPath}
               /\ req'[d].tier \in 1..Len(TiersOf(req[d].api, req[d].path)')
          /\ req'[d].pc \in {"feed", "feedWrite"} => req'[d].api = "byIP"
      BY <3>1, <3>3 DEF CallInv, TiersOf
    <3>5. ASSUME req[d].pc \in Entered
          PROVE  /\ req'[d].entry \in DOMAIN log'
                 /\ log'[req'[d].entry].key = KeyOf(d)'
                 /\ log'[req'[d].entry].tier = TierOf(d)'
                 /\ log'[req'[d].entry].verdict = IF req'[d].pc = "feed" THEN "denied" ELSE "open"
                 /\ \A e \in Callers :
                       req'[e].pc \in Entered /\ req'[e].entry = req'[d].entry => e = d
      <4>1. /\ req[d].entry \in DOMAIN log
            /\ log[req[d].entry].key = KeyOf(d) /\ log[req[d].entry].tier = TierOf(d)
            /\ log[req[d].entry].verdict = IF req[d].pc = "feed" THEN "denied" ELSE "open"
            /\ \A e \in Callers :
                  req[e].pc \in Entered /\ req[e].entry = req[d].entry => e = d
        BY <3>3, <3>5 DEF CallInv
      <4>2. req[c].pc \in Counting => req[c].entry # req[d].entry
        BY <2>2, <4>1 DEF Entered
      <4>3. new.pc \in Entered => new.entry # req[d].entry
        BY <4>1, <4>2
      <4> QED
        BY <1>1, <3>1, <4>1, <4>2, <4>3 DEF RunsKept
    <3> QED
      BY <3>1, <3>4, <3>5 DEF CallInv
  <2> QED
    BY <2>1, <2>2
<1>4. ASSUME NEW i \in DOMAIN log, log[i].verdict = "denied"
      PROVE  /\ i \in DOMAIN log' /\ log'[i].key = log[i].key /\ log'[i].tier = log[i].tier
             /\ log'[i].verdict = "denied"
             /\ new.pc = "feed" => new.entry # i
  BY <1>2, <1>4 DEF RunsKept, Entered
<1>5. ASSUME NEW ip \in IPs PROVE Denials(ip) \subseteq Denials(ip)'
  BY <1>4 DEF Denials
<1>6. ASSUME NEW ip \in IPs PROVE Fed(ip) \subseteq Fed(ip)'
  <2> SUFFICES ASSUME NEW i \in Fed(ip) PROVE i \in Fed(ip)'
    OBVIOUS
  <2>1. /\ i \in DOMAIN log' /\ log'[i].key[1] = ip /\ log'[i].tier.name = "byIP"
        /\ log'[i].verdict = "denied" /\ (new.pc = "feed" => new.entry # i)
    BY <1>4 DEF Fed
  <2>2. ~\E d \in Callers : req'[d].pc = "feed" /\ req'[d].entry = i
    BY <1>1, <2>1 DEF Fed
  <2> QED
    BY <2>1, <2>2 DEF Fed
<1> QED
  BY <1>1, <1>3, <1>5, <1>6
\* The variables no call's history depends on.
RestTyped ==
    /\ clock \in Nat /\ redis \in [Keys -> [hits : SUBSET Nat, dies : Nat]]
    /\ connected \in BOOLEAN /\ script \in [known : BOOLEAN, cached : BOOLEAN]
    /\ resetting \in [pc : {"idle", "redis", "detach"}, times : Nat]

StoresSound ==
    /\ DOMAIN store = {"tiers", "byIP", "autoban"}
    /\ \A s \in {"tiers", "byIP"} : StoreOK(store[s], Keys, Seq(Nat)) /\ Victims(store[s])
    /\ StoreOK(store["autoban"], IPs, Nat) /\ Victims(store["autoban"])

LEMMA InvParts ==
    LimitInv <=> /\ dep \in Deployments /\ RestTyped /\ StoresSound /\ banned \subseteq IPs
                 /\ req \in [Callers -> Call] /\ log \in Seq(TierRun)
                 /\ (\A c \in Callers : CallInv(c)) /\ FeedInv /\ BansAreEarned
<1>1. TypeOK /\ EvictionHasVictim
      <=> /\ dep \in Deployments /\ RestTyped /\ StoresSound /\ banned \subseteq IPs
          /\ req \in [Callers -> Call] /\ log \in Seq(TierRun)
  <2>1. ASSUME DOMAIN store = {"tiers", "byIP", "autoban"}
        PROVE  EvictionHasVictim <=> /\ \A s \in {"tiers", "byIP"} : Victims(store[s])
                                     /\ Victims(store["autoban"])
    BY <2>1 DEF EvictionHasVictim, Victims
  <2>2. TypeOK /\ EvictionHasVictim =>
           /\ dep \in Deployments /\ RestTyped /\ StoresSound /\ banned \subseteq IPs
           /\ req \in [Callers -> Call] /\ log \in Seq(TierRun)
    <3> HIDE DEF EvictionHasVictim
    <3> QED
      BY <2>1 DEF TypeOK, RestTyped, StoresSound
  <2>3. ASSUME dep \in Deployments, RestTyped, StoresSound, banned \subseteq IPs,
               req \in [Callers -> Call], log \in Seq(TierRun)
        PROVE  TypeOK /\ EvictionHasVictim
    BY <2>1, <2>3 DEF TypeOK, RestTyped, StoresSound
  <2> QED
    BY <2>2, <2>3
<1> QED
  BY <1>1 DEF LimitInv

LEMMA DenialsFinite ==
    ASSUME log \in Seq(TierRun), NEW ip
    PROVE  /\ IsFiniteSet(Denials(ip)) /\ IsFiniteSet(Fed(ip)) /\ Fed(ip) \subseteq Denials(ip)
           /\ Cardinality(Denials(ip)) \in Nat /\ Cardinality(Fed(ip)) \in Nat
<1>1. Denials(ip) \subseteq DOMAIN log /\ Fed(ip) \subseteq DOMAIN log
  BY DEF Denials, Fed
<1>2. Fed(ip) \subseteq Denials(ip)
  BY DEF Denials, Fed
<1> QED
  BY <1>1, <1>2, SeqIndexes

DenialsCounted ==
    \A ip \in IPs : /\ IsFiniteSet(Denials(ip)) /\ IsFiniteSet(Fed(ip))
                    /\ Cardinality(Denials(ip)) \in Nat /\ Cardinality(Fed(ip)) \in Nat

LEMMA DenialsTyped == log \in Seq(TierRun) => DenialsCounted
BY DenialsFinite DEF DenialsCounted

\* No step forgets a denial, a count is raised by the denials that were fed, and a
\* ban by those that were made.
LEMMA AnyStep ==
    ASSUME LimitInv, UNCHANGED dep, RestTyped', StoresSound', banned' \subseteq IPs,
           req' \in [Callers -> Call], log' \in Seq(TierRun),
           \A c \in Callers : CallInv(c)',
           \A ip \in IPs : Fed(ip) \subseteq Fed(ip)' /\ Denials(ip) \subseteq Denials(ip)',
           \A ip \in DOMAIN store'["autoban"].items :
              \/ /\ ip \in DOMAIN store["autoban"].items
                 /\ store'["autoban"].items[ip] = store["autoban"].items[ip]
              \/ store'["autoban"].items[ip] <= Cardinality(Fed(ip)'),
           \A c \in Callers : req'[c].pc = "feedWrite" =>
              \/ req'[c] = req[c]
              \/ req'[c].count <= Cardinality(Fed(req[c].ip)'),
           \A ip \in banned' :
              ip \in banned \/ \E t \in Thresholds : Cardinality(Denials(ip)') >= t
    PROVE  LimitInv'
<1>1. log \in Seq(TierRun) /\ req \in [Callers -> Call] /\ Thresholds \subseteq Nat
      /\ StoreOK(store["autoban"], IPs, Nat) /\ banned \subseteq IPs
  BY InvParts, LimitAssumption DEF StoresSound
<1>2. ASSUME NEW ip \in IPs
      PROVE  /\ Cardinality(Denials(ip)) <= Cardinality(Denials(ip)')
             /\ Cardinality(Fed(ip)) <= Cardinality(Fed(ip)')
             /\ Cardinality(Denials(ip)) \in Nat /\ Cardinality(Denials(ip)') \in Nat
             /\ Cardinality(Fed(ip)) \in Nat /\ Cardinality(Fed(ip)') \in Nat
  <2>1. /\ IsFiniteSet(Denials(ip)) /\ IsFiniteSet(Fed(ip))
        /\ Cardinality(Denials(ip)) \in Nat /\ Cardinality(Fed(ip)) \in Nat
    BY <1>1, DenialsFinite
  <2>2. (log \in Seq(TierRun) =>
           /\ IsFiniteSet(Denials(ip)) /\ IsFiniteSet(Fed(ip))
           /\ Cardinality(Denials(ip)) \in Nat /\ Cardinality(Fed(ip)) \in Nat)'
    <3>1. (log \in Seq(TierRun) => DenialsCounted)'
      BY DenialsTyped, PTL
    <3> QED
      BY <3>1 DEF DenialsCounted
  <2> QED
    BY <2>1, <2>2, FS_Subset
<1>3. FeedInv'
  <2>1. ASSUME NEW ip \in DOMAIN store'["autoban"].items
        PROVE  store'["autoban"].items[ip] <= Cardinality(Fed(ip)')
    <3>1. ip \in IPs
      BY DEF StoresSound, StoreOK
    <3>2. ip \in DOMAIN store["autoban"].items =>
             /\ store["autoban"].items[ip] \in Nat
             /\ store["autoban"].items[ip] <= Cardinality(Fed(ip))
      BY <1>1 DEF LimitInv, FeedInv, StoreOK
    <3> QED
      BY <1>2, <3>1, <3>2
  <2>2. ASSUME NEW c \in Callers, req'[c].pc = "feedWrite"
        PROVE  req'[c].count <= Cardinality(Fed(req[c].ip)')
    <3>1. CASE req'[c] = req[c]
      <4>1. req[c].pc = "feedWrite" /\ req[c].ip \in IPs /\ req[c].count \in Nat
        BY <1>1, <2>2, <3>1 DEF Call
      <4>2. req[c].count <= Cardinality(Fed(req[c].ip))
        BY <4>1 DEF LimitInv, FeedInv
      <4>3. PICK ip \in IPs : ip = req[c].ip
        BY <4>1
      <4>4. req'[c].count <= Cardinality(Fed(ip)')
        BY <1>2, <3>1, <4>1, <4>2, <4>3
      <4> QED
        BY <3>1, <4>3, <4>4
    <3>2. CASE req'[c] # req[c]
      BY <2>2, <3>2
    <3> QED
      BY <3>1, <3>2
  <2> QED
    BY <2>1, <2>2 DEF FeedInv
<1>4. BansAreEarned'
  <2> SUFFICES ASSUME NEW ip \in banned'
               PROVE  \E t \in Thresholds : Cardinality(Denials(ip)') >= t
    BY DEF BansAreEarned, Denials
  <2>1. CASE ip \in banned
    <3>1. PICK t \in Thresholds : Cardinality(Denials(ip)) >= t
      BY <2>1 DEF LimitInv, BansAreEarned, Denials
    <3> QED
      BY <1>1, <1>2, <3>1
  <2>2. CASE ip \notin banned
    BY <2>2
  <2> QED
    BY <2>1, <2>2
<1>5. (LimitInv <=> /\ dep \in Deployments /\ RestTyped /\ StoresSound /\ banned \subseteq IPs
                    /\ req \in [Callers -> Call] /\ log \in Seq(TierRun)
                    /\ (\A c \in Callers : CallInv(c)) /\ FeedInv /\ BansAreEarned)'
  BY InvParts, PTL
<1> QED
  BY <1>3, <1>4, <1>5, InvTypes
\* A step of a call that writes no store but its windows and bans nobody.
LEMMA WindowStep ==
    ASSUME LimitInv, NEW c \in Callers, NEW new \in Call, UNCHANGED <<dep, banned>>,
           RestTyped', StoresSound', store'["autoban"] = store["autoban"],
           req' = [req EXCEPT ![c] = new], RunsKept(c), CallInv(c)',
           new.pc # "feedWrite",
           \/ new.pc \notin Entered
           \/ req[c].pc \in Counting /\ new.entry = req[c].entry
           \/ new.entry \notin DOMAIN log
    PROVE  LimitInv'
<1>1. /\ req' \in [Callers -> Call] /\ \A d \in Callers : CallInv(d)'
      /\ \A ip \in IPs : Fed(ip) \subseteq Fed(ip)' /\ Denials(ip) \subseteq Denials(ip)'
  BY CallStep
<1>2. \A d \in Callers : req'[d] = req[d] \/ req'[d].pc # "feedWrite"
  BY InvTypes
<1>3. banned \subseteq IPs /\ log' \in Seq(TierRun)
  BY InvParts DEF RunsKept
<1> HIDE DEF LimitInv
<1> QED
  BY <1>1, <1>2, <1>3, AnyStep

\* The calls and their types.
LEMMA CallTypes ==
    ASSUME LimitInv, NEW c \in Callers
    PROVE  /\ req[c] \in Call /\ CallInv(c) /\ req[c].api \in {"tiers", "byIP"}
           /\ req[c].ip \in IPs /\ req[c].path \in Paths \cup {NoPath}
           /\ req[c].pc # "idle" =>
                 /\ TierOf(c) \in TiersAt(req[c].api, req[c].path)
                 /\ KeyOf(c) \in Keys /\ KeyOf(c)[1] = req[c].ip
           /\ req[c].pc \in Entered =>
                 /\ req[c].entry \in DOMAIN log /\ log[req[c].entry] \in TierRun
                 /\ Now(c) \in Nat /\ WindowStart(c) \in Int
<1>1. req[c] \in Call /\ CallInv(c)
  BY InvTypes DEF LimitInv
<1>2. /\ req[c].api \in {"tiers", "byIP"} /\ req[c].ip \in IPs
      /\ req[c].path \in Paths \cup {NoPath}
  BY <1>1 DEF Call
<1>3. ASSUME req[c].pc # "idle"
      PROVE  /\ TierOf(c) \in TiersAt(req[c].api, req[c].path)
             /\ KeyOf(c) \in Keys /\ KeyOf(c)[1] = req[c].ip
  <2>1. TiersOf(req[c].api, req[c].path) \in Seq(TiersAt(req[c].api, req[c].path))
    BY <1>2, TiersTyped, InvTypes
  <2>2. req[c].tier \in 1..Len(TiersOf(req[c].api, req[c].path))
    BY <1>1, <1>3 DEF CallInv
  <2>3. TierOf(c) \in TiersAt(req[c].api, req[c].path)
    BY <2>1, <2>2 DEF TierOf
  <2>4. TierOf(c).path \in Paths \cup {NoPath}
    BY <2>3 DEF TiersAt, TierSet
  <2> QED
    BY <1>2, <2>3, <2>4 DEF KeyOf, Keys
<1>4. ASSUME req[c].pc \in Entered
      PROVE  /\ req[c].entry \in DOMAIN log /\ log[req[c].entry] \in TierRun
             /\ Now(c) \in Nat /\ WindowStart(c) \in Int
  <2>1. req[c].entry \in DOMAIN log /\ log[req[c].entry] \in TierRun
    BY <1>1, <1>4, InvTypes DEF CallInv
  <2>2. TierOf(c).window \in Nat
    BY <1>3, <1>4 DEF Entered, Counting, TiersAt, TierSet
  <2> QED
    BY <2>1, <2>2 DEF Now, WindowStart, TierRun
<1> QED
  BY <1>1, <1>2, <1>3, <1>4
----------------------------------------------------------------------------
(* Every step keeps the invariant.                                         *)

\* Changing one field of a call.
LEMMA CallFields ==
    ASSUME NEW r \in Call
    PROVE  /\ \A p \in Steps : LET s == [r EXCEPT !.pc = p] IN
                 /\ s \in Call /\ s.pc = p /\ s.api = r.api /\ s.ip = r.ip /\ s.path = r.path
                 /\ s.tier = r.tier /\ s.entry = r.entry /\ s.count = r.count /\ s.seen = r.seen
           /\ \A n \in Nat : LET s == [r EXCEPT !.tier = n] IN
                 /\ s \in Call /\ s.pc = r.pc /\ s.api = r.api /\ s.ip = r.ip /\ s.path = r.path
                 /\ s.tier = n /\ s.entry = r.entry /\ s.count = r.count /\ s.seen = r.seen
           /\ \A n \in Nat : LET s == [r EXCEPT !.entry = n] IN
                 /\ s \in Call /\ s.pc = r.pc /\ s.api = r.api /\ s.ip = r.ip /\ s.path = r.path
                 /\ s.tier = r.tier /\ s.entry = n /\ s.count = r.count /\ s.seen = r.seen
           /\ \A b \in BOOLEAN : LET s == [r EXCEPT !.retried = b] IN
                 /\ s \in Call /\ s.pc = r.pc /\ s.api = r.api /\ s.ip = r.ip /\ s.path = r.path
                 /\ s.tier = r.tier /\ s.entry = r.entry /\ s.count = r.count /\ s.seen = r.seen
           /\ \A q \in Seq(Nat) : LET s == [r EXCEPT !.seen = q] IN
                 /\ s \in Call /\ s.pc = r.pc /\ s.api = r.api /\ s.ip = r.ip /\ s.path = r.path
                 /\ s.tier = r.tier /\ s.entry = r.entry /\ s.count = r.count /\ s.seen = q
           /\ \A n \in Nat : LET s == [r EXCEPT !.count = n] IN
                 /\ s \in Call /\ s.pc = r.pc /\ s.api = r.api /\ s.ip = r.ip /\ s.path = r.path
                 /\ s.tier = r.tier /\ s.entry = r.entry /\ s.count = n /\ s.seen = r.seen
BY DEF Call, Steps

LEMMA CallAt ==
    ASSUME NEW r \in Call, NEW p \in Steps
    PROVE  LET s == [r EXCEPT !.pc = p] IN
           /\ s \in Call /\ s.pc = p /\ s.api = r.api /\ s.ip = r.ip /\ s.path = r.path
           /\ s.tier = r.tier /\ s.entry = r.entry /\ s.count = r.count /\ s.seen = r.seen
BY CallFields

LEMMA StepNames ==
    {"tier", "eval", "reload", "pipeline", "read", "write", "feed", "feedWrite",
     "allowed", "denied", "failed"} \subseteq Steps
BY DEF Steps

LEMMA TiersKept ==
    ASSUME dep' = dep, NEW api, NEW path
    PROVE  TiersOf(api, path)' = TiersOf(api, path)
BY Zenon DEF TiersOf

LEMMA NextTier ==
    ASSUME dep' = dep, NEW c \in Callers, NEW new, req'[c] = new
    PROVE  /\ TierOf(c)' = TiersOf(new.api, new.path)[new.tier]
           /\ TiersOf(req[c].api, req[c].path)' = TiersOf(new.api, new.path)
<1>1. TierOf(c)' = TiersOf(new.api, new.path)'[new.tier]
  BY SMT DEF TierOf, TiersOf
<1>2. TiersOf(req[c].api, req[c].path)' = TiersOf(new.api, new.path)'
  BY SMT DEF TiersOf
<1> QED
  BY <1>1, <1>2, TiersKept

\* A call goes on counting its tier run, or turns to feeding its denial.
LEMMA StaysEntered ==
    ASSUME LimitInv, NEW c \in Callers, NEW new \in Call, UNCHANGED dep,
           req' = [req EXCEPT ![c] = new], RunsKept(c),
           req[c].pc \in Counting, new.pc \in Entered,
           new.api = req[c].api, new.ip = req[c].ip, new.path = req[c].path,
           new.tier = req[c].tier, new.entry = req[c].entry,
           log'[req[c].entry].verdict = IF new.pc = "feed" THEN "denied" ELSE "open",
           new.pc = "feed" => req[c].api = "byIP"
    PROVE  CallInv(c)'
<1>1. /\ req'[c] = new /\ \A d \in Callers : d # c => req'[d] = req[d]
  BY InvTypes
<1>2. KeyOf(c)' = KeyOf(c) /\ TierOf(c)' = TierOf(c)
  <2>1. /\ req'[c].api = req[c].api /\ req'[c].ip = req[c].ip /\ req'[c].path = req[c].path
        /\ req'[c].tier = req[c].tier
    BY <1>1
  <2>2. TierOf(c)' = TiersOf(new.api, new.path)[new.tier]
    BY <1>1, NextTier
  <2>3. TierOf(c) = TiersOf(new.api, new.path)[new.tier]
    BY DEF TierOf
  <2> QED
    BY <2>1, <2>2, <2>3 DEF KeyOf
<1>3. CallInv(c) /\ req[c].pc # "idle" /\ new.pc \notin {"idle", "feedWrite"}
  BY CallTypes DEF Counting, Entered
<1>4. req[c].pc \in Entered
  BY DEF Entered
<1>5. /\ req'[c].ip \in dep'.ips /\ req'[c].path \in dep'.paths \cup {NoPath}
      /\ req'[c].tier \in 1..Len(TiersOf(req[c].api, req[c].path)')
  BY <1>1, <1>3 DEF CallInv, TiersOf
<1>6. /\ req[c].entry \in DOMAIN log
      /\ log[req[c].entry].key = KeyOf(c) /\ log[req[c].entry].tier = TierOf(c)
      /\ \A d \in Callers : req[d].pc \in Entered /\ req[d].entry = req[c].entry => d = c
  BY <1>3, <1>4 DEF CallInv
<1>7. /\ req'[c].entry \in DOMAIN log'
      /\ log'[req'[c].entry].key = KeyOf(c)' /\ log'[req'[c].entry].tier = TierOf(c)'
      /\ log'[req'[c].entry].verdict = IF req'[c].pc = "feed" THEN "denied" ELSE "open"
  BY <1>1, <1>2, <1>6 DEF RunsKept
<1>8. \A d \in Callers : req'[d].pc \in Entered /\ req'[d].entry = req'[c].entry => d = c
  BY <1>1, <1>6
<1> QED
  BY <1>1, <1>3, <1>5, <1>7, <1>8 DEF CallInv

\* A call is done with its tier run: the next tier, the end, or the auto-ban.
LEMMA LeavesEntered ==
    ASSUME LimitInv, NEW c \in Callers, NEW new \in Call, UNCHANGED dep,
           req' = [req EXCEPT ![c] = new], req[c].pc # "idle", new.pc \notin Entered,
           new.api = req[c].api, new.ip = req[c].ip, new.path = req[c].path,
           new.tier \in 1..Len(TiersOf(req[c].api, req[c].path)),
           new.pc = "feedWrite" => req[c].api = "byIP"
    PROVE  CallInv(c)'
<1>1. req'[c] = new
  BY InvTypes
<1>2. CallInv(c)
  BY CallTypes
<1>3. /\ req'[c].ip \in dep'.ips /\ req'[c].path \in dep'.paths \cup {NoPath}
      /\ req'[c].tier \in 1..Len(TiersOf(req[c].api, req[c].path)')
  BY <1>1, <1>2 DEF CallInv, TiersOf
<1>4. req'[c].pc \notin Entered /\ (req'[c].pc \in {"feed", "feedWrite"} => req'[c].api = "byIP")
  BY <1>1 DEF Entered
<1> QED
  BY <1>1, <1>3, <1>4 DEF CallInv

LEMMA BeginKeeps ==
    ASSUME LimitInv, NEW c \in Callers, NEW ip \in dep.ips, NEW path \in dep.paths \cup {NoPath},
           NEW api \in {"tiers", "byIP"}, Begin(c, api, ip, path)
    PROVE  LimitInv'
<1> DEFINE new == [NoCall EXCEPT !.pc = "tier", !.api = api, !.ip = ip, !.path = path]
<1>1. /\ dep \in Deployments /\ dep.ips \subseteq IPs /\ dep.paths \subseteq Paths
  BY InvTypes, DeploymentTypes
<1>2. (CHOOSE i \in IPs : TRUE) \in IPs
  BY LimitAssumption
<1>3. NoCall \in Call /\ NoCall.tier = 1
  BY <1>2 DEF NoCall, Call, Steps
<1>4. /\ new \in Call /\ new.pc = "tier" /\ new.api = api /\ new.ip = ip /\ new.path = path
      /\ new.tier = 1
  <2> DEFINE first == [NoCall EXCEPT !.pc = "tier"]
             second == [first EXCEPT !.api = api]
             third == [second EXCEPT !.ip = ip]
  <2>1. new = [third EXCEPT !.path = path]
    OBVIOUS
  <2>2. first \in Call /\ first.pc = "tier" /\ first.tier = 1
    BY <1>3, CallAt, StepNames
  <2> HIDE DEF first
  <2>3. second \in Call /\ second.pc = "tier" /\ second.api = api /\ second.tier = 1
    BY <2>2 DEF Call
  <2> HIDE DEF second
  <2>4. /\ third \in Call /\ third.pc = "tier" /\ third.api = api /\ third.ip = ip
        /\ third.tier = 1
    BY <1>1, <2>3 DEF Call
  <2> HIDE DEF third, new
  <2> QED
    BY <1>1, <2>1, <2>4 DEF Call
<1>5. /\ req' = [req EXCEPT ![c] = new]
      /\ UNCHANGED <<dep, clock, store, shared, banned, resetting, log>>
  BY DEF Begin
<1> HIDE DEF new
<1>6. req'[c] = new
  BY <1>5, InvTypes
<1>7. Len(TiersOf(api, path)) >= 1 /\ Len(TiersOf(api, path)) \in Nat
      /\ TiersOf(api, path)' = TiersOf(api, path)
  <2>1. TiersOf(api, path) \in Seq(TiersAt(api, path)) /\ Len(TiersOf(api, path)) >= 1
    BY <1>1, TiersTyped
  <2> QED
    BY <1>5, <2>1 DEF TiersOf
<1>8. CallInv(c)'
  <2>1. 1 \in 1..Len(TiersOf(api, path)')
    BY <1>7
  <2>2. TiersOf(req[c].api, req[c].path)' = TiersOf(api, path)'
    BY <1>4, <1>6 DEF TiersOf
  <2> QED
    BY <1>4, <1>5, <1>6, <2>1, <2>2 DEF CallInv, Entered, Counting
<1>9. RunsKept(c) /\ RestTyped' /\ StoresSound'
  BY <1>5, InvParts DEF RunsKept, RestTyped, StoresSound, shared, Victims, StoreOK
<1> HIDE DEF LimitInv
<1> QED
  BY <1>4, <1>5, <1>8, <1>9, WindowStep DEF Entered, Counting
\* What a step of a call does to the calls and the history, feedWrite aside.
Moves(c) ==
    \E new \in Call :
        /\ req' = [req EXCEPT ![c] = new] /\ RunsKept(c) /\ CallInv(c)' /\ new.pc # "feedWrite"
        /\ \/ new.pc \notin Entered
           \/ req[c].pc \in Counting /\ new.entry = req[c].entry
           \/ new.entry \notin DOMAIN log

LEMMA MoveKeeps ==
    ASSUME LimitInv, NEW c \in Callers, UNCHANGED <<dep, banned>>, Moves(c),
           RestTyped', StoresSound', store'["autoban"] = store["autoban"]
    PROVE  LimitInv'
<1>1. PICK new \in Call :
         /\ req' = [req EXCEPT ![c] = new] /\ RunsKept(c) /\ CallInv(c)' /\ new.pc # "feedWrite"
         /\ \/ new.pc \notin Entered
            \/ req[c].pc \in Counting /\ new.entry = req[c].entry
            \/ new.entry \notin DOMAIN log
  BY Zenon DEF Moves
<1> HIDE DEF LimitInv
<1> QED
  BY <1>1, WindowStep

LEMMA RunsSame ==
    ASSUME LimitInv, NEW c \in Callers, UNCHANGED log
    PROVE  RunsKept(c)
BY InvTypes DEF RunsKept

\* The verdict on the tier run that a call is counting.
LEMMA VerdictKeeps ==
    ASSUME LimitInv, NEW c \in Callers, req[c].pc \in Counting, NEW v \in {"passed", "denied"},
           log' = [log EXCEPT ![req[c].entry].verdict = v]
    PROVE  RunsKept(c) /\ log'[req[c].entry].verdict = v /\ req[c].entry \in DOMAIN log
<1>1. req[c].entry \in DOMAIN log /\ log[req[c].entry] \in TierRun
  BY CallTypes DEF Entered
<1> DEFINE i == req[c].entry
           new == [log[i] EXCEPT !.verdict = v]
<1>2. log' = [log EXCEPT ![i] = new]
  OBVIOUS
<1>3. new \in TierRun /\ new.key = log[i].key /\ new.tier = log[i].tier /\ new.verdict = v
  BY <1>1 DEF TierRun
<1> HIDE DEF new
<1>4. log \in Seq(TierRun) /\ DOMAIN log = 1..Len(log)
  BY InvTypes
<1>5. log' \in Seq(TierRun) /\ DOMAIN log' = DOMAIN log
      /\ log'[i] = new /\ \A j \in DOMAIN log : j # i => log'[j] = log[j]
  BY <1>1, <1>2, <1>3, <1>4
<1> QED
  BY <1>1, <1>3, <1>5 DEF RunsKept

LEMMA PassMoves ==
    ASSUME LimitInv, NEW c \in Callers, req[c].pc \in Counting, Pass(c), UNCHANGED dep
    PROVE  Moves(c)
<1>1. RunsKept(c)
  BY VerdictKeeps DEF Pass
<1>2. req[c] \in Call /\ req[c].pc # "idle"
  BY CallTypes DEF Counting
<1>3. /\ TiersOf(req[c].api, req[c].path) \in Seq(TiersAt(req[c].api, req[c].path))
      /\ req[c].tier \in 1..Len(TiersOf(req[c].api, req[c].path))
  <2>1. CallInv(c) /\ req[c].api \in {"tiers", "byIP"} /\ req[c].path \in Paths \cup {NoPath}
    BY CallTypes
  <2> QED
    BY <1>2, <2>1, TiersTyped, InvTypes DEF CallInv
<1>4. Len(TiersOf(req[c].api, req[c].path)) \in Nat
  BY <1>3
<1>5. CASE req[c].tier < Len(TiersOf(req[c].api, req[c].path))
  <2> DEFINE ended == [req[c] EXCEPT !.pc = "tier"]
             new == [ended EXCEPT !.tier = req[c].tier + 1]
  <2>1. req' = [req EXCEPT ![c] = new]
    BY <1>5, InvTypes DEF Pass
  <2>2. /\ ended \in Call /\ ended.pc = "tier" /\ ended.api = req[c].api
        /\ ended.ip = req[c].ip /\ ended.path = req[c].path
    BY <1>2 DEF Call, Steps
  <2> HIDE DEF ended
  <2>3. /\ new \in Call /\ new.pc = "tier" /\ new.api = req[c].api
        /\ new.ip = req[c].ip /\ new.path = req[c].path /\ new.tier = req[c].tier + 1
    <3>1. req[c].tier + 1 \in Nat
      BY <1>3, <1>4
    <3> QED
      BY <2>2, <3>1 DEF Call
  <2> HIDE DEF new
  <2>4. /\ new.tier \in 1..Len(TiersOf(req[c].api, req[c].path))
        /\ new.pc \notin Entered /\ new.pc # "feedWrite"
    BY <1>3, <1>4, <1>5, <2>3 DEF Entered, Counting
  <2>5. CallInv(c)'
    BY <1>2, <2>1, <2>3, <2>4, LeavesEntered
  <2> QED
    BY <1>1, <2>1, <2>3, <2>4, <2>5 DEF Moves
<1>6. CASE ~(req[c].tier < Len(TiersOf(req[c].api, req[c].path)))
  <2> DEFINE new == [req[c] EXCEPT !.pc = "allowed"]
  <2>1. req' = [req EXCEPT ![c] = new]
    BY <1>6 DEF Pass
  <2>2. /\ new \in Call /\ new.pc = "allowed" /\ new.api = req[c].api
        /\ new.ip = req[c].ip /\ new.path = req[c].path /\ new.tier = req[c].tier
    BY <1>2, CallAt, StepNames
  <2> HIDE DEF new
  <2>3. new.pc \notin Entered /\ new.pc # "feedWrite"
    BY <2>2 DEF Entered, Counting
  <2>4. CallInv(c)'
    BY <1>2, <1>3, <2>1, <2>2, <2>3, LeavesEntered
  <2> QED
    BY <1>1, <2>1, <2>2, <2>3, <2>4 DEF Moves
<1> QED
  BY <1>5, <1>6

LEMMA DenyMoves ==
    ASSUME LimitInv, NEW c \in Callers, req[c].pc \in Counting, Deny(c), UNCHANGED dep
    PROVE  Moves(c)
<1> DEFINE step == IF req[c].api = "byIP" THEN "feed" ELSE "denied"
           new == [req[c] EXCEPT !.pc = step]
<1>1. RunsKept(c) /\ log'[req[c].entry].verdict = "denied"
  BY VerdictKeeps DEF Deny
<1>2. req[c] \in Call /\ req[c].pc # "idle" /\ CallInv(c)
  BY CallTypes DEF Counting
<1>3. req' = [req EXCEPT ![c] = new]
  BY DEF Deny
<1>4. step \in Steps /\ step \in {"feed", "denied"} /\ (step = "feed" <=> req[c].api = "byIP")
  BY DEF Steps
<1> HIDE DEF step
<1>5. /\ new \in Call /\ new.pc = step /\ new.api = req[c].api /\ new.ip = req[c].ip
      /\ new.path = req[c].path /\ new.tier = req[c].tier /\ new.entry = req[c].entry
  BY <1>2, <1>4, CallFields
<1> HIDE DEF new
<1>6. CallInv(c)'
  <2>1. CASE step = "feed"
    BY <1>1, <1>3, <1>4, <1>5, <2>1, StaysEntered DEF Entered
  <2>2. CASE step = "denied"
    <3>1. new.pc \notin Entered /\ new.pc # "feedWrite"
      BY <1>5, <2>2 DEF Entered, Counting
    <3>2. new.tier \in 1..Len(TiersOf(req[c].api, req[c].path))
      BY <1>2, <1>5 DEF CallInv
    <3> QED
      BY <1>2, <1>3, <1>5, <3>1, <3>2, LeavesEntered
  <2> QED
    BY <1>4, <2>1, <2>2
<1> QED
  BY <1>1, <1>3, <1>4, <1>5, <1>6 DEF Moves
\* The verdict stays open while the call turns to another way of counting.
LEMMA TurnMoves ==
    ASSUME LimitInv, NEW c \in Callers, req[c].pc \in Counting, NEW new \in Call,
           req' = [req EXCEPT ![c] = new], new.pc \in Counting \cup {"failed"},
           new.api = req[c].api, new.ip = req[c].ip, new.path = req[c].path,
           new.tier = req[c].tier, new.entry = req[c].entry, UNCHANGED <<dep, log>>
    PROVE  Moves(c)
<1>1. RunsKept(c)
  BY RunsSame
<1>2. req[c].pc # "idle" /\ CallInv(c) /\ req[c].pc \in Entered /\ new.pc # "feedWrite"
  BY CallTypes DEF Counting, Entered
<1>3. CASE new.pc \in Counting
  <2>1. new.pc \in Entered /\ new.pc # "feed" /\ req[c].pc # "feed"
    BY <1>3 DEF Entered, Counting
  <2>2. log'[req[c].entry].verdict = "open"
    BY <1>2, <2>1 DEF CallInv
  <2>3. CallInv(c)'
    BY <1>1, <2>1, <2>2, StaysEntered
  <2> QED
    BY <1>1, <1>2, <2>3 DEF Moves
<1>4. CASE new.pc = "failed"
  <2>1. new.pc \notin Entered
    BY <1>4 DEF Entered, Counting
  <2>2. CallInv(c)'
    BY <1>2, <2>1, LeavesEntered DEF CallInv
  <2> QED
    BY <1>1, <1>2, <2>1, <2>2 DEF Moves
<1> QED
  BY <1>3, <1>4

LEMMA FailMoves ==
    ASSUME LimitInv, NEW c \in Callers, req[c].pc \in Counting, Fail(c), UNCHANGED dep
    PROVE  Moves(c)
<1> DEFINE step == IF dep.failOpen THEN "read" ELSE "failed"
           new == [req[c] EXCEPT !.pc = step]
<1>1. req' = [req EXCEPT ![c] = new] /\ UNCHANGED log
  BY DEF Fail
<1>2. req[c] \in Call
  BY CallTypes
<1>3. step \in Steps /\ step \in Counting \cup {"failed"}
  BY DEF Steps, Counting
<1> HIDE DEF step
<1>4. /\ new \in Call /\ new.pc = step /\ new.api = req[c].api /\ new.ip = req[c].ip
      /\ new.path = req[c].path /\ new.tier = req[c].tier /\ new.entry = req[c].entry
  BY <1>2, <1>3, CallFields
<1> HIDE DEF new
<1> QED
  BY <1>1, <1>3, <1>4, TurnMoves

LEMMA StartTierKeeps ==
    ASSUME LimitInv, NEW c \in Callers, StartTier(c)
    PROVE  LimitInv'
<1> DEFINE step == IF ~connected THEN "read"
                   ELSE IF script.known /\ req[c].api = "tiers" THEN "eval" ELSE "pipeline"
           run == [key |-> KeyOf(c), tier |-> TierOf(c), at |-> clock, verdict |-> "open"]
           turned == [req[c] EXCEPT !.pc = step]
           entered == [turned EXCEPT !.entry = Len(log) + 1]
           new == [entered EXCEPT !.retried = FALSE]
<1>1. req' = [req EXCEPT ![c] = new] /\ log' = Append(log, run)
  BY InvTypes DEF StartTier
<1>2. /\ UNCHANGED <<dep, store, shared, banned, resetting>>
      /\ dep' = dep /\ clock' = IF dep.fineClock THEN clock + 1 ELSE clock
  BY DEF StartTier
<1>3. /\ req[c] \in Call /\ req[c].pc = "tier" /\ CallInv(c) /\ clock \in Nat
      /\ log \in Seq(TierRun) /\ DOMAIN log = 1..Len(log) /\ Len(log) \in Nat
  BY CallTypes, InvTypes DEF StartTier, Doing
<1>4. KeyOf(c) \in Keys /\ TierOf(c) \in TierSet
  BY <1>3, CallTypes DEF TiersAt
<1>5. run \in TierRun /\ run.key = KeyOf(c) /\ run.tier = TierOf(c) /\ run.verdict = "open"
  BY <1>3, <1>4 DEF TierRun, TierSet, TierNames
<1> HIDE DEF run
<1>6. /\ log' \in Seq(TierRun) /\ log'[Len(log) + 1] = run /\ Len(log) + 1 \in DOMAIN log'
      /\ \A i \in DOMAIN log : i \in DOMAIN log' /\ log'[i] = log[i]
  BY <1>1, <1>3, <1>5, AppendFacts
<1>7. step \in Steps /\ step \in Counting
  BY DEF Steps, Counting
<1> HIDE DEF step
<1>8. /\ turned \in Call /\ turned.pc = step /\ turned.api = req[c].api /\ turned.ip = req[c].ip
      /\ turned.path = req[c].path /\ turned.tier = req[c].tier
  BY <1>3, <1>7 DEF Call
<1> HIDE DEF turned
<1>9. /\ entered \in Call /\ entered.pc = step /\ entered.api = req[c].api
      /\ entered.ip = req[c].ip /\ entered.path = req[c].path /\ entered.tier = req[c].tier
      /\ entered.entry = Len(log) + 1
  <2>1. Len(log) + 1 \in Nat
    BY <1>3
  <2> HIDE DEF LimitInv
  <2> QED
    BY <1>8, <2>1 DEF Call
<1> HIDE DEF entered
<1>10. /\ new \in Call /\ new.pc = step /\ new.api = req[c].api /\ new.ip = req[c].ip
       /\ new.path = req[c].path /\ new.tier = req[c].tier /\ new.entry = Len(log) + 1
  BY <1>9 DEF Call
<1> HIDE DEF new
<1>11. RunsKept(c)
  BY <1>6 DEF RunsKept
<1>12. CallInv(c)'
  <2>1. req'[c] = new /\ \A d \in Callers : d # c => req'[d] = req[d]
    BY <1>1, InvTypes
  <2>2. TierOf(c)' = TierOf(c)
    <3>1. TierOf(c)' = TiersOf(new.api, new.path)[new.tier]
      BY <1>2, <2>1, NextTier
    <3> QED
      BY <1>10, <3>1 DEF TierOf
  <2>3. KeyOf(c)' = KeyOf(c)
    BY <1>10, <2>1, <2>2 DEF KeyOf
  <2>4. TiersOf(req[c].api, req[c].path)' = TiersOf(req[c].api, req[c].path)
    <3>1. TiersOf(req[c].api, req[c].path)' = TiersOf(new.api, new.path)
      BY <1>2, <2>1, NextTier
    <3> QED
      BY <1>10, <3>1
  <2>5. /\ req'[c].ip \in dep'.ips /\ req'[c].path \in dep'.paths \cup {NoPath}
        /\ req'[c].tier \in 1..Len(TiersOf(req[c].api, req[c].path)')
    BY <1>2, <1>3, <1>10, <2>1, <2>4 DEF CallInv
  <2>6. /\ req'[c].entry \in DOMAIN log'
        /\ log'[req'[c].entry].key = KeyOf(c)' /\ log'[req'[c].entry].tier = TierOf(c)'
        /\ log'[req'[c].entry].verdict = "open"
        /\ req'[c].pc \in Counting
    BY <1>5, <1>6, <1>7, <1>10, <2>1, <2>2, <2>3
  <2>7. ASSUME NEW d \in Callers, req'[d].pc \in Entered, req'[d].entry = req'[c].entry
        PROVE  d = c
    <3>1. CASE d # c
      <4>1. req[d].pc \in Entered /\ req[d].entry = Len(log) + 1
        BY <1>10, <2>1, <2>7, <3>1
      <4>2. req[d].entry \in DOMAIN log
        BY <4>1, CallTypes
      <4> QED
        BY <1>3, <4>1, <4>2
    <3> QED
      BY <3>1
  <2>8. req'[c].pc \notin {"idle", "feed", "feedWrite"}
    BY <2>6 DEF Counting
  <2> QED
    BY <2>5, <2>6, <2>7, <2>8 DEF CallInv
<1>13. Len(log) + 1 \notin DOMAIN log /\ new.pc # "feedWrite"
  BY <1>3, <1>7, <1>10 DEF Counting
<1>14. Moves(c)
  BY <1>1, <1>10, <1>11, <1>12, <1>13 DEF Moves
<1>15. RestTyped' /\ StoresSound'
  BY <1>2, <1>3, InvParts DEF RestTyped, StoresSound, shared, Victims, StoreOK
<1> HIDE DEF LimitInv
<1> QED
  BY <1>2, <1>14, <1>15, MoveKeeps
LEMMA RecordTyped ==
    ASSUME LimitInv, NEW c \in Callers, req[c].pc \in Counting, RecordHit(c)
    PROVE  redis' \in [Keys -> [hits : SUBSET Nat, dies : Nat]]
<1> DEFINE k == KeyOf(c)
           record == [hits |-> HitsAfter(c), dies |-> clock + 2 * TierOf(c).window]
<1>1. k \in Keys /\ Now(c) \in Nat /\ TierOf(c).window \in Nat /\ clock \in Nat
  BY CallTypes, InvTypes DEF Entered, Counting, TiersAt, TierSet
<1>2. redis \in [Keys -> [hits : SUBSET Nat, dies : Nat]]
  BY DEF LimitInv, TypeOK
<1>3. redis[k] \in [hits : SUBSET Nat, dies : Nat]
  BY <1>1, <1>2
<1>4. HitsAfter(c) \subseteq Nat
  BY <1>1, <1>3 DEF HitsAfter
<1>5. clock + 2 * TierOf(c).window \in Nat
  BY <1>1
<1>6. record \in [hits : SUBSET Nat, dies : Nat]
  BY <1>4, <1>5
<1> HIDE DEF record
<1>7. redis' = [redis EXCEPT ![k] = record]
  BY DEF RecordHit, record
<1> QED
  BY <1>1, <1>2, <1>6, <1>7

LEMMA CountMoves ==
    ASSUME LimitInv, NEW c \in Callers, req[c].pc \in Counting, CountInRedis(c), UNCHANGED dep
    PROVE  Moves(c) /\ redis' \in [Keys -> [hits : SUBSET Nat, dies : Nat]]
<1>1. CASE /\ RecordHit(c)
           /\ IF Cardinality(HitsAfter(c)) > TierOf(c).requests THEN Deny(c) ELSE Pass(c)
  BY <1>1, RecordTyped, PassMoves, DenyMoves
<1>2. CASE RecordHit(c) /\ Fail(c)
  BY <1>2, RecordTyped, FailMoves
<1>3. CASE UNCHANGED redis /\ Fail(c)
  <2>1. redis \in [Keys -> [hits : SUBSET Nat, dies : Nat]]
    BY DEF LimitInv, TypeOK
  <2> QED
    BY <1>3, <2>1, FailMoves
<1> QED
  BY <1>1, <1>2, <1>3 DEF CountInRedis

LEMMA RestKept ==
    ASSUME LimitInv, UNCHANGED <<clock, connected, resetting>>,
           redis' \in [Keys -> [hits : SUBSET Nat, dies : Nat]],
           script' \in [known : BOOLEAN, cached : BOOLEAN]
    PROVE  RestTyped'
BY InvParts DEF RestTyped

LEMMA RestUnread ==
    ASSUME LimitInv
    PROVE  RestTyped /\ StoresSound /\ (store' = store => StoresSound')
<1>1. RestTyped /\ StoresSound
  BY InvParts
<1> QED
  BY <1>1 DEF StoresSound, StoreOK, Victims

LEMMA PipelineKeeps ==
    ASSUME LimitInv, NEW c \in Callers, RunPipeline(c)
    PROVE  LimitInv'
<1>1. req[c].pc \in Counting /\ CountInRedis(c)
      /\ UNCHANGED <<dep, clock, store, connected, script, banned, resetting>>
  BY DEF RunPipeline, Doing, Counting
<1>2. Moves(c) /\ redis' \in [Keys -> [hits : SUBSET Nat, dies : Nat]]
  BY <1>1, CountMoves
<1>3. RestTyped' /\ StoresSound'
  BY <1>1, <1>2, RestUnread, RestKept DEF RestTyped
<1> HIDE DEF LimitInv
<1> QED
  BY <1>1, <1>2, <1>3, MoveKeeps

LEMMA EvalKeeps ==
    ASSUME LimitInv, NEW c \in Callers, EvalSha(c)
    PROVE  LimitInv'
<1>1. req[c].pc \in Counting
      /\ UNCHANGED <<dep, clock, store, connected, script, banned, resetting>>
  BY DEF EvalSha, Doing, Counting
<1>2. Moves(c) /\ redis' \in [Keys -> [hits : SUBSET Nat, dies : Nat]]
  <2>1. redis \in [Keys -> [hits : SUBSET Nat, dies : Nat]] /\ req[c] \in Call
    BY CallTypes DEF LimitInv, TypeOK
  <2>2. CASE CountInRedis(c)
    BY <1>1, <2>2, CountMoves
  <2>3. CASE UNCHANGED redis /\ Fail(c)
    BY <1>1, <2>1, <2>3, FailMoves
  <2>4. CASE UNCHANGED <<redis, log>> /\ req' = [req EXCEPT ![c].pc = "reload"]
    <3> DEFINE new == [req[c] EXCEPT !.pc = "reload"]
    <3>1. req' = [req EXCEPT ![c] = new]
      BY <2>4
    <3>2. /\ new \in Call /\ new.pc = "reload" /\ new.api = req[c].api /\ new.ip = req[c].ip
          /\ new.path = req[c].path /\ new.tier = req[c].tier /\ new.entry = req[c].entry
      BY <2>1, CallAt, StepNames
    <3> HIDE DEF new
    <3> QED
      BY <1>1, <2>1, <2>4, <3>1, <3>2, TurnMoves DEF Counting
  <2> QED
    BY <2>2, <2>3, <2>4 DEF EvalSha
<1>3. RestTyped' /\ StoresSound'
  BY <1>1, <1>2, RestUnread, RestKept DEF RestTyped
<1> HIDE DEF LimitInv
<1> QED
  BY <1>1, <1>2, <1>3, MoveKeeps

LEMMA ReloadKeeps ==
    ASSUME LimitInv, NEW c \in Callers, ReloadScript(c)
    PROVE  LimitInv'
<1>1. req[c].pc \in Counting
      /\ UNCHANGED <<dep, clock, store, redis, connected, banned, resetting>>
  BY DEF ReloadScript, Doing, Counting
<1>2. script \in [known : BOOLEAN, cached : BOOLEAN] /\ req[c] \in Call
      /\ redis \in [Keys -> [hits : SUBSET Nat, dies : Nat]]
  BY CallTypes DEF LimitInv, TypeOK
<1>3. Moves(c) /\ script' \in [known : BOOLEAN, cached : BOOLEAN]
  <2>1. CASE Fail(c) /\ UNCHANGED script
    BY <1>1, <1>2, <2>1, FailMoves
  <2>2. CASE /\ script' = [known |-> TRUE, cached |-> TRUE]
             /\ req' = [req EXCEPT ![c].pc = "eval", ![c].retried = TRUE]
             /\ UNCHANGED log
    <3> DEFINE turned == [req[c] EXCEPT !.pc = "eval"]
               new == [turned EXCEPT !.retried = TRUE]
    <3>1. req' = [req EXCEPT ![c] = new]
      BY <2>2, InvTypes
    <3>2. /\ turned \in Call /\ turned.pc = "eval" /\ turned.api = req[c].api
          /\ turned.ip = req[c].ip /\ turned.path = req[c].path
          /\ turned.tier = req[c].tier /\ turned.entry = req[c].entry
      BY <1>2, CallAt, StepNames
    <3> HIDE DEF turned
    <3>3. /\ new \in Call /\ new.pc = "eval" /\ new.api = req[c].api /\ new.ip = req[c].ip
          /\ new.path = req[c].path /\ new.tier = req[c].tier /\ new.entry = req[c].entry
      BY <3>2, CallFields
    <3> HIDE DEF new
    <3>4. new.pc \in Counting
      BY <3>3 DEF Counting
    <3> QED
      BY <1>1, <2>2, <3>1, <3>3, <3>4, TurnMoves
  <2> QED
    BY <2>1, <2>2 DEF ReloadScript
<1>4. RestTyped' /\ StoresSound'
  BY <1>1, <1>2, <1>3, RestUnread, RestKept
<1> HIDE DEF LimitInv
<1> QED
  BY <1>1, <1>3, <1>4, MoveKeeps
LEMMA WindowStored ==
    ASSUME LimitInv, NEW s \in {"tiers", "byIP"}, NEW st, store' = [store EXCEPT ![s] = st],
           StoreOK(st, Keys, Seq(Nat)), Victims(st)
    PROVE  StoresSound' /\ store'["autoban"] = store["autoban"]
<1>1. StoresSound
  BY RestUnread
<1>2. /\ DOMAIN store' = {"tiers", "byIP", "autoban"} /\ store'[s] = st
      /\ \A r \in DOMAIN store : r # s => store'[r] = store[r]
  BY <1>1 DEF StoresSound
<1>3. store'["autoban"] = store["autoban"]
  BY <1>1, <1>2 DEF StoresSound
<1>4. \A r \in {"tiers", "byIP"} : StoreOK(store'[r], Keys, Seq(Nat)) /\ Victims(store'[r])
  <2> SUFFICES ASSUME NEW r \in {"tiers", "byIP"}
               PROVE  StoreOK(store'[r], Keys, Seq(Nat)) /\ Victims(store'[r])
    OBVIOUS
  <2>1. CASE r = s
    BY <1>2, <2>1
  <2>2. CASE r # s
    <3>1. store'[r] = store[r]
      BY <1>1, <1>2, <2>2 DEF StoresSound
    <3> QED
      BY <1>1, <3>1 DEF StoresSound
  <2> QED
    BY <2>1, <2>2
<1> QED
  BY <1>1, <1>2, <1>3, <1>4 DEF StoresSound, StoreOK, Victims

LEMMA ReadWindowKeeps ==
    ASSUME LimitInv, NEW c \in Callers, ReadWindow(c)
    PROVE  LimitInv'
<1> DEFINE st == GetOrCreate(store[req[c].api], KeyOf(c), <<>>)
           window == Trimmed(st.items[KeyOf(c)], WindowStart(c))
           turned == [req[c] EXCEPT !.pc = "write"]
           new == [turned EXCEPT !.seen = window]
<1>1. /\ req[c].pc = "read" /\ store' = [store EXCEPT ![req[c].api] = st]
      /\ req' = [req EXCEPT ![c] = new]
      /\ UNCHANGED <<dep, clock, shared, banned, resetting, log>>
  BY InvTypes DEF ReadWindow, Doing
<1>2. req[c].pc \in Counting /\ req[c].pc \in Entered /\ req[c].pc # "idle"
  BY <1>1 DEF Counting, Entered
<1>3. /\ req[c] \in Call /\ req[c].api \in {"tiers", "byIP"} /\ KeyOf(c) \in Keys
      /\ WindowStart(c) \in Int
  BY <1>2, CallTypes
<1>4. /\ StoreOK(store[req[c].api], Keys, Seq(Nat)) /\ Victims(store[req[c].api])
      /\ dep.maxKeys \in Nat \ {0}
  BY <1>3, InvTypes, DeploymentTypes
<1>6. StoreOK(st, Keys, Seq(Nat)) /\ Victims(st) /\ KeyOf(c) \in DOMAIN st.items
  <2> DEFINE old == store[req[c].api]
             none == <<>>
             values == Seq(Nat)
  <2>1. none \in values
    OBVIOUS
  <2>2. StoreOK(old, Keys, values) /\ Victims(old)
    BY <1>4
  <2> HIDE DEF old, none, values
  <2>3. /\ StoreOK(GetOrCreate(old, KeyOf(c), none), Keys, values)
        /\ Victims(GetOrCreate(old, KeyOf(c), none))
        /\ KeyOf(c) \in DOMAIN GetOrCreate(old, KeyOf(c), none).items
    BY <1>3, <1>4, <2>1, <2>2, GetOrCreateSound
  <2> QED
    BY <2>3 DEF old, none, values
<1> HIDE DEF st
<1>7. StoresSound' /\ store'["autoban"] = store["autoban"]
  BY <1>1, <1>3, <1>6, WindowStored
<1>8. st.items[KeyOf(c)] \in Seq(Nat)
  BY <1>6 DEF StoreOK
<1>9. window \in Seq(Nat)
  BY <1>3, <1>8, TrimmedTyped
<1> HIDE DEF window
<1>10. /\ turned \in Call /\ turned.pc = "write" /\ turned.api = req[c].api
       /\ turned.ip = req[c].ip /\ turned.path = req[c].path
       /\ turned.tier = req[c].tier /\ turned.entry = req[c].entry
  BY <1>3, CallAt, StepNames
<1> HIDE DEF turned
<1>11. /\ new \in Call /\ new.pc = "write" /\ new.api = req[c].api /\ new.ip = req[c].ip
       /\ new.path = req[c].path /\ new.tier = req[c].tier /\ new.entry = req[c].entry
  BY <1>9, <1>10, CallFields
<1> HIDE DEF new
<1>12. Moves(c)
  <2>1. new.pc \in Counting
    BY <1>11 DEF Counting
  <2> QED
    BY <1>1, <1>2, <1>11, <2>1, TurnMoves
<1>13. RestTyped'
  BY <1>1, RestUnread DEF RestTyped, shared
<1> HIDE DEF LimitInv
<1> QED
  BY <1>1, <1>7, <1>12, <1>13, MoveKeeps

LEMMA WriteWindowKeeps ==
    ASSUME LimitInv, NEW c \in Callers, WriteWindow(c)
    PROVE  LimitInv'
<1>1. /\ req[c].pc = "write" /\ (Deny(c) \/ Pass(c))
      /\ UNCHANGED <<dep, clock, shared, banned, resetting>>
  BY DEF WriteWindow, Doing
<1>2. PICK o \in Callers :
         /\ o = c \/ (Doing(o, "write") /\ req[o].api = req[c].api)
         /\ store' = [store EXCEPT ![req[c].api] = Put(@, KeyOf(c), Append(req[c].seen, Now(o)))]
  BY DEF WriteWindow
<1>3. req[c].pc \in Counting /\ req[c].pc \in Entered /\ req[o].pc \in Entered
  BY <1>1, <1>2 DEF Counting, Entered, Doing
<1>4. /\ req[c] \in Call /\ req[c].api \in {"tiers", "byIP"} /\ KeyOf(c) \in Keys
      /\ Now(o) \in Nat /\ req[c].pc # "idle"
  BY <1>1, <1>3, CallTypes
<1> DEFINE hits == Append(req[c].seen, Now(o))
           st == Put(store[req[c].api], KeyOf(c), hits)
<1>5. hits \in Seq(Nat)
  BY <1>4 DEF Call
<1>6. store' = [store EXCEPT ![req[c].api] = st]
  BY <1>2
<1> HIDE DEF hits
<1>7. /\ StoreOK(store[req[c].api], Keys, Seq(Nat)) /\ Victims(store[req[c].api])
      /\ dep.maxKeys \in Nat \ {0}
  BY <1>4, InvTypes, DeploymentTypes
<1>8. StoreOK(st, Keys, Seq(Nat)) /\ Victims(st)
  BY <1>4, <1>5, <1>7, PutSound
<1> HIDE DEF st
<1>9. StoresSound' /\ store'["autoban"] = store["autoban"]
  BY <1>4, <1>6, <1>8, WindowStored
<1>10. Moves(c)
  BY <1>1, <1>3, DenyMoves, PassMoves
<1>11. RestTyped'
  BY <1>1, RestUnread DEF RestTyped, shared
<1> HIDE DEF LimitInv
<1> QED
  BY <1>1, <1>9, <1>10, <1>11, MoveKeeps
\* The auto-ban's counts change; the windows do not.
LEMMA CountStored ==
    ASSUME LimitInv, NEW st, store' = [store EXCEPT !["autoban"] = st],
           StoreOK(st, IPs, Nat), Victims(st)
    PROVE  StoresSound' /\ store'["autoban"] = st
<1>1. StoresSound
  BY RestUnread
<1>2. /\ DOMAIN store' = {"tiers", "byIP", "autoban"} /\ store'["autoban"] = st
      /\ \A r \in {"tiers", "byIP"} : store'[r] = store[r]
  BY <1>1 DEF StoresSound
<1> QED
  BY <1>1, <1>2 DEF StoresSound, StoreOK, Victims

LEMMA ReadCountKeeps ==
    ASSUME LimitInv, NEW c \in Callers, ReadCount(c)
    PROVE  LimitInv'
<1>1. /\ req[c].pc = "feed" /\ UNCHANGED <<dep, clock, shared, banned, resetting, log>>
      /\ dep' = dep
  BY DEF ReadCount, Doing
<1>2. /\ req[c] \in Call /\ CallInv(c) /\ req[c].ip \in IPs /\ req[c].api = "byIP"
      /\ req[c].pc \in Entered /\ req[c].pc # "idle" /\ KeyOf(c)[1] = req[c].ip
      /\ TierOf(c) \in TiersAt("byIP", req[c].path)
      /\ req[c].tier \in 1..Len(TiersOf(req[c].api, req[c].path))
  <2>1. req[c].pc \in Entered /\ req[c].pc # "idle"
    BY <1>1 DEF Entered
  <2>2. CallInv(c)
    BY CallTypes
  <2>3. req[c].api = "byIP" /\ req[c].tier \in 1..Len(TiersOf(req[c].api, req[c].path))
    BY <1>1, <2>2 DEF CallInv
  <2> QED
    BY <2>1, <2>2, <2>3, CallTypes
<1>3. RestTyped'
  BY <1>1, RestUnread DEF RestTyped, shared
<1>4. RunsKept(c)
  BY <1>1, RunsSame
<1>5. banned' = banned /\ banned \subseteq IPs /\ log' \in Seq(TierRun) /\ log \in Seq(TierRun)
  BY <1>1, InvParts
<1>6. CASE ~(dep.autoBan /\ req[c].ip \notin banned)
  <2> DEFINE new == [req[c] EXCEPT !.pc = "denied"]
  <2>1. req' = [req EXCEPT ![c] = new] /\ store' = store
    BY <1>6 DEF ReadCount
  <2>2. /\ new \in Call /\ new.pc = "denied" /\ new.api = req[c].api /\ new.ip = req[c].ip
        /\ new.path = req[c].path /\ new.tier = req[c].tier
    BY <1>2, CallAt, StepNames
  <2> HIDE DEF new
  <2>3. new.pc \notin Entered /\ new.pc # "feedWrite"
    BY <2>2 DEF Entered, Counting
  <2>4. CallInv(c)'
    BY <1>1, <1>2, <2>1, <2>2, <2>3, LeavesEntered
  <2>5. Moves(c)
    BY <1>4, <2>1, <2>2, <2>3, <2>4 DEF Moves
  <2>6. StoresSound'
    BY <2>1, RestUnread
  <2> HIDE DEF LimitInv
  <2> QED
    BY <1>1, <1>3, <1>5, <2>1, <2>5, <2>6, MoveKeeps
<1>7. CASE dep.autoBan /\ req[c].ip \notin banned
  <2>0. PICK ip \in IPs : ip = req[c].ip
    BY <1>2
  <2> DEFINE old == store["autoban"]
             st == GetOrCreate(old, ip, 0)
             turned == [req[c] EXCEPT !.pc = "feedWrite"]
             new == [turned EXCEPT !.count = st.items[ip] + 1]
  <2>1. req' = [req EXCEPT ![c] = new] /\ store' = [store EXCEPT !["autoban"] = st]
    BY <1>7, <2>0, InvTypes DEF ReadCount
  <2>2. StoreOK(old, IPs, Nat) /\ Victims(old) /\ dep.maxKeys \in Nat \ {0} /\ ip \in IPs
    BY <1>2, InvTypes, DeploymentTypes
  <2> HIDE DEF old
  <2>3. /\ StoreOK(st, IPs, Nat) /\ Victims(st) /\ ip \in DOMAIN st.items
        /\ \A k \in DOMAIN st.items :
              \/ k \in DOMAIN old.items /\ st.items[k] = old.items[k]
              \/ k = ip /\ st.items[k] = 0
    BY <2>2, GetOrCreateSound
  <2> HIDE DEF st
  <2>4. StoresSound' /\ store'["autoban"] = st
    BY <2>1, <2>3, CountStored
  <2>5. st.items[ip] \in Nat
    BY <2>3 DEF StoreOK
  <2>6. /\ turned \in Call /\ turned.pc = "feedWrite" /\ turned.api = req[c].api
        /\ turned.ip = ip /\ turned.path = req[c].path /\ turned.tier = req[c].tier
    BY <1>2, <2>0, CallAt, StepNames
  <2> HIDE DEF turned
  <2>7. /\ new \in Call /\ new.pc = "feedWrite" /\ new.api = req[c].api /\ new.ip = ip
        /\ new.path = req[c].path /\ new.tier = req[c].tier /\ new.count = st.items[ip] + 1
    <3>1. st.items[ip] + 1 \in Nat
      BY <2>5
    <3> QED
      BY <2>6, <3>1, CallFields
  <2> HIDE DEF new
  <2>8. new.pc \notin Entered
    BY <2>7 DEF Entered, Counting
  <2>9. CallInv(c)'
    BY <1>1, <1>2, <2>0, <2>1, <2>7, <2>8, LeavesEntered
  <2>10. /\ req' \in [Callers -> Call] /\ \A d \in Callers : CallInv(d)'
         /\ \A a \in IPs : Fed(a) \subseteq Fed(a)' /\ Denials(a) \subseteq Denials(a)'
    BY <1>1, <1>4, <2>1, <2>7, <2>8, <2>9, CallStep
  <2>11. req'[c] = new /\ \A d \in Callers : d # c => req'[d] = req[d]
    BY <2>1, InvTypes
  <2>12. req[c].entry \in Fed(ip)' \ Fed(ip)
    <3>1. /\ req[c].entry \in DOMAIN log /\ log[req[c].entry].key = KeyOf(c)
          /\ log[req[c].entry].tier = TierOf(c) /\ log[req[c].entry].verdict = "denied"
          /\ \A d \in Callers : req[d].pc \in Entered /\ req[d].entry = req[c].entry => d = c
      BY <1>1, <1>2 DEF CallInv
    <3>2. TierOf(c).name = "byIP"
      BY <1>2 DEF TiersAt
    <3>3. ~\E d \in Callers : req'[d].pc = "feed" /\ req'[d].entry = req[c].entry
      BY <2>7, <2>11, <3>1 DEF Entered
    <3> QED
      BY <1>1, <1>2, <2>0, <3>1, <3>2, <3>3 DEF Fed
  <2>13. Cardinality(Fed(ip)') >= Cardinality(Fed(ip)) + 1 /\ Cardinality(Fed(ip)) \in Nat
         /\ Cardinality(Fed(ip)') \in Nat
    <3>1. IsFiniteSet(Fed(ip)) /\ Cardinality(Fed(ip)) \in Nat
      BY <1>5, DenialsFinite
    <3>2. (log \in Seq(TierRun) => DenialsCounted)'
      BY DenialsTyped, PTL
    <3>3. IsFiniteSet(Fed(ip)') /\ Cardinality(Fed(ip)') \in Nat
      BY <1>5, <3>2 DEF DenialsCounted
    <3>4. Fed(ip) \cup {req[c].entry} \subseteq Fed(ip)'
      BY <2>2, <2>10, <2>12
    <3>5. /\ IsFiniteSet(Fed(ip) \cup {req[c].entry})
          /\ Cardinality(Fed(ip) \cup {req[c].entry}) = Cardinality(Fed(ip)) + 1
      BY <2>12, <3>1, FS_AddElement
    <3>6. Cardinality(Fed(ip) \cup {req[c].entry}) <= Cardinality(Fed(ip)')
      BY <3>3, <3>4, FS_Subset
    <3> QED
      BY <3>1, <3>3, <3>5, <3>6
  <2>14. \A k \in DOMAIN old.items : old.items[k] <= Cardinality(Fed(k)) /\ old.items[k] \in Nat
    BY <2>2 DEF LimitInv, FeedInv, old, StoreOK
  <2>15. st.items[ip] <= Cardinality(Fed(ip))
    BY <2>3, <2>13, <2>14
  <2>16. ASSUME NEW k \in DOMAIN store'["autoban"].items
         PROVE  \/ /\ k \in DOMAIN store["autoban"].items
                   /\ store'["autoban"].items[k] = store["autoban"].items[k]
                \/ store'["autoban"].items[k] <= Cardinality(Fed(k)')
    <3>1. CASE k = ip
      BY <2>4, <2>5, <2>13, <2>15, <3>1
    <3>2. CASE k # ip
      BY <2>3, <2>4, <3>2 DEF old
    <3> QED
      BY <3>1, <3>2
  <2>17. ASSUME NEW d \in Callers, req'[d].pc = "feedWrite"
         PROVE  req'[d] = req[d] \/ req'[d].count <= Cardinality(Fed(req[d].ip)')
    <3>1. CASE d = c
      <4>1. new.count <= Cardinality(Fed(ip)')
        BY <2>5, <2>7, <2>13, <2>15
      <4>2. req'[c].ip = ip /\ req'[c].count = new.count
        BY <2>7, <2>11
      <4> QED
        BY <3>1, <4>1, <4>2
    <3>2. CASE d # c
      BY <2>11, <3>2
    <3> QED
      BY <3>1, <3>2
  <2> HIDE DEF LimitInv
  <2> QED
    BY <1>1, <1>3, <1>5, <2>4, <2>10, <2>16, <2>17, AnyStep
<1> QED
  BY <1>6, <1>7
LEMMA WriteCountKeeps ==
    ASSUME LimitInv, NEW c \in Callers, WriteCount(c)
    PROVE  LimitInv'
<1> DEFINE new == [req[c] EXCEPT !.pc = "denied"]
           old == store["autoban"]
           st == Put(old, req[c].ip, req[c].count)
<1>1. /\ req[c].pc = "feedWrite" /\ UNCHANGED <<dep, clock, shared, resetting, log>>
      /\ dep' = dep /\ log' = log /\ req' = [req EXCEPT ![c] = new]
      /\ store' = [store EXCEPT !["autoban"] = st]
      /\ \/ banned' = banned
         \/ /\ banned' = banned \cup {req[c].ip}
            /\ \E t \in Thresholds : req[c].count >= t
  BY DEF WriteCount, Doing
<1>2. /\ req[c] \in Call /\ CallInv(c) /\ req[c].ip \in IPs /\ req[c].pc # "idle"
      /\ req[c].count \in Nat
      /\ req[c].tier \in 1..Len(TiersOf(req[c].api, req[c].path))
  <2>1. req[c].pc # "idle" /\ CallInv(c) /\ req[c] \in Call
    BY <1>1, CallTypes
  <2> QED
    BY <2>1 DEF CallInv, Call
<1>3. RestTyped' /\ RunsKept(c)
  BY <1>1, RestUnread, RunsSame DEF RestTyped, shared
<1>4. /\ new \in Call /\ new.pc = "denied" /\ new.api = req[c].api /\ new.ip = req[c].ip
      /\ new.path = req[c].path /\ new.tier = req[c].tier
  BY <1>2, CallAt, StepNames
<1> HIDE DEF new
<1>5. new.pc \notin Entered /\ new.pc # "feedWrite"
  BY <1>4 DEF Entered, Counting
<1>6. CallInv(c)'
  BY <1>1, <1>2, <1>4, <1>5, LeavesEntered
<1>7. /\ req' \in [Callers -> Call] /\ \A d \in Callers : CallInv(d)'
      /\ \A ip \in IPs : Fed(ip) \subseteq Fed(ip)' /\ Denials(ip) \subseteq Denials(ip)'
  BY <1>1, <1>3, <1>4, <1>5, <1>6, CallStep
<1>8. StoreOK(old, IPs, Nat) /\ Victims(old) /\ dep.maxKeys \in Nat \ {0}
  BY InvTypes, DeploymentTypes
<1> HIDE DEF old
<1>9. /\ StoreOK(st, IPs, Nat) /\ Victims(st)
      /\ \A k \in DOMAIN st.items :
            \/ k \in DOMAIN old.items /\ st.items[k] = old.items[k]
            \/ k = req[c].ip /\ st.items[k] = req[c].count
  BY <1>2, <1>8, PutSound
<1> HIDE DEF st
<1>10. StoresSound' /\ store'["autoban"] = st
  BY <1>1, <1>9, CountStored
<1>11. PICK ip \in IPs : ip = req[c].ip
  BY <1>2
<1>12. log \in Seq(TierRun) /\ log' \in Seq(TierRun) /\ banned' \subseteq IPs
  BY <1>1, <1>2, InvParts
<1>13. /\ req[c].count <= Cardinality(Fed(ip)) /\ Cardinality(Fed(ip)) <= Cardinality(Fed(ip)')
       /\ Cardinality(Fed(ip)) <= Cardinality(Denials(ip)')
       /\ Cardinality(Fed(ip)) \in Nat /\ Cardinality(Fed(ip)') \in Nat
       /\ Cardinality(Denials(ip)') \in Nat
  <2>1. req[c].count <= Cardinality(Fed(ip))
    BY <1>1, <1>11 DEF LimitInv, FeedInv
  <2>2. IsFiniteSet(Fed(ip)) /\ Cardinality(Fed(ip)) \in Nat /\ Fed(ip) \subseteq Denials(ip)
    BY <1>12, DenialsFinite
  <2>3. (log \in Seq(TierRun) => DenialsCounted)'
    BY DenialsTyped, PTL
  <2>4. /\ IsFiniteSet(Fed(ip)') /\ Cardinality(Fed(ip)') \in Nat
        /\ IsFiniteSet(Denials(ip)') /\ Cardinality(Denials(ip)') \in Nat
    BY <1>12, <2>3 DEF DenialsCounted
  <2>5. Fed(ip) \subseteq Fed(ip)' /\ Fed(ip) \subseteq Denials(ip)'
    BY <1>7, <2>2
  <2> QED
    BY <2>1, <2>2, <2>4, <2>5, FS_Subset
<1>14. ASSUME NEW k \in DOMAIN store'["autoban"].items
       PROVE  \/ /\ k \in DOMAIN store["autoban"].items
                 /\ store'["autoban"].items[k] = store["autoban"].items[k]
              \/ store'["autoban"].items[k] <= Cardinality(Fed(k)')
  <2>1. CASE k \in DOMAIN old.items /\ st.items[k] = old.items[k]
    BY <1>10, <2>1 DEF old
  <2>2. CASE k = req[c].ip /\ st.items[k] = req[c].count
    <3>1. k = ip /\ store'["autoban"].items[k] = req[c].count
      BY <1>10, <1>11, <2>2
    <3>2. req[c].count <= Cardinality(Fed(ip)')
      BY <1>2, <1>13
    <3> QED
      BY <3>1, <3>2
  <2> QED
    BY <1>9, <1>10, <2>1, <2>2
<1>15. ASSUME NEW k \in banned'
       PROVE  k \in banned \/ \E t \in Thresholds : Cardinality(Denials(k)') >= t
  <2>1. CASE k \notin banned
    <3>1. k = ip
      BY <1>1, <1>11, <2>1
    <3>2. PICK t \in Thresholds : req[c].count >= t
      BY <1>1, <2>1
    <3>3. Cardinality(Denials(ip)') >= t
      BY <1>2, <1>13, <3>2, LimitAssumption
    <3> QED
      BY <3>1, <3>3
  <2> QED
    BY <2>1
<1>16. \A d \in Callers : req'[d] = req[d] \/ req'[d].pc # "feedWrite"
  BY <1>1, <1>5, InvTypes
<1> HIDE DEF LimitInv
<1> QED
  BY <1>1, <1>3, <1>7, <1>10, <1>12, <1>14, <1>15, <1>16, AnyStep
\* A step of no call: the history keeps its runs, and no denial is forgotten.
LEMMA OtherStep ==
    ASSUME LimitInv, UNCHANGED <<dep, req>>, log' \in Seq(TierRun), DOMAIN log' = DOMAIN log,
           \A i \in DOMAIN log :
              /\ log'[i].key = log[i].key /\ log'[i].tier = log[i].tier
              /\ log[i].verdict # "passed" => log'[i].verdict = log[i].verdict,
           RestTyped', StoresSound', banned' \subseteq banned,
           store'["autoban"] \in {store["autoban"], EmptyStore}
    PROVE  LimitInv'
<1>1. ASSUME NEW c \in Callers PROVE CallInv(c)'
  <2>1. KeyOf(c)' = KeyOf(c) /\ TierOf(c)' = TierOf(c)
    BY DEF KeyOf, TierOf, TiersOf
  <2>2. CallInv(c)
    BY CallTypes
  <2>3. req[c].pc # "idle" =>
           /\ req'[c].ip \in dep'.ips /\ req'[c].path \in dep'.paths \cup {NoPath}
           /\ req'[c].tier \in 1..Len(TiersOf(req[c].api, req[c].path)')
    BY <2>2 DEF CallInv, TiersOf
  <2>4. req[c].pc \in Entered =>
           /\ req[c].entry \in DOMAIN log
           /\ log'[req[c].entry].key = KeyOf(c)' /\ log'[req[c].entry].tier = TierOf(c)'
           /\ log'[req[c].entry].verdict = IF req[c].pc = "feed" THEN "denied" ELSE "open"
    BY <2>1, <2>2 DEF CallInv
  <2> QED
    BY <2>2, <2>3, <2>4 DEF CallInv
<1>2. ASSUME NEW ip \in IPs
      PROVE  Fed(ip) \subseteq Fed(ip)' /\ Denials(ip) \subseteq Denials(ip)'
  BY DEF Fed, Denials
<1>3. banned' \subseteq IPs /\ req' \in [Callers -> Call]
  BY InvParts
<1>4. ASSUME NEW ip \in DOMAIN store'["autoban"].items
      PROVE  /\ ip \in DOMAIN store["autoban"].items
             /\ store'["autoban"].items[ip] = store["autoban"].items[ip]
  <2>1. DOMAIN EmptyStore.items = {}
    BY EmptyStoreSound
  <2> QED
    BY <1>4, <2>1
<1> HIDE DEF LimitInv
<1> QED
  BY <1>1, <1>2, <1>3, <1>4, AnyStep

LEMMA ForgetKeeps ==
    ASSUME LimitInv, Forget
    PROVE  /\ log' \in Seq(TierRun) /\ DOMAIN log' = DOMAIN log
           /\ \A i \in DOMAIN log :
                 /\ log'[i].key = log[i].key /\ log'[i].tier = log[i].tier
                 /\ log'[i].at = log[i].at
                 /\ log[i].verdict # "passed" => log'[i].verdict = log[i].verdict
                 /\ log[i].verdict = "passed" => log'[i].verdict = "open"
<1>1. DOMAIN log = 1..Len(log) /\ Len(log) \in Nat /\ \A i \in DOMAIN log : log[i] \in TierRun
  BY InvTypes
<1>2. ASSUME NEW i \in DOMAIN log
      PROVE  /\ log'[i] \in TierRun /\ log'[i].key = log[i].key /\ log'[i].tier = log[i].tier
             /\ log'[i].at = log[i].at
             /\ log[i].verdict # "passed" => log'[i].verdict = log[i].verdict
             /\ log[i].verdict = "passed" => log'[i].verdict = "open"
  <2> DEFINE v == IF log[i].verdict = "passed" THEN "open" ELSE log[i].verdict
  <2>1. log[i] \in TierRun /\ v \in {"open", "passed", "denied"}
    BY <1>1 DEF TierRun
  <2>2. log'[i] = [log[i] EXCEPT !.verdict = v]
    BY DEF Forget
  <2>3. /\ log[i].verdict # "passed" => v = log[i].verdict
        /\ log[i].verdict = "passed" => v = "open"
    OBVIOUS
  <2> HIDE DEF v
  <2> QED
    BY <2>1, <2>2, <2>3 DEF TierRun
<1>3. log' \in [1..Len(log) -> TierRun] /\ DOMAIN log' = DOMAIN log
  BY <1>1, <1>2 DEF Forget
<1>4. log' \in Seq(TierRun)
  BY <1>1, <1>3
<1> QED
  BY <1>2, <1>3, <1>4

LEMMA ResetKeeps ==
    ASSUME LimitInv, ResetStores \/ ResetRedis \/ Detach
    PROVE  LimitInv'
<1>1. Forget /\ UNCHANGED <<dep, clock, script, banned, req>>
  BY DEF ResetStores, ResetRedis, Detach, shared
<1>2. /\ redis \in [Keys -> [hits : SUBSET Nat, dies : Nat]] /\ connected \in BOOLEAN
      /\ resetting \in [pc : {"idle", "redis", "detach"}, times : Nat]
      /\ clock \in Nat /\ script \in [known : BOOLEAN, cached : BOOLEAN]
  BY RestUnread DEF RestTyped
<1>3. redis' \in [Keys -> [hits : SUBSET Nat, dies : Nat]] /\ connected' \in BOOLEAN
  <2>1. [k \in Keys |-> [hits |-> {}, dies |-> 0]] \in [Keys -> [hits : SUBSET Nat, dies : Nat]]
    OBVIOUS
  <2> QED
    BY <1>2, <2>1 DEF ResetStores, ResetRedis, Detach, shared
<1>4. resetting' \in [pc : {"idle", "redis", "detach"}, times : Nat]
  BY <1>2 DEF ResetStores, ResetRedis, Detach
<1>5. RestTyped'
  BY <1>1, <1>2, <1>3, <1>4 DEF RestTyped
<1>6. StoresSound' /\ store'["autoban"] \in {store["autoban"], EmptyStore}
  <2>1. CASE store' = store
    BY <2>1, RestUnread
  <2>2. CASE store' = [s \in DOMAIN store |-> EmptyStore]
    <3>1. DOMAIN store' = {"tiers", "byIP", "autoban"}
          /\ \A s \in {"tiers", "byIP", "autoban"} : store'[s] = EmptyStore
      BY <2>2, InvTypes
    <3>2. \A s \in {"tiers", "byIP"} : StoreOK(store'[s], Keys, Seq(Nat)) /\ Victims(store'[s])
      BY <3>1, EmptyStoreSound
    <3>3. StoreOK(store'["autoban"], IPs, Nat) /\ Victims(store'["autoban"])
      BY <3>1, EmptyStoreSound
    <3> QED
      BY <3>1, <3>2, <3>3 DEF StoresSound, StoreOK, Victims
  <2> QED
    BY <2>1, <2>2 DEF ResetStores, ResetRedis, Detach
<1> HIDE DEF LimitInv
<1> QED
  BY <1>1, <1>5, <1>6, ForgetKeeps, OtherStep

LEMMA WorldKeeps ==
    ASSUME LimitInv, Attach \/ Tick \/ FlushScripts \/ \E ip \in IPs : Lift(ip)
    PROVE  LimitInv'
<1>1. UNCHANGED <<dep, req, log, store, redis, resetting>> /\ banned' \subseteq banned
  BY DEF Attach, Tick, FlushScripts, Lift, shared
<1>2. RestTyped
  BY RestUnread
<1>3. /\ clock' \in Nat /\ connected' \in BOOLEAN
      /\ script' \in [known : BOOLEAN, cached : BOOLEAN]
  <2>1. script \in [known : BOOLEAN, cached : BOOLEAN] /\ clock \in Nat /\ connected \in BOOLEAN
    BY <1>2 DEF RestTyped
  <2>2. /\ [script EXCEPT !.cached = FALSE] \in [known : BOOLEAN, cached : BOOLEAN]
        /\ [known |-> TRUE, cached |-> TRUE] \in [known : BOOLEAN, cached : BOOLEAN]
    BY <2>1
  <2>3. CASE Attach
    BY <2>1, <2>2, <2>3 DEF Attach
  <2>4. CASE Tick
    BY <2>1, <2>4 DEF Tick, shared
  <2>5. CASE FlushScripts
    BY <2>1, <2>2, <2>5 DEF FlushScripts
  <2>6. CASE \E ip \in IPs : Lift(ip)
    BY <2>1, <2>6 DEF Lift, shared
  <2> QED
    BY <2>3, <2>4, <2>5, <2>6
<1>4. RestTyped' /\ StoresSound'
  BY <1>1, <1>2, <1>3, RestUnread DEF RestTyped
<1>5. log' \in Seq(TierRun)
  BY <1>1, InvTypes
<1> HIDE DEF LimitInv
<1> QED
  BY <1>1, <1>4, <1>5, OtherStep

LEMMA StutterKeeps ==
    ASSUME LimitInv, UNCHANGED vars
    PROVE  LimitInv'
<1>1. UNCHANGED <<dep, req, log, store, redis, resetting, clock, connected, script, banned>>
  BY DEF vars
<1>2. RestTyped' /\ StoresSound' /\ log' \in Seq(TierRun)
  BY <1>1, RestUnread, InvTypes DEF RestTyped
<1> HIDE DEF LimitInv
<1> QED
  BY <1>1, <1>2, OtherStep

LEMMA LimitFirst == Init => LimitInv
<1> SUFFICES ASSUME Init PROVE LimitInv
  OBVIOUS
<1>1. dep \in Deployments /\ banned = {} /\ log = <<>>
  BY DEF Init
<1>2. RestTyped
  <2>1. connected \in BOOLEAN
    BY DeploymentAssumption DEF Init, Deployment
  <2>2. redis \in [Keys -> [hits : SUBSET Nat, dies : Nat]]
    BY DEF Init
  <2>3. /\ script \in [known : BOOLEAN, cached : BOOLEAN]
        /\ resetting \in [pc : {"idle", "redis", "detach"}, times : Nat] /\ clock \in Nat
    BY DEF Init
  <2> QED
    BY <2>1, <2>2, <2>3 DEF RestTyped
<1>3. /\ DOMAIN store = {"tiers", "byIP", "autoban"}
      /\ \A s \in {"tiers", "byIP", "autoban"} : store[s] = EmptyStore
  BY DEF Init
<1>4. StoresSound
  <2>1. \A s \in {"tiers", "byIP"} : StoreOK(store[s], Keys, Seq(Nat)) /\ Victims(store[s])
    BY <1>3, EmptyStoreSound
  <2>2. StoreOK(store["autoban"], IPs, Nat) /\ Victims(store["autoban"])
    BY <1>3, EmptyStoreSound
  <2> QED
    BY <1>3, <2>1, <2>2 DEF StoresSound
<1>5. NoCall \in Call /\ NoCall.pc = "idle"
  <2>1. (CHOOSE i \in IPs : TRUE) \in IPs
    BY LimitAssumption
  <2> QED
    BY <2>1 DEF NoCall, Call, Steps
<1>6. req \in [Callers -> Call] /\ \A c \in Callers : req[c].pc = "idle"
  BY <1>5 DEF Init
<1>7. \A c \in Callers : CallInv(c)
  BY <1>6 DEF CallInv, Entered, Counting
<1>8. FeedInv
  <2>1. DOMAIN store["autoban"].items = {}
    BY <1>3, EmptyStoreSound
  <2> QED
    BY <1>6, <2>1 DEF FeedInv
<1>9. BansAreEarned /\ log \in Seq(TierRun)
  BY <1>1 DEF BansAreEarned
<1> QED
  BY <1>1, <1>2, <1>4, <1>6, <1>7, <1>8, <1>9, InvParts

LEMMA LimitStep == LimitInv /\ [Next]_vars => LimitInv'
<1> SUFFICES ASSUME LimitInv, [Next]_vars PROVE LimitInv'
  OBVIOUS
<1>1. ASSUME NEW c \in dep.callers, Serve(c) PROVE LimitInv'
  <2>1. c \in Callers
    BY InvTypes, DeploymentTypes
  <2> HIDE DEF LimitInv
  <2> QED
    BY <1>1, <2>1, BeginKeeps, StartTierKeeps, EvalKeeps, ReloadKeeps, PipelineKeeps,
       ReadWindowKeeps, WriteWindowKeeps, ReadCountKeeps, WriteCountKeeps DEF Serve
<1> HIDE DEF LimitInv
<1> QED
  BY <1>1, ResetKeeps, WorldKeeps, StutterKeeps DEF Next

LEMMA LimitAlways == Spec => []LimitInv
BY LimitFirst, LimitStep, PTL DEF Spec

\* StoresAreSound: whatever calls and resets interleave, every variable keeps its type,
\* and a store that is full has a key to evict (getOrCreate and set of lruStore).
THEOREM AStoreCanEvict == Spec => []StoresAreSound
<1>1. LimitInv => StoresAreSound
  BY DEF LimitInv, StoresAreSound
<1> QED
  BY <1>1, LimitAlways, PTL

\* BansAreEarned: an address is auto-banned only after as many denials by
\* CheckRateLimitByIP as some threshold (feedRateLimitAutoban): concurrent denials may
\* be lost from the count, never counted twice.
THEOREM NoDenialCountsTwice == Spec => []BansAreEarned
<1>1. LimitInv => BansAreEarned
  BY DEF LimitInv
<1> QED
  BY <1>1, LimitAlways, PTL

----------------------------------------------------------------------------
(* Counting the elements of windows.                                       *)

LEMMA OneEach ==
    ASSUME NEW S, NEW T, IsFiniteSet(T), NEW f \in [S -> T],
           \A x \in S, y \in S : f[x] = f[y] => x = y
    PROVE  IsFiniteSet(S) /\ Cardinality(S) \in Nat /\ Cardinality(S) <= Cardinality(T)
<1>1. f \in Injection(S, T)
  BY DEF Injection, IsInjective
<1> QED
  BY <1>1, FS_Injection, FS_CardinalityType

\* The positions of h whose timestamp is after s.
Above(h, s) == {p \in DOMAIN h : h[p] > s}

LEMMA AboveCounted ==
    ASSUME NEW h \in Seq(Nat), NEW s
    PROVE  /\ IsFiniteSet(Above(h, s)) /\ Cardinality(Above(h, s)) \in Nat
           /\ Cardinality(Above(h, s)) <= Len(h)
<1>1. DOMAIN h = 1..Len(h) /\ Len(h) \in Nat
  OBVIOUS
<1>2. Above(h, s) \subseteq 1..Len(h)
  BY <1>1 DEF Above
<1>3. IsFiniteSet(1..Len(h)) /\ Cardinality(1..Len(h)) = Len(h)
  <2>1. PICK n \in Nat : n = Len(h)
    BY <1>1
  <2>2. IsFiniteSet(1..n) /\ Cardinality(1..n) = n
    BY FS_Interval
  <2> QED
    BY <2>1, <2>2
<1> QED
  BY <1>2, <1>3, FS_Subset, FS_CardinalityType

LEMMA AboveAppended ==
    ASSUME NEW h \in Seq(Nat), NEW t \in Nat, NEW s \in Int
    PROVE  Cardinality(Above(Append(h, t), s))
               = Cardinality(Above(h, s)) + (IF t > s THEN 1 ELSE 0)
<1> DEFINE g == Append(h, t)
<1>1. /\ g \in Seq(Nat) /\ Len(h) \in Nat /\ DOMAIN h = 1..Len(h)
      /\ DOMAIN g = 1..(Len(h) + 1) /\ g[Len(h) + 1] = t
      /\ \A p \in DOMAIN h : g[p] = h[p]
  BY AppendFacts
<1> HIDE DEF g
<1>2. Len(h) + 1 \notin Above(h, s)
  BY <1>1 DEF Above
<1>3. CASE t > s
  <2>1. Above(g, s) = Above(h, s) \cup {Len(h) + 1}
    BY <1>1, <1>3 DEF Above
  <2> QED
    BY <1>2, <1>3, <2>1, AboveCounted, FS_AddElement DEF g
<1>4. CASE ~(t > s)
  <2>1. Above(g, s) = Above(h, s)
    BY <1>1, <1>4 DEF Above
  <2> QED
    BY <1>4, <2>1, AboveCounted DEF g
<1> QED
  BY <1>3, <1>4

\* Trimming takes the front away, up to the first timestamp inside the window.
LEMMA TrimmedShape ==
    ASSUME NEW h \in Seq(Nat), NEW start \in Int
    PROVE  \/ Trimmed(h, start) = <<>> /\ Above(h, start) = {}
           \/ \E f \in 1..Len(h) :
                 /\ Len(Trimmed(h, start)) = Len(h) - f + 1
                 /\ \A p \in 1..(Len(h) - f + 1) : Trimmed(h, start)[p] = h[p + f - 1]
                 /\ h[f] > start
                 /\ \A p \in 1..Len(h) : p < f => ~(h[p] > start)
<1> DEFINE inside == {i \in DOMAIN h : h[i] > start}
           first == CHOOSE i \in inside : \A j \in inside : i <= j
<1>1. h \in [1..Len(h) -> Nat] /\ Len(h) \in Nat /\ DOMAIN h = 1..Len(h)
  BY LenProperties
<1>2. CASE inside = {}
  BY <1>2 DEF Trimmed, Above
<1>3. CASE inside # {}
  <2>1. inside \subseteq Nat
    BY <1>1
  <2>2. first \in inside /\ \A j \in inside : first <= j
    <3>1. \E i \in inside : \A j \in inside : i <= j
      BY <1>3, <2>1, Least
    <3> QED
      BY <3>1
  <2>3. /\ first \in 1..Len(h) /\ h[first] > start
        /\ \A p \in 1..Len(h) : p < first => ~(h[p] > start)
    BY <1>1, <2>2
  <2>4. Trimmed(h, start) = SubSeq(h, first, Len(h))
    BY <1>3 DEF Trimmed
  <2> HIDE DEF first
  <2>5. \A i \in first..Len(h) : h[i] \in Nat
    BY <1>1, <2>3
  <2>6. /\ Len(SubSeq(h, first, Len(h))) = Len(h) - first + 1
        /\ \A p \in 1..(Len(h) - first + 1) : SubSeq(h, first, Len(h))[p] = h[p + first - 1]
    BY <1>1, <2>3, <2>5, SubSeqProperties
  <2> QED
    BY <2>3, <2>4, <2>6
<1> QED
  BY <1>2, <1>3

\* It keeps what is inside the window, in order, and nothing else if the
\* timestamps were in order.
LEMMA TrimmedKeeps ==
    ASSUME NEW h \in Seq(Nat), NEW start \in Int,
           \A p \in DOMAIN h, q \in DOMAIN h : p < q => h[p] <= h[q]
    PROVE  LET g == Trimmed(h, start) IN
           /\ \A p \in DOMAIN g, q \in DOMAIN g : p < q => g[p] <= g[q]
           /\ \A p \in DOMAIN g : g[p] > start /\ \E q \in DOMAIN h : g[p] = h[q]
           /\ \A s \in Int : Cardinality(Above(g, s)) <= Cardinality(Above(h, s))
           /\ \A s \in Int : start <= s => Cardinality(Above(h, s)) <= Cardinality(Above(g, s))
<1> DEFINE g == Trimmed(h, start)
<1>1. /\ g \in Seq(Nat) /\ DOMAIN g = 1..Len(g) /\ Len(g) \in Nat
      /\ \A p \in DOMAIN g : g[p] \in Nat
  <2>1. g \in Seq(Nat)
    BY TrimmedTyped
  <2> HIDE DEF g
  <2> QED
    BY <2>1
<1>2. DOMAIN h = 1..Len(h) /\ Len(h) \in Nat /\ \A p \in DOMAIN h : h[p] \in Nat
  OBVIOUS
<1>3. \/ g = <<>> /\ Above(h, start) = {}
      \/ \E f \in 1..Len(h) : /\ Len(g) = Len(h) - f + 1
                              /\ \A p \in 1..(Len(h) - f + 1) : g[p] = h[p + f - 1]
                              /\ h[f] > start
                              /\ \A p \in 1..Len(h) : p < f => ~(h[p] > start)
  BY TrimmedShape
<1> HIDE DEF g
<1>4. CASE g = <<>> /\ Above(h, start) = {}
  <2>1. DOMAIN g = {} /\ \A s : Above(g, s) = {}
    BY <1>4 DEF Above
  <2>2. \A s \in Int : start <= s => Above(h, s) = {}
    BY <1>2, <1>4 DEF Above
  <2>3. \A s \in Int : Cardinality(Above(g, s)) = 0
    BY <2>1, FS_EmptySet
  <2>4. \A s \in Int : Cardinality(Above(h, s)) \in Nat
    BY AboveCounted
  <2>5. \A s \in Int : start <= s => Cardinality(Above(h, s)) = 0
    BY <2>2, FS_EmptySet
  <2> QED
    BY <2>1, <2>3, <2>4, <2>5 DEF g
<1>5. ASSUME NEW f \in 1..Len(h), Len(g) = Len(h) - f + 1,
             \A p \in 1..(Len(h) - f + 1) : g[p] = h[p + f - 1], h[f] > start,
             \A p \in 1..Len(h) : p < f => ~(h[p] > start)
      PROVE  /\ \A p \in DOMAIN g, q \in DOMAIN g : p < q => g[p] <= g[q]
             /\ \A p \in DOMAIN g : g[p] > start /\ \E q \in DOMAIN h : g[p] = h[q]
             /\ \A s \in Int : Cardinality(Above(g, s)) <= Cardinality(Above(h, s))
             /\ \A s \in Int : start <= s =>
                   Cardinality(Above(h, s)) <= Cardinality(Above(g, s))
  <2>1. \A p \in DOMAIN g : p + f - 1 \in DOMAIN h /\ g[p] = h[p + f - 1] /\ f <= p + f - 1
    <3> TAKE p \in DOMAIN g
    <3>1. p \in 1..(Len(h) - f + 1)
      BY <1>1, <1>5
    <3>2. p + f - 1 \in 1..Len(h) /\ f <= p + f - 1
      BY <1>2, <3>1
    <3> QED
      BY <1>2, <1>5, <3>1, <3>2
  <2>2. \A p \in DOMAIN g : g[p] > start
    <3> TAKE p \in DOMAIN g
    <3>1. h[f] <= h[p + f - 1]
      BY <1>2, <2>1
    <3> QED
      BY <1>1, <1>2, <1>5, <2>1, <3>1
  <2>3. \A p \in DOMAIN g, q \in DOMAIN g : p < q => g[p] <= g[q]
    BY <1>1, <2>1
  <2>4. ASSUME NEW s \in Int PROVE Cardinality(Above(g, s)) <= Cardinality(Above(h, s))
    <3> DEFINE m == [p \in Above(g, s) |-> p + f - 1]
    <3>1. m \in [Above(g, s) -> Above(h, s)]
      BY <2>1 DEF Above
    <3>2. \A p \in Above(g, s), q \in Above(g, s) : m[p] = m[q] => p = q
      BY <1>1, <1>5 DEF Above
    <3> HIDE DEF m
    <3> QED
      BY <3>1, <3>2, AboveCounted, OneEach
  <2>5. ASSUME NEW s \in Int, start <= s
        PROVE  Cardinality(Above(h, s)) <= Cardinality(Above(g, s))
    <3> DEFINE m == [p \in Above(h, s) |-> p - f + 1]
    <3>1. ASSUME NEW p \in Above(h, s)
          PROVE  p \in 1..Len(h) /\ f <= p /\ p - f + 1 \in Above(g, s)
      <4>1. p \in 1..Len(h) /\ h[p] > s /\ h[p] > start
        BY <1>2, <2>5 DEF Above
      <4>2. f <= p
        BY <1>5, <4>1
      <4>3. p - f + 1 \in 1..(Len(h) - f + 1) /\ (p - f + 1) + f - 1 = p
        BY <4>1, <4>2
      <4>4. g[p - f + 1] = h[p]
        BY <1>5, <4>3
      <4> QED
        BY <1>1, <1>5, <4>1, <4>2, <4>3, <4>4 DEF Above
    <3>2. m \in [Above(h, s) -> Above(g, s)]
      BY <3>1
    <3>3. \A p \in Above(h, s), q \in Above(h, s) : m[p] = m[q] => p = q
      BY <1>5, <3>1
    <3> HIDE DEF m
    <3> QED
      BY <1>1, <3>2, <3>3, AboveCounted, OneEach
  <2> QED
    BY <2>1, <2>2, <2>3, <2>4, <2>5
<1> QED
  BY <1>3, <1>4, <1>5 DEF g

----------------------------------------------------------------------------
(* What a step does to the history and to the calls.                       *)

\* Every run stays, but for its verdict.
RunsStay == \A i \in DOMAIN log : /\ i \in DOMAIN log' /\ log'[i].key = log[i].key
                                  /\ log'[i].tier = log[i].tier /\ log'[i].at = log[i].at
SameRuns == DOMAIN log' = DOMAIN log /\ Len(log') = Len(log) /\ RunsStay

\* Nobody counts a run again that is counted.
NoneReturns == \A i \in DOMAIN log : Pending(i)' => Pending(i)

\* Only the call of c moves, and not to counting another run of the past.
OnlyCall(c) ==
    /\ \A d \in Callers : d # c => req'[d] = req[d]
    /\ \/ req'[c].pc \notin Counting
       \/ req[c].pc \in Counting /\ req'[c].entry = req[c].entry
       \/ req'[c].entry \notin DOMAIN log

LEMMA OnlyCallReturns ==
    ASSUME LimitInv, NEW c \in Callers, OnlyCall(c)
    PROVE  NoneReturns
<1> SUFFICES ASSUME NEW i \in DOMAIN log, NEW d \in Callers, req'[d].entry = i,
                    req'[d].pc \in Counting
             PROVE  Pending(i)
  BY DEF NoneReturns, Pending, Counting
<1> QED
  BY DEF OnlyCall, Pending, Counting

LEMMA SameLog ==
    ASSUME LimitInv, UNCHANGED log
    PROVE  SameRuns
BY DEF SameRuns, RunsStay

LEMMA ForgetRuns ==
    ASSUME LimitInv, Forget
    PROVE  SameRuns /\ \A i \in DOMAIN log : log'[i].verdict # "passed"
                        /\ (log'[i].verdict = "denied" => log[i].verdict = "denied")
<1>1. /\ log' \in Seq(TierRun) /\ DOMAIN log' = DOMAIN log
      /\ log \in Seq(TierRun)
      /\ \A i \in DOMAIN log :
            /\ log'[i].key = log[i].key /\ log'[i].tier = log[i].tier
            /\ log'[i].at = log[i].at
            /\ log[i].verdict # "passed" => log'[i].verdict = log[i].verdict
            /\ log[i].verdict = "passed" => log'[i].verdict = "open"
  BY ForgetKeeps, InvTypes
<1>2. Len(log') = Len(log)
  BY <1>1
<1> QED
  BY <1>1, <1>2 DEF SameRuns, RunsStay

\* The verdict on the run that c counts, and on no other.
Judged(c, v) ==
    /\ req[c].entry \in DOMAIN log /\ log'[req[c].entry].verdict = v
    /\ \A i \in DOMAIN log : i # req[c].entry => log'[i].verdict = log[i].verdict

LEMMA VerdictRuns ==
    ASSUME LimitInv, NEW c \in Callers, req[c].pc \in Counting, NEW v \in {"passed", "denied"},
           log' = [log EXCEPT ![req[c].entry].verdict = v]
    PROVE  SameRuns /\ Judged(c, v)
<1>1. req[c].entry \in DOMAIN log /\ log[req[c].entry] \in TierRun
  BY CallTypes DEF Entered
<1> DEFINE i == req[c].entry
           new == [log[i] EXCEPT !.verdict = v]
<1>2. log' = [log EXCEPT ![i] = new]
  OBVIOUS
<1>3. /\ new \in TierRun /\ new.key = log[i].key /\ new.tier = log[i].tier
      /\ new.at = log[i].at /\ new.verdict = v
  BY <1>1 DEF TierRun
<1> HIDE DEF new
<1>4. log \in Seq(TierRun) /\ DOMAIN log = 1..Len(log)
  BY InvTypes
<1>5. /\ log' \in Seq(TierRun) /\ DOMAIN log' = DOMAIN log
      /\ log'[i] = new /\ \A j \in DOMAIN log : j # i => log'[j] = log[j]
  BY <1>1, <1>2, <1>3, <1>4
<1>6. Len(log') = Len(log)
  BY <1>4, <1>5
<1> QED
  BY <1>1, <1>3, <1>5, <1>6 DEF SameRuns, RunsStay, Judged

\* The call leaves the run it has counted, or failed to count.
LEMMA PassEffect ==
    ASSUME LimitInv, NEW c \in Callers, req[c].pc \in Counting, Pass(c)
    PROVE  /\ SameRuns /\ Judged(c, "passed") /\ OnlyCall(c)
           /\ req'[c].pc \in {"tier", "allowed"}
<1>1. SameRuns /\ Judged(c, "passed")
  BY VerdictRuns DEF Pass
<1>2. req[c] \in Call /\ req \in [Callers -> Call]
  BY InvTypes
<1>3. \A d \in Callers : d # c => req'[d] = req[d]
  BY <1>2 DEF Pass
<1>4. req'[c].pc \in {"tier", "allowed"}
  <2>1. CASE req' = [req EXCEPT ![c].pc = "allowed"]
    BY <1>2, <2>1 DEF Call
  <2>2. CASE req' = [req EXCEPT ![c].pc = "tier", ![c].tier = @ + 1]
    <3> DEFINE turned == [req[c] EXCEPT !.pc = "tier"]
               new == [turned EXCEPT !.tier = req[c].tier + 1]
    <3>1. req'[c] = new
      BY <1>2, <2>2
    <3>2. turned \in Call /\ turned.pc = "tier"
      BY <1>2, CallAt, StepNames
    <3> HIDE DEF turned
    <3>3. new.pc = "tier"
      BY <3>2 DEF Call
    <3> QED
      BY <3>1, <3>3
  <2> QED
    BY <2>1, <2>2 DEF Pass
<1> QED
  BY <1>1, <1>3, <1>4 DEF OnlyCall, Counting

LEMMA DenyEffect ==
    ASSUME LimitInv, NEW c \in Callers, req[c].pc \in Counting, Deny(c)
    PROVE  /\ SameRuns /\ Judged(c, "denied") /\ OnlyCall(c)
           /\ req'[c].pc \in {"feed", "denied"}
<1>1. SameRuns /\ Judged(c, "denied")
  BY VerdictRuns DEF Deny
<1>2. req[c] \in Call /\ req \in [Callers -> Call]
  BY InvTypes
<1>3. req'[c].pc \in {"feed", "denied"} /\ \A d \in Callers : d # c => req'[d] = req[d]
  BY <1>2 DEF Deny, Call
<1> QED
  BY <1>1, <1>3 DEF OnlyCall, Counting

\* A call that changes its pc only.
LEMMA TurnEffect ==
    ASSUME LimitInv, NEW c \in Callers, NEW step \in Steps, req' = [req EXCEPT ![c].pc = step],
           step \in Counting => req[c].pc \in Counting
    PROVE  OnlyCall(c) /\ req'[c].pc = step /\ req'[c].entry = req[c].entry
<1>1. req[c] \in Call /\ req \in [Callers -> Call]
  BY InvTypes
<1>2. req'[c] = [req[c] EXCEPT !.pc = step] /\ \A d \in Callers : d # c => req'[d] = req[d]
  BY <1>1
<1>3. req'[c].pc = step /\ req'[c].entry = req[c].entry
  BY <1>1, <1>2, CallAt
<1> QED
  BY <1>2, <1>3 DEF OnlyCall

LEMMA FailEffect ==
    ASSUME LimitInv, NEW c \in Callers, req[c].pc \in Counting, Fail(c)
    PROVE  /\ SameRuns /\ UNCHANGED log /\ OnlyCall(c)
           /\ req'[c].pc = IF dep.failOpen THEN "read" ELSE "failed"
<1> DEFINE step == IF dep.failOpen THEN "read" ELSE "failed"
<1>1. step \in Steps /\ req' = [req EXCEPT ![c].pc = step] /\ UNCHANGED log
  BY StepNames DEF Fail
<1> HIDE DEF step
<1>2. OnlyCall(c) /\ req'[c].pc = step
  BY <1>1, TurnEffect
<1> QED
  BY <1>1, <1>2, SameLog DEF step

\* A call starts, or is fed to the auto-ban: nothing is counted.
Besides(c) ==
    \/ \E ip \in dep.ips, path \in dep.paths \cup {NoPath}, api \in {"tiers", "byIP"} :
          Begin(c, api, ip, path)
    \/ ReadCount(c) \/ WriteCount(c)

LEMMA BesidesEffect ==
    ASSUME LimitInv, NEW c \in Callers, Besides(c)
    PROVE  /\ SameRuns /\ OnlyCall(c) /\ req'[c].pc \in {"tier", "feedWrite", "denied"}
           /\ UNCHANGED <<dep, clock, shared, resetting, log>>
           /\ \A s \in {"tiers", "byIP"} : store'[s] = store[s]
<1>1. SameRuns /\ UNCHANGED <<dep, clock, shared, resetting, log>>
  BY SameLog DEF Besides, Begin, ReadCount, WriteCount
<1>2. req[c] \in Call /\ req \in [Callers -> Call] /\ DOMAIN store = {"tiers", "byIP", "autoban"}
  BY InvTypes
<1>3. \A s \in {"tiers", "byIP"} : store'[s] = store[s]
  BY <1>2 DEF Besides, Begin, ReadCount, WriteCount
<1>4. /\ \A d \in Callers : d # c => req'[d] = req[d]
      /\ req'[c].pc \in {"tier", "feedWrite", "denied"}
  <2>1. ASSUME NEW ip \in dep.ips, NEW path \in dep.paths \cup {NoPath},
               NEW api \in {"tiers", "byIP"}, Begin(c, api, ip, path)
        PROVE  (\A d \in Callers : d # c => req'[d] = req[d]) /\ req'[c].pc = "tier"
    <3> DEFINE first == [NoCall EXCEPT !.pc = "tier"]
               second == [first EXCEPT !.api = api]
               third == [second EXCEPT !.ip = ip]
               new == [third EXCEPT !.path = path]
    <3>1. req' = [req EXCEPT ![c] = new]
      BY <2>1 DEF Begin
    <3>2. first.pc = "tier" /\ "pc" \in DOMAIN first
      BY DEF NoCall
    <3> HIDE DEF first
    <3>3. second.pc = "tier" /\ "pc" \in DOMAIN second
      BY <3>2
    <3> HIDE DEF second
    <3>4. third.pc = "tier" /\ "pc" \in DOMAIN third
      BY <3>3
    <3> HIDE DEF third
    <3>5. new.pc = "tier"
      BY <3>4
    <3> HIDE DEF new
    <3> QED
      BY <1>2, <3>1, <3>5
  <2>2. ASSUME NEW step \in {"feedWrite", "denied"}, req' = [req EXCEPT ![c].pc = step]
        PROVE  (\A d \in Callers : d # c => req'[d] = req[d]) /\ req'[c].pc = step
    BY <1>2, <2>2 DEF Call
  <2>3. ASSUME NEW n, req' = [req EXCEPT ![c].pc = "feedWrite", ![c].count = n]
        PROVE  (\A d \in Callers : d # c => req'[d] = req[d]) /\ req'[c].pc = "feedWrite"
    <3> DEFINE turned == [req[c] EXCEPT !.pc = "feedWrite"]
               new == [turned EXCEPT !.count = n]
    <3>1. req' = [req EXCEPT ![c] = new]
      BY <1>2, <2>3
    <3>2. turned \in Call /\ turned.pc = "feedWrite"
      BY <1>2, CallAt, StepNames
    <3> HIDE DEF turned
    <3>3. new.pc = "feedWrite"
      BY <3>2 DEF Call
    <3> HIDE DEF new
    <3> QED
      BY <1>2, <3>1, <3>3
  <2>4. CASE ReadCount(c)
    BY <2>2, <2>3, <2>4 DEF ReadCount
  <2>5. CASE WriteCount(c)
    BY <2>2, <2>5 DEF WriteCount
  <2> QED
    BY <2>1, <2>4, <2>5 DEF Besides
<1> QED
  BY <1>1, <1>3, <1>4 DEF OnlyCall, Counting

\* A tier run begins: the history grows by a run that nobody has judged.
LEMMA StartEffect ==
    ASSUME LimitInv, NEW c \in Callers, StartTier(c)
    PROVE  /\ DOMAIN log' = DOMAIN log \cup {Len(log) + 1} /\ Len(log) + 1 \notin DOMAIN log
           /\ Len(log') = Len(log) + 1
           /\ \A i \in DOMAIN log : log'[i] = log[i]
           /\ log'[Len(log) + 1] = [key |-> KeyOf(c), tier |-> TierOf(c), at |-> clock,
                                    verdict |-> "open"]
           /\ RunsStay /\ OnlyCall(c)
           /\ req'[c].pc = IF ~connected THEN "read"
                           ELSE IF script.known /\ req[c].api = "tiers" THEN "eval"
                           ELSE "pipeline"
           /\ req'[c].entry = Len(log) + 1
           /\ KeyOf(c) \in dep.ips \X (dep.paths \cup {NoPath})
           /\ KeyOf(c)[2] = TierOf(c).path /\ TierOf(c) \in TiersAt(req[c].api, req[c].path)
<1> DEFINE step == IF ~connected THEN "read"
                   ELSE IF script.known /\ req[c].api = "tiers" THEN "eval" ELSE "pipeline"
           run == [key |-> KeyOf(c), tier |-> TierOf(c), at |-> clock, verdict |-> "open"]
           turned == [req[c] EXCEPT !.pc = step]
           entered == [turned EXCEPT !.entry = Len(log) + 1]
           new == [entered EXCEPT !.retried = FALSE]
<1>1. req' = [req EXCEPT ![c] = new] /\ log' = Append(log, run)
  BY InvTypes DEF StartTier
<1>2. /\ req[c] \in Call /\ req[c].pc = "tier" /\ CallInv(c) /\ clock \in Nat
      /\ log \in Seq(TierRun) /\ DOMAIN log = 1..Len(log) /\ Len(log) \in Nat
      /\ KeyOf(c) \in Keys /\ TierOf(c) \in TiersAt(req[c].api, req[c].path)
  BY CallTypes, InvTypes DEF StartTier, Doing
<1>3. run \in TierRun
  BY <1>2 DEF TierRun, TiersAt, TierSet, TierNames
<1>4. step \in Steps
  BY DEF Steps
<1>5. KeyOf(c) \in dep.ips \X (dep.paths \cup {NoPath}) /\ KeyOf(c)[2] = TierOf(c).path
  <2>1. TierOf(c).path \in {req[c].path, NoPath}
    BY <1>2 DEF TiersAt
  <2>2. req[c].ip \in dep.ips /\ req[c].path \in dep.paths \cup {NoPath}
    BY <1>2 DEF CallInv
  <2> QED
    BY <2>1, <2>2 DEF KeyOf
<1> HIDE DEF run, step
<1>6. /\ DOMAIN log' = DOMAIN log \cup {Len(log) + 1} /\ Len(log) + 1 \notin DOMAIN log
      /\ Len(log') = Len(log) + 1 /\ log'[Len(log) + 1] = run
      /\ \A i \in DOMAIN log : log'[i] = log[i]
  <2>1. /\ Len(log') = Len(log) + 1 /\ DOMAIN log' = 1..(Len(log) + 1)
        /\ log'[Len(log) + 1] = run /\ \A i \in DOMAIN log : log'[i] = log[i]
    BY <1>1, <1>2, <1>3, AppendFacts
  <2> QED
    BY <1>2, <2>1
<1>7. turned \in Call /\ turned.pc = step
  BY <1>2, <1>4, CallAt
<1> HIDE DEF turned
<1>8. entered \in Call /\ entered.pc = step /\ entered.entry = Len(log) + 1
  <2>1. Len(log) + 1 \in Nat
    BY <1>2
  <2> QED
    BY <1>7, <2>1, CallFields
<1> HIDE DEF entered
<1>9. new.pc = step /\ new.entry = Len(log) + 1
  BY <1>8, CallFields
<1> HIDE DEF new
<1>10. req'[c] = new /\ \A d \in Callers : d # c => req'[d] = req[d]
  BY <1>1, InvTypes
<1>11. RunsStay /\ OnlyCall(c)
  BY <1>6, <1>9, <1>10 DEF RunsStay, OnlyCall
<1> QED
  BY <1>2, <1>5, <1>6, <1>9, <1>10, <1>11 DEF step, run

\* The steps of a call in Redis.
InRedis(c) == EvalSha(c) \/ ReloadScript(c) \/ RunPipeline(c)

\* What one of them does: it counts, or it only turns to another step.
LEMMA RedisEffect ==
    ASSUME LimitInv, NEW c \in Callers, InRedis(c)
    PROVE  /\ req[c].pc \in {"eval", "reload", "pipeline"}
           /\ UNCHANGED <<dep, clock, store, connected, banned, resetting>>
           /\ SameRuns /\ OnlyCall(c)
           /\ \/ /\ RecordHit(c) /\ Pass(c) /\ Judged(c, "passed")
                 /\ ~(Cardinality(HitsAfter(c)) > TierOf(c).requests)
                 /\ req'[c].pc \notin Counting
              \/ /\ RecordHit(c) /\ Deny(c) /\ Judged(c, "denied")
                 /\ Cardinality(HitsAfter(c)) > TierOf(c).requests
                 /\ req'[c].pc \notin Counting
              \/ /\ RecordHit(c) \/ UNCHANGED redis
                 /\ UNCHANGED log
                 /\ req'[c].pc = IF dep.failOpen THEN "read" ELSE "failed"
              \/ UNCHANGED <<redis, log>> /\ req'[c].pc \in {"eval", "reload"}
<1>1. /\ req[c].pc \in {"eval", "reload", "pipeline"} /\ req[c].pc \in Counting
      /\ UNCHANGED <<dep, clock, store, connected, banned, resetting>>
  BY DEF InRedis, EvalSha, ReloadScript, RunPipeline, Doing, Counting
<1> DEFINE counts == /\ SameRuns /\ OnlyCall(c)
                     /\ \/ /\ RecordHit(c) /\ Pass(c) /\ Judged(c, "passed")
                           /\ ~(Cardinality(HitsAfter(c)) > TierOf(c).requests)
                           /\ req'[c].pc \notin Counting
                        \/ /\ RecordHit(c) /\ Deny(c) /\ Judged(c, "denied")
                           /\ Cardinality(HitsAfter(c)) > TierOf(c).requests
                           /\ req'[c].pc \notin Counting
                        \/ /\ RecordHit(c) \/ UNCHANGED redis
                           /\ UNCHANGED log
                           /\ req'[c].pc = IF dep.failOpen THEN "read" ELSE "failed"
                        \/ UNCHANGED <<redis, log>> /\ req'[c].pc \in {"eval", "reload"}
<1>2. ASSUME RecordHit(c), Pass(c), ~(Cardinality(HitsAfter(c)) > TierOf(c).requests)
      PROVE  counts
  <2>1. SameRuns /\ Judged(c, "passed") /\ OnlyCall(c) /\ req'[c].pc \in {"tier", "allowed"}
    BY <1>1, <1>2, PassEffect
  <2>2. req'[c].pc \notin Counting
    BY <2>1 DEF Counting
  <2> QED
    BY <1>2, <2>1, <2>2
<1>3. ASSUME RecordHit(c), Deny(c), Cardinality(HitsAfter(c)) > TierOf(c).requests
      PROVE  counts
  <2>1. SameRuns /\ Judged(c, "denied") /\ OnlyCall(c) /\ req'[c].pc \in {"feed", "denied"}
    BY <1>1, <1>3, DenyEffect
  <2>2. req'[c].pc \notin Counting
    BY <2>1 DEF Counting
  <2> QED
    BY <1>3, <2>1, <2>2
<1>4. ASSUME RecordHit(c) \/ UNCHANGED redis, Fail(c)
      PROVE  counts
  <2>1. /\ SameRuns /\ UNCHANGED log /\ OnlyCall(c)
        /\ req'[c].pc = IF dep.failOpen THEN "read" ELSE "failed"
    BY <1>1, <1>4, FailEffect
  <2> QED
    BY <1>4, <2>1
<1>5. ASSUME CountInRedis(c) PROVE counts
  <2> HIDE DEF counts
  <2> QED
    BY <1>2, <1>3, <1>4, <1>5 DEF CountInRedis
<1>6. ASSUME UNCHANGED <<redis, log>>, req' = [req EXCEPT ![c].pc = "reload"]
      PROVE  counts
  <2>1. OnlyCall(c) /\ req'[c].pc = "reload"
    BY <1>1, <1>6, TurnEffect, StepNames
  <2> QED
    BY <1>6, <2>1, SameLog
<1>7. ASSUME UNCHANGED <<redis, log>>,
             req' = [req EXCEPT ![c].pc = "eval", ![c].retried = TRUE]
      PROVE  counts
  <2> DEFINE turned == [req[c] EXCEPT !.pc = "eval"]
             new == [turned EXCEPT !.retried = TRUE]
  <2>1. req[c] \in Call /\ req' = [req EXCEPT ![c] = new]
    BY <1>7, InvTypes
  <2>2. turned \in Call /\ turned.pc = "eval" /\ turned.entry = req[c].entry
    BY <2>1, CallAt, StepNames
  <2> HIDE DEF turned
  <2>3. new.pc = "eval" /\ new.entry = req[c].entry
    BY <2>2, CallFields
  <2> HIDE DEF new
  <2>4. req'[c] = new /\ \A d \in Callers : d # c => req'[d] = req[d]
    BY <2>1, InvTypes
  <2>5. OnlyCall(c) /\ req'[c].pc = "eval"
    BY <1>1, <2>3, <2>4 DEF OnlyCall
  <2>6. SameRuns
    BY <1>7, SameLog
  <2> QED
    BY <1>7, <2>5, <2>6
<1> HIDE DEF counts
<1>8. ASSUME EvalSha(c) PROVE counts
  <2>1. \/ CountInRedis(c)
        \/ UNCHANGED redis /\ Fail(c)
        \/ UNCHANGED <<redis, log>> /\ req' = [req EXCEPT ![c].pc = "reload"]
    BY <1>8 DEF EvalSha
  <2> QED
    BY <1>4, <1>5, <1>6, <2>1
<1>9. ASSUME ReloadScript(c) PROVE counts
  <2>1. \/ UNCHANGED redis /\ Fail(c)
        \/ /\ UNCHANGED <<redis, log>>
           /\ req' = [req EXCEPT ![c].pc = "eval", ![c].retried = TRUE]
    BY <1>9 DEF ReloadScript
  <2> QED
    BY <1>4, <1>7, <2>1
<1>10. ASSUME RunPipeline(c) PROVE counts
  BY <1>5, <1>10 DEF RunPipeline
<1>11. counts
  BY <1>8, <1>9, <1>10 DEF InRedis
<1> QED
  BY <1>1, <1>11 DEF counts

----------------------------------------------------------------------------
(* The history is in the order of its clock reads.                         *)

\* Which windows a tier of that name may have at bucket p.
WindowsOf(name, p) ==
    IF name = "byIP" \/ p = NoPath THEN {dep.limit.window}
    ELSE {f[p].window : f \in {g \in {EndpointLimits, RouteLimits, GeoLimits} :
                                         p \in DOMAIN g}}

\* Run i is of a bucket and a window the deployment has, and in the past.
RunPlaced(i) ==
    /\ log[i].key[2] \in dep.paths \cup {NoPath}
    /\ log[i].tier.window \in WindowsOf(log[i].tier.name, log[i].key[2])
    /\ log[i].at <= clock /\ (dep.fineClock => log[i].at < clock)

\* Strictly so where no two reads of the clock are the same.
RunsOrdered(i, j) ==
    i < j => log[i].at <= log[j].at /\ (dep.fineClock => log[i].at < log[j].at)

LogInOrder ==
    /\ \A i \in DOMAIN log : RunPlaced(i)
    /\ \A i \in DOMAIN log, j \in DOMAIN log : RunsOrdered(i, j)

LEMMA PlaceKept ==
    ASSUME LimitInv, RunsStay, UNCHANGED dep, clock' \in Nat, clock <= clock',
           NEW i \in DOMAIN log, RunPlaced(i)
    PROVE  RunPlaced(i)'
<1>1. clock \in Nat /\ log[i].at \in Nat
  BY InvTypes DEF TierRun
<1>2. log'[i].key = log[i].key /\ log'[i].tier = log[i].tier /\ log'[i].at = log[i].at
  BY DEF RunsStay
<1>3. /\ log[i].key[2] \in dep.paths \cup {NoPath}
      /\ log[i].tier.window \in WindowsOf(log[i].tier.name, log[i].key[2])
  BY DEF RunPlaced
<1>4. /\ log'[i].key[2] \in dep'.paths \cup {NoPath}
      /\ (log[i].tier.window \in WindowsOf(log[i].tier.name, log[i].key[2]))'
  BY <1>2, <1>3 DEF WindowsOf
<1>5. log'[i].at <= clock' /\ (dep'.fineClock => log'[i].at < clock')
  BY <1>1, <1>2 DEF RunPlaced
<1> QED
  BY <1>4, <1>5 DEF RunPlaced

LEMMA OrderKept ==
    ASSUME LimitInv, LogInOrder, SameRuns, UNCHANGED dep, clock' \in Nat, clock <= clock'
    PROVE  LogInOrder'
<1>1. \A i \in DOMAIN log : RunPlaced(i)'
  BY PlaceKept DEF LogInOrder, SameRuns
<1>2. ASSUME NEW i \in DOMAIN log, NEW j \in DOMAIN log PROVE RunsOrdered(i, j)'
  <2>1. RunsOrdered(i, j) /\ log'[i].at = log[i].at /\ log'[j].at = log[j].at
    BY DEF LogInOrder, SameRuns, RunsStay
  <2> QED
    BY <2>1 DEF RunsOrdered
<1>3. DOMAIN log' = DOMAIN log
  BY DEF SameRuns
<1> QED
  BY <1>1, <1>2, <1>3 DEF LogInOrder

LEMMA OrderStarted ==
    ASSUME LimitInv, LogInOrder, NEW c \in Callers, StartTier(c)
    PROVE  LogInOrder' /\ clock' \in Nat /\ clock <= clock'
<1> DEFINE run == [key |-> KeyOf(c), tier |-> TierOf(c), at |-> clock, verdict |-> "open"]
<1>0. PICK n \in Nat : n = Len(log) + 1
  BY InvTypes
<1>1. /\ DOMAIN log' = DOMAIN log \cup {n} /\ n \notin DOMAIN log
      /\ \A i \in DOMAIN log : log'[i] = log[i]
      /\ log'[n] = run /\ RunsStay
      /\ KeyOf(c)[2] \in dep.paths \cup {NoPath}
      /\ KeyOf(c)[2] = TierOf(c).path /\ TierOf(c) \in TiersAt(req[c].api, req[c].path)
  BY <1>0, StartEffect
<1>2. /\ dep' = dep /\ clock \in Nat /\ clock' \in Nat /\ clock <= clock'
      /\ dep.fineClock => clock < clock'
  BY InvTypes DEF StartTier
<1>3. run.key = KeyOf(c) /\ run.tier = TierOf(c) /\ run.at = clock
  OBVIOUS
<1> HIDE DEF run
<1>4. DOMAIN log = 1..Len(log) /\ Len(log) \in Nat /\ \A i \in DOMAIN log : log[i].at \in Nat
  BY InvTypes DEF TierRun
<1>5. TierOf(c).window \in WindowsOf(TierOf(c).name, KeyOf(c)[2])
  <2>1. /\ TierOf(c).name = "byIP" <=> req[c].api = "byIP"
        /\ IF req[c].api = "byIP" \/ TierOf(c).path = NoPath
           THEN TierOf(c).window = dep.limit.window
           ELSE \E f \in {EndpointLimits, RouteLimits, GeoLimits} :
                   TierOf(c).path \in DOMAIN f /\ TierOf(c).window = f[TierOf(c).path].window
    BY <1>1 DEF TiersAt
  <2>2. KeyOf(c)[2] = TierOf(c).path
    BY <1>1
  <2>3. CASE TierOf(c).name = "byIP" \/ TierOf(c).path = NoPath
    BY <2>1, <2>2, <2>3 DEF WindowsOf
  <2>4. CASE ~(TierOf(c).name = "byIP" \/ TierOf(c).path = NoPath)
    <3>1. PICK f \in {EndpointLimits, RouteLimits, GeoLimits} :
             TierOf(c).path \in DOMAIN f /\ TierOf(c).window = f[TierOf(c).path].window
      BY <2>1, <2>4
    <3>2. f \in {g \in {EndpointLimits, RouteLimits, GeoLimits} : TierOf(c).path \in DOMAIN g}
      BY <3>1
    <3> QED
      BY <2>2, <2>4, <3>1, <3>2 DEF WindowsOf
  <2> QED
    BY <2>3, <2>4
<1>6. RunPlaced(n)'
  <2>1. log'[n].key = KeyOf(c) /\ log'[n].tier = TierOf(c) /\ log'[n].at = clock
    BY <1>1, <1>3
  <2>2. (log[n].tier.window \in WindowsOf(log[n].tier.name, log[n].key[2]))'
    BY <1>2, <1>5, <2>1 DEF WindowsOf
  <2>3. log'[n].key[2] \in dep'.paths \cup {NoPath}
    BY <1>1, <1>2, <2>1
  <2>4. log'[n].at <= clock' /\ (dep'.fineClock => log'[n].at < clock')
    BY <1>2, <2>1
  <2> QED
    BY <2>2, <2>3, <2>4 DEF RunPlaced
<1>7. \A i \in DOMAIN log : RunPlaced(i)'
  BY <1>1, <1>2, PlaceKept DEF LogInOrder
<1>8. ASSUME NEW i \in DOMAIN log', NEW j \in DOMAIN log', i < j
      PROVE  RunsOrdered(i, j)'
  <2>1. i \in DOMAIN log
    BY <1>0, <1>1, <1>4, <1>8
  <2>2. CASE j = n
    <3>1. log'[i] = log[i] /\ log'[j].at = clock
      BY <1>1, <1>3, <2>1, <2>2
    <3>2. RunPlaced(i)
      BY <2>1 DEF LogInOrder
    <3> QED
      BY <1>2, <2>1, <3>1, <3>2 DEF RunPlaced, RunsOrdered
  <2>3. CASE j \in DOMAIN log
    <3>1. log'[i] = log[i] /\ log'[j] = log[j]
      BY <1>1, <2>1, <2>3
    <3>2. RunsOrdered(i, j)
      BY <2>1, <2>3 DEF LogInOrder
    <3> QED
      BY <1>2, <3>1, <3>2 DEF RunsOrdered
  <2> QED
    BY <1>1, <2>2, <2>3
<1>9. \A i \in DOMAIN log', j \in DOMAIN log' : RunsOrdered(i, j)'
  <2> SUFFICES ASSUME NEW i \in DOMAIN log', NEW j \in DOMAIN log' PROVE RunsOrdered(i, j)'
    OBVIOUS
  <2>1. CASE ~(i < j)
    BY <2>1 DEF RunsOrdered
  <2> QED
    BY <1>8, <2>1
<1> QED
  BY <1>1, <1>2, <1>6, <1>7, <1>9 DEF LogInOrder

\* The entrance a run came through: each keeps its windows in a store of its own.
Api(run) == IF run.tier.name = "byIP" THEN "byIP" ELSE "tiers"

LEMMA AtMostOne ==
    ASSUME NEW S, IsFiniteSet(S), Cardinality(S) <= 1, NEW x \in S, NEW y \in S
    PROVE  x = y
<1>1. CASE x # y
  <2> DEFINE one == {x}
  <2>1. IsFiniteSet(one) /\ Cardinality(one) = 1 /\ y \notin one /\ one \subseteq S
    BY <1>1, FS_Singleton
  <2> HIDE DEF one
  <2>2. IsFiniteSet(one \cup {y}) /\ Cardinality(one \cup {y}) = 2
    BY <2>1, FS_AddElement
  <2>3. one \cup {y} \subseteq S
    BY <2>1
  <2>4. 2 <= Cardinality(S) /\ Cardinality(S) \in Nat
    BY <2>2, <2>3, FS_Subset, FS_CardinalityType
  <2> QED
    BY <2>4
<1> QED
  BY <1>1

LEMMA WindowsFinite ==
    ASSUME NEW p
    PROVE  IsFiniteSet(WindowsAt(p))
<1> DEFINE four == (({EndpointLimits[p].window} \cup {RouteLimits[p].window})
                        \cup {GeoLimits[p].window}) \cup {dep.limit.window}
<1>1. IsFiniteSet(four)
  <2>1. IsFiniteSet({EndpointLimits[p].window})
    BY FS_Singleton
  <2>2. IsFiniteSet({EndpointLimits[p].window} \cup {RouteLimits[p].window})
    BY <2>1, FS_AddElement
  <2>3. IsFiniteSet(({EndpointLimits[p].window} \cup {RouteLimits[p].window})
                        \cup {GeoLimits[p].window})
    BY <2>2, FS_AddElement
  <2> QED
    BY <2>3, FS_AddElement
<1>2. WindowsAt(p) \subseteq four
  BY DEF WindowsAt
<1> QED
  BY <1>1, <1>2, FS_Subset

\* The runs that share a set, or a window in memory, have windows of one length.
LEMMA SameWindow ==
    ASSUME LimitInv, LogInOrder, CountsExactly, NEW i \in DOMAIN log, NEW j \in DOMAIN log,
           log[i].key = log[j].key, dep.redis \/ Api(log[i]) = Api(log[j])
    PROVE  log[i].tier.window = log[j].tier.window
<1> DEFINE p == log[i].key[2]
<1>1. /\ p \in dep.paths \cup {NoPath}
      /\ log[i].tier.window \in WindowsOf(log[i].tier.name, p)
      /\ log[j].tier.window \in WindowsOf(log[j].tier.name, p)
  BY DEF LogInOrder, RunPlaced
<1>2. dep.paths \subseteq Paths /\ NoPath \notin Paths
  BY InvTypes, DeploymentTypes, LimitAssumption
<1> HIDE DEF p
<1>3. CASE p = NoPath
  BY <1>1, <1>3 DEF WindowsOf
<1>4. CASE p # NoPath
  <2>1. p \in dep.paths
    BY <1>1, <1>4
  <2>2. Cardinality(WindowsAt(p)) <= 1 /\ IsFiniteSet(WindowsAt(p))
    BY <2>1, WindowsFinite DEF CountsExactly
  <2> DEFINE routes == {f[p].window : f \in {g \in {EndpointLimits, RouteLimits, GeoLimits} :
                                                      p \in DOMAIN g}}
  <2>3. \A n : WindowsOf(n, p) = IF n = "byIP" THEN {dep.limit.window} ELSE routes
    BY <1>4 DEF WindowsOf
  <2>4. WindowsAt(p) = routes \cup (IF dep.redis THEN {dep.limit.window} ELSE {})
    BY DEF WindowsAt
  <2> HIDE DEF routes
  <2>5. CASE dep.redis
    BY <1>1, <2>2, <2>3, <2>4, <2>5, AtMostOne
  <2>6. CASE ~dep.redis /\ log[i].tier.name = "byIP"
    <3>1. log[j].tier.name = "byIP"
      BY <2>6 DEF Api
    <3> QED
      BY <1>1, <2>3, <2>6, <3>1
  <2>7. CASE ~dep.redis /\ log[i].tier.name # "byIP"
    <3>1. log[j].tier.name # "byIP"
      BY <2>7 DEF Api
    <3> QED
      BY <1>1, <2>2, <2>3, <2>4, <2>7, <3>1, AtMostOne
  <2> QED
    BY <2>5, <2>6, <2>7
<1> QED
  BY <1>3, <1>4

----------------------------------------------------------------------------
(* Counting in Redis.                                                      *)

\* A run that passed is in its set, or its window cannot matter any more: a later
\* run was counted that trimmed it, or too much time has passed.
InSet(j) == /\ log[j].at \in redis[log[j].key].hits
            /\ log[j].at + 2 * log[j].tier.window <= redis[log[j].key].dies
Outrun(j) == \E m \in DOMAIN log : /\ m > j /\ log[m].key = log[j].key /\ ~Pending(m)
                                   /\ log[m].at >= log[j].at + log[j].tier.window
Outdated(j) == clock >= log[j].at + 2 * log[j].tier.window

HitsAreRuns == \A k \in Keys : \A t \in redis[k].hits :
                  \E j \in DOMAIN log : log[j].key = k /\ log[j].at = t
PassedInSets == \A j \in DOMAIN log :
                   log[j].verdict = "passed" => InSet(j) \/ Outrun(j) \/ Outdated(j)

RedisCounts ==
    /\ connected /\ resetting = [pc |-> "idle", times |-> 0]
    /\ \A c \in Callers : req[c].pc \notin {"read", "write"}
    /\ HitsAreRuns /\ PassedInSets

LEMMA OutrunStays ==
    ASSUME RunsStay, NoneReturns, NEW j \in DOMAIN log, Outrun(j)
    PROVE  Outrun(j)'
<1>1. PICK m \in DOMAIN log : /\ m > j /\ log[m].key = log[j].key /\ ~Pending(m)
                              /\ log[m].at >= log[j].at + log[j].tier.window
  BY DEF Outrun
<1>2. ~Pending(m)'
  BY <1>1 DEF NoneReturns
<1>3. /\ m \in DOMAIN log' /\ log'[m].key = log'[j].key
      /\ log'[m].at >= log'[j].at + log'[j].tier.window
  BY <1>1 DEF RunsStay
<1> QED
  BY <1>1, <1>2, <1>3 DEF Outrun

LEMMA OutdatedStays ==
    ASSUME LimitInv, RunsStay, clock' \in Nat, clock <= clock', NEW j \in DOMAIN log, Outdated(j)
    PROVE  Outdated(j)'
<1>1. /\ clock \in Nat /\ log[j].at \in Nat /\ log[j].tier.window \in Nat
      /\ log'[j].at = log[j].at /\ log'[j].tier = log[j].tier
  BY InvTypes DEF RunsStay, TierRun
<1> QED
  BY <1>1 DEF Outdated

\* A step that records no hit and lets no run pass.
LEMMA RedisQuiet ==
    ASSUME LimitInv, RedisCounts, RunsStay, NoneReturns,
           UNCHANGED <<redis, connected, resetting>>, clock' \in Nat, clock <= clock',
           \A c \in Callers : req'[c].pc \notin {"read", "write"},
           \A j \in DOMAIN log' : log'[j].verdict = "passed" =>
              j \in DOMAIN log /\ log[j].verdict = "passed"
    PROVE  RedisCounts'
<1>1. ASSUME NEW k \in Keys, NEW t \in redis'[k].hits
      PROVE  \E j \in DOMAIN log' : log'[j].key = k /\ log'[j].at = t
  <2>1. PICK j \in DOMAIN log : log[j].key = k /\ log[j].at = t
    BY DEF RedisCounts, HitsAreRuns
  <2> QED
    BY <2>1 DEF RunsStay
<1>2. ASSUME NEW j \in DOMAIN log', log'[j].verdict = "passed"
      PROVE  (InSet(j) \/ Outrun(j) \/ Outdated(j))'
  <2>1. j \in DOMAIN log /\ log[j].verdict = "passed"
    BY <1>2
  <2>2. InSet(j) \/ Outrun(j) \/ Outdated(j)
    BY <2>1 DEF RedisCounts, PassedInSets
  <2>3. CASE InSet(j)
    <3>1. /\ log'[j].at \in redis'[log'[j].key].hits
          /\ log'[j].at + 2 * log'[j].tier.window <= redis'[log'[j].key].dies
      BY <2>1, <2>3 DEF InSet, RunsStay
    <3> QED
      BY <3>1 DEF InSet
  <2> QED
    BY <2>1, <2>2, <2>3, OutrunStays, OutdatedStays
<1>3. connected' /\ resetting' = [pc |-> "idle", times |-> 0]
  BY DEF RedisCounts
<1> QED
  BY <1>1, <1>2, <1>3 DEF RedisCounts, HitsAreRuns, PassedInSets

\* The call of c that is counting, and its run.
LEMMA CountingRun ==
    ASSUME LimitInv, NEW c \in Callers, req[c].pc \in Counting
    PROVE  /\ req[c].entry \in DOMAIN log /\ Pending(req[c].entry)
           /\ log[req[c].entry].key = KeyOf(c) /\ log[req[c].entry].tier = TierOf(c)
           /\ log[req[c].entry].at = Now(c) /\ Now(c) \in Nat
           /\ TierOf(c).window \in Nat \ {0} /\ TierOf(c).requests \in Nat
           /\ WindowStart(c) = Now(c) - TierOf(c).window /\ KeyOf(c) \in Keys
           /\ \A d \in Callers : req[d].pc \in Counting /\ req[d].entry = req[c].entry => d = c
<1>1. req[c].pc \in Entered /\ req[c].pc # "idle"
  BY DEF Entered, Counting
<1>2. /\ CallInv(c) /\ TierOf(c) \in TierSet /\ Now(c) \in Nat /\ KeyOf(c) \in Keys
  BY <1>1, CallTypes DEF TiersAt
<1>3. Pending(req[c].entry)
  BY DEF Pending, Counting
<1> QED
  BY <1>1, <1>2, <1>3 DEF CallInv, Now, WindowStart, TierSet, Entered

\* Once its call has left it, nobody counts that run.
LEMMA CountedRun ==
    ASSUME LimitInv, NEW c \in Callers, req[c].pc \in Counting, OnlyCall(c),
           req'[c].pc \notin Counting, NEW i, i = req[c].entry
    PROVE  ~Pending(i)'
<1> SUFFICES ASSUME NEW d \in Callers, req'[d].entry = i, req'[d].pc \in Counting
             PROVE  FALSE
  BY DEF Pending, Counting
<1>1. CASE d = c
  BY <1>1
<1>2. CASE d # c
  <2>1. req'[d] = req[d]
    BY <1>2 DEF OnlyCall
  <2> QED
    BY <1>2, <2>1, CountingRun
<1> QED
  BY <1>1, <1>2

\* A hit is recorded: it enters the set of its bucket, whose window is trimmed.
LEMMA RedisHit ==
    ASSUME LimitInv, LogInOrder, RedisCounts, CountsExactly, dep.redis, NEW c \in Callers,
           req[c].pc \in Counting, RecordHit(c), SameRuns, OnlyCall(c),
           UNCHANGED <<clock, connected, resetting>>,
           req'[c].pc \notin Counting,
           \A j \in DOMAIN log : j # req[c].entry => log'[j].verdict = log[j].verdict
    PROVE  RedisCounts'
<1>1. PICK i \in DOMAIN log : i = req[c].entry
  BY CountingRun
<1>2. PICK k \in Keys : k = KeyOf(c)
  BY CountingRun
<1>3. PICK w \in Nat \ {0} : w = TierOf(c).window
  BY CountingRun
<1>4. /\ log[i].key = k /\ log[i].tier.window = w /\ log[i].at = Now(c) /\ Now(c) \in Nat
      /\ WindowStart(c) = Now(c) - w
  BY <1>1, <1>2, <1>3, CountingRun
<1>5. /\ redis'[k].hits = HitsAfter(c) /\ redis'[k].dies = clock + 2 * w
      /\ \A l \in Keys : l # k => redis'[l] = redis[l]
  <2>1. redis \in [Keys -> [hits : SUBSET Nat, dies : Nat]]
    BY DEF LimitInv, TypeOK
  <2> QED
    BY <1>2, <1>3, <2>1 DEF RecordHit
<1>6. HitsAfter(c) = {t \in (IF clock < redis[k].dies THEN redis[k].hits ELSE {}) \cup {Now(c)} :
                         t > Now(c) - w}
  BY <1>2, <1>4 DEF HitsAfter
<1> HIDE DEF LimitInv
<1>7. /\ DOMAIN log' = DOMAIN log
      /\ \A j \in DOMAIN log : /\ log'[j].key = log[j].key /\ log'[j].tier = log[j].tier
                               /\ log'[j].at = log[j].at
                               /\ log[j].at \in Nat /\ log[j].at <= clock /\ j \in Nat
                               /\ log[j].tier.window \in Nat \ {0} /\ log[j].key \in Keys
      /\ clock \in Nat /\ clock' = clock
  <2>1. \A j \in DOMAIN log : log[j].at <= clock
    BY DEF LogInOrder, RunPlaced
  <2> QED
    BY <2>1, InvTypes DEF SameRuns, RunsStay, TierRun
<1>8. NoneReturns /\ RunsStay
  BY OnlyCallReturns DEF SameRuns
<1>9. HitsAreRuns'
  <2> SUFFICES ASSUME NEW l \in Keys, NEW t \in redis'[l].hits
               PROVE  \E j \in DOMAIN log' : log'[j].key = l /\ log'[j].at = t
    BY DEF HitsAreRuns
  <2>1. CASE t \in redis[l].hits
    <3>1. PICK j \in DOMAIN log : log[j].key = l /\ log[j].at = t
      BY <2>1 DEF RedisCounts, HitsAreRuns
    <3> QED
      BY <1>7, <3>1
  <2>2. CASE t \notin redis[l].hits
    <3>1. l = k /\ t = Now(c)
      BY <1>5, <1>6, <2>2
    <3> QED
      BY <1>1, <1>4, <1>7, <3>1
  <2> QED
    BY <2>1, <2>2
<1>10. ASSUME NEW j \in DOMAIN log, log[j].key = k, log[j].tier.window = w,
              log[j].at \in HitsAfter(c)
       PROVE  InSet(j)'
  <2>1. log'[j].at \in redis'[log'[j].key].hits
    BY <1>5, <1>7, <1>10
  <2>2. log'[j].at + 2 * log'[j].tier.window <= redis'[log'[j].key].dies
    BY <1>5, <1>7, <1>10
  <2> QED
    BY <2>1, <2>2 DEF InSet
<1>11. PassedInSets'
  <2> SUFFICES ASSUME NEW j \in DOMAIN log, log'[j].verdict = "passed"
               PROVE  InSet(j)' \/ Outrun(j)' \/ Outdated(j)'
    BY <1>7 DEF PassedInSets
  <2>1. CASE j = i
    <3>1. log[i].at \in HitsAfter(c)
      BY <1>4, <1>6
    <3> QED
      BY <1>4, <1>10, <2>1, <3>1
  <2>2. CASE j # i
    <3>1. log[j].verdict = "passed"
      BY <1>1, <2>2
    <3>2. InSet(j) \/ Outrun(j) \/ Outdated(j)
      BY <3>1 DEF RedisCounts, PassedInSets
    <3>3. CASE InSet(j) /\ log[j].key # k
      <4>1. redis'[log[j].key] = redis[log[j].key]
        BY <1>5, <1>7, <3>3
      <4>2. /\ log'[j].at \in redis'[log'[j].key].hits
            /\ log'[j].at + 2 * log'[j].tier.window <= redis'[log'[j].key].dies
        BY <1>7, <3>3, <4>1 DEF InSet
      <4> QED
        BY <4>2 DEF InSet
    <3>4. CASE InSet(j) /\ log[j].key = k
      <4>1. log[j].tier.window = w
        BY <1>4, <3>4, SameWindow
      <4>2. log[j].at \in redis[k].hits /\ log[j].at + 2 * w <= redis[k].dies
        BY <3>4, <4>1 DEF InSet
      <4>3. redis[k].dies \in Nat
        BY InvParts DEF RestTyped
      <4>4. CASE ~(clock < redis[k].dies)
        <5>1. Outdated(j)
          BY <1>7, <4>1, <4>2, <4>3, <4>4 DEF Outdated
        <5> QED
          BY <1>7, <1>8, <5>1, OutdatedStays
      <4>5. CASE clock < redis[k].dies /\ log[j].at > Now(c) - w
        <5>1. log[j].at \in HitsAfter(c)
          BY <1>6, <4>2, <4>5
        <5> QED
          BY <1>10, <3>4, <4>1, <5>1
      <4>6. CASE ~(log[j].at > Now(c) - w)
        <5>1. log[j].at + w <= log[i].at
          BY <1>3, <1>4, <1>7, <4>6
        <5>2. ~(i < j)
          <6>1. i < j => log[i].at <= log[j].at
            BY DEF LogInOrder, RunsOrdered
          <6>2. log[i].at \in Nat /\ log[j].at \in Nat /\ w >= 1
            BY <1>3, <1>7
          <6> QED
            BY <1>3, <5>1, <6>1, <6>2
        <5>3. i > j
          BY <1>7, <2>2, <5>2
        <5>4. ~Pending(i)'
          BY <1>1, CountedRun
        <5>5. log'[i].key = log'[j].key /\ log'[i].at >= log'[j].at + log'[j].tier.window
          BY <1>3, <1>4, <1>7, <3>4, <4>1, <5>1
        <5> QED
          BY <1>7, <5>3, <5>4, <5>5 DEF Outrun
      <4> QED
        BY <4>4, <4>5, <4>6
    <3> QED
      BY <1>7, <1>8, <3>2, <3>3, <3>4, OutrunStays, OutdatedStays
  <2> QED
    BY <2>1, <2>2
<1>12. \A d \in Callers : req'[d].pc \notin {"read", "write"}
  BY DEF OnlyCall, RedisCounts, Counting
<1>13. connected' /\ resetting' = [pc |-> "idle", times |-> 0]
  BY DEF RedisCounts
<1> QED
  BY <1>9, <1>11, <1>12, <1>13 DEF RedisCounts

LEMMA RedisStep ==
    ASSUME LimitInv, LogInOrder, CountsExactly, dep.redis, RedisCounts, [Next]_vars
    PROVE  LogInOrder' /\ RedisCounts'
<1>1. /\ connected /\ resetting = [pc |-> "idle", times |-> 0] /\ dep.maxResets = 0
      /\ ~dep.failOpen /\ \A d \in Callers : req[d].pc \notin {"read", "write"}
  BY DEF RedisCounts, CountsExactly
<1>2. clock \in Nat /\ clock + 1 \in Nat /\ clock <= clock + 1 /\ clock <= clock
  BY InvTypes
<1>3. SameRuns => \A j \in DOMAIN log' : j \in DOMAIN log
  BY DEF SameRuns
<1>4. ASSUME NEW c \in Callers, Besides(c) PROVE LogInOrder' /\ RedisCounts'
  <2>1. /\ SameRuns /\ OnlyCall(c) /\ req'[c].pc \in {"tier", "feedWrite", "denied"}
        /\ dep' = dep /\ clock' = clock /\ UNCHANGED <<redis, connected, resetting>>
        /\ log' = log
    BY <1>4, BesidesEffect DEF shared
  <2>2. NoneReturns /\ RunsStay
    BY <2>1, OnlyCallReturns DEF SameRuns
  <2>3. \A d \in Callers : req'[d].pc \notin {"read", "write"}
    BY <1>1, <2>1 DEF OnlyCall
  <2> HIDE DEF LimitInv, LogInOrder, RedisCounts
  <2> QED
    BY <1>2, <2>1, <2>2, <2>3, OrderKept, RedisQuiet
<1>5. ASSUME NEW c \in Callers, StartTier(c) PROVE LogInOrder' /\ RedisCounts'
  <2>1. LogInOrder' /\ clock' \in Nat /\ clock <= clock'
    BY <1>5, OrderStarted
  <2>2. /\ DOMAIN log' = DOMAIN log \cup {Len(log) + 1}
        /\ \A i \in DOMAIN log : log'[i] = log[i]
        /\ log'[Len(log) + 1] = [key |-> KeyOf(c), tier |-> TierOf(c), at |-> clock,
                                 verdict |-> "open"]
        /\ RunsStay /\ OnlyCall(c) /\ req'[c].pc \in {"eval", "pipeline"}
    BY <1>1, <1>5, StartEffect
  <2>3. NoneReturns /\ UNCHANGED <<redis, connected, resetting>>
    BY <1>5, <2>2, OnlyCallReturns DEF StartTier, shared
  <2>4. \A d \in Callers : req'[d].pc \notin {"read", "write"}
    BY <1>1, <2>2 DEF OnlyCall
  <2>5. \A j \in DOMAIN log' : log'[j].verdict = "passed" =>
           j \in DOMAIN log /\ log[j].verdict = "passed"
    BY <2>2
  <2> HIDE DEF LimitInv, LogInOrder, RedisCounts
  <2> QED
    BY <2>1, <2>2, <2>3, <2>4, <2>5, RedisQuiet
<1>6. ASSUME NEW c \in Callers, InRedis(c) PROVE LogInOrder' /\ RedisCounts'
  <2>1. /\ req[c].pc \in Counting /\ UNCHANGED <<dep, clock, connected, resetting>>
        /\ SameRuns /\ OnlyCall(c)
    BY <1>6, RedisEffect DEF Counting
  <2>2. LogInOrder' /\ RunsStay /\ NoneReturns
    BY <1>2, <2>1, OrderKept, OnlyCallReturns DEF SameRuns
  <2>3. ASSUME RecordHit(c), req'[c].pc \notin Counting,
               \A j \in DOMAIN log : j # req[c].entry => log'[j].verdict = log[j].verdict
        PROVE  RedisCounts'
    BY <2>1, <2>3, RedisHit
  <2>4. ASSUME UNCHANGED <<redis, log>>, req'[c].pc \notin {"read", "write"}
        PROVE  RedisCounts'
    <3>1. \A d \in Callers : req'[d].pc \notin {"read", "write"}
      BY <1>1, <2>1, <2>4 DEF OnlyCall
    <3> QED
      BY <1>2, <2>1, <2>2, <2>4, <3>1, RedisQuiet
  <2>5. \/ /\ RecordHit(c) /\ req'[c].pc \notin Counting
           /\ \A j \in DOMAIN log : j # req[c].entry => log'[j].verdict = log[j].verdict
        \/ UNCHANGED <<redis, log>> /\ req'[c].pc \notin {"read", "write"}
    <3>1. "failed" \notin Counting
      BY DEF Counting
    <3> QED
      BY <1>1, <1>6, <3>1, RedisEffect DEF Judged
  <2> HIDE DEF LimitInv, LogInOrder, RedisCounts
  <2> QED
    BY <2>2, <2>3, <2>4, <2>5
<1>7. ASSUME UNCHANGED <<dep, redis, connected, resetting, req, log>>,
             clock' \in {clock, clock + 1}
      PROVE  LogInOrder' /\ RedisCounts'
  <2>1. SameRuns
    BY <1>7, SameLog
  <2>2. NoneReturns /\ RunsStay
    BY <1>7, <2>1 DEF NoneReturns, Pending, SameRuns
  <2>3. \A d \in Callers : req'[d].pc \notin {"read", "write"}
    BY <1>1, <1>7
  <2> HIDE DEF LimitInv, LogInOrder, RedisCounts
  <2> QED
    BY <1>2, <1>7, <2>1, <2>2, <2>3, OrderKept, RedisQuiet
<1>8. ASSUME NEW c \in dep.callers, Serve(c) PROVE LogInOrder' /\ RedisCounts'
  <2>1. c \in Callers
    BY InvTypes, DeploymentTypes
  <2>2. Besides(c) \/ StartTier(c) \/ InRedis(c) \/ req[c].pc \in {"read", "write"}
    BY <1>8 DEF Serve, Besides, InRedis, ReadWindow, WriteWindow, Doing
  <2> HIDE DEF LimitInv, LogInOrder, RedisCounts
  <2> QED
    BY <1>1, <1>4, <1>5, <1>6, <2>1, <2>2
<1>9. ~ResetStores /\ ~ResetRedis /\ ~Detach /\ ~Attach
  BY <1>1 DEF ResetStores, ResetRedis, Detach, Attach
<1>10. ASSUME Tick \/ FlushScripts \/ (\E ip \in IPs : Lift(ip)) \/ UNCHANGED vars
       PROVE  LogInOrder' /\ RedisCounts'
  <2>1. UNCHANGED <<dep, redis, connected, resetting, req, log>> /\ clock' \in {clock, clock + 1}
    BY <1>10 DEF Tick, FlushScripts, Lift, vars, shared
  <2> QED
    BY <1>7, <2>1
<1> HIDE DEF LimitInv, LogInOrder, RedisCounts
<1> QED
  BY <1>8, <1>9, <1>10 DEF Next

----------------------------------------------------------------------------
(* What counting exactly in Redis gives.                                   *)

\* The runs of a bucket since some time, and the properties of a verdict on run i.
Made(k, s) == {j \in DOMAIN log : log[j].key = k /\ log[j].at > s}
EnforcedAt(i) ==
    Timely(i) /\ log'[i].verdict = "passed" /\ log[i].verdict # "passed" =>
        Cardinality(PassedWith(i)') <= log[i].tier.requests
EarnedAt(i) ==
    log'[i].verdict = "denied" /\ log[i].verdict # "denied" =>
        Cardinality(Made(log[i].key, log[i].at - log[i].tier.window)) > log[i].tier.requests

\* Every hit the set holds after the call is a run of the bucket in the window.
LEMMA HitsMade ==
    ASSUME LimitInv, RedisCounts, NEW c \in Callers, req[c].pc \in Counting
    PROVE  /\ \A t \in HitsAfter(c) : \E j \in Made(KeyOf(c), WindowStart(c)) : log[j].at = t
           /\ IsFiniteSet(HitsAfter(c)) /\ Cardinality(HitsAfter(c)) \in Nat
           /\ Cardinality(HitsAfter(c)) <= Cardinality(Made(KeyOf(c), WindowStart(c)))
           /\ Cardinality(Made(KeyOf(c), WindowStart(c))) \in Nat
<1> DEFINE M == Made(KeyOf(c), WindowStart(c))
<1>1. /\ req[c].entry \in DOMAIN log /\ log[req[c].entry].key = KeyOf(c)
      /\ log[req[c].entry].at = Now(c) /\ KeyOf(c) \in Keys
  BY CountingRun
<1>2. ASSUME NEW t \in HitsAfter(c) PROVE \E j \in M : log[j].at = t
  <2>1. t > WindowStart(c) /\ (t = Now(c) \/ t \in redis[KeyOf(c)].hits)
    BY DEF HitsAfter
  <2>2. CASE t = Now(c)
    BY <1>1, <2>1, <2>2 DEF Made
  <2>3. CASE t \in redis[KeyOf(c)].hits
    <3>1. PICK j \in DOMAIN log : log[j].key = KeyOf(c) /\ log[j].at = t
      BY <1>1, <2>3 DEF RedisCounts, HitsAreRuns
    <3> QED
      BY <2>1, <3>1 DEF Made
  <2> QED
    BY <2>1, <2>2, <2>3
<1>3. log \in Seq(TierRun) /\ M \subseteq DOMAIN log
  BY InvTypes DEF Made
<1>4. IsFiniteSet(M) /\ Cardinality(M) \in Nat
  BY <1>3, SeqIndexes
<1> HIDE DEF M
<1> DEFINE f == [t \in HitsAfter(c) |-> CHOOSE j \in M : log[j].at = t]
<1>5. \A t \in HitsAfter(c) : f[t] \in M /\ log[f[t]].at = t
  <2> SUFFICES ASSUME NEW t \in HitsAfter(c) PROVE f[t] \in M /\ log[f[t]].at = t
    OBVIOUS
  <2>1. \E j \in M : log[j].at = t
    BY <1>2
  <2> QED
    BY <2>1
<1>6. f \in [HitsAfter(c) -> M]
  BY <1>5
<1> HIDE DEF f
<1>7. \A x \in HitsAfter(c), y \in HitsAfter(c) : f[x] = f[y] => x = y
  BY <1>5
<1>8. /\ IsFiniteSet(HitsAfter(c)) /\ Cardinality(HitsAfter(c)) \in Nat
      /\ Cardinality(HitsAfter(c)) <= Cardinality(M)
  BY <1>4, <1>6, <1>7, OneEach
<1> QED
  BY <1>2, <1>4, <1>8 DEF M

\* The runs that pass with run i are in the set when run i is counted in time.
LEMMA RedisPasses ==
    ASSUME LimitInv, LogInOrder, CountsExactly, dep.redis, RedisCounts, NEW c \in Callers,
           req[c].pc \in Counting, SameRuns, Judged(c, "passed"),
           ~(Cardinality(HitsAfter(c)) > TierOf(c).requests),
           NEW i \in DOMAIN log, i = req[c].entry, Timely(i)
    PROVE  Cardinality(PassedWith(i)') <= log[i].tier.requests
<1>1. PICK k \in Keys : k = KeyOf(c)
  BY CountingRun
<1>2. PICK w \in Nat \ {0} : w = TierOf(c).window
  BY CountingRun
<1>3. /\ log[i].key = k /\ log[i].tier.window = w /\ log[i].at = Now(c) /\ Now(c) \in Nat
      /\ WindowStart(c) = Now(c) - w /\ log[i].tier = TierOf(c) /\ TierOf(c).requests \in Nat
  BY <1>1, <1>2, CountingRun
<1>4. HitsAfter(c) = {t \in (IF clock < redis[k].dies THEN redis[k].hits ELSE {}) \cup {Now(c)} :
                         t > Now(c) - w}
  BY <1>1, <1>3 DEF HitsAfter
<1>5. IsFiniteSet(HitsAfter(c)) /\ Cardinality(HitsAfter(c)) \in Nat
  BY HitsMade
<1>6. /\ DOMAIN log' = DOMAIN log
      /\ \A j \in DOMAIN log : /\ log'[j].key = log[j].key /\ log'[j].tier = log[j].tier
                               /\ log'[j].at = log[j].at
                               /\ log[j].at \in Nat /\ j \in Nat
                               /\ log[j].tier.window \in Nat \ {0}
      /\ clock \in Nat /\ redis[k].dies \in Nat
  <2>1. redis[k].dies \in Nat
    BY InvParts DEF RestTyped
  <2> QED
    BY <2>1, InvTypes DEF SameRuns, RunsStay, TierRun
<1> HIDE DEF LimitInv
<1>7. ASSUME NEW j \in PassedWith(i)' PROVE j \in DOMAIN log /\ log[j].at \in HitsAfter(c)
  <2>1. /\ j \in DOMAIN log /\ log'[j].verdict = "passed" /\ log[j].key = k
        /\ log[j].tier.window = w /\ log[j].at <= log[i].at /\ log[j].at > log[i].at - w
    BY <1>3, <1>6 DEF PassedWith
  <2>2. CASE j = i
    BY <1>3, <1>4, <2>1, <2>2
  <2>3. CASE j # i
    <3>1. log[j].verdict = "passed"
      BY <2>1, <2>3 DEF Judged
    <3>2. InSet(j) \/ Outrun(j) \/ Outdated(j)
      BY <2>1, <3>1 DEF RedisCounts, PassedInSets
    <3>3. clock <= log[i].at + w
      BY <1>3 DEF Timely
    <3>4. ~Outdated(j)
      BY <1>2, <1>3, <1>6, <2>1, <3>3 DEF Outdated
    <3>5. ~Outrun(j)
      <4> SUFFICES ASSUME NEW m \in DOMAIN log, m > j, log[m].key = log[j].key, ~Pending(m),
                          log[m].at >= log[j].at + log[j].tier.window
                   PROVE  FALSE
        BY DEF Outrun
      <4>1. ~(m > i)
        BY <1>3, <2>1 DEF Timely
      <4>2. log[m].at <= log[i].at
        <5>1. m < i => log[m].at <= log[i].at
          BY DEF LogInOrder, RunsOrdered
        <5> QED
          BY <1>6, <4>1, <5>1
      <4> QED
        BY <1>2, <1>6, <2>1, <4>2
    <3>6. log[j].at \in redis[k].hits /\ log[j].at + 2 * w <= redis[k].dies
      BY <2>1, <3>2, <3>4, <3>5 DEF InSet
    <3>7. clock < redis[k].dies
      BY <1>2, <1>6, <2>1, <3>3, <3>6
    <3> QED
      BY <1>3, <1>4, <2>1, <3>6, <3>7
  <2> QED
    BY <2>2, <2>3
<1> DEFINE f == [j \in PassedWith(i)' |-> log[j].at]
<1>8. f \in [PassedWith(i)' -> HitsAfter(c)]
  BY <1>7
<1>9. \A x \in PassedWith(i)', y \in PassedWith(i)' : f[x] = f[y] => x = y
  <2> SUFFICES ASSUME NEW x \in PassedWith(i)', NEW y \in PassedWith(i)', log[x].at = log[y].at
               PROVE  x = y
    OBVIOUS
  <2>1. x \in DOMAIN log /\ y \in DOMAIN log
    BY <1>7
  <2>2. RunsOrdered(x, y) /\ RunsOrdered(y, x) /\ dep.fineClock
    BY <2>1 DEF LogInOrder, CountsExactly
  <2> QED
    BY <1>6, <2>1, <2>2 DEF RunsOrdered
<1> HIDE DEF f
<1>10. Cardinality(PassedWith(i)') <= Cardinality(HitsAfter(c)) /\ Cardinality(PassedWith(i)') \in Nat
  BY <1>5, <1>8, <1>9, OneEach
<1> QED
  BY <1>3, <1>5, <1>10

\* A step that judges no run passed, or none denied.
LEMMA NoVerdict ==
    ASSUME LimitInv, log' = log \/ Forget, NEW i \in DOMAIN log
    PROVE  EnforcedAt(i) /\ EarnedAt(i)
<1>1. CASE log' = log
  BY <1>1 DEF EnforcedAt, EarnedAt
<1>2. CASE Forget
  BY <1>2, ForgetRuns DEF EnforcedAt, EarnedAt
<1> QED
  BY <1>1, <1>2

LEMMA NoVerdictStarted ==
    ASSUME LimitInv, NEW c \in Callers, StartTier(c), NEW i \in DOMAIN log
    PROVE  EnforcedAt(i) /\ EarnedAt(i)
<1>1. log'[i] = log[i]
  BY StartEffect
<1> QED
  BY <1>1 DEF EnforcedAt, EarnedAt

LEMMA RedisVerdicts ==
    ASSUME LimitInv, LogInOrder, CountsExactly, dep.redis, RedisCounts, [Next]_vars,
           NEW i \in DOMAIN log
    PROVE  EnforcedAt(i) /\ EarnedAt(i)
<1>1. \A d \in Callers : req[d].pc \notin {"read", "write"}
  BY DEF RedisCounts
<1>2. ASSUME NEW c \in Callers, InRedis(c) PROVE EnforcedAt(i) /\ EarnedAt(i)
  <2>1. req[c].pc \in Counting /\ SameRuns
    BY <1>2, RedisEffect DEF Counting
  <2>2. ASSUME Judged(c, "passed"), ~(Cardinality(HitsAfter(c)) > TierOf(c).requests)
        PROVE  EnforcedAt(i) /\ EarnedAt(i)
    <3>1. CASE i = req[c].entry
      <4>1. Timely(i) => Cardinality(PassedWith(i)') <= log[i].tier.requests
        BY <2>1, <2>2, <3>1, RedisPasses
      <4>2. log'[i].verdict = "passed"
        BY <2>2, <3>1 DEF Judged
      <4> QED
        BY <4>1, <4>2 DEF EnforcedAt, EarnedAt
    <3>2. CASE i # req[c].entry
      BY <2>2, <3>2 DEF EnforcedAt, EarnedAt, Judged
    <3> QED
      BY <3>1, <3>2
  <2>3. ASSUME Judged(c, "denied"), Cardinality(HitsAfter(c)) > TierOf(c).requests
        PROVE  EnforcedAt(i) /\ EarnedAt(i)
    <3>1. CASE i = req[c].entry
      <4>1. /\ log[i].key = KeyOf(c) /\ log[i].tier = TierOf(c)
            /\ log[i].at - log[i].tier.window = WindowStart(c) /\ TierOf(c).requests \in Nat
        BY <2>1, <3>1, CountingRun
      <4>2. Cardinality(Made(KeyOf(c), WindowStart(c))) > TierOf(c).requests
        BY <2>1, <2>3, <4>1, HitsMade
      <4>3. log'[i].verdict = "denied"
        BY <2>3, <3>1 DEF Judged
      <4> QED
        BY <4>1, <4>2, <4>3 DEF EnforcedAt, EarnedAt
    <3>2. CASE i # req[c].entry
      BY <2>3, <3>2 DEF EnforcedAt, EarnedAt, Judged
    <3> QED
      BY <3>1, <3>2
  <2>4. \/ Judged(c, "passed") /\ ~(Cardinality(HitsAfter(c)) > TierOf(c).requests)
        \/ Judged(c, "denied") /\ Cardinality(HitsAfter(c)) > TierOf(c).requests
        \/ log' = log
    BY <1>2, RedisEffect
  <2> HIDE DEF LimitInv, LogInOrder, RedisCounts
  <2> QED
    BY <2>2, <2>3, <2>4, NoVerdict
<1>3. ASSUME NEW c \in dep.callers, Serve(c) PROVE EnforcedAt(i) /\ EarnedAt(i)
  <2>1. c \in Callers
    BY InvTypes, DeploymentTypes
  <2>2. Besides(c) \/ StartTier(c) \/ InRedis(c) \/ req[c].pc \in {"read", "write"}
    BY <1>3 DEF Serve, Besides, InRedis, ReadWindow, WriteWindow, Doing
  <2>3. Besides(c) => log' = log
    BY <2>1, BesidesEffect
  <2> HIDE DEF LimitInv, LogInOrder, RedisCounts
  <2> QED
    BY <1>1, <1>2, <2>1, <2>2, <2>3, NoVerdict, NoVerdictStarted
<1>4. ASSUME ResetStores \/ ResetRedis \/ Detach PROVE Forget
  BY <1>4 DEF ResetStores, ResetRedis, Detach
<1>5. ASSUME Attach \/ Tick \/ FlushScripts \/ (\E ip \in IPs : Lift(ip)) \/ UNCHANGED vars
      PROVE  log' = log
  BY <1>5 DEF Attach, Tick, FlushScripts, Lift, vars
<1> HIDE DEF LimitInv, LogInOrder, RedisCounts
<1> QED
  BY <1>3, <1>4, <1>5, NoVerdict DEF Next

----------------------------------------------------------------------------
(* Counting in memory.                                                     *)

StoreNames == {"tiers", "byIP"}
Buckets == dep.ips \X (dep.paths \cup {NoPath})

\* The window of key k as the store has it.
Window(st, k) == IF k \in DOMAIN st.items THEN st.items[k] ELSE <<>>

PassedAfter(api, k, s) ==
    {j \in DOMAIN log : /\ log[j].verdict = "passed" /\ Api(log[j]) = api
                        /\ log[j].key = k /\ log[j].at > s}
CountedAfter(api, k, s) ==
    {j \in DOMAIN log : /\ ~Pending(j) /\ Api(log[j]) = api
                        /\ log[j].key = k /\ log[j].at > s}

\* The windows of all the runs so far begin at s or before.
Begun(api, k, s) ==
    \A j \in DOMAIN log : Api(log[j]) = api /\ log[j].key = k =>
                             log[j].at - log[j].tier.window <= s

Latest == IF log = <<>> THEN 0 ELSE log[Len(log)].at

\* A window in order that has at least the hits that passed since the last run's
\* window began, and only hits that were made.
Fits(h, api, k) ==
    /\ \A p \in DOMAIN h, q \in DOMAIN h : p < q => h[p] <= h[q]
    /\ \A p \in DOMAIN h : h[p] <= Latest
    /\ \A s \in Int : Begun(api, k, s) =>
          Cardinality(PassedAfter(api, k, s)) <= Cardinality(Above(h, s))
    /\ \A s \in Int : Cardinality(Above(h, s)) <= Cardinality(CountedAfter(api, k, s))

WindowsFit == \A api \in StoreNames, k \in Keys : Fits(Window(store[api], k), api, k)
SeenFits(c) ==
    req[c].pc = "write" => /\ Fits(req[c].seen, req[c].api, KeyOf(c))
                           /\ \A p \in DOMAIN req[c].seen : req[c].seen[p] > WindowStart(c)
Alone(c) ==
    /\ req[c].pc \notin {"eval", "reload", "pipeline"}
    /\ c \notin dep.callers => req[c].pc = "idle"
    /\ req[c].pc \in Counting => req[c].entry = Len(log)

MemoryCounts ==
    /\ ~connected /\ ~script.known
    /\ \A s \in StoreNames : DOMAIN store[s].items \subseteq Buckets
    /\ \A c \in Callers : Alone(c) /\ SeenFits(c)
    /\ WindowsFit

\* Where every bucket has room, no key is evicted.
LEMMA RoomLeft ==
    ASSUME NEW st, NEW B, IsFiniteSet(B), Cardinality(B) <= dep.maxKeys, dep.maxKeys \in Nat,
           DOMAIN st.items \subseteq B, NEW key \in B, key \notin DOMAIN st.items
    PROVE  ~(Cardinality(DOMAIN st.items) >= dep.maxKeys)
<1> DEFINE D == DOMAIN st.items
<1>1. IsFiniteSet(D) /\ Cardinality(D) \in Nat /\ Cardinality(B) \in Nat
  BY FS_Subset, FS_CardinalityType
<1>2. D \cup {key} \subseteq B /\ key \notin D
  OBVIOUS
<1> HIDE DEF D
<1>3. Cardinality(D \cup {key}) = Cardinality(D) + 1
  BY <1>1, <1>2, FS_AddElement
<1>4. Cardinality(D \cup {key}) <= Cardinality(B)
  BY <1>2, FS_Subset
<1> QED
  BY <1>1, <1>3, <1>4 DEF D

LEMMA InsertedWindow ==
    ASSUME NEW st, NEW key, NEW value, key \notin DOMAIN st.items,
           ~(Cardinality(DOMAIN st.items) >= dep.maxKeys)
    PROVE  /\ DOMAIN Insert(st, key, value).items = DOMAIN st.items \cup {key}
           /\ Insert(st, key, value).items[key] = value
           /\ \A k : k # key => Window(Insert(st, key, value), k) = Window(st, k)
<1> DEFINE items == [k \in DOMAIN st.items \cup {key} |->
                        IF k = key THEN value ELSE st.items[k]]
           order == Append(st.order, key)
<1>1. Insert(st, key, value) = [items |-> items, order |-> order]
  BY DEF Insert
<1>2. Insert(st, key, value).items = items
  BY <1>1
<1> HIDE DEF order
<1> QED
  BY <1>2 DEF Window

LEMMA PutWindow ==
    ASSUME NEW st, NEW keys, NEW values, StoreOK(st, keys, values),
           NEW B, IsFiniteSet(B), Cardinality(B) <= dep.maxKeys, dep.maxKeys \in Nat,
           DOMAIN st.items \subseteq B, NEW key \in B, NEW value
    PROVE  /\ DOMAIN Put(st, key, value).items \subseteq B
           /\ Window(Put(st, key, value), key) = value
           /\ \A k : k # key => Window(Put(st, key, value), k) = Window(st, k)
<1>1. CASE key \in DOMAIN st.items
  <2> DEFINE items == [st.items EXCEPT ![key] = value]
             new == [st EXCEPT !.items = items]
  <2>1. Put(st, key, value) = new
    BY <1>1 DEF Put
  <2>2. /\ DOMAIN items = DOMAIN st.items /\ items[key] = value
        /\ \A k \in DOMAIN st.items : k # key => items[k] = st.items[k]
    BY <1>1 DEF StoreOK
  <2> HIDE DEF items
  <2>3. new.items = items
    BY DEF StoreOK
  <2> HIDE DEF new
  <2> QED
    BY <1>1, <2>1, <2>2, <2>3 DEF Window
<1>2. CASE key \notin DOMAIN st.items
  <2>1. ~(Cardinality(DOMAIN st.items) >= dep.maxKeys)
    BY <1>2, RoomLeft
  <2>2. Put(st, key, value) = Insert(st, key, value)
    BY <1>2 DEF Put
  <2>3. /\ DOMAIN Insert(st, key, value).items = DOMAIN st.items \cup {key}
        /\ Insert(st, key, value).items[key] = value
        /\ \A k : k # key => Window(Insert(st, key, value), k) = Window(st, k)
    BY <1>2, <2>1, InsertedWindow
  <2>4. Window(Insert(st, key, value), key) = value
    BY <2>3 DEF Window
  <2> QED
    BY <2>2, <2>3, <2>4
<1> QED
  BY <1>1, <1>2

LEMMA CreatedWindow ==
    ASSUME NEW st, NEW keys, NEW values, StoreOK(st, keys, values),
           NEW B, IsFiniteSet(B), Cardinality(B) <= dep.maxKeys, dep.maxKeys \in Nat,
           DOMAIN st.items \subseteq B, NEW key \in B
    PROVE  LET new == GetOrCreate(st, key, <<>>) IN
           /\ DOMAIN new.items \subseteq B /\ new.items[key] = Window(st, key)
           /\ \A k : Window(new, k) = Window(st, k)
<1> DEFINE none == <<>>
<1>1. CASE key \in DOMAIN st.items
  <2> DEFINE order == Append(st.order, key)
             new == [st EXCEPT !.order = order]
  <2>1. GetOrCreate(st, key, <<>>) = new
    BY <1>1 DEF GetOrCreate
  <2> HIDE DEF order
  <2>2. new.items = st.items
    BY DEF StoreOK
  <2> HIDE DEF new
  <2> QED
    BY <1>1, <2>1, <2>2 DEF Window
<1>2. CASE key \notin DOMAIN st.items
  <2>1. ~(Cardinality(DOMAIN st.items) >= dep.maxKeys)
    BY <1>2, RoomLeft
  <2>2. GetOrCreate(st, key, <<>>) = Insert(st, key, none)
    BY <1>2 DEF GetOrCreate
  <2>3. Window(st, key) = none
    BY <1>2 DEF Window
  <2> HIDE DEF none
  <2>4. /\ DOMAIN Insert(st, key, none).items = DOMAIN st.items \cup {key}
        /\ Insert(st, key, none).items[key] = none
        /\ \A k : k # key => Window(Insert(st, key, none), k) = Window(st, k)
    BY <1>2, <2>1, InsertedWindow
  <2>5. Window(Insert(st, key, none), key) = none
    BY <2>4 DEF Window
  <2> QED
    BY <2>2, <2>3, <2>4, <2>5
<1> QED
  BY <1>1, <1>2

LEMMA RunSetsFinite ==
    ASSUME LimitInv, NEW api, NEW k, NEW s
    PROVE  /\ IsFiniteSet(PassedAfter(api, k, s)) /\ Cardinality(PassedAfter(api, k, s)) \in Nat
           /\ IsFiniteSet(CountedAfter(api, k, s)) /\ Cardinality(CountedAfter(api, k, s)) \in Nat
<1>1. PassedAfter(api, k, s) \subseteq DOMAIN log /\ CountedAfter(api, k, s) \subseteq DOMAIN log
  BY DEF PassedAfter, CountedAfter
<1> QED
  BY <1>1, SeqIndexes, InvTypes

LEMMA RunSetsFiniteNext ==
    ASSUME LimitInv', NEW api, NEW k, NEW s
    PROVE  /\ IsFiniteSet(PassedAfter(api, k, s)') /\ Cardinality(PassedAfter(api, k, s)') \in Nat
           /\ IsFiniteSet(CountedAfter(api, k, s)') /\ Cardinality(CountedAfter(api, k, s)') \in Nat
<1>1. PassedAfter(api, k, s)' \subseteq DOMAIN log' /\ CountedAfter(api, k, s)' \subseteq DOMAIN log'
  BY DEF PassedAfter, CountedAfter
<1>2. log' \in Seq(TierRun)
  BY DEF LimitInv, TypeOK
<1> QED
  BY <1>1, <1>2, SeqIndexes

\* No run passes that had not passed before.
NonePasses == \A j \in DOMAIN log' : log'[j].verdict = "passed" =>
                 j \in DOMAIN log /\ log[j].verdict = "passed"

LEMMA CountedGrows ==
    ASSUME RunsStay, NoneReturns, NEW api, NEW k, NEW s
    PROVE  CountedAfter(api, k, s) \subseteq CountedAfter(api, k, s)'
<1> SUFFICES ASSUME NEW j \in CountedAfter(api, k, s) PROVE j \in CountedAfter(api, k, s)'
  OBVIOUS
<1>1. j \in DOMAIN log /\ ~Pending(j)' /\ Api(log[j]) = api /\ log[j].key = k /\ log[j].at > s
  BY DEF CountedAfter, NoneReturns
<1>2. j \in DOMAIN log' /\ Api(log'[j]) = api /\ log'[j].key = k /\ log'[j].at > s
  BY <1>1 DEF RunsStay, Api
<1> QED
  BY <1>1, <1>2 DEF CountedAfter

LEMMA BegunBefore ==
    ASSUME RunsStay, NEW api, NEW k, NEW s, Begun(api, k, s)'
    PROVE  Begun(api, k, s)
BY DEF Begun, RunsStay, Api

\* What fits goes on fitting until a run of the same window passes.
LEMMA FitsKept ==
    ASSUME LimitInv, LimitInv', RunsStay, NoneReturns, Latest <= Latest', Latest \in Nat,
           Latest' \in Nat,
           NEW api, NEW k, NEW h \in Seq(Nat), Fits(h, api, k),
           \A j \in DOMAIN log' : log'[j].verdict = "passed" /\ Api(log'[j]) = api /\ log'[j].key = k
              => j \in DOMAIN log /\ log[j].verdict = "passed"
    PROVE  Fits(h, api, k)'
<1>1. \A p \in DOMAIN h : h[p] \in Nat
  OBVIOUS
<1>2. \A p \in DOMAIN h : h[p] <= Latest'
  BY <1>1 DEF Fits
<1>3. ASSUME NEW s \in Int, Begun(api, k, s)'
      PROVE  Cardinality(PassedAfter(api, k, s)') <= Cardinality(Above(h, s))
  <2>1. PassedAfter(api, k, s)' \subseteq PassedAfter(api, k, s)
    BY DEF PassedAfter, RunsStay, Api
  <2>2. Cardinality(PassedAfter(api, k, s)) <= Cardinality(Above(h, s))
    BY <1>3, BegunBefore DEF Fits
  <2>3. Cardinality(PassedAfter(api, k, s)') <= Cardinality(PassedAfter(api, k, s))
    BY <2>1, RunSetsFinite, FS_Subset
  <2> QED
    BY <2>2, <2>3, RunSetsFinite, RunSetsFiniteNext, AboveCounted
<1>4. ASSUME NEW s \in Int
      PROVE  Cardinality(Above(h, s)) <= Cardinality(CountedAfter(api, k, s)')
  <2>1. Cardinality(Above(h, s)) <= Cardinality(CountedAfter(api, k, s))
    BY DEF Fits
  <2>2. Cardinality(CountedAfter(api, k, s)) <= Cardinality(CountedAfter(api, k, s)')
    BY CountedGrows, RunSetsFiniteNext, FS_Subset
  <2> QED
    BY <2>1, <2>2, RunSetsFinite, RunSetsFiniteNext, AboveCounted
<1>5. \A p \in DOMAIN h, q \in DOMAIN h : p < q => h[p] <= h[q]
  BY DEF Fits
<1> QED
  BY <1>2, <1>3, <1>4, <1>5 DEF Fits

\* So does an empty window where no run has passed.
LEMMA EmptyFits ==
    ASSUME LimitInv, NEW api, NEW k, \A j \in DOMAIN log : log[j].verdict # "passed"
    PROVE  Fits(<<>>, api, k)
<1>1. ASSUME NEW s \in Int
      PROVE  /\ Cardinality(PassedAfter(api, k, s)) <= Cardinality(Above(<<>>, s))
             /\ Cardinality(Above(<<>>, s)) <= Cardinality(CountedAfter(api, k, s))
  <2>1. PassedAfter(api, k, s) = {} /\ Above(<<>>, s) = {}
    BY DEF PassedAfter, Above
  <2>2. Cardinality(CountedAfter(api, k, s)) \in Nat
    BY RunSetsFinite
  <2>3. Cardinality(PassedAfter(api, k, s)) = 0 /\ Cardinality(Above(<<>>, s)) = 0
    BY <2>1, FS_EmptySet
  <2> QED
    BY <2>2, <2>3
<1>2. DOMAIN <<>> = {}
  OBVIOUS
<1> QED
  BY <1>1, <1>2 DEF Fits

LEMMA EmptyFitsNext ==
    ASSUME LimitInv', NEW api, NEW k, \A j \in DOMAIN log' : log'[j].verdict # "passed"
    PROVE  Fits(<<>>, api, k)'
<1>1. ASSUME NEW s \in Int
      PROVE  /\ Cardinality(PassedAfter(api, k, s)') <= Cardinality(Above(<<>>, s))
             /\ Cardinality(Above(<<>>, s)) <= Cardinality(CountedAfter(api, k, s)')
  <2>1. PassedAfter(api, k, s)' = {} /\ Above(<<>>, s) = {}
    BY DEF PassedAfter, Above
  <2> QED
    BY <2>1, RunSetsFiniteNext, FS_EmptySet
<1>2. DOMAIN <<>> = {}
  OBVIOUS
<1> QED
  BY <1>1, <1>2 DEF Fits

LEMMA EntryApi ==
    ASSUME LimitInv, NEW c \in Callers, req[c].pc \in Counting
    PROVE  Api(log[req[c].entry]) = req[c].api
<1>1. log[req[c].entry].tier = TierOf(c) /\ req[c].pc # "idle"
  BY CountingRun DEF Counting
<1>2. TierOf(c) \in TiersAt(req[c].api, req[c].path) /\ req[c].api \in {"tiers", "byIP"}
  BY <1>1, CallTypes
<1> QED
  BY <1>1, <1>2 DEF Api, TiersAt

\* And what a call keeps of it by its own window.
LEMMA TrimFits ==
    ASSUME LimitInv, NEW c \in Callers, req[c].pc \in Counting, NEW api, api = req[c].api,
           NEW k, k = KeyOf(c), NEW h \in Seq(Nat), Fits(h, api, k),
           NEW start \in Int, start = WindowStart(c)
    PROVE  Fits(Trimmed(h, start), api, k) /\ Trimmed(h, start) \in Seq(Nat)
           /\ \A p \in DOMAIN Trimmed(h, start) : Trimmed(h, start)[p] > start
<1> DEFINE g == Trimmed(h, start)
<1>1. \A p \in DOMAIN h, q \in DOMAIN h : p < q => h[p] <= h[q]
  BY DEF Fits
<1>2. g \in Seq(Nat)
  BY TrimmedTyped
<1>3. /\ \A p \in DOMAIN g, q \in DOMAIN g : p < q => g[p] <= g[q]
      /\ \A p \in DOMAIN g : g[p] > start /\ \E q \in DOMAIN h : g[p] = h[q]
      /\ \A s \in Int : Cardinality(Above(g, s)) <= Cardinality(Above(h, s))
      /\ \A s \in Int : start <= s => Cardinality(Above(h, s)) <= Cardinality(Above(g, s))
  BY <1>1, TrimmedKeeps
<1> HIDE DEF g
<1>4. \A p \in DOMAIN g : g[p] <= Latest
  BY <1>3 DEF Fits
<1>5. ASSUME NEW s \in Int
      PROVE  /\ Begun(api, k, s) =>
                   Cardinality(PassedAfter(api, k, s)) <= Cardinality(Above(g, s))
             /\ Cardinality(Above(g, s)) <= Cardinality(CountedAfter(api, k, s))
  <2>1. /\ Cardinality(Above(h, s)) \in Nat /\ Cardinality(Above(g, s)) \in Nat
        /\ Cardinality(PassedAfter(api, k, s)) \in Nat
        /\ Cardinality(CountedAfter(api, k, s)) \in Nat
    BY <1>2, AboveCounted, RunSetsFinite
  <2>2. /\ Begun(api, k, s) => Cardinality(PassedAfter(api, k, s)) <= Cardinality(Above(h, s))
        /\ Cardinality(Above(h, s)) <= Cardinality(CountedAfter(api, k, s))
    BY DEF Fits
  <2>3. Begun(api, k, s) => start <= s
    <3>1. /\ req[c].entry \in DOMAIN log /\ log[req[c].entry].key = k
          /\ log[req[c].entry].at - log[req[c].entry].tier.window = start
      BY CountingRun
    <3>2. Api(log[req[c].entry]) = api
      BY EntryApi
    <3> QED
      BY <3>1, <3>2 DEF Begun
  <2> QED
    BY <1>3, <2>1, <2>2, <2>3
<1> QED
  BY <1>2, <1>3, <1>4, <1>5 DEF Fits, g

LEMMA LatestTyped == LimitInv => Latest \in Nat
<1> SUFFICES ASSUME LimitInv PROVE Latest \in Nat
  OBVIOUS
<1>1. CASE log = <<>>
  BY <1>1 DEF Latest
<1>2. CASE log # <<>>
  <2>1. Len(log) \in DOMAIN log
    BY <1>2, InvTypes
  <2>2. log[Len(log)].at \in Nat
    BY <2>1, InvTypes DEF TierRun
  <2> QED
    BY <1>2, <2>2 DEF Latest
<1> QED
  BY <1>1, <1>2

LEMMA LatestSame ==
    ASSUME LimitInv, LimitInv', SameRuns
    PROVE  Latest' = Latest /\ Latest \in Nat
<1>1. log \in Seq(TierRun) /\ log' \in Seq(TierRun) /\ Len(log') = Len(log)
  BY DEF LimitInv, TypeOK, SameRuns
<1>2. CASE log = <<>>
  BY <1>1, <1>2, LatestTyped DEF Latest
<1>3. CASE log # <<>>
  <2>1. Len(log) \in DOMAIN log /\ log' # <<>>
    BY <1>1, <1>3
  <2> QED
    BY <1>1, <1>3, <2>1, LatestTyped DEF Latest, SameRuns, RunsStay
<1> QED
  BY <1>2, <1>3

LEMMA LatestStarted ==
    ASSUME LimitInv, LimitInv', LogInOrder, NEW c \in Callers, StartTier(c)
    PROVE  Latest \in Nat /\ Latest' \in Nat /\ Latest <= Latest'
<1>0. log \in Seq(TierRun) /\ log' \in Seq(TierRun)
  BY DEF LimitInv, TypeOK
<1> DEFINE run == [key |-> KeyOf(c), tier |-> TierOf(c), at |-> clock, verdict |-> "open"]
<1>1. Len(log') = Len(log) + 1 /\ log'[Len(log) + 1] = run
  BY StartEffect
<1>2. run.at = clock
  OBVIOUS
<1> HIDE DEF run
<1>3. log' # <<>> /\ Latest' = clock /\ clock \in Nat
  BY <1>0, <1>1, <1>2, InvTypes DEF Latest
<1>4. CASE log = <<>>
  BY <1>3, <1>4 DEF Latest
<1>5. CASE log # <<>>
  <2>1. Len(log) \in DOMAIN log
    BY <1>0, <1>5
  <2>2. log[Len(log)].at <= clock
    BY <2>1 DEF LogInOrder, RunPlaced
  <2> QED
    BY <1>3, <1>5, <2>2, LatestTyped DEF Latest
<1> QED
  BY <1>4, <1>5

LEMMA StoredWindow ==
    ASSUME LimitInv, NEW api \in StoreNames, NEW k
    PROVE  Window(store[api], k) \in Seq(Nat)
<1>1. StoreOK(store[api], Keys, Seq(Nat))
  BY InvTypes DEF StoreNames
<1>2. <<>> \in Seq(Nat)
  OBVIOUS
<1> QED
  BY <1>1, <1>2 DEF StoreOK, Window

\* The windows stay while no run passes.
LEMMA WindowsKept ==
    ASSUME LimitInv, LimitInv', WindowsFit, RunsStay, NoneReturns, NonePasses,
           Latest \in Nat, Latest' \in Nat, Latest <= Latest',
           \A api \in StoreNames, k \in Keys : Window(store'[api], k) = Window(store[api], k)
    PROVE  WindowsFit'
<1> SUFFICES ASSUME NEW api \in StoreNames, NEW k \in Keys
             PROVE  Fits(Window(store[api], k), api, k)'
  BY DEF WindowsFit
<1>1. PICK h \in Seq(Nat) : h = Window(store[api], k)
  BY StoredWindow
<1>2. Fits(h, api, k)
  BY <1>1 DEF WindowsFit
<1>3. \A j \in DOMAIN log' : log'[j].verdict = "passed" /\ Api(log'[j]) = api /\ log'[j].key = k
         => j \in DOMAIN log /\ log[j].verdict = "passed"
  BY DEF NonePasses
<1> HIDE DEF LimitInv
<1>4. Fits(h, api, k)'
  BY <1>2, <1>3, FitsKept
<1>5. h = Window(store'[api], k)
  BY <1>1
<1> QED
  BY <1>4, <1>5 DEF Fits

LEMMA SeenKept ==
    ASSUME LimitInv, LimitInv', RunsStay, NoneReturns, NonePasses,
           Latest \in Nat, Latest' \in Nat, Latest <= Latest', UNCHANGED dep,
           NEW d \in Callers, req'[d] = req[d] \/ req'[d].pc # "write", SeenFits(d)
    PROVE  SeenFits(d)'
<1> SUFFICES ASSUME req'[d].pc = "write", req'[d] = req[d]
             PROVE  Fits(req[d].seen, req[d].api, KeyOf(d))'
                    /\ \A p \in DOMAIN req'[d].seen : req'[d].seen[p] > WindowStart(d)'
  BY DEF SeenFits
<1>1. req[d].pc \in Counting /\ req[d] \in Call /\ req[d].api \in {"tiers", "byIP"}
  BY CallTypes DEF Counting
<1>2. PICK h \in Seq(Nat) : h = req[d].seen
  BY <1>1 DEF Call
<1>3. PICK api \in {"tiers", "byIP"} : api = req[d].api
  BY <1>1
<1>4. PICK k \in Keys : k = KeyOf(d)
  BY <1>1, CountingRun
<1>5. KeyOf(d)' = k /\ TierOf(d)' = TierOf(d)
  BY <1>4 DEF KeyOf, TierOf, TiersOf
<1>6. Fits(h, api, k)
  BY <1>2, <1>3, <1>4 DEF SeenFits
<1>7. \A j \in DOMAIN log' : log'[j].verdict = "passed" /\ Api(log'[j]) = api /\ log'[j].key = k
         => j \in DOMAIN log /\ log[j].verdict = "passed"
  BY DEF NonePasses
<1>8. WindowStart(d)' = WindowStart(d)
  <2>1. req[d].entry \in DOMAIN log
    BY <1>1, CountingRun
  <2>2. log'[req'[d].entry].at = log[req[d].entry].at
    BY <2>1 DEF RunsStay
  <2> QED
    BY <1>5, <2>2 DEF WindowStart, Now
<1> HIDE DEF LimitInv
<1>9. Fits(h, api, k)'
  BY <1>6, <1>7, FitsKept
<1>10. Fits(req[d].seen, req[d].api, KeyOf(d))'
  <2>1. req'[d].seen = h /\ req'[d].api = api
    BY <1>2, <1>3
  <2> QED
    BY <1>5, <1>9, <2>1 DEF Fits
<1> QED
  BY <1>8, <1>10 DEF SeenFits

\* A step that touches neither the windows nor the calls that read them.
LEMMA MemoryQuiet ==
    ASSUME LimitInv, LimitInv', MemoryCounts, RunsStay, NoneReturns, NonePasses,
           Latest \in Nat, Latest' \in Nat, Latest <= Latest', UNCHANGED dep,
           ~connected', ~script'.known,
           \A s \in StoreNames : store'[s] = store[s],
           \A c \in Callers : Alone(c)' /\ (req'[c] = req[c] \/ req'[c].pc # "write")
    PROVE  MemoryCounts'
<1>1. \A c \in Callers : SeenFits(c)'
  BY SeenKept DEF MemoryCounts
<1>2. WindowsFit'
  <2>1. \A api \in StoreNames, k \in Keys : Window(store'[api], k) = Window(store[api], k)
    OBVIOUS
  <2> QED
    BY <2>1, WindowsKept DEF MemoryCounts
<1>3. \A s \in StoreNames : DOMAIN store'[s].items \subseteq Buckets'
  BY DEF MemoryCounts, Buckets
<1> HIDE DEF LimitInv
<1> QED
  BY <1>1, <1>2, <1>3 DEF MemoryCounts

\* A call writes its window back with its own hit: it counts it, and the verdict is out.
LEMMA WriteFits ==
    ASSUME LimitInv, LimitInv', LogInOrder, NEW c \in Callers, req[c].pc = "write",
           req[c].entry = Len(log), SeenFits(c), SameRuns, OnlyCall(c),
           req'[c].pc \notin Counting,
           \A j \in DOMAIN log : j # req[c].entry => log'[j].verdict = log[j].verdict,
           NEW api, api = req[c].api, NEW k, k = KeyOf(c), NEW h \in Seq(Nat), h = req[c].seen,
           NEW t \in Nat, t = Now(c)
    PROVE  Fits(Append(h, t), api, k)'
<1> DEFINE g == Append(h, t)
<1>1. req[c].pc \in Counting
  BY DEF Counting
<1>2. PICK i \in DOMAIN log : i = req[c].entry
  BY <1>1, CountingRun
<1>3. /\ log[i].key = k /\ log[i].at = t /\ Api(log[i]) = api /\ Pending(i)
      /\ i = Len(log) /\ ~Pending(i)'
  BY <1>1, <1>2, CountingRun, CountedRun, EntryApi
<1>4. Fits(h, api, k)
  BY DEF SeenFits
<1>5. Latest = t /\ Latest' = t
  <2>1. log # <<>>
    BY <1>2
  <2> QED
    BY <1>3, <2>1, LatestSame DEF Latest
<1>6. NoneReturns /\ RunsStay /\ DOMAIN log' = DOMAIN log
  <2>1. NoneReturns
    BY OnlyCallReturns
  <2> QED
    BY <2>1 DEF SameRuns
<1> HIDE DEF LimitInv
<1>7. /\ DOMAIN h = 1..Len(h) /\ Len(h) \in Nat /\ DOMAIN g = 1..(Len(h) + 1)
      /\ g[Len(h) + 1] = t /\ \A p \in DOMAIN h : g[p] = h[p] /\ h[p] \in Nat
  <2>1. \A p \in DOMAIN h : h[p] \in Nat
    OBVIOUS
  <2>2. DOMAIN h = 1..Len(h) /\ Len(h) \in Nat /\ DOMAIN g = 1..(Len(h) + 1)
    BY AppendFacts
  <2>3. g[Len(h) + 1] = t
    BY AppendFacts
  <2>4. \A p \in DOMAIN h : g[p] = h[p]
    BY AppendFacts
  <2> QED
    BY <2>1, <2>2, <2>3, <2>4
<1>8. \A s \in Int : Cardinality(Above(g, s)) = Cardinality(Above(h, s)) + (IF t > s THEN 1 ELSE 0)
  BY AboveAppended
<1> HIDE DEF g
<1>9. \A p \in DOMAIN g : g[p] <= t
  BY <1>4, <1>5, <1>7 DEF Fits
<1>10. ASSUME NEW p \in DOMAIN g, NEW q \in DOMAIN g, p < q PROVE g[p] <= g[q]
  <2>1. p \in DOMAIN h
    BY <1>7, <1>10
  <2>2. CASE q \in DOMAIN h
    BY <1>4, <1>7, <1>10, <2>1, <2>2 DEF Fits
  <2>3. CASE q \notin DOMAIN h
    <3>1. q = Len(h) + 1
      BY <1>7, <2>3
    <3> QED
      BY <1>7, <1>9, <3>1
  <2> QED
    BY <2>2, <2>3
<1>11. ASSUME NEW s \in Int
       PROVE  /\ Begun(api, k, s)' =>
                    Cardinality(PassedAfter(api, k, s)') <= Cardinality(Above(g, s))
              /\ Cardinality(Above(g, s)) <= Cardinality(CountedAfter(api, k, s)')
  <2> DEFINE P == PassedAfter(api, k, s)
             C == CountedAfter(api, k, s)
             Q == P'
             D == C'
  <2>1. /\ IsFiniteSet(P) /\ Cardinality(P) \in Nat /\ IsFiniteSet(C) /\ Cardinality(C) \in Nat
        /\ IsFiniteSet(Q) /\ Cardinality(Q) \in Nat /\ IsFiniteSet(D) /\ Cardinality(D) \in Nat
        /\ Cardinality(Above(h, s)) \in Nat
    BY RunSetsFinite, RunSetsFiniteNext, AboveCounted
  <2>2. C \subseteq D
    BY <1>6, CountedGrows
  <2>3. i \notin C /\ (t > s => i \in D)
    BY <1>2, <1>3, <1>6 DEF CountedAfter, RunsStay, Api
  <2>4. Q \subseteq P \cup {i} /\ (~(t > s) => Q \subseteq P)
    BY <1>2, <1>3, <1>6 DEF PassedAfter, RunsStay, Api
  <2>5. /\ Begun(api, k, s)' => Cardinality(P) <= Cardinality(Above(h, s))
        /\ Cardinality(Above(h, s)) <= Cardinality(C)
    BY <1>4, <1>6, BegunBefore DEF Fits
  <2>6. Cardinality(Above(g, s)) = Cardinality(Above(h, s)) + (IF t > s THEN 1 ELSE 0)
    BY <1>8
  <2> HIDE DEF P, C, Q, D
  <2>7. CASE t > s
    <3>0. IsFiniteSet(P \cup {i})
          /\ Cardinality(P \cup {i}) \in {Cardinality(P), Cardinality(P) + 1}
      BY <2>1, FS_AddElement
    <3>1. IsFiniteSet(P \cup {i}) /\ Cardinality(P \cup {i}) <= Cardinality(P) + 1
          /\ Cardinality(P \cup {i}) \in Nat
      BY <2>1, <3>0
    <3>2. Cardinality(Q) <= Cardinality(P \cup {i})
      BY <2>4, <3>1, FS_Subset
    <3>3. IsFiniteSet(C \cup {i}) /\ Cardinality(C \cup {i}) = Cardinality(C) + 1
      BY <2>1, <2>3, FS_AddElement
    <3>4. C \cup {i} \subseteq D
      BY <2>2, <2>3, <2>7
    <3>5. Cardinality(C) + 1 <= Cardinality(D)
      BY <2>1, <3>3, <3>4, FS_Subset
    <3>6. Cardinality(Above(g, s)) = Cardinality(Above(h, s)) + 1
      BY <2>6, <2>7
    <3>7. Begun(api, k, s)' => Cardinality(Q) <= Cardinality(Above(g, s))
      BY <2>1, <2>5, <3>1, <3>2, <3>6
    <3>8. Cardinality(Above(g, s)) <= Cardinality(D)
      BY <2>1, <2>5, <3>5, <3>6
    <3> QED
      BY <3>7, <3>8 DEF P, C, Q, D
  <2>8. CASE ~(t > s)
    <3>1. Cardinality(Q) <= Cardinality(P)
      BY <2>1, <2>4, <2>8, FS_Subset
    <3>2. Cardinality(C) <= Cardinality(D)
      BY <2>1, <2>2, FS_Subset
    <3>3. Cardinality(Above(g, s)) = Cardinality(Above(h, s))
      BY <2>1, <2>6, <2>8
    <3>4. Begun(api, k, s)' => Cardinality(Q) <= Cardinality(Above(g, s))
      BY <2>1, <2>5, <3>1, <3>3
    <3>5. Cardinality(Above(g, s)) <= Cardinality(D)
      BY <2>1, <2>5, <3>2, <3>3
    <3> QED
      BY <3>4, <3>5 DEF P, C, Q, D
  <2> QED
    BY <2>7, <2>8
<1>12. \A p \in DOMAIN g : g[p] <= Latest'
  BY <1>5, <1>9
<1>13. Fits(g, api, k)'
  <2>1. \A p \in DOMAIN g, q \in DOMAIN g : p < q => g[p] <= g[q]
    BY <1>10
  <2>2. \A s \in Int : Begun(api, k, s)' =>
           Cardinality(PassedAfter(api, k, s)') <= Cardinality(Above(g, s))
    BY <1>11
  <2>3. \A s \in Int : Cardinality(Above(g, s)) <= Cardinality(CountedAfter(api, k, s)')
    BY <1>11
  <2> QED
    BY <1>12, <2>1, <2>2, <2>3 DEF Fits
<1> QED
  BY <1>13 DEF g

LEMMA RoomForAll ==
    ASSUME LimitInv, CountsExactly, ~dep.redis
    PROVE  /\ IsFiniteSet(Buckets) /\ Cardinality(Buckets) <= dep.maxKeys /\ dep.maxKeys \in Nat
           /\ \E c \in Callers : dep.callers = {c}
<1>1. /\ IsFiniteSet(dep.ips) /\ IsFiniteSet(dep.paths)
      /\ Cardinality(Buckets) <= dep.maxKeys /\ \E c \in Callers : dep.callers = {c}
  BY DEF CountsExactly, Buckets
<1>2. IsFiniteSet(dep.paths \cup {NoPath})
  BY <1>1, FS_AddElement
<1>3. IsFiniteSet(Buckets)
  BY <1>1, <1>2, FS_Product DEF Buckets
<1>4. dep.maxKeys \in Nat
  BY InvTypes, DeploymentTypes
<1> QED
  BY <1>1, <1>3, <1>4

\* The key of a call is one of the buckets there is room for.
LEMMA KeyIsBucket ==
    ASSUME LimitInv, NEW c \in Callers, req[c].pc # "idle"
    PROVE  KeyOf(c) \in Buckets
<1>1. TierOf(c) \in TiersAt(req[c].api, req[c].path) /\ CallInv(c)
  BY CallTypes
<1>2. TierOf(c).path \in {req[c].path, NoPath}
  BY <1>1 DEF TiersAt
<1>3. req[c].ip \in dep.ips /\ req[c].path \in dep.paths \cup {NoPath}
  BY <1>1 DEF CallInv
<1> QED
  BY <1>2, <1>3 DEF KeyOf, Buckets

\* Reading the window: a missing key is created, and nothing else changes.
LEMMA ReadEffect ==
    ASSUME LimitInv, MemoryCounts, CountsExactly, ~dep.redis, NEW c \in Callers, ReadWindow(c)
    PROVE  /\ SameRuns /\ OnlyCall(c) /\ UNCHANGED <<dep, clock, connected, script, log>>
           /\ \A s \in StoreNames : /\ DOMAIN store'[s].items \subseteq Buckets
                                    /\ \A k : Window(store'[s], k) = Window(store[s], k)
           /\ req'[c].pc = "write" /\ req'[c].api = req[c].api /\ req'[c].ip = req[c].ip
           /\ req'[c].path = req[c].path /\ req'[c].tier = req[c].tier
           /\ req'[c].entry = req[c].entry
           /\ req'[c].seen = Trimmed(Window(store[req[c].api], KeyOf(c)), WindowStart(c))
<1> DEFINE st == GetOrCreate(store[req[c].api], KeyOf(c), <<>>)
           seen == Trimmed(st.items[KeyOf(c)], WindowStart(c))
           turned == [req[c] EXCEPT !.pc = "write"]
           new == [turned EXCEPT !.seen = seen]
<1>1. /\ req[c].pc = "read" /\ req[c].pc \in Counting /\ req[c].pc # "idle"
      /\ store' = [store EXCEPT ![req[c].api] = st] /\ req' = [req EXCEPT ![c] = new]
      /\ UNCHANGED <<dep, clock, connected, script, log>>
  BY InvTypes DEF ReadWindow, Doing, shared, Counting
<1>2. /\ req[c] \in Call /\ req[c].api \in StoreNames /\ KeyOf(c) \in Buckets
      /\ WindowStart(c) \in Int /\ DOMAIN store = {"tiers", "byIP", "autoban"}
      /\ StoreOK(store[req[c].api], Keys, Seq(Nat))
      /\ DOMAIN store[req[c].api].items \subseteq Buckets
  <2>1. req[c].pc \in Entered
    BY <1>1 DEF Entered
  <2>2. req[c].api \in StoreNames
    BY CallTypes DEF StoreNames
  <2> QED
    BY <1>1, <2>1, <2>2, CallTypes, InvTypes, KeyIsBucket DEF StoreNames, MemoryCounts
<1>3. /\ IsFiniteSet(Buckets) /\ Cardinality(Buckets) <= dep.maxKeys /\ dep.maxKeys \in Nat
  BY RoomForAll
<1>4. /\ DOMAIN st.items \subseteq Buckets
      /\ st.items[KeyOf(c)] = Window(store[req[c].api], KeyOf(c))
      /\ \A k : Window(st, k) = Window(store[req[c].api], k)
  <2> DEFINE old == store[req[c].api]
             values == Seq(Nat)
  <2>1. StoreOK(old, Keys, values) /\ DOMAIN old.items \subseteq Buckets
    BY <1>2
  <2> HIDE DEF old, values
  <2>2. LET made == GetOrCreate(old, KeyOf(c), <<>>) IN
        /\ DOMAIN made.items \subseteq Buckets
        /\ made.items[KeyOf(c)] = Window(old, KeyOf(c))
        /\ \A k : Window(made, k) = Window(old, k)
    BY <1>2, <1>3, <2>1, CreatedWindow
  <2> QED
    BY <2>2 DEF old
<1>5. st.items[KeyOf(c)] \in Seq(Nat) /\ seen \in Seq(Nat)
      /\ seen = Trimmed(Window(store[req[c].api], KeyOf(c)), WindowStart(c))
  <2>1. Window(store[req[c].api], KeyOf(c)) \in Seq(Nat)
    BY <1>2, StoredWindow
  <2> QED
    BY <1>2, <1>4, <2>1, TrimmedTyped
<1> HIDE DEF st, seen
<1>6. /\ turned \in Call /\ turned.pc = "write" /\ turned.api = req[c].api
      /\ turned.ip = req[c].ip /\ turned.path = req[c].path /\ turned.tier = req[c].tier
      /\ turned.entry = req[c].entry
  BY <1>2, CallAt, StepNames
<1> HIDE DEF turned
<1>7. /\ new.pc = "write" /\ new.api = req[c].api /\ new.ip = req[c].ip
      /\ new.path = req[c].path /\ new.tier = req[c].tier /\ new.entry = req[c].entry
      /\ new.seen = seen
  BY <1>5, <1>6, CallFields
<1> HIDE DEF new
<1>8. req'[c] = new /\ \A d \in Callers : d # c => req'[d] = req[d]
  BY <1>1, InvTypes
<1>9. SameRuns /\ OnlyCall(c)
  <2>1. SameRuns
    BY <1>1, SameLog
  <2> QED
    BY <1>1, <1>7, <1>8, <2>1 DEF OnlyCall
<1>10. ASSUME NEW s \in StoreNames
       PROVE  /\ DOMAIN store'[s].items \subseteq Buckets
              /\ \A k : Window(store'[s], k) = Window(store[s], k)
  <2>1. CASE s = req[c].api
    <3>1. store'[s] = st
      BY <1>1, <1>2, <2>1 DEF StoreNames
    <3> QED
      BY <1>4, <2>1, <3>1
  <2>2. CASE s # req[c].api
    <3>1. store'[s] = store[s]
      BY <1>1, <1>2, <2>2 DEF StoreNames
    <3> QED
      BY <3>1 DEF MemoryCounts
  <2> QED
    BY <2>1, <2>2
<1> QED
  BY <1>1, <1>5, <1>7, <1>8, <1>9, <1>10

\* Where one goroutine calls, the others are idle.
LEMMA OthersIdle ==
    ASSUME LimitInv, MemoryCounts, CountsExactly, ~dep.redis, NEW c \in Callers,
           req[c].pc # "idle"
    PROVE  \A d \in Callers : d # c => req[d].pc = "idle"
<1>1. PICK e \in Callers : dep.callers = {e}
  BY RoomForAll
<1>2. c = e
  BY <1>1 DEF MemoryCounts, Alone
<1> QED
  BY <1>1, <1>2 DEF MemoryCounts, Alone

\* Writing it back: one window changes, and the verdict is given.
LEMMA WriteEffect ==
    ASSUME LimitInv, MemoryCounts, CountsExactly, ~dep.redis, NEW c \in Callers, WriteWindow(c)
    PROVE  /\ req[c].pc = "write" /\ UNCHANGED <<dep, clock, connected, script>>
           /\ SameRuns /\ OnlyCall(c) /\ req'[c].pc \notin Counting
           /\ \/ Judged(c, "passed") /\ ~(Len(req[c].seen) >= TierOf(c).requests)
              \/ Judged(c, "denied") /\ Len(req[c].seen) >= TierOf(c).requests
           /\ \A s \in StoreNames : DOMAIN store'[s].items \subseteq Buckets
           /\ Window(store'[req[c].api], KeyOf(c)) = Append(req[c].seen, Now(c))
           /\ \A s \in StoreNames, k \in Keys :
                 s # req[c].api \/ k # KeyOf(c) => Window(store'[s], k) = Window(store[s], k)
<1>1. /\ req[c].pc = "write" /\ req[c].pc \in Counting /\ req[c].pc # "idle"
      /\ UNCHANGED <<dep, clock, connected, script>>
  BY DEF WriteWindow, Doing, shared, Counting
<1>2. \A d \in Callers : d # c => req[d].pc = "idle"
  BY <1>1, OthersIdle
<1> DEFINE value == Append(req[c].seen, Now(c))
           st == Put(store[req[c].api], KeyOf(c), value)
<1>3. store' = [store EXCEPT ![req[c].api] = st]
  <2>1. PICK o \in Callers :
           /\ o = c \/ Doing(o, "write")
           /\ store' = [store EXCEPT ![req[c].api] =
                           Put(@, KeyOf(c), Append(req[c].seen, Now(o)))]
    BY DEF WriteWindow
  <2>2. o = c
    BY <1>2, <2>1 DEF Doing
  <2> QED
    BY <2>1, <2>2
<1>4. /\ req[c].api \in StoreNames /\ KeyOf(c) \in Buckets
      /\ DOMAIN store = {"tiers", "byIP", "autoban"}
      /\ StoreOK(store[req[c].api], Keys, Seq(Nat))
      /\ DOMAIN store[req[c].api].items \subseteq Buckets
  <2>1. req[c].api \in StoreNames
    BY CallTypes DEF StoreNames
  <2> QED
    BY <1>1, <2>1, InvTypes, KeyIsBucket DEF StoreNames, MemoryCounts
<1>5. IsFiniteSet(Buckets) /\ Cardinality(Buckets) <= dep.maxKeys /\ dep.maxKeys \in Nat
  BY RoomForAll
<1>6. /\ DOMAIN st.items \subseteq Buckets /\ Window(st, KeyOf(c)) = value
      /\ \A k : k # KeyOf(c) => Window(st, k) = Window(store[req[c].api], k)
  <2> DEFINE old == store[req[c].api]
             values == Seq(Nat)
  <2>1. StoreOK(old, Keys, values) /\ DOMAIN old.items \subseteq Buckets
    BY <1>4
  <2> HIDE DEF old, values, value
  <2>2. /\ DOMAIN Put(old, KeyOf(c), value).items \subseteq Buckets
        /\ Window(Put(old, KeyOf(c), value), KeyOf(c)) = value
        /\ \A k : k # KeyOf(c) => Window(Put(old, KeyOf(c), value), k) = Window(old, k)
    BY <1>4, <1>5, <2>1, PutWindow
  <2> QED
    BY <2>2 DEF old
<1> HIDE DEF st
<1>7. ASSUME NEW s \in StoreNames
      PROVE  store'[s] = IF s = req[c].api THEN st ELSE store[s]
  BY <1>3, <1>4 DEF StoreNames
<1>8. /\ \A s \in StoreNames : DOMAIN store'[s].items \subseteq Buckets
      /\ Window(store'[req[c].api], KeyOf(c)) = value
      /\ \A s \in StoreNames, k \in Keys :
            s # req[c].api \/ k # KeyOf(c) => Window(store'[s], k) = Window(store[s], k)
  <2>1. \A s \in StoreNames : DOMAIN store[s].items \subseteq Buckets
    BY DEF MemoryCounts
  <2>2. store'[req[c].api] = st
    BY <1>4, <1>7
  <2>3. \A s \in StoreNames : DOMAIN store'[s].items \subseteq Buckets
    BY <1>6, <1>7, <2>1
  <2>4. ASSUME NEW s \in StoreNames, NEW k \in Keys, s # req[c].api \/ k # KeyOf(c)
        PROVE  Window(store'[s], k) = Window(store[s], k)
    BY <1>6, <1>7, <2>4
  <2> QED
    BY <1>6, <2>2, <2>3, <2>4
<1> DEFINE passes == /\ SameRuns /\ OnlyCall(c) /\ req'[c].pc \notin Counting
                     /\ \/ Judged(c, "passed") /\ ~(Len(req[c].seen) >= TierOf(c).requests)
                        \/ Judged(c, "denied") /\ Len(req[c].seen) >= TierOf(c).requests
<1>9. ASSUME Deny(c), Len(req[c].seen) >= TierOf(c).requests PROVE passes
  <2>1. SameRuns /\ Judged(c, "denied") /\ OnlyCall(c) /\ req'[c].pc \in {"feed", "denied"}
    BY <1>1, <1>9, DenyEffect
  <2>2. req'[c].pc \notin Counting
    BY <2>1 DEF Counting
  <2> QED
    BY <1>9, <2>1, <2>2
<1>10. ASSUME Pass(c), ~(Len(req[c].seen) >= TierOf(c).requests) PROVE passes
  <2>1. SameRuns /\ Judged(c, "passed") /\ OnlyCall(c) /\ req'[c].pc \in {"tier", "allowed"}
    BY <1>1, <1>10, PassEffect
  <2>2. req'[c].pc \notin Counting
    BY <2>1 DEF Counting
  <2> QED
    BY <1>10, <2>1, <2>2
<1> HIDE DEF passes
<1>11. passes
  <2>1. IF Len(req[c].seen) >= TierOf(c).requests THEN Deny(c) ELSE Pass(c)
    BY DEF WriteWindow
  <2> QED
    BY <1>9, <1>10, <2>1
<1> QED
  BY <1>1, <1>8, <1>11 DEF passes

LEMMA ReadKeepsMemory ==
    ASSUME LimitInv, LimitInv', LogInOrder, CountsExactly, ~dep.redis, MemoryCounts,
           NEW c \in Callers, c \in dep.callers, ReadWindow(c)
    PROVE  MemoryCounts'
<1>1. req[c].pc = "read" /\ req[c].pc \in Counting /\ req[c].pc # "idle"
  BY DEF ReadWindow, Doing, Counting
<1>2. PICK api \in StoreNames : api = req[c].api
  BY CallTypes DEF StoreNames
<1>3. PICK k \in Keys : k = KeyOf(c)
  BY <1>1, CountingRun
<1>4. PICK start \in Int : start = WindowStart(c)
  BY <1>1, CallTypes DEF Entered
<1>5. PICK h \in Seq(Nat) : h = Window(store[api], k)
  BY StoredWindow
<1>6. /\ SameRuns /\ OnlyCall(c) /\ UNCHANGED <<dep, connected, script, log>>
      /\ \A s \in StoreNames : /\ DOMAIN store'[s].items \subseteq Buckets
                               /\ \A l : Window(store'[s], l) = Window(store[s], l)
      /\ req'[c].pc = "write" /\ req'[c].api = api /\ req'[c].ip = req[c].ip
      /\ req'[c].path = req[c].path /\ req'[c].tier = req[c].tier
      /\ req'[c].entry = req[c].entry /\ req'[c].seen = Trimmed(h, start)
  BY <1>2, <1>3, <1>4, <1>5, ReadEffect
<1>7. NoneReturns /\ NonePasses
  BY <1>6, OnlyCallReturns DEF NonePasses
<1>8. Latest \in Nat /\ Latest' \in Nat /\ Latest <= Latest' /\ RunsStay
  BY <1>6, LatestSame DEF SameRuns
<1>9. WindowsFit'
  <2>1. \A s \in StoreNames, l \in Keys : Window(store'[s], l) = Window(store[s], l)
    BY <1>6
  <2>2. WindowsFit
    BY DEF MemoryCounts
  <2> QED
    BY <1>7, <1>8, <2>1, <2>2, WindowsKept
<1>10. SeenFits(c)'
  <2>1. Fits(h, api, k)
    BY <1>3, <1>5 DEF MemoryCounts, WindowsFit
  <2> DEFINE seen == Trimmed(h, start)
  <2>2. /\ Fits(seen, api, k) /\ seen \in Seq(Nat) /\ \A p \in DOMAIN seen : seen[p] > start
    BY <1>1, <1>2, <1>3, <1>4, <2>1, TrimFits
  <2> HIDE DEF seen
  <2>3. \A j \in DOMAIN log' : log'[j].verdict = "passed" /\ Api(log'[j]) = api /\ log'[j].key = k
           => j \in DOMAIN log /\ log[j].verdict = "passed"
    BY <1>7 DEF NonePasses
  <2>4. Fits(seen, api, k)'
    BY <1>7, <1>8, <2>2, <2>3, FitsKept
  <2>5. KeyOf(c)' = k /\ WindowStart(c)' = start
    <3>1. TierOf(c)' = TierOf(c)
      BY <1>2, <1>6 DEF TierOf, TiersOf
    <3>2. KeyOf(c)' = KeyOf(c)
      BY <1>6, <3>1 DEF KeyOf
    <3>3. Now(c)' = Now(c)
      BY <1>6 DEF Now
    <3> QED
      BY <1>3, <1>4, <3>1, <3>2, <3>3 DEF WindowStart
  <2>6. req'[c].seen = seen
    BY <1>6 DEF seen
  <2>7. Fits(req[c].seen, req[c].api, KeyOf(c))'
    BY <1>6, <2>4, <2>5, <2>6 DEF Fits
  <2> QED
    BY <2>2, <2>5, <2>6, <2>7 DEF SeenFits
<1>11. ASSUME NEW d \in Callers PROVE Alone(d)' /\ SeenFits(d)'
  <2>0. Alone(d) /\ SeenFits(d)
    BY DEF MemoryCounts
  <2>1. CASE d = c
    BY <1>1, <1>6, <1>10, <2>0, <2>1 DEF Alone
  <2>2. CASE d # c
    <3>1. req'[d] = req[d]
      BY <1>6, <2>2 DEF OnlyCall
    <3>2. Alone(d)'
      BY <1>6, <2>0, <3>1 DEF Alone
    <3>3. SeenFits(d)'
      BY <1>6, <1>7, <1>8, <2>0, <3>1, SeenKept
    <3> QED
      BY <3>2, <3>3
  <2> QED
    BY <2>1, <2>2
<1>12. ~connected' /\ ~script'.known /\ \A s \in StoreNames : DOMAIN store'[s].items \subseteq Buckets'
  BY <1>6 DEF MemoryCounts, Buckets
<1> HIDE DEF LimitInv
<1> QED
  BY <1>9, <1>11, <1>12 DEF MemoryCounts

LEMMA WriteKeepsMemory ==
    ASSUME LimitInv, LimitInv', LogInOrder, CountsExactly, ~dep.redis, MemoryCounts,
           NEW c \in Callers, c \in dep.callers, WriteWindow(c)
    PROVE  MemoryCounts'
<1>1. /\ req[c].pc = "write" /\ UNCHANGED <<dep, connected, script>>
      /\ SameRuns /\ OnlyCall(c) /\ req'[c].pc \notin Counting
      /\ \A j \in DOMAIN log : j # req[c].entry => log'[j].verdict = log[j].verdict
      /\ \A s \in StoreNames : DOMAIN store'[s].items \subseteq Buckets
      /\ Window(store'[req[c].api], KeyOf(c)) = Append(req[c].seen, Now(c))
      /\ \A s \in StoreNames, k \in Keys :
            s # req[c].api \/ k # KeyOf(c) => Window(store'[s], k) = Window(store[s], k)
  BY WriteEffect DEF Judged
<1>2. req[c].pc \in Counting /\ req[c].pc # "idle" /\ req[c] \in Call
  BY <1>1, CallTypes DEF Counting
<1>3. \A d \in Callers : d # c => req[d].pc = "idle"
  BY <1>2, OthersIdle
<1>4. NoneReturns
  BY <1>1, OnlyCallReturns
<1>5. Latest \in Nat /\ Latest' \in Nat /\ Latest <= Latest' /\ RunsStay
  BY <1>1, LatestSame DEF SameRuns
<1>6. /\ Alone(c) /\ SeenFits(c) /\ req[c].entry = Len(log)
      /\ log[req[c].entry].key = KeyOf(c) /\ Api(log[req[c].entry]) = req[c].api
      /\ req[c].entry \in DOMAIN log
  BY <1>2, CountingRun, EntryApi DEF MemoryCounts, Alone
<1>7. ASSUME NEW s \in StoreNames, NEW k \in Keys PROVE Fits(Window(store[s], k), s, k)'
  <2>1. CASE s = req[c].api /\ k = KeyOf(c)
    <3>1. PICK h \in Seq(Nat) : h = req[c].seen
      BY <1>2 DEF Call
    <3>2. PICK t \in Nat : t = Now(c)
      BY <1>2, CountingRun
    <3>3. Fits(Append(h, t), s, k)'
      BY <1>1, <1>6, <2>1, <3>1, <3>2, WriteFits
    <3>4. Window(store'[s], k) = Append(h, t)
      BY <1>1, <2>1, <3>1, <3>2
    <3> HIDE DEF LimitInv
    <3> QED
      BY <3>3, <3>4 DEF Fits
  <2>2. CASE ~(s = req[c].api /\ k = KeyOf(c))
    <3>1. PICK h \in Seq(Nat) : h = Window(store[s], k)
      BY StoredWindow
    <3>2. Fits(h, s, k)
      BY <3>1 DEF MemoryCounts, WindowsFit
    <3>3. ASSUME NEW j \in DOMAIN log', log'[j].verdict = "passed", Api(log'[j]) = s,
                 log'[j].key = k
          PROVE  j \in DOMAIN log /\ log[j].verdict = "passed"
      <4>1. j \in DOMAIN log /\ Api(log[j]) = s /\ log[j].key = k
        BY <1>1, <3>3 DEF SameRuns, RunsStay, Api
      <4>2. j # req[c].entry
        BY <1>6, <2>2, <4>1
      <4> QED
        BY <1>1, <3>3, <4>1, <4>2
    <3>4. Fits(h, s, k)'
      BY <1>4, <1>5, <3>2, <3>3, FitsKept
    <3>5. Window(store'[s], k) = h
      BY <1>1, <2>2, <3>1
    <3> HIDE DEF LimitInv
    <3> QED
      BY <3>4, <3>5 DEF Fits
  <2> QED
    BY <2>1, <2>2
<1>8. ASSUME NEW d \in Callers PROVE Alone(d)' /\ SeenFits(d)'
  <2>1. CASE d = c
    BY <1>1, <2>1 DEF Alone, SeenFits, Counting
  <2>2. CASE d # c
    <3>1. req'[d] = req[d] /\ req[d].pc = "idle"
      BY <1>1, <1>3, <2>2 DEF OnlyCall
    <3> QED
      BY <3>1 DEF Alone, SeenFits, Counting
  <2> QED
    BY <2>1, <2>2
<1>9. ~connected' /\ ~script'.known /\ \A s \in StoreNames : DOMAIN store'[s].items \subseteq Buckets'
  BY <1>1 DEF MemoryCounts, Buckets
<1>10. WindowsFit'
  BY <1>7 DEF WindowsFit
<1> HIDE DEF LimitInv
<1> QED
  BY <1>8, <1>9, <1>10 DEF MemoryCounts

LEMMA ResetKeepsMemory ==
    ASSUME LimitInv, LimitInv', MemoryCounts, ResetStores
    PROVE  MemoryCounts'
<1>1. /\ UNCHANGED <<dep, connected, script, req>> /\ Forget
      /\ \A s \in StoreNames : store'[s] = EmptyStore
  BY InvTypes DEF ResetStores, shared, StoreNames
<1>2. SameRuns /\ \A j \in DOMAIN log : log'[j].verdict # "passed"
  BY <1>1, ForgetRuns
<1>3. /\ NoneReturns /\ NonePasses /\ DOMAIN log' = DOMAIN log /\ Len(log') = Len(log)
  BY <1>1, <1>2 DEF NoneReturns, Pending, NonePasses, SameRuns
<1>4. Latest \in Nat /\ Latest' \in Nat /\ Latest <= Latest' /\ RunsStay
  BY <1>2, LatestSame DEF SameRuns
<1>5. DOMAIN EmptyStore.items = {}
  BY EmptyStoreSound
<1>6. WindowsFit'
  <2> SUFFICES ASSUME NEW s \in StoreNames, NEW k \in Keys
               PROVE  Fits(Window(store[s], k), s, k)'
    BY DEF WindowsFit
  <2>1. Fits(<<>>, s, k)'
    BY <1>2, <1>3, EmptyFitsNext
  <2>2. Window(store'[s], k) = <<>>
    BY <1>1, <1>5 DEF Window
  <2> HIDE DEF LimitInv
  <2> QED
    BY <2>1, <2>2 DEF Fits
<1>7. ASSUME NEW d \in Callers PROVE Alone(d)' /\ SeenFits(d)'
  <2>1. Alone(d) /\ SeenFits(d) /\ req'[d] = req[d]
    BY <1>1 DEF MemoryCounts
  <2>2. SeenFits(d)'
    BY <1>1, <1>3, <1>4, <2>1, SeenKept
  <2> QED
    BY <1>1, <1>3, <2>1, <2>2 DEF Alone
<1>8. ~connected' /\ ~script'.known /\ \A s \in StoreNames : DOMAIN store'[s].items \subseteq Buckets'
  BY <1>1, <1>5 DEF MemoryCounts
<1> HIDE DEF LimitInv
<1> QED
  BY <1>6, <1>7, <1>8 DEF MemoryCounts

LEMMA MemoryStep ==
    ASSUME LimitInv, LimitInv', LogInOrder, CountsExactly, ~dep.redis, MemoryCounts, [Next]_vars
    PROVE  LogInOrder' /\ MemoryCounts'
<1>1. ~connected /\ ~script.known /\ \A d \in Callers : Alone(d) /\ SeenFits(d)
  BY DEF MemoryCounts
<1>2. clock \in Nat /\ clock + 1 \in Nat /\ clock <= clock + 1 /\ clock <= clock
  BY InvTypes
<1>3. SameRuns => /\ Latest \in Nat /\ Latest' \in Nat /\ Latest <= Latest' /\ RunsStay
                  /\ Len(log') = Len(log) /\ DOMAIN log' = DOMAIN log
  BY LatestSame DEF SameRuns
<1>4. ASSUME NEW c \in Callers, c \in dep.callers, Besides(c) PROVE LogInOrder' /\ MemoryCounts'
  <2>1. /\ SameRuns /\ OnlyCall(c) /\ req'[c].pc \in {"tier", "feedWrite", "denied"}
        /\ dep' = dep /\ clock' = clock /\ connected' = connected /\ script' = script
        /\ log' = log /\ \A s \in StoreNames : store'[s] = store[s]
    BY <1>4, BesidesEffect DEF shared, StoreNames
  <2>2. NoneReturns /\ NonePasses
    BY <2>1, OnlyCallReturns DEF NonePasses
  <2>3. ASSUME NEW d \in Callers
        PROVE  Alone(d)' /\ (req'[d] = req[d] \/ req'[d].pc # "write")
    <3>1. CASE d = c
      BY <1>4, <2>1, <3>1 DEF Alone, Counting
    <3>2. CASE d # c
      BY <1>1, <2>1, <3>2 DEF Alone, OnlyCall
    <3> QED
      BY <3>1, <3>2
  <2>4. LogInOrder'
    BY <1>2, <2>1, OrderKept
  <2> HIDE DEF LimitInv, LogInOrder, MemoryCounts
  <2> QED
    BY <1>1, <1>3, <2>1, <2>2, <2>3, <2>4, MemoryQuiet
<1>5. ASSUME NEW c \in Callers, c \in dep.callers, StartTier(c)
      PROVE  LogInOrder' /\ MemoryCounts'
  <2>1. LogInOrder' /\ Latest \in Nat /\ Latest' \in Nat /\ Latest <= Latest'
    BY <1>5, OrderStarted, LatestStarted
  <2>2. /\ DOMAIN log' = DOMAIN log \cup {Len(log) + 1} /\ Len(log') = Len(log) + 1
        /\ \A i \in DOMAIN log : log'[i] = log[i]
        /\ log'[Len(log) + 1] = [key |-> KeyOf(c), tier |-> TierOf(c), at |-> clock,
                                 verdict |-> "open"]
        /\ RunsStay /\ OnlyCall(c) /\ req'[c].pc = "read" /\ req'[c].entry = Len(log) + 1
    BY <1>1, <1>5, StartEffect
  <2>3. /\ NoneReturns /\ dep' = dep /\ connected' = connected /\ script' = script
        /\ store' = store /\ req[c].pc = "tier"
    BY <1>5, <2>2, OnlyCallReturns DEF StartTier, shared, Doing
  <2>4. NonePasses
    BY <2>2 DEF NonePasses
  <2>5. \A d \in Callers : d # c => req[d].pc = "idle"
    BY <1>5, <2>3, OthersIdle
  <2>6. ASSUME NEW d \in Callers
        PROVE  Alone(d)' /\ (req'[d] = req[d] \/ req'[d].pc # "write")
    <3>1. CASE d = c
      BY <1>5, <2>2, <2>3, <3>1 DEF Alone
    <3>2. CASE d # c
      BY <2>2, <2>5, <3>2 DEF Alone, OnlyCall, Counting
    <3> QED
      BY <3>1, <3>2
  <2>7. \A s \in StoreNames : store'[s] = store[s]
    BY <2>3
  <2> HIDE DEF LimitInv, LogInOrder, MemoryCounts
  <2> QED
    BY <1>1, <2>1, <2>2, <2>3, <2>4, <2>6, <2>7, MemoryQuiet
<1>6. ASSUME NEW c \in dep.callers, Serve(c) PROVE LogInOrder' /\ MemoryCounts'
  <2>1. c \in Callers
    BY InvTypes, DeploymentTypes
  <2>2. \/ Besides(c) \/ StartTier(c) \/ ReadWindow(c) \/ WriteWindow(c)
        \/ req[c].pc \in {"eval", "reload", "pipeline"}
    BY <1>6 DEF Serve, Besides, EvalSha, ReloadScript, RunPipeline, Doing
  <2>3. req[c].pc \notin {"eval", "reload", "pipeline"}
    BY <1>1, <2>1 DEF Alone
  <2>4. ReadWindow(c) => SameRuns /\ dep' = dep /\ clock' = clock
    BY <2>1, ReadEffect
  <2>5. WriteWindow(c) => SameRuns /\ dep' = dep /\ clock' = clock
    BY <2>1, WriteEffect
  <2> HIDE DEF LimitInv, LogInOrder, MemoryCounts
  <2>6. ReadWindow(c) => LogInOrder' /\ MemoryCounts'
    BY <1>2, <2>1, <2>4, OrderKept, ReadKeepsMemory
  <2>7. WriteWindow(c) => LogInOrder' /\ MemoryCounts'
    BY <1>2, <2>1, <2>5, OrderKept, WriteKeepsMemory
  <2> QED
    BY <1>4, <1>5, <2>1, <2>2, <2>3, <2>6, <2>7
<1>7. ASSUME UNCHANGED <<dep, store, req>>, clock' \in {clock, clock + 1},
             ~connected', ~script'.known, log' = log \/ Forget
      PROVE  LogInOrder' /\ MemoryCounts'
  <2>1. SameRuns /\ NonePasses
    <3>1. CASE log' = log
      BY <3>1, SameLog DEF NonePasses
    <3>2. CASE Forget
      BY <3>2, ForgetRuns DEF NonePasses, SameRuns
    <3> QED
      BY <1>7, <3>1, <3>2
  <2>2. NoneReturns
    BY <1>7 DEF NoneReturns, Pending
  <2>3. \A d \in Callers : Alone(d)' /\ req'[d] = req[d]
    BY <1>1, <1>3, <1>7, <2>1 DEF Alone
  <2>4. \A s \in StoreNames : store'[s] = store[s]
    BY <1>7
  <2> HIDE DEF LimitInv, LogInOrder, MemoryCounts
  <2> QED
    BY <1>2, <1>3, <1>7, <2>1, <2>2, <2>3, <2>4, OrderKept, MemoryQuiet
<1>8. ResetStores => LogInOrder' /\ MemoryCounts'
  <2>1. ResetStores => SameRuns /\ dep' = dep /\ clock' = clock
    BY ForgetRuns DEF ResetStores
  <2> HIDE DEF LimitInv, LogInOrder, MemoryCounts
  <2> QED
    BY <1>2, <2>1, OrderKept, ResetKeepsMemory
<1>9. ASSUME ResetRedis \/ Detach \/ Tick \/ FlushScripts \/ (\E ip \in IPs : Lift(ip))
             \/ UNCHANGED vars
      PROVE  LogInOrder' /\ MemoryCounts'
  <2>1. UNCHANGED <<dep, store, req>> /\ clock' \in {clock, clock + 1} /\ (log' = log \/ Forget)
    BY <1>9 DEF ResetRedis, Detach, Tick, FlushScripts, Lift, vars, shared
  <2>2. connected' \in {connected, FALSE}
    BY <1>9 DEF ResetRedis, Detach, Tick, FlushScripts, Lift, vars, shared
  <2>3. ~script'.known
    <3>1. script' = script \/ script' = [script EXCEPT !.cached = FALSE]
      BY <1>9 DEF ResetRedis, Detach, Tick, FlushScripts, Lift, vars, shared
    <3>2. script \in [known : BOOLEAN, cached : BOOLEAN]
      BY InvParts DEF RestTyped
    <3> QED
      BY <1>1, <3>1, <3>2
  <2> QED
    BY <1>1, <1>7, <2>1, <2>2, <2>3
<1>10. ~Attach
  BY DEF Attach
<1> HIDE DEF LimitInv, LogInOrder, MemoryCounts
<1> QED
  BY <1>6, <1>8, <1>9, <1>10 DEF Next

\* The runs that pass with the last one are in the window that it read.
LEMMA MemoryPasses ==
    ASSUME LimitInv, LimitInv', LogInOrder, CountsExactly, ~dep.redis, MemoryCounts,
           NEW c \in Callers, req[c].pc = "write", SameRuns, Judged(c, "passed"),
           ~(Len(req[c].seen) >= TierOf(c).requests), NEW i \in DOMAIN log, i = req[c].entry
    PROVE  Cardinality(PassedWith(i)') <= log[i].tier.requests
<1>1. req[c].pc \in Counting /\ req[c] \in Call /\ req[c].api \in {"tiers", "byIP"}
  BY CallTypes DEF Counting
<1>2. PICK api \in {"tiers", "byIP"} : api = req[c].api
  BY <1>1
<1>3. PICK k \in Keys : k = KeyOf(c)
  BY <1>1, CountingRun
<1>4. PICK s \in Int : s = WindowStart(c)
  BY <1>1, CallTypes DEF Entered
<1>5. PICK h \in Seq(Nat) : h = req[c].seen
  BY <1>1 DEF Call
<1>6. /\ log[i].key = k /\ log[i].tier = TierOf(c) /\ log[i].at - log[i].tier.window = s
      /\ log[i].at \in Nat /\ TierOf(c).requests \in Nat /\ TierOf(c).window \in Nat
  BY <1>1, <1>3, <1>4, CountingRun
<1>7. Api(log[i]) = api /\ i = Len(log)
  BY <1>1, <1>2, EntryApi DEF MemoryCounts, Alone
<1>8. Fits(h, api, k)
  BY <1>2, <1>3, <1>5 DEF MemoryCounts, SeenFits
<1>9. /\ DOMAIN log' = DOMAIN log /\ DOMAIN log = 1..Len(log) /\ Len(log) \in Nat
      /\ \A j \in DOMAIN log : /\ log'[j].key = log[j].key /\ log'[j].tier = log[j].tier
                               /\ log'[j].at = log[j].at
                               /\ log[j].at \in Nat /\ log[j].tier.window \in Nat
  BY InvTypes DEF SameRuns, RunsStay, TierRun
<1>10. Begun(api, k, s)
  <2> SUFFICES ASSUME NEW j \in DOMAIN log, Api(log[j]) = api, log[j].key = k
               PROVE  log[j].at - log[j].tier.window <= s
    BY DEF Begun
  <2>1. log[j].tier.window = log[i].tier.window
    BY <1>6, <1>7, SameWindow
  <2>2. log[j].at <= log[i].at
    <3>1. j < i => log[j].at <= log[i].at
      BY DEF LogInOrder, RunsOrdered
    <3> QED
      BY <1>7, <1>9, <3>1
  <2> QED
    BY <1>6, <1>9, <2>1, <2>2
<1> DEFINE P == PassedAfter(api, k, s)
           Q == PassedWith(i)'
<1>11. Q \subseteq P \cup {i}
  <2> SUFFICES ASSUME NEW j \in Q, j # i PROVE j \in P
    OBVIOUS
  <2>1. /\ j \in DOMAIN log /\ log'[j].verdict = "passed" /\ log[j].key = k
        /\ log[j].tier = log[i].tier /\ log[j].at > log[i].at - log[i].tier.window
    BY <1>6, <1>9 DEF PassedWith
  <2>2. log[j].verdict = "passed"
    BY <2>1 DEF Judged
  <2>3. Api(log[j]) = api
    BY <1>7, <2>1 DEF Api
  <2> QED
    BY <1>6, <2>1, <2>2, <2>3 DEF PassedAfter
<1>12. IsFiniteSet(P) /\ Cardinality(P) \in Nat
  BY RunSetsFinite
<1>13. Cardinality(P) <= Cardinality(Above(h, s)) /\ Cardinality(Above(h, s)) <= Len(h)
       /\ Cardinality(Above(h, s)) \in Nat /\ Len(h) \in Nat
  BY <1>8, <1>10, AboveCounted DEF Fits
<1> HIDE DEF P, Q
<1>14. IsFiniteSet(P \cup {i}) /\ Cardinality(P \cup {i}) \in {Cardinality(P), Cardinality(P) + 1}
  BY <1>12, FS_AddElement
<1>15. Cardinality(Q) <= Cardinality(P \cup {i}) /\ Cardinality(Q) \in Nat
  BY <1>11, <1>14, FS_Subset, FS_CardinalityType
<1>16. Cardinality(Q) <= TierOf(c).requests
  BY <1>5, <1>6, <1>12, <1>13, <1>14, <1>15
<1> QED
  BY <1>6, <1>16 DEF Q

\* A window as long as the limit holds hits that were made, the denied one not among them.
LEMMA MemoryDenies ==
    ASSUME LimitInv, CountsExactly, ~dep.redis, MemoryCounts,
           NEW c \in Callers, req[c].pc = "write", Len(req[c].seen) >= TierOf(c).requests
    PROVE  Cardinality(Made(KeyOf(c), WindowStart(c))) > TierOf(c).requests
<1>1. req[c].pc \in Counting /\ req[c] \in Call /\ req[c].api \in {"tiers", "byIP"}
  BY CallTypes DEF Counting
<1>2. PICK s \in Int : s = WindowStart(c)
  BY <1>1, CallTypes DEF Entered
<1>3. PICK h \in Seq(Nat) : h = req[c].seen
  BY <1>1 DEF Call
<1>4. PICK i \in DOMAIN log : i = req[c].entry
  BY <1>1, CountingRun
<1>5. /\ log[i].key = KeyOf(c) /\ log[i].at = Now(c) /\ Now(c) \in Nat
      /\ TierOf(c).requests \in Nat /\ TierOf(c).window \in Nat \ {0}
      /\ s = Now(c) - TierOf(c).window /\ Pending(i)
  BY <1>1, <1>2, <1>4, CountingRun
<1> DEFINE C == CountedAfter(req[c].api, KeyOf(c), s)
           M == Made(KeyOf(c), s)
<1>6. Cardinality(Above(h, s)) <= Cardinality(C)
  BY <1>3 DEF MemoryCounts, SeenFits, Fits
<1>7. Above(h, s) = 1..Len(h) /\ Len(h) \in Nat
  <2>1. \A p \in DOMAIN h : h[p] > s
    BY <1>2, <1>3 DEF MemoryCounts, SeenFits
  <2>2. DOMAIN h = 1..Len(h) /\ Len(h) \in Nat
    BY <1>3
  <2>3. Above(h, s) \subseteq DOMAIN h
    BY DEF Above
  <2>4. ASSUME NEW p \in DOMAIN h PROVE p \in Above(h, s)
    BY <2>1 DEF Above
  <2> QED
    BY <2>2, <2>3, <2>4
<1>8. Cardinality(Above(h, s)) = Len(h)
  <2>1. PICK n \in Nat : n = Len(h)
    BY <1>7
  <2>2. Cardinality(1..n) = n
    BY FS_Interval
  <2> QED
    BY <1>7, <2>1, <2>2
<1>9. IsFiniteSet(C) /\ Cardinality(C) \in Nat
  BY RunSetsFinite
<1>10. M \subseteq DOMAIN log /\ C \subseteq M /\ i \notin C /\ i \in M
  BY <1>5 DEF CountedAfter, Made
<1>11. IsFiniteSet(M) /\ Cardinality(M) \in Nat
  BY <1>10, SeqIndexes, InvTypes
<1> HIDE DEF C, M
<1>12. IsFiniteSet(C \cup {i}) /\ Cardinality(C \cup {i}) = Cardinality(C) + 1
  BY <1>9, <1>10, FS_AddElement
<1>13. Cardinality(C \cup {i}) <= Cardinality(M)
  BY <1>10, <1>11, FS_Subset
<1>14. Cardinality(M) > TierOf(c).requests
  BY <1>3, <1>5, <1>6, <1>7, <1>8, <1>9, <1>11, <1>12, <1>13
<1> QED
  BY <1>2, <1>14 DEF M

\* What passes or is denied in memory is as the properties say.
LEMMA MemoryVerdicts ==
    ASSUME LimitInv, LimitInv', LogInOrder, CountsExactly, ~dep.redis, MemoryCounts, [Next]_vars,
           NEW i \in DOMAIN log
    PROVE  EnforcedAt(i) /\ EarnedAt(i)
<1>1. ~connected /\ \A d \in Callers : Alone(d)
  BY DEF MemoryCounts
<1>2. ASSUME NEW c \in Callers, WriteWindow(c) PROVE EnforcedAt(i) /\ EarnedAt(i)
  <2>1. /\ req[c].pc = "write" /\ req[c].pc \in Counting /\ SameRuns
        /\ \/ Judged(c, "passed") /\ ~(Len(req[c].seen) >= TierOf(c).requests)
           \/ Judged(c, "denied") /\ Len(req[c].seen) >= TierOf(c).requests
    BY <1>2, WriteEffect DEF Counting
  <2>2. CASE i # req[c].entry
    BY <2>1, <2>2 DEF EnforcedAt, EarnedAt, Judged
  <2>3. ASSUME i = req[c].entry, Judged(c, "passed"),
               ~(Len(req[c].seen) >= TierOf(c).requests)
        PROVE  EnforcedAt(i) /\ EarnedAt(i)
    <3>1. Cardinality(PassedWith(i)') <= log[i].tier.requests
      BY <2>1, <2>3, MemoryPasses
    <3>2. log'[i].verdict = "passed"
      BY <2>3 DEF Judged
    <3> QED
      BY <3>1, <3>2 DEF EnforcedAt, EarnedAt
  <2>4. ASSUME i = req[c].entry, Judged(c, "denied"), Len(req[c].seen) >= TierOf(c).requests
        PROVE  EnforcedAt(i) /\ EarnedAt(i)
    <3>1. /\ log[i].key = KeyOf(c) /\ log[i].tier = TierOf(c)
          /\ log[i].at - log[i].tier.window = WindowStart(c)
      BY <2>1, <2>4, CountingRun
    <3>2. Cardinality(Made(KeyOf(c), WindowStart(c))) > TierOf(c).requests
      BY <2>1, <2>4, MemoryDenies
    <3>3. log'[i].verdict = "denied"
      BY <2>4 DEF Judged
    <3> QED
      BY <3>1, <3>2, <3>3 DEF EnforcedAt, EarnedAt
  <2> QED
    BY <2>1, <2>2, <2>3, <2>4
<1>3. ASSUME NEW c \in dep.callers, Serve(c) PROVE EnforcedAt(i) /\ EarnedAt(i)
  <2>1. c \in Callers
    BY InvTypes, DeploymentTypes
  <2>2. \/ Besides(c) \/ StartTier(c) \/ ReadWindow(c) \/ WriteWindow(c)
        \/ req[c].pc \in {"eval", "reload", "pipeline"}
    BY <1>3 DEF Serve, Besides, EvalSha, ReloadScript, RunPipeline, Doing
  <2>3. req[c].pc \notin {"eval", "reload", "pipeline"}
    BY <1>1, <2>1 DEF Alone
  <2>4. Besides(c) \/ ReadWindow(c) => log' = log
    BY <2>1, BesidesEffect DEF ReadWindow
  <2> HIDE DEF LimitInv, LogInOrder, MemoryCounts
  <2> QED
    BY <1>2, <2>1, <2>2, <2>3, <2>4, NoVerdict, NoVerdictStarted
<1>4. ASSUME ResetStores \/ ResetRedis \/ Detach PROVE Forget
  BY <1>4 DEF ResetStores, ResetRedis, Detach
<1>5. ASSUME Attach \/ Tick \/ FlushScripts \/ (\E ip \in IPs : Lift(ip)) \/ UNCHANGED vars
      PROVE  log' = log
  BY <1>5 DEF Attach, Tick, FlushScripts, Lift, vars
<1> HIDE DEF LimitInv, LogInOrder, MemoryCounts
<1> QED
  BY <1>3, <1>4, <1>5, NoVerdict DEF Next

----------------------------------------------------------------------------
(* Both together, and the two action properties.                           *)

Exact == CountsExactly => LogInOrder /\ IF dep.redis THEN RedisCounts ELSE MemoryCounts

LEMMA ExactFirst == Init => Exact
<1> SUFFICES ASSUME Init, CountsExactly
             PROVE  LogInOrder /\ IF dep.redis THEN RedisCounts ELSE MemoryCounts
  BY DEF Exact
<1>1. LimitInv
  BY LimitFirst
<1>2. DOMAIN log = {} /\ \A c \in Callers : req[c].pc = "idle"
  BY DEF Init, NoCall
<1>3. LogInOrder
  BY <1>2 DEF LogInOrder
<1>4. ASSUME dep.redis PROVE RedisCounts
  <2>1. /\ connected /\ resetting = [pc |-> "idle", times |-> 0]
        /\ \A k \in Keys : redis[k].hits = {}
    BY <1>4 DEF Init
  <2> QED
    BY <1>2, <2>1 DEF RedisCounts, HitsAreRuns, PassedInSets
<1>5. ASSUME ~dep.redis PROVE MemoryCounts
  <2>1. /\ ~connected /\ ~script.known
        /\ \A s \in StoreNames : store[s] = EmptyStore
    BY <1>5 DEF Init, StoreNames
  <2>2. DOMAIN EmptyStore.items = {}
    BY DEF EmptyStore
  <2>3. \A c \in Callers : Alone(c) /\ SeenFits(c)
    BY <1>2 DEF Alone, SeenFits, Counting
  <2>4. WindowsFit
    <3>1. \A s \in StoreNames, k \in Keys : Window(store[s], k) = <<>>
      BY <2>1, <2>2 DEF Window
    <3>2. \A api, k : Fits(<<>>, api, k)
      BY <1>1, <1>2, EmptyFits
    <3> QED
      BY <3>1, <3>2 DEF WindowsFit
  <2> QED
    BY <2>1, <2>2, <2>3, <2>4 DEF MemoryCounts
<1> QED
  BY <1>3, <1>4, <1>5

LEMMA DeploymentStays == [Next]_vars => UNCHANGED dep
<1> SUFFICES ASSUME [Next]_vars PROVE dep' = dep
  OBVIOUS
<1>1. ASSUME NEW c \in dep.callers, Serve(c) PROVE dep' = dep
  BY <1>1 DEF Serve, Begin, StartTier, EvalSha, ReloadScript, RunPipeline, ReadWindow,
              WriteWindow, ReadCount, WriteCount
<1>2. ASSUME \/ ResetStores \/ ResetRedis \/ Detach \/ Attach \/ Tick \/ FlushScripts
             \/ (\E ip \in IPs : Lift(ip)) \/ UNCHANGED vars
      PROVE  dep' = dep
  BY <1>2 DEF ResetStores, ResetRedis, Detach, Attach, Tick, FlushScripts, Lift, vars
<1> QED
  BY <1>1, <1>2 DEF Next

LEMMA ExactStep == LimitInv /\ LimitInv' /\ Exact /\ [Next]_vars => Exact'
<1> SUFFICES ASSUME LimitInv, LimitInv', Exact, [Next]_vars, CountsExactly'
             PROVE  LogInOrder' /\ IF dep'.redis THEN RedisCounts' ELSE MemoryCounts'
  BY DEF Exact
<1>1. dep' = dep
  BY DeploymentStays
<1>2. CountsExactly
  BY <1>1 DEF CountsExactly, WindowsAt
<1>3. LogInOrder /\ IF dep.redis THEN RedisCounts ELSE MemoryCounts
  BY <1>2 DEF Exact
<1> HIDE DEF LimitInv, Exact
<1> QED
  BY <1>1, <1>2, <1>3, RedisStep, MemoryStep

LEMMA ExactAlways == Spec => []Exact
BY LimitAlways, LimitStep, ExactFirst, ExactStep, PTL DEF Spec

LEMMA VerdictsRight ==
    ASSUME LimitInv, LimitInv', Exact, [Next]_vars, CountsExactly, NEW i \in DOMAIN log
    PROVE  EnforcedAt(i) /\ EarnedAt(i)
<1>1. LogInOrder /\ IF dep.redis THEN RedisCounts ELSE MemoryCounts
  BY DEF Exact
<1> HIDE DEF LimitInv, Exact
<1> QED
  BY <1>1, RedisVerdicts, MemoryVerdicts

\* LimitEnforced: where every hit is counted, whatever tiers, script reloads, lost
\* replies and resets interleave, runTier lets a request through that is counted in
\* time only if with it no more have passed in its window than the limit.
THEOREM NoLimitIsPassed == Spec => LimitEnforced
<1> DEFINE A == \A i \in DOMAIN log :
                   CountsExactly /\ Timely(i) /\ log'[i].verdict = "passed"
                     /\ log[i].verdict # "passed" =>
                       Cardinality(PassedWith(i))' <= log[i].tier.requests
<1>1. LimitInv /\ LimitInv' /\ Exact /\ [Next]_vars => A
  BY VerdictsRight DEF EnforcedAt
<1>2. LimitInv /\ LimitInv' /\ Exact /\ [Next]_vars => [A]_vars
  BY <1>1
<1> QED
  BY <1>2, LimitAlways, LimitStep, ExactAlways, PTL DEF Spec, LimitEnforced

\* DenialsAreEarned: there too runTier denies a request only if more hits than the
\* limit, its own among them, were made on its bucket since the window began.
THEOREM NoDenialIsUnearned == Spec => DenialsAreEarned
<1> DEFINE A == \A i \in DOMAIN log :
                   CountsExactly /\ log'[i].verdict = "denied" /\ log[i].verdict # "denied" =>
                     Cardinality({j \in DOMAIN log :
                                     /\ log[j].key = log[i].key
                                     /\ log[j].at > log[i].at - log[i].tier.window})
                         > log[i].tier.requests
<1>1. LimitInv /\ LimitInv' /\ Exact /\ [Next]_vars => A
  BY VerdictsRight DEF EarnedAt, Made
<1>2. LimitInv /\ LimitInv' /\ Exact /\ [Next]_vars => [A]_vars
  BY <1>1
<1> QED
  BY <1>2, LimitAlways, LimitStep, ExactAlways, PTL DEF Spec, DenialsAreEarned
=============================================================================
