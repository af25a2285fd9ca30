----------------------------- MODULE IPBanProofs -----------------------------
(***************************************************************************)
(* Proofs about IPBan, for every number of workers, goroutines, addresses  *)
(* and networks, every cap and every cache size.                           *)
(***************************************************************************)
EXTENDS IPBan, FiniteSetTheorems, SequenceTheorems, TLAPS

----------------------------------------------------------------------------
(* The inductive invariant.  The local map and its eviction order agree,   *)
(* and every expiry the system holds, wherever a call has put it, is       *)
(* covered by a ban some caller asked for.                                 *)

\* The sequence s lists the keys of the map e, each once.
Lists(s, e) ==
    /\ \A i \in 1..Len(s) : e[s[i]] # NoEntry
    /\ \A ip \in IPs : e[ip] # NoEntry => \E i \in 1..Len(s) : s[i] = ip
    /\ \A i, j \in 1..Len(s) : s[i] = s[j] => i = j

OrderInv == \A w \in Workers : /\ Lists(lruOrder[w], bannedIPs[w])
                               /\ Len(lruOrder[w]) <= MaxSize

LocalTypeOK == /\ bannedIPs \in [Workers -> [IPs -> LocalEntry \cup {NoEntry}]]
               /\ lruOrder \in [Workers -> Seq(IPs)]

\* g, a value of granted, covers a ban of ip that lasts until end.
Covered(ip, end, g) == end <= g[ip] /\ ip \notin Protected

LocalInv ==
    /\ LocalTypeOK
    /\ OrderInv
    /\ \A w \in Workers : \A ip \in IPs : bannedIPs[w][ip] # NoEntry =>
           Covered(ip, bannedIPs[w][ip].expiry, granted)

NetsInv ==
    /\ bannedNets \in [Workers -> SUBSET NetEntry]
    /\ \A w \in Workers : \A b \in bannedNets[w] :
           b.expiry <= granted[b.net] /\ Members[b.net] \cap Protected = {}

RedisInv ==
    /\ redis \in [IPs -> StoredEntry \cup {NoEntry}]
    /\ \A ip \in IPs :
           redis[ip] # NoEntry => Covered(ip, redis[ip].expiry, granted)

HistoryInv == clock \in Nat /\ granted \in [IPs \cup Nets -> Int]

\* What a call carries from one of its steps to the next.
CallOK(r, g) ==
    /\ r \in Call
    /\ r.pc \notin {"done", "clear"} => r.ip \in IPs
    /\ r.pc \in {"fill", "store"} => Covered(r.ip, r.end, g)
    /\ r.pc = "fill" => r.now <= r.end
    /\ r.pc = "store" => Covered(r.ip, r.now + r.ttl, g)
    /\ r.banned => /\ r.pc = "done" /\ r.ip \in IPs /\ r.ip \notin Protected
                   /\ \/ r.now <= g[r.ip]
                      \/ \E n \in Nets : r.ip \in Members[n] /\ r.now <= g[n]

CallsInv == /\ DOMAIN call = Callers
            /\ call \in [Callers -> Call]
            /\ \A c \in Callers : CallOK(call[c], granted)

IInv == HistoryInv /\ LocalInv /\ NetsInv /\ RedisInv /\ CallsInv

----------------------------------------------------------------------------
(* The helpers on sequences.                                               *)

\* Removing x from a sequence that lists its elements once leaves the
\* others, each once.
LEMMA WithoutFacts ==
    ASSUME NEW S, NEW s \in Seq(S), NEW x,
           \A i, j \in 1..Len(s) : s[i] = s[j] => i = j,
           \E i \in 1..Len(s) : s[i] = x
    PROVE  LET t == Without(s, x) IN
           /\ t \in Seq(S)
           /\ Len(t) = Len(s) - 1
           /\ \A i \in 1..Len(t) : t[i] # x /\ \E j \in 1..Len(s) : t[i] = s[j]
           /\ \A j \in 1..Len(s) : s[j] # x => \E i \in 1..Len(t) : t[i] = s[j]
           /\ \A i, j \in 1..Len(t) : t[i] = t[j] => i = j
<1> DEFINE at == CHOOSE i \in DOMAIN s : s[i] = x
           t == [j \in 1..(Len(s) - 1) |-> IF j < at THEN s[j] ELSE s[j + 1]]
<1>1. /\ Len(s) \in Nat
      /\ DOMAIN s = 1..Len(s)
      /\ \A i \in 1..Len(s) : s[i] \in S
  OBVIOUS
<1>2. at \in 1..Len(s) /\ s[at] = x
  BY <1>1
<1>3. Without(s, x) = t
  BY <1>1 DEF Without
<1> HIDE DEF at
<1>4. \A j \in 1..(Len(s) - 1) : t[j] = IF j < at THEN s[j] ELSE s[j + 1]
  OBVIOUS
<1>5. t \in [1..(Len(s) - 1) -> S]
  BY <1>1, <1>2
<1>6. t \in Seq(S) /\ Len(t) = Len(s) - 1
  <2>1. Len(s) - 1 \in Nat
    BY <1>1, <1>2
  <2>2. t \in Seq(S)
    BY <2>1, <1>5, SeqDef
  <2>3. DOMAIN t = 1..(Len(s) - 1) /\ DOMAIN t = 1..Len(t) /\ Len(t) \in Nat
    BY <2>2, LenProperties
  <2> QED BY <2>1, <2>2, <2>3
<1> HIDE DEF t
<1>7. \A i \in 1..Len(t) : t[i] # x /\ \E j \in 1..Len(s) : t[i] = s[j]
  BY <1>1, <1>2, <1>4, <1>6
<1>8. ASSUME NEW j \in 1..Len(s), s[j] # x
      PROVE  \E i \in 1..Len(t) : t[i] = s[j]
  <2>1. CASE j < at
    BY <2>1, <1>1, <1>2, <1>4, <1>6
  <2>2. CASE j > at
    <3>1. j - 1 \in 1..Len(t) /\ t[j - 1] = s[j]
      BY <2>2, <1>1, <1>2, <1>4, <1>6
    <3> QED BY <3>1
  <2> QED BY <2>1, <2>2, <1>2, <1>8, <1>1
<1>9. \A i, j \in 1..Len(t) : t[i] = t[j] => i = j
  BY <1>1, <1>2, <1>4, <1>6
<1> QED BY <1>3, <1>6, <1>7, <1>8, <1>9

\* A sequence that lists the keys of a map is as long as the map is big.
LEMMA ListsCount ==
    ASSUME NEW s \in Seq(IPs), NEW e, Lists(s, e)
    PROVE  LET keys == {ip \in IPs : e[ip] # NoEntry} IN
           /\ keys = {s[i] : i \in DOMAIN s}
           /\ IsFiniteSet(keys)
           /\ Cardinality(keys) = Len(s)
<1> DEFINE keys == {ip \in IPs : e[ip] # NoEntry}
<1>1. Len(s) \in Nat /\ DOMAIN s = 1..Len(s) /\ s \in [1..Len(s) -> IPs]
  BY LenProperties
<1>2. keys = {s[i] : i \in DOMAIN s}
  BY <1>1 DEF Lists
<1>3. s \in Bijection(1..Len(s), keys)
  BY <1>1, <1>2 DEF Lists, Bijection, Injection, Surjection, IsInjective
<1>4. ExistsBijection(1..Len(s), keys)
  BY <1>3 DEF ExistsBijection
<1>5. IsFiniteSet(1..Len(s)) /\ Cardinality(1..Len(s)) = Len(s)
  <2> DEFINE n == Len(s)
  <2>1. n \in Nat
    BY <1>1
  <2> HIDE DEF n
  <2>2. /\ IsFiniteSet(1..n)
        /\ Cardinality(1..n) = IF 1 > n THEN 0 ELSE n - 1 + 1
    BY <2>1, FS_Interval
  <2>3. IsFiniteSet(1..n) /\ Cardinality(1..n) = n
    BY <2>1, <2>2
  <2> QED BY <2>3 DEF n
<1> QED BY <1>2, <1>4, <1>5, FS_Bijection
----------------------------------------------------------------------------
(* The helpers on the local map.                                           *)

\* localSet keeps the map and the order in agreement and within the bound,
\* and introduces no expiry but the one it is given.
LEMMA LocalSetFacts ==
    ASSUME LocalTypeOK, clock \in Nat, OrderInv,
           NEW w \in Workers, NEW ip \in IPs, NEW expiry \in Nat,
           LocalSet(w, ip, expiry)
    PROVE  /\ LocalTypeOK'
           /\ OrderInv'
           /\ \A v \in Workers : \A a \in IPs :
                 \/ bannedIPs'[v][a] = NoEntry
                 \/ bannedIPs'[v][a] = bannedIPs[v][a]
                 \/ a = ip /\ bannedIPs'[v][a].expiry = expiry
<1> DEFINE s     == lruOrder[w]
           e     == bannedIPs[w]
           new   == e[ip] = NoEntry
           evict == new /\ Cardinality(Cached(w)) >= MaxSize
           kept  == IF evict THEN [e EXCEPT ![Head(s)] = NoEntry] ELSE e
           order == IF evict THEN Tail(s) ELSE s
           entry == [expiry |-> expiry, inserted |-> clock]
           e2    == [kept EXCEPT ![ip] = entry]
           s2    == IF new THEN Append(order, ip) ELSE order
<1>1. /\ s \in Seq(IPs) /\ Len(s) \in Nat
      /\ e \in [IPs -> LocalEntry \cup {NoEntry}]
      /\ Lists(s, e) /\ Len(s) <= MaxSize
  BY DEF LocalTypeOK, OrderInv
<1>2. /\ bannedIPs' = [bannedIPs EXCEPT ![w] = e2]
      /\ lruOrder' = [lruOrder EXCEPT ![w] = s2]
  BY DEF LocalSet
<1>3. entry \in LocalEntry /\ entry # NoEntry
  BY NoEntryAssumption DEF LocalEntry
<1>4. Cardinality(Cached(w)) = Len(s)
  BY <1>1, ListsCount DEF Cached
<1>5. /\ order \in Seq(IPs) /\ kept \in [IPs -> LocalEntry \cup {NoEntry}]
      /\ Lists(order, kept)
      /\ Len(order) <= MaxSize
      /\ new => Len(order) < MaxSize /\ kept[ip] = NoEntry
      /\ ~new => kept[ip] # NoEntry
      /\ \A a \in IPs : kept[a] \in {NoEntry, e[a]}
  <2>1. CASE evict
    <3>1. Len(s) >= 1 /\ s # <<>>
      BY <2>1, <1>4, <1>1, NumberAssumption, EmptySeq
    <3>2. /\ Head(s) = s[1] /\ s[1] \in IPs
          /\ order \in Seq(IPs) /\ Len(order) = Len(s) - 1
          /\ \A i \in 1..Len(order) : order[i] = s[i + 1]
      BY <3>1, <2>1, <1>1, HeadTailProperties
    <3>3. kept = [e EXCEPT ![s[1]] = NoEntry]
      BY <2>1, <3>2
    <3>4. Lists(order, kept)
      <4>1. \A i \in 1..Len(order) : kept[order[i]] # NoEntry
        BY <3>1, <3>2, <3>3, <1>1 DEF Lists
      <4>2. ASSUME NEW a \in IPs, kept[a] # NoEntry
            PROVE  \E i \in 1..Len(order) : order[i] = a
        <5>1. a # s[1] /\ e[a] # NoEntry
          BY <4>2, <3>3, <3>2, <1>1
        <5>2. PICK j \in 1..Len(s) : s[j] = a
          BY <5>1, <1>1 DEF Lists
        <5>3. j - 1 \in 1..Len(order) /\ order[j - 1] = a
          BY <5>1, <5>2, <3>2, <1>1
        <5> QED BY <5>3
      <4>3. \A i, j \in 1..Len(order) : order[i] = order[j] => i = j
        BY <3>1, <3>2, <1>1 DEF Lists
      <4> QED BY <4>1, <4>2, <4>3 DEF Lists
    <3>5. /\ kept \in [IPs -> LocalEntry \cup {NoEntry}]
          /\ \A a \in IPs : kept[a] = IF a = s[1] THEN NoEntry ELSE e[a]
      BY <3>2, <3>3, <1>1
    <3>6. new /\ kept[ip] = NoEntry
      BY <2>1, <3>5
    <3>7. Len(order) < MaxSize
      BY <3>1, <3>2, <1>1, NumberAssumption
    <3> HIDE DEF kept, order
    <3> QED BY <3>2, <3>4, <3>5, <3>6, <3>7, NumberAssumption
  <2>2. CASE ~evict
    BY <2>2, <1>1, <1>4, NumberAssumption
  <2> QED BY <2>1, <2>2
<1> HIDE DEF kept, order, evict, new, entry
<1>6. /\ s2 \in Seq(IPs) /\ e2 \in [IPs -> LocalEntry \cup {NoEntry}]
      /\ Lists(s2, e2) /\ Len(s2) <= MaxSize
  <2>0. /\ e2 \in [IPs -> LocalEntry \cup {NoEntry}]
        /\ \A a \in IPs : e2[a] = IF a = ip THEN entry ELSE kept[a]
    BY <1>3, <1>5
  <2>1. CASE new
    <3>1. /\ s2 \in Seq(IPs) /\ Len(s2) = Len(order) + 1 /\ Len(order) \in Nat
          /\ \A i \in 1..Len(order) : s2[i] = order[i]
          /\ s2[Len(order) + 1] = ip
      BY <2>1, <1>5, AppendProperties, LenProperties
    <3>2. \A i \in 1..Len(order) : order[i] \in IPs /\ order[i] # ip
      BY <2>1, <1>5, ElementOfSeq DEF Lists
    <3>3. \A i \in 1..Len(s2) : e2[s2[i]] # NoEntry
      BY <2>0, <3>1, <3>2, <1>3, <1>5 DEF Lists
    <3>4. ASSUME NEW a \in IPs, e2[a] # NoEntry
          PROVE  \E i \in 1..Len(s2) : s2[i] = a
      <4>1. CASE a = ip
        BY <4>1, <3>1
      <4>2. CASE a # ip
        <5>1. PICK i \in 1..Len(order) : order[i] = a
          BY <4>2, <3>4, <2>0, <1>5 DEF Lists
        <5> QED BY <5>1, <3>1
      <4> QED BY <4>1, <4>2
    <3>5. \A i, j \in 1..Len(s2) : s2[i] = s2[j] => i = j
      BY <3>1, <3>2, <1>5 DEF Lists
    <3>6. Len(s2) <= MaxSize
      BY <3>1, <2>1, <1>5, NumberAssumption
    <3> QED BY <2>0, <3>1, <3>3, <3>4, <3>5, <3>6 DEF Lists
  <2>2. CASE ~new
    <3>1. s2 = order
      BY <2>2
    <3> QED BY <2>0, <2>2, <3>1, <1>3, <1>5 DEF Lists
  <2> QED BY <2>1, <2>2
<1> HIDE DEF s2, e2
<1>7. LocalTypeOK'
  BY <1>2, <1>6 DEF LocalTypeOK
<1>8. OrderInv'
  BY <1>2, <1>6 DEF OrderInv, LocalTypeOK
<1>9. \A v \in Workers : \A a \in IPs :
         \/ bannedIPs'[v][a] = NoEntry
         \/ bannedIPs'[v][a] = bannedIPs[v][a]
         \/ a = ip /\ bannedIPs'[v][a].expiry = expiry
  BY <1>2, <1>5 DEF e2, entry, LocalTypeOK
<1> QED BY <1>7, <1>8, <1>9

\* localPurge keeps the map and the order in agreement.
LEMMA LocalPurgeFacts ==
    ASSUME LocalTypeOK, OrderInv,
           NEW w \in Workers, NEW ip \in IPs, LocalPurge(w, ip)
    PROVE  /\ LocalTypeOK'
           /\ OrderInv'
           /\ \A v \in Workers : \A a \in IPs :
                 bannedIPs'[v][a] = NoEntry \/ bannedIPs'[v][a] = bannedIPs[v][a]
<1> DEFINE s  == lruOrder[w]
           e  == bannedIPs[w]
           s2 == Without(s, ip)
           e2 == [e EXCEPT ![ip] = NoEntry]
<1>1. CASE bannedIPs[w][ip] = NoEntry
  BY <1>1 DEF LocalPurge, local, LocalTypeOK, OrderInv, Lists
<1>2. CASE bannedIPs[w][ip] # NoEntry
  <2>1. /\ s \in Seq(IPs) /\ Len(s) \in Nat
        /\ e \in [IPs -> LocalEntry \cup {NoEntry}]
        /\ Lists(s, e) /\ Len(s) <= MaxSize
    BY DEF LocalTypeOK, OrderInv
  <2>2. /\ bannedIPs' = [bannedIPs EXCEPT ![w] = e2]
        /\ lruOrder' = [lruOrder EXCEPT ![w] = s2]
    BY <1>2 DEF LocalPurge, LocalTypeOK
  <2>3. /\ \A i, j \in 1..Len(s) : s[i] = s[j] => i = j
        /\ \E i \in 1..Len(s) : s[i] = ip
    BY <1>2, <2>1 DEF Lists
  <2>4. /\ s2 \in Seq(IPs)
        /\ Len(s2) = Len(s) - 1
        /\ \A i \in 1..Len(s2) : s2[i] # ip /\ \E j \in 1..Len(s) : s2[i] = s[j]
        /\ \A j \in 1..Len(s) : s[j] # ip => \E i \in 1..Len(s2) : s2[i] = s[j]
        /\ \A i, j \in 1..Len(s2) : s2[i] = s2[j] => i = j
    BY <2>1, <2>3, WithoutFacts
  <2>5. \A i \in 1..Len(s) : s[i] \in IPs
    BY <2>1, ElementOfSeq
  <2> HIDE DEF s2
  <2>6. /\ e2 \in [IPs -> LocalEntry \cup {NoEntry}]
        /\ \A a \in IPs : e2[a] = IF a = ip THEN NoEntry ELSE e[a]
    BY <2>1
  <2>7. Lists(s2, e2)
    <3>1. ASSUME NEW i \in 1..Len(s2)
          PROVE  e2[s2[i]] # NoEntry
      <4>1. PICK j \in 1..Len(s) : s2[i] = s[j] /\ s2[i] # ip
        BY <2>4
      <4>2. s[j] \in IPs /\ e[s[j]] # NoEntry
        BY <2>1, <2>5 DEF Lists
      <4> QED BY <4>1, <4>2, <2>6
    <3>2. ASSUME NEW a \in IPs, e2[a] # NoEntry
          PROVE  \E i \in 1..Len(s2) : s2[i] = a
      <4>1. a # ip /\ e[a] # NoEntry
        BY <3>2, <2>6
      <4>2. PICK j \in 1..Len(s) : s[j] = a
        BY <4>1, <2>1 DEF Lists
      <4> QED BY <4>1, <4>2, <2>4
    <3> QED BY <3>1, <3>2, <2>4 DEF Lists
  <2>8. Len(s2) <= MaxSize
    BY <2>1, <2>4, NumberAssumption
  <2> QED BY <2>1, <2>2, <2>4, <2>6, <2>7, <2>8 DEF LocalTypeOK, OrderInv
<1> QED BY <1>1, <1>2
----------------------------------------------------------------------------
(* The frame of a step: one call advances, and history only grows.         *)

Grown(g, g2) == /\ g2 \in [IPs \cup Nets -> Int]
                /\ \A t \in IPs \cup Nets : g[t] <= g2[t]

LEMMA CallStep ==
    ASSUME NEW cs \in [Callers -> Call], NEW g \in [IPs \cup Nets -> Int], NEW g2,
           Grown(g, g2),
           \A d \in Callers : CallOK(cs[d], g),
           NEW c \in Callers, NEW r, CallOK(r, g2)
    PROVE  LET cs2 == [cs EXCEPT ![c] = r] IN
           /\ cs2 \in [Callers -> Call]
           /\ \A d \in Callers : CallOK(cs2[d], g2)
<1> DEFINE cs2 == [cs EXCEPT ![c] = r]
<1>1. cs2 \in [Callers -> Call] /\ cs2[c] = r
  BY DEF CallOK
<1>2. ASSUME NEW d \in Callers, d # c
      PROVE  CallOK(cs2[d], g2)
  <2>1. cs2[d] = cs[d] /\ CallOK(cs[d], g) /\ cs[d] \in Call
    BY <1>2
  <2>2. \A t \in IPs \cup Nets : g[t] \in Int /\ g2[t] \in Int /\ g[t] <= g2[t]
    BY DEF Grown
  <2>3. /\ cs[d].now \in Nat /\ cs[d].end \in Nat /\ cs[d].ttl \in Nat
        /\ cs[d].now + cs[d].ttl \in Nat
    BY <2>1 DEF Call
  <2>4. \A ip \in IPs : \A end \in Nat : Covered(ip, end, g) => Covered(ip, end, g2)
    BY <2>2 DEF Covered
  <2>5. CallOK(cs[d], g2)
    BY <2>1, <2>2, <2>3, <2>4 DEF CallOK
  <2> QED BY <2>1, <2>5
<1> QED BY <1>1, <1>2

\* The calls after a step in which the call of c becomes r.
LEMMA CallsAfter ==
    ASSUME HistoryInv, CallsInv, Grown(granted, granted'),
           NEW c \in Callers, CallOK(call'[c], granted'),
           call' = [call EXCEPT ![c] = call'[c]]
    PROVE  CallsInv'
<1> DEFINE r == call'[c]
           cs2 == [call EXCEPT ![c] = r]
<1>1. /\ call \in [Callers -> Call] /\ \A d \in Callers : CallOK(call[d], granted)
      /\ granted \in [IPs \cup Nets -> Int]
  BY DEF CallsInv, HistoryInv
<1>2. cs2 \in [Callers -> Call] /\ \A d \in Callers : CallOK(cs2[d], granted')
  BY <1>1, CallStep
<1> QED BY <1>2 DEF CallsInv

\* A ban request only adds to the history.
LEMMA GrantFacts ==
    ASSUME HistoryInv, NEW t \in IPs \cup Nets, NEW end \in Nat, Grant(t, end)
    PROVE  /\ Grown(granted, granted')
           /\ granted' \in [IPs \cup Nets -> Int]
           /\ end <= granted'[t]
<1>1. granted' = [granted EXCEPT ![t] = IF granted[t] < end THEN end ELSE granted[t]]
  BY DEF Grant
<1> QED BY <1>1 DEF HistoryInv, Grown

LEMMA SameGrown == HistoryInv => Grown(granted, granted)
  BY DEF HistoryInv, Grown

----------------------------------------------------------------------------
(* Initiation, and one lemma per action.                                   *)

LEMMA InitInv == Init => IInv
<1> SUFFICES ASSUME Init PROVE IInv
  OBVIOUS
<1>1. HistoryInv /\ NetsInv /\ RedisInv /\ CallsInv
  BY DEF Init, HistoryInv, NetsInv, RedisInv, CallsInv, CallOK, Call, Steps, Idle
<1>2. LocalInv
  BY NumberAssumption, EmptySeq DEF Init, LocalInv, LocalTypeOK, OrderInv, Lists
<1> QED BY <1>1, <1>2 DEF IInv

LEMMA IdleOK == \A g : CallOK(Idle, g)
  BY DEF CallOK, Call, Steps, Idle

\* An answer is good when a true one is covered.
LEMMA AnswerOK ==
    ASSUME NEW g, NEW ip \in IPs, NEW now \in Nat, NEW verdict \in BOOLEAN,
           verdict => /\ ip \notin Protected
                      /\ \/ now <= g[ip]
                         \/ \E n \in Nets : ip \in Members[n] /\ now <= g[n]
    PROVE  CallOK([Idle EXCEPT !.ip = ip, !.now = now, !.banned = verdict], g)
  BY DEF CallOK, Call, Steps, Idle
LEMMA CheckLocalInv ==
    ASSUME IInv, NEW c \in Callers, NEW s \in Spellings, CheckLocal(c, s)
    PROVE  IInv'
<1> DEFINE ip == Canonical[s]
<1>1. /\ ip \in IPs /\ Home[c] \in Workers
      /\ HistoryInv /\ LocalInv /\ NetsInv /\ RedisInv /\ CallsInv
      /\ UNCHANGED <<clock, bannedNets, redis, granted>>
  BY AddressAssumption, CallersAssumption DEF IInv, CheckLocal
<1>2. /\ HistoryInv' /\ NetsInv' /\ RedisInv' /\ Grown(granted, granted')
  BY <1>1, SameGrown DEF HistoryInv, NetsInv, RedisInv
<1>3. CASE LocalHit(Home[c], ip, clock)
  <2>1. /\ call' = [call EXCEPT ![c] = [Idle EXCEPT !.ip = ip, !.now = clock,
                                                   !.banned = TRUE]]
        /\ UNCHANGED <<bannedIPs, lruOrder>>
    BY <1>3 DEF CheckLocal, Answer, local
  <2>2. clock <= granted[ip] /\ ip \notin Protected
    BY <1>1, <1>3 DEF LocalHit, LocalInv, LocalTypeOK, Covered, HistoryInv, LocalEntry
  <2>3. CallOK([Idle EXCEPT !.ip = ip, !.now = clock, !.banned = TRUE], granted')
    BY <1>1, <2>2, AnswerOK DEF HistoryInv
  <2>4. CallsInv'
    BY <1>1, <1>2, <2>1, <2>3, CallsAfter DEF CallsInv
  <2>5. LocalInv'
    BY <1>1, <2>1 DEF LocalInv, LocalTypeOK, OrderInv
  <2> QED BY <1>2, <2>4, <2>5 DEF IInv
<1>4. CASE ~LocalHit(Home[c], ip, clock)
  <2> DEFINE r == [pc |-> "networks", ip |-> ip, now |-> clock, end |-> 0,
                   ttl |-> 0, banned |-> FALSE]
  <2>1. LocalPurge(Home[c], ip) /\ call' = [call EXCEPT ![c] = r]
    BY <1>4 DEF CheckLocal, Continue
  <2>2. CallOK(r, granted')
    BY <1>1 DEF CallOK, Call, Steps, HistoryInv
  <2>3. CallsInv'
    BY <1>1, <1>2, <2>1, <2>2, CallsAfter DEF CallsInv
  <2>4. LocalInv'
    BY <1>1, <2>1, LocalPurgeFacts DEF LocalInv
  <2> QED BY <1>2, <2>3, <2>4 DEF IInv
<1> QED BY <1>3, <1>4
LEMMA CheckNetworksInv ==
    ASSUME IInv, NEW c \in Callers, CheckNetworks(c)
    PROVE  IInv'
<1> DEFINE ip     == call[c].ip
           now    == call[c].now
           active == {b \in bannedNets[Home[c]] : b.expiry > now}
           hit    == \E b \in active : ip \in Members[b.net]
<1>1. /\ Home[c] \in Workers
      /\ HistoryInv /\ LocalInv /\ NetsInv /\ RedisInv /\ CallsInv
      /\ UNCHANGED <<clock, bannedIPs, lruOrder, redis, granted>>
      /\ bannedNets' = [bannedNets EXCEPT ![Home[c]] = active]
      /\ ip \in IPs /\ now \in Nat
  BY CallersAssumption DEF IInv, CheckNetworks, Doing, local, CallsInv, CallOK, Call
<1>2. /\ HistoryInv' /\ LocalInv' /\ RedisInv' /\ Grown(granted, granted')
  BY <1>1, SameGrown DEF HistoryInv, LocalInv, LocalTypeOK, OrderInv, RedisInv
<1>3. NetsInv'
  BY <1>1 DEF NetsInv
<1>4. CallsInv'
  <2>1. CASE hit
    <3>1. call' = [call EXCEPT ![c] = [Idle EXCEPT !.ip = ip, !.now = now,
                                                   !.banned = TRUE]]
      BY <2>1 DEF CheckNetworks, Answer
    <3>2. PICK b \in bannedNets[Home[c]] : ip \in Members[b.net] /\ b.expiry > now
      BY <2>1
    <3>3. b \in NetEntry /\ b.expiry <= granted[b.net] /\ ip \notin Protected
      BY <1>1, <3>2 DEF NetsInv
    <3>4. b.net \in Nets /\ now <= granted[b.net]
      BY <1>1, <3>2, <3>3 DEF NetEntry, HistoryInv
    <3>5. CallOK([Idle EXCEPT !.ip = ip, !.now = now, !.banned = TRUE], granted')
      BY <1>1, <3>2, <3>3, <3>4, AnswerOK
    <3> QED BY <1>1, <1>2, <3>1, <3>5, CallsAfter DEF CallsInv
  <2>2. CASE ~hit /\ RedisConfigured
    <3> DEFINE r == [pc |-> "redis", ip |-> ip, now |-> now, end |-> 0, ttl |-> 0,
                     banned |-> FALSE]
    <3>1. call' = [call EXCEPT ![c] = r]
      BY <2>2 DEF CheckNetworks, Continue
    <3>2. CallOK(r, granted')
      BY <1>1 DEF CallOK, Call, Steps
    <3> QED BY <1>1, <1>2, <3>1, <3>2, CallsAfter DEF CallsInv
  <2>3. CASE ~hit /\ ~RedisConfigured
    <3>1. call' = [call EXCEPT ![c] = [Idle EXCEPT !.ip = ip, !.now = now,
                                                   !.banned = FALSE]]
      BY <2>3 DEF CheckNetworks, Answer
    <3>2. CallOK([Idle EXCEPT !.ip = ip, !.now = now, !.banned = FALSE], granted')
      BY <1>1, AnswerOK
    <3> QED BY <1>1, <1>2, <3>1, <3>2, CallsAfter DEF CallsInv
  <2> QED BY <2>1, <2>2, <2>3
<1> QED BY <1>2, <1>3, <1>4 DEF IInv

LEMMA ReadRedisInv ==
    ASSUME IInv, NEW c \in Callers, ReadRedis(c)
    PROVE  IInv'
<1> DEFINE ip  == call[c].ip
           now == call[c].now
           end == redis[ip].expiry
<1>1. /\ HistoryInv /\ LocalInv /\ NetsInv /\ RedisInv /\ CallsInv
      /\ UNCHANGED <<clock, bannedIPs, lruOrder, bannedNets, redis, granted>>
      /\ ip \in IPs /\ now \in Nat
  BY DEF IInv, ReadRedis, Doing, local, CallsInv, CallOK, Call
<1>2. /\ HistoryInv' /\ LocalInv' /\ NetsInv' /\ RedisInv' /\ Grown(granted, granted')
  BY <1>1, SameGrown DEF HistoryInv, LocalInv, LocalTypeOK, OrderInv, NetsInv, RedisInv
<1>3. CASE Answer(c, ip, now, FALSE)
  <2>1. CallOK([Idle EXCEPT !.ip = ip, !.now = now, !.banned = FALSE], granted')
    BY <1>1, AnswerOK
  <2>2. CallsInv'
    BY <1>1, <1>2, <1>3, <2>1, CallsAfter DEF CallsInv, Answer
  <2> QED BY <1>2, <2>2 DEF IInv
<1>4. CASE /\ redis[ip] # NoEntry
           /\ Continue(c, IF now <= end THEN "fill" ELSE "drop", ip, now, end, 0)
  <2> DEFINE r == [pc |-> IF now <= end THEN "fill" ELSE "drop", ip |-> ip,
                   now |-> now, end |-> end, ttl |-> 0, banned |-> FALSE]
  <2>1. end \in Nat /\ Covered(ip, end, granted')
    BY <1>1, <1>4 DEF RedisInv, StoredEntry
  <2>2. CallOK(r, granted')
    BY <1>1, <2>1 DEF CallOK, Call, Steps
  <2>3. CallsInv'
    BY <1>1, <1>2, <1>4, <2>2, CallsAfter DEF CallsInv, Continue
  <2> QED BY <1>2, <2>3 DEF IInv
<1> QED BY <1>3, <1>4 DEF ReadRedis

LEMMA FillLocalInv ==
    ASSUME IInv, NEW c \in Callers, FillLocal(c)
    PROVE  IInv'
<1> DEFINE ip  == call[c].ip
           now == call[c].now
           end == call[c].end
<1>1. /\ Home[c] \in Workers
      /\ HistoryInv /\ LocalInv /\ NetsInv /\ RedisInv /\ CallsInv
      /\ UNCHANGED <<clock, bannedNets, redis, granted>>
      /\ LocalSet(Home[c], ip, end)
      /\ call' = [call EXCEPT ![c] = [Idle EXCEPT !.ip = ip, !.now = now,
                                                 !.banned = TRUE]]
      /\ ip \in IPs /\ now \in Nat /\ end \in Nat
      /\ Covered(ip, end, granted) /\ now <= end
  BY CallersAssumption
     DEF IInv, FillLocal, Doing, Answer, CallsInv, CallOK, Call
<1>2. /\ HistoryInv' /\ NetsInv' /\ RedisInv' /\ Grown(granted, granted')
  BY <1>1, SameGrown DEF HistoryInv, NetsInv, RedisInv
<1>3. LocalInv'
  BY <1>1, LocalSetFacts DEF LocalInv, HistoryInv
<1>4. CallsInv'
  <2>1. now <= granted'[ip] /\ ip \notin Protected
    BY <1>1 DEF Covered, HistoryInv
  <2>2. CallOK([Idle EXCEPT !.ip = ip, !.now = now, !.banned = TRUE], granted')
    BY <1>1, <2>1, AnswerOK
  <2> QED BY <1>1, <1>2, <2>2, CallsAfter DEF CallsInv
<1> QED BY <1>2, <1>3, <1>4 DEF IInv

LEMMA DropExpiredInv ==
    ASSUME IInv, NEW c \in Callers, DropExpired(c)
    PROVE  IInv'
<1> DEFINE ip  == call[c].ip
           now == call[c].now
<1>1. /\ HistoryInv /\ LocalInv /\ NetsInv /\ RedisInv /\ CallsInv
      /\ UNCHANGED <<clock, bannedIPs, lruOrder, bannedNets, granted>>
      /\ redis' = [redis EXCEPT ![ip] = NoEntry] \/ redis' = redis
      /\ call' = [call EXCEPT ![c] = [Idle EXCEPT !.ip = ip, !.now = now,
                                                 !.banned = FALSE]]
      /\ ip \in IPs /\ now \in Nat
  BY DEF IInv, DropExpired, Doing, Answer, local, CallsInv, CallOK, Call
<1>2. /\ HistoryInv' /\ LocalInv' /\ NetsInv' /\ Grown(granted, granted')
  BY <1>1, SameGrown DEF HistoryInv, LocalInv, LocalTypeOK, OrderInv, NetsInv
<1>3. RedisInv'
  BY <1>1 DEF RedisInv
<1>4. CallOK([Idle EXCEPT !.ip = ip, !.now = now, !.banned = FALSE], granted')
  BY <1>1, AnswerOK
<1>5. CallsInv'
  BY <1>1, <1>2, <1>4, CallsAfter DEF CallsInv
<1> QED BY <1>2, <1>3, <1>5 DEF IInv
\* Local expiries stay covered when history grows and a covered one enters.
LEMMA LocalSetInv ==
    ASSUME HistoryInv, LocalInv, Grown(granted, granted'),
           NEW w \in Workers, NEW ip \in IPs, NEW end \in Nat,
           LocalSet(w, ip, end), Covered(ip, end, granted')
    PROVE  LocalInv'
<1>1. /\ LocalTypeOK' /\ OrderInv'
      /\ \A v \in Workers : \A a \in IPs :
            \/ bannedIPs'[v][a] = NoEntry
            \/ bannedIPs'[v][a] = bannedIPs[v][a]
            \/ a = ip /\ bannedIPs'[v][a].expiry = end
  BY LocalSetFacts DEF LocalInv, HistoryInv
<1>2. ASSUME NEW v \in Workers, NEW a \in IPs, bannedIPs'[v][a] # NoEntry
      PROVE  Covered(a, bannedIPs'[v][a].expiry, granted')
  <2>1. CASE a = ip /\ bannedIPs'[v][a].expiry = end
    BY <2>1
  <2>2. CASE bannedIPs'[v][a] = bannedIPs[v][a]
    <3>1. /\ Covered(a, bannedIPs[v][a].expiry, granted)
          /\ bannedIPs[v][a].expiry \in Nat
      BY <2>2, <1>2 DEF LocalInv, LocalTypeOK, LocalEntry
    <3> QED BY <2>2, <3>1 DEF Covered, HistoryInv, Grown
  <2> QED BY <1>1, <1>2, <2>1, <2>2
<1> QED BY <1>1, <1>2 DEF LocalInv

\* The stored and the network expiries stay covered when history grows.
LEMMA GrownCovers ==
    ASSUME HistoryInv, Grown(granted, granted')
    PROVE  /\ RedisInv /\ UNCHANGED redis => RedisInv'
           /\ NetsInv /\ UNCHANGED bannedNets => NetsInv'
<1>1. ASSUME RedisInv, UNCHANGED redis
      PROVE  RedisInv'
  BY <1>1 DEF RedisInv, StoredEntry, Covered, Grown, HistoryInv
<1>2. ASSUME NetsInv, UNCHANGED bannedNets
      PROVE  NetsInv'
  BY <1>2 DEF NetsInv, NetEntry, Grown, HistoryInv
<1> QED BY <1>1, <1>2

LEMMA BanExactInv ==
    ASSUME IInv, NEW c \in Callers, NEW s \in Spellings, NEW duration \in Durations,
           BanExact(c, s, duration)
    PROVE  IInv'
<1> DEFINE ip  == Canonical[s]
           end == clock + (IF RedisConfigured THEN duration
                           ELSE ClampToLocalCap(duration))
           r   == [pc |-> "store", ip |-> ip, now |-> clock, end |-> end,
                   ttl |-> duration, banned |-> FALSE]
<1>1. /\ Home[c] \in Workers /\ ip \in IPs /\ ip \notin Protected
      /\ HistoryInv /\ LocalInv /\ NetsInv /\ RedisInv /\ CallsInv
      /\ LocalSet(Home[c], ip, end) /\ Grant(ip, clock + duration)
      /\ UNCHANGED <<clock, bannedNets, redis>>
  BY CallersAssumption, AddressAssumption DEF IInv, BanExact
<1>2. /\ clock \in Nat /\ duration \in Nat /\ clock + duration \in Nat
      /\ end \in Nat /\ end <= clock + duration
  BY <1>1, NumberAssumption DEF HistoryInv, ClampToLocalCap, Smaller
<1>3. /\ Grown(granted, granted') /\ granted' \in [IPs \cup Nets -> Int]
      /\ clock + duration <= granted'[ip]
  BY <1>1, <1>2, GrantFacts
<1>4. Covered(ip, end, granted') /\ Covered(ip, clock + duration, granted')
  BY <1>1, <1>2, <1>3 DEF Covered
<1>5. HistoryInv' /\ LocalInv' /\ NetsInv' /\ RedisInv'
  BY <1>1, <1>2, <1>3, <1>4, LocalSetInv, GrownCovers DEF HistoryInv
<1>6. CallsInv'
  <2>1. CallOK(r, granted')
    BY <1>1, <1>2, <1>4 DEF CallOK, Call, Steps
  <2>2. CASE RedisConfigured
    BY <1>1, <1>3, <2>1, <2>2, CallsAfter DEF CallsInv, BanExact, Continue
  <2>3. CASE ~RedisConfigured
    BY <1>1, <1>3, <2>3, IdleOK, CallsAfter DEF CallsInv, BanExact, Finish
  <2> QED BY <2>2, <2>3
<1> QED BY <1>5, <1>6 DEF IInv

LEMMA StoreBanInv ==
    ASSUME IInv, NEW c \in Callers, StoreBan(c)
    PROVE  IInv'
<1> DEFINE ip  == call[c].ip
           end == call[c].end
           at  == call[c].now + ClampToLocalCap(call[c].ttl)
<1>1. /\ Home[c] \in Workers /\ ip \in IPs
      /\ HistoryInv /\ LocalInv /\ NetsInv /\ RedisInv /\ CallsInv
      /\ UNCHANGED <<clock, bannedNets, granted>>
      /\ call' = [call EXCEPT ![c] = Idle]
      /\ end \in Nat /\ call[c].now \in Nat /\ call[c].ttl \in Nat
      /\ Covered(ip, end, granted)
      /\ Covered(ip, call[c].now + call[c].ttl, granted)
  BY CallersAssumption DEF IInv, StoreBan, Doing, Finish, CallsInv, CallOK, Call
<1>2. /\ HistoryInv' /\ NetsInv' /\ CallsInv' /\ Grown(granted, granted')
  BY <1>1, SameGrown, IdleOK, CallsAfter DEF HistoryInv, NetsInv, CallsInv
<1>3. CASE /\ redis' = [redis EXCEPT ![ip] = [expiry |-> end,
                                              dies   |-> clock + call[c].ttl]]
           /\ UNCHANGED local
  <2>1. [expiry |-> end, dies |-> clock + call[c].ttl] \in StoredEntry
    BY <1>1 DEF StoredEntry, HistoryInv
  <2>2. RedisInv'
    BY <1>1, <1>3, <2>1 DEF RedisInv
  <2>3. LocalInv'
    BY <1>1, <1>3 DEF local, LocalInv, LocalTypeOK, OrderInv
  <2> QED BY <1>2, <2>2, <2>3 DEF IInv
<1>4. CASE LocalSet(Home[c], ip, at) /\ UNCHANGED redis
  <2>1. at \in Nat /\ at <= call[c].now + call[c].ttl
    BY <1>1, NumberAssumption DEF ClampToLocalCap, Smaller
  <2>2. Covered(ip, at, granted')
    BY <1>1, <2>1 DEF Covered, HistoryInv
  <2>3. LocalInv' /\ RedisInv'
    BY <1>1, <1>2, <1>4, <2>1, <2>2, LocalSetInv, GrownCovers
  <2> QED BY <1>2, <2>3 DEF IInv
<1> QED BY <1>3, <1>4 DEF StoreBan

LEMMA BanNetworkInv ==
    ASSUME IInv, NEW c \in Callers, NEW n \in Nets, NEW duration \in Durations,
           BanNetwork(c, n, duration)
    PROVE  IInv'
<1> DEFINE b == [net |-> n, expiry |-> clock + ClampToLocalCap(duration)]
<1>1. /\ Home[c] \in Workers /\ Members[n] \cap Protected = {}
      /\ HistoryInv /\ LocalInv /\ NetsInv /\ RedisInv /\ CallsInv
      /\ UNCHANGED <<clock, bannedIPs, lruOrder, redis>>
      /\ Grant(n, clock + duration)
      /\ call' = [call EXCEPT ![c] = Idle]
      /\ \/ bannedNets' = bannedNets
         \/ bannedNets' = [bannedNets EXCEPT ![Home[c]] = bannedNets[Home[c]] \cup {b}]
  BY CallersAssumption DEF IInv, BanNetwork, Finish, local
<1>2. /\ clock + duration \in Nat /\ b \in NetEntry /\ b.net = n
      /\ b.expiry <= clock + duration
  BY <1>1, NumberAssumption DEF HistoryInv, ClampToLocalCap, Smaller, NetEntry
<1>3. /\ Grown(granted, granted') /\ granted' \in [IPs \cup Nets -> Int]
      /\ clock + duration <= granted'[n]
  BY <1>1, <1>2, GrantFacts
<1>4. HistoryInv' /\ RedisInv' /\ CallsInv'
  BY <1>1, <1>3, GrownCovers, IdleOK, CallsAfter DEF HistoryInv, CallsInv
<1>5. LocalInv'
  BY <1>1, <1>3 DEF LocalInv, LocalTypeOK, OrderInv, LocalEntry, Covered, Grown, HistoryInv
<1>6. NetsInv'
  <2>1. \A w \in Workers : \A o \in bannedNets[w] :
           /\ o \in NetEntry /\ o.expiry <= granted'[o.net]
           /\ Members[o.net] \cap Protected = {}
    BY <1>1, <1>3 DEF NetsInv, NetEntry, Grown, HistoryInv
  <2>2. b.expiry <= granted'[b.net] /\ Members[b.net] \cap Protected = {}
    BY <1>1, <1>2, <1>3 DEF NetEntry
  <2> HIDE DEF b
  <2> QED BY <1>1, <1>2, <2>1, <2>2 DEF NetsInv
<1> QED BY <1>4, <1>5, <1>6 DEF IInv
LEMMA UnbanLocalInv ==
    ASSUME IInv, NEW c \in Callers, NEW s \in Spellings, UnbanLocal(c, s)
    PROVE  IInv'
<1> DEFINE ip == Canonical[s]
           r  == [pc |-> "delete", ip |-> ip, now |-> clock, end |-> 0, ttl |-> 0,
                  banned |-> FALSE]
<1>1. /\ Home[c] \in Workers /\ ip \in IPs
      /\ HistoryInv /\ LocalInv /\ NetsInv /\ RedisInv /\ CallsInv
      /\ LocalPurge(Home[c], ip)
      /\ UNCHANGED <<clock, bannedNets, redis, granted>>
      /\ call' = [call EXCEPT ![c] = r] \/ call' = [call EXCEPT ![c] = Idle]
  BY CallersAssumption, AddressAssumption DEF IInv, UnbanLocal, Continue, Finish
<1>2. /\ HistoryInv' /\ NetsInv' /\ RedisInv' /\ Grown(granted, granted')
  BY <1>1, SameGrown DEF HistoryInv, NetsInv, RedisInv
<1>3. LocalInv'
  BY <1>1, LocalPurgeFacts DEF LocalInv
<1>4. CallOK(r, granted') /\ CallOK(Idle, granted')
  BY <1>1, IdleOK DEF CallOK, Call, Steps, HistoryInv
<1>5. CallsInv'
  BY <1>1, <1>2, <1>4, CallsAfter DEF CallsInv
<1> QED BY <1>2, <1>3, <1>5 DEF IInv

LEMMA UnbanRedisInv ==
    ASSUME IInv, NEW c \in Callers, UnbanRedis(c)
    PROVE  IInv'
<1>1. /\ HistoryInv /\ LocalInv /\ NetsInv /\ RedisInv /\ CallsInv
      /\ UNCHANGED <<clock, bannedIPs, lruOrder, bannedNets, granted>>
      /\ redis' = [redis EXCEPT ![call[c].ip] = NoEntry] \/ redis' = redis
      /\ call' = [call EXCEPT ![c] = Idle]
  BY DEF IInv, UnbanRedis, Finish, local
<1>2. /\ HistoryInv' /\ LocalInv' /\ NetsInv' /\ Grown(granted, granted')
  BY <1>1, SameGrown DEF HistoryInv, LocalInv, LocalTypeOK, OrderInv, NetsInv
<1>3. RedisInv'
  BY <1>1 DEF RedisInv
<1>4. CallsInv'
  BY <1>1, <1>2, IdleOK, CallsAfter DEF CallsInv
<1> QED BY <1>2, <1>3, <1>4 DEF IInv

LEMMA ResetRedisInv ==
    ASSUME IInv, NEW c \in Callers, ResetRedis(c)
    PROVE  IInv'
<1>1. /\ HistoryInv /\ LocalInv /\ NetsInv /\ RedisInv /\ CallsInv
      /\ UNCHANGED <<clock, bannedIPs, lruOrder, bannedNets, granted>>
      /\ redis' = [ip \in IPs |-> NoEntry] \/ redis' = redis
      /\ call' = [call EXCEPT ![c] = Idle]
  BY DEF IInv, ResetRedis, Finish, local
<1>2. /\ HistoryInv' /\ LocalInv' /\ NetsInv' /\ Grown(granted, granted')
  BY <1>1, SameGrown DEF HistoryInv, LocalInv, LocalTypeOK, OrderInv, NetsInv
<1>3. RedisInv'
  BY <1>1 DEF RedisInv
<1>4. CallsInv'
  BY <1>1, <1>2, IdleOK, CallsAfter DEF CallsInv
<1> QED BY <1>2, <1>3, <1>4 DEF IInv

\* Emptying the memory of one worker.
LEMMA ClearLocal ==
    ASSUME LocalInv, NetsInv, NEW w \in Workers, UNCHANGED granted,
           bannedIPs' = [bannedIPs EXCEPT ![w] = [ip \in IPs |-> NoEntry]],
           lruOrder' = [lruOrder EXCEPT ![w] = <<>>],
           bannedNets' = [bannedNets EXCEPT ![w] = {}]
    PROVE  LocalInv' /\ NetsInv'
<1>1. LocalTypeOK'
  BY EmptySeq DEF LocalInv, LocalTypeOK
<1>2. Lists(<<>>, [ip \in IPs |-> NoEntry]) /\ Len(<<>>) <= MaxSize
  BY NumberAssumption, EmptySeq DEF Lists
<1>3. OrderInv'
  BY <1>2 DEF LocalInv, LocalTypeOK, OrderInv
<1>4. LocalInv'
  BY <1>1, <1>3 DEF LocalInv, LocalTypeOK
<1>5. NetsInv'
  BY DEF NetsInv
<1> QED BY <1>4, <1>5

LEMMA ResetLocalInv ==
    ASSUME IInv, NEW c \in Callers, ResetLocal(c)
    PROVE  IInv'
<1> DEFINE r == [pc |-> "clear", ip |-> NoEntry, now |-> clock, end |-> 0, ttl |-> 0,
                 banned |-> FALSE]
<1>1. /\ Home[c] \in Workers
      /\ HistoryInv /\ LocalInv /\ NetsInv /\ RedisInv /\ CallsInv
      /\ UNCHANGED <<clock, redis, granted>>
      /\ call' = [call EXCEPT ![c] = r] \/ call' = [call EXCEPT ![c] = Idle]
  BY CallersAssumption DEF IInv, ResetLocal, Continue, Finish
<1>2. /\ HistoryInv' /\ RedisInv' /\ Grown(granted, granted')
  BY <1>1, SameGrown DEF HistoryInv, RedisInv
<1>3. LocalInv' /\ NetsInv'
  BY <1>1, ClearLocal DEF ResetLocal
<1>4. CallOK(r, granted') /\ CallOK(Idle, granted')
  BY <1>1, IdleOK DEF CallOK, Call, Steps, HistoryInv
<1>5. CallsInv'
  BY <1>1, <1>2, <1>4, CallsAfter DEF CallsInv
<1> QED BY <1>2, <1>3, <1>5 DEF IInv

LEMMA TickInv == IInv /\ Tick => IInv'
<1> SUFFICES ASSUME IInv, Tick PROVE IInv'
  OBVIOUS
<1>1. HistoryInv' /\ LocalInv' /\ NetsInv' /\ CallsInv'
  BY DEF Tick, IInv, local, HistoryInv, LocalInv, LocalTypeOK, OrderInv, NetsInv,
         CallsInv
<1>2. RedisInv'
  BY DEF Tick, IInv, RedisInv
<1> QED BY <1>1, <1>2 DEF IInv

LEMMA RestartInv ==
    ASSUME IInv, NEW w \in Workers, Restart(w)
    PROVE  IInv'
<1>1. /\ HistoryInv /\ LocalInv /\ NetsInv /\ RedisInv /\ CallsInv
      /\ UNCHANGED <<clock, redis, granted>>
      /\ call' = [c \in Callers |-> IF Home[c] = w THEN Idle ELSE call[c]]
  BY DEF IInv, Restart
<1>2. HistoryInv' /\ RedisInv'
  BY <1>1 DEF HistoryInv, RedisInv
<1>3. LocalInv' /\ NetsInv'
  BY <1>1, ClearLocal DEF Restart
<1>4. Idle \in Call
  BY DEF Idle, Call, Steps
<1>5. CallsInv'
  BY <1>1, <1>4, IdleOK DEF CallsInv
<1> QED BY <1>2, <1>3, <1>5 DEF IInv

LEMMA NextInv == IInv /\ [Next]_vars => IInv'
<1> SUFFICES ASSUME IInv, [Next]_vars PROVE IInv'
  OBVIOUS
<1>1. ASSUME NEW c \in Callers, Step(c) PROVE IInv'
  BY <1>1, CheckLocalInv, CheckNetworksInv, ReadRedisInv, FillLocalInv,
     DropExpiredInv, BanExactInv, StoreBanInv, BanNetworkInv, UnbanLocalInv,
     UnbanRedisInv, ResetLocalInv, ResetRedisInv DEF Step
<1>2. CASE Tick
  BY <1>2, TickInv
<1>3. ASSUME NEW w \in Workers, Restart(w) PROVE IInv'
  BY <1>3, RestartInv
<1>4. CASE UNCHANGED vars
  BY <1>4 DEF vars, IInv, HistoryInv, LocalInv, LocalTypeOK, OrderInv, NetsInv,
     RedisInv, CallsInv
<1> QED BY <1>1, <1>2, <1>3, <1>4 DEF Next

LEMMA Invariance == Spec => []IInv
  BY InitInv, NextInv, PTL DEF Spec

----------------------------------------------------------------------------
(* The theorems.                                                           *)

\* Every variable keeps its type, whatever the calls and their interleaving.
THEOREM TypeCorrect == Spec => []TypeOK
<1>1. IInv => TypeOK
  BY DEF IInv, HistoryInv, LocalInv, LocalTypeOK, NetsInv, RedisInv, CallsInv,
         CallOK, TypeOK
<1> QED BY Invariance, <1>1, PTL

\* The local map and its eviction order hold the same keys and never outgrow
\* localCacheMaxSize: an eviction in localSet always finds its victim.
THEOREM CacheStaysInSync == Spec => []CacheInSync
<1>1. IInv => CacheInSync
  <2> SUFFICES ASSUME IInv, NEW w \in Workers
               PROVE  /\ Cached(w) = {lruOrder[w][i] : i \in DOMAIN lruOrder[w]}
                      /\ Len(lruOrder[w]) = Cardinality(Cached(w))
                      /\ Len(lruOrder[w]) <= MaxSize
    BY DEF CacheInSync
  <2>1. /\ lruOrder[w] \in Seq(IPs) /\ Lists(lruOrder[w], bannedIPs[w])
        /\ Len(lruOrder[w]) <= MaxSize
    BY DEF IInv, LocalInv, LocalTypeOK, OrderInv
  <2> QED BY <2>1, ListsCount DEF Cached
<1> QED BY Invariance, <1>1, PTL

\* An address is reported banned only within the time of a ban some caller
\* asked for, of it or of a network around it.
THEOREM BansAreGranted == Spec => []NoPhantomBan
<1>1. IInv => NoPhantomBan
  BY DEF IInv, CallsInv, CallOK, NoPhantomBan
<1> QED BY Invariance, <1>1, PTL

\* No loopback or trusted-proxy address is ever reported banned.
THEOREM ProtectedStayFree == Spec => []NeverSelfDoS
<1>1. IInv => NeverSelfDoS
  BY DEF IInv, CallsInv, CallOK, NeverSelfDoS
<1> QED BY Invariance, <1>1, PTL
=============================================================================
