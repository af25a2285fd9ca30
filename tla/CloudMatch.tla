----------------------------- MODULE CloudMatch -----------------------------
(***************************************************************************)
(* Whether an address belongs to a cloud provider that is blocked, and     *)
(* which one (cloudproviders.go), before the ranges went through the store *)
(* and after.  A network is the set of its addresses; a selector           *)
(* [provider, region, carves] blocks a provider or carves a region out of  *)
(* the block.                                                              *)
(***************************************************************************)
EXTENDS Integers, Sequences, FiniteSets, FiniteSetsExt

CONSTANTS
    CloudQuestions,   \* [ip, selectors, ranges]
    NoRanges, NoRegion, Unmatched

VARIABLES cloudQuestion, cloudVerdict

matchVars == <<cloudQuestion, cloudVerdict>>

----------------------------------------------------------------------------
(* Ranges of a provider are [networks, regions], regions a function of     *)
(* those networks that have one.                                           *)

RegionOf(set, network) ==
    IF network \in DOMAIN set.regions THEN set.regions[network] ELSE NoRegion

\* Mutation of Encoded: an entry of the store is a network.
EncodedBare(set) == {[network |-> n, region |-> NoRegion] : n \in set.networks}

\* encodeCachedRanges and decodeCachedEntries: "network|region", or "network".
Encoded(set) == {[network |-> n, region |-> RegionOf(set, n)] : n \in set.networks}
Decoded(entries) ==
    LET regional == {e \in entries : e.region # NoRegion}
    IN [networks |-> {e.network : e \in entries},
        regions  |-> [n \in {e.network : e \in regional} |->
                        (CHOOSE e \in regional : e.network = n).region]]
Restored(ranges) ==
    [p \in DOMAIN ranges |->
       IF ranges[p] = NoRanges THEN NoRanges ELSE Decoded(Encoded(ranges[p]))]

----------------------------------------------------------------------------
\* parseCloudSelectors; a selector without a provider is ignored.
Blocked(selectors) == {s.provider : s \in selectors} \ {""}
CarvedOut(selectors, provider) ==
    {s.region : s \in {t \in selectors : t.provider = provider /\ t.carves}} \ {NoRegion}

Hits(set, ip, allowed) ==
    \E n \in set.networks : ip \in n /\ RegionOf(set, n) \notin allowed

IsCloudIP(ip, selectors, ranges) ==
    \E p \in Blocked(selectors) \cap DOMAIN ranges :
       ranges[p] # NoRanges /\ Hits(ranges[p], ip, CarvedOut(selectors, p))

\* The providers the details can name; the code takes the first by its name.
Details(ip, selectors, ranges) ==
    {p \in Blocked(selectors) \cap DOMAIN ranges :
       ranges[p] # NoRanges /\ \E n \in ranges[p].networks : ip \in n}

\* Providers have names, and what is restored of ranges is not the lack of any.
ASSUME CloudAssumption ==
    \A q \in CloudQuestions : \A p \in DOMAIN q.ranges :
       p # "" /\ (q.ranges[p] # NoRanges => Decoded(Encoded(q.ranges[p])) # NoRanges)

----------------------------------------------------------------------------
MatchInit == cloudQuestion \in CloudQuestions /\ cloudVerdict = Unmatched

Match ==
    /\ cloudVerdict = Unmatched
    /\ cloudVerdict' =
         LET q == cloudQuestion IN
         [fetched  |-> IsCloudIP(q.ip, q.selectors, q.ranges),
          restored |-> IsCloudIP(q.ip, q.selectors, Restored(q.ranges)),
          details  |-> Details(q.ip, q.selectors, q.ranges)]
    /\ UNCHANGED cloudQuestion

----------------------------------------------------------------------------
(* Properties                                                              *)

(* An address is blocked in the same way by a worker that fetched the ranges *)
(* and by one that took them from the store: regions survive the store.      *)
StoredAnswersAlike == cloudVerdict # Unmatched => cloudVerdict.fetched = cloudVerdict.restored

(* A region carved out of a block frees the addresses of its own networks    *)
(* and no others: one that another network of the provider, or another       *)
(* blocked provider holds as well, stays blocked; and a blocked one has      *)
(* details to report (IsCloudIP, GetCloudProviderDetails).                   *)
CarveOutsAreRegional ==
    cloudVerdict # Unmatched =>
      LET Known == {p \in DOMAIN cloudQuestion.ranges : cloudQuestion.ranges[p] # NoRanges}
          Holding == UNION {{<<p, n>> : n \in {m \in cloudQuestion.ranges[p].networks : cloudQuestion.ip \in m}} :
                              p \in Known}
          Free(p, n) == \/ \A s \in cloudQuestion.selectors : s.provider # p
                        \/ /\ n \in DOMAIN cloudQuestion.ranges[p].regions
                           /\ cloudQuestion.ranges[p].regions[n] # NoRegion
                           /\ \E s \in cloudQuestion.selectors :
                                s.provider = p /\ s.carves
                                /\ s.region = cloudQuestion.ranges[p].regions[n]
      IN /\ cloudVerdict.fetched = (\E h \in Holding : ~Free(h[1], h[2]))
         /\ cloudVerdict.fetched => cloudVerdict.details # {}

(* The match of an address against the ranges, wherever they come from.      *)
MatchHolds == StoredAnswersAlike /\ CarveOutsAreRegional
=============================================================================
