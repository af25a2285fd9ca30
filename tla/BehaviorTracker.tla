--------------------------- MODULE BehaviorTracker ---------------------------
(***************************************************************************)
(* Behavior rules (behavior.go): BehavioralProcessor walks the usage rules *)
(* of a route before the handler runs and the return rules, the route's    *)
(* and the global ones, on the response; BehaviorTracker counts the hits   *)
(* of a client in a sliding window, in Redis or in a bounded local table,  *)
(* and acts when a rule's threshold is exceeded.  Requests run            *)
(* concurrently and count with the time at which they arrived.             *)
(***************************************************************************)
EXTENDS Integers, Sequences, FiniteSets, FiniteSetsExt, SequencesExt, Functions

CONSTANTS
    Threads,        \* goroutines serving requests
    Clients, Endpoints,
    Suspects,       \* bound on the clients that detection flags
    RouteRules,     \* RouteRules[e]: the rules of e's route, a sequence of
                    \* [kind, pattern, threshold, window, action, correlate]
    GlobalRules,    \* GlobalBehaviorRules, a sequence
    Responses,      \* [status, body] of the responses handlers give
    ScanBody,       \* BehaviorScanResponseBody
    UseRedis, RedisFailOpen, Passive,
    MaxTrackedEndpoints, MaxTrackedClients,
    MaxTicks, MaxRequests

\* A sequence of rules: validation admits no negative window or threshold.
Rules(s) == /\ s \in Seq(Range(s))
            /\ \A rule \in Range(s) : rule.window \in Nat /\ rule.threshold \in Nat

\* A bucket has room for one client at least; a handler always answers.
ASSUME BehaviorAssumption ==
    /\ MaxTrackedEndpoints \in Nat \ {0} /\ MaxTrackedClients \in Nat \ {0}
    /\ MaxTicks \in Nat /\ MaxRequests \in Nat /\ Responses # {}
    /\ \A e \in Endpoints : Rules(RouteRules[e])
    /\ Rules(GlobalRules) /\ Suspects \subseteq Clients

VARIABLES
    clock,
    local,      \* usageCounts, whose buckets are <<endpoint>>, and returnPatterns,
                \* <<endpoint, pattern>>: bucket -> client -> hits, of which the
                \* code keeps the times
    shared,     \* the sorted sets in Redis: <<bucket, client>> -> hits, each a
                \* random member with its time
    flagged,    \* clients with a detection category in suspiciousCountStore
    visit,      \* visit[c]: the request goroutine c serves
    served,     \* requests so far
    hits,       \* history: every hit recorded, [bucket, client, at, n]
    acted       \* history: the actions taken

behaviorVars == <<clock, local, shared, flagged, visit, served, hits, acted>>

Unused  == [step |-> "idle"]
Is(c, step) == visit[c].step = step

BehaviorInit ==
    /\ clock = 0 /\ served = 0
    /\ local = <<>> /\ shared = <<>>
    /\ flagged = {}
    /\ visit = [c \in Threads |-> Unused]
    /\ hits = {} /\ acted = {}

\* Usage rules share the bucket of the endpoint, whatever their windows are.
Bucket(e, rule) == IF rule.kind = "return_pattern" THEN <<e, rule.pattern>> ELSE <<e>>

\* CheckResponsePattern.  A body is abstracted to where in it the pattern is
\* found: within the inspected prefix, beyond it, or nowhere; a malformed
\* pattern or a body that is not JSON never matches.
Matches(rule, resp) ==
    LET p == rule.pattern IN
    CASE p.kind = "status" -> p.valid /\ resp.status = p.status
      [] p.kind # "status" -> ScanBody /\ p.valid /\ resp.body = "inspected"

\* The elements of a sequence that are in K, in their order.
Keeping(s, K) ==
    LET kept[n \in 0..Len(s)] ==
          IF n = 0 THEN <<>>
          ELSE IF s[n] \in K THEN Append(kept[n-1], s[n]) ELSE kept[n-1]
    IN kept[Len(s)]

\* The rules of a stage, in the order in which they are configured.
Stage(rules, kinds) == Keeping(rules, {rule \in Range(rules) : rule.kind \in kinds})

\* A correlated rule has half its threshold, and at least 1.
EffectiveThreshold(rule, global, correlated) ==
    IF global /\ rule.correlate /\ correlated
    THEN Max({rule.threshold \div 2, 1}) ELSE rule.threshold

\* Mutation of InWindow: nothing is pruned.
InWindowAll(row, start) == row

InWindow(row, start) == Keeping(row, {h \in Range(row) : h.at >= start})

----------------------------------------------------------------------------
(* trackLocal: an arbitrary bucket of the same table, or client of the     *)
(* bucket, makes room.                                                     *)

\* The buckets of usageCounts (1) or returnPatterns (2).
Table(n) == {k \in DOMAIN local : Len(k) = n}

TrackLocal(b, i, hit, start) ==
    LET tracked == Table(Len(b))
        lost    == IF b \notin tracked /\ Cardinality(tracked) >= MaxTrackedEndpoints
                   THEN {{k} : k \in tracked} ELSE {{}}
        rows    == IF b \in DOMAIN local THEN local[b] ELSE <<>>
        out     == IF i \notin DOMAIN rows /\ Cardinality(DOMAIN rows) >= MaxTrackedClients
                   THEN {{k} : k \in DOMAIN rows} ELSE {{}}
        row     == IF i \in DOMAIN rows THEN rows[i] ELSE <<>>
        counted == Append(InWindow(row, start), hit)
    IN \E victim \in lost, loser \in out :
         LET kept == (DOMAIN rows \ loser) \cup {i}
             left == [j \in kept |-> IF j = i THEN counted ELSE rows[j]]
         IN local' = [k \in (DOMAIN local \ victim) \cup {b} |->
                        IF k = b THEN left ELSE local[k]]

\* RecordSlidingWindowHit: one Redis transaction.  The key's own expiry, a
\* window after its last hit, removes only what the next call would prune.
TrackShared(b, i, hit, start) ==
    LET key == <<b, i>>
        row == IF key \in DOMAIN shared THEN shared[key] ELSE {}
    IN shared' = [k \in DOMAIN shared \cup {key} |->
                    IF k = key THEN {h \in row \cup {hit} : h.at >= start}
                    ELSE shared[k]]

----------------------------------------------------------------------------
(* A request, rule by rule.                                                *)

\* A request within the exclusion scope is none here: none of the three stages
\* looks at it (behavior.go: all return before they read a rule).
Arrive(c, i, e) ==
    /\ Is(c, "idle")
    /\ served < MaxRequests /\ served' = served + 1
    /\ visit' = [visit EXCEPT ![c] =
          [step |-> "usage", client |-> i, endpoint |-> e, at |-> clock,
           id |-> served, correlated |-> FALSE, response |-> CHOOSE r \in Responses : TRUE,
           left |-> Stage(RouteRules[e], {"usage", "frequency"})]]
    /\ UNCHANGED <<clock, local, shared, flagged, hits, acted>>

\* ApplyAction: what is asked for; a ban may be refused or fail.
Taken(rule) == IF Passive THEN "logged_only" ELSE rule.action

\* The first rule left is counted, and acted on when its threshold is exceeded.
\* Redis may fail; only with RedisFailOpen does the local table take over.
TrackRule(c) ==
    LET r     == visit[c]
        rule  == Head(r.left)
        b     == Bucket(r.endpoint, rule)
        start == r.at - rule.window
        limit == EffectiveThreshold(rule, r.step = "global", r.correlated)
        hit   == [bucket |-> b, client |-> r.client, at |-> r.at,
                  n |-> <<r.id, r.step, Len(r.left)>>]
        Act(count) ==
            acted' = IF count <= limit THEN acted
                     ELSE acted \cup {[rule |-> rule, limit |-> limit, bucket |-> b,
                            client |-> r.client, at |-> r.at, id |-> r.id,
                            taken |-> Taken(rule)]}
    IN /\ r.step \in {"usage", "return", "global"}
       /\ r.left # <<>>
       /\ visit' = [visit EXCEPT ![c].left = Tail(@)]
       /\ IF r.step # "usage" /\ ~Matches(rule, r.response)
          THEN UNCHANGED <<local, shared, hits, acted>>
          ELSE \/ /\ UseRedis
                  /\ TrackShared(b, r.client, hit, start)
                  /\ Act(Cardinality(shared'[<<b, r.client>>]))
                  /\ hits' = hits \cup {hit}
                  /\ UNCHANGED local
               \/ /\ UseRedis => RedisFailOpen
                  /\ TrackLocal(b, r.client, hit, start)
                  /\ Act(Len(local'[b][r.client]))
                  /\ hits' = hits \cup {hit}
                  /\ UNCHANGED shared
               \/ /\ UseRedis /\ ~RedisFailOpen
                  /\ UNCHANGED <<local, shared, hits, acted>>
       /\ UNCHANGED <<clock, flagged, served>>

\* The handler answered: the route's return rules.
Return(c, resp) ==
    /\ Is(c, "usage") /\ visit[c].left = <<>>
    /\ visit' = [visit EXCEPT ![c] = [@ EXCEPT !.step = "return", !.response = resp,
                   !.left = Stage(RouteRules[visit[c].endpoint], {"return_pattern"})]]
    /\ UNCHANGED <<clock, local, shared, flagged, served, hits, acted>>

\* The global rules, for which the client's categories are looked up once.
StartGlobal(c) ==
    /\ Is(c, "return") /\ visit[c].left = <<>>
    /\ visit' = [visit EXCEPT ![c] = [@ EXCEPT !.step = "global",
                   !.correlated = visit[c].client \in flagged,
                   !.left = Stage(GlobalRules, {"return_pattern"})]]
    /\ UNCHANGED <<clock, local, shared, flagged, served, hits, acted>>

EndRequest(c) ==
    /\ Is(c, "global") /\ visit[c].left = <<>>
    /\ visit' = [visit EXCEPT ![c] = Unused]
    /\ UNCHANGED <<clock, local, shared, flagged, served, hits, acted>>

\* Another request of the client was flagged by detection.
FlagClient(i) ==
    /\ i \notin flagged /\ flagged' = flagged \cup {i}
    /\ UNCHANGED <<clock, local, shared, visit, served, hits, acted>>

ClockTick ==
    /\ clock < MaxTicks /\ clock' = clock + 1
    /\ UNCHANGED <<local, shared, flagged, visit, served, hits, acted>>

BehaviorNext ==
    \/ \E c \in Threads : \/ \E i \in Clients, e \in Endpoints : Arrive(c, i, e)
                          \/ TrackRule(c)
                          \/ \E resp \in Responses : Return(c, resp)
                          \/ StartGlobal(c) \/ EndRequest(c)
    \/ \E i \in Suspects : FlagClient(i)
    \/ ClockTick

BehaviorSpec == BehaviorInit /\ [][BehaviorNext]_behaviorVars

----------------------------------------------------------------------------
(* Properties                                                              *)

BehaviorTypeOK ==
    /\ clock \in 0..MaxTicks /\ served \in 0..MaxRequests
    /\ flagged \subseteq Clients
    /\ \A n \in 1..2 : Cardinality(Table(n)) <= MaxTrackedEndpoints
    /\ \A b \in DOMAIN local : Cardinality(DOMAIN local[b]) <= MaxTrackedClients
    /\ \A c \in Threads : visit[c].step \in {"idle", "usage", "return", "global"}

\* Hits of a client in a bucket since a time.
HitsSince(b, i, start) == {h \in hits : h.bucket = b /\ h.client = i /\ h.at >= start}

\* An action rests on more hits of that client, in that bucket and within the
\* rule's window, than the limit: none of another client, of an evicted life
\* twice, or of an expired time.
ActionsAreEarned ==
    \A a \in acted :
      Cardinality(HitsSince(a.bucket, a.client, a.at - a.rule.window)) > a.limit

\* The tables stay within their bounds, whichever entries make room, and actions
\* are earned.
BehaviorHolds == BehaviorTypeOK /\ ActionsAreEarned
=============================================================================
