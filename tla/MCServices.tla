----------------------------- MODULE MCServices -----------------------------
(***************************************************************************)
(* Small instances of components that keep state of their own and do not   *)
(* affect each other: the local map of the IP bans, the pattern monitor,   *)
(* the security headers, the response to threats, the behavior rules, the  *)
(* pattern registry, and the decisions of MCDecisions.  A behaviour is one *)
(* of any one of them; the others stay where they start.                   *)
(***************************************************************************)
EXTENDS MCDecisions, ThreatResponse, PatternMonitor, SecurityHeaders,
        PatternRegistry, BehaviorTracker

CONSTANT NoEntry                   \* an absent entry of a map of bans

VARIABLES
    banClock, bannedIPs, lruOrder, bannedNets, banKeys, banCall, granted

banVars == <<banClock, bannedIPs, lruOrder, bannedNets, banKeys, banCall, granted>>

----------------------------------------------------------------------------
\* Two goroutines of one worker fill a map of one entry with two addresses,
\* one of them in two spellings.
B == INSTANCE IPBan WITH
       Workers <- {"w1"}, Callers <- {"c1", "c2"},
       Home <- [c \in {"c1", "c2"} |-> "w1"],
       Spellings <- {"x", "xMapped", "y"}, IPs <- {"x", "y"},
       Canonical <- "x" :> "x" @@ "xMapped" :> "x" @@ "y" :> "y",
       Nets <- {}, Members <- <<>>, Protected <- {}, Durations <- {1},
       Cap <- 1, MaxSize <- 1, RedisConfigured <- TRUE, MaxClock <- 2,
       clock <- banClock, redis <- banKeys, call <- banCall

\* PatternMonitor: a negative time, one that is slow, and a timeout.
EachKind == {[time |-> -1, matched |-> FALSE, timeout |-> FALSE],
             [time |-> 5, matched |-> TRUE, timeout |-> FALSE],
             [time |-> 5, matched |-> FALSE, timeout |-> TRUE]}

\* SecurityHeaders: another worker left a preload with a short age, a garbled
\* block and illegal custom headers.
Preload(age) == [age |-> age, subdomains |-> FALSE, preload |-> TRUE]
NoneOrEither == {Empty, Preload(1), Preload(2)}
GoodOrBad    == {Empty, "good", "bad"}
LeftBehind   == {[csp |-> Garbled, hsts |-> Preload(1), custom |-> "bad"]}
OnlyHSTS     == [csp |-> Empty, hsts |-> Preload(2), custom |-> Empty]

\* ThreatResponse: two categories, the first of which takes longer.
TwoThenOne == <<2, 1>>

\* A usage rule of the route, and two global rules for different responses, the
\* first of them correlated, whose buckets do not fit into their table.
Usage  == [kind |-> "usage", pattern |-> [kind |-> "none"], threshold |-> 1,
           window |-> 1, action |-> "ban", correlate |-> FALSE]
Misses == [kind |-> "return_pattern", threshold |-> 2, window |-> 1,
           pattern |-> [kind |-> "status", valid |-> TRUE, status |-> 404],
           action |-> "ban", correlate |-> TRUE]
OneUsage  == "e" :> <<Usage>>
Bodies == [kind |-> "return_pattern", threshold |-> 1, window |-> 1,
           pattern |-> [kind |-> "body", valid |-> TRUE], action |-> "log", correlate |-> FALSE]
TwoGlobal == <<Misses, Bodies>>
Answers   == {[status |-> 404, body |-> "none"], [status |-> 200, body |-> "inspected"]}

\* A pattern with a comma, whose second piece only an older engine allowed.
RuntimePieces == "q,r" :> <<"q", "r">> @@ "q" :> <<"q">> @@ "r" :> <<"r">>

----------------------------------------------------------------------------
requestVars == <<decisionVars, questionVars, scanVars, pathVars>>

OnlyBans == component = "bans" /\
    UNCHANGED <<component, monitorVars, headersVars, responseVars, behaviorVars,
                registryVars, requestVars>>
OnlyMonitor == component = "monitor" /\
    UNCHANGED <<component, banVars, headersVars, responseVars, behaviorVars,
                registryVars, requestVars>>
OnlyHeaders == component = "headers" /\
    UNCHANGED <<component, banVars, monitorVars, responseVars, behaviorVars,
                registryVars, requestVars>>
OnlyResponse == component = "response" /\
    UNCHANGED <<component, banVars, monitorVars, headersVars, behaviorVars,
                registryVars, requestVars>>
OnlyBehavior == component = "behavior" /\
    UNCHANGED <<component, banVars, monitorVars, headersVars, responseVars,
                registryVars, requestVars>>
OnlyRegistry == component = "registry" /\
    UNCHANGED <<component, banVars, monitorVars, headersVars, responseVars,
                behaviorVars, requestVars>>
OnlyDecisions ==
    UNCHANGED <<banVars, monitorVars, headersVars, responseVars, behaviorVars,
                registryVars>>

Init ==
    /\ \/ /\ component \in {"bans", "monitor", "headers", "response", "behavior", "registry"}
          /\ NoDecision /\ NoIdentity /\ NoAccess /\ NoGuard /\ NoExchange /\ NoMatch
          /\ NoScan /\ NoPath
       \/ DecisionsInit
    /\ B!Init /\ MonitorInit /\ HeadersInit /\ ResponseInit
    /\ BehaviorInit /\ RegistryInit
    /\ component # "registry" => file = NoFile

Next ==
    \/ OnlyBans /\ B!Next
    \/ OnlyMonitor /\ MonitorNext
    \/ OnlyHeaders /\ HeadersNext
    \/ OnlyResponse /\ ResponseNext
    \/ OnlyBehavior /\ BehaviorNext
    \/ OnlyRegistry /\ RegistryNext
    \/ OnlyDecisions /\ DecisionsNext

vars == <<component, banVars, monitorVars, headersVars, responseVars,
          behaviorVars, registryVars, requestVars>>
Spec == Init /\ [][Next]_vars

----------------------------------------------------------------------------
(* The components' properties, stated in their modules, where most of them  *)
(* have their names.                                                       *)

\* Bookkeeping is of what it stands for: the map of bans and the order kept
\* beside it, and the pattern that is reported as the slowest.
BooksAreRight == B!CacheInSync /\ SlowestIsReported
=============================================================================
