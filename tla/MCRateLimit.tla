---------------------------- MODULE MCRateLimit ----------------------------
(* Small instances of RateLimit: one deployment without Redis, one that      *)
(* fails closed and one that fails open, with limits of one or two requests. *)
EXTENDS RateLimit, TLC

CONSTANTS c1, c2, a, b, d, login

None == <<>>
OnePerTwo   == [requests |-> 1, window |-> 2]
TwoPerTwo   == [requests |-> 2, window |-> 2]
TwoPerThree == [requests |-> 2, window |-> 3]
LoginOnePerTwo   == login :> OnePerTwo

\* One call at a time, in memory, through an endpoint and the global tier.
InMemory == [callers |-> {c1}, ips |-> {a}, paths |-> {login},
             limit |-> TwoPerThree, maxKeys |-> 8, redis |-> FALSE,
             failOpen |-> FALSE, autoBan |-> FALSE, fineClock |-> FALSE,
             maxClock |-> 3, maxHits |-> 5, maxResets |-> 0]

\* Two goroutines on one Redis.
FailClosed == [InMemory EXCEPT !.callers = {c1, c2}, !.paths = {}, !.redis = TRUE,
                               !.fineClock = TRUE, !.maxHits = 3]

\* Redis comes and goes under two goroutines whose stores hold one key.
FailOpen == [callers |-> {c1, c2}, ips |-> {a, b}, paths |-> {},
             limit |-> OnePerTwo, maxKeys |-> 1, redis |-> TRUE, failOpen |-> TRUE,
             autoBan |-> TRUE, fineClock |-> FALSE, maxClock |-> 0, maxHits |-> 2,
             maxResets |-> 1]

\* Three clients, two keys.
Crowded == [InMemory EXCEPT !.ips = {a, b, d}, !.paths = {}, !.limit = TwoPerTwo,
                            !.maxKeys = 2, !.maxClock = 0, !.maxHits = 7]

All == {InMemory, FailClosed, FailOpen}
OnlyCrowded == {Crowded}
=============================================================================
