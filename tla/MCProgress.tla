----------------------------- MODULE MCProgress -----------------------------
(***************************************************************************)
(* Small instances of components of which something must happen in the     *)
(* end: the check pipeline, the dynamic rules, the event stream, and the   *)
(* bounded reads of request bodies.  They do not affect each other here,   *)
(* so a behaviour is one of any one of them, and the others stay where     *)
(* they start.                                                             *)
(***************************************************************************)
EXTENDS AgentStream, BodyRead, TLC

CONSTANTS Keep, Never, NoRule               \* model values of the dynamic rules

VARIABLES
    component,                                              \* the one that runs
    cfg, writer, updates, routes, pipeline, req,            \* CheckPipeline
    clock, crashes, rulesCfg, announced, mgr, poll, ruleKey, file, recent
                                                            \* DynamicRules

\* One update of a config between two contents, which lists user agents or not.
P == INSTANCE CheckPipeline WITH
       Requests <- {"c1", "c2"},
       Checks <- {"headers", "ip_security", "user_agent", "rate_limit"},
       Before <- "headers" :> {} @@ "ip_security" :> {"headers"}
                 @@ "user_agent" :> {"headers", "ip_security"}
                 @@ "rate_limit" :> {"headers", "ip_security", "user_agent"},
       OnExcluded <- {"ip_security", "rate_limit"},
       Contents <- {"plain", "listed"}, Initial <- "plain",
       Applies <- "plain" :> {"ip_security"}
                  @@ "listed" :> {"ip_security", "user_agent"},
       SizeOf <- "plain" :> 0 @@ "listed" :> 1,
       Routes <- {}, RouteApplies <- <<>>,
       RedisFailOpen <- FALSE, FailSecure <- TRUE, UpdatesMayFail <- TRUE,
       MaxUpdates <- 1, registry <- routes

\* One update loop, a rule in two versions that expire, and a lockdown.
Blank == [id |-> "geo", version |-> 1, expires |-> 2, blocking |-> Keep,
          limits |-> Keep, toggles |-> Keep, emergency |-> Keep, threshold |-> Keep]
Fleet == {[Blank EXCEPT !.expires = 1, !.blocking = "closed", !.threshold = 4],
          [Blank EXCEPT !.version = 2, !.limits = "closed", !.blocking = "open"],
          [Blank EXCEPT !.id = "lockdown", !.emergency = "closed"]}
D == INSTANCE DynamicRules WITH
       Configs <- {"k1"}, Managers <- {"m1"}, ConfigOf <- "m1" :> "k1",
       Loops <- {"loop1"}, Direct <- {}, ManagerOf <- "loop1" :> "m1",
       Rules <- Fleet, Values <- {"open", "closed"},
       Static <- [blocking |-> "open", limits |-> "open", toggles |-> "open",
                  emergency |-> "open", threshold |-> 3],
       UseRedis <- TRUE, UseFile <- TRUE, ReadsMayFail <- FALSE,
       WritesMayFail <- FALSE, ApplyMayFail <- TRUE, MaxClock <- 3, MaxCrashes <- 1,
       cfg <- rulesCfg, call <- poll, redis <- ruleKey

\* AgentStream: two engines, one with both exporters, one with the second
\* Logfire one.
Message(id, sort, type, from) == [id |-> id, sort |-> sort, type |-> type, from |-> from]
Reported ==
    {<<"e1", Message(1, "event", "ip_banned", "middleware")>>,
     <<"e1", Message(2, "event", "ip_banned", "handler")>>,
     <<"e1", Message(3, "metric", "queue_size", "collector")>>,
     <<"e2", Message(4, "event", "muted", "handler")>>}
Sendable == {r[2] : r \in Reported}
Composed == "e1" :> <<"o", "l1">> @@ "e2" :> <<"l2">>

pipeVars   == <<cfg, writer, updates, routes, pipeline, req>>
rulesVars  == <<clock, crashes, rulesCfg, announced, mgr, poll, ruleKey, file, recent>>
vars == <<component, pipeVars, rulesVars, streamVars, bodyVars>>

OnlyPipeline == component = "pipeline" /\
    UNCHANGED <<component, rulesVars, streamVars, bodyVars>>
OnlyRules == component = "rules" /\
    UNCHANGED <<component, pipeVars, streamVars, bodyVars>>
OnlyStream == component = "stream" /\
    UNCHANGED <<component, pipeVars, rulesVars, bodyVars>>
OnlyBody == component = "body" /\
    UNCHANGED <<component, pipeVars, rulesVars, streamVars>>

Init == /\ component \in {"pipeline", "rules", "stream", "body"}
        /\ P!Init /\ D!Init /\ StreamInit /\ BodyInit

Next == \/ OnlyPipeline /\ P!Next
        \/ OnlyRules /\ D!Next
        \/ OnlyStream /\ StreamNext
        \/ OnlyBody /\ BodyNext

\* The fairness of the components' own specifications.
Fairness ==
    /\ \A c \in {"c1", "c2"} :
          /\ WF_vars(OnlyPipeline /\ P!Serve(c))
          /\ WF_vars(OnlyPipeline /\ \E x \in BOOLEAN : P!Arrive(c, x))
    /\ WF_vars(OnlyPipeline /\ P!FinishFields)
    /\ WF_vars(OnlyPipeline /\ P!CommitUpdate)
    /\ WF_vars(OnlyRules /\ (D!Fetch("loop1") \/ D!Apply("loop1")))
    /\ SF_vars(OnlyRules /\ D!Expire("loop1")) /\ SF_vars(OnlyRules /\ D!Gate("loop1"))
    /\ SF_vars(OnlyRules /\ D!Hydrate("loop1")) /\ SF_vars(OnlyRules /\ D!EndLoop("loop1"))
    /\ WF_vars(OnlyRules /\ D!Tick)
    /\ WF_vars(OnlyStream /\ LoopTick("o"))
    /\ \A t \in {"c1", "o"} : WF_vars(OnlyStream /\ Work(t))
    /\ \A r \in {"r1", "r2"} :
          /\ WF_vars(OnlyBody /\ TimeOut(r))
          /\ WF_vars(OnlyBody /\ \E g \in reads : g.request = r /\ Goroutine(g))

LiveSpec == Init /\ [][Next]_vars /\ Fairness

----------------------------------------------------------------------------
(* The components' properties, stated in their modules; ExportsAreSeparate *)
(* of AgentStream and ReadsAreCounted of BodyRead keep their names.        *)

\* Requests that keep coming meet the current list of checks in the end.
EventuallyCurrent == P!EventuallyCurrent

\* An expired rule is dropped even if the agent never delivers one again, Stop
\* returns because the loop it waits for ends, and what the exporter of a running
\* loop holds leaves it; no caller waits for a body for ever, and reads end unless
\* their stream hangs.
WorkEnds == D!ExpiredEnds /\ D!StopDrains /\ LoopDrains /\ CallersReturn /\ ReadsEnd
=============================================================================
