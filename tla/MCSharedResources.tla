-------------------------- MODULE MCSharedResources --------------------------
(***************************************************************************)
(* Small instances of components that share a resource between goroutines, *)
(* and of which something must happen in the end: the engines of one       *)
(* config with their Redis manager, the cloud ranges, and the geo database.*)
(* They do not affect each other here, so a behaviour is one of any one of *)
(* them, and the others stay where they start.                             *)
(***************************************************************************)
EXTENDS Integers

CONSTANTS
    Engines, Callers, NoEngine, EnableRedis, RedisFailOpen, DynamicRules,
    MaxClients,
    Requests, Starters, Providers, Interval, UseStore, MaxTime,
    Lookers, Refreshers, UseRedis, MaxReaders

\* Goroutines that start an engine serve no request meanwhile; time is counted.
ASSUME InstanceAssumption ==
    /\ NoEngine \notin Engines
    /\ Requests \cap Starters = {}
    /\ Interval \in Nat

VARIABLES
    component,                                              \* the one that runs
    engine, registry, redis, loop, call, late,              \* EngineLifecycle
    time, stamp, inFlight, ranges, stored, check, job,      \* CloudRanges
    disk, copy, geo, look                                   \* GeoDatabase

E == INSTANCE EngineLifecycle
C == INSTANCE CloudRanges
G == INSTANCE GeoDatabase

engineVars == <<engine, registry, redis, loop, call, late>>
cloudVars  == <<time, stamp, inFlight, ranges, stored, check, job>>
geoVars    == <<disk, copy, geo, look>>
vars == <<component, engineVars, cloudVars, geoVars>>

OnlyEngine == component = "engine" /\ UNCHANGED <<component, cloudVars, geoVars>>
OnlyCloud  == component = "cloud" /\ UNCHANGED <<component, engineVars, geoVars>>
OnlyGeo    == component = "geo" /\ UNCHANGED <<component, engineVars, cloudVars>>

Init == /\ component \in {"engine", "cloud", "geo"}
        /\ E!Init /\ C!Init /\ G!Init
        /\ component # "geo" => disk = "none" /\ copy = "none"

Next == \/ OnlyEngine /\ E!Next
        \/ OnlyCloud /\ C!Next
        \/ OnlyGeo /\ G!Next

\* The fairness of the components' own specifications.
Fairness ==
    /\ \A c \in Callers :
          WF_vars(OnlyEngine /\ (E!Startup(c) \/ E!Wait(c) \/ E!Shutdown(c)))
    /\ \A e \in Engines : WF_vars(OnlyEngine /\ E!EndLoop(e))
    /\ \A j \in Requests : WF_vars(OnlyCloud /\ C!Refresh(j))

Spec == Init /\ [][Next]_vars
LiveSpec == Spec /\ Fairness

----------------------------------------------------------------------------
(* The components' properties, stated in their modules.                    *)

\* At most one scheduled refresh runs, and the flag is set while it does.
OneRefresh == C!TypeOK /\ C!OneRefresh

\* No refresh forgets the ranges of a provider once known.
RangesStay == C!RangesStay

\* Only stacks that went through the whole start-up are offered and used, and an
\* engine that starts after a registration leaves its own cold.
StacksAreShared == E!TypeOK /\ E!StacksAreWarm /\ E!LateAdopts

\* Each reader opened is in use or closed, and a closed one is held only after a
\* database that could not be opened.
ReadersAreKept == G!TypeOK /\ G!NoReaderLost /\ G!ClosedOnlyByFailure

\* Initialize and Close return whatever other goroutines do to the stack, and a
\* refresh ends and lets the next one be scheduled.
EveryoneReturns == E!CallsReturn /\ C!RefreshEnds
=============================================================================
