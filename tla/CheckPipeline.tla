---------------------------- MODULE CheckPipeline ----------------------------
(***************************************************************************)
(* SecurityCheckPipeline (pipeline.go): the list of checks every request   *)
(* runs is built from the live SecurityConfig and the RouteRegistry, and   *)
(* Execute rebuilds it when a revision or a container length differs from  *)
(* the one it was built for.  Requests run concurrently with each other,   *)
(* with the one writer of the config (DynamicRuleManager, under its own    *)
(* mutex), with the embedding program, which may grow a watched container  *)
(* in place, and with RouteRegistry.Register.                              *)
(*                                                                         *)
(* The config is abstracted to a content: what matters of it is which      *)
(* checks it makes apply and how long its watched containers are.          *)
(***************************************************************************)
EXTENDS Integers, FiniteSets

CONSTANTS
    Requests,       \* goroutines serving requests
    Checks,         \* check names, the elements of specs in buildChecks
    Before,         \* Before[k]: the checks that run before k
    OnExcluded,     \* checks that also run on excluded paths
    Contents,       \* contents of the config
    Initial,        \* the content at construction
    Applies,        \* Applies[t]: the checks content t makes apply
    SizeOf,         \* containerSignature of a content
    Routes,         \* routes the program registers
    RouteApplies,   \* RouteApplies[r]: the checks route r makes apply
    RedisFailOpen, FailSecure,
    UpdatesMayFail, \* a rule application may panic and be rolled back
    MaxUpdates      \* bound on writes to the config

ASSUME ChecksAssumption ==
    /\ Before \in [Checks -> SUBSET Checks]
    /\ OnExcluded \subseteq Checks
ASSUME ContentAssumption ==
    /\ Initial \in Contents
    /\ Applies \in [Contents -> SUBSET Checks]
    /\ SizeOf \in [Contents -> Nat]
ASSUME RouteAssumption == RouteApplies \in [Routes -> SUBSET Checks]
ASSUME SwitchAssumption == /\ RedisFailOpen \in BOOLEAN /\ FailSecure \in BOOLEAN
                           /\ UpdatesMayFail \in BOOLEAN /\ MaxUpdates \in Nat

VARIABLES
    cfg,        \* the live config: its content and its revision
    writer,     \* the config's writer: idle, or with a rule half applied; undone
                \* (history): a rule was rolled back since the last revision
    updates,    \* writes begun so far
    registry,   \* the registered routes and the registry's revision
    pipeline,   \* the built checks and what they were built for
    req         \* req[c]: the progress of goroutine c

vars == <<cfg, writer, updates, registry, pipeline, req>>

----------------------------------------------------------------------------
CfgChecks == UNION {Applies[t] : t \in Contents}
RouteChecks == UNION {RouteApplies[r] : r \in Routes}

\* buildChecks: the specs that apply to the config or to some route.
Build(content, routes) ==
    Applies[content] \cup UNION {RouteApplies[r] : r \in routes}

\* isStale.
IsStale ==
    \/ cfg.revision # pipeline.revision
    \/ SizeOf[cfg.content] # pipeline.signature
    \/ registry.revision # pipeline.routeRevision

Steps == {"idle", "stale", "build", "evaluate", "routeRevision", "store",
          "take", "run", "admitted", "blocked", "failed"}

Request == [pc : Steps, excluded : BOOLEAN, revision : Nat, signature : Nat,
            routes : SUBSET Routes, checks : SUBSET Checks,
            routeRevision : Nat, left : SUBSET Checks, passed : SUBSET Checks]

NoRequest == [pc |-> "idle", excluded |-> FALSE, revision |-> 0, signature |-> 0,
              routes |-> {}, checks |-> {}, routeRevision |-> 0, left |-> {},
              passed |-> {}]

Doing(c, step) == req[c].pc = step
Finished(c) == req[c].pc \in {"idle", "admitted", "blocked", "failed"}

Init ==
    /\ cfg = [content |-> Initial, revision |-> 0]
    /\ writer = [pc |-> "idle", base |-> Initial, target |-> Initial,
                 undone |-> FALSE]
    /\ updates = 0
    /\ registry = [routes |-> {}, revision |-> 0, pending |-> {}]
    /\ pipeline = [checks |-> Build(Initial, {}), revision |-> 0,
                   signature |-> SizeOf[Initial], routeRevision |-> 0]
    /\ req = [c \in Requests |-> NoRequest]

----------------------------------------------------------------------------
(* The writer of the config: a rule's fields reach the live config one     *)
(* after the other, and the revision is bumped after the last.             *)

\* Some fields are set: the content is neither the old nor yet the new one.
BeginUpdate(target, mixture) ==
    /\ writer.pc = "idle"
    /\ updates < MaxUpdates
    /\ updates' = updates + 1
    /\ writer' = [writer EXCEPT !.pc = "applying", !.base = cfg.content,
                                !.target = target]
    /\ cfg' = [cfg EXCEPT !.content = mixture]
    /\ UNCHANGED <<registry, pipeline, req>>

FinishFields ==
    /\ writer.pc = "applying"
    /\ writer' = [writer EXCEPT !.pc = "applied"]
    /\ cfg' = [cfg EXCEPT !.content = writer.target]
    /\ UNCHANGED <<updates, registry, pipeline, req>>

\* BumpRevision, after the rule was persisted.
CommitUpdate ==
    /\ writer.pc = "applied"
    /\ writer' = [writer EXCEPT !.pc = "idle", !.undone = FALSE]
    /\ cfg' = [cfg EXCEPT !.revision = @ + 1]
    /\ UNCHANGED <<updates, registry, pipeline, req>>

\* Mutation of FailUpdate: the rollback takes back a bump never made.
FailUpdateRewinding ==
    /\ UpdatesMayFail
    /\ writer.pc = "applying"
    /\ writer' = [writer EXCEPT !.pc = "idle", !.undone = TRUE]
    /\ cfg' = [content |-> writer.base, revision |-> cfg.revision - 1]
    /\ UNCHANGED <<updates, registry, pipeline, req>>

\* A panic while the fields are set: restoreSnapshot, and no BumpRevision.
FailUpdate ==
    /\ UpdatesMayFail
    /\ writer.pc = "applying"
    /\ writer' = [writer EXCEPT !.pc = "idle", !.undone = TRUE]
    /\ cfg' = [cfg EXCEPT !.content = writer.base]
    /\ UNCHANGED <<updates, registry, pipeline, req>>

\* The embedding program grows a watched container in place.
GrowContainer(t) ==
    /\ writer.pc = "idle"
    /\ updates < MaxUpdates
    /\ SizeOf[t] > SizeOf[cfg.content]
    /\ updates' = updates + 1
    /\ cfg' = [cfg EXCEPT !.content = t]
    /\ UNCHANGED <<writer, registry, pipeline, req>>

----------------------------------------------------------------------------
(* RouteRegistry.Register: the map under its lock, then the revision.      *)

RegisterRoute(r) ==
    /\ r \notin registry.routes
    /\ registry' = [registry EXCEPT !.routes = @ \cup {r},
                                    !.pending = @ \cup {r}]
    /\ UNCHANGED <<cfg, writer, updates, pipeline, req>>

BumpRoutes(r) ==
    /\ r \in registry.pending
    /\ registry' = [registry EXCEPT !.revision = @ + 1, !.pending = @ \ {r}]
    /\ UNCHANGED <<cfg, writer, updates, pipeline, req>>

----------------------------------------------------------------------------
(* Execute: rebuildIfStale, then the walk over the checks.                 *)

Arrive(c, excluded) ==
    /\ Finished(c)
    /\ req' = [req EXCEPT ![c] =
          [NoRequest EXCEPT !.pc = IF IsStale THEN "stale" ELSE "take",
                            !.excluded = excluded]]
    /\ UNCHANGED <<cfg, writer, updates, registry, pipeline>>

\* The revision and the signature are read before the checks are built.
ReadRevision(c) ==
    /\ Doing(c, "stale")
    /\ req' = [req EXCEPT ![c].pc = "build",
                          ![c].revision = cfg.revision,
                          ![c].signature = SizeOf[cfg.content]]
    /\ UNCHANGED <<cfg, writer, updates, registry, pipeline>>

\* buildChecks: RouteConfigs first, then each spec against the live config.
ReadRoutes(c) ==
    /\ Doing(c, "build")
    /\ req' = [req EXCEPT ![c].pc = "evaluate", ![c].routes = registry.routes]
    /\ UNCHANGED <<cfg, writer, updates, registry, pipeline>>

Evaluate(c) ==
    /\ Doing(c, "evaluate")
    /\ req' = [req EXCEPT ![c].pc = "routeRevision",
                          ![c].checks = Build(cfg.content, req[c].routes)]
    /\ UNCHANGED <<cfg, writer, updates, registry, pipeline>>

\* The route revision is read after the routes were.
ReadRouteRevision(c) ==
    /\ Doing(c, "routeRevision")
    /\ req' = [req EXCEPT ![c].pc = "store",
                          ![c].routeRevision = registry.revision]
    /\ UNCHANGED <<cfg, writer, updates, registry, pipeline>>

\* Mutation of Store: the list is stamped with what the config is by now.
StoreAsCurrent(c) ==
    /\ Doing(c, "store")
    /\ pipeline' = [checks |-> req[c].checks, revision |-> cfg.revision,
                    signature |-> SizeOf[cfg.content],
                    routeRevision |-> req[c].routeRevision]
    /\ req' = [req EXCEPT ![c] =
          [NoRequest EXCEPT !.pc = "take", !.excluded = req[c].excluded]]
    /\ UNCHANGED <<cfg, writer, updates, registry>>

\* The rebuilt list is stored whatever was stored since it was begun.
Store(c) ==
    /\ Doing(c, "store")
    /\ pipeline' = [checks |-> req[c].checks, revision |-> req[c].revision,
                    signature |-> req[c].signature,
                    routeRevision |-> req[c].routeRevision]
    /\ req' = [req EXCEPT ![c] =
          [NoRequest EXCEPT !.pc = "take", !.excluded = req[c].excluded]]
    /\ UNCHANGED <<cfg, writer, updates, registry>>

\* The request keeps the list it takes here, without the checks that are
\* not enforced on an excluded path.
TakeChecks(c) ==
    /\ Doing(c, "take")
    /\ req' = [req EXCEPT ![c].pc = "run",
          ![c].left = IF req[c].excluded THEN pipeline.checks \cap OnExcluded
                      ELSE pipeline.checks]
    /\ UNCHANGED <<cfg, writer, updates, registry, pipeline>>

\* The check that runs next: none that is left runs before it.
NextCheck(c, k) == /\ Doing(c, "run")
                   /\ k \in req[c].left
                   /\ Before[k] \cap req[c].left = {}

PassCheck(c, k) ==
    /\ NextCheck(c, k)
    /\ req' = [req EXCEPT ![c].left = @ \ {k}, ![c].passed = @ \cup {k}]
    /\ UNCHANGED <<cfg, writer, updates, registry, pipeline>>

\* A response ends the walk.
BlockByCheck(c, k) ==
    /\ NextCheck(c, k)
    /\ req' = [req EXCEPT ![c] = [NoRequest EXCEPT !.pc = "blocked"]]
    /\ UNCHANGED <<cfg, writer, updates, registry, pipeline>>

\* Mutation of CheckErrors: every Redis error fails open.
CheckErrorsOpen(c, k, redisError) ==
    /\ NextCheck(c, k)
    /\ req' = IF redisError \/ ~FailSecure
              THEN [req EXCEPT ![c].left = @ \ {k}]
              ELSE [req EXCEPT ![c] = [NoRequest EXCEPT !.pc = "failed"]]
    /\ UNCHANGED <<cfg, writer, updates, registry, pipeline>>

\* handleCheckError: a Redis error fails open before fail-secure is asked.
CheckErrors(c, k, redisError) ==
    /\ NextCheck(c, k)
    /\ req' = IF (redisError /\ RedisFailOpen) \/ ~FailSecure
              THEN [req EXCEPT ![c].left = @ \ {k}]
              ELSE [req EXCEPT ![c] = [NoRequest EXCEPT !.pc = "failed"]]
    /\ UNCHANGED <<cfg, writer, updates, registry, pipeline>>

Admit(c) ==
    /\ Doing(c, "run")
    /\ req[c].left = {}
    /\ req' = [req EXCEPT ![c].pc = "admitted"]
    /\ UNCHANGED <<cfg, writer, updates, registry, pipeline>>

Serve(c) ==
    \/ ReadRevision(c) \/ ReadRoutes(c) \/ Evaluate(c) \/ ReadRouteRevision(c)
    \/ Store(c) \/ TakeChecks(c) \/ Admit(c)
    \/ \E k \in Checks :
          \/ PassCheck(c, k) \/ BlockByCheck(c, k)
          \/ \E redisError \in BOOLEAN : CheckErrors(c, k, redisError)

Write ==
    \/ \E target, mixture \in Contents : BeginUpdate(target, mixture)
    \/ FinishFields \/ CommitUpdate \/ FailUpdate
    \/ \E t \in Contents : GrowContainer(t)

Next ==
    \/ \E c \in Requests : Serve(c) \/ \E x \in BOOLEAN : Arrive(c, x)
    \/ Write
    \/ \E r \in Routes : RegisterRoute(r) \/ BumpRoutes(r)

Spec == Init /\ [][Next]_vars
\* Requests keep coming, and goroutines and the writer make progress.
Fairness == /\ \A c \in Requests :
                  /\ WF_vars(Serve(c))
                  /\ WF_vars(\E x \in BOOLEAN : Arrive(c, x))
            /\ WF_vars(FinishFields) /\ WF_vars(CommitUpdate)
            /\ \A r \in Routes : WF_vars(BumpRoutes(r))

LiveSpec == Spec /\ Fairness

----------------------------------------------------------------------------
(* Properties.                                                             *)

\* Every variable keeps its type.
TypeOK ==
    /\ cfg \in [content : Contents, revision : Nat]
    /\ writer \in [pc : {"idle", "applying", "applied"},
                   base : Contents, target : Contents, undone : BOOLEAN]
    /\ updates \in Nat
    /\ registry \in [routes : SUBSET Routes, revision : Nat,
                     pending : SUBSET Routes]
    /\ pipeline \in [checks : SUBSET Checks, revision : Nat, signature : Nat,
                     routeRevision : Nat]
    /\ req \in [Requests -> Request]

\* Of the checks only the config decides, the list holds those that apply.
Agrees(checks, content) ==
    checks \ RouteChecks = Applies[content] \ RouteChecks

\* The config is as its revision says: no rule is half applied, and none was
\* rolled back since, which leaves the revision alone.
AtRest == writer.pc = "idle" /\ ~writer.undone

\* While the config is at rest, a list that isStale accepts was built from it
\* as it is, whatever rebuilds, stores, updates and earlier rollbacks overlapped.
FreshMeansCurrent ==
    AtRest /\ ~IsStale => Agrees(pipeline.checks, cfg.content)

\* The same of the checks a route registration makes apply: a registered
\* route marks the list stale until a rebuild has seen the route.
RoutesAreSeen ==
    registry.pending = {} /\ ~IsStale =>
        UNION {RouteApplies[r] : r \in registry.routes} \subseteq pipeline.checks

\* The checks every config enables (ip_security, route_config), among those
\* a request is due on its path.
AlwaysDue(c) ==
    {k \in Checks : /\ \A t \in Contents : k \in Applies[t]
                    /\ req[c].excluded => k \in OnExcluded}

\* In fail-secure mode no request is admitted that a check enabled by every
\* config did not pass, whatever was rebuilt while it was served.
AdmittedIsVetted ==
    FailSecure /\ ~RedisFailOpen =>
        \A c \in Requests : Doing(c, "admitted") => AlwaysDue(c) \subseteq req[c].passed

\* Once the config stops changing, the list in use becomes and stays the one
\* the config calls for, even if a slow rebuild replaces a newer one, unless the
\* last thing that happened to the config is a rollback.
EventuallyCurrent == <>[](AtRest => Agrees(pipeline.checks, cfg.content))
=============================================================================
