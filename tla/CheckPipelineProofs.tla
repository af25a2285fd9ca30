------------------------- MODULE CheckPipelineProofs -------------------------
(***************************************************************************)
(* Proofs about CheckPipeline, for any checks, config contents, routes and *)
(* any number of requests.                                                 *)
(***************************************************************************)
EXTENDS CheckPipeline, TLAPS

\* A revision and a signature read earlier: the revision is not ahead of the
\* config's, and at the revision of a config at rest containers only grow.
Known(revision, signature) ==
    /\ revision <= cfg.revision
    /\ AtRest /\ revision = cfg.revision
          => signature <= SizeOf[cfg.content]

\* Checks built after they were read agree with a config that still has them.
Fits(checks, revision, signature) ==
    /\ AtRest
    /\ revision = cfg.revision
    /\ signature = SizeOf[cfg.content]
    => Agrees(checks, cfg.content)

PipelineInv == /\ Known(pipeline.revision, pipeline.signature)
               /\ Fits(pipeline.checks, pipeline.revision, pipeline.signature)

RebuildInv(c) ==
    /\ req[c].pc \in {"build", "evaluate", "routeRevision", "store"}
          => Known(req[c].revision, req[c].signature)
    /\ req[c].pc \in {"routeRevision", "store"}
          => Fits(req[c].checks, req[c].revision, req[c].signature)

FreshInv == TypeOK /\ PipelineInv /\ \A c \in Requests : RebuildInv(c)

\* The checks every content makes apply.
AlwaysOn == {k \in Checks : \A t \in Contents : k \in Applies[t]}

WalkInv(c) ==
    /\ req[c].pc \in {"routeRevision", "store"} => AlwaysOn \subseteq req[c].checks
    /\ req[c].pc = "run" => AlwaysDue(c) \subseteq req[c].left \cup req[c].passed
    /\ req[c].pc = "admitted" => AlwaysDue(c) \subseteq req[c].passed

VettedInv == /\ TypeOK
             /\ AlwaysOn \subseteq pipeline.checks
             /\ \A c \in Requests : WalkInv(c)

----------------------------------------------------------------------------
(* buildChecks.                                                            *)

\* What a rebuild returns: only checks, all those every content enables, and
\* beyond the checks of routes exactly those of the content.
LEMMA BuildFacts ==
    ASSUME NEW t \in Contents, NEW routes \in SUBSET Routes
    PROVE  /\ Build(t, routes) \in SUBSET Checks
           /\ AlwaysOn \subseteq Build(t, routes)
           /\ Agrees(Build(t, routes), t)
<1>1. Applies[t] \in SUBSET Checks
  BY ContentAssumption
<1>2. \A r \in routes : RouteApplies[r] \in SUBSET Checks
  BY RouteAssumption
<1>3. UNION {RouteApplies[r] : r \in routes} \subseteq RouteChecks
  BY DEF RouteChecks
<1> QED
  BY <1>1, <1>2, <1>3 DEF Build, AlwaysOn, Agrees

----------------------------------------------------------------------------
(* Types.                                                                  *)

LEMMA NoRequestType == NoRequest \in Request
BY DEF NoRequest, Request, Steps

\* A request whose record is replaced by a well-typed one keeps req typed.
LEMMA RequestType ==
    ASSUME TypeOK, NEW c \in Requests, NEW r \in Request,
           req' = [req EXCEPT ![c] = r],
           UNCHANGED <<cfg, writer, updates, registry>>,
           pipeline' \in [checks : SUBSET Checks, revision : Nat,
                          signature : Nat, routeRevision : Nat]
    PROVE  TypeOK'
BY DEF TypeOK

LEMMA InitType == Init => TypeOK
<1> SUFFICES ASSUME Init PROVE TypeOK
  OBVIOUS
<1>1. Build(Initial, {}) \in SUBSET Checks
  BY BuildFacts, ContentAssumption
<1>2. Initial \in Contents /\ SizeOf[Initial] \in Nat
  BY ContentAssumption
<1> QED
  BY <1>1, <1>2, NoRequestType DEF Init, TypeOK

\* Every step of a request keeps the types.
LEMMA ServeType ==
    ASSUME TypeOK, NEW c \in Requests, Serve(c) \/ \E x \in BOOLEAN : Arrive(c, x)
    PROVE  TypeOK'
<1> USE NoRequestType
<1>0. /\ req[c] \in Request
      /\ SizeOf[cfg.content] \in Nat
      /\ cfg.content \in Contents
      /\ cfg.revision \in Nat
  BY ContentAssumption DEF TypeOK
<1>1. ASSUME NEW x \in BOOLEAN, Arrive(c, x) PROVE TypeOK'
  <2> DEFINE r == [NoRequest EXCEPT !.pc = IF IsStale THEN "stale" ELSE "take",
                                    !.excluded = x]
  <2>1. r \in Request
    BY DEF Request, Steps, NoRequest
  <2> QED
    BY <1>1, <2>1, RequestType DEF Arrive, TypeOK
<1>2. ASSUME ReadRevision(c) PROVE TypeOK'
  <2> DEFINE r == [req[c] EXCEPT !.pc = "build", !.revision = cfg.revision,
                                 !.signature = SizeOf[cfg.content]]
  <2>1. r \in Request
    BY <1>0 DEF Request, Steps
  <2>2. req' = [req EXCEPT ![c] = r]
    BY <1>2 DEF ReadRevision, TypeOK
  <2> QED
    BY <1>2, <2>1, <2>2, RequestType DEF ReadRevision, TypeOK
<1>3. ASSUME ReadRoutes(c) PROVE TypeOK'
  <2> DEFINE r == [req[c] EXCEPT !.pc = "evaluate", !.routes = registry.routes]
  <2>1. r \in Request
    BY <1>0 DEF Request, Steps, TypeOK
  <2>2. req' = [req EXCEPT ![c] = r]
    BY <1>3 DEF ReadRoutes, TypeOK
  <2> QED
    BY <1>3, <2>1, <2>2, RequestType DEF ReadRoutes, TypeOK
<1>4. ASSUME Evaluate(c) PROVE TypeOK'
  <2> DEFINE r == [req[c] EXCEPT !.pc = "routeRevision",
                                 !.checks = Build(cfg.content, req[c].routes)]
  <2>1. Build(cfg.content, req[c].routes) \in SUBSET Checks
    BY <1>0, BuildFacts DEF Request
  <2>2. r \in Request
    BY <1>0, <2>1 DEF Request, Steps
  <2>3. req' = [req EXCEPT ![c] = r]
    BY <1>4 DEF Evaluate, TypeOK
  <2> QED
    BY <1>4, <2>2, <2>3, RequestType DEF Evaluate, TypeOK
<1>5. ASSUME ReadRouteRevision(c) PROVE TypeOK'
  <2> DEFINE r == [req[c] EXCEPT !.pc = "store",
                                 !.routeRevision = registry.revision]
  <2>1. r \in Request
    BY <1>0 DEF Request, Steps, TypeOK
  <2>2. req' = [req EXCEPT ![c] = r]
    BY <1>5 DEF ReadRouteRevision, TypeOK
  <2> QED
    BY <1>5, <2>1, <2>2, RequestType DEF ReadRouteRevision, TypeOK
<1>6. ASSUME Store(c) PROVE TypeOK'
  <2> DEFINE r == [NoRequest EXCEPT !.pc = "take", !.excluded = req[c].excluded]
  <2>1. r \in Request
    BY <1>0 DEF Request, Steps, NoRequest
  <2>2. pipeline' \in [checks : SUBSET Checks, revision : Nat, signature : Nat,
                       routeRevision : Nat]
    BY <1>0, <1>6 DEF Store, Request
  <2> QED
    BY <1>6, <2>1, <2>2, RequestType DEF Store
<1>7. ASSUME TakeChecks(c) PROVE TypeOK'
  <2> DEFINE r == [req[c] EXCEPT !.pc = "run",
                      !.left = IF req[c].excluded
                               THEN pipeline.checks \cap OnExcluded
                               ELSE pipeline.checks]
  <2>1. r \in Request
    BY <1>0 DEF Request, Steps, TypeOK
  <2>2. req' = [req EXCEPT ![c] = r]
    BY <1>7 DEF TakeChecks, TypeOK
  <2> QED
    BY <1>7, <2>1, <2>2, RequestType DEF TakeChecks, TypeOK
<1>8. ASSUME NEW k \in Checks, PassCheck(c, k) PROVE TypeOK'
  <2> DEFINE r == [req[c] EXCEPT !.left = @ \ {k}, !.passed = @ \cup {k}]
  <2>1. r \in Request
    BY <1>0 DEF Request
  <2>2. req' = [req EXCEPT ![c] = r]
    BY <1>8 DEF PassCheck, TypeOK
  <2> QED
    BY <1>8, <2>1, <2>2, RequestType DEF PassCheck, TypeOK
<1>9. ASSUME NEW k \in Checks, BlockByCheck(c, k) PROVE TypeOK'
  <2>1. [NoRequest EXCEPT !.pc = "blocked"] \in Request
    BY DEF Request, Steps, NoRequest
  <2> QED
    BY <1>9, <2>1, RequestType DEF BlockByCheck, TypeOK
<1>10. ASSUME NEW k \in Checks, NEW e \in BOOLEAN, CheckErrors(c, k, e)
       PROVE  TypeOK'
  <2>1. [NoRequest EXCEPT !.pc = "failed"] \in Request
    BY DEF Request, Steps, NoRequest
  <2> DEFINE r == [req[c] EXCEPT !.left = @ \ {k}]
  <2>2. r \in Request
    BY <1>0 DEF Request
  <2>3. \/ req' = [req EXCEPT ![c] = r]
        \/ req' = [req EXCEPT ![c] = [NoRequest EXCEPT !.pc = "failed"]]
    BY <1>10 DEF CheckErrors, TypeOK
  <2> HIDE DEF r
  <2> QED
    BY <1>10, <2>1, <2>2, <2>3, RequestType DEF CheckErrors, TypeOK
<1>11. ASSUME Admit(c) PROVE TypeOK'
  <2> DEFINE r == [req[c] EXCEPT !.pc = "admitted"]
  <2>1. r \in Request
    BY <1>0 DEF Request, Steps
  <2>2. req' = [req EXCEPT ![c] = r]
    BY <1>11 DEF Admit, TypeOK
  <2> QED
    BY <1>11, <2>1, <2>2, RequestType DEF Admit, TypeOK
<1> QED
  BY <1>1, <1>2, <1>3, <1>4, <1>5, <1>6, <1>7, <1>8, <1>9, <1>10, <1>11 DEF Serve

\* So does every step of the config's writer and of the route registry.
LEMMA OthersType ==
    ASSUME TypeOK, Write \/ \E r \in Routes : RegisterRoute(r) \/ BumpRoutes(r)
    PROVE  TypeOK'
<1>1. ASSUME NEW target \in Contents, NEW mixture \in Contents,
             BeginUpdate(target, mixture)
      PROVE  TypeOK'
  <2>1. writer' \in [pc : {"idle", "applying", "applied"},
                     base : Contents, target : Contents, undone : BOOLEAN]
    BY <1>1 DEF BeginUpdate, TypeOK
  <2> QED
    BY <1>1, <2>1 DEF BeginUpdate, TypeOK
<1>2. ASSUME FinishFields PROVE TypeOK'
  BY <1>2 DEF FinishFields, TypeOK
<1>3. ASSUME CommitUpdate PROVE TypeOK'
  <2>1. writer' \in [pc : {"idle", "applying", "applied"},
                     base : Contents, target : Contents, undone : BOOLEAN]
    BY <1>3 DEF CommitUpdate, TypeOK
  <2>2. cfg' \in [content : Contents, revision : Nat]
    BY <1>3 DEF CommitUpdate, TypeOK
  <2> QED
    BY <1>3, <2>1, <2>2 DEF CommitUpdate, TypeOK
<1>4. ASSUME FailUpdate PROVE TypeOK'
  <2>1. /\ writer' \in [pc : {"idle", "applying", "applied"},
                        base : Contents, target : Contents, undone : BOOLEAN]
        /\ cfg' \in [content : Contents, revision : Nat]
    BY <1>4 DEF FailUpdate, TypeOK
  <2> QED
    BY <1>4, <2>1 DEF FailUpdate, TypeOK
<1>5. ASSUME NEW t \in Contents, GrowContainer(t) PROVE TypeOK'
  BY <1>5 DEF GrowContainer, TypeOK
<1>6. ASSUME NEW r \in Routes, RegisterRoute(r) PROVE TypeOK'
  BY <1>6 DEF RegisterRoute, TypeOK
<1>7. ASSUME NEW r \in Routes, BumpRoutes(r) PROVE TypeOK'
  <2>1. registry.revision + 1 \in Nat /\ registry.pending \ {r} \in SUBSET Routes
    BY DEF TypeOK
  <2>2. registry' = [routes   |-> registry.routes,
                     revision |-> registry.revision + 1,
                     pending  |-> registry.pending \ {r}]
    BY <1>7 DEF BumpRoutes, TypeOK
  <2> QED
    BY <1>7, <2>1, <2>2 DEF BumpRoutes, TypeOK
<1> QED
  BY <1>1, <1>2, <1>3, <1>4, <1>5, <1>6, <1>7 DEF Write

LEMMA NextType == TypeOK /\ [Next]_vars => TypeOK'
<1>1. ASSUME TypeOK, UNCHANGED vars PROVE TypeOK'
  BY <1>1 DEF TypeOK, vars
<1> QED
  BY <1>1, ServeType, OthersType DEF Next

\* The pipeline keeps its types whatever overlaps (pipeline.go).
THEOREM TypeCorrect == Spec => []TypeOK
BY InitType, NextType, PTL DEF Spec
----------------------------------------------------------------------------
(* A list that isStale accepts was built from the config as it is.         *)

LEMMA InitFresh == Init => FreshInv
<1> SUFFICES ASSUME Init PROVE FreshInv
  OBVIOUS
<1>1. TypeOK
  BY InitType
<1>2. Agrees(Build(Initial, {}), Initial)
  BY BuildFacts, ContentAssumption
<1>3. SizeOf[Initial] \in Nat
  BY ContentAssumption
<1>4. PipelineInv
  BY <1>2, <1>3 DEF Init, PipelineInv, Known, Fits, AtRest
<1>5. \A c \in Requests : RebuildInv(c)
  BY DEF Init, RebuildInv, NoRequest
<1> QED
  BY <1>1, <1>4, <1>5 DEF FreshInv

\* A step of the writer, or none, leaves what was read earlier Known, and
\* what was built from it fitting: it raises the revision, or the config is
\* not at rest, or the containers grow.
LEMMA WriteKeeps ==
    ASSUME TypeOK, Write \/ UNCHANGED <<cfg, writer>>,
           NEW checks, NEW revision \in Nat, NEW signature \in Nat,
           Known(revision, signature)
    PROVE  /\ Known(revision, signature)'
           /\ Fits(checks, revision, signature) => Fits(checks, revision, signature)'
<1>0. /\ cfg.revision \in Nat
      /\ cfg.content \in Contents
      /\ SizeOf[cfg.content] \in Nat
  BY ContentAssumption DEF TypeOK
<1>1. ASSUME NEW target \in Contents, NEW mixture \in Contents,
             BeginUpdate(target, mixture)
      PROVE  ~AtRest' /\ cfg'.revision = cfg.revision
  BY <1>1 DEF BeginUpdate, TypeOK, AtRest
<1>2. ASSUME FinishFields PROVE ~AtRest' /\ cfg'.revision = cfg.revision
  BY <1>2 DEF FinishFields, TypeOK, AtRest
<1>3. ASSUME CommitUpdate PROVE cfg'.revision = cfg.revision + 1
  BY <1>3 DEF CommitUpdate, TypeOK
<1>4. ASSUME NEW t \in Contents, GrowContainer(t)
      PROVE  /\ AtRest' = AtRest
             /\ cfg'.revision = cfg.revision
             /\ SizeOf[cfg'.content] > SizeOf[cfg.content]
             /\ SizeOf[cfg'.content] \in Nat
  BY <1>4, ContentAssumption DEF GrowContainer, TypeOK, AtRest
<1>5. ASSUME UNCHANGED <<cfg, writer>>
      PROVE  /\ Known(revision, signature)'
             /\ Fits(checks, revision, signature) => Fits(checks, revision, signature)'
  BY <1>5 DEF Known, Fits, Agrees, AtRest
<1>6. ASSUME FailUpdate PROVE ~AtRest' /\ cfg'.revision = cfg.revision
  BY <1>6 DEF FailUpdate, TypeOK, AtRest
<1>7. ASSUME \/ ~AtRest' /\ cfg'.revision = cfg.revision
             \/ cfg'.revision = cfg.revision + 1
      PROVE  /\ Known(revision, signature)'
             /\ Fits(checks, revision, signature) => Fits(checks, revision, signature)'
  BY <1>0, <1>7 DEF Known, Fits
<1>8. ASSUME NEW t \in Contents, GrowContainer(t)
      PROVE  /\ Known(revision, signature)'
             /\ Fits(checks, revision, signature) => Fits(checks, revision, signature)'
  BY <1>0, <1>4, <1>8 DEF Known, Fits
<1> QED
  BY <1>1, <1>2, <1>3, <1>5, <1>6, <1>7, <1>8 DEF Write

\* A step other than of a request preserves the invariant.
LEMMA OthersFresh ==
    ASSUME FreshInv, UNCHANGED <<pipeline, req>>, TypeOK',
           Write \/ UNCHANGED <<cfg, writer>>
    PROVE  FreshInv'
<1>1. PipelineInv'
  <2>1. pipeline.revision \in Nat /\ pipeline.signature \in Nat
    BY DEF FreshInv, TypeOK
  <2>2. /\ Known(pipeline.revision, pipeline.signature)
        /\ Fits(pipeline.checks, pipeline.revision, pipeline.signature)
    BY DEF FreshInv, PipelineInv
  <2> QED
    BY <2>1, <2>2, WriteKeeps DEF FreshInv, PipelineInv, Known, Fits, Agrees, AtRest
<1>2. ASSUME NEW c \in Requests PROVE RebuildInv(c)'
  <2>1. req[c].revision \in Nat /\ req[c].signature \in Nat
    BY DEF FreshInv, TypeOK, Request
  <2>2. RebuildInv(c)
    BY DEF FreshInv
  <2> DEFINE seen == req[c].revision
             size == req[c].signature
             list == req[c].checks
  <2>3. ASSUME Known(seen, size)
        PROVE  /\ Known(seen, size)'
               /\ Fits(list, seen, size) => Fits(list, seen, size)'
    BY <2>1, <2>3, WriteKeeps DEF FreshInv
  <2> QED
    BY <2>2, <2>3 DEF RebuildInv
<1> QED
  BY <1>1, <1>2 DEF FreshInv

\* A step of a request preserves the invariant: the revision and signature
\* are read before the list is built, and stored with it.
LEMMA ServeFresh ==
    ASSUME FreshInv, TypeOK', NEW c \in Requests,
           Serve(c) \/ \E x \in BOOLEAN : Arrive(c, x)
    PROVE  FreshInv'
<1>0. /\ cfg.content \in Contents /\ cfg.revision \in Nat
      /\ SizeOf[cfg.content] \in Nat
      /\ req \in [Requests -> Request] /\ req[c] \in Request
      /\ DOMAIN req = Requests
      /\ req[c].routes \in SUBSET Routes
      /\ PipelineInv
      /\ \A other \in Requests : RebuildInv(other)
  BY ContentAssumption DEF FreshInv, TypeOK, Request
<1>1. UNCHANGED <<cfg, writer>>
  BY DEF Serve, Arrive, ReadRevision, ReadRoutes, Evaluate, ReadRouteRevision,
         Store, TakeChecks, PassCheck, BlockByCheck, CheckErrors, Admit
<1>2. \A other \in Requests \ {c} : req'[other] = req[other]
  BY <1>0 DEF Serve, Arrive, ReadRevision, ReadRoutes, Evaluate,
              ReadRouteRevision, Store, TakeChecks, PassCheck, BlockByCheck,
              CheckErrors, Admit
<1>3. \A other \in Requests \ {c} : RebuildInv(other)'
  BY <1>0, <1>1, <1>2 DEF RebuildInv, Known, Fits, Agrees, AtRest
<1>4. ASSUME UNCHANGED pipeline, RebuildInv(c)' PROVE FreshInv'
  BY <1>0, <1>1, <1>3, <1>4 DEF FreshInv, PipelineInv, Known, Fits, Agrees, AtRest
<1>5. ASSUME NEW x \in BOOLEAN, Arrive(c, x) PROVE FreshInv'
  <2>1. req'[c].pc \notin {"build", "evaluate", "routeRevision", "store"}
    BY <1>0, <1>5 DEF Arrive, NoRequest
  <2> QED
    BY <1>4, <1>5, <2>1 DEF Arrive, RebuildInv
<1>6. ASSUME ReadRevision(c) PROVE FreshInv'
  <2>1. /\ req'[c].pc = "build"
        /\ req'[c].revision = cfg.revision
        /\ req'[c].signature = SizeOf[cfg.content]
    BY <1>0, <1>6 DEF ReadRevision, Request
  <2>2. RebuildInv(c)'
    BY <1>0, <1>1, <2>1 DEF RebuildInv, Known, AtRest
  <2> QED
    BY <1>4, <1>6, <2>2 DEF ReadRevision
<1>7. ASSUME ReadRoutes(c) PROVE FreshInv'
  <2>1. /\ req[c].pc = "build" /\ req'[c].pc = "evaluate"
        /\ req'[c].revision = req[c].revision
        /\ req'[c].signature = req[c].signature
    BY <1>0, <1>7 DEF ReadRoutes, Doing, Request
  <2>2. RebuildInv(c)'
    BY <1>0, <1>1, <2>1 DEF RebuildInv, Known, AtRest
  <2> QED
    BY <1>4, <1>7, <2>2 DEF ReadRoutes
<1>8. ASSUME Evaluate(c) PROVE FreshInv'
  <2>1. /\ req[c].pc = "evaluate" /\ req'[c].pc = "routeRevision"
        /\ req'[c].revision = req[c].revision
        /\ req'[c].signature = req[c].signature
        /\ req'[c].checks = Build(cfg.content, req[c].routes)
    BY <1>0, <1>8 DEF Evaluate, Doing, Request
  <2>2. Agrees(Build(cfg.content, req[c].routes), cfg.content)
    BY <1>0, BuildFacts
  <2>3. Agrees(req'[c].checks, cfg'.content)
    BY <1>1, <2>1, <2>2
  <2>4. Known(req[c].revision, req[c].signature)'
    BY <1>0, <1>1, <2>1 DEF RebuildInv, Known, AtRest
  <2>5. RebuildInv(c)'
    BY <2>1, <2>3, <2>4 DEF RebuildInv, Fits, Agrees, AtRest
  <2> QED
    BY <1>4, <1>8, <2>5 DEF Evaluate
<1>9. ASSUME ReadRouteRevision(c) PROVE FreshInv'
  <2>1. /\ req[c].pc = "routeRevision" /\ req'[c].pc = "store"
        /\ req'[c].revision = req[c].revision
        /\ req'[c].signature = req[c].signature
        /\ req'[c].checks = req[c].checks
    BY <1>0, <1>9 DEF ReadRouteRevision, Doing, Request
  <2>2. RebuildInv(c)'
    BY <1>0, <1>1, <2>1 DEF RebuildInv, Known, Fits, Agrees, AtRest
  <2> QED
    BY <1>4, <1>9, <2>2 DEF ReadRouteRevision
<1>10. ASSUME Store(c) PROVE FreshInv'
  <2>1. /\ req[c].pc = "store"
        /\ pipeline'.revision = req[c].revision
        /\ pipeline'.signature = req[c].signature
        /\ pipeline'.checks = req[c].checks
    BY <1>10 DEF Store, Doing
  <2>2. PipelineInv'
    BY <1>0, <1>1, <2>1 DEF PipelineInv, RebuildInv, Known, Fits, Agrees, AtRest
  <2>3. RebuildInv(c)'
    BY <1>0, <1>10 DEF Store, NoRequest, RebuildInv
  <2> QED
    BY <1>3, <2>2, <2>3 DEF FreshInv
<1>11. ASSUME UNCHANGED pipeline,
              req'[c].pc \notin {"build", "evaluate", "routeRevision", "store"}
       PROVE  FreshInv'
  BY <1>4, <1>11 DEF RebuildInv
<1>12. ASSUME TakeChecks(c) \/ Admit(c) PROVE FreshInv'
  BY <1>0, <1>11, <1>12 DEF TakeChecks, Admit, Request
<1>13. ASSUME NEW k \in Checks, PassCheck(c, k) \/ BlockByCheck(c, k)
       PROVE  FreshInv'
  BY <1>0, <1>11, <1>13
     DEF PassCheck, BlockByCheck, NextCheck, Doing, NoRequest, Request
<1>14. ASSUME NEW k \in Checks, NEW e \in BOOLEAN, CheckErrors(c, k, e)
       PROVE  FreshInv'
  BY <1>0, <1>11, <1>14 DEF CheckErrors, NextCheck, Doing, NoRequest, Request
<1> QED
  BY <1>5, <1>6, <1>7, <1>8, <1>9, <1>10, <1>12, <1>13, <1>14 DEF Serve

LEMMA NextFresh == FreshInv /\ [Next]_vars => FreshInv'
<1> SUFFICES ASSUME FreshInv, [Next]_vars PROVE FreshInv'
  OBVIOUS
<1>1. TypeOK'
  BY NextType DEF FreshInv
<1>2. CASE \E c \in Requests : Serve(c) \/ \E x \in BOOLEAN : Arrive(c, x)
  BY <1>1, <1>2, ServeFresh
<1>3. CASE Write
  <2>1. UNCHANGED <<pipeline, req>>
    BY <1>3 DEF Write, BeginUpdate, FinishFields, CommitUpdate, FailUpdate,
                GrowContainer
  <2> QED
    BY <1>1, <1>3, <2>1, OthersFresh
<1>4. CASE \E r \in Routes : RegisterRoute(r) \/ BumpRoutes(r)
  <2>1. UNCHANGED <<pipeline, req, cfg, writer>>
    BY <1>4 DEF RegisterRoute, BumpRoutes
  <2> QED
    BY <1>1, <2>1, OthersFresh
<1>5. CASE UNCHANGED vars
  BY <1>1, <1>5, OthersFresh DEF vars
<1> QED
  BY <1>2, <1>3, <1>4, <1>5 DEF Next

LEMMA FreshInvGives == FreshInv => FreshMeansCurrent
BY DEF FreshInv, PipelineInv, Fits, FreshMeansCurrent, IsStale

\* isStale never accepts a list built from anything but the config as it is, as
\* soon as a revision followed the last rollback (rebuildIfStale).
THEOREM FreshIsCurrent == Spec => []FreshMeansCurrent
<1>1. FreshInv /\ [Next]_vars => FreshInv'
  BY NextFresh
<1> QED
  BY <1>1, InitFresh, FreshInvGives, PTL DEF Spec

----------------------------------------------------------------------------
(* No request is admitted past a check that every config enables.          *)

LEMMA InitVetted == Init => VettedInv
<1> SUFFICES ASSUME Init PROVE VettedInv
  OBVIOUS
<1>1. AlwaysOn \subseteq pipeline.checks
  BY BuildFacts, ContentAssumption DEF Init
<1> QED
  BY <1>1, InitType DEF Init, VettedInv, WalkInv, NoRequest

\* A step of a request preserves the invariant when errors fail closed: a
\* check leaves what is left only by passing.
LEMMA ServeVetted ==
    ASSUME VettedInv, TypeOK', FailSecure, ~RedisFailOpen, NEW c \in Requests,
           Serve(c) \/ \E x \in BOOLEAN : Arrive(c, x)
    PROVE  VettedInv'
<1>0. /\ cfg.content \in Contents
      /\ req \in [Requests -> Request] /\ req[c] \in Request
      /\ DOMAIN req = Requests
      /\ req[c].routes \in SUBSET Routes
      /\ AlwaysOn \subseteq pipeline.checks
      /\ \A other \in Requests : WalkInv(other)
  BY DEF VettedInv, TypeOK, Request
<1>1. \A other \in Requests \ {c} : req'[other] = req[other]
  BY <1>0 DEF Serve, Arrive, ReadRevision, ReadRoutes, Evaluate,
              ReadRouteRevision, Store, TakeChecks, PassCheck, BlockByCheck,
              CheckErrors, Admit
<1>2. \A other \in Requests \ {c} : WalkInv(other)'
  BY <1>0, <1>1 DEF WalkInv, AlwaysDue
<1>3. ASSUME UNCHANGED pipeline, WalkInv(c)' PROVE VettedInv'
  BY <1>0, <1>2, <1>3 DEF VettedInv
<1>4. ASSUME UNCHANGED pipeline,
             req'[c].pc \notin {"routeRevision", "store", "run", "admitted"}
      PROVE  VettedInv'
  BY <1>3, <1>4 DEF WalkInv
<1>5. ASSUME NEW x \in BOOLEAN, Arrive(c, x) PROVE VettedInv'
  BY <1>0, <1>4, <1>5 DEF Arrive, NoRequest
<1>6. ASSUME ReadRevision(c) \/ ReadRoutes(c) PROVE VettedInv'
  BY <1>0, <1>4, <1>6 DEF ReadRevision, ReadRoutes, Request
<1>7. ASSUME Evaluate(c) PROVE VettedInv'
  <2>1. /\ req'[c].pc = "routeRevision"
        /\ req'[c].checks = Build(cfg.content, req[c].routes)
    BY <1>0, <1>7 DEF Evaluate, Request
  <2>2. AlwaysOn \subseteq Build(cfg.content, req[c].routes)
    BY <1>0, BuildFacts
  <2> QED
    BY <1>3, <1>7, <2>1, <2>2 DEF Evaluate, WalkInv
<1>8. ASSUME ReadRouteRevision(c) PROVE VettedInv'
  <2>1. /\ req[c].pc = "routeRevision" /\ req'[c].pc = "store"
        /\ req'[c].checks = req[c].checks
    BY <1>0, <1>8 DEF ReadRouteRevision, Doing, Request
  <2> QED
    BY <1>0, <1>3, <1>8, <2>1 DEF ReadRouteRevision, WalkInv
<1>9. ASSUME Store(c) PROVE VettedInv'
  <2>1. req[c].pc = "store" /\ pipeline'.checks = req[c].checks
    BY <1>9 DEF Store, Doing
  <2>2. req'[c].pc = "take"
    BY <1>0, <1>9 DEF Store, NoRequest
  <2> QED
    BY <1>0, <1>2, <2>1, <2>2 DEF VettedInv, WalkInv
<1>10. ASSUME TakeChecks(c) PROVE VettedInv'
  <2>1. /\ req'[c].pc = "run"
        /\ req'[c].excluded = req[c].excluded
        /\ req'[c].left = IF req[c].excluded THEN pipeline.checks \cap OnExcluded
                          ELSE pipeline.checks
    BY <1>0, <1>10 DEF TakeChecks, Request
  <2>2. AlwaysDue(c)' \subseteq req'[c].left
    BY <1>0, <2>1 DEF AlwaysDue, AlwaysOn
  <2> QED
    BY <1>3, <1>10, <2>1, <2>2 DEF TakeChecks, WalkInv
<1>11. ASSUME NEW k \in Checks, PassCheck(c, k) PROVE VettedInv'
  <2>1. /\ req[c].pc = "run" /\ req'[c].pc = "run"
        /\ req'[c].excluded = req[c].excluded
        /\ req'[c].left = req[c].left \ {k}
        /\ req'[c].passed = req[c].passed \cup {k}
    BY <1>0, <1>11 DEF PassCheck, NextCheck, Doing, Request
  <2>2. AlwaysDue(c)' = AlwaysDue(c)
    BY <2>1 DEF AlwaysDue
  <2> QED
    BY <1>0, <1>3, <1>11, <2>1, <2>2 DEF PassCheck, WalkInv
<1>12. ASSUME NEW k \in Checks, BlockByCheck(c, k) PROVE VettedInv'
  BY <1>0, <1>4, <1>12 DEF BlockByCheck, NoRequest
<1>13. ASSUME NEW k \in Checks, NEW e \in BOOLEAN, CheckErrors(c, k, e)
       PROVE  VettedInv'
  BY <1>0, <1>4, <1>13 DEF CheckErrors, NoRequest
<1>14. ASSUME Admit(c) PROVE VettedInv'
  <2>1. /\ req[c].pc = "run" /\ req[c].left = {} /\ req'[c].pc = "admitted"
        /\ req'[c].excluded = req[c].excluded
        /\ req'[c].passed = req[c].passed
    BY <1>0, <1>14 DEF Admit, Doing, Request
  <2>2. AlwaysDue(c)' = AlwaysDue(c)
    BY <2>1 DEF AlwaysDue
  <2> QED
    BY <1>0, <1>3, <1>14, <2>1, <2>2 DEF Admit, WalkInv
<1> QED
  BY <1>5, <1>6, <1>7, <1>8, <1>9, <1>10, <1>11, <1>12, <1>13, <1>14 DEF Serve

LEMMA NextVetted ==
    FailSecure /\ ~RedisFailOpen /\ VettedInv /\ [Next]_vars => VettedInv'
<1> SUFFICES ASSUME FailSecure, ~RedisFailOpen, VettedInv, [Next]_vars
             PROVE  VettedInv'
  OBVIOUS
<1>1. TypeOK'
  BY NextType DEF VettedInv
<1>2. ASSUME UNCHANGED <<pipeline, req>> PROVE VettedInv'
  BY <1>1, <1>2 DEF VettedInv, WalkInv, AlwaysDue
<1>3. CASE \E c \in Requests : Serve(c) \/ \E x \in BOOLEAN : Arrive(c, x)
  BY <1>1, <1>3, ServeVetted
<1>4. CASE Write
  BY <1>2, <1>4 DEF Write, BeginUpdate, FinishFields, CommitUpdate, FailUpdate,
                    GrowContainer
<1>5. CASE \E r \in Routes : RegisterRoute(r) \/ BumpRoutes(r)
  BY <1>2, <1>5 DEF RegisterRoute, BumpRoutes
<1>6. CASE UNCHANGED vars
  BY <1>2, <1>6 DEF vars
<1> QED
  BY <1>3, <1>4, <1>5, <1>6 DEF Next

\* In fail-secure mode the always-enabled checks vet every admitted request,
\* rebuilds, rollbacks and registrations notwithstanding (Execute).
THEOREM AdmissionIsVetted == Spec => []AdmittedIsVetted
<1>1. CASE FailSecure /\ ~RedisFailOpen
  <2>1. VettedInv /\ [Next]_vars => VettedInv'
    BY <1>1, NextVetted
  <2>2. VettedInv => AdmittedIsVetted
    BY DEF VettedInv, WalkInv, AdmittedIsVetted, Doing
  <2> QED
    BY <2>1, <2>2, InitVetted, PTL DEF Spec
<1>2. CASE ~(FailSecure /\ ~RedisFailOpen)
  <2>1. AdmittedIsVetted
    BY <1>2 DEF AdmittedIsVetted
  <2> QED
    BY <2>1, PTL
<1> QED
  BY <1>1, <1>2
=============================================================================
