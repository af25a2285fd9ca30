------------------------ MODULE SharedResourcesProofs ------------------------
(***************************************************************************)
(* Proofs about the components of MCSharedResources, for any goroutines,   *)
(* engines, providers and bounds: the cloud ranges, the geo database and   *)
(* the life of engines, each with an inductive invariant of its own.       *)
(***************************************************************************)
EXTENDS MCSharedResources, FiniteSetTheorems, TLAPS

----------------------------------------------------------------------------
(* Invariants of the cloud ranges.                                         *)

Jobs == Requests \cup Starters
Stamped == {C!Absent} \cup Nat

CheckState == [pc : {"idle", "previous", "set", "schedule", "restore"},
               now : Nat, previous : Int]
JobState == [pc : {"off", "next", "get", "fetch", "store", "install"},
             left : SUBSET Providers,
             provider : Providers \cup {C!NoJob.provider}, found : Stamped]
RangesType == [Providers -> {C!Absent, C!Empty} \cup Nat]
StoredType == [Providers -> [found : Stamped, expires : Int]]

\* A refresh works on a provider, and installs only ranges it has found.
JobOK(r) ==
    /\ r \in JobState
    /\ r.pc \in {"get", "fetch", "store", "install"} => r.provider \in Providers
    /\ r.pc \in {"store", "install"} => r.found \in Nat

CloudTypeInv ==
    /\ time \in Nat /\ stamp \in Int /\ inFlight \in BOOLEAN
    /\ ranges \in RangesType /\ stored \in StoredType
    /\ check \in [Requests -> CheckState]
    /\ job \in [Jobs -> JobState]
    /\ \A j \in Jobs : JobOK(job[j])

Running(c) == job[c].pc # "off"

\* The compare-and-swap on the flag: it is set exactly while a request's
\* refresh runs, which is then the only one.
FlagInv ==
    /\ inFlight <=> \E c \in Requests : Running(c)
    /\ \A c, d \in Requests : Running(c) /\ Running(d) => c = d

CloudInv == CloudTypeInv /\ FlagInv

----------------------------------------------------------------------------
(* Invariants of the geo database.                                         *)

GeoGoroutines == Lookers \cup Refreshers

GeoState == [once : {"fresh", "running", "done"}, reader : Nat, failed : BOOLEAN,
             opened : Nat, closed : SUBSET Nat]
LookState == [pc : {"idle", "init", "open", "wait", "lookup", "swap"}, reader : Nat]

\* Each reader opened is in use or closed, and a closed one is in use only after
\* a failure.
ReadersOK(g) ==
    /\ g \in GeoState /\ g.reader <= g.opened
    /\ \A r \in g.closed : r \in 1..g.opened
    /\ \A r \in 1..g.opened : r = g.reader \/ r \in g.closed
    /\ g.reader \in g.closed => g.failed

GeoTypeInv ==
    /\ disk \in {"none"} \cup G!Content /\ copy \in {"none"} \cup G!Content
    /\ look \in [GeoGoroutines -> LookState]
    /\ \A c \in GeoGoroutines : look[c].reader <= geo.opened

Opening(c) == look[c].pc \in {"init", "open"}

\* sync.Once: one look-up initialises, before it nothing was opened, and only
\* after it is a reader swapped.
OnceInv ==
    /\ \A c \in GeoGoroutines : Opening(c) => geo.once = "running"
    /\ \A c, d \in GeoGoroutines : Opening(c) /\ Opening(d) => c = d
    /\ geo.once # "done" => geo.opened = 0 /\ geo.reader = 0
    /\ \A c \in GeoGoroutines : look[c].pc = "swap" => geo.once = "done"

GeoInv == ReadersOK(geo) /\ GeoTypeInv /\ OnceInv

----------------------------------------------------------------------------
(* Invariants of the engines.                                              *)

StartSteps == {"adopt", "connect", "attach", "loop", "register"}
StackSteps == {"dial", "operate", "drain", "join", "disconnect", "shut", "forget"}

EngineState == [once : {"fresh", "running", "done", "marked"}, failed : BOOLEAN,
                stack : Engines]
RedisState == [created : Nat, held : Nat, open : SUBSET Nat]
LoopState == [pc : {"off", "running", "ended"}, stop : {"fresh", "closing", "done"}]
CallState == [pc : {"idle", "wait", "panicked"} \cup StartSteps \cup StackSteps,
              engine : Engines \cup {NoEngine}]

CallOK(r) == /\ r \in CallState
             /\ r.pc \in {"wait"} \cup StartSteps \cup StackSteps => r.engine \in Engines
ClientsOK(r) == /\ r \in RedisState /\ r.held <= r.created
                /\ \A k \in r.open : k \in 1..r.created

EngineTypeInv ==
    /\ engine \in [Engines -> EngineState]
    /\ registry \in Engines \cup {NoEngine}
    /\ redis \in [Engines -> RedisState] /\ \A e \in Engines : ClientsOK(redis[e])
    /\ loop \in [Engines -> LoopState]
    /\ call \in [Callers -> CallState] /\ \A c \in Callers : CallOK(call[c])
    /\ late \subseteq Engines

Starting(c) == call[c].pc \in StartSteps

\* A stack that is used and shared belongs to an engine that uses it itself.
Settled(s) == E!Initialized(s) /\ E!Stack(s) = s

\* What a goroutine in state r of a start-up has passed is done.
Passed(r) ==
    /\ r.pc = "attach" => redis[r.engine].created > 0
    /\ r.pc \in {"loop", "register"} /\ EnableRedis /\ ~RedisFailOpen
          => redis[r.engine].created > 0
    /\ r.pc = "register" /\ DynamicRules => loop[r.engine].pc # "off"
    /\ r.engine \in late => r.pc = "adopt"

\* sync.Once: a goroutine that starts an engine up is the only one.
StartupInv(c) ==
    Starting(c) => /\ engine[call[c].engine].once = "running"
                   /\ \A d \in Callers :
                         Starting(d) /\ call[d].engine = call[c].engine => c = d
                   /\ Passed(call[c])

\* Until its start-up an engine's stack is its own and no one touches it; after
\* it the stack is that of an engine that uses it itself.
EngineInv(e) ==
    /\ engine[e].once # "done" => E!Stack(e) = e /\ ~engine[e].failed
    /\ engine[e].once = "fresh" => loop[e].pc = "off" /\ redis[e].created = 0
    /\ E!Initialized(e) => Settled(E!Stack(e))

RegistryInv ==
    registry # NoEngine =>
       engine[registry].once = "done" /\ E!Stack(registry) = registry

LateInv(e) ==
    e \in late => /\ registry \notin {NoEngine, e}
                  /\ engine[e].once \in {"running", "done"}

LifecycleInv ==
    /\ EngineTypeInv
    /\ \A c \in Callers : StartupInv(c)
    /\ \A c \in Callers : call[c].pc = "dial" => Settled(call[c].engine)
    /\ \A e \in Engines : EngineInv(e) /\ LateInv(e)
    /\ RegistryInv
    /\ E!StacksAreWarm
    /\ E!LateAdopts

----------------------------------------------------------------------------
(* Proofs of the cloud ranges.                                             *)

LEMMA FullJobFacts ==
    /\ C!NoJob = [pc |-> "off", left |-> {}, provider |-> C!NoJob.provider, found |-> C!Absent]
    /\ C!FullJob = [pc |-> "next", left |-> Providers, provider |-> C!NoJob.provider,
                    found |-> C!Absent]
    /\ JobOK(C!NoJob) /\ JobOK(C!FullJob)
<1> DEFINE p == C!NoJob.provider
<1>1. C!NoJob = [pc |-> "off", left |-> {}, provider |-> p, found |-> C!Absent]
  BY DEF C!NoJob
<1> HIDE DEF p
<1>2. C!FullJob = [pc |-> "next", left |-> Providers, provider |-> p, found |-> C!Absent]
  <2>1. C!FullJob = [[pc |-> "off", left |-> {}, provider |-> p, found |-> C!Absent]
                        EXCEPT !.pc = "next", !.left = Providers]
    BY <1>1 DEF C!FullJob
  <2> QED
    BY <2>1
<1>3. p = C!NoJob.provider
  BY DEF p
<1> QED
  BY <1>1, <1>2, <1>3 DEF JobOK, JobState, Stamped

LEMMA CloudInit == C!Init => CloudInv
<1> SUFFICES ASSUME C!Init PROVE CloudInv
  OBVIOUS
<1>1. \A j \in Jobs : job[j] = IF j \in Starters THEN C!FullJob ELSE C!NoJob
  BY DEF C!Init, Jobs
<1>2. job \in [Jobs -> JobState] /\ \A j \in Jobs : JobOK(job[j])
  <2>1. \A j \in Jobs : JobOK(job[j])
    BY <1>1, FullJobFacts
  <2>2. job = [j \in Jobs |-> job[j]]
    BY DEF C!Init, Jobs
  <2> QED
    BY <2>1, <2>2 DEF JobOK
<1>3. check \in [Requests -> CheckState]
  BY DEF C!Init, C!NoCheck, CheckState
<1>4. /\ time \in Nat /\ stamp \in Int /\ inFlight = FALSE
      /\ ranges \in RangesType /\ stored \in StoredType
  BY InstanceAssumption DEF C!Init, RangesType, StoredType, Stamped
<1>5. FlagInv
  BY <1>1, <1>4, FullJobFacts, InstanceAssumption DEF FlagInv, Running, Jobs
<1> QED
  BY <1>2, <1>3, <1>4, <1>5 DEF CloudInv, CloudTypeInv

\* A step of a request's check before its refresh starts.
LEMMA CheckKept ==
    ASSUME CloudInv, NEW c \in Requests, NEW new \in CheckState,
           check' = [check EXCEPT ![c] = new], stamp' \in Int,
           UNCHANGED <<time, inFlight, ranges, stored, job>>
    PROVE  CloudInv'
BY DEF CloudInv, CloudTypeInv, FlagInv, Running

\* A step of a refresh that runs and goes on.
LEMMA JobKept ==
    ASSUME CloudInv, NEW j \in Jobs, NEW new, JobOK(new),
           job' = [job EXCEPT ![j] = new], Running(j), new.pc # "off",
           ranges' \in RangesType, stored' \in StoredType,
           UNCHANGED <<time, stamp, inFlight, check>>
    PROVE  CloudInv'
<1>1. CloudTypeInv'
  BY DEF CloudInv, CloudTypeInv, JobOK
<1>2. \A c \in Requests : Running(c)' <=> Running(c)
  BY DEF CloudInv, CloudTypeInv, Running, Jobs
<1> QED
  BY <1>1, <1>2 DEF CloudInv, FlagInv

LEMMA CheckStep ==
    ASSUME CloudInv, NEW c \in Requests, C!Check(c)
    PROVE  CloudInv'
<1>0. /\ check \in [Requests -> CheckState] /\ check[c] \in CheckState
      /\ time \in Nat /\ stamp \in Int
  BY DEF CloudInv, CloudTypeInv
<1>1. CASE C!LookAtStamp(c)
  <2> DEFINE new == [C!NoCheck EXCEPT !.pc = "previous", !.now = time]
  <2>1. C!NoCheck \in CheckState
    BY DEF C!NoCheck, CheckState
  <2>2. check' = [check EXCEPT ![c] = new] /\ new \in CheckState
    BY <1>0, <1>1, <2>1 DEF C!LookAtStamp, CheckState
  <2> QED
    BY <1>0, <1>1, <2>2, CheckKept DEF C!LookAtStamp
<1>2. CASE C!ReadPrevious(c)
  <2> DEFINE new == [check[c] EXCEPT !.pc = "set", !.previous = stamp]
  <2>1. check' = [check EXCEPT ![c] = new] /\ new \in CheckState
    BY <1>0, <1>2 DEF C!ReadPrevious, CheckState
  <2> QED
    BY <1>0, <1>2, <2>1, CheckKept DEF C!ReadPrevious
<1>3. CASE C!SetStamp(c)
  <2> DEFINE new == [check[c] EXCEPT !.pc = "schedule", !.now = 0]
  <2>1. check' = [check EXCEPT ![c] = new] /\ new \in CheckState
    BY <1>0, <1>3 DEF C!SetStamp, CheckState
  <2>2. stamp' \in Int
    BY <1>0, <1>3 DEF C!SetStamp, CheckState
  <2> QED
    BY <1>3, <2>1, <2>2, CheckKept DEF C!SetStamp
<1>4. CASE C!Schedule(c) /\ inFlight
  <2> DEFINE new == [check[c] EXCEPT !.pc = "restore"]
  <2>1. check' = [check EXCEPT ![c] = new] /\ new \in CheckState
    BY <1>0, <1>4 DEF C!Schedule, CheckState
  <2> QED
    BY <1>0, <1>4, <2>1, CheckKept DEF C!Schedule
<1>5. CASE C!Schedule(c) /\ ~inFlight
  <2>1. /\ inFlight' = TRUE /\ job' = [job EXCEPT ![c] = C!FullJob]
        /\ check' = [check EXCEPT ![c] = C!NoCheck]
        /\ UNCHANGED <<time, stamp, ranges, stored>>
    BY <1>5 DEF C!Schedule
  <2>2. C!NoCheck \in CheckState /\ JobOK(C!FullJob) /\ C!FullJob.pc = "next"
    BY FullJobFacts DEF C!NoCheck, CheckState
  <2>3. CloudTypeInv'
    BY <2>1, <2>2 DEF CloudInv, CloudTypeInv, JobOK
  <2>4. \A d \in Requests : Running(d)' <=> d = c
    BY <2>1, <2>2, <1>5 DEF CloudInv, CloudTypeInv, FlagInv, Running, Jobs
  <2> QED
    BY <2>1, <2>3, <2>4 DEF CloudInv, FlagInv
<1>6. CASE C!RestoreStamp(c)
  <2>1. C!NoCheck \in CheckState /\ check[c].previous \in Int
    BY <1>0 DEF C!NoCheck, CheckState
  <2> QED
    BY <1>6, <2>1, CheckKept DEF C!RestoreStamp
<1> QED
  BY <1>1, <1>2, <1>3, <1>4, <1>5, <1>6 DEF C!Check

LEMMA RefreshStep ==
    ASSUME CloudInv, NEW j \in Jobs, C!Refresh(j)
    PROVE  CloudInv'
<1>0. /\ job[j] \in JobState /\ JobOK(job[j]) /\ job \in [Jobs -> JobState]
      /\ time \in Nat /\ ranges \in RangesType /\ stored \in StoredType
  BY DEF CloudInv, CloudTypeInv
<1>1. ASSUME NEW p \in Providers, C!NextProvider(j, p) PROVE CloudInv'
  <2> DEFINE new == [pc |-> IF UseStore THEN "get" ELSE "fetch",
                     left |-> job[j].left \ {p}, provider |-> p, found |-> C!Absent]
  <2>1. JobOK(new) /\ new.pc # "off"
    BY <1>0 DEF JobOK, JobState, Stamped
  <2>2. job' = [job EXCEPT ![j] = new] /\ Running(j)
    BY <1>0, <1>1 DEF C!NextProvider, Running
  <2> HIDE DEF new
  <2> QED
    BY <1>0, <1>1, <2>1, <2>2, JobKept DEF C!NextProvider
<1>2. ASSUME C!Onward(j), Running(j), ranges' \in RangesType, stored' = stored,
             UNCHANGED <<time, stamp, inFlight, check>>
      PROVE  CloudInv'
  <2> DEFINE new == [pc |-> "next", left |-> job[j].left, provider |-> C!NoJob.provider,
                     found |-> C!Absent]
  <2>1. JobOK(new) /\ new.pc # "off"
    BY <1>0 DEF JobOK, JobState, Stamped
  <2>2. job' = [job EXCEPT ![j] = new]
    <3>1. job' = [job EXCEPT ![j] =
                     [[pc |-> "next", left |-> Providers, provider |-> C!NoJob.provider,
                       found |-> C!Absent] EXCEPT !.left = job[j].left]]
      BY <1>2, FullJobFacts DEF C!Onward
    <3>2. [[pc |-> "next", left |-> Providers, provider |-> C!NoJob.provider,
            found |-> C!Absent] EXCEPT !.left = job[j].left] = new
      OBVIOUS
    <3> QED
      BY <3>1, <3>2
  <2> HIDE DEF new
  <2> QED
    BY <1>0, <1>2, <2>1, <2>2, JobKept
<1>3. job[j].pc # "off" /\ job[j].pc # "next" => C!Ensured(job[j].provider) \in RangesType
  BY <1>0 DEF JobOK, JobState, C!Ensured, RangesType, C!Empty
<1>4. CASE C!GetStored(j)
  <2>0. job[j].pc = "get" /\ Running(j) /\ job[j].provider \in Providers
    BY <1>0, <1>4 DEF C!GetStored, Running, JobOK
  <2>1. CASE ranges' = C!Ensured(job[j].provider) /\ C!Onward(j)
    BY <1>2, <1>3, <1>4, <2>0, <2>1 DEF C!GetStored
  <2> DEFINE hit == stored[job[j].provider].found # C!Absent
                    /\ time < stored[job[j].provider].expires
             new == [job[j] EXCEPT !.pc = IF hit THEN "install" ELSE "fetch",
                                   !.found = IF hit THEN stored[job[j].provider].found
                                             ELSE C!Absent]
  <2>2. CASE job' = [job EXCEPT ![j] = new] /\ UNCHANGED ranges
    <3>1. stored[job[j].provider].found \in Stamped
      BY <1>0, <2>0 DEF StoredType
    <3>2. JobOK(new) /\ new.pc # "off"
      BY <1>0, <2>0, <3>1 DEF JobOK, JobState, Stamped
    <3> HIDE DEF new
    <3> QED
      BY <1>0, <1>4, <2>0, <2>2, <3>2, JobKept DEF C!GetStored
  <2>3. \/ ranges' = C!Ensured(job[j].provider) /\ C!Onward(j)
        \/ job' = [job EXCEPT ![j] = new] /\ UNCHANGED ranges
    BY <1>0, <1>4 DEF C!GetStored
  <2> QED
    BY <2>1, <2>2, <2>3
<1>5. CASE C!Fetch(j)
  <2>0. job[j].pc = "fetch" /\ Running(j) /\ job[j].provider \in Providers
    BY <1>0, <1>5 DEF C!Fetch, Running, JobOK
  <2>1. CASE C!Onward(j)
    <3>1. ranges' \in RangesType /\ stored' = stored
      BY <1>0, <1>3, <1>5, <2>0, <2>1 DEF C!Fetch
    <3> QED
      BY <1>2, <1>5, <2>0, <2>1, <3>1 DEF C!Fetch
  <2>2. CASE ~C!Onward(j)
    <3> DEFINE new == [job[j] EXCEPT !.pc = IF UseStore THEN "store" ELSE "install",
                                     !.found = time]
    <3>1. JobOK(new) /\ new.pc # "off"
      BY <1>0, <2>0 DEF JobOK, JobState, Stamped
    <3>2. job' = [job EXCEPT ![j] = new] /\ UNCHANGED ranges
      BY <1>0, <1>5, <2>2 DEF C!Fetch
    <3> HIDE DEF new
    <3> QED
      BY <1>0, <1>5, <2>0, <3>1, <3>2, JobKept DEF C!Fetch
  <2> QED
    BY <2>1, <2>2
<1>6. CASE C!PutStored(j)
  <2> DEFINE new == [job[j] EXCEPT !.pc = "install"]
  <2>1. job[j].pc = "store" /\ job[j].provider \in Providers /\ job[j].found \in Nat
    BY <1>0, <1>6 DEF C!PutStored, JobOK
  <2>2. JobOK(new) /\ new.pc # "off" /\ Running(j)
    BY <1>0, <2>1 DEF JobOK, JobState, Running
  <2>3. job' = [job EXCEPT ![j] = new]
    BY <1>0, <1>6 DEF C!PutStored
  <2>4. stored' \in StoredType
    BY <1>0, <1>6, <2>1, InstanceAssumption DEF C!PutStored, StoredType, Stamped
  <2> HIDE DEF new
  <2> QED
    BY <1>0, <1>6, <2>2, <2>3, <2>4, JobKept DEF C!PutStored
<1>7. CASE C!Install(j)
  <2>1. job[j].pc = "install" /\ job[j].provider \in Providers /\ job[j].found \in Nat
    BY <1>0, <1>7 DEF C!Install, JobOK
  <2>2. ranges' \in RangesType
    BY <1>0, <1>7, <2>1 DEF C!Install, RangesType
  <2> QED
    BY <1>2, <1>7, <2>1, <2>2 DEF C!Install, Running
<1>8. CASE C!EndRefresh(j)
  <2>1. /\ job' = [job EXCEPT ![j] = C!NoJob] /\ inFlight' = (inFlight /\ j \in Starters)
        /\ Running(j) /\ UNCHANGED <<time, stamp, ranges, stored, check>>
    BY <1>8 DEF C!EndRefresh, Running
  <2>2. JobOK(C!NoJob) /\ C!NoJob.pc = "off"
    BY FullJobFacts
  <2>3. CloudTypeInv'
    BY <2>1, <2>2 DEF CloudInv, CloudTypeInv, JobOK
  <2>4. \A c \in Requests : Running(c)' <=> Running(c) /\ c # j
    BY <1>0, <2>1, <2>2 DEF Running, Jobs
  <2> QED
    BY <2>1, <2>3, <2>4, InstanceAssumption DEF CloudInv, FlagInv, Jobs
<1> QED
  BY <1>1, <1>4, <1>5, <1>6, <1>7, <1>8 DEF C!Refresh

LEMMA CloudStep == CloudInv /\ [C!Next]_cloudVars => CloudInv'
<1> SUFFICES ASSUME CloudInv, [C!Next]_cloudVars PROVE CloudInv'
  OBVIOUS
<1>1. ASSUME NEW c \in Requests, C!Check(c) PROVE CloudInv'
  BY <1>1, CheckStep
<1>2. ASSUME NEW j \in Jobs, C!Refresh(j) PROVE CloudInv'
  BY <1>2, RefreshStep
<1>3. CASE C!Tick
  BY <1>3 DEF C!Tick, CloudInv, CloudTypeInv, FlagInv, Running
<1>4. CASE UNCHANGED cloudVars
  BY <1>4 DEF cloudVars, CloudInv, CloudTypeInv, FlagInv, Running
<1> QED
  BY <1>1, <1>2, <1>3, <1>4 DEF C!Next, Jobs

\* The instance's Cardinality is that of FiniteSets.
LEMMA SameCardinality == \A S : C!Cardinality(S) = Cardinality(S)
BY DEF Cardinality, C!Cardinality

\* At most one of the requests' refreshes runs.
LEMMA OneRunning ==
    ASSUME FlagInv
    PROVE  Cardinality({c \in Requests : job[c].pc # "off"}) <= 1
<1> DEFINE running == {c \in Requests : job[c].pc # "off"}
<1>1. CASE running = {}
  BY <1>1, FS_EmptySet
<1>2. CASE running # {}
  <2>1. PICK c : c \in running
    BY <1>2
  <2>2. running = {c}
    BY <2>1 DEF FlagInv, Running
  <2> QED
    BY <2>2, FS_Singleton
<1> QED
  BY <1>1, <1>2

LEMMA CloudAlways == Spec => []CloudInv
<1>1. Init => CloudInv
  BY CloudInit DEF Init
<1>2. CloudInv /\ [Next]_vars => CloudInv'
  <2>1. [Next]_vars => [C!Next]_cloudVars
    BY DEF Next, OnlyEngine, OnlyCloud, OnlyGeo, vars, cloudVars
  <2> QED
    BY <2>1, CloudStep
<1> QED
  BY <1>1, <1>2, PTL DEF Spec

\* Two requests never refresh the ranges at once, and the flag that keeps them
\* apart is set exactly while one does (ScheduleRefresh), for any number of
\* requests, starting engines, providers and failures.
THEOREM RefreshesAreSingle == Spec => []OneRefresh
<1>1. CloudInv => C!TypeOK
  BY DEF CloudInv, CloudTypeInv, JobOK, CheckState, JobState, RangesType, StoredType,
         Stamped, Jobs, C!TypeOK
<1>2. CloudInv => C!OneRefresh
  <2>1. CloudInv => Cardinality({c \in Requests : job[c].pc # "off"}) <= 1
    BY OneRunning DEF CloudInv
  <2>2. CloudInv => (inFlight <=> \E c \in Requests : job[c].pc # "off")
    BY DEF CloudInv, FlagInv, Running
  <2> QED
    BY <2>1, <2>2, SameCardinality DEF C!OneRefresh
<1>3. CloudInv => OneRefresh
  BY <1>1, <1>2 DEF OneRefresh
<1> QED
  BY <1>3, CloudAlways, PTL

\* No step of any goroutine forgets the ranges of a provider that are known
\* (ensureProviderEntry keeps them, installRanges replaces them by others).
THEOREM RangesAreKept == Spec => RangesStay
<1>1. CloudInv /\ [Next]_vars
         => [\A p \in Providers : ranges[p] >= 0 => ranges'[p] >= 0]_C!vars
  <2> SUFFICES ASSUME CloudInv, [Next]_vars, NEW p \in Providers, ranges[p] >= 0,
                      ranges' # ranges
               PROVE  ranges'[p] >= 0
    BY DEF C!vars, CloudInv, CloudTypeInv, RangesType
  <2>1. /\ ranges \in RangesType /\ ranges[p] # C!Absent
        /\ \A j \in Jobs : JobOK(job[j])
    BY DEF CloudInv, CloudTypeInv, C!Absent
  <2>2. PICK j \in Jobs : C!Refresh(j)
    BY DEF Next, OnlyEngine, OnlyGeo, vars, cloudVars, OnlyCloud, C!Next, C!Check,
           C!LookAtStamp, C!ReadPrevious, C!SetStamp, C!Schedule, C!RestoreStamp,
           C!Tick, Jobs
  <2>3. CASE ranges' = C!Ensured(job[j].provider)
    BY <2>1, <2>3 DEF C!Ensured, RangesType
  <2>4. CASE C!Install(j)
    <3>1. job[j].found \in Nat
      BY <2>1, <2>4 DEF C!Install, JobOK
    <3> QED
      BY <2>1, <2>4, <3>1 DEF C!Install, RangesType
  <2> QED
    BY <2>2, <2>3, <2>4 DEF C!Refresh, C!NextProvider, C!GetStored, C!Fetch, C!PutStored,
                            C!EndRefresh
<1> QED
  BY <1>1, CloudAlways, PTL DEF Spec, RangesStay, C!RangesStay

----------------------------------------------------------------------------
(* Proofs of the geo database.                                             *)

LEMMA GeoInit == G!Init => GeoInv
<1> SUFFICES ASSUME G!Init PROVE GeoInv
  OBVIOUS
<1>1. ReadersOK(geo)
  BY DEF G!Init, ReadersOK, GeoState
<1>2. GeoTypeInv /\ OnceInv
  BY DEF G!Init, G!Idle, G!Content, GeoTypeInv, OnceInv, Opening, GeoGoroutines, LookState
<1> QED
  BY <1>1, <1>2 DEF GeoInv

\* A good file makes the next reader, a bad one leaves the readers as they are.
LEMMA OpenedFacts ==
    ASSUME NEW g \in GeoState, NEW f \in G!Content
    PROVE  /\ G!Opened(g, f) \in GeoState
           /\ G!Opened(g, f).once = g.once /\ G!Opened(g, f).closed = g.closed
           /\ f = "good" => /\ G!Opened(g, f).opened = g.opened + 1
                            /\ G!Opened(g, f).reader = g.opened + 1
                            /\ G!Opened(g, f).failed = FALSE
           /\ f = "bad" => /\ G!Opened(g, f).opened = g.opened
                           /\ G!Opened(g, f).reader = g.reader
                           /\ G!Opened(g, f).failed = TRUE
<1>1. CASE f = "good"
  <2>1. G!Opened(g, f) =
           [once |-> g.once, reader |-> g.opened + 1, failed |-> FALSE,
            opened |-> g.opened + 1, closed |-> g.closed]
    BY <1>1 DEF G!Opened, GeoState
  <2>2. G!Opened(g, f) \in GeoState
    BY <2>1 DEF GeoState
  <2>3. /\ G!Opened(g, f).once = g.once /\ G!Opened(g, f).closed = g.closed
        /\ G!Opened(g, f).opened = g.opened + 1 /\ G!Opened(g, f).failed = FALSE
        /\ G!Opened(g, f).reader = g.opened + 1
    BY <2>1
  <2> QED
    BY <1>1, <2>2, <2>3
<1>2. CASE f = "bad"
  BY <1>2 DEF G!Opened, GeoState
<1> QED
  BY <1>1, <1>2 DEF G!Content

LEMMA EndedFacts ==
    ASSUME NEW g \in GeoState
    PROVE  LET h == [g EXCEPT !.once = "done"] IN
           /\ h \in GeoState /\ h.once = "done" /\ h.reader = g.reader
           /\ h.failed = g.failed /\ h.opened = g.opened /\ h.closed = g.closed
BY DEF GeoState

\* openLocked before there is a reader.
LEMMA FirstOpened ==
    ASSUME NEW g, ReadersOK(g), g.opened = 0, g.reader = 0, NEW f \in G!Content
    PROVE  /\ ReadersOK([G!Opened(g, f) EXCEPT !.once = "done"])
           /\ ReadersOK([g EXCEPT !.once = "done"])
<1>0. g \in GeoState
  BY DEF ReadersOK
<1>7. g.closed = {}
  BY DEF ReadersOK, GeoState
<1> DEFINE o == G!Opened(g, f)
           h == [o EXCEPT !.once = "done"]
           k == [g EXCEPT !.once = "done"]
<1>1. o \in GeoState
  BY <1>0, OpenedFacts
<1>2. /\ h \in GeoState /\ h.reader = o.reader /\ h.failed = o.failed
      /\ h.opened = o.opened /\ h.closed = o.closed
  BY <1>1, EndedFacts
<1>3. /\ k \in GeoState /\ k.reader = g.reader /\ k.failed = g.failed
      /\ k.opened = g.opened /\ k.closed = g.closed
  <2>1. k = [once |-> "done", reader |-> g.reader, failed |-> g.failed,
             opened |-> g.opened, closed |-> g.closed]
    BY <1>0 DEF GeoState
  <2> QED
    BY <1>0, <2>1 DEF GeoState
<1>4. o.closed = {} /\ o.reader = o.opened /\ o.opened \in {0, 1}
  <2>1. CASE f = "good"
    <3>1. /\ o.closed = g.closed /\ o.opened = g.opened + 1
          /\ o.reader = g.opened + 1
      BY <1>0, <2>1, OpenedFacts
    <3> HIDE DEF o
    <3> QED
      BY <1>7, <3>1
  <2>2. CASE f = "bad"
    BY <1>0, <1>7, <2>2, OpenedFacts
  <2> QED
    BY <2>1, <2>2 DEF G!Content
<1> HIDE DEF h, k, o
<1>5. ReadersOK(h)
  BY <1>2, <1>4 DEF ReadersOK
<1>6. ReadersOK(k)
  BY <1>0, <1>3, <1>7 DEF ReadersOK
<1> QED
  BY <1>5, <1>6 DEF h, k, o

\* openLocked by a refresh, which closes the reader that was in use.
LEMMA NextOpened ==
    ASSUME NEW g, ReadersOK(g), NEW f \in G!Content
    PROVE  LET next == [G!Opened(g, f) EXCEPT !.closed = @ \cup ({g.reader} \ {0})] IN
           ReadersOK(next) /\ next.opened >= g.opened /\ next.once = g.once
<1> DEFINE o == G!Opened(g, f)
           next == [o EXCEPT !.closed = @ \cup ({g.reader} \ {0})]
<1>0. g \in GeoState /\ g.opened \in Nat /\ g.reader \in Nat
  BY DEF ReadersOK, GeoState
<1>1. o \in GeoState
  BY <1>0, OpenedFacts
<1>2. /\ next \in GeoState /\ next.once = o.once /\ next.reader = o.reader
      /\ next.failed = o.failed /\ next.opened = o.opened
      /\ next.closed = o.closed \cup ({g.reader} \ {0})
  BY <1>0, <1>1 DEF GeoState
<1>3. o.once = g.once /\ o.closed = g.closed
  BY <1>0, OpenedFacts
<1> HIDE DEF next
<1> DEFINE Good == ReadersOK(next) /\ next.opened >= g.opened /\ next.once = g.once
<1>4. ASSUME f = "good" PROVE Good
  <2>1. o.opened = g.opened + 1 /\ o.reader = g.opened + 1
    BY <1>0, <1>4, OpenedFacts
  <2> HIDE DEF o
  <2> QED
    BY <1>0, <1>2, <1>3, <2>1 DEF ReadersOK
<1>5. ASSUME f = "bad" PROVE Good
  <2>1. o.opened = g.opened /\ o.reader = g.reader /\ o.failed = TRUE
    BY <1>0, <1>5, OpenedFacts
  <2> HIDE DEF o
  <2> QED
    BY <1>0, <1>2, <1>3, <2>1 DEF ReadersOK
<1>6. Good
  BY <1>4, <1>5 DEF G!Content
<1> QED
  BY <1>6 DEF next, o

\* A step of a goroutine that leaves the readers as they are.
LEMMA LookKept ==
    ASSUME GeoInv, NEW c \in GeoGoroutines, UNCHANGED geo, NEW new \in LookState,
           look' = [look EXCEPT ![c] = new], new.reader <= geo.opened,
           new.pc \in {"init", "open"} => Opening(c),
           new.pc = "swap" => geo.once = "done",
           disk' \in {"none"} \cup G!Content, copy' \in {"none"} \cup G!Content
    PROVE  GeoInv'
BY DEF GeoInv, GeoTypeInv, OnceInv, Opening

\* The step that ends the initialisation.
LEMMA InitEnds ==
    ASSUME GeoInv, NEW c \in GeoGoroutines, Opening(c),
           ReadersOK(geo'), geo'.once = "done",
           look' = [look EXCEPT ![c] = [look[c] EXCEPT !.pc = "wait"]],
           disk' \in {"none"} \cup G!Content, copy' = copy
    PROVE  GeoInv'
<1>1. geo.opened = 0 /\ geo'.opened \in Nat
  BY DEF GeoInv, OnceInv, ReadersOK, GeoState
<1>2. look' \in [GeoGoroutines -> LookState]
  BY DEF GeoInv, GeoTypeInv, LookState
<1>3. \A d \in GeoGoroutines : look'[d].reader <= geo'.opened
  BY <1>1 DEF GeoInv, GeoTypeInv, LookState
<1>4. \A d \in GeoGoroutines : ~Opening(d)'
  BY DEF GeoInv, GeoTypeInv, OnceInv, Opening
<1> QED
  BY <1>2, <1>3, <1>4 DEF GeoInv, GeoTypeInv, OnceInv

LEMMA GeoStep == GeoInv /\ [G!Next]_geoVars => GeoInv'
<1> SUFFICES ASSUME GeoInv, [G!Next]_geoVars PROVE GeoInv'
  OBVIOUS
<1>0. /\ look \in [GeoGoroutines -> LookState] /\ ReadersOK(geo)
      /\ disk \in {"none"} \cup G!Content /\ copy \in {"none"} \cup G!Content
      /\ \A c \in GeoGoroutines : look[c].reader <= geo.opened
  BY DEF GeoInv, GeoTypeInv
<1>1. ASSUME NEW c \in GeoGoroutines, G!Look(c) PROVE GeoInv'
  <2>1. CASE geo.once = "fresh"
    <3>1. /\ look' = [look EXCEPT ![c].pc = "init"] /\ geo' = [geo EXCEPT !.once = "running"]
          /\ UNCHANGED <<disk, copy>>
      BY <1>1, <2>1 DEF G!Look, G!Goto
    <3>2. ReadersOK(geo') /\ geo'.once = "running"
      BY <1>0, <3>1 DEF ReadersOK, GeoState
    <3>3. geo'.opened = 0 /\ geo'.reader = 0 /\ geo.opened = 0
      BY <1>0, <2>1, <3>1 DEF GeoInv, OnceInv, ReadersOK, GeoState
    <3>4. GeoTypeInv'
      BY <1>0, <3>1, <3>3 DEF GeoTypeInv, LookState
    <3>5. \A d \in GeoGoroutines : Opening(d)' <=> d = c
      BY <1>0, <2>1, <3>1 DEF GeoInv, OnceInv, Opening, LookState
    <3>6. \A d \in GeoGoroutines : look'[d].pc # "swap"
      BY <1>0, <2>1, <3>1 DEF GeoInv, OnceInv, LookState
    <3> QED
      BY <3>2, <3>3, <3>4, <3>5, <3>6 DEF GeoInv, OnceInv
  <2>2. CASE geo.once # "fresh"
    <3> DEFINE new == [look[c] EXCEPT !.pc = "wait"]
    <3>1. new \in LookState /\ new.pc = "wait" /\ new.reader <= geo.opened
      BY <1>0 DEF LookState
    <3>2. look' = [look EXCEPT ![c] = new] /\ UNCHANGED <<geo, disk, copy>>
      BY <1>0, <1>1, <2>2 DEF G!Look, G!Goto
    <3> HIDE DEF new
    <3> QED
      BY <1>0, <3>1, <3>2, LookKept
  <2> QED
    BY <2>1, <2>2
<1>2. ASSUME NEW c \in GeoGoroutines, G!InitFromCopy(c) PROVE GeoInv'
  <2>1. Opening(c) /\ copy \in G!Content /\ geo.opened = 0 /\ geo.reader = 0
    BY <1>0, <1>2 DEF G!InitFromCopy, G!At, GeoInv, OnceInv, Opening
  <2>2. ReadersOK(geo') /\ geo'.once = "done"
    BY <1>0, <1>2, <2>1, FirstOpened DEF G!InitFromCopy, ReadersOK, GeoState
  <2> QED
    BY <1>0, <1>2, <2>1, <2>2, InitEnds
    DEF G!InitFromCopy, G!Goto, G!Kept
<1>3. ASSUME NEW c \in GeoGoroutines, G!InitByDownload(c) PROVE GeoInv'
  <2>1. Opening(c) /\ geo.opened = 0 /\ geo.reader = 0
    BY <1>0, <1>3 DEF G!InitByDownload, G!At, GeoInv, OnceInv, Opening
  <2>2. CASE G!Downloaded /\ G!Goto(c, "open") /\ UNCHANGED geo
    <3> DEFINE new == [look[c] EXCEPT !.pc = "open"]
    <3>1. new \in LookState /\ new.pc = "open" /\ new.reader <= geo.opened
      BY <1>0 DEF LookState
    <3>2. look' = [look EXCEPT ![c] = new]
      BY <1>0, <2>2 DEF G!Goto
    <3>3. disk' \in {"none"} \cup G!Content /\ copy' \in {"none"} \cup G!Content
      BY <1>0, <2>2 DEF G!Downloaded
    <3> HIDE DEF new
    <3> QED
      BY <2>1, <2>2, <3>1, <3>2, <3>3, LookKept
  <2>3. CASE geo' = [geo EXCEPT !.once = "done"] /\ G!Goto(c, "wait") /\ UNCHANGED <<disk, copy>>
    <3>1. ReadersOK(geo') /\ geo'.once = "done"
      BY <1>0, <2>1, <2>3, FirstOpened DEF ReadersOK, GeoState, G!Content
    <3> QED
      BY <1>0, <2>1, <2>3, <3>1, InitEnds DEF G!Goto
  <2> QED
    BY <1>3, <2>2, <2>3 DEF G!InitByDownload
<1>4. ASSUME NEW c \in GeoGoroutines, G!InitByFile(c) PROVE GeoInv'
  <2> DEFINE new == [look[c] EXCEPT !.pc = "open"]
  <2>1. new \in LookState /\ new.pc = "open" /\ new.reader <= geo.opened
    BY <1>0 DEF LookState
  <2>2. look' = [look EXCEPT ![c] = new] /\ Opening(c)
    BY <1>0, <1>4 DEF G!InitByFile, G!Goto, G!At, Opening
  <2> HIDE DEF new
  <2> QED
    BY <1>0, <1>4, <2>1, <2>2, LookKept DEF G!InitByFile
<1>5. ASSUME NEW c \in GeoGoroutines, G!InitOpen(c) PROVE GeoInv'
  <2>1. Opening(c) /\ geo.opened = 0 /\ geo.reader = 0
    BY <1>0, <1>5 DEF G!InitOpen, G!At, GeoInv, OnceInv, Opening
  <2>2. CASE disk = "none"
    <3>1. /\ geo' = [geo EXCEPT !.once = "done"] /\ disk' = "none" /\ copy' = copy
          /\ look' = [look EXCEPT ![c] = [look[c] EXCEPT !.pc = "wait"]]
      BY <1>0, <1>5, <2>2 DEF G!InitOpen, G!Goto, G!Kept
    <3>2. ReadersOK(geo') /\ geo'.once = "done"
      BY <1>0, <2>1, <3>1, FirstOpened DEF ReadersOK, GeoState, G!Content
    <3>3. /\ disk' \in {"none"} \cup G!Content /\ copy' = copy
          /\ look' = [look EXCEPT ![c] = [look[c] EXCEPT !.pc = "wait"]]
      BY <3>1
    <3> QED
      BY <2>1, <3>2, <3>3, InitEnds
  <2>3. CASE disk \in G!Content
    <3>0. geo' = [G!Opened(geo, disk) EXCEPT !.once = "done"]
      BY <1>5, <2>3 DEF G!InitOpen, G!Content
    <3>1. ReadersOK(geo')
      BY <1>0, <2>1, <2>3, <3>0, FirstOpened
    <3>2. geo'.once = "done"
      BY <1>0, <2>3, <3>0, OpenedFacts, EndedFacts DEF ReadersOK
    <3> QED
      BY <1>0, <1>5, <2>1, <2>3, <3>1, <3>2, InitEnds DEF G!InitOpen, G!Goto, G!Kept
  <2> QED
    BY <1>0, <2>2, <2>3
<1>6. ASSUME NEW c \in GeoGoroutines, G!TakeReader(c) PROVE GeoInv'
  <2> DEFINE new == [pc |-> IF geo.reader = 0 THEN "idle" ELSE "lookup",
                     reader |-> geo.reader]
  <2>1. new \in LookState /\ new.pc \in {"idle", "lookup"} /\ new.reader <= geo.opened
    BY <1>0 DEF LookState, ReadersOK, GeoState
  <2> HIDE DEF new
  <2>2. look' = [look EXCEPT ![c] = new]
    BY <1>6 DEF G!TakeReader, new
  <2> QED
    BY <1>0, <1>6, <2>1, <2>2, LookKept DEF G!TakeReader
<1>7. ASSUME NEW c \in GeoGoroutines, G!Answer(c) PROVE GeoInv'
  <2>1. G!Idle \in LookState /\ G!Idle.pc = "idle" /\ G!Idle.reader <= geo.opened
    BY <1>0 DEF G!Idle, LookState, ReadersOK, GeoState
  <2> QED
    BY <1>0, <1>7, <2>1, LookKept DEF G!Answer
<1>8. ASSUME NEW c \in GeoGoroutines, G!Refresh(c) PROVE GeoInv'
  <2> DEFINE new == [look[c] EXCEPT !.pc = "swap"]
  <2>1. new \in LookState /\ new.pc = "swap" /\ new.reader <= geo.opened
    BY <1>0 DEF LookState
  <2>2. CASE G!Downloaded /\ G!Goto(c, "swap") /\ UNCHANGED geo
    <3>1. look' = [look EXCEPT ![c] = new]
      BY <1>0, <2>2 DEF G!Goto
    <3>2. disk' \in {"none"} \cup G!Content /\ copy' \in {"none"} \cup G!Content
      BY <1>0, <2>2 DEF G!Downloaded
    <3> HIDE DEF new
    <3> QED
      BY <1>8, <2>1, <2>2, <3>1, <3>2, LookKept DEF G!Refresh
  <2>3. CASE UNCHANGED <<disk, copy, geo, look>>
    BY <2>3 DEF GeoInv, GeoTypeInv, OnceInv, Opening
  <2> QED
    BY <1>8, <2>2, <2>3 DEF G!Refresh
<1>9. ASSUME NEW c \in GeoGoroutines, G!Swap(c) PROVE GeoInv'
  <2>1. /\ geo.once = "done" /\ look' = [look EXCEPT ![c] = G!Idle]
        /\ disk' \in {"none"} \cup G!Content /\ copy' = copy
    BY <1>0, <1>9 DEF G!Swap, G!At, G!Kept, GeoInv, OnceInv
  <2>2. ReadersOK(geo') /\ geo'.once = "done" /\ geo'.opened >= geo.opened
    <3>1. CASE disk = "none"
      BY <1>0, <1>9, <2>1, <3>1 DEF G!Swap, ReadersOK, GeoState
    <3>2. CASE disk # "none"
      BY <1>0, <1>9, <2>1, <3>2, NextOpened DEF G!Swap
    <3> QED
      BY <3>1, <3>2
  <2>3. G!Idle \in LookState /\ G!Idle.pc = "idle" /\ G!Idle.reader <= geo'.opened
    BY <2>2 DEF G!Idle, LookState, ReadersOK, GeoState
  <2>4. geo.opened \in Nat /\ geo'.opened \in Nat
    BY <1>0, <2>2 DEF ReadersOK, GeoState
  <2>5. GeoTypeInv'
    BY <1>0, <2>1, <2>2, <2>3, <2>4 DEF GeoTypeInv, LookState
  <2>6. OnceInv'
    BY <1>0, <2>1, <2>2, <2>3 DEF GeoInv, OnceInv, Opening
  <2> QED
    BY <2>2, <2>5, <2>6 DEF GeoInv
<1>10. CASE G!Close
  <2>1. /\ geo' = [geo EXCEPT !.closed = geo.closed \cup {geo.reader}, !.reader = 0]
        /\ geo.once = "done" /\ geo.reader # 0 /\ UNCHANGED <<disk, copy, look>>
    BY <1>0, <1>10 DEF G!Close, ReadersOK, GeoState
  <2>2. ReadersOK(geo') /\ geo'.once = "done" /\ geo'.opened = geo.opened
    <3>1. /\ geo' \in GeoState /\ geo'.once = "done" /\ geo'.opened = geo.opened
          /\ geo'.closed = geo.closed \cup {geo.reader} /\ geo'.reader = 0
      BY <1>0, <2>1 DEF ReadersOK, GeoState
    <3> QED
      BY <1>0, <2>1, <3>1 DEF ReadersOK, GeoState
  <2> QED
    BY <2>1, <2>2 DEF GeoInv, GeoTypeInv, OnceInv, Opening
<1>11. CASE G!ChangeCopy
  BY <1>11 DEF G!ChangeCopy, GeoInv, GeoTypeInv, OnceInv, Opening
<1>12. CASE UNCHANGED geoVars
  BY <1>12 DEF geoVars, GeoInv, GeoTypeInv, OnceInv, Opening
<1> QED
  BY <1>1, <1>2, <1>3, <1>4, <1>5, <1>6, <1>7, <1>8, <1>9, <1>10, <1>11, <1>12
  DEF G!Next, GeoGoroutines

LEMMA GeoAlways == Spec => []GeoInv
<1>1. Init => GeoInv
  BY GeoInit DEF Init
<1>2. GeoInv /\ [Next]_vars => GeoInv'
  <2>1. [Next]_vars => [G!Next]_geoVars
    BY DEF Next, OnlyEngine, OnlyCloud, OnlyGeo, vars, geoVars
  <2> QED
    BY <2>1, GeoStep
<1> QED
  BY <1>1, <1>2, PTL DEF Spec

\* Whatever look-ups, refreshes, failures to open a database and Close do at
\* once, each reader opened is the one in use or closed, and a closed one stays
\* in use only after a database that could not be opened (GeoIPManager).
THEOREM NoReaderIsLost == Spec => []ReadersAreKept
<1>1. GeoInv => ReadersAreKept
  <2> SUFFICES ASSUME GeoInv PROVE ReadersAreKept
    OBVIOUS
  <2>1. G!TypeOK
    BY DEF GeoInv, GeoTypeInv, ReadersOK, GeoState, LookState, GeoGoroutines, G!TypeOK
  <2>2. G!NoReaderLost /\ G!ClosedOnlyByFailure
    BY DEF GeoInv, ReadersOK, G!NoReaderLost, G!ClosedOnlyByFailure
  <2> QED
    BY <2>1, <2>2 DEF ReadersAreKept
<1> QED
  BY <1>1, GeoAlways, PTL

----------------------------------------------------------------------------
(* Proofs of the engines.                                                  *)

\* An engine no start-up has touched, or none will.
Untouched(e) == engine[e].once = "fresh" \/ e \in late

LEMMA EngineInitially == E!Init => LifecycleInv
<1> SUFFICES ASSUME E!Init PROVE LifecycleInv
  OBVIOUS
<1> USE DEF E!Init
<1>1. engine \in [Engines -> EngineState] /\ registry \in Engines \cup {NoEngine} /\ late = {}
  BY DEF EngineState
<1>2. redis \in [Engines -> RedisState] /\ \A e \in Engines : ClientsOK(redis[e])
  BY DEF RedisState, ClientsOK
<1>3. loop \in [Engines -> LoopState]
  BY DEF LoopState
<1>4. call \in [Callers -> CallState] /\ \A c \in Callers : CallOK(call[c]) /\ call[c].pc = "idle"
  BY DEF E!Idle, CallState, CallOK, StartSteps, StackSteps
<1>5. EngineTypeInv
  BY <1>1, <1>2, <1>3, <1>4 DEF EngineTypeInv
<1>6. \A c \in Callers : StartupInv(c) /\ call[c].pc # "dial"
  BY <1>4 DEF StartupInv, Starting, StartSteps
<1>7. \A e \in Engines : EngineInv(e) /\ LateInv(e)
  BY <1>1 DEF EngineInv, LateInv, E!Initialized, E!Stack
<1>8. RegistryInv /\ E!StacksAreWarm /\ E!LateAdopts
  BY <1>1 DEF RegistryInv, E!StacksAreWarm, E!LateAdopts
<1> QED
  BY <1>5, <1>6, <1>7, <1>8 DEF LifecycleInv

\* A step on the machinery of stacks: Redis clients and loops only come about,
\* and not on engines that are untouched.
LEMMA MachineryStep ==
    ASSUME LifecycleInv, UNCHANGED <<engine, registry, late>>,
           redis' \in [Engines -> RedisState], \A e \in Engines : ClientsOK(redis[e])',
           loop' \in [Engines -> LoopState],
           \A e \in Engines :
              /\ redis'[e].created >= redis[e].created
              /\ loop[e].pc # "off" => loop'[e].pc # "off"
              /\ Untouched(e) => /\ redis'[e].created = redis[e].created
                                 /\ loop'[e].pc = loop[e].pc,
           call' \in [Callers -> CallState], \A c \in Callers : CallOK(call[c])',
           \A c \in Callers : Starting(c)' =>
              /\ Starting(c) /\ call'[c].engine = call[c].engine
              /\ call'[c] # call[c] => Passed(call[c])',
           \A c \in Callers : call'[c].pc = "dial" => Settled(call'[c].engine)
    PROVE  LifecycleInv'
<1>0. /\ \A e \in Engines : redis[e].created \in Nat /\ redis'[e].created \in Nat
      /\ \A c \in Callers : Starting(c) => call[c].engine \in Engines
  BY DEF LifecycleInv, EngineTypeInv, RedisState, CallOK, Starting
<1>1. EngineTypeInv'
  BY DEF LifecycleInv, EngineTypeInv
<1>2. \A e \in Engines : E!Warm(e) => E!Warm(e)'
  BY <1>0 DEF E!Warm
<1>3. ASSUME NEW c \in Callers PROVE StartupInv(c)'
  <2>1. SUFFICES ASSUME Starting(c)' PROVE StartupInv(c)'
    BY DEF StartupInv
  <2>2. /\ Starting(c) /\ call'[c].engine = call[c].engine /\ StartupInv(c)
        /\ call[c].engine \in Engines
    BY <1>0, <2>1 DEF LifecycleInv
  <2>3. Passed(call[c])'
    <3>1. CASE call'[c] = call[c]
      BY <1>0, <2>2, <3>1 DEF StartupInv, Passed
    <3> QED
      BY <2>1, <3>1
  <2> QED
    BY <2>2, <2>3 DEF StartupInv
<1>4. \A e \in Engines : EngineInv(e)' /\ LateInv(e)'
  BY DEF LifecycleInv, EngineInv, LateInv, Untouched, Settled, E!Initialized, E!Stack
<1>5. \A c \in Callers : call'[c].pc = "dial" => Settled(call[c].engine)'
  BY DEF Settled, E!Initialized, E!Stack
<1>6. RegistryInv'
  BY DEF LifecycleInv, RegistryInv, E!Stack
<1>7. E!StacksAreWarm'
  <2>1. E!StacksAreWarm /\ \A e \in Engines : E!Stack(e) \in Engines
    BY DEF LifecycleInv, EngineTypeInv, EngineState, E!Stack
  <2>2. registry \in Engines \cup {NoEngine}
    BY DEF LifecycleInv, EngineTypeInv
  <2> QED
    BY <1>2, <2>1, <2>2 DEF E!StacksAreWarm, E!Stack
<1>8. E!LateAdopts'
  BY DEF LifecycleInv, EngineTypeInv, E!LateAdopts, Untouched, E!Initialized, E!Stack
<1> QED
  BY <1>1, <1>3, <1>4, <1>5, <1>6, <1>7, <1>8 DEF LifecycleInv

\* A start-up ends with a stack of its own or an adopted one.
LEMMA StartupEnds ==
    ASSUME LifecycleInv, NEW c \in Callers, Starting(c),
           NEW failed \in BOOLEAN, NEW s \in Engines,
           engine' = [engine EXCEPT ![call[c].engine] =
                         [once |-> "done", failed |-> failed, stack |-> s]],
           call' = [call EXCEPT ![c] = E!Idle],
           UNCHANGED <<redis, loop, late>>,
           s = call[c].engine \/ (engine[s].once = "done" /\ E!Stack(s) = s),
           ~failed => E!Warm(s),
           call[c].engine \in late => s # call[c].engine /\ ~failed,
           \/ registry' = registry
           \/ registry' = call[c].engine /\ s = call[c].engine /\ ~failed
    PROVE  LifecycleInv'
<1> DEFINE e == call[c].engine
<1>a. /\ engine \in [Engines -> EngineState] /\ call \in [Callers -> CallState]
      /\ registry \in Engines \cup {NoEngine} /\ \A d \in Callers : CallOK(call[d])
      /\ StartupInv(c)
  BY DEF LifecycleInv, EngineTypeInv
<1>b. /\ e \in Engines /\ engine[e].once = "running" /\ Passed(call[c])
      /\ \A d \in Callers : Starting(d) /\ call[d].engine = e => d = c
  BY <1>a DEF StartupInv, CallOK, Starting
<1>c. registry # e
  BY <1>b, InstanceAssumption DEF LifecycleInv, RegistryInv
<1>0. /\ e \in Engines /\ engine[e].once = "running" /\ Passed(call[c])
      /\ \A d \in Callers : Starting(d) /\ call[d].engine = e => d = c
      /\ engine \in [Engines -> EngineState] /\ call \in [Callers -> CallState]
      /\ registry \in Engines \cup {NoEngine}
      /\ registry # e
  BY <1>a, <1>b, <1>c
<1>1. /\ engine' = [engine EXCEPT ![e] = [once |-> "done", failed |-> failed, stack |-> s]]
      /\ s = e \/ (engine[s].once = "done" /\ E!Stack(s) = s)
      /\ e \in late => s # e /\ ~failed
      /\ registry' = registry \/ (registry' = e /\ s = e /\ ~failed)
  OBVIOUS
<1> HIDE DEF e
<1>2. /\ engine' \in [Engines -> EngineState]
      /\ \A f \in Engines : f # e => engine'[f] = engine[f]
      /\ engine'[e].once = "done" /\ engine'[e].failed = failed /\ engine'[e].stack = s
  BY <1>0, <1>1 DEF EngineState
<1>3. \A f \in Engines : Settled(f) => Settled(f)' /\ f # e
  BY <1>0, <1>2 DEF Settled, E!Initialized, E!Stack
<1>4. Settled(s)'
  BY <1>0, <1>1, <1>2 DEF Settled, E!Initialized, E!Stack
<1>5. \A d \in Callers : d # c => call'[d] = call[d]
  BY <1>0
<1>6. call'[c] = E!Idle /\ E!Idle.pc = "idle" /\ E!Idle.engine = NoEngine
  BY <1>0 DEF E!Idle
<1>7. EngineTypeInv'
  <2>1. CallOK(E!Idle)
    BY DEF E!Idle, CallOK, CallState, StartSteps, StackSteps
  <2>2. call' \in [Callers -> CallState] /\ \A d \in Callers : CallOK(call[d])'
    BY <1>0, <2>1 DEF LifecycleInv, EngineTypeInv, CallOK
  <2> QED
    BY <1>0, <1>1, <1>2, <2>2 DEF LifecycleInv, EngineTypeInv
<1>8. \A d \in Callers : StartupInv(d)'
  <2> SUFFICES ASSUME NEW d \in Callers, Starting(d)' PROVE StartupInv(d)'
    BY DEF StartupInv
  <2>1. d # c /\ call'[d] = call[d] /\ Starting(d) /\ StartupInv(d)
    BY <1>5, <1>6 DEF Starting, StartSteps, LifecycleInv
  <2>2. call[d].engine \in Engines /\ call[d].engine # e
    BY <1>0, <2>1 DEF LifecycleInv, EngineTypeInv, CallOK, Starting
  <2>3. \A g \in Callers : Starting(g)' => Starting(g) /\ call'[g] = call[g]
    BY <1>5, <1>6 DEF Starting, StartSteps
  <2> QED
    BY <1>2, <2>1, <2>2, <2>3 DEF StartupInv, Passed
<1>9. \A d \in Callers : call'[d].pc = "dial" => Settled(call[d].engine)'
  <2> SUFFICES ASSUME NEW d \in Callers, call'[d].pc = "dial"
               PROVE  Settled(call[d].engine)'
    OBVIOUS
  <2>1. call'[d] = call[d] /\ Settled(call[d].engine) /\ call[d].engine \in Engines
    BY <1>5, <1>6 DEF LifecycleInv, EngineTypeInv, CallOK, StackSteps
  <2> QED
    BY <1>3, <2>1 DEF Settled, E!Initialized, E!Stack
<1>10. \A f \in Engines : EngineInv(f)'
  <2> SUFFICES ASSUME NEW f \in Engines PROVE EngineInv(f)'
    OBVIOUS
  <2>1. CASE f = e
    BY <1>2, <1>4, <2>1 DEF EngineInv, E!Initialized, E!Stack, Settled
  <2>2. CASE f # e
    <3>1. EngineInv(f) /\ engine'[f] = engine[f] /\ engine[f].stack \in Engines
      BY <1>0, <1>2, <2>2 DEF LifecycleInv, EngineState
    <3> QED
      BY <1>3, <3>1 DEF EngineInv, E!Initialized, E!Stack, Settled
  <2> QED
    BY <2>1, <2>2
<1>11. \A f \in Engines : LateInv(f)'
  BY <1>0, <1>1, <1>2, InstanceAssumption DEF LifecycleInv, LateInv
<1>12. RegistryInv'
  BY <1>0, <1>1, <1>2 DEF LifecycleInv, RegistryInv, E!Stack
<1>13. E!StacksAreWarm'
  <2>1. \A f \in Engines : E!Warm(f)' <=> E!Warm(f)
    BY DEF E!Warm
  <2>2. E!StacksAreWarm /\ \A f \in Engines : engine[f].stack \in Engines
    BY <1>0 DEF LifecycleInv, EngineState
  <2> QED
    BY <1>0, <1>1, <1>2, <2>1, <2>2 DEF E!StacksAreWarm, E!Stack
<1>14. E!LateAdopts'
  BY <1>1, <1>2 DEF LifecycleInv, EngineTypeInv, E!LateAdopts, E!Initialized, E!Stack
<1> QED
  BY <1>7, <1>8, <1>9, <1>10, <1>11, <1>12, <1>13, <1>14 DEF LifecycleInv

\* What is settled was touched.
LEMMA SettledIsTouched ==
    ASSUME LifecycleInv, NEW s \in Engines, Settled(s)
    PROVE  ~Untouched(s)
BY DEF LifecycleInv, E!LateAdopts, Untouched, Settled, E!Initialized, E!Stack

\* So is the engine of a start-up that goes on after it found none to adopt.
LEMMA StartedIsTouched ==
    ASSUME LifecycleInv, NEW c \in Callers, Starting(c)
    PROVE  /\ call[c].engine \in Engines /\ engine[call[c].engine].once = "running"
           /\ Passed(call[c]) /\ EngineInv(call[c].engine)
           /\ call[c].pc # "adopt" => ~Untouched(call[c].engine)
<1>1. StartupInv(c) /\ call[c].engine \in Engines
  BY DEF LifecycleInv, EngineTypeInv, CallOK, Starting
<1> QED
  BY <1>1 DEF LifecycleInv, StartupInv, Passed, Untouched

\* A step of a goroutine on one stack's clients and rule loop.
LEMMA StackStep ==
    ASSUME LifecycleInv, UNCHANGED <<engine, registry, late>>,
           NEW s \in Engines, NEW clients, NEW rules, NEW c \in Callers, NEW new,
           redis' = [redis EXCEPT ![s] = clients], ClientsOK(clients),
           loop' = [loop EXCEPT ![s] = rules], rules \in LoopState,
           call' = [call EXCEPT ![c] = new], CallOK(new),
           clients.created >= redis[s].created, loop[s].pc # "off" => rules.pc # "off",
           Untouched(s) => clients.created = redis[s].created /\ rules.pc = loop[s].pc,
           new.pc \in StartSteps =>
              Starting(c) /\ new.engine = call[c].engine /\ Passed(call[c])',
           new.pc = "dial" => Settled(new.engine)
    PROVE  LifecycleInv'
<1>0. /\ redis \in [Engines -> RedisState] /\ loop \in [Engines -> LoopState]
      /\ call \in [Callers -> CallState] /\ \A e \in Engines : ClientsOK(redis[e])
      /\ \A d \in Callers : CallOK(call[d])
      /\ \A d \in Callers : call[d].pc = "dial" => Settled(call[d].engine)
  BY DEF LifecycleInv, EngineTypeInv
<1>1. /\ \A e \in Engines : redis'[e] = IF e = s THEN clients ELSE redis[e]
      /\ \A e \in Engines : loop'[e] = IF e = s THEN rules ELSE loop[e]
      /\ \A d \in Callers : call'[d] = IF d = c THEN new ELSE call[d]
  BY <1>0
<1>2. /\ redis' \in [Engines -> RedisState] /\ loop' \in [Engines -> LoopState]
      /\ call' \in [Callers -> CallState]
  BY <1>0 DEF ClientsOK, CallOK
<1>3. /\ \A e \in Engines : ClientsOK(redis[e])'
      /\ \A d \in Callers : CallOK(call[d])'
  BY <1>0, <1>1 DEF ClientsOK, CallOK
<1>4. \A e \in Engines :
         /\ redis'[e].created >= redis[e].created
         /\ loop[e].pc # "off" => loop'[e].pc # "off"
         /\ Untouched(e) => /\ redis'[e].created = redis[e].created
                            /\ loop'[e].pc = loop[e].pc
  BY <1>0, <1>1 DEF RedisState
<1>5. \A d \in Callers : Starting(d)' =>
         /\ Starting(d) /\ call'[d].engine = call[d].engine
         /\ call'[d] # call[d] => Passed(call[d])'
  BY <1>1 DEF Starting
<1>6. \A d \in Callers : call'[d].pc = "dial" => Settled(call'[d].engine)
  BY <1>0, <1>1
<1> QED
  BY <1>2, <1>3, <1>4, <1>5, <1>6, MachineryStep

\* A step of a goroutine that leaves all stacks as they are.
LEMMA CallStep ==
    ASSUME LifecycleInv, UNCHANGED <<engine, registry, redis, loop, late>>,
           NEW c \in Callers, NEW new, call' = [call EXCEPT ![c] = new], CallOK(new),
           new.pc \in StartSteps =>
              Starting(c) /\ new.engine = call[c].engine /\ Passed(call[c])',
           new.pc = "dial" => Settled(new.engine)
    PROVE  LifecycleInv'
<1>0. /\ redis \in [Engines -> RedisState] /\ loop \in [Engines -> LoopState]
      /\ call \in [Callers -> CallState] /\ \A e \in Engines : ClientsOK(redis[e])
      /\ \A d \in Callers : CallOK(call[d])
      /\ \A d \in Callers : call[d].pc = "dial" => Settled(call[d].engine)
  BY DEF LifecycleInv, EngineTypeInv
<1>1. \A d \in Callers : call'[d] = IF d = c THEN new ELSE call[d]
  BY <1>0
<1>2. call' \in [Callers -> CallState] /\ \A d \in Callers : CallOK(call[d])'
  BY <1>0, <1>1 DEF CallOK
<1>3. \A e \in Engines : ClientsOK(redis[e])' /\ redis[e].created \in Nat
  BY <1>0 DEF ClientsOK, RedisState
<1>4. \A d \in Callers : Starting(d)' =>
         /\ Starting(d) /\ call'[d].engine = call[d].engine
         /\ call'[d] # call[d] => Passed(call[d])'
  BY <1>1 DEF Starting
<1>5. \A d \in Callers : call'[d].pc = "dial" => Settled(call'[d].engine)
  BY <1>0, <1>1
<1> QED
  BY <1>0, <1>2, <1>3, <1>4, <1>5, MachineryStep

\* A fresh engine starts up, or its host marks it as initialised.
LEMMA FreshEngineStep ==
    ASSUME LifecycleInv, NEW e \in Engines, engine[e].once = "fresh",
           NEW once \in {"running", "marked"},
           engine' = [engine EXCEPT ![e].once = once],
           late' = late \/ (late' = late \cup {e} /\ registry # NoEngine /\ once = "running"),
           UNCHANGED <<registry, redis, loop>>,
           \/ UNCHANGED call
           \/ /\ once = "running"
              /\ \E c \in Callers :
                    call' = [call EXCEPT ![c] = [pc |-> "adopt", engine |-> e]]
    PROVE  LifecycleInv'
<1>0. /\ engine \in [Engines -> EngineState] /\ call \in [Callers -> CallState]
      /\ registry \in Engines \cup {NoEngine} /\ \A d \in Callers : CallOK(call[d])
      /\ E!Stack(e) = e /\ ~engine[e].failed /\ loop[e].pc = "off" /\ redis[e].created = 0
  BY DEF LifecycleInv, EngineTypeInv, EngineInv
<1>1. /\ engine' \in [Engines -> EngineState]
      /\ \A f \in Engines : f # e => engine'[f] = engine[f]
      /\ engine'[e].once = once /\ engine'[e].failed = FALSE /\ engine'[e].stack = e
  BY <1>0 DEF EngineState, E!Stack
<1>2. e \notin late /\ registry # e
  BY <1>0, InstanceAssumption DEF LifecycleInv, LateInv, RegistryInv
<1>3. \A f \in Engines : Settled(f) => Settled(f)' /\ f # e
  BY <1>1 DEF Settled, E!Initialized, E!Stack
<1>4. \A d \in Callers : \/ call'[d] = call[d]
                         \/ call'[d] = [pc |-> "adopt", engine |-> e] /\ once = "running"
  BY <1>0
<1>5. EngineTypeInv'
  <2>1. \A r : r = [pc |-> "adopt", engine |-> e] => CallOK(r)
    BY DEF CallOK, CallState, StartSteps, StackSteps
  <2>2. \A d \in Callers : CallOK(call[d])'
    BY <1>0, <1>4, <2>1 DEF CallOK
  <2>3. call' \in [Callers -> CallState]
    BY <1>0, <2>1 DEF CallOK
  <2> QED
    BY <1>1, <2>2, <2>3 DEF LifecycleInv, EngineTypeInv, ClientsOK
<1>6. \A d \in Callers : StartupInv(d)'
  <2> SUFFICES ASSUME NEW d \in Callers, Starting(d)' PROVE StartupInv(d)'
    BY DEF StartupInv
  <2>1. \A g \in Callers : Starting(g) => call[g].engine \in Engines /\ call[g].engine # e
    BY <1>0 DEF LifecycleInv, StartupInv, CallOK, Starting
  <2>2. CASE call'[d] = call[d]
    <3>1. Starting(d) /\ StartupInv(d) /\ call[d].engine \in Engines /\ call[d].engine # e
      BY <2>1, <2>2 DEF Starting, LifecycleInv
    <3>2. Passed(call[d])'
      BY <2>2, <3>1 DEF StartupInv, Passed
    <3> QED
      BY <1>1, <1>4, <2>2, <3>1, <3>2 DEF StartupInv, Starting
  <2>3. CASE call'[d] # call[d]
    <3>1. once = "running" /\ call'[d] = [pc |-> "adopt", engine |-> e]
      BY <1>4, <2>3
    <3>2. \A g \in Callers : g # d => call'[g] = call[g]
      BY <1>0, <2>3
    <3> QED
      BY <1>1, <2>1, <3>1, <3>2 DEF StartupInv, Starting, Passed, StartSteps
  <2> QED
    BY <2>2, <2>3
<1>7. \A d \in Callers : call'[d].pc = "dial" => Settled(call[d].engine)'
  <2> SUFFICES ASSUME NEW d \in Callers, call'[d].pc = "dial"
               PROVE  Settled(call[d].engine)'
    OBVIOUS
  <2>1. call'[d] = call[d] /\ Settled(call[d].engine) /\ call[d].engine \in Engines
    BY <1>0, <1>4 DEF LifecycleInv, CallOK, StackSteps
  <2> QED
    BY <1>3, <2>1 DEF Settled, E!Initialized, E!Stack
<1>8. \A f \in Engines : EngineInv(f)'
  <2> SUFFICES ASSUME NEW f \in Engines PROVE EngineInv(f)'
    OBVIOUS
  <2>1. CASE f = e
    BY <1>1, <2>1 DEF EngineInv, E!Initialized, E!Stack, Settled
  <2>2. CASE f # e
    <3>1. EngineInv(f) /\ engine'[f] = engine[f] /\ engine[f].stack \in Engines
      BY <1>0, <1>1, <2>2 DEF LifecycleInv, EngineState
    <3> QED
      BY <1>3, <3>1 DEF EngineInv, E!Initialized, E!Stack, Settled
  <2> QED
    BY <2>1, <2>2
<1>9. \A f \in Engines : LateInv(f)'
  BY <1>0, <1>1, <1>2 DEF LifecycleInv, LateInv
<1>10. RegistryInv'
  BY <1>0, <1>1, <1>2 DEF LifecycleInv, RegistryInv, E!Stack
<1>11. E!StacksAreWarm'
  <2>1. \A f \in Engines : E!Warm(f)' <=> E!Warm(f)
    BY DEF E!Warm
  <2>2. E!StacksAreWarm /\ \A f \in Engines : engine[f].stack \in Engines
    BY <1>0 DEF LifecycleInv, EngineState
  <2> QED
    BY <1>0, <1>1, <1>2, <2>1, <2>2 DEF E!StacksAreWarm, E!Stack
<1>12. E!LateAdopts'
  BY <1>0, <1>1, <1>2 DEF LifecycleInv, EngineTypeInv, E!LateAdopts, E!Initialized, E!Stack
<1> QED
  BY <1>5, <1>6, <1>7, <1>8, <1>9, <1>10, <1>11, <1>12 DEF LifecycleInv

\* A manager dials: one client more, and that is the one it holds.
Dialled(r) == [created |-> r.created + 1, held |-> r.created + 1,
               open |-> r.open \cup {r.created + 1}]

LEMMA DialledClients ==
    ASSUME NEW r, ClientsOK(r)
    PROVE  /\ ClientsOK(Dialled(r)) /\ Dialled(r).created >= r.created
           /\ Dialled(r).created > 0
<1>1. /\ r.created \in Nat /\ r.held \in Nat /\ r.open \in SUBSET Nat
      /\ \A k \in r.open : k \in 1..r.created
  BY DEF ClientsOK, RedisState
<1> QED
  BY <1>1 DEF ClientsOK, RedisState, Dialled

\* The states of an engine after its start-up.
LEMMA EndedState ==
    ASSUME NEW r \in EngineState, NEW s \in Engines, NEW failed \in BOOLEAN
    PROVE  /\ [r EXCEPT !.once = "done", !.stack = s]
                 = [once |-> "done", failed |-> r.failed, stack |-> s]
           /\ [r EXCEPT !.once = "done", !.failed = failed]
                 = [once |-> "done", failed |-> failed, stack |-> r.stack]
<1>1. PICK o \in {"fresh", "running", "done", "marked"}, f \in BOOLEAN, k \in Engines :
         r = [once |-> o, failed |-> f, stack |-> k]
  BY DEF EngineState
<1> DEFINE done == [r EXCEPT !.once = "done"]
<1>2. done = [once |-> "done", failed |-> f, stack |-> k]
  BY <1>1
<1>3. /\ [r EXCEPT !.once = "done", !.stack = s] = [done EXCEPT !.stack = s]
      /\ [r EXCEPT !.once = "done", !.failed = failed] = [done EXCEPT !.failed = failed]
  OBVIOUS
<1> HIDE DEF done
<1>4. [done EXCEPT !.stack = s] = [once |-> "done", failed |-> f, stack |-> s]
  BY <1>2
<1>5. [done EXCEPT !.failed = failed] = [once |-> "done", failed |-> failed, stack |-> k]
  BY <1>2
<1> QED
  BY <1>1, <1>3, <1>4, <1>5

\* The steps of a start-up.
LEMMA StartupStep ==
    ASSUME LifecycleInv, NEW c \in Callers, E!Startup(c)
    PROVE  LifecycleInv'
<1>0. /\ engine \in [Engines -> EngineState] /\ redis \in [Engines -> RedisState]
      /\ loop \in [Engines -> LoopState] /\ call \in [Callers -> CallState]
      /\ \A d \in Callers : CallOK(call[d]) /\ \A f \in Engines : ClientsOK(redis[f])
      /\ registry \in Engines \cup {NoEngine}
  BY DEF LifecycleInv, EngineTypeInv
<1>1. Starting(c)
  BY DEF E!Startup, E!Adopt, E!Connect, E!Attach, E!StartLoop, E!Register, E!At,
         Starting, StartSteps
<1> PICK e \in Engines : e = call[c].engine
  BY <1>1, StartedIsTouched
<1>2. /\ e = call[c].engine /\ engine[e].once = "running" /\ Passed(call[c])
      /\ E!Stack(e) = e /\ ~engine[e].failed
      /\ call[c].pc # "adopt" => ~Untouched(e) /\ e \notin late
  BY <1>1, StartedIsTouched DEF EngineInv, Untouched
<1>3. \A step \in StartSteps : LET new == [pc |-> step, engine |-> e] IN
         /\ CallOK(new) /\ new.pc = step /\ new.engine = e
         /\ E!Goto(c, step) => call' = [call EXCEPT ![c] = new]
  BY <1>0, <1>2 DEF E!Goto, CallOK, CallState, StartSteps
<1>4. ASSUME E!Adopt(c) PROVE LifecycleInv'
  <2>1. CASE registry \notin {NoEngine, e}
    <3> PICK s \in Engines : s = registry
      BY <1>0, <2>1
    <3>1. engine[s].once = "done" /\ E!Warm(s) /\ E!Stack(s) = s
      BY <1>0, <2>1 DEF LifecycleInv, RegistryInv, E!StacksAreWarm
    <3>2. /\ engine' = [engine EXCEPT ![e].once = "done", ![e].stack = s]
          /\ call' = [call EXCEPT ![c] = E!Idle]
          /\ UNCHANGED <<registry, redis, loop, late>>
      BY <1>2, <1>4, <2>1, <3>1 DEF E!Adopt, E!Return, E!Mine
    <3>3. engine' = [engine EXCEPT ![e] = [once |-> "done", failed |-> FALSE, stack |-> s]]
      <4>1. engine[e] \in EngineState /\ engine[e].failed = FALSE
        BY <1>0, <1>2 DEF EngineState
      <4>2. [engine[e] EXCEPT !.once = "done", !.stack = s]
                = [once |-> "done", failed |-> engine[e].failed, stack |-> s]
        BY <4>1, EndedState
      <4>3. engine' = [engine EXCEPT ![e] = [engine[e] EXCEPT !.once = "done", !.stack = s]]
        BY <1>0, <3>2
      <4> QED
        BY <4>1, <4>2, <4>3
    <3>4. s # e
      BY <2>1
    <3> QED
      BY <1>1, <1>2, <3>1, <3>2, <3>3, <3>4, StartupEnds
  <2>2. CASE registry \in {NoEngine, e}
    <3>1. E!Goto(c, "connect") /\ UNCHANGED <<engine, registry, redis, loop, late>>
      BY <1>4, <2>2 DEF E!Adopt, E!Mine
    <3>2. e \notin late
      BY <1>2, <2>2 DEF LifecycleInv, LateInv
    <3>3. Passed([pc |-> "connect", engine |-> e])'
      BY <3>1, <3>2 DEF Passed
    <3>4. Passed(call[c])'
      BY <1>0, <1>3, <3>1, <3>3 DEF StartSteps
    <3> QED
      BY <1>1, <1>3, <3>1, <3>4, CallStep DEF StartSteps
  <2> QED
    BY <2>1, <2>2
<1>5. ASSUME E!Connect(c) PROVE LifecycleInv'
  <2>0. call[c].pc = "connect" /\ UNCHANGED <<registry, loop, late>>
    BY <1>5 DEF E!Connect, E!At
  <2>1. CASE EnableRedis /\ E!Dial(e) /\ E!Goto(c, "attach") /\ UNCHANGED engine
    <3>1. redis' = [redis EXCEPT ![e] = Dialled(redis[e])]
      BY <1>0, <1>2, <2>1 DEF E!Dial, Dialled
    <3>2. /\ ClientsOK(Dialled(redis[e])) /\ Dialled(redis[e]).created >= redis[e].created
          /\ Dialled(redis[e]).created > 0
      BY <1>0, <1>2, DialledClients
    <3>3. call' = [call EXCEPT ![c] = [pc |-> "attach", engine |-> e]]
      BY <1>3, <2>1 DEF StartSteps
    <3>4. Passed(call[c])'
      BY <1>0, <1>2, <2>0, <3>1, <3>2, <3>3 DEF Passed
    <3>5. loop' = [loop EXCEPT ![e] = loop[e]] /\ loop[e] \in LoopState
      BY <1>0, <1>2, <2>0
    <3> DEFINE new == [pc |-> "attach", engine |-> e]
    <3>6. CallOK(new) /\ new.pc = "attach" /\ new.engine = e
      BY <1>3 DEF StartSteps
    <3>7. ~Untouched(e) /\ UNCHANGED <<engine, registry, late>>
      BY <1>2, <2>0, <2>1
    <3> HIDE DEF new
    <3> QED
      BY <1>1, <1>2, <3>1, <3>2, <3>3, <3>4, <3>5, <3>6, <3>7, StackStep DEF new
  <2>2. ASSUME ~EnableRedis \/ RedisFailOpen, E!Goto(c, "loop"), UNCHANGED <<engine, redis>>
        PROVE  LifecycleInv'
    <3>1. Passed([pc |-> "loop", engine |-> e])'
      BY <1>2, <2>0, <2>2 DEF Passed
    <3>2. Passed(call[c])'
      BY <1>0, <1>3, <2>2, <3>1 DEF StartSteps
    <3> QED
      BY <1>1, <1>3, <2>0, <2>2, <3>2, CallStep DEF StartSteps
  <2>3. CASE E!EndStartup(c, TRUE) /\ UNCHANGED redis
    BY <1>0, <1>1, <1>2, <2>0, <2>3, StartupEnds
    DEF E!EndStartup, E!Return, E!Mine, E!Stack, EngineState
  <2> QED
    BY <1>5, <2>1, <2>2, <2>3 DEF E!Connect, E!Mine
<1>6. ASSUME E!Attach(c) PROVE LifecycleInv'
  <2>0. call[c].pc = "attach" /\ UNCHANGED <<registry, redis, loop, late>>
    BY <1>6 DEF E!Attach, E!At
  <2>1. CASE E!Goto(c, "loop") /\ UNCHANGED engine
    <3>1. Passed([pc |-> "loop", engine |-> e])'
      BY <1>2, <2>0, <2>1 DEF Passed
    <3>2. Passed(call[c])'
      BY <1>0, <1>3, <2>1, <3>1 DEF StartSteps
    <3> QED
      BY <1>1, <1>3, <2>0, <2>1, <3>2, CallStep DEF StartSteps
  <2>2. CASE E!EndStartup(c, TRUE)
    BY <1>0, <1>1, <1>2, <2>0, <2>2, StartupEnds
    DEF E!EndStartup, E!Return, E!Mine, E!Stack, EngineState
  <2> QED
    BY <1>6, <2>1, <2>2 DEF E!Attach
<1>7. ASSUME E!StartLoop(c) PROVE LifecycleInv'
  <2> DEFINE rules == IF DynamicRules THEN [pc |-> "running", stop |-> loop[e].stop]
                                      ELSE loop[e]
  <2>0. /\ call[c].pc = "loop" /\ UNCHANGED <<engine, registry, redis, late>>
        /\ call' = [call EXCEPT ![c] = [pc |-> "register", engine |-> e]]
    BY <1>3, <1>7 DEF E!StartLoop, E!At, StartSteps
  <2>1. /\ loop' = [loop EXCEPT ![e] = rules] /\ rules \in LoopState
        /\ DynamicRules => rules.pc = "running"
        /\ loop[e].pc # "off" => rules.pc # "off"
    <3>1. /\ loop[e] \in LoopState
          /\ loop' = IF DynamicRules THEN [loop EXCEPT ![e].pc = "running"] ELSE loop
      BY <1>0, <1>2, <1>7 DEF E!StartLoop, E!Mine
    <3>2. CASE DynamicRules
      <4>1. [loop[e] EXCEPT !.pc = "running"] = rules
        BY <3>1, <3>2 DEF LoopState
      <4>2. loop' = [loop EXCEPT ![e] = [loop[e] EXCEPT !.pc = "running"]]
        BY <1>0, <3>1, <3>2
      <4>3. rules \in LoopState /\ rules.pc = "running"
        BY <3>1, <3>2 DEF LoopState
      <4> HIDE DEF rules
      <4> QED
        BY <4>1, <4>2, <4>3
    <3>3. CASE ~DynamicRules
      BY <1>0, <3>1, <3>3
    <3> QED
      BY <3>2, <3>3
  <2> HIDE DEF rules
  <2>2. redis' = [redis EXCEPT ![e] = redis[e]] /\ redis[e].created \in Nat
    BY <1>0, <1>2, <2>0 DEF RedisState
  <2>3. Passed(call[c])'
    BY <1>0, <1>2, <2>0, <2>1, <2>2 DEF Passed
  <2>4. /\ CallOK([pc |-> "register", engine |-> e]) /\ ClientsOK(redis[e])
        /\ ~Untouched(e) /\ redis[e].created >= redis[e].created
    BY <1>0, <1>2, <1>3, <2>0, <2>2 DEF StartSteps
  <2> QED
    BY <1>1, <1>2, <2>0, <2>1, <2>2, <2>3, <2>4, StackStep
<1>8. ASSUME E!Register(c) PROVE LifecycleInv'
  <2>1. /\ registry' = e /\ call' = [call EXCEPT ![c] = E!Idle]
        /\ engine' = [engine EXCEPT ![e] = [once |-> "done", failed |-> FALSE, stack |-> e]]
        /\ UNCHANGED <<redis, loop, late>>
    <3>1. /\ registry' = e /\ call' = [call EXCEPT ![c] = E!Idle]
          /\ engine' = [engine EXCEPT ![e].once = "done", ![e].failed = FALSE]
          /\ UNCHANGED <<redis, loop, late>>
      <4>1. registry' = e /\ E!EndStartup(c, FALSE) /\ UNCHANGED <<redis, loop, late>>
        BY <1>2, <1>8 DEF E!Register, E!Mine
      <4> QED
        BY <1>2, <4>1 DEF E!EndStartup, E!Return, E!Mine
    <3>2. engine[e] \in EngineState /\ engine[e].stack = e
      BY <1>0, <1>2 DEF E!Stack
    <3>3. [engine[e] EXCEPT !.once = "done", !.failed = FALSE]
              = [once |-> "done", failed |-> FALSE, stack |-> e]
      <4>1. [engine[e] EXCEPT !.once = "done", !.failed = FALSE]
                = [once |-> "done", failed |-> FALSE, stack |-> engine[e].stack]
        BY <1>0, EndedState, Zenon
      <4> QED
        BY <3>2, <4>1
    <3>4. engine' = [engine EXCEPT ![e] = [engine[e] EXCEPT !.once = "done", !.failed = FALSE]]
      BY <1>0, <3>1
    <3> QED
      BY <3>1, <3>3, <3>4
  <2>2. e \notin late /\ E!Warm(e)
    BY <1>2, <1>8 DEF E!Register, E!At, Passed, E!Warm
  <2> QED
    BY <1>1, <1>2, <2>1, <2>2, StartupEnds
<1> QED
  BY <1>4, <1>5, <1>6, <1>7, <1>8 DEF E!Startup

\* The states of a call outside a start-up.
LEMMA CallStates ==
    /\ CallOK(E!Idle) /\ E!Idle.pc = "idle"
    /\ \A s \in Engines, step \in {"wait", "panicked"} \cup StackSteps :
          LET new == [pc |-> step, engine |-> s] IN
          CallOK(new) /\ new.pc = step /\ new.engine = s /\ step \notin StartSteps
BY DEF CallOK, CallState, E!Idle, StartSteps, StackSteps

LEMMA CallMoves ==
    ASSUME LifecycleInv, NEW c \in Callers, NEW step, E!Goto(c, step)
    PROVE  call' = [call EXCEPT ![c] = [pc |-> step, engine |-> call[c].engine]]
<1>1. call \in [Callers -> CallState] /\ call[c] \in CallState
  BY DEF LifecycleInv, EngineTypeInv
<1>2. call' = [call EXCEPT ![c] = [call[c] EXCEPT !.pc = step]]
  BY <1>1 DEF E!Goto
<1>3. [call[c] EXCEPT !.pc = step] = [pc |-> step, engine |-> call[c].engine]
  BY <1>1 DEF CallState
<1> QED
  BY <1>2, <1>3

\* The steps on a stack's Redis clients and rule loop.
LEMMA ClientStep ==
    ASSUME LifecycleInv, NEW c \in Callers,
           E!Redial(c) \/ E!Operate(c) \/ E!Shutdown(c)
    PROVE  LifecycleInv'
<1>0. /\ redis \in [Engines -> RedisState] /\ loop \in [Engines -> LoopState]
      /\ CallOK(call[c]) /\ \A f \in Engines : ClientsOK(redis[f])
      /\ call[c].pc \in StackSteps
  BY DEF LifecycleInv, EngineTypeInv, E!Redial, E!Operate, E!Shutdown, E!Drain, E!Join,
         E!Disconnect, E!Shut, E!Forget, E!At, StackSteps
<1> PICK s \in Engines : s = call[c].engine
  BY <1>0 DEF CallOK
<1>1. /\ s = call[c].engine /\ redis[s] \in RedisState /\ loop[s] \in LoopState
      /\ ClientsOK(redis[s]) /\ redis[s].created \in Nat
      /\ redis = [redis EXCEPT ![s] = redis[s]] /\ loop = [loop EXCEPT ![s] = loop[s]]
  BY <1>0 DEF RedisState
<1>2. ASSUME \/ E!Return(c)
             \/ \E step \in {"operate", "panicked", "disconnect", "shut", "forget"} :
                   E!Goto(c, step)
      PROVE  \E new : /\ call' = [call EXCEPT ![c] = new] /\ CallOK(new)
                      /\ new.pc \notin StartSteps /\ new.pc # "dial"
  <2>1. CASE E!Return(c)
    BY <2>1, CallStates DEF E!Return, StartSteps
  <2>2. ASSUME NEW step \in {"operate", "panicked", "disconnect", "shut", "forget"},
               E!Goto(c, step)
        PROVE  \E new : /\ call' = [call EXCEPT ![c] = new] /\ CallOK(new)
                        /\ new.pc \notin StartSteps /\ new.pc # "dial"
    <3>1. step \in {"panicked"} \cup StackSteps /\ step # "dial"
      BY DEF StackSteps
    <3> DEFINE new == [pc |-> step, engine |-> s]
    <3>2. call' = [call EXCEPT ![c] = new]
      BY <1>1, <2>2, CallMoves
    <3>3. CallOK(new) /\ new.pc \notin StartSteps /\ new.pc # "dial"
      BY <3>1, CallStates
    <3> HIDE DEF new
    <3> QED
      BY <3>2, <3>3
  <2> QED
    BY <1>2, <2>1, <2>2
<1>3. ASSUME UNCHANGED <<engine, registry, redis, loop, late>>,
             \/ E!Return(c)
             \/ \E step \in {"operate", "panicked", "disconnect", "shut", "forget"} :
                   E!Goto(c, step)
      PROVE  LifecycleInv'
  BY <1>2, <1>3, CallStep
<1>4. ASSUME NEW clients, ClientsOK(clients), clients.created >= redis[s].created,
             NEW rules \in LoopState, loop[s].pc # "off" => rules.pc # "off",
             Untouched(s) => clients.created = redis[s].created /\ rules.pc = loop[s].pc,
             redis' = [redis EXCEPT ![s] = clients], loop' = [loop EXCEPT ![s] = rules],
             UNCHANGED <<engine, registry, late>>,
             \/ E!Return(c)
             \/ \E step \in {"operate", "panicked", "disconnect", "shut", "forget"} :
                   E!Goto(c, step)
      PROVE  LifecycleInv'
  BY <1>2, <1>4, StackStep
<1>5. CASE E!Redial(c)
  <2>1. CASE E!Dial(s) /\ E!Goto(c, "operate")
    <3>1. ~Untouched(s)
      BY <1>1, <1>5, SettledIsTouched DEF E!Redial, E!At, LifecycleInv
    <3>2. redis' = [redis EXCEPT ![s] = Dialled(redis[s])]
      BY <1>1, <2>1 DEF E!Dial, Dialled
    <3>3. ClientsOK(Dialled(redis[s])) /\ Dialled(redis[s]).created >= redis[s].created
      BY <1>1, DialledClients
    <3> QED
      BY <1>1, <1>4, <1>5, <2>1, <3>1, <3>2, <3>3 DEF E!Redial
  <2> QED
    BY <1>1, <1>3, <1>5, <2>1 DEF E!Redial, E!Mine
<1>6. CASE E!Operate(c)
  BY <1>3, <1>6 DEF E!Operate
<1>7. CASE E!Drain(c)
  <2> DEFINE rules == [pc |-> "ended", stop |-> "done"]
  <2>1. loop[s].pc = "ended" /\ loop' = [loop EXCEPT ![s].stop = "done"]
    BY <1>1, <1>7 DEF E!Drain, E!Mine
  <2>2. loop' = [loop EXCEPT ![s] = [loop[s] EXCEPT !.stop = "done"]]
    BY <1>0, <2>1
  <2>3. [loop[s] EXCEPT !.stop = "done"] = rules
    BY <1>1, <2>1 DEF LoopState
  <2>4. rules \in LoopState /\ rules.pc = "ended"
    BY DEF LoopState
  <2> HIDE DEF rules
  <2>5. loop' = [loop EXCEPT ![s] = rules]
    BY <2>2, <2>3
  <2>6. redis' = [redis EXCEPT ![s] = redis[s]] /\ redis[s].created >= redis[s].created
    BY <1>1, <1>7 DEF E!Drain
  <2> QED
    BY <1>1, <1>4, <1>7, <2>1, <2>4, <2>5, <2>6 DEF E!Drain
<1>8. CASE E!Join(c)
  BY <1>3, <1>8 DEF E!Join
<1>9. CASE E!Disconnect(c)
  BY <1>3, <1>9 DEF E!Disconnect
<1>10. CASE E!Shut(c)
  <2> DEFINE clients == [redis[s] EXCEPT !.open = redis[s].open \ {redis[s].held}]
  <2>1. /\ ClientsOK(clients) /\ clients.created = redis[s].created
        /\ clients.created >= redis[s].created
    BY <1>1 DEF ClientsOK, RedisState
  <2>2. redis' = [redis EXCEPT ![s] = clients]
    BY <1>0, <1>1, <1>10 DEF E!Shut, E!Mine
  <2> HIDE DEF clients
  <2> QED
    BY <1>1, <1>4, <1>10, <2>1, <2>2 DEF E!Shut
<1>11. CASE E!Forget(c)
  <2> DEFINE clients == [redis[s] EXCEPT !.held = 0]
  <2>1. /\ ClientsOK(clients) /\ clients.created = redis[s].created
        /\ clients.created >= redis[s].created
    BY <1>1 DEF ClientsOK, RedisState
  <2>2. redis' = [redis EXCEPT ![s] = clients]
    BY <1>0, <1>1, <1>11 DEF E!Forget, E!Mine
  <2> HIDE DEF clients
  <2> QED
    BY <1>1, <1>4, <1>11, <2>1, <2>2 DEF E!Forget
<1> QED
  BY <1>5, <1>6, <1>7, <1>8, <1>9, <1>10, <1>11 DEF E!Shutdown

LEMMA EngineStep == LifecycleInv /\ [E!Next]_engineVars => LifecycleInv'
<1> SUFFICES ASSUME LifecycleInv, [E!Next]_engineVars PROVE LifecycleInv'
  OBVIOUS
<1>0. /\ engine \in [Engines -> EngineState] /\ redis \in [Engines -> RedisState]
      /\ loop \in [Engines -> LoopState] /\ call \in [Callers -> CallState]
      /\ \A d \in Callers : CallOK(call[d])
      /\ \A f \in Engines : ClientsOK(redis[f]) /\ EngineInv(f) /\ E!Stack(f) \in Engines
  BY DEF LifecycleInv, EngineTypeInv, EngineState, E!Stack
<1>1. ASSUME NEW c \in Callers, NEW e \in Engines, E!Initialize(c, e) PROVE LifecycleInv'
  <2>1. CASE engine[e].once = "fresh"
    <3>1. /\ engine' = [engine EXCEPT ![e].once = "running"]
          /\ call' = [call EXCEPT ![c] = [pc |-> "adopt", engine |-> e]]
          /\ late' = late \/ (late' = late \cup {e} /\ registry # NoEngine)
          /\ UNCHANGED <<registry, redis, loop>>
      BY <1>1, <2>1 DEF E!Initialize
    <3> QED
      BY <2>1, <3>1, FreshEngineStep
  <2>2. CASE engine[e].once # "fresh"
    <3> DEFINE new == [pc |-> "wait", engine |-> e]
    <3>1. call' = [call EXCEPT ![c] = new] /\ UNCHANGED <<engine, registry, redis, loop, late>>
      BY <1>1, <2>2 DEF E!Initialize
    <3>2. CallOK(new) /\ new.pc \notin StartSteps /\ new.pc # "dial"
      BY CallStates
    <3> HIDE DEF new
    <3> QED
      BY <3>1, <3>2, CallStep
  <2> QED
    BY <2>1, <2>2
<1>2. ASSUME NEW c \in Callers, NEW e \in Engines, E!Use(c, e) PROVE LifecycleInv'
  <2> PICK s \in Engines : s = E!Stack(e)
    BY <1>0
  <2> DEFINE new == [pc |-> IF redis[s].held = 0 THEN "dial" ELSE "operate", engine |-> s]
  <2>1. call' = [call EXCEPT ![c] = new] /\ UNCHANGED <<engine, registry, redis, loop, late>>
    BY <1>2 DEF E!Use
  <2>2. Settled(s)
    BY <1>0, <1>2 DEF E!Use, EngineInv
  <2>3. CallOK(new) /\ new.pc \notin StartSteps /\ new.engine = s
    BY CallStates DEF StackSteps
  <2> HIDE DEF new
  <2> QED
    BY <2>1, <2>2, <2>3, CallStep
<1>3. ASSUME NEW c \in Callers, NEW e \in Engines, E!Close(c, e) PROVE LifecycleInv'
  <2> PICK s \in Engines : s = E!Stack(e)
    BY <1>0
  <2> DEFINE first == DynamicRules /\ loop[s].stop = "fresh"
             started == loop[s].pc # "off"
             new == [pc |-> IF ~DynamicRules \/ (first /\ ~started) THEN "disconnect"
                            ELSE IF first THEN "drain" ELSE "join",
                     engine |-> s]
             rules == IF first THEN [loop[s] EXCEPT
                                        !.stop = IF started THEN "closing" ELSE "done"]
                               ELSE loop[s]
  <2>1. call' = [call EXCEPT ![c] = new]
    BY <1>3 DEF E!Close
  <2>2. CallOK(new) /\ new.pc \notin StartSteps /\ new.pc # "dial"
    BY CallStates DEF StackSteps
  <2>3. rules \in LoopState /\ rules.pc = loop[s].pc
    BY <1>0 DEF LoopState
  <2>4. loop' = [loop EXCEPT ![s] = rules]
    BY <1>0, <1>3 DEF E!Close
  <2>5. /\ redis' = [redis EXCEPT ![s] = redis[s]] /\ redis[s].created >= redis[s].created
        /\ UNCHANGED <<engine, registry, late>>
    BY <1>0, <1>3 DEF E!Close, RedisState
  <2> HIDE DEF first, started, new, rules
  <2> QED
    BY <1>0, <2>1, <2>2, <2>3, <2>4, <2>5, StackStep
<1>4. ASSUME NEW c \in Callers, E!Wait(c) PROVE LifecycleInv'
  BY <1>4, CallStates, CallStep DEF E!Wait, E!Return, StartSteps
<1>5. ASSUME NEW e \in Engines, E!MarkInitialized(e) PROVE LifecycleInv'
  BY <1>5, FreshEngineStep DEF E!MarkInitialized
<1>6. ASSUME NEW e \in Engines, E!EndLoop(e) PROVE LifecycleInv'
  <2>1. ~Untouched(e)
    BY <1>6 DEF E!EndLoop, Untouched, LifecycleInv, EngineInv, E!LateAdopts
  <2>2. loop' \in [Engines -> LoopState] /\ loop'[e].pc = "ended"
    BY <1>0, <1>6 DEF E!EndLoop, LoopState
  <2>3. \A f \in Engines : /\ redis'[f].created >= redis[f].created
                           /\ redis'[f].created = redis[f].created
    BY <1>0, <1>6 DEF E!EndLoop, RedisState
  <2>4. \A f \in Engines : f # e => loop'[f] = loop[f]
    BY <1>0, <1>6 DEF E!EndLoop
  <2>5. /\ UNCHANGED <<engine, registry, late, redis, call>>
        /\ \A f \in Engines : ClientsOK(redis[f])'
        /\ \A c \in Callers : CallOK(call[c])' /\ (Starting(c)' <=> Starting(c))
        /\ \A c \in Callers : call'[c].pc = "dial" => Settled(call'[c].engine)
    BY <1>0, <1>6 DEF E!EndLoop, ClientsOK, CallOK, Starting, LifecycleInv
  <2> QED
    BY <1>0, <2>1, <2>2, <2>3, <2>4, <2>5, MachineryStep
<1>7. ASSUME UNCHANGED engineVars PROVE LifecycleInv'
  BY <1>7 DEF engineVars, LifecycleInv, EngineTypeInv, ClientsOK, CallOK, StartupInv, Starting,
     Passed, EngineInv, Settled, LateInv, RegistryInv, E!StacksAreWarm, E!LateAdopts, E!Warm,
     E!Initialized, E!Stack
<1> QED
  BY <1>1, <1>2, <1>3, <1>4, <1>5, <1>6, <1>7, StartupStep, ClientStep DEF E!Next

LEMMA EngineAlways == Spec => []LifecycleInv
<1>1. Init => LifecycleInv
  BY EngineInitially DEF Init
<1>2. LifecycleInv /\ [Next]_vars => LifecycleInv'
  <2>1. [Next]_vars => [E!Next]_engineVars
    BY DEF Next, OnlyEngine, OnlyCloud, OnlyGeo, vars, engineVars
  <2> QED
    BY <2>1, EngineStep
<1> QED
  BY <1>1, <1>2, PTL DEF Spec

\* Whichever start-ups overlap, fail or are marked as done by the host, and
\* whoever uses and closes the stacks meanwhile: the registry offers and engines
\* use only stacks that went through the whole start-up, and an engine that
\* starts after a registration leaves its own stack cold (Engine.Initialize).
THEOREM OnlyWarmStacksAreShared == Spec => []StacksAreShared
<1>1. LifecycleInv => StacksAreShared
  <2> SUFFICES ASSUME LifecycleInv PROVE StacksAreShared
    OBVIOUS
  <2>1. \A e \in Engines : /\ redis[e].open \subseteq 1..redis[e].created
                           /\ redis[e].held \in 0..redis[e].created
    <3> SUFFICES ASSUME NEW e \in Engines
                 PROVE  /\ redis[e].open \subseteq 1..redis[e].created
                        /\ redis[e].held \in 0..redis[e].created
      OBVIOUS
    <3>1. ClientsOK(redis[e])
      BY DEF LifecycleInv, EngineTypeInv
    <3>2. redis[e].created \in Nat /\ redis[e].held \in Nat /\ redis[e].held <= redis[e].created
      BY <3>1 DEF ClientsOK, RedisState
    <3>3. \A k \in redis[e].open : k \in 1..redis[e].created
      BY <3>1 DEF ClientsOK
    <3> QED
      BY <3>2, <3>3
  <2>2. E!TypeOK
    BY <2>1 DEF LifecycleInv, EngineTypeInv, EngineState, LoopState, CallState, E!TypeOK
  <2> QED
    BY <2>2 DEF LifecycleInv, StacksAreShared
<1> QED
  BY <1>1, EngineAlways, PTL
=============================================================================
