--------------------------- MODULE EngineLifecycle ---------------------------
(***************************************************************************)
(* The life of engines built from one config (composition.go,              *)
(* middlewarestate.go, lifecycle.go): each initialises once, and the first *)
(* that succeeds registers its stack - Redis manager, rule loop and the    *)
(* rest - for later ones to adopt.  Close works on the stack in use, which *)
(* others may share.  The Redis manager (redis.go) keeps one client,       *)
(* created at start-up or by the first call that finds none, and is not    *)
(* locked.  One goroutine initialises an engine before it uses or closes   *)
(* it; any number initialise it at once.                                   *)
(***************************************************************************)
EXTENDS Integers, FiniteSets

CONSTANTS
    Engines, Callers,   \* Callers: goroutines
    NoEngine,
    EnableRedis, RedisFailOpen,
    DynamicRules,       \* rules are enabled and the agent can fetch them
    MaxClients          \* bound on the clients each manager creates

VARIABLES
    engine,     \* engine[e]: initializeOnce, initializeErr and the stack in use
    registry,   \* the engine registered for the config, or NoEngine
    redis,      \* redis[e]: the clients the manager of e created and the one
                \* it holds (0: nil); those open
    loop,       \* loop[e]: the rule loop of e's manager, and its Stop
    call,       \* call[c]: the progress of goroutine c
    late        \* history: engines whose start-up began after a registration

vars == <<engine, registry, redis, loop, call, late>>

----------------------------------------------------------------------------
Idle == [pc |-> "idle", engine |-> NoEngine]
At(c, step) == call[c].pc = step
Initialized(e) == engine[e].once \in {"done", "marked"}
Mine(c) == call[c].engine
Stack(e) == engine[e].stack
Goto(c, step) == call' = [call EXCEPT ![c].pc = step]
Return(c) == call' = [call EXCEPT ![c] = Idle]

\* NewEngine.
Init ==
    /\ engine = [e \in Engines |-> [once |-> "fresh", failed |-> FALSE, stack |-> e]]
    /\ registry = NoEngine
    /\ redis = [e \in Engines |-> [created |-> 0, held |-> 0, open |-> {}]]
    /\ loop = [e \in Engines |-> [pc |-> "off", stop |-> "fresh"]]
    /\ call = [c \in Callers |-> Idle]
    /\ late = {}

----------------------------------------------------------------------------
(* Initialize.                                                             *)

\* initializeOnce.Do: the first caller starts up, others wait for it.
Initialize(c, e) ==
    /\ At(c, "idle")
    /\ call' = [call EXCEPT ![c] =
           [pc |-> IF engine[e].once = "fresh" THEN "adopt" ELSE "wait", engine |-> e]]
    /\ engine' = IF engine[e].once = "fresh"
                 THEN [engine EXCEPT ![e].once = "running"] ELSE engine
    /\ late' = IF engine[e].once = "fresh" /\ registry # NoEngine
               THEN late \cup {e} ELSE late
    /\ UNCHANGED <<registry, redis, loop>>

Wait(c) ==
    /\ At(c, "wait") /\ Initialized(Mine(c))
    /\ Return(c)
    /\ UNCHANGED <<engine, registry, redis, loop, late>>

\* MarkInitialized: the host warmed the stack itself.
MarkInitialized(e) ==
    /\ engine[e].once = "fresh"
    /\ engine' = [engine EXCEPT ![e].once = "marked"]
    /\ UNCHANGED <<registry, redis, loop, call, late>>

\* The start-up ends and with it the once.
EndStartup(c, failed) ==
    /\ engine' = [engine EXCEPT ![Mine(c)].once = "done", ![Mine(c)].failed = failed]
    /\ Return(c)

\* Mutation of Adopt: every engine warms its own stack.
AdoptNever(c) ==
    /\ At(c, "adopt")
    /\ Goto(c, "connect")
    /\ UNCHANGED <<engine, registry, redis, loop, late>>

\* GetMiddlewareState and adoptWarmState.
Adopt(c) ==
    /\ At(c, "adopt")
    /\ IF registry \notin {NoEngine, Mine(c)}
       THEN /\ engine' = [engine EXCEPT ![Mine(c)].once = "done",
                                        ![Mine(c)].stack = Stack(registry)]
            /\ Return(c)
       ELSE Goto(c, "connect") /\ UNCHANGED engine
    /\ UNCHANGED <<registry, redis, loop, late>>

\* A new client; one held before is not closed.
Dial(s) ==
    /\ redis[s].created < MaxClients
    /\ redis' = [redis EXCEPT ![s] = [created |-> @.created + 1, held |-> @.created + 1,
                                      open |-> @.open \cup {@.created + 1}]]

\* initializeMachinery up to the connection, then the managers' attachment.
Connect(c) ==
    /\ At(c, "connect")
    /\ \/ EnableRedis /\ Dial(Mine(c)) /\ Goto(c, "attach") /\ UNCHANGED engine
       \/ ~EnableRedis /\ Goto(c, "loop") /\ UNCHANGED <<engine, redis>>
       \/ /\ EnableRedis
          /\ IF RedisFailOpen THEN Goto(c, "loop") /\ UNCHANGED engine
                              ELSE EndStartup(c, TRUE)
          /\ UNCHANGED redis
    /\ UNCHANGED <<registry, loop, late>>

\* Mutation of Attach: an error returns from within the once.
AttachStuck(c) ==
    /\ At(c, "attach")
    /\ \/ Goto(c, "loop")
       \/ Return(c)
    /\ UNCHANGED <<engine, registry, redis, loop, late>>

\* Mutation of Attach: an error is logged only.
AttachLenient(c) ==
    /\ At(c, "attach")
    /\ Goto(c, "register")
    /\ UNCHANGED <<engine, registry, redis, loop, late>>

\* Ban.InitializeRedis may fail.
Attach(c) ==
    /\ At(c, "attach")
    /\ \/ Goto(c, "loop") /\ UNCHANGED engine
       \/ EndStartup(c, TRUE)
    /\ UNCHANGED <<registry, redis, loop, late>>

\* startDynamicRuleLoop.
StartLoop(c) ==
    /\ At(c, "loop")
    /\ loop' = IF DynamicRules THEN [loop EXCEPT ![Mine(c)].pc = "running"] ELSE loop
    /\ Goto(c, "register")
    /\ UNCHANGED <<engine, registry, redis, late>>

\* RegisterMiddlewareState.
Register(c) ==
    /\ At(c, "register")
    /\ registry' = Mine(c)
    /\ EndStartup(c, FALSE)
    /\ UNCHANGED <<redis, loop, late>>

----------------------------------------------------------------------------
(* Use: a Redis operation of a request, and Close.                         *)

\* safeOperation: creates a client if there is none, and reads it again.
Use(c, e) ==
    /\ At(c, "idle") /\ EnableRedis /\ Initialized(e) /\ ~engine[e].failed
    /\ call' = [call EXCEPT ![c] =
           [pc |-> IF redis[Stack(e)].held = 0 THEN "dial" ELSE "operate",
            engine |-> Stack(e)]]
    /\ UNCHANGED <<engine, registry, redis, loop, late>>

Redial(c) ==
    /\ At(c, "dial")
    /\ \/ Dial(Mine(c)) /\ Goto(c, "operate")
       \/ UNCHANGED redis /\ Return(c)
    /\ UNCHANGED <<engine, registry, loop, late>>

\* A call on a nil client panics.
Operate(c) ==
    /\ At(c, "operate")
    /\ IF redis[Mine(c)].held = 0 THEN Goto(c, "panicked") ELSE Return(c)
    /\ UNCHANGED <<engine, registry, redis, loop, late>>

\* Close stops the rule manager first.  stopOnce: the first caller closes stopCh
\* and waits for the loop if it was started, others wait for the first.
Close(c, e) ==
    LET s == Stack(e)
        first == DynamicRules /\ loop[s].stop = "fresh"
        started == loop[s].pc # "off" IN
    /\ At(c, "idle") /\ engine[e].once # "running"
    /\ call' = [call EXCEPT ![c] =
           [pc |-> IF ~DynamicRules \/ (first /\ ~started) THEN "disconnect"
                   ELSE IF first THEN "drain" ELSE "join",
            engine |-> s]]
    /\ loop' = IF first
               THEN [loop EXCEPT ![s].stop = IF started THEN "closing" ELSE "done"]
               ELSE loop
    /\ UNCHANGED <<engine, registry, redis, late>>

Drain(c) ==
    /\ At(c, "drain") /\ loop[Mine(c)].pc = "ended"
    /\ loop' = [loop EXCEPT ![Mine(c)].stop = "done"]
    /\ Goto(c, "disconnect")
    /\ UNCHANGED <<engine, registry, redis, late>>

Join(c) ==
    /\ At(c, "join") /\ loop[Mine(c)].stop = "done"
    /\ Goto(c, "disconnect")
    /\ UNCHANGED <<engine, registry, redis, loop, late>>

\* RedisManager.Close: tests the client, closes it, forgets it.
Disconnect(c) ==
    /\ At(c, "disconnect")
    /\ IF redis[Mine(c)].held = 0 THEN Return(c) ELSE Goto(c, "shut")
    /\ UNCHANGED <<engine, registry, redis, loop, late>>

Shut(c) ==
    LET held == redis[Mine(c)].held IN
    /\ At(c, "shut")
    /\ redis' = [redis EXCEPT ![Mine(c)].open = @ \ {held}]
    /\ Goto(c, IF held = 0 THEN "panicked" ELSE "forget")
    /\ UNCHANGED <<engine, registry, loop, late>>

Forget(c) ==
    /\ At(c, "forget")
    /\ redis' = [redis EXCEPT ![Mine(c)].held = 0]
    /\ Return(c)
    /\ UNCHANGED <<engine, registry, loop, late>>

\* The loop sees stopCh closed.
EndLoop(e) ==
    /\ loop[e].pc = "running" /\ loop[e].stop # "fresh"
    /\ loop' = [loop EXCEPT ![e].pc = "ended"]
    /\ UNCHANGED <<engine, registry, redis, call, late>>

Startup(c) == Adopt(c) \/ Connect(c) \/ Attach(c) \/ StartLoop(c) \/ Register(c)
Shutdown(c) == Drain(c) \/ Join(c) \/ Disconnect(c) \/ Shut(c) \/ Forget(c)

Next ==
    \/ \E c \in Callers : \/ \E e \in Engines : Initialize(c, e) \/ Use(c, e) \/ Close(c, e)
                         \/ Startup(c) \/ Wait(c) \/ Redial(c) \/ Operate(c) \/ Shutdown(c)
    \/ \E e \in Engines : MarkInitialized(e) \/ EndLoop(e)

Spec == Init /\ [][Next]_vars

\* Goroutines run on; dialling Redis ends, with a client or an error.
Fairness == /\ \A c \in Callers : WF_vars(Startup(c) \/ Wait(c) \/ Shutdown(c))
            /\ \A e \in Engines : WF_vars(EndLoop(e))

----------------------------------------------------------------------------
(* Properties.                                                             *)

TypeOK ==
    /\ engine \in [Engines -> [once : {"fresh", "running", "done", "marked"},
                               failed : BOOLEAN, stack : Engines]]
    /\ registry \in Engines \cup {NoEngine}
    /\ \A e \in Engines :
          /\ redis[e].open \subseteq 1..redis[e].created
          /\ redis[e].held \in 0..redis[e].created
          /\ loop[e] \in [pc : {"off", "running", "ended"},
                          stop : {"fresh", "closing", "done"}]
    /\ \A c \in Callers : call[c].engine \in Engines \cup {NoEngine}
    /\ late \subseteq Engines

\* The stack of e went through the whole start-up: its rule loop was started,
\* and unless Redis may be absent it was connected.
Warm(e) == /\ DynamicRules => loop[e].pc # "off"
           /\ EnableRedis /\ ~RedisFailOpen => redis[e].created > 0

\* The registry offers, and an engine whose Initialize succeeded uses, only a
\* stack that went through the whole start-up without an error, whatever
\* start-ups of other engines failed or overlapped.
StacksAreWarm ==
    /\ registry # NoEngine => Warm(registry) /\ ~engine[registry].failed
    /\ \A e \in Engines : engine[e].once = "done" /\ ~engine[e].failed => Warm(Stack(e))

\* An engine that starts up after another one has registered shares its stack
\* and leaves its own cold: no second loop, no second pool
\* (middlewarestate.go: "shared with every later stack").
LateAdopts ==
    \A e \in late : /\ loop[e].pc = "off" /\ redis[e].created = 0
                    /\ Initialized(e) => Stack(e) # e /\ ~engine[e].failed

\* Initialize returns to every goroutine that waits for another one's start-up,
\* failed or not, and Close to every one that waits for the rule loop, even if
\* several goroutines close engines that share a stack.
CallsReturn ==
    LET waiting(c) == call[c].pc \in {"wait", "drain", "join"} IN
    \A c \in Callers : waiting(c) ~> ~waiting(c)
=============================================================================
