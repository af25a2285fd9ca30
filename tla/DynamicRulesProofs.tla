-------------------------- MODULE DynamicRulesProofs --------------------------
(***************************************************************************)
(* Proofs about DynamicRules, for any processes, goroutines, rules, bounds *)
(* and ways of failing.                                                    *)
(***************************************************************************)
EXTENDS DynamicRules, TLAPS

Steps == {"boot", "idle", "fetch", "gate", "redis", "file", "commit", "ended"}
         \cup Stages

Storing == {"redis", "file", "commit"}
AtWork(c) == call[c].pc \in Stages \cup Storing

\* A goroutine holds a rule from the fetch on, and a snapshot while it applies.
CallInv(c) ==
    /\ call[c].pc \in {"gate"} \cup Stages \cup Storing => call[c].rule \in Rules
    /\ call[c].pc \in Stages => call[c].snapshot \in Config

TypeInv == TypeOK /\ \A c \in Callers : CallInv(c)

\* What the rest is proved under: every config has one manager.
OneManagerEach ==
    /\ \A k \in Configs : \E m \in Managers : ConfigOf[m] = k
    /\ \A m, n \in Managers : ConfigOf[m] = ConfigOf[n] => m = n

\* The mutex.
OneAtWork == \A c, d \in Callers : AtWork(c) /\ AtWork(d) /\ Mine(c) = Mine(d) => c = d

\* A config v that manager m may leave behind: its active rule is in force, and
\* the base is the config the process started with.
Settled(m, v) ==
    /\ mgr[m].current = NoRule => mgr[m].base = NoConfig /\ v = Static
    /\ mgr[m].current # NoRule => mgr[m].base = Static /\ InForce(v, mgr[m].current)

Rest(m) == /\ cfg[ConfigOf[m]] = announced[ConfigOf[m]]
           /\ Settled(m, cfg[ConfigOf[m]])

\* What the stages before this one have written.
Written(stage, v, r) ==
    /\ stage # "blocking" => (r.blocking # Keep => v.blocking = r.blocking)
    /\ stage \in {"toggles", "emergency"} => (r.limits # Keep => v.limits = r.limits)
    /\ stage = "emergency" =>
          /\ r.toggles # Keep => v.toggles = r.toggles
          /\ r.threshold # Keep => v.threshold = r.threshold

Progress(c) ==
    /\ call[c].pc \in Stages =>
          /\ call[c].snapshot = announced[Cfg(c)]
          /\ Settled(Mine(c), call[c].snapshot)
          /\ Written(call[c].pc, cfg[Cfg(c)], call[c].rule)
    /\ call[c].pc \in Storing =>
          /\ mgr[Mine(c)].base = Static
          /\ InForce(cfg[Cfg(c)], call[c].rule)

RuleInv ==
    /\ TypeInv /\ OneAtWork
    /\ \A m \in Managers : ~Locked(m) => Rest(m)
    /\ \A c \in Callers : Progress(c)

----------------------------------------------------------------------------
(* Operators.                                                              *)

LEMMA NoConfigFacts == NoConfig \notin Config /\ Static \in Config
BY RuleAssumption DEF NoConfig, Config

\* Half of a positive threshold is positive.
LEMMA HalvedPositive ==
    ASSUME NEW n \in Nat \ {0}
    PROVE  Halved(n) \in Nat \ {0}
BY DEF Halved

LEMMA OverriddenType ==
    ASSUME NEW S, NEW old \in S, NEW new \in S \cup {Keep}
    PROVE  Overridden(old, new) \in S
BY DEF Overridden

\* Every stage of every rule makes a config of a config.
LEMMA StagedType ==
    ASSUME NEW stage \in Stages, NEW v \in Config, NEW r \in Rules
    PROVE  Staged(stage, v, r) \in Config
<1>0. r \in Rule
  BY RuleAssumption
<1>1. CASE stage = "blocking"
  <2>1. Overridden(v.blocking, r.blocking) \in Values
    BY <1>0, OverriddenType DEF Config, Rule
  <2>2. Staged(stage, v, r) = [v EXCEPT !.blocking = Overridden(v.blocking, r.blocking)]
    BY <1>1 DEF Staged
  <2> QED
    BY <2>1, <2>2 DEF Config
<1>2. CASE stage = "limits"
  <2>1. Overridden(v.limits, r.limits) \in Values
    BY <1>0, OverriddenType DEF Config, Rule
  <2>2. Staged(stage, v, r) = [v EXCEPT !.limits = Overridden(v.limits, r.limits)]
    BY <1>2 DEF Staged
  <2> QED
    BY <2>1, <2>2 DEF Config
<1>3. CASE stage = "toggles"
  <2>1. Overridden(v.toggles, r.toggles) \in Values
    BY <1>0, OverriddenType DEF Config, Rule
  <2>2. Overridden(v.threshold, r.threshold) \in Nat \ {0}
    BY <1>0, OverriddenType DEF Config, Rule
  <2>3. Staged(stage, v, r) =
           [v EXCEPT !.toggles = Overridden(v.toggles, r.toggles),
                     !.threshold = Overridden(v.threshold, r.threshold)]
    BY <1>3 DEF Staged
  <2> QED
    BY <2>1, <2>2, <2>3 DEF Config
<1>4. CASE stage = "emergency" /\ r.emergency = Keep
  BY <1>4 DEF Staged
<1>5. CASE stage = "emergency" /\ r.emergency # Keep
  <2>1. r.emergency \in Values
    BY <1>0, <1>5 DEF Rule
  <2>2. Halved(v.threshold) \in Nat \ {0}
    BY HalvedPositive DEF Config
  <2>3. Staged(stage, v, r) = [v EXCEPT !.emergency = r.emergency,
                                        !.threshold = Halved(v.threshold)]
    BY <1>5 DEF Staged
  <2> QED
    BY <2>1, <2>2, <2>3 DEF Config
<1> QED
  BY <1>1, <1>2, <1>3, <1>4, <1>5 DEF Stages

\* The next stage, or the first store.
LEMMA AfterType ==
    ASSUME NEW stage \in Stages
    PROVE  After(stage) \in Stages \cup {"redis"}
BY DEF After, Stages

\* InForce, written out.
LEMMA InForceFields ==
    ASSUME NEW v, NEW r
    PROVE  InForce(v, r) <=>
             /\ r.blocking # Keep => v.blocking = r.blocking
             /\ r.limits # Keep => v.limits = r.limits
             /\ r.toggles # Keep => v.toggles = r.toggles
             /\ r.emergency # Keep => v.emergency = r.emergency
             /\ r.threshold # Keep =>
                  v.threshold = IF r.emergency = Keep THEN r.threshold
                                ELSE Halved(r.threshold)
BY DEF InForce

----------------------------------------------------------------------------
(* Types.                                                                  *)

LEMMA InitType == Init => TypeInv
<1> SUFFICES ASSUME Init PROVE TypeInv
  OBVIOUS
<1>1. \A c \in Callers : Start(c) \in Call /\ Start(c).pc \in {"boot", "idle"}
  BY DEF Start, Call
<1>2. \A c \in Callers : call[c] = Start(c)
  BY DEF Init
<1>3. TypeOK
  BY <1>1, NoConfigFacts DEF Init, TypeOK, Fresh, Manager
<1>4. \A c \in Callers : CallInv(c)
  BY <1>1, <1>2 DEF CallInv, Stages, Storing
<1> QED
  BY <1>3, <1>4 DEF TypeInv

\* A goroutine whose record is replaced by a sound one keeps call sound.
LEMMA CallStep ==
    ASSUME TypeInv, NEW c \in Callers, NEW r \in Call,
           call' = [call EXCEPT ![c] = r],
           r.pc \in {"gate"} \cup Stages \cup Storing => r.rule \in Rules,
           r.pc \in Stages => r.snapshot \in Config
    PROVE  call' \in [Callers -> Call] /\ \A d \in Callers : CallInv(d)'
<1>1. call \in [Callers -> Call]
  BY DEF TypeInv, TypeOK
<1>2. call' \in [Callers -> Call]
  BY <1>1
<1>3. ASSUME NEW d \in Callers PROVE CallInv(d)'
  <2>1. CASE d = c
    BY <1>1, <2>1 DEF CallInv
  <2>2. CASE d # c
    BY <1>1, <2>2 DEF CallInv, TypeInv
  <2> QED
    BY <2>1, <2>2
<1> QED
  BY <1>2, <1>3

\* The same for a goroutine that only moves on.
LEMMA GotoStep ==
    ASSUME TypeInv, NEW c \in Callers, NEW step \in Steps, Goto(c, step),
           step \in {"gate"} \cup Stages \cup Storing =>
               call[c].pc \in {"gate"} \cup Stages \cup Storing,
           step \in Stages => call[c].pc \in Stages
    PROVE  call' \in [Callers -> Call] /\ \A d \in Callers : CallInv(d)'
<1> DEFINE r == [call[c] EXCEPT !.pc = step]
<1>1. call[c] \in Call /\ CallInv(c)
  BY DEF TypeInv, TypeOK
<1>2. r \in Call
  BY <1>1 DEF Call, Steps
<1>3. call' = [call EXCEPT ![c] = r]
  BY DEF Goto
<1>4. r.pc = step /\ r.rule = call[c].rule /\ r.snapshot = call[c].snapshot
  BY <1>1 DEF Call
<1>5. /\ r.pc \in {"gate"} \cup Stages \cup Storing => r.rule \in Rules
      /\ r.pc \in Stages => r.snapshot \in Config
  BY <1>1, <1>4 DEF CallInv
<1> HIDE DEF r
<1> QED
  BY <1>2, <1>3, <1>5, CallStep

\* The same for one that begins to apply rule r.
LEMMA BeginStep ==
    ASSUME TypeInv, NEW c \in Callers, NEW r \in Rules, BeginApply(c, r)
    PROVE  call' \in [Callers -> Call] /\ \A d \in Callers : CallInv(d)'
<1> DEFINE new == [pc |-> "blocking", rule |-> r, snapshot |-> cfg[Cfg(c)]]
<1>1. Cfg(c) \in Configs
  BY ShapeAssumption DEF Cfg, Mine
<1>2. cfg[Cfg(c)] \in Config
  BY <1>1 DEF TypeInv, TypeOK
<1>3. new \in Call
  BY <1>2 DEF Call, Stages
<1>4. call' = [call EXCEPT ![c] = new]
  BY DEF BeginApply
<1>5. new.rule \in Rules /\ new.snapshot \in Config
  BY <1>2
<1> HIDE DEF new
<1> QED
  BY <1>3, <1>4, <1>5, CallStep

\* Every action keeps the types.
LEMMA PollType ==
    ASSUME TypeInv, NEW c \in Callers, Poll(c) \/ Hydrate(c) \/ EndLoop(c)
    PROVE  TypeInv'
<1>0. /\ Mine(c) \in Managers /\ Cfg(c) \in Configs
      /\ cfg[Cfg(c)] \in Config /\ mgr[Mine(c)] \in Manager
      /\ call[c] \in Call /\ CallInv(c)
  BY ShapeAssumption DEF Cfg, Mine, TypeInv, TypeOK
<1>1. CASE Expire(c)
  <2>1. mgr[Mine(c)].base # NoConfig => mgr[Mine(c)].base \in Config
    BY <1>0 DEF Manager
  <2>2. cfg' \in [Configs -> Config] /\ announced' \in [Configs -> Config]
    BY <1>0, <1>1, <2>1 DEF Expire, TypeInv, TypeOK
  <2>3. mgr' \in [Managers -> Manager]
    BY <1>0, <1>1 DEF Expire, TypeInv, TypeOK, Manager
  <2>4. call' \in [Callers -> Call] /\ \A d \in Callers : CallInv(d)'
    BY <1>1, GotoStep DEF Expire, Steps, Stages, Storing
  <2> QED
    BY <1>1, <2>2, <2>3, <2>4 DEF Expire, TypeInv, TypeOK
<1>2. CASE Fetch(c)
  <2>1. call' \in [Callers -> Call] /\ \A d \in Callers : CallInv(d)'
    <3>1. CASE Goto(c, "idle")
      BY <3>1, GotoStep DEF Steps, Stages, Storing
    <3>2. ASSUME NEW r \in Rules,
                 call' = [call EXCEPT ![c].pc = "gate", ![c].rule = r]
          PROVE  call' \in [Callers -> Call] /\ \A d \in Callers : CallInv(d)'
      <4> DEFINE new == [call[c] EXCEPT !.pc = "gate", !.rule = r]
      <4>1. new \in Call /\ new.pc = "gate" /\ new.rule = r
        BY <1>0 DEF Call
      <4>2. call' = [call EXCEPT ![c] = new]
        BY <3>2 DEF TypeInv, TypeOK
      <4> HIDE DEF new
      <4> QED
        BY <4>1, <4>2, CallStep DEF Stages
    <3> QED
      BY <1>2, <3>1, <3>2 DEF Fetch
  <2> QED
    BY <1>2, <2>1 DEF Fetch, TypeInv, TypeOK
<1>3. CASE Gate(c)
  <2>1. call[c].rule \in Rules
    BY <1>0, <1>3 DEF Gate, At, CallInv
  <2>2. Goto(c, "idle") \/ BeginApply(c, call[c].rule)
    BY <1>3 DEF Gate
  <2>3. call' \in [Callers -> Call] /\ \A d \in Callers : CallInv(d)'
    BY <2>1, <2>2, GotoStep, BeginStep DEF Steps, Stages, Storing
  <2> QED
    BY <1>3, <2>3 DEF Gate, TypeInv, TypeOK
<1>4. CASE ApplyStage(c)
  <2>1. call[c].pc \in Stages /\ call[c].rule \in Rules /\ call[c].snapshot \in Config
    BY <1>0, <1>4 DEF ApplyStage, CallInv
  <2>2. cfg' \in [Configs -> Config]
    BY <1>0, <1>4, <2>1, StagedType DEF ApplyStage, TypeInv, TypeOK
  <2>3. Captured(Mine(c), call[c].snapshot) \in Config \cup {NoConfig}
    BY <1>0, <2>1 DEF Captured, Manager
  <2>4. mgr' \in [Managers -> Manager]
    BY <1>0, <1>4, <2>3 DEF ApplyStage, TypeInv, TypeOK, Manager
  <2>5. recent' \in [Configs -> SUBSET Rules]
    BY <1>0, <1>4, <2>1 DEF ApplyStage, TypeInv, TypeOK
  <2>6. After(call[c].pc) \in Stages \cup {"redis"}
    BY <2>1, AfterType
  <2>7. call' \in [Callers -> Call] /\ \A d \in Callers : CallInv(d)'
    BY <1>4, <2>1, <2>6, GotoStep DEF ApplyStage, Steps
  <2> QED
    BY <1>4, <2>2, <2>4, <2>5, <2>7 DEF ApplyStage, TypeInv, TypeOK
<1>5. CASE FailApply(c)
  <2>1. cfg' \in [Configs -> Config]
    BY <1>0, <1>5 DEF FailApply, CallInv, TypeInv, TypeOK
  <2>2. call' \in [Callers -> Call] /\ \A d \in Callers : CallInv(d)'
    BY <1>5, GotoStep DEF FailApply, Steps, Stages, Storing
  <2> QED
    BY <1>5, <2>1, <2>2 DEF FailApply, TypeInv, TypeOK
<1>6. CASE PersistRedis(c)
  <2>1. call[c].rule \in Rules
    BY <1>0, <1>6 DEF PersistRedis, At, CallInv, Storing
  <2>2. call' \in [Callers -> Call] /\ \A d \in Callers : CallInv(d)'
    BY <1>6, GotoStep DEF PersistRedis, At, Steps, Stages, Storing
  <2>3. redis' \in Rules \cup {NoRule}
    BY <1>6, <2>1 DEF PersistRedis, TypeInv, TypeOK
  <2> QED
    BY <1>6, <2>2, <2>3 DEF PersistRedis, TypeInv, TypeOK
<1>7. CASE PersistFile(c)
  <2>1. call[c].rule \in Rules
    BY <1>0, <1>7 DEF PersistFile, At, CallInv, Storing
  <2>2. call' \in [Callers -> Call] /\ \A d \in Callers : CallInv(d)'
    BY <1>7, GotoStep DEF PersistFile, At, Steps, Stages, Storing
  <2>3. file' \in [Configs -> Rules \cup {NoRule}]
    BY <1>0, <1>7, <2>1 DEF PersistFile, TypeInv, TypeOK
  <2> QED
    BY <1>7, <2>2, <2>3 DEF PersistFile, TypeInv, TypeOK
<1>8. CASE Commit(c)
  <2>1. call[c].rule \in Rules
    BY <1>0, <1>8 DEF Commit, At, CallInv, Storing
  <2>2. call' \in [Callers -> Call] /\ \A d \in Callers : CallInv(d)'
    BY <1>8, GotoStep DEF Commit, Steps, Stages, Storing
  <2>3. /\ announced' \in [Configs -> Config]
        /\ mgr' \in [Managers -> Manager]
        /\ recent' \in [Configs -> SUBSET Rules]
    BY <1>0, <1>8, <2>1 DEF Commit, TypeInv, TypeOK, Manager
  <2> QED
    BY <1>8, <2>2, <2>3 DEF Commit, TypeInv, TypeOK
<1>9. CASE Hydrate(c)
  <2>1. Goto(c, "idle") \/ \E r \in Rules : BeginApply(c, r)
    <3>1. PICK answers \in {TRUE, ~ReadsMayFail} :
             IF Loaded(Cfg(c), answers) = NoRule THEN Goto(c, "idle")
             ELSE BeginApply(c, Loaded(Cfg(c), answers))
      BY <1>9 DEF Hydrate
    <3>2. Loaded(Cfg(c), answers) \in Rules \cup {NoRule}
      BY <1>0 DEF Loaded, TypeInv, TypeOK
    <3> QED
      BY <3>1, <3>2
  <2>2. call' \in [Callers -> Call] /\ \A d \in Callers : CallInv(d)'
    BY <2>1, GotoStep, BeginStep DEF Steps, Stages, Storing
  <2> QED
    BY <1>9, <2>2 DEF Hydrate, TypeInv, TypeOK
<1>10. CASE EndLoop(c)
  <2>1. call' \in [Callers -> Call] /\ \A d \in Callers : CallInv(d)'
    BY <1>10, GotoStep DEF EndLoop, Steps, Stages, Storing
  <2> QED
    BY <1>10, <2>1 DEF EndLoop, TypeInv, TypeOK
<1> QED
  BY <1>1, <1>2, <1>3, <1>4, <1>5, <1>6, <1>7, <1>8, <1>9, <1>10 DEF Poll, Apply

LEMMA EnvironmentType ==
    ASSUME TypeInv,
           \/ \E m \in Managers : Stop(m)
           \/ \E k \in Configs : Crash(k)
           \/ Tick
    PROVE  TypeInv'
<1>1. CASE \E m \in Managers : Stop(m)
  <2>1. PICK m \in Managers : Stop(m)
    BY <1>1
  <2>2. mgr[m] \in Manager
    BY DEF TypeInv, TypeOK
  <2>3. mgr' \in [Managers -> Manager]
    BY <2>1, <2>2 DEF Stop, TypeInv, TypeOK, Manager
  <2> QED
    BY <2>1, <2>3 DEF Stop, TypeInv, TypeOK, CallInv
<1>2. CASE \E k \in Configs : Crash(k)
  <2>1. PICK k \in Configs : Crash(k)
    BY <1>2
  <2>2. cfg' \in [Configs -> Config] /\ announced' \in [Configs -> Config]
    BY <2>1, NoConfigFacts DEF Crash, TypeInv, TypeOK
  <2>3. Fresh \in Manager
    BY DEF Fresh, Manager
  <2>4. mgr' \in [Managers -> Manager]
    BY <2>1, <2>3 DEF Crash, TypeInv, TypeOK
  <2>5. \A c \in Callers : Start(c) \in Call /\ Start(c).pc \in {"boot", "idle"}
    BY DEF Start, Call
  <2>6. \A c \in Callers : call'[c] = Start(c) \/ call'[c] = call[c]
    BY <2>1 DEF Crash
  <2>7. call' \in [Callers -> Call]
    BY <2>1, <2>5 DEF Crash, TypeInv, TypeOK
  <2>8. \A c \in Callers : CallInv(c)'
    BY <2>5, <2>6 DEF CallInv, TypeInv, Stages, Storing
  <2>9. crashes' \in Nat
    BY <2>1 DEF Crash, TypeInv, TypeOK
  <2> QED
    BY <2>1, <2>2, <2>4, <2>7, <2>8, <2>9 DEF Crash, TypeInv, TypeOK
<1>3. CASE Tick
  BY <1>3 DEF Tick, TypeInv, TypeOK, CallInv
<1> QED
  BY <1>1, <1>2, <1>3

LEMMA StepType == TypeInv /\ [Next]_vars => TypeInv'
<1> SUFFICES ASSUME TypeInv, [Next]_vars PROVE TypeInv'
  OBVIOUS
<1>1. CASE \E c \in Callers : Poll(c) \/ Hydrate(c) \/ EndLoop(c)
  BY <1>1, PollType
<1>2. CASE \/ \E m \in Managers : Stop(m)
           \/ \E k \in Configs : Crash(k)
           \/ Tick
  BY <1>2, EnvironmentType
<1>3. CASE UNCHANGED vars
  BY <1>3 DEF vars, TypeInv, TypeOK, CallInv
<1> QED
  BY <1>1, <1>2, <1>3 DEF Next

\* Every variable keeps its type; in particular a threshold that emergency
\* rules halve over and over never reaches zero.
THEOREM TypeCorrect == Spec => []TypeOK
<1>1. TypeInv => TypeOK
  BY DEF TypeInv
<1> QED
  BY <1>1, InitType, StepType, PTL DEF Spec

----------------------------------------------------------------------------
(* The active rule and the base.                                           *)

LEMMA LockedMeansAtWork ==
    ASSUME NEW m
    PROVE  Locked(m) <=> \E c \in Callers : AtWork(c) /\ Mine(c) = m
BY DEF Locked, AtWork, Storing

LEMMA InitRules == Init => RuleInv
<1> SUFFICES ASSUME Init PROVE RuleInv
  OBVIOUS
<1>1. \A c \in Callers : call[c].pc \in {"boot", "idle"}
  BY DEF Init, Start
<1>2. \A c \in Callers : ~AtWork(c) /\ Progress(c)
  BY <1>1 DEF AtWork, Progress, Stages, Storing
<1>3. \A m \in Managers : Rest(m)
  BY ShapeAssumption DEF Init, Rest, Settled, Fresh
<1> QED
  BY <1>2, <1>3, InitType DEF RuleInv, OneAtWork

\* A step of a goroutine that neither has nor takes the mutex, and changes
\* nothing the mutex protects.
LEMMA OutsideStep ==
    ASSUME RuleInv, TypeInv', NEW c \in Callers, ~AtWork(c), ~AtWork(c)',
           UNCHANGED <<cfg, announced, mgr>>,
           \A d \in Callers : d # c => call'[d] = call[d]
    PROVE  RuleInv'
<1>1. \A d \in Callers : AtWork(d)' <=> AtWork(d)
  BY DEF AtWork
<1>2. \A m \in Managers : Locked(m)' <=> Locked(m)
  <2> SUFFICES ASSUME NEW m \in Managers PROVE Locked(m)' <=> Locked(m)
    OBVIOUS
  <2>1. Locked(m)' <=> \E d \in Callers : AtWork(d)' /\ Mine(d) = m
    BY DEF Locked, AtWork, Storing, Mine
  <2> QED
    BY <1>1, <2>1, LockedMeansAtWork
<1>3. \A d \in Callers : Progress(d)'
  <2> TAKE d \in Callers
  <2>1. CASE d = c
    BY <2>1 DEF AtWork, Progress
  <2>2. CASE d # c
    BY <2>2 DEF RuleInv, Progress, Settled, Cfg, Mine
  <2> QED
    BY <2>1, <2>2
<1>4. \A m \in Managers : Rest(m)' <=> Rest(m)
  BY DEF Rest, Settled
<1> QED
  BY <1>1, <1>2, <1>3, <1>4 DEF RuleInv, OneAtWork, Mine

\* A step of a goroutine that has the mutex or takes it: the state of other
\* managers stays, and it leaves its own settled unless it is still at work.
LEMMA InsideStep ==
    ASSUME RuleInv, TypeInv', NEW c \in Callers,
           AtWork(c) \/ ~Locked(Mine(c)),
           \A d \in Callers : d # c => call'[d] = call[d],
           \A m \in Managers : m # Mine(c) =>
               /\ cfg'[ConfigOf[m]] = cfg[ConfigOf[m]]
               /\ announced'[ConfigOf[m]] = announced[ConfigOf[m]]
               /\ mgr'[m] = mgr[m],
           Progress(c)',
           ~AtWork(c)' => Rest(Mine(c))'
    PROVE  RuleInv'
<1>0. \A d \in Callers : Mine(d) \in Managers
  BY ShapeAssumption DEF Mine
<1>1. \A d \in Callers : d # c /\ Mine(d) = Mine(c) => ~AtWork(d)
  BY LockedMeansAtWork DEF RuleInv, OneAtWork
<1>2. \A d \in Callers : d # c => (AtWork(d)' <=> AtWork(d))
  BY DEF AtWork
<1>3. OneAtWork'
  BY <1>1, <1>2 DEF RuleInv, OneAtWork, Mine
<1>4. \A d \in Callers : Progress(d)'
  <2> TAKE d \in Callers
  <2>1. CASE d # c /\ Mine(d) = Mine(c)
    <3>1. ~AtWork(d)'
      BY <1>1, <1>2, <2>1
    <3> QED
      BY <3>1 DEF AtWork, Progress
  <2>2. CASE Mine(d) # Mine(c)
    <3>1. d # c /\ Mine(d) \in Managers
      BY <1>0, <2>2
    <3>2. /\ cfg'[Cfg(d)] = cfg[Cfg(d)] /\ announced'[Cfg(d)] = announced[Cfg(d)]
          /\ mgr'[Mine(d)] = mgr[Mine(d)] /\ call'[d] = call[d]
      BY <2>2, <3>1 DEF Cfg
    <3> QED
      BY <3>2 DEF RuleInv, Progress, Settled, Cfg, Mine
  <2> QED
    BY <2>1, <2>2
<1>5. ASSUME NEW m \in Managers, ~Locked(m)' PROVE Rest(m)'
  <2>1. \A d \in Callers : Mine(d) = m => ~AtWork(d)'
    BY <1>5 DEF Locked, AtWork, Storing, Mine
  <2>2. CASE m = Mine(c)
    BY <2>1, <2>2
  <2>3. CASE m # Mine(c)
    <3>1. \A d \in Callers : Mine(d) = m => ~AtWork(d)
      BY <1>2, <2>1, <2>3
    <3>2. Rest(m)
      BY <3>1, LockedMeansAtWork DEF RuleInv
    <3> QED
      BY <2>3, <3>2 DEF Rest, Settled
  <2> QED
    BY <2>2, <2>3
<1> QED
  BY <1>3, <1>4, <1>5 DEF RuleInv

\* Each stage adds its part of the rule to what the stages before it wrote, and
\* after the last one the whole rule is in force.
LEMMA StagesWrite ==
    ASSUME NEW stage \in Stages, NEW v \in Config, NEW r \in Rules,
           Written(stage, v, r)
    PROVE  IF stage = "emergency" THEN InForce(Staged(stage, v, r), r)
           ELSE After(stage) \in Stages /\ Written(After(stage), Staged(stage, v, r), r)
<1> DEFINE w == Staged(stage, v, r)
<1>1. CASE stage = "blocking"
  <2>1. w = [v EXCEPT !.blocking = Overridden(v.blocking, r.blocking)]
    BY <1>1 DEF Staged
  <2>2. After(stage) = "limits"
    BY <1>1 DEF After
  <2>3. r.blocking # Keep => w.blocking = r.blocking
    BY <2>1 DEF Config, Overridden
  <2> QED
    BY <1>1, <2>2, <2>3 DEF Written, Stages
<1>2. CASE stage = "limits"
  <2>1. w = [v EXCEPT !.limits = Overridden(v.limits, r.limits)]
    BY <1>2 DEF Staged
  <2>2. After(stage) = "toggles"
    BY <1>2 DEF After
  <2>3. /\ r.blocking # Keep => w.blocking = r.blocking
        /\ r.limits # Keep => w.limits = r.limits
    BY <1>2, <2>1 DEF Config, Overridden, Written
  <2> QED
    BY <1>2, <2>2, <2>3 DEF Written, Stages
<1>3. CASE stage = "toggles"
  <2>1. w = [v EXCEPT !.toggles = Overridden(v.toggles, r.toggles),
                      !.threshold = Overridden(v.threshold, r.threshold)]
    BY <1>3 DEF Staged
  <2>2. After(stage) = "emergency"
    BY <1>3 DEF After
  <2>3. /\ r.blocking # Keep => w.blocking = r.blocking
        /\ r.limits # Keep => w.limits = r.limits
        /\ r.toggles # Keep => w.toggles = r.toggles
        /\ r.threshold # Keep => w.threshold = r.threshold
    BY <1>3, <2>1 DEF Config, Overridden, Written
  <2> QED
    BY <1>3, <2>2, <2>3 DEF Written, Stages
<1>4. CASE stage = "emergency"
  <2>1. /\ r.blocking # Keep => v.blocking = r.blocking
        /\ r.limits # Keep => v.limits = r.limits
        /\ r.toggles # Keep => v.toggles = r.toggles
        /\ r.threshold # Keep => v.threshold = r.threshold
    BY <1>4 DEF Written
  <2>2. CASE r.emergency = Keep
    <3>1. w = v
      BY <1>4, <2>2 DEF Staged
    <3>2. InForce(w, r)
      BY <2>1, <2>2, <3>1, InForceFields
    <3> QED
      BY <1>4, <3>2
  <2>3. CASE r.emergency # Keep
    <3>1. w = [v EXCEPT !.emergency = r.emergency, !.threshold = Halved(v.threshold)]
      BY <1>4, <2>3 DEF Staged
    <3>2. /\ w.blocking = v.blocking /\ w.limits = v.limits /\ w.toggles = v.toggles
          /\ w.emergency = r.emergency /\ w.threshold = Halved(v.threshold)
      BY <3>1 DEF Config
    <3>3. InForce(w, r)
      BY <2>1, <2>3, <3>2, InForceFields
    <3> QED
      BY <1>4, <3>3
  <2> QED
    BY <2>2, <2>3
<1> QED
  BY <1>1, <1>2, <1>3, <1>4 DEF Stages

\* Every step of a goroutine preserves the invariant.
LEMMA BeginRules ==
    ASSUME OneManagerEach, RuleInv, TypeInv', NEW c \in Callers, NEW r \in Rules,
           ~Locked(Mine(c)), BeginApply(c, r), UNCHANGED <<cfg, announced, mgr>>
    PROVE  RuleInv'
<1>1. Mine(c) \in Managers /\ Cfg(c) = ConfigOf[Mine(c)] /\ Rest(Mine(c))
  BY ShapeAssumption DEF Mine, Cfg, RuleInv
<1>2. call[c] \in Call /\ call \in [Callers -> Call]
  BY DEF RuleInv, TypeInv, TypeOK
<1>3. /\ call'[c].pc = "blocking" /\ call'[c].rule = r
      /\ call'[c].snapshot = cfg[Cfg(c)]
      /\ \A d \in Callers : d # c => call'[d] = call[d]
  BY <1>2 DEF BeginApply
<1>4. Progress(c)'
  BY <1>1, <1>3 DEF Progress, Written, Rest, Settled, Stages, Storing, Mine, Cfg
<1>5. AtWork(c)'
  BY <1>3 DEF AtWork, Stages
<1> QED
  BY <1>3, <1>4, <1>5, InsideStep

LEMMA PollRules ==
    ASSUME OneManagerEach, RuleInv, TypeInv', NEW c \in Callers,
           Poll(c) \/ Hydrate(c) \/ EndLoop(c)
    PROVE  RuleInv'
<1>0. /\ Mine(c) \in Managers /\ Cfg(c) = ConfigOf[Mine(c)] /\ Cfg(c) \in Configs
      /\ call \in [Callers -> Call] /\ call[c] \in Call
      /\ mgr \in [Managers -> Manager] /\ mgr[Mine(c)] \in Manager
      /\ cfg \in [Configs -> Config] /\ cfg[Cfg(c)] \in Config
      /\ announced \in [Configs -> Config]
      /\ CallInv(c) /\ Progress(c)
  BY ShapeAssumption DEF Mine, Cfg, RuleInv, TypeInv, TypeOK
<1>1. \A m \in Managers : m # Mine(c) => ConfigOf[m] # Cfg(c) /\ ConfigOf[m] \in Configs
  BY <1>0, ShapeAssumption DEF OneManagerEach
<1>2. NoConfig \notin Config /\ Static \in Config /\ Static # NoConfig
  BY NoConfigFacts
<1>3. ASSUME NEW step \in Steps, Goto(c, step)
      PROVE  /\ call'[c].pc = step /\ call'[c].rule = call[c].rule
             /\ call'[c].snapshot = call[c].snapshot
             /\ \A d \in Callers : d # c => call'[d] = call[d]
  BY <1>0, <1>3 DEF Goto, Call
<1>4. CASE Expire(c)
  <2>1. Goto(c, "fetch") /\ call[c].pc = "idle" /\ ~Locked(Mine(c))
    BY <1>4 DEF Expire, At
  <2>2. /\ call'[c].pc = "fetch"
        /\ \A d \in Callers : d # c => call'[d] = call[d]
    BY <1>3, <2>1 DEF Steps
  <2>3. ~AtWork(c)' /\ Progress(c)'
    BY <2>2 DEF AtWork, Progress, Stages, Storing
  <2>4. Rest(Mine(c))
    BY <1>0, <2>1 DEF RuleInv
  <2>5. Rest(Mine(c))'
    <3>1. CASE Expired(mgr[Mine(c)].current)
      <4>1. mgr[Mine(c)].base = Static
        BY <2>4, <3>1 DEF Rest, Settled, Expired
      <4>2. cfg'[Cfg(c)] = Static /\ announced'[Cfg(c)] = Static
        BY <1>0, <1>2, <1>4, <3>1, <4>1 DEF Expire
      <4>3. mgr'[Mine(c)].current = NoRule /\ mgr'[Mine(c)].base = NoConfig
        BY <1>0, <1>4, <3>1 DEF Expire, Manager
      <4> QED
        BY <1>0, <4>2, <4>3 DEF Rest, Settled, Mine
    <3>2. CASE ~Expired(mgr[Mine(c)].current)
      <4>1. UNCHANGED <<cfg, announced, mgr>>
        BY <1>4, <3>2 DEF Expire
      <4> QED
        BY <2>4, <4>1 DEF Rest, Settled, Mine
    <3> QED
      BY <3>1, <3>2
  <2>6. \A m \in Managers : m # Mine(c) =>
           /\ cfg'[ConfigOf[m]] = cfg[ConfigOf[m]]
           /\ announced'[ConfigOf[m]] = announced[ConfigOf[m]]
           /\ mgr'[m] = mgr[m]
    BY <1>0, <1>1, <1>4 DEF Expire
  <2> QED
    BY <2>1, <2>2, <2>3, <2>5, <2>6, InsideStep
<1>5. CASE Fetch(c)
  <2>1. call[c].pc = "fetch" /\ UNCHANGED <<cfg, announced, mgr>>
    BY <1>5 DEF Fetch, At
  <2>2. /\ call'[c].pc \in {"gate", "idle"}
        /\ \A d \in Callers : d # c => call'[d] = call[d]
    BY <1>0, <1>5 DEF Fetch, Goto, Call
  <2>3. ~AtWork(c) /\ ~AtWork(c)'
    BY <2>1, <2>2 DEF AtWork, Stages, Storing
  <2> QED
    BY <2>1, <2>2, <2>3, OutsideStep
<1>6. CASE Gate(c)
  <2>1. /\ call[c].pc = "gate" /\ ~Locked(Mine(c)) /\ UNCHANGED <<cfg, announced, mgr>>
        /\ Goto(c, "idle") \/ BeginApply(c, call[c].rule)
    BY <1>6 DEF Gate, At
  <2>2. call[c].rule \in Rules
    BY <1>0, <2>1 DEF CallInv
  <2>3. CASE Goto(c, "idle")
    <3>1. /\ call'[c].pc = "idle"
          /\ \A d \in Callers : d # c => call'[d] = call[d]
      BY <1>3, <2>3 DEF Steps
    <3>2. ~AtWork(c) /\ ~AtWork(c)'
      BY <2>1, <3>1 DEF AtWork, Stages, Storing
    <3> QED
      BY <2>1, <3>1, <3>2, OutsideStep
  <2> QED
    BY <2>1, <2>2, <2>3, BeginRules
<1>7. CASE ApplyStage(c)
  <2> DEFINE stage == call[c].pc  r == call[c].rule
             w == Staged(stage, cfg[Cfg(c)], r)
  <2>1. stage \in Stages /\ r \in Rules /\ AtWork(c)
    BY <1>0, <1>7 DEF ApplyStage, CallInv, AtWork
  <2>2. /\ call[c].snapshot = announced[Cfg(c)]
        /\ Settled(Mine(c), call[c].snapshot)
        /\ Written(stage, cfg[Cfg(c)], r)
    BY <1>0, <2>1 DEF Progress
  <2>3. After(stage) \in Stages \cup {"redis"}
    BY <2>1, AfterType
  <2>4. /\ call'[c].pc = After(stage) /\ call'[c].rule = r
        /\ call'[c].snapshot = call[c].snapshot
        /\ \A d \in Callers : d # c => call'[d] = call[d]
    <3>1. Goto(c, After(stage)) /\ After(stage) \in Steps
      BY <1>7, <2>3 DEF ApplyStage, Steps
    <3> QED
      BY <1>3, <3>1
  <2>5. /\ cfg'[Cfg(c)] = w /\ announced' = announced
        /\ \A m \in Managers : m # Mine(c) =>
              cfg'[ConfigOf[m]] = cfg[ConfigOf[m]] /\ mgr'[m] = mgr[m]
    BY <1>0, <1>1, <1>7 DEF ApplyStage
  <2>6. Progress(c)'
    <3>1. CASE stage = "emergency"
      <4>1. After(stage) = "redis" /\ InForce(w, r)
        BY <1>0, <2>1, <2>2, <3>1, StagesWrite DEF After
      <4>2. mgr'[Mine(c)].base = Captured(Mine(c), call[c].snapshot)
        BY <1>0, <1>7, <3>1 DEF ApplyStage, Manager
      <4>3. Captured(Mine(c), call[c].snapshot) = Static
        BY <2>2 DEF Captured, Settled
      <4> QED
        BY <2>4, <2>5, <4>1, <4>2, <4>3 DEF Progress, Stages, Storing, Mine, Cfg
    <3>2. CASE stage # "emergency"
      <4>1. After(stage) \in Stages /\ Written(After(stage), w, r)
        BY <1>0, <2>1, <2>2, <3>2, StagesWrite
      <4>2. mgr' = mgr
        BY <1>7, <3>2 DEF ApplyStage
      <4>3. call'[c].pc \notin Storing
        BY <2>4, <4>1 DEF Stages, Storing
      <4> QED
        BY <2>2, <2>4, <2>5, <4>1, <4>2, <4>3 DEF Progress, Settled, Mine, Cfg
    <3> QED
      BY <3>1, <3>2
  <2>7. AtWork(c)'
    BY <2>3, <2>4 DEF AtWork, Storing
  <2> QED
    BY <2>1, <2>4, <2>5, <2>6, <2>7, InsideStep
<1>8. CASE FailApply(c)
  <2>1. call[c].pc \in Stages /\ Goto(c, "idle") /\ UNCHANGED <<announced, mgr>>
    BY <1>8 DEF FailApply
  <2>2. AtWork(c) /\ ~AtWork(c)' /\ Progress(c)'
    BY <1>3, <2>1 DEF AtWork, Progress, Stages, Storing, Steps
  <2>3. /\ call[c].snapshot = announced[Cfg(c)]
        /\ Settled(Mine(c), call[c].snapshot)
    BY <1>0, <2>1 DEF Progress
  <2>4. cfg'[Cfg(c)] = call[c].snapshot
    BY <1>0, <1>8 DEF FailApply
  <2>5. Rest(Mine(c))'
    BY <1>0, <2>1, <2>3, <2>4 DEF Rest, Settled, Mine
  <2>6. \A m \in Managers : m # Mine(c) => cfg'[ConfigOf[m]] = cfg[ConfigOf[m]]
    BY <1>0, <1>1, <1>8 DEF FailApply
  <2>7. \A d \in Callers : d # c => call'[d] = call[d]
    BY <1>3, <2>1 DEF Steps
  <2> QED
    BY <2>1, <2>2, <2>5, <2>6, <2>7, InsideStep
<1>9. CASE PersistRedis(c) \/ PersistFile(c)
  <2>1. \E step \in {"file", "commit"} : Goto(c, step)
    BY <1>9 DEF PersistRedis, PersistFile
  <2>2. call[c].pc \in Storing /\ UNCHANGED <<cfg, announced, mgr>>
    BY <1>9 DEF PersistRedis, PersistFile, At, Storing
  <2>3. /\ call'[c].pc \in {"file", "commit"} /\ call'[c].rule = call[c].rule
        /\ \A d \in Callers : d # c => call'[d] = call[d]
    BY <1>3, <2>1 DEF Steps
  <2>4. AtWork(c) /\ AtWork(c)'
    BY <2>2, <2>3 DEF AtWork, Storing
  <2>5. Progress(c)'
    BY <1>0, <2>2, <2>3 DEF Progress, Storing, Stages, Mine, Cfg
  <2> QED
    BY <2>2, <2>3, <2>4, <2>5, InsideStep
<1>10. CASE Commit(c)
  <2>1. call[c].pc = "commit" /\ Goto(c, "idle") /\ cfg' = cfg
    BY <1>10 DEF Commit, At
  <2>2. AtWork(c) /\ ~AtWork(c)' /\ Progress(c)'
    BY <1>3, <2>1 DEF AtWork, Progress, Stages, Storing, Steps
  <2>3. /\ mgr[Mine(c)].base = Static /\ InForce(cfg[Cfg(c)], call[c].rule)
        /\ call[c].rule \in Rules /\ call[c].rule # NoRule
    BY <1>0, <2>1, RuleAssumption DEF Progress, Storing, CallInv
  <2>4. /\ mgr'[Mine(c)].current = call[c].rule
        /\ mgr'[Mine(c)].base = mgr[Mine(c)].base
        /\ announced'[Cfg(c)] = cfg[Cfg(c)]
    BY <1>0, <1>10 DEF Commit, Manager
  <2>5. Rest(Mine(c))'
    BY <1>0, <2>1, <2>3, <2>4 DEF Rest, Settled, Mine
  <2>6. \A m \in Managers : m # Mine(c) =>
           announced'[ConfigOf[m]] = announced[ConfigOf[m]] /\ mgr'[m] = mgr[m]
    BY <1>0, <1>1, <1>10 DEF Commit
  <2>7. \A d \in Callers : d # c => call'[d] = call[d]
    BY <1>3, <2>1 DEF Steps
  <2> QED
    BY <2>1, <2>2, <2>5, <2>6, <2>7, InsideStep
<1>11. CASE Hydrate(c)
  <2>1. /\ call[c].pc = "boot" /\ ~Locked(Mine(c)) /\ UNCHANGED <<cfg, announced, mgr>>
    BY <1>11 DEF Hydrate, At
  <2>2. PICK answers \in {TRUE, ~ReadsMayFail} :
           IF Loaded(Cfg(c), answers) = NoRule THEN Goto(c, "idle")
           ELSE BeginApply(c, Loaded(Cfg(c), answers))
    BY <1>11 DEF Hydrate
  <2>3. Loaded(Cfg(c), answers) \in Rules \cup {NoRule}
    BY <1>0 DEF Loaded, RuleInv, TypeInv, TypeOK
  <2>4. CASE Goto(c, "idle")
    <3>1. /\ call'[c].pc = "idle"
          /\ \A d \in Callers : d # c => call'[d] = call[d]
      BY <1>3, <2>4 DEF Steps
    <3>2. ~AtWork(c) /\ ~AtWork(c)'
      BY <2>1, <3>1 DEF AtWork, Stages, Storing
    <3> QED
      BY <2>1, <3>1, <3>2, OutsideStep
  <2> QED
    BY <2>1, <2>2, <2>3, <2>4, BeginRules
<1>12. CASE EndLoop(c)
  <2>1. call[c].pc = "idle" /\ Goto(c, "ended") /\ UNCHANGED <<cfg, announced, mgr>>
    BY <1>12 DEF EndLoop, At
  <2>2. ~AtWork(c) /\ ~AtWork(c)'
    BY <1>3, <2>1 DEF AtWork, Stages, Storing, Steps
  <2>3. \A d \in Callers : d # c => call'[d] = call[d]
    BY <1>3, <2>1 DEF Steps
  <2> QED
    BY <2>1, <2>2, <2>3, OutsideStep
<1> QED
  BY <1>4, <1>5, <1>6, <1>7, <1>8, <1>9, <1>10, <1>11, <1>12 DEF Poll, Apply

LEMMA EnvironmentRules ==
    ASSUME OneManagerEach, RuleInv, TypeInv',
           \/ \E m \in Managers : Stop(m)
           \/ \E k \in Configs : Crash(k)
           \/ Tick
    PROVE  RuleInv'
<1>0. mgr \in [Managers -> Manager] /\ \A m \in Managers : mgr[m] \in Manager
  BY DEF RuleInv, TypeInv, TypeOK
<1>1. CASE \E m \in Managers : Stop(m)
  <2>1. PICK m \in Managers : Stop(m)
    BY <1>1
  <2>2. \A n \in Managers : /\ mgr'[n].current = mgr[n].current
                            /\ mgr'[n].base = mgr[n].base
    BY <1>0, <2>1 DEF Stop, Manager
  <2>3. UNCHANGED <<cfg, announced, call>>
    BY <2>1 DEF Stop
  <2>4. \A n \in Managers : (Locked(n)' <=> Locked(n)) /\ (Rest(n)' <=> Rest(n))
    BY <2>2, <2>3 DEF Locked, Rest, Settled, Mine
  <2>5. \A c \in Callers : Mine(c) \in Managers /\ Progress(c)
    BY ShapeAssumption DEF RuleInv, Mine
  <2>6. \A c \in Callers : Progress(c)'
    BY <2>2, <2>3, <2>5 DEF Progress, Settled, Mine, Cfg
  <2> QED
    BY <2>3, <2>4, <2>6 DEF RuleInv, OneAtWork, AtWork, Mine
<1>2. CASE \E k \in Configs : Crash(k)
  <2>1. PICK k \in Configs : Crash(k)
    BY <1>2
  <2>2. \A c \in Callers : Mine(c) \in Managers /\ Cfg(c) = ConfigOf[Mine(c)]
    BY ShapeAssumption DEF Mine, Cfg
  <2>3. \A c \in Callers : Cfg(c) = k => ~AtWork(c)' /\ Progress(c)'
    <3> SUFFICES ASSUME NEW c \in Callers, Cfg(c) = k
                 PROVE  ~AtWork(c)' /\ Progress(c)'
      OBVIOUS
    <3>1. call'[c].pc \in {"boot", "idle"}
      BY <2>1 DEF Crash, Start
    <3> QED
      BY <3>1 DEF AtWork, Progress, Stages, Storing
  <2>4. \A c \in Callers : Cfg(c) # k => call'[c] = call[c]
    BY <2>1 DEF Crash
  <2>5. \A m \in Managers : ConfigOf[m] # k =>
           /\ cfg'[ConfigOf[m]] = cfg[ConfigOf[m]]
           /\ announced'[ConfigOf[m]] = announced[ConfigOf[m]]
           /\ mgr'[m] = mgr[m]
    BY <2>1, ShapeAssumption DEF Crash, RuleInv, TypeInv, TypeOK
  <2>6. \A m \in Managers : ConfigOf[m] = k => Rest(m)'
    BY <2>1 DEF Crash, Rest, Settled, Fresh, RuleInv, TypeInv, TypeOK
  <2>7. \A c \in Callers : AtWork(c)' => AtWork(c)
    BY <2>3, <2>4 DEF AtWork
  <2>8. OneAtWork'
    BY <2>7 DEF RuleInv, OneAtWork, Mine
  <2>9. \A c \in Callers : Progress(c)'
    <3> TAKE c \in Callers
    <3>1. CASE Cfg(c) # k
      BY <2>2, <2>4, <2>5, <3>1 DEF RuleInv, Progress, Settled, Cfg, Mine
    <3> QED
      BY <2>3, <3>1
  <2>10. ASSUME NEW m \in Managers, ~Locked(m)' PROVE Rest(m)'
    <3>1. CASE ConfigOf[m] # k
      <4>1. \A c \in Callers : Mine(c) = m => call'[c] = call[c]
        BY <2>2, <2>4, <3>1
      <4>2. ~Locked(m)
        BY <2>10, <4>1 DEF Locked, Mine
      <4> QED
        BY <2>5, <3>1, <4>2 DEF RuleInv, Rest, Settled
    <3> QED
      BY <2>6, <3>1
  <2> QED
    BY <2>8, <2>9, <2>10 DEF RuleInv
<1>3. CASE Tick
  BY <1>3 DEF Tick, RuleInv, OneAtWork, AtWork, Rest, Settled, Progress, Locked, Mine, Cfg
<1> QED
  BY <1>1, <1>2, <1>3

LEMMA StepRules == OneManagerEach /\ RuleInv /\ [Next]_vars => RuleInv'
<1> SUFFICES ASSUME OneManagerEach, RuleInv, [Next]_vars PROVE RuleInv'
  OBVIOUS
<1>1. TypeInv'
  BY StepType DEF RuleInv
<1>2. CASE \E c \in Callers : Poll(c) \/ Hydrate(c) \/ EndLoop(c)
  BY <1>1, <1>2, PollRules
<1>3. CASE \/ \E m \in Managers : Stop(m)
           \/ \E k \in Configs : Crash(k)
           \/ Tick
  BY <1>1, <1>3, EnvironmentRules
<1>4. CASE UNCHANGED vars
  BY <1>1, <1>4 DEF vars, RuleInv, OneAtWork, AtWork, Rest, Settled, Progress,
                    Locked, Mine, Cfg
<1> QED
  BY <1>2, <1>3, <1>4 DEF Next

LEMMA RulesInvariant == ASSUME OneManagerEach PROVE Spec => []RuleInv
<1>1. RuleInv /\ [Next]_vars => RuleInv'
  BY StepRules
<1> QED
  BY <1>1, InitRules, PTL DEF Spec

\* Once no rule is active the config is the one the process started with,
\* through any layering, failure, expiry and restart: the base is captured once
\* and never from a config a rule has changed.
THEOREM EndLeavesNoTrace == ASSUME OneManagerEach PROVE Spec => []NoRuleNoTrace
<1>1. RuleInv => NoRuleNoTrace
  <2> SUFFICES ASSUME RuleInv, NEW k \in Configs, Quiet(k),
                      \A m \in Managers : ConfigOf[m] = k => mgr[m].current = NoRule
               PROVE  cfg[k] = Static
    BY DEF NoRuleNoTrace
  <2>1. PICK m \in Managers : ConfigOf[m] = k
    BY DEF OneManagerEach
  <2>2. Rest(m) /\ mgr[m].current = NoRule
    BY <2>1 DEF Quiet, RuleInv
  <2> QED
    BY <2>1, <2>2 DEF Rest, Settled
<1> QED
  BY <1>1, RulesInvariant, PTL

\* Whenever its manager is at rest the active rule is in force with all it
\* carries, whatever newer rules failed half way.
THEOREM ActiveStaysInForce == ASSUME OneManagerEach PROVE Spec => []ActiveIsInForce
<1>1. RuleInv => ActiveIsInForce
  BY DEF RuleInv, ActiveIsInForce, Quiet, Rest, Settled
<1> QED
  BY <1>1, RulesInvariant, PTL

\* Every change a rule, its expiry or its failure makes to the config has been
\* announced by a new revision when the manager lets go of its mutex.
THEOREM EveryChangeAnnounced == ASSUME OneManagerEach PROVE Spec => []ChangesAreAnnounced
<1>1. RuleInv => ChangesAreAnnounced
  <2> SUFFICES ASSUME RuleInv, NEW k \in Configs, Quiet(k)
               PROVE  cfg[k] = announced[k]
    BY DEF ChangesAreAnnounced
  <2>1. PICK m \in Managers : ConfigOf[m] = k
    BY DEF OneManagerEach
  <2>2. Rest(m)
    BY <2>1 DEF Quiet, RuleInv
  <2> QED
    BY <2>1, <2>2 DEF Rest
<1> QED
  BY <1>1, RulesInvariant, PTL
=============================================================================
