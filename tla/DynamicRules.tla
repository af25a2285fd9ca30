---------------------------- MODULE DynamicRules ----------------------------
(***************************************************************************)
(* DynamicRuleManager (dynamicrules.go): rules fetched from the agent      *)
(* overwrite parts of the live config until they expire.  The update loop  *)
(* and direct callers of UpdateRules poll; a manager's mutex covers the    *)
(* expiry check and, in a second section, everything from the gate to the  *)
(* commit, while the fetch runs unlocked between the two.  The last rule   *)
(* is persisted, to Redis and then to a file, and hydrated after a restart *)
(* of the process.  The IP bans and patterns a rule adds are state of      *)
(* other managers and left out, and so are events.                         *)
(***************************************************************************)
EXTENDS Integers

CONSTANTS
    Configs,        \* the SecurityConfigs; each belongs to one process
    Managers, ConfigOf,
    Loops, Direct,  \* goroutines: the update loops, and others that poll
    ManagerOf,      \* their manager
    Rules,          \* what the agent may deliver
    Values, Keep,   \* contents of config fields; a field a rule leaves alone
    Static,         \* the config the process starts with
    Never, NoRule,
    UseRedis, UseFile, ReadsMayFail, WritesMayFail, ApplyMayFail,
    MaxClock, MaxCrashes  \* bounds

Callers == Loops \cup Direct

Config == [blocking : Values, limits : Values, toggles : Values,
           emergency : Values, threshold : Nat \ {0}]

Rule == [id : STRING, version : Nat, expires : Nat \cup {Never},
         blocking : Values \cup {Keep}, limits : Values \cup {Keep},
         toggles : Values \cup {Keep}, emergency : Values \cup {Keep},
         threshold : (Nat \ {0}) \cup {Keep}]

ASSUME ShapeAssumption ==
    /\ ConfigOf \in [Managers -> Configs]
    /\ ManagerOf \in [Callers -> Managers]
    /\ Loops \cap Direct = {}
    /\ \A c, d \in Loops : ManagerOf[c] = ManagerOf[d] => c = d
ASSUME RuleAssumption ==
    /\ Static \in Config
    /\ \A r \in Rules : r \in Rule
    /\ NoRule \notin Rules
    /\ Keep \notin Values \cup Nat
    /\ Never \notin Nat
ASSUME BoundAssumption ==
    /\ {UseRedis, UseFile, ReadsMayFail, WritesMayFail, ApplyMayFail} \subseteq BOOLEAN
    /\ MaxClock \in Nat /\ MaxCrashes \in Nat

VARIABLES
    clock, crashes,
    cfg,        \* cfg[k]: the live config
    announced,  \* announced[k]: its contents when its revision was last bumped
    mgr,        \* mgr[m]: currentRules, activeBase, and stopCh closed
    call,       \* call[c]: the progress of goroutine c
    redis,      \* the persisted rule, shared by all processes
    file,       \* file[k]: the rule in the process's cache file
    recent      \* history: recent[k], the last rule in use and any since applied

vars == <<clock, crashes, cfg, announced, mgr, call, redis, file, recent>>

----------------------------------------------------------------------------
NoConfig == [Static EXCEPT !.threshold = 0]  \* the nil snapshot

Fresh == [current |-> NoRule, base |-> NoConfig, stopping |-> FALSE]
Start(c) == [pc |-> IF c \in Loops THEN "boot" ELSE "idle", rule |-> NoRule,
             snapshot |-> NoConfig]

Mine(c) == ManagerOf[c]
Cfg(c) == ConfigOf[Mine(c)]
At(c, step) == call[c].pc = step

\* Stages of applyRulesLocked; with the persisting steps, all under m.mu.
Stages == {"blocking", "limits", "toggles", "emergency"}
Locked(m) == \E c \in Callers :
                 /\ Mine(c) = m
                 /\ call[c].pc \in Stages \cup {"redis", "file", "commit"}

\* hasExpired.
Expired(r) == r # NoRule /\ r.expires # Never /\ clock > r.expires

\* Mutation of ShouldUpdate: any other rule will do.
ShouldUpdateAny(m, r) == r # mgr[m].current

\* shouldUpdateRules: a rule replaces another one or an older version of itself.
ShouldUpdate(m, r) ==
    LET cur == mgr[m].current
    IN cur = NoRule \/ ~(r.id = cur.id /\ r.version <= cur.version)

Overridden(old, new) == IF new = Keep THEN old ELSE new

\* Mutation of Halved: without the floor.
HalvedToZero(n) == n \div 2

\* max(1, t // 2).
Halved(n) == IF n < 2 THEN 1 ELSE n \div 2

\* Config v after one stage of rule r.
Staged(stage, v, r) ==
    CASE stage = "blocking" -> [v EXCEPT !.blocking = Overridden(@, r.blocking)]
      [] stage = "limits"   -> [v EXCEPT !.limits = Overridden(@, r.limits)]
      [] stage = "toggles"  -> [v EXCEPT !.toggles = Overridden(@, r.toggles),
                                         !.threshold = Overridden(@, r.threshold)]
      [] stage = "emergency" -> IF r.emergency = Keep THEN v
                                ELSE [v EXCEPT !.emergency = r.emergency,
                                               !.threshold = Halved(@)]

After(stage) == CASE stage = "blocking"  -> "limits"
                  [] stage = "limits"    -> "toggles"
                  [] stage = "toggles"   -> "emergency"
                  [] stage = "emergency" -> "redis"

Init ==
    /\ clock = 0 /\ crashes = 0
    /\ cfg = [k \in Configs |-> Static]
    /\ announced = cfg
    /\ mgr = [m \in Managers |-> Fresh]
    /\ call = [c \in Callers |-> Start(c)]
    /\ redis = NoRule
    /\ file = [k \in Configs |-> NoRule]
    /\ recent = [k \in Configs |-> {}]

----------------------------------------------------------------------------
(* UpdateRules.                                                            *)

Goto(c, step) == call' = [call EXCEPT ![c].pc = step]

\* Mutation of Expire: the revision is not bumped.
ExpireQuietly(c) ==
    LET m == Mine(c)
        over == Expired(mgr[m].current) IN
    /\ At(c, "idle") /\ ~Locked(m)
    /\ IF over THEN /\ cfg' = [cfg EXCEPT ![Cfg(c)] =
                                  IF mgr[m].base = NoConfig THEN @ ELSE mgr[m].base]
                    /\ mgr' = [mgr EXCEPT ![m].current = NoRule, ![m].base = NoConfig]
               ELSE UNCHANGED <<cfg, mgr>>
    /\ Goto(c, "fetch")
    /\ UNCHANGED <<clock, crashes, announced, redis, file, recent>>

\* Mutation of Expire: the expired rule stays current.
ExpireKeeping(c) ==
    LET m == Mine(c)
        over == Expired(mgr[m].current) /\ mgr[m].base # NoConfig IN
    /\ At(c, "idle") /\ ~Locked(m)
    /\ IF over THEN /\ cfg' = [cfg EXCEPT ![Cfg(c)] = mgr[m].base]
                    /\ announced' = [announced EXCEPT ![Cfg(c)] = mgr[m].base]
                    /\ mgr' = [mgr EXCEPT ![m].base = NoConfig]
               ELSE UNCHANGED <<cfg, announced, mgr>>
    /\ Goto(c, "fetch")
    /\ UNCHANGED <<clock, crashes, redis, file, recent>>

\* checkRuleExpiry: the base returns, the revision is bumped.
Expire(c) ==
    LET m == Mine(c)
        over == Expired(mgr[m].current) IN
    /\ At(c, "idle") /\ ~Locked(m)
    /\ IF over /\ mgr[m].base # NoConfig
       THEN /\ cfg' = [cfg EXCEPT ![Cfg(c)] = mgr[m].base]
            /\ announced' = [announced EXCEPT ![Cfg(c)] = mgr[m].base]
       ELSE UNCHANGED <<cfg, announced>>
    /\ mgr' = IF over THEN [mgr EXCEPT ![m].current = NoRule, ![m].base = NoConfig]
              ELSE mgr
    /\ Goto(c, "fetch")
    /\ UNCHANGED <<clock, crashes, redis, file, recent>>

\* The agent answers with a rule, or with none, an error or an invalid rule.
Fetch(c) ==
    /\ At(c, "fetch")
    /\ \/ \E r \in Rules : call' = [call EXCEPT ![c].pc = "gate", ![c].rule = r]
       \/ Goto(c, "idle")
    /\ UNCHANGED <<clock, crashes, cfg, announced, mgr, redis, file, recent>>

\* captureSnapshot, and on to the first stage.
BeginApply(c, r) ==
    call' = [call EXCEPT ![c] = [pc |-> "blocking", rule |-> r,
                                 snapshot |-> cfg[Cfg(c)]]]

\* rejectIfAlreadyExpired and shouldUpdateRules.
Gate(c) ==
    LET r == call[c].rule IN
    /\ At(c, "gate") /\ ~Locked(Mine(c))
    /\ IF Expired(r) \/ ~ShouldUpdate(Mine(c), r) THEN Goto(c, "idle")
       ELSE BeginApply(c, r)
    /\ UNCHANGED <<clock, crashes, cfg, announced, mgr, redis, file, recent>>

\* Mutation of Captured: every rule's snapshot becomes the base.
CapturedAnew(m, snapshot) == snapshot

\* The base after a rule was applied: the first rule's snapshot stays.
Captured(m, snapshot) ==
    IF mgr[m].current = NoRule /\ mgr[m].base = NoConfig THEN snapshot
    ELSE mgr[m].base

ApplyStage(c) ==
    LET stage == call[c].pc  last == stage = "emergency" IN
    /\ stage \in Stages
    /\ cfg' = [cfg EXCEPT ![Cfg(c)] = Staged(stage, @, call[c].rule)]
    /\ Goto(c, After(stage))
    /\ mgr' = IF last THEN [mgr EXCEPT ![Mine(c)].base =
                               Captured(Mine(c), call[c].snapshot)]
              ELSE mgr
    /\ recent' = IF last THEN [recent EXCEPT ![Cfg(c)] = @ \cup {call[c].rule}]
                 ELSE recent
    /\ UNCHANGED <<clock, crashes, announced, redis, file>>

\* Mutation of FailApply: the base returns instead, if there is one.
FailApplyToBase(c) ==
    LET base == mgr[Mine(c)].base IN
    /\ ApplyMayFail /\ call[c].pc \in Stages
    /\ cfg' = [cfg EXCEPT ![Cfg(c)] =
                  IF base = NoConfig THEN call[c].snapshot ELSE base]
    /\ Goto(c, "idle")
    /\ UNCHANGED <<clock, crashes, announced, mgr, redis, file, recent>>

\* A stage panics: the snapshot returns, the revision stays.
FailApply(c) ==
    /\ ApplyMayFail /\ call[c].pc \in Stages
    /\ cfg' = [cfg EXCEPT ![Cfg(c)] = call[c].snapshot]
    /\ Goto(c, "idle")
    /\ UNCHANGED <<clock, crashes, announced, mgr, redis, file, recent>>

\* persistLastKnownRules: a store that fails keeps what it has.
PersistRedis(c) ==
    /\ At(c, "redis")
    /\ redis' \in (IF UseRedis THEN {call[c].rule} ELSE {redis})
                  \cup (IF WritesMayFail THEN {redis} ELSE {})
    /\ Goto(c, "file")
    /\ UNCHANGED <<clock, crashes, cfg, announced, mgr, file, recent>>

PersistFile(c) ==
    /\ At(c, "file")
    /\ file' \in (IF UseFile THEN {[file EXCEPT ![Cfg(c)] = call[c].rule]} ELSE {file})
                 \cup (IF WritesMayFail THEN {file} ELSE {})
    /\ Goto(c, "commit")
    /\ UNCHANGED <<clock, crashes, cfg, announced, mgr, redis, recent>>

\* The revision is bumped and the rule becomes current.
Commit(c) ==
    /\ At(c, "commit")
    /\ announced' = [announced EXCEPT ![Cfg(c)] = cfg[Cfg(c)]]
    /\ mgr' = [mgr EXCEPT ![Mine(c)].current = call[c].rule]
    /\ recent' = [recent EXCEPT ![Cfg(c)] = {call[c].rule}]
    /\ Goto(c, "idle")
    /\ UNCHANGED <<clock, crashes, cfg, redis, file>>

----------------------------------------------------------------------------
(* Hydration, the end of the loop, and the environment.                    *)

\* loadLastKnownRules: Redis if it answers with a rule that is in date, or the
\* file.
Loaded(k, answers) ==
    IF answers /\ redis # NoRule /\ ~Expired(redis) THEN redis
    ELSE IF Expired(file[k]) THEN NoRule ELSE file[k]

\* HydrateLastKnownRules, once, before the loop starts.
Hydrate(c) ==
    /\ At(c, "boot") /\ ~Locked(Mine(c))
    /\ \E answers \in {TRUE, ~ReadsMayFail} :
          LET r == Loaded(Cfg(c), answers)
          IN IF r = NoRule THEN Goto(c, "idle") ELSE BeginApply(c, r)
    /\ UNCHANGED <<clock, crashes, cfg, announced, mgr, redis, file, recent>>

\* Stop closes stopCh; the loop ends when its select sees that.
Stop(m) ==
    /\ ~mgr[m].stopping
    /\ mgr' = [mgr EXCEPT ![m].stopping = TRUE]
    /\ UNCHANGED <<clock, crashes, cfg, announced, call, redis, file, recent>>

EndLoop(c) ==
    /\ c \in Loops /\ At(c, "idle") /\ mgr[Mine(c)].stopping
    /\ Goto(c, "ended")
    /\ UNCHANGED <<clock, crashes, cfg, announced, mgr, redis, file, recent>>

\* The process dies and starts again.
Crash(k) ==
    /\ crashes < MaxCrashes
    /\ crashes' = crashes + 1
    /\ cfg' = [cfg EXCEPT ![k] = Static]
    /\ announced' = [announced EXCEPT ![k] = Static]
    /\ mgr' = [m \in Managers |-> IF ConfigOf[m] = k THEN Fresh ELSE mgr[m]]
    /\ call' = [c \in Callers |-> IF Cfg(c) = k THEN Start(c) ELSE call[c]]
    /\ UNCHANGED <<clock, redis, file, recent>>

Tick ==
    /\ clock < MaxClock
    /\ clock' = clock + 1
    /\ UNCHANGED <<crashes, cfg, announced, mgr, call, redis, file, recent>>

Apply(c) == ApplyStage(c) \/ FailApply(c) \/ PersistRedis(c) \/ PersistFile(c)
            \/ Commit(c)
Poll(c) == Expire(c) \/ Fetch(c) \/ Gate(c) \/ Apply(c)

Next ==
    \/ \E c \in Callers : Poll(c) \/ Hydrate(c) \/ EndLoop(c)
    \/ \E m \in Managers : Stop(m)
    \/ \E k \in Configs : Crash(k)
    \/ Tick

Spec == Init /\ [][Next]_vars

\* Goroutines run on, the agent answers, Go's mutex starves nobody, a select
\* picks each ready case sooner or later, and time passes.
LiveSpec ==
    /\ Spec
    /\ \A c \in Callers : /\ WF_vars(Fetch(c) \/ Apply(c))
                          /\ SF_vars(Expire(c)) /\ SF_vars(Gate(c))
    /\ \A c \in Loops : SF_vars(Hydrate(c)) /\ SF_vars(EndLoop(c))
    /\ WF_vars(Tick)

----------------------------------------------------------------------------
(* Properties.                                                             *)

Manager == [current : Rules \cup {NoRule}, base : Config \cup {NoConfig},
            stopping : BOOLEAN]

Call == [pc : {"boot", "idle", "fetch", "gate", "redis", "file", "commit", "ended"}
              \cup Stages,
         rule : Rules \cup {NoRule}, snapshot : Config \cup {NoConfig}]

\* Every variable keeps its type; a threshold halved again and again stays
\* positive.
TypeOK ==
    /\ clock \in Nat /\ crashes \in Nat
    /\ cfg \in [Configs -> Config] /\ announced \in [Configs -> Config]
    /\ mgr \in [Managers -> Manager]
    /\ call \in [Callers -> Call]
    /\ redis \in Rules \cup {NoRule}
    /\ file \in [Configs -> Rules \cup {NoRule}]
    /\ recent \in [Configs -> SUBSET Rules]

\* No manager of config k is at work on it.
Quiet(k) == \A m \in Managers : ConfigOf[m] = k => ~Locked(m)

\* When no rule is active the config is the one the process started with,
\* however many rules were layered, rolled back or expired before
\* (dynamicrules.go: "expiry restores pre-rule state even across consecutive
\* rules").
NoRuleNoTrace ==
    \A k \in Configs :
        /\ Quiet(k)
        /\ \A m \in Managers : ConfigOf[m] = k => mgr[m].current = NoRule
        => cfg[k] = Static

\* Config v holds everything rule r carries.
InForce(v, r) ==
    /\ \A f \in {"blocking", "limits", "toggles", "emergency"} :
          r[f] # Keep => v[f] = r[f]
    /\ r.threshold # Keep =>
          v.threshold = IF r.emergency = Keep THEN r.threshold ELSE Halved(r.threshold)

\* The active rule is in force as a whole, whatever newer rules failed.
ActiveIsInForce ==
    \A m \in Managers :
        Quiet(ConfigOf[m]) /\ mgr[m].current # NoRule =>
            InForce(cfg[ConfigOf[m]], mgr[m].current)

\* Whenever no manager is at work, the config holds what it held at its last
\* revision: a pipeline that watches the revision has missed nothing.
ChangesAreAnnounced == \A k \in Configs : Quiet(k) => cfg[k] = announced[k]

\* A rule is never replaced by another version of itself but a newer one,
\* even when callers fetch in one order and apply in another.
VersionsRise ==
    \A m \in Managers :
       LET old == mgr[m].current  new == mgr'[m].current
       IN old # NoRule /\ new # NoRule /\ new # old /\ new.id = old.id
          => new.version > old.version

\* The rule taken up after a restart is in date and is the one in use, or being
\* put in use, when the process died: never an older one.
HydratedIsLatest ==
    \A c \in Loops :
       At(c, "boot") /\ call'[c].pc \in Stages =>
           call'[c].rule \in recent[Cfg(c)] /\ ~Expired(call'[c].rule)

\* None is taken up only if each such rule has expired or is in no store that
\* is sure to answer.
HydrationFindsIt ==
    \A c \in Loops :
       At(c, "boot") /\ call'[c].pc = "idle" =>
           \A r \in recent[Cfg(c)] :
               \/ Expired(r)
               \/ r # file[Cfg(c)] /\ (r # redis \/ ReadsMayFail)

\* No step falls back to an older rule, neither by a late answer of the agent
\* nor by a restart, and no restart forgets the rule.
RulesMoveForward == [][VersionsRise /\ HydratedIsLatest /\ HydrationFindsIt]_vars

\* While a store still holds a rule that was last in use and is in date, no
\* other rule is taken up (dynamicrules.go: "Redis unavailability never
\* silently degrades rule state").
StoredIsHydrated ==
    [][\A c \in Loops :
          At(c, "boot") /\ call'[c].pc \in Stages =>
              \/ call'[c].rule \in recent[Cfg(c)]
              \/ \A r \in recent[Cfg(c)] :
                    Expired(r) \/ r \notin {redis, file[Cfg(c)]}]_vars

\* An expired rule is dropped unless the loop was stopped, even if the agent
\* never answers with a rule again.
ExpiredEnds ==
    \A m \in Managers : \A r \in Rules :
        (mgr[m].current = r /\ Expired(r)) ~> (mgr[m].current # r \/ mgr[m].stopping)

\* Stop returns: the loop it waits for ends.
StopDrains ==
    \A c \in Loops : mgr[Mine(c)].stopping ~>
                         (call[c].pc = "ended" \/ ~mgr[Mine(c)].stopping)
=============================================================================
