---------------------------- MODULE Configuration ----------------------------
(***************************************************************************)
(* What becomes of a configuration when it is validated (config.go,        *)
(* behavior.go): one check after the other refuses it, or puts a default,  *)
(* a bound or another spelling into one of its settings.  A configuration  *)
(* that is refused keeps what the checks before put into it; the program   *)
(* may correct the setting and validate it again.                          *)
(*                                                                         *)
(* Names are members of small sets; durations are seconds.  A handler is   *)
(* what it was built with, <<>> while there is none.                       *)
(***************************************************************************)
EXTENDS Integers, Sequences, SequencesExt

CONSTANTS
    Mutations,      \* settings that differ from DefaultSecurityConfig
    Nil             \* a pointer that is not set

VARIABLES given, config, outcome
configVars == <<given, config, outcome>>

Positive == Nat \ {0}

DefaultSecurityConfig ==
    [agent |-> FALSE, enrichment |-> FALSE, dynamicRules |-> FALSE, interval |-> 300,
     rules |-> <<>>, scanBody |-> FALSE, inspect |-> 262144,
     values |-> 512, chars |-> 65536, depth |-> 32, minRun |-> 16,
     connect |-> Nil, socket |-> Nil, healthCheck |-> 0, connections |-> 0, retries |-> 1,
     bodyTimeout |-> 3, bodyReads |-> 64,
     white |-> {}, black |-> {}, token |-> FALSE, db |-> FALSE, maxAge |-> 0, handler |-> <<>>,
     clouds |-> {}, requestLevel |-> "", suspiciousLevel |-> "", format |-> "text",
     proxyDepth |-> 1, agents |-> {}, addresses |-> {},
     banThreshold |-> 10, banDuration |-> 3600, threatBans |-> {},
     rateLimit |-> 10, rateWindow |-> 60, endpoints |-> {},
     detection |-> TRUE, categories |-> {"xss", "sqli"}, muted |-> {}, paths |-> {"absolute"},
     headers |-> "legal",
     compiler |-> 2, content |-> 10000, bodyBytes |-> 262144, refresh |-> 3600]

----------------------------------------------------------------------------
(* The kinds of checks; each is of one setting                             *)

Refuse(field, allowed)   == [do |-> "refuse", field |-> field, allowed |-> allowed]
Default(field, value)    == [do |-> "default", field |-> field, value |-> value]
Clamp(field, low, high)  == [do |-> "clamp", field |-> field, low |-> low, high |-> high]
Special(field)           == [do |-> "special", field |-> field]

\* The checks of Validate, in its order.
FirstChecks ==
    <<Special("enrichment"), Special("interval"), Special("rules"), Special("inspect"),
      Refuse("values", {0} \cup 2..100000), Refuse("chars", {0} \cup 1024..262144),
      Refuse("depth", 0..1000),
      Refuse("connect", {Nil} \cup Positive), Refuse("socket", {Nil} \cup Positive),
      Refuse("healthCheck", Nat), Refuse("connections", Nat), Refuse("retries", Nat),
      Refuse("bodyTimeout", 0..30), Refuse("bodyReads", 0..10000),
      Default("bodyReads", 64), Default("bodyTimeout", 3)>>

\* Mutation of GeoChecks: the handler is built before its age is checked.
GeoChecksSwapped == <<Special("countries"), Special("db"), Special("maxAge")>>
GeoChecks == <<Special("countries"), Special("maxAge"), Special("db")>>

LastChecks ==
    <<Special("clouds"), Special("requestLevel"), Special("suspiciousLevel"), Special("format"),
      Refuse("proxyDepth", Positive), Special("agents"), Special("addresses"),
      Refuse("banThreshold", Positive), Refuse("banDuration", Positive), Special("threatBans"),
      Refuse("rateLimit", Positive), Refuse("rateWindow", Positive), Special("endpoints"),
      Special("categories"), Refuse("minRun", 4..1024), Special("muted"), Special("paths"),
      Refuse("headers", {"legal"}),
      Default("compiler", 2), Default("content", 10000), Default("bodyBytes", 262144),
      Default("values", 512), Default("chars", 65536), Default("depth", 32),
      Default("refresh", 3600), Clamp("refresh", 60, 86400)>>

\* ValidateBehaviorRuleConfig: an unset window or action has a default.
NormalRule(r) ==
    [r EXCEPT !.window = IF @ = 0 THEN 3600 ELSE @, !.action = IF @ = "" THEN "log" ELSE @]
Timed(r) ==
    r.kind \in {"usage", "return_pattern", "frequency"} /\ r.threshold >= 1 /\ r.window >= 0
SoundRule(r) ==
    Timed(r) /\ r.action \in {"", "ban", "log", "throttle", "alert"} /\ r.banDuration >= 0
ReadsBody(r) == r.kind = "return_pattern" /\ r.pattern = "body"

\* validateBehaviorRules puts its defaults into one rule after the other, also
\* when it then refuses a later one or the same one.
NormalRules(rules) ==
    [i \in DOMAIN rules |->
       IF Timed(rules[i]) /\ \A j \in 1..i - 1 : SoundRule(rules[j])
       THEN NormalRule(rules[i]) ELSE rules[i]]
KeptRule(c, r) == SoundRule(r) /\ (ReadsBody(r) => c.scanBody)

Upper(name) == IF name = "de" THEN "DE" ELSE IF name = "info" THEN "INFO" ELSE name
Levels == {"INFO", "WARNING"}

\* The age after which the database is fetched again has a default with a token.
Lifecycle(c) == [c EXCEPT !.maxAge = IF c.token /\ @ = 0 THEN 86400 ELSE @]

Limited(c) == c.white \cup c.black # {}

Database(c) ==
    [db |-> c.db, token |-> c.token, maxAge |-> IF c.maxAge <= 0 THEN 86400 ELSE c.maxAge]

\* The handler that the country lists need, unless one is there.
Resolver(c) ==
    IF Limited(c) /\ c.handler = <<>>
    THEN [c EXCEPT !.handler = <<Database(c)>>] ELSE c

----------------------------------------------------------------------------
\* What a special check refuses.
Refuses(field, c) ==
    CASE field = "enrichment"   -> c.enrichment /\ ~c.agent
      [] field = "interval"     -> c.interval # 0 /\ c.interval < 60
      [] field = "rules"        -> \E r \in ToSet(c.rules) : ~KeptRule(c, r)
      [] field = "inspect"      -> c.inspect # 0 /\ c.inspect \notin 1024..10485760
      [] field = "countries"    -> FALSE
      [] field = "maxAge"       -> (~c.token /\ c.maxAge # 0) \/ (c.token /\ c.maxAge < 0)
      [] field = "db"           -> Limited(c) /\ c.handler = <<>> /\ ~c.db /\ ~c.token
      [] field = "clouds"       -> ~(c.clouds \subseteq {"aws", "gcp"})
      [] field \in {"requestLevel", "suspiciousLevel"} ->
            c[field] # "" /\ Upper(c[field]) \notin Levels
      [] field = "format"       -> c.format \notin {"", "text", "json"}
      [] field = "agents"       -> "broken" \in c.agents
      [] field = "addresses"    -> "junk" \in c.addresses
      [] field = "threatBans"   -> \E e \in c.threatBans : ~e.known \/ e.threshold < 1 \/ e.duration < 1
      [] field = "endpoints"    -> \E e \in c.endpoints : e.requests < 1 \/ e.window < 1
      [] field = "categories"   -> "unknown" \in c.categories \/ (c.detection /\ c.categories = {})
      [] field = "muted"        -> "unknown" \in c.muted
      [] field = "paths"        -> "relative" \in c.paths

\* What it leaves otherwise.
Normal(field, c) ==
    CASE field = "interval"  -> [c EXCEPT !.interval = IF c.dynamicRules /\ @ = 0 THEN 300 ELSE @]
      [] field = "rules"     -> [c EXCEPT !.rules = NormalRules(@)]
      [] field = "inspect"   -> [c EXCEPT !.inspect = IF @ = 0 THEN 262144 ELSE @]
      [] field = "countries" -> [c EXCEPT !.white = {Upper(x) : x \in @}, !.black = {Upper(x) : x \in @}]
      [] field = "maxAge"    -> Lifecycle(c)
      [] field = "db"        -> Resolver(c)
      [] field = "requestLevel"    -> [c EXCEPT !.requestLevel = Upper(@)]
      [] field = "suspiciousLevel" -> [c EXCEPT !.suspiciousLevel = IF @ = "" THEN "WARNING" ELSE Upper(@)]
      [] field = "format"    -> [c EXCEPT !.format = IF @ = "" THEN "text" ELSE @]
      [] OTHER               -> c

Defaulted(check, n) == IF n <= 0 THEN check.value ELSE n
Clamped(check, n)   == IF n < check.low THEN check.low ELSE IF n > check.high THEN check.high ELSE n

Passes(check, c) ==
    CASE check.do = "refuse"  -> c[check.field] \in check.allowed
      [] check.do = "special" -> ~Refuses(check.field, c)
      [] OTHER                -> TRUE

Applied(check, c) ==
    CASE check.do = "default" -> [c EXCEPT ![check.field] = Defaulted(check, @)]
      [] check.do = "clamp"   -> [c EXCEPT ![check.field] = Clamped(check, @)]
      [] check.do = "special" -> Normal(check.field, c)
      [] OTHER                -> c

\* What a refusal leaves: nothing is written before it but the rules' defaults.
Left(check, c) == IF check.field = "rules" THEN Normal("rules", c) ELSE c

Checks == FirstChecks \o GeoChecks \o LastChecks

\* The first check that refuses ends the validation.
Validated(c) ==
    FoldLeft(LAMBDA acc, check :
               IF acc.refusedAt # "" THEN acc
               ELSE IF Passes(check, acc.config) THEN [acc EXCEPT !.config = Applied(check, @)]
               ELSE [acc EXCEPT !.refusedAt = check.field, !.config = Left(check, @)],
             [config |-> c, refusedAt |-> ""], Checks)

----------------------------------------------------------------------------
ConfigInit ==
    /\ given \in {[f \in DOMAIN DefaultSecurityConfig |->
                     IF f \in DOMAIN m THEN m[f] ELSE DefaultSecurityConfig[f]] : m \in Mutations}
    /\ config = given
    /\ outcome = "unchecked"

Validate ==
    /\ outcome = "unchecked"
    /\ LET result == Validated(config) IN
         /\ config' = result.config
         /\ outcome' = IF result.refusedAt = "" THEN "accepted" ELSE result.refusedAt
    /\ UNCHANGED given

\* The program's own step: the setting that was refused gets its default, but a
\* missing database is supplied, and only the refused ones of the rules are dropped.
Corrected(c, field) ==
    [c EXCEPT ![field] = IF field = "db" THEN TRUE
                         ELSE IF field = "rules" THEN SelectSeq(@, LAMBDA r : KeptRule(c, r))
                         ELSE DefaultSecurityConfig[field]]
Correct ==
    /\ outcome \notin {"unchecked", "accepted"}
    /\ config' = Corrected(config, outcome)
    /\ given' = Corrected(given, outcome)
    /\ outcome' = "unchecked"

ConfigNext == Validate \/ Correct

----------------------------------------------------------------------------
(* Properties                                                              *)

Accepted == outcome = "accepted"

(* NewEngine validates what NewSecurityConfig has validated, and engines may *)
(* share a configuration: one that was accepted is accepted again, and       *)
(* nothing in it changes under the engine that uses it (Validate).           *)
AcceptedAgain == Accepted => Validated(config) = [config |-> config, refusedAt |-> ""]

(* A refusal leaves nothing behind: once the settings that were refused are  *)
(* corrected, the configuration is what it would be had it never been        *)
(* refused, also where a handler was built or rules were given their         *)
(* defaults before the refusal (Validate).                                   *)
CorrectedIsAsFresh == Accepted => config = Validated(given).config

(* Nothing an accepted configuration turns on is without what it needs:      *)
(* country lists have a resolver, one that can get a database; detection has *)
(* categories; rules about bodies see them; enrichment has its agent; and no *)
(* number that is counted up to or waited for is zero or negative.           *)
NothingIsInert ==
    LET c == config IN
    Accepted =>
      /\ Limited(c) => c.handler # <<>> /\ (c.token => c.maxAge >= 1)
      /\ c.detection => c.categories # {}
      /\ (\E r \in ToSet(c.rules) : ReadsBody(r)) => c.scanBody
      /\ c.enrichment => c.agent
      /\ c.dynamicRules => c.interval >= 60
      /\ \A f \in {"inspect", "values", "chars", "depth", "bodyTimeout", "bodyReads", "proxyDepth",
                   "banThreshold", "banDuration", "rateLimit", "rateWindow", "minRun",
                   "compiler", "content", "bodyBytes", "refresh"} : c[f] > 0
      /\ \A r \in ToSet(c.rules) : r.window > 0 /\ r.action # ""
=============================================================================
