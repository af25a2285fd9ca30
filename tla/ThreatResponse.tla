--------------------------- MODULE ThreatResponse ---------------------------
(***************************************************************************)
(* From a detected threat to a ban (pipeline.go): concurrent requests of   *)
(* one address record the categories they were flagged with in the shared  *)
(* suspiciousCountStore and ban the address once a count has reached its   *)
(* threshold.  Two callers do it differently: suspiciousActivityCheck, also *)
(* on a WebSocket handshake, and the escalation of a request the IP rules  *)
(* denied.  The lock of the store covers one access at a time.             *)
(***************************************************************************)
EXTENDS Integers, FiniteSets, FiniteSetsExt

CONSTANTS
    Requests,           \* goroutines serving requests of the address
    Categories,         \* threat categories, numbered in alphabetical order
    Threshold,          \* ThreatBanConfig, or the common threshold
    AutoBanThreshold,
    EnableIPBanning, PassiveMode,
    MaxViolations       \* bound on the requests

\* Validate refuses a threshold below 1 (config.go).
ResponseConstants ==
    /\ IsFiniteSet(Requests) /\ IsFiniteSet(Categories) /\ Categories \subseteq Nat \ {0}
    /\ Threshold \in [Categories -> Nat \ {0}] /\ AutoBanThreshold \in Nat \ {0}
    /\ EnableIPBanning \in BOOLEAN /\ PassiveMode \in BOOLEAN /\ MaxViolations \in Nat
ASSUME ResponseAssumption == ResponseConstants

VARIABLES
    counts,     \* suspiciousCountStore of the address
    banned,     \* the address is in the ban manager
    task,       \* task[c]: the progress of a request
    violations, \* requests so far
    attempts    \* history: the Ban calls and how they ended

responseVars == <<counts, banned, task, violations, attempts>>

Paths   == {"suspicious", "denied"}
Total   == 0        \* a ban for the total, of no one category
Resting == [step |-> "idle"]
At(c, step) == task[c].step = step
TotalOf(f) == Cardinality(UNION {{k} \X (1..f[k]) : k \in Categories})

ResponseInit ==
    /\ counts = [k \in Categories |-> 0]
    /\ banned = FALSE
    /\ task = [c \in Requests |-> Resting]
    /\ violations = 0
    /\ attempts = {}

\* Mutation of Reached: one violation short of the threshold.
ReachedEarly(k) == counts[k] + 1 >= Threshold[k]

Reached(k) == counts[k] >= Threshold[k]

\* Mutation of Stops: every caller stops at the first ban that is not applied.
StopsAlways(c, outcome) == TRUE

\* After a ban that was not applied suspiciousActivityCheck goes on with the next
\* category; the escalation of a denial stops.
Stops(c, outcome) == outcome = "applied" \/ task[c].path = "denied"

----------------------------------------------------------------------------
\* A request that the ban check let through is flagged.  In passive mode the
\* IP rules only log, so that a denial escalates nothing.
Flag(c, path, found) ==
    /\ At(c, "idle")
    /\ ~banned
    /\ PassiveMode => path = "suspicious"
    /\ violations < MaxViolations /\ violations' = violations + 1
    /\ task' = [task EXCEPT ![c] = [step |-> "record", path |-> path,
                   id |-> violations, found |-> found, left |-> found,
                   due |-> {}, category |-> Total]]
    /\ UNCHANGED <<counts, banned, attempts>>

\* recordCategories: all categories in one lock section.  "due" (history) are
\* those whose count has by then reached the threshold.
RecordCategories(c) ==
    LET found == task[c].found
        after == [k \in Categories |-> counts[k] + IF k \in found THEN 1 ELSE 0]
    IN /\ At(c, "record")
       /\ counts' = after
       /\ task' = [task EXCEPT ![c] =
              IF ~EnableIPBanning \/ PassiveMode THEN Resting
              ELSE [@ EXCEPT !.step = "evaluate",
                             !.due = {k \in found : after[k] >= Threshold[k]}]]
       /\ UNCHANGED <<banned, violations, attempts>>

\* The loop over the categories: one lock section for each count.
Evaluate(c) ==
    LET k    == Min(task[c].left)
        rest == task[c].left \ {k} IN
    /\ At(c, "evaluate")
    /\ task[c].left # {}
    /\ task' = [task EXCEPT ![c] =
           IF ~Reached(k) THEN [@ EXCEPT !.left = rest]
           ELSE [@ EXCEPT !.step = "ban", !.left = rest, !.category = k]]
    /\ UNCHANGED <<counts, banned, violations, attempts>>

\* No category is left.  The escalation of a denial looks at the total too.
EvaluateTotal(c) ==
    /\ At(c, "evaluate")
    /\ task[c].left = {}
    /\ task' = [task EXCEPT ![c] =
           IF task[c].path = "denied" /\ TotalOf(counts) >= AutoBanThreshold
           THEN [@ EXCEPT !.step = "banTotal", !.category = Total]
           ELSE [@ EXCEPT !.step = "end"]]
    /\ UNCHANGED <<counts, banned, violations, attempts>>

\* IPBanManager.Ban applies the ban, refuses it (a protected address), or fails.
Ban(c, outcome) ==
    /\ At(c, "ban") \/ At(c, "banTotal")
    /\ banned' = (banned \/ outcome = "applied")
    /\ attempts' = attempts \cup
              {[id |-> task[c].id, category |-> task[c].category,
               outcome |-> outcome]}
    /\ task' = [task EXCEPT ![c].step = IF Stops(c, outcome) THEN "end" ELSE "evaluate"]
    /\ UNCHANGED <<counts, violations>>

Respond(c) ==
    /\ At(c, "end")
    /\ task' = [task EXCEPT ![c] = Resting]
    /\ UNCHANGED <<counts, banned, violations, attempts>>

\* An operator lifts the ban; the counts stay.
Unban ==
    /\ banned /\ banned' = FALSE
    /\ UNCHANGED <<counts, task, violations, attempts>>

ResponseNext ==
    \/ \E c \in Requests :
          \/ \E path \in Paths, found \in (SUBSET Categories) \ {{}} : Flag(c, path, found)
          \/ RecordCategories(c) \/ Evaluate(c) \/ EvaluateTotal(c)
          \/ \E outcome \in {"applied", "refused", "failed"} : Ban(c, outcome)
          \/ Respond(c)
    \/ Unban

ResponseSpec == ResponseInit /\ [][ResponseNext]_responseVars

----------------------------------------------------------------------------
(* Properties                                                              *)

ResponseTypeOK ==
    /\ counts \in [Categories -> 0..MaxViolations]
    /\ banned \in BOOLEAN
    /\ violations \in 0..MaxViolations
    /\ \A c \in Requests : task[c].step \in
          {"idle", "record", "evaluate", "ban", "banTotal", "end"}

\* Once the requests are through, a category at its threshold has led to a Ban
\* call, whichever of them brought the count there: each counts before it looks.
NoMissedBan ==
    /\ EnableIPBanning /\ ~PassiveMode
    /\ \A c \in Requests : At(c, "idle")
    /\ \E k \in Categories : counts[k] >= Threshold[k]
    => attempts # {}

\* A ban that fails or is refused for one category does not keep the request
\* from banning for another that is due (registerViolations goes on).
OneFailureIsNotTheEnd ==
    \A c \in Requests, f \in attempts :
      At(c, "end") /\ task[c].path = "suspicious"
        /\ f.id = task[c].id /\ f.outcome # "applied" =>
      \A k \in task[c].due : \E a \in attempts :
         a.id = task[c].id /\ (a.category = k \/ a.outcome = "applied")

\* The response to threats: what is due is done.
ReactionsAreDue == ResponseTypeOK /\ NoMissedBan /\ OneFailureIsNotTheEnd

\* Refinement: the lock sections of concurrent requests implement AutoBan, where
\* counting and banning are single steps and a ban needs a count at its threshold.
Promise == INSTANCE AutoBan WITH counts <- counts, banned <- banned
AutoBanKept == Promise!AutoBanSpec
=============================================================================
