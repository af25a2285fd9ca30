---------------------------- MODULE ServicesProofs ----------------------------
(***************************************************************************)
(* Proofs about the components that MCServices instantiates, for any       *)
(* values of their constants: what a threat makes due is done and the lock *)
(* sections of the requests implement AutoBan (ThreatResponse), the tables *)
(* of the pattern monitor fit and it emits once per cooldown               *)
(* (PatternMonitor), cached headers were in force (SecurityHeaders), each  *)
(* worker's registry is in step with what it answers and has persisted     *)
(* (PatternRegistry), and every action of a behavior rule rests on more    *)
(* hits than its limit (BehaviorTracker).                                  *)
(***************************************************************************)
EXTENDS ThreatResponse, PatternMonitor, SecurityHeaders, PatternRegistry, BehaviorTracker,
        FiniteSetTheorems, SequenceTheorems, NaturalsInduction, WellFoundedInduction, TLAPS

----------------------------------------------------------------------------
(* ThreatResponse: the inductive invariant.                                *)

Active == [step : {"record", "evaluate", "ban", "banTotal", "end"}, path : Paths, id : Nat,
           found : SUBSET Categories, left : SUBSET Categories, due : SUBSET Categories,
           category : Categories \cup {Total}]

ResponseTyped ==
    /\ counts \in [Categories -> Nat] /\ banned \in BOOLEAN /\ violations \in 0..MaxViolations
    /\ DOMAIN task = Requests /\ \A c \in Requests : task[c] = Resting \/ task[c] \in Active

\* Requests flagged and not counted yet: they make up for what the counts lack.
Uncounted == {c \in Requests : At(c, "record")}
CountsFit == \A k \in Categories : counts[k] + Cardinality(Uncounted) <= violations

\* What a request has left and is about to do.
RecordsAll(c)  == At(c, "record") => task[c].found # {} /\ task[c].left = task[c].found
Acting(c)      == ~At(c, "idle") /\ ~At(c, "record")
DueReached(c)  == Acting(c) => \A k \in task[c].due : Reached(k)
BansReached(c) == At(c, "ban") => task[c].category \in Categories /\ Reached(task[c].category)
BansTotal(c)   == At(c, "banTotal") => task[c].path = "denied" /\ TotalOf(counts) >= AutoBanThreshold

\* A due category has had its attempt, is looked at next, or is still to come.
Attempted(c, k) == \E a \in attempts : a.id = task[c].id /\ (a.category = k \/ a.outcome = "applied")
StillToCome(c, k) ==
    \/ ~At(c, "end") /\ k \in task[c].left
    \/ At(c, "ban") /\ task[c].category = k
DueInHand(c) == Acting(c) /\ task[c].path = "suspicious" =>
                    \A k \in task[c].due : Attempted(c, k) \/ StillToCome(c, k)

\* A reached count has led to an attempt, or some request will make one.
Attends(c, k) == At(c, "ban") \/ At(c, "banTotal") \/ (At(c, "evaluate") /\ k \in task[c].left)
ReachedInHand ==
    EnableIPBanning /\ ~PassiveMode =>
        \A k \in Categories : Reached(k) => attempts # {} \/ \E c \in Requests : Attends(c, k)

Progressing(c) == /\ RecordsAll(c) /\ DueReached(c) /\ BansReached(c) /\ BansTotal(c)
                  /\ DueInHand(c)

ResponseInv == /\ ResponseTyped /\ CountsFit /\ ReachedInHand
               /\ \A c \in Requests : Progressing(c)

----------------------------------------------------------------------------
(* Operators.                                                              *)

LEMMA Least ==
    ASSUME NEW S, S \subseteq Nat, S # {}
    PROVE  Min(S) \in S
<1> DEFINE R == OpToRel(<, Nat)
<1>1. IsWellFoundedOn(R, Nat)
  BY NatLessThanWellFounded
<1>2. \A x \in S, y \in S : y < x => <<y, x>> \in R
  BY DEF OpToRel
<1> HIDE DEF R
<1>3. \E x \in S : \A y \in S : ~(<<y, x>> \in R)
  BY <1>1, WFMin
<1>4. \E x \in S : \A y \in S : ~(y < x)
  BY <1>2, <1>3, Zenon
<1>5. \A x \in S, y \in S : ~(y < x) => x <= y
  OBVIOUS
<1>6. \E x \in S : \A y \in S : x <= y
  BY <1>4, <1>5
<1> QED
  BY <1>6 DEF Min

\* More violations of each category have a greater sum.
LEMMA SumGrows ==
    ASSUME IsFiniteSet(Categories), NEW n \in Nat,
           NEW f \in [Categories -> 0..n], NEW g \in [Categories -> 0..n],
           \A k \in Categories : f[k] <= g[k]
    PROVE  TotalOf(f) \in Nat /\ TotalOf(g) \in Nat /\ TotalOf(f) <= TotalOf(g)
<1> DEFINE F == UNION {{k} \X (1..f[k]) : k \in Categories}
           G == UNION {{k} \X (1..g[k]) : k \in Categories}
<1>1. IsFiniteSet(Categories \X (1..n))
  <2>1. IsFiniteSet(1..n)
    <3>1. 1 \in Int /\ n \in Int
      OBVIOUS
    <3> QED
      BY <3>1, FS_Interval
  <2> QED
    BY <2>1, FS_Product
<1>2. G \subseteq Categories \X (1..n)
  OBVIOUS
<1>3. F \subseteq G
  <2> SUFFICES ASSUME NEW k \in Categories, NEW p \in {k} \X (1..f[k])
               PROVE  p \in G
    OBVIOUS
  <2>1. p \in {k} \X (1..g[k])
    OBVIOUS
  <2> QED
    BY <2>1
<1> HIDE DEF F, G
<1>4. IsFiniteSet(G) /\ IsFiniteSet(F)
  BY <1>1, <1>2, <1>3, FS_Subset
<1>5. Cardinality(F) \in Nat /\ Cardinality(G) \in Nat /\ Cardinality(F) <= Cardinality(G)
  BY <1>3, <1>4, FS_Subset, FS_CardinalityType
<1> QED
  BY <1>5 DEF TotalOf, F, G

----------------------------------------------------------------------------
(* A step of one request leaves the others as they were: counts only grow. *)

LEMMA Growing ==
    ASSUME ResponseConstants, ResponseInv, NEW g \in [Categories -> Nat], counts' = g,
           \A k \in Categories : counts[k] <= g[k] /\ g[k] <= MaxViolations
    PROVE  /\ \A k \in Categories : Reached(k) => Reached(k)'
           /\ TotalOf(counts) >= AutoBanThreshold => TotalOf(counts') >= AutoBanThreshold
<1>1. \A k \in Categories : counts[k] \in Nat /\ g[k] \in Nat /\ Threshold[k] \in Nat
  BY DEF ResponseConstants, ResponseInv, ResponseTyped
<1>2. \A k \in Categories : Reached(k) => Reached(k)'
  BY <1>1 DEF Reached
<1>3. counts \in [Categories -> 0..MaxViolations] /\ g \in [Categories -> 0..MaxViolations]
  BY <1>1 DEF ResponseConstants, ResponseInv, ResponseTyped
<1>4. TotalOf(counts) \in Nat /\ TotalOf(g) \in Nat /\ TotalOf(counts) <= TotalOf(g)
  BY <1>1, <1>3, SumGrows DEF ResponseConstants
<1>5. counts' = g
  OBVIOUS
<1>6. TotalOf(counts') = TotalOf(g)
  BY <1>5 DEF TotalOf
<1> QED
  BY <1>2, <1>4, <1>6 DEF ResponseConstants

LEMMA OthersProgress ==
    ASSUME ResponseConstants, ResponseInv, NEW c \in Requests, NEW new,
           new = Resting \/ new \in Active, task' = [task EXCEPT ![c] = new],
           NEW g \in [Categories -> Nat], counts' = g, attempts \subseteq attempts',
           \A k \in Categories : counts[k] <= g[k] /\ g[k] <= MaxViolations
    PROVE  /\ DOMAIN task' = Requests /\ task'[c] = new
           /\ \A d \in Requests : task'[d] = Resting \/ task'[d] \in Active
           /\ \A d \in Requests \ {c} : task'[d] = task[d] /\ Progressing(d)'
<1>1. /\ DOMAIN task' = Requests /\ task'[c] = new
      /\ \A d \in Requests \ {c} : task'[d] = task[d]
      /\ \A d \in Requests : task'[d] = Resting \/ task'[d] \in Active
  BY DEF ResponseInv, ResponseTyped
<1>2. /\ \A k \in Categories : Reached(k) => Reached(k)'
      /\ TotalOf(counts) >= AutoBanThreshold => TotalOf(counts') >= AutoBanThreshold
  BY Growing
<1>3. ASSUME NEW d \in Requests \ {c} PROVE Progressing(d)'
  <2>1. task'[d] = task[d] /\ Progressing(d) /\ (task[d] = Resting \/ task[d] \in Active)
    BY <1>1 DEF ResponseInv, ResponseTyped
  <2>2. /\ At(d, "idle")' <=> At(d, "idle")
        /\ At(d, "record")' <=> At(d, "record")
        /\ At(d, "ban")' <=> At(d, "ban")
        /\ At(d, "banTotal")' <=> At(d, "banTotal")
        /\ At(d, "end")' <=> At(d, "end")
    BY <2>1 DEF At
  <2>3. RecordsAll(d)'
    BY <2>1, <2>2 DEF Progressing, RecordsAll
  <2>4. Acting(d) => task[d].due \subseteq Categories
    BY <2>1 DEF Acting, At, Active, Resting
  <2>5. DueReached(d)'
    BY <1>2, <2>1, <2>2, <2>4 DEF Progressing, DueReached, Acting
  <2>6. BansReached(d)'
    BY <1>2, <2>1, <2>2 DEF Progressing, BansReached
  <2>7. BansTotal(d)'
    BY <1>2, <2>1, <2>2 DEF Progressing, BansTotal
  <2>8. DueInHand(d)'
    <3> SUFFICES ASSUME Acting(d)', task'[d].path = "suspicious", NEW k \in task'[d].due
                 PROVE  Attempted(d, k)' \/ StillToCome(d, k)'
      BY DEF DueInHand
    <3>1. Attempted(d, k) \/ StillToCome(d, k)
      BY <2>1, <2>2 DEF Progressing, DueInHand, Acting
    <3>2. CASE Attempted(d, k)
      BY <2>1, <3>2 DEF Attempted
    <3>3. CASE StillToCome(d, k)
      BY <2>1, <2>2, <3>3 DEF StillToCome
    <3> QED
      BY <3>1, <3>2, <3>3
  <2> QED
    BY <2>3, <2>5, <2>6, <2>7, <2>8 DEF Progressing
<1> QED
  BY <1>1, <1>3

\* A step of c leaves a reached count in hand if c does, or attempts a ban.
LEMMA StaysInHand ==
    ASSUME ReachedInHand, NEW c \in Requests, attempts \subseteq attempts',
           \A d \in Requests \ {c} : task'[d] = task[d],
           \A k \in Categories : Reached(k)' => Reached(k) \/ Attends(c, k)',
           \A k \in Categories : Attends(c, k) /\ Reached(k) => Attends(c, k)' \/ attempts' # {}
    PROVE  ReachedInHand'
<1> SUFFICES ASSUME EnableIPBanning, ~PassiveMode, NEW k \in Categories, Reached(k)', attempts' = {}
             PROVE  \E d \in Requests : Attends(d, k)'
  BY DEF ReachedInHand
<1>1. CASE Attends(c, k)'
  BY <1>1
<1>2. CASE ~Attends(c, k)'
  <2>1. Reached(k) /\ attempts = {}
    BY <1>2
  <2>2. PICK d \in Requests : Attends(d, k)
    BY <2>1 DEF ReachedInHand
  <2>3. d # c
    BY <1>2, <2>1, <2>2
  <2>4. Attends(d, k)'
    BY <2>2, <2>3 DEF Attends, At
  <2> QED
    BY <2>4
<1> QED
  BY <1>1, <1>2

\* A step of a request that was counted and stays so until it ends, counts unchanged.
LEMMA StepInside ==
    ASSUME ResponseConstants, ResponseInv, NEW c \in Requests, Acting(c), NEW new,
           new = Resting \/ new \in Active, new.step # "record",
           task' = [task EXCEPT ![c] = new], UNCHANGED <<counts, violations>>,
           attempts \subseteq attempts', banned' \in BOOLEAN,
           \A k \in Categories : Attends(c, k) /\ Reached(k) => Attends(c, k)' \/ attempts' # {},
           Progressing(c)'
    PROVE  ResponseInv'
<1>1. /\ counts \in [Categories -> Nat] /\ MaxViolations \in Nat
      /\ \A k \in Categories : counts[k] + Cardinality(Uncounted) <= violations
      /\ violations \in 0..MaxViolations
  BY DEF ResponseConstants, ResponseInv, ResponseTyped, CountsFit
<1>2. IsFiniteSet(Uncounted) /\ Cardinality(Uncounted) \in Nat
  BY FS_Subset, FS_CardinalityType DEF ResponseConstants, Uncounted
<1>3. \A k \in Categories : counts[k] <= counts[k] /\ counts[k] <= MaxViolations
  BY <1>1, <1>2
<1>4. /\ DOMAIN task' = Requests /\ task'[c] = new
      /\ \A d \in Requests : task'[d] = Resting \/ task'[d] \in Active
      /\ \A d \in Requests \ {c} : task'[d] = task[d] /\ Progressing(d)'
  BY <1>1, <1>3, OthersProgress
<1>5. Uncounted' = Uncounted
  <2>1. ~At(c, "record") /\ ~At(c, "record")'
    BY <1>4 DEF Acting, At
  <2>2. \A d \in Requests : At(d, "record")' <=> At(d, "record")
    BY <1>4, <2>1 DEF At
  <2> QED
    BY <2>2 DEF Uncounted
<1>6. CountsFit'
  BY <1>5 DEF ResponseInv, CountsFit
<1>7. \A k \in Categories : Reached(k)' => Reached(k)
  BY DEF Reached
<1>8. ReachedInHand'
  BY <1>4, <1>7, StaysInHand DEF ResponseInv
<1>9. ResponseTyped'
  BY <1>1, <1>4 DEF ResponseTyped
<1> QED
  BY <1>4, <1>6, <1>8, <1>9 DEF ResponseInv

----------------------------------------------------------------------------
(* The actions.                                                            *)

LEMMA EvaluateKeeps ==
    ASSUME ResponseConstants, ResponseInv, NEW c \in Requests, Evaluate(c)
    PROVE  ResponseInv'
<1> DEFINE k0 == Min(task[c].left)
           rest == [task[c] EXCEPT !.left = @ \ {k0}]
           banning == [task[c] EXCEPT !.step = "ban", !.left = @ \ {k0}, !.category = k0]
<1>1. /\ At(c, "evaluate") /\ task[c].left # {}
      /\ UNCHANGED <<counts, banned, violations, attempts>>
      /\ task' = [task EXCEPT ![c] = IF ~Reached(k0) THEN rest ELSE banning]
  BY DEF Evaluate
<1>2. /\ task[c] \in Active /\ task[c].step = "evaluate" /\ Acting(c)
      /\ DOMAIN task = Requests /\ banned \in BOOLEAN
  BY <1>1 DEF ResponseInv, ResponseTyped, At, Resting, Acting
<1>3. k0 \in task[c].left /\ k0 \in Categories /\ task[c].left \subseteq Categories
  <2>1. task[c].left \subseteq Categories /\ task[c].left \subseteq Nat
    BY <1>2 DEF Active, ResponseConstants
  <2> QED
    BY <1>1, <2>1, Least
<1>4. /\ rest \in Active /\ rest.left = task[c].left \ {k0} /\ rest.step = "evaluate"
      /\ rest.path = task[c].path /\ rest.id = task[c].id /\ rest.due = task[c].due
  BY <1>2, <1>3 DEF Active
<1> HIDE DEF rest
<1>6. /\ banning \in Active /\ banning.left = task[c].left \ {k0} /\ banning.step = "ban"
      /\ banning.path = task[c].path /\ banning.id = task[c].id /\ banning.due = task[c].due
      /\ banning.category = k0
  BY <1>2, <1>3 DEF Active
<1> HIDE DEF banning
<1>7. Progressing(c)
  BY DEF ResponseInv
<1>8. \A k : (Reached(k)' <=> Reached(k))
  BY <1>1 DEF Reached
<1>9. PICK new \in {rest, banning} : /\ task' = [task EXCEPT ![c] = new]
                                     /\ new = rest => ~Reached(k0)
                                     /\ new = banning => Reached(k0)
  BY <1>1, <1>4, <1>6
<1>10. /\ new \in Active /\ new.left = task[c].left \ {k0} /\ new.step \in {"evaluate", "ban"}
       /\ new.path = task[c].path /\ new.id = task[c].id /\ new.due = task[c].due
       /\ new.step = "ban" <=> Reached(k0)
       /\ new.step = "ban" => new.category = k0
       /\ task'[c] = new
  BY <1>2, <1>4, <1>6, <1>9
<1>11. \A k \in Categories : Attends(c, k) /\ Reached(k) => Attends(c, k)'
  BY <1>1, <1>2, <1>10 DEF Attends, At
<1>12. Progressing(c)'
  <2>1. RecordsAll(c)' /\ BansTotal(c)' /\ BansReached(c)'
    BY <1>3, <1>8, <1>10 DEF RecordsAll, BansTotal, BansReached, At
  <2>2. DueReached(c)'
    BY <1>2, <1>7, <1>8, <1>10 DEF Progressing, DueReached, Acting
  <2>3. DueInHand(c)'
    <3> SUFFICES ASSUME task[c].path = "suspicious", NEW k \in task[c].due
                 PROVE  Attempted(c, k)' \/ StillToCome(c, k)'
      BY <1>10 DEF DueInHand
    <3>1. (Attempted(c, k) \/ StillToCome(c, k)) /\ Reached(k)
      BY <1>2, <1>7 DEF Progressing, DueInHand, DueReached
    <3>2. Attempted(c, k) => Attempted(c, k)'
      BY <1>1, <1>10 DEF Attempted
    <3>3. StillToCome(c, k) => StillToCome(c, k)'
      BY <1>2, <1>10, <3>1 DEF StillToCome, At
    <3> QED
      BY <3>1, <3>2, <3>3
  <2> QED
    BY <2>1, <2>2, <2>3 DEF Progressing
<1> QED
  BY <1>1, <1>2, <1>9, <1>10, <1>11, <1>12, StepInside

LEMMA EvaluateTotalKeeps ==
    ASSUME ResponseConstants, ResponseInv, NEW c \in Requests, EvaluateTotal(c)
    PROVE  ResponseInv'
<1> DEFINE total == task[c].path = "denied" /\ TotalOf(counts) >= AutoBanThreshold
           banning == [task[c] EXCEPT !.step = "banTotal", !.category = Total]
           ending == [task[c] EXCEPT !.step = "end"]
<1>1. /\ At(c, "evaluate") /\ task[c].left = {}
      /\ UNCHANGED <<counts, banned, violations, attempts>>
      /\ task' = [task EXCEPT ![c] = IF total THEN banning ELSE ending]
  BY DEF EvaluateTotal
<1>2. /\ task[c] \in Active /\ task[c].step = "evaluate" /\ Acting(c)
      /\ DOMAIN task = Requests /\ banned \in BOOLEAN
  BY <1>1 DEF ResponseInv, ResponseTyped, At, Resting, Acting
<1>3. /\ banning \in Active /\ banning.step = "banTotal" /\ banning.left = task[c].left
      /\ banning.path = task[c].path /\ banning.id = task[c].id /\ banning.due = task[c].due
  BY <1>2 DEF Active
<1>4. /\ ending \in Active /\ ending.step = "end" /\ ending.left = task[c].left
      /\ ending.path = task[c].path /\ ending.id = task[c].id /\ ending.due = task[c].due
  BY <1>2 DEF Active
<1> HIDE DEF banning, ending
<1>5. PICK new \in {banning, ending} : /\ task' = [task EXCEPT ![c] = new]
                                       /\ new = banning => total
  BY <1>1, <1>3, <1>4
<1>6. /\ new \in Active /\ new.left = {} /\ new.step \in {"banTotal", "end"}
      /\ new.path = task[c].path /\ new.id = task[c].id /\ new.due = task[c].due
      /\ new.step = "banTotal" => total
      /\ task'[c] = new
  BY <1>1, <1>2, <1>3, <1>4, <1>5
<1>7. Progressing(c) /\ \A k : (Reached(k)' <=> Reached(k))
  BY <1>1 DEF ResponseInv, Reached
<1>8. \A k \in Categories : ~Attends(c, k)
  BY <1>1, <1>2 DEF Attends, At
<1>9. Progressing(c)'
  <2>1. RecordsAll(c)' /\ BansReached(c)'
    BY <1>6 DEF RecordsAll, BansReached, At
  <2>2. BansTotal(c)'
    BY <1>1, <1>6 DEF BansTotal, At
  <2>3. DueReached(c)'
    BY <1>2, <1>6, <1>7 DEF Progressing, DueReached, Acting
  <2>4. DueInHand(c)'
    <3> SUFFICES ASSUME task[c].path = "suspicious", NEW k \in task[c].due
                 PROVE  Attempted(c, k)'
      BY <1>6 DEF DueInHand
    <3>1. Attempted(c, k)
      BY <1>1, <1>2, <1>7 DEF Progressing, DueInHand, StillToCome, At
    <3> QED
      BY <1>1, <1>6, <3>1 DEF Attempted
  <2> QED
    BY <2>1, <2>2, <2>3, <2>4 DEF Progressing
<1> QED
  BY <1>1, <1>2, <1>5, <1>6, <1>8, <1>9, StepInside

LEMMA BanKeeps ==
    ASSUME ResponseConstants, ResponseInv, NEW c \in Requests,
           NEW outcome \in {"applied", "refused", "failed"}, Ban(c, outcome)
    PROVE  ResponseInv'
<1> DEFINE new == [task[c] EXCEPT !.step = IF Stops(c, outcome) THEN "end" ELSE "evaluate"]
           made == [id |-> task[c].id, category |-> task[c].category, outcome |-> outcome]
<1>1. /\ At(c, "ban") \/ At(c, "banTotal")
      /\ banned' = (banned \/ outcome = "applied") /\ UNCHANGED <<counts, violations>>
      /\ attempts' = attempts \cup {made}
      /\ task' = [task EXCEPT ![c] = new]
  BY DEF Ban
<1>2. /\ task[c] \in Active /\ task[c].step \in {"ban", "banTotal"} /\ Acting(c)
      /\ DOMAIN task = Requests /\ banned' \in BOOLEAN
  BY <1>1 DEF ResponseInv, ResponseTyped, At, Resting, Acting
<1>3. /\ new \in Active /\ new.step = (IF Stops(c, outcome) THEN "end" ELSE "evaluate")
      /\ new.left = task[c].left
      /\ new.path = task[c].path /\ new.id = task[c].id /\ new.due = task[c].due
  BY <1>2 DEF Active
<1>4. /\ made \in attempts' /\ attempts \subseteq attempts' /\ made.id = task[c].id
      /\ made.category = task[c].category /\ made.outcome = outcome
  BY <1>1
<1> HIDE DEF new, made
<1>5. task'[c] = new /\ Progressing(c) /\ \A k : (Reached(k)' <=> Reached(k))
  BY <1>1, <1>2 DEF ResponseInv, Reached
<1>6. Progressing(c)'
  <2>1. RecordsAll(c)' /\ BansReached(c)' /\ BansTotal(c)'
    BY <1>3, <1>5 DEF RecordsAll, BansReached, BansTotal, At
  <2>2. DueReached(c)'
    BY <1>2, <1>3, <1>5 DEF Progressing, DueReached, Acting
  <2>3. DueInHand(c)'
    <3> SUFFICES ASSUME task[c].path = "suspicious", NEW k \in task[c].due
                 PROVE  Attempted(c, k)' \/ StillToCome(c, k)'
      BY <1>3, <1>5 DEF DueInHand
    <3>1. Attempted(c, k) \/ StillToCome(c, k)
      BY <1>2, <1>5 DEF Progressing, DueInHand
    <3>2. task[c].category = k \/ outcome = "applied" => Attempted(c, k)'
      BY <1>3, <1>4, <1>5 DEF Attempted
    <3>3. Attempted(c, k) => Attempted(c, k)'
      BY <1>3, <1>4, <1>5 DEF Attempted
    <3>4. CASE outcome # "applied" /\ task[c].category # k /\ StillToCome(c, k)
      <4>1. new.step = "evaluate" /\ k \in task[c].left
        BY <1>2, <1>3, <3>4 DEF Stops, StillToCome, At
      <4> QED
        BY <1>3, <1>5, <4>1 DEF StillToCome, At
    <3> QED
      BY <3>1, <3>2, <3>3, <3>4
  <2> QED
    BY <2>1, <2>2, <2>3 DEF Progressing
<1>7. new.step # "record" /\ attempts' # {}
  BY <1>3, <1>4
<1> QED
  BY <1>1, <1>2, <1>3, <1>4, <1>6, <1>7, StepInside

LEMMA RespondKeeps ==
    ASSUME ResponseConstants, ResponseInv, NEW c \in Requests, Respond(c)
    PROVE  ResponseInv'
<1>1. /\ At(c, "end") /\ UNCHANGED <<counts, banned, violations, attempts>>
      /\ task' = [task EXCEPT ![c] = Resting]
  BY DEF Respond
<1>2. /\ Acting(c) /\ DOMAIN task = Requests /\ banned \in BOOLEAN
      /\ \A k : ~Attends(c, k)
  BY <1>1 DEF ResponseInv, ResponseTyped, At, Acting, Attends
<1>3. task'[c] = Resting /\ Resting.step = "idle"
  BY <1>1, <1>2 DEF Resting
<1>4. Progressing(c)'
  BY <1>3 DEF Progressing, RecordsAll, DueReached, BansReached, BansTotal, DueInHand, Acting, At
<1> QED
  BY <1>1, <1>2, <1>3, <1>4, StepInside

LEMMA UnbanKeeps ==
    ASSUME ResponseInv, Unban
    PROVE  ResponseInv'
<1>1. UNCHANGED <<counts, task, violations, attempts>> /\ banned' = FALSE
  BY DEF Unban
<1>2. ResponseTyped'
  BY <1>1 DEF ResponseInv, ResponseTyped
<1>3. CountsFit' /\ ReachedInHand'
  BY <1>1 DEF ResponseInv, CountsFit, Uncounted, ReachedInHand, Reached, Attends, At
<1>4. \A c \in Requests : Progressing(c)'
  BY <1>1 DEF ResponseInv, Progressing, RecordsAll, DueReached, BansReached, BansTotal, DueInHand,
              Acting, Reached, Attempted, StillToCome, At
<1> QED
  BY <1>2, <1>3, <1>4 DEF ResponseInv

LEMMA FlagKeeps ==
    ASSUME ResponseConstants, ResponseInv, NEW c \in Requests, NEW path \in Paths,
           NEW found \in (SUBSET Categories) \ {{}}, Flag(c, path, found)
    PROVE  ResponseInv'
<1> DEFINE new == [step |-> "record", path |-> path, id |-> violations, found |-> found,
                   left |-> found, due |-> {}, category |-> Total]
<1>1. /\ At(c, "idle") /\ violations < MaxViolations /\ violations' = violations + 1
      /\ task' = [task EXCEPT ![c] = new] /\ UNCHANGED <<counts, banned, attempts>>
  BY DEF Flag
<1>2. /\ counts \in [Categories -> Nat] /\ MaxViolations \in Nat
      /\ \A k \in Categories : counts[k] + Cardinality(Uncounted) <= violations
      /\ violations \in 0..MaxViolations /\ banned \in BOOLEAN /\ DOMAIN task = Requests
  BY DEF ResponseConstants, ResponseInv, ResponseTyped, CountsFit
<1>3. IsFiniteSet(Uncounted) /\ Cardinality(Uncounted) \in Nat
  BY FS_Subset, FS_CardinalityType DEF ResponseConstants, Uncounted
<1>4. \A k \in Categories : counts[k] <= counts[k] /\ counts[k] <= MaxViolations
  BY <1>2, <1>3
<1>5. new \in Active /\ new.step = "record" /\ new.found # {} /\ new.left = new.found
  BY <1>2 DEF Active
<1> HIDE DEF new
<1>6. /\ DOMAIN task' = Requests /\ task'[c] = new
      /\ \A d \in Requests : task'[d] = Resting \/ task'[d] \in Active
      /\ \A d \in Requests \ {c} : task'[d] = task[d] /\ Progressing(d)'
  BY <1>1, <1>2, <1>4, <1>5, OthersProgress
<1>7. Progressing(c)'
  BY <1>5, <1>6 DEF Progressing, RecordsAll, DueReached, BansReached, BansTotal, DueInHand,
                    Acting, At
<1>8. CountsFit'
  <2>1. Uncounted' = Uncounted \cup {c} /\ c \notin Uncounted
    BY <1>1, <1>5, <1>6 DEF Uncounted, At
  <2>2. Cardinality(Uncounted') = Cardinality(Uncounted) + 1
    BY <1>3, <2>1, FS_AddElement
  <2> QED
    BY <1>1, <1>2, <1>3, <2>2 DEF CountsFit
<1>9. ReachedInHand'
  <2>1. \A k : Reached(k)' => Reached(k)
    BY <1>1 DEF Reached
  <2>2. \A k : ~Attends(c, k)
    BY <1>1 DEF Attends, At
  <2> QED
    BY <1>1, <1>6, <2>1, <2>2, StaysInHand DEF ResponseInv
<1>10. ResponseTyped'
  BY <1>1, <1>2, <1>6 DEF ResponseTyped
<1> QED
  BY <1>6, <1>7, <1>8, <1>9, <1>10 DEF ResponseInv

LEMMA RecordKeeps ==
    ASSUME ResponseConstants, ResponseInv, NEW c \in Requests, RecordCategories(c)
    PROVE  ResponseInv'
<1> DEFINE found == task[c].found
           after == [k \in Categories |-> counts[k] + IF k \in found THEN 1 ELSE 0]
           due == {k \in found : after[k] >= Threshold[k]}
           acting == [task[c] EXCEPT !.step = "evaluate", !.due = due]
           new == IF ~EnableIPBanning \/ PassiveMode THEN Resting ELSE acting
<1>1. /\ At(c, "record") /\ counts' = after /\ UNCHANGED <<banned, violations, attempts>>
      /\ task' = [task EXCEPT ![c] = new]
  BY DEF RecordCategories
<1>2. /\ counts \in [Categories -> Nat] /\ MaxViolations \in Nat
      /\ \A k \in Categories : counts[k] + Cardinality(Uncounted) <= violations
      /\ violations \in 0..MaxViolations /\ banned \in BOOLEAN /\ DOMAIN task = Requests
  BY DEF ResponseConstants, ResponseInv, ResponseTyped, CountsFit
<1>3. /\ task[c] \in Active /\ task[c].step = "record" /\ found # {} /\ task[c].left = found
      /\ found \subseteq Categories
  BY <1>1 DEF ResponseInv, ResponseTyped, Progressing, RecordsAll, At, Resting, Active
<1>4. /\ IsFiniteSet(Uncounted) /\ Cardinality(Uncounted) \in Nat /\ c \in Uncounted
      /\ Cardinality(Uncounted \ {c}) = Cardinality(Uncounted) - 1
      /\ Cardinality(Uncounted \ {c}) \in Nat
  <2>1. IsFiniteSet(Uncounted) /\ c \in Uncounted
    BY <1>1, FS_Subset DEF ResponseConstants, Uncounted
  <2> QED
    BY <2>1, FS_RemoveElement, FS_CardinalityType
<1>5. /\ after \in [Categories -> Nat]
      /\ \A k \in Categories : /\ counts[k] <= after[k] /\ after[k] <= counts[k] + 1
                               /\ after[k] <= MaxViolations
                               /\ k \notin found => after[k] = counts[k]
  BY <1>2, <1>4
<1>6. /\ acting \in Active /\ acting.step = "evaluate" /\ acting.left = found
      /\ acting.due = due /\ due \subseteq found
  BY <1>3 DEF Active
<1> HIDE DEF acting
<1>7. /\ new = Resting \/ (new = acting /\ EnableIPBanning /\ ~PassiveMode)
      /\ EnableIPBanning /\ ~PassiveMode => new = acting
      /\ Resting.step = "idle"
  BY DEF ResponseConstants, Resting
<1>8. \A k \in due : after[k] >= Threshold[k]
  OBVIOUS
<1> HIDE DEF new, after, due
<1>9. /\ DOMAIN task' = Requests /\ task'[c] = new
      /\ \A d \in Requests : task'[d] = Resting \/ task'[d] \in Active
      /\ \A d \in Requests \ {c} : task'[d] = task[d] /\ Progressing(d)'
  BY <1>1, <1>5, <1>6, <1>7, OthersProgress
<1>10. Progressing(c)'
  <2>1. RecordsAll(c)' /\ BansReached(c)' /\ BansTotal(c)'
    BY <1>6, <1>7, <1>9 DEF RecordsAll, BansReached, BansTotal, At
  <2>2. DueReached(c)'
    BY <1>1, <1>6, <1>7, <1>8, <1>9 DEF DueReached, Acting, Reached, At
  <2>3. DueInHand(c)'
    BY <1>6, <1>7, <1>9 DEF DueInHand, Acting, StillToCome, At
  <2> QED
    BY <2>1, <2>2, <2>3 DEF Progressing
<1>11. CountsFit'
  <2>1. Uncounted' = Uncounted \ {c}
    BY <1>6, <1>7, <1>9 DEF Uncounted, At
  <2> QED
    BY <1>1, <1>2, <1>4, <1>5, <2>1 DEF CountsFit
<1>12. ReachedInHand'
  <2>1. CASE EnableIPBanning /\ ~PassiveMode
    <3>1. \A k \in found : Attends(c, k)'
      BY <1>6, <1>7, <1>9, <2>1 DEF Attends, At
    <3>2. \A k \in Categories : Reached(k)' => Reached(k) \/ Attends(c, k)'
      BY <1>1, <1>5, <3>1 DEF Reached
    <3>3. \A k : ~Attends(c, k)
      BY <1>3 DEF Attends, At
    <3> QED
      BY <1>1, <1>9, <3>2, <3>3, StaysInHand DEF ResponseInv
  <2> QED
    BY <2>1 DEF ReachedInHand
<1>13. ResponseTyped'
  BY <1>1, <1>2, <1>5, <1>9 DEF ResponseTyped
<1> QED
  BY <1>9, <1>10, <1>11, <1>12, <1>13 DEF ResponseInv

LEMMA ResponseFirst ==
    ASSUME ResponseConstants, ResponseInit
    PROVE  ResponseInv
<1>1. /\ counts = [k \in Categories |-> 0] /\ banned = FALSE /\ violations = 0 /\ attempts = {}
      /\ DOMAIN task = Requests /\ \A c \in Requests : task[c] = Resting
      /\ Resting.step = "idle" /\ MaxViolations \in Nat
  BY DEF ResponseInit, ResponseConstants, Resting
<1>2. ResponseTyped
  <2>1. counts \in [Categories -> Nat]
    BY <1>1
  <2>2. banned \in BOOLEAN
    BY <1>1
  <2>3. violations \in 0..MaxViolations
    BY <1>1
  <2> QED
    BY <1>1, <2>1, <2>2, <2>3 DEF ResponseTyped
<1>3. CountsFit
  <2>1. Uncounted = {}
    BY <1>1 DEF Uncounted, At
  <2>2. Cardinality(Uncounted) = 0
    BY <2>1, FS_EmptySet
  <2> QED
    BY <1>1, <2>2 DEF CountsFit
<1>4. ReachedInHand
  BY <1>1 DEF ReachedInHand, Reached, ResponseConstants
<1>5. \A c \in Requests : Progressing(c)
  BY <1>1 DEF Progressing, RecordsAll, DueReached, BansReached, BansTotal, DueInHand, Acting, At
<1> QED
  BY <1>2, <1>3, <1>4, <1>5 DEF ResponseInv

LEMMA ResponseStep ==
    ASSUME ResponseConstants, ResponseInv, [ResponseNext]_responseVars
    PROVE  ResponseInv'
<1>1. ASSUME NEW c \in Requests, NEW path \in Paths, NEW found \in (SUBSET Categories) \ {{}},
             Flag(c, path, found)
      PROVE  ResponseInv'
  BY <1>1, FlagKeeps
<1>2. ASSUME NEW c \in Requests,
             RecordCategories(c) \/ Evaluate(c) \/ EvaluateTotal(c) \/ Respond(c)
      PROVE  ResponseInv'
  BY <1>2, RecordKeeps, EvaluateKeeps, EvaluateTotalKeeps, RespondKeeps
<1>3. ASSUME NEW c \in Requests, NEW outcome \in {"applied", "refused", "failed"}, Ban(c, outcome)
      PROVE  ResponseInv'
  BY <1>3, BanKeeps
<1>4. CASE Unban
  BY <1>4, UnbanKeeps
<1>5. CASE UNCHANGED responseVars
  <2>1. UNCHANGED <<counts, banned, task, violations, attempts>>
    BY <1>5 DEF responseVars
  <2>2. ResponseTyped' /\ CountsFit' /\ ReachedInHand'
    BY <2>1 DEF ResponseInv, ResponseTyped, CountsFit, Uncounted, ReachedInHand, Reached,
                Attends, At
  <2>3. \A c \in Requests : Progressing(c)'
    BY <2>1 DEF ResponseInv, Progressing, RecordsAll, DueReached, BansReached, BansTotal,
                DueInHand, Acting, Reached, Attempted, StillToCome, At
  <2> QED
    BY <2>2, <2>3 DEF ResponseInv
<1> QED
  BY <1>1, <1>2, <1>3, <1>4, <1>5 DEF ResponseNext

----------------------------------------------------------------------------
(* What is due is done.                                                    *)

LEMMA DueIsDone ==
    ASSUME ResponseConstants, ResponseInv
    PROVE  ReactionsAreDue
<1>1. ResponseTypeOK
  <2>1. \A c \in Requests : task[c].step \in {"idle", "record", "evaluate", "ban", "banTotal", "end"}
    BY DEF ResponseInv, ResponseTyped, Active, Resting
  <2>2. IsFiniteSet(Uncounted) /\ Cardinality(Uncounted) \in Nat
    BY FS_Subset, FS_CardinalityType DEF ResponseConstants, Uncounted
  <2>3. \A k \in Categories : counts[k] \in 0..MaxViolations
    BY <2>2 DEF ResponseConstants, ResponseInv, ResponseTyped, CountsFit
  <2> QED
    BY <2>1, <2>3 DEF ResponseInv, ResponseTyped, ResponseTypeOK
<1>2. NoMissedBan
  BY DEF ResponseInv, NoMissedBan, ReachedInHand, Reached, Attends, At
<1>3. OneFailureIsNotTheEnd
  <2> SUFFICES ASSUME NEW c \in Requests, At(c, "end"), task[c].path = "suspicious",
                      NEW k \in task[c].due
               PROVE  Attempted(c, k)
    BY DEF OneFailureIsNotTheEnd, Attempted
  <2>1. DueInHand(c)
    BY DEF ResponseInv, Progressing
  <2> QED
    BY <2>1 DEF DueInHand, Acting, StillToCome, At
<1> QED
  BY <1>1, <1>2, <1>3 DEF ReactionsAreDue

\* ReactionsAreDue: when the requests are through, a category at its threshold has led
\* to a Ban call, whichever of them brought the count there, and a ban that fails for
\* one category keeps no request from banning for another (registerViolations).
THEOREM WhatIsDueIsDone == ResponseSpec => []ReactionsAreDue
<1>1. ResponseInit => ResponseInv
  BY ResponseFirst, ResponseAssumption
<1>2. ResponseInv /\ [ResponseNext]_responseVars => ResponseInv'
  BY ResponseStep, ResponseAssumption
<1>3. ResponseInv => ReactionsAreDue
  BY DueIsDone, ResponseAssumption
<1> QED
  BY <1>1, <1>2, <1>3, PTL DEF ResponseSpec

----------------------------------------------------------------------------
(* The lock sections implement AutoBan.                                    *)

LEMMA StepImplements ==
    ASSUME ResponseInv, [ResponseNext]_responseVars
    PROVE  [Promise!AutoBanNext]_<<counts, banned>>
<1> SUFFICES ASSUME ~UNCHANGED <<counts, banned>>
             PROVE  Promise!AutoBanNext
  OBVIOUS
<1>1. ASSUME NEW c \in Requests, RecordCategories(c)
      PROVE  Promise!AutoBanNext
  <2>1. task[c].found \in (SUBSET Categories) \ {{}}
    BY <1>1 DEF ResponseInv, ResponseTyped, Progressing, RecordsAll, RecordCategories, At,
                Resting, Active
  <2>2. Promise!Violate(task[c].found)
    BY <1>1 DEF RecordCategories, Promise!Violate
  <2> QED
    BY <2>1, <2>2 DEF Promise!AutoBanNext
<1>2. ASSUME NEW c \in Requests, NEW outcome \in {"applied", "refused", "failed"}, Ban(c, outcome)
      PROVE  Promise!AutoBanNext
  <2>1. /\ At(c, "ban") \/ At(c, "banTotal")
        /\ banned' = (banned \/ outcome = "applied") /\ UNCHANGED counts
    BY <1>2 DEF Ban
  <2>2. banned' = TRUE
    BY <2>1 DEF ResponseInv, ResponseTyped
  <2>3. BansReached(c) /\ BansTotal(c)
    BY DEF ResponseInv, Progressing
  <2>4. Promise!Earned
    <3>1. CASE At(c, "ban")
      BY <2>3, <3>1 DEF BansReached, Reached, Promise!Earned
    <3>2. CASE At(c, "banTotal")
      <4>1. TotalOf(counts) >= AutoBanThreshold
        BY <2>3, <3>2 DEF BansTotal
      <4>2. Promise!TotalOf(counts) = TotalOf(counts)
        BY DEF TotalOf, Promise!TotalOf, Cardinality, Promise!Cardinality
      <4> QED
        BY <4>1, <4>2 DEF Promise!Earned
    <3> QED
      BY <2>1, <3>1, <3>2
  <2> QED
    BY <2>1, <2>2, <2>4 DEF Promise!GrantBan, Promise!AutoBanNext
<1>3. CASE Unban
  BY <1>3 DEF Unban, Promise!LiftBan, Promise!AutoBanNext
<1>4. ASSUME NEW c \in Requests, NEW path \in Paths, NEW found \in (SUBSET Categories) \ {{}},
             Flag(c, path, found)
      PROVE  FALSE
  BY <1>4 DEF Flag
<1>5. ASSUME NEW c \in Requests, Evaluate(c) \/ EvaluateTotal(c) \/ Respond(c)
      PROVE  FALSE
  BY <1>5 DEF Evaluate, EvaluateTotal, Respond
<1>6. CASE UNCHANGED responseVars
  BY <1>6 DEF responseVars
<1> QED
  BY <1>1, <1>2, <1>3, <1>4, <1>5, <1>6 DEF ResponseNext

\* AutoBanKept: a violation is counted once for each of its categories in a single step,
\* and the address becomes banned only while a count, or the sum of all, has reached its
\* threshold (registerViolations, applyThresholdBan).
THEOREM ResponseImplementsAutoBan == ResponseSpec => AutoBanKept
<1>1. ResponseInit => ResponseInv
  BY ResponseFirst, ResponseAssumption
<1>2. ResponseInv /\ [ResponseNext]_responseVars => ResponseInv'
  BY ResponseStep, ResponseAssumption
<1>3. ResponseInit => Promise!AutoBanInit
  BY DEF ResponseInit, Promise!AutoBanInit
<1>4. ResponseInv /\ [ResponseNext]_responseVars => [Promise!AutoBanNext]_<<counts, banned>>
  BY StepImplements
<1> QED
  BY <1>1, <1>2, <1>3, <1>4, PTL DEF ResponseSpec, AutoBanKept, Promise!AutoBanSpec

----------------------------------------------------------------------------
(* Queues: what is removed from one, and what is appended to it.           *)

\* A first occurrence is taken out and the rest moves up.
LEMMA RemovedFirst ==
    ASSUME NEW S, NEW s \in Seq(S), NEW e, e \in Range(s)
    PROVE  /\ RemoveFirst(s, e) \in Seq(S)
           /\ Len(RemoveFirst(s, e)) = Len(s) - 1
           /\ \E k \in 1..Len(s) :
                 /\ s[k] = e
                 /\ \A i \in 1..(Len(s) - 1) :
                       RemoveFirst(s, e)[i] = IF i < k THEN s[i] ELSE s[i + 1]
<1> DEFINE I == {i \in 1..Len(s) : s[i] = e}
<1>1. I # {} /\ \E i \in 1..Len(s) : s[i] = e
  BY DEF Range
<1>2. Min(I) \in I
  <2>1. I \subseteq Nat
    OBVIOUS
  <2> HIDE DEF I
  <2> QED
    BY <1>1, <2>1, Least
<1>3. PICK k \in 1..Len(s) : k = Min(I) /\ s[k] = e
  BY <1>2
<1>4. SelectInSeq(s, LAMBDA v : v = e) = k
  BY <1>1, <1>3 DEF SelectInSeq
<1>5. RemoveFirst(s, e) = SubSeq(s, 1, k - 1) \o SubSeq(s, k + 1, Len(s))
  BY <1>1, <1>4 DEF RemoveFirst, RemoveAt
<1> DEFINE a == SubSeq(s, 1, k - 1)
           b == SubSeq(s, k + 1, Len(s))
<1>6. /\ a \in Seq(S) /\ Len(a) = k - 1 /\ \A i \in 1..(k - 1) : a[i] = s[i]
      /\ b \in Seq(S) /\ Len(b) = Len(s) - k
      /\ \A i \in 1..(Len(s) - k) : b[i] = s[i + k]
  BY SMTT(30)
<1> HIDE DEF a, b
<1>7. /\ a \o b \in Seq(S) /\ Len(a \o b) = Len(s) - 1
      /\ \A i \in 1..(Len(s) - 1) : (a \o b)[i] = IF i < k THEN s[i] ELSE s[i + 1]
  <2>1. a \o b \in Seq(S) /\ Len(a \o b) = Len(a) + Len(b)
    BY <1>6, ConcatProperties
  <2>2. ASSUME NEW i \in 1..(Len(s) - 1)
        PROVE  (a \o b)[i] = IF i < k THEN s[i] ELSE s[i + 1]
    <3>1. CASE i < k
      BY <1>6, <3>1
    <3>2. CASE ~(i < k)
      <4>1. i - (k - 1) \in 1..(Len(s) - k) /\ ~(i <= Len(a)) /\ i \in 1..(Len(a) + Len(b))
        BY <1>6, <3>2
      <4>2. (a \o b)[i] = b[i - (k - 1)]
        BY <1>6, <4>1
      <4>3. b[i - (k - 1)] = s[i - (k - 1) + k] /\ i - (k - 1) + k = i + 1
        BY <1>6, <4>1
      <4> QED
        BY <3>2, <4>2, <4>3
    <3> QED
      BY <3>1, <3>2
  <2> QED
    BY <1>6, <2>1, <2>2
<1> QED
  BY <1>3, <1>5, <1>7 DEF a, b

\* All but what is removed stays in the queue.
LEMMA RemovedAlone ==
    ASSUME NEW S, NEW s \in Seq(S), NEW e
    PROVE  /\ RemoveFirst(s, e) \in Seq(S)
           /\ Range(s) \ {e} \subseteq Range(RemoveFirst(s, e))
           /\ Len(RemoveFirst(s, e)) <= Len(s)
<1>1. CASE e \notin Range(s)
  <2>1. RemoveFirst(s, e) = s
    BY <1>1 DEF RemoveFirst, Range
  <2> QED
    BY <2>1
<1>2. CASE e \in Range(s)
  <2> DEFINE r == RemoveFirst(s, e)
  <2>1. /\ r \in Seq(S) /\ Len(r) = Len(s) - 1
        /\ \E k \in 1..Len(s) :
              s[k] = e /\ \A i \in 1..(Len(s) - 1) : r[i] = IF i < k THEN s[i] ELSE s[i + 1]
    BY <1>2, RemovedFirst
  <2> HIDE DEF r
  <2>2. PICK k \in 1..Len(s) :
          s[k] = e /\ \A i \in 1..(Len(s) - 1) : r[i] = IF i < k THEN s[i] ELSE s[i + 1]
    BY <2>1
  <2>3. ASSUME NEW x \in Range(s) \ {e}
        PROVE  x \in Range(r)
    <3>1. PICK j \in 1..Len(s) : s[j] = x
      BY DEF Range
    <3>2. CASE j < k
      <4>1. j \in 1..Len(r) /\ r[j] = x
        BY <2>1, <2>2, <3>1, <3>2
      <4> QED
        BY <2>1, <4>1 DEF Range
    <3>3. CASE k < j
      <4>1. j - 1 \in 1..Len(r) /\ ~(j - 1 < k) /\ j - 1 + 1 = j
        BY <2>1, <3>1, <3>3
      <4>2. r[j - 1] = x
        BY <2>1, <2>2, <3>1, <4>1
      <4> QED
        BY <2>1, <4>1, <4>2 DEF Range
    <3>4. j # k
      BY <2>2, <2>3, <3>1
    <3> QED
      BY <3>1, <3>2, <3>3, <3>4
  <2>4. Range(s) \ {e} \subseteq Range(r)
    BY <2>3
  <2> QED
    BY <2>1, <2>4 DEF r
<1> QED
  BY <1>1, <1>2

\* From a queue without duplicates nothing else goes, and none appear.
LEMMA RemovedOnce ==
    ASSUME NEW S, NEW s \in Seq(S), IsInjective(s), NEW e \in Range(s)
    PROVE  /\ Range(RemoveFirst(s, e)) = Range(s) \ {e}
           /\ IsInjective(RemoveFirst(s, e))
<1> DEFINE r == RemoveFirst(s, e)
<1>1. /\ r \in Seq(S) /\ Len(r) = Len(s) - 1
      /\ \E k \in 1..Len(s) :
            s[k] = e /\ \A i \in 1..(Len(s) - 1) : r[i] = IF i < k THEN s[i] ELSE s[i + 1]
  BY RemovedFirst
<1>2. Range(s) \ {e} \subseteq Range(r)
  BY RemovedAlone
<1> HIDE DEF r
<1>3. PICK k \in 1..Len(s) :
        s[k] = e /\ \A i \in 1..(Len(s) - 1) : r[i] = IF i < k THEN s[i] ELSE s[i + 1]
  BY <1>1
<1> DEFINE at(i) == IF i < k THEN i ELSE i + 1
<1>4. \A i \in 1..Len(r) : at(i) \in 1..Len(s) /\ at(i) # k /\ r[i] = s[at(i)]
  BY <1>1, <1>3
<1>5. \A i, j \in 1..Len(s) : s[i] = s[j] => i = j
  BY DEF IsInjective
<1>6. Range(r) \subseteq Range(s) \ {e}
  <2> SUFFICES ASSUME NEW i \in 1..Len(r)
               PROVE  r[i] \in Range(s) \ {e}
    BY <1>1 DEF Range
  <2>1. at(i) \in 1..Len(s) /\ at(i) # k /\ r[i] = s[at(i)]
    BY <1>4
  <2> HIDE DEF at
  <2>2. s[at(i)] # s[k]
    BY <1>5, <2>1
  <2> QED
    BY <1>3, <2>1, <2>2 DEF Range
<1>7. IsInjective(r)
  <2> SUFFICES ASSUME NEW i \in 1..Len(r), NEW j \in 1..Len(r), r[i] = r[j]
               PROVE  i = j
    BY <1>1 DEF IsInjective
  <2>1. s[at(i)] = s[at(j)] /\ at(i) \in 1..Len(s) /\ at(j) \in 1..Len(s)
    BY <1>4
  <2>2. at(i) = at(j)
    <3> HIDE DEF at
    <3> QED
      BY <1>5, <2>1
  <2> QED
    BY <2>2
<1> QED
  BY <1>2, <1>6, <1>7 DEF r

\* The same of the head.
LEMMA HeadGone ==
    ASSUME NEW S, NEW s \in Seq(S), s # <<>>, IsInjective(s)
    PROVE  /\ Head(s) \in Range(s) /\ Tail(s) \in Seq(S) /\ Len(Tail(s)) = Len(s) - 1
           /\ Range(Tail(s)) = Range(s) \ {Head(s)} /\ IsInjective(Tail(s))
<1>1. /\ Len(s) \in Nat /\ Len(s) >= 1 /\ Tail(s) \in Seq(S) /\ Len(Tail(s)) = Len(s) - 1
      /\ Head(s) = s[1] /\ \A i \in 1..(Len(s) - 1) : Tail(s)[i] = s[i + 1]
  OBVIOUS
<1>2. \A i, j \in 1..Len(s) : s[i] = s[j] => i = j
  BY DEF IsInjective
<1>3. IsInjective(Tail(s))
  <2> SUFFICES ASSUME NEW i \in 1..Len(Tail(s)), NEW j \in 1..Len(Tail(s)), Tail(s)[i] = Tail(s)[j]
               PROVE  i = j
    BY <1>1 DEF IsInjective
  <2>1. i + 1 \in 1..Len(s) /\ j + 1 \in 1..Len(s) /\ s[i + 1] = s[j + 1]
    BY <1>1
  <2>2. i + 1 = j + 1
    BY <1>2, <2>1
  <2> QED
    BY <1>1, <2>2
<1>4. Range(Tail(s)) \subseteq Range(s) \ {Head(s)}
  <2> SUFFICES ASSUME NEW i \in 1..(Len(s) - 1)
               PROVE  Tail(s)[i] \in Range(s) \ {Head(s)}
    BY <1>1 DEF Range
  <2>1. i + 1 \in 1..Len(s) /\ 1 \in 1..Len(s) /\ i + 1 # 1
    BY <1>1
  <2>2. s[i + 1] # s[1] /\ s[i + 1] \in Range(s)
    BY <1>2, <2>1 DEF Range
  <2> QED
    BY <1>1, <2>2
<1>5. Range(s) \ {Head(s)} \subseteq Range(Tail(s))
  <2> SUFFICES ASSUME NEW i \in 1..Len(s), s[i] # Head(s)
               PROVE  s[i] \in Range(Tail(s))
    BY DEF Range
  <2>1. i # 1 /\ i - 1 \in 1..(Len(s) - 1) /\ i - 1 + 1 = i
    BY <1>1
  <2>2. Tail(s)[i - 1] = s[i] /\ i - 1 \in 1..Len(Tail(s))
    BY <1>1, <2>1
  <2> DEFINE r == Tail(s)
  <2>3. r \in Seq(S) /\ i - 1 \in 1..Len(r) /\ r[i - 1] = s[i]
    BY <1>1, <2>2
  <2> HIDE DEF r
  <2>4. s[i] \in Range(r)
    BY <2>3 DEF Range
  <2> QED
    BY <2>4 DEF r
<1>6. Head(s) \in Range(s)
  BY <1>1 DEF Range
<1> QED
  BY <1>1, <1>3, <1>4, <1>5, <1>6

\* What is appended is listed, and once if it was not.
LEMMA Appended ==
    ASSUME NEW S, NEW s \in Seq(S), NEW e \in S
    PROVE  /\ Append(s, e) \in Seq(S) /\ Len(Append(s, e)) = Len(s) + 1
           /\ Range(Append(s, e)) = Range(s) \cup {e}
           /\ IsInjective(s) /\ e \notin Range(s) => IsInjective(Append(s, e))
<1>1. /\ Append(s, e) \in Seq(S) /\ Len(Append(s, e)) = Len(s) + 1
      /\ Append(s, e)[Len(s) + 1] = e /\ \A i \in 1..Len(s) : Append(s, e)[i] = s[i]
  OBVIOUS
<1>2. \A i \in 1..(Len(s) + 1) : i = Len(s) + 1 \/ i \in 1..Len(s)
  OBVIOUS
<1>3. Range(Append(s, e)) = Range(s) \cup {e}
  <2>1. \A i \in 1..Len(s) : i \in 1..(Len(s) + 1)
    OBVIOUS
  <2>2. Len(s) + 1 \in 1..(Len(s) + 1)
    OBVIOUS
  <2> QED
    BY <1>1, <1>2, <2>1, <2>2 DEF Range
<1>4. ASSUME IsInjective(s), e \notin Range(s)
      PROVE  IsInjective(Append(s, e))
  <2>1. \A i \in 1..Len(s) : s[i] # e
    BY <1>4 DEF Range
  <2>2. \A i, j \in 1..Len(s) : s[i] = s[j] => i = j
    BY <1>4 DEF IsInjective
  <2> QED
    BY <1>1, <1>2, <2>1, <2>2 DEF IsInjective
<1> QED
  BY <1>1, <1>3, <1>4

\* The larger of two numbers.
LEMMA Larger ==
    ASSUME NEW a \in Int, NEW b \in Int
    PROVE  Max({a, b}) = IF b >= a THEN b ELSE a
<1>1. \A x \in {a, b} : (\A y \in {a, b} : x >= y) <=> x = IF b >= a THEN b ELSE a
  OBVIOUS
<1>2. \E x \in {a, b} : \A y \in {a, b} : x >= y
  OBVIOUS
<1> QED
  BY <1>1, <1>2, Zenon DEF Max

\* The latest of a history are no more than the bound.
LEMMA AtMostBounds ==
    ASSUME NEW S, NEW s \in Seq(S), NEW n \in Nat
    PROVE  AtMost(s, n) \in Seq(S) /\ Len(AtMost(s, n)) <= n
<1>1. Max({1, Len(s) - n + 1}) = IF Len(s) - n + 1 >= 1 THEN Len(s) - n + 1 ELSE 1
  BY Larger
<1>2. CASE Len(s) - n + 1 >= 1
  <2>1. AtMost(s, n) = SubSeq(s, Len(s) - n + 1, Len(s))
    BY <1>1, <1>2 DEF AtMost
  <2> QED
    BY <1>2, <2>1
<1>3. CASE ~(Len(s) - n + 1 >= 1)
  <2>1. AtMost(s, n) = SubSeq(s, 1, Len(s))
    BY <1>1, <1>3 DEF AtMost
  <2> QED
    BY <1>3, <2>1
<1> QED
  BY <1>2, <1>3

\* The smaller of two numbers.
LEMMA Smaller ==
    ASSUME NEW a \in Int, NEW b \in Int
    PROVE  Min({a, b}) = IF b <= a THEN b ELSE a
<1>1. \A x \in {a, b} : (\A y \in {a, b} : x =< y) <=> x = IF b <= a THEN b ELSE a
  OBVIOUS
<1>2. \E x \in {a, b} : \A y \in {a, b} : x =< y
  OBVIOUS
<1> QED
  BY <1>1, <1>2, Zenon DEF Min

----------------------------------------------------------------------------
(* Recursive functions.  Induction over the numbers is stated with sets,    *)
(* as the least number outside of one.                                     *)

LEMMA SetInduction ==
    ASSUME NEW T, 0 \in T, \A n \in Nat : n \in T => n + 1 \in T
    PROVE  Nat \subseteq T
<1> DEFINE R == OpToRel(<, Nat)
           M == Nat \ T
<1>1. IsWellFoundedOn(R, Nat)
  BY NatLessThanWellFounded
<1>2. SUFFICES ASSUME M # {}
               PROVE  FALSE
  OBVIOUS
<1>3. PICK x \in M : \A y \in M : ~ (<<y, x>> \in R)
  <2> HIDE DEF R
  <2>1. M \subseteq Nat
    OBVIOUS
  <2> HIDE DEF M
  <2> QED
    BY <1>1, <1>2, <2>1, WFMin
<1>4. x \in Nat /\ x # 0 /\ x - 1 \in Nat /\ x - 1 < x /\ x - 1 + 1 = x
  OBVIOUS
<1>5. <<x - 1, x>> \in R
  BY <1>4 DEF OpToRel
<1>6. x - 1 \in T
  BY <1>3, <1>4, <1>5
<1>7. x \in T
  BY <1>4, <1>6
<1> QED
  BY <1>7

\* A recursive function starts at lo and steps from each number to the next.
Recursive(X, base, lo, m, step) ==
    /\ base \in X /\ lo \in Nat /\ m \in Nat /\ lo <= m
    /\ step \in [(lo + 1)..m -> [X -> X]]
Computes(f, X, base, lo, m, step) ==
    /\ f \in [lo..m -> X]
    /\ \A n \in lo..m : f[n] = IF n = lo THEN base ELSE step[n][f[n-1]]

LEMMA Recursion ==
    ASSUME NEW X, NEW base, NEW lo, NEW m, NEW step, Recursive(X, base, lo, m, step)
    PROVE  \E f : Computes(f, X, base, lo, m, step)
<1> USE DEF Recursive
<1> DEFINE Fits(f, k) == \A n \in lo..(lo + k) : f[n] = IF n = lo THEN base ELSE step[n][f[n-1]]
           T == {k \in Nat : lo + k <= m => \E f \in [lo..(lo + k) -> X] : Fits(f, k)}
<1>1. 0 \in T
  <2> DEFINE f == [n \in lo..(lo + 0) |-> base]
  <2>1. f \in [lo..(lo + 0) -> X] /\ Fits(f, 0)
    OBVIOUS
  <2> HIDE DEF Fits
  <2> QED
    BY <2>1
<1>2. ASSUME NEW k \in Nat, k \in T
      PROVE  k + 1 \in T
  <2>1. SUFFICES ASSUME lo + (k + 1) <= m
                 PROVE  \E f \in [lo..(lo + (k + 1)) -> X] : Fits(f, k + 1)
    OBVIOUS
  <2>2. PICK f \in [lo..(lo + k) -> X] : Fits(f, k)
    <3>1. lo + k <= m
      BY <2>1
    <3> HIDE DEF Fits
    <3> QED
      BY <1>2, <3>1
  <2> DEFINE last == lo + (k + 1)
             g == [n \in lo..last |-> IF n = last THEN step[last][f[last - 1]] ELSE f[n]]
  <2>3. last \in (lo + 1)..m /\ last - 1 \in lo..(lo + k) /\ step[last][f[last - 1]] \in X
    BY <2>1
  <2>4. \A n \in lo..last : n = last \/ (n # last /\ n \in lo..(lo + k))
    OBVIOUS
  <2>5. g \in [lo..last -> X]
    BY <2>3, <2>4
  <2>6. \A n \in lo..(lo + k) : n \in lo..last /\ n # last /\ g[n] = f[n]
    OBVIOUS
  <2>7. g[last] = step[last][g[last - 1]] /\ last # lo
    BY <2>3, <2>6
  <2>8. ASSUME NEW n \in lo..(lo + k)
        PROVE  g[n] = IF n = lo THEN base ELSE step[n][g[n-1]]
    <3>1. f[n] = IF n = lo THEN base ELSE step[n][f[n-1]]
      BY <2>2
    <3>2. n # lo => n - 1 \in lo..(lo + k)
      OBVIOUS
    <3> HIDE DEF g
    <3> QED
      BY <2>6, <3>1, <3>2
  <2>9. Fits(g, k + 1)
    <3> HIDE DEF g
    <3> QED
      BY <2>4, <2>7, <2>8
  <2> HIDE DEF Fits
  <2> QED
    BY <2>5, <2>9
<1>3. Nat \subseteq T
  <2> HIDE DEF T
  <2> QED
    BY <1>1, <1>2, SetInduction
<1>4. m - lo \in Nat /\ lo + (m - lo) = m
  OBVIOUS
<1>5. PICK f \in [lo..m -> X] : Fits(f, m - lo)
  <2>1. m - lo \in T
    BY <1>3, <1>4
  <2> HIDE DEF Fits
  <2> QED
    BY <1>4, <2>1
<1> QED
  BY <1>4, <1>5 DEF Computes

\* Joining sequences gives a sequence of their elements.
LEMMA Flattened ==
    ASSUME NEW S, NEW ss \in Seq(Seq(S))
    PROVE  FlattenSeq(ss) \in Seq(S)
<1>1. CASE Len(ss) = 0
  <2>1. FlattenSeq(ss) = ss /\ ss = <<>>
    BY <1>1 DEF FlattenSeq
  <2> QED
    BY <2>1
<1>2. CASE Len(ss) # 0
  <2>1. Len(ss) \in Nat /\ 1 <= Len(ss) /\ \A i \in 1..Len(ss) : ss[i] \in Seq(S)
    BY <1>2
  <2> DEFINE step == [i \in (1 + 1)..Len(ss) |-> [y \in Seq(S) |-> y \o ss[i]]]
             Body(f) == [i \in 1..Len(ss) |-> IF i = 1 THEN ss[i] ELSE f[i-1] \o ss[i]]
             g == CHOOSE f : f = Body(f)
  <2>2. step \in [(1 + 1)..Len(ss) -> [Seq(S) -> Seq(S)]]
    <3>1. \A i \in (1 + 1)..Len(ss), y \in Seq(S) : y \o ss[i] \in Seq(S)
      BY <2>1
    <3> QED
      BY <3>1
  <2>3. PICK f \in [1..Len(ss) -> Seq(S)] :
          \A n \in 1..Len(ss) : f[n] = IF n = 1 THEN ss[1] ELSE step[n][f[n-1]]
    <3>1. ss[1] \in Seq(S)
      BY <2>1
    <3>2. Recursive(Seq(S), ss[1], 1, Len(ss), step)
      <4> HIDE DEF step
      <4> QED
        BY <2>1, <2>2, <3>1 DEF Recursive
    <3>3. \E f : Computes(f, Seq(S), ss[1], 1, Len(ss), step)
      <4> HIDE DEF step
      <4> QED
        BY <3>2, Recursion
    <3> HIDE DEF step
    <3> QED
      BY <3>3 DEF Computes
  <2>4. f = Body(f)
    <3>1. ASSUME NEW i \in 1..Len(ss)
          PROVE  f[i] = IF i = 1 THEN ss[i] ELSE f[i-1] \o ss[i]
      <4>1. i # 1 => i - 1 \in 1..Len(ss) /\ i \in (1 + 1)..Len(ss)
        BY <2>1
      <4>2. i # 1 => f[i-1] \in Seq(S)
        BY <4>1
      <4>3. i # 1 => step[i][f[i-1]] = f[i-1] \o ss[i]
        BY <4>1, <4>2
      <4>4. f[i] = IF i = 1 THEN ss[1] ELSE step[i][f[i-1]]
        <5> HIDE DEF step
        <5> QED
          BY <2>3
      <4> HIDE DEF step
      <4> QED
        BY <4>3, <4>4
    <3> HIDE DEF step
    <3> QED
      BY <3>1
  <2>5. g = Body(g)
    <3> HIDE DEF Body
    <3> QED
      BY <2>4
  <2>6. FlattenSeq(ss) = g[Len(ss)]
    BY <1>2 DEF FlattenSeq
  <2> HIDE DEF g
  <2> DEFINE T == {k \in Nat : k + 1 <= Len(ss) => g[k + 1] \in Seq(S)}
  <2>7. \A i \in 1..Len(ss) : g[i] = IF i = 1 THEN ss[i] ELSE g[i-1] \o ss[i]
    BY <2>5
  <2>8. 0 \in T
    BY <2>1, <2>7
  <2>9. ASSUME NEW k \in Nat, k \in T
        PROVE  k + 1 \in T
    <3>1. SUFFICES ASSUME (k + 1) + 1 <= Len(ss)
                   PROVE  g[(k + 1) + 1] \in Seq(S)
      OBVIOUS
    <3>2. (k + 1) + 1 \in 1..Len(ss) /\ (k + 1) + 1 # 1 /\ ((k + 1) + 1) - 1 = k + 1
      BY <2>1, <3>1
    <3>3. g[k + 1] \in Seq(S)
      BY <2>1, <2>9, <3>1
    <3>4. g[(k + 1) + 1] = g[k + 1] \o ss[(k + 1) + 1]
      BY <2>7, <3>2
    <3> QED
      BY <2>1, <3>2, <3>3, <3>4
  <2>10. Nat \subseteq T
    <3> HIDE DEF T
    <3> QED
      BY <2>8, <2>9, SetInduction
  <2>11. Len(ss) - 1 \in Nat /\ (Len(ss) - 1) + 1 = Len(ss) /\ Len(ss) <= Len(ss)
    BY <2>1
  <2>12. g[Len(ss)] \in Seq(S)
    BY <2>10, <2>11
  <2> QED
    BY <2>6, <2>12
<1> QED
  BY <1>1, <1>2

\* What is kept of a sequence is what it shares with K, once if it was once.
LEMMA Kept ==
    ASSUME NEW S, NEW s \in Seq(S), NEW K
    PROVE  /\ Keeping(s, K) \in Seq(S)
           /\ Range(Keeping(s, K)) = Range(s) \cap K
           /\ IsInjective(s) => IsInjective(Keeping(s, K))
<1> DEFINE step == [n \in (0 + 1)..Len(s) |->
                      [y \in Seq(S) |-> IF s[n] \in K THEN Append(y, s[n]) ELSE y]]
           Body(f) == [n \in 0..Len(s) |->
                         IF n = 0 THEN <<>>
                         ELSE IF s[n] \in K THEN Append(f[n-1], s[n]) ELSE f[n-1]]
           g == CHOOSE f : f = Body(f)
<1>1. Len(s) \in Nat /\ 0 <= Len(s) /\ \A i \in 1..Len(s) : s[i] \in S
  OBVIOUS
<1>2. step \in [(0 + 1)..Len(s) -> [Seq(S) -> Seq(S)]]
  <2>1. \A n \in (0 + 1)..Len(s), y \in Seq(S) :
          (IF s[n] \in K THEN Append(y, s[n]) ELSE y) \in Seq(S)
    BY <1>1
  <2> QED
    BY <2>1
<1>3. PICK f \in [0..Len(s) -> Seq(S)] :
        \A n \in 0..Len(s) : f[n] = IF n = 0 THEN <<>> ELSE step[n][f[n-1]]
  <2>1. <<>> \in Seq(S)
    OBVIOUS
  <2> HIDE DEF step
  <2>2. Recursive(Seq(S), <<>>, 0, Len(s), step)
    BY <1>1, <1>2, <2>1 DEF Recursive
  <2>3. \E f : Computes(f, Seq(S), <<>>, 0, Len(s), step)
    BY <2>2, Recursion
  <2> QED
    BY <2>3 DEF Computes
<1>4. f = Body(f)
  <2>1. ASSUME NEW n \in 0..Len(s)
        PROVE  f[n] = IF n = 0 THEN <<>>
                      ELSE IF s[n] \in K THEN Append(f[n-1], s[n]) ELSE f[n-1]
    <3>1. n # 0 => n - 1 \in 0..Len(s) /\ n \in (0 + 1)..Len(s)
      BY <1>1
    <3>2. n # 0 => f[n-1] \in Seq(S)
      BY <3>1
    <3>3. n # 0 => step[n][f[n-1]] = IF s[n] \in K THEN Append(f[n-1], s[n]) ELSE f[n-1]
      BY <3>1, <3>2
    <3>4. f[n] = IF n = 0 THEN <<>> ELSE step[n][f[n-1]]
      <4> HIDE DEF step
      <4> QED
        BY <1>3
    <3> HIDE DEF step
    <3> QED
      BY <3>3, <3>4
  <2> HIDE DEF step
  <2> QED
    BY <2>1
<1>5. g = Body(g)
  <2> HIDE DEF Body
  <2> QED
    BY <1>4
<1>6. Keeping(s, K) = g[Len(s)]
  BY DEF Keeping
<1>7. \A n \in 0..Len(s) : g[n] = IF n = 0 THEN <<>>
                      ELSE IF s[n] \in K THEN Append(g[n-1], s[n]) ELSE g[n-1]
  <2> HIDE DEF g
  <2> QED
    BY <1>5
<1> HIDE DEF g, step, Body
<1> DEFINE Upto(n) == {s[i] : i \in 1..n}
           Right(n) == /\ g[n] \in Seq(S) /\ Range(g[n]) = Upto(n) \cap K
                       /\ IsInjective(s) => IsInjective(g[n])
           T == {n \in Nat : n <= Len(s) => Right(n)}
<1>8. 0 \in T
  <2>1. g[0] = <<>> /\ Upto(0) = {}
    BY <1>1, <1>7
  <2>2. Range(<<>>) = {} /\ IsInjective(<<>>) /\ <<>> \in Seq(S)
    BY DEF Range, IsInjective
  <2>3. Right(0)
    <3> HIDE DEF Upto
    <3> QED
      BY <2>1, <2>2
  <2> HIDE DEF Right
  <2> QED
    BY <2>3
<1>9. ASSUME NEW n \in Nat, n \in T
      PROVE  n + 1 \in T
  <2>1. SUFFICES ASSUME n + 1 <= Len(s)
                 PROVE  Right(n + 1)
    <3> HIDE DEF Right
    <3> QED
      OBVIOUS
  <2>2. Right(n)
    <3>1. n <= Len(s)
      BY <1>1, <2>1
    <3> HIDE DEF Right
    <3> QED
      BY <1>9, <3>1
  <2>3. n + 1 \in 0..Len(s) /\ n + 1 # 0 /\ (n + 1) - 1 = n /\ n + 1 \in 1..Len(s)
    BY <1>1, <2>1
  <2>4. g[n + 1] = IF s[n + 1] \in K THEN Append(g[n], s[n + 1]) ELSE g[n]
    BY <1>7, <2>3
  <2>5. Upto(n + 1) = Upto(n) \cup {s[n + 1]}
    <3>1. \A i \in 1..(n + 1) : i = n + 1 \/ i \in 1..n
      OBVIOUS
    <3>2. n + 1 \in 1..(n + 1) /\ \A i \in 1..n : i \in 1..(n + 1)
      OBVIOUS
    <3> QED
      BY <3>1, <3>2
  <2>6. CASE s[n + 1] \notin K
    <3>1. g[n + 1] = g[n]
      BY <2>4, <2>6
    <3> HIDE DEF Upto
    <3> QED
      BY <2>2, <2>5, <2>6, <3>1
  <2>7. CASE s[n + 1] \in K
    <3>1. g[n + 1] = Append(g[n], s[n + 1]) /\ s[n + 1] \in S /\ g[n] \in Seq(S)
      BY <1>1, <2>2, <2>3, <2>4, <2>7
    <3>2. /\ g[n + 1] \in Seq(S) /\ Range(g[n + 1]) = Range(g[n]) \cup {s[n + 1]}
          /\ IsInjective(g[n]) /\ s[n + 1] \notin Range(g[n]) => IsInjective(g[n + 1])
      BY <3>1, Appended
    <3>3. IsInjective(s) => s[n + 1] \notin Upto(n)
      BY <1>1, <2>3 DEF IsInjective
    <3> HIDE DEF Upto
    <3> QED
      BY <2>2, <2>5, <2>7, <3>2, <3>3
  <2> QED
    BY <2>6, <2>7
<1>10. Len(s) \in T
  <2>1. Nat \subseteq T
    <3> HIDE DEF T
    <3> QED
      BY <1>8, <1>9, SetInduction
  <2> QED
    BY <1>1, <2>1
<1>11. Right(Len(s)) /\ Upto(Len(s)) = Range(s)
  <2>1. Right(Len(s))
    <3> HIDE DEF Right
    <3> QED
      BY <1>1, <1>10
  <2>2. Upto(Len(s)) = Range(s)
    BY DEF Range
  <2> QED
    BY <2>1, <2>2
<1> QED
  BY <1>6, <1>11

----------------------------------------------------------------------------
(* PatternMonitor: the inductive invariant.                                *)

Metric  == [time: Nat, matched: BOOLEAN, timeout: BOOLEAN]
StatsOf == [life: Nat, executions: Nat, matches: Nat, timeouts: Nat, times: Seq(Int),
            max: Int, min: Int, emitted: Nat \cup {Never}]
Found   == [step: {"found", "reserve"}, pattern: Patterns, id: Nat, at: Nat \cup {Never}]
Event   == [pattern: Patterns, id: Nat, at: Nat, life: Nat \cup {Never}]

MonitorTyped ==
    /\ now \in 0..MaxClock /\ records \in 0..MaxRecords
    /\ DOMAIN stats \subseteq Patterns /\ order \in Seq(Patterns)
    /\ recent \in Seq(Metric) /\ Len(recent) <= HistorySize
    /\ DOMAIN call = Recorders /\ \A c \in Recorders : call[c] = Idle \/ call[c] \in Found
    /\ events \subseteq Event
    /\ \A c \in Recorders : call[c].step = "reserve" => call[c].at \in 0..now

\* Each life of a pattern has a number of its own.
StatsFit == \A p \in DOMAIN stats :
    /\ stats[p] \in StatsOf /\ Len(stats[p].times) <= Window
    /\ stats[p].life < records /\ stats[p].emitted <= now

QueueFits ==
    /\ IsFiniteSet(DOMAIN stats) /\ Cardinality(DOMAIN stats) = Len(order)
    /\ Len(order) <= MaxTracked
    /\ IsInjective(order) /\ Range(order) = DOMAIN stats

\* The stamp of a tracked pattern is at least as late as its emissions.
Stamped(e) ==
    e.life # Never /\ e.pattern \in DOMAIN stats /\ stats[e.pattern].life = e.life
      => stats[e.pattern].emitted # Never /\ e.at <= stats[e.pattern].emitted
EventsFit == \A e \in events : e.at <= now /\ e.life < records /\ Stamped(e)

MonitorInv == MonitorTyped /\ StatsFit /\ QueueFits /\ EventsFit /\ OneEventPerCooldown

----------------------------------------------------------------------------
(* One more execution of a pattern.                                        *)

\* Statistics stay statistics of the same life, with no more times than kept.
LEMMA Advances ==
    ASSUME MonitorConstants, NEW st \in StatsOf, Len(st.times) <= Window, NEW m \in Metric
    PROVE  /\ Advance(st, m) \in StatsOf /\ Len(Advance(st, m).times) <= Window
           /\ Advance(st, m).life = st.life /\ Advance(st, m).emitted = st.emitted
<1> DEFINE counted == [st EXCEPT !.executions = st.executions + 1,
                                 !.matches = IF m.matched THEN st.matches + 1 ELSE st.matches]
<1>1. /\ counted \in StatsOf /\ counted.times = st.times
      /\ counted.life = st.life /\ counted.emitted = st.emitted
  <2> DEFINE more == IF m.matched THEN st.matches + 1 ELSE st.matches
  <2>1. st.executions + 1 \in Nat /\ more \in Nat
    BY DEF StatsOf, Metric
  <2>2. counted = [st EXCEPT !.executions = st.executions + 1, !.matches = more]
    OBVIOUS
  <2> HIDE DEF more, counted
  <2> QED
    BY <2>1, <2>2 DEF StatsOf
<1> HIDE DEF counted
<1>2. CASE ~Timed(m)
  <2> DEFINE timeouts == counted.timeouts + 1
  <2>1. Advance(st, m) = [counted EXCEPT !.timeouts = timeouts]
    BY <1>2 DEF Advance, counted
  <2>2. timeouts \in Nat
    BY <1>1 DEF StatsOf
  <2> HIDE DEF timeouts
  <2>3. [counted EXCEPT !.timeouts = timeouts] \in StatsOf
    BY <1>1, <2>2 DEF StatsOf
  <2>4. /\ [counted EXCEPT !.timeouts = timeouts].times = counted.times
        /\ [counted EXCEPT !.timeouts = timeouts].life = counted.life
        /\ [counted EXCEPT !.timeouts = timeouts].emitted = counted.emitted
    BY <1>1 DEF StatsOf
  <2> QED
    BY <1>1, <2>1, <2>3, <2>4
<1>3. CASE Timed(m)
  <2> DEFINE times == AtMost(Append(counted.times, m.time), Window)
             max   == Max({counted.max, m.time})
             min   == IF counted.min = Never THEN m.time ELSE Min({counted.min, m.time})
  <2>1. Advance(st, m) = [counted EXCEPT !.times = times, !.max = max, !.min = min]
    BY <1>3 DEF Advance, counted
  <2>2. times \in Seq(Int) /\ Len(times) <= Window
    <3>1. Append(counted.times, m.time) \in Seq(Int) /\ Window \in Nat
      BY <1>1 DEF StatsOf, Metric, MonitorConstants
    <3> QED
      BY <3>1, AtMostBounds
  <2>3. max \in Int /\ min \in Int
    <3>1. counted.max \in Int /\ counted.min \in Int /\ m.time \in Int
      BY <1>1 DEF StatsOf, Metric
    <3> QED
      BY <3>1, Larger, Smaller
  <2> HIDE DEF times, max, min
  <2> QED
    BY <1>1, <2>1, <2>2, <2>3 DEF StatsOf
<1> QED
  BY <1>2, <1>3

\* A negative time counts as none.
LEMMA Reported ==
    ASSUME MonitorConstants, NEW o \in Observations
    PROVE  [o EXCEPT !.time = Max({@, 0})] \in Metric
<1>1. o \in [time: Int, matched: BOOLEAN, timeout: BOOLEAN]
  BY DEF MonitorConstants
<1>2. Max({o.time, 0}) \in Nat
  <2>1. o.time \in Int /\ 0 \in Int
    BY <1>1
  <2> QED
    BY <2>1, Larger
<1> QED
  BY <1>1, <1>2 DEF Metric

\* Recording keeps the queue and the table together: what makes room leaves
\* both, and a pattern that is not tracked yet enters both with a life that no
\* event has had.
LEMMA RecordMonitored ==
    ASSUME MonitorConstants, MonitorInv,
           NEW c \in Recorders, NEW p \in Patterns, NEW o \in Observations, Record(c, p, o)
    PROVE  MonitorInv'
<1> DEFINE m       == [o EXCEPT !.time = Max({@, 0})]
           known   == p \in DOMAIN stats
           full    == ~known /\ Cardinality(DOMAIN stats) >= MaxTracked
           kept    == DOMAIN stats \ (IF full THEN {Head(order)} ELSE {})
           before  == IF known THEN stats[p] ELSE NewStats
           updated == Advance(before, m)
           found   == Anomalies(m, updated.times)
           left    == IF full THEN Tail(order) ELSE order
<1>1. /\ records < MaxRecords /\ records' = records + 1
      /\ recent' = AtMost(Append(recent, m), HistorySize)
      /\ stats' = [q \in kept \cup {p} |-> IF q = p THEN updated ELSE stats[q]]
      /\ order' = IF known THEN left ELSE Append(left, p)
      /\ call' = [call EXCEPT ![c] =
                    IF found = {} THEN Idle
                    ELSE [step |-> "found", pattern |-> p, id |-> records, at |-> Never]]
      /\ now' = now /\ events' = events
  BY Zenon DEF Record
<1>2. m \in Metric
  BY Reported
<1> HIDE DEF m
<1>3. before \in StatsOf /\ Len(before.times) <= Window /\ before.life <= records
      /\ before.emitted <= now /\ (~known => before.life = records)
  <2>1. CASE known
    BY <2>1 DEF MonitorInv, StatsFit, MonitorTyped, StatsOf, MonitorConstants
  <2>2. CASE ~known
    <3>1. before = NewStats
      BY <2>2
    <3>2. <<>> \in Seq(Int) /\ Len(<<>>) = 0 /\ records \in Nat /\ now \in Nat /\ Window \in Nat
      BY DEF MonitorInv, MonitorTyped, MonitorConstants
    <3> HIDE DEF before
    <3> QED
      BY <2>2, <3>1, <3>2 DEF NewStats, StatsOf, Never
  <2> QED
    BY <2>1, <2>2
<1> HIDE DEF before
<1>4. /\ updated \in StatsOf /\ Len(updated.times) <= Window
      /\ updated.life = before.life /\ updated.emitted = before.emitted
  BY <1>2, <1>3, Advances
<1> HIDE DEF updated
<1> HIDE DEF found
<1>6. /\ left \in Seq(Patterns) /\ IsInjective(left) /\ Range(left) = kept
      /\ IsFiniteSet(kept) /\ Cardinality(kept) = Len(left)
      /\ (known => kept = DOMAIN stats) /\ (~known => Len(left) < MaxTracked)
      /\ Len(left) <= MaxTracked
  <2>1. CASE ~full
    <3>1. left = order /\ kept = DOMAIN stats
      BY <2>1
    <3> HIDE DEF left, kept
    <3> QED
      BY <2>1, <3>1 DEF MonitorInv, MonitorTyped, QueueFits, MonitorConstants
  <2>2. CASE full
    <3>1. left = Tail(order) /\ kept = DOMAIN stats \ {Head(order)} /\ ~known
      BY <2>2
    <3>2. order \in Seq(Patterns) /\ IsInjective(order) /\ order # <<>>
      BY <2>2 DEF MonitorInv, MonitorTyped, QueueFits, MonitorConstants
    <3>3. /\ Head(order) \in Range(order) /\ Tail(order) \in Seq(Patterns)
          /\ Len(Tail(order)) = Len(order) - 1
          /\ Range(Tail(order)) = Range(order) \ {Head(order)} /\ IsInjective(Tail(order))
      BY <3>2, HeadGone
    <3>4. /\ IsFiniteSet(DOMAIN stats \ {Head(order)})
          /\ Cardinality(DOMAIN stats \ {Head(order)}) = Cardinality(DOMAIN stats) - 1
      BY <3>3, FS_RemoveElement DEF MonitorInv, QueueFits
    <3> HIDE DEF left, kept
    <3> QED
      BY <3>1, <3>2, <3>3, <3>4 DEF MonitorInv, QueueFits, MonitorConstants
  <2> QED
    BY <2>1, <2>2
<1>7. kept \subseteq DOMAIN stats
  OBVIOUS
<1> HIDE DEF left, kept, full
<1>8. DOMAIN stats' = kept \cup {p}
  BY <1>1
<1>9. /\ IsFiniteSet(kept \cup {p}) /\ order' \in Seq(Patterns) /\ IsInjective(order')
      /\ Range(order') = kept \cup {p} /\ Cardinality(kept \cup {p}) = Len(order')
      /\ Len(order') <= MaxTracked
  <2>1. CASE known
    <3>1. order' = left /\ kept \cup {p} = kept
      BY <1>1, <1>6, <2>1
    <3> QED
      BY <1>6, <3>1
  <2>2. CASE ~known
    <3>1. order' = Append(left, p) /\ p \notin kept
      BY <1>1, <1>7, <2>2
    <3>2. /\ Append(left, p) \in Seq(Patterns) /\ Len(Append(left, p)) = Len(left) + 1
          /\ Range(Append(left, p)) = kept \cup {p} /\ IsInjective(Append(left, p))
      BY <1>6, <3>1, Appended
    <3>3. IsFiniteSet(kept \cup {p}) /\ Cardinality(kept \cup {p}) = Cardinality(kept) + 1
      BY <1>6, <3>1, FS_AddElement
    <3>4. Len(left) + 1 <= MaxTracked
      BY <1>6, <2>2 DEF MonitorConstants
    <3> QED
      BY <1>6, <3>1, <3>2, <3>3, <3>4
  <2> QED
    BY <2>1, <2>2
<1>10. QueueFits'
  BY <1>8, <1>9 DEF QueueFits
<1>11. MonitorTyped'
  <2>1. recent' \in Seq(Metric) /\ Len(recent') <= HistorySize
    <3>1. Append(recent, m) \in Seq(Metric) /\ HistorySize \in Nat
      BY <1>2 DEF MonitorInv, MonitorTyped, MonitorConstants
    <3> QED
      BY <1>1, <3>1, AtMostBounds
  <2>2. /\ DOMAIN call' = Recorders /\ \A d \in Recorders : call'[d] = Idle \/ call'[d] \in Found
        /\ \A d \in Recorders : call'[d].step = "reserve" => call'[d].at \in 0..now'
    BY <1>1 DEF MonitorInv, MonitorTyped, Found, Idle
  <2>3. records' \in 0..MaxRecords /\ now' \in 0..MaxClock
    BY <1>1 DEF MonitorInv, MonitorTyped, MonitorConstants
  <2>4. DOMAIN stats' \subseteq Patterns /\ order' \in Seq(Patterns) /\ events' \subseteq Event
    BY <1>1, <1>7, <1>8, <1>9 DEF MonitorInv, MonitorTyped
  <2> QED
    BY <2>1, <2>2, <2>3, <2>4 DEF MonitorTyped
<1>12. \A q \in DOMAIN stats' :
         \/ q = p /\ stats'[q] = updated
         \/ q # p /\ q \in DOMAIN stats /\ stats'[q] = stats[q]
  <2>1. stats' = [q \in kept \cup {p} |-> IF q = p THEN updated ELSE stats[q]]
    BY <1>1
  <2>2. \A q \in kept \cup {p} : stats'[q] = IF q = p THEN updated ELSE stats[q]
    BY <2>1
  <2> QED
    BY <1>7, <1>8, <2>2
<1>13. StatsFit'
  <2> SUFFICES ASSUME NEW q \in DOMAIN stats'
               PROVE  /\ stats'[q] \in StatsOf /\ Len(stats'[q].times) <= Window
                      /\ stats'[q].life < records' /\ stats'[q].emitted <= now'
    BY DEF StatsFit
  <2>1. records' = records + 1 /\ records \in Nat /\ now' = now
    BY <1>1 DEF MonitorInv, MonitorTyped
  <2>2. CASE q = p
    <3>1. stats'[q] = updated
      BY <1>12, <2>2
    <3>2. updated.life \in Nat
      BY <1>4 DEF StatsOf
    <3> QED
      BY <1>3, <1>4, <2>1, <3>1, <3>2
  <2>3. CASE q # p
    <3>1. stats'[q] = stats[q] /\ q \in DOMAIN stats
      BY <1>12, <2>3
    <3>2. stats[q] \in StatsOf /\ Len(stats[q].times) <= Window /\ stats[q].life < records
          /\ stats[q].emitted <= now
      BY <3>1 DEF MonitorInv, StatsFit
    <3>3. stats[q].life \in Nat
      BY <3>2 DEF StatsOf
    <3> QED
      BY <2>1, <3>1, <3>2, <3>3
  <2> QED
    BY <2>2, <2>3
<1>14. EventsFit'
  <2> SUFFICES ASSUME NEW e \in events
               PROVE  e.at <= now' /\ e.life < records' /\ Stamped(e)'
    BY <1>1 DEF EventsFit
  <2>1. e.at <= now /\ e.life < records /\ Stamped(e) /\ e.life \in Int /\ records \in Nat
    BY DEF MonitorInv, MonitorTyped, EventsFit, Event, Never
  <2>2. Stamped(e)'
    <3> SUFFICES ASSUME e.life # Never, e.pattern \in DOMAIN stats', stats'[e.pattern].life = e.life
                 PROVE  stats'[e.pattern].emitted # Never /\ e.at <= stats'[e.pattern].emitted
      BY DEF Stamped
    <3>1. CASE e.pattern # p
      BY <1>12, <2>1, <3>1 DEF Stamped
    <3>2. CASE e.pattern = p /\ known
      <4>1. stats'[p] = updated /\ before = stats[p]
        BY <1>12, <3>2 DEF before
      <4> QED
        BY <1>4, <2>1, <3>2, <4>1 DEF Stamped
    <3>3. CASE e.pattern = p /\ ~known
      <4>1. stats'[p] = updated /\ updated.life = records
        BY <1>3, <1>4, <1>12, <3>3
      <4> QED
        BY <2>1, <3>3, <4>1
    <3> QED
      BY <3>1, <3>2, <3>3
  <2> QED
    BY <1>1, <2>1, <2>2
<1>15. OneEventPerCooldown'
  BY <1>1 DEF MonitorInv, OneEventPerCooldown
<1> QED
  BY <1>10, <1>11, <1>13, <1>14, <1>15 DEF MonitorInv

----------------------------------------------------------------------------
(* The other steps of the monitor.                                         *)

LEMMA ReadClockMonitored ==
    ASSUME MonitorConstants, MonitorInv, NEW c \in Recorders, ReadClock(c)
    PROVE  MonitorInv'
<1> DEFINE read == [call[c] EXCEPT !.step = "reserve", !.at = now]
<1>1. /\ call[c].step = "found" /\ call' = [call EXCEPT ![c] = read]
      /\ UNCHANGED <<now, stats, order, recent, records, events>>
  BY DEF ReadClock
<1>2. call[c] \in Found /\ now \in Nat
  BY <1>1 DEF MonitorInv, MonitorTyped, Idle
<1>3. read \in Found /\ read.at = now
  BY <1>2 DEF Found
<1> HIDE DEF read
<1>4. MonitorTyped'
  BY <1>1, <1>2, <1>3 DEF MonitorInv, MonitorTyped
<1> QED
  BY <1>1, <1>4 DEF MonitorInv, StatsFit, QueueFits, EventsFit, Stamped, OneEventPerCooldown

\* An emission of a tracked pattern is stamped, and comes no earlier than the
\* cooldown after the last stamp, so after every earlier emission.
LEMMA ReserveMonitored ==
    ASSUME MonitorConstants, MonitorInv, NEW c \in Recorders, Reserve(c)
    PROVE  MonitorInv'
<1> DEFINE p     == call[c].pattern
           at    == call[c].at
           Stamp == p \in DOMAIN stats
           new   == [pattern |-> p, id |-> call[c].id, at |-> at,
                     life |-> IF Stamp THEN stats[p].life ELSE Never]
           mark  == [stats[p] EXCEPT !.emitted = at]
<1>1. /\ call[c].step = "reserve" /\ call' = [call EXCEPT ![c] = Idle]
      /\ stats' = IF Hot(p, at) \/ ~Stamp THEN stats ELSE [stats EXCEPT ![p] = mark]
      /\ events' = IF Hot(p, at) THEN events ELSE events \cup {new}
      /\ now' = now /\ order' = order /\ recent' = recent /\ records' = records
  BY DEF Reserve
<1>2. /\ p \in Patterns /\ call[c].id \in Nat /\ now \in Nat /\ records \in Nat
      /\ at \in Nat /\ at <= now
  <2>1. call[c] \in Found
    BY <1>1 DEF MonitorInv, MonitorTyped, Idle
  <2> QED
    BY <1>1, <2>1 DEF MonitorInv, MonitorTyped, Found
<1>3. MonitorTyped'
  <2>1. DOMAIN stats' = DOMAIN stats
    BY <1>1
  <2>2. /\ DOMAIN call' = Recorders /\ \A d \in Recorders : call'[d] = Idle \/ call'[d] \in Found
        /\ \A d \in Recorders : call'[d].step = "reserve" => call'[d].at \in 0..now'
    BY <1>1 DEF MonitorInv, MonitorTyped, Idle
  <2>3. events' \subseteq Event
    <3>1. Stamp => stats[p].life \in Nat
      BY DEF MonitorInv, StatsFit, StatsOf
    <3>2. new \in Event
      BY <1>2, <3>1 DEF Event
    <3> HIDE DEF new
    <3> QED
      BY <1>1, <3>2 DEF MonitorInv, MonitorTyped
  <2> QED
    BY <1>1, <2>1, <2>2, <2>3 DEF MonitorInv, MonitorTyped
<1> HIDE DEF at
<1>4. QueueFits'
  <2>1. DOMAIN stats' = DOMAIN stats
    BY <1>1
  <2> QED
    BY <1>1, <2>1 DEF MonitorInv, QueueFits
<1>5. CASE Hot(p, at)
  <2>1. stats' = stats /\ events' = events
    BY <1>1, <1>5
  <2> QED
    BY <1>1, <1>3, <1>4, <2>1 DEF MonitorInv, StatsFit, EventsFit, Stamped, OneEventPerCooldown
<1>6. CASE ~Hot(p, at) /\ ~Stamp
  <2>1. stats' = stats /\ events' = events \cup {new} /\ new.life = Never /\ new.at = at
    BY <1>1, <1>6
  <2>2. new \in Event
    BY <1>2, <1>6 DEF Event
  <2> HIDE DEF new
  <2>3. StatsFit'
    BY <1>1, <2>1 DEF MonitorInv, StatsFit
  <2>4. EventsFit'
    <3>1. \A e \in events : e.at <= now' /\ e.life < records' /\ Stamped(e)'
      BY <1>1, <2>1 DEF MonitorInv, EventsFit, Stamped
    <3>2. PICK e : e = new
      OBVIOUS
    <3>3. e.at <= now' /\ e.life < records' /\ Stamped(e)'
      BY <1>1, <1>2, <2>1, <3>2 DEF Stamped, Never
    <3> QED
      BY <2>1, <3>1, <3>2, <3>3 DEF EventsFit
  <2>5. OneEventPerCooldown'
    BY <2>1 DEF MonitorInv, OneEventPerCooldown
  <2> QED
    BY <1>3, <1>4, <2>3, <2>4, <2>5 DEF MonitorInv
<1>7. CASE ~Hot(p, at) /\ Stamp
  <2>1. /\ stats' = [stats EXCEPT ![p] = mark] /\ events' = events \cup {new}
        /\ new.pattern = p /\ new.life = stats[p].life /\ new.at = at
    BY <1>1, <1>7
  <2>2. stats[p] \in StatsOf /\ Len(stats[p].times) <= Window /\ stats[p].life < records
        /\ stats[p].emitted <= now
    BY <1>7 DEF MonitorInv, StatsFit
  <2>3. /\ mark \in StatsOf /\ mark.times = stats[p].times /\ mark.life = stats[p].life
        /\ mark.emitted = at
    BY <1>2, <2>2 DEF StatsOf
  <2> HIDE DEF new, mark
  <2>4. /\ DOMAIN stats' = DOMAIN stats /\ stats'[p] = mark
        /\ \A q \in DOMAIN stats : q # p => stats'[q] = stats[q]
    BY <1>7, <2>1
  <2>5. StatsFit'
    <3> SUFFICES ASSUME NEW q \in DOMAIN stats
                 PROVE  /\ stats'[q] \in StatsOf /\ Len(stats'[q].times) <= Window
                        /\ stats'[q].life < records' /\ stats'[q].emitted <= now'
      BY <2>4 DEF StatsFit
    <3>1. CASE q = p
      BY <1>1, <1>2, <2>2, <2>3, <2>4, <3>1
    <3>2. CASE q # p
      BY <1>1, <2>4, <3>2 DEF MonitorInv, StatsFit
    <3> QED
      BY <3>1, <3>2
  <2>6. \A e \in events : e.at \in Nat /\ e.at <= now /\ e.life < records /\ Stamped(e)
    BY DEF MonitorInv, MonitorTyped, EventsFit, Event
  <2>7. EventsFit'
    <3>1. ASSUME NEW e \in events
          PROVE  e.at <= now' /\ e.life < records' /\ Stamped(e)'
      <4>1. CASE e.pattern = p
        <5>1. Stamped(e)'
          <6> SUFFICES ASSUME e.life # Never, stats[p].life = e.life
                       PROVE  e.at <= at /\ at # Never
            BY <2>3, <2>4, <4>1 DEF Stamped
          <6>1. stats[p].emitted # Never /\ e.at <= stats[p].emitted
            BY <1>7, <2>6, <4>1 DEF Stamped
          <6>2. ~(at - stats[p].emitted < Cooldown)
            BY <1>7, <6>1 DEF Hot
          <6>3. stats[p].emitted \in Nat /\ e.at \in Nat /\ Cooldown \in Nat
            BY <2>2, <2>6, <6>1 DEF StatsOf, MonitorConstants
          <6> QED
            BY <1>2, <6>1, <6>2, <6>3 DEF Never
        <5> QED
          BY <1>1, <2>6, <5>1
      <4>2. CASE e.pattern # p
        BY <1>1, <2>4, <2>6, <4>2 DEF Stamped
      <4> QED
        BY <4>1, <4>2
    <3>2. PICK e : e = new
      OBVIOUS
    <3>3. e.at <= now' /\ e.life < records' /\ Stamped(e)'
      BY <1>1, <1>2, <2>1, <2>2, <2>3, <2>4, <3>2 DEF Stamped, Never
    <3> QED
      BY <2>1, <3>1, <3>2, <3>3 DEF EventsFit
  <2>8. OneEventPerCooldown'
    <3>1. ASSUME NEW e \in events, e.pattern = p, e.life = stats[p].life, e.life # Never
          PROVE  at - e.at >= Cooldown
      <4>1. stats[p].emitted # Never /\ e.at <= stats[p].emitted
        BY <1>7, <2>6, <3>1 DEF Stamped
      <4>2. ~(at - stats[p].emitted < Cooldown)
        BY <1>7, <4>1 DEF Hot
      <4>3. stats[p].emitted \in Nat /\ e.at \in Nat /\ Cooldown \in Nat
        BY <2>2, <2>6, <4>1 DEF StatsOf, MonitorConstants
      <4> QED
        BY <1>2, <4>1, <4>2, <4>3
    <3> SUFFICES ASSUME NEW e \in events', NEW f \in events', e # f, e.pattern = f.pattern,
                        e.life = f.life, e.life # Never
                 PROVE  e.at - f.at >= Cooldown \/ f.at - e.at >= Cooldown
      BY Zenon DEF OneEventPerCooldown
    <3>2. CASE e \in events /\ f \in events
      BY <3>2 DEF MonitorInv, OneEventPerCooldown
    <3>3. CASE e = new /\ f \in events
      BY <2>1, <3>1, <3>3
    <3>4. CASE f = new /\ e \in events
      BY <2>1, <3>1, <3>4
    <3> QED
      BY <2>1, <3>2, <3>3, <3>4
  <2> QED
    BY <1>3, <1>4, <2>5, <2>7, <2>8 DEF MonitorInv
<1> QED
  BY <1>5, <1>6, <1>7

\* The table with fewer patterns, and their events as they were.
LEMMA FewerMonitored ==
    ASSUME MonitorInv, DOMAIN stats' \subseteq DOMAIN stats,
           \A q \in DOMAIN stats' : stats'[q] = stats[q],
           UNCHANGED <<now, records, events>>
    PROVE  StatsFit' /\ EventsFit' /\ OneEventPerCooldown'
<1>1. StatsFit'
  BY DEF MonitorInv, StatsFit
<1>2. EventsFit'
  BY DEF MonitorInv, EventsFit, Stamped
<1>3. OneEventPerCooldown'
  BY DEF MonitorInv, OneEventPerCooldown
<1> QED
  BY <1>1, <1>2, <1>3

\* Nothing is tracked, as after NewPerformanceMonitor and ClearStats.
LEMMA NothingTracked ==
    ASSUME MonitorConstants, stats = <<>>, order = <<>>
    PROVE  DOMAIN stats = {} /\ QueueFits
<1>1. DOMAIN stats = {} /\ Range(order) = {} /\ Len(order) = 0 /\ IsInjective(order)
  BY DEF Range, IsInjective
<1>2. IsFiniteSet(DOMAIN stats) /\ Cardinality(DOMAIN stats) = 0
  BY <1>1, FS_EmptySet
<1> QED
  BY <1>1, <1>2 DEF QueueFits, MonitorConstants

LEMMA ClearMonitored ==
    ASSUME MonitorConstants, MonitorInv, ClearStats
    PROVE  MonitorInv'
<1>1. /\ stats' = <<>> /\ order' = <<>> /\ recent' = <<>>
      /\ UNCHANGED <<now, call, records, events>>
  BY DEF ClearStats
<1>2. DOMAIN stats' = {} /\ QueueFits'
  <2>1. DOMAIN stats' = {} /\ Range(order') = {} /\ Len(order') = 0 /\ IsInjective(order')
    BY <1>1 DEF Range, IsInjective
  <2>2. IsFiniteSet(DOMAIN stats') /\ Cardinality(DOMAIN stats') = 0
    BY <2>1, FS_EmptySet
  <2> QED
    BY <2>1, <2>2 DEF QueueFits, MonitorConstants
<1>3. MonitorTyped'
  BY <1>1, <1>2 DEF MonitorInv, MonitorTyped, MonitorConstants
<1>4. StatsFit' /\ EventsFit' /\ OneEventPerCooldown'
  BY <1>1, <1>2, FewerMonitored
<1> QED
  BY <1>2, <1>3, <1>4 DEF MonitorInv

LEMMA RemoveMonitored ==
    ASSUME MonitorConstants, MonitorInv, NEW p \in Patterns, RemovePatternStats(p)
    PROVE  MonitorInv'
<1>1. /\ p \in DOMAIN stats /\ order' = RemoveFirst(order, p)
      /\ DOMAIN stats' = DOMAIN stats \ {p}
      /\ \A q \in DOMAIN stats \ {p} : stats'[q] = stats[q]
      /\ UNCHANGED <<now, recent, call, records, events>>
  BY DEF RemovePatternStats, Unqueued, Restrict
<1>2. order \in Seq(Patterns) /\ IsInjective(order) /\ Range(order) = DOMAIN stats
  BY DEF MonitorInv, MonitorTyped, QueueFits
<1>3. RemoveFirst(order, p) \in Seq(Patterns) /\ Len(RemoveFirst(order, p)) = Len(order) - 1
  BY <1>1, <1>2, RemovedFirst
<1>4. /\ Range(RemoveFirst(order, p)) = DOMAIN stats \ {p}
      /\ IsInjective(RemoveFirst(order, p))
  BY <1>1, <1>2, RemovedOnce
<1>5. /\ IsFiniteSet(DOMAIN stats \ {p})
      /\ Cardinality(DOMAIN stats \ {p}) = Cardinality(DOMAIN stats) - 1
  BY <1>1, FS_RemoveElement DEF MonitorInv, QueueFits
<1>6. QueueFits'
  <2>1. Len(order) - 1 <= MaxTracked
    BY <1>2 DEF MonitorInv, QueueFits, MonitorConstants
  <2>2. Cardinality(DOMAIN stats) = Len(order)
    BY DEF MonitorInv, QueueFits
  <2> QED
    BY <1>1, <1>3, <1>4, <1>5, <2>1, <2>2 DEF QueueFits
<1>7. MonitorTyped'
  BY <1>1, <1>3 DEF MonitorInv, MonitorTyped
<1>8. StatsFit' /\ EventsFit' /\ OneEventPerCooldown'
  BY <1>1, FewerMonitored
<1> QED
  BY <1>6, <1>7, <1>8 DEF MonitorInv

LEMMA TickMonitored ==
    ASSUME MonitorConstants, MonitorInv, Tick
    PROVE  MonitorInv'
<1>1. /\ now < MaxClock /\ now' = now + 1
      /\ UNCHANGED <<stats, order, recent, call, records, events>>
  BY DEF Tick
<1>2. MonitorTyped' /\ QueueFits' /\ OneEventPerCooldown'
  BY <1>1 DEF MonitorInv, MonitorTyped, QueueFits, OneEventPerCooldown, MonitorConstants
<1>3. StatsFit'
  BY <1>1 DEF MonitorInv, MonitorTyped, StatsFit, StatsOf, Never
<1>4. EventsFit'
  BY <1>1 DEF MonitorInv, MonitorTyped, EventsFit, Stamped, Event
<1> QED
  BY <1>2, <1>3, <1>4 DEF MonitorInv

LEMMA MonitorFirst ==
    ASSUME MonitorConstants, MonitorInit
    PROVE  MonitorInv
<1>1. /\ now = 0 /\ records = 0 /\ stats = <<>> /\ order = <<>> /\ recent = <<>>
      /\ call = [c \in Recorders |-> Idle] /\ events = {}
  BY DEF MonitorInit
<1>2. DOMAIN stats = {} /\ QueueFits
  BY <1>1, NothingTracked
<1>3. MonitorTyped
  BY <1>1, <1>2 DEF MonitorTyped, MonitorConstants, Idle
<1>4. StatsFit /\ EventsFit /\ OneEventPerCooldown
  BY <1>1, <1>2 DEF StatsFit, EventsFit, OneEventPerCooldown
<1> QED
  BY <1>2, <1>3, <1>4 DEF MonitorInv

LEMMA MonitorStep ==
    ASSUME MonitorConstants, MonitorInv, [MonitorNext]_monitorVars
    PROVE  MonitorInv'
<1>1. CASE \E c \in Recorders, p \in Patterns, o \in Observations : Record(c, p, o)
  BY <1>1, RecordMonitored
<1>2. CASE \E c \in Recorders : Reserve(c)
  BY <1>2, ReserveMonitored
<1>3. CASE ClearStats
  BY <1>3, ClearMonitored
<1>4. CASE \E p \in Patterns : RemovePatternStats(p)
  BY <1>4, RemoveMonitored
<1>5. CASE Tick
  BY <1>5, TickMonitored
<1>6. CASE UNCHANGED monitorVars
  BY <1>6 DEF monitorVars, MonitorInv, MonitorTyped, StatsFit, QueueFits, EventsFit, Stamped,
              OneEventPerCooldown
<1>7. CASE \E c \in Recorders : ReadClock(c)
  BY <1>7, ReadClockMonitored
<1> HIDE DEF MonitorInv
<1> QED
  BY <1>1, <1>2, <1>3, <1>4, <1>5, <1>6, <1>7 DEF MonitorNext

----------------------------------------------------------------------------
(* PatternMonitor: statistics are of this life of a pattern, first the     *)
(* times of the executions that ended.                                     *)

\* What TimesOf computes on the way.
Ended(g, s) ==
    \A n \in 0..Len(s) : g[n] = IF n = 0 THEN <<>>
                                ELSE IF Timed(s[n]) THEN Append(g[n-1], s[n].time)
                                ELSE g[n-1]

LEMMA TimesComputed ==
    ASSUME NEW s \in Seq(Metric)
    PROVE  \E g : Ended(g, s) /\ TimesOf(s) = g[Len(s)]
<1> DEFINE step == [n \in (0 + 1)..Len(s) |->
                      [y \in Seq(Nat) |-> IF Timed(s[n]) THEN Append(y, s[n].time) ELSE y]]
           Body(f) == [n \in 0..Len(s) |->
                         IF n = 0 THEN <<>>
                         ELSE IF Timed(s[n]) THEN Append(f[n-1], s[n].time) ELSE f[n-1]]
           g == CHOOSE f : f = Body(f)
<1>1. Len(s) \in Nat /\ 0 <= Len(s) /\ \A i \in 1..Len(s) : s[i].time \in Nat
  <2>1. \A i \in 1..Len(s) : s[i] \in Metric
    OBVIOUS
  <2>2. \A m \in Metric : m.time \in Nat
    BY DEF Metric
  <2> QED
    BY <2>1, <2>2
<1>2. step \in [(0 + 1)..Len(s) -> [Seq(Nat) -> Seq(Nat)]]
  <2>1. \A n \in (0 + 1)..Len(s), y \in Seq(Nat) :
          (IF Timed(s[n]) THEN Append(y, s[n].time) ELSE y) \in Seq(Nat)
    BY <1>1
  <2> QED
    BY <2>1
<1>3. PICK f \in [0..Len(s) -> Seq(Nat)] :
        \A n \in 0..Len(s) : f[n] = IF n = 0 THEN <<>> ELSE step[n][f[n-1]]
  <2>1. <<>> \in Seq(Nat)
    OBVIOUS
  <2> HIDE DEF step
  <2>2. Recursive(Seq(Nat), <<>>, 0, Len(s), step)
    BY <1>1, <1>2, <2>1 DEF Recursive
  <2>3. \E f : Computes(f, Seq(Nat), <<>>, 0, Len(s), step)
    BY <2>2, Recursion
  <2> QED
    BY <2>3 DEF Computes
<1>4. f = Body(f)
  <2>1. ASSUME NEW n \in 0..Len(s)
        PROVE  f[n] = IF n = 0 THEN <<>>
                      ELSE IF Timed(s[n]) THEN Append(f[n-1], s[n].time) ELSE f[n-1]
    <3>1. n # 0 => n - 1 \in 0..Len(s) /\ n \in (0 + 1)..Len(s)
      BY <1>1
    <3>2. n # 0 => f[n-1] \in Seq(Nat)
      BY <3>1
    <3>3. n # 0 => step[n][f[n-1]] = IF Timed(s[n]) THEN Append(f[n-1], s[n].time) ELSE f[n-1]
      BY <3>1, <3>2
    <3>4. f[n] = IF n = 0 THEN <<>> ELSE step[n][f[n-1]]
      <4> HIDE DEF step
      <4> QED
        BY <1>3
    <3> HIDE DEF step
    <3> QED
      BY <3>3, <3>4
  <2> HIDE DEF step
  <2> QED
    BY <2>1
<1>5. g = Body(g)
  <2> HIDE DEF Body
  <2> QED
    BY <1>4
<1>6. TimesOf(s) = g[Len(s)]
  BY DEF TimesOf
<1>7. Ended(g, s)
  <2> HIDE DEF g
  <2> QED
    BY <1>5 DEF Ended
<1> HIDE DEF g
<1> QED
  BY <1>6, <1>7

\* Sequences that agree have the same times so far.
LEMMA TimesAgree ==
    ASSUME NEW s \in Seq(Metric), NEW t \in Seq(Metric), NEW k \in Nat, k <= Len(s), k <= Len(t),
           \A i \in 1..k : s[i] = t[i], NEW g, Ended(g, s), NEW h, Ended(h, t)
    PROVE  g[k] = h[k]
<1> DEFINE T == {n \in Nat : n <= k => g[n] = h[n]}
<1>1. 0 \in T
  BY DEF Ended
<1>2. ASSUME NEW n \in Nat, n \in T
      PROVE  n + 1 \in T
  <2> SUFFICES ASSUME n + 1 <= k
               PROVE  g[n + 1] = h[n + 1]
    OBVIOUS
  <2>1. /\ n + 1 \in 0..Len(s) /\ n + 1 \in 0..Len(t) /\ n + 1 \in 1..k /\ n + 1 # 0
        /\ (n + 1) - 1 = n /\ g[n] = h[n]
    BY <1>2
  <2>2. g[n + 1] = IF Timed(s[n + 1]) THEN Append(g[n], s[n + 1].time) ELSE g[n]
    BY <2>1 DEF Ended
  <2>3. h[n + 1] = IF Timed(t[n + 1]) THEN Append(h[n], t[n + 1].time) ELSE h[n]
    BY <2>1 DEF Ended
  <2> QED
    BY <2>1, <2>2, <2>3
<1>3. Nat \subseteq T
  <2> HIDE DEF T
  <2> QED
    BY <1>1, <1>2, SetInduction
<1> QED
  BY <1>3

\* Times are no more than executions, and there are none if none ended.
LEMMA TimesAre ==
    ASSUME NEW s \in Seq(Metric)
    PROVE  /\ TimesOf(s) \in Seq(Nat)
           /\ (\A i \in 1..Len(s) : ~Timed(s[i])) => TimesOf(s) = <<>>
<1>1. PICK g : Ended(g, s) /\ TimesOf(s) = g[Len(s)]
  BY TimesComputed
<1> DEFINE Right(n) == /\ g[n] \in Seq(Nat)
                       /\ (\A i \in 1..Len(s) : ~Timed(s[i])) => g[n] = <<>>
           T == {n \in Nat : n <= Len(s) => Right(n)}
<1>2. 0 \in T
  <2>1. g[0] = <<>>
    BY <1>1 DEF Ended
  <2>2. Right(0)
    BY <2>1
  <2> HIDE DEF Right
  <2> QED
    BY <2>2
<1>3. ASSUME NEW n \in Nat, n \in T
      PROVE  n + 1 \in T
  <2> SUFFICES ASSUME n + 1 <= Len(s)
               PROVE  Right(n + 1)
    OBVIOUS
  <2>1. n + 1 \in 0..Len(s) /\ n + 1 \in 1..Len(s) /\ n + 1 # 0 /\ (n + 1) - 1 = n /\ Right(n)
    BY <1>3
  <2>2. g[n + 1] = IF Timed(s[n + 1]) THEN Append(g[n], s[n + 1].time) ELSE g[n]
    BY <1>1, <2>1 DEF Ended
  <2>3. s[n + 1].time \in Nat
    <3>1. s[n + 1] \in Metric
      BY <2>1
    <3> QED
      BY <3>1 DEF Metric
  <2> QED
    BY <2>1, <2>2, <2>3
<1>4. Nat \subseteq T
  <2> HIDE DEF T
  <2> QED
    BY <1>2, <1>3, SetInduction
<1> QED
  BY <1>1, <1>4

\* One more execution has one more time if it ended.
LEMMA TimesAppended ==
    ASSUME NEW s \in Seq(Metric), NEW m \in Metric
    PROVE  TimesOf(Append(s, m)) = IF Timed(m) THEN Append(TimesOf(s), m.time) ELSE TimesOf(s)
<1> DEFINE t == Append(s, m)
<1>1. /\ t \in Seq(Metric) /\ Len(t) = Len(s) + 1 /\ t[Len(s) + 1] = m /\ Len(s) \in Nat
      /\ \A i \in 1..Len(s) : t[i] = s[i]
  OBVIOUS
<1> HIDE DEF t
<1>2. PICK g : Ended(g, s) /\ TimesOf(s) = g[Len(s)]
  BY TimesComputed
<1>3. PICK h : Ended(h, t) /\ TimesOf(t) = h[Len(t)]
  BY <1>1, TimesComputed
<1>4. g[Len(s)] = h[Len(s)]
  BY <1>1, <1>2, <1>3, TimesAgree
<1>5. h[Len(s) + 1] = IF Timed(m) THEN Append(h[Len(s)], m.time) ELSE h[Len(s)]
  <2>1. Len(s) + 1 \in 0..Len(t) /\ Len(s) + 1 # 0 /\ (Len(s) + 1) - 1 = Len(s)
    BY <1>1
  <2> QED
    BY <1>1, <1>3, <2>1 DEF Ended
<1>6. TimesOf(t) = IF Timed(m) THEN Append(TimesOf(s), m.time) ELSE TimesOf(s)
  BY <1>1, <1>2, <1>3, <1>4, <1>5
<1> QED
  BY <1>6 DEF t

LEMMA NoTimes == TimesOf(<<>>) = <<>> /\ Range(<<>>) = {}
<1>1. <<>> \in Seq(Metric) /\ \A i \in 1..Len(<<>>) : ~Timed(<<>>[i])
  OBVIOUS
<1>2. TimesOf(<<>>) = <<>>
  BY <1>1, TimesAre
<1> QED
  BY <1>2 DEF Range

\* Which elements the latest of a history are.
LEMMA AtMostAre ==
    ASSUME NEW S, NEW s \in Seq(S), NEW n \in Nat
    PROVE  /\ AtMost(s, n) \in Seq(S)
           /\ Len(AtMost(s, n)) = IF Len(s) <= n THEN Len(s) ELSE n
           /\ \A i \in 1..Len(AtMost(s, n)) : AtMost(s, n)[i] = s[Len(s) - Len(AtMost(s, n)) + i]
<1>1. Max({1, Len(s) - n + 1}) = IF Len(s) - n + 1 >= 1 THEN Len(s) - n + 1 ELSE 1
  BY Larger
<1>2. CASE Len(s) - n + 1 >= 1
  <2> DEFINE r  == AtMost(s, n)
             lo == Len(s) - n + 1
  <2>1. r = SubSeq(s, lo, Len(s)) /\ lo \in Nat /\ 1 <= lo /\ lo <= Len(s) + 1 /\ Len(s) \in Nat
    <3>1. Len(s) \in Nat
      OBVIOUS
    <3>2. Max({1, lo}) = lo
      BY <1>1, <1>2, Zenon
    <3>3. r = SubSeq(s, lo, Len(s))
      BY <3>2, Zenon DEF AtMost
    <3> HIDE DEF r
    <3> QED
      BY <1>2, <3>1, <3>3
  <2>2. n = Len(s) + 1 - lo
    BY <2>1
  <2> HIDE DEF r, lo
  <2>3. /\ r \in Seq(S) /\ Len(r) = Len(s) + 1 - lo
        /\ \A i \in 1..Len(r) : r[i] = s[lo + i - 1]
    BY <2>1
  <2>4. \A i \in 1..Len(r) : lo + i - 1 = Len(s) - Len(r) + i
    BY <2>1, <2>3
  <2>5. Len(r) = IF Len(s) <= n THEN Len(s) ELSE n
    BY <2>1, <2>2, <2>3
  <2> QED
    BY <2>3, <2>4, <2>5 DEF r
<1>3. CASE ~(Len(s) - n + 1 >= 1)
  <2> DEFINE r == AtMost(s, n)
  <2>1. r = SubSeq(s, 1, Len(s))
    BY <1>1, <1>3 DEF AtMost
  <2> HIDE DEF r
  <2>2. r \in Seq(S) /\ Len(r) = Len(s) /\ \A i \in 1..Len(r) : r[i] = s[i]
    BY <2>1
  <2>3. Len(s) \in Nat /\ \A i \in 1..Len(r) : Len(s) - Len(r) + i = i
    BY <2>2
  <2> QED
    BY <1>3, <2>2, <2>3 DEF r
<1> QED
  BY <1>2, <1>3

\* The latest can be kept as they come.
LEMMA LatestKept ==
    ASSUME NEW S, NEW s \in Seq(S), NEW e \in S, NEW n \in Nat \ {0}
    PROVE  AtMost(Append(AtMost(s, n), e), n) = AtMost(Append(s, e), n)
<1> DEFINE a == AtMost(s, n)
           b == Append(a, e)
           c == Append(s, e)
           x == AtMost(b, n)
           y == AtMost(c, n)
<1>1. /\ a \in Seq(S) /\ Len(a) = IF Len(s) <= n THEN Len(s) ELSE n
      /\ \A i \in 1..Len(a) : a[i] = s[Len(s) - Len(a) + i]
  BY AtMostAre
<1> HIDE DEF a
<1>2. /\ b \in Seq(S) /\ Len(b) = Len(a) + 1 /\ b[Len(a) + 1] = e
      /\ \A i \in 1..Len(a) : b[i] = a[i]
  BY <1>1
<1>3. /\ c \in Seq(S) /\ Len(c) = Len(s) + 1 /\ c[Len(s) + 1] = e
      /\ \A i \in 1..Len(s) : c[i] = s[i]
  OBVIOUS
<1> HIDE DEF b, c, x, y
<1>b. ASSUME NEW t \in Seq(S)
      PROVE  /\ AtMost(t, n) \in Seq(S) /\ Len(AtMost(t, n)) = IF Len(t) <= n THEN Len(t) ELSE n
             /\ \A i \in 1..Len(AtMost(t, n)) : AtMost(t, n)[i] = t[Len(t) - Len(AtMost(t, n)) + i]
  BY AtMostAre
<1>4. /\ x \in Seq(S) /\ Len(x) = IF Len(b) <= n THEN Len(b) ELSE n
      /\ \A i \in 1..Len(x) : x[i] = b[Len(b) - Len(x) + i]
  BY <1>2, <1>b DEF x
<1>5. /\ y \in Seq(S) /\ Len(y) = IF Len(c) <= n THEN Len(c) ELSE n
      /\ \A i \in 1..Len(y) : y[i] = c[Len(c) - Len(y) + i]
  BY <1>3, <1>b DEF y
<1>6. Len(x) = Len(y)
  BY <1>1, <1>2, <1>3, <1>4, <1>5
<1>7. ASSUME NEW i \in 1..Len(x)
      PROVE  x[i] = y[i]
  <2>1. x[i] = b[Len(b) - Len(x) + i] /\ y[i] = c[Len(c) - Len(x) + i]
    BY <1>4, <1>5, <1>6
  <2>2. CASE i = Len(x)
    <3>1. Len(b) - Len(x) + i = Len(a) + 1 /\ Len(c) - Len(x) + i = Len(s) + 1
      BY <1>2, <1>3, <1>4, <2>2
    <3> QED
      BY <1>2, <1>3, <2>1, <3>1
  <2>3. CASE i # Len(x)
    <3> DEFINE j == Len(b) - Len(x) + i
    <3>1. j \in 1..Len(a) /\ Len(s) - Len(a) + j \in 1..Len(s)
          /\ Len(c) - Len(x) + i = Len(s) - Len(a) + j
      <4>1. /\ Len(s) \in Nat /\ Len(a) \in Nat /\ Len(a) <= Len(s) /\ Len(b) = Len(a) + 1
            /\ Len(c) = Len(s) + 1 /\ Len(x) \in Nat /\ Len(x) <= Len(b)
        BY <1>1, <1>2, <1>3, <1>4
      <4>2. i \in Nat /\ 1 <= i /\ i < Len(x)
        BY <2>3, <4>1
      <4> QED
        BY <4>1, <4>2
    <3> HIDE DEF j
    <3>2. b[j] = s[Len(s) - Len(a) + j] /\ c[Len(s) - Len(a) + j] = s[Len(s) - Len(a) + j]
      BY <1>1, <1>2, <1>3, <3>1
    <3> QED
      BY <2>1, <3>1, <3>2 DEF j
  <2> QED
    BY <2>2, <2>3
<1>8. x = y
  BY <1>4, <1>5, <1>6, <1>7
<1> QED
  BY <1>8 DEF x, y, b, c, a


LifeOf(st, s) ==
    /\ st.executions = Len(s)
    /\ st.timeouts = Len(s) - Len(TimesOf(s))
    /\ st.times = AtMost(TimesOf(s), Window)
    /\ st.max \in {0} \cup Range(TimesOf(s))
    /\ \A x \in {0} \cup Range(TimesOf(s)) : x <= st.max
    /\ IF TimesOf(s) = <<>> THEN st.min = Never
       ELSE st.min \in Range(TimesOf(s)) /\ \A x \in Range(TimesOf(s)) : st.min <= x

LivesFit == /\ log \in [Patterns -> Seq(Metric)]
            /\ \A p \in DOMAIN stats : log[p] # <<>> /\ LifeOf(stats[p], log[p])

LEMMA LifeStarts == MonitorConstants => LifeOf(NewStats, <<>>)
<1>1. ASSUME MonitorConstants
      PROVE  AtMost(<<>>, Window) = <<>>
  <2> DEFINE none == <<>>
  <2>1. none \in Seq(Nat) /\ Len(none) = 0 /\ Window \in Nat
    BY <1>1 DEF MonitorConstants
  <2> HIDE DEF none
  <2>t. ASSUME NEW t \in Seq(Nat)
        PROVE  AtMost(t, Window) \in Seq(Nat)
               /\ Len(AtMost(t, Window)) = IF Len(t) <= Window THEN Len(t) ELSE Window
    BY <2>1, AtMostAre
  <2>u. AtMost(none, Window) \in Seq(Nat)
        /\ Len(AtMost(none, Window)) = IF Len(none) <= Window THEN Len(none) ELSE Window
    BY <2>1, <2>t
  <2>2. AtMost(none, Window) \in Seq(Nat) /\ Len(AtMost(none, Window)) = 0
    BY <2>1, <2>u
  <2>3. AtMost(none, Window) = <<>>
    BY <2>2
  <2> QED
    BY <2>3 DEF none
<1> QED
  BY <1>1, NoTimes DEF LifeOf, NewStats

LEMMA LifeGoesOn ==
    ASSUME MonitorConstants, NEW st \in StatsOf, NEW s \in Seq(Metric), LifeOf(st, s),
           NEW m \in Metric
    PROVE  LifeOf(Advance(st, m), Append(s, m))
<1> DEFINE more    == IF m.matched THEN st.matches + 1 ELSE st.matches
           counted == [st EXCEPT !.executions = st.executions + 1, !.matches = more]
           T       == TimesOf(s)
           U       == TimesOf(Append(s, m))
           adv     == Advance(st, m)
<1>1. Append(s, m) \in Seq(Metric) /\ Len(Append(s, m)) = Len(s) + 1 /\ Len(s) \in Nat
  OBVIOUS
<1>2. T \in Seq(Nat) /\ U = IF Timed(m) THEN Append(T, m.time) ELSE T
  BY TimesAre, TimesAppended
<1> HIDE DEF T, U
<1>3. /\ st.executions = Len(s) /\ st.timeouts = Len(s) - Len(T) /\ st.times = AtMost(T, Window)
      /\ st.max \in {0} \cup Range(T) /\ \A x \in {0} \cup Range(T) : x <= st.max
      /\ IF T = <<>> THEN st.min = Never
         ELSE st.min \in Range(T) /\ \A x \in Range(T) : st.min <= x
  BY DEF LifeOf, T
<1>4. /\ counted.executions = Len(s) + 1 /\ counted.timeouts = st.timeouts
      /\ counted.times = st.times /\ counted.max = st.max /\ counted.min = st.min
      /\ counted \in StatsOf
  <2>1. st.executions + 1 \in Nat /\ more \in Nat
    BY DEF StatsOf, Metric
  <2> HIDE DEF more
  <2> QED
    BY <1>3, <2>1 DEF StatsOf
<1>5. /\ Range(T) \subseteq Nat /\ st.max \in Int /\ st.min \in Int /\ m.time \in Nat
      /\ \A x \in Range(T) : x # Never
  BY <1>2 DEF Range, StatsOf, Metric, Never
<1>6. CASE ~Timed(m)
  <2>1. adv = [counted EXCEPT !.timeouts = counted.timeouts + 1] /\ U = T
    BY <1>2, <1>6 DEF Advance
  <2> HIDE DEF adv
  <2>2. /\ adv.executions = Len(s) + 1 /\ adv.timeouts = st.timeouts + 1
        /\ adv.times = st.times /\ adv.max = st.max /\ adv.min = st.min
    <3> HIDE DEF counted
    <3> QED
      BY <1>4, <2>1 DEF StatsOf
  <2>3. Len(T) \in Nat /\ st.timeouts + 1 = Len(s) + 1 - Len(T)
    BY <1>1, <1>2, <1>3
  <2>4. LifeOf(adv, Append(s, m))
    BY <1>1, <1>3, <2>1, <2>2, <2>3 DEF LifeOf, U
  <2> QED
    BY <2>4 DEF adv
<1>7. CASE Timed(m)
  <2> DEFINE times == AtMost(Append(st.times, m.time), Window)
             max   == Max({st.max, m.time})
             min   == IF st.min = Never THEN m.time ELSE Min({st.min, m.time})
  <2>1. adv = [counted EXCEPT !.times = times, !.max = max, !.min = min]
    BY <1>4, <1>7 DEF Advance
  <2>2. U = Append(T, m.time) /\ Range(U) = Range(T) \cup {m.time} /\ Len(U) = Len(T) + 1
        /\ U # <<>>
    <3>1. U = Append(T, m.time)
      BY <1>2, <1>7
    <3>2. Range(U) = Range(T) \cup {m.time} /\ Len(U) = Len(T) + 1
      BY <1>2, <1>5, <3>1, Appended
    <3>3. Len(T) \in Nat
      BY <1>2
    <3> QED
      BY <3>1, <3>2, <3>3
  <2>3. times = AtMost(U, Window)
    <3>1. Window \in Nat \ {0}
      BY DEF MonitorConstants
    <3>2. AtMost(Append(AtMost(T, Window), m.time), Window) = AtMost(Append(T, m.time), Window)
      BY <1>2, <1>5, <3>1, LatestKept
    <3>3. times = AtMost(Append(AtMost(T, Window), m.time), Window)
      BY <1>3
    <3> QED
      BY <2>2, <3>2, <3>3
  <2>4. /\ max \in {0} \cup Range(U) /\ \A x \in {0} \cup Range(U) : x <= max
    <3>1. max = IF m.time >= st.max THEN m.time ELSE st.max
      BY <1>5, Larger
    <3> HIDE DEF max
    <3> QED
      BY <1>3, <1>5, <2>2, <3>1
  <2>5. min \in Range(U) /\ \A x \in Range(U) : min <= x
    <3>1. CASE T = <<>>
      <4>1. min = m.time /\ Range(T) = {}
        BY <1>3, <3>1 DEF Range
      <4> HIDE DEF min
      <4> QED
        BY <1>5, <2>2, <4>1
    <3>2. CASE T # <<>>
      <4>1. st.min # Never
        BY <1>3, <1>5, <3>2
      <4>2. min = IF m.time <= st.min THEN m.time ELSE st.min
        BY <1>5, <4>1, Smaller
      <4> HIDE DEF min
      <4> QED
        BY <1>3, <1>5, <2>2, <3>2, <4>2
    <3> QED
      BY <3>1, <3>2
  <2> HIDE DEF times, max, min, adv
  <2>6. /\ adv.executions = Len(s) + 1 /\ adv.timeouts = st.timeouts
        /\ adv.times = times /\ adv.max = max /\ adv.min = min
    <3> HIDE DEF counted
    <3> QED
      BY <1>4, <2>1 DEF StatsOf
  <2>7. Len(T) \in Nat /\ st.timeouts = Len(s) + 1 - Len(U)
    BY <1>1, <1>2, <1>3, <2>2
  <2>8. LifeOf(adv, Append(s, m))
    BY <1>1, <2>2, <2>3, <2>4, <2>5, <2>6, <2>7 DEF LifeOf, U
  <2> QED
    BY <2>8 DEF adv
<1> QED
  BY <1>6, <1>7

LEMMA RecordLives ==
    ASSUME MonitorConstants, MonitorInv, LivesFit,
           NEW c \in Recorders, NEW p \in Patterns, NEW o \in Observations, Record(c, p, o)
    PROVE  LivesFit'
<1> DEFINE m      == [o EXCEPT !.time = Max({@, 0})]
           known  == p \in DOMAIN stats
           full   == ~known /\ Cardinality(DOMAIN stats) >= MaxTracked
           kept   == DOMAIN stats \ (IF full THEN {Head(order)} ELSE {})
           before == IF known THEN stats[p] ELSE NewStats
           past   == IF known THEN log[p] ELSE <<>>
<1>1. /\ stats' = [q \in kept \cup {p} |-> IF q = p THEN Advance(before, m) ELSE stats[q]]
      /\ log' = [q \in Patterns |-> IF q = p THEN Append(past, m)
                                    ELSE IF q \in kept THEN log[q] ELSE <<>>]
  BY Zenon DEF Record
<1>2. m \in Metric
  BY Reported
<1> HIDE DEF m
<1>3. before \in StatsOf /\ past \in Seq(Metric) /\ LifeOf(before, past)
  <2>1. CASE known
    BY <2>1 DEF MonitorInv, StatsFit, LivesFit
  <2>2. CASE ~known
    <3>1. records \in Nat
      BY DEF MonitorInv, MonitorTyped, MonitorConstants
    <3>2. NewStats \in StatsOf
      <4>1. <<>> \in Seq(Int) /\ 0 \in Nat /\ 0 \in Int /\ -1 \in Int
        OBVIOUS
      <4> QED
        BY <3>1, <4>1 DEF NewStats, StatsOf, Never
    <3>3. before = NewStats /\ past = <<>> /\ <<>> \in Seq(Metric)
      BY <2>2
    <3> HIDE DEF before, past
    <3> QED
      BY <3>2, <3>3, LifeStarts
  <2> QED
    BY <2>1, <2>2
<1> HIDE DEF before, past
<1>4. LifeOf(Advance(before, m), Append(past, m))
  BY <1>2, <1>3, LifeGoesOn
<1>5. Append(past, m) \in Seq(Metric) /\ Append(past, m) # <<>>
  <2>1. Append(past, m) \in Seq(Metric) /\ Len(Append(past, m)) = Len(past) + 1
        /\ Len(past) \in Nat
    BY <1>2, <1>3
  <2> QED
    BY <2>1
<1>6. log' \in [Patterns -> Seq(Metric)]
  <2>1. \A q \in DOMAIN stats : log[q] \in Seq(Metric)
    BY DEF LivesFit, MonitorInv, MonitorTyped
  <2>2. <<>> \in Seq(Metric)
    OBVIOUS
  <2>3. kept \subseteq DOMAIN stats
    OBVIOUS
  <2> HIDE DEF kept
  <2> QED
    BY <1>1, <1>5, <2>1, <2>2, <2>3
<1>7. ASSUME NEW q \in DOMAIN stats'
      PROVE  log'[q] # <<>> /\ LifeOf(stats'[q], log'[q])
  <2>1. CASE q = p
    <3>1. stats'[q] = Advance(before, m) /\ log'[q] = Append(past, m)
      BY <1>1, <2>1
    <3> QED
      BY <1>4, <1>5, <3>1
  <2>2. CASE q # p
    <3>1. q \in kept /\ q \in DOMAIN stats /\ q \in Patterns
      BY <1>1, <2>2 DEF MonitorInv, MonitorTyped
    <3> HIDE DEF kept
    <3>2. stats'[q] = stats[q] /\ log'[q] = log[q]
      BY <1>1, <2>2, <3>1
    <3> QED
      BY <3>1, <3>2 DEF LivesFit
  <2> QED
    BY <2>1, <2>2
<1> QED
  BY <1>6, <1>7 DEF LivesFit

\* A stamp of the emission leaves the statistics of a life alone.
LEMMA ReserveLives ==
    ASSUME MonitorInv, LivesFit, NEW c \in Recorders, Reserve(c)
    PROVE  LivesFit'
<1> DEFINE p     == call[c].pattern
           at    == call[c].at
           Stamp == p \in DOMAIN stats
           mark  == [stats[p] EXCEPT !.emitted = at]
<1>1. /\ log' = log
      /\ stats' = IF Hot(p, at) \/ ~Stamp THEN stats ELSE [stats EXCEPT ![p] = mark]
  BY DEF Reserve
<1> HIDE DEF p, at, mark
<1>2. CASE stats' = stats
  BY <1>1, <1>2 DEF LivesFit
<1>3. CASE Stamp /\ stats' = [stats EXCEPT ![p] = mark]
  <2>1. DOMAIN stats' = DOMAIN stats
    BY <1>3
  <2>2. ASSUME NEW q \in DOMAIN stats
        PROVE  LifeOf(stats'[q], log[q])
    <3>1. LifeOf(stats[q], log[q]) /\ stats[q] \in StatsOf
      BY DEF LivesFit, MonitorInv, StatsFit
    <3>2. CASE q # p
      BY <1>3, <3>1, <3>2
    <3>3. CASE q = p
      <4>1. stats'[q] = [stats[q] EXCEPT !.emitted = at]
        BY <1>3, <3>3 DEF mark
      <4>2. /\ stats'[q].executions = stats[q].executions /\ stats'[q].timeouts = stats[q].timeouts
            /\ stats'[q].times = stats[q].times /\ stats'[q].max = stats[q].max
            /\ stats'[q].min = stats[q].min
        BY <3>1, <4>1 DEF StatsOf
      <4> QED
        BY <3>1, <4>2 DEF LifeOf
    <3> QED
      BY <3>2, <3>3
  <2> QED
    BY <1>1, <2>1, <2>2 DEF LivesFit
<1> QED
  BY <1>1, <1>2, <1>3

LEMMA LivesFirst ==
    ASSUME MonitorInit
    PROVE  LivesFit
<1>1. stats = <<>> /\ log = [p \in Patterns |-> <<>>] /\ <<>> \in Seq(Metric)
  BY DEF MonitorInit
<1> QED
  BY <1>1 DEF LivesFit

LEMMA LivesStep ==
    ASSUME MonitorConstants, MonitorInv, LivesFit, [MonitorNext]_monitorVars
    PROVE  LivesFit'
<1>1. CASE \E c \in Recorders, p \in Patterns, o \in Observations : Record(c, p, o)
  BY <1>1, RecordLives
<1>2. CASE \E c \in Recorders : Reserve(c)
  BY <1>2, ReserveLives
<1>3. CASE ClearStats
  <2>1. stats' = <<>> /\ log' = [p \in Patterns |-> <<>>] /\ <<>> \in Seq(Metric)
    BY <1>3 DEF ClearStats
  <2> QED
    BY <2>1 DEF LivesFit
<1>4. CASE \E p \in Patterns : RemovePatternStats(p)
  <2>1. PICK p \in Patterns :
          /\ DOMAIN stats' = DOMAIN stats \ {p}
          /\ \A q \in DOMAIN stats \ {p} : stats'[q] = stats[q]
          /\ log' = [log EXCEPT ![p] = <<>>]
    BY <1>4 DEF RemovePatternStats, Restrict
  <2>2. log' \in [Patterns -> Seq(Metric)] /\ \A q \in Patterns \ {p} : log'[q] = log[q]
    <3>1. <<>> \in Seq(Metric)
      OBVIOUS
    <3> QED
      BY <2>1, <3>1 DEF LivesFit
  <2>3. DOMAIN stats \subseteq Patterns
    BY DEF MonitorInv, MonitorTyped
  <2> QED
    BY <2>1, <2>2, <2>3 DEF LivesFit
<1>5. CASE Tick
  BY <1>5 DEF Tick, LivesFit
<1>6. CASE UNCHANGED monitorVars
  BY <1>6 DEF monitorVars, LivesFit
<1>7. CASE \E c \in Recorders : ReadClock(c)
  BY <1>7 DEF ReadClock, LivesFit
<1> HIDE DEF MonitorInv, LivesFit
<1> QED
  BY <1>1, <1>2, <1>3, <1>4, <1>5, <1>6, <1>7 DEF MonitorNext

\* What an element that bounds a set is to Max and Min.
LEMMA Greatest ==
    ASSUME NEW S, S \subseteq Int, NEW v \in S, \A x \in S : x <= v
    PROVE  Max(S) = v
<1>1. \A x \in S : (\A y \in S : x >= y) <=> x = v
  OBVIOUS
<1> QED
  BY <1>1, Zenon DEF Max

LEMMA Lowest ==
    ASSUME NEW S, S \subseteq Int, NEW v \in S, \A x \in S : v <= x
    PROVE  Min(S) = v
<1>1. \A x \in S : x = v => \A y \in S : x =< y
  OBVIOUS
<1>2. \A x \in S : (\A y \in S : x =< y) => x = v
  <2> TAKE x \in S
  <2> HAVE \A y \in S : x =< y
  <2>1. x \in Int /\ v \in Int /\ v <= x /\ x <= v
    OBVIOUS
  <2> QED
    BY <2>1
<1>3. \A x \in S : (\A y \in S : x =< y) <=> x = v
  BY <1>1, <1>2, Zenon
<1> QED
  BY <1>3, Zenon DEF Min

LEMMA LivesHold ==
    ASSUME MonitorInv, LivesFit
    PROVE  StatsAreOfThisLife /\ TimedOutIsFlagged
<1>1. ASSUME NEW p \in DOMAIN stats
      PROVE  /\ log[p] \in Seq(Metric) /\ Len(log[p]) \in Nat \ {0}
             /\ LifeOf(stats[p], log[p]) /\ TimesOf(log[p]) \in Seq(Nat)
  <2>1. log[p] \in Seq(Metric) /\ log[p] # <<>> /\ LifeOf(stats[p], log[p])
    BY DEF LivesFit, MonitorInv, MonitorTyped
  <2>2. TimesOf(log[p]) \in Seq(Nat)
    BY <2>1, TimesAre
  <2> QED
    BY <2>1, <2>2
<1>2. ASSUME NEW p \in DOMAIN stats
      PROVE  LET times == TimesOf(log[p])
             IN /\ stats[p].executions = Len(log[p])
                /\ stats[p].timeouts = Len(log[p]) - Len(times)
                /\ stats[p].times = AtMost(times, Window)
                /\ stats[p].max = Max({0} \cup Range(times))
                /\ stats[p].min = IF times = <<>> THEN Never ELSE Min(Range(times))
  <2> DEFINE T  == TimesOf(log[p])
             st == stats[p]
  <2>1. T \in Seq(Nat) /\ LifeOf(st, log[p])
    BY <1>1
  <2>2. /\ st.executions = Len(log[p]) /\ st.timeouts = Len(log[p]) - Len(T)
        /\ st.times = AtMost(T, Window)
        /\ st.max \in {0} \cup Range(T) /\ \A x \in {0} \cup Range(T) : x <= st.max
        /\ IF T = <<>> THEN st.min = Never
           ELSE st.min \in Range(T) /\ \A x \in Range(T) : st.min <= x
    BY <2>1 DEF LifeOf
  <2> HIDE DEF T, st
  <2>3. Range(T) \subseteq Int /\ {0} \cup Range(T) \subseteq Int
    BY <2>1 DEF Range
  <2>4. st.max = Max({0} \cup Range(T))
    BY <2>2, <2>3, Greatest
  <2>5. st.min = IF T = <<>> THEN Never ELSE Min(Range(T))
    <3>1. CASE T = <<>>
      BY <2>2, <3>1
    <3>2. CASE T # <<>>
      <4>1. st.min \in Range(T) /\ \A x \in Range(T) : st.min <= x
        BY <2>2, <3>2
      <4>2. Range(T) \subseteq Int
        BY <2>3
      <4> DEFINE S == Range(T)
                 v == st.min
      <4>3. S \subseteq Int /\ v \in S /\ \A x \in S : v <= x
        BY <4>1, <4>2
      <4> HIDE DEF S, v
      <4>4. Min(S) = v
        BY <4>3, Lowest
      <4> QED
        BY <3>2, <4>4 DEF S, v
    <3> QED
      BY <3>1, <3>2
  <2> QED
    BY <2>2, <2>4, <2>5 DEF T, st
<1>3. ASSUME NEW p \in DOMAIN stats, \A i \in DOMAIN log[p] : ~Timed(log[p][i])
      PROVE  Issue(p) = "high_timeout_rate"
  <2>1. \A i \in 1..Len(log[p]) : ~Timed(log[p][i])
    BY <1>1, <1>3
  <2>2. TimesOf(log[p]) = <<>>
    BY <1>1, <2>1, TimesAre
  <2>3. stats[p].executions = Len(log[p]) /\ stats[p].timeouts = Len(log[p])
    <3>1. stats[p].timeouts = Len(log[p]) - 0 /\ stats[p].executions = Len(log[p])
      BY <1>1, <2>2 DEF LifeOf
    <3> QED
      BY <1>1, <3>1
  <2> QED
    BY <1>1, <2>3 DEF Issue
<1>4. StatsAreOfThisLife
  BY <1>2 DEF StatsAreOfThisLife
<1>5. TimedOutIsFlagged
  BY <1>3 DEF TimedOutIsFlagged
<1> QED
  BY <1>4, <1>5

LEMMA MonitorInvHolds ==
    ASSUME MonitorInv, LivesFit
    PROVE  MonitorHolds
<1>1. MonitorTypeOK
  BY DEF MonitorInv, MonitorTyped, StatsFit, MonitorTypeOK, Idle, Found
<1>2. QueueMatchesTable
  BY DEF MonitorInv, QueueFits, QueueMatchesTable
<1>3. OneEventPerCooldown
  BY DEF MonitorInv
<1> QED
  BY <1>1, <1>2, <1>3, LivesHold DEF MonitorHolds

\* The eviction queue of RecordMetric lists each tracked pattern once and never
\* more than are allowed, so that its head is there when room is needed, a
\* pattern that stays tracked emits once per cooldown, whatever recording,
\* removal and clearing come between finding an anomaly and reserving its
\* emission, and the running statistics are those of the executions since the
\* pattern is tracked.
THEOREM MonitorIsInStep == MonitorSpec => []MonitorHolds
<1>1. MonitorConstants
  BY MonitorAssumption
<1>2. MonitorInit => MonitorInv /\ LivesFit
  BY <1>1, MonitorFirst, LivesFirst
<1>3. MonitorInv /\ LivesFit /\ [MonitorNext]_monitorVars => (MonitorInv /\ LivesFit)'
  <2>1. MonitorInv /\ LivesFit /\ [MonitorNext]_monitorVars => MonitorInv'
    BY <1>1, MonitorStep
  <2>2. MonitorInv /\ LivesFit /\ [MonitorNext]_monitorVars => LivesFit'
    BY <1>1, LivesStep
  <2> HIDE DEF MonitorInv, LivesFit
  <2> QED
    BY <2>1, <2>2
<1>4. MonitorInv /\ LivesFit => MonitorHolds
  BY MonitorInvHolds
<1> QED
  BY <1>2, <1>3, <1>4, PTL DEF MonitorSpec

----------------------------------------------------------------------------
(* SecurityHeaders: the inductive invariant.                               *)

HeadersOf == [csp: CSPs, hsts: {BuildHSTS(v) : v \in HSTSs}, custom: Customs]
Cached    == [headers: HeadersOf, expires: Nat, began: Nat]
Computing == [at: {"compute"}, path: CacheKeys, began: Nat]
Setting   == [at: {"set"}, path: CacheKeys, began: Nat, headers: HeadersOf]

HeadersTyped ==
    /\ time \in 0..MaxTime /\ attached \in BOOLEAN
    /\ DOMAIN config = Blocks /\ \A b \in Blocks : config[b] \in Values[b]
    /\ DOMAIN store = Blocks /\ \A b \in Blocks : store[b] \in Values[b] \cup {Garbled}
    /\ sync \in [load: Seq(Blocks), write: Seq(Blocks)]
    /\ keyOrder \in Seq(CacheKeys)
    /\ reset \in {"idle", "restore", "delete", "detach", "done"}

\* What is in force is so now, and nothing was later than now.
CurrentFits ==
    /\ DOMAIN current = Blocks /\ \A b \in Blocks : DOMAIN current[b] = Values[b]
    /\ \A b \in Blocks : \A v \in Values[b] : current[b][v] \in Int /\ current[b][v] <= time
    /\ \A b \in Blocks : current[b][config[b]] = time

CacheFits ==
    /\ DOMAIN entries \subseteq CacheKeys /\ DOMAIN entries \subseteq Range(keyOrder)
    /\ IsFiniteSet(DOMAIN entries) /\ Cardinality(DOMAIN entries) <= MaxSize

EntriesInForce == \A k \in DOMAIN entries :
    /\ entries[k] \in Cached /\ entries[k].expires <= time + TTL
    /\ WereInForce(entries[k].headers, entries[k].began)

\* What a request has computed was in force since it began.
Asks(r) ==
    \/ request[r] = Waiting
    \/ request[r] \in Computing /\ request[r].began <= time
    \/ request[r] \in Setting /\ WereInForce(request[r].headers, request[r].began)
RequestsInForce == DOMAIN request = Callers /\ \A r \in Callers : Asks(r)

HeadersInv == HeadersTyped /\ CurrentFits /\ CacheFits /\ EntriesInForce /\ RequestsInForce

----------------------------------------------------------------------------
(* Headers that were in force stay so.                                     *)

\* The history only grows.
Grows == \A b \in Blocks : \A v \in Values[b] :
           current[b][v] \in Int /\ current'[b][v] \in Int /\ current[b][v] <= current'[b][v]

LEMMA BlocksHave ==
    ASSUME HeadersConstants
    PROVE  /\ Values["csp"] = CSPs /\ Values["hsts"] = HSTSs /\ Values["custom"] = Customs
           /\ \A b \in Blocks : Empty \in Values[b]
           /\ InOrder \in Seq(Blocks)
<1>1. Values["csp"] = CSPs /\ Values["hsts"] = HSTSs /\ Values["custom"] = Customs
  BY DEF Values
<1>2. \A b \in Blocks : Empty \in Values[b]
  BY <1>1 DEF HeadersConstants, Blocks
<1>3. InOrder \in Seq(Blocks)
  BY DEF InOrder, Blocks
<1> QED
  BY <1>1, <1>2, <1>3

LEMMA StaysInForce ==
    ASSUME HeadersConstants, Grows, NEW h \in HeadersOf, NEW n \in Nat, WereInForce(h, n)
    PROVE  WereInForce(h, n)'
<1>1. h.csp \in Values["csp"] /\ h.custom \in Values["custom"]
  BY BlocksHave DEF HeadersOf
<1>2. PICK v \in HSTSs : BuildHSTS(v) = h.hsts /\ current["hsts"][v] >= n
  BY DEF WereInForce
<1>3. v \in Values["hsts"]
  BY <1>2, BlocksHave
<1>4. current'["csp"][h.csp] >= n /\ current'["custom"][h.custom] >= n
  BY <1>1 DEF WereInForce, Grows, Blocks
<1>5. current'["hsts"][v] >= n
  BY <1>2, <1>3 DEF Grows, Blocks
<1> QED
  BY <1>2, <1>4, <1>5 DEF WereInForce

\* A cached entry, and a request, that a step leaves alone.
LEMMA EntryKept ==
    ASSUME HeadersConstants, HeadersInv, Grows, time' \in Nat, time <= time',
           NEW k \in DOMAIN entries
    PROVE  /\ entries[k] \in Cached /\ entries[k].expires <= time' + TTL
           /\ \A h, n : h = entries[k].headers /\ n = entries[k].began => WereInForce(h, n)'
<1>1. /\ entries[k] \in Cached /\ entries[k].expires <= time + TTL
      /\ WereInForce(entries[k].headers, entries[k].began) /\ time \in Nat
  BY DEF HeadersInv, EntriesInForce, HeadersTyped
<1>2. ASSUME NEW h, NEW n, h = entries[k].headers, n = entries[k].began
      PROVE  WereInForce(h, n)'
  <2>1. h \in HeadersOf /\ n \in Nat /\ WereInForce(h, n)
    BY <1>1, <1>2 DEF Cached
  <2> QED
    BY <2>1, StaysInForce
<1>3. entries[k].expires <= time' + TTL
  BY <1>1 DEF Cached, HeadersConstants
<1> QED
  BY <1>1, <1>2, <1>3

LEMMA RequestKept ==
    ASSUME HeadersConstants, HeadersInv, Grows, time' \in Nat, time <= time',
           NEW r \in Callers, request'[r] = request[r]
    PROVE  Asks(r)'
<1>1. time \in Nat /\ Asks(r)
  BY DEF HeadersInv, HeadersTyped, RequestsInForce
<1>2. CASE request[r] = Waiting
  BY <1>2 DEF Asks
<1>3. CASE request[r] \in Computing /\ request[r].began <= time
  BY <1>1, <1>3 DEF Asks, Computing
<1>4. CASE request[r] \in Setting /\ WereInForce(request[r].headers, request[r].began)
  <2>1. PICK h, n : h = request[r].headers /\ n = request[r].began
    OBVIOUS
  <2>2. h \in HeadersOf /\ n \in Nat /\ WereInForce(h, n)
    BY <1>4, <2>1 DEF Setting
  <2>3. WereInForce(h, n)'
    BY <2>2, StaysInForce
  <2>4. WereInForce(request[r].headers, request[r].began)'
    BY <2>1, <2>3
  <2> QED
    BY <1>4, <2>4 DEF Asks
<1> QED
  BY <1>1, <1>2, <1>3, <1>4 DEF Asks

\* Entries that are a subset of what they were.
LEMMA EntriesKept ==
    ASSUME HeadersConstants, HeadersInv, Grows, time' \in Nat, time <= time',
           DOMAIN entries' \subseteq DOMAIN entries,
           \A k \in DOMAIN entries' : entries'[k] = entries[k]
    PROVE  EntriesInForce'
<1> SUFFICES ASSUME NEW k \in DOMAIN entries'
             PROVE  /\ entries'[k] \in Cached /\ entries'[k].expires <= time' + TTL
                    /\ WereInForce(entries[k].headers, entries[k].began)'
  BY DEF EntriesInForce
<1>1. PICK h, n : h = entries[k].headers /\ n = entries[k].began
  OBVIOUS
<1>2. /\ entries[k] \in Cached /\ entries[k].expires <= time' + TTL
      /\ WereInForce(h, n)'
  BY <1>1, EntryKept
<1>3. WereInForce(entries[k].headers, entries[k].began)'
  BY <1>1, <1>2
<1> QED
  BY <1>2, <1>3

\* When time and history stand still, nothing is lost.
LEMMA StandsStill ==
    ASSUME HeadersInv, UNCHANGED <<time, current>>
    PROVE  Grows /\ time' \in Nat /\ time <= time'
<1>1. time \in Nat
  BY DEF HeadersInv, HeadersTyped
<1>2. Grows
  BY DEF HeadersInv, CurrentFits, Grows
<1> QED
  BY <1>1, <1>2

LEMMA AllRequestsKept ==
    ASSUME HeadersConstants, HeadersInv, Grows, time' \in Nat, time <= time', request' = request
    PROVE  RequestsInForce'
<1>1. \A r \in Callers : Asks(r)'
  BY RequestKept
<1> QED
  BY <1>1 DEF HeadersInv, RequestsInForce

----------------------------------------------------------------------------
(* The cache: an expired entry goes, a computed one is stored.             *)

LEMMA CacheGetKeeps ==
    ASSUME HeadersConstants, HeadersInv, NEW r \in Callers, NEW p \in CacheKeys, CacheGet(r, p)
    PROVE  HeadersInv'
<1> DEFINE hit     == p \in DOMAIN entries /\ time <= entries[p].expires
           expired == p \in DOMAIN entries /\ ~hit
<1>1. /\ request' = [request EXCEPT ![r] =
             IF hit THEN Waiting ELSE [at |-> "compute", path |-> p, began |-> time]]
      /\ entries' = IF expired THEN Restrict(entries, DOMAIN entries \ {p}) ELSE entries
      /\ keyOrder' = IF expired THEN RemoveFirst(keyOrder, p) ELSE keyOrder
      /\ UNCHANGED <<time, config, attached, store, sync, reset, current>>
  BY DEF CacheGet
<1>2. Grows /\ time' \in Nat /\ time <= time'
  BY <1>1, StandsStill
<1>3. /\ DOMAIN entries' = IF expired THEN DOMAIN entries \ {p} ELSE DOMAIN entries
      /\ \A k \in DOMAIN entries' : entries'[k] = entries[k]
  BY <1>1 DEF Restrict
<1> HIDE DEF hit, expired
<1>4. keyOrder \in Seq(CacheKeys)
  BY DEF HeadersInv, HeadersTyped
<1>5. RemoveFirst(keyOrder, p) \in Seq(CacheKeys)
      /\ Range(keyOrder) \ {p} \subseteq Range(RemoveFirst(keyOrder, p))
  BY <1>4, RemovedAlone
<1>6. HeadersTyped'
  BY <1>1, <1>5 DEF HeadersInv, HeadersTyped
<1>7. CurrentFits'
  BY <1>1 DEF HeadersInv, CurrentFits
<1>8. CacheFits'
  <2>1. DOMAIN entries' \subseteq DOMAIN entries
    BY <1>3
  <2>2. IsFiniteSet(DOMAIN entries') /\ Cardinality(DOMAIN entries') <= Cardinality(DOMAIN entries)
    BY <2>1, FS_Subset DEF HeadersInv, CacheFits
  <2>3. Cardinality(DOMAIN entries') \in Nat /\ Cardinality(DOMAIN entries) \in Nat
    BY <2>2, FS_CardinalityType DEF HeadersInv, CacheFits
  <2>4. DOMAIN entries' \subseteq Range(keyOrder')
    BY <1>1, <1>3, <1>5 DEF HeadersInv, CacheFits
  <2> QED
    BY <2>1, <2>2, <2>3, <2>4 DEF HeadersInv, CacheFits, HeadersConstants
<1>9. EntriesInForce'
  BY <1>2, <1>3, EntriesKept
<1>10. RequestsInForce'
  <2>1. DOMAIN request' = Callers
    BY <1>1 DEF HeadersInv, RequestsInForce
  <2>2. ASSUME NEW q \in Callers
        PROVE  Asks(q)'
    <3>1. CASE q # r
      <4>1. request'[q] = request[q]
        BY <1>1, <3>1 DEF HeadersInv, RequestsInForce
      <4> QED
        BY <1>2, <4>1, RequestKept
    <3>2. CASE q = r
      <4>1. request'[q] = IF hit THEN Waiting ELSE [at |-> "compute", path |-> p, began |-> time]
        BY <1>1, <3>2 DEF HeadersInv, RequestsInForce
      <4>2. time' = time /\ time \in Nat
        BY <1>1, <1>2
      <4> QED
        BY <4>1, <4>2 DEF Asks, Computing
    <3> QED
      BY <3>1, <3>2
  <2> QED
    BY <2>1, <2>2 DEF RequestsInForce
<1> QED
  BY <1>6, <1>7, <1>8, <1>9, <1>10 DEF HeadersInv

\* What is computed now is in force now, hence since the request began.
LEMMA ComputeKeeps ==
    ASSUME HeadersConstants, HeadersInv, NEW r \in Callers, Compute(r)
    PROVE  HeadersInv'
<1> DEFINE new == [at |-> "set", path |-> request[r].path, began |-> request[r].began,
                   headers |-> Computed(config)]
<1>1. /\ request[r].at = "compute" /\ request' = [request EXCEPT ![r] = new]
      /\ UNCHANGED <<time, config, attached, store, entries, keyOrder, sync, reset, current>>
  BY DEF Compute
<1>2. Grows /\ time' \in Nat /\ time <= time'
  BY <1>1, StandsStill
<1>3. HeadersTyped' /\ CurrentFits' /\ CacheFits'
  BY <1>1 DEF HeadersInv, HeadersTyped, CurrentFits, CacheFits
<1>4. EntriesInForce'
  BY <1>1, <1>2, EntriesKept
<1>5. request[r] \in Computing /\ request[r].began <= time
  BY <1>1 DEF HeadersInv, RequestsInForce, Asks, Waiting, Setting
<1>6. Computed(config) \in HeadersOf /\ WereInForce(Computed(config), request[r].began)
  <2>1. config["csp"] \in CSPs /\ config["hsts"] \in HSTSs /\ config["custom"] \in Customs
    BY BlocksHave DEF HeadersInv, HeadersTyped, Blocks
  <2>2. /\ current["csp"][config["csp"]] = time /\ current["hsts"][config["hsts"]] = time
        /\ current["custom"][config["custom"]] = time
    BY DEF HeadersInv, CurrentFits, Blocks
  <2>3. /\ Computed(config).csp = config["csp"] /\ Computed(config).custom = config["custom"]
        /\ Computed(config).hsts = BuildHSTS(config["hsts"])
    BY DEF Computed
  <2>4. Computed(config) \in HeadersOf
    BY <2>1 DEF Computed, HeadersOf
  <2> QED
    BY <1>5, <2>1, <2>2, <2>3, <2>4 DEF WereInForce
<1>7. new \in Setting /\ new.headers = Computed(config) /\ new.began = request[r].began
  BY <1>5, <1>6 DEF Computing, Setting
<1>8. RequestsInForce'
  <2>1. DOMAIN request' = Callers
    BY <1>1 DEF HeadersInv, RequestsInForce
  <2>2. ASSUME NEW q \in Callers
        PROVE  Asks(q)'
    <3>1. CASE q # r
      <4>1. request'[q] = request[q]
        BY <1>1, <3>1 DEF HeadersInv, RequestsInForce
      <4> QED
        BY <1>2, <4>1, RequestKept
    <3>2. CASE q = r
      <4>1. request'[q] = new
        BY <1>1, <3>2 DEF HeadersInv, RequestsInForce
      <4>2. PICK h, n : h = Computed(config) /\ n = request[r].began
        OBVIOUS
      <4>3. WereInForce(h, n)'
        <5>1. h \in HeadersOf /\ n \in Nat /\ WereInForce(h, n)
          BY <1>5, <1>6, <4>2 DEF Computing
        <5> QED
          BY <1>2, <5>1, StaysInForce
      <4> HIDE DEF new
      <4>4. request'[q].headers = h /\ request'[q].began = n /\ request'[q] \in Setting
        BY <1>7, <4>1, <4>2
      <4>5. WereInForce(request[q].headers, request[q].began)'
        BY <4>3, <4>4
      <4> QED
        BY <4>4, <4>5 DEF Asks
    <3> QED
      BY <3>1, <3>2
  <2> QED
    BY <2>1, <2>2 DEF RequestsInForce
<1> QED
  BY <1>3, <1>4, <1>8 DEF HeadersInv

\* A full cache has an entry that its order lists, so that set makes room.
LEMMA CacheSetKeeps ==
    ASSUME HeadersConstants, HeadersInv, NEW r \in Callers, CacheSet(r)
    PROVE  HeadersInv'
<1> DEFINE p     == request[r].path
           full  == p \notin DOMAIN entries /\ Cardinality(DOMAIN entries) >= MaxSize
           Evict == full /\ Evictable # {}
           kept  == DOMAIN entries \ (IF Evict THEN {Oldest} ELSE {})
           fresh == [headers |-> request[r].headers, expires |-> time + TTL,
                     began |-> request[r].began]
           left  == IF Evict THEN RemoveFirst(keyOrder, Oldest) ELSE keyOrder
<1>1. /\ request[r].at = "set" /\ request' = [request EXCEPT ![r] = Waiting]
      /\ entries' = [k \in kept \cup {p} |-> IF k = p THEN fresh ELSE entries[k]]
      /\ keyOrder' = Append(left, p)
      /\ UNCHANGED <<time, config, attached, store, sync, reset, current>>
  BY Zenon DEF CacheSet
<1>2. Grows /\ time' \in Nat /\ time <= time'
  BY <1>1, StandsStill
<1>3. request[r] \in Setting /\ WereInForce(request[r].headers, request[r].began)
  BY <1>1 DEF HeadersInv, RequestsInForce, Asks, Waiting, Computing
<1>4. p \in CacheKeys
  BY <1>3 DEF Setting
<1>5. /\ keyOrder \in Seq(CacheKeys) /\ DOMAIN entries \subseteq Range(keyOrder)
      /\ IsFiniteSet(DOMAIN entries) /\ Cardinality(DOMAIN entries) <= MaxSize
      /\ DOMAIN entries \subseteq CacheKeys
      /\ MaxSize \in Nat \ {0} /\ Cardinality(DOMAIN entries) \in Nat
  BY FS_CardinalityType DEF HeadersInv, HeadersTyped, CacheFits, HeadersConstants
<1>6. ASSUME full
      PROVE  Evict /\ Oldest \in DOMAIN entries
  <2>1. Evictable # {}
    <3>1. DOMAIN entries # {}
      BY <1>5, <1>6, FS_EmptySet
    <3> QED
      BY <1>5, <3>1 DEF Evictable, Range
  <2>2. Oldest \in DOMAIN entries
    <3>1. Evictable \subseteq Nat
      BY <1>5 DEF Evictable
    <3>2. Min(Evictable) \in Evictable
      BY <2>1, <3>1, Least
    <3> QED
      BY <3>2 DEF Evictable, Oldest
  <2> QED
    BY <1>6, <2>1, <2>2
<1>7. /\ kept \subseteq DOMAIN entries /\ left \in Seq(CacheKeys) /\ kept \subseteq Range(left)
      /\ IsFiniteSet(kept) /\ Cardinality(kept) \in Nat
      /\ Cardinality(kept) <= Cardinality(DOMAIN entries)
      /\ (full => Cardinality(kept) = Cardinality(DOMAIN entries) - 1)
  <2>1. CASE ~Evict
    <3>1. kept = DOMAIN entries /\ left = keyOrder /\ ~full
      BY <1>6, <2>1
    <3> HIDE DEF kept, left
    <3> QED
      BY <1>5, <3>1
  <2>2. CASE Evict
    <3>1. kept = DOMAIN entries \ {Oldest} /\ left = RemoveFirst(keyOrder, Oldest)
      BY <2>2
    <3>2. Oldest \in DOMAIN entries
      BY <1>6, <2>2
    <3>3. IsFiniteSet(kept) /\ Cardinality(kept) = Cardinality(DOMAIN entries) - 1
      BY <1>5, <3>1, <3>2, FS_RemoveElement
    <3>4. left \in Seq(CacheKeys) /\ Range(keyOrder) \ {Oldest} \subseteq Range(left)
      BY <1>5, <3>1, RemovedAlone
    <3>5. Cardinality(kept) \in Nat
      BY <3>3, FS_CardinalityType
    <3> HIDE DEF kept, left
    <3> QED
      BY <1>5, <3>1, <3>3, <3>4, <3>5
  <2> QED
    BY <2>1, <2>2
<1>8. p \notin DOMAIN entries /\ ~full => Cardinality(DOMAIN entries) < MaxSize
  BY <1>5
<1>9. fresh \in Cached /\ fresh.expires = time + TTL /\ fresh.headers = request[r].headers
      /\ fresh.began = request[r].began
  <2>1. time \in Nat /\ TTL \in Nat
    BY DEF HeadersInv, HeadersTyped, HeadersConstants
  <2> QED
    BY <1>3, <2>1 DEF Setting, Cached
<1> HIDE DEF kept, left, fresh, Evict
<1>10. /\ Append(left, p) \in Seq(CacheKeys)
       /\ Range(Append(left, p)) = Range(left) \cup {p}
  BY <1>4, <1>7, Appended
<1>11. DOMAIN entries' = kept \cup {p}
  BY <1>1
<1>12. HeadersTyped' /\ CurrentFits'
  BY <1>1, <1>10 DEF HeadersInv, HeadersTyped, CurrentFits
<1>13. CacheFits'
  <2>1. IsFiniteSet(kept \cup {p}) /\ Cardinality(kept \cup {p}) <= MaxSize
    <3>1. CASE p \in kept
      <4>1. kept \cup {p} = kept
        BY <3>1
      <4>2. /\ IsFiniteSet(kept \cup {p}) <=> IsFiniteSet(kept)
            /\ Cardinality(kept \cup {p}) = Cardinality(kept)
        BY <4>1
      <4> QED
        BY <1>5, <1>7, <4>2
    <3>2. CASE p \notin kept
      <4>1. /\ IsFiniteSet(kept \cup {p})
            /\ Cardinality(kept \cup {p}) = Cardinality(kept) + 1
        BY <1>7, <3>2, FS_AddElement
      <4>2. CASE full
        BY <1>5, <1>7, <4>1, <4>2
      <4>3. CASE ~full
        <5>1. kept = DOMAIN entries
          BY <4>3 DEF kept, Evict
        <5>2. Cardinality(kept) + 1 <= MaxSize
          BY <1>5, <1>7, <1>8, <3>2, <4>3, <5>1
        <5> QED
          BY <4>1, <5>2
      <4> QED
        BY <4>2, <4>3
    <3> QED
      BY <3>1, <3>2
  <2>2. kept \cup {p} \subseteq CacheKeys /\ kept \cup {p} \subseteq Range(keyOrder')
    BY <1>1, <1>4, <1>5, <1>7, <1>10
  <2> QED
    BY <1>11, <2>1, <2>2 DEF CacheFits
<1>14. EntriesInForce'
  <2> SUFFICES ASSUME NEW k \in kept \cup {p}
               PROVE  /\ entries'[k] \in Cached /\ entries'[k].expires <= time' + TTL
                      /\ WereInForce(entries[k].headers, entries[k].began)'
    BY <1>11 DEF EntriesInForce
  <2>1. CASE k = p
    <3>1. entries'[k] = fresh
      BY <1>1, <2>1
    <3>2. PICK h, n : h = request[r].headers /\ n = request[r].began
      OBVIOUS
    <3>3. h \in HeadersOf /\ n \in Nat /\ WereInForce(h, n)
      BY <1>3, <3>2 DEF Setting
    <3>4. WereInForce(h, n)'
      BY <1>2, <3>3, StaysInForce
    <3>5. entries'[k].headers = h /\ entries'[k].began = n
      BY <1>9, <3>1, <3>2
    <3>6. WereInForce(entries[k].headers, entries[k].began)'
      BY <3>4, <3>5
    <3>7. time' = time /\ time \in Nat /\ TTL \in Nat
      BY <1>1 DEF HeadersInv, HeadersTyped, HeadersConstants
    <3> QED
      BY <1>9, <3>1, <3>6, <3>7
  <2>2. CASE k # p
    <3>1. entries'[k] = entries[k] /\ k \in DOMAIN entries
      BY <1>1, <1>7, <2>2
    <3>2. PICK h, n : h = entries[k].headers /\ n = entries[k].began
      OBVIOUS
    <3>3. /\ entries[k] \in Cached /\ entries[k].expires <= time' + TTL
          /\ WereInForce(h, n)'
      BY <1>2, <3>1, <3>2, EntryKept
    <3>4. WereInForce(entries[k].headers, entries[k].began)'
      BY <3>1, <3>2, <3>3
    <3> QED
      BY <3>1, <3>3, <3>4
  <2> QED
    BY <2>1, <2>2
<1>15. RequestsInForce'
  <2>1. DOMAIN request' = Callers /\ request'[r] = Waiting
    BY <1>1 DEF HeadersInv, RequestsInForce
  <2>2. ASSUME NEW q \in Callers
        PROVE  Asks(q)'
    <3>1. CASE q # r
      <4>1. request'[q] = request[q]
        BY <1>1, <3>1 DEF HeadersInv, RequestsInForce
      <4> QED
        BY <1>2, <4>1, RequestKept
    <3>2. CASE q = r
      BY <2>1, <3>2 DEF Asks
    <3> QED
      BY <3>1, <3>2
  <2> QED
    BY <2>1, <2>2 DEF RequestsInForce
<1> QED
  BY <1>12, <1>13, <1>14, <1>15 DEF HeadersInv

----------------------------------------------------------------------------
(* Redis and Reset.                                                        *)

\* Loading a block puts its value in force from now on.
LEMMA LoadKeeps ==
    ASSUME HeadersConstants, HeadersInv, NEW fails \in BOOLEAN, LoadBlock(fails)
    PROVE  HeadersInv'
<1> DEFINE b == Head(sync.load)
           v == IF b = "custom" /\ store[b] \notin Valid THEN Empty ELSE store[b]
           gone   == sync.load = InOrder /\ ~attached
           loaded == ~gone /\ ~fails /\ store[b] \notin {Empty, Garbled}
<1>1. /\ sync.load # <<>> /\ sync' = [sync EXCEPT !.load = IF gone THEN <<>> ELSE Tail(sync.load)]
      /\ config' = IF loaded THEN [config EXCEPT ![b] = v] ELSE config
      /\ current' = IF loaded THEN [current EXCEPT ![b] = [current[b] EXCEPT ![v] = time]]
                    ELSE current
      /\ UNCHANGED <<time, attached, store, entries, keyOrder, request, reset>>
  BY DEF LoadBlock
<1>2. b \in Blocks /\ sync' \in [load: Seq(Blocks), write: Seq(Blocks)]
  <2>1. sync.load \in Seq(Blocks) /\ sync.load # <<>>
    BY <1>1 DEF HeadersInv, HeadersTyped
  <2>2. Head(sync.load) \in Blocks /\ Tail(sync.load) \in Seq(Blocks) /\ <<>> \in Seq(Blocks)
    BY <2>1
  <2> QED
    BY <1>1, <2>2 DEF HeadersInv, HeadersTyped
<1>3. loaded => v \in Values[b]
  <2>1. store[b] \in Values[b] \cup {Garbled} /\ Empty \in Values[b]
    BY <1>2, BlocksHave DEF HeadersInv, HeadersTyped
  <2> QED
    BY <2>1
<1>4. /\ time \in Nat /\ time' = time /\ DOMAIN current = Blocks /\ DOMAIN config = Blocks
      /\ \A a \in Blocks : /\ DOMAIN current[a] = Values[a] /\ config[a] \in Values[a]
                           /\ current[a][config[a]] = time
      /\ \A a \in Blocks : \A u \in Values[a] : current[a][u] \in Int /\ current[a][u] <= time
  BY <1>1 DEF HeadersInv, HeadersTyped, CurrentFits
<1> HIDE DEF b, v, gone, loaded
<1>5. DOMAIN config' = Blocks /\ \A a \in Blocks : config'[a] = IF loaded /\ a = b THEN v ELSE config[a]
  BY <1>1, <1>2, <1>4
<1>6. /\ DOMAIN current' = Blocks /\ \A a \in Blocks : DOMAIN current'[a] = Values[a]
      /\ \A a \in Blocks : \A u \in Values[a] :
           current'[a][u] = IF loaded /\ a = b /\ u = v THEN time ELSE current[a][u]
  <2>1. CASE loaded
    <3>1. current' = [current EXCEPT ![b] = [current[b] EXCEPT ![v] = time]]
      BY <1>1, <2>1
    <3>2. DOMAIN current' = Blocks
      BY <1>4, <3>1
    <3>3. ASSUME NEW a \in Blocks
          PROVE  /\ DOMAIN current'[a] = Values[a]
                 /\ \A u \in Values[a] :
                      current'[a][u] = IF a = b /\ u = v THEN time ELSE current[a][u]
      <4>1. CASE a = b
        <5>1. current'[a] = [current[b] EXCEPT ![v] = time]
          BY <1>2, <1>4, <3>1, <4>1
        <5> QED
          BY <1>2, <1>4, <4>1, <5>1
      <4>2. CASE a # b
        <5>1. current'[a] = current[a]
          BY <1>4, <3>1, <4>2
        <5> QED
          BY <1>4, <4>2, <5>1
      <4> QED
        BY <4>1, <4>2
    <3> QED
      BY <2>1, <3>2, <3>3
  <2>2. CASE ~loaded
    BY <1>1, <1>4, <2>2
  <2> QED
    BY <2>1, <2>2
<1>7. Grows /\ time' \in Nat /\ time <= time'
  BY <1>4, <1>6 DEF Grows
<1>8. CurrentFits'
  <2>1. \A a \in Blocks : \A u \in Values[a] : current'[a][u] \in Int /\ current'[a][u] <= time'
    BY <1>4, <1>6
  <2>2. \A a \in Blocks : current'[a][config'[a]] = time'
    BY <1>3, <1>4, <1>5, <1>6
  <2> QED
    BY <1>6, <2>1, <2>2 DEF CurrentFits
<1>9. HeadersTyped'
  <2>1. \A a \in Blocks : config'[a] \in Values[a]
    BY <1>3, <1>4, <1>5
  <2> QED
    BY <1>1, <1>2, <1>5, <2>1 DEF HeadersInv, HeadersTyped
<1>10. CacheFits'
  BY <1>1 DEF HeadersInv, CacheFits
<1>11. EntriesInForce'
  BY <1>1, <1>7, EntriesKept
<1>12. RequestsInForce'
  BY <1>1, <1>7, AllRequestsKept
<1> QED
  BY <1>8, <1>9, <1>10, <1>11, <1>12 DEF HeadersInv

\* The steps that touch neither the configuration nor what is cached of it.
LEMMA ElsewhereKeeps ==
    ASSUME HeadersConstants, HeadersInv, HeadersTyped',
           UNCHANGED <<time, config, entries, keyOrder, request, current>>
    PROVE  HeadersInv'
<1>1. Grows /\ time' \in Nat /\ time <= time'
  BY StandsStill
<1>2. CurrentFits' /\ CacheFits'
  BY DEF HeadersInv, CurrentFits, CacheFits
<1>3. EntriesInForce'
  BY <1>1, EntriesKept
<1>4. RequestsInForce'
  BY <1>1, AllRequestsKept
<1> QED
  BY <1>2, <1>3, <1>4 DEF HeadersInv

LEMMA InitializeKeeps ==
    ASSUME HeadersConstants, HeadersInv, InitializeRedis
    PROVE  HeadersInv'
<1>1. /\ attached' = TRUE /\ sync' = [load |-> InOrder, write |-> InOrder]
      /\ UNCHANGED <<time, config, store, entries, keyOrder, request, reset, current>>
  BY DEF InitializeRedis
<1>2. sync' \in [load: Seq(Blocks), write: Seq(Blocks)]
  BY <1>1, BlocksHave
<1>3. HeadersTyped'
  BY <1>1, <1>2 DEF HeadersInv, HeadersTyped
<1> QED
  BY <1>1, <1>3, ElsewhereKeeps

LEMMA StoreKeeps ==
    ASSUME HeadersConstants, HeadersInv, NEW fails \in BOOLEAN, StoreBlock(fails)
    PROVE  HeadersInv'
<1> DEFINE b == Head(sync.write)
<1>1. /\ sync.write # <<>>
      /\ UNCHANGED <<time, config, attached, entries, keyOrder, request, reset, current>>
      /\ \/ sync' = [sync EXCEPT !.write = <<>>] /\ store' = store
         \/ /\ sync' = [sync EXCEPT !.write = Tail(sync.write)]
            /\ store' = store \/ store' = [store EXCEPT ![b] = config[b]]
  BY DEF StoreBlock
<1>2. sync \in [load: Seq(Blocks), write: Seq(Blocks)]
  BY DEF HeadersInv, HeadersTyped
<1>3. b \in Blocks /\ Tail(sync.write) \in Seq(Blocks) /\ <<>> \in Seq(Blocks)
  <2>1. sync.write \in Seq(Blocks) /\ sync.write # <<>>
    BY <1>1, <1>2
  <2> QED
    BY <2>1
<1>4. sync' \in [load: Seq(Blocks), write: Seq(Blocks)]
  BY <1>1, <1>2, <1>3
<1> HIDE DEF b
<1>5. DOMAIN store' = Blocks /\ \A a \in Blocks : store'[a] \in Values[a] \cup {Garbled}
  BY <1>1, <1>3 DEF HeadersInv, HeadersTyped
<1>6. HeadersTyped'
  BY <1>1, <1>4, <1>5 DEF HeadersInv, HeadersTyped
<1> QED
  BY <1>1, <1>6, ElsewhereKeeps

LEMMA PurgeKeeps ==
    ASSUME HeadersConstants, HeadersInv, Purge
    PROVE  HeadersInv'
<1>1. /\ reset' = "restore" /\ entries' = <<>> /\ keyOrder' = <<>>
      /\ UNCHANGED <<time, config, attached, store, request, sync, current>>
  BY DEF Purge
<1>2. Grows /\ time' \in Nat /\ time <= time'
  BY <1>1, StandsStill
<1>3. DOMAIN entries' = {} /\ IsFiniteSet({}) /\ Cardinality({}) = 0
  BY <1>1, FS_EmptySet
<1>4. HeadersTyped' /\ CurrentFits'
  BY <1>1 DEF HeadersInv, HeadersTyped, CurrentFits
<1>5. CacheFits' /\ EntriesInForce'
  BY <1>3 DEF CacheFits, EntriesInForce, HeadersConstants
<1>6. RequestsInForce'
  BY <1>1, <1>2, AllRequestsKept
<1> QED
  BY <1>4, <1>5, <1>6 DEF HeadersInv

LEMMA RestoreKeeps ==
    ASSUME HeadersConstants, HeadersInv, Restore
    PROVE  HeadersInv'
<1>1. /\ reset' \in {"delete", "detach"}
      /\ UNCHANGED <<time, config, attached, store, entries, keyOrder, request, sync, current>>
  BY DEF Restore
<1>2. HeadersTyped'
  BY <1>1 DEF HeadersInv, HeadersTyped
<1> QED
  BY <1>1, <1>2, ElsewhereKeeps

LEMMA DeleteKeeps ==
    ASSUME HeadersConstants, HeadersInv, NEW fails \in BOOLEAN, Delete(fails)
    PROVE  HeadersInv'
<1>1. /\ reset' = "detach"
      /\ store' = store \/ store' = [b \in Blocks |-> Empty]
      /\ UNCHANGED <<time, config, attached, entries, keyOrder, request, sync, current>>
  BY DEF Delete
<1>2. DOMAIN store' = Blocks /\ \A b \in Blocks : store'[b] \in Values[b] \cup {Garbled}
  BY <1>1, BlocksHave DEF HeadersInv, HeadersTyped
<1>3. HeadersTyped'
  BY <1>1, <1>2 DEF HeadersInv, HeadersTyped
<1> QED
  BY <1>1, <1>3, ElsewhereKeeps

LEMMA DetachKeeps ==
    ASSUME HeadersConstants, HeadersInv, Detach
    PROVE  HeadersInv'
<1>1. /\ reset' = "done" /\ attached' = FALSE
      /\ UNCHANGED <<time, config, store, entries, keyOrder, request, sync, current>>
  BY DEF Detach
<1>2. HeadersTyped'
  BY <1>1 DEF HeadersInv, HeadersTyped
<1> QED
  BY <1>1, <1>2, ElsewhereKeeps

\* What is in force stays so while time passes.
LEMMA PassKeeps ==
    ASSUME HeadersConstants, HeadersInv, Pass
    PROVE  HeadersInv'
<1>1. /\ time < MaxTime /\ time' = time + 1
      /\ current' = [b \in Blocks |-> [current[b] EXCEPT ![config[b]] = time']]
      /\ UNCHANGED <<config, attached, store, entries, keyOrder, request, sync, reset>>
  BY DEF Pass
<1>2. time \in Nat /\ time' \in 0..MaxTime /\ time <= time'
  BY <1>1 DEF HeadersInv, HeadersTyped, HeadersConstants
<1>3. \A b \in Blocks : config[b] \in Values[b] /\ DOMAIN current[b] = Values[b]
  BY DEF HeadersInv, HeadersTyped, CurrentFits
<1>4. /\ DOMAIN current' = Blocks /\ \A b \in Blocks : DOMAIN current'[b] = Values[b]
      /\ \A b \in Blocks : \A v \in Values[b] :
           current'[b][v] = IF v = config[b] THEN time' ELSE current[b][v]
  <2>1. \A b \in Blocks : current'[b] = [current[b] EXCEPT ![config[b]] = time']
    BY <1>1
  <2> QED
    BY <1>1, <1>3, <2>1
<1>5. \A b \in Blocks : \A v \in Values[b] : current[b][v] \in Int /\ current[b][v] <= time
  BY DEF HeadersInv, CurrentFits
<1>6. Grows /\ time' \in Nat
  BY <1>2, <1>4, <1>5 DEF Grows
<1>7. CurrentFits'
  BY <1>1, <1>2, <1>3, <1>4, <1>5 DEF CurrentFits
<1>8. HeadersTyped' /\ CacheFits'
  BY <1>1, <1>2 DEF HeadersInv, HeadersTyped, CacheFits
<1>9. EntriesInForce'
  BY <1>1, <1>2, <1>6, EntriesKept
<1>10. RequestsInForce'
  BY <1>1, <1>2, <1>6, AllRequestsKept
<1> QED
  BY <1>7, <1>8, <1>9, <1>10 DEF HeadersInv

LEMMA HeadersFirst ==
    ASSUME HeadersConstants, HeadersInit
    PROVE  HeadersInv
<1>1. /\ time = 0 /\ config = Built /\ attached = FALSE /\ store \in Stored
      /\ entries = <<>> /\ keyOrder = <<>> /\ request = [r \in Callers |-> Waiting]
      /\ sync = [load |-> <<>>, write |-> <<>>] /\ reset = "idle"
      /\ current = [b \in Blocks |-> [v \in Values[b] |-> IF v = Built[b] THEN 0 ELSE -1]]
  BY DEF HeadersInit
<1>2. DOMAIN config = Blocks /\ \A b \in Blocks : config[b] \in Values[b]
  BY <1>1, BlocksHave DEF HeadersConstants, Blocks
<1>3. DOMAIN store = Blocks /\ \A b \in Blocks : store[b] \in Values[b] \cup {Garbled}
  <2>1. store \in [csp: CSPs \cup {Garbled}, hsts: HSTSs \cup {Garbled},
                  custom: Customs \cup {Garbled}]
    BY <1>1 DEF HeadersConstants
  <2> QED
    BY <2>1, BlocksHave DEF Blocks
<1>4. HeadersTyped
  <2>1. sync \in [load: Seq(Blocks), write: Seq(Blocks)]
    <3>1. <<>> \in Seq(Blocks)
      OBVIOUS
    <3> QED
      BY <1>1, <3>1
  <2>2. keyOrder \in Seq(CacheKeys)
    BY <1>1
  <2>3. time \in 0..MaxTime
    BY <1>1 DEF HeadersConstants
  <2> QED
    BY <1>1, <1>2, <1>3, <2>1, <2>2, <2>3 DEF HeadersTyped
<1>5. CurrentFits
  BY <1>1, <1>2 DEF CurrentFits
<1>6. DOMAIN entries = {} /\ IsFiniteSet({}) /\ Cardinality({}) = 0
  BY <1>1, FS_EmptySet
<1>7. CacheFits /\ EntriesInForce
  BY <1>6 DEF CacheFits, EntriesInForce, HeadersConstants
<1>8. RequestsInForce
  BY <1>1 DEF RequestsInForce, Asks
<1> QED
  BY <1>4, <1>5, <1>7, <1>8 DEF HeadersInv

LEMMA HeadersStep ==
    ASSUME HeadersConstants, HeadersInv, [HeadersNext]_headersVars
    PROVE  HeadersInv'
<1>1. CASE \E r \in Callers, p \in CacheKeys : CacheGet(r, p)
  BY <1>1, CacheGetKeeps
<1>2. CASE \E r \in Callers : Compute(r)
  BY <1>2, ComputeKeeps
<1>3. CASE \E r \in Callers : CacheSet(r)
  BY <1>3, CacheSetKeeps
<1>4. CASE InitializeRedis
  BY <1>4, InitializeKeeps
<1>5. CASE \E fails \in BOOLEAN : LoadBlock(fails)
  BY <1>5, LoadKeeps
<1>6. CASE \E fails \in BOOLEAN : StoreBlock(fails)
  BY <1>6, StoreKeeps
<1>7. CASE \E fails \in BOOLEAN : Delete(fails)
  BY <1>7, DeleteKeeps
<1>8. CASE Purge
  BY <1>8, PurgeKeeps
<1>9. CASE Restore
  BY <1>9, RestoreKeeps
<1>10. CASE Pass
  BY <1>10, PassKeeps
<1>11. CASE UNCHANGED headersVars
  <2>1. HeadersTyped' /\ UNCHANGED <<time, config, entries, keyOrder, request, current>>
    BY <1>11 DEF headersVars, HeadersInv, HeadersTyped
  <2> QED
    BY <2>1, ElsewhereKeeps
<1>12. CASE Detach
  BY <1>12, DetachKeeps
<1> HIDE DEF HeadersInv
<1> QED
  BY <1>1, <1>2, <1>3, <1>4, <1>5, <1>6, <1>7, <1>8, <1>9, <1>10, <1>11, <1>12 DEF HeadersNext

\* buildHSTS asks for a preload only with the age and the subdomains it takes.
LEMMA PreloadBuilt ==
    ASSUME HeadersConstants, NEW v \in HSTSs, BuildHSTS(v) # Empty, BuildHSTS(v).preload
    PROVE  BuildHSTS(v).age >= Year /\ BuildHSTS(v).subdomains
<1>1. v # Empty
  BY DEF BuildHSTS
<1>2. v.preload \in BOOLEAN /\ v.subdomains \in BOOLEAN
  BY <1>1 DEF HeadersConstants
<1>3. /\ BuildHSTS(v).age = v.age /\ BuildHSTS(v).subdomains = (v.subdomains \/ v.preload)
      /\ BuildHSTS(v).preload = (v.preload /\ v.age >= Year)
  BY <1>1 DEF BuildHSTS
<1> QED
  BY <1>2, <1>3

LEMMA HeadersInvHolds ==
    ASSUME HeadersConstants, HeadersInv
    PROVE  HeadersHold
<1>1. HeadersTypeOK /\ HeadersBounded
  BY DEF HeadersInv, HeadersTyped, CacheFits, HeadersTypeOK, HeadersBounded
<1>2. CachedWereInForce
  BY DEF HeadersInv, EntriesInForce, CachedWereInForce
<1>3. PreloadQualifies
  <2> SUFFICES ASSUME NEW k \in DOMAIN entries, NEW h, h = entries[k].headers.hsts,
                      h # Empty, h.preload
               PROVE  h.age >= Year /\ h.subdomains
    BY DEF PreloadQualifies
  <2>1. entries[k].headers \in HeadersOf
    BY DEF HeadersInv, EntriesInForce, Cached
  <2>2. PICK v \in HSTSs : h = BuildHSTS(v)
    BY <2>1 DEF HeadersOf
  <2> QED
    BY <2>2, PreloadBuilt
<1> QED
  BY <1>1, <1>2, <1>3 DEF HeadersHold

\* The headers that GetHeaders serves from its cache were in force, block by
\* block, since the request that computed them began, and expire in time; a
\* preload qualifies; and however requests for one path duplicate it in the
\* order, eviction finds a cached path there and keeps the bound.
THEOREM HeadersAreInForce == HeadersSpec => []HeadersHold
<1>1. HeadersConstants
  BY HeadersAssumption
<1>2. HeadersInit => HeadersInv
  BY <1>1, HeadersFirst
<1>3. HeadersInv /\ [HeadersNext]_headersVars => HeadersInv'
  BY <1>1, HeadersStep
<1>4. HeadersInv => HeadersHold
  BY <1>1, HeadersInvHolds
<1> QED
  BY <1>2, <1>3, <1>4, PTL DEF HeadersSpec

----------------------------------------------------------------------------
(* PatternRegistry: the inductive invariant.                               *)

\* Entries of the validation cache agree with the probe of this engine.
AsProbed(entries_) == /\ DOMAIN entries_ \subseteq Texts
                      /\ \A t \in DOMAIN entries_ : entries_[t] = (t \in Safe)

Probed == /\ DOMAIN verdicts = Workers /\ verdicts = [w \in Workers |-> verdicts[w]]
          /\ \A w \in Workers : AsProbed(verdicts[w])
          /\ file.version \in {"this", "old", "corrupt"}
          /\ file.version = "this" => AsProbed(file.entries)

Listed == /\ custom \in [Workers -> Seq(Texts)] /\ compiled = custom
          /\ \A w \in Workers : IsInjective(custom[w]) /\ Range(custom[w]) \subseteq Safe

DefaultsSafe == /\ defaults \in [Workers -> Seq(Sources)]
                /\ \A w \in Workers : Range(defaults[w]) \subseteq Safe

Persisted == /\ redis \in Seq(Texts) /\ writer \in Workers \cup {NoWriter}
             /\ connected \in [Workers -> BOOLEAN] /\ PersistedIsCurrent

\* What waits for the lock has been probed; a restored text is no source.
Waits == [kind: {"custom", "restore"}, text: Texts \cap Safe]
           \cup [kind: {"default"}, text: Sources \cap Safe]
WaitingSafe == validated \in [Workers -> SUBSET Waits]

RegistryInv == /\ Probed /\ Listed /\ DefaultsSafe /\ Persisted /\ WaitingSafe
               /\ restore \in [Workers -> Seq(Texts)]

----------------------------------------------------------------------------
(* PatternRegistry: operators.                                             *)

\* The filter over the compiled entries removes the one that is listed.
LEMMA CompiledWithout ==
    ASSUME NEW w, compiled[w] \in Seq(Texts), IsInjective(compiled[w]),
           NEW p \in Range(compiled[w])
    PROVE  Compiled(w, p) = RemoveFirst(compiled[w], p)
<1> DEFINE s == compiled[w]
           r == RemoveFirst(s, p)
           Body(f) == [n \in 0..Len(s) |->
                         IF n = 0 THEN <<>>
                         ELSE IF s[n] = p THEN f[n-1] ELSE Append(f[n-1], s[n])]
           g == CHOOSE f : f = Body(f)
<1>1. /\ s \in Seq(Texts) /\ Len(s) \in Nat
      /\ \A i, j \in 1..Len(s) : s[i] = s[j] => i = j
  BY DEF IsInjective
<1>2. /\ r \in Seq(Texts) /\ Len(r) = Len(s) - 1
      /\ \E k \in 1..Len(s) :
            s[k] = p /\ \A i \in 1..(Len(s) - 1) : r[i] = IF i < k THEN s[i] ELSE s[i + 1]
  <2>1. s \in Seq(Texts) /\ p \in Range(s)
    BY <1>1
  <2> HIDE DEF s
  <2> QED
    BY <2>1, RemovedFirst
<1>3. Compiled(w, p) = g[Len(s)]
  BY DEF Compiled
<1> HIDE DEF s, r
<1>4. PICK k \in 1..Len(s) :
        s[k] = p /\ \A i \in 1..(Len(s) - 1) : r[i] = IF i < k THEN s[i] ELSE s[i + 1]
  BY <1>2
<1> DEFINE Size(n) == IF n < k THEN n ELSE n - 1
           W(n) == [i \in 1..Size(n) |-> IF i < k THEN s[i] ELSE s[i + 1]]
<1>5. ASSUME NEW n \in 0..Len(s)
      PROVE  W(n) = IF n = 0 THEN <<>>
                    ELSE IF s[n] = p THEN W(n-1) ELSE Append(W(n-1), s[n])
  <2>1. CASE n = 0
    <3>1. Size(0) = 0
      BY <1>1, <1>4
    <3> QED
      BY <2>1, <3>1
  <2>2. CASE n = k
    <3>1. n # 0 /\ s[n] = p /\ Size(n) = Size(n - 1)
      BY <1>1, <1>4, <2>2
    <3> QED
      BY <3>1
  <2>3. CASE n # 0 /\ n # k
    <3>1. n \in 1..Len(s) /\ s[n] # p
      BY <1>1, <1>4, <2>3
    <3>2. Size(n) = Size(n - 1) + 1 /\ Size(n - 1) \in Nat
      BY <1>1, <1>4, <2>3
    <3>3. (IF Size(n) < k THEN s[Size(n)] ELSE s[Size(n) + 1]) = s[n]
      BY <1>1, <1>4, <2>3
    <3> HIDE DEF Size
    <3>4. W(n - 1) \in Seq(Texts) /\ Len(W(n - 1)) = Size(n - 1)
      <4>1. ASSUME NEW i \in 1..Size(n - 1)
            PROVE  (IF i < k THEN s[i] ELSE s[i + 1]) \in Texts
        <5>1. i \in 1..Len(s) /\ (~(i < k) => i + 1 \in 1..Len(s))
          BY <1>1, <1>4, <2>3, <3>1 DEF Size
        <5> QED
          BY <1>1, <5>1
      <4> QED
        BY <3>2, <4>1
    <3>5. W(n) = Append(W(n - 1), s[n])
      <4>1. /\ Append(W(n - 1), s[n]) = [i \in 1..(Size(n - 1) + 1) |->
                  IF i = Size(n - 1) + 1 THEN s[n] ELSE W(n - 1)[i]]
        <5> DEFINE v == W(n - 1)
        <5>1. v \in Seq(Texts) /\ Len(v) = Size(n - 1) /\ s[n] \in Texts
          <6> HIDE DEF W
          <6> QED
            BY <1>1, <3>1, <3>4
        <5> HIDE DEF v
        <5>2. Append(v, s[n]) = [i \in 1..(Size(n - 1) + 1) |->
                                   IF i = Size(n - 1) + 1 THEN s[n] ELSE v[i]]
          BY <3>2, <5>1
        <5> QED
          BY <5>2 DEF v
      <4>2. \A i \in 1..Size(n) : i # Size(n) => i \in 1..Size(n - 1)
        BY <3>2
      <4> QED
        BY <3>2, <3>3, <4>1, <4>2
    <3> HIDE DEF W
    <3> QED
      BY <3>1, <3>5, <2>3
  <2> QED
    BY <2>1, <2>2, <2>3
<1> HIDE DEF W
<1>6. g = Body(g)
  <2> DEFINE f == [n \in 0..Len(s) |-> W(n)]
  <2>1. ASSUME NEW n \in 0..Len(s)
        PROVE  f[n] = IF n = 0 THEN <<>>
                      ELSE IF s[n] = p THEN f[n-1] ELSE Append(f[n-1], s[n])
    <3>1. n # 0 => n - 1 \in 0..Len(s)
      BY <1>1
    <3>2. f[n] = W(n) /\ (n # 0 => f[n-1] = W(n-1))
      BY <3>1
    <3> HIDE DEF f
    <3> QED
      BY <1>5, <3>2
  <2>2. f = Body(f)
    BY <2>1
  <2> HIDE DEF Body, f
  <2> QED
    BY <2>2
<1>7. \A n \in 0..Len(s) : g[n] = IF n = 0 THEN <<>>
                      ELSE IF s[n] = p THEN g[n-1] ELSE Append(g[n-1], s[n])
  <2> HIDE DEF g
  <2> QED
    BY <1>6
<1> HIDE DEF g, Body
<1> DEFINE T == {n \in Nat : n <= Len(s) => g[n] = W(n)}
<1>8. 0 \in T
  <2>1. 0 \in 0..Len(s)
    BY <1>1
  <2> QED
    BY <1>5, <1>7, <2>1
<1>9. ASSUME NEW n \in Nat, n \in T
      PROVE  n + 1 \in T
  <2>1. SUFFICES ASSUME n + 1 <= Len(s)
                 PROVE  g[n + 1] = W(n + 1)
    OBVIOUS
  <2>2. n + 1 \in 0..Len(s) /\ n + 1 # 0 /\ (n + 1) - 1 = n /\ g[n] = W(n)
    BY <1>1, <1>9, <2>1
  <2> QED
    BY <1>5, <1>7, <2>2
<1>10. g[Len(s)] = W(Len(s))
  <2>1. Nat \subseteq T
    <3> HIDE DEF T
    <3> QED
      BY <1>8, <1>9, SetInduction
  <2> QED
    BY <1>1, <2>1
<1>11. W(Len(s)) = r
  <2>1. Size(Len(s)) = Len(s) - 1
    BY <1>1, <1>4
  <2>2. r = [i \in 1..(Len(s) - 1) |-> r[i]]
    BY <1>2
  <2> QED
    BY <1>4, <2>1, <2>2 DEF W
<1> QED
  BY <1>3, <1>10, <1>11 DEF s, r

\* What is persisted is a list of texts.
LEMMA JoinedTexts ==
    ASSUME RegistryAssumption, NEW s \in Seq(Texts)
    PROVE  Joined(s) \in Seq(Texts)
<1> DEFINE ss == [i \in 1..Len(s) |-> Pieces[s[i]]]
<1>1. ss \in Seq(Seq(Texts))
  <2>1. Len(s) \in Nat /\ \A i \in 1..Len(s) : s[i] \in Texts
    OBVIOUS
  <2>2. \A i \in 1..Len(s) : Pieces[s[i]] \in Seq(Texts)
    BY <2>1 DEF RegistryAssumption
  <2> QED
    BY <2>1, <2>2
<1> HIDE DEF ss
<1>2. FlattenSeq(ss) \in Seq(Texts)
  BY <1>1, Flattened
<1> QED
  BY <1>2 DEF Joined, ss

\* A verdict is the probe's, cached or not, and what is cached stays so.
LEMMA VerdictAsProbed ==
    ASSUME Probed, NEW w \in Workers, NEW t \in Texts, Verdict(w, t)
    PROVE  t \in Safe
<1>1. AsProbed(verdicts[w])
  BY DEF Probed
<1>2. CASE t \in DOMAIN verdicts[w]
  <2>1. verdicts[w][t] = (t \in Safe) /\ verdicts[w][t]
    BY <1>1, <1>2 DEF AsProbed, Verdict
  <2> QED
    BY <2>1
<1>3. CASE t \notin DOMAIN verdicts[w]
  BY <1>3 DEF Verdict
<1> QED
  BY <1>2, <1>3

LEMMA RememberKeeps ==
    ASSUME Probed, NEW w \in Workers, NEW t \in Texts, Remember(w, t)
    PROVE  Probed'
<1>1. CASE UNCHANGED <<verdicts, file>>
  BY <1>1 DEF Probed, AsProbed
<1>2. CASE ~UNCHANGED <<verdicts, file>>
  <2> DEFINE e == [u \in DOMAIN verdicts[w] \cup {t} |-> Verdict(w, u)]
  <2>1. /\ verdicts' = [verdicts EXCEPT ![w] = e]
        /\ file' = [version |-> "this", entries |-> verdicts'[w]] \/ file' = file
    BY <1>2 DEF Remember
  <2>2. AsProbed(verdicts[w])
    BY DEF Probed
  <2>3. AsProbed(e)
    <3> SUFFICES ASSUME NEW u \in DOMAIN verdicts[w] \cup {t}
                 PROVE  u \in Texts /\ Verdict(w, u) = (u \in Safe)
      BY DEF AsProbed
    <3> QED
      BY <2>2 DEF AsProbed, Verdict
  <2> HIDE DEF e
  <2>4. /\ DOMAIN verdicts' = Workers /\ verdicts'[w] = e
        /\ \A v \in Workers : v # w => verdicts'[v] = verdicts[v]
        /\ verdicts' = [v \in Workers |-> verdicts'[v]]
    BY <2>1 DEF Probed
  <2>5. \A v \in Workers : AsProbed(verdicts'[v])
    <3> SUFFICES ASSUME NEW v \in Workers
                 PROVE  AsProbed(verdicts'[v])
      OBVIOUS
    <3>1. AsProbed(verdicts[v])
      BY DEF Probed
    <3> QED
      BY <2>3, <2>4, <3>1
  <2>6. /\ file'.version \in {"this", "old", "corrupt"}
        /\ file'.version = "this" => AsProbed(file'.entries)
    <3>1. CASE file' = file
      BY <3>1 DEF Probed
    <3>2. CASE file' = [version |-> "this", entries |-> verdicts'[w]]
      <4>1. file'.version = "this" /\ file'.entries = e
        BY <2>4, <3>2
      <4> QED
        BY <2>3, <4>1
    <3> QED
      BY <2>1, <3>1, <3>2
  <2> QED
    BY <2>4, <2>5, <2>6 DEF Probed, AsProbed
<1> QED
  BY <1>1, <1>2

----------------------------------------------------------------------------
(* PatternRegistry: initially, and step by step.                           *)

LEMMA RegistryFirst ==
    ASSUME RegistryAssumption, RegistryInit
    PROVE  RegistryInv
<1>1. Range(<<>>) = {} /\ IsInjective(<<>>) /\ DOMAIN <<>> = {}
      /\ <<>> \in Seq(Texts) /\ <<>> \in Seq(Sources)
  BY DEF Range, IsInjective
<1>2. custom = [w \in Workers |-> <<>>] /\ compiled = custom /\ defaults = custom
      /\ restore = custom /\ verdicts = custom /\ redis = <<>>
      /\ connected = [w \in Workers |-> FALSE] /\ writer = NoWriter
      /\ validated = [w \in Workers |-> {}]
  BY DEF RegistryInit
<1>3. Listed /\ DefaultsSafe /\ WaitingSafe /\ restore \in [Workers -> Seq(Texts)]
  BY <1>1, <1>2 DEF Listed, DefaultsSafe, WaitingSafe
<1>4. Probed
  <2>1. file.version \in {"this", "old", "corrupt"} /\ file.version # "this"
    BY DEF RegistryInit, NoFile
  <2>2. \A w \in Workers : AsProbed(verdicts[w])
    BY <1>1, <1>2 DEF AsProbed
  <2> QED
    BY <1>2, <2>1, <2>2 DEF Probed
<1>5. Persisted
  BY <1>1, <1>2 DEF Persisted, PersistedIsCurrent, RegistryAssumption
<1> QED
  BY <1>3, <1>4, <1>5 DEF RegistryInv

\* A list that a worker persists is its own, and what it held before is not its
\* own any more unless the write succeeds.
LEMMA PersistKeeps ==
    ASSUME RegistryAssumption, Persisted, NEW w \in Workers, NEW list \in Seq(Texts),
           NEW l \in [Workers -> Seq(Texts)], custom' = l, l[w] = list,
           \A v \in Workers : v # w => l[v] = custom[v],
           Persist(w, list), connected' = connected
    PROVE  Persisted'
<1>1. /\ redis \in Seq(Texts) /\ writer \in Workers \cup {NoWriter}
      /\ connected \in [Workers -> BOOLEAN] /\ NoWriter \notin Workers
      /\ \A v \in Workers : writer = v => connected[v] /\ redis = Joined(custom[v])
  BY DEF Persisted, PersistedIsCurrent, RegistryAssumption
<1>2. Joined(list) \in Seq(Texts)
  BY JoinedTexts
<1>3. \/ ~connected[w] /\ redis' = redis /\ writer' = writer
      \/ connected[w] /\ redis' = Joined(list) /\ writer' = w
      \/ redis' = redis /\ writer' = IF writer = w THEN NoWriter ELSE writer
  BY DEF Persist
<1>4. redis' \in Seq(Texts) /\ writer' \in Workers \cup {NoWriter}
  BY <1>1, <1>2, <1>3
<1>5. ASSUME NEW v \in Workers, writer' = v
      PROVE  connected'[v] /\ redis' = Joined(l[v])
  <2>1. CASE ~connected[w] /\ redis' = redis /\ writer' = writer
    <3>1. v # w /\ connected[v] /\ redis = Joined(custom[v])
      BY <1>1, <1>5, <2>1
    <3> QED
      BY <2>1, <3>1
  <2>2. CASE connected[w] /\ redis' = Joined(list) /\ writer' = w
    BY <1>5, <2>2
  <2>3. CASE redis' = redis /\ writer' = IF writer = w THEN NoWriter ELSE writer
    <3>1. v # w /\ writer = v
      BY <1>1, <1>5, <2>3
    <3>2. connected[v] /\ redis = Joined(custom[v]) /\ l[v] = custom[v]
      BY <1>1, <3>1
    <3> QED
      BY <2>3, <3>2
  <2> QED
    BY <1>3, <2>1, <2>2, <2>3
<1>6. PersistedIsCurrent'
  BY <1>5 DEF PersistedIsCurrent
<1> QED
  BY <1>1, <1>4, <1>6 DEF Persisted

\* What is validated is safe when it comes to wait for the lock.
LEMMA ValidateKeeps ==
    ASSUME RegistryAssumption, RegistryInv, NEW w \in Workers,
           NEW kind \in {"custom", "default", "restore"}, NEW t \in Texts,
           kind = "default" => t \in Sources, Validate(w, kind, t)
    PROVE  Probed' /\ WaitingSafe'
<1> USE DEF RegistryInv
<1> DEFINE new == [kind |-> kind, text |-> t]
<1>1. /\ Remember(w, t)
      /\ \/ Verdict(w, t) /\ validated' = [validated EXCEPT ![w] = validated[w] \cup {new}]
         \/ validated' = validated
  BY DEF Validate
<1>2. Probed'
  BY <1>1, RememberKeeps
<1>3. CASE validated' = validated
  BY <1>2, <1>3 DEF WaitingSafe
<1>4. CASE Verdict(w, t) /\ validated' = [validated EXCEPT ![w] = validated[w] \cup {new}]
  <2>1. t \in Safe
    BY <1>4, VerdictAsProbed
  <2>2. new \in Waits
    BY <2>1 DEF Waits
  <2> HIDE DEF new
  <2> QED
    BY <1>2, <1>4, <2>2 DEF WaitingSafe
<1> QED
  BY <1>1, <1>3, <1>4

LEMMA AddPatternKeeps ==
    ASSUME RegistryAssumption, RegistryInv, NEW w \in Workers,
           NEW kind \in {"custom", "default"}, NEW p \in Sources, AddPattern(w, kind, p)
    PROVE  RegistryInv'
<1>1. /\ Validate(w, kind, p) /\ p \in Texts
      /\ UNCHANGED <<custom, compiled, defaults, connected, restore, redis, crashes, writer>>
  BY DEF AddPattern, RegistryAssumption
<1>2. Probed' /\ WaitingSafe'
  BY <1>1, ValidateKeeps
<1> QED
  BY <1>1, <1>2 DEF RegistryInv, Listed, DefaultsSafe, Persisted, PersistedIsCurrent

\* Another worker's list leaves what is persisted of this one alone.
LEMMA RegisterCustomKeeps ==
    ASSUME RegistryAssumption, RegistryInv, NEW w \in Workers, NEW t \in Texts \cap Safe,
           RegisterCustom(w, t), connected' = connected
    PROVE  Listed' /\ DefaultsSafe' /\ Persisted'
<1> USE DEF RegistryInv
<1> DEFINE known == t \in Range(custom[w])
           list  == IF known THEN custom[w] ELSE Append(custom[w], t)
<1>1. /\ custom' = [custom EXCEPT ![w] = list]
      /\ compiled' = [compiled EXCEPT ![w] = IF known THEN @ ELSE Append(@, t)]
      /\ Persist(w, list) /\ defaults' = defaults
  BY DEF RegisterCustom
<1>2. custom[w] \in Seq(Texts) /\ IsInjective(custom[w]) /\ Range(custom[w]) \subseteq Safe
  BY DEF Listed
<1>3. list \in Seq(Texts) /\ IsInjective(list) /\ Range(list) \subseteq Safe
  <2>1. /\ Append(custom[w], t) \in Seq(Texts)
        /\ Range(Append(custom[w], t)) = Range(custom[w]) \cup {t}
        /\ ~known => IsInjective(Append(custom[w], t))
    BY <1>2, Appended
  <2> HIDE DEF known
  <2> QED
    BY <1>2, <2>1
<1>4. compiled' = custom'
  BY <1>1 DEF Listed
<1> HIDE DEF list, known
<1> DEFINE l == [custom EXCEPT ![w] = list]
<1>5. l \in [Workers -> Seq(Texts)] /\ l[w] = list /\ \A v \in Workers : v # w => l[v] = custom[v]
  BY <1>3 DEF Listed
<1>6. custom' = l
  BY <1>1
<1> HIDE DEF l
<1>7. Persisted'
  BY <1>1, <1>3, <1>5, <1>6, PersistKeeps
<1>8. \A v \in Workers : IsInjective(l[v]) /\ Range(l[v]) \subseteq Safe
  BY <1>3, <1>5 DEF Listed
<1>9. Listed'
  BY <1>4, <1>5, <1>6, <1>8 DEF Listed
<1> QED
  BY <1>1, <1>7, <1>9 DEF DefaultsSafe

LEMMA RegisterDefaultKeeps ==
    ASSUME RegistryInv, NEW w \in Workers, NEW p \in Sources \cap Safe,
           RegisterDefault(w, p), connected' = connected
    PROVE  Listed' /\ DefaultsSafe' /\ Persisted'
<1> USE DEF RegistryInv
<1> DEFINE d == Append(defaults[w], p)
<1>1. /\ defaults' = [defaults EXCEPT ![w] = d]
      /\ UNCHANGED <<custom, compiled, redis, writer>>
  BY DEF RegisterDefault
<1>2. d \in Seq(Sources) /\ Range(d) \subseteq Safe
  <2>1. defaults[w] \in Seq(Sources) /\ Range(defaults[w]) \subseteq Safe
    BY DEF DefaultsSafe
  <2>2. /\ Append(defaults[w], p) \in Seq(Sources)
        /\ Range(Append(defaults[w], p)) = Range(defaults[w]) \cup {p}
    BY <2>1, Appended
  <2> QED
    BY <2>1, <2>2
<1> HIDE DEF d
<1>3. DefaultsSafe'
  BY <1>1, <1>2 DEF DefaultsSafe
<1> QED
  BY <1>1, <1>3 DEF Listed, Persisted, PersistedIsCurrent

LEMMA RegisterKeeps ==
    ASSUME RegistryAssumption, RegistryInv, NEW w \in Workers, Register(w)
    PROVE  RegistryInv'
<1>1. PICK a \in validated[w] :
        /\ \/ a.kind \in {"custom", "restore"} /\ RegisterCustom(w, a.text)
           \/ a.kind = "default" /\ RegisterDefault(w, a.text)
        /\ validated' = [validated EXCEPT ![w] = validated[w] \ {a}]
        /\ UNCHANGED <<connected, restore, verdicts, file, crashes>>
  BY DEF Register
<1>2. a \in Waits
  BY DEF RegistryInv, WaitingSafe
<1>3. a.text \in Texts \cap Safe /\ (a.kind = "default" => a.text \in Sources)
  BY <1>2 DEF Waits, RegistryAssumption
<1>4. Listed' /\ DefaultsSafe' /\ Persisted'
  BY <1>1, <1>3, RegisterCustomKeeps, RegisterDefaultKeeps
<1>5. WaitingSafe'
  BY <1>1 DEF RegistryInv, WaitingSafe
<1> QED
  BY <1>1, <1>4, <1>5 DEF RegistryInv, Probed, AsProbed

LEMMA RemovePatternKeeps ==
    ASSUME RegistryAssumption, RegistryInv, NEW w \in Workers, NEW p, RemovePattern(w, p)
    PROVE  RegistryInv'
<1> USE DEF RegistryInv
<1> DEFINE list == RemoveFirst(custom[w], p)
           l == [custom EXCEPT ![w] = list]
<1>1. /\ p \in Range(custom[w]) /\ custom' = l
      /\ compiled' = [compiled EXCEPT ![w] = Compiled(w, p)]
      /\ Persist(w, list)
      /\ UNCHANGED <<defaults, connected, restore, validated, verdicts, file, crashes>>
  BY DEF RemovePattern, Left
<1>2. custom[w] \in Seq(Texts) /\ IsInjective(custom[w]) /\ Range(custom[w]) \subseteq Safe
  BY DEF Listed
<1>3. list \in Seq(Texts) /\ IsInjective(list) /\ Range(list) \subseteq Safe
  BY <1>1, <1>2, RemovedFirst, RemovedOnce
<1>4. Compiled(w, p) = list
  <2>1. compiled[w] = custom[w]
    BY DEF Listed
  <2> QED
    BY <1>1, <1>2, <2>1, CompiledWithout
<1>5. compiled' = custom'
  BY <1>1, <1>4 DEF Listed
<1> HIDE DEF list
<1>6. l \in [Workers -> Seq(Texts)] /\ l[w] = list /\ \A v \in Workers : v # w => l[v] = custom[v]
  BY <1>3 DEF Listed
<1> HIDE DEF l
<1>7. Persisted'
  BY <1>1, <1>3, <1>6, PersistKeeps
<1>8. \A v \in Workers : IsInjective(l[v]) /\ Range(l[v]) \subseteq Safe
  BY <1>3, <1>6 DEF Listed
<1>9. Listed'
  BY <1>1, <1>5, <1>6, <1>8 DEF Listed
<1> QED
  BY <1>1, <1>7, <1>9 DEF Probed, AsProbed, DefaultsSafe, WaitingSafe

LEMMA RemoveDefaultKeeps ==
    ASSUME RegistryAssumption, RegistryInv, NEW w \in Workers, NEW p, RemoveDefault(w, p)
    PROVE  RegistryInv'
<1> USE DEF RegistryInv
<1> DEFINE d == RemoveFirst(defaults[w], p)
<1>1. /\ p \in Range(defaults[w]) /\ defaults' = [defaults EXCEPT ![w] = d]
      /\ UNCHANGED <<custom, compiled, connected, restore, validated, redis, verdicts,
                     file, crashes, writer>>
  BY DEF RemoveDefault
<1>2. /\ defaults[w] \in Seq(Sources) /\ Range(defaults[w]) \subseteq Safe
      /\ p \in Range(defaults[w])
  BY <1>1 DEF DefaultsSafe
<1>3. d \in Seq(Sources) /\ Range(d) \subseteq Range(defaults[w])
  <2> DEFINE s == defaults[w]
             r == RemoveFirst(s, p)
  <2> HIDE DEF s
  <2>1. s \in Seq(Sources) /\ p \in Range(s)
    BY <1>2 DEF s
  <2>2. /\ r \in Seq(Sources) /\ Len(r) = Len(s) - 1
        /\ \E k \in 1..Len(s) :
              s[k] = p /\ \A i \in 1..(Len(s) - 1) : r[i] = IF i < k THEN s[i] ELSE s[i + 1]
    BY <2>1, RemovedFirst
  <2> HIDE DEF r
  <2>3. \A i \in 1..Len(r) : \E j \in 1..Len(s) : r[i] = s[j]
    <3> SUFFICES ASSUME NEW i \in 1..Len(r)
                 PROVE  \E j \in 1..Len(s) : r[i] = s[j]
      OBVIOUS
    <3>1. i \in 1..Len(s) /\ i + 1 \in 1..Len(s) /\ i \in 1..(Len(s) - 1)
      BY <2>1, <2>2
    <3> QED
      BY <2>2, <3>1
  <2>4. DOMAIN r = 1..Len(r) /\ DOMAIN s = 1..Len(s)
    BY <2>1, <2>2
  <2>5. Range(r) \subseteq Range(s)
    BY <2>3, <2>4 DEF Range
  <2> QED
    BY <2>2, <2>5 DEF r, s
<1> HIDE DEF d
<1>4. DefaultsSafe'
  BY <1>1, <1>2, <1>3 DEF DefaultsSafe
<1> QED
  BY <1>1, <1>4 DEF Probed, AsProbed, Listed, Persisted, PersistedIsCurrent,
                       WaitingSafe

\* A worker that attaches its handler has written nothing.
LEMMA AttachKeeps ==
    ASSUME RegistryAssumption, RegistryInv, NEW w \in Workers, AttachRedis(w)
    PROVE  RegistryInv'
<1> USE DEF RegistryInv
<1>1. /\ connected' = [connected EXCEPT ![w] = TRUE]
      /\ restore' = [restore EXCEPT ![w] = redis] \/ restore' = restore
      /\ UNCHANGED <<custom, compiled, defaults, validated, redis, verdicts, file, crashes,
                     writer>>
  BY DEF AttachRedis
<1>2. restore' \in [Workers -> Seq(Texts)]
  BY <1>1 DEF Persisted
<1>3. Persisted'
  BY <1>1 DEF Persisted, PersistedIsCurrent
<1> QED
  BY <1>1, <1>2, <1>3 DEF Probed, AsProbed, Listed, DefaultsSafe, WaitingSafe

LEMMA RestoreNextKeeps ==
    ASSUME RegistryAssumption, RegistryInv, NEW w \in Workers, RestoreNext(w)
    PROVE  RegistryInv'
<1> USE DEF RegistryInv
<1>1. /\ restore[w] # <<>> /\ restore' = [restore EXCEPT ![w] = Tail(@)]
      /\ UNCHANGED <<validated, verdicts, file>> \/ Validate(w, "restore", Head(restore[w]))
      /\ UNCHANGED <<custom, compiled, defaults, connected, redis, crashes, writer>>
  BY DEF RestoreNext
<1>2. restore[w] \in Seq(Texts)
  OBVIOUS
<1>3. Head(restore[w]) \in Texts /\ Tail(restore[w]) \in Seq(Texts)
  BY <1>1, <1>2
<1>4. restore' \in [Workers -> Seq(Texts)]
  BY <1>1, <1>3
<1>5. Probed' /\ WaitingSafe'
  BY <1>1, <1>3, ValidateKeeps DEF Probed, AsProbed, WaitingSafe
<1> QED
  BY <1>1, <1>4, <1>5 DEF Listed, DefaultsSafe, Persisted, PersistedIsCurrent

\* Resets and restarts take the worker's lists, and with them its claim on what
\* Redis holds.
LEMMA Emptied ==
    ASSUME RegistryAssumption, Persisted, Listed, NEW w \in Workers,
           custom' = [custom EXCEPT ![w] = <<>>], compiled' = [compiled EXCEPT ![w] = <<>>],
           connected' = [connected EXCEPT ![w] = FALSE] \/ connected' = connected,
           redis' = redis,
           writer' = IF writer = w THEN NoWriter ELSE writer
    PROVE  Persisted' /\ Listed'
<1>1. Range(<<>>) = {} /\ IsInjective(<<>>) /\ <<>> \in Seq(Texts)
  BY DEF Range, IsInjective
<1>2. Listed'
  BY <1>1 DEF Listed
<1>3. /\ \A v \in Workers : v # w => custom'[v] = custom[v] /\ connected'[v] = connected[v]
      /\ NoWriter \notin Workers
  BY DEF Listed, Persisted, RegistryAssumption
<1>4. PersistedIsCurrent'
  <2> SUFFICES ASSUME NEW v \in Workers, writer' = v
               PROVE  connected'[v] /\ redis' = Joined(custom'[v])
    BY DEF PersistedIsCurrent
  <2>1. v # w /\ writer = v
    BY <1>3
  <2> QED
    BY <1>3, <2>1 DEF Persisted, PersistedIsCurrent
<1>5. Persisted'
  BY <1>4 DEF Persisted
<1> QED
  BY <1>2, <1>5

LEMMA ClearKeeps ==
    ASSUME RegistryAssumption, RegistryInv, NEW w \in Workers, ClearCustomPatterns(w)
    PROVE  RegistryInv'
<1> USE DEF RegistryInv
<1>1. Persisted' /\ Listed'
  BY Emptied DEF ClearCustomPatterns
<1>2. UNCHANGED <<defaults, restore, validated, verdicts, file>>
  BY DEF ClearCustomPatterns
<1> QED
  BY <1>1, <1>2 DEF Probed, AsProbed, DefaultsSafe, WaitingSafe

LEMMA ResetKeeps ==
    ASSUME RegistryAssumption, RegistryInv, NEW w \in Workers, Reset(w)
    PROVE  RegistryInv'
<1> USE DEF RegistryInv
<1>1. Persisted' /\ Listed'
  BY Emptied DEF Reset
<1>2. UNCHANGED <<defaults, restore, validated, verdicts, file>>
  BY DEF Reset
<1> QED
  BY <1>1, <1>2 DEF Probed, AsProbed, DefaultsSafe, WaitingSafe

LEMMA CrashKeeps ==
    ASSUME RegistryAssumption, RegistryInv, NEW w \in Workers, Crash(w)
    PROVE  RegistryInv'
<1> USE DEF RegistryInv
<1>1. Persisted' /\ Listed'
  BY Emptied DEF Crash
<1>2. /\ Range(<<>>) = {} /\ DOMAIN <<>> = {}
      /\ <<>> \in Seq(Texts) /\ <<>> \in Seq(Sources)
  BY DEF Range
<1>3. /\ defaults' = [defaults EXCEPT ![w] = <<>>] /\ restore' = [restore EXCEPT ![w] = <<>>]
      /\ verdicts' = [verdicts EXCEPT ![w] = <<>>] /\ file' = file
      /\ validated' = [validated EXCEPT ![w] = {}]
  BY DEF Crash
<1>4. DefaultsSafe' /\ WaitingSafe' /\ restore' \in [Workers -> Seq(Texts)]
  BY <1>2, <1>3 DEF DefaultsSafe, WaitingSafe
<1>5. Probed'
  <2>1. AsProbed(<<>>)
    BY <1>2 DEF AsProbed
  <2>2. \A v \in Workers : AsProbed(verdicts'[v])
    BY <1>3, <2>1 DEF Probed
  <2>3. DOMAIN verdicts' = Workers /\ verdicts' = [v \in Workers |-> verdicts'[v]]
    BY <1>3 DEF Probed
  <2>4. /\ file'.version \in {"this", "old", "corrupt"}
        /\ file'.version = "this" => AsProbed(file'.entries)
    BY <1>3 DEF Probed
  <2> QED
    BY <2>2, <2>3, <2>4 DEF Probed, AsProbed
<1> QED
  BY <1>1, <1>4, <1>5

\* A worker's cache starts with the entries of a file of this engine.
LEMMA LoadCacheKeeps ==
    ASSUME RegistryInv, NEW w \in Workers, LoadCache(w)
    PROVE  RegistryInv'
<1> USE DEF RegistryInv
<1>1. /\ verdicts' = [verdicts EXCEPT ![w] = Loaded] /\ file' = file
      /\ UNCHANGED <<custom, compiled, defaults, connected, restore, validated, redis, writer>>
  BY DEF LoadCache
<1>2. AsProbed(Loaded)
  <2>1. DOMAIN <<>> = {}
    OBVIOUS
  <2> QED
    BY <2>1 DEF Loaded, Probed, AsProbed
<1>3. \A v \in Workers : AsProbed(verdicts'[v])
  <2> HIDE DEF Loaded
  <2> QED
    BY <1>1, <1>2 DEF Probed
<1>4. Probed'
  BY <1>1, <1>3 DEF Probed, AsProbed
<1> QED
  BY <1>1, <1>4 DEF Listed, DefaultsSafe, Persisted, PersistedIsCurrent, WaitingSafe

LEMMA RegistryStep ==
    ASSUME RegistryAssumption, RegistryInv, [RegistryNext]_registryVars
    PROVE  RegistryInv'
<1>1. CASE UNCHANGED registryVars
  BY <1>1 DEF registryVars, RegistryInv, Probed, AsProbed, Listed, DefaultsSafe, Persisted,
              PersistedIsCurrent, WaitingSafe
<1>2. ASSUME NEW w \in Workers, NEW p \in Sources, NEW kind \in {"custom", "default"},
             AddPattern(w, kind, p)
      PROVE  RegistryInv'
  BY <1>2, AddPatternKeeps
<1>3. ASSUME NEW w \in Workers, LoadCache(w) \/ AttachRedis(w) \/ RestoreNext(w)
                                  \/ Reset(w) \/ Crash(w)
      PROVE  RegistryInv'
  BY <1>3, LoadCacheKeeps, AttachKeeps, RestoreNextKeeps, ResetKeeps, CrashKeeps
<1>4. ASSUME NEW w \in Workers, Register(w) \/ ClearCustomPatterns(w)
      PROVE  RegistryInv'
  BY <1>4, RegisterKeeps, ClearKeeps
<1>5. ASSUME NEW w \in Workers, NEW p \in Sources, RemovePattern(w, p) \/ RemoveDefault(w, p)
      PROVE  RegistryInv'
  BY <1>5, RemovePatternKeeps, RemoveDefaultKeeps
<1> HIDE DEF RegistryInv
<1> QED
  BY <1>1, <1>2, <1>3, <1>4, <1>5 DEF RegistryNext

\* What a worker scans with is what it lists, each pattern once; what Redis holds
\* is the list of the worker that wrote last; nothing is registered that the probe
\* of this engine refuses: for any workers and texts, whatever is registered,
\* removed, restored, reset or restarted, and whichever writes fail.
THEOREM RegistryIsInStep == RegistrySpec => []RegistryHolds
<1>1. RegistryInit => RegistryInv
  BY RegistryAssumption, RegistryFirst
<1>2. RegistryInv /\ [RegistryNext]_registryVars => RegistryInv'
  BY RegistryAssumption, RegistryStep
<1>3. RegistryInv => RegistryHolds
  <2> SUFFICES ASSUME RegistryInv
               PROVE  RegistryHolds
    OBVIOUS
  <2>1. \A S : \A s \in Seq(S) : Range(s) \subseteq S
    BY DEF Range
  <2>2. \A w \in Workers : \A a \in validated[w] : a.text \in Texts
    <3> SUFFICES ASSUME NEW w \in Workers, NEW a \in validated[w]
                 PROVE  a.text \in Texts
      OBVIOUS
    <3>1. a \in Waits
      BY DEF RegistryInv, WaitingSafe
    <3> QED
      BY <3>1, RegistryAssumption DEF Waits, RegistryAssumption
  <2>3. RegistryTypeOK
    BY <2>1, <2>2 DEF RegistryInv, Probed, AsProbed, Listed, DefaultsSafe, Persisted,
                      RegistryTypeOK
  <2> QED
    BY <2>3 DEF RegistryInv, Listed, DefaultsSafe, Persisted, RegistryHolds, ScannedAsListed,
                OnlySafeRegistered
<1> QED
  BY <1>1, <1>2, <1>3, PTL DEF RegistrySpec

----------------------------------------------------------------------------
(* BehaviorTracker: the inductive invariant.                               *)

AnyRule  == (UNION {Range(RouteRules[e]) : e \in Endpoints}) \cup Range(GlobalRules)
Steps    == {"usage", "return", "global"}
Visiting == [step : Steps, client : Clients, endpoint : Endpoints, at : Int, id : Nat,
             correlated : BOOLEAN, response : Responses, left : Seq(AnyRule)]

BehaviorTyped ==
    /\ clock \in 0..MaxTicks /\ served \in 0..MaxRequests /\ flagged \subseteq Clients
    /\ visit \in [Threads -> Visiting \cup {Unused}]

\* A row of the table holds hits of its client in its bucket, each once.
RowRight(row, b, i, H) == /\ row \in Seq(H) /\ IsInjective(row)
                          /\ \A h \in Range(row) : h.bucket = b /\ h.client = i
Room(D, size) == IsFiniteSet(D) /\ Cardinality(D) <= size
TableRight(t, H) ==
    /\ \A n : Room({k \in DOMAIN t : Len(k) = n}, MaxTrackedEndpoints)
    /\ \A b \in DOMAIN t : /\ Room(DOMAIN t[b], MaxTrackedClients)
                           /\ \A i \in DOMAIN t[b] : RowRight(t[b][i], b, i, H)
SharedRight(t, H) ==
    \A b, i : <<b, i>> \in DOMAIN t => t[<<b, i>>] \subseteq {h \in H : h.bucket = b /\ h.client = i}

\* The rules of a request are counted one after another, so that no two hits are
\* of one rule of one request.
Rank(step)     == IF step = "usage" THEN 0 ELSE IF step = "return" THEN 1 ELSE 2
Precedes(h, v) == \/ h.n[1] # v.id \/ Rank(h.n[2]) < Rank(v.step)
                  \/ h.n[2] = v.step /\ h.n[3] > Len(v.left)
CountedOnce ==
    /\ \A c, d \in Threads : visit[c] \in Visiting /\ visit[d] \in Visiting
                               /\ visit[c].id = visit[d].id => c = d
    /\ \A c \in Threads : visit[c] \in Visiting =>
          /\ visit[c].id < served
          /\ \A h \in hits : Precedes(h, visit[c])
    /\ \A h \in hits : h.n \in Nat \X Steps \X Nat /\ h.n[1] < served

Earned == /\ IsFiniteSet(hits) /\ \A a \in acted : a.limit \in Int
          /\ ActionsAreEarned

BehaviorInv == /\ BehaviorTyped /\ CountedOnce /\ Earned
               /\ TableRight(local, hits) /\ SharedRight(shared, hits)

----------------------------------------------------------------------------
(* BehaviorTracker: operators.                                             *)

\* Evicting one key, if there is no room, makes room for another.
LEMMA RoomMade ==
    ASSUME NEW D, NEW size \in Nat \ {0}, Room(D, size), NEW x, NEW out,
           out \in IF x \notin D /\ Cardinality(D) >= size THEN {{k} : k \in D} ELSE {{}}
    PROVE  Room((D \ out) \cup {x}, size)
<1>1. IsFiniteSet(D) /\ Cardinality(D) \in Nat /\ Cardinality(D) <= size
  BY FS_CardinalityType DEF Room
<1>2. CASE x \notin D /\ Cardinality(D) >= size
  <2>1. PICK k \in D : out = {k}
    BY <1>2
  <2>2. IsFiniteSet(D \ {k}) /\ Cardinality(D \ {k}) = Cardinality(D) - 1
    BY <1>1, FS_RemoveElement
  <2>3. /\ IsFiniteSet((D \ {k}) \cup {x})
        /\ Cardinality((D \ {k}) \cup {x}) =
             IF x \in D \ {k} THEN Cardinality(D \ {k}) ELSE Cardinality(D \ {k}) + 1
    BY <2>2, FS_AddElement
  <2> QED
    BY <1>1, <2>1, <2>2, <2>3 DEF Room
<1>3. CASE ~(x \notin D /\ Cardinality(D) >= size)
  <2>1. out = {} /\ (D \ out) \cup {x} = D \cup {x}
    BY <1>3
  <2>2. /\ IsFiniteSet(D \cup {x})
        /\ Cardinality(D \cup {x}) = IF x \in D THEN Cardinality(D) ELSE Cardinality(D) + 1
    BY <1>1, FS_AddElement
  <2> QED
    BY <1>1, <1>3, <2>1, <2>2 DEF Room
<1> QED
  BY <1>2, <1>3

\* A sequence without duplicates is no longer than a set of all its elements.
LEMMA AsManyAs ==
    ASSUME NEW S, NEW s \in Seq(S), IsInjective(s), NEW T, IsFiniteSet(T), Range(s) \subseteq T
    PROVE  Len(s) <= Cardinality(T)
<1>1. Len(s) \in Nat /\ DOMAIN s = 1..Len(s) /\ \A i \in 1..Len(s) : s[i] \in T
  BY DEF Range
<1>2. s \in [1..Len(s) -> T]
  BY <1>1
<1>3. \A i, j \in 1..Len(s) : s[i] = s[j] => i = j
  BY <1>1 DEF IsInjective
<1>4. IsFiniteSet(1..Len(s)) /\ Cardinality(1..Len(s)) = Len(s)
  <2>1. 1 \in Int /\ Len(s) \in Int
    BY <1>1
  <2>2. Cardinality(1..Len(s)) = IF 1 > Len(s) THEN 0 ELSE Len(s) - 1 + 1
    BY <2>1, FS_Interval
  <2>3. IsFiniteSet(1..Len(s))
    BY <2>1, FS_Interval
  <2> QED
    BY <1>1, <2>2, <2>3
<1>5. Cardinality(T) \in Nat
  BY FS_CardinalityType
<1>6. ~(Cardinality(T) < Cardinality(1..Len(s)))
  BY <1>2, <1>3, <1>4, FS_PigeonHole
<1> QED
  BY <1>1, <1>4, <1>5, <1>6

\* More hits can only be added to those that count.
LEMMA HitsGrow ==
    ASSUME NEW H, IsFiniteSet(H), hits \subseteq H, hits' = H, NEW b, NEW i, NEW start
    PROVE  /\ Cardinality(HitsSince(b, i, start)) \in Nat
           /\ Cardinality({h \in H : h.bucket = b /\ h.client = i /\ h.at >= start}) \in Nat
           /\ Cardinality(HitsSince(b, i, start)) <=
                Cardinality({h \in H : h.bucket = b /\ h.client = i /\ h.at >= start})
<1> DEFINE new == {h \in H : h.bucket = b /\ h.client = i /\ h.at >= start}
           old == HitsSince(b, i, start)
<1>1. new \subseteq H /\ old \subseteq new
  BY DEF HitsSince
<1> HIDE DEF new, old
<1>2. IsFiniteSet(new)
  BY <1>1, FS_Subset
<1>3. IsFiniteSet(old) /\ Cardinality(old) <= Cardinality(new)
  BY <1>1, <1>2, FS_Subset
<1>4. Cardinality(new) \in Nat /\ Cardinality(old) \in Nat
  BY <1>2, <1>3, FS_CardinalityType
<1> QED
  BY <1>3, <1>4 DEF new, old

\* What trackLocal counts: the row it leaves is of these hits, each once.
CountsOnly(row, H, b, i, start) ==
    /\ row \in Seq(H) /\ IsInjective(row)
    /\ \A h \in Range(row) : h \in H /\ h.bucket = b /\ h.client = i /\ h.at >= start

LEMMA LocallyCounted ==
    ASSUME NEW H, TableRight(local, H), NEW b, NEW i, NEW hit, hit \notin H,
           hit.bucket = b, hit.client = i, NEW start, hit.at >= start,
           TrackLocal(b, i, hit, start)
    PROVE  TableRight(local', H \cup {hit}) /\ CountsOnly(local'[b][i], H \cup {hit}, b, i, start)
<1> DEFINE rows    == IF b \in DOMAIN local THEN local[b] ELSE <<>>
           row     == IF i \in DOMAIN rows THEN rows[i] ELSE <<>>
           counted == Append(InWindow(row, start), hit)
           tracked == Table(Len(b))
           lost    == IF b \notin tracked /\ Cardinality(tracked) >= MaxTrackedEndpoints
                      THEN {{k} : k \in tracked} ELSE {{}}
           out     == IF i \notin DOMAIN rows /\ Cardinality(DOMAIN rows) >= MaxTrackedClients
                      THEN {{k} : k \in DOMAIN rows} ELSE {{}}
           HH      == H \cup {hit}
<1>1. PICK victim \in lost, loser \in out :
        local' = [k \in (DOMAIN local \ victim) \cup {b} |->
                    IF k = b THEN [j \in (DOMAIN rows \ loser) \cup {i} |->
                                     IF j = i THEN counted ELSE rows[j]]
                    ELSE local[k]]
  BY DEF TrackLocal
<1>2. /\ Room(DOMAIN rows, MaxTrackedClients)
      /\ \A j \in DOMAIN rows : RowRight(rows[j], b, j, H)
  <2>1. Room({}, MaxTrackedClients) /\ DOMAIN <<>> = {}
    BY BehaviorAssumption, FS_EmptySet DEF Room
  <2> QED
    BY <2>1 DEF TableRight
<1>3. RowRight(row, b, i, H)
  <2>1. RowRight(<<>>, b, i, H)
    BY DEF RowRight, Range, IsInjective
  <2> HIDE DEF rows
  <2> QED
    BY <1>2, <2>1
<1> HIDE DEF row
<1> DEFINE within == InWindow(row, start)
<1>4. /\ within \in Seq(H) /\ IsInjective(within)
      /\ Range(within) = {h \in Range(row) : h.at >= start}
  <2>1. row \in Seq(H) /\ IsInjective(row)
    BY <1>3 DEF RowRight
  <2> DEFINE K == {h \in Range(row) : h.at >= start}
  <2>2. /\ Keeping(row, K) \in Seq(H) /\ IsInjective(Keeping(row, K))
        /\ Range(Keeping(row, K)) = Range(row) \cap K
    <3> HIDE DEF K
    <3> QED
      BY <2>1, Kept
  <2>3. within = Keeping(row, K)
    BY DEF InWindow
  <2> QED
    BY <2>2, <2>3
<1> HIDE DEF within
<1>5. /\ counted \in Seq(HH) /\ IsInjective(counted)
      /\ Range(counted) = Range(within) \cup {hit}
  <2>1. within \in Seq(HH) /\ hit \in HH /\ hit \notin Range(within)
    <3>1. Range(within) \subseteq H
      BY <1>4 DEF Range
    <3>2. within \in Seq(HH)
      BY <1>4
    <3> QED
      BY <3>1, <3>2
  <2>2. counted = Append(within, hit)
    BY DEF within
  <2> HIDE DEF counted
  <2> QED
    BY <1>4, <2>1, <2>2, Appended
<1> HIDE DEF counted
<1>6. \A h \in Range(counted) : h.bucket = b /\ h.client = i /\ h.at >= start
  BY <1>3, <1>4, <1>5 DEF RowRight
<1>7. \A h \in Range(counted) : h \in HH
  BY <1>5 DEF Range
<1>8. RowRight(counted, b, i, HH)
  BY <1>5, <1>6 DEF RowRight
<1> DEFINE left == [j \in (DOMAIN rows \ loser) \cup {i} |-> IF j = i THEN counted ELSE rows[j]]
<1>9. ASSUME NEW r, NEW k, NEW j, RowRight(r, k, j, H)
      PROVE  RowRight(r, k, j, HH)
  BY <1>9 DEF RowRight
<1>10. Room(DOMAIN left, MaxTrackedClients) /\ \A j \in DOMAIN left : RowRight(left[j], b, j, HH)
  <2>1. DOMAIN left = (DOMAIN rows \ loser) \cup {i}
    OBVIOUS
  <2>2. Room((DOMAIN rows \ loser) \cup {i}, MaxTrackedClients)
    <3> DEFINE D == DOMAIN rows
    <3>1. loser \in IF i \notin D /\ Cardinality(D) >= MaxTrackedClients
                    THEN {{k} : k \in D} ELSE {{}}
      OBVIOUS
    <3> HIDE DEF D
    <3>2. Room((D \ loser) \cup {i}, MaxTrackedClients)
      BY <1>2, <3>1, BehaviorAssumption, RoomMade DEF D
    <3> QED
      BY <3>2 DEF D
  <2>3. \A j \in DOMAIN left : left[j] = IF j = i THEN counted ELSE rows[j]
    OBVIOUS
  <2>4. \A j \in DOMAIN left : j = i \/ j \in DOMAIN rows
    BY <2>1
  <2> HIDE DEF left, rows
  <2> QED
    BY <1>2, <1>8, <1>9, <2>1, <2>2, <2>3, <2>4
<1>11. /\ DOMAIN local' = (DOMAIN local \ victim) \cup {b} /\ local'[b] = left
       /\ \A k \in DOMAIN local \ victim : k # b => local'[k] = local[k]
  BY <1>1
<1>12. local'[b][i] = counted
  <2>1. left[i] = counted
    OBVIOUS
  <2> HIDE DEF left
  <2> QED
    BY <1>11, <2>1
<1> HIDE DEF left, rows
<1>13. ASSUME NEW n
      PROVE  Room({k \in DOMAIN local' : Len(k) = n}, MaxTrackedEndpoints)
  <2>1. Room(tracked, MaxTrackedEndpoints) /\ victim \subseteq tracked
        /\ \A k \in tracked : Len(k) = Len(b)
    BY DEF TableRight, Table
  <2>2. Room((tracked \ victim) \cup {b}, MaxTrackedEndpoints)
    <3> HIDE DEF tracked
    <3> QED
      BY <2>1, BehaviorAssumption, RoomMade
  <2>3. CASE n = Len(b)
    <3>1. {k \in DOMAIN local' : Len(k) = n} = (tracked \ victim) \cup {b}
      BY <1>11, <2>3 DEF Table
    <3> QED
      BY <2>2, <3>1
  <2>4. CASE n # Len(b)
    <3>1. {k \in DOMAIN local' : Len(k) = n} = {k \in DOMAIN local : Len(k) = n}
      BY <1>11, <2>1, <2>4
    <3> QED
      BY <3>1 DEF TableRight
  <2> QED
    BY <2>3, <2>4
<1>14. TableRight(local', HH)
  <2>1. ASSUME NEW k \in DOMAIN local'
        PROVE  /\ Room(DOMAIN local'[k], MaxTrackedClients)
               /\ \A j \in DOMAIN local'[k] : RowRight(local'[k][j], k, j, HH)
    <3>1. CASE k = b
      BY <1>10, <1>11, <3>1
    <3>2. CASE k # b
      <4>1. k \in DOMAIN local /\ local'[k] = local[k]
        BY <1>11, <3>2
      <4> QED
        BY <1>9, <4>1 DEF TableRight
    <3> QED
      BY <3>1, <3>2
  <2> QED
    BY <1>11, <1>13, <2>1 DEF TableRight
<1> QED
  BY <1>5, <1>6, <1>7, <1>12, <1>14 DEF CountsOnly

\* What RecordSlidingWindowHit counts.
LEMMA SharedCounted ==
    ASSUME NEW H, NEW t, shared = t, SharedRight(t, H), NEW b, NEW i,
           NEW hit, hit.bucket = b, hit.client = i, NEW start, TrackShared(b, i, hit, start)
    PROVE  /\ SharedRight(shared', H \cup {hit})
           /\ shared'[<<b, i>>] \subseteq
                {h \in H \cup {hit} : h.bucket = b /\ h.client = i /\ h.at >= start}
<1> DEFINE key == <<b, i>>
           row == IF key \in DOMAIN t THEN t[key] ELSE {}
           new == {h \in row \cup {hit} : h.at >= start}
<1>1. row \subseteq {h \in H : h.bucket = b /\ h.client = i}
  BY DEF SharedRight
<1>2. shared' = [k \in DOMAIN t \cup {key} |-> IF k = key THEN new ELSE t[k]]
  BY DEF TrackShared
<1>3. new \subseteq {h \in H \cup {hit} : h.bucket = b /\ h.client = i /\ h.at >= start}
  <2> HIDE DEF row
  <2> QED
    BY <1>1
<1> HIDE DEF new
<1>4. shared'[key] = new
  BY <1>2
<1>5. ASSUME NEW c, NEW j, <<c, j>> \in DOMAIN shared'
      PROVE  shared'[<<c, j>>] \subseteq {h \in H \cup {hit} : h.bucket = c /\ h.client = j}
  <2>1. CASE <<c, j>> = key
    <3>1. c = b /\ j = i
      BY <2>1
    <3> QED
      BY <1>3, <1>4, <3>1
  <2>2. CASE <<c, j>> # key
    <3>1. <<c, j>> \in DOMAIN t /\ shared'[<<c, j>>] = t[<<c, j>>]
      BY <1>2, <1>5, <2>2
    <3> QED
      BY <3>1 DEF SharedRight
  <2> QED
    BY <2>1, <2>2
<1> QED
  BY <1>3, <1>4, <1>5 DEF SharedRight

\* The rules of a stage are rules of the route, or global ones.
LEMMA StageRules ==
    ASSUME NEW rules, Rules(rules), Range(rules) \subseteq AnyRule, NEW kinds
    PROVE  Stage(rules, kinds) \in Seq(AnyRule)
<1> DEFINE K == {rule \in Range(rules) : rule.kind \in kinds}
<1>1. rules \in Seq(Range(rules))
  BY DEF Rules
<1>2. Keeping(rules, K) \in Seq(Range(rules))
  <2> HIDE DEF K
  <2> QED
    BY <1>1, Kept
<1>3. Stage(rules, kinds) \in Seq(Range(rules))
  BY <1>2 DEF Stage
<1> QED
  BY <1>3

LEMMA RulesBound ==
    ASSUME BehaviorAssumption, NEW rule \in AnyRule
    PROVE  rule.window \in Nat /\ rule.threshold \in Nat
<1>1. CASE rule \in Range(GlobalRules)
  BY <1>1 DEF BehaviorAssumption, Rules
<1>2. CASE rule \notin Range(GlobalRules)
  <2>1. PICK R \in {Range(RouteRules[e]) : e \in Endpoints} : rule \in R
    BY <1>2 DEF AnyRule
  <2>2. PICK e \in Endpoints : rule \in Range(RouteRules[e])
    BY <2>1
  <2>3. Rules(RouteRules[e])
    BY DEF BehaviorAssumption
  <2> QED
    BY <2>2, <2>3 DEF Rules
<1> QED
  BY <1>1, <1>2

LEMMA LimitIsNumber ==
    ASSUME BehaviorAssumption, NEW rule \in AnyRule, NEW g, NEW correlated
    PROVE  EffectiveThreshold(rule, g, correlated) \in Int
<1>1. rule.threshold \in Nat /\ rule.threshold \div 2 \in Int
  BY RulesBound
<1>2. Max({rule.threshold \div 2, 1}) \in Int
  BY <1>1, Larger
<1> QED
  BY <1>1, <1>2 DEF EffectiveThreshold

----------------------------------------------------------------------------
(* BehaviorTracker: initially, and step by step.                           *)

LEMMA BehaviorFirst ==
    ASSUME BehaviorAssumption, BehaviorInit
    PROVE  BehaviorInv
<1>1. /\ clock = 0 /\ served = 0 /\ local = <<>> /\ shared = <<>> /\ flagged = {}
      /\ visit = [c \in Threads |-> Unused] /\ hits = {} /\ acted = {} /\ DOMAIN <<>> = {}
  BY DEF BehaviorInit
<1>2. Unused \notin Visiting
  BY DEF Unused, Visiting, Steps
<1>3. BehaviorTyped
  BY <1>1 DEF BehaviorTyped, BehaviorAssumption
<1>4. CountedOnce
  BY <1>1, <1>2 DEF CountedOnce
<1>5. Earned /\ TableRight(local, hits) /\ SharedRight(shared, hits)
  BY <1>1, FS_EmptySet DEF Earned, ActionsAreEarned, TableRight, Room, SharedRight, BehaviorAssumption
<1> QED
  BY <1>3, <1>4, <1>5 DEF BehaviorInv

\* A request that goes on to another stage, or to its end, or starts, has counted
\* nothing there.
LEMMA MovesOn ==
    ASSUME BehaviorInv, NEW c \in Threads, NEW v \in Visiting \cup {Unused},
           visit' = [visit EXCEPT ![c] = v], hits' = hits,
           v \in Visiting =>
              \/ v.id = served /\ served' = served + 1
              \/ /\ visit[c] \in Visiting /\ served' = served
                 /\ v.id = visit[c].id /\ Rank(visit[c].step) < Rank(v.step),
           v = Unused => served' = served
    PROVE  CountedOnce'
<1> USE DEF BehaviorInv
<1>1. /\ visit \in [Threads -> Visiting \cup {Unused}] /\ served \in Nat /\ Unused \notin Visiting
      /\ served' \in Nat /\ served <= served'
  BY DEF BehaviorTyped, Unused, Visiting, Steps
<1>2. visit'[c] = v /\ \A d \in Threads : d # c => visit'[d] = visit[d]
  BY <1>1
<1>3. \A d \in Threads : visit[d] \in Visiting =>
         visit[d].id \in Nat /\ visit[d].id < served /\ \A h \in hits : Precedes(h, visit[d])
  BY DEF CountedOnce, Visiting
<1>4. \A h \in hits : h.n \in Nat \X Steps \X Nat /\ h.n[1] \in Nat /\ h.n[2] \in Steps /\ h.n[1] < served
  BY DEF CountedOnce
<1>5. v \in Visiting => v.id \in Nat /\ v.id < served'
  BY <1>1, <1>3 DEF Visiting
<1>6. v \in Visiting => \A d \in Threads \ {c} : visit[d] \in Visiting => visit[d].id # v.id
  BY <1>1, <1>3 DEF CountedOnce
<1>7. ASSUME v \in Visiting, NEW h \in hits
      PROVE  Precedes(h, v)
  <2>1. CASE v.id = served
    BY <1>1, <1>4, <2>1 DEF Precedes
  <2>2. CASE v.id # served
    <3>1. /\ visit[c] \in Visiting /\ v.id = visit[c].id
          /\ Rank(visit[c].step) < Rank(v.step)
      BY <1>7, <2>2
    <3>2. Precedes(h, visit[c])
      BY <1>3, <3>1
    <3>3. \A s \in Steps : Rank(s) \in Nat
      BY DEF Rank, Steps
    <3>4. visit[c].step \in Steps /\ v.step \in Steps
      BY <1>7, <3>1 DEF Visiting
    <3>5. h.n[1] # v.id \/ Rank(h.n[2]) < Rank(v.step)
      <4>1. CASE h.n[1] # visit[c].id
        BY <3>1, <4>1
      <4>2. CASE Rank(h.n[2]) < Rank(visit[c].step)
        BY <1>4, <3>1, <3>3, <3>4, <4>2
      <4>3. CASE h.n[2] = visit[c].step
        BY <3>1, <4>3
      <4> QED
        BY <3>2, <4>1, <4>2, <4>3 DEF Precedes
    <3> QED
      BY <3>5 DEF Precedes
  <2> QED
    BY <2>1, <2>2
<1>8. \A d, e \in Threads : visit'[d] \in Visiting /\ visit'[e] \in Visiting
                              /\ visit'[d].id = visit'[e].id => d = e
  <2>1. \A d, e \in Threads : visit[d] \in Visiting /\ visit[e] \in Visiting
                                /\ visit[d].id = visit[e].id => d = e
    BY DEF CountedOnce
  <2> QED
    BY <1>2, <1>6, <2>1
<1>9. \A d \in Threads : visit'[d] \in Visiting =>
         /\ visit'[d].id < served'
         /\ \A h \in hits : Precedes(h, visit'[d])
  <2> SUFFICES ASSUME NEW d \in Threads, visit'[d] \in Visiting
               PROVE  /\ visit'[d].id < served'
                      /\ \A h \in hits : Precedes(h, visit'[d])
    OBVIOUS
  <2>1. CASE d = c
    BY <1>2, <1>5, <1>7, <2>1
  <2>2. CASE d # c
    <3>1. visit'[d] = visit[d]
      BY <1>2, <2>2
    <3> QED
      BY <1>1, <1>3, <3>1
  <2> QED
    BY <2>1, <2>2
<1>10. \A h \in hits : h.n \in Nat \X Steps \X Nat /\ h.n[1] < served'
  BY <1>1, <1>4
<1> QED
  BY <1>8, <1>9, <1>10 DEF CountedOnce, Precedes

\* What is counted, and acted on, is unchanged by the steps around it.
LEMMA CountsUnchanged ==
    ASSUME BehaviorInv, UNCHANGED <<local, shared, hits, acted>>
    PROVE  Earned' /\ TableRight(local, hits)' /\ SharedRight(shared, hits)'
<1>1. Earned'
  BY DEF BehaviorInv, Earned, ActionsAreEarned, HitsSince
<1>2. TableRight(local', hits') /\ SharedRight(shared', hits')
  BY DEF BehaviorInv
<1> QED
  BY <1>1, <1>2 DEF TableRight, SharedRight, RowRight, Room

LEMMA ArriveKeeps ==
    ASSUME BehaviorAssumption, BehaviorInv, NEW c \in Threads, NEW i \in Clients,
           NEW e \in Endpoints, Arrive(c, i, e)
    PROVE  BehaviorInv'
<1> DEFINE v == [step |-> "usage", client |-> i, endpoint |-> e, at |-> clock,
                 id |-> served, correlated |-> FALSE, response |-> CHOOSE r \in Responses : TRUE,
                 left |-> Stage(RouteRules[e], {"usage", "frequency"})]
<1>1. /\ served < MaxRequests /\ served' = served + 1 /\ visit' = [visit EXCEPT ![c] = v]
      /\ UNCHANGED <<clock, local, shared, flagged, hits, acted>>
  BY DEF Arrive
<1>2. v \in Visiting
  <2>1. clock \in Int /\ served \in Nat /\ "usage" \in Steps
    BY DEF BehaviorInv, BehaviorTyped, Steps
  <2>2. (CHOOSE r \in Responses : TRUE) \in Responses
    BY DEF BehaviorAssumption
  <2>3. Stage(RouteRules[e], {"usage", "frequency"}) \in Seq(AnyRule)
    <3>1. Rules(RouteRules[e]) /\ Range(RouteRules[e]) \subseteq AnyRule
      BY DEF BehaviorAssumption, AnyRule
    <3> QED
      BY <3>1, StageRules
  <2> QED
    BY <2>1, <2>2, <2>3 DEF Visiting
<1>3. v.id = served
  OBVIOUS
<1> HIDE DEF v
<1>4. BehaviorTyped'
  BY <1>1, <1>2 DEF BehaviorInv, BehaviorTyped, BehaviorAssumption
<1>5. Unused \notin Visiting
  BY DEF Unused, Visiting, Steps
<1>6. CountedOnce'
  BY <1>1, <1>2, <1>3, <1>5, MovesOn
<1> QED
  BY <1>1, <1>4, <1>6, CountsUnchanged DEF BehaviorInv

LEMMA ReturnKeeps ==
    ASSUME BehaviorAssumption, BehaviorInv, NEW c \in Threads, NEW resp \in Responses,
           Return(c, resp)
    PROVE  BehaviorInv'
<1> DEFINE s == Stage(RouteRules[visit[c].endpoint], {"return_pattern"})
           v == [visit[c] EXCEPT !.step = "return", !.response = resp, !.left = s]
<1>1. /\ visit[c].step = "usage" /\ visit' = [visit EXCEPT ![c] = v]
      /\ UNCHANGED <<clock, local, shared, flagged, served, hits, acted>>
  BY DEF Return, Is
<1>2. visit[c] \in Visiting
  BY <1>1 DEF BehaviorInv, BehaviorTyped, Unused
<1>3. s \in Seq(AnyRule)
  <2>1. visit[c].endpoint \in Endpoints
    BY <1>2 DEF Visiting
  <2>2. Rules(RouteRules[visit[c].endpoint]) /\ Range(RouteRules[visit[c].endpoint]) \subseteq AnyRule
    BY <2>1 DEF BehaviorAssumption, AnyRule
  <2> QED
    BY <2>2, StageRules
<1> HIDE DEF s
<1>4. v \in Visiting /\ v.id = visit[c].id /\ v.step = "return"
  BY <1>2, <1>3 DEF Visiting, Steps
<1> HIDE DEF v
<1>5. Rank(visit[c].step) < Rank(v.step)
  BY <1>1, <1>4 DEF Rank
<1>6. Unused \notin Visiting
  BY DEF Unused, Visiting, Steps
<1>7. CountedOnce'
  BY <1>1, <1>2, <1>4, <1>5, <1>6, MovesOn
<1>8. BehaviorTyped'
  BY <1>1, <1>4 DEF BehaviorInv, BehaviorTyped
<1> QED
  BY <1>1, <1>7, <1>8, CountsUnchanged DEF BehaviorInv

LEMMA StartGlobalKeeps ==
    ASSUME BehaviorAssumption, BehaviorInv, NEW c \in Threads, StartGlobal(c)
    PROVE  BehaviorInv'
<1> DEFINE s == Stage(GlobalRules, {"return_pattern"})
           v == [visit[c] EXCEPT !.step = "global",
                   !.correlated = visit[c].client \in flagged, !.left = s]
<1>1. /\ visit[c].step = "return" /\ visit' = [visit EXCEPT ![c] = v]
      /\ UNCHANGED <<clock, local, shared, flagged, served, hits, acted>>
  BY DEF StartGlobal, Is
<1>2. visit[c] \in Visiting
  BY <1>1 DEF BehaviorInv, BehaviorTyped, Unused
<1>3. s \in Seq(AnyRule)
  <2>1. Rules(GlobalRules) /\ Range(GlobalRules) \subseteq AnyRule
    BY DEF BehaviorAssumption, AnyRule
  <2> QED
    BY <2>1, StageRules
<1>4. v \in Visiting /\ v.id = visit[c].id /\ v.step = "global"
  <2>1. (visit[c].client \in flagged) \in BOOLEAN
    OBVIOUS
  <2>2. PICK was \in BOOLEAN : was = (visit[c].client \in flagged)
    BY <2>1
  <2>3. v = [visit[c] EXCEPT !.step = "global", !.correlated = was, !.left = s]
    BY <2>2
  <2> HIDE DEF v, s
  <2> QED
    BY <1>2, <1>3, <2>3 DEF Visiting, Steps
<1> HIDE DEF v
<1>5. Rank(visit[c].step) < Rank(v.step)
  BY <1>1, <1>4 DEF Rank
<1>6. Unused \notin Visiting
  BY DEF Unused, Visiting, Steps
<1>7. CountedOnce'
  BY <1>1, <1>2, <1>4, <1>5, <1>6, MovesOn
<1>8. BehaviorTyped'
  BY <1>1, <1>4 DEF BehaviorInv, BehaviorTyped
<1> QED
  BY <1>1, <1>7, <1>8, CountsUnchanged DEF BehaviorInv

LEMMA EndRequestKeeps ==
    ASSUME BehaviorInv, NEW c \in Threads, EndRequest(c)
    PROVE  BehaviorInv'
<1>1. /\ visit' = [visit EXCEPT ![c] = Unused]
      /\ UNCHANGED <<clock, local, shared, flagged, served, hits, acted>>
  BY DEF EndRequest
<1>2. Unused \notin Visiting
  BY DEF Unused, Visiting, Steps
<1>3. CountedOnce'
  BY <1>1, <1>2, MovesOn
<1>4. BehaviorTyped'
  BY <1>1 DEF BehaviorInv, BehaviorTyped
<1> QED
  BY <1>1, <1>3, <1>4, CountsUnchanged DEF BehaviorInv

LEMMA AroundKeeps ==
    ASSUME BehaviorInv, UNCHANGED <<local, shared, visit, served, hits, acted>>,
           clock' \in 0..MaxTicks, flagged' \subseteq Clients
    PROVE  BehaviorInv'
<1>1. BehaviorTyped' /\ CountedOnce'
  BY DEF BehaviorInv, BehaviorTyped, CountedOnce, Precedes
<1> QED
  BY <1>1, CountsUnchanged DEF BehaviorInv

\* A hit of the first rule left is one that was not counted before.
LEMMA TrackRuleKeeps ==
    ASSUME BehaviorAssumption, BehaviorInv, NEW c \in Threads, TrackRule(c)
    PROVE  BehaviorInv'
<1> DEFINE r     == visit[c]
           rule  == Head(r.left)
           b     == Bucket(r.endpoint, rule)
           start == r.at - rule.window
           limit == EffectiveThreshold(rule, r.step = "global", r.correlated)
           hit   == [bucket |-> b, client |-> r.client, at |-> r.at,
                     n |-> <<r.id, r.step, Len(r.left)>>]
           act   == [rule |-> rule, limit |-> limit, bucket |-> b, client |-> r.client,
                     at |-> r.at, id |-> r.id, taken |-> Taken(rule)]
           Act(count) == acted' = IF count <= limit THEN acted ELSE acted \cup {act}
           H     == hits \cup {hit}
           mine  == {h \in H : h.bucket = b /\ h.client = r.client /\ h.at >= start}
           v     == [r EXCEPT !.left = Tail(r.left)]
<1>1. /\ r.step \in Steps /\ r.left # <<>>
      /\ visit' = [visit EXCEPT ![c] = v]
      /\ UNCHANGED <<clock, flagged, served>>
      /\ \/ UNCHANGED <<local, shared, hits, acted>>
         \/ /\ TrackShared(b, r.client, hit, start) /\ Act(Cardinality(shared'[<<b, r.client>>]))
            /\ hits' = H /\ UNCHANGED local
         \/ /\ TrackLocal(b, r.client, hit, start) /\ Act(Len(local'[b][r.client]))
            /\ hits' = H /\ UNCHANGED shared
  BY DEF TrackRule, Steps
<1>2. r \in Visiting
  BY <1>1 DEF BehaviorInv, BehaviorTyped, Unused, Steps
<1>3. /\ r.left \in Seq(AnyRule) /\ Len(r.left) \in Nat /\ rule \in AnyRule
      /\ Tail(r.left) \in Seq(AnyRule) /\ Len(Tail(r.left)) = Len(r.left) - 1
      /\ r.id \in Nat /\ r.at \in Int
  BY <1>1, <1>2 DEF Visiting
<1>4. rule.window \in Nat /\ limit \in Int /\ start \in Int /\ r.at >= start
  <2>1. rule.window \in Nat
    BY <1>3, RulesBound
  <2>2. limit \in Int
    BY <1>3, LimitIsNumber
  <2> HIDE DEF rule, limit
  <2> QED
    BY <1>3, <2>1, <2>2
<1>5. v \in Visiting /\ v.id = r.id /\ v.step = r.step /\ Len(v.left) = Len(r.left) - 1
  BY <1>2, <1>3 DEF Visiting
<1>6. /\ hit.bucket = b /\ hit.client = r.client /\ hit.at = r.at
      /\ hit.n = <<r.id, r.step, Len(r.left)>>
      /\ hit.n[1] = r.id /\ hit.n[2] = r.step /\ hit.n[3] = Len(r.left)
  OBVIOUS
<1>7. hit \notin hits
  <2>1. ~Precedes(hit, r)
    <3>1. Rank(r.step) \in Nat
      BY DEF Rank
    <3> HIDE DEF hit, r
    <3> QED
      BY <1>3, <1>6, <3>1 DEF Precedes
  <2>2. \A h \in hits : Precedes(h, r)
    BY <1>2 DEF BehaviorInv, CountedOnce
  <2> QED
    BY <2>1, <2>2
<1>8. BehaviorTyped'
  <2> HIDE DEF v
  <2> QED
    BY <1>1, <1>5 DEF BehaviorInv, BehaviorTyped
<1> HIDE DEF limit, rule, b, hit, start, v
<1>9. /\ visit \in [Threads -> Visiting \cup {Unused}] /\ served \in Nat
      /\ visit'[c] = v /\ \A d \in Threads : d # c => visit'[d] = visit[d]
  BY <1>1 DEF BehaviorInv, BehaviorTyped
<1>10. ASSUME NEW G, G = hits \/ G = H, hits' = G
       PROVE  CountedOnce'
  <2>1. /\ \A d, e \in Threads : visit[d] \in Visiting /\ visit[e] \in Visiting
                                   /\ visit[d].id = visit[e].id => d = e
        /\ \A d \in Threads : visit[d] \in Visiting =>
              visit[d].id < served /\ \A h \in hits : Precedes(h, visit[d])
        /\ \A h \in hits : h.n \in Nat \X Steps \X Nat /\ h.n[1] < served
    BY DEF BehaviorInv, CountedOnce
  <2>2. \A d, e \in Threads : visit'[d] \in Visiting /\ visit'[e] \in Visiting
                                /\ visit'[d].id = visit'[e].id => d = e
    <3>1. \A d \in Threads : visit'[d] \in Visiting =>
             visit[d] \in Visiting /\ visit'[d].id = visit[d].id
      BY <1>2, <1>5, <1>9
    <3> QED
      BY <2>1, <3>1
  <2>3. r.id < served
    BY <1>2, <2>1
  <2>4. \A h \in G : h.n \in Nat \X Steps \X Nat /\ h.n[1] < served
    <3>1. hit.n \in Nat \X Steps \X Nat /\ hit.n[1] < served
      BY <1>1, <1>3, <1>6, <2>3
    <3> QED
      BY <1>10, <2>1, <3>1
  <2>5. ASSUME NEW d \in Threads, visit'[d] \in Visiting, NEW h \in G
        PROVE  Precedes(h, visit'[d])
    <3>1. CASE d = c
      <4>1. visit'[d] = v
        BY <1>9, <3>1
      <4>2. CASE h \in hits
        <5>1. Precedes(h, r) /\ h.n[3] \in Nat
          BY <1>2, <2>1, <4>2
        <5>2. Precedes(h, v)
          <6> HIDE DEF r
          <6> QED
            BY <1>3, <1>5, <5>1 DEF Precedes
        <5> QED
          BY <4>1, <5>2
      <4>3. CASE h = hit
        <5>1. h.n[2] = v.step /\ h.n[3] > Len(v.left)
          BY <1>3, <1>5, <1>6, <4>3
        <5> QED
          BY <4>1, <5>1 DEF Precedes
      <4> QED
        BY <1>10, <4>2, <4>3
    <3>2. CASE d # c
      <4>1. visit'[d] = visit[d] /\ visit[d] \in Visiting /\ visit[d].id < served
        BY <1>9, <2>1, <2>5, <3>2
      <4>2. CASE h \in hits
        BY <2>1, <4>1, <4>2
      <4>3. CASE h = hit
        <5>1. h.n[1] # visit[d].id
          BY <1>2, <1>6, <2>1, <3>2, <4>1, <4>3
        <5> QED
          BY <4>1, <5>1 DEF Precedes
      <4> QED
        BY <1>10, <4>2, <4>3
    <3> QED
      BY <3>1, <3>2
  <2>6. served' = served
    BY <1>1
  <2>7. \A d \in Threads : visit'[d] \in Visiting => visit'[d].id < served
    BY <1>2, <1>5, <1>9, <2>1
  <2> HIDE DEF r, H
  <2> QED
    BY <1>10, <2>2, <2>4, <2>5, <2>6, <2>7 DEF CountedOnce, Precedes
<1>11. IsFiniteSet(hits) /\ IsFiniteSet(H)
  BY FS_AddElement DEF BehaviorInv, Earned
<1>12. mine \subseteq H /\ IsFiniteSet(mine) /\ Cardinality(mine) \in Nat
  <2>1. mine \subseteq H
    OBVIOUS
  <2> HIDE DEF mine
  <2> QED
    BY <1>11, <2>1, FS_Subset, FS_CardinalityType
<1>13. ASSUME NEW count \in Int, count <= Cardinality(mine), Act(count), hits' = H
       PROVE  Earned'
  <2>1. ASSUME NEW a \in acted
        PROVE  /\ a.limit \in Int
               /\ Cardinality(HitsSince(a.bucket, a.client, a.at - a.rule.window)') > a.limit
    <3> DEFINE then == a.at - a.rule.window
               old  == HitsSince(a.bucket, a.client, then)
               new  == {h \in H : h.bucket = a.bucket /\ h.client = a.client /\ h.at >= then}
    <3>1. a.limit \in Int /\ Cardinality(old) > a.limit
      BY DEF BehaviorInv, Earned, ActionsAreEarned
    <3>2. /\ Cardinality(old) \in Nat /\ Cardinality(new) \in Nat
          /\ Cardinality(old) <= Cardinality(new)
      <4>1. hits \subseteq H
        OBVIOUS
      <4> HIDE DEF H
      <4> QED
        BY <1>11, <1>13, <4>1, HitsGrow
    <3>3. HitsSince(a.bucket, a.client, a.at - a.rule.window)' = new
      BY <1>13 DEF HitsSince
    <3> HIDE DEF old, new
    <3> QED
      BY <3>1, <3>2, <3>3
  <2>2. CASE count <= limit
    <3>1. acted' = acted
      BY <1>13, <2>2
    <3> QED
      BY <1>11, <1>13, <2>1, <3>1 DEF Earned, ActionsAreEarned
  <2>3. CASE ~(count <= limit)
    <3>1. PICK a : a = act
      OBVIOUS
    <3>2. acted' = acted \cup {a}
      BY <1>13, <2>3, <3>1
    <3>3. /\ a.limit = limit /\ a.bucket = b /\ a.client = r.client
          /\ a.at - a.rule.window = start
      BY <3>1 DEF start
    <3>4. HitsSince(a.bucket, a.client, a.at - a.rule.window)' = mine
      BY <1>13, <3>3 DEF HitsSince
    <3>5. /\ a.limit \in Int
          /\ Cardinality(HitsSince(a.bucket, a.client, a.at - a.rule.window)') > a.limit
      <4> HIDE DEF mine
      <4> QED
        BY <1>4, <1>12, <1>13, <2>3, <3>3, <3>4
    <3> HIDE DEF act
    <3> QED
      BY <1>11, <1>13, <2>1, <3>2, <3>5 DEF Earned, ActionsAreEarned
  <2> QED
    BY <2>2, <2>3
<1>14. CASE UNCHANGED <<local, shared, hits, acted>>
  BY <1>8, <1>10, <1>14, CountsUnchanged DEF BehaviorInv
<1>15. CASE /\ TrackShared(b, r.client, hit, start) /\ Act(Cardinality(shared'[<<b, r.client>>]))
            /\ hits' = H /\ UNCHANGED local
  <2>1. SharedRight(shared', H) /\ shared'[<<b, r.client>>] \subseteq mine
    BY <1>6, <1>15, SharedCounted DEF BehaviorInv
  <2>2. /\ Cardinality(shared'[<<b, r.client>>]) \in Nat
        /\ Cardinality(shared'[<<b, r.client>>]) <= Cardinality(mine)
    <3> HIDE DEF mine
    <3> QED
      BY <1>12, <2>1, FS_Subset, FS_CardinalityType
  <2>3. Earned'
    BY <1>13, <1>15, <2>2
  <2>4. TableRight(local', H)
    BY <1>15 DEF BehaviorInv, TableRight, RowRight
  <2>5. TableRight(local, hits)' /\ SharedRight(shared, hits)'
    <3>1. hits' = H
      BY <1>15
    <3>2. TableRight(local, hits)'
      BY <2>4, <3>1 DEF TableRight, RowRight, Room
    <3>3. SharedRight(shared, hits)'
      BY <2>1, <3>1 DEF SharedRight
    <3> QED
      BY <3>2, <3>3
  <2> QED
    BY <1>8, <1>10, <1>15, <2>3, <2>5 DEF BehaviorInv
<1>16. CASE /\ TrackLocal(b, r.client, hit, start) /\ Act(Len(local'[b][r.client]))
            /\ hits' = H /\ UNCHANGED shared
  <2>1. /\ TableRight(local', H) /\ local'[b][r.client] \in Seq(H)
        /\ IsInjective(local'[b][r.client]) /\ Range(local'[b][r.client]) \subseteq mine
    <3>1. TableRight(local, hits) /\ hit.at >= start
      BY <1>4, <1>6 DEF BehaviorInv
    <3> DEFINE i == r.client
    <3>2. hit.bucket = b /\ hit.client = i /\ TrackLocal(b, i, hit, start)
      BY <1>6, <1>16
    <3> HIDE DEF i
    <3>3. TableRight(local', H) /\ CountsOnly(local'[b][i], H, b, i, start)
      BY <1>7, <3>1, <3>2, LocallyCounted
    <3> QED
      BY <3>3 DEF i, CountsOnly
  <2>2. Len(local'[b][r.client]) \in Nat /\ Len(local'[b][r.client]) <= Cardinality(mine)
    <3> DEFINE row == local'[b][r.client]
    <3>1. row \in Seq(H) /\ IsInjective(row) /\ Range(row) \subseteq mine
      BY <2>1
    <3> HIDE DEF mine, row, H
    <3>2. Len(row) <= Cardinality(mine)
      BY <1>12, <3>1, AsManyAs
    <3> QED
      BY <3>1, <3>2 DEF row
  <2>3. Earned'
    BY <1>13, <1>16, <2>2
  <2>4. SharedRight(shared', H)
    BY <1>16 DEF BehaviorInv, SharedRight
  <2>5. TableRight(local, hits)' /\ SharedRight(shared, hits)'
    BY <1>16, <2>1, <2>4 DEF TableRight, SharedRight, RowRight, Room
  <2> QED
    BY <1>8, <1>10, <1>16, <2>3, <2>5 DEF BehaviorInv
<1> QED
  BY <1>1, <1>14, <1>15, <1>16

LEMMA BehaviorStep ==
    ASSUME BehaviorAssumption, BehaviorInv, [BehaviorNext]_behaviorVars
    PROVE  BehaviorInv'
<1>1. clock \in 0..MaxTicks /\ flagged \subseteq Clients /\ MaxTicks \in Nat
  BY DEF BehaviorInv, BehaviorTyped, BehaviorAssumption
<1>2. CASE UNCHANGED behaviorVars
  BY <1>1, <1>2, AroundKeeps DEF behaviorVars
<1>3. CASE ClockTick
  BY <1>1, <1>3, AroundKeeps DEF ClockTick
<1>4. CASE \E i \in Clients : FlagClient(i)
  BY <1>1, <1>4, AroundKeeps DEF FlagClient
<1>5. CASE \E c \in Threads : \/ \E i \in Clients, e \in Endpoints : Arrive(c, i, e)
                              \/ TrackRule(c)
                              \/ \E resp \in Responses : Return(c, resp)
                              \/ StartGlobal(c) \/ EndRequest(c)
  BY <1>5, ArriveKeeps, TrackRuleKeeps, ReturnKeeps, StartGlobalKeeps, EndRequestKeeps
<1> QED
  BY <1>2, <1>3, <1>4, <1>5 DEF BehaviorNext

\* Whatever requests run at once, whichever tables make room and whichever hits
\* Redis takes or leaves to the local table: the tables stay within their bounds,
\* and an action rests on more hits of its client, in its bucket and its window,
\* than its limit.
THEOREM ActionsHaveHits == BehaviorSpec => []BehaviorHolds
<1>1. BehaviorInit => BehaviorInv
  BY BehaviorAssumption, BehaviorFirst
<1>2. BehaviorInv /\ [BehaviorNext]_behaviorVars => BehaviorInv'
  BY BehaviorAssumption, BehaviorStep
<1>3. BehaviorInv => BehaviorHolds
  <2>1. \A c \in Visiting \cup {Unused} : c.step \in {"idle", "usage", "return", "global"}
    BY DEF Visiting, Unused, Steps
  <2>2. BehaviorInv => \A n \in 1..2 : Cardinality(Table(n)) <= MaxTrackedEndpoints
    BY DEF BehaviorInv, TableRight, Room, Table
  <2> QED
    BY <2>1, <2>2 DEF BehaviorInv, BehaviorTyped, Earned, TableRight, Room, BehaviorHolds,
                      BehaviorTypeOK
<1> QED
  BY <1>1, <1>2, <1>3, PTL DEF BehaviorSpec
=============================================================================
