------------------------------- MODULE AutoBan -------------------------------
(***************************************************************************)
(* What automatic banning promises of one address: violations are counted  *)
(* by category and never forgotten, and the address becomes banned only    *)
(* while some count has reached its threshold, or the sum of all counts    *)
(* the common one.  Lifting a ban leaves the counts.                       *)
(***************************************************************************)
EXTENDS Integers, FiniteSets

CONSTANTS Categories,  \* threat categories, numbered in alphabetical order
          Threshold,   \* Threshold[k]: violations of k that call for a ban
          AutoBanThreshold

VARIABLES counts,      \* counts[k]: violations of category k
          banned

\* The sum of f: the number of its violations, each told by its category and number.
TotalOf(f) == Cardinality(UNION {{k} \X (1..f[k]) : k \in Categories})

Violate(found) ==
    /\ counts' = [k \in Categories |-> counts[k] + IF k \in found THEN 1 ELSE 0]
    /\ UNCHANGED banned

Earned == \/ \E k \in Categories : counts[k] >= Threshold[k]
          \/ TotalOf(counts) >= AutoBanThreshold

GrantBan == Earned /\ banned' = TRUE /\ UNCHANGED counts
LiftBan  == banned' = FALSE /\ UNCHANGED counts

AutoBanInit == counts = [k \in Categories |-> 0] /\ banned = FALSE
AutoBanNext == \/ \E found \in (SUBSET Categories) \ {{}} : Violate(found)
               \/ GrantBan
               \/ LiftBan
AutoBanSpec == AutoBanInit /\ [][AutoBanNext]_<<counts, banned>>
=============================================================================
