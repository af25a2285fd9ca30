----------------------------- MODULE ThreatScan -----------------------------
(***************************************************************************)
(* The detection pass over one request (pipeline.go detectThreat): which   *)
(* values of a request are scanned, for which categories, in which order,  *)
(* and within which budget (detectionexclusions.go, headerexclusions.go,   *)
(* scanbudget.go).  Parameters and headers come out of Go maps, so each in *)
(* any order; the values of the body come as they were extracted.          *)
(*                                                                         *)
(* A value is abstracted to its place, its name, its size, the categories  *)
(* the pattern engine reports for it, and, for a header, whether it reads  *)
(* as a chain of addresses.                                                *)
(***************************************************************************)
EXTENDS Integers, FiniteSets

CONSTANTS
    ScanRequests,    \* sets of values: [place, name, at, size, threats, chain,
                     \* forced], "at" being the position in a body
    Globals,         \* what configurations say: [params, fields, headers,
                     \* categories, scanBody]
    Overrides,       \* the same of a route, Unset where it says nothing
    Unset,
    DefaultExcluded, \* DefaultExcludedHeaders
    AddressHeaders,  \* headers that carry addresses
    MaxValues, MaxChars

VARIABLES
    scan,               \* the request's values
    global, scanRoute,  \* the configuration and the route
    left,               \* values still to be looked at
    used,               \* the budget: [values, chars]
    scanned,            \* values handed to the engine
    found               \* Scanning, or the categories found

scanVars == <<scan, global, scanRoute, left, used, scanned, found>>

Scanning  == {"scanning"}
NotForced == ""          \* all but an operator key

\* A request has finitely many values; the category an operator key forces is
\* its own.
ASSUME ScanAssumption ==
    /\ MaxValues \in Nat /\ MaxChars \in Nat
    /\ \A r \in ScanRequests :
         /\ IsFiniteSet(r)
         /\ \A v \in r : /\ v.size \in Nat
                         /\ v.forced \notin {"scanning", "ssrf"}
                         /\ "scanning" \notin v.threats

----------------------------------------------------------------------------
(* resolveDetectionExclusions                                              *)

\* What a route says replaces what the configuration says.
Prevailing(of, otherwise) == IF of # Unset THEN of ELSE otherwise

\* The excluded headers add up.
Excluded == DefaultExcluded \cup global.headers \cup Prevailing(scanRoute.headers, {})

Enabled    == Prevailing(scanRoute.categories, global.categories)
ScansBody  == Prevailing(scanRoute.scanBody, Prevailing(global.scanBody, TRUE))

\* An excluded header is scanned, but not for ssrf when addresses are what it
\* holds.
Skipped(v) ==
    IF /\ v.place = "header" /\ v.name \in Excluded
       /\ v.name \in AddressHeaders \/ v.chain
    THEN {"ssrf"} ELSE {}

Effective(v) == (v.threats \cap Enabled) \ Skipped(v)

\* The values of the request that are not left out as a whole; an empty path
\* and empty headers are none.
Surface ==
    {v \in scan :
       CASE v.place = "path"   -> v.size > 0
         [] v.place = "param"  -> v.name \notin Prevailing(scanRoute.params, global.params)
         [] v.place = "header" -> v.size > 0
         [] v.place = "body"   ->
              ScansBody /\ v.name \notin Prevailing(scanRoute.fields, global.fields)}

----------------------------------------------------------------------------
(* The scan                                                                *)

ScanInit ==
    /\ scan \in ScanRequests /\ global \in Globals /\ scanRoute \in Overrides
    /\ left = Surface
    /\ used = [values |-> 0, chars |-> 0]
    /\ scanned = {}
    /\ found = Scanning

Rank(v) == CASE v.place = "path"   -> 0
             [] v.place = "param"  -> 1
             [] v.place = "header" -> 2
             [] v.place = "body"   -> 3 + v.at

\* Mutation of Exhausted: one value too few.
ExhaustedEarly(u)   == u.values >= MaxValues \/ u.chars >= MaxChars
\* exhausted: the value counts first, its characters only if it is scanned, so
\* that the value which crosses the limit is scanned as a whole.
Exhausted(u) == u.values > MaxValues \/ u.chars >= MaxChars

\* One value.  The first the engine finds anything in ends the scan, also when
\* nothing that was found is enabled; an operator key is a hit of its own.
ScanValue(v) ==
    LET counted == [used EXCEPT !.values = @ + 1] IN
    /\ found = Scanning
    /\ v \in left /\ \A w \in left : Rank(v) <= Rank(w)
    /\ left' = left \ {v}
    /\ IF Exhausted(counted)
       THEN used' = counted /\ UNCHANGED <<scanned, found>>
       ELSE /\ used' = [counted EXCEPT !.chars = @ + v.size]
            /\ scanned' = scanned \cup {v}
            /\ found' = IF v.forced # NotForced THEN {v.forced}
                        ELSE IF v.threats # {} THEN Effective(v)
                        ELSE Scanning
    /\ UNCHANGED <<scan, global, scanRoute>>

EndScan ==
    /\ found = Scanning /\ left = {}
    /\ found' = {}
    /\ UNCHANGED <<scan, global, scanRoute, left, used, scanned>>

ScanNext == (\E v \in left : ScanValue(v)) \/ EndScan

----------------------------------------------------------------------------
(* Properties                                                              *)

\* The characters of a set of values.
Sizes(values) == Cardinality(UNION {{v} \X (1..v.size) : v \in values})
Spent         == Cardinality(scanned) = MaxValues \/ Sizes(scanned) >= MaxChars

\* A request passes with a value in it that would be flagged only when the
\* budget is spent, to the last value and character, or when a value before it
\* was flagged for nothing but categories that do not count.
MissesAreExplained ==
    found = {} =>
      \A v \in Surface \ scanned : Effective(v) # {} \/ v.forced # NotForced =>
        Spent \/ \E u \in scanned : u.threats # {} /\ Effective(u) = {}

\* The budget is one for all surfaces: whatever the order of the maps, no more
\* values are scanned, and no more characters but for the last value.
BudgetSpansSurfaces ==
    /\ Cardinality(scanned) <= MaxValues
    /\ scanned # {} =>
         \E v \in scanned : Sizes(scanned \ {v}) < MaxChars

\* No route makes an address header that the defaults or the configuration
\* exclude be flagged for ssrf: the exclusions of headers only add up.
HeaderExclusionsAddUp ==
    "ssrf" \in found =>
      \E v \in scanned : "ssrf" \in v.threats /\
        ~(/\ v.place = "header"
          /\ v.name \in AddressHeaders \cap (DefaultExcluded \cup global.headers))

\* What a scan leaves out is excluded, by the route or the configuration, or
\* beyond the budget of the request (detectThreat).
ScanHolds == MissesAreExplained /\ BudgetSpansSurfaces /\ HeaderExclusionsAddUp

(* docs/configuration.md:71: excluded headers skip the ssrf category only,  *)
(* "every other category still scans them".                                 *)
ExcludedHeadersAreScanned ==
    found = {} /\ ~Spent =>
      ~\E v \in scan : /\ v.place = "header" /\ v.name \in Excluded /\ v.size > 0
                       /\ (v.threats \cap Enabled) \ {"ssrf"} # {}
=============================================================================
