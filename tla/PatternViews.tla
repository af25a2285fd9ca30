---------------------------- MODULE PatternViews ----------------------------
(***************************************************************************)
(* One call of Detect: the patterns run over several views of one value,   *)
(* the processed one, the raw one, the decoded one that keeps newlines and *)
(* the fragments of short base64, and the findings add up to a score       *)
(* (detect.go, registry.go, the decode loop of preprocessor.go).           *)
(*                                                                         *)
(* A pattern is [set, contexts, weight, way, recon, noisy].  A value is    *)
(* what the matchers find in it: matches[view][pattern] lists matches      *)
(* [text, accepted, separated, dense], slow the pairs of a view and a      *)
(* pattern whose expression timed out.  Weights are tenths.                *)
(***************************************************************************)
EXTENDS Integers, Sequences, FiniteSets, FiniteSetsExt, SequencesExt

CONSTANTS
    Values,
    Table,           \* the patterns of globalPatterns, in their order
    PatternOf,       \* their records
    MaxIterations,   \* maxDecodeIterations
    SemanticThreshold

VARIABLES value, views, threats      \* views are those still to be scanned
viewsVars == <<value, views, threats>>

Contexts == {"query_param", "header", "url_path", "request_body", "unknown"}

----------------------------------------------------------------------------
(* Patterns and views                                                      *)

\* The raw and the decoded view have patterns of their own; recon patterns run
\* on the raw view too, and everything on the base64 fragments.
Runs(p, view) ==
    LET set == PatternOf[p].set IN
    CASE view = "main"  -> set \notin {"raw", "decoded"}
      [] view = "raw"   -> set \in {"raw", "recon"}
      [] view = "url"   -> set = "decoded"
      [] view = "short" -> TRUE

Context == IF value.context \in Contexts THEN value.context ELSE "unknown"
Applies(p) == Context \in {"unknown", "request_body"} \/ Context \in PatternOf[p].contexts

\* A match counts unless the validator of the pattern, the rule about leading
\* separators or the gate for binary noise drops it.
Accepted(p, m) ==
    /\ PatternOf[p].validated => m.accepted
    /\ PatternOf[p].optionalSeparator =>
         (Context \in {"url_path", "unknown"} \/ m.separated)
    /\ ~(PatternOf[p].noisy /\ m.dense)

Threat(p, type, text) ==
    [type |-> type, pattern |-> p, match |-> text, weight |-> PatternOf[p].weight]

\* Mutation of FirstAccepted: a first match that is dropped ends the pattern.
FirstAcceptedAtOnce(p, matches) ==
    IF matches # <<>> /\ Accepted(p, Head(matches))
    THEN <<Threat(p, "regex", Head(matches).text)>> ELSE <<>>

FirstAccepted(p, matches) ==
    LET good == SelectSeq(matches, LAMBDA m : Accepted(p, m))
    IN IF good = <<>> THEN <<>> ELSE <<Threat(p, "regex", Head(good).text)>>

\* A pattern that timed out is a finding; a windowed one reports no timeout.
OfPattern(p, view) ==
    LET found == FirstAccepted(p, value.matches[view][p])
    IN IF found = <<>> /\ <<view, p>> \in value.slow /\ ~PatternOf[p].windowed
       THEN <<Threat(p, "timeout", "")>> ELSE found

OfView(view) ==
    FlattenSeq([i \in DOMAIN Table |->
        IF Runs(Table[i], view) /\ Applies(Table[i]) THEN OfPattern(Table[i], view) ELSE <<>>])

\* dropViewDuplicateThreats
New(found) ==
    LET Seen(t) == \E s \in ToSet(threats) : s.pattern = t.pattern /\ s.match = t.match
    IN SelectSeq(found, LAMBDA t : ~Seen(t))

----------------------------------------------------------------------------
(* Decoding: each pass takes off one layer; the loop gives up in the end.  *)

Exhausted(layers) == layers >= MaxIterations

Extra(type, weight) == [type |-> type, pattern |-> type, match |-> type, weight |-> weight]

----------------------------------------------------------------------------
ViewsInit ==
    /\ value \in Values
    /\ views = <<"main", "raw", "traversal", "url", "budget", "short">>
    /\ threats = <<>>

ScanView ==
    LET view == Head(views) IN
    /\ views # <<>> /\ view \in {"main", "raw", "url", "short"}
    /\ threats' = threats \o (CASE view = "raw"   -> New(OfView(view))
                                [] view = "short" -> IF value.short THEN OfView(view) ELSE <<>>
                                [] OTHER          -> OfView(view))
    /\ views' = Tail(views)
    /\ UNCHANGED value

\* More "../" shapes in the processed view than in the raw one.
CheckTraversal ==
    /\ views # <<>> /\ Head(views) = "traversal"
    /\ threats' = IF value.shapes.main > value.shapes.raw
                  THEN Append(threats, Extra("traversal", 10)) ELSE threats
    /\ views' = Tail(views)
    /\ UNCHANGED value

CheckBudget ==
    /\ views # <<>> /\ Head(views) = "budget"
    /\ threats' = IF Exhausted(value.layers)
                  THEN Append(threats, Extra("decode_budget_exhausted", 10)) ELSE threats
    /\ views' = Tail(views)
    /\ UNCHANGED value

ViewsNext == ScanView \/ CheckTraversal \/ CheckBudget

----------------------------------------------------------------------------
(* The verdict, once all views are scanned                                 *)

Anomaly == FoldSeq(LAMBDA t, n : n + t.weight, 0, threats)

\* Attack types as likely as the threshold; else the score by itself.
Semantic ==
    IF value.binary \/ value.semantic.score <= SemanticThreshold THEN {}
    ELSE LET likely == {p \in value.semantic.attacks : p >= SemanticThreshold}
         IN IF likely = {} THEN {value.semantic.score} ELSE likely

Threatens(anomaly, semantic) == anomaly >= 10 \/ semantic # {}
IsThreat == Threatens(Anomaly, Semantic)
ThreatScore == Min({10, Max({Anomaly} \cup Semantic)})

----------------------------------------------------------------------------
(* Properties                                                              *)

Scanned == views = <<>>

(* The same pattern over the same text counts once, whichever of the         *)
(* processed, the raw and the decoded view it was seen in: the score is not  *)
(* the number of views that show it (Detect, dropViewDuplicateThreats).      *)
EvidenceCountsOnce ==
    ~value.short =>
      \A i, j \in DOMAIN threats :
         i # j => <<threats[i].pattern, threats[i].match>> # <<threats[j].pattern, threats[j].match>>

(* A match that is dropped as noise or as harmless does not hide one of the  *)
(* same pattern behind it: what is accepted in a view where the pattern runs *)
(* is reported (firstAcceptedThreat).                                        *)
AcceptedIsReported ==
    Scanned =>
      \A p \in ToSet(Table), view \in {"main", "raw", "url"} :
         (/\ Runs(p, view) /\ Applies(p)
          /\ \E m \in ToSet(value.matches[view][p]) : Accepted(p, m))
         => \E t \in ToSet(threats) : t.pattern = p /\ t.type = "regex"

(* A value with more layers of encoding than the engine takes off is a       *)
(* threat, for what is below was not seen (decodeCommonEncodings).           *)
UndecodedIsThreat == Scanned /\ value.layers > MaxIterations => IsThreat

(* Verdict and score agree: a score of one is a threat, and a lower score is *)
(* one only for a semantic finding at its threshold (calculateThreatScore).  *)
ScoreAgrees ==
    Scanned =>
      /\ ThreatScore = 10 => IsThreat
      /\ IsThreat => ThreatScore >= SemanticThreshold
=============================================================================
