---------------------------- MODULE PatternCost ----------------------------
(***************************************************************************)
(* The verdict on one custom pattern (redos_compiler.go and the cost       *)
(* arbiter, redos_arbiter.go): after the tests of its syntax, texts made   *)
(* against it are searched and timed, on a loaded host, before a deadline. *)
(* A builder is the sequence of the texts it makes at the four sizes, and  *)
(* a search of text t takes Cost[t] and what the host adds.  Times are     *)
(* integers, loads are in quarters.  The verdict is "safe" or why not.     *)
(***************************************************************************)
EXTENDS Integers, Sequences, FiniteSets, FiniteSetsExt, SequencesExt

CONSTANTS
    Patterns,     \* what is validated, see MCDecisions
    Cost,         \* Cost[t]: the undisturbed search of text t
    Noise,        \* what a busy host adds to one search
    References,   \* measured times of the reference scan; 0 when it fails
    Loads,        \* load factors that an earlier verdict measured
    Delays,       \* times that making the texts takes
    Reference,    \* goReferenceScanSeconds
    Floor, Ceiling,             \* loadFactorFloor, loadFactorCeiling, in quarters
    Combined, DeadlineCeiling,  \* reachProbeCombinedTimeoutSeconds, ...Ceiling
    Kill, Large, NoiseFloor, Budget, PerString, Samples, MaxSets,
    Pending

VARIABLES pattern, probing, outcome
costVars == <<pattern, probing, outcome>>

----------------------------------------------------------------------------
(* Arithmetic of the arbiter                                               *)

LoadFactor(reference) ==
    IF reference = 0 THEN 4 ELSE Min({Max({(4 * reference) \div Reference, Floor}), Ceiling})

Deadline(load) == Min({(Combined * Max({load, 4})) \div 4, DeadlineCeiling})

\* The two largest sizes, or all four for a pattern under suspicion.
Sizes(p) == IF p.findings # <<>> \/ p.bounded THEN 1..4 ELSE 3..4
Timed(p, set) == SubSeq(set, Min(Sizes(p)), 4)

\* uniqueProbeSets, by the texts of the sizes that are timed.
Unique(p) ==
    LET Add(sets, b) == IF b \in ToSet(sets) THEN sets ELSE Append(sets, b)
    IN FoldLeft(Add, <<>>, [i \in DOMAIN p.builders |-> Timed(p, p.builders[i])])

\* strideSampledProbeSets
Sampled(sets) ==
    LET stride == (Len(sets) + MaxSets - 1) \div MaxSets
    IN IF Len(sets) <= MaxSets THEN sets
       ELSE [i \in 1..((Len(sets) + stride - 1) \div stride) |-> sets[(i - 1) * stride + 1]]

\* Mutation of Over: a time that falls with the size is extrapolated too.
OverFalling(min16, min32, doublings, load) ==
    LET falls == 4 * min16 > NoiseFloor * load
        up    == IF falls THEN Max({doublings, 0}) ELSE 0
        down  == IF falls THEN Max({-doublings, 0}) ELSE 0
    IN 4 * min32^(1 + up) * min16^down > Budget * load * min16^up * min32^down

\* reachProbeVerdictFromSamples, of the least times at 16000 and 32000 characters
\* (doublings: from 32000 to the cap, below 0 for a smaller cap).
Over(min16, min32, doublings, load) ==
    LET grows == 4 * min16 > NoiseFloor * load /\ min32 > min16
        up    == IF grows THEN Max({doublings, 0}) ELSE 0
        down  == IF grows THEN Max({-doublings, 0}) ELSE 0
    IN 4 * min32^(1 + up) * min16^down > Budget * load * min16^up * min32^down

----------------------------------------------------------------------------
(* The verdict                                                             *)

Unmeasured == 0
NoProbe == [step |-> "gates", clock |-> 0, load |-> Unmeasured, sets |-> <<>>, at |-> 1,
            attempt |-> 1, mins |-> <<>>, samples |-> <<>>, disturbed |-> {}]

CostInit ==
    /\ pattern \in Patterns
    /\ probing \in {[NoProbe EXCEPT !.load = l] : l \in {Unmeasured} \cup Loads}
    /\ outcome = Pending

At(step) == outcome = Pending /\ probing.step = step

Refuse(reason) == outcome' = reason /\ UNCHANGED <<pattern, probing>>
Accept == outcome' = "safe" /\ UNCHANGED <<pattern, probing>>
Go(next) == probing' = next /\ UNCHANGED <<pattern, outcome>>

\* ValidatePatternSafety up to the choice of the mode.
Gates ==
    /\ At("gates")
    /\ IF pattern.dangerous THEN Refuse("dangerous")
       ELSE IF ~pattern.parses THEN Refuse("invalid")
       ELSE IF pattern.mode = "cost" THEN Go([probing EXCEPT !.step = "load"])
       ELSE IF pattern.findings # <<>> THEN Refuse(Head(pattern.findings))
       ELSE IF pattern.mode \notin pattern.compiles THEN Refuse("invalid")
       ELSE Go([probing EXCEPT !.step = "strings"])

\* runPatternSafetyProbe, one test string; a search that is killed is too long.
ProbeString ==
    /\ At("strings")
    /\ IF probing.at > Len(pattern.strings) THEN Accept
       ELSE \E n \in Noise :
              IF Cost[pattern.strings[probing.at]] + n > PerString THEN Refuse("slow string")
              ELSE Go([probing EXCEPT !.at = @ + 1])

\* The verdict's clock runs while the load is measured, which the first verdict
\* of the process does for all.
MeasureLoad ==
    /\ At("load")
    /\ IF probing.load # Unmeasured THEN Go([probing EXCEPT !.step = "build"])
       ELSE \E r \in References :
              Go([probing EXCEPT !.step = "build", !.load = LoadFactor(r),
                                 !.clock = @ + Samples * r])

\* A covered terminator scan, when it is the first finding.
Override(p) == p.findings # <<>> /\ Head(p.findings) = "terminator" /\ p.covered

Because(reason) == IF pattern.findings # <<>> THEN Head(pattern.findings) ELSE reason

InTime == probing.clock < Deadline(probing.load)

Build ==
    /\ At("build")
    /\ IF Override(pattern) THEN Accept
       ELSE IF ~pattern.reaches THEN Refuse(Because("unreachable"))
       ELSE IF pattern.fails THEN Refuse(Because("construction"))
       ELSE \E t \in Delays :
              Go([probing EXCEPT !.step = "built", !.clock = @ + t])

\* A pattern against which no text can be made is taken for safe.
BuiltInTime ==
    /\ At("built")
    /\ IF ~InTime THEN Refuse("construction")
       ELSE IF pattern.builders = <<>> THEN Accept
       ELSE IF pattern.mode \notin pattern.compiles THEN Refuse("invalid")
       ELSE Go([probing EXCEPT !.step = "next", !.sets = Sampled(Unique(pattern))])

NextSet ==
    /\ At("next")
    /\ IF probing.at > Len(probing.sets) THEN Accept
       ELSE IF ~InTime THEN Refuse(Because("late"))
       ELSE Go([probing EXCEPT !.step = "time", !.attempt = 1, !.mins = <<>>, !.disturbed = {}])

\* What a search takes, on the clock of its kill switch, on an idle host.
Idle(text) == Min({Cost[text], Kill})

\* timeProbes, one search: a search that is killed, a short one and a long one
\* are the last of their text.
Search ==
    LET set  == probing.sets[probing.at]
        text == set[Len(probing.mins) + 1]
    IN /\ At("time") /\ Len(probing.mins) < Len(set)
       /\ \E n \in Noise :
            LET took    == Min({Cost[text] + n, Kill})
                samples == Append(probing.samples, took)
                least   == Min(ToSet(samples))
                last    == took = Kill \/ took < NoiseFloor \/ took > Large
                           \/ Len(samples) = Samples
            IN Go([probing EXCEPT
                     !.clock = @ + took,
                     !.samples = IF last THEN <<>> ELSE samples,
                     !.mins = IF last THEN Append(@, least) ELSE @,
                     !.disturbed = IF last /\ least > Idle(text)
                                   THEN @ \cup {probing.attempt} ELSE @])

\* Mutation of Retries: the deadline is not looked at again.
RetriesLate == probing.attempt = 1

\* One fresh measurement before a refusal, while there is time.
Retries == probing.attempt = 1 /\ InTime

SetOver(mins) ==
    Over(mins[Len(mins) - 1], mins[Len(mins)], pattern.doublings, probing.load)

Judge ==
    /\ At("time") /\ Len(probing.mins) = Len(probing.sets[probing.at])
    /\ IF ~SetOver(probing.mins) THEN Go([probing EXCEPT !.step = "next", !.at = @ + 1])
       ELSE IF Retries THEN Go([probing EXCEPT !.attempt = 2, !.mins = <<>>])
       ELSE Refuse(Because("over"))

CostNext == Gates \/ ProbeString \/ MeasureLoad \/ Build \/ BuiltInTime \/ NextSet \/ Search \/ Judge

----------------------------------------------------------------------------
(* Properties                                                              *)

IdleTimes(set) == [i \in DOMAIN set |-> Idle(set[i])]
Timing(set)    == Len(set) * ((Samples - 1) * Large + Kill)

(* A noisy host makes no hostile pattern safe: whatever the host adds, at    *)
(* either size, a pattern is not accepted after a text was timed that takes  *)
(* more than the budget at 32000 characters by itself, unless the cap is     *)
(* smaller than that (reachProbeVerdictFromSamples, firstOverBudgetReason).  *)
HostileIsRefused ==
    outcome = "safe" /\ pattern.doublings >= 0 =>
      \A set \in ToSet(probing.sets) : 4 * Idle(set[Len(set)]) <= Budget * probing.load

(* A cheap pattern is not refused for what the host added to some searches:  *)
(* all searches of one text were disturbed, in two measurements, or in the   *)
(* first when no time was left for a second (firstOverBudgetReason).         *)
SpikeIsForgiven ==
    outcome # Pending /\ probing.step = "time" =>
      \/ SetOver(IdleTimes(probing.sets[probing.at]))
      \/ probing.disturbed = {1, 2}
      \/ probing.attempt = 1 /\ probing.disturbed = {1} /\ ~InTime

(* No more sets are timed than the cap, the first among them; the time is    *)
(* over the deadline by no more than one measurement, repeated or not        *)
(* (strideSampledProbeSets, firstOverBudgetReason).                          *)
TimingIsBounded ==
    /\ Len(probing.sets) <= MaxSets
    /\ probing.sets # <<>> => probing.sets[1] = Unique(pattern)[1]
    /\ probing.step \in {"next", "time"} =>
         probing.clock < Deadline(probing.load) + Max({Timing(s) : s \in ToSet(probing.sets)})
=============================================================================
