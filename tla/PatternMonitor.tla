--------------------------- MODULE PatternMonitor ---------------------------
(***************************************************************************)
(* The performance monitor of the detection engine                         *)
(* (performance_monitor.go): running statistics of a bounded number of     *)
(* patterns, the history of the latest executions, and the anomalies that  *)
(* one observation gives rise to.  RecordMetric updates the statistics     *)
(* under the lock, leaves it, reads the clock, and takes the lock again to *)
(* reserve the emission of events (one per pattern and cooldown); other    *)
(* goroutines record, remove and clear in between.                         *)
(*                                                                         *)
(* Execution times are small integers, and a z-score is compared without   *)
(* division: with n samples of sum S, (x - S/n)^2 > k^2 * variance.        *)
(***************************************************************************)
EXTENDS Integers, Sequences, FiniteSets, FiniteSetsExt, SequencesExt, Functions

CONSTANTS
    Patterns,      \* names of the patterns, already cut to 100 characters
    Recorders,     \* goroutines that call RecordMetric
    Observations,  \* [time, matched, timeout] that callers report
    MaxTracked,    \* patterns with statistics (maxTrackedPatterns)
    HistorySize,   \* metrics in the common history (historySize)
    Window,        \* times kept for one pattern (recentTimesWindow)
    MinSamples,    \* times before a statistical anomaly (minSamplesForAnomaly)
    Sigmas,        \* anomalyThreshold
    Slow,          \* slowPatternThreshold
    Cooldown,      \* anomalyEmissionCooldown
    MaxClock,      \* bound on the time
    MaxRecords     \* bound on the calls of RecordMetric

\* The constructor clamps the sizes and the thresholds to positive ranges.
MonitorConstants ==
    /\ Observations \subseteq [time: Int, matched: BOOLEAN, timeout: BOOLEAN]
    /\ MaxTracked \in Nat \ {0} /\ HistorySize \in Nat \ {0} /\ Window \in Nat \ {0}
    /\ Slow \in Nat /\ Cooldown \in Nat \ {0} /\ MaxClock \in Nat /\ MaxRecords \in Nat
ASSUME MonitorAssumption == MonitorConstants

VARIABLES
    now,
    stats,         \* statistics of the tracked patterns
    order,         \* tracked patterns, oldest first (insertionOrder)
    recent,        \* the latest metrics of all patterns (recentMetrics)
    call,          \* where each recorder is, if it found anomalies
    records,       \* calls made so far, which also numbers them
    log,           \* history: metrics of each pattern since it is tracked
    events         \* history: [pattern, life, id, at] of the emissions

monitorVars == <<now, stats, order, recent, call, records, log, events>>

Idle   == [step |-> "idle"]
Never  == -1
AtMost(s, n) == SubSeq(s, Max({1, Len(s) - n + 1}), Len(s))
SumOf(s)     == FoldSeq(LAMBDA x, sum : x + sum, 0, s)

MonitorInit ==
    /\ now = 0 /\ records = 0
    /\ stats = <<>> /\ order = <<>> /\ recent = <<>>
    /\ call = [c \in Recorders |-> Idle]
    /\ log = [p \in Patterns |-> <<>>]
    /\ events = {}

----------------------------------------------------------------------------
(* RecordMetric                                                            *)

\* The statistics of a pattern seen for the first time.
NewStats == [life |-> records, executions |-> 0, matches |-> 0, timeouts |-> 0,
             times |-> <<>>, max |-> 0, min |-> Never, emitted |-> Never]

Timed(m) == ~m.timeout

\* The statistics after one more metric: a timeout adds no time.
Advance(st, m) ==
    LET counted == [st EXCEPT !.executions = @ + 1,
                              !.matches    = IF m.matched THEN @ + 1 ELSE @]
    IN IF ~Timed(m)
       THEN [counted EXCEPT !.timeouts = @ + 1]
       ELSE [counted EXCEPT !.times = AtMost(Append(@, m.time), Window),
                            !.max   = Max({@, m.time}),
                            !.min   = IF @ = Never THEN m.time
                                      ELSE Min({@, m.time})]

\* The time is above the mean by more than Sigmas standard deviations.
Statistical(times, x) ==
    LET n == Len(times)
        S == SumOf(times)
        Squares == SumOf([i \in 1..n |-> (n * times[i] - S) * (n * times[i] - S)])
    IN /\ n >= MinSamples /\ n >= 2
       /\ n * x > S
       /\ Squares > 0
       /\ (n * x - S) * (n * x - S) * (n - 1) > Sigmas * Sigmas * Squares

\* A timeout hides slowness; the statistical anomaly adds to either.
Anomalies(m, times) ==
    (CASE m.timeout       -> {"timeout"}
       [] ~m.timeout /\ m.time > Slow -> {"slow_execution"}
       [] OTHER           -> {})
      \cup IF Statistical(times, m.time) THEN {"statistical_anomaly"} ELSE {}

\* The first lock section: history, room for a new pattern, statistics.  A
\* negative time counts as 0.
Record(c, p, o) ==
    LET m       == [o EXCEPT !.time = Max({@, 0})]
        known   == p \in DOMAIN stats
        full    == ~known /\ Cardinality(DOMAIN stats) >= MaxTracked
        kept    == DOMAIN stats \ (IF full THEN {Head(order)} ELSE {})
        updated == Advance(IF known THEN stats[p] ELSE NewStats, m)
        found   == Anomalies(m, updated.times)
    IN /\ call[c] = Idle
       /\ records < MaxRecords /\ records' = records + 1
       /\ recent' = AtMost(Append(recent, m), HistorySize)
       /\ stats' = [q \in kept \cup {p} |-> IF q = p THEN updated ELSE stats[q]]
       /\ order' = LET left == IF full THEN Tail(order) ELSE order
                   IN IF known THEN left ELSE Append(left, p)
       /\ log' = [q \in Patterns |->
                    IF q = p THEN Append(IF known THEN log[p] ELSE <<>>, m)
                    ELSE IF q \in kept THEN log[q] ELSE <<>>]
       /\ call' = [call EXCEPT ![c] =
                     IF found = {} THEN Idle
                     ELSE [step |-> "found", pattern |-> p, id |-> records,
                           at |-> Never]]
       /\ UNCHANGED <<now, events>>

\* reserveAnomalyEmission reads the clock before it waits for the lock.
ReadClock(c) ==
    /\ call[c].step = "found"
    /\ call' = [call EXCEPT ![c] = [@ EXCEPT !.step = "reserve", !.at = now]]
    /\ UNCHANGED <<now, stats, order, recent, records, log, events>>

\* Mutation of Hot: off by one.
HotButLast(p, at) ==
    p \in DOMAIN stats /\ stats[p].emitted # Never /\ at - stats[p].emitted < Cooldown - 1

\* The pattern emitted within the cooldown before that time, or after it.
Hot(p, at) ==
    p \in DOMAIN stats /\ stats[p].emitted # Never /\ at - stats[p].emitted < Cooldown

\* Its lock section, and the events: the cooldown is tested and stamped there; a
\* pattern evicted in between emits without a stamp.
Reserve(c) ==
    LET p     == call[c].pattern
        at    == call[c].at
        Stamp == p \in DOMAIN stats
    IN /\ call[c].step = "reserve"
       /\ call' = [call EXCEPT ![c] = Idle]
       /\ stats' = IF Hot(p, at) \/ ~Stamp THEN stats
                   ELSE [stats EXCEPT ![p].emitted = at]
       /\ events' = IF Hot(p, at) THEN events
                    ELSE events \cup {[pattern |-> p, id |-> call[c].id, at |-> at,
                           life |-> IF Stamp THEN stats[p].life ELSE Never]}
       /\ UNCHANGED <<now, order, recent, records, log>>

----------------------------------------------------------------------------
(* The other operations                                                    *)

ClearStats ==
    /\ recent # <<>>
    /\ stats' = <<>> /\ order' = <<>> /\ recent' = <<>>
    /\ log' = [p \in Patterns |-> <<>>]
    /\ UNCHANGED <<now, call, records, events>>

\* Mutation of Unqueued: the queue is left alone.
UnqueuedLater(p) == order

Unqueued(p) == RemoveFirst(order, p)

RemovePatternStats(p) ==
    /\ p \in DOMAIN stats
    /\ stats' = Restrict(stats, DOMAIN stats \ {p})
    /\ order' = Unqueued(p)
    /\ log' = [log EXCEPT ![p] = <<>>]
    /\ UNCHANGED <<now, recent, call, records, events>>

Tick == /\ now < MaxClock
        /\ now' = now + 1
        /\ UNCHANGED <<stats, order, recent, call, records, log, events>>

MonitorNext ==
    \/ \E c \in Recorders : \/ \E p \in Patterns, o \in Observations : Record(c, p, o)
                            \/ ReadClock(c) \/ Reserve(c)
    \/ ClearStats
    \/ \E p \in Patterns : RemovePatternStats(p)
    \/ Tick

MonitorSpec == MonitorInit /\ [][MonitorNext]_monitorVars

----------------------------------------------------------------------------
(* Reports                                                                 *)

\* GetSlowPatterns, when nothing runs beside it: tracked patterns with times,
\* the slowest average first.  Averages are compared by cross-multiplication.
Slower(p, q) == SumOf(stats[p].times) * Len(stats[q].times)
                  > SumOf(stats[q].times) * Len(stats[p].times)

\* The first patterns of the report.
SlowPatterns(limit) ==
    LET timed == SelectSeq(order, LAMBDA p : stats[p].times # <<>>)
    IN SubSeq(SortSeq(timed, Slower), 1, Min({limit, Len(timed)}))

\* GetProblematicPatterns: why a tracked pattern is flagged, if it is.
Issue(p) ==
    IF stats[p].timeouts * 10 > stats[p].executions THEN "high_timeout_rate"
    ELSE IF SumOf(stats[p].times) > Slow * Len(stats[p].times) THEN "consistently_slow"
    ELSE "none"

----------------------------------------------------------------------------
(* Properties                                                              *)

MonitorTypeOK ==
    /\ now \in 0..MaxClock /\ records \in 0..MaxRecords
    /\ DOMAIN stats \subseteq Patterns
    /\ \A p \in DOMAIN stats : Len(stats[p].times) <= Window
    /\ order \in Seq(Patterns)
    /\ Len(recent) <= HistorySize
    /\ \A c \in Recorders : call[c].step \in {"idle", "found", "reserve"}

\* The eviction queue lists the tracked patterns once each and never more than
\* the bound, whatever removal, clearing and eviction went before: the code
\* takes the queue's head unguarded when the table is full.
QueueMatchesTable ==
    /\ Cardinality(DOMAIN stats) <= MaxTracked
    /\ Len(order) = Cardinality(DOMAIN stats)
    /\ Range(order) = DOMAIN stats

\* Times of the executions that ended.
TimesOf(metrics) ==
    LET times[n \in 0..Len(metrics)] ==
          IF n = 0 THEN <<>>
          ELSE IF Timed(metrics[n]) THEN Append(times[n-1], metrics[n].time)
          ELSE times[n-1]
    IN times[Len(metrics)]

\* The running statistics are those of the metrics since the pattern is tracked:
\* nothing of an evicted or removed life of the pattern is left in them.
StatsAreOfThisLife ==
    \A p \in DOMAIN stats :
      LET times == TimesOf(log[p])
      IN /\ stats[p].executions = Len(log[p])
         /\ stats[p].timeouts = Len(log[p]) - Len(times)
         /\ stats[p].times = AtMost(times, Window)
         /\ stats[p].max = Max({0} \cup Range(times))
         /\ stats[p].min = IF times = <<>> THEN Never ELSE Min(Range(times))

\* A tracked pattern that only timed out, whose times say nothing, is flagged.
TimedOutIsFlagged ==
    \A p \in DOMAIN stats :
      (\A i \in DOMAIN log[p] : ~Timed(log[p][i])) => Issue(p) = "high_timeout_rate"

\* One pattern, as long as it stays tracked, emits at most once per cooldown,
\* whichever goroutines found the anomalies.
OneEventPerCooldown ==
    \A e, f \in events :
      e # f /\ e.pattern = f.pattern /\ e.life = f.life /\ e.life # Never
        => e.at - f.at >= Cooldown \/ f.at - e.at >= Cooldown

\* What the monitor keeps fits together and is of what it stands for.
MonitorHolds == /\ MonitorTypeOK /\ QueueMatchesTable /\ OneEventPerCooldown
                /\ StatsAreOfThisLife /\ TimedOutIsFlagged

\* The first pattern reported as slow has the highest average.
SlowestIsReported ==
    \A p \in DOMAIN stats : stats[p].times # <<>> =>
      LET first == stats[SlowPatterns(1)[1]].times
      IN SumOf(first) * Len(stats[p].times) >= SumOf(stats[p].times) * Len(first)
=============================================================================
