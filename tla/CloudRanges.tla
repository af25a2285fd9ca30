----------------------------- MODULE CloudRanges -----------------------------
(***************************************************************************)
(* CloudManager (cloudproviders.go) and the cloud_ip_refresh check         *)
(* (checks_cloud.go): every request whose look at the stamp finds it older *)
(* than the refresh interval tries to schedule one background refresh, and *)
(* an engine that starts refreshes as well.  A refresh takes each          *)
(* provider's ranges from the shared store, or fetches and stores them.    *)
(* Ranges are the time they were published; which addresses they hold is   *)
(* left out.                                                               *)
(***************************************************************************)
EXTENDS Integers, FiniteSets

CONSTANTS
    Requests,        \* goroutines that serve requests
    Starters,        \* goroutines that are starting an engine
    Providers,
    Interval,        \* CloudIPRefreshInterval, also the store's TTL
    UseStore,
    MaxTime          \* bound on time

VARIABLES
    time,
    stamp,       \* lastRefreshStamp
    inFlight,    \* refreshInFlight
    ranges,      \* ranges[p]: Absent, Empty or when they were published
    stored,      \* stored[p]: the same in the store, and when it expires
    check,       \* check[c]: the progress of request c's check
    job          \* job[j]: the refresh started by goroutine j

vars == <<time, stamp, inFlight, ranges, stored, check, job>>

----------------------------------------------------------------------------
Absent == -2
Empty  == -1
NoJob == [pc |-> "off", left |-> {}, provider |-> CHOOSE p \in Providers : TRUE,
          found |-> Absent]
NoCheck == [pc |-> "idle", now |-> 0, previous |-> 0]
FullJob == [NoJob EXCEPT !.pc = "next", !.left = Providers]

Init ==
    /\ time = 0 /\ stamp = -Interval - 1 /\ inFlight = FALSE
    /\ ranges = [p \in Providers |-> Absent]
    /\ stored = [p \in Providers |-> [found |-> Absent, expires |-> 0]]
    /\ check = [c \in Requests |-> NoCheck]
    /\ job = [j \in Requests \cup Starters |-> IF j \in Starters THEN FullJob ELSE NoJob]

----------------------------------------------------------------------------
(* cloudIPRefreshCheck.Check: reads, sets and restores the stamp in        *)
(* separate lock sections.                                                 *)

\* Reading the clock and the stamp is one step: the clock is in seconds.
LookAtStamp(c) ==
    /\ check[c].pc = "idle" /\ time - stamp > Interval
    /\ check' = [check EXCEPT ![c] = [NoCheck EXCEPT !.pc = "previous", !.now = time]]
    /\ UNCHANGED <<time, stamp, inFlight, ranges, stored, job>>

ReadPrevious(c) ==
    /\ check[c].pc = "previous"
    /\ check' = [check EXCEPT ![c].pc = "set", ![c].previous = stamp]
    /\ UNCHANGED <<time, stamp, inFlight, ranges, stored, job>>

SetStamp(c) ==
    /\ check[c].pc = "set"
    /\ stamp' = check[c].now
    /\ check' = [check EXCEPT ![c].pc = "schedule", ![c].now = 0]
    /\ UNCHANGED <<time, inFlight, ranges, stored, job>>

\* Mutation of Schedule: whatever is in flight.
ScheduleAlways(c) ==
    /\ check[c].pc = "schedule" /\ job[c].pc = "off"
    /\ inFlight' = TRUE
    /\ job' = [job EXCEPT ![c] = FullJob]
    /\ check' = [check EXCEPT ![c] = NoCheck]
    /\ UNCHANGED <<time, stamp, ranges, stored>>

\* ScheduleRefresh: one refresh at a time.
Schedule(c) ==
    /\ check[c].pc = "schedule"
    /\ IF inFlight
       THEN check' = [check EXCEPT ![c].pc = "restore"] /\ UNCHANGED <<inFlight, job>>
       ELSE /\ inFlight' = TRUE
            /\ job' = [job EXCEPT ![c] = FullJob]
            /\ check' = [check EXCEPT ![c] = NoCheck]
    /\ UNCHANGED <<time, stamp, ranges, stored>>

RestoreStamp(c) ==
    /\ check[c].pc = "restore"
    /\ stamp' = check[c].previous
    /\ check' = [check EXCEPT ![c] = NoCheck]
    /\ UNCHANGED <<time, inFlight, ranges, stored, job>>

----------------------------------------------------------------------------
(* RefreshAsync, in the background or by an engine's InitializeRedis.      *)

NextProvider(j, p) ==
    /\ job[j].pc = "next" /\ p \in job[j].left
    /\ job' = [job EXCEPT ![j] = [pc |-> IF UseStore THEN "get" ELSE "fetch",
                                  left |-> @.left \ {p}, provider |-> p,
                                  found |-> Absent]]
    /\ UNCHANGED <<time, stamp, inFlight, ranges, stored, check>>

\* On to the next provider.
Onward(j) == job' = [job EXCEPT ![j] = [FullJob EXCEPT !.left = job[j].left]]

\* Mutation of Ensured: an error drops what there was.
EnsuredAfresh(p) == [ranges EXCEPT ![p] = Empty]

\* ensureProviderEntry: after an error, an empty entry if there is none.
Ensured(p) == [ranges EXCEPT ![p] = IF @ = Absent THEN Empty ELSE @]

\* store.Get fails, finds nothing that has not expired, or finds ranges.
GetStored(j) ==
    LET p == job[j].provider
        hit == stored[p].found # Absent /\ time < stored[p].expires IN
    /\ job[j].pc = "get"
    /\ \/ ranges' = Ensured(p) /\ Onward(j)
       \/ /\ job' = [job EXCEPT ![j].pc = IF hit THEN "install" ELSE "fetch",
                                ![j].found = IF hit THEN stored[p].found ELSE Absent]
          /\ UNCHANGED ranges
    /\ UNCHANGED <<time, stamp, inFlight, stored, check>>

\* The provider answers with its ranges, with none, or not at all.
Fetch(j) ==
    /\ job[j].pc = "fetch"
    /\ \/ /\ job' = [job EXCEPT ![j].pc = IF UseStore THEN "store" ELSE "install",
                                ![j].found = time]
          /\ UNCHANGED ranges
       \/ Onward(j) /\ UNCHANGED ranges
       \/ Onward(j) /\ ranges' = Ensured(job[j].provider)
    /\ UNCHANGED <<time, stamp, inFlight, stored, check>>

\* store.Set; an error is only logged.
PutStored(j) ==
    /\ job[j].pc = "store"
    /\ \/ stored' = [stored EXCEPT ![job[j].provider] =
                        [found |-> job[j].found, expires |-> time + Interval]]
       \/ UNCHANGED stored
    /\ job' = [job EXCEPT ![j].pc = "install"]
    /\ UNCHANGED <<time, stamp, inFlight, ranges, check>>

\* installRanges.
Install(j) ==
    /\ job[j].pc = "install"
    /\ ranges' = [ranges EXCEPT ![job[j].provider] = job[j].found]
    /\ Onward(j)
    /\ UNCHANGED <<time, stamp, inFlight, stored, check>>

\* Mutation of EndRefresh: a refresh starts over while a provider has no ranges.
EndRefreshRetrying(j) ==
    /\ job[j].pc = "next" /\ job[j].left = {}
    /\ LET over == \E p \in Providers : ranges[p] < 0 IN
          /\ job' = [job EXCEPT ![j] = IF over THEN FullJob ELSE NoJob]
          /\ inFlight' = (inFlight /\ (over \/ j \in Starters))
    /\ UNCHANGED <<time, stamp, ranges, stored, check>>

\* The goroutine of a scheduled refresh clears the flag when it returns.
EndRefresh(j) ==
    /\ job[j].pc = "next" /\ job[j].left = {}
    /\ job' = [job EXCEPT ![j] = NoJob]
    /\ inFlight' = (inFlight /\ j \in Starters)
    /\ UNCHANGED <<time, stamp, ranges, stored, check>>

Tick == /\ time < MaxTime
        /\ time' = time + 1
        /\ UNCHANGED <<stamp, inFlight, ranges, stored, check, job>>

Check(c) == LookAtStamp(c) \/ ReadPrevious(c) \/ SetStamp(c) \/ Schedule(c)
            \/ RestoreStamp(c)
Refresh(j) == \/ \E p \in Providers : NextProvider(j, p)
              \/ GetStored(j) \/ Fetch(j) \/ PutStored(j) \/ Install(j) \/ EndRefresh(j)

Next == \/ \E c \in Requests : Check(c)
        \/ \E j \in Requests \cup Starters : Refresh(j)
        \/ Tick

Spec == Init /\ [][Next]_vars

\* A scheduled refresh runs on, and its fetches are bounded by timeouts.
Fairness == \A c \in Requests : WF_vars(Refresh(c))

----------------------------------------------------------------------------
(* Properties.                                                             *)

TypeOK ==
    /\ time \in Nat /\ stamp \in Int /\ inFlight \in BOOLEAN
    /\ ranges \in [Providers -> {Absent, Empty} \cup Nat]
    /\ \A p \in Providers : stored[p].found \in {Absent} \cup Nat
    /\ \A c \in Requests : check[c].pc \in {"idle", "previous", "set", "schedule", "restore"}
    /\ \A j \in Requests \cup Starters :
          job[j].pc \in {"off", "next", "get", "fetch", "store", "install"}

\* However checks race over the stamp, at most one scheduled refresh runs, and
\* the flag is set exactly while it does.
OneRefresh ==
    /\ Cardinality({c \in Requests : job[c].pc # "off"}) <= 1
    /\ inFlight <=> \E c \in Requests : job[c].pc # "off"

\* Once a provider's ranges are known no refresh, failed, empty or overlapped by
\* another, forgets them: its addresses never fall through unblocked again.
RangesStay ==
    [][\A p \in Providers : ranges[p] >= 0 => ranges'[p] >= 0]_vars

\* A refresh ends whatever fails in it, and lets the next one be scheduled.
RefreshEnds == inFlight ~> ~inFlight
=============================================================================
