--------------------------- MODULE PatternRegistry ---------------------------
(***************************************************************************)
(* The runtime registry of detection patterns (suspatterns_registry.go)    *)
(* of several worker processes that persist their custom patterns under    *)
(* one Redis key, and the disk cache of pattern verdicts                   *)
(* (patternvalidationcache.go).  A pattern is validated first; a lock      *)
(* section of the manager then covers its registration with its write to   *)
(* Redis.  Restoring what is persisted is both for each pattern, with      *)
(* other goroutines in between.                                            *)
(***************************************************************************)
EXTENDS Integers, Sequences, FiniteSets, SequencesExt

CONSTANTS
    Workers,
    Sources,     \* texts of patterns that callers register
    Texts,       \* those, and the texts between their commas
    Pieces,      \* Pieces[p]: p split at its commas
    Safe,        \* the texts that the probe of this engine allows
    OldSafe,     \* those that the probe of an older engine allowed
    MaxDefaults, \* bound on default patterns
    MaxValidated, \* bound on calls between validation and registration
    MaxCrashes   \* bound on restarts

VARIABLES
    custom,      \* custom[w]: customOrder, whose elements are customPatterns
    compiled,    \* compiled[w]: the sources in compiledCustom
    defaults,    \* defaults[w]: patterns and compiled, of equal sources
    connected,   \* connected[w]: a Redis handler is set
    restore,     \* restore[w]: texts still to restore
    validated,   \* validated[w]: patterns that wait for the manager's lock
    redis,       \* the key patterns/custom, split at its commas
    verdicts,    \* verdicts[w]: entries of the validation cache
    file,        \* its file: the version that wrote it, and its entries
    crashes,
    writer       \* history: the worker whose list Redis holds, or NoWriter

registryVars == <<custom, compiled, defaults, connected, restore, validated, redis,
                  verdicts, file, crashes, writer>>

NoWriter  == "none"
NoFile    == [version |-> "corrupt", entries |-> <<>>]
Joined(s) == FlattenSeq([i \in 1..Len(s) |-> Pieces[s[i]]])

\* What callers register are texts, and texts are split into texts.
ASSUME RegistryAssumption ==
    /\ Sources \subseteq Texts /\ Pieces \in [Texts -> Seq(Texts)]
    /\ NoWriter \notin Workers

RegistryInit ==
    /\ custom = [w \in Workers |-> <<>>] /\ compiled = custom
    /\ defaults = custom /\ restore = custom
    /\ validated = [w \in Workers |-> {}]
    /\ connected = [w \in Workers |-> FALSE]
    /\ redis = <<>>
    /\ file \in {NoFile, [version |-> "old", entries |-> [t \in OldSafe |-> TRUE]]}
    /\ verdicts = [w \in Workers |-> <<>>]
    /\ crashes = 0 /\ writer = NoWriter

----------------------------------------------------------------------------
(* The validation cache                                                    *)

\* Mutation of Loaded: the version of the file is not looked at.
LoadedAny == file.entries

\* load: a corrupt file, or one of another engine, gives no entries.
Loaded == IF file.version = "this" THEN file.entries ELSE <<>>

\* NewPatternValidationCache, when a worker is composed.
LoadCache(w) ==
    /\ verdicts[w] = <<>>
    /\ verdicts' = [verdicts EXCEPT ![w] = Loaded]
    /\ UNCHANGED <<custom, compiled, defaults, connected, restore, validated, redis,
                   file, crashes, writer>>

\* cachedEmpiricalVerdict: a cached verdict, or the probe's, which is cached and
\* saved.  Saving replaces the file as a whole, or fails and leaves it.
Verdict(w, t) == IF t \in DOMAIN verdicts[w] THEN verdicts[w][t] ELSE t \in Safe

Remember(w, t) ==
    IF t \in DOMAIN verdicts[w] THEN UNCHANGED <<verdicts, file>>
    ELSE /\ verdicts' = [verdicts EXCEPT ![w] =
                           [u \in DOMAIN @ \cup {t} |-> Verdict(w, u)]]
         /\ \/ file' = [version |-> "this", entries |-> verdicts'[w]]
            \/ UNCHANGED file

----------------------------------------------------------------------------
(* Registration                                                            *)

\* SetKey of the whole list, under the manager's lock; a failure is logged.
Persist(w, list) ==
    IF ~connected[w] THEN UNCHANGED <<redis, writer>>
    ELSE \/ redis' = Joined(list) /\ writer' = w
         \/ UNCHANGED redis /\ writer' = IF writer = w THEN NoWriter ELSE writer

\* AddPattern begins with the validation, outside the lock: for a custom pattern
\* of a caller, a default one of the dynamic rules, or one that is restored.
Validate(w, kind, t) ==
    /\ Cardinality(validated[w]) < MaxValidated
    /\ Remember(w, t)
    /\ validated' = IF Verdict(w, t)
                    THEN [validated EXCEPT ![w] = @ \cup {[kind |-> kind, text |-> t]}]
                    ELSE validated

AddPattern(w, kind, p) ==
    /\ Validate(w, kind, p)
    /\ UNCHANGED <<custom, compiled, defaults, connected, restore, redis, crashes,
                   writer>>

\* Its lock section for a custom pattern: the set, the order and the compiled
\* entry, unless it is known by now; known or not, the list is persisted.
RegisterCustom(w, t) ==
    LET known == t \in Range(custom[w])
        list  == IF known THEN custom[w] ELSE Append(custom[w], t)
    IN /\ custom' = [custom EXCEPT ![w] = list]
       /\ compiled' = [compiled EXCEPT ![w] = IF known THEN @ ELSE Append(@, t)]
       /\ Persist(w, list)
       /\ UNCHANGED defaults

\* For a default one, which is appended on every application of the rule.
RegisterDefault(w, t) ==
    /\ Len(defaults[w]) < MaxDefaults
    /\ defaults' = [defaults EXCEPT ![w] = Append(@, t)]
    /\ UNCHANGED <<custom, compiled, redis, writer>>

Register(w) == \E a \in validated[w] :
    /\ \/ a.kind \in {"custom", "restore"} /\ RegisterCustom(w, a.text)
       \/ a.kind = "default" /\ RegisterDefault(w, a.text)
    /\ validated' = [validated EXCEPT ![w] = @ \ {a}]
    /\ UNCHANGED <<connected, restore, verdicts, file, crashes>>

\* The compiled entries of all sources but p, in their order.
Compiled(w, p) ==
    LET kept[n \in 0..Len(compiled[w])] ==
          IF n = 0 THEN <<>>
          ELSE IF compiled[w][n] = p THEN kept[n-1]
          ELSE Append(kept[n-1], compiled[w][n])
    IN kept[Len(compiled[w])]

\* What RemovePattern leaves listed, and persists.
Left(w, p) == RemoveFirst(custom[w], p)

RemovePattern(w, p) ==
    /\ p \in Range(custom[w])
    /\ custom' = [custom EXCEPT ![w] = Left(w, p)]
    /\ compiled' = [compiled EXCEPT ![w] = Compiled(w, p)]
    /\ Persist(w, Left(w, p))
    /\ UNCHANGED <<defaults, connected, restore, validated, verdicts, file, crashes>>

\* One occurrence of a default pattern is removed.
RemoveDefault(w, p) ==
    /\ p \in Range(defaults[w])
    /\ defaults' = [defaults EXCEPT ![w] = RemoveFirst(@, p)]
    /\ UNCHANGED <<custom, compiled, connected, restore, validated, redis, verdicts,
                   file, crashes, writer>>

\* ClearCustomPatterns, of which Redis hears nothing.
ClearCustomPatterns(w) ==
    /\ custom[w] # <<>>
    /\ custom' = [custom EXCEPT ![w] = <<>>]
    /\ compiled' = [compiled EXCEPT ![w] = <<>>]
    /\ writer' = IF writer = w THEN NoWriter ELSE writer
    /\ UNCHANGED <<defaults, connected, restore, validated, redis, verdicts, file,
                   crashes>>

----------------------------------------------------------------------------
(* Attaching, restoring, resetting                                         *)

Restoring(w) == restore[w] # <<>> \/ \E a \in validated[w] : a.kind = "restore"

\* InitializeRedis: the handler is set before the key is read, which may fail.
AttachRedis(w) ==
    /\ ~Restoring(w)
    /\ connected' = [connected EXCEPT ![w] = TRUE]
    /\ \/ restore' = [restore EXCEPT ![w] = redis]
       \/ UNCHANGED restore
    /\ UNCHANGED <<custom, compiled, defaults, validated, redis, verdicts, file, crashes,
                   writer>>

\* The next text, once the one before it is registered: unless it is known, it is
\* added like a new pattern.
RestoreNext(w) ==
    LET t == Head(restore[w]) IN
    /\ restore[w] # <<>> /\ \A a \in validated[w] : a.kind # "restore"
    /\ restore' = [restore EXCEPT ![w] = Tail(@)]
    /\ IF t \in Range(custom[w]) THEN UNCHANGED <<validated, verdicts, file>>
       ELSE Validate(w, "restore", t)
    /\ UNCHANGED <<custom, compiled, defaults, connected, redis, crashes, writer>>

\* Reset keeps the default patterns and what is persisted.
Reset(w) ==
    /\ connected[w] \/ custom[w] # <<>>
    /\ custom' = [custom EXCEPT ![w] = <<>>]
    /\ compiled' = [compiled EXCEPT ![w] = <<>>]
    /\ connected' = [connected EXCEPT ![w] = FALSE]
    /\ writer' = IF writer = w THEN NoWriter ELSE writer
    /\ UNCHANGED <<defaults, restore, validated, redis, verdicts, file, crashes>>

Crash(w) ==
    /\ crashes < MaxCrashes /\ crashes' = crashes + 1
    /\ custom' = [custom EXCEPT ![w] = <<>>]
    /\ compiled' = [compiled EXCEPT ![w] = <<>>]
    /\ defaults' = [defaults EXCEPT ![w] = <<>>]
    /\ restore' = [restore EXCEPT ![w] = <<>>]
    /\ validated' = [validated EXCEPT ![w] = {}]
    /\ connected' = [connected EXCEPT ![w] = FALSE]
    /\ verdicts' = [verdicts EXCEPT ![w] = <<>>]
    /\ writer' = IF writer = w THEN NoWriter ELSE writer
    /\ UNCHANGED <<redis, file>>

RegistryNext == \E w \in Workers :
    \/ LoadCache(w)
    \/ \E p \in Sources : \/ \E kind \in {"custom", "default"} : AddPattern(w, kind, p)
                           \/ RemovePattern(w, p) \/ RemoveDefault(w, p)
    \/ Register(w) \/ ClearCustomPatterns(w)
    \/ AttachRedis(w) \/ RestoreNext(w) \/ Reset(w) \/ Crash(w)

RegistrySpec == RegistryInit /\ [][RegistryNext]_registryVars

----------------------------------------------------------------------------
(* Properties                                                              *)

RegistryTypeOK ==
    /\ \A w \in Workers : /\ Range(custom[w]) \cup Range(restore[w]) \subseteq Texts
                         /\ Range(defaults[w]) \subseteq Sources
                         /\ DOMAIN verdicts[w] \subseteq Texts
                         /\ \A a \in validated[w] : a.text \in Texts
    /\ Range(redis) \subseteq Texts
    /\ file.version \in {"this", "old", "corrupt"}

\* What detection scans with is what the registry lists, each pattern once, after
\* any mix of registrations, removals, restores and resets.
ScannedAsListed == \A w \in Workers : /\ compiled[w] = custom[w]
                                     /\ IsInjective(custom[w])

\* Redis holds the current list of the worker that wrote last, as long as that
\* worker lives and no write of its own failed, also while it is restoring: no
\* removal or addition of its own is missing there.
PersistedIsCurrent ==
    \A w \in Workers : writer = w => connected[w] /\ redis = Joined(custom[w])

\* No verdict of another engine version, or of a corrupt file, ever stands in for
\* the probe: what is registered is safe by the probe of this engine.
OnlySafeRegistered ==
    \A w \in Workers : Range(custom[w]) \cup Range(defaults[w]) \subseteq Safe

\* The list of patterns, their compiled forms and what Redis holds agree, and
\* what is registered is safe by the probe of this engine.
RegistryHolds == /\ RegistryTypeOK /\ ScannedAsListed
                 /\ PersistedIsCurrent /\ OnlySafeRegistered
=============================================================================
