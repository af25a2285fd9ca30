---------------------------- MODULE PathExclusion ----------------------------
(***************************************************************************)
(* The paths an engine excludes from most checks (pathmatch.go,            *)
(* composition.go): a path is decoded a few times, its dot segments are    *)
(* resolved, and it is excluded when it is an excluded path or below one.  *)
(* The engine keeps the excluded paths in normal form until the list       *)
(* changes, and announces an exclusion once per path and period.           *)
(*                                                                         *)
(* A path is a sequence of characters [c, layers], layers counting how     *)
(* often one is percent-encoded; "bad" is a byte that is no UTF-8 of its   *)
(* own.  A path in normal form is the sequence of its segments.            *)
(***************************************************************************)
EXTENDS Integers, Sequences, FiniteSets, SequencesExt

CONSTANTS
    Sites,        \* sets of paths; a behaviour visits those of one
    Lists,        \* values of ExcludePaths, sets of paths
    Rounds,       \* maxURLDecodeRounds
    Period,       \* between announcements of one path
    Cap,          \* paths whose announcement is remembered
    MaxClock,
    NoAnswer

VARIABLES
    site,
    excludePaths,      \* the configured list
    source, entries,   \* the list as last seen, and its normal forms
    emittedPaths,      \* the time of the last announcement of a path
    clock,
    announced,         \* the events: the time of the latest of a path, and
    early,             \* whether one was announced again within the period
    answer             \* the last one: [path, list, scoped]
exclusionVars ==
    <<site, excludePaths, source, entries, emittedPaths, clock, announced, early, answer>>

----------------------------------------------------------------------------
(* Normal form                                                             *)

\* Every layer comes off in the rounds there are, and what it hid is UTF-8.
Decodable(path) ==
    \A i \in DOMAIN path : /\ path[i].layers <= Rounds
                           /\ path[i].c = "bad" => path[i].layers = 0

Separators == {"/", "\\"}
Split(chars) ==
    LET ends == SetToSortSeq({0, Len(chars) + 1} \cup {i \in DOMAIN chars : chars[i] \in Separators},
                             LAMBDA i, j : i < j)
    IN [k \in 1..Len(ends) - 1 |-> SubSeq(chars, ends[k] + 1, ends[k + 1] - 1)]

Here   == <<".">>
Parent == <<".", ".">>

\* A dot segment with parameters is a dot segment.
FoldParams(segment) ==
    CASE segment # <<>> /\ SelectInSeq(segment, LAMBDA c : c = ";") = 2 /\ Head(segment) = "." -> Here
      [] Len(segment) > 2 /\ SubSeq(segment, 1, 3) = <<".", ".", ";">> -> Parent
      [] OTHER -> segment

Collapse(segments) ==
    FoldLeft(LAMBDA kept, segment :
               CASE segment \in {<<>>, Here} -> kept
                 [] segment = Parent         -> IF kept = <<>> THEN <<>> ELSE Front(kept)
                 [] OTHER                    -> Append(kept, segment),
             <<>>, segments)

Chars(path)    == [i \in DOMAIN path |-> path[i].c]
Segments(path) == LET raw == Split(Chars(path)) IN [i \in DOMAIN raw |-> FoldParams(raw[i])]
Normal(path)   == Collapse(Segments(path))

SubtreeOrEqual(path, excluded) == IsPrefix(excluded, path)

----------------------------------------------------------------------------
ExclusionInit ==
    /\ site \in Sites /\ excludePaths \in Lists
    /\ source = {} /\ entries = {}
    /\ emittedPaths = <<>> /\ clock = 0
    /\ announced = <<>> /\ early = FALSE /\ answer = NoAnswer

\* Mutation of Current: entries once made are kept.
CurrentFirst ==
    IF entries # {} THEN entries ELSE {Normal(e) : e \in {p \in excludePaths : Decodable(p)}}
Current ==
    IF source = excludePaths THEN entries
    ELSE {Normal(e) : e \in {p \in excludePaths : Decodable(p)}}

Due(path) == path \in DOMAIN emittedPaths => clock - emittedPaths[path] >= Period

Kept == IF Cardinality(DOMAIN emittedPaths) >= Cap THEN <<>> ELSE emittedPaths

\* A request; one whose path cannot be decoded does not look at the list.
Arrive(path) ==
    LET scoped == Decodable(path) /\ \E e \in Current : SubtreeOrEqual(Normal(path), e)
    IN /\ IF Decodable(path) THEN entries' = Current /\ source' = excludePaths
          ELSE UNCHANGED <<entries, source>>
       /\ answer' = [path |-> path, list |-> excludePaths, scoped |-> scoped]
       /\ IF scoped /\ Due(path)
          THEN /\ emittedPaths' = (path :> clock) @@ Kept
               /\ announced' = (path :> clock) @@ announced
               /\ early' = (early \/ (path \in DOMAIN announced /\ clock - announced[path] < Period))
          ELSE UNCHANGED <<emittedPaths, announced, early>>
       /\ UNCHANGED <<site, excludePaths, clock>>

\* The program changes the list between two requests.
Reconfigure ==
    /\ answer # NoAnswer /\ answer.list = excludePaths
    /\ excludePaths' \in Lists \ {excludePaths}
    /\ UNCHANGED <<site, source, entries, emittedPaths, clock, announced, early, answer>>

Tick == /\ clock < MaxClock /\ clock' = clock + 1
        /\ UNCHANGED <<site, excludePaths, source, entries, emittedPaths, announced, early, answer>>

ExclusionNext == (\E p \in site : Arrive(p)) \/ Reconfigure \/ Tick

----------------------------------------------------------------------------
(* Properties                                                              *)

\* The segments of a path that no ".." takes back, without resolving them one
\* after the other: each is followed, up to any point, by as many others as "..".
Surviving(path) ==
    LET s     == Segments(path)
        Named == {i \in DOMAIN s : s[i] \notin {<<>>, Here, Parent}}
        Back  == {i \in DOMAIN s : s[i] = Parent}
        Stays == {i \in Named : \A j \in i + 1..Len(s) :
                    Cardinality(Back \cap i + 1..j) <= Cardinality(Named \cap i + 1..j)}
        order == SetToSortSeq(Stays, LAMBDA i, j : i < j)
    IN [k \in DOMAIN order |-> s[order[k]]]

(* A request is scoped exactly if what its path resolves to, however it is   *)
(* encoded, is an excluded path of the list in force or below one: never for *)
(* a sibling with a longer name, for a path that leaves the excluded one by  *)
(* dot segments, for one that cannot be decoded, or by a list replaced since *)
(* (matches, normalizeURLPath).                                              *)
ScopedIsBelow ==
    answer # NoAnswer =>
      answer.scoped =
        (/\ \A i \in DOMAIN answer.path :
              answer.path[i].layers <= Rounds /\ (answer.path[i].c = "bad" => answer.path[i].layers = 0)
         /\ \E e \in answer.list : Decodable(e) /\ IsPrefix(Surviving(e), Surviving(answer.path)))

(* An excluded path is announced once per period as long as the paths are    *)
(* fewer than those remembered, and never more of them are remembered        *)
(* (emitPathExcludedEvent).                                                  *)
AnnouncedOnce ==
    /\ Cardinality(DOMAIN emittedPaths) <= Cap
    /\ Cardinality(site) < Cap => ~early
=============================================================================
