--------------------------- MODULE ContentBounds ---------------------------
(***************************************************************************)
(* How much of a long text the detection engine looks at, and where: the   *)
(* truncation that keeps what looks like an attack (truncation.go,         *)
(* preprocessor.go), the search of an expensive pattern between a prefix   *)
(* and a terminator only (scan_window.go, engine.go), and the count of     *)
(* binary characters around a match (binaryprefix.go).                     *)
(*                                                                         *)
(* A text of length n has the positions 0..n - 1; an interval <<s, e>>     *)
(* holds s and not e.  What a pattern can match is a set of intervals, one *)
(* at most for each start.                                                 *)
(***************************************************************************)
EXTENDS Integers, Sequences, FiniteSets, FiniteSetsExt, SequencesExt

CONSTANTS
    Questions,   \* [ask: "truncate" | "window" | "dense", ...]
    Margin,      \* characters kept on each side of an indicator, 100 in the code
    Unit,        \* characters for which one region is allowed, 100
    RegionCap,   \* never more regions than that, 100
    TailLength,  \* fullScanTailBytes
    Radius,      \* binaryDensityRadius
    Limit,       \* binaryDensityLimit
    Unanswered

VARIABLES question, verdict
boundsVars == <<question, verdict>>

Space == -1                    \* stands for a gap that was cut

Between(s, e) == [i \in 1..e - s |-> s + i - 1]
Firsts(seq, n)  == SubSeq(seq, 1, Min({n, Len(seq)}))
Least(S) == CHOOSE m \in S : \A k \in S : m[1] <= k[1]

----------------------------------------------------------------------------
(* Truncation                                                              *)

MaxRegions(q) == Min({q.maxLength \div Unit, RegionCap})

\* The hits of the first indicators that give enough of them.
Found(q) ==
    LET Upto(k)   == FlattenSeq([i \in 1..k |-> Firsts(q.hits[i], MaxRegions(q))])
        Enough(k) == k = Len(q.hits) \/ Len(Upto(k)) >= MaxRegions(q)
    IN ToSet(Upto(Min({k \in 1..Len(q.hits) : Enough(k)})))

Region(q, hit) == <<Max({hit[1] - Margin, 0}), Min({hit[2] + Margin, q.n})>>

\* Regions that touch become one; of these the first are kept.
Regions(q) ==
    LET in     == UNION {ToSet(Between(r[1], r[2])) : r \in {Region(q, h) : h \in Found(q)}}
        bounds == {r \in (0..q.n) \X (0..q.n) :
                     /\ r[1] < r[2] /\ ToSet(Between(r[1], r[2])) \subseteq in
                     /\ r[1] - 1 \notin in /\ r[2] \notin in}
        merged == SetToSortSeq(bounds, LAMBDA r, s : r[1] < s[1])
    IN Firsts(merged, MaxRegions(q))

AttackLength(regions) == FoldSeq(LAMBDA r, n : n + r[2] - r[1], 0, regions)

HeadAndTail(q) ==
    LET tail == Min({TailLength, q.max})
    IN Between(0, q.max - tail) \o Between(q.n - tail, q.n)

Joined(q, regions) ==
    Firsts(FlattenSeq([i \in DOMAIN regions |-> Between(regions[i][1], regions[i][2])]), q.max)

\* A gap that does not fit is cut, and closed with a space.
Gap(from, to, left) ==
    IF to - from <= left THEN Between(from, to)
    ELSE IF left = 0 THEN <<>> ELSE Append(Between(from, from + left - 1), Space)

\* All regions, the gaps before them as far as they fit, and then the rest.
WithContext(q, regions) ==
    LET Take(acc, r) ==
          LET gap == Gap(acc.last, r[1], acc.left)
          IN [kept |-> acc.kept \o gap \o Between(r[1], r[2]), last |-> r[2],
              left |-> acc.left - Len(gap)]
        end == FoldLeft(Take, [kept |-> <<>>, last |-> 0, left |-> q.max - AttackLength(regions)],
                        regions)
    IN end.kept \o Firsts(Between(end.last, q.n), end.left)

Truncated(q) ==
    LET regions == Regions(q)
    IN CASE q.n <= q.max                      -> Between(0, q.n)
         [] q.n > q.max /\ ~q.preserve        -> Between(0, q.max)
         [] q.n > q.max /\ q.preserve /\ regions = <<>> -> HeadAndTail(q)
         [] OTHER -> IF AttackLength(regions) >= q.max THEN Joined(q, regions)
                                                        ELSE WithContext(q, regions)

----------------------------------------------------------------------------
(* Windows                                                                 *)

\* From the left, each search from the end of the last match.
FindAll(matches, n) ==
    LET From[p \in 0..n + 1] ==
          LET ahead == {m \in matches : m[1] >= p}
              first == Least(ahead)
          IN IF ahead = {} THEN <<>>
             ELSE <<first>> \o From[IF first[2] > first[1] THEN first[2] ELSE first[1] + 1]
    IN From[0]

\* Mutation of Ceiling: the first terminator ends the text.
CeilingFirst(ends) == Head(ends)[2]
Ceiling(ends) == Last(ends)[2]

\* boundedFinditer: matches that begin at a prefix, in the text cut after the
\* last terminator.
Bounded(q) ==
    LET ends   == FindAll(q.terminators, q.n)
        starts == {m[1] : m \in ToSet(FindAll(q.prefixes, q.n))}
        Inside(m) == m[1] \in starts /\ m[1] < Ceiling(ends) /\ m[2] <= Ceiling(ends)
    IN IF ends = <<>> THEN <<>> ELSE FindAll({m \in q.matches : Inside(m)}, q.n)

----------------------------------------------------------------------------
(* Density                                                                 *)

Prefix(q) == [i \in 0..q.n |-> Cardinality({a \in q.artifacts : a < i})]

Dense(q) ==
    LET prefix == Prefix(q)
        high   == Min({q.match[2] + Radius, q.n})
        low    == Max({q.match[1] - Radius, 0})
    IN prefix[high] - prefix[low] >= Limit

----------------------------------------------------------------------------
BoundsInit == question \in Questions /\ verdict = Unanswered

Answer ==
    /\ verdict = Unanswered
    /\ verdict' = CASE question.ask = "truncate" -> Truncated(question)
                    [] question.ask = "window"   -> Bounded(question)
                    [] question.ask = "dense"    -> Dense(question)
    /\ UNCHANGED question

----------------------------------------------------------------------------
(* Properties                                                              *)

Answered(ask) == verdict # Unanswered /\ question.ask = ask

(* A truncated text fits the budget, and is made of characters of the text   *)
(* in their order, none of them twice (truncateSafely).                      *)
TruncationFits ==
    Answered("truncate") =>
      LET kept == SelectSeq(verdict, LAMBDA p : p # Space)
      IN /\ Len(verdict) <= Max({question.max, 0})
         /\ \A i, j \in DOMAIN kept : i < j => kept[i] < kept[j]

(* Truncation does not cut an attack: if all indicators together have no     *)
(* more hits than regions are allowed, and these fit the budget, each hit is *)
(* there with its margin on both sides, as one piece.                        *)
HitsSurvive ==
    LET hits == FlattenSeq(question.hits)
        near == UNION {ToSet(Between(Region(question, h)[1], Region(question, h)[2])) : h \in ToSet(hits)}
        Whole(r) == \E i \in 0..Len(verdict) - (r[2] - r[1]) :
                       SubSeq(verdict, i + 1, i + r[2] - r[1]) = Between(r[1], r[2])
    IN Answered("truncate") /\ question.preserve =>
         (Len(hits) <= MaxRegions(question) /\ Cardinality(near) <= question.max =>
            \A h \in ToSet(hits) : Whole(Region(question, h)))

(* Searching in windows finds what searching the whole text would: a match   *)
(* that starts with a prefix and ends by a terminator is found, or overlaps  *)
(* one found before it (boundedFinditer).                                    *)
WindowsMissNothing ==
    LET q == question
        Apart(S) == \A a, b \in S : a[1] < b[1] => a[2] <= b[1]
    IN Answered("window") =>
         (Apart(q.prefixes) /\ Apart(q.terminators) =>
            \A m \in q.matches :
              (/\ \E p \in q.prefixes : p[1] = m[1]
               /\ \E t \in q.terminators : m[1] < t[2] /\ m[2] <= t[2])
              => \E i \in DOMAIN verdict : verdict[i] = m
                    \/ (verdict[i][1] < m[1] /\ m[1] < verdict[i][2]))

(* The noise gate drops a match exactly if enough binary characters are      *)
(* within the radius of it, also at the edges of the text.                   *)
DenseIsCounted ==
    Answered("dense") =>
      LET near == {a \in question.artifacts : /\ a >= question.match[1] - Radius
                                              /\ a < question.match[2] + Radius}
      IN verdict = (Cardinality(near) >= Limit)
=============================================================================
