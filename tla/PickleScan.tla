----------------------------- MODULE PickleScan -----------------------------
(***************************************************************************)
(* The check whether what looks like the global opcode of a pickle is one  *)
(* (picklevm.go): the text before it must be a program that runs up to it, *)
(* and the text after it a program that reaches REDUCE or BUILD, both      *)
(* within a budget of bytes.                                               *)
(*                                                                         *)
(* A byte stands for its opcodes of the same effect.  "one" is the byte of *)
(* the value 1 and no opcode, "wide" a character that is no byte.  The     *)
(* stack holds no values: only marks and items matter.                     *)
(***************************************************************************)
EXTENDS Integers, Sequences, FiniteSets, FiniteSetsExt, SequencesExt

CONSTANTS
    Candidates,     \* [before, after], sequences of bytes
    Budget,         \* pickleWorkBudgetBytes
    NoMachine, NoVerdict

VARIABLES candidate, machine, injection
pickleVars == <<candidate, machine, injection>>

Line   == "newline"
Effect == [mark |-> "(", push |-> "N", list |-> "t", drop |-> "e", pop |-> "a",
           text |-> "S", counted |-> "U", global |-> "c", byte |-> "K", put |-> "p",
           reduce |-> "R", stop |-> ".", proto |-> "protocol"]

----------------------------------------------------------------------------
(* Reading                                                                 *)

Budgeted(text) == SubSeq(text, 1, Min({Budget, Len(text)}))
Complete(text) == Len(text) <= Budget
Latin(window)  == "wide" \notin ToSet(window)

\* Mutation of After: one byte less is taken.
AfterLess(pos, n) == pos + Max({n - 1, 0})

\* Where reading ends: after n bytes, or after the next line.
After(pos, n) == pos + n
EndOfLine(w, pos) ==
    LET ends == {i \in pos + 1..Len(w) : w[i] = Line}
    IN IF ends = {} THEN Len(w) + 1 ELSE Min(ends)
NumberOf(w, pos) == IF pos < Len(w) /\ w[pos + 1] = "one" THEN 1 ELSE 2 * Budget

\* The end of the arguments of the opcode that was read up to pos.
Arguments(w, op, pos) ==
    CASE op \in {Effect.text, Effect.put}   -> EndOfLine(w, pos)
      [] op = Effect.global                 -> EndOfLine(w, EndOfLine(w, pos))
      [] op \in {Effect.byte, Effect.proto} -> After(pos, 1)
      [] op = Effect.counted                -> After(After(pos, 1), NumberOf(w, pos))
      [] OTHER                              -> pos

\* stackPopToMark: without a mark everything goes.
ToMark(stack) ==
    LET marks == {i \in DOMAIN stack : stack[i] = "mark"}
    IN IF marks = {} THEN <<>> ELSE SubSeq(stack, 1, Max(marks) - 1)

Pushes == {Effect.push, Effect.text, Effect.counted, Effect.global, Effect.byte}
StackAfter(op, stack) ==
    CASE op = Effect.mark -> Append(stack, "mark")
      [] op \in Pushes    -> Append(stack, "item")
      [] op = Effect.list -> Append(ToMark(stack), "item")
      [] op = Effect.drop -> ToMark(stack)
      [] op = Effect.pop  -> Front(stack)
      [] OTHER            -> stack

Known == {Effect[e] : e \in DOMAIN Effect}
Fails(w, op, m) ==
    \/ op \notin Known
    \/ Arguments(w, op, m.pos + 1) > Len(w)
    \/ op = Effect.pop /\ m.stack = <<>>

----------------------------------------------------------------------------
(* The two walks                                                           *)

Walk(which, stack) == [walk |-> which, pos |-> 0, stack |-> stack]

\* A prefix that is empty or ends a line needs no walk.
NeedsPrefix(c) == c.before # <<>> /\ Last(c.before) # Line

PickleInit ==
    /\ candidate \in Candidates
    /\ machine = IF NeedsPrefix(candidate) THEN Walk("before", <<>>) ELSE Walk("after", <<"item">>)
    /\ injection = NoVerdict

Text == candidate[machine.walk]
W    == Budgeted(Text)

Suspect(complete) == ~complete

\* The end of a walk: the answer, or the next walk.
Ends(answer) ==
    \/ /\ machine.walk = "before" /\ answer
       /\ machine' = Walk("after", <<"item">>)
       /\ UNCHANGED injection
    \/ /\ machine.walk = "after" \/ ~answer
       /\ machine' = NoMachine
       /\ injection' = answer

NotLatin ==
    /\ machine # NoMachine /\ machine.pos = 0 /\ ~Latin(W)
    /\ machine' = NoMachine /\ injection' = FALSE
    /\ UNCHANGED candidate

Reading == machine # NoMachine /\ Latin(W) /\ machine.pos < Len(W)
Op      == IF machine.pos < Len(W) THEN W[machine.pos + 1] ELSE "none"

Execute ==
    /\ Reading /\ ~Fails(W, Op, machine) /\ Op \notin {Effect.reduce, Effect.stop}
    /\ machine' = [machine EXCEPT !.pos = Arguments(W, Op, @ + 1), !.stack = StackAfter(Op, @)]
    /\ UNCHANGED <<candidate, injection>>

Break ==
    /\ Reading /\ Fails(W, Op, machine)
    /\ Ends(Suspect(Complete(Text)))
    /\ UNCHANGED candidate

ReduceOrBuild ==
    /\ Reading /\ Op = Effect.reduce
    /\ Ends(TRUE)
    /\ UNCHANGED candidate

\* STOP, or the window is used up: fine for a prefix.
Finish ==
    /\ machine # NoMachine /\ Latin(W)
    /\ machine.pos >= Len(W) \/ Op = Effect.stop
    /\ Ends(machine.walk = "before" \/ Suspect(Complete(Text)))
    /\ UNCHANGED candidate

PickleNext == NotLatin \/ Execute \/ Break \/ ReduceOrBuild \/ Finish

----------------------------------------------------------------------------
(* Properties                                                              *)

\* Some REDUCE of w is an instruction and not part of an argument: positions
\* of instructions are found without running them.
ReduceIsReachable(w) ==
    LET Lines(p, n) == CHOOSE q \in p..2 * Len(w) + 2 :
                          /\ q > Len(w) \/ Cardinality({i \in p + 1..q : w[i] = Line}) = n
                          /\ q <= Len(w) => n = 0 \/ w[q] = Line
                          /\ \A r \in p..q - 1 : Cardinality({i \in p + 1..r : w[i] = Line}) < n
        Length(p) == CASE w[p] \in {"S", "p"}        -> Lines(p, 1) - p
                       [] w[p] = "c"                 -> Lines(p, 2) - p
                       [] w[p] \in {"K", "protocol"} -> 1
                       [] w[p] = "U"                 -> 2
                       [] OTHER                      -> 0
        From[p \in 1..3 * Len(w) + 6] ==
            p <= Len(w) /\ (w[p] = "R" \/ From[p + Length(p) + 1])
    IN From[1]

(* A text after the candidate that was seen to its end convicts only if a    *)
(* REDUCE or BUILD is an instruction of it: the same byte inside a string or *)
(* a name is data (pickleWalkSuffix).                                        *)
OnlyReduceConvicts ==
    injection = TRUE /\ Complete(candidate.after) => ReduceIsReachable(candidate.after)

(* What the budget hides is not taken for harmless: a candidate with more    *)
(* text behind it than the budget is an injection if before it a line ends   *)
(* or there is more than the budget too (pickleGlobalCandidateIsInjection).  *)
UnseenIsSuspect ==
    /\ injection # NoVerdict
    /\ ~Complete(candidate.after) /\ Latin(Budgeted(candidate.after))
    /\ NeedsPrefix(candidate) => ~Complete(candidate.before) /\ Latin(Budgeted(candidate.before))
    => injection
=============================================================================
