----------------------------- MODULE BodyValues -----------------------------
(***************************************************************************)
(* What of a request's body is handed to the detection engine, and in      *)
(* which pieces (bodyscan.go, jsonwalk.go, multipartscan.go,               *)
(* binaryislands.go): a form goes field by field, a multipart body part by *)
(* part, JSON leaf by leaf, anything else as a whole.                      *)
(*                                                                         *)
(* A text is the set of the atoms it contains.  A JSON value is an object  *)
(* [kind, pairs], an array [kind, items] or a scalar [kind, atom, inner],  *)
(* where inner is the value the text of the scalar itself parses to, or    *)
(* NoValue.  A line of a multipart body is [kind, text, size] with a kind  *)
(* of "delim", "final", "blank", "header", "fold", "text" or "binary"; a   *)
(* delimiter has the boundary it is of, a header its name and the field,   *)
(* the file and the inner boundary it declares.  Lines are what newlines   *)
(* separate: a text that ends in one has a blank last line.                *)
(***************************************************************************)
EXTENDS Integers, Sequences, FiniteSets, FiniteSetsExt, SequencesExt

CONSTANTS
    Bodies,      \* [type, pairs | root | lines and boundary]
    Excluded,    \* ExcludedDetectionBodyFields, and the route's
    Operators,   \* the keys of mongoOperatorKeyRE
    DepthCap,    \* detection_max_json_depth
    MinRun,      \* detection_binary_min_run_length
    NoValue

VARIABLES
    body,
    todo,        \* frames still to be walked, the next one first
    values       \* values for the engine: [atoms, forced]

valuesVars == <<body, todo, values>>

----------------------------------------------------------------------------
(* JSON                                                                    *)

\* The decoder keeps a duplicate key at its first place with its last value.
Keys(node) ==
    LET firsts == {i \in DOMAIN node.pairs :
                     \A j \in 1..i - 1 : node.pairs[j].key # node.pairs[i].key}
        order  == SetToSortSeq(firsts, <)
    IN [i \in DOMAIN order |-> node.pairs[order[i]].key]

\* Mutation of Kept: of a duplicate key the first value is kept.
KeptFirst(node, key) == node.pairs[Min({i \in DOMAIN node.pairs : node.pairs[i].key = key})].value

Kept(node, key) == node.pairs[Max({i \in DOMAIN node.pairs : node.pairs[i].key = key})].value

\* The atoms of a text, and of a decoded value written down again.
RECURSIVE Raw(_)
Raw(node) ==
    CASE node.kind = "object" -> UNION {{p.key} \cup Raw(p.value) : p \in ToSet(node.pairs)}
      [] node.kind = "array"  -> UNION {Raw(n) : n \in ToSet(node.items)}
      [] node.kind = "scalar" ->
           {node.atom} \cup (IF node.inner = NoValue THEN {} ELSE Raw(node.inner))

RECURSIVE Compact(_)
Compact(node) ==
    CASE node.kind = "object" -> UNION {{k} \cup Compact(Kept(node, k)) : k \in ToSet(Keys(node))}
      [] node.kind = "array"  -> UNION {Compact(n) : n \in ToSet(node.items)}
      [] node.kind = "scalar" -> Raw(node)

Text(atoms) == [atoms |-> atoms, forced |-> FALSE]

\* Frames of the walk; only a value of a field looks into its own texts.
Node(node, depth, field) == [do |-> "node", node |-> node, depth |-> depth, field |-> field]
Entry(key, node, depth, field) ==
    [do |-> "entry", key |-> key, node |-> node, depth |-> depth, field |-> field]
Emit(atoms) == [do |-> "emit", atoms |-> atoms]

Children(f) ==
    IF f.node.kind = "object"
    THEN LET keys == Keys(f.node)
         IN [i \in DOMAIN keys |-> Entry(keys[i], Kept(f.node, keys[i]), f.depth, f.field)]
    ELSE [i \in DOMAIN f.node.items |-> Node(f.node.items[i], f.depth + 1, f.field)]

\* A text that is a JSON container is walked, and then scanned as it is.
Field(scalar) ==
    (IF scalar.inner = NoValue THEN <<>> ELSE <<Node(scalar.inner, 1, TRUE)>>)
    \o <<Emit(Raw(scalar))>>

----------------------------------------------------------------------------
(* Multipart                                                               *)

\* The first line of the payload: one without a colon belongs to it.
First(lines, ends) ==
    IF ends <= Len(lines) /\ lines[ends].kind # "blank" THEN ends ELSE ends + 1

\* readPart: the headers end at a blank line or at one without a colon, even if
\* it is a boundary, which counts as one only after that line.  A blank line that
\* is the last, as the one after a final newline is, has the payload begin past
\* the end of the text, and slicing it panics.
Part(lines, b, p) ==
    LET Heads(i) == \/ lines[i].kind = "header"
                    \/ lines[i].kind = "fold" /\ i > p
        Bounds(j) == lines[j].kind \in {"delim", "final"} /\ lines[j].boundary = b
        ends == Min({i \in p..Len(lines) + 1 : i > Len(lines) \/ ~Heads(i)})
        stop == Min({j \in ends + 1..Len(lines) + 2 : j > Len(lines) \/ Bounds(j)})
    IN [headers |-> SubSeq(lines, p, ends - 1),
        payload |-> SubSeq(lines, First(lines, ends), stop - 1),
        next    |-> stop + 1,
        panics  |-> ends = Len(lines) /\ lines[ends].kind = "blank",
        more    |-> stop <= Len(lines) /\ lines[stop].kind = "delim"]

\* What the first header of a name declares.
Declared(part, name, what) ==
    LET named == SelectSeq(part.headers, LAMBDA h : h.kind = "header" /\ h.name = name)
    IN IF named = <<>> THEN "" ELSE Head(named)[what]
FieldName(part) == Declared(part, "disposition", "field")
FileName(part)  == Declared(part, "disposition", "file")
Inner(part)     == Declared(part, "type", "inner")

\* parseMultipartLevel: a part that declares a boundary is replaced by its own
\* parts; what precedes the first boundary and follows the last is dropped.
RECURSIVE Level(_, _)
Level(lines, b) ==
    LET opens == {i \in DOMAIN lines : lines[i].kind \in {"delim", "final"}
                                       /\ lines[i].boundary = b}
        Leaves(part) == IF Inner(part) = "" \/ part.panics THEN <<part>>
                        ELSE Level(part.payload, Inner(part))
        From[p \in 1..Len(lines) + 3] ==
            IF p > Len(lines) THEN <<>>
            ELSE LET part == Part(lines, b, p)
                 IN Leaves(part) \o (IF part.more THEN From[part.next] ELSE <<>>)
    IN IF opens = {} \/ lines[Min(opens)].kind = "final" THEN <<>>
       ELSE From[Min(opens) + 1]

\* A file of which at least a fifth is binary is cut into the runs of other
\* lines that are long enough.
Total(lines) == FoldSeq(LAMBDA l, n : n + l.size, 0, lines)
BinaryLike(lines) ==
    lines # <<>> /\ 5 * Total(SelectSeq(lines, LAMBDA l : l.kind = "binary")) >= Total(lines)
Islands(lines) ==
    LET Printable(a, c) == \A i \in a..c : lines[i].kind # "binary"
        Ends(i) == i \notin DOMAIN lines \/ lines[i].kind = "binary"
        runs == {r \in (DOMAIN lines) \X (DOMAIN lines) :
                   /\ r[1] <= r[2] /\ Printable(r[1], r[2])
                   /\ Ends(r[1] - 1) /\ Ends(r[2] + 1)
                   /\ Total(SubSeq(lines, r[1], r[2])) >= MinRun}
    IN SetToSortSeq(runs, LAMBDA r, s : r[1] < s[1])

AtomsOf(lines) == UNION {Raw(l.text) : l \in {k \in ToSet(lines) : k.kind # "blank"}}

\* Lines as one text, which may be JSON if it is of one line.
Payload(lines) ==
    IF Len(lines) = 1
    THEN IF lines[1].kind = "blank" THEN <<>> ELSE Field(lines[1].text)
    ELSE IF lines = <<>> THEN <<>> ELSE <<Emit(AtomsOf(lines))>>

\* A header and the lines folded into it are one text.
HeaderTexts(part) ==
    LET lines == part.headers
        Opens(i) == lines[i].kind = "header"
        last(i) == Max({j \in i..Len(lines) : \A k \in i + 1..j : ~Opens(k)})
        starts == SetToSortSeq({i \in DOMAIN lines : Opens(i)}, <)
    IN [n \in DOMAIN starts |-> SubSeq(lines, starts[n], last(starts[n]))]

\* appendMultipartPartValues: the name, the file name, every header, the
\* payload; nothing at all of a part without any of them.
PartFrames(part) ==
    LET runs    == Islands(part.payload)
        file    == IF FileName(part) = "" THEN <<>> ELSE <<Emit({FileName(part)})>>
        texts   == HeaderTexts(part)
        heads   == FlattenSeq([i \in DOMAIN texts |-> Payload(texts[i])])
        content == IF file # <<>> /\ BinaryLike(part.payload)
                   THEN FlattenSeq([i \in DOMAIN runs |->
                           Payload(SubSeq(part.payload, runs[i][1], runs[i][2]))])
                   ELSE Payload(part.payload)
        entries == file \o heads \o content
    IN IF FieldName(part) \in Excluded \/ entries = <<>> THEN <<>>
       ELSE <<Emit({FieldName(part)})>> \o entries

----------------------------------------------------------------------------
(* extractBodyScanValues                                                   *)

Pair(p) == IF p.name \in Excluded THEN <<>> ELSE <<Emit({p.name})>> \o Field(p.value)

\* Nothing is handed over when the scan of the body panics: the check fails.
Panics(b) == b.type = "multipart" /\ \E part \in ToSet(Level(b.lines, b.boundary)) : part.panics

FramesOf(b) ==
    CASE b.type = "form" -> FlattenSeq([i \in DOMAIN b.pairs |-> Pair(b.pairs[i])])
      [] b.type = "multipart" ->
           LET parts == Level(b.lines, b.boundary)
           IN IF Panics(b) THEN <<>>
              ELSE IF parts = <<>> THEN <<Emit(AtomsOf(b.lines))>>
              ELSE FlattenSeq([i \in DOMAIN parts |-> PartFrames(parts[i])])
      [] b.type = "json" -> <<Node(b.root, 1, FALSE)>>
      [] b.type = "other" -> <<Emit(b.atoms)>>

ValuesInit == body \in Bodies /\ todo = FramesOf(body) /\ values = <<>>

EmitValue ==
    /\ todo # <<>> /\ Head(todo).do = "emit"
    /\ values' = Append(values, Text(Head(todo).atoms))
    /\ todo' = Tail(todo)
    /\ UNCHANGED body

\* An excluded key leaves out what is below it, an operator is a hit by itself.
Opens(key) == key \notin Excluded \cup Operators
WalkEntry ==
    LET f == Head(todo) IN
    /\ todo # <<>> /\ f.do = "entry"
    /\ values' = CASE f.key \in Excluded  -> values
                   [] f.key \in Operators -> Append(values, [atoms |-> {f.key}, forced |-> TRUE])
                   [] OTHER               -> Append(values, Text({f.key}))
    /\ todo' = (IF Opens(f.key) THEN <<Node(f.node, f.depth + 1, f.field)>> ELSE <<>>)
               \o Tail(todo)
    /\ UNCHANGED body

\* A container at the depth cap is one text.
Capped(depth) == depth >= DepthCap
WalkNode ==
    LET f == Head(todo) IN
    /\ todo # <<>> /\ f.do = "node"
    /\ \/ /\ f.node.kind # "scalar" /\ Capped(f.depth)
          /\ values' = Append(values, Text(Compact(f.node)))
          /\ todo' = Tail(todo)
       \/ /\ f.node.kind # "scalar" /\ ~Capped(f.depth)
          /\ todo' = Children(f) \o Tail(todo)
          /\ UNCHANGED values
       \/ /\ f.node.kind = "scalar"
          /\ todo' = (IF f.field THEN Field(f.node) ELSE <<Emit(Raw(f.node))>>)
                     \o Tail(todo)
          /\ UNCHANGED values
    /\ UNCHANGED body

ValuesNext == EmitValue \/ WalkEntry \/ WalkNode

----------------------------------------------------------------------------
(* Properties                                                              *)

Scanned == UNION {v.atoms : v \in ToSet(values)}
Done    == todo = <<>>

\* The atoms of a decoded value, each with the keys the walk meets above it.
RECURSIVE Leaves(_, _, _)
Leaves(node, above, depth) ==
    LET capped == depth >= DepthCap IN
    CASE node.kind = "scalar" -> [atom: Raw(node), above: {above}]
      [] node.kind = "array"  -> UNION {Leaves(n, above, depth + 1) : n \in ToSet(node.items)}
      [] node.kind = "object" ->
           UNION {LET last == CHOOSE i \in DOMAIN node.pairs : /\ node.pairs[i].key = k
                                /\ \A j \in DOMAIN node.pairs : j > i => node.pairs[j].key # k
                  IN {[atom |-> k, above |-> IF capped THEN above ELSE above \cup ({k} \cap Excluded)]}
                     \cup Leaves(node.pairs[last].value,
                                 IF capped THEN above ELSE above \cup {k}, depth + 1) :
                  k \in {node.pairs[i].key : i \in DOMAIN node.pairs}}

(* A JSON body: everything it decodes to is scanned, but for what is below   *)
(* an excluded field or an operator that was reported, above the depth cap;  *)
(* and an excluded field never is.  Of a duplicate key it is the last value, *)
(* the one the application sees, that counts (parseOrderedJSON and the walk).*)
JsonIsCovered ==
    Done /\ body.type = "json" =>
      \A l \in Leaves(body.root, {}, 1) :
         l.atom \in Scanned <=> l.above \cap (Excluded \cup Operators) = {}

(* A form field that is not excluded is scanned as one whole text, whatever  *)
(* a JSON walk of its value left out: excluded or duplicate keys inside it   *)
(* hide nothing (appendFieldBodyValue).                                      *)
FieldsAreScannedWhole ==
    Done /\ body.type = "form" =>
      \A p \in ToSet(body.pairs) :
         p.name \notin Excluded => \E v \in ToSet(values) : v.atoms = Raw(p.value)

(* A multipart body without inner multiparts and excluded fields: each line  *)
(* between the first boundary and the first closing one is scanned, but for  *)
(* binary lines and short runs of a file: no defect of the headers, as a     *)
(* missing blank line or a boundary in their place, hides a line, unless it  *)
(* ends the check with an error (readPart).                                  *)
LinesAreScanned ==
    LET lines == body.lines
        Of(kind) == {i \in DOMAIN lines : lines[i].kind = kind /\ lines[i].boundary = body.boundary}
        plain == \A i \in DOMAIN lines : lines[i].kind = "header" =>
                    lines[i].inner = "" /\ lines[i].field \notin Excluded
        binary == \E i \in DOMAIN lines : lines[i].kind = "binary"
    IN Done /\ body.type = "multipart" /\ plain /\ ~Panics(body) =>
         \A i \in DOMAIN lines :
           /\ \E d \in Of("delim") : d < i /\ \A f \in Of("final") : f > i
           /\ lines[i].kind \in {"header", "fold", "text"}
           /\ binary => lines[i].size >= MinRun
           => Raw(lines[i].text) \subseteq Scanned
=============================================================================
