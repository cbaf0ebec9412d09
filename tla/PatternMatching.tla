-------------------------- MODULE PatternMatching --------------------------
(***************************************************************************)
(* The arms of a match: what the type checker says of them (module         *)
(* Patterns) and the code that is generated for them (decision_tree.rs and *)
(* emit_decision_tree of the code generator), against a reference: the set *)
(* of all values of the scrutinee's type and the first arm that matches    *)
(* each of them.                                                           *)
(***************************************************************************)
EXTENDS Patterns

CONSTANTS
    Scrutinees,         \* types that are matched on
    Ints,               \* integers that occur as values
    IntLiterals,        \* integers that occur in patterns, a proper subset
    MaxArms             \* bound: arms of a match

ASSUME PatternAssumption == IntLiterals \subseteq Ints /\ IntLiterals # Ints /\ MaxArms \in Nat

VARIABLES ty, arms

-----------------------------------------------------------------------------
(* Reference: values and which pattern matches them                        *)

RECURSIVE ValuesOf(_), Vectors(_)
Vectors(types) ==
    IF types = <<>> THEN {<<>>}
    ELSE {<<v>> \o rest : v \in ValuesOf(Head(types)), rest \in Vectors(Tail(types))}
ValuesOf(t) ==
    CASE t.k = "Bool" -> {Lit(b) : b \in BOOLEAN}
      [] t.k = "Int" -> {Lit(n) : n \in Ints}
      [] t.k = "Unit" -> {Lit(<<>>)}
      [] OTHER -> UNION {{Con(CtorSet(t)[j].ctor, args) : args \in Vectors(field_types(CtorSet(t)[j]))} :
                         j \in DOMAIN CtorSet(t)}

RECURSIVE Matches(_, _, _)
Matches(p, v, t) ==
    CASE p.k \in {"Wildcard", "Binding"} -> TRUE
      [] p.k = "Literal" -> p.lit = v.lit
      [] p.k = "Ctor" ->
            /\ p.ctor = v.ctor
            /\ \A j \in DOMAIN p.args : Matches(p.args[j], v.args[j], field_types(get_info(t, p.ctor))[j])
      [] p.k = "Struct" ->
            /\ p.ctor = v.ctor
            /\ LET fields == get_info(t, p.ctor).fields
               IN  \A j \in DOMAIN fields : fields[j].name \in DOMAIN p.fields =>
                        Matches(p.fields[fields[j].name], v.args[j], fields[j].ty)

FirstMatch(v) ==
    LET hits == {j \in DOMAIN arms : Matches(arms[j], v, ty)}
    IN  IF hits = {} THEN 0 ELSE CHOOSE j \in hits : \A i \in hits : j <= i

\* The patterns that the type checker lets through for a type.
RECURSIVE PatternsOf(_), PatternVectors(_)
PatternVectors(types) ==
    IF types = <<>> THEN {<<>>}
    ELSE {<<p>> \o rest : p \in PatternsOf(Head(types)), rest \in PatternVectors(Tail(types))}
PatternsOf(t) ==
    {Wildcard, Binding} \cup
    CASE t.k = "Bool" -> {Lit(b) : b \in BOOLEAN}
      [] t.k = "Int" -> {Lit(n) : n \in IntLiterals}
      [] t.k = "Unit" -> {Lit(<<>>)}
      [] t.k \in {"Enum", "Tuple"} ->
            UNION {{Con(CtorSet(t)[j].ctor, args) : args \in PatternVectors(field_types(CtorSet(t)[j]))} :
                   j \in DOMAIN CtorSet(t)}
      [] t.k = "Record" ->
            {StructPat(1, fields) : fields \in
                [{t.fields[j].name : j \in DOMAIN t.fields} ->
                    UNION {PatternsOf(t.fields[j].ty) : j \in DOMAIN t.fields}]}

\* Every field pattern is one of its field's type.
WellFormed(p, t) ==
    p.k = "Struct" =>
        \A j \in DOMAIN t.fields : p.fields[t.fields[j].name] \in PatternsOf(t.fields[j].ty)

Lowered == [j \in DOMAIN arms |-> <<lower_pattern(arms[j], ty)>>]

NonExhaustive == is_useful(Lowered, <<ty>>, <<Wildcard>>)
Missing == {row[1] : row \in collect_missing_patterns(Lowered, <<ty>>)}

-----------------------------------------------------------------------------
(* Decision trees (decision_tree.rs)                                       *)

\* A binding is known by its place in the pattern.
Hole(b) == [k |-> "Wildcard", binding |-> b]
Node(c, args) == [k |-> "Ctor", ctor |-> c, args |-> args]
NoBinding == <<0>>

\* lower_pattern of the code generator.
RECURSIVE LowerToTree(_, _, _)
LowerToTree(p, t, path) ==
    CASE p.k = "Wildcard" -> Hole(NoBinding)
      [] p.k = "Binding" -> Hole(path)
      [] p.k = "Literal" ->
            Node(CASE t.k = "Bool" -> <<"bool", p.lit>> [] t.k = "Int" -> <<"int", p.lit>> [] t.k = "Unit" -> <<"unit">>, <<>>)
      [] p.k = "Ctor" ->
            Node(IF t.k = "Enum" THEN <<"variant", p.ctor>> ELSE <<"struct">>,
                 [j \in DOMAIN p.args |->
                    LowerToTree(p.args[j], field_types(get_info(t, p.ctor))[j], Append(path, j))])
      [] p.k = "Struct" ->
            LET fields == get_info(t, p.ctor).fields
            IN  Node(<<"struct">>, [j \in DOMAIN fields |->
                    IF fields[j].name \in DOMAIN p.fields
                    THEN LowerToTree(p.fields[fields[j].name], fields[j].ty, Append(path, j))
                    ELSE Hole(NoBinding)])

\* Ctor::arity and Ctor::field_types
SubTypes(c, t) ==
    CASE c[1] = "variant" -> field_types([fields |-> t.variants[c[2]]])
      [] c[1] = "struct" -> field_types([fields |-> t.fields])
      [] OTHER -> <<>>

Splice(s, i, mid) == SubSeq(s, 1, i - 1) \o mid \o SubSeq(s, i + 1, Len(s))

IsCtor(p) == p.k = "Ctor"

\* Mutant: a wildcard does not match the constructor that is tested.
SpecializeRows_NoWildcards(rows, i, c, t) ==
    LET kept == SelectSeq(rows, LAMBDA r : IsCtor(r.pats[i]) /\ r.pats[i].ctor = c)
    IN  [j \in DOMAIN kept |->
            [pats |-> Splice(kept[j].pats, i, kept[j].pats[i].args), action |-> kept[j].action]]

\* A wildcard stands for fresh wildcards, one per field, without its binding.
SpecializeRows(rows, i, c, t) ==
    LET kept == SelectSeq(rows, LAMBDA r : IsCtor(r.pats[i]) => r.pats[i].ctor = c)
        args(p) == IF IsCtor(p) THEN p.args ELSE Repeat(Hole(NoBinding), Len(SubTypes(c, t)))
    IN  [j \in DOMAIN kept |->
            [pats |-> Splice(kept[j].pats, i, args(kept[j].pats[i])), action |-> kept[j].action]]

DefaultRows(rows, i) ==
    LET kept == SelectSeq(rows, LAMBDA r : ~IsCtor(r.pats[i]))
    IN  [j \in DOMAIN kept |-> [pats |-> Splice(kept[j].pats, i, <<>>), action |-> kept[j].action]]

\* The column with the longest prefix of constructors, else the first column
\* with any.
select_column(rows) ==
    LET score(col) == Cardinality({j \in DOMAIN rows : \A i \in 1 .. j : IsCtor(rows[i].pats[col])})
        cols == DOMAIN rows[1].pats
        best == {col \in cols : \A d \in cols : score(d) <= score(col)}
        any == {col \in cols : \E j \in DOMAIN rows : IsCtor(rows[j].pats[col])}
        leftmost(s) == CHOOSE col \in s : \A d \in s : col <= d
    IN  IF \E col \in cols : score(col) > 0 THEN leftmost(best) ELSE leftmost(any)

\* In the order in which the rows show them.
head_constructors(rows, i) ==
    FoldLeft(LAMBDA seen, r : IF IsCtor(r.pats[i]) /\ ~Contains(seen, r.pats[i].ctor)
                              THEN Append(seen, r.pats[i].ctor) ELSE seen, <<>>, rows)

is_complete_signature(ctors, t) ==
    CASE t.k = "Bool" -> \A b \in BOOLEAN : Contains(ctors, <<"bool", b>>)
      [] t.k = "Enum" -> \A j \in DOMAIN t.variants : Contains(ctors, <<"variant", j>>)
      [] t.k \in {"Record", "Tuple", "Unit"} -> TRUE
      [] OTHER -> FALSE

extract_leaf_bindings(row) ==
    {[path |-> row.pats[j].binding, column |-> j] :
        j \in {i \in DOMAIN row.pats : row.pats[i].binding # NoBinding}}

RECURSIVE compile(_, _)
compile(rows, types) ==
    IF rows = <<>> THEN [k |-> "Fail"]
    ELSE IF \A j \in DOMAIN rows[1].pats : ~IsCtor(rows[1].pats[j])
    THEN [k |-> "Leaf", action |-> rows[1].action, bindings |-> extract_leaf_bindings(rows[1])]
    ELSE LET i == select_column(rows)
             sigma == head_constructors(rows, i)
         IN  [k |-> "Switch", column |-> i,
              cases |-> [j \in DOMAIN sigma |->
                    <<sigma[j], compile(SpecializeRows(rows, i, sigma[j], types[i]),
                                        Splice(types, i, SubTypes(sigma[j], types[i])))>>],
              default |-> IF is_complete_signature(sigma, types[i]) THEN [k |-> "None"]
                          ELSE compile(DefaultRows(rows, i), Splice(types, i, <<>>))]

-----------------------------------------------------------------------------
(* The code emitted for a tree, executed (emit_decision_tree)              *)

Stop(k) == [action |-> 0, bindings |-> {}, stop |-> k]

\* The test of a case on the local that holds the column.
CaseHolds(c, v) ==
    CASE c[1] = "variant" -> v.ctor = c[2]
      [] c[1] \in {"bool", "int"} -> v.lit = c[2]
      [] c[1] \in {"struct", "unit"} -> TRUE

\* demote_enum_fields and expand_col_locals_for_struct
Fields(c, v) == IF c[1] \in {"variant", "struct"} THEN v.args ELSE <<>>

\* cols holds the values of the columns.
RECURSIVE Execute(_, _), EnterCase(_, _)

\* The tests of a switch, one after the other, each with its subtree.
EnterCase(tree, cols) ==
    LET v == cols[tree.column]
        hits == {j \in DOMAIN tree.cases : CaseHolds(tree.cases[j][1], v)}
        j == CHOOSE j \in hits : \A i \in hits : j <= i
    IN  IF hits # {}
        THEN Execute(tree.cases[j][2], Splice(cols, tree.column, Fields(tree.cases[j][1], v)))
        ELSE IF tree.default.k = "None" THEN Stop("Unreachable")
        ELSE Execute(tree.default, Splice(cols, tree.column, <<>>))

Execute(tree, cols) ==
    CASE tree.k = "Fail" -> Stop("Fail")
      [] tree.k = "Leaf" ->
            [action |-> tree.action, stop |-> "",
             bindings |-> {<<b.path, cols[b.column]>> : b \in tree.bindings}]
      [] tree.k = "Switch" -> EnterCase(tree, cols)

\* visit_match_stack: one row per arm.
Tree == compile([j \in DOMAIN arms |-> [pats |-> <<LowerToTree(arms[j], ty, <<>>)>>, action |-> j]], <<ty>>)

-----------------------------------------------------------------------------
MatchInit == ty \in Scrutinees /\ arms = <<>>

\* check_match and visit_match_stack go through the arms one by one.
AddArm(p) ==
    /\ Len(arms) < MaxArms
    /\ WellFormed(p, ty)
    /\ arms' = Append(arms, p)
    /\ UNCHANGED ty

MatchNext == \E p \in PatternsOf(ty) : AddArm(p)

\* The value at a place of the pattern.
RECURSIVE At(_, _)
At(v, path) == IF path = <<>> THEN v ELSE At(v.args[Head(path)], Tail(path))

\* The missing patterns of the error message are missing: there is one if the
\* match is refused, and each covers a value that no arm matches.  Unit is
\* left out: its only literal does not count as covering it.
WitnessesAreMissing ==
    NonExhaustive /\ ty.k # "Unit" =>
        /\ Missing # {}
        /\ \A p \in Missing : \E v \in ValuesOf(ty) : Matches(p, v, ty) /\ FirstMatch(v) = 0

\* The places that an arm binds, and whether it compares the part of v at a
\* place with a literal or a constructor.
RECURSIVE Binds(_), Tests(_, _, _)
Binds(tree) == IF IsCtor(tree) THEN UNION {Binds(p) : p \in Range(tree.args)} ELSE {tree.binding} \ {NoBinding}
Tests(tree, path, v) ==
    /\ IsCtor(tree)
    /\ path # <<>> => CaseHolds(tree.ctor, v) /\ Tests(tree.args[Head(path)], Tail(path), v.args[Head(path)])

\* The generated code runs the first arm that matches the value, and if the
\* check passed it never reaches the trap of a failed match.  It binds what
\* the arm binds, each to the part of the value that it stands for, except
\* perhaps the parts that an earlier arm tests: the row of a later arm loses
\* its binding there (decision_tree.rs:214-220, :232-243), as in
\* `match n { 0 => .., x => x }`, although the comments there and above
\* lower_pattern of the code generator say that bindings are kept track of.
FirstMatchRuns ==
    \A v \in ValuesOf(ty) :
        LET run == Execute(Tree, <<v>>)
            tree(j) == LowerToTree(arms[j], ty, <<>>)
            kept == {path \in Binds(tree(run.action)) : \A i \in 1 .. run.action - 1 : ~Tests(tree(i), path, v)}
        IN  /\ run.action = FirstMatch(v)
            /\ ~NonExhaustive => run.stop = ""
            /\ \A b \in run.bindings : b[2] = At(v, b[1])
            /\ run.action # 0 => kept \subseteq {b[1] : b \in run.bindings}

=============================================================================
