------------------------------ MODULE Patterns ------------------------------
(***************************************************************************)
(* The usefulness algorithm behind the checks of match and let             *)
(* (typecheck/exhaustiveness.rs, Maranget's algorithm): which rows of      *)
(* patterns cover a vector of patterns, and which patterns are missing.    *)
(*                                                                         *)
(* A type is a record: "Bool", "Int", "Unit", "Tuple" with item types,     *)
(* "Record" with named fields, "Enum" with variants that have named        *)
(* fields (numbered ones for tuple variants).  A value or a pattern is a   *)
(* literal or a constructor with arguments in declaration order; a struct  *)
(* pattern names its fields.                                               *)
(***************************************************************************)
EXTENDS Integers, Sequences, FiniteSets, SequencesExt

Wildcard == [k |-> "Wildcard"]
Binding == [k |-> "Binding"]
Lit(x) == [k |-> "Literal", lit |-> x]
Con(c, args) == [k |-> "Ctor", ctor |-> c, args |-> args]
StructPat(c, fields) == [k |-> "Struct", ctor |-> c, fields |-> fields]

Repeat(x, n) == [j \in 1 .. n |-> x]

\* Constructors of a type with the types of their fields: the variants of an
\* enum, one constructor of a record or a tuple, none that can be enumerated
\* otherwise.  Bool has the two constructors false and true, which patterns
\* write as literals.
CtorSet(t) ==
    CASE t.k = "Enum" -> [j \in DOMAIN t.variants |-> [ctor |-> j, fields |-> t.variants[j]]]
      [] t.k = "Record" -> <<[ctor |-> 1, fields |-> t.fields]>>
      [] t.k = "Tuple" -> <<[ctor |-> 1, fields |-> t.fields]>>
      [] t.k = "Bool" -> <<[ctor |-> "false", fields |-> <<>>], [ctor |-> "true", fields |-> <<>>]>>
      [] OTHER -> <<>>

field_types(info) == [j \in DOMAIN info.fields |-> info.fields[j].ty]
get_info(t, c) == LET s == CtorSet(t) IN s[CHOOSE j \in DOMAIN s : s[j].ctor = c]

-----------------------------------------------------------------------------
(* Usefulness (exhaustiveness.rs)                                          *)

\* lower_pattern: bindings become wildcards, and the fields of a struct
\* pattern are put in declaration order with wildcards for the missing ones.
RECURSIVE lower_pattern(_, _)
lower_pattern(p, t) ==
    CASE p.k \in {"Wildcard", "Binding"} -> Wildcard
      [] p.k = "Literal" -> p
      [] p.k = "Ctor" ->
            Con(p.ctor, [j \in DOMAIN p.args |-> lower_pattern(p.args[j], field_types(get_info(t, p.ctor))[j])])
      [] p.k = "Struct" ->
            LET fields == get_info(t, p.ctor).fields
            IN  Con(p.ctor, [j \in DOMAIN fields |->
                    IF fields[j].name \in DOMAIN p.fields
                    THEN lower_pattern(p.fields[fields[j].name], fields[j].ty) ELSE Wildcard])

FirstColumn(rows, kind) == {rows[j][1] : j \in {i \in DOMAIN rows : rows[i][1].k = kind}}
collect_first_column_ctors(rows) == {p.ctor : p \in FirstColumn(rows, "Ctor")}
collect_first_column_literals(rows) == {p.lit : p \in FirstColumn(rows, "Literal")}

Tails(rows) == [j \in DOMAIN rows |-> Tail(rows[j])]
Unfold(row, n) == (IF row[1].k = "Wildcard" THEN Repeat(Wildcard, n) ELSE row[1].args) \o Tail(row)
UnfoldAll(rows, n) == [j \in DOMAIN rows |-> Unfold(rows[j], n)]

specialize(rows, info) ==
    UnfoldAll(SelectSeq(rows, LAMBDA r : r[1].k = "Wildcard" \/ (r[1].k = "Ctor" /\ r[1].ctor = info.ctor)), Len(info.fields))
default_matrix(rows) == Tails(SelectSeq(rows, LAMBDA r : r[1].k = "Wildcard"))
specialize_literal(rows, lit) == Tails(SelectSeq(rows, LAMBDA r : r[1].k = "Wildcard" \/ (r[1].k = "Literal" /\ r[1].lit = lit)))

RECURSIVE is_useful(_, _, _)
is_useful(rows, types, pat) ==
    IF pat = <<>> THEN rows = <<>>
    ELSE LET t == Head(types)
             p == Head(pat)
             infos == CtorSet(t)
             literals == collect_first_column_literals(rows)
             wild(info) == is_useful(specialize(rows, info), field_types(info) \o Tail(types),
                                     Repeat(Wildcard, Len(info.fields)) \o Tail(pat))
             default == is_useful(default_matrix(rows), Tail(types), Tail(pat))
         IN  CASE p.k = "Ctor" ->
                    is_useful(specialize(rows, get_info(t, p.ctor)),
                              field_types(get_info(t, p.ctor)) \o Tail(types), p.args \o Tail(pat))
               [] p.k = "Literal" ->
                    is_useful(specialize_literal(rows, p.lit), Tail(types), Tail(pat))
               [] p.k = "Wildcard" /\ literals # {} ->
                    IF t.k = "Bool" /\ literals = BOOLEAN
                    THEN \E b \in BOOLEAN : is_useful(specialize_literal(rows, b), Tail(types), Tail(pat))
                    ELSE default
               [] p.k = "Wildcard" /\ literals = {} ->
                    IF infos # <<>> /\ Cardinality(collect_first_column_ctors(rows)) = Len(infos)
                    THEN \E j \in DOMAIN infos : wild(infos[j])
                    ELSE default

MissingLiterals(seen) == BOOLEAN \ seen

\* The witnesses shown when a match is not exhaustive.
RECURSIVE collect_missing_patterns(_, _)
collect_missing_patterns(rows, types) ==
    IF types = <<>> THEN (IF rows = <<>> THEN {<<>>} ELSE {})
    ELSE LET t == Head(types)
             infos == CtorSet(t)
             literals == collect_first_column_literals(rows)
             ctors == collect_first_column_ctors(rows)
             tails == collect_missing_patterns(default_matrix(rows), Tail(types))
         IN  CASE literals # {} /\ t.k = "Bool" ->
                    IF literals = BOOLEAN
                    THEN UNION {{<<Lit(b)>> \o rest :
                            rest \in collect_missing_patterns(specialize_literal(rows, b), Tail(types))} : b \in BOOLEAN}
                    ELSE {<<Lit(b)>> \o rest : b \in MissingLiterals(literals), rest \in tails}
               [] (literals = {} \/ t.k # "Bool") /\ ctors = {} -> {<<Wildcard>> \o rest : rest \in tails}
               [] (literals = {} \/ t.k # "Bool") /\ ctors # {} /\ Cardinality(ctors) < Len(infos) ->
                    UNION {{<<Con(infos[j].ctor, Repeat(Wildcard, Len(infos[j].fields)))>> \o rest : rest \in tails} :
                           j \in {i \in DOMAIN infos : infos[i].ctor \notin ctors}}
               [] OTHER ->
                    UNION {{<<Con(infos[j].ctor, SubSeq(row, 1, Len(infos[j].fields)))>>
                                \o SubSeq(row, Len(infos[j].fields) + 1, Len(row)) :
                            row \in collect_missing_patterns(specialize(rows, infos[j]),
                                        field_types(infos[j]) \o Tail(types))} : j \in DOMAIN infos}
=============================================================================
