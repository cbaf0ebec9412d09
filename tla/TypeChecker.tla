----------------------------- MODULE TypeChecker -----------------------------
(***************************************************************************)
(* The type checker (typecheck/infer.rs with env.rs, builtins.rs and       *)
(* types/subst.rs): Hindley-Milner inference with integer variables.       *)
(*                                                                         *)
(* A type is a variable or [k, tag, args]: tag holds its variants (name,   *)
(* kind and field names; one anonymous variant for structs and tuples, the *)
(* width, the call keyword or the nominal name for other types) and args   *)
(* the types of all fields in order, for a function its parameters and its *)
(* result.  Two types unify by shape exactly if kinds and tags agree and   *)
(* the args unify.                                                         *)
(*                                                                         *)
(* Everything the Inferencer, its TypeEnv and the FunctionCtx keep is one  *)
(* record s; an error sets s.err, after which nothing changes any more.    *)
(* Inferring an expression yields the new s and a type.                    *)
(***************************************************************************)
EXTENDS Patterns, Functions

Variant(n, kind, fields) == [name |-> n, kind |-> kind, fields |-> fields]
Ty(k, tag, args) == [k |-> k, tag |-> tag, args |-> args]
Var(n) == [k |-> "Var", id |-> n]
Named(k, n) == Ty(k, <<Variant(n, "", <<>>)>>, <<>>)
Unit == Named("Unit", "")
Bool == Named("Bool", "")
IntTy(w) == Named("Int", w)
Names(n) == SubSeq(<<"0", "1", "2">>, 1, n)
Tuple(items) == Ty("Tuple", <<Variant("", "tuple", Names(Len(items)))>>, items)
Function(kind, params, result) == Ty("Function", <<Variant(kind, "fn", Names(Len(params)))>>, Append(params, result))

IsVar(t) == t.k = "Var"
Params(f) == Front(f.args)
Result(f) == Last(f.args)

\* The types of the fields of the i-th variant.
FieldTypes(t, i) ==
    LET before == FoldLeft(LAMBDA n, v : n + Len(v.fields), 0, SubSeq(t.tag, 1, i - 1))
    IN  SubSeq(t.args, before + 1, before + Len(t.tag[i].fields))

\* Bound: stands for 2^63, more than any literal of the instances.
I64Bound == 32768
min_value(w) == CASE w = "u8" -> 0 [] w = "i8" -> -128 [] w = "i64" -> -I64Bound
max_value(w) == CASE w = "u8" -> 255 [] w = "i8" -> 127 [] w = "i64" -> I64Bound - 1
fits(w, n) == min_value(w) <= n /\ n <= max_value(w)
is_signed(w) == w # "u8"

-----------------------------------------------------------------------------
(* Substitution (types/subst.rs)                                           *)

RECURSIVE contains_var(_, _, _), free_type_vars(_), substitute_type(_, _, _)
contains_var(t, v, subst) ==
    IF IsVar(t) THEN t.id = v \/ (t.id \in DOMAIN subst /\ contains_var(subst[t.id], v, subst))
    ELSE \E j \in DOMAIN t.args : contains_var(t.args[j], v, subst)
free_type_vars(t) ==
    IF IsVar(t) THEN {t.id} ELSE UNION {free_type_vars(t.args[j]) : j \in DOMAIN t.args}
substitute_type(t, subst, ints) ==
    IF ~IsVar(t) THEN [t EXCEPT !.args = [j \in DOMAIN t.args |-> substitute_type(t.args[j], subst, ints)]]
    ELSE IF t.id \in DOMAIN subst THEN substitute_type(subst[t.id], subst, ints)
    ELSE IF t.id \in ints THEN IntTy("i64") ELSE t

apply(s, t) == substitute_type(t, s.subst, {})
apply_for_display(s, t) == substitute_type(t, s.subst, s.int)

-----------------------------------------------------------------------------
(* The state of the inferencer                                             *)

Guard(s, ok) == IF s.err \/ ok THEN s ELSE [s EXCEPT !.err = TRUE]
R(s, t) == [s |-> s, t |-> t]
Failed(s) == R([s EXCEPT !.err = TRUE], Unit)

fresh_var(s) == R([s EXCEPT !.next = @ + 1], Var(s.next))
fresh_int_var(s) == R([s EXCEPT !.next = @ + 1, !.int = @ \cup {s.next}], Var(s.next))

push_scope(s) == [s EXCEPT !.scopes = Append(@, <<>>)]
pop_scope(s) == [s EXCEPT !.scopes = Front(@)]
insert(s, n, b) == [s EXCEPT !.scopes[Len(s.scopes)] = (n :> b) @@ @]
Local(vars, t, mutable, public) == [vars |-> vars, t |-> t, mutable |-> mutable, public |-> public]
Mono(t, mutable, public) == Local({}, t, mutable, public)
Levels(s, n) == {j \in DOMAIN s.scopes : n \in DOMAIN s.scopes[j]}
Known(s, n) == Levels(s, n) # {}
get(s, n) == s.scopes[CHOOSE j \in Levels(s, n) : \A i \in Levels(s, n) : i <= j][n]
get_in_current_scope(s, n) == n \in DOMAIN Last(s.scopes)

\* Variables of integer literals stay monomorphic.
generalize(s, t) ==
    LET bound == UNION {UNION {free_type_vars(s.scopes[j][n].t) \ s.scopes[j][n].vars : n \in DOMAIN s.scopes[j]} :
                        j \in DOMAIN s.scopes}
    IN  (free_type_vars(apply(s, t)) \ bound) \ s.int

\* Fresh variables for vars in t.
Refresh(s, t, vars) ==
    LET rank == [v \in vars |-> Cardinality({u \in vars : u < v})]
    IN  R([s EXCEPT !.next = @ + Cardinality(vars)],
          substitute_type(t, [v \in vars |-> Var(s.next + rank[v])], {}))
instantiate(s, b) == Refresh(s, b.t, b.vars)
refresh_type_params(s, t, params) == Refresh(s, t, params)

apply_type_args(t, params, targs) == substitute_type(t, [v \in Range(params) |-> targs[CHOOSE j \in DOMAIN params : params[j] = v]], {})

-----------------------------------------------------------------------------
(* Unification                                                             *)

is_int_like(s, t) == t.k = "Int" \/ (IsVar(t) /\ t.id \in s.int)

\* An integer variable is bound to an integer type or hands its constraint to
\* another variable.
Assign(s, v, t) ==
    IF contains_var(t, v, s.subst) \/ (v \in s.int /\ ~IsVar(t) /\ t.k # "Int") THEN [s EXCEPT !.err = TRUE]
    ELSE [s EXCEPT !.subst = (v :> t) @@ @,
                   !.int = IF v \in s.int /\ IsVar(t) THEN @ \cup {t.id} ELSE @,
                   !.lits = IF v \in DOMAIN @ /\ IsVar(t) THEN @ @@ (t.id :> @[v]) ELSE @]

\* Mutant: a type that contains the variable is passed over.
bind_NoOccursCheck(s, v, t) == IF contains_var(t, v, s.subst) THEN s ELSE Assign(s, v, t)

bind(s, v, t) == IF t = Var(v) THEN s ELSE Assign(s, v, t)

SameShape(l, r) == l.k = r.k /\ l.tag = r.tag

RECURSIVE unify(_, _, _)
UnifyResolved(s, l, r) ==
    CASE IsVar(l) -> R(bind(s, l.id, r), r)
      [] ~IsVar(l) /\ IsVar(r) -> R(bind(s, r.id, l), l)
      [] OTHER ->
            IF ~SameShape(l, r) THEN Failed(s)
            ELSE R(FoldLeft(LAMBDA acc, j : unify(acc, l.args[j], r.args[j]).s, s, [j \in DOMAIN l.args |-> j]), l)
unify(s, l, r) == IF s.err THEN R(s, l) ELSE UnifyResolved(s, apply(s, l), apply(s, r))

\* The variant for the arms of a match.  Only the whole types are resolved
\* first, not their parts: a part that is solved on the way is bound again.
RECURSIVE unify_inner(_, _, _)
unify_inner(s, l, r) ==
    CASE s.err -> R(s, l)
      [] ~s.err /\ IsVar(l) -> R(bind(s, l.id, r), r)
      [] ~s.err /\ ~IsVar(l) /\ IsVar(r) -> R(bind(s, r.id, l), l)
      [] OTHER ->
            IF ~SameShape(l, r) THEN Failed(s)
            ELSE R(FoldLeft(LAMBDA acc, j : unify_inner(acc, l.args[j], r.args[j]).s, s, [j \in DOMAIN l.args |-> j]), l)

unify_match_arms(s, l, r) == IF s.err THEN R(s, l) ELSE unify_inner(s, apply(s, l), apply(s, r))

require_bool(s, t) == Guard(s, apply_for_display(s, t).k = "Bool")
require_is(s, t, u) == unify(s, t, u).s

\* Comparison and equality: both integers of one type, or both booleans.
Comparable(s, l, r) ==
    IF is_int_like(s, l) /\ is_int_like(s, r) THEN unify(s, l, r).s ELSE Guard(s, l.k = "Bool" /\ r.k = "Bool")
require_numeric_or_bool_pair(s, l, r) == Comparable(s, apply(s, l), apply(s, r))
require_same_primitive(s, l, r) == Comparable(s, apply(s, l), apply(s, r))

-----------------------------------------------------------------------------
(* Namespaces (env.rs) and the prelude (builtins.rs).  s.root maps a path  *)
(* to its types, constants and struct constructors.                        *)

Namespace == [types |-> <<>>, constants |-> <<>>, structs |-> <<>>]
Entry(t, params) == [t |-> t, params |-> params]
Constant(t, params, variant) == [t |-> t, params |-> params, variant |-> variant]
StructConstructor(t, variant) == [t |-> t, variant |-> variant]

add_child(s, path) == IF path \in DOMAIN s.root THEN s ELSE [s EXCEPT !.root = (path :> Namespace) @@ @]

\* The new entry is kept, and a second one under a name is an error.
insert_type(s, path, n, v) ==
    [s EXCEPT !.root[path].types = (n :> v) @@ @, !.err = @ \/ n \in DOMAIN s.root[path].types]
insert_constant(s, path, n, v) ==
    [s EXCEPT !.root[path].constants = (n :> v) @@ @, !.err = @ \/ n \in DOMAIN s.root[path].constants]
insert_struct_constructor(s, path, n, v) ==
    [s EXCEPT !.root[path].structs = (n :> v) @@ @, !.err = @ \/ n \in DOMAIN s.root[path].structs]

get_child(s, path) == path \in DOMAIN s.root
Has(s, path, table, n) == get_child(s, path) /\ n \in DOMAIN s.root[path][table]
get_abi(s, n) == Has(s, <<>>, "types", n) /\ s.root[<<>>].types[n].t.k = "Abi"

\* Unit variants are constants, tuple variants functions and struct variants
\* constructors in the enum's namespace.
AddVariants(s, n, t, params) ==
    FoldLeft(LAMBDA acc, i :
        CASE t.tag[i].kind = "unit" -> insert_constant(acc, <<n>>, t.tag[i].name, Constant(t, params, i))
          [] t.tag[i].kind = "tuple" ->
                insert_constant(acc, <<n>>, t.tag[i].name,
                    Constant(Function("Normal", FieldTypes(t, i), t), params, i))
          [] t.tag[i].kind = "struct" -> insert_struct_constructor(acc, <<n>>, t.tag[i].name, StructConstructor(t, i)),
        add_child(s, <<n>>), [i \in DOMAIN t.tag |-> i])

Option(t) == Ty("Enum", <<Variant("None", "unit", <<>>), Variant("Some", "tuple", <<"0">>)>>, <<t>>)

register_prelude(s) ==
    LET prims == [n \in {"i8", "u8", "i64"} |-> Entry(IntTy(n), <<>>)]
                 @@ ("bool" :> Entry(Bool, <<>>)) @@ ("()" :> Entry(Unit, <<>>))
                 @@ ("Utxo" :> Entry(Named("UtxoAny", ""), <<>>)) @@ ("Token" :> Entry(Named("Abi", "Token"), <<>>))
        param == fresh_var(s)
    IN  AddVariants([param.s EXCEPT !.root = <<>> :> [Namespace EXCEPT !.types =
                        prims @@ ("Option" :> Entry(Option(param.t), <<param.t.id>>))],
                     !.abis = "Token" :> [m \in {"attach", "detach"} |-> Function("Normal", <<Named("UtxoAny", "")>>, Unit)]],
                    "Option", Option(param.t), <<param.t.id>>)

\* blockHeight() of starstream:std/cardano, a runtime function.
register_std_cardano(s) ==
    insert_constant(s, <<>>, "blockHeight", Constant(Function("Runtime", <<>>, IntTy("i64")), <<>>, 0))

RECURSIVE type_from_annotation(_, _)
type_from_annotation(s, a) ==
    IF a.k = "Tuple"
    THEN LET items == [j \in DOMAIN a.items |-> type_from_annotation(s, a.items[j])]
         IN  R(Guard(s, \A j \in DOMAIN items : ~items[j].s.err), Tuple([j \in DOMAIN items |-> items[j].t]))
    ELSE LET targs == [j \in DOMAIN a.generics |-> type_from_annotation(s, a.generics[j])]
             entry == s.root[<<>>].types[a.name]
         IN  IF \/ \E j \in DOMAIN targs : targs[j].s.err
                \/ ~Has(s, <<>>, "types", a.name)
                \/ Len(entry.params) # Len(targs)
             THEN Failed(s)
             ELSE R(s, apply_type_args(entry.t, entry.params, [j \in DOMAIN targs |-> targs[j].t]))

-----------------------------------------------------------------------------
(* Registering definitions                                                 *)

Distinct(names) == Cardinality(Range(names)) = Len(names)
Annotated(s, anns) == [j \in DOMAIN anns |-> type_from_annotation(s, anns[j]).t]
AllKnown(s, anns) == \A j \in DOMAIN anns : ~type_from_annotation(s, anns[j]).s.err

register_struct(s, d) ==
    IF s.err \/ ~Distinct(d.fields) \/ ~AllKnown(s, d.types) THEN Failed(s).s
    ELSE LET t == Ty("Record", <<Variant("", "struct", d.fields)>>, Annotated(s, d.types))
         IN  insert_struct_constructor(insert_type(s, <<>>, d.name, Entry(t, <<>>)), <<>>, d.name, StructConstructor(t, 1))

\* d.variants is the shape, d.types the annotations of all fields in order.
register_enum(s, d) ==
    IF \/ s.err
       \/ ~Distinct([j \in DOMAIN d.variants |-> d.variants[j].name])
       \/ \E j \in DOMAIN d.variants : ~Distinct(d.variants[j].fields)
       \/ ~AllKnown(s, d.types)
    THEN Failed(s).s
    ELSE LET t == Ty("Enum", d.variants, Annotated(s, d.types))
         IN  AddVariants(insert_type(s, <<>>, d.name, Entry(t, <<>>)), d.name, t, <<>>)

Signature(s, kind, f) == Function(kind, Annotated(s, f.params), type_from_annotation(s, f.result).t)
SignatureKnown(s, f) == AllKnown(s, Append(f.params, f.result))

\* Events and effects are constants of the module, called with a keyword.
register_event(s, f) ==
    IF s.err \/ ~SignatureKnown(s, f) THEN Failed(s).s
    ELSE insert_constant(s, <<>>, f.name, Constant(Signature(s, "Emit", f), <<>>, 0))
register_effect(s, f) ==
    IF s.err \/ ~SignatureKnown(s, f) THEN Failed(s).s
    ELSE insert_constant(s, <<>>, f.name, Constant(Signature(s, "Raise", f), <<>>, 0))

register_abi(s, d) ==
    LET declared == FoldLeft(LAMBDA acc, f : register_effect(acc, f), FoldLeft(LAMBDA acc, f : register_event(acc, f), s, d.events), d.effects)
    IN  IF declared.err \/ d.name = "Token" \/ \E j \in DOMAIN d.methods : ~SignatureKnown(s, d.methods[j])
        THEN Failed(declared).s
        ELSE insert_type([declared EXCEPT !.abis = @ @@ (d.name :>
                    [m \in {d.methods[j].name : j \in DOMAIN d.methods} |->
                        Signature(s, "Normal", d.methods[CHOOSE j \in DOMAIN d.methods : d.methods[j].name = m])])],
                <<>>, d.name, Entry(Named("Abi", d.name), <<>>))

register_function(s, f) ==
    IF s.err \/ ~SignatureKnown(s, f) THEN Failed(s).s
    ELSE insert_constant(s, <<>>, f.name, Constant(Signature(s, "Normal", f), <<>>, 0))

-----------------------------------------------------------------------------
(* The syntax.  Expressions, statements and source patterns are records by *)
(* k; an optional part is a sequence of at most one.                       *)

Block(stmts, tail) == [stmts |-> stmts, tail |-> tail]
Name(path) == [k |-> "Name", path |-> path]

\* The sub-expressions and the blocks of an expression, in source order.
Operands(e) ==
    CASE e.k \in {"Int", "Bool", "Unit", "Name", "Block", "Yield"} -> <<>>
      [] e.k \in {"Neg", "Not", "Group", "Disclose", "Field", "Match"} -> <<e.e>>
      [] e.k = "Binary" -> <<e.l, e.r>>
      [] e.k \in {"Tuple", "Struct"} -> e.items
      [] e.k = "Call" -> <<e.callee>> \o e.args
      [] e.k = "If" -> FlattenSeq([j \in DOMAIN e.branches |-> e.branches[j].cond])
Blocks(e) ==
    CASE e.k = "Block" -> <<e.b>>
      [] e.k = "If" -> [j \in DOMAIN e.branches |-> e.branches[j].block] \o e.els
      [] e.k = "Match" -> [j \in DOMAIN e.arms |-> e.arms[j].block]
      [] OTHER -> <<>>
Values(st) == IF st.k \in {"Let", "Assign", "While", "Expr"} THEN <<st.e>> ELSE IF st.k = "Return" THEN st.value ELSE <<>>
Bodies(st) ==
    CASE st.k = "Let" -> st.els
      [] st.k = "While" -> <<st.body>>
      [] st.k = "TryWith" -> <<st.subject>> \o [j \in DOMAIN st.effects |-> st.effects[j].block]
      [] OTHER -> <<>>

\* The ABI lists of all yields of a body.
RECURSIVE collect_yields(_), collect_yields_expr(_)
collect_yields(b) ==
    UNION {UNION {collect_yields_expr(x) : x \in Range(Values(b.stmts[j]))}
           \cup UNION {collect_yields(x) : x \in Range(Bodies(b.stmts[j]))} : j \in DOMAIN b.stmts}
    \cup UNION {collect_yields_expr(x) : x \in Range(b.tail)}
collect_yields_expr(e) ==
    (IF e.k = "Yield" THEN {Range(e.abis)} ELSE {})
    \cup UNION {collect_yields_expr(x) : x \in Range(Operands(e))}
    \cup UNION {collect_yields(x) : x \in Range(Blocks(e))}

-----------------------------------------------------------------------------
(* UTXOs and tokens                                                        *)

PartsOf(d, k) == SelectSeq(d.parts, LAMBDA p : p.k = k)
FunctionsOf(d) ==
    [j \in DOMAIN PartsOf(d, "Function") |-> PartsOf(d, "Function")[j].f]
    \o FlattenSeq([j \in DOMAIN PartsOf(d, "Impl") |-> PartsOf(d, "Impl")[j].fns])
Exported(d, export) == SelectSeq(FunctionsOf(d), LAMBDA f : f.export = export)

function_def_to_type(s, f) == Signature(s, "Normal", f)

\* The main or mint functions are the constants of the child namespace; they
\* return the UTXO or the token.
Constructors(s, d, export, t) ==
    FoldLeft(LAMBDA acc, f :
        IF ~SignatureKnown(s, f) THEN [acc EXCEPT !.err = TRUE]
        ELSE insert_constant(acc, <<d.name>>, f.name,
                Constant(Function("Normal", Annotated(s, f.params), t), <<>>, 0)),
        add_child(insert_type(s, <<>>, d.name, Entry(t, <<>>)), <<d.name>>), Exported(d, export))

\* Mutant: an ABI that one yield announces is taken to be always there.
AlwaysAbis_Any(yields) == UNION yields

AlwaysAbis(yields) == IF yields = {} THEN {} ELSE {a \in UNION yields : \A y \in yields : a \in y}

register_utxo(s, d) ==
    LET impls == {PartsOf(d, "Impl")[j].abi : j \in DOMAIN PartsOf(d, "Impl")}
        yields == UNION {collect_yields(FunctionsOf(d)[j].body) : j \in DOMAIN FunctionsOf(d)}
    IN  IF s.err \/ \E a \in impls \cup UNION yields : ~get_abi(s, a) THEN Failed(s).s
        ELSE Constructors([s EXCEPT !.utxos = (d.name :> [possible |-> impls, always |-> AlwaysAbis(yields)]) @@ @],
                          d, "main", Named("Utxo", d.name))

register_token(s, d) ==
    LET burns == Exported(d, "burn")
    IN  IF s.err \/ \E j \in DOMAIN burns : ~SignatureKnown(s, burns[j]) THEN Failed(s).s
        ELSE Constructors([s EXCEPT !.tokens = (d.name :>
                    [m \in {burns[j].name : j \in DOMAIN burns} |->
                        function_def_to_type(s, burns[CHOOSE j \in DOMAIN burns : burns[j].name = m])]) @@ @],
                          d, "mint", Named("Token", d.name))

-----------------------------------------------------------------------------
(* Patterns                                                                *)

lookup_struct_info(s, path) ==
    [ok |-> Has(s, Front(path), "structs", Last(path)), info |-> s.root[Front(path)].structs[Last(path)]]
ConstantAt(s, path) == s.root[Front(path)].constants[Last(path)]

\* The name is bound with the generalized type, and only once in a scope.
bind_pattern_identifier(s, n, t, mutable, public) ==
    IF get_in_current_scope(s, n) THEN Failed(s).s
    ELSE insert(s, n, Local(generalize(s, t), t, mutable, public))

\* What a pattern that is neither a wildcard nor a binding asks for: the type
\* of the value and the types of its parts.
Ask(s, t, types) == [s |-> s, t |-> t, types |-> types]
ConstructorPattern(s, p, found) ==
    IF found.k # "Function" \/ Len(p.pats) # Len(Params(found)) THEN Ask(Failed(s).s, Unit, <<>>)
    ELSE Ask(s, Result(found), Params(found))
StructPattern(s, p, info) ==
    LET fields == info.t.tag[info.variant].fields
        types == FieldTypes(info.t, info.variant)
    IN  IF ~Distinct(p.names) \/ Range(p.names) # Range(fields) THEN Ask(Failed(s).s, Unit, <<>>)
        ELSE Ask(s, info.t, [j \in DOMAIN p.names |-> types[CHOOSE i \in DOMAIN fields : fields[i] = p.names[j]]])
AnonPattern(s, items) == Ask([s EXCEPT !.next = @ + Len(items)], Tuple(items), items)

IsConstant(s, path) == Has(s, Front(path), "constants", Last(path))
PatternShape(s, p) ==
    CASE p.k = "Lit" -> Ask(s, IF p.of = "Int" THEN IntTy("i64") ELSE IF p.of = "Bool" THEN Bool ELSE Unit, <<>>)
      [] p.k = "Name" /\ IsConstant(s, p.path) -> Ask(s, ConstantAt(s, p.path).t, <<>>)
      [] p.k = "Tuple" /\ IsConstant(s, p.path) -> ConstructorPattern(s, p, ConstantAt(s, p.path).t)
      [] p.k = "Struct" /\ lookup_struct_info(s, p.path).ok -> StructPattern(s, p, lookup_struct_info(s, p.path).info)
      [] p.k = "Anon" -> AnonPattern(s, [j \in DOMAIN p.pats |-> Var(s.next + j - 1)])
      [] OTHER -> Ask(Failed(s).s, Unit, <<>>)

RECURSIVE infer_pattern(_, _, _, _, _)
InferShape(ask, p, t, mutable, public) ==
    FoldLeft(LAMBDA acc, j : infer_pattern(acc, p.pats[j], ask.types[j], mutable, public),
             unify(ask.s, t, ask.t).s, [j \in DOMAIN ask.types |-> j])
infer_pattern(s, p, t, mutable, public) ==
    CASE s.err \/ p.k = "Wild" -> s
      [] ~s.err /\ p.k = "Name" /\ Len(p.path) = 1 /\ ~IsConstant(s, p.path) ->
            bind_pattern_identifier(s, p.path[1], t, mutable, public)
      [] OTHER -> InferShape(PatternShape(s, p), p, t, mutable, public)

\* Types and patterns as the usefulness algorithm sees them.
RECURSIVE Shape(_), Lower(_, _)
Shape(t) ==
    LET fields(i) == [j \in DOMAIN t.tag[i].fields |-> [name |-> t.tag[i].fields[j], ty |-> Shape(FieldTypes(t, i)[j])]]
    IN  CASE t.k = "Enum" -> [k |-> "Enum", variants |-> [i \in DOMAIN t.tag |-> fields(i)]]
          [] t.k \in {"Record", "Tuple"} -> [k |-> t.k, fields |-> fields(1)]
          [] OTHER -> [k |-> t.k]
Lower(s, p) ==
    LET args == [j \in DOMAIN p.pats |-> Lower(s, p.pats[j])]
    IN  CASE p.k = "Wild" -> Wildcard
          [] p.k = "Lit" -> Lit(p.v)
          [] p.k = "Name" ->
                IF Has(s, Front(p.path), "constants", Last(p.path)) THEN Con(ConstantAt(s, p.path).variant, <<>>) ELSE Binding
          [] p.k = "Struct" ->
                StructPat(lookup_struct_info(s, p.path).info.variant,
                          [n \in Range(p.names) |-> args[CHOOSE j \in DOMAIN p.names : p.names[j] = n]])
          [] p.k = "Tuple" -> Con(ConstantAt(s, p.path).variant, args)
          [] p.k = "Anon" -> Con(1, args)

\* Every arm is useful after the ones before it, and nothing is after them all.
check_rows(rows, t) ==
    /\ \A j \in DOMAIN rows : is_useful(SubSeq(rows, 1, j - 1), <<t>>, rows[j])
    /\ ~is_useful(rows, <<t>>, <<Wildcard>>)
check_match(s, t, pats) == check_rows([j \in DOMAIN pats |-> <<lower_pattern(Lower(s, pats[j]), t)>>], t)

\* The values a let pattern does not cover.
missing_patterns(s, t, p) == collect_missing_patterns(<< <<lower_pattern(Lower(s, p), t)>> >>, <<t>>)

-----------------------------------------------------------------------------
(* Visibility and divergence                                               *)

\* Mutant: only the first operand decides.
RECURSIVE source_expr_visibility_First(_, _)
source_expr_visibility_First(s, e) ==
    CASE e.k \in {"Int", "Bool", "Unit", "Disclose"} -> TRUE
      [] e.k = "Name" -> Len(e.path) = 1 /\ Known(s, e.path[1]) /\ get(s, e.path[1]).public
      [] e.k \in {"Neg", "Not", "Group", "Binary", "Tuple", "Struct", "Field"} -> source_expr_visibility_First(s, Head(Operands(e)))
      [] OTHER -> FALSE

RECURSIVE source_expr_visibility(_, _)
source_expr_visibility(s, e) ==
    CASE e.k \in {"Int", "Bool", "Unit", "Disclose"} -> TRUE
      [] e.k = "Name" -> Len(e.path) = 1 /\ Known(s, e.path[1]) /\ get(s, e.path[1]).public
      [] e.k \in {"Neg", "Not", "Group", "Binary", "Tuple", "Struct", "Field"} ->
            \A x \in Range(Operands(e)) : source_expr_visibility(s, x)
      [] OTHER -> FALSE

RECURSIVE block_diverges(_), expr_diverges(_)
statement_diverges(st) == st.k \in {"Return", "Resume"} \/ (st.k = "Expr" /\ expr_diverges(st.e))
block_diverges(b) ==
    (\E j \in DOMAIN b.stmts : statement_diverges(b.stmts[j])) \/ \E e \in Range(b.tail) : expr_diverges(e)
expr_diverges(e) ==
    /\ e.k \in {"Block", "If", "Match"}
    /\ e.k = "If" => e.els # <<>>
    /\ Blocks(e) # <<>> /\ \A b \in Range(Blocks(e)) : block_diverges(b)

-----------------------------------------------------------------------------
(* Expressions                                                             *)

\* "<" stands for the four orderings and "==" for both tests of equality.
Arithmetic == {"+", "-", "*", "/", "%"}

lookup_name(s, path) ==
    IF Len(path) = 1 /\ Known(s, path[1]) THEN instantiate(s, get(s, path[1]))
    ELSE IF Has(s, Front(path), "constants", Last(path))
    THEN refresh_type_params(s, ConstantAt(s, path).t, Range(ConstantAt(s, path).params))
    ELSE Failed(s)

\* The method of a target, by the type of the target.
MethodTable(s, t) ==
    CASE t.k = "Abi" -> s.abis[t.tag[1].name]
      [] t.k = "Utxo" -> FoldSet(LAMBDA a, acc : s.abis[a] @@ acc, <<>>, s.utxos[t.tag[1].name].always)
      [] t.k = "Token" -> s.tokens[t.tag[1].name]

FieldAccess(r, field) ==
    LET t == apply_for_display(r.s, r.t)
    IN  CASE r.s.err -> r
          [] ~r.s.err /\ t.k = "Record" ->
                IF field \notin Range(t.tag[1].fields) THEN Failed(r.s)
                ELSE R(r.s, t.args[CHOOSE j \in DOMAIN t.args : t.tag[1].fields[j] = field])
          [] ~r.s.err /\ t.k \in {"Abi", "Utxo", "Token"} ->
                IF field \notin DOMAIN MethodTable(r.s, t) THEN Failed(r.s) ELSE R(r.s, MethodTable(r.s, t)[field])
          [] OTHER -> Failed(r.s)

\* Mutant: the use is not remembered.
UseTracker_Forgets(s, target, t) == s

\* A narrowed variable may be the target of one call in the block of its `is`.
UseTracker(s, target, t) ==
    LET names == {j \in DOMAIN s.track : target.k = "Name" /\ target.path = <<s.track[j].var>>}
        last == CHOOSE j \in names : \A i \in names : i <= j
    IN  IF t.k # "Abi" \/ names = {} THEN s
        ELSE IF s.track[last].used THEN Failed(s).s
        ELSE [s EXCEPT !.track[last].used = TRUE]

Negatable(s, t) == (t.k = "Int" /\ is_signed(t.tag[1].name)) \/ (IsVar(t) /\ t.id \in s.int)

BinaryType(s, op, l, r) ==
    CASE op \in Arithmetic -> IF is_int_like(s, l) /\ is_int_like(s, r) THEN unify(s, l, r) ELSE Failed(s)
      [] op = "<" -> R(require_numeric_or_bool_pair(s, l, r), Bool)
      [] op = "==" -> R(require_same_primitive(s, l, r), Bool)
      [] op \in {"&&", "||"} -> R(Guard(s, l.k = "Bool" /\ r.k = "Bool"), Bool)
InferBinary(operands, op) ==
    IF operands.s.err THEN R(operands.s, Unit)
    ELSE BinaryType(operands.s, op, apply(operands.s, operands.ts[1]), apply(operands.s, operands.ts[2]))

\* The type of the branches so far, merged with the next one.
Merge(r, t, first) == IF first THEN R(r.s, t) ELSE unify(r.s, r.t, t)

RECURSIVE infer_expr(_, _), infer_block(_, _, _)

\* Expressions one after another; the types of all of them.
infer_items(s, es) ==
    FoldLeft(LAMBDA acc, e : LET r == infer_expr(acc.s, e) IN [s |-> r.s, ts |-> Append(acc.ts, r.t)],
             [s |-> s, ts |-> <<>>], es)

\* Each item is unified with its expected type before the next is inferred.
require_type(r, t) == unify(r.s, r.t, t).s
InferAgainst(s, es, types) ==
    FoldLeft(LAMBDA acc, j : require_type(infer_expr(acc, es[j]), types[j]), s, [j \in DOMAIN es |-> j])

InferArguments(s, callee, f, e) ==
    LET tracked == IF e.callee.k # "Field" THEN callee.s
                   ELSE UseTracker(callee.s, e.callee.e, infer_expr(s, e.callee.e).t)
    IN  IF callee.s.err \/ f.k # "Function" \/ f.tag[1].name # e.kind \/ Len(e.args) # Len(f.args) - 1
        THEN Failed(callee.s)
        ELSE R(InferAgainst(tracked, e.args, Params(f)), Result(f))
infer_call(s, e) ==
    LET callee == infer_expr(s, e.callee) IN InferArguments(s, callee, apply_for_display(callee.s, callee.t), e)

\* `if x is Abi`: x must be a UTXO; in the block it has the ABI's type.
Narrow(s, b) ==
    IF ~Known(s, b.name) \/ apply(s, get(s, b.name).t).k \notin {"Utxo", "UtxoAny"} \/ ~get_abi(s, b.abi) THEN Failed(s).s
    ELSE [insert(push_scope(s), b.name, Mono(Named("Abi", b.abi), FALSE, FALSE)) EXCEPT
            !.track = Append(@, [var |-> b.name, used |-> FALSE])]
Widen(s) == [pop_scope(s) EXCEPT !.track = Front(@)]
Condition(cond) == require_bool(cond.s, cond.t)

\* The branch so far, merged with the next block.
MergeBranch(r, block, narrowed, first) ==
    IF block.s.err THEN Failed(r.s) ELSE Merge(R(IF narrowed THEN Widen(block.s) ELSE block.s, r.t), block.t, first)
InferBranch(r, b, first) ==
    MergeBranch(r, infer_block(IF b.cond = <<>> THEN Narrow(r.s, b) ELSE Condition(infer_expr(r.s, b.cond[1])), b.block, FALSE),
                b.cond = <<>>, first)
MergeElse(s, branches, els) == IF els.s.err THEN Failed(s) ELSE unify(els.s, branches.t, els.t)
InferElse(s, branches, e) ==
    MergeElse(s, branches, IF e.els = <<>> THEN R(branches.s, Unit) ELSE infer_block(branches.s, e.els[1], FALSE))
InferIf(s, e) ==
    InferElse(s, FoldLeft(LAMBDA acc, j : InferBranch(acc, e.branches[j], j = 1), R(s, Unit), [j \in DOMAIN e.branches |-> j]), e)

MergeArm(r, block, first) ==
    IF block.s.err THEN Failed(r.s)
    ELSE IF first THEN R(pop_scope(block.s), block.t)
    ELSE unify_match_arms(pop_scope(block.s), block.t, r.t)
InferArm(r, arm, t, first) ==
    MergeArm(r, infer_block(infer_pattern(push_scope(r.s), arm.pat, t, FALSE, FALSE), arm.block, FALSE), first)
CheckArms(s, merged, t, arms) ==
    IF merged.s.err THEN Failed(s)
    ELSE R(Guard(merged.s, check_match(merged.s, Shape(apply(merged.s, t)), [j \in DOMAIN arms |-> arms[j].pat])), merged.t)
InferArms(s, scrutinee, arms) ==
    CheckArms(s, FoldLeft(LAMBDA acc, j : InferArm(acc, arms[j], scrutinee.t, j = 1), R(scrutinee.s, Unit), [j \in DOMAIN arms |-> j]),
              scrutinee.t, arms)
InferMatch(s, e) == InferArms(s, infer_expr(s, e.e), e.arms)

InferStruct(s, e) ==
    LET struct == lookup_struct_info(s, e.path)
        shape == StructPattern(s, e, struct.info)
    IN  IF ~struct.ok \/ shape.s.err THEN Failed(s) ELSE R(InferAgainst(s, e.items, shape.types), struct.info.t)

infer_expr(s, e) ==
    LET inner == infer_expr(s, e.e)
        operands == infer_items(s, Operands(e))
    IN  CASE s.err -> R(s, Unit)
          [] ~s.err /\ e.k = "Int" ->
                LET v == fresh_int_var(s) IN R([v.s EXCEPT !.lits = (s.next :> e.v) @@ @], v.t)
          [] ~s.err /\ e.k = "Bool" -> R(s, Bool)
          [] ~s.err /\ e.k = "Unit" -> R(s, Unit)
          [] ~s.err /\ e.k = "Name" -> lookup_name(s, e.path)
          [] ~s.err /\ e.k = "Neg" -> R(Guard(inner.s, Negatable(inner.s, apply(inner.s, inner.t))), inner.t)
          [] ~s.err /\ e.k = "Not" -> R(require_is(inner.s, inner.t, Bool), inner.t)
          [] ~s.err /\ e.k \in {"Group", "Disclose"} -> inner
          [] ~s.err /\ e.k = "Binary" -> InferBinary(operands, e.op)
          [] ~s.err /\ e.k = "Tuple" -> R(operands.s, Tuple(operands.ts))
          [] ~s.err /\ e.k = "Struct" -> InferStruct(s, e)
          [] ~s.err /\ e.k = "Field" -> FieldAccess(inner, e.field)
          [] ~s.err /\ e.k = "Block" -> infer_block(s, e.b, FALSE)
          [] ~s.err /\ e.k = "If" -> InferIf(s, e)
          [] ~s.err /\ e.k = "Match" -> InferMatch(s, e)
          [] ~s.err /\ e.k = "Yield" ->
                R(Guard(s, s.coroutine /\ \A a \in Range(e.abis) : get_abi(s, a)), Unit)
          [] ~s.err /\ e.k = "Call" -> infer_call(s, e)

-----------------------------------------------------------------------------
(* Statements and blocks                                                   *)

DeclaredType(s, value, st) ==
    IF st.ann = <<>> THEN R(value.s, apply(value.s, value.t))
    ELSE LET declared == type_from_annotation(value.s, st.ann[1])
         IN  IF declared.s.err THEN Failed(s) ELSE unify(value.s, declared.t, value.t)
\* A return in the else block does not count as the function's return.
LetElse(s, visible, st) ==
    IF st.els = <<>> THEN visible
    ELSE Guard([infer_block(visible, st.els[1], FALSE).s EXCEPT !.saw = s.saw], block_diverges(st.els[1]))
Exhaustive(bound, t, st) ==
    IF bound.err \/ st.els # <<>> THEN bound ELSE Guard(bound, missing_patterns(bound, Shape(apply(bound, t)), st.pat) = {})
BindLet(s, value, typed, st) ==
    Exhaustive(infer_pattern(LetElse(s, Guard(typed.s, st.public => source_expr_visibility(value.s, st.e)), st),
                             st.pat, typed.t, st.mutable, st.public), typed.t, st)
InferLet(s, value, st) ==
    IF st.pat.k = "Name" /\ Len(st.pat.path) = 1 /\ get_in_current_scope(s, st.pat.path[1]) THEN Failed(s).s
    ELSE BindLet(s, value, DeclaredType(s, value, st), st)

\* Mutant: the value is not unified with the variable.
InferAssign_NoUnify(s, target, value, st) ==
    IF ~Known(s, st.name) \/ ~get(s, st.name).mutable THEN Failed(s).s
    ELSE Guard(value.s, get(s, st.name).public => source_expr_visibility(value.s, st.e))

InferAssign(s, target, value, st) ==
    IF ~Known(s, st.name) \/ ~get(s, st.name).mutable THEN Failed(s).s
    ELSE IF get(s, st.name).public /\ ~source_expr_visibility(value.s, st.e) THEN Failed(value.s).s
    ELSE unify(value.s, value.t, target.t).s

HandlerBody(s, f, h) ==
    IF s.err \/ f.s.err \/ f.t.k # "Function" \/ f.t.tag[1].name # "Raise" \/ Len(h.pats) # Len(Params(f.t))
    THEN Failed(s).s
    ELSE pop_scope(require_type(
            infer_block(FoldLeft(LAMBDA acc, j : infer_pattern(acc, h.pats[j], Params(f.t)[j], FALSE, FALSE), f.s, [j \in DOMAIN h.pats |-> j]),
                        h.block, FALSE), Unit))
InferHandler(s, h) == HandlerBody(s, lookup_name(push_scope(s), h.path), h)

Returning(r, ret) == [unify(r.s, r.t, ret).s EXCEPT !.saw = TRUE]

infer_statement(s, st) ==
    LET target == instantiate(s, get(s, st.name))
    IN  CASE s.err -> s
          [] ~s.err /\ st.k = "Let" -> InferLet(s, infer_expr(s, st.e), st)
          [] ~s.err /\ st.k = "Assign" -> InferAssign(s, target, infer_expr(target.s, st.e), st)
          [] ~s.err /\ st.k \in {"Return", "Resume"} ->
                Returning(IF st.k = "Resume" \/ st.value = <<>> THEN R(s, Unit) ELSE infer_expr(s, st.value[1]), s.ret)
          [] ~s.err /\ st.k = "While" -> infer_block(Condition(infer_expr(s, st.e)), st.body, FALSE).s
          [] ~s.err /\ st.k = "Expr" -> infer_expr(s, st.e).s
          [] ~s.err /\ st.k = "TryWith" ->
                FoldLeft(LAMBDA acc, h : InferHandler(acc, h), require_type(infer_block(s, st.subject, FALSE), Unit), st.effects)

LeaveBlock(s, tail, returns) ==
    IF s.err \/ tail.s.err THEN Failed(s) ELSE R(pop_scope(IF returns THEN Returning(tail, s.ret) ELSE tail.s), tail.t)
InferTail(body, b) == IF b.tail = <<>> THEN R(body, Unit) ELSE infer_expr(body, b.tail[1])
infer_block(s, b, treat_tail_as_return) ==
    LeaveBlock(s, InferTail(FoldLeft(LAMBDA acc, st : infer_statement(acc, st), push_scope(s), b.stmts), b),
               treat_tail_as_return /\ b.tail # <<>>)

-----------------------------------------------------------------------------
(* Functions and definitions                                               *)

LeaveFunction(s, t, body, f) ==
    IF s.err \/ ~SignatureKnown(s, f) \/ body.s.err THEN Failed(s).s
    ELSE pop_scope(Guard(body.s, Result(t) = Unit \/ body.s.saw \/ f.body.tail # <<>>))
EnterFunction(s, t, f) ==
    [FoldLeft(LAMBDA acc, j : insert(acc, f.names[j], Mono(Params(t)[j], FALSE, f.publics[j])),
              push_scope(insert(s, f.name, Mono(t, FALSE, FALSE))), [j \in DOMAIN f.names |-> j])
     EXCEPT !.ret = Result(t), !.saw = FALSE, !.coroutine = (f.export = "main")]
InferFunction(s, t, f) == LeaveFunction(s, t, infer_block(EnterFunction(s, t, f), f.body, TRUE), f)
infer_function(s, f) == InferFunction(s, function_def_to_type(s, f), f)

\* A storage variable of a UTXO or a token: mutable and public.
infer_global(s, v) ==
    IF s.err \/ ~AllKnown(s, <<v.ty>>) THEN Failed(s).s
    ELSE insert(s, v.name, Mono(type_from_annotation(s, v.ty).t, TRUE, TRUE))

\* The functions of an impl and the methods of the ABI agree in both directions.
check_abi_impl(s, abi, fns) ==
    /\ get_abi(s, abi)
    /\ Distinct([j \in DOMAIN fns |-> fns[j].name])
    /\ {fns[j].name : j \in DOMAIN fns} = DOMAIN s.abis[abi]
    /\ \A j \in DOMAIN fns : function_def_to_type(s, fns[j]) = s.abis[abi][fns[j].name]

\* The functions of a part, with the ABI that they implement.
FnsOf(p) == IF p.k = "Function" THEN <<p.f>> ELSE p.fns
CheckPart(s, p) == IF p.k = "Impl" THEN Guard(s, check_abi_impl(s, p.abi, p.fns)) ELSE s
InferPart(s, p, constructor) ==
    CASE p.k = "Storage" -> FoldLeft(LAMBDA acc, v : infer_global(acc, v), s, p.vars)
      [] p.k = "Function" /\ p.f.export = constructor /\ p.f.declared -> Failed(s).s
      [] OTHER -> CheckPart(FoldLeft(LAMBDA acc, f : infer_function(acc, f), s, FnsOf(p)), p)
LeaveParts(s, inner) == IF inner.err THEN Failed(s).s ELSE pop_scope(inner)
InferParts(s, d, constructor) ==
    LeaveParts(s, FoldLeft(LAMBDA acc, p : InferPart(acc, p, constructor), push_scope(s), d.parts))

infer_utxo(s, d) == InferParts(s, d, "main")

\* At least one mint function and exactly one `impl Token`.
infer_token(s, d) ==
    IF Exported(d, "mint") = <<>> \/ Cardinality({j \in DOMAIN d.parts : d.parts[j].k = "Impl" /\ d.parts[j].abi = "Token"}) # 1
    THEN Failed(s).s ELSE InferParts(s, d, "mint")

\* All definitions are registered, in source order, before the first body is
\* inferred.
Register(s, d) ==
    CASE d.k = "Import" -> register_std_cardano(s)
      [] d.k = "Struct" -> register_struct(s, d)
      [] d.k = "Enum" -> register_enum(s, d)
      [] d.k = "Abi" -> register_abi(s, d)
      [] d.k = "Utxo" -> register_utxo(s, d)
      [] d.k = "Token" -> register_token(s, d)
      [] d.k = "Function" -> register_function(s, d)
InferDefinition(s, d) ==
    CASE d.k = "Utxo" -> infer_utxo(s, d)
      [] d.k = "Token" -> infer_token(s, d)
      [] d.k = "Function" -> infer_function(s, d)
      [] OTHER -> s
process_definitions(s, defs) ==
    FoldLeft(LAMBDA acc, d : IF acc.err THEN acc ELSE InferDefinition(acc, d),
             FoldLeft(LAMBDA acc, d : IF acc.err THEN acc ELSE Register(acc, d), s, defs), defs)

default_int_vars(s) ==
    LET open == {v \in s.int : IsVar(apply(s, Var(v)))}
    IN  [s EXCEPT !.subst = [v \in open |-> IntTy("i64")] @@ @, !.int = {}]

check_int_literal_ranges(s) ==
    Guard(s, \A v \in DOMAIN s.lits : LET t == apply(s, Var(v)) IN t.k = "Int" => fits(t.tag[1].name, s.lits[v]))

Inferencer ==
    [err |-> FALSE, subst |-> <<>>, next |-> 1, int |-> {}, lits |-> <<>>, scopes |-> << <<>> >>, root |-> <<>>,
     abis |-> <<>>, utxos |-> <<>>, tokens |-> <<>>, ret |-> Unit, saw |-> FALSE, coroutine |-> FALSE, track |-> <<>>]

finish(s) == IF s.err THEN s ELSE check_int_literal_ranges(default_int_vars(s))
typecheck_program(defs) == finish(process_definitions(register_prelude(Inferencer), defs))
=============================================================================
