------------------------------ MODULE Compiler ------------------------------
(***************************************************************************)
(* The compiler from source to execution: the body of a function is        *)
(* written statement by statement, checked (TypeChecker), compiled         *)
(* (CodeGen, Stackifier), validated and run (Wasm), with a suspension at   *)
(* every yield; the interpreter (Interpreter) is the reference for what it *)
(* must do.  A question about one algorithm of the compiler (the arms of a *)
(* match, a system of type equations, a layout, an arithmetic operation)   *)
(* is an initial state of its own.                                         *)
(***************************************************************************)
EXTENDS AbiLayout, PatternMatching

CONSTANTS
    Statements,         \* what a body is made of
    Methods,            \* the methods a caller calls on the UTXO, "" for none
    MaxStatements,      \* bound: statements of a body
    MaxCalled,          \* bound: the same, if a script calls a method
    TestedPrograms,     \* programs with the verdict that a test records
    EquationTypes,      \* types that are unified
    LayoutTypes,        \* types that are laid out
    Numbers             \* operands of arithmetic

VARIABLES
    unit,               \* what is compiled or asked
    body,               \* the statements written so far
    stage,              \* how far the compilation has come
    code,               \* the compiled functions
    m                   \* the machine that runs them

program == <<unit, body, stage, code, m>>
compilerVars == <<ty, arms, unit, body, stage, code, m>>

-----------------------------------------------------------------------------
(* Programs                                                                *)

UnitAnn == [k |-> "Named", name |-> "()", generics |-> <<>>]
Ann(n) == [k |-> "Named", name |-> n, generics |-> <<>>]
Fn(n, params, names, result, export, block) ==
    [k |-> "Function", name |-> n, params |-> params, names |-> names, publics |-> [j \in DOMAIN names |-> FALSE],
     result |-> result, declared |-> FALSE, export |-> export, body |-> block]
Let(n, e, public) ==
    [k |-> "Let", public |-> public, mutable |-> TRUE, pat |-> Name(<<n>>), ann |-> <<>>, e |-> e, els |-> <<>>]

\* Two variables to work with; a function returns the first, or its author
\* wrote no tail.
Prelude(secret) == <<Let("x", [k |-> "Int", v |-> secret], FALSE), Let("b", [k |-> "Bool", v |-> TRUE], FALSE)>>
BodyBlock(secret) ==
    LET last == IF body = <<>> THEN FALSE ELSE statement_diverges(Last(body))
    IN  Block(Prelude(secret) \o body, IF unit.tail /\ ~last THEN <<Name(<<"x">>)>> ELSE <<>>)

Signatures(m1) == [name |-> m1, params |-> <<>>, result |-> UnitAnn]
AbiDef(n, m1) == [k |-> "Abi", name |-> n, events |-> <<>>, effects |-> <<>>, methods |-> <<Signatures(m1)>>]
Impl(n, m1) == [k |-> "Impl", abi |-> n, fns |-> <<Fn(m1, <<>>, <<>>, UnitAnn, "", Block(<<>>, <<>>))>>]
MethodCall(m1) == [k |-> "Call", kind |-> "Normal", callee |-> [k |-> "Field", e |-> Name(<<"u">>), field |-> m1], args |-> <<>>]

\* A UTXO with two ABIs whose main function is the body, and a script that
\* calls a method on it; or the body as a function.
Program ==
    IF ~unit.main THEN <<Fn("f0", <<>>, <<>>, Ann("i64"), "", BodyBlock(0))>>
    ELSE <<AbiDef("A", "f"), AbiDef("B", "g"),
           [k |-> "Utxo", name |-> "U",
            parts |-> <<[k |-> "Function", f |-> Fn("new", <<>>, <<>>, UnitAnn, "main", BodyBlock(0))],
                        Impl("A", "f"), Impl("B", "g")>>]>>
         \o IF unit.method = "" THEN <<>>
            ELSE <<Fn("script", <<Ann("U")>>, <<"u">>, UnitAnn, "", Block(<<[k |-> "Expr", e |-> MethodCall(unit.method)]>>, <<>>))>>

\* The source of a match: definitions of the named types in t, inner ones
\* first, and a function with the arms.
RECURSIVE Declares(_), Annotation(_), SourcePattern(_, _, _)
Annotation(t) ==
    CASE t.k \in {"Enum", "Record"} -> Ann(t.name)
      [] t.k = "Tuple" -> [k |-> "Tuple", items |-> [j \in DOMAIN t.fields |-> Annotation(t.fields[j].ty)]]
      [] OTHER -> Ann(CASE t.k = "Bool" -> "bool" [] t.k = "Int" -> "i64" [] t.k = "Unit" -> "()")
Declares(t) ==
    LET fields == CASE t.k = "Enum" -> FlattenSeq(t.variants) [] t.k \in {"Record", "Tuple"} -> t.fields [] OTHER -> <<>>
        types == [j \in DOMAIN fields |-> Annotation(fields[j].ty)]
        names(row) == [j \in DOMAIN row |-> row[j].name]
        variant(i) == Variant(<<"A", "B">>[i], IF t.variants[i] = <<>> THEN "unit" ELSE "tuple", names(t.variants[i]))
    IN  FlattenSeq([j \in DOMAIN fields |-> Declares(fields[j].ty)])
        \o CASE t.k = "Enum" -> <<[k |-> "Enum", name |-> t.name, variants |-> [i \in DOMAIN t.variants |-> variant(i)], types |-> types]>>
             [] t.k = "Record" -> <<[k |-> "Struct", name |-> t.name, fields |-> names(fields), types |-> types]>>
             [] OTHER -> <<>>
\* A binding is named for its place, at most two levels down.
SourcePattern(p, t, place) ==
    LET args(pats) == [j \in DOMAIN pats |-> SourcePattern(pats[j], field_types(get_info(t, p.ctor))[j], 3 * place + j)]
        path == <<t.name, <<"A", "B">>[p.ctor]>>
        names == [j \in DOMAIN t.fields |-> t.fields[j].name]
    IN  CASE p.k = "Wildcard" -> [k |-> "Wild"]
          [] p.k = "Binding" -> Name(<< <<"p", "p1", "p2", "p3", "p11", "p12", "p13", "p21", "p22", "p23">>[place + 1] >>)
          [] p.k = "Literal" -> [k |-> "Lit", of |-> t.k, v |-> p.lit]
          [] p.k = "Ctor" /\ t.k = "Tuple" -> [k |-> "Anon", pats |-> args(p.args)]
          [] p.k = "Ctor" /\ t.k = "Enum" -> IF p.args = <<>> THEN Name(path) ELSE [k |-> "Tuple", path |-> path, pats |-> args(p.args)]
          [] p.k = "Struct" -> [k |-> "Struct", path |-> <<t.name>>, names |-> names, pats |-> args([j \in DOMAIN names |-> p.fields[names[j]]])]
MatchProgram ==
    LET arm(j) == [pat |-> SourcePattern(arms[j], ty, 0), block |-> Block(<<>>, <<[k |-> "Int", v |-> j]>>)]
        match == [k |-> "Match", e |-> Name(<<"o">>), arms |-> [j \in DOMAIN arms |-> arm(j)]]
    IN  Append(Declares(ty), Fn("choose", <<Annotation(ty)>>, <<"o">>, Ann("i64"), "", Block(<<>>, <<match>>)))

-----------------------------------------------------------------------------
(* The stages                                                              *)

Nothing == [start |-> [code |-> <<>>]]
Question(k) == [k |-> k]
Idle == body = <<>> /\ stage = "source" /\ code = Nothing /\ m = Machine(<<>>, <<>>, <<>>)

WordsOf(w) == {n \in Numbers : is_64bit(w) \/ fits(w, n)}
Equations == {<<l, r>> : l \in EquationTypes, r \in EquationTypes}

Init ==
    /\ Idle
    /\ \/ MatchInit /\ unit = Question("Match")
       \/ /\ ty = [k |-> "Unit"] /\ arms = <<>>
          /\ \/ \E main, tail \in BOOLEAN, method \in Methods :
                    /\ IF main THEN ~tail ELSE method = ""
                    /\ unit = [k |-> "Body", main |-> main, tail |-> tail, method |-> method]
             \/ \E d \in TestedPrograms : unit = [k |-> "Module", defs |-> d.defs, refused |-> d.refused]
             \/ \E e1, e2 \in Equations : unit = [k |-> "Unify", first |-> e1, second |-> e2]
             \/ \E t \in LayoutTypes : unit = [k |-> "Layout", of |-> t]
             \/ \E w \in {"i8", "u8", "i64", "u64"}, op \in Arithmetic : \E x, y \in WordsOf(w) :
                    unit = [k |-> "Number", w |-> w, op |-> op, x |-> x, y |-> y]

Match ==
    /\ unit.k = "Match"
    /\ MatchNext
    /\ UNCHANGED program

IsBody(at) == unit.k = "Body" /\ stage = at

\* The author writes one more statement.
Write(d) ==
    /\ IsBody("source") /\ Len(body) < (IF unit.method = "" THEN MaxStatements ELSE MaxCalled)
    /\ body' = Append(body, d)
    /\ UNCHANGED <<ty, arms, unit, stage, code, m>>

TypeCheck ==
    /\ IsBody("source")
    /\ stage' = IF typecheck_program(Program).err THEN "refused" ELSE "checked"
    /\ UNCHANGED <<ty, arms, unit, body, code, m>>

Emit(g) ==
    IF g.fail # "" THEN stage' = g.fail /\ code' = code
    ELSE IF ~assert_complete(g) THEN stage' = "panic" /\ code' = code
    ELSE stage' = "compiled" /\ code' = Stackified(g, IF unit.main THEN 0 ELSE 1)
Compile ==
    /\ IsBody("checked")
    /\ Emit(visit_function(BodyBlock(0), unit.main))
    /\ UNCHANGED <<ty, arms, unit, body, m>>

Ran(next) ==
    /\ m' = next
    /\ stage' = IF next.flow = "return" /\ next.id # 0 THEN "suspended" ELSE "done"
    /\ UNCHANGED <<ty, arms, unit, body, code>>

\* The module is instantiated only if it is valid.
AllValid == Valid(code.start) /\ \A j \in DOMAIN code.resumes : Valid(code.resumes[j])

Call == IsBody("compiled") /\ AllValid /\ Ran(Run(code.start, code.locals, <<>>, <<>>))

\* generate_resume_fn: the continuation of the yield whose number was stored.
Resume == IsBody("suspended") /\ Len(m.log) < Fuel /\ Ran(Run(code.resumes[m.id], code.locals, m.saved, m.log))

Next ==
    \/ Match
    \/ \E d \in Statements : Write(d)
    \/ TypeCheck
    \/ Compile
    \/ Call
    \/ Resume

Spec == Init /\ [][Next]_compilerVars

-----------------------------------------------------------------------------
(* Properties of programs                                                  *)

Reference(secret) == eval_function([body |-> BodyBlock(secret)])
Accepted == unit.k = "Body" /\ stage \notin {"source", "refused"}

\* A function with a result, without a tail, whose last statement may go on.
\* The checker asks for a tail or for some `return`, also one that only some
\* runs reach (saw_return, infer.rs:1972): such a function may end without a
\* value, and no valid code is generated for it.
EndsWithoutValue == unit.k = "Body" /\ ~unit.main /\ BodyBlock(0).tail = <<>> /\ ~block_diverges(BodyBlock(0))

\* What the type checker accepts never makes the interpreter panic on a value
\* of the wrong kind or an unknown variable, and a function that returns or
\* comes to its end gives back a number, except at the end of a body that
\* EndsWithoutValue.
AcceptedNeverPanics ==
    unit.k = "Body" /\ stage = "checked" =>
        LET r == Reference(0)
        IN  /\ r.flow # "panic"
            /\ r.flow = "break" \/ (r.flow = "go" /\ ~EndsWithoutValue) => r.v.k = (IF unit.main THEN "Unit" ELSE "Number")

\* A method call on a UTXO that the type checker accepts finds the UTXO at a
\* yield that announced an ABI with this method, whichever yield it stopped at.
CallsAreAnswerable ==
    unit.k = "Body" /\ stage = "suspended" /\ unit.method # "" => (IF unit.method = "f" THEN "A" ELSE "B") \in Last(m.log)

\* What the code generator supports: a loop that branches comes before every
\* other statement that does (BlocksAreNested), nothing follows a statement that never
\* ends normally, and an operand that is visited while another one waits on
\* the stack has no control flow.
RECURSIVE ControlFree(_), PlainExpr(_), PlainBlock(_)
ControlFree(e) ==
    /\ e.k \notin {"If", "Match", "Block", "Yield"} /\ (e.k = "Binary" => e.op \notin {"&&", "||"})
    /\ \A x \in Range(Operands(e)) : ControlFree(x)
Branches(d) == Bodies(d) # <<>> \/ \E e \in Range(Values(d)) : ~ControlFree(e)
PlainExpr(e) ==
    /\ e.k = "Binary" /\ e.op \notin {"&&", "||"} => ControlFree(e.r)
    /\ e.k = "Neg" => ControlFree(e.e)
    /\ \A x \in Range(Operands(e)) : PlainExpr(x)
    /\ \A b \in Range(Blocks(e)) : PlainBlock(b)
PlainBlock(b) ==
    /\ \A j \in DOMAIN b.stmts : b.stmts[j].k = "While" /\ (\E i \in DOMAIN b.stmts[j].body.stmts : Branches(b.stmts[j].body.stmts[i]))
            => \A i \in 1 .. j - 1 : ~Branches(b.stmts[i])
    /\ \A j \in DOMAIN b.stmts : statement_diverges(b.stmts[j]) => j = Len(b.stmts) /\ b.tail = <<>>
    /\ \A j \in DOMAIN b.stmts : \A e \in Range(Values(b.stmts[j])) : PlainExpr(e)
    /\ \A j \in DOMAIN b.stmts : \A i \in Range(Bodies(b.stmts[j])) : PlainBlock(i)
    /\ \A e \in Range(b.tail) : PlainExpr(e)

\* Compiled code is valid, and ends with the value that the interpreter
\* computes or with its trap.  Left out are the programs that the generator
\* does not handle (PlainBlock), bodies that end without a value, and runs
\* that divide numbers of different sign with a remainder: compiled code
\* truncates (lib.rs:2556, :2585), the interpreter and the specification
\* (language-spec.md:689, :738-747) round down.  So are runs that negate the
\* smallest number, which compiled code does not check (lib.rs:2610).
CompiledAgrees ==
    Accepted /\ PlainBlock(BodyBlock(0)) /\ ~EndsWithoutValue =>
        /\ stage # "panic"
        /\ stage = "compiled" => AllValid
        /\ stage = "done" =>
            LET r == Reference(0)
            IN  CASE r.apart -> TRUE
                  [] ~r.apart /\ r.flow \in {"go", "break"} -> m.flow = "return" /\ (~unit.main => Last(m.stack) = r.v.n)
                  [] ~r.apart /\ r.flow = "trap" -> m.flow = "trap"
                  [] OTHER -> TRUE

\* Suspending at a yield and going on in the continuation loses nothing: the
\* yields come as in an uninterrupted run, if that does its arithmetic as
\* compiled code does.
ResumeIsTransparent ==
    unit.k = "Body" /\ stage \in {"suspended", "done"} =>
        LET r == Reference(0)
        IN  ~r.apart => /\ m.log = SubSeq(r.log, 1, Len(m.log))
                        /\ stage = "done" /\ r.flow # "fuel" => m.log = r.log

\* Without disclose, what a straight-line body binds to a public variable does
\* not depend on the private one it starts with.  Whether the binding is
\* reached may: a division by the private variable traps or not.
PrivateStaysPrivate ==
    LET stmts == BodyBlock(0).stmts
        lets == SelectSeq(stmts, LAMBDA d : d.k = "Let")
        simple(d) == d.k \in {"Let", "Assign"} /\ ~Branches(d) /\ d.e.k # "Disclose"
    IN  unit.k = "Body" /\ stage = "checked" /\ (\A j \in DOMAIN stmts : simple(stmts[j])) =>
            LET first == Reference(0).cells
                second == Reference(1).cells
            IN  \A j \in DOMAIN first \cap DOMAIN second : lets[j].public => first[j] = second[j]

\* Every block and every loop of the structured code ends before the one
\* around it does.
BlocksAreNested ==
    unit.k = "Body" /\ stage = "compiled" =>
        LET seq == code.start.seq
            opened == FoldLeft(LAMBDA open, item :
                        CASE item.k = "Basic" -> open
                          [] Starts(item) -> Append(open, item)
                          [] Ends(item) -> IF open # <<>> /\ Last(open).bb = item.bb THEN Front(open) ELSE Append(open, item),
                      <<>>, seq)
        IN  opened = <<>>

-----------------------------------------------------------------------------
(* Properties of the algorithms                                            *)

\* What a program in question must be refused for: what its test records, or
\* an arm that can never run or a value without an arm.
Unreachable(j) == \A v \in ValuesOf(ty) : FirstMatch(v) # j
ShouldBeRefused ==
    IF unit.k = "Module" THEN unit.refused
    ELSE (\E j \in DOMAIN arms : Unreachable(j)) \/ \E v \in ValuesOf(ty) : FirstMatch(v) = 0
Source == IF unit.k = "Module" THEN unit.defs ELSE MatchProgram

\* The type checker refuses a program exactly if it should: structs, enums and
\* tuples are compared by shape, in declaration order; a call uses the
\* keyword its target needs; a narrowed UTXO is called once; tokens have what
\* they need; storage takes only what is public or disclosed; a match has an
\* arm for every value and a value for every arm, and the patterns reported as
\* missing are.  A match on unit is left out: its literal does not count as
\* covering it, and an arm behind it is not reported.
VerdictIsRight ==
    /\ unit.k = "Module" \/ (unit.k = "Match" /\ arms # <<>> /\ ty.k # "Unit") =>
            (typecheck_program(Source).err <=> ShouldBeRefused)
    /\ unit.k = "Match" => WitnessesAreMissing

\* Variable 1 stands for an integer literal.
Unified ==
    LET s0 == [Inferencer EXCEPT !.next = 4, !.int = {1}]
    IN  unify(unify(s0, unit.first[1], unit.first[2]).s, unit.second[1], unit.second[2]).s
Ground == {IntTy("i8"), IntTy("i64"), Bool} \cup {Tuple(<<IntTy("i8"), t>>) : t \in {IntTy("i8"), Bool}}
Solves(subst, e) == substitute_type(e[1], subst, {}) = substitute_type(e[2], subst, {})

\* If unify succeeds its substitution solves both equations and the literal
\* keeps an integer type; if it fails there is no solution.
UnifyIsExact ==
    unit.k = "Unify" =>
        IF Unified.err
        THEN \A subst \in [1 .. 3 -> Ground] : subst[1].k = "Int" => ~(Solves(subst, unit.first) /\ Solves(subst, unit.second))
        ELSE /\ Solves(Unified.subst, unit.first) /\ Solves(Unified.subst, unit.second)
             /\ is_int_like(Unified, apply(Unified, Var(1)))

\* Some values of a type.
RECURSIVE DataOf(_), Rows(_)
Rows(types) == IF types = <<>> THEN {<<>>} ELSE {<<v>> \o rest : v \in DataOf(Head(types)), rest \in Rows(Tail(types))}
DataOf(t) ==
    CASE t.k = "Int" -> {Datum(n, <<>>) : n \in IF is_64bit(t.tag[1].name) THEN {-1, 40000} ELSE {-1, 5}}
      [] t.k \in {"Tuple", "Record"} -> {Datum(0, row) : row \in Rows(t.args)}
      [] t.k = "Enum" -> UNION {{Datum(i - 1, row) : row \in Rows(FieldTypes(t, i))} : i \in DOMAIN t.tag}
      [] OTHER -> {Datum(1, <<>>)}

\* A value takes as many slots as its type counts, matching a variant gives
\* its fields back whatever shares their slots, and a field of a struct is
\* found among the slots of the struct.  A field without slots is left out.
FlattenRoundTrips ==
    unit.k = "Layout" =>
        \A v \in DataOf(unit.of) :
            LET t == unit.of
                words == Words(t, v)
                parts(types) == [j \in DOMAIN types |-> Words(types[j], v.items[j])]
            IN  /\ Len(words) = star_count_core_types(t) /\ Len(words) = Len(star_to_core_types(t))
                /\ t.k = "Enum" => demote_enum_fields(t, v.n + 1, words) = parts(FieldTypes(t, v.n + 1))
                /\ t.k = "Record" => \A i \in DOMAIN t.args :
                        star_count_core_types(t.args[i]) > 0 => VisitField(t, i, words) = Words(t.args[i], v.items[i])

\* A result in memory: one store for every core value, aligned, inside the
\* space reserved for the type and apart from the others.  It writes the whole
\* value, except for a handle: its size is 4 (component_abi.rs:133, :206) and
\* only 2 bytes of it are stored (:252-258).
StoresFit ==
    unit.k = "Layout" /\ star_to_component_type(unit.of) # <<>> =>
        LET c == star_to_component_type(unit.of)[1]
            stores == get_store_fns(c, 0)
        IN  /\ component_to_core_types(c) = star_to_core_types(unit.of)
            /\ elem_size(c) % alignment(c) = 0
            /\ Storable(c) =>
                /\ Len(stores) = Len(component_to_core_types(c))
                /\ \A j \in DOMAIN stores :
                        /\ stores[j].offset % alignment(stores[j].of) = 0
                        /\ stores[j].offset + elem_size(stores[j].of) <= elem_size(c)
                        /\ stores[j].of.k # "own" => stores[j].width = elem_size(stores[j].of)
                        /\ \A i \in 1 .. j - 1 : stores[i].offset + elem_size(stores[i].of) <= stores[j].offset

\* Every layout of a type, in slots and in memory, keeps its parts apart, and
\* slots give them back.
LayoutIsSound == FlattenRoundTrips /\ StoresFit

\* The specification of arithmetic (language-spec.md:688-690, :736-747): the
\* exact result, rounded down if the type is signed, or a trap if it does not
\* fit.  An unsigned word stands for a number that is not negative.
Signed(w) == w \in {"i8", "i64"}
Meaning(w, x) == IF w = "u64" THEN Unsigned(x) ELSE x
InType(w, n) == IF w = "u64" THEN n \in 0 .. Word - 1 ELSE fits(w, n)
Specified(w, op, a, b) ==
    IF (op \in {"/", "%"} /\ b = 0) \/ ~InType(w, Compute(op, a, b)) THEN Trap ELSE Done(Compute(op, a, b))

\* Where the code is known to do something else: a result that does not fit a
\* narrow type wraps around, or is kept as it is by a division; u64 uses the
\* signed checks, which are right only up to the largest i64; and a signed
\* division with a remainder truncates if the signs differ.
Unspecified(w, op, a, b) ==
    \/ w \in {"i8", "u8"} /\ ~(op \in {"/", "%"} /\ b = 0) /\ ~fits(w, Compute(op, a, b))
    \/ /\ w = "u64" /\ op \in {"+", "-", "*"}
       /\ a > max_value("i64") \/ b > max_value("i64") \/ Compute(op, a, b) \notin 0 .. max_value("i64")
    \/ Signed(w) /\ op \in {"/", "%"} /\ b # 0 /\ Corrected(a, b)

\* Apart from these cases generated arithmetic gives the specified number, and
\* traps when the specification traps.
ArithmeticIsExact ==
    unit.k = "Number" =>
        LET w == unit.w
            r == CoreBinary(w, unit.op, unit.x, unit.y)
            a == Meaning(w, unit.x)
            b == Meaning(w, unit.y)
        IN  ~Unspecified(w, unit.op, a, b) => [r EXCEPT !.v = Meaning(w, @)] = Specified(w, unit.op, a, b)
=============================================================================
