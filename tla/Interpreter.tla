----------------------------- MODULE Interpreter -----------------------------
(***************************************************************************)
(* The tree-walking interpreter (starstream-interpreter/src/lib.rs).       *)
(* Variables are shared cells: a block works on its own copy of the map    *)
(* from names to cells.  What is carried along is                          *)
(*   flow   "go" (ControlFlow::Continue), "break" (a return), "panic" (a   *)
(*          Rust panic on a value of the wrong kind, an unknown variable   *)
(*          or an unreachable!), "trap" (overflow, division by zero),      *)
(*          "todo" (not supported) or "fuel" (the loop bound is reached)   *)
(*   v      the value of the last expression                               *)
(*   cells  the contents of all cells                                      *)
(*   log    the ABIs of the yields passed; the interpreter itself does not *)
(*          support yield, the runtime suspends there and goes on later    *)
(*   apart  a history: the run did arithmetic that compiled code does      *)
(*          differently, a quotient that div_floor corrected or a negation *)
(*          that overflows                                                 *)
(***************************************************************************)
EXTENDS TypeChecker

CONSTANT Fuel       \* Bound: iterations of one loop.

Value(k, n) == [k |-> k, n |-> n]
UnitV == Value("Unit", 0)
Number(n) == Value("Number", n)
Boolean(b) == Value("Boolean", IF b THEN 1 ELSE 0)

Start == [flow |-> "go", v |-> UnitV, cells |-> <<>>, log |-> <<>>, apart |-> FALSE]
Give(st, v) == [st EXCEPT !.v = v]
Halt(st, flow) == [st EXCEPT !.flow = flow]

\* Locals::get and Locals::set.
GetLocal(st, locals, n) == IF n \in DOMAIN locals THEN Give(st, st.cells[locals[n]]) ELSE Halt(st, "panic")
SetLocal(st, locals, n) == IF n \in DOMAIN locals THEN [st EXCEPT !.cells[locals[n]] = st.v, !.v = UnitV] ELSE Halt(st, "panic")

\* Rust's / and % truncate.
Trunc(a, b) == LET q == (IF a < 0 THEN -a ELSE a) \div (IF b < 0 THEN -b ELSE b) IN IF (a < 0) = (b < 0) THEN q ELSE -q
TruncRem(a, b) == a - Trunc(a, b) * b
Corrected(a, b) == TruncRem(a, b) # 0 /\ (a < 0) # (b < 0)
div_floor(a, b) == IF Corrected(a, b) THEN Trunc(a, b) - 1 ELSE Trunc(a, b)

Compute(op, a, b) ==
    CASE op = "+" -> a + b
      [] op = "-" -> a - b
      [] op = "*" -> a * b
      [] op = "/" -> div_floor(a, b)
      [] op = "%" -> a - div_floor(a, b) * b
\* The remainder divides first.
Overflows(op, a, b) ==
    \/ op \in {"/", "%"} /\ (b = 0 \/ ~fits("i64", div_floor(a, b)))
    \/ ~fits("i64", Compute(op, a, b))

\* Equality never panics, an ordering of different kinds is false.
BinaryOp(st, op, a, b) ==
    CASE op = "==" -> Give(st, Boolean(a = b))
      [] op = "<" -> Give(st, Boolean(a.k = b.k /\ a.k # "Unit" /\ a.n < b.n))
      [] op \in Arithmetic ->
            IF a.k # "Number" \/ b.k # "Number" THEN Halt(st, "panic")
            ELSE IF Overflows(op, a.n, b.n) THEN Halt(st, "trap")
            ELSE [Give(st, Number(Compute(op, a.n, b.n))) EXCEPT !.apart = @ \/ (op \in {"/", "%"} /\ Corrected(a.n, b.n))]

\* A scalar pattern: whether it matches, and the name it binds.
match_pattern(p, v) ==
    CASE p.k = "Name" -> TRUE
      [] p.k = "Wild" -> TRUE
      [] p.k = "Lit" -> v = (IF p.of = "Int" THEN Number(p.v) ELSE IF p.of = "Bool" THEN Boolean(p.v) ELSE UnitV)

RECURSIVE eval(_, _, _), eval_block(_, _, _), Loop(_, _, _, _)

Diverged(els, value) == IF els.flow # "go" THEN els ELSE Halt(value, "panic")
Assigned(value, locals, n) == IF value.flow = "go" THEN SetLocal(value, locals, n) ELSE value
Broken(ret) == IF ret.flow = "go" THEN Halt(ret, "break") ELSE ret

\* Statements change the locals as well; after the first that does not go on
\* nothing runs.
LetStatement(value, locals, d) ==
    CASE value.flow # "go" -> [st |-> value, locals |-> locals]
      [] value.flow = "go" /\ (d.pat.k \in {"Struct", "Tuple", "Anon"} \/ (d.pat.k = "Name" /\ Len(d.pat.path) > 1)) ->
            [st |-> Halt(value, "todo"), locals |-> locals]
      [] OTHER ->
            IF ~match_pattern(d.pat, value.v)
            THEN [st |-> IF d.els = <<>> THEN Halt(value, "panic") ELSE Diverged(eval_block(d.els[1], locals, value), value),
                  locals |-> locals]
            ELSE IF d.pat.k # "Name" THEN [st |-> value, locals |-> locals]
            ELSE [st |-> [value EXCEPT !.cells = Append(@, value.v)],
                  locals |-> (d.pat.path[1] :> Len(value.cells) + 1) @@ locals]

Statement(acc, d) ==
    LET st == acc.st
        locals == acc.locals
    IN  CASE st.flow # "go" -> acc
          [] st.flow = "go" /\ d.k = "Let" -> LetStatement(eval(d.e, locals, st), locals, d)
          [] st.flow = "go" /\ d.k = "Assign" -> [acc EXCEPT !.st = Assigned(eval(d.e, locals, st), locals, d.name)]
          [] st.flow = "go" /\ d.k = "Expr" -> [acc EXCEPT !.st = eval(d.e, locals, st)]
          [] st.flow = "go" /\ d.k = "While" -> [acc EXCEPT !.st = Loop(d, locals, st, Fuel)]
          [] st.flow = "go" /\ d.k = "Return" ->
                [acc EXCEPT !.st = Broken(IF d.value = <<>> THEN Give(st, UnitV) ELSE eval(d.value[1], locals, st))]
          [] st.flow = "go" /\ d.k = "Resume" -> [acc EXCEPT !.st = Halt(Give(st, UnitV), "break")]
          [] st.flow = "go" /\ d.k = "TryWith" -> [acc EXCEPT !.st = Halt(st, "todo")]

TailOf(done, b) ==
    IF done.st.flow # "go" THEN done.st
    ELSE IF b.tail = <<>> THEN Give(done.st, UnitV)
    ELSE eval(b.tail[1], done.locals, done.st)
eval_block(b, outer, st) == TailOf(FoldLeft(LAMBDA acc, d : Statement(acc, d), [st |-> st, locals |-> outer], b.stmts), b)

\* to_bool
Test(st) == IF st.flow = "go" /\ st.v.k # "Boolean" THEN Halt(st, "panic") ELSE st

Again(body, d, locals, fuel) == IF body.flow # "go" THEN body ELSE Loop(d, locals, body, fuel - 1)
Iteration(cond, d, locals, fuel) ==
    IF cond.flow # "go" \/ cond.v = Boolean(FALSE) THEN cond
    ELSE IF fuel = 0 THEN Halt(cond, "fuel")
    ELSE Again(eval_block(d.body, locals, cond), d, locals, fuel)
Loop(d, locals, st, fuel) == Iteration(Test(eval(d.e, locals, st)), d, locals, fuel)

\* The first branch whose condition holds; `is` is not supported.
EvalBranch(cond, b, locals) ==
    IF cond.flow = "go" /\ cond.v = Boolean(TRUE) THEN [st |-> eval_block(b.block, locals, cond), done |-> TRUE]
    ELSE [st |-> cond, done |-> FALSE]
EvalElse(branches, e, locals) ==
    IF branches.done \/ branches.st.flow # "go" THEN branches.st
    ELSE IF e.els = <<>> THEN Give(branches.st, UnitV)
    ELSE eval_block(e.els[1], locals, branches.st)
EvalIf(e, locals, st0) ==
    EvalElse(FoldLeft(LAMBDA acc, b :
                IF acc.done \/ acc.st.flow # "go" THEN acc
                ELSE IF b.cond = <<>> THEN [st |-> Halt(acc.st, "todo"), done |-> FALSE]
                ELSE EvalBranch(Test(eval(b.cond[1], locals, acc.st)), b, locals),
             [st |-> st0, done |-> FALSE], e.branches), e, locals)

eval(e, locals, st) ==
    LET inner == eval(e.e, locals, st)
        l == eval(e.l, locals, st)
        r == eval(e.r, locals, l)
    IN  CASE st.flow # "go" -> st
          [] st.flow = "go" /\ e.k = "Name" -> GetLocal(st, locals, Last(e.path))
          [] st.flow = "go" /\ e.k = "Int" -> Give(st, Number(e.v))
          [] st.flow = "go" /\ e.k = "Bool" -> Give(st, Boolean(e.v))
          [] st.flow = "go" /\ e.k = "Unit" -> Give(st, UnitV)
          [] st.flow = "go" /\ e.k = "Neg" ->
                IF inner.flow # "go" THEN inner
                ELSE IF inner.v.k # "Number" THEN Halt(inner, "panic")
                ELSE IF Overflows("-", 0, inner.v.n) THEN [Halt(inner, "trap") EXCEPT !.apart = TRUE]
                ELSE Give(inner, Number(-inner.v.n))
          [] st.flow = "go" /\ e.k = "Not" ->
                IF Test(inner).flow # "go" THEN Test(inner) ELSE Give(inner, Boolean(inner.v = Boolean(FALSE)))
          [] st.flow = "go" /\ e.k = "Binary" /\ e.op \in {"&&", "||"} ->
                IF Test(l).flow # "go" \/ l.v = Boolean(e.op = "||") THEN Test(l) ELSE r
          [] st.flow = "go" /\ e.k = "Binary" /\ e.op \notin {"&&", "||"} ->
                IF r.flow # "go" THEN r ELSE BinaryOp(r, e.op, l.v, r.v)
          [] st.flow = "go" /\ e.k \in {"Group", "Disclose"} -> inner
          [] st.flow = "go" /\ e.k = "Block" -> eval_block(e.b, locals, st)
          [] st.flow = "go" /\ e.k = "If" -> EvalIf(e, locals, st)
          [] st.flow = "go" /\ e.k = "Yield" -> [Give(st, UnitV) EXCEPT !.log = Append(@, Range(e.abis))]
          [] OTHER -> Halt(st, "todo")

\* A function is entered with empty locals: parameters are never bound.
eval_function(f) == eval_block(f.body, <<>>, Start)
=============================================================================
