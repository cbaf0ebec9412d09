------------------------------- MODULE CodeGen -------------------------------
(***************************************************************************)
(* The code generator (starstream-to-wasm): statements and expressions     *)
(* become basic blocks (ir.rs, the visit functions of lib.rs), the         *)
(* stackifier turns the graph of blocks into structured WebAssembly, and a *)
(* `yield` splits a function into the part before it and a continuation    *)
(* that the resume function calls.                                         *)
(*                                                                         *)
(* Bodies are scalar: every variable and every intermediate value is an    *)
(* i64 or a bool, so it takes one slot, and a unit takes none.  Compound   *)
(* types are flattened to slots by star_to_core_types.                     *)
(***************************************************************************)
EXTENDS Interpreter

-----------------------------------------------------------------------------
(* The control flow graph (ir.rs)                                          *)

Ins(op, x) == [op |-> op, x |-> x]
Out(k, f, t) == [k |-> k, f |-> f, t |-> t]
Unfilled == Out("None", 0, 0)
Unsealed == -1

\* for_each_successor: the true branch first.
Successors(o) == CASE o.k = "Next" -> <<o.t>> [] o.k = "If" -> <<o.t, o.f>> [] OTHER -> <<>>

\* g is the function under construction: its blocks, the current one (0 after
\* a return), the number of its locals, the blocks to resume at, and how the
\* compiler failed ("error" is reported, "panic" is an assertion).
BasicBlock == [code |-> <<>>, out |-> Unfilled, ty |-> Unsealed]
Failure(g, how) == [g EXCEPT !.fail = IF @ = "" THEN how ELSE @]

add_block(g) == [g EXCEPT !.blocks = Append(@, BasicBlock)]
NewBlock(g) == Len(g.blocks) + 1
instructions(g, code) ==
    IF g.cur = 0 \/ g.blocks[g.cur].out # Unfilled THEN Failure(g, "panic")
    ELSE [g EXCEPT !.blocks[g.cur].code = @ \o code]
seal(g, bb, ty) == IF g.blocks[bb].ty # Unsealed THEN Failure(g, "panic") ELSE [g EXCEPT !.blocks[bb].ty = ty]
fill(g, bb, o) ==
    IF bb = 0 THEN g
    ELSE IF g.blocks[bb].out # Unfilled \/ \E next \in Range(Successors(o)) : g.blocks[next].ty # Unsealed THEN Failure(g, "panic")
    ELSE [g EXCEPT !.blocks[bb].out = o]
assert_complete(g) == \A j \in DOMAIN g.blocks : g.blocks[j].ty # Unsealed /\ g.blocks[j].out # Unfilled

Enter(g, bb) == [g EXCEPT !.cur = bb]
\* A branch on the value on the stack to two blocks without parameters.
Branch(g, f, t) == fill(g, g.cur, Out("If", f, t))

-----------------------------------------------------------------------------
(* Expressions                                                             *)

\* Slots of the value of an accepted scalar expression.
RECURSIVE Slots(_)
BlockSlots(b) == IF b.tail = <<>> THEN 0 ELSE Slots(b.tail[1])
Slots(e) ==
    CASE e.k \in {"Unit", "Yield"} -> 0
      [] e.k = "Block" -> BlockSlots(e.b)
      [] e.k = "If" -> IF e.els = <<>> THEN 0 ELSE BlockSlots(e.els[1])
      [] e.k \in {"Group", "Disclose"} -> Slots(e.e)
      [] OTHER -> 1

add_locals(g, n) == [g EXCEPT !.locals = @ + n]

\* The i-th yield: its number and all locals known so far go to globals, the
\* ABIs are announced, and the function returns; the block to resume at
\* reloads the locals.
YieldCode(id, n, abis) == <<Ins("yield_id", id), Ins("save", [id |-> id, n |-> n]), Ins("implements", abis)>>

\* Mutant: only the parameters and the handle come back.
RestoreCode_Params(id, n) == <<Ins("restore", [id |-> id, n |-> 2])>>

RestoreCode(id, n) == <<Ins("restore", [id |-> id, n |-> n])>>

Goto(g, bb) == fill(g, g.cur, Out("Next", 0, bb))
\* A branch to two new blocks, f and t.
Fork(g, f, t) == seal(seal(Branch(add_block(add_block(g)), f, t), f, 0), t, 0)

visit_yield(g, abis) ==
    LET id == g.yields + 1
        resume == NewBlock(g)
        Suspend(split) == fill(seal(split, resume, 0), g.cur, Out("Yield", 0, resume))
    IN  instructions(
            Enter([Suspend(add_block(instructions([g EXCEPT !.yields = id], YieldCode(id, g.locals, abis)))) EXCEPT
                        !.resumes = Append(@, resume)], resume),
            RestoreCode(id, g.locals))

RECURSIVE visit_expr_stack(_, _, _), visit_expr_drop(_, _, _), visit_block_stack(_, _, _), visit_block_drop(_, _, _)

\* && and ||: the right operand runs only if the left one does not decide.
ShortEnd(right, short, decided) ==
    Enter(seal(Goto(instructions(Enter(Goto(right, short + 2), short), <<Ins("const", IF decided THEN 1 ELSE 0)>>), short + 2),
               short + 2, 1), short + 2)
ShortRight(left, env, e) ==
    LET short == NewBlock(left)
        rhs == short + 1
        decided == e.op = "||"
    IN  ShortEnd(visit_expr_stack(Enter(add_block(Fork(left, IF decided THEN rhs ELSE short, IF decided THEN short ELSE rhs)), rhs),
                                  env, e.r), short, decided)
ShortCircuit(g, env, e) == ShortRight(visit_expr_stack(g, env, e.l), env, e)

\* As a statement: no value, so no block for the short circuit.
ShortRightDrop(left, env, e) ==
    LET end == NewBlock(left)
        rhs == end + 1
        f == IF e.op = "||" THEN rhs ELSE end
        t == IF e.op = "||" THEN end ELSE rhs
    IN  Enter(seal(Goto(visit_expr_drop(Enter(seal(Branch(add_block(add_block(left)), f, t), rhs, 0), rhs), env, e.r), end), end, 0), end)
ShortCircuitDrop(g, env, e) == ShortRightDrop(visit_expr_stack(g, env, e.l), env, e)

\* Every branch goes to the end block, with its value on the stack.
VisitArm(g, env, b, drop) == IF drop THEN visit_block_drop(g, env, b) ELSE visit_block_stack(g, env, b)
VisitBranch(cond, env, b, drop, end) ==
    LET t == NewBlock(cond)
    IN  Enter(Goto(VisitArm(Enter(Fork(cond, t + 1, t), t), env, b, drop), end), t + 1)
VisitElse(branches, env, e, drop) == IF e.els = <<>> THEN branches ELSE VisitArm(branches, env, e.els[1], drop)
VisitIf(g, env, e, drop) ==
    LET end == NewBlock(g)
    IN  Enter(seal(Goto(VisitElse(
            FoldLeft(LAMBDA acc, b : VisitBranch(visit_expr_stack(acc, env, b.cond[1]), env, b.block, drop, end), add_block(g), e.branches),
            env, e, drop), end), end, IF drop THEN 0 ELSE Slots(e)), end)

visit_expr_stack(g, env, e) ==
    CASE g.fail # "" -> g
      [] g.fail = "" /\ e.k = "Name" ->
            IF Last(e.path) \in DOMAIN env THEN instructions(g, <<Ins("get", env[Last(e.path)])>>) ELSE Failure(g, "error")
      [] g.fail = "" /\ e.k = "Int" -> instructions(g, <<Ins("const", e.v)>>)
      [] g.fail = "" /\ e.k = "Bool" -> instructions(g, <<Ins("const", IF e.v THEN 1 ELSE 0)>>)
      [] g.fail = "" /\ e.k = "Unit" -> g
      [] g.fail = "" /\ e.k = "Binary" /\ e.op \in {"&&", "||"} -> ShortCircuit(g, env, e)
      [] g.fail = "" /\ e.k = "Binary" /\ e.op \notin {"&&", "||"} ->
            instructions(visit_expr_stack(visit_expr_stack(g, env, e.l), env, e.r), <<Ins("binary", e.op)>>)
      [] g.fail = "" /\ e.k = "Neg" ->
            instructions(visit_expr_stack(instructions(g, <<Ins("const", 0)>>), env, e.e), <<Ins("sub", 0)>>)
      [] g.fail = "" /\ e.k = "Not" -> instructions(visit_expr_stack(g, env, e.e), <<Ins("eqz", 0)>>)
      [] g.fail = "" /\ e.k \in {"Group", "Disclose"} -> visit_expr_stack(g, env, e.e)
      [] g.fail = "" /\ e.k = "Block" -> visit_block_stack(g, env, e.b)
      [] g.fail = "" /\ e.k = "If" -> VisitIf(g, env, e, FALSE)
      [] g.fail = "" /\ e.k = "Yield" -> visit_yield(g, Range(e.abis))

\* An expression whose value is dropped: only its control flow is kept.
visit_expr_drop(g, env, e) ==
    CASE g.fail # "" -> g
      [] g.fail = "" /\ e.k \in {"Int", "Bool", "Unit", "Name"} -> g
      [] g.fail = "" /\ e.k = "Binary" /\ e.op \in {"&&", "||"} -> ShortCircuitDrop(g, env, e)
      [] g.fail = "" /\ e.k = "Binary" /\ e.op \notin {"&&", "||"} -> visit_expr_drop(visit_expr_drop(g, env, e.l), env, e.r)
      [] g.fail = "" /\ e.k \in {"Neg", "Not", "Group", "Disclose"} -> visit_expr_drop(g, env, e.e)
      [] g.fail = "" /\ e.k = "Block" -> visit_block_drop(g, env, e.b)
      [] g.fail = "" /\ e.k = "If" -> VisitIf(g, env, e, TRUE)
      [] g.fail = "" /\ e.k = "Yield" -> visit_yield(g, Range(e.abis))

-----------------------------------------------------------------------------
(* Statements and blocks                                                   *)

\* The value goes to a local of its own and, once the pattern is decided, to
\* the local of the name.  A literal is tested; if it does not match, the
\* else block runs.
Bind(g, scrut, end) == Goto(instructions(g, <<Ins("get", scrut), Ins("set", scrut + 1)>>), end)
Unreached(g) == fill(g, g.cur, Out("Unreachable", 0, 0))
Missed(g, env, d) == Unreached(IF d.els = <<>> THEN g ELSE visit_block_drop(g, env, d.els[1]))
Decide(tested, env, d, end) ==
    LET t == NewBlock(tested)
    IN  Missed(Enter(fill(Fork(tested, t + 1, t), t, Out("Next", 0, end)), t + 1), env, d)
Decision(g, env, d, scrut, end) ==
    CASE d.pat.k = "Name" -> Bind(g, scrut, end)
      [] d.pat.k = "Lit" ->
            Decide(instructions(g, <<Ins("get", scrut), Ins("const", IF d.pat.of = "Int" THEN d.pat.v ELSE IF d.pat.v THEN 1 ELSE 0),
                                     Ins("binary", "==")>>), env, d, end)
      [] OTHER -> Goto(g, end)
VisitLet(acc, value, d) ==
    LET scrut == value.locals + 1
        binds == d.pat.k = "Name"
        env == IF binds THEN (d.pat.path[1] :> scrut + 1) @@ acc.env ELSE acc.env
        end == NewBlock(value)
        stored == add_locals(instructions(value, <<Ins("set", scrut)>>), IF binds THEN 2 ELSE 1)
    IN  IF value.fail # "" THEN [acc EXCEPT !.g = value]
        ELSE [g |-> Enter(seal(Decision(add_block(stored), env, d, scrut, end), end, 0), end), env |-> env, done |-> FALSE]

WhileBody(test, env, d, cond) ==
    LET exit == NewBlock(test)
    IN  Enter(seal(Goto(visit_block_drop(Enter(Fork(test, exit, exit + 1), exit + 1), env, d.body), cond), cond, 0), exit)
VisitWhile(g, env, d) == WhileBody(visit_expr_stack(Enter(Goto(add_block(g), NewBlock(g)), NewBlock(g)), env, d.e), env, d, NewBlock(g))

\* A return or the end of a main function gives the context back.
visit_return(g) == IF g.main THEN instructions(g, <<Ins("get", 1), Ins("drop", 0)>>) ELSE g
Returned(g) == Enter(fill(g, g.cur, Out("Return", 0, 0)), 0)

\* Handlers of effects are not supported.
Unhandled(subject, d) == IF d.effects # <<>> THEN Failure(subject, "error") ELSE subject

\* After a return the rest of the block is not visited.
VisitStatement(acc, d) ==
    LET g == acc.g
    IN  CASE acc.done \/ g.fail # "" -> acc
          [] ~acc.done /\ g.fail = "" /\ d.k = "Expr" -> [acc EXCEPT !.g = visit_expr_drop(g, acc.env, d.e)]
          [] ~acc.done /\ g.fail = "" /\ d.k = "Let" -> VisitLet(acc, visit_expr_stack(g, acc.env, d.e), d)
          [] ~acc.done /\ g.fail = "" /\ d.k = "Assign" ->
                [acc EXCEPT !.g = IF d.name \notin DOMAIN acc.env THEN Failure(g, "error")
                                  ELSE instructions(visit_expr_stack(g, acc.env, d.e), <<Ins("set", acc.env[d.name])>>)]
          [] ~acc.done /\ g.fail = "" /\ d.k = "While" -> [acc EXCEPT !.g = VisitWhile(g, acc.env, d)]
          [] ~acc.done /\ g.fail = "" /\ d.k = "Return" ->
                [acc EXCEPT !.g = Returned(visit_return(IF d.value = <<>> THEN g ELSE visit_expr_stack(g, acc.env, d.value[1]))),
                            !.done = TRUE]
          [] ~acc.done /\ g.fail = "" /\ d.k = "Resume" ->
                [acc EXCEPT !.g = Enter(fill(g, g.cur, Out("ReturnCall", 0, 0)), 0), !.done = TRUE]
          [] ~acc.done /\ g.fail = "" /\ d.k = "TryWith" ->
                [acc EXCEPT !.g = Unhandled(visit_block_drop(g, acc.env, d.subject), d)]

visit_block_common(g, env, b) ==
    FoldLeft(LAMBDA acc, d : VisitStatement(acc, d), [g |-> g, env |-> env, done |-> FALSE], b.stmts)
VisitTail(r, b, drop) ==
    IF b.tail = <<>> THEN r.g
    ELSE IF drop THEN visit_expr_drop(r.g, r.env, b.tail[1]) ELSE visit_expr_stack(r.g, r.env, b.tail[1])
visit_block_stack(g, env, b) == VisitTail(visit_block_common(g, env, b), b, FALSE)
visit_block_drop(g, env, b) == VisitTail(visit_block_common(g, env, b), b, TRUE)

\* A main function has its context as parameter and the handle of the new
\* UTXO as first local.
Close(done) == IF done.cur = 0 THEN done ELSE fill(visit_return(done), done.cur, Out("Return", 0, 0))
visit_function(body, main) ==
    LET start == [blocks |-> <<[BasicBlock EXCEPT !.ty = 0]>>, cur |-> 1, locals |-> IF main THEN 2 ELSE 0,
                  resumes |-> <<>>, yields |-> 0, main |-> main, fail |-> ""]
        opened == IF main THEN instructions(start, <<Ins("const", 0), Ins("set", 2)>>) ELSE start
    IN  Close(visit_block_stack(opened, <<>>, body))
=============================================================================
