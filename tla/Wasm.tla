--------------------------------- MODULE Wasm ---------------------------------
(***************************************************************************)
(* What the generated code does when it runs.  The checked arithmetic and  *)
(* the truncation are the generator's own (intrinsics.rs and the binary    *)
(* operators of lib.rs); validation and execution of structured code are   *)
(* those of WebAssembly (external).                                        *)
(***************************************************************************)
EXTENDS Stackifier

CONSTANT StepFuel   \* Bound: instructions of one activation.

-----------------------------------------------------------------------------
(* Arithmetic.  A word is a signed number; an unsigned type reads it       *)
(* modulo its width.                                                       *)

\* Bound: i32 and i64 words have 16 bits, as I64Bound says.
Word == 2 * I64Bound
Wrap(n) == ((n + I64Bound) % Word) - I64Bound
Trap == [trap |-> TRUE, v |-> 0]
Done(v) == [trap |-> FALSE, v |-> v]

\* The operands agree in sign and the sum does not.
i64_add_checked(x, y) == LET sum == Wrap(x + y) IN IF (x < 0) = (y < 0) /\ (sum < 0) # (x < 0) THEN Trap ELSE Done(sum)
i64_sub_checked(x, y) == LET d == Wrap(x - y) IN IF (x < 0) # (y < 0) /\ (d < 0) # (x < 0) THEN Trap ELSE Done(d)
\* Mutant: the smallest number times -1 is not looked at, and neither is the
\* other order.
i64_mul_checked_NoSpecial(x, y) ==
    LET product == Wrap(x * y) IN IF y > 0 /\ Trunc(product, y) # x THEN Trap ELSE Done(product)

\* Dividing the product by an operand gives the other one back.
i64_mul_checked(x, y) ==
    LET product == Wrap(x * y)
        least == -I64Bound
    IN  IF \/ (x = least /\ y = -1) \/ (y = least /\ x = -1)
           \/ (y # 0 /\ Trunc(product, y) # x)
        THEN Trap ELSE Done(product)

\* Only types of less than 32 bits are cut back to their width.
emit_truncate(w, n) == CASE w = "u8" -> n % 256 [] w = "i8" -> ((n + 128) % 256) - 128 [] OTHER -> n

is_64bit(w) == w \in {"i64", "u64"}
Unsigned(n) == n % Word

\* + - * / on two words of an integer type.
CoreBinary(w, op, x, y) ==
    CASE op = "+" -> IF is_64bit(w) THEN i64_add_checked(x, y) ELSE Done(emit_truncate(w, Wrap(x + y)))
      [] op = "-" -> IF is_64bit(w) THEN i64_sub_checked(x, y) ELSE Done(emit_truncate(w, Wrap(x - y)))
      [] op = "*" -> IF is_64bit(w) THEN i64_mul_checked(x, y) ELSE Done(emit_truncate(w, Wrap(x * y)))
      [] op \in {"/", "%"} ->
            IF y = 0 THEN Trap
            ELSE IF w \in {"u8", "u64"}
            THEN Done(Wrap(IF op = "/" THEN Unsigned(x) \div Unsigned(y) ELSE Unsigned(x) % Unsigned(y)))
            ELSE IF op = "/" /\ x = -I64Bound /\ y = -1 THEN Trap
            ELSE Done(IF op = "/" THEN Trunc(x, y) ELSE TruncRem(x, y))

-----------------------------------------------------------------------------
(* Validation: what is on the stack at every point of the code             *)

Label(k, arity, results, base) == [k |-> k, arity |-> arity, results |-> results, base |-> base, dead |-> FALSE]
Top(st) == Last(st.labels)
\* n values are taken from the innermost construct; after a branch there are
\* as many as needed.
Pop(st, n) ==
    IF st.h - n >= Top(st).base THEN [st EXCEPT !.h = @ - n]
    ELSE [st EXCEPT !.h = Top(st).base, !.ok = @ /\ Top(st).dead]
Push(st, n) == [st EXCEPT !.h = @ + n]
Kill(st) == [st EXCEPT !.h = Top(st).base, !.labels[Len(st.labels)].dead = TRUE]
EndLabel(st) ==
    LET done == Pop(st, Top(st).results)
    IN  [h |-> Top(st).base + Top(st).results, labels |-> Front(st.labels), ok |-> done.ok /\ done.h = Top(st).base]

Check(st, ins, results) ==
    LET target == st.labels[Len(st.labels) - ins.x]
        known == ins.x >= 0 /\ ins.x < Len(st.labels)
    IN  CASE ~st.ok -> st
          [] st.ok /\ ins.op \in {"const", "get"} -> Push(st, 1)
          [] st.ok /\ ins.op \in {"set", "drop"} -> Pop(st, 1)
          [] st.ok /\ ins.op = "eqz" -> Push(Pop(st, 1), 1)
          [] st.ok /\ ins.op \in {"binary", "sub"} -> Push(Pop(st, 2), 1)
          [] st.ok /\ ins.op \in {"yield_id", "save", "implements", "restore"} -> st
          [] st.ok /\ ins.op = "block" -> [st EXCEPT !.labels = Append(@, Label("block", ins.x, ins.x, st.h))]
          [] st.ok /\ ins.op = "loop" -> [st EXCEPT !.labels = Append(@, Label("loop", 0, ins.x, st.h))]
          [] st.ok /\ ins.op = "end" -> IF Len(st.labels) = 1 THEN [st EXCEPT !.ok = FALSE] ELSE EndLabel(st)
          [] st.ok /\ ins.op = "br" -> IF known THEN Kill(Pop(st, target.arity)) ELSE [st EXCEPT !.ok = FALSE]
          [] st.ok /\ ins.op = "br_if" -> IF known THEN Push(Pop(Pop(st, 1), target.arity), target.arity) ELSE [st EXCEPT !.ok = FALSE]
          [] st.ok /\ ins.op = "return" -> Kill(Pop(st, results))
          [] st.ok /\ ins.op \in {"return_call", "unreachable"} -> Kill(st)

Valid(f) ==
    LET done == FoldLeft(LAMBDA st, ins : Check(st, ins, f.results),
                         [h |-> 0, labels |-> <<Label("func", f.results, f.results, 0)>>, ok |-> TRUE], f.code)
    IN  done.ok /\ Len(done.labels) = 1 /\ EndLabel(done).ok

-----------------------------------------------------------------------------
(* Execution of valid code                                                 *)

Open(code, i) == Cardinality({j \in 1 .. i : code[j].op \in {"block", "loop"}}) - Cardinality({j \in 1 .. i : code[j].op = "end"})
MatchingEnd(code, i) == Min({j \in i + 1 .. Len(code) : code[j].op = "end" /\ Open(code, j) = Open(code, i) - 1})

\* m: the position, the operands, the open labels (where a branch to them
\* goes, how many values it takes along, the height below), the locals, the
\* globals that survive a yield, and the yields passed.
Machine(locals, saved, log) ==
    [pc |-> 1, stack |-> <<>>, labels |-> <<>>, locals |-> locals, saved |-> saved, id |-> 0, log |-> log, flow |-> "go"]
Zeros(n) == [j \in 1 .. n |-> 0]
Operand(m, n) == m.stack[Len(m.stack) - n]
Drop(m, n) == [m EXCEPT !.stack = SubSeq(@, 1, Len(@) - n)]
Put(m, v) == [m EXCEPT !.stack = Append(@, v)]
Take(m, d) ==
    LET label == m.labels[Len(m.labels) - d]
        kept == SubSeq(m.stack, Len(m.stack) - label.arity + 1, Len(m.stack))
    IN  IF d = Len(m.labels) THEN [m EXCEPT !.flow = "return"]
        ELSE [m EXCEPT !.pc = label.to, !.stack = SubSeq(@, 1, label.base) \o kept,
                       !.labels = SubSeq(@, 1, Len(@) - d - (IF label.loop THEN 0 ELSE 1))]
Bits(b) == IF b THEN 1 ELSE 0

Binary(m, op) ==
    LET x == Operand(m, 1)
        y == Operand(m, 0)
        r == CoreBinary("i64", op, x, y)
    IN  CASE op = "==" -> Put(Drop(m, 2), Bits(x = y))
          [] op = "<" -> Put(Drop(m, 2), Bits(x < y))
          [] OTHER -> IF r.trap THEN [m EXCEPT !.flow = "trap"] ELSE Put(Drop(m, 2), r.v)

Instruction(code, m0) ==
    LET ins == code[m0.pc]
        m == [m0 EXCEPT !.pc = @ + 1]
    IN  CASE ins.op = "const" -> Put(m, ins.x)
          [] ins.op = "get" -> Put(m, m.locals[ins.x])
          [] ins.op = "set" -> [Drop(m, 1) EXCEPT !.locals[ins.x] = Operand(m, 0)]
          [] ins.op = "drop" -> Drop(m, 1)
          [] ins.op = "eqz" -> Put(Drop(m, 1), Bits(Operand(m, 0) = 0))
          [] ins.op = "binary" -> Binary(m, ins.x)
          [] ins.op = "sub" -> Put(Drop(m, 2), Wrap(Operand(m, 1) - Operand(m, 0)))
          [] ins.op = "yield_id" -> [m EXCEPT !.id = ins.x]
          [] ins.op = "save" -> [m EXCEPT !.saved = (ins.x.id :> SubSeq(m.locals, 1, ins.x.n)) @@ @]
          [] ins.op = "implements" -> [m EXCEPT !.log = Append(@, ins.x)]
          [] ins.op = "restore" ->
                [m EXCEPT !.locals = [j \in DOMAIN @ |-> IF j <= ins.x.n THEN m.saved[ins.x.id][j] ELSE @[j]]]
          [] ins.op = "block" ->
                [m EXCEPT !.labels = Append(@, [to |-> MatchingEnd(code, m0.pc) + 1, arity |-> ins.x, base |-> Len(m.stack), loop |-> FALSE])]
          [] ins.op = "loop" ->
                [m EXCEPT !.labels = Append(@, [to |-> m.pc, arity |-> 0, base |-> Len(m.stack), loop |-> TRUE])]
          [] ins.op = "end" -> [m EXCEPT !.labels = Front(@)]
          [] ins.op = "br" -> Take(m, ins.x)
          [] ins.op = "br_if" -> IF Operand(m, 0) # 0 THEN Take(Drop(m, 1), ins.x) ELSE Drop(m, 1)
          [] ins.op = "return" -> [m EXCEPT !.flow = "return"]
          [] ins.op = "return_call" -> [m EXCEPT !.flow = "resumed"]
          [] ins.op = "unreachable" -> [m EXCEPT !.flow = "trap"]

RECURSIVE Steps(_, _, _)
Steps(code, m, fuel) ==
    IF m.flow # "go" THEN m
    ELSE IF m.pc > Len(code) THEN [m EXCEPT !.flow = "return"]
    ELSE IF fuel = 0 THEN [m EXCEPT !.flow = "fuel"]
    ELSE Steps(code, Instruction(code, m), fuel - 1)

Run(f, n, saved, log) == Steps(f.code, Machine(Zeros(n), saved, log), StepFuel)
=============================================================================
