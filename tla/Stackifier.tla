------------------------------ MODULE Stackifier ------------------------------
(***************************************************************************)
(* The stackifier (stackifier.rs) turns a graph of basic blocks into       *)
(* structured WebAssembly, from the entry block and again from every block *)
(* a function resumes at.  Loops come from the strongly connected          *)
(* components, and a `block` ... `end` pair makes room for every other     *)
(* forward jump.  What validation and execution of the result do is the    *)
(* WebAssembly specification's (external): `end` closes the innermost      *)
(* open construct, whatever it was meant for.                              *)
(***************************************************************************)
EXTENDS CodeGen

Item(k, bb) == [k |-> k, bb |-> bb]
Starts(item) == item.k \in {"StartLoop", "StartBlock"}
Ends(item) == item.k \in {"EndLoop", "EndBlock"}

-----------------------------------------------------------------------------
(* Loops and order: Tarjan's algorithm.  t.order are the visited blocks,   *)
(* t.low their low links, t.seq the items found so far, last item first.   *)

Tarjan(seq) == [order |-> <<>>, low |-> <<>>, stack |-> <<>>, seq |-> seq]
v_index(t, v) == CHOOSE j \in DOMAIN t.order : t.order[j] = v

RECURSIVE strongconnect(_, _, _, _), on_scc(_, _, _)

\* A block that reaches none before itself ends a component: all blocks above
\* it on the stack.
CloseComponent(blocks, v, index, done) ==
    LET root == CHOOSE j \in DOMAIN done.stack : done.stack[j] = v
    IN  IF done.low[v] # index THEN done
        ELSE [done EXCEPT !.stack = SubSeq(@, 1, root - 1),
                          !.seq = on_scc(blocks, done.seq, SubSeq(done.stack, root, Len(done.stack)))]
Propagated(t, v, w) == [t EXCEPT !.low[v] = Min({@, t.low[w]})]
strongconnect(blocks, limit, t0, v) ==
    LET index == Len(t0.order) + 1
        opened == [t0 EXCEPT !.order = Append(@, v), !.low = (v :> index) @@ @, !.stack = Append(@, v)]
    IN  CloseComponent(blocks, v, index,
            FoldLeft(LAMBDA t, w :
                IF limit # {} /\ w \notin limit THEN t
                ELSE IF ~Contains(t.order, w) THEN Propagated(strongconnect(blocks, limit, t, w), v, w)
                ELSE IF Contains(t.stack, w) THEN [t EXCEPT !.low[v] = Min({@, v_index(t, w)})]
                ELSE t,
                opened, Successors(blocks[v].out)))

\* A component of several blocks is a loop; it is split again without the
\* edges that leave it or go back to its first block.
on_scc(blocks, seq, scc) ==
    IF Len(scc) = 1 THEN Append(seq, Item("Basic", scc[1]))
    ELSE Append(strongconnect(blocks, Range(Tail(scc)), Tarjan(Append(seq, Item("EndLoop", scc[1]))), scc[1]).seq,
                Item("StartLoop", scc[1]))

-----------------------------------------------------------------------------
(* Blocks: room for the forward jumps                                      *)

next_block_is(seq, i, next) ==
    \E j \in i + 1 .. Len(seq) :
        seq[j] = Item("Basic", next) /\ \A m \in i + 1 .. j - 1 : seq[m].k # "Basic"

\* How many constructs are open just before position i.
Depth(seq, i) == Cardinality({j \in 1 .. i - 1 : Starts(seq[j])}) - Cardinality({j \in 1 .. i - 1 : Ends(seq[j])})

\* The last position of a block and the depth it is at.
find_node_backwards(seq, next) ==
    LET j == Max({m \in DOMAIN seq : seq[m] = Item("Basic", next)}) IN [j |-> j, depth |-> Depth(seq, j)]

\* The last construct that is opened at a depth, at its first position at
\* depth 0 and at the end otherwise if there is none.
find_depth_forwards(seq, depth) ==
    LET at == {m \in DOMAIN seq : Starts(seq[m]) /\ Depth(seq, m) = depth}
    IN  IF at # {} THEN Max(at) ELSE IF depth = 0 THEN 1 ELSE Len(seq) + 1

\* acc.i is the position of the jump's source in acc.seq.
Jump(acc, next) ==
    IF next \in acc.seen \/ next_block_is(acc.seq, acc.i, next) \/ next \in acc.exists THEN acc
    ELSE LET node == find_node_backwards(acc.seq, next)
             ended == InsertAt(acc.seq, node.j, Item("EndBlock", next))
             k == find_depth_forwards(SubSeq(ended, 1, acc.i - 1), node.depth)
         IN  [acc EXCEPT !.seq = InsertAt(ended, k, Item("StartBlock", next)), !.i = @ + 1, !.exists = @ \cup {next}]

RECURSIVE InsertBlocks(_, _)
InsertBlocks(blocks, acc) ==
    IF acc.i > Len(acc.seq) THEN acc.seq
    ELSE LET item == acc.seq[acc.i]
         IN  InsertBlocks(blocks, [IF item.k # "Basic" THEN acc
                                   ELSE FoldLeft(LAMBDA a, next : Jump(a, next), [acc EXCEPT !.seen = @ \cup {item.bb}],
                                                 Successors(blocks[item.bb].out))
                                   EXCEPT !.i = @ + 1])

Structure(blocks, entry) ==
    InsertBlocks(blocks, [seq |-> Reverse(strongconnect(blocks, {}, Tarjan(<<>>), entry).seq), i |-> 1, seen |-> {}, exists |-> {}])

-----------------------------------------------------------------------------
(* Emission                                                                *)

\* What is open for a block is counted by name; the result is the number of
\* constructs the branch leaves.
DepthTracker(seq, i) ==
    FoldLeft(LAMBDA d, item :
        CASE item.k = "Basic" -> d
          [] Starts(item) -> [depth |-> d.depth + 1, open |-> [d.open EXCEPT ![item.bb] = Append(@, d.depth + 1)]]
          [] Ends(item) -> [depth |-> d.depth - 1, open |-> [d.open EXCEPT ![item.bb] = Front(@)]],
        [depth |-> 0, open |-> [bb \in {seq[j].bb : j \in DOMAIN seq} |-> <<>>]], SubSeq(seq, 1, i))

\* Mutant: the construct of the target itself is counted as well.
diff_OneMore(seq, i, bb) == LET d == DepthTracker(seq, i) IN d.depth - Last(d.open[bb]) + 1

diff(seq, i, bb) == LET d == DepthTracker(seq, i) IN d.depth - Last(d.open[bb])

\* The instructions for a basic block's way out; start says whether the
\* function hands out the new resource when it returns.
Leave(blocks, seq, i, start) ==
    LET o == blocks[seq[i].bb].out
        to(op, bb) == <<Ins(op, diff(seq, i, bb))>>
    IN  CASE o.k \in {"Return", "Yield"} ->
                (IF start THEN <<Ins("get", 2)>> ELSE <<>>) \o IF i = Len(seq) THEN <<>> ELSE <<Ins("return", 0)>>
          [] o.k = "ReturnCall" -> <<Ins("return_call", 0)>>
          [] o.k = "Unreachable" -> <<Ins("unreachable", 0)>>
          [] o.k = "Next" -> IF next_block_is(seq, i, o.t) THEN <<>> ELSE to("br", o.t)
          [] o.k = "If" ->
                IF next_block_is(seq, i, o.f) THEN to("br_if", o.t)
                ELSE IF next_block_is(seq, i, o.t) THEN <<Ins("eqz", 0)>> \o to("br_if", o.f)
                ELSE to("br_if", o.t) \o to("br", o.f)

\* compile and stackify: code, and the number of results.
Emitted(g, seq, start, results) ==
    [results |-> results, seq |-> seq,
     code |-> FlattenSeq([i \in DOMAIN seq |->
            CASE seq[i].k = "Basic" -> g.blocks[seq[i].bb].code \o Leave(g.blocks, seq, i, start)
              [] seq[i].k = "StartLoop" -> <<Ins("loop", g.blocks[seq[i].bb].ty)>>
              [] seq[i].k = "StartBlock" -> <<Ins("block", g.blocks[seq[i].bb].ty)>>
              [] Ends(seq[i]) -> <<Ins("end", 0)>>])]
stackify(g, entry, start, results) == Emitted(g, Structure(g.blocks, entry), start, results)

\* The function from its entry, and its continuations.
Stackified(g, results) ==
    [locals |-> g.locals, start |-> stackify(g, 1, g.main, results + IF g.main THEN 1 ELSE 0),
     resumes |-> [j \in DOMAIN g.resumes |-> stackify(g, g.resumes[j], FALSE, results)]]
=============================================================================
