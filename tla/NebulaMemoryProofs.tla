------------------------- MODULE NebulaMemoryProofs -------------------------
(***************************************************************************)
(* The memory of the proof circuit implements a random access memory, for  *)
(* any cells and any program: what a read returns, to the tracer and again *)
(* to the circuit, is what the program last wrote to the cell.  And the    *)
(* proof completes: no assertion fails for a program that was traced.      *)
(***************************************************************************)
EXTENDS NebulaMemory, FiniteSetTheorems, SequenceTheorems, TLAPS

Entry == [values : Values, timestamp : Nat]
Op == [cond : BOOLEAN, cell : Cells, val : Values \cup {None}]

\* The operations among the first n of p that use cell c.
Uses(p, c, n) == {i \in 1 .. n : p[i].cond /\ p[i].cell = c}
Count(p, c, n) == Cardinality(Uses(p, c, n))

Typed ==
    /\ program \in Seq(Op)
    /\ ts \in Nat
    /\ rs \in [Cells -> Seq(Entry)]
    /\ ws \in [Cells -> Seq(Entry)]
    /\ popped \in [Cells -> Nat]
    /\ step \in Nat
    /\ \A c \in Cells : is[c] = MemOp(InitialValue[c], 0)

\* What a cell holds before its k-th use.
ValueBefore(c, k) == IF k = 1 THEN InitialValue[c] ELSE ws[c][k - 1].values

\* Every use of a cell reads what the one before it wrote.
QueuesLinked ==
    \A c \in Cells :
        /\ Len(rs[c]) = Len(ws[c])
        /\ Len(ws[c]) = Count(program, c, Len(program))
        /\ \A k \in 1 .. Len(ws[c]) : rs[c][k].values = ValueBefore(c, k)

\* The entries of the queues are those of the program, in its order: the i-th
\* operation, if it is the k-th use of its cell, has the k-th entries.
QueuesFollowProgram ==
    \A i \in 1 .. Len(program) : program[i].cond =>
        LET c == program[i].cell
            k == Count(program, c, i)
        IN  /\ k \in 1 .. Len(ws[c])
            /\ ws[c][k].values = IF program[i].val = None THEN ValueBefore(c, k)
                                 ELSE program[i].val

\* The circuit has taken off the queues what its steps used.
ReplayFollowsProgram ==
    /\ phase = "Tracing" => step = 0
    /\ phase = "Proving" => step < Len(program)
    /\ \A c \in Cells : popped[c] = Count(program, c, step)

Inv == Typed /\ QueuesLinked /\ QueuesFollowProgram /\ ReplayFollowsProgram

-----------------------------------------------------------------------------
(* Counting the uses of a cell                                             *)

\* There are finitely many uses, and the next operation adds at most itself.
LEMMA CountStep ==
    ASSUME NEW p, NEW c, NEW n \in Nat
    PROVE  /\ Count(p, c, n) \in Nat
           /\ Count(p, c, 0) = 0
           /\ p[n + 1].cond /\ p[n + 1].cell = c => Count(p, c, n + 1) = Count(p, c, n) + 1
           /\ ~(p[n + 1].cond /\ p[n + 1].cell = c) => Count(p, c, n + 1) = Count(p, c, n)
  <1>1. IsFiniteSet(1 .. n)
    BY FS_Interval
  <1>2. IsFiniteSet(Uses(p, c, n))
    BY <1>1, FS_Subset DEF Uses
  <1>3. Count(p, c, n) \in Nat
    BY <1>2, FS_CardinalityType DEF Count
  <1>4. Uses(p, c, 0) = {}
    BY DEF Uses
  <1>5. Count(p, c, 0) = 0
    BY <1>4, FS_EmptySet DEF Count
  <1>6. 1 .. (n + 1) = (1 .. n) \cup {n + 1}
    OBVIOUS
  <1>7. ASSUME p[n + 1].cond /\ p[n + 1].cell = c
        PROVE  Count(p, c, n + 1) = Count(p, c, n) + 1
    <2>1. Uses(p, c, n + 1) = Uses(p, c, n) \cup {n + 1}
      BY <1>6, <1>7 DEF Uses
    <2>2. n + 1 \notin Uses(p, c, n)
      BY DEF Uses
    <2> QED
      BY <1>2, <2>1, <2>2, FS_AddElement DEF Count
  <1>8. ASSUME ~(p[n + 1].cond /\ p[n + 1].cell = c)
        PROVE  Count(p, c, n + 1) = Count(p, c, n)
    <2>1. Uses(p, c, n + 1) = Uses(p, c, n)
      BY <1>6, <1>8 DEF Uses
    <2> QED
      BY <2>1 DEF Count
  <1> QED
    BY <1>3, <1>5, <1>7, <1>8

\* A longer program uses its cells as before, up to where the old one ended.
LEMMA CountPrefix ==
    ASSUME NEW p \in Seq(Op), NEW o \in Op, NEW c, NEW n \in 0 .. Len(p)
    PROVE  Count(Append(p, o), c, n) = Count(p, c, n)
  <1>1. \A i \in 1 .. n : Append(p, o)[i] = p[i]
    OBVIOUS
  <1>2. Uses(Append(p, o), c, n) = Uses(p, c, n)
    BY <1>1 DEF Uses
  <1> QED
    BY <1>2 DEF Count

-----------------------------------------------------------------------------
(* The steps                                                               *)

\* The memory that NebulaMemory stands for.
Mem ==
    [c \in Cells |->
        LET k == IF phase = "Tracing" THEN Len(ws[c]) ELSE popped[c]
        IN  IF k = 0 THEN is[c].values ELSE ws[c][k].values]

\* The latest entry of a cell has the value that the next use will read.
LEMMA LatestValue ==
    ASSUME Inv, NEW c \in Cells
    PROVE  /\ Latest(c) \in Entry
           /\ Latest(c).values = ValueBefore(c, Len(ws[c]) + 1)
           /\ phase = "Tracing" => Mem[c] = Latest(c).values
  <1>1. ws[c] \in Seq(Entry) /\ Len(ws[c]) \in Nat
    BY DEF Inv, Typed
  <1>2. is[c] = MemOp(InitialValue[c], 0) /\ InitialValue[c] \in Values
    BY NebulaAssumption DEF Inv, Typed
  <1>3. CASE ws[c] = <<>>
    BY <1>1, <1>2, <1>3 DEF Latest, ValueBefore, MemOp, Entry, Mem
  <1>4. CASE ws[c] # <<>>
    <2>1. Len(ws[c]) > 0 /\ Latest(c) = ws[c][Len(ws[c])]
      BY <1>1, <1>4 DEF Latest, Last
    <2> QED
      BY <1>1, <2>1 DEF ValueBefore, Mem
  <1> QED
    BY <1>3, <1>4

\* The queues grow at the end, so what earlier uses found there stays.
LEMMA TraceGrows ==
    ASSUME Inv, NEW cond \in BOOLEAN, NEW c \in Cells, NEW v \in Values \cup {None},
           Trace(cond, c, v)
    PROVE  LET o == [cond |-> cond, cell |-> c, val |-> v]
               n == Len(program)
           IN
           /\ program' = Append(program, o) /\ o \in Op
           /\ program' \in Seq(Op) /\ n \in Nat /\ Len(program') = n + 1
           /\ program'[n + 1] = o /\ \A i \in 1 .. n : program'[i] = program[i]
           /\ ts' \in Nat
           /\ rs' \in [Cells -> Seq(Entry)] /\ ws' \in [Cells -> Seq(Entry)]
           /\ \A d \in Cells : ~(cond /\ d = c) => rs'[d] = rs[d] /\ ws'[d] = ws[d]
           /\ cond =>
                /\ rs'[c] = Append(rs[c], Latest(c))
                /\ ws'[c] = Append(ws[c], MemOp(IF v = None THEN Latest(c).values ELSE v, ts + 1))
  <1> DEFINE o == [cond |-> cond, cell |-> c, val |-> v]
             n == Len(program)
             wv == MemOp(IF v = None THEN Latest(c).values ELSE v, ts + 1)
  <1>1. program' = Append(program, o)
    BY DEF Trace
  <1>2. o \in Op
    BY DEF Op
  <1>3. program \in Seq(Op)
    BY DEF Inv, Typed
  <1>4. /\ program' \in Seq(Op) /\ n \in Nat /\ Len(program') = n + 1
        /\ program'[n + 1] = o /\ \A i \in 1 .. n : program'[i] = program[i]
    <2> HIDE DEF o
    <2> QED
      BY <1>1, <1>2, <1>3
  <1>5. Latest(c) \in Entry
    BY LatestValue
  <1>6. ts \in Nat
    BY DEF Inv, Typed
  <1>7. wv \in Entry
    BY <1>5, <1>6 DEF MemOp, Entry
  <1>8. rs \in [Cells -> Seq(Entry)] /\ ws \in [Cells -> Seq(Entry)]
    BY DEF Inv, Typed
  <1>9. cond =>
            /\ ts' = ts + 1
            /\ rs' = [rs EXCEPT ![c] = Append(@, Latest(c))]
            /\ ws' = [ws EXCEPT ![c] = Append(@, wv)]
    BY DEF Trace, perform_memory_operation
  <1>10. ~cond => UNCHANGED <<rs, ws, ts>>
    BY DEF Trace
  <1> HIDE DEF wv
  <1>11. ts' \in Nat
    BY <1>6, <1>9, <1>10
  <1>12. /\ rs' \in [Cells -> Seq(Entry)] /\ ws' \in [Cells -> Seq(Entry)]
         /\ \A d \in Cells : ~(cond /\ d = c) => rs'[d] = rs[d] /\ ws'[d] = ws[d]
         /\ cond => rs'[c] = Append(rs[c], Latest(c)) /\ ws'[c] = Append(ws[c], wv)
    <2>1. CASE cond
      <3>1. Append(rs[c], Latest(c)) \in Seq(Entry) /\ Append(ws[c], wv) \in Seq(Entry)
        BY <1>5, <1>7, <1>8
      <3>2. PICK r, w : /\ r = Append(rs[c], Latest(c)) /\ r \in Seq(Entry)
                        /\ w = Append(ws[c], wv) /\ w \in Seq(Entry)
        BY <3>1
      <3>3. rs' = [rs EXCEPT ![c] = r] /\ ws' = [ws EXCEPT ![c] = w]
        BY <2>1, <1>9, <3>2
      <3>4. /\ rs' \in [Cells -> Seq(Entry)] /\ ws' \in [Cells -> Seq(Entry)]
            /\ \A d \in Cells : d # c => rs'[d] = rs[d] /\ ws'[d] = ws[d]
            /\ rs'[c] = r /\ ws'[c] = w
        BY <1>8, <3>2, <3>3
      <3> QED
        BY <2>1, <3>2, <3>4
    <2>2. CASE ~cond
      BY <2>2, <1>8, <1>10
    <2> QED
      BY <2>1, <2>2
  <1> QED
    BY <1>1, <1>2, <1>4, <1>11, <1>12 DEF wv

\* A traced operation becomes the last use of its cell.
LEMMA TraceInv ==
    ASSUME Inv, NEW cond \in BOOLEAN, NEW c \in Cells, NEW v \in Values \cup {None},
           Trace(cond, c, v)
    PROVE  Inv'
  <1> DEFINE o == [cond |-> cond, cell |-> c, val |-> v]
             n == Len(program)
  <1>1. /\ program' = Append(program, o) /\ o \in Op /\ program \in Seq(Op)
        /\ program' \in Seq(Op) /\ n \in Nat /\ Len(program') = n + 1
        /\ program'[n + 1] = o /\ \A i \in 1 .. n : program'[i] = program[i]
    BY TraceGrows DEF Inv, Typed
  <1>2. /\ \A d \in Cells : ws[d] \in Seq(Entry) /\ rs[d] \in Seq(Entry) /\ Len(rs[d]) = Len(ws[d])
        /\ \A d \in Cells : Len(ws[d]) = Count(program, d, n)
    BY DEF Inv, Typed, QueuesLinked
  <1>3. /\ \A d \in Cells : ~(cond /\ d = c) => rs'[d] = rs[d] /\ ws'[d] = ws[d]
        /\ cond => /\ rs'[c] = Append(rs[c], Latest(c))
                   /\ ws'[c] = Append(ws[c], MemOp(IF v = None THEN Latest(c).values ELSE v, ts + 1))
    BY TraceGrows, ZenonT(30)
  <1>4. \A d \in Cells, i \in 0 .. n : Count(program', d, i) = Count(program, d, i)
    BY <1>1, CountPrefix
  <1>5. \A d \in Cells :
            /\ Count(program, d, n) \in Nat
            /\ cond /\ d = c => Count(program', d, n + 1) = Count(program, d, n) + 1
            /\ ~(cond /\ d = c) => Count(program', d, n + 1) = Count(program, d, n)
    <2> SUFFICES ASSUME NEW d \in Cells
                 PROVE  /\ Count(program, d, n) \in Nat
                        /\ cond /\ d = c => Count(program', d, n + 1) = Count(program, d, n) + 1
                        /\ ~(cond /\ d = c) => Count(program', d, n + 1) = Count(program, d, n)
      OBVIOUS
    <2>1. Count(program', d, n) = Count(program, d, n)
      BY <1>1, <1>4
    <2>2. (program'[n + 1].cond <=> cond) /\ program'[n + 1].cell = c
      BY <1>1
    <2> HIDE DEF n, o
    <2>3. /\ Count(program, d, n) \in Nat
          /\ program'[n + 1].cond /\ program'[n + 1].cell = d
                => Count(program', d, n + 1) = Count(program', d, n) + 1
          /\ ~(program'[n + 1].cond /\ program'[n + 1].cell = d)
                => Count(program', d, n + 1) = Count(program', d, n)
      BY <1>1, CountStep
    <2> QED
      BY <2>1, <2>2, <2>3
  <1>6. UNCHANGED <<phase, is, step, popped>> /\ phase = "Tracing" /\ step = 0
    BY DEF Trace, circuit, Inv, ReplayFollowsProgram
  <1>7. Typed'
    BY <1>6, TraceGrows DEF Inv, Typed
  <1> HIDE DEF o, n
  <1>8. \A d \in Cells :
            /\ Len(ws[d]) \in Nat /\ Len(rs'[d]) = Len(ws'[d])
            /\ cond /\ d = c => Len(ws'[d]) = Len(ws[d]) + 1
            /\ ~(cond /\ d = c) => Len(ws'[d]) = Len(ws[d])
            /\ \A k \in 1 .. Len(ws[d]) : rs'[d][k] = rs[d][k] /\ ws'[d][k] = ws[d][k]
    <2> SUFFICES ASSUME NEW d \in Cells
                 PROVE  /\ Len(ws[d]) \in Nat /\ Len(rs'[d]) = Len(ws'[d])
                        /\ cond /\ d = c => Len(ws'[d]) = Len(ws[d]) + 1
                        /\ ~(cond /\ d = c) => Len(ws'[d]) = Len(ws[d])
                        /\ \A k \in 1 .. Len(ws[d]) : rs'[d][k] = rs[d][k] /\ ws'[d][k] = ws[d][k]
      OBVIOUS
    <2>1. ws[d] \in Seq(Entry) /\ rs[d] \in Seq(Entry) /\ Len(rs[d]) = Len(ws[d])
      BY <1>2
    <2>2. CASE cond /\ d = c
      <3>1. PICK r : rs'[d] = Append(rs[d], r)
        BY <2>2, <1>3
      <3>2. PICK w : ws'[d] = Append(ws[d], w)
        BY <2>2, <1>3
      <3>3. Len(rs'[d]) = Len(rs[d]) + 1 /\ Len(ws'[d]) = Len(ws[d]) + 1
        BY <2>1, <3>1, <3>2
      <3>4. \A k \in 1 .. Len(ws[d]) : rs'[d][k] = rs[d][k] /\ ws'[d][k] = ws[d][k]
        BY <2>1, <3>1, <3>2
      <3> QED
        BY <2>1, <2>2, <3>3, <3>4
    <2>3. CASE ~(cond /\ d = c)
      <3>1. rs'[d] = rs[d] /\ ws'[d] = ws[d]
        BY <2>3, <1>3
      <3> QED
        BY <2>1, <2>3, <3>1
    <2> QED
      BY <2>2, <2>3
  <1>9. \A d \in Cells : \A k \in 1 .. (Len(ws[d]) + 1) : ValueBefore(d, k)' = ValueBefore(d, k)
    BY <1>8 DEF ValueBefore
  <1>10. cond => LET k == Len(ws[c]) + 1 IN
            /\ rs'[c][k].values = ValueBefore(c, k)
            /\ ws'[c][k].values = IF v = None THEN ValueBefore(c, k) ELSE v
    BY <1>2, <1>3, LatestValue DEF MemOp
  <1>11. QueuesLinked'
    <2> SUFFICES ASSUME NEW d \in Cells
                 PROVE  /\ Len(rs'[d]) = Len(ws'[d])
                        /\ Len(ws'[d]) = Count(program', d, Len(program'))
                        /\ \A k \in 1 .. Len(ws'[d]) : rs'[d][k].values = ValueBefore(d, k)'
      BY DEF QueuesLinked
    <2>1. Len(ws'[d]) = Count(program', d, Len(program'))
      BY <1>1, <1>2, <1>5, <1>8 DEF n
    <2>2. ASSUME NEW k \in 1 .. Len(ws'[d])
          PROVE  rs'[d][k].values = ValueBefore(d, k)'
      <3>1. CASE k \in 1 .. Len(ws[d])
        <4>1. rs[d][k].values = ValueBefore(d, k)
          BY <3>1 DEF Inv, QueuesLinked
        <4>2. k \in 1 .. (Len(ws[d]) + 1)
          BY <3>1, <1>8
        <4> QED
          BY <3>1, <4>1, <4>2, <1>8, <1>9
      <3>2. CASE k \notin 1 .. Len(ws[d])
        <4>1. cond /\ d = c /\ k = Len(ws[c]) + 1
          <5>1. CASE cond /\ d = c
            BY <5>1, <3>2, <1>8
          <5>2. CASE ~(cond /\ d = c)
            BY <5>2, <3>2, <1>8
          <5> QED
            BY <5>1, <5>2
        <4>2. k \in 1 .. (Len(ws[d]) + 1)
          BY <4>1, <1>8
        <4> QED
          BY <4>1, <4>2, <1>9, <1>10
      <3> QED
        BY <3>1, <3>2
    <2> QED
      BY <1>8, <2>1, <2>2
  <1>12. QueuesFollowProgram'
    <2> SUFFICES ASSUME NEW i \in 1 .. Len(program'), program'[i].cond,
                        NEW d, d = program'[i].cell, NEW k, k = Count(program', d, i)
                 PROVE  /\ k \in 1 .. Len(ws'[d])
                        /\ ws'[d][k].values = IF program'[i].val = None THEN ValueBefore(d, k)'
                                               ELSE program'[i].val
      BY DEF QueuesFollowProgram, ValueBefore
    <2>1. CASE i \in 1 .. n
      <3>1. program'[i] = program[i]
        BY <1>1, <2>1
      <3>2. d \in Cells /\ d = program[i].cell
        <4>1. program[i] \in Op
          BY <1>1, <2>1 DEF n
        <4> QED
          BY <3>1, <4>1 DEF Op
      <3>3. k = Count(program, d, i)
        BY <1>1, <1>4, <2>1, <3>2
      <3>4. /\ k \in 1 .. Len(ws[d])
            /\ ws[d][k].values = IF program[i].val = None THEN ValueBefore(d, k)
                                 ELSE program[i].val
        BY <2>1, <3>1, <3>2, <3>3 DEF Inv, QueuesFollowProgram, n
      <3>5. k \in 1 .. Len(ws'[d]) /\ k \in 1 .. (Len(ws[d]) + 1)
        BY <3>2, <3>4, <1>8
      <3>6. ws'[d][k] = ws[d][k] /\ ValueBefore(d, k)' = ValueBefore(d, k)
        BY <3>2, <3>4, <3>5, <1>8, <1>9
      <3> QED
        BY <3>1, <3>4, <3>5, <3>6
    <2>2. CASE i \notin 1 .. n
      <3>1. i = n + 1
        BY <2>2, <1>1
      <3>2. d = c /\ program'[i].val = v /\ cond
        BY <3>1, <1>1 DEF o
      <3>3. k = Len(ws[c]) + 1
        BY <3>1, <3>2, <1>2, <1>5
      <3>4. k \in 1 .. Len(ws'[c]) /\ k \in 1 .. (Len(ws[c]) + 1)
        BY <3>2, <3>3, <1>8
      <3> QED
        BY <3>2, <3>3, <3>4, <1>9, <1>10
    <2> QED
      BY <2>1, <2>2
  <1>13. ReplayFollowsProgram'
    <2>1. \A d \in Cells : popped'[d] = Count(program', d, step')
      BY <1>1, <1>4, <1>6 DEF Inv, ReplayFollowsProgram
    <2> QED
      BY <1>6, <2>1 DEF ReplayFollowsProgram
  <1> QED
    BY <1>7, <1>11, <1>12, <1>13 DEF Inv

\* Computing the final entries starts the replay.
LEMMA ConstraintsInv ==
    ASSUME Inv, constraints
    PROVE  Inv'
  <1>1. UNCHANGED <<program, rs, ws, ts, step, popped>> /\ phase = "Tracing" /\ phase' = "Proving"
    BY DEF constraints, circuit
  <1>2. \A c \in Cells : is'[c] = is[c]
    BY DEF constraints
  <1>3. Typed'
    BY <1>1, <1>2 DEF Inv, Typed
  <1>4. QueuesLinked' /\ QueuesFollowProgram'
    BY <1>1 DEF Inv, QueuesLinked, QueuesFollowProgram, ValueBefore
  <1>5. program \in Seq(Op) /\ program # <<>>
    BY DEF Inv, Typed, constraints
  <1>6. 0 < Len(program)
    BY <1>5
  <1>7. ReplayFollowsProgram'
    BY <1>1, <1>6 DEF Inv, ReplayFollowsProgram
  <1> QED
    BY <1>3, <1>4, <1>7 DEF Inv

\* What a step of the circuit does to the queues, leaving the scan aside.
LEMMA ProveStepTakes ==
    ASSUME ProveStep
    PROVE  LET o == program[step + 1]
               k == popped[o.cell] + 1
           IN
           /\ UNCHANGED tracer
           /\ phase = "Proving" /\ phase' \in {"Panic", "Proved", "Proving"}
           /\ phase' = "Proving" => step + 1 # Len(program)
           /\ step' = step + 1
           /\ popped' = IF o.cond THEN [popped EXCEPT ![o.cell] = k] ELSE popped
           /\ out' = IF o.val # None THEN out ELSE IF o.cond THEN rs[o.cell][k].values ELSE Zero
  <1>1. /\ UNCHANGED tracer
        /\ phase = "Proving" /\ phase' \in {"Panic", "Proved", "Proving"}
        /\ step' = step + 1
    BY DEF ProveStep
  <1>2. phase' = "Proving" => step + 1 # Len(program)
    BY DEF ProveStep
  <1>3. popped' = IF program[step + 1].cond
                  THEN [popped EXCEPT ![program[step + 1].cell] = popped[program[step + 1].cell] + 1]
                  ELSE popped
    BY DEF ProveStep
  <1>4. out' = IF program[step + 1].val # None THEN out
               ELSE IF program[step + 1].cond
               THEN rs[program[step + 1].cell][popped[program[step + 1].cell] + 1].values
               ELSE Zero
    BY DEF ProveStep
  <1> QED
    BY <1>1, <1>2, <1>3, <1>4

\* The next operation of the program and the entries the circuit finds for it.
LEMMA NextUse ==
    ASSUME Inv, phase = "Proving"
    PROVE  LET o == program[step + 1]
               k == popped[o.cell] + 1
           IN
           /\ o \in Op
           /\ step \in Nat /\ step + 1 \in 1 .. Len(program)
           /\ popped[o.cell] \in Nat
           /\ \A c \in Cells :
                /\ o.cond /\ o.cell = c => Count(program, c, step + 1) = popped[c] + 1
                /\ ~(o.cond /\ o.cell = c) => Count(program, c, step + 1) = popped[c]
           /\ o.cond =>
                /\ k \in 1 .. Len(ws[o.cell])
                /\ rs[o.cell][k].values = ValueBefore(o.cell, k)
                /\ ws[o.cell][k].values = IF o.val = None THEN ValueBefore(o.cell, k) ELSE o.val
  <1> DEFINE o == program[step + 1]
             k == popped[o.cell] + 1
  <1>1. program \in Seq(Op) /\ step \in Nat /\ step < Len(program)
    BY DEF Inv, Typed, ReplayFollowsProgram
  <1>2. step + 1 \in 1 .. Len(program)
    BY <1>1
  <1>3. o \in Op
    BY <1>1, <1>2
  <1>4. o.cell \in Cells /\ o.cond \in BOOLEAN
    BY <1>3 DEF Op
  <1>5. popped[o.cell] \in Nat
    BY <1>4 DEF Inv, Typed
  <1>6. ASSUME NEW c \in Cells
        PROVE  /\ o.cond /\ o.cell = c => Count(program, c, step + 1) = popped[c] + 1
               /\ ~(o.cond /\ o.cell = c) => Count(program, c, step + 1) = popped[c]
    <2>1. popped[c] = Count(program, c, step)
      BY DEF Inv, ReplayFollowsProgram
    <2> QED
      BY <1>1, <2>1, CountStep
  <1>7. ASSUME o.cond
        PROVE  /\ k \in 1 .. Len(ws[o.cell])
               /\ rs[o.cell][k].values = ValueBefore(o.cell, k)
               /\ ws[o.cell][k].values = IF o.val = None THEN ValueBefore(o.cell, k) ELSE o.val
    <2>1. Count(program, o.cell, step + 1) = k
      BY <1>4, <1>6, <1>7
    <2>2. /\ k \in 1 .. Len(ws[o.cell])
          /\ ws[o.cell][k].values = IF o.val = None THEN ValueBefore(o.cell, k) ELSE o.val
      BY <1>2, <1>7, <2>1 DEF Inv, QueuesFollowProgram
    <2>3. rs[o.cell][k].values = ValueBefore(o.cell, k)
      BY <1>4, <2>2 DEF Inv, QueuesLinked
    <2> QED
      BY <2>2, <2>3
  <1> QED
    BY <1>1, <1>2, <1>3, <1>5, <1>6, <1>7

\* A step of the circuit takes the entries of its operation.
LEMMA ProveStepInv ==
    ASSUME Inv, ProveStep
    PROVE  Inv'
  <1> DEFINE o == program[step + 1]
             k == popped[o.cell] + 1
  <1>1. /\ UNCHANGED tracer
        /\ phase = "Proving" /\ phase' \in {"Panic", "Proved", "Proving"}
        /\ phase' = "Proving" => step + 1 # Len(program)
        /\ step' = step + 1
        /\ popped' = IF o.cond THEN [popped EXCEPT ![o.cell] = k] ELSE popped
    BY ProveStepTakes
  <1>2. /\ o \in Op
        /\ step \in Nat /\ step + 1 \in 1 .. Len(program)
        /\ popped[o.cell] \in Nat
        /\ \A c \in Cells :
             /\ o.cond /\ o.cell = c => Count(program, c, step + 1) = popped[c] + 1
             /\ ~(o.cond /\ o.cell = c) => Count(program, c, step + 1) = popped[c]
    BY <1>1, NextUse
  <1>3. o.cond \in BOOLEAN /\ o.cell \in Cells
    BY <1>2 DEF Op
  <1>4. popped \in [Cells -> Nat]
    BY DEF Inv, Typed
  <1> HIDE DEF o
  <1>5. /\ popped' \in [Cells -> Nat]
        /\ \A c \in Cells : /\ o.cond /\ o.cell = c => popped'[c] = popped[c] + 1
                            /\ ~(o.cond /\ o.cell = c) => popped'[c] = popped[c]
    <2>1. CASE o.cond
      BY <2>1, <1>1, <1>2, <1>3, <1>4
    <2>2. CASE ~o.cond
      BY <2>2, <1>1, <1>4
    <2> QED
      BY <2>1, <2>2
  <1>6. Typed'
    BY <1>1, <1>2, <1>5 DEF Inv, Typed, tracer
  <1>7. QueuesLinked' /\ QueuesFollowProgram'
    BY <1>1 DEF Inv, QueuesLinked, QueuesFollowProgram, ValueBefore, tracer
  <1>8. ReplayFollowsProgram'
    <2>1. \A c \in Cells : popped'[c] = Count(program', c, step')
      BY <1>1, <1>2, <1>5 DEF tracer
    <2>2. phase' = "Proving" => step' < Len(program')
      BY <1>1, <1>2 DEF tracer
    <2> QED
      BY <1>1, <2>1, <2>2 DEF ReplayFollowsProgram
  <1> QED
    BY <1>6, <1>7, <1>8 DEF Inv

-----------------------------------------------------------------------------
(* The refinement                                                          *)

\* Nothing is traced or replayed at first.
LEMMA InitInv == Init => Inv
  <1> SUFFICES ASSUME Init PROVE Inv
    OBVIOUS
  <1>1. Typed
    BY DEF Init, Typed, MemOp
  <1>2. program = <<>> /\ step = 0 /\ Len(program) = 0
    BY DEF Init
  <1>3. \A c \in Cells : rs[c] = <<>> /\ ws[c] = <<>> /\ popped[c] = 0
    BY DEF Init
  <1>4. \A c \in Cells : Count(program, c, 0) = 0
    BY CountStep
  <1>5. QueuesLinked
    BY <1>2, <1>3, <1>4 DEF QueuesLinked
  <1>6. QueuesFollowProgram
    BY <1>2 DEF QueuesFollowProgram
  <1>7. ReplayFollowsProgram
    BY <1>2, <1>3, <1>4 DEF ReplayFollowsProgram, Init
  <1> QED
    BY <1>1, <1>5, <1>6, <1>7 DEF Inv

\* Tracing, and replaying what was traced, keep the queues in step.
LEMMA NextInv == Inv /\ [Next]_nvars => Inv'
  <1> SUFFICES ASSUME Inv, [Next]_nvars PROVE Inv'
    OBVIOUS
  <1>1. CASE UNCHANGED nvars
    BY <1>1 DEF nvars, tracer, circuit, Inv, Typed, QueuesLinked, QueuesFollowProgram,
                ReplayFollowsProgram, ValueBefore
  <1> QED
    BY <1>1, TraceInv, ConstraintsInv, ProveStepInv DEF Next

\* A fresh memory holds the initial values.
LEMMA InitRefines == Init => Ram!RamInit
  <1> SUFFICES ASSUME Init PROVE Ram!RamInit
    OBVIOUS
  <1>1. \A c \in Cells : Mem[c] = InitialValue[c]
    BY DEF Init, Mem, MemOp
  <1>2. Mem = InitialValue
    BY <1>1, NebulaAssumption DEF Mem
  <1>3. out = Zero
    BY DEF Init
  <1> QED
    BY <1>2, <1>3 DEF Ram!RamInit, Mem

\* An operation of the tracer is a read or a write of the memory.
LEMMA TraceRefines ==
    ASSUME Inv, NEW cond \in BOOLEAN, NEW c \in Cells, NEW v \in Values \cup {None},
           Trace(cond, c, v)
    PROVE  IF v = None THEN out' = (IF cond THEN Mem[c] ELSE Zero) /\ Mem' = Mem
           ELSE out' = out /\ Mem' = (IF cond THEN [Mem EXCEPT ![c] = v] ELSE Mem)
  <1>1. phase = "Tracing" /\ phase' = "Tracing" /\ is' = is
    BY DEF Trace
  <1>2. \A d \in Cells : ~(cond /\ d = c) => Mem'[d] = Mem[d]
    BY <1>1, TraceGrows, ZenonT(40) DEF Mem
  <1>3. ASSUME cond
        PROVE  Mem'[c] = IF v = None THEN Mem[c] ELSE v
    <2>1. ws[c] \in Seq(Entry)
      BY DEF Inv, Typed
    <2>2. PICK w : w = MemOp(IF v = None THEN Latest(c).values ELSE v, ts + 1)
      OBVIOUS
    <2>3. ws'[c] = Append(ws[c], w)
      BY <1>3, <2>2, TraceGrows
    <2>4. Len(ws'[c]) = Len(ws[c]) + 1 /\ Len(ws[c]) \in Nat /\ ws'[c][Len(ws[c]) + 1] = w
      BY <2>1, <2>3
    <2>5. Mem'[c] = w.values
      BY <1>1, <2>4 DEF Mem
    <2>6. Mem[c] = Latest(c).values
      BY <1>1, LatestValue
    <2> QED
      BY <2>2, <2>5, <2>6 DEF MemOp
  <1>4. cond => Mem[c] = Latest(c).values
    BY <1>1, LatestValue
  <1>5. out' = IF v # None THEN out ELSE IF cond THEN Latest(c).values ELSE Zero
    BY DEF Trace
  <1>6. DOMAIN Mem = Cells /\ DOMAIN Mem' = Cells
    BY DEF Mem
  <1>7. Mem = [d \in Cells |-> Mem[d]] /\ Mem' = [d \in Cells |-> Mem'[d]]
    BY DEF Mem
  <1> HIDE DEF Mem
  <1>8. CASE v = None
    <2>1. \A d \in Cells : Mem'[d] = Mem[d]
      BY <1>2, <1>3, <1>8
    <2>2. Mem' = Mem
      BY <1>7, <2>1
    <2> QED
      BY <1>4, <1>5, <1>8, <2>2
  <1>9. CASE v # None
    <2>1. CASE cond
      <3>1. \A d \in Cells : Mem'[d] = [Mem EXCEPT ![c] = v][d]
        BY <1>2, <1>3, <1>6, <1>9, <2>1
      <3>2. Mem' = [Mem EXCEPT ![c] = v]
        BY <1>6, <1>7, <3>1
      <3> QED
        BY <1>5, <1>9, <2>1, <3>2
    <2>2. CASE ~cond
      <3>1. Mem' = Mem
        BY <1>2, <1>7, <2>2
      <3> QED
        BY <1>5, <1>9, <2>2, <3>1
    <2> QED
      BY <2>1, <2>2
  <1> QED
    BY <1>8, <1>9

\* The circuit starts from the initial values.
LEMMA ConstraintsRefines ==
    ASSUME Inv, constraints
    PROVE  Mem' = InitialValue /\ out' = out
  <1>1. UNCHANGED <<popped, step, ws, out>> /\ phase = "Tracing" /\ phase' = "Proving"
    BY DEF constraints, circuit
  <1>2. \A c \in Cells : is'[c] = MemOp(InitialValue[c], 0)
    BY DEF constraints, Inv, Typed
  <1>3. \A c \in Cells : popped[c] = 0
    BY <1>1, CountStep DEF Inv, ReplayFollowsProgram
  <1>4. \A c \in Cells : Mem'[c] = InitialValue[c]
    <2>1. ASSUME NEW c \in Cells
          PROVE  is'[c].values = InitialValue[c]
      <3>1. is'[c] = MemOp(InitialValue[c], 0)
        BY <1>2
      <3> QED
        BY <3>1 DEF MemOp
    <2> QED
      BY <1>1, <1>3, <2>1 DEF Mem
  <1> QED
    BY <1>1, <1>4, NebulaAssumption DEF Mem

\* A step of the circuit reads or writes as its operation did when traced.
LEMMA ProveStepRefines ==
    ASSUME Inv, ProveStep
    PROVE  LET o == program[step + 1] IN
           /\ o \in Op
           /\ IF o.val = None THEN out' = (IF o.cond THEN Mem[o.cell] ELSE Zero) /\ Mem' = Mem
              ELSE out' = out /\ Mem' = (IF o.cond THEN [Mem EXCEPT ![o.cell] = o.val] ELSE Mem)
  <1>1. PICK o : o = program[step + 1]
    OBVIOUS
  <1>2. PICK k : k = popped[o.cell] + 1
    OBVIOUS
  <1>3. /\ UNCHANGED tracer
        /\ phase = "Proving" /\ phase' # "Tracing"
        /\ popped' = IF o.cond THEN [popped EXCEPT ![o.cell] = k] ELSE popped
        /\ out' = IF o.val # None THEN out ELSE IF o.cond THEN rs[o.cell][k].values ELSE Zero
    BY <1>1, <1>2, ProveStepTakes
  <1>4. /\ o \in Op
        /\ popped[o.cell] \in Nat
        /\ o.cond =>
             /\ k \in 1 .. Len(ws[o.cell])
             /\ rs[o.cell][k].values = ValueBefore(o.cell, k)
             /\ ws[o.cell][k].values = IF o.val = None THEN ValueBefore(o.cell, k) ELSE o.val
    BY <1>1, <1>2, <1>3, NextUse
  <1>5. o.cell \in Cells /\ o.cond \in BOOLEAN
    BY <1>4 DEF Op
  <1>6. popped \in [Cells -> Nat] /\ is[o.cell].values = InitialValue[o.cell]
    <2>1. is[o.cell] = MemOp(InitialValue[o.cell], 0)
      BY <1>5 DEF Inv, Typed
    <2>2. is[o.cell].values = InitialValue[o.cell]
      BY <2>1 DEF MemOp
    <2> QED
      BY <2>2 DEF Inv, Typed
  <1>7. Mem[o.cell] = ValueBefore(o.cell, k)
    <2>1. Mem[o.cell] = IF popped[o.cell] = 0 THEN is[o.cell].values
                        ELSE ws[o.cell][popped[o.cell]].values
      BY <1>3, <1>5 DEF Mem
    <2>2. k - 1 = popped[o.cell]
      BY <1>2, <1>4
    <2> QED
      BY <1>2, <1>4, <1>6, <2>1, <2>2 DEF ValueBefore
  <1>8. \A c \in Cells : ~(o.cond /\ c = o.cell) => Mem'[c] = Mem[c]
    <2>1. \A c \in Cells : ~(o.cond /\ c = o.cell) => popped'[c] = popped[c]
      BY <1>3, <1>5, <1>6
    <2> QED
      BY <1>3, <2>1 DEF Mem, tracer
  <1>9. o.cond => Mem'[o.cell] = IF o.val = None THEN Mem[o.cell] ELSE o.val
    <2> SUFFICES ASSUME o.cond PROVE Mem'[o.cell] = IF o.val = None THEN Mem[o.cell] ELSE o.val
      OBVIOUS
    <2>1. popped'[o.cell] = k /\ k # 0
      BY <1>2, <1>3, <1>4, <1>5, <1>6
    <2>2. Mem'[o.cell] = ws[o.cell][k].values
      BY <1>3, <1>5, <2>1 DEF Mem, tracer
    <2> QED
      BY <1>4, <1>7, <2>2
  <1>10. DOMAIN Mem = Cells /\ DOMAIN Mem' = Cells
    BY DEF Mem
  <1>11. Mem = [d \in Cells |-> Mem[d]] /\ Mem' = [d \in Cells |-> Mem'[d]]
    BY DEF Mem
  <1> HIDE DEF Mem
  <1>12. CASE o.val = None
    <2>1. \A d \in Cells : Mem'[d] = Mem[d]
      BY <1>8, <1>9, <1>12
    <2>2. Mem' = Mem
      BY <1>11, <2>1
    <2> QED
      BY <1>1, <1>3, <1>4, <1>7, <1>12, <2>2
  <1>13. CASE o.val # None
    <2>1. CASE o.cond
      <3>1. \A d \in Cells : Mem'[d] = [Mem EXCEPT ![o.cell] = o.val][d]
        BY <1>8, <1>9, <1>10, <1>13, <2>1
      <3>2. Mem' = [Mem EXCEPT ![o.cell] = o.val]
        BY <1>10, <1>11, <3>1
      <3> QED
        BY <1>1, <1>3, <1>4, <1>13, <2>1, <3>2
    <2>2. CASE ~o.cond
      <3>1. Mem' = Mem
        BY <1>8, <1>11, <2>2
      <3> QED
        BY <1>1, <1>3, <1>4, <1>13, <2>2, <3>1
    <2> QED
      BY <2>1, <2>2
  <1> QED
    BY <1>12, <1>13

\* Every step of the prover is a step of the memory, or none.
LEMMA NextRefines == Inv /\ [Next]_nvars => [Ram!RamNext]_<<Mem, out>>
  <1> SUFFICES ASSUME Inv, [Next]_nvars PROVE [Ram!RamNext]_<<Mem, out>>
    OBVIOUS
  <1>1. ASSUME NEW cond \in BOOLEAN, NEW c \in Cells, NEW v \in Values \cup {None},
               IF v = None THEN out' = (IF cond THEN Mem[c] ELSE Zero) /\ Mem' = Mem
               ELSE out' = out /\ Mem' = (IF cond THEN [Mem EXCEPT ![c] = v] ELSE Mem)
        PROVE  Ram!RamNext
    <2>1. CASE v = None
      <3>1. Ram!Read(cond, c)
        BY <1>1, <2>1 DEF Ram!Read, Mem
      <3> QED
        BY <3>1 DEF Ram!RamNext
    <2>2. CASE v # None
      <3>1. Ram!Write(cond, c, v)
        BY <1>1, <2>2 DEF Ram!Write, Mem
      <3> QED
        BY <2>2, <3>1 DEF Ram!RamNext
    <2> QED
      BY <2>1, <2>2
  <1>2. ASSUME NEW cond \in BOOLEAN, NEW c \in Cells, NEW v \in Values \cup {None},
               Trace(cond, c, v)
        PROVE  Ram!RamNext
    BY <1>1, <1>2, TraceRefines
  <1>3. CASE constraints
    <2>1. Ram!Restart
      BY <1>3, ConstraintsRefines DEF Ram!Restart, Mem
    <2> QED
      BY <2>1 DEF Ram!RamNext
  <1>4. CASE ProveStep
    <2>1. PICK o : o = program[step + 1]
      OBVIOUS
    <2>2. o.cond \in BOOLEAN /\ o.cell \in Cells /\ o.val \in Values \cup {None}
      BY <1>4, <2>1, ProveStepRefines DEF Op
    <2> QED
      BY <1>1, <1>4, <2>1, <2>2, ProveStepRefines
  <1>5. CASE UNCHANGED nvars
    BY <1>5 DEF nvars, tracer, circuit, Mem
  <1> QED
    BY <1>2, <1>3, <1>4, <1>5 DEF Next

\* The memory argument implements a random access memory, for every program:
\* conditional_read and conditional_write of the tracer and of the circuit
\* return what was last written to the cell.
THEOREM ImplementsRamCorrect == Spec => ImplementsRam
  <1>1. Inv /\ [Next]_nvars
            => [Ram!RamNext]_<<[c \in Cells |->
                    LET k == IF phase = "Tracing" THEN Len(ws[c]) ELSE popped[c]
                    IN  IF k = 0 THEN is[c].values ELSE ws[c][k].values], out>>
    BY NextRefines DEF Mem
  <1> QED
    BY <1>1, InitInv, NextInv, InitRefines, PTL DEF Spec, ImplementsRam, Ram!RamSpec

-----------------------------------------------------------------------------
(* No assertion of the prover fails.  A position <<c, k>> names the k-th   *)
(* entry of cell c, the initial one being the 0-th.  The k-th use of c     *)
(* reads the entry k - 1 and writes the entry k; the last entry is final:  *)
(* initial and written entries, or read and final ones, are all positions. *)

EntryAt(c, k) == IF k = 0 THEN MemOp(InitialValue[c], 0) ELSE ws[c][k]
MarkAt(q) == Mark(q[1], EntryAt(q[1], q[2]))

\* The bag of the marks at a set of positions.
Tally(I) == [m \in {MarkAt(q) : q \in I} |-> Cardinality({q \in I : MarkAt(q) = m})]

\* The operations among the first n of p that are switched on.
Active(p, n) == Cardinality({i \in 1 .. n : p[i].cond})

Commit == Cells \X Entry \X Entry

Linked ==
    \A c \in Cells :
        /\ \A k \in 1 .. Len(ws[c]) :
             /\ rs[c][k] = EntryAt(c, k - 1)
             /\ ws[c][k].timestamp <= ts
             /\ \A i \in 0 .. (k - 1) : EntryAt(c, i).timestamp < ws[c][k].timestamp

\* The i-th operation, if it is on, made the entry of the chain that counts
\* the operations up to it.
ChainFollowsProgram ==
    /\ chain \in Seq(Commit)
    /\ Len(chain) = Active(program, Len(program))
    /\ \A i \in 1 .. Len(program) : program[i].cond =>
        LET c == program[i].cell
            k == Count(program, c, i)
        IN  chain[Active(program, i)] = <<c, rs[c][k], ws[c][k]>>

\* Nothing is replayed while the program is traced.
NotStarted ==
    /\ chain2 = <<>> /\ scanned = <<>> /\ last_addr = <<0, 0>>
    /\ is = [c \in Cells |-> MemOp(InitialValue[c], 0)]
    /\ prints = [s \in {"is", "fs", "rs", "ws"} |-> EmptyBag]

\* What constraints() computed.
Prepared ==
    /\ required_steps <= Len(program)
    /\ is = [c \in Cells |-> MemOp(InitialValue[c], 0)]
    /\ fs = [c \in Cells |-> EntryAt(c, Len(ws[c]))]

ChainReplayed ==
    /\ chain2 \in Seq(Commit)
    /\ Len(chain2) = Active(program, step)
    /\ \A a \in 1 .. Len(chain2) : chain2[a] = chain[a]

All == Sorted(Cells)
Done == IF SCAN_BATCH_SIZE * step <= Cardinality(Cells) THEN SCAN_BATCH_SIZE * step
        ELSE Cardinality(Cells)
Scanned == {All[n] : n \in 1 .. Done}

ScanReplayed ==
    /\ scanned = [n \in 1 .. Done |-> <<All[n], is[All[n]], fs[All[n]]>>]
    /\ last_addr = IF step > 0 /\ SCAN_BATCH_SIZE * step <= Cardinality(Cells)
                   THEN All[SCAN_BATCH_SIZE * step] ELSE <<0, 0>>

\* The positions read and written so far.
ReadAt == {q \in Cells \X Nat : q[2] < popped[q[1]]}
WrittenAt == {q \in Cells \X Nat : q[2] \in 1 .. popped[q[1]]}

PrintsFollow ==
    /\ IsFiniteSet(ReadAt) /\ IsFiniteSet(WrittenAt)
    /\ prints = [s \in {"is", "fs", "rs", "ws"} |->
        CASE s = "is" -> Tally({<<c, 0>> : c \in Scanned})
          [] s = "fs" -> Tally({<<c, Len(ws[c])>> : c \in Scanned})
          [] s = "rs" -> Tally(ReadAt)
          [] s = "ws" -> Tally(WrittenAt)]

ProofInv ==
    /\ Inv /\ Linked /\ ChainFollowsProgram
    /\ phase \in {"Tracing", "Proving", "Proved"}
    /\ phase = "Tracing" => NotStarted
    /\ phase = "Proving" => Prepared /\ ChainReplayed /\ ScanReplayed /\ PrintsFollow

-----------------------------------------------------------------------------
(* The order of the cells                                                  *)

Below(c) == {d \in Cells : Before(d, c)}
Rank(c) == Cardinality(Below(c))

\* Before is a strict total order.
LEMMA BeforeOrders ==
    ASSUME NEW a \in Cells, NEW b \in Cells
    PROVE  /\ ~Before(a, a)
           /\ a # b => Before(a, b) \/ Before(b, a)
           /\ \A c \in Cells : Before(a, b) /\ Before(b, c) => Before(a, c)
  <1>1. \A c \in Cells : c[1] \in Nat /\ c[2] \in Nat /\ c = <<c[1], c[2]>>
    BY NebulaAssumption
  <1> QED
    BY <1>1 DEF Before

\* A cell has more before it than those before it have.
LEMMA RankGrows ==
    ASSUME NEW a \in Cells, NEW b \in Cells, Before(a, b)
    PROVE  Rank(a) \in Nat /\ Rank(b) \in Nat /\ Rank(a) < Rank(b)
  <1>1. IsFiniteSet(Below(a)) /\ IsFiniteSet(Below(b))
    BY NebulaAssumption, FS_Subset DEF Below
  <1>2. Below(a) \in SUBSET Below(b) /\ a \in Below(b) /\ a \notin Below(a)
    BY BeforeOrders DEF Below
  <1>3. Rank(a) \in Nat /\ Rank(b) \in Nat
    BY <1>1, FS_CardinalityType DEF Rank
  <1>4. Rank(a) <= Rank(b) /\ Rank(a) # Rank(b)
    BY <1>1, <1>2, FS_Subset DEF Rank
  <1> QED
    BY <1>3, <1>4

LEMMA RankBound ==
    ASSUME NEW c \in Cells
    PROVE  Cardinality(Cells) \in Nat /\ Rank(c) \in 0 .. (Cardinality(Cells) - 1)
  <1>1. IsFiniteSet(Cells) /\ Cardinality(Cells) \in Nat
    BY NebulaAssumption, FS_CardinalityType
  <1>2. Below(c) \in SUBSET Cells /\ c \notin Below(c)
    BY BeforeOrders DEF Below
  <1>3. Rank(c) <= Cardinality(Cells) /\ Rank(c) # Cardinality(Cells) /\ Rank(c) \in Nat
    BY <1>1, <1>2, FS_Subset, FS_CardinalityType DEF Rank
  <1> QED
    BY <1>1, <1>3

\* The ranks are all taken, each by one cell.
LEMMA RankIsBijection ==
    /\ \A a, b \in Cells : Rank(a) = Rank(b) => a = b
    /\ \A n \in 0 .. (Cardinality(Cells) - 1) : \E c \in Cells : Rank(c) = n
  <1>1. \A a, b \in Cells : Rank(a) = Rank(b) => a = b
    BY BeforeOrders, RankGrows
  <1>2. PICK N \in Nat : N = Cardinality(Cells)
    BY NebulaAssumption, FS_CardinalityType
  <1> DEFINE f == [c \in Cells |-> Rank(c)]
  <1>3. f \in Injection(Cells, 0 .. (N - 1))
    BY <1>1, <1>2, RankBound DEF Injection, IsInjective
  <1>4. IsFiniteSet(0 .. (N - 1)) /\ Cardinality(0 .. (N - 1)) = N
    <2>1. PICK M \in Int : M = N - 1
      BY <1>2
    <2>2. IsFiniteSet(0 .. M) /\ Cardinality(0 .. M) = IF 0 > M THEN 0 ELSE M - 0 + 1
      BY FS_Interval
    <2> QED
      BY <1>2, <2>1, <2>2
  <1>5. f \in Surjection(Cells, 0 .. (N - 1))
    BY <1>2, <1>3, <1>4, FS_Injection
  <1>6. \A n \in 0 .. (N - 1) : \E c \in Cells : Rank(c) = n
    BY <1>5 DEF Surjection
  <1> QED
    BY <1>1, <1>2, <1>6

\* Sorted lists every cell once, at the place after those before it.
LEMMA AllIsSorted ==
    LET N == Cardinality(Cells) IN
    /\ N \in Nat /\ DOMAIN All = 1 .. N /\ All = [n \in 1 .. N |-> All[n]]
    /\ \A n \in 1 .. N : All[n] \in Cells /\ Rank(All[n]) = n - 1
    /\ \A n, m \in 1 .. N : All[n] = All[m] => n = m
    /\ \A c \in Cells : \E n \in 1 .. N : All[n] = c
  <1>1. PICK N \in Nat : N = Cardinality(Cells)
    BY NebulaAssumption, FS_CardinalityType
  <1>2. All = [n \in 1 .. N |-> CHOOSE c \in Cells : Rank(c) = n - 1]
    BY <1>1 DEF All, Sorted, Rank, Below
  <1>3. ASSUME NEW n \in 1 .. N
        PROVE  All[n] \in Cells /\ Rank(All[n]) = n - 1
    <2>1. n - 1 \in 0 .. (N - 1)
      OBVIOUS
    <2>2. \E c \in Cells : Rank(c) = n - 1
      BY <1>1, <2>1, RankIsBijection
    <2> QED
      BY <1>2, <2>2
  <1>4. \A n, m \in 1 .. N : All[n] = All[m] => n = m
    BY <1>3
  <1>5. ASSUME NEW c \in Cells
        PROVE  \E n \in 1 .. N : All[n] = c
    <2>1. PICK n \in 1 .. N : n = Rank(c) + 1
      BY <1>1, RankBound
    <2>2. All[n] = c
      <3>1. Rank(c) \in Nat /\ n - 1 = Rank(c)
        BY <2>1, RankBound
      <3> QED
        BY <1>3, <3>1, RankIsBijection
    <2> QED
      BY <2>2
  <1>6. DOMAIN All = 1 .. N /\ All = [n \in 1 .. N |-> All[n]]
    BY <1>2
  <1> QED
    BY <1>1, <1>3, <1>4, <1>5, <1>6

\* The scan of contiguous segments is monotonic, from any cell to the next.
LEMMA AllIsMonotonic ==
    ASSUME Contiguous, NEW n \in 1 .. Cardinality(Cells)
    PROVE  /\ enforce_monotonic_commitment(All[n], <<0, 0>>)
           /\ n > 1 => enforce_monotonic_commitment(All[n], All[n - 1])
  <1>1. Cardinality(Cells) \in Nat /\ All[n] \in Cells /\ Rank(All[n]) = n - 1
    BY AllIsSorted
  <1>2. \A c \in Cells : c[1] \in Nat \ {0} /\ c[2] \in Nat /\ c = <<c[1], c[2]>>
    BY NebulaAssumption
  <1>3. enforce_monotonic_commitment(All[n], <<0, 0>>)
    BY <1>1, <1>2 DEF enforce_monotonic_commitment
  <1>4. ASSUME n > 1
        PROVE  enforce_monotonic_commitment(All[n], All[n - 1])
    <2>1. PICK c, d : c = All[n] /\ d = All[n - 1]
      OBVIOUS
    <2>2. c \in Cells /\ d \in Cells /\ Rank(c) = n - 1 /\ Rank(d) = n - 2
      BY <1>1, <1>4, <2>1, AllIsSorted
    <2>3. Before(d, c)
      BY <2>2, BeforeOrders, RankGrows
    <2>4. \A b \in Cells : ~(Before(d, b) /\ Before(b, c))
      BY <2>2, RankGrows
    <2>5. CASE d[1] # c[1]
      BY <1>2, <2>1, <2>2, <2>3, <2>5 DEF Before, enforce_monotonic_commitment
    <2>6. CASE d[1] = c[1]
      <3>1. d[2] < c[2] /\ c[2] \in Nat /\ d[2] \in Nat /\ c[1] \in Nat
        BY <1>2, <2>2, <2>3, <2>6 DEF Before
      <3>2. PICK b \in Cells : b[1] = c[1] /\ b[2] = c[2] - 1
        BY <2>2, <2>6, <3>1 DEF Contiguous
      <3>3. ~(d[2] < c[2] - 1)
        BY <2>4, <2>6, <3>1, <3>2 DEF Before
      <3> QED
        BY <2>1, <2>6, <3>1, <3>3 DEF enforce_monotonic_commitment
    <2> QED
      BY <2>5, <2>6
  <1> QED
    BY <1>3, <1>4

-----------------------------------------------------------------------------
(* Bags of marks                                                           *)

\* The bag of two disjoint sets of positions is the sum of their bags.
LEMMA TallyUnion ==
    ASSUME NEW I, NEW J, IsFiniteSet(I), IsFiniteSet(J), I \cap J = {}
    PROVE  Tally(I) (+) Tally(J) = Tally(I \cup J)
  <1> DEFINE At(K, m) == {q \in K : MarkAt(q) = m}
             n(K, m) == Cardinality(At(K, m))
  <1>1. ASSUME NEW m
        PROVE  /\ n(I \cup J, m) = n(I, m) + n(J, m) /\ n(I, m) \in Nat /\ n(J, m) \in Nat
               /\ m \notin DOMAIN Tally(I) => n(I, m) = 0
               /\ m \notin DOMAIN Tally(J) => n(J, m) = 0
    <2>1. IsFiniteSet(At(I, m)) /\ IsFiniteSet(At(J, m))
      BY FS_Subset
    <2>2. At(I \cup J, m) = At(I, m) \cup At(J, m) /\ At(I, m) \cap At(J, m) = {}
      OBVIOUS
    <2>3. n(I, m) \in Nat /\ n(J, m) \in Nat
      BY <2>1, FS_CardinalityType
    <2>4. n(I \cup J, m) = n(I, m) + n(J, m)
      <3> HIDE DEF At
      <3>1. Cardinality(At(I, m) \cup At(J, m)) = n(I, m) + n(J, m) - Cardinality({})
        BY <2>1, <2>2, FS_Union
      <3>2. Cardinality({}) = 0
        BY FS_EmptySet
      <3>3. n(I \cup J, m) = Cardinality(At(I, m) \cup At(J, m))
        BY <2>2
      <3> HIDE DEF n
      <3> QED
        BY <2>3, <3>1, <3>2, <3>3
    <2>5. m \notin DOMAIN Tally(I) => At(I, m) = {}
      BY DEF Tally
    <2>6. m \notin DOMAIN Tally(J) => At(J, m) = {}
      BY DEF Tally
    <2> HIDE DEF At
    <2> QED
      BY <2>3, <2>4, <2>5, <2>6, FS_EmptySet
  <1>2. DOMAIN Tally(I \cup J) = DOMAIN Tally(I) \cup DOMAIN Tally(J)
    BY DEF Tally
  <1>3. \A m \in DOMAIN Tally(I) : Tally(I)[m] = n(I, m)
    BY DEF Tally
  <1>4. \A m \in DOMAIN Tally(J) : Tally(J)[m] = n(J, m)
    BY DEF Tally
  <1>5. Tally(I \cup J) = [m \in DOMAIN Tally(I \cup J) |-> n(I \cup J, m)]
    BY DEF Tally
  <1> HIDE DEF n, At
  <1> QED
    BY <1>1, <1>2, <1>3, <1>4, <1>5 DEF (+)

LEMMA TallyOne ==
    ASSUME NEW q
    PROVE  Tally({q}) = SetToBag({MarkAt(q)})
  <1>1. {MarkAt(r) : r \in {q}} = {MarkAt(q)}
    OBVIOUS
  <1>2. \A m \in {MarkAt(q)} : {r \in {q} : MarkAt(r) = m} = {q}
    OBVIOUS
  <1>3. Cardinality({q}) = 1
    BY FS_Singleton
  <1> QED
    BY <1>1, <1>2, <1>3 DEF Tally, SetToBag

LEMMA TallyNone == Tally({}) = EmptyBag
  BY DEF Tally, EmptyBag, SetToBag

\* The fingerprints of some cells, each with its k[c]-th entry.
LEMMA ProductIsTally ==
    ASSUME NEW S, IsFiniteSet(S), NEW entry, NEW k, \A c \in S : entry[c] = EntryAt(c, k[c])
    PROVE  /\ Product(S, entry) = Tally({<<c, k[c]>> : c \in S})
           /\ IsFiniteSet({<<c, k[c]>> : c \in S})
  <1> DEFINE T == {<<c, k[c]>> : c \in S}
             At(m) == {c \in S : Mark(c, entry[c]) = m}
             To(m) == {q \in T : MarkAt(q) = m}
  <1>1. \A c \in S : MarkAt(<<c, k[c]>>) = Mark(c, entry[c])
    BY DEF MarkAt
  <1>2. {MarkAt(q) : q \in T} = {Mark(c, entry[c]) : c \in S}
    BY <1>1
  <1>3. ASSUME NEW m
        PROVE  Cardinality(To(m)) = Cardinality(At(m))
    <2> DEFINE f == [c \in At(m) |-> <<c, k[c]>>]
    <2>1. f \in [At(m) -> To(m)]
      BY <1>1
    <2>2. \A q \in To(m) : \E c \in At(m) : f[c] = q
      BY <1>1
    <2>3. \A c, d \in At(m) : f[c] = f[d] => c = d
      OBVIOUS
    <2>4. IsFiniteSet(At(m))
      BY FS_Subset
    <2> HIDE DEF f, At, To
    <2>5. f \in Bijection(At(m), To(m))
      BY <2>1, <2>2, <2>3 DEF Bijection, Injection, Surjection, IsInjective
    <2> QED
      BY <2>4, <2>5, FS_Bijection DEF ExistsBijection
  <1>4. IsFiniteSet(T)
    <2> DEFINE f == [c \in S |-> <<c, k[c]>>]
    <2>1. f \in [S -> T] /\ \A q \in T : \E c \in S : f[c] = q
      OBVIOUS
    <2> HIDE DEF f, T
    <2>2. f \in Surjection(S, T)
      BY <2>1 DEF Surjection
    <2> QED
      BY <2>2, FS_Surjection
  <1>5. Tally(T) = [m \in {MarkAt(q) : q \in T} |-> Cardinality(To(m))]
    BY DEF Tally
  <1>6. Product(S, entry) = [m \in {Mark(c, entry[c]) : c \in S} |-> Cardinality(At(m))]
    BY DEF Product
  <1> HIDE DEF At, To, T
  <1>7. Tally(T) = Product(S, entry)
    BY <1>2, <1>3, <1>5, <1>6
  <1> QED
    BY <1>4, <1>7 DEF T

-----------------------------------------------------------------------------
(* Tracing                                                                 *)

LEMMA ActiveStep ==
    ASSUME NEW p, NEW n \in Nat
    PROVE  /\ Active(p, n) \in Nat
           /\ Active(p, 0) = 0
           /\ p[n + 1].cond => Active(p, n + 1) = Active(p, n) + 1
           /\ ~p[n + 1].cond => Active(p, n + 1) = Active(p, n)
  <1> DEFINE On(m) == {i \in 1 .. m : p[i].cond}
  <1>1. IsFiniteSet(1 .. n)
    BY FS_Interval
  <1>2. IsFiniteSet(On(n)) /\ On(n) \subseteq 1 .. n
    BY <1>1, FS_Subset
  <1>3. On(0) = {} /\ 1 .. (n + 1) = (1 .. n) \cup {n + 1}
    OBVIOUS
  <1>4. p[n + 1].cond => On(n + 1) = On(n) \cup {n + 1}
    BY <1>3
  <1>5. ~p[n + 1].cond => On(n + 1) = On(n)
    BY <1>3
  <1>6. \A m : Active(p, m) = Cardinality(On(m))
    BY DEF Active
  <1> HIDE DEF On
  <1>7. Active(p, n) \in Nat /\ Active(p, 0) = 0
    <2>1. Cardinality(On(n)) \in Nat
      BY <1>2, FS_CardinalityType
    <2>2. Cardinality(On(0)) = 0
      BY <1>3, FS_EmptySet
    <2> QED
      BY <1>6, <2>1, <2>2
  <1>8. n + 1 \notin On(n)
    BY <1>2
  <1>9. p[n + 1].cond => Active(p, n + 1) = Active(p, n) + 1
    BY <1>2, <1>4, <1>6, <1>8, FS_AddElement
  <1> QED
    BY <1>5, <1>6, <1>7, <1>9

LEMMA ActivePrefix ==
    ASSUME NEW p \in Seq(Op), NEW o \in Op, NEW n \in 0 .. Len(p)
    PROVE  Active(Append(p, o), n) = Active(p, n)
  <1>1. \A i \in 1 .. n : Append(p, o)[i] = p[i]
    OBVIOUS
  <1>2. {i \in 1 .. n : Append(p, o)[i].cond} = {i \in 1 .. n : p[i].cond}
    BY <1>1
  <1> QED
    BY <1>2 DEF Active

\* The count of an operation that is on is within the counts.
LEMMA ActiveBound ==
    ASSUME NEW p \in Seq(Op), NEW n \in Nat, NEW i \in 1 .. n
    PROVE  /\ Active(p, i) \in Nat /\ Active(p, n) \in Nat /\ Active(p, i) <= Active(p, n)
           /\ p[i].cond => Active(p, i) \in 1 .. Active(p, n)
  <1>1. IsFiniteSet(1 .. n) /\ IsFiniteSet(1 .. i)
    BY FS_Interval
  <1>2. PICK S, T : S = {j \in 1 .. i : p[j].cond} /\ T = {j \in 1 .. n : p[j].cond}
    OBVIOUS
  <1>3. IsFiniteSet(T) /\ IsFiniteSet(S) /\ S \subseteq T
    BY <1>1, <1>2, FS_Subset
  <1>4. Cardinality(S) \in Nat /\ Cardinality(T) \in Nat /\ Cardinality(S) <= Cardinality(T)
    BY <1>3, FS_Subset, FS_CardinalityType
  <1>5. p[i].cond => S # {}
    BY <1>2
  <1>6. p[i].cond => Cardinality(S) # 0
    BY <1>3, <1>5, FS_EmptySet
  <1> QED
    BY <1>2, <1>4, <1>6 DEF Active

LEMMA LatestEntry ==
    ASSUME Inv, NEW c \in Cells
    PROVE  Latest(c) = EntryAt(c, Len(ws[c])) /\ Len(ws[c]) \in Nat /\ Len(rs[c]) = Len(ws[c])
  <1>1. ws[c] \in Seq(Entry) /\ is[c] = MemOp(InitialValue[c], 0) /\ Len(rs[c]) = Len(ws[c])
    BY DEF Inv, Typed, QueuesLinked
  <1> QED
    BY <1>1 DEF Latest, Last, EntryAt

\* An operation reads the latest entry and writes a later one.
LEMMA TraceLinked ==
    ASSUME Inv, Linked, NEW cond \in BOOLEAN, NEW c \in Cells, NEW v \in Values \cup {None},
           Trace(cond, c, v)
    PROVE  Linked'
  <1>1. ts \in Nat /\ ts' = IF cond THEN ts + 1 ELSE ts
    BY DEF Inv, Typed, Trace, perform_memory_operation
  <1>2. PICK w : w = MemOp(IF v = None THEN Latest(c).values ELSE v, ts + 1)
    OBVIOUS
  <1>3. /\ \A d \in Cells : ~(cond /\ d = c) => rs'[d] = rs[d] /\ ws'[d] = ws[d]
        /\ cond => rs'[c] = Append(rs[c], Latest(c)) /\ ws'[c] = Append(ws[c], w)
    BY <1>2, TraceGrows, ZenonT(30)
  <1> SUFFICES ASSUME NEW d \in Cells, NEW k \in 1 .. Len(ws'[d])
               PROVE  /\ rs'[d][k] = EntryAt(d, k - 1)'
                      /\ ws'[d][k].timestamp <= ts'
                      /\ \A i \in 0 .. (k - 1) : EntryAt(d, i)'.timestamp < ws'[d][k].timestamp
    BY DEF Linked, EntryAt
  <1>4. /\ ws[d] \in Seq(Entry) /\ rs[d] \in Seq(Entry) /\ Len(rs[d]) = Len(ws[d])
        /\ Len(ws[d]) \in Nat /\ Latest(d) = EntryAt(d, Len(ws[d]))
    BY LatestEntry DEF Inv, Typed
  <1>5. ASSUME NEW j \in 1 .. Len(ws[d])
        PROVE  /\ rs[d][j] = EntryAt(d, j - 1)
               /\ ws[d][j].timestamp <= ts /\ ws[d][j].timestamp \in Nat
               /\ \A i \in 0 .. (j - 1) : EntryAt(d, i).timestamp < ws[d][j].timestamp
    <2>1. ws[d][j] \in Entry
      BY <1>4
    <2> QED
      BY <2>1 DEF Linked, Entry
  <1>6. CASE ~(cond /\ d = c)
    <2>1. rs'[d] = rs[d] /\ ws'[d] = ws[d]
      BY <1>3, <1>6
    <2>2. \A i : EntryAt(d, i)' = EntryAt(d, i)
      BY <2>1 DEF EntryAt
    <2>3. k \in 1 .. Len(ws[d]) /\ ts <= ts'
      BY <1>1, <2>1
    <2>4. ws[d][k].timestamp <= ts' /\ rs[d][k] = EntryAt(d, k - 1)
      BY <1>1, <1>5, <2>3
    <2>5. \A i \in 0 .. (k - 1) : EntryAt(d, i).timestamp < ws[d][k].timestamp
      BY <1>5, <2>3
    <2> QED
      BY <2>1, <2>2, <2>4, <2>5
  <1>7. CASE cond /\ d = c
    <2>1. rs'[d] = Append(rs[d], Latest(d)) /\ ws'[d] = Append(ws[d], w)
      BY <1>3, <1>7
    <2>2. /\ Len(ws'[d]) = Len(ws[d]) + 1
          /\ \A j \in 1 .. Len(ws[d]) : ws'[d][j] = ws[d][j] /\ rs'[d][j] = rs[d][j]
          /\ ws'[d][Len(ws[d]) + 1] = w /\ rs'[d][Len(ws[d]) + 1] = Latest(d)
      BY <1>4, <2>1
    <2>3. \A i \in 0 .. Len(ws[d]) : EntryAt(d, i)' = EntryAt(d, i)
      BY <1>4, <2>2 DEF EntryAt
    <2>4. CASE k <= Len(ws[d])
      <3>1. k \in 1 .. Len(ws[d]) /\ k - 1 \in 0 .. Len(ws[d])
        BY <1>4, <2>4
      <3>2. \A i \in 0 .. (k - 1) : i \in 0 .. Len(ws[d])
        BY <3>1
      <3>3. ws'[d][k] = ws[d][k] /\ rs'[d][k] = rs[d][k] /\ EntryAt(d, k - 1)' = EntryAt(d, k - 1)
        BY <2>2, <2>3, <3>1
      <3>4. ws[d][k].timestamp <= ts /\ ws[d][k].timestamp \in Nat /\ ts' = ts + 1
        BY <1>1, <1>5, <1>7, <3>1
      <3>5. ws'[d][k].timestamp <= ts'
        BY <1>1, <3>3, <3>4
      <3>6. \A i \in 0 .. (k - 1) : EntryAt(d, i)'.timestamp < ws'[d][k].timestamp
        BY <1>5, <2>3, <3>1, <3>2, <3>3
      <3> QED
        BY <1>5, <3>1, <3>3, <3>5, <3>6
    <2>5. CASE k = Len(ws[d]) + 1
      <3>1. w.timestamp = ts + 1
        BY <1>2 DEF MemOp
      <3>2. \A i \in 0 .. Len(ws[d]) : EntryAt(d, i).timestamp <= ts
        <4>1. EntryAt(d, 0).timestamp = 0
          BY DEF EntryAt, MemOp
        <4>2. \A i \in 1 .. Len(ws[d]) : EntryAt(d, i) = ws[d][i]
          BY DEF EntryAt
        <4> QED
          BY <1>1, <1>4, <1>5, <4>1, <4>2
      <3>3. \A i \in 0 .. Len(ws[d]) : EntryAt(d, i).timestamp \in Nat
        <4>1. EntryAt(d, 0).timestamp = 0
          BY DEF EntryAt, MemOp
        <4>2. \A i \in 1 .. Len(ws[d]) : EntryAt(d, i) = ws[d][i]
          BY DEF EntryAt
        <4> QED
          BY <1>4, <1>5, <4>1, <4>2
      <3>4. k - 1 = Len(ws[d])
        BY <1>4, <2>5
      <3>5. rs'[d][k] = EntryAt(d, k - 1)' /\ ws'[d][k] = w
        BY <1>4, <2>2, <2>3, <2>5, <3>4
      <3>6. \A i \in 0 .. (k - 1) : EntryAt(d, i)'.timestamp < w.timestamp
        BY <1>1, <2>3, <3>1, <3>2, <3>3, <3>4
      <3> QED
        BY <1>1, <1>7, <3>1, <3>5, <3>6
    <2> QED
      BY <1>4, <2>2, <2>4, <2>5
  <1> QED
    BY <1>6, <1>7

\* An operation that is on adds its two entries to the chain.
LEMMA TraceChain ==
    ASSUME Inv, ChainFollowsProgram,
           NEW cond \in BOOLEAN, NEW c \in Cells, NEW v \in Values \cup {None},
           Trace(cond, c, v)
    PROVE  ChainFollowsProgram'
  <1>1. PICK n \in Nat : n = Len(program)
    BY DEF Inv, Typed
  <1>2. PICK o : /\ program' = Append(program, o) /\ o \in Op
                 /\ (o.cond <=> cond) /\ o.cell = c
                 /\ Len(program') = n + 1 /\ program'[n + 1] = o
                 /\ \A i \in 1 .. n : program'[i] = program[i]
    <2>1. PICK o : o = [cond |-> cond, cell |-> c, val |-> v]
      OBVIOUS
    <2>2. /\ program' = Append(program, o) /\ o \in Op
          /\ Len(program') = n + 1 /\ program'[n + 1] = o
          /\ \A i \in 1 .. n : program'[i] = program[i]
      BY <1>1, <2>1, TraceGrows
    <2>3. (o.cond <=> cond) /\ o.cell = c
      BY <2>1
    <2> QED
      BY <2>2, <2>3
  <1>3. program \in Seq(Op) /\ program' \in Seq(Op)
    BY TraceGrows DEF Inv, Typed
  <1>4. PICK w : w = MemOp(IF v = None THEN Latest(c).values ELSE v, ts + 1)
    OBVIOUS
  <1>5. /\ \A d \in Cells : ~(cond /\ d = c) => rs'[d] = rs[d] /\ ws'[d] = ws[d]
        /\ cond => rs'[c] = Append(rs[c], Latest(c)) /\ ws'[c] = Append(ws[c], w)
    BY <1>4, TraceGrows, ZenonT(30)
  <1>6. chain' = IF cond THEN Append(chain, <<c, Latest(c), w>>) ELSE chain
    BY <1>4 DEF Trace, perform_memory_operation
  <1>7. \A i \in 0 .. n : Active(program', i) = Active(program, i)
    BY <1>1, <1>2, <1>3, ActivePrefix
  <1>8. /\ Active(program, n) \in Nat
        /\ Active(program', n + 1) = IF cond THEN Active(program, n) + 1 ELSE Active(program, n)
    <2>1. Active(program', n) = Active(program, n)
      BY <1>1, <1>7
    <2>2. program'[n + 1].cond <=> cond
      BY <1>2
    <2>3. /\ Active(program', n) \in Nat
          /\ program'[n + 1].cond => Active(program', n + 1) = Active(program', n) + 1
          /\ ~program'[n + 1].cond => Active(program', n + 1) = Active(program', n)
      BY <1>1, ActiveStep
    <2> QED
      BY <2>1, <2>2, <2>3
  <1>9. chain \in Seq(Commit) /\ Len(chain) = Active(program, n)
    BY <1>1 DEF ChainFollowsProgram
  <1>10. \A d \in Cells, i \in 0 .. n : Count(program', d, i) = Count(program, d, i)
    BY <1>1, <1>2, <1>3, CountPrefix
  <1>11. ws[c] \in Seq(Entry) /\ rs[c] \in Seq(Entry) /\ Len(rs[c]) = Len(ws[c])
    BY DEF Inv, Typed, QueuesLinked
  <1>12. cond => <<c, Latest(c), w>> \in Commit
    <2>1. Latest(c) \in Entry /\ ts \in Nat
      BY LatestValue DEF Inv, Typed
    <2>2. w \in Entry
      BY <1>4, <2>1 DEF MemOp, Entry
    <2> QED
      BY <2>1, <2>2 DEF Commit
  <1>13. chain' \in Seq(Commit) /\ Len(chain') = Active(program', Len(program'))
    <2>1. PICK e : e = <<c, Latest(c), w>>
      OBVIOUS
    <2> QED
      BY <1>2, <1>6, <1>8, <1>9, <1>12, <2>1
  <1>14. ASSUME NEW i \in 1 .. Len(program'), program'[i].cond,
                NEW d, d = program'[i].cell, NEW k, k = Count(program', d, i)
         PROVE  chain'[Active(program', i)] = <<d, rs'[d][k], ws'[d][k]>>
    <2>1. CASE i \in 1 .. n
      <3>1. program'[i] = program[i] /\ program[i] \in Op
        BY <1>1, <1>2, <1>3, <2>1
      <3>2. d \in Cells /\ d = program[i].cell /\ program[i].cond
        BY <1>14, <3>1 DEF Op
      <3>3. k = Count(program, d, i) /\ Active(program', i) = Active(program, i)
        BY <1>7, <1>10, <1>14, <2>1, <3>2
      <3>4. chain[Active(program, i)] = <<d, rs[d][k], ws[d][k]>>
        BY <1>1, <2>1, <3>2, <3>3 DEF ChainFollowsProgram
      <3>5. k \in 1 .. Len(ws[d])
        BY <1>1, <2>1, <3>2, <3>3 DEF Inv, QueuesFollowProgram
      <3>6. rs'[d][k] = rs[d][k] /\ ws'[d][k] = ws[d][k]
        BY <1>5, <1>11, <3>2, <3>5
      <3>7. Active(program, i) \in 1 .. Len(chain)
        BY <1>1, <1>3, <1>9, <2>1, <3>2, ActiveBound
      <3>8. chain'[Active(program, i)] = chain[Active(program, i)]
        <4>1. PICK e : e = <<c, Latest(c), w>>
          OBVIOUS
        <4> QED
          BY <1>6, <1>9, <3>7, <4>1
      <3> QED
        BY <3>3, <3>4, <3>6, <3>8
    <2>2. CASE i = n + 1
      <3>1. cond /\ d = c
        BY <1>2, <1>14, <2>2
      <3>2. k = Len(ws[c]) + 1
        <4>1. Count(program', c, n) = Len(ws[c])
          BY <1>1, <1>10 DEF Inv, QueuesLinked
        <4>2. program'[n + 1].cond /\ program'[n + 1].cell = c
                => Count(program', c, n + 1) = Count(program', c, n) + 1
          BY <1>1, CountStep
        <4> QED
          BY <1>2, <1>14, <2>2, <3>1, <4>1, <4>2
      <3>3. rs'[d][k] = Latest(c) /\ ws'[d][k] = w
        BY <1>5, <1>11, <3>1, <3>2
      <3>4. Active(program', i) = Len(chain) + 1
        BY <1>8, <1>9, <2>2, <3>1
      <3>5. chain'[Len(chain) + 1] = <<c, Latest(c), w>>
        <4>1. PICK e : e = <<c, Latest(c), w>>
          OBVIOUS
        <4> QED
          BY <1>6, <1>9, <3>1, <4>1
      <3> QED
        BY <3>1, <3>3, <3>4, <3>5
    <2> QED
      BY <1>1, <1>2, <2>1, <2>2
  <1> QED
    BY <1>13, <1>14 DEF ChainFollowsProgram

LEMMA TraceProofInv ==
    ASSUME ProofInv, NEW cond \in BOOLEAN, NEW c \in Cells, NEW v \in Values \cup {None},
           Trace(cond, c, v)
    PROVE  ProofInv'
  <1>1. Inv' /\ Linked' /\ ChainFollowsProgram'
    BY TraceInv, TraceLinked, TraceChain DEF ProofInv
  <1>2. phase = "Tracing" /\ phase' = "Tracing" /\ UNCHANGED <<is, circuit>>
    BY DEF Trace
  <1>3. NotStarted'
    BY <1>2 DEF ProofInv, NotStarted, circuit
  <1> QED
    BY <1>1, <1>2, <1>3 DEF ProofInv

-----------------------------------------------------------------------------
(* constraints()                                                           *)

LEMMA MaxIs ==
    ASSUME NEW S, NEW n \in S, S \subseteq Nat, \A m \in S : m <= n
    PROVE  Max(S) = n
  <1>1. \A x \in S : (\A y \in S : x >= y) <=> x = n
    OBVIOUS
  <1> QED
    BY <1>1 DEF Max

\* The last entry of a cell is the only one that nobody can have read.
LEMMA LastIsUnread ==
    ASSUME Inv, Linked, NEW c \in Cells
    PROVE  ~Contains(rs[c], EntryAt(c, Len(ws[c])))
  <1>1. Len(ws[c]) \in Nat /\ Len(rs[c]) = Len(ws[c])
    BY LatestEntry
  <1> SUFFICES ASSUME NEW i \in 1 .. Len(rs[c]), rs[c][i] = EntryAt(c, Len(ws[c]))
               PROVE  FALSE
    BY DEF Contains
  <1>2. Len(ws[c]) \in 1 .. Len(ws[c]) /\ i \in 1 .. Len(ws[c])
    BY <1>1
  <1>3. rs[c][i] = EntryAt(c, i - 1)
    BY <1>2 DEF Linked
  <1>4. i - 1 \in 0 .. (Len(ws[c]) - 1)
    BY <1>1, <1>2
  <1>5. EntryAt(c, i - 1).timestamp < ws[c][Len(ws[c])].timestamp
    BY <1>2, <1>4 DEF Linked
  <1>6. EntryAt(c, Len(ws[c])) = ws[c][Len(ws[c])]
    BY <1>1, <1>2 DEF EntryAt
  <1>7. ws[c][Len(ws[c])].timestamp \in Nat
    <2>1. ws[c] \in Seq(Entry)
      BY DEF Inv, Typed
    <2>2. ws[c][Len(ws[c])] \in Entry
      BY <1>2, <2>1
    <2> QED
      BY <2>2 DEF Entry
  <1>8. EntryAt(c, i - 1) = ws[c][Len(ws[c])]
    BY <1>3, <1>6
  <1>9. ws[c][Len(ws[c])].timestamp < ws[c][Len(ws[c])].timestamp
    BY <1>5, <1>8
  <1> QED
    BY <1>7, <1>9

LEMMA FinalIsLast ==
    ASSUME Inv, Linked, NEW padded, padded = [c \in Cells |-> MemOp(InitialValue[c], 0)]
    PROVE  FinalEntries(padded) = [c \in Cells |-> EntryAt(c, Len(ws[c]))]
  <1> DEFINE entries(c) == <<padded[c]>> \o (IF c \in Cells THEN ws[c] ELSE <<>>)
             unread(c) == {k \in DOMAIN entries(c) :
                             c \in Cells => ~Contains(rs[c], entries(c)[k])}
  <1>1. ASSUME NEW c \in Cells
        PROVE  /\ unread(c) # {}
               /\ entries(c)[Max(unread(c))] = EntryAt(c, Len(ws[c]))
    <2>1. ws[c] \in Seq(Entry) /\ Len(ws[c]) \in Nat
      BY DEF Inv, Typed
    <2>2. PICK L \in Nat : L = Len(ws[c])
      BY <2>1
    <2>3. PICK a : a = MemOp(InitialValue[c], 0)
      OBVIOUS
    <2>4. entries(c) = <<a>> \o ws[c]
      BY <2>3
    <2>5. a \in Entry
      BY <2>3, NebulaAssumption DEF MemOp, Entry
    <2>6. DOMAIN entries(c) = 1 .. (L + 1)
      BY <2>1, <2>2, <2>4, <2>5
    <2>7. entries(c)[L + 1] = EntryAt(c, L)
      <3>1. CASE L = 0
        BY <2>1, <2>2, <2>3, <2>4, <2>5, <3>1 DEF EntryAt
      <3>2. CASE L # 0
        BY <2>1, <2>2, <2>4, <2>5, <3>2 DEF EntryAt
      <3> QED
        BY <3>1, <3>2
    <2>8. ~Contains(rs[c], entries(c)[L + 1])
      BY <2>2, <2>7, LastIsUnread
    <2> HIDE DEF entries
    <2>9. L + 1 \in unread(c) /\ unread(c) \subseteq 1 .. (L + 1)
      BY <2>2, <2>6, <2>8
    <2> HIDE DEF unread
    <2>10. Max(unread(c)) = L + 1
      BY <2>2, <2>9, MaxIs
    <2> QED
      BY <2>2, <2>7, <2>9, <2>10
  <1>2. FinalEntries(padded)
          = [c \in {d \in DOMAIN padded : unread(d) # {}} |-> entries(c)[Max(unread(c))]]
    BY DEF FinalEntries
  <1>3. DOMAIN padded = Cells
    OBVIOUS
  <1> HIDE DEF entries, unread
  <1>4. {d \in DOMAIN padded : unread(d) # {}} = Cells
    BY <1>1, <1>3
  <1> QED
    BY <1>1, <1>2, <1>4

LEMMA NoPadding == ASSUME WholeBatches PROVE PaddingCells = {}
  <1>1. PICK B \in Nat \ {0} : B = SCAN_BATCH_SIZE
    BY NebulaAssumption
  <1>2. (B - (Cardinality(Cells) % B)) % B = 0
    <2>1. Cardinality(Cells) % B = 0
      BY <1>1 DEF WholeBatches
    <2>2. B - 0 = B /\ B % B = 0
      OBVIOUS
    <2> QED
      BY <2>1, <2>2
  <1>3. 0 .. (((B - (Cardinality(Cells) % B)) % B) - 1) = {}
    BY <1>2
  <1> QED
    BY <1>1, <1>3 DEF PaddingCells

LEMMA DoneAtStart == ASSUME step = 0 PROVE Done = 0 /\ Scanned = {}
  <1>1. SCAN_BATCH_SIZE * 0 = 0 /\ 0 <= Cardinality(Cells)
    BY NebulaAssumption, AllIsSorted
  <1>2. Done = 0
    BY <1>1 DEF Done
  <1> QED
    BY <1>2 DEF Scanned

\* The circuit starts with everything still to be scanned and replayed.
LEMMA ConstraintsProofInv ==
    ASSUME WholeBatches, ProofInv, constraints
    PROVE  ProofInv'
  <1>1. /\ phase = "Tracing" /\ phase' = "Proving" /\ Inv' /\ NotStarted /\ Inv /\ Linked
        /\ UNCHANGED <<program, rs, ws, ts, chain, circuit>>
        /\ required_steps <= Len(program)
    <2>1. phase = "Tracing" /\ phase' = "Proving" /\ Len(program) >= required_steps
      BY DEF constraints
    <2>2. UNCHANGED <<program, rs, ws, ts, chain, circuit>>
      BY DEF constraints
    <2>3. Inv' /\ Inv /\ Linked /\ NotStarted
      BY <2>1, ConstraintsInv DEF ProofInv
    <2> QED
      BY <2>1, <2>2, <2>3
  <1>2. PICK padded : /\ padded = [c \in Cells \cup PaddingCells |->
                                     IF c \in Cells THEN is[c] ELSE padding]
                      /\ is' = padded /\ fs' = FinalEntries(padded)
    BY DEF constraints
  <1>3. padded = [c \in Cells |-> MemOp(InitialValue[c], 0)]
    <2>1. padded = [c \in Cells |-> is[c]]
      BY <1>2, NoPadding
    <2> QED
      BY <1>1, <2>1 DEF NotStarted
  <1>4. fs' = [c \in Cells |-> EntryAt(c, Len(ws[c]))]
    BY <1>1, <1>2, <1>3, FinalIsLast
  <1>5. \A c, k : EntryAt(c, k)' = EntryAt(c, k)
    BY <1>1 DEF EntryAt
  <1>6. Prepared'
    BY <1>1, <1>2, <1>3, <1>4, <1>5 DEF Prepared, required_steps
  <1>7. Linked' /\ ChainFollowsProgram'
    BY <1>1, <1>5 DEF ProofInv, Linked, ChainFollowsProgram
  <1>8. step = 0 /\ step' = 0 /\ \A c \in Cells : popped[c] = 0 /\ popped'[c] = 0
    <2>1. step = 0
      BY <1>1 DEF Inv, ReplayFollowsProgram
    <2>2. \A c \in Cells : popped[c] = Count(program, c, 0)
      BY <1>1, <2>1 DEF Inv, ReplayFollowsProgram
    <2>3. \A c \in Cells : popped[c] = 0
      BY <2>2, CountStep
    <2> QED
      BY <1>1, <2>1, <2>3 DEF circuit
  <1>9. ChainReplayed'
    <2>1. chain2' = <<>>
      BY <1>1 DEF NotStarted, circuit
    <2>2. Active(program', step') = 0
      BY <1>8, ActiveStep
    <2> QED
      BY <2>1, <2>2 DEF ChainReplayed
  <1>10. Done' = 0 /\ Scanned' = {}
    <2>1. Done = 0 /\ Scanned = {}
      BY <1>8, DoneAtStart
    <2>2. Done' = Done /\ Scanned' = Scanned
      BY <1>8 DEF Done, Scanned
    <2> QED
      BY <2>1, <2>2
  <1>11. ScanReplayed'
    <2>1. scanned' = <<>> /\ last_addr' = <<0, 0>>
      BY <1>1 DEF NotStarted, circuit
    <2> QED
      BY <1>8, <1>10, <2>1 DEF ScanReplayed
  <1>12. PrintsFollow'
    <2>1. prints' = [s \in {"is", "fs", "rs", "ws"} |-> EmptyBag]
      BY <1>1 DEF NotStarted, circuit
    <2>2. ReadAt' = {} /\ WrittenAt' = {}
      BY <1>8 DEF ReadAt, WrittenAt
    <2>3. {<<c, 0>> : c \in Scanned'} = {} /\ {<<c, Len(ws'[c])>> : c \in Scanned'} = {}
      BY <1>10
    <2>4. Tally({})' = EmptyBag
      BY DEF Tally, EmptyBag, SetToBag
    <2>5. IsFiniteSet({})
      BY FS_EmptySet
    <2> QED
      BY <2>1, <2>2, <2>3, <2>4, <2>5 DEF PrintsFollow
  <1> QED
    BY <1>1, <1>6, <1>7, <1>9, <1>11, <1>12 DEF ProofInv

LEMMA ProofInvInit == Init => ProofInv
  <1> SUFFICES ASSUME Init PROVE ProofInv
    OBVIOUS
  <1>1. Inv
    BY InitInv
  <1>2. program = <<>> /\ Len(program) = 0 /\ chain = <<>> /\ \A c \in Cells : ws[c] = <<>>
    BY DEF Init
  <1>3. Linked
    BY <1>2 DEF Linked
  <1>4. ChainFollowsProgram
    BY <1>2, ActiveStep DEF ChainFollowsProgram
  <1>5. phase = "Tracing" /\ NotStarted
    BY DEF Init, NotStarted
  <1> QED
    BY <1>1, <1>3, <1>4, <1>5 DEF ProofInv

-----------------------------------------------------------------------------
(* The scan of a step                                                      *)

LEMMA FunctionIsSeq ==
    ASSUME NEW n \in Nat, NEW S, NEW f \in [1 .. n -> S]
    PROVE  f \in Seq(S) /\ Len(f) = n
  <1>1. f \in Seq(S)
    BY SeqDef
  <1>2. Len(f) \in Nat /\ DOMAIN f = 1 .. Len(f)
    BY <1>1, LenProperties
  <1>3. 1 .. Len(f) = 1 .. n
    BY <1>2
  <1>4. Len(f) = n
    BY <1>2, <1>3
  <1> QED
    BY <1>1, <1>4

Joined(f, m, g, n) == [i \in 1 .. (m + n) |-> IF i <= m THEN f[i] ELSE g[i - m]]

LEMMA ConcatFunctions ==
    ASSUME NEW m \in Nat, NEW n \in Nat, NEW S, NEW f \in [1 .. m -> S], NEW g \in [1 .. n -> S]
    PROVE  f \o g = Joined(f, m, g, n)
  <1>1. f \in Seq(S) /\ Len(f) = m /\ g \in Seq(S) /\ Len(g) = n
    BY FunctionIsSeq
  <1>2. /\ f \o g \in Seq(S) /\ Len(f \o g) = m + n
        /\ \A i \in 1 .. (m + n) : (f \o g)[i] = IF i <= m THEN f[i] ELSE g[i - m]
    BY <1>1, ConcatProperties
  <1>3. f \o g = [i \in 1 .. (m + n) |-> (f \o g)[i]]
    BY <1>2, LenProperties
  <1> QED
    BY <1>2, <1>3 DEF Joined

LEMMA BatchArithmetic ==
    ASSUME NEW B \in Nat \ {0}, NEW N \in Nat, N % B = 0, NEW k \in Nat
    PROVE  /\ N \div B \in Nat
           /\ B * k \in Nat /\ B * (k + 1) = B * k + B
           /\ B * k < N => B * k + B <= N
           /\ k >= N \div B => B * k >= N
  <1>1. PICK m \in Nat : m = N \div B
    OBVIOUS
  <1>2. N = B * m
    BY <1>1
  <1>3. B * k \in Nat /\ B * (k + 1) = B * k + B
    OBVIOUS
  <1>4. ASSUME NEW d \in Nat PROVE B * d \in Nat
    OBVIOUS
  <1>5. ASSUME k >= m PROVE B * k >= N
    <2>1. PICK d \in Nat : k = m + d
      BY <1>5
    <2>2. B * k = B * m + B * d
      BY <2>1
    <2> QED
      BY <1>2, <1>4, <2>2
  <1>6. ASSUME B * k < N PROVE B * k + B <= N
    <2>1. k < m
      BY <1>5, <1>6, <1>3
    <2>2. PICK d \in Nat : m = k + 1 + d
      <3>1. m - k - 1 \in Nat /\ m = k + 1 + (m - k - 1)
        BY <2>1
      <3> QED
        BY <3>1
    <2>3. N = B * k + B + B * d
      BY <1>2, <2>2
    <2> QED
      BY <1>3, <1>4, <2>3
  <1> QED
    BY <1>1, <1>3, <1>5, <1>6

LEMMA AllIsSeq == All \in Seq(Cells) /\ Len(All) = Cardinality(Cells)
  <1>1. PICK N \in Nat : N = Cardinality(Cells)
    BY AllIsSorted
  <1>2. All \in [1 .. N -> Cells]
    BY <1>1, AllIsSorted
  <1> QED
    BY <1>1, <1>2, FunctionIsSeq

\* What is committed and multiplied for the rows of a step.
LEMMA ScanOfRows ==
    ASSUME Prepared, NEW rows, NEW a \in Nat,
           {j \in DOMAIN rows : rows[j][1] # 0} = 1 .. a, \A j \in 1 .. a : rows[j] \in Cells
    PROVE  /\ Scan(rows).last = rows[SCAN_BATCH_SIZE]
           /\ Scan(rows).commits = [j \in 1 .. a |-> <<rows[j], is[rows[j]], fs[rows[j]]>>]
           /\ Scan(rows).is = Product({rows[j] : j \in 1 .. a}, is)
           /\ Scan(rows).fs = Product({rows[j] : j \in 1 .. a}, fs)
           /\ Scan(rows).ok <=>
                \A j \in DOMAIN rows :
                    enforce_monotonic_commitment(rows[j], IF j = 1 THEN last_addr ELSE rows[j - 1])
  <1>1. Cardinality(1 .. a) = a
    BY FS_Interval
  <1>2. \A c \in Cells : FinalEntry(c) = fs[c]
    BY DEF Prepared, FinalEntry
  <1>3. [c \in DOMAIN is |-> FinalEntry(c)] = fs
    BY <1>2 DEF Prepared
  <1>4. Scan(rows).last = rows[SCAN_BATCH_SIZE]
    BY DEF Scan
  <1>5. Scan(rows).commits = [j \in 1 .. Cardinality({i \in DOMAIN rows : rows[i][1] # 0}) |->
                                <<rows[j], is[rows[j]], FinalEntry(rows[j])>>]
    BY DEF Scan
  <1>6. Scan(rows).is = Product({rows[j] : j \in {i \in DOMAIN rows : rows[i][1] # 0}}, is)
    BY DEF Scan
  <1>7. Scan(rows).fs = Product({rows[j] : j \in {i \in DOMAIN rows : rows[i][1] # 0}},
                                [c \in DOMAIN is |-> FinalEntry(c)])
    BY DEF Scan
  <1>8. Scan(rows).ok = (\A j \in DOMAIN rows :
          enforce_monotonic_commitment(rows[j], IF j = 1 THEN last_addr ELSE rows[j - 1]))
    BY DEF Scan
  <1>9. Scan(rows).commits = [j \in 1 .. a |-> <<rows[j], is[rows[j]], fs[rows[j]]>>]
    BY <1>1, <1>2, <1>5
  <1> QED
    BY <1>3, <1>4, <1>6, <1>7, <1>8, <1>9

ScansBatch(s, k, B) ==
    /\ s.ok /\ s.last = All[k + B]
    /\ s.commits = [j \in 1 .. B |-> <<All[k + j], is[All[k + j]], fs[All[k + j]]>>]
    /\ s.is = Product({All[k + j] : j \in 1 .. B}, is)
    /\ s.fs = Product({All[k + j] : j \in 1 .. B}, fs)

LEMMA ScanFull ==
    ASSUME Contiguous, Prepared, ScanReplayed, step \in Nat,
           NEW B \in Nat \ {0}, B = SCAN_BATCH_SIZE, NEW k \in Nat, k = B * step,
           k + B <= Cardinality(Cells), NEW s, s = Scan(ScanRows(step))
    PROVE  ScansBatch(s, k, B)
  <1>1. PICK N \in Nat : N = Cardinality(Cells) /\ k + B <= N
    BY AllIsSorted
  <1>2. Sorted(DOMAIN is) = All /\ Len(All) = N
    BY <1>1, AllIsSeq DEF Prepared, All
  <1>3. PICK rows : rows = ScanRows(step)
    OBVIOUS
  <1>4. rows = [j \in 1 .. B |-> All[k + j]]
    <2>1. rows = [j \in 1 .. B |-> IF k + j <= Len(All) THEN All[k + j] ELSE <<0, 0>>]
      BY <1>2, <1>3 DEF ScanRows
    <2> QED
      BY <1>1, <1>2, <2>1
  <1>5. \A j \in 1 .. B : k + j \in 1 .. N /\ rows[j] \in Cells /\ rows[j][1] # 0
    <2>1. \A j \in 1 .. B : k + j \in 1 .. N
      BY <1>1
    <2>2. \A n \in 1 .. N : All[n] \in Cells /\ All[n][1] # 0
      BY <1>1, AllIsSorted, NebulaAssumption
    <2> QED
      BY <1>4, <2>1, <2>2
  <1>6. {j \in DOMAIN rows : rows[j][1] # 0} = 1 .. B
    BY <1>4, <1>5
  <1>7. /\ s.last = rows[B]
        /\ s.commits = [j \in 1 .. B |-> <<rows[j], is[rows[j]], fs[rows[j]]>>]
        /\ s.is = Product({rows[j] : j \in 1 .. B}, is)
        /\ s.fs = Product({rows[j] : j \in 1 .. B}, fs)
        /\ s.ok <=> \A j \in DOMAIN rows :
             enforce_monotonic_commitment(rows[j], IF j = 1 THEN last_addr ELSE rows[j - 1])
    <2>1. s = Scan(rows) /\ B \in Nat /\ \A j \in 1 .. B : rows[j] \in Cells
      BY <1>3, <1>5
    <2>2. {j \in DOMAIN rows : rows[j][1] # 0} = 1 .. B
      BY <1>6
    <2>3. /\ Scan(rows).last = rows[SCAN_BATCH_SIZE]
          /\ Scan(rows).commits = [j \in 1 .. B |-> <<rows[j], is[rows[j]], fs[rows[j]]>>]
          /\ Scan(rows).is = Product({rows[j] : j \in 1 .. B}, is)
          /\ Scan(rows).fs = Product({rows[j] : j \in 1 .. B}, fs)
          /\ Scan(rows).ok <=> \A j \in DOMAIN rows :
               enforce_monotonic_commitment(rows[j], IF j = 1 THEN last_addr ELSE rows[j - 1])
      BY <2>1, <2>2, ScanOfRows, Zenon
    <2> QED
      BY <2>1, <2>3
  <1>8. ASSUME NEW j \in 1 .. B
        PROVE  enforce_monotonic_commitment(rows[j], IF j = 1 THEN last_addr ELSE rows[j - 1])
    <2>1. k + j \in 1 .. Cardinality(Cells) /\ rows[j] = All[k + j]
      BY <1>1, <1>4, <1>5
    <2>2. /\ enforce_monotonic_commitment(All[k + j], <<0, 0>>)
          /\ k + j > 1 => enforce_monotonic_commitment(All[k + j], All[k + j - 1])
      BY <2>1, AllIsMonotonic
    <2>3. CASE j = 1
      <3>1. last_addr = <<0, 0>> \/ (k > 0 /\ last_addr = All[k])
        <4>1. step > 0 => k > 0
          OBVIOUS
        <4> QED
          BY <4>1 DEF ScanReplayed
      <3>2. k + j - 1 = k
        BY <2>3
      <3> QED
        BY <2>1, <2>2, <2>3, <3>1, <3>2
    <2>4. CASE j # 1
      <3>1. j - 1 \in 1 .. B /\ k + (j - 1) = k + j - 1 /\ k + j > 1
        BY <2>4
      <3>2. rows[j - 1] = All[k + j - 1]
        BY <1>4, <3>1
      <3> QED
        BY <2>1, <2>2, <2>4, <3>1, <3>2
    <2> QED
      BY <2>3, <2>4
  <1>9. s.ok
    BY <1>4, <1>7, <1>8
  <1>10. s.last = All[k + B]
    BY <1>4, <1>7
  <1>11. s.commits = [j \in 1 .. B |-> <<All[k + j], is[All[k + j]], fs[All[k + j]]>>]
    BY <1>4, <1>7
  <1>12. {rows[j] : j \in 1 .. B} = {All[k + j] : j \in 1 .. B}
    BY <1>4
  <1> QED
    BY <1>7, <1>9, <1>10, <1>11, <1>12 DEF ScansBatch

\* Once all cells are scanned the rows are padding.
LEMMA ScanPast ==
    ASSUME Prepared, step \in Nat,
           NEW B \in Nat \ {0}, B = SCAN_BATCH_SIZE, NEW k \in Nat, k = B * step,
           k >= Cardinality(Cells), NEW s, s = Scan(ScanRows(step))
    PROVE  /\ s.ok /\ s.last = <<0, 0>> /\ s.commits = <<>>
           /\ s.is = Product({}, is) /\ s.fs = Product({}, fs)
  <1>1. PICK N \in Nat : N = Cardinality(Cells) /\ k >= N
    BY AllIsSorted
  <1>2. Sorted(DOMAIN is) = All /\ Len(All) = N
    BY <1>1, AllIsSeq DEF Prepared, All
  <1>3. PICK rows : rows = ScanRows(step)
    OBVIOUS
  <1>4. rows = [j \in 1 .. B |-> <<0, 0>>]
    <2>1. rows = [j \in 1 .. B |-> IF k + j <= Len(All) THEN All[k + j] ELSE <<0, 0>>]
      BY <1>2, <1>3 DEF ScanRows
    <2> QED
      BY <1>1, <1>2, <2>1
  <1>5. {j \in DOMAIN rows : rows[j][1] # 0} = 1 .. 0 /\ 1 .. 0 = {}
    BY <1>4
  <1>6. /\ s.last = rows[B]
        /\ s.commits = [j \in 1 .. 0 |-> <<rows[j], is[rows[j]], fs[rows[j]]>>]
        /\ s.is = Product({rows[j] : j \in 1 .. 0}, is)
        /\ s.fs = Product({rows[j] : j \in 1 .. 0}, fs)
        /\ s.ok <=> \A j \in DOMAIN rows :
             enforce_monotonic_commitment(rows[j], IF j = 1 THEN last_addr ELSE rows[j - 1])
    <2>1. s = Scan(rows) /\ 0 \in Nat /\ \A j \in 1 .. 0 : rows[j] \in Cells
      BY <1>3
    <2>2. {j \in DOMAIN rows : rows[j][1] # 0} = 1 .. 0
      BY <1>5
    <2>3. /\ Scan(rows).last = rows[SCAN_BATCH_SIZE]
          /\ Scan(rows).commits = [j \in 1 .. 0 |-> <<rows[j], is[rows[j]], fs[rows[j]]>>]
          /\ Scan(rows).is = Product({rows[j] : j \in 1 .. 0}, is)
          /\ Scan(rows).fs = Product({rows[j] : j \in 1 .. 0}, fs)
          /\ Scan(rows).ok <=> \A j \in DOMAIN rows :
               enforce_monotonic_commitment(rows[j], IF j = 1 THEN last_addr ELSE rows[j - 1])
      BY <2>1, <2>2, ScanOfRows, Zenon
    <2> QED
      BY <2>1, <2>3
  <1>7. s.ok
    BY <1>4, <1>6 DEF enforce_monotonic_commitment
  <1>8. s.last = <<0, 0>> /\ s.commits = <<>>
    BY <1>4, <1>6
  <1>9. {rows[j] : j \in 1 .. 0} = {}
    BY SMTT(30)
  <1> QED
    BY <1>6, <1>7, <1>8, <1>9

-----------------------------------------------------------------------------
(* A step of the circuit                                                   *)

LEMMA ProveStepParts ==
    ASSUME ProveStep, NEW o, o = program[step + 1], NEW k, k = popped[o.cell] + 1,
           NEW s, s = Scan(ScanRows(step))
    PROVE  /\ scanned' = scanned \o s.commits /\ last_addr' = s.last
           /\ chain2' = IF o.cond THEN Append(chain2, <<o.cell, rs[o.cell][k], ws[o.cell][k]>>)
                        ELSE chain2
           /\ prints' = [prints EXCEPT
                !["is"] = @ (+) s.is, !["fs"] = @ (+) s.fs,
                !["rs"] = IF o.cond THEN @ (+) Fingerprint(o.cell, rs[o.cell][k]) ELSE @,
                !["ws"] = IF o.cond THEN @ (+) Fingerprint(o.cell, ws[o.cell][k]) ELSE @]
           /\ /\ s.ok
              /\ o.cond => k <= Len(ws[o.cell])
              /\ o.cond /\ o.val # None => ws[o.cell][k].values = o.val
              /\ step + 1 = Len(program) => LastStepHolds(chain2', scanned', popped', prints')
              => phase' # "Panic"
  BY DEF ProveStep

\* The chain of the circuit is a prefix of the one the tracer made.
LEMMA ChainStep ==
    ASSUME ProofInv, ProveStep
    PROVE  ChainReplayed'
  <1>1. PICK o : o = program[step + 1]
    OBVIOUS
  <1>2. PICK k : k = popped[o.cell] + 1
    OBVIOUS
  <1>3. /\ phase = "Proving" /\ step' = step + 1 /\ UNCHANGED tracer
        /\ Inv /\ ChainReplayed /\ ChainFollowsProgram
    BY ProveStepTakes DEF ProofInv
  <1>4. /\ step \in Nat /\ step + 1 \in 1 .. Len(program) /\ o \in Op
        /\ o.cond => Count(program, o.cell, step + 1) = k
    BY <1>1, <1>2, <1>3, NextUse DEF Op
  <1>5. chain2' = IF o.cond THEN Append(chain2, <<o.cell, rs[o.cell][k], ws[o.cell][k]>>) ELSE chain2
    BY <1>1, <1>2, ProveStepParts
  <1>6. program \in Seq(Op) /\ chain \in Seq(Commit) /\ chain2 \in Seq(Commit)
    BY <1>3 DEF Inv, Typed, ChainFollowsProgram, ChainReplayed
  <1>7. Len(chain2) = Active(program, step) /\ \A a \in 1 .. Len(chain2) : chain2[a] = chain[a]
    BY <1>3 DEF ChainReplayed
  <1>8. /\ o.cond => Active(program, step + 1) = Active(program, step) + 1
        /\ ~o.cond => Active(program, step + 1) = Active(program, step)
    BY <1>1, <1>4, ActiveStep
  <1>9. CASE o.cond
    <2>1. chain[Active(program, step + 1)] = <<o.cell, rs[o.cell][k], ws[o.cell][k]>>
      BY <1>1, <1>3, <1>4, <1>9 DEF ChainFollowsProgram
    <2>2. Active(program, step + 1) \in 1 .. Len(chain)
      <3>1. Len(program) \in Nat /\ Len(chain) = Active(program, Len(program))
        BY <1>3, <1>6 DEF ChainFollowsProgram
      <3> QED
        BY <1>1, <1>4, <1>6, <1>9, <3>1, ActiveBound
    <2>3. PICK e \in Commit : e = <<o.cell, rs[o.cell][k], ws[o.cell][k]>>
      BY <1>6, <2>1, <2>2, ElementOfSeq
    <2>4. chain2' = Append(chain2, e)
      BY <1>5, <1>9, <2>3
    <2>5. /\ chain2' \in Seq(Commit) /\ Len(chain2') = Len(chain2) + 1
          /\ \A a \in 1 .. Len(chain2) : chain2'[a] = chain2[a]
          /\ chain2'[Len(chain2) + 1] = e
      BY <1>6, <2>4
    <2>6. Len(chain2') = Active(program, step + 1)
      BY <1>7, <1>8, <1>9, <2>5
    <2>7. chain[Len(chain2) + 1] = e
      BY <1>7, <1>8, <1>9, <2>1, <2>3
    <2>8. \A a \in 1 .. Len(chain2') : chain2'[a] = chain[a]
      BY <1>6, <1>7, <2>5, <2>7
    <2> QED
      BY <1>3, <2>5, <2>6, <2>8 DEF ChainReplayed, tracer
  <1>10. CASE ~o.cond
    BY <1>3, <1>5, <1>6, <1>7, <1>8, <1>10 DEF ChainReplayed, tracer
  <1> QED
    BY <1>9, <1>10

\* Where the scan stands, before and after a step.
LEMMA ScanProgress ==
    ASSUME WholeBatches, step \in Nat, step' = step + 1
    PROVE  \E B \in Nat \ {0}, k \in Nat, N \in Nat :
             /\ B = SCAN_BATCH_SIZE /\ k = B * step /\ N = Cardinality(Cells)
             /\ \/ k + B <= N /\ Done = k /\ Done' = k + B /\ B * step' = k + B
                \/ k >= N /\ Done = N /\ Done' = N /\ B * step' > N
  <1>1. PICK B \in Nat \ {0} : B = SCAN_BATCH_SIZE
    BY NebulaAssumption
  <1>2. PICK N \in Nat : N = Cardinality(Cells)
    BY AllIsSorted
  <1>3. /\ B * step \in Nat /\ B * (step + 1) = B * step + B
        /\ B * step < N => B * step + B <= N
    BY <1>1, <1>2, BatchArithmetic DEF WholeBatches
  <1>4. PICK k \in Nat : k = B * step
    BY <1>3
  <1>5. B * step' = k + B
    BY <1>3, <1>4
  <1>6. /\ Done = IF k <= N THEN k ELSE N
        /\ Done' = IF k + B <= N THEN k + B ELSE N
    BY <1>1, <1>2, <1>4, <1>5 DEF Done
  <1>7. k < N => k + B <= N
    BY <1>3, <1>4
  <1> QED
    BY <1>1, <1>2, <1>4, <1>5, <1>6, <1>7

\* A step scans the next batch, or only padding.
LEMMA ScanStep ==
    ASSUME WholeBatches, Contiguous, ProofInv, ProveStep, NEW s, s = Scan(ScanRows(step))
    PROVE  /\ s.ok /\ ScanReplayed'
           /\ \E S : /\ S \in SUBSET Cells /\ S \cap Scanned = {} /\ Scanned' = Scanned \cup S
                     /\ s.is = Product(S, is) /\ s.fs = Product(S, fs)
  <1>1. /\ phase = "Proving" /\ step' = step + 1 /\ UNCHANGED tracer
        /\ step \in Nat /\ Prepared /\ ScanReplayed
    BY ProveStepTakes DEF ProofInv, Inv, Typed
  <1>2. PICK B \in Nat \ {0}, k \in Nat, N \in Nat :
             /\ B = SCAN_BATCH_SIZE /\ k = B * step /\ N = Cardinality(Cells)
             /\ \/ k + B <= N /\ Done = k /\ Done' = k + B /\ B * step' = k + B
                \/ k >= N /\ Done = N /\ Done' = N /\ B * step' > N
    BY <1>1, ScanProgress
  <1>3. scanned' = scanned \o s.commits /\ last_addr' = s.last
    BY ProveStepParts
  <1> DEFINE E(n) == <<All[n], is[All[n]], fs[All[n]]>>
             T == {E(n) : n \in 1 .. N}
  <1>4. \A n : E(n)' = E(n)
    BY <1>1 DEF tracer, All
  <1>5. scanned = [n \in 1 .. Done |-> E(n)]
    BY <1>1 DEF ScanReplayed
  <1>6. \A n \in 1 .. N : All[n] \in Cells /\ \A m \in 1 .. N : All[n] = All[m] => n = m
    BY <1>2, AllIsSorted
  <1>7. CASE k + B <= N /\ Done = k /\ Done' = k + B /\ B * step' = k + B
    <2>1. /\ s.ok /\ s.last = All[k + B]
          /\ s.commits = [j \in 1 .. B |-> E(k + j)]
          /\ s.is = Product({All[k + j] : j \in 1 .. B}, is)
          /\ s.fs = Product({All[k + j] : j \in 1 .. B}, fs)
      <3>1. k + B <= Cardinality(Cells) /\ B = SCAN_BATCH_SIZE /\ k = B * step
        BY <1>2, <1>7
      <3>2. ScansBatch(s, k, B)
        BY <1>1, <3>1, ScanFull
      <3> QED
        BY <3>2 DEF ScansBatch
    <2>2. scanned' = [n \in 1 .. (k + B) |-> E(n)]
      <3>1. \A n \in 1 .. N : E(n) \in T
        OBVIOUS
      <3> HIDE DEF E, T
      <3>2. PICK f : f = [n \in 1 .. k |-> E(n)]
        OBVIOUS
      <3>3. PICK g : g = [j \in 1 .. B |-> E(k + j)]
        OBVIOUS
      <3>4. f \in [1 .. k -> T] /\ g \in [1 .. B -> T]
        BY <1>2, <1>7, <3>1, <3>2, <3>3
      <3>5. f \o g = [n \in 1 .. (k + B) |-> IF n <= k THEN f[n] ELSE g[n - k]]
        <4>1. B \in Nat
          OBVIOUS
        <4>2. f \o g = Joined(f, k, g, B)
          BY <3>4, <4>1, ConcatFunctions
        <4> QED
          BY <4>2 DEF Joined
      <3>6. \A n \in 1 .. (k + B) : (IF n <= k THEN f[n] ELSE g[n - k]) = E(n)
        <4> SUFFICES ASSUME NEW n \in 1 .. (k + B)
                     PROVE  (IF n <= k THEN f[n] ELSE g[n - k]) = E(n)
          OBVIOUS
        <4>1. CASE n <= k
          BY <3>2, <4>1
        <4>2. CASE ~(n <= k)
          <5>1. n - k \in 1 .. B /\ k + (n - k) = n
            BY <4>2
          <5> QED
            BY <3>3, <4>2, <5>1
        <4> QED
          BY <4>1, <4>2
      <3>7. scanned' = f \o g
        BY <1>3, <1>5, <1>7, <2>1, <3>2, <3>3
      <3> QED
        BY <3>5, <3>6, <3>7
    <2>3. ScanReplayed'
      <3>1. scanned' = [n \in 1 .. Done' |-> E(n)']
        BY <1>4, <1>7, <2>2
      <3>2. last_addr' = IF step' > 0 /\ SCAN_BATCH_SIZE * step' <= Cardinality(Cells)
                         THEN All[SCAN_BATCH_SIZE * step'] ELSE <<0, 0>>
        BY <1>1, <1>2, <1>3, <1>7, <2>1
      <3> QED
        BY <3>1, <3>2 DEF ScanReplayed, All
    <2>4. PICK S : S = {All[k + j] : j \in 1 .. B}
      OBVIOUS
    <2>5. \A j \in 1 .. B : k + j \in 1 .. N
      BY <1>7
    <2>6. S \in SUBSET Cells
      BY <1>6, <2>4, <2>5
    <2>7. Scanned = {All[n] : n \in 1 .. k} /\ Scanned' = {All[n] : n \in 1 .. (k + B)}
      BY <1>7 DEF Scanned, All
    <2>8. S \cap Scanned = {}
      <3>1. \A n \in 1 .. k, j \in 1 .. B : n \in 1 .. N /\ n # k + j
        BY <1>7
      <3> QED
        BY <1>6, <2>4, <2>5, <2>7, <3>1
    <2>9. Scanned' = Scanned \cup S
      <3>1. \A n \in 1 .. (k + B) : n \in 1 .. k \/ (n - k \in 1 .. B /\ k + (n - k) = n)
        OBVIOUS
      <3>2. \A n \in 1 .. k : n \in 1 .. (k + B)
        OBVIOUS
      <3>3. \A j \in 1 .. B : k + j \in 1 .. (k + B)
        OBVIOUS
      <3>4. ASSUME NEW n \in 1 .. (k + B) PROVE All[n] \in Scanned \cup S
        <4>1. CASE n \in 1 .. k
          BY <2>7, <4>1
        <4>2. CASE n - k \in 1 .. B /\ k + (n - k) = n
          <5>1. \E j \in 1 .. B : All[n] = All[k + j]
            BY <4>2
          <5> QED
            BY <2>4, <5>1
        <4> QED
          BY <3>1, <4>1, <4>2
      <3> QED
        BY <2>4, <2>7, <3>2, <3>3, <3>4
    <2> QED
      BY <2>1, <2>3, <2>4, <2>6, <2>8, <2>9
  <1>8. CASE k >= N /\ Done = N /\ Done' = N /\ B * step' > N
    <2>1. s.ok /\ s.last = <<0, 0>> /\ s.commits = <<>> /\ s.is = Product({}, is) /\ s.fs = Product({}, fs)
      BY <1>1, <1>2, <1>8, ScanPast
    <2>2. scanned' = scanned
      <3>1. \A n \in 1 .. N : E(n) \in T
        OBVIOUS
      <3> HIDE DEF E, T
      <3>2. scanned \in [1 .. N -> T]
        BY <1>5, <1>8, <3>1
      <3>3. scanned \in Seq(T)
        BY <1>2, <3>2, FunctionIsSeq
      <3> QED
        BY <1>3, <2>1, <3>3, ConcatEmptySeq
    <2>3. ScanReplayed'
      <3>1. scanned' = [n \in 1 .. Done' |-> E(n)']
        BY <1>4, <1>5, <1>8, <2>2
      <3>2. ~(SCAN_BATCH_SIZE * step' <= Cardinality(Cells))
        BY <1>1, <1>2, <1>8
      <3> QED
        BY <1>3, <2>1, <3>1, <3>2 DEF ScanReplayed, All
    <2>4. Scanned' = Scanned \cup {}
      BY <1>8 DEF Scanned, All
    <2>5. {} \in SUBSET Cells /\ {} \cap Scanned = {}
      OBVIOUS
    <2> QED
      BY <2>1, <2>3, <2>4, <2>5
  <1> QED
    BY <1>2, <1>7, <1>8

\* The marks of a batch, added to those of the cells scanned before.
LEMMA AddBatch ==
    ASSUME NEW S \in SUBSET Cells, S \cap Scanned = {}, Scanned \in SUBSET Cells,
           NEW entry, NEW k, \A c \in Cells : entry[c] = EntryAt(c, k[c])
    PROVE  Tally({<<c, k[c]>> : c \in Scanned}) (+) Product(S, entry)
             = Tally({<<c, k[c]>> : c \in Scanned \cup S})
  <1>1. IsFiniteSet(S) /\ IsFiniteSet(Scanned)
    BY NebulaAssumption, FS_Subset
  <1>2. PICK I, J : I = {<<c, k[c]>> : c \in Scanned} /\ J = {<<c, k[c]>> : c \in S}
    OBVIOUS
  <1>3. Product(S, entry) = Tally(J) /\ IsFiniteSet(J)
    BY <1>1, <1>2, ProductIsTally
  <1>4. IsFiniteSet(I)
    BY <1>1, <1>2, ProductIsTally
  <1>5. I \cap J = {} /\ I \cup J = {<<c, k[c]>> : c \in Scanned \cup S}
    BY <1>2
  <1>6. Tally(I) (+) Tally(J) = Tally(I \cup J)
    BY <1>3, <1>4, <1>5, TallyUnion
  <1> QED
    BY <1>2, <1>3, <1>5, <1>6

\* One more entry read or written.
LEMMA AddOne ==
    ASSUME NEW I, IsFiniteSet(I), NEW c, NEW n, <<c, n>> \notin I, NEW e, e = EntryAt(c, n)
    PROVE  /\ Tally(I) (+) Fingerprint(c, e) = Tally(I \cup {<<c, n>>})
           /\ IsFiniteSet(I \cup {<<c, n>>})
  <1>1. PICK q : q = <<c, n>>
    OBVIOUS
  <1>2. MarkAt(q) = Mark(c, e)
    BY <1>1 DEF MarkAt
  <1>3. Fingerprint(c, e) = Tally({q})
    BY <1>2, TallyOne DEF Fingerprint
  <1>4. IsFiniteSet({q}) /\ I \cap {q} = {}
    BY <1>1, FS_Singleton
  <1>5. Tally(I) (+) Tally({q}) = Tally(I \cup {q})
    BY <1>4, TallyUnion
  <1>6. IsFiniteSet(I \cup {q})
    BY FS_AddElement
  <1> QED
    BY <1>1, <1>3, <1>5, <1>6

\* The circuit leaves the entries alone: only the sets of positions change.
LEMMA TallyStays ==
    ASSUME ws' = ws
    PROVE  /\ Tally(ReadAt)' = Tally(ReadAt') /\ Tally(WrittenAt)' = Tally(WrittenAt')
           /\ Tally({<<c, 0>> : c \in Scanned})' = Tally({<<c, 0>> : c \in Scanned'})
           /\ Tally({<<c, Len(ws[c])>> : c \in Scanned})'
                = Tally({<<c, Len(ws[c])>> : c \in Scanned'})
  <1>1. Tally(ReadAt)' = Tally(ReadAt') /\ Tally(WrittenAt)' = Tally(WrittenAt')
    BY DEF Tally, MarkAt, Mark, EntryAt
  <1>2. Tally({<<c, 0>> : c \in Scanned})' = Tally({<<c, 0>> : c \in Scanned'})
    BY DEF Tally, MarkAt, Mark, EntryAt
  <1>3. {<<c, Len(ws[c])>> : c \in Scanned}' = {<<c, Len(ws[c])>> : c \in Scanned'}
    OBVIOUS
  <1>4. Tally({<<c, Len(ws[c])>> : c \in Scanned})'
          = Tally({<<c, Len(ws[c])>> : c \in Scanned'})
    BY <1>3 DEF Tally, MarkAt, Mark, EntryAt
  <1> QED
    BY <1>1, <1>2, <1>4

\* The positions that an operation adds to those read and written.
LEMMA PositionsStep ==
    ASSUME ProofInv, ProveStep, NEW o, o = program[step + 1], NEW k, k = popped[o.cell] + 1
    PROVE  /\ ~o.cond => ReadAt' = ReadAt /\ WrittenAt' = WrittenAt
           /\ o.cond => /\ ReadAt' = ReadAt \cup {<<o.cell, k - 1>>} /\ <<o.cell, k - 1>> \notin ReadAt
                        /\ WrittenAt' = WrittenAt \cup {<<o.cell, k>>} /\ <<o.cell, k>> \notin WrittenAt
                        /\ rs[o.cell][k] = EntryAt(o.cell, k - 1)
                        /\ ws[o.cell][k] = EntryAt(o.cell, k)
  <1>1. /\ phase = "Proving" /\ Inv /\ Linked
        /\ popped' = IF o.cond THEN [popped EXCEPT ![o.cell] = k] ELSE popped
    BY ProveStepTakes DEF ProofInv
  <1>2. /\ o \in Op /\ popped[o.cell] \in Nat
        /\ o.cond => k \in 1 .. Len(ws[o.cell])
    BY <1>1, NextUse
  <1>3. o.cell \in Cells
    BY <1>2 DEF Op
  <1>4. popped \in [Cells -> Nat]
    BY <1>1 DEF Inv, Typed
  <1>5. CASE ~o.cond
    BY <1>1, <1>5 DEF ReadAt, WrittenAt
  <1>6. CASE o.cond
    <2>1. k \in Nat /\ k - 1 = popped[o.cell] /\ k - 1 \in Nat /\ k # 0
      BY <1>2
    <2>2. /\ popped'[o.cell] = k
          /\ \A c \in Cells : c # o.cell => popped'[c] = popped[c]
      BY <1>1, <1>3, <1>4, <1>6
    <2>3. \A q \in Cells \X Nat : q = <<q[1], q[2]>> /\ q[1] \in Cells /\ q[2] \in Nat
      OBVIOUS
    <2>4. ReadAt' = ReadAt \cup {<<o.cell, k - 1>>} /\ <<o.cell, k - 1>> \notin ReadAt
      BY <1>3, <1>4, <2>1, <2>2, <2>3 DEF ReadAt
    <2>5. WrittenAt' = WrittenAt \cup {<<o.cell, k>>} /\ <<o.cell, k>> \notin WrittenAt
      BY <1>3, <1>4, <2>1, <2>2, <2>3 DEF WrittenAt
    <2>6. rs[o.cell][k] = EntryAt(o.cell, k - 1)
      BY <1>1, <1>2, <1>3, <1>6 DEF Linked
    <2>7. ws[o.cell][k] = EntryAt(o.cell, k)
      BY <2>1 DEF EntryAt
    <2> QED
      BY <1>6, <2>4, <2>5, <2>6, <2>7
  <1> QED
    BY <1>5, <1>6

\* The fingerprints stay the bags of what was scanned, read and written.
LEMMA PrintsStep ==
    ASSUME WholeBatches, Contiguous, ProofInv, ProveStep
    PROVE  PrintsFollow'
  <1>1. PICK o : o = program[step + 1]
    OBVIOUS
  <1>2. PICK k : k = popped[o.cell] + 1
    OBVIOUS
  <1>3. PICK s : s = Scan(ScanRows(step))
    OBVIOUS
  <1>4. phase = "Proving" /\ UNCHANGED tracer /\ Prepared /\ PrintsFollow
    BY ProveStepTakes DEF ProofInv
  <1>5. ws' = ws
    BY <1>4 DEF tracer
  <1>6. PICK S : /\ S \in SUBSET Cells /\ S \cap Scanned = {} /\ Scanned' = Scanned \cup S
                 /\ s.is = Product(S, is) /\ s.fs = Product(S, fs)
    BY <1>3, ScanStep
  <1>7. Scanned \in SUBSET Cells
    <2>1. step \in Nat
      BY DEF ProofInv, Inv, Typed
    <2>2. Cardinality(Cells) \in Nat /\ Done \in Nat /\ Done <= Cardinality(Cells)
      BY <2>1, AllIsSorted, NebulaAssumption DEF Done
    <2>3. \A n \in 1 .. Done : n \in 1 .. Cardinality(Cells)
      BY <2>2
    <2> QED
      BY <2>3, AllIsSorted DEF Scanned
  <1>8. Tally({<<c, 0>> : c \in Scanned}) (+) s.is = Tally({<<c, 0>> : c \in Scanned'})
    <2>1. PICK z : z = [c \in Cells |-> 0]
      OBVIOUS
    <2>2. \A c \in Cells : is[c] = EntryAt(c, z[c])
      BY <1>4, <2>1 DEF Prepared, EntryAt
    <2>3. \A T \in SUBSET Cells : {<<c, z[c]>> : c \in T} = {<<c, 0>> : c \in T}
      BY <2>1
    <2>4. Tally({<<c, z[c]>> : c \in Scanned}) (+) Product(S, is)
            = Tally({<<c, z[c]>> : c \in Scanned \cup S})
      BY <1>6, <1>7, <2>2, AddBatch
    <2>5. Scanned \cup S \in SUBSET Cells
      BY <1>6, <1>7
    <2> QED
      BY <1>6, <1>7, <2>3, <2>4, <2>5
  <1>9. Tally({<<c, Len(ws[c])>> : c \in Scanned}) (+) s.fs
          = Tally({<<c, Len(ws[c])>> : c \in Scanned'})
    <2>1. PICK z : z = [c \in Cells |-> Len(ws[c])]
      OBVIOUS
    <2>2. \A c \in Cells : fs[c] = EntryAt(c, z[c])
      BY <1>4, <2>1 DEF Prepared
    <2>3. \A T \in SUBSET Cells : {<<c, z[c]>> : c \in T} = {<<c, Len(ws[c])>> : c \in T}
      BY <2>1
    <2>4. Tally({<<c, z[c]>> : c \in Scanned}) (+) Product(S, fs)
            = Tally({<<c, z[c]>> : c \in Scanned \cup S})
      BY <1>6, <1>7, <2>2, AddBatch
    <2>5. Scanned \cup S \in SUBSET Cells
      BY <1>6, <1>7
    <2> QED
      BY <1>6, <1>7, <2>3, <2>4, <2>5
  <1>10. /\ ~o.cond => ReadAt' = ReadAt /\ WrittenAt' = WrittenAt
         /\ o.cond => /\ ReadAt' = ReadAt \cup {<<o.cell, k - 1>>} /\ <<o.cell, k - 1>> \notin ReadAt
                      /\ WrittenAt' = WrittenAt \cup {<<o.cell, k>>} /\ <<o.cell, k>> \notin WrittenAt
                      /\ rs[o.cell][k] = EntryAt(o.cell, k - 1)
                      /\ ws[o.cell][k] = EntryAt(o.cell, k)
    BY <1>1, <1>2, PositionsStep
  <1>11. IsFiniteSet(ReadAt) /\ IsFiniteSet(WrittenAt)
    BY <1>4 DEF PrintsFollow
  <1>12. /\ IsFiniteSet(ReadAt')
         /\ (IF o.cond THEN Tally(ReadAt) (+) Fingerprint(o.cell, rs[o.cell][k]) ELSE Tally(ReadAt))
              = Tally(ReadAt')
    <2>1. CASE o.cond
      BY <1>10, <1>11, <2>1, AddOne
    <2>2. CASE ~o.cond
      BY <1>10, <1>11, <2>2
    <2> QED
      BY <2>1, <2>2
  <1>13. /\ IsFiniteSet(WrittenAt')
         /\ (IF o.cond THEN Tally(WrittenAt) (+) Fingerprint(o.cell, ws[o.cell][k])
             ELSE Tally(WrittenAt)) = Tally(WrittenAt')
    <2>1. CASE o.cond
      BY <1>10, <1>11, <2>1, AddOne
    <2>2. CASE ~o.cond
      BY <1>10, <1>11, <2>2
    <2> QED
      BY <2>1, <2>2
  <1>14. prints' = [prints EXCEPT
                !["is"] = @ (+) s.is, !["fs"] = @ (+) s.fs,
                !["rs"] = IF o.cond THEN @ (+) Fingerprint(o.cell, rs[o.cell][k]) ELSE @,
                !["ws"] = IF o.cond THEN @ (+) Fingerprint(o.cell, ws[o.cell][k]) ELSE @]
    BY <1>1, <1>2, <1>3, ProveStepParts
  <1>15. /\ DOMAIN prints = {"is", "fs", "rs", "ws"}
         /\ prints["is"] = Tally({<<c, 0>> : c \in Scanned})
         /\ prints["fs"] = Tally({<<c, Len(ws[c])>> : c \in Scanned})
         /\ prints["rs"] = Tally(ReadAt) /\ prints["ws"] = Tally(WrittenAt)
    BY <1>4 DEF PrintsFollow
  <1>16. /\ prints' = [p \in {"is", "fs", "rs", "ws"} |-> prints'[p]]
         /\ prints'["is"] = prints["is"] (+) s.is /\ prints'["fs"] = prints["fs"] (+) s.fs
         /\ prints'["rs"] = IF o.cond THEN prints["rs"] (+) Fingerprint(o.cell, rs[o.cell][k])
                            ELSE prints["rs"]
         /\ prints'["ws"] = IF o.cond THEN prints["ws"] (+) Fingerprint(o.cell, ws[o.cell][k])
                            ELSE prints["ws"]
    BY <1>14, <1>15
  <1>17. /\ prints'["is"] = Tally({<<c, 0>> : c \in Scanned'})
         /\ prints'["fs"] = Tally({<<c, Len(ws[c])>> : c \in Scanned'})
         /\ prints'["rs"] = Tally(ReadAt') /\ prints'["ws"] = Tally(WrittenAt')
    BY <1>8, <1>9, <1>12, <1>13, <1>15, <1>16
  <1>18. /\ Tally(ReadAt)' = Tally(ReadAt') /\ Tally(WrittenAt)' = Tally(WrittenAt')
         /\ Tally({<<c, 0>> : c \in Scanned})' = Tally({<<c, 0>> : c \in Scanned'})
         /\ Tally({<<c, Len(ws[c])>> : c \in Scanned})'
              = Tally({<<c, Len(ws[c])>> : c \in Scanned'})
    BY <1>5, TallyStays
  <1> QED
    BY <1>12, <1>13, <1>16, <1>17, <1>18 DEF PrintsFollow

LEMMA PositionsFinite ==
    ASSUME NEW k PROVE IsFiniteSet({<<c, k[c]>> : c \in Cells})
  <1>1. PICK entry : entry = [c \in Cells |-> EntryAt(c, k[c])]
    OBVIOUS
  <1>2. \A c \in Cells : entry[c] = EntryAt(c, k[c])
    BY <1>1
  <1>3. IsFiniteSet(Cells)
    BY NebulaAssumption
  <1> QED
    BY <1>2, <1>3, ProductIsTally

\* Initial and written entries are together the read and final ones: both are
\* the entries at all positions.
LEMMA TalliesBalance ==
    ASSUME Inv,
           NEW R, R = {q \in Cells \X Nat : q[2] < Len(ws[q[1]])}, IsFiniteSet(R),
           NEW W, W = {q \in Cells \X Nat : q[2] \in 1 .. Len(ws[q[1]])}, IsFiniteSet(W)
    PROVE  Tally({<<c, 0>> : c \in Cells}) (+) Tally(W)
             = Tally(R) (+) Tally({<<c, Len(ws[c])>> : c \in Cells})
  <1>1. PICK F : F = {<<c, 0>> : c \in Cells}
    OBVIOUS
  <1>2. PICK L : L = {<<c, Len(ws[c])>> : c \in Cells}
    OBVIOUS
  <1>3. \A c \in Cells : Len(ws[c]) \in Nat
    BY DEF Inv, Typed
  <1>4. \A q \in Cells \X Nat : q = <<q[1], q[2]>> /\ q[1] \in Cells /\ q[2] \in Nat
    OBVIOUS
  <1>5. F \in SUBSET (Cells \X Nat) /\ L \in SUBSET (Cells \X Nat)
    BY <1>1, <1>2, <1>3
  <1>6. \A q \in Cells \X Nat : (q \in F <=> q[2] = 0) /\ (q \in L <=> q[2] = Len(ws[q[1]]))
    BY <1>1, <1>2, <1>4
  <1>7. F \cap W = {} /\ R \cap L = {}
    BY <1>3, <1>4, <1>5, <1>6
  <1>8. F \cup W = R \cup L
    <2>1. R \in SUBSET (Cells \X Nat) /\ W \in SUBSET (Cells \X Nat)
      OBVIOUS
    <2>2. \A q \in Cells \X Nat : (q \in F \/ q \in W) <=> (q \in R \/ q \in L)
      BY <1>3, <1>4, <1>6
    <2> QED
      BY <1>5, <2>1, <2>2
  <1>9. IsFiniteSet(F) /\ IsFiniteSet(L)
    <2>2. PICK z : z = [c \in Cells |-> 0]
      OBVIOUS
    <2>3. F = {<<c, z[c]>> : c \in Cells}
      BY <1>1, <2>2
    <2>4. PICK y : y = [c \in Cells |-> Len(ws[c])]
      OBVIOUS
    <2>5. L = {<<c, y[c]>> : c \in Cells}
      BY <1>2, <2>4
    <2> QED
      BY <2>3, <2>5, PositionsFinite
  <1>10. Tally(F) (+) Tally(W) = Tally(F \cup W) /\ Tally(R) (+) Tally(L) = Tally(R \cup L)
    BY <1>7, <1>9, TallyUnion
  <1> QED
    BY <1>1, <1>2, <1>8, <1>10

\* What the last step compares, once everything is replayed and scanned.
LEMMA LastStep ==
    ASSUME Inv, Prepared, ChainFollowsProgram,
           NEW chain3 \in Seq(Commit), Len(chain3) = Active(program, Len(program)),
           \A a \in 1 .. Len(chain3) : chain3[a] = chain[a],
           NEW scanned3,
           scanned3 = [n \in 1 .. Cardinality(Cells) |-> <<All[n], is[All[n]], fs[All[n]]>>],
           NEW popped3, \A c \in Cells : popped3[c] = Count(program, c, Len(program)),
           NEW prints3,
           prints3["is"] (+) prints3["ws"] = prints3["rs"] (+) prints3["fs"]
    PROVE  LastStepHolds(chain3, scanned3, popped3, prints3)
  <1>1. chain3 = chain
    <2>1. chain \in Seq(Commit) /\ Len(chain3) = Len(chain)
      BY DEF ChainFollowsProgram
    <2> QED
      BY <2>1, SeqEqual
  <1>2. scanned3 = expected_is_fs
    <2>1. DOMAIN is = Cells /\ DOMAIN fs = Cells
      BY DEF Prepared
    <2>2. Sorted(DOMAIN is) = All
      BY <2>1 DEF All
    <2>3. DOMAIN All = 1 .. Cardinality(Cells)
      BY AllIsSorted
    <2>4. \A n \in 1 .. Cardinality(Cells) : All[n] \in DOMAIN fs
      BY <2>1, AllIsSorted
    <2> QED
      BY <2>2, <2>3, <2>4 DEF expected_is_fs
  <1>3. \A c \in Cells : popped3[c] = Len(ws[c])
    BY DEF Inv, QueuesLinked
  <1> QED
    BY <1>1, <1>2, <1>3 DEF LastStepHolds, BalancedPrints

LEMMA LastStepCompares ==
    ASSUME WholeBatches, Contiguous, ProofInv, ProveStep, step + 1 = Len(program)
    PROVE  LastStepHolds(chain2', scanned', popped', prints')
  <1>1. /\ phase = "Proving" /\ UNCHANGED tracer /\ step' = Len(program) /\ step' \in Nat
        /\ Inv /\ Prepared /\ ChainFollowsProgram
    BY ProveStepTakes DEF ProofInv, Inv, Typed
  <1>2. Inv' /\ ChainReplayed' /\ ScanReplayed' /\ PrintsFollow'
    BY <1>1, ProveStepInv, ChainStep, ScanStep, PrintsStep
  <1>3. program' = program /\ chain' = chain /\ is' = is /\ fs' = fs /\ ws' = ws
    BY <1>1 DEF tracer
  <1>4. Done' = Cardinality(Cells)
    <2>1. PICK B \in Nat \ {0} : B = SCAN_BATCH_SIZE
      BY NebulaAssumption
    <2>2. PICK N \in Nat : N = Cardinality(Cells)
      BY AllIsSorted
    <2>3. N % B = 0 /\ step' >= N \div B
      BY <1>1, <2>1, <2>2 DEF WholeBatches, Prepared, required_steps
    <2>4. B * step' \in Nat /\ B * step' >= N
      BY <1>1, <2>3, BatchArithmetic
    <2>5. Done' = IF B * step' <= N THEN B * step' ELSE N
      BY <2>1, <2>2 DEF Done
    <2> QED
      BY <2>2, <2>4, <2>5
  <1>5. Scanned' = Cells
    BY <1>4, AllIsSorted DEF Scanned
  <1>6. /\ chain2' \in Seq(Commit) /\ Len(chain2') = Active(program, Len(program))
        /\ \A a \in 1 .. Len(chain2') : chain2'[a] = chain[a]
    BY <1>1, <1>2, <1>3 DEF ChainReplayed
  <1>7. scanned' = [n \in 1 .. Cardinality(Cells) |-> <<All[n], is[All[n]], fs[All[n]]>>]
    BY <1>2, <1>3, <1>4 DEF ScanReplayed
  <1>8. \A c \in Cells : popped'[c] = Count(program, c, Len(program))
    BY <1>1, <1>2, <1>3 DEF Inv, ReplayFollowsProgram
  <1>9. \A c \in Cells : popped'[c] = Len(ws[c])
    BY <1>1, <1>8 DEF Inv, QueuesLinked
  <1>10. PICK R : R = ReadAt'
    OBVIOUS
  <1>11. PICK W : W = WrittenAt'
    OBVIOUS
  <1>12. /\ R = {q \in Cells \X Nat : q[2] < Len(ws[q[1]])} /\ IsFiniteSet(R)
         /\ W = {q \in Cells \X Nat : q[2] \in 1 .. Len(ws[q[1]])} /\ IsFiniteSet(W)
    <2>1. \A q \in Cells \X Nat : popped'[q[1]] = Len(ws[q[1]])
      BY <1>9
    <2>2. R = {q \in Cells \X Nat : q[2] < Len(ws[q[1]])}
      BY <1>10, <2>1 DEF ReadAt
    <2>3. W = {q \in Cells \X Nat : q[2] \in 1 .. Len(ws[q[1]])}
      BY <1>11, <2>1 DEF WrittenAt
    <2> QED
      BY <1>2, <1>10, <1>11, <2>2, <2>3 DEF PrintsFollow
  <1>13. Tally({<<c, 0>> : c \in Cells}) (+) Tally(W)
             = Tally(R) (+) Tally({<<c, Len(ws[c])>> : c \in Cells})
    BY <1>1, <1>12, TalliesBalance
  <1>14. /\ prints'["is"] = Tally({<<c, 0>> : c \in Scanned})'
         /\ prints'["fs"] = Tally({<<c, Len(ws[c])>> : c \in Scanned})'
         /\ prints'["rs"] = Tally(ReadAt)' /\ prints'["ws"] = Tally(WrittenAt)'
    BY <1>2 DEF PrintsFollow
  <1>15. /\ Tally(ReadAt)' = Tally(ReadAt') /\ Tally(WrittenAt)' = Tally(WrittenAt')
         /\ Tally({<<c, 0>> : c \in Scanned})' = Tally({<<c, 0>> : c \in Scanned'})
         /\ Tally({<<c, Len(ws[c])>> : c \in Scanned})'
              = Tally({<<c, Len(ws[c])>> : c \in Scanned'})
    BY <1>3, TallyStays
  <1>16. prints'["is"] (+) prints'["ws"] = prints'["rs"] (+) prints'["fs"]
    BY <1>5, <1>10, <1>11, <1>13, <1>14, <1>15
  <1> QED
    BY <1>1, <1>6, <1>7, <1>8, <1>16, LastStep

\* No assertion fails, and the replay follows the trace.
LEMMA ProveStepProofInv ==
    ASSUME WholeBatches, Contiguous, ProofInv, ProveStep
    PROVE  ProofInv'
  <1>1. PICK o : o = program[step + 1]
    OBVIOUS
  <1>2. PICK k : k = popped[o.cell] + 1
    OBVIOUS
  <1>3. PICK s : s = Scan(ScanRows(step))
    OBVIOUS
  <1>4. /\ phase = "Proving" /\ phase' \in {"Panic", "Proved", "Proving"} /\ UNCHANGED tracer
        /\ Inv /\ Linked /\ ChainFollowsProgram /\ Prepared
    BY ProveStepTakes DEF ProofInv
  <1>5. Inv' /\ ChainReplayed' /\ ScanReplayed' /\ PrintsFollow'
    BY <1>4, ProveStepInv, ChainStep, ScanStep, PrintsStep
  <1>6. program' = program /\ rs' = rs /\ ws' = ws /\ fs' = fs /\ is' = is
        /\ ts' = ts /\ chain' = chain
    BY <1>4 DEF tracer
  <1>7. Linked'
    BY <1>4, <1>6 DEF Linked, EntryAt
  <1>8. ChainFollowsProgram'
    BY <1>4, <1>6 DEF ChainFollowsProgram
  <1>9. Prepared'
    BY <1>4, <1>6 DEF Prepared, EntryAt
  <1>10. phase' # "Panic"
    <2>1. s.ok
      BY <1>3, ScanStep
    <2>2. /\ popped[o.cell] \in Nat
          /\ o.cond => /\ k \in 1 .. Len(ws[o.cell])
                       /\ ws[o.cell][k].values = IF o.val = None THEN ValueBefore(o.cell, k)
                                                 ELSE o.val
      BY <1>1, <1>2, <1>4, NextUse
    <2>3. o.cond => k <= Len(ws[o.cell])
      <3>1. o.cond => Len(ws[o.cell]) \in Nat
        BY <1>1, <1>4, NextUse DEF Inv, Typed, Op
      <3> QED
        BY <2>2, <3>1
    <2>4. o.cond /\ o.val # None => ws[o.cell][k].values = o.val
      BY <2>2
    <2>5. step + 1 = Len(program) => LastStepHolds(chain2', scanned', popped', prints')
      BY LastStepCompares
    <2> QED
      BY <1>1, <1>2, <1>3, <2>1, <2>3, <2>4, <2>5, ProveStepParts
  <1>11. phase' \in {"Proved", "Proving"}
    BY <1>4, <1>10
  <1> QED
    BY <1>5, <1>7, <1>8, <1>9, <1>11 DEF ProofInv

LEMMA ProofInvNext ==
    ASSUME WholeBatches, Contiguous, ProofInv, [Next]_nvars
    PROVE  ProofInv'
  <1>1. ASSUME NEW cond \in BOOLEAN, NEW c \in Cells, NEW v \in Values \cup {None},
               Trace(cond, c, v)
        PROVE  ProofInv'
    BY <1>1, TraceProofInv
  <1>2. CASE constraints
    BY <1>2, ConstraintsProofInv
  <1>3. CASE ProveStep
    BY <1>3, ProveStepProofInv
  <1>4. CASE UNCHANGED nvars
    <2>1. UNCHANGED <<phase, program, is, rs, ws, fs, ts, chain>>
      BY <1>4 DEF nvars, tracer
    <2>2. UNCHANGED <<step, popped, chain2, scanned, last_addr, prints>>
      BY <1>4 DEF nvars, circuit
    <2>3. Inv'
      BY <1>4, NextInv DEF ProofInv
    <2>4. Linked' /\ ChainFollowsProgram'
      BY <2>1 DEF ProofInv, Linked, ChainFollowsProgram, EntryAt
    <2>5. NotStarted => NotStarted'
      BY <2>1, <2>2 DEF NotStarted
    <2>6. Prepared /\ ChainReplayed => Prepared' /\ ChainReplayed'
      BY <2>1, <2>2 DEF Prepared, ChainReplayed, EntryAt
    <2>7. ScanReplayed => ScanReplayed'
      BY <2>1, <2>2 DEF ScanReplayed, Done
    <2>8. PrintsFollow => PrintsFollow'
      <3>1. ReadAt' = ReadAt /\ WrittenAt' = WrittenAt
        BY <2>2 DEF ReadAt, WrittenAt
      <3>2. Scanned' = Scanned
        BY <2>2 DEF Scanned, Done
      <3> QED
        BY <2>1, <2>2, <3>1, <3>2, TallyStays DEF PrintsFollow
    <2> QED
      BY <2>1, <2>3, <2>4, <2>5, <2>6, <2>7, <2>8 DEF ProofInv
  <1> QED
    BY <1>1, <1>2, <1>3, <1>4 DEF Next

\* No assertion of the prover fails for an honestly traced program: not that
\* of a scanned address, not the emptied queues, the commitments and the
\* multisets of the last step.  The segments are contiguous and the cells fill
\* their batches.
THEOREM ProofCompletesCorrect == WholeBatches /\ Contiguous => (Spec => []ProofCompletes)
  <1> SUFFICES ASSUME WholeBatches, Contiguous
               PROVE  Spec => []ProofCompletes
    OBVIOUS
  <1>1. ProofInv => ProofCompletes
    BY DEF ProofInv, ProofCompletes
  <1>2. ProofInv /\ [Next]_nvars => ProofInv'
    BY ProofInvNext
  <1> QED
    BY <1>1, <1>2, ProofInvInit, PTL DEF Spec

=============================================================================
