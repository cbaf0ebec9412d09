---------------------------- MODULE NebulaMemory ----------------------------
(***************************************************************************)
(* The offline memory argument of the legacy proof crate.  While the       *)
(* prover traces the program, every active operation reads the latest      *)
(* entry of its cell and writes one with the next timestamp (tracer.rs).   *)
(* constraints() then computes the final entry of every cell, and the      *)
(* circuit replays the program: an operation takes the traced entries off  *)
(* their queues, every step scans a batch of cells in address order, and   *)
(* the last step compares commitments and multisets (gadget.rs).           *)
(*                                                                         *)
(* A cell is a pair <<tag, addr>>; values of a cell are one value, hash    *)
(* chains are the sequences they commit to (the two entries of an          *)
(* operation, or of a scanned cell, together), and a fingerprint is the    *)
(* bag of the entries it multiplies: it covers address, value and          *)
(* timestamp, not the tag.                                                 *)
(***************************************************************************)
EXTENDS Integers, Sequences, FiniteSets, Bags, SequencesExt

CONSTANTS
    Cells,              \* initialized cells, <<tag, addr>> with tag > 0
    Values, Zero,       \* contents of a cell; 0
    InitialValue,       \* cell -> value given to init
    SCAN_BATCH_SIZE,
    MaxSteps,           \* bound: operations of the program
    None

ASSUME NebulaAssumption ==
    /\ Cells \subseteq (Nat \ {0}) \X Nat /\ Cells # {} /\ IsFiniteSet(Cells)
    /\ SCAN_BATCH_SIZE \in Nat \ {0} /\ MaxSteps \in Nat /\ Zero \in Values
    /\ InitialValue \in [Cells -> Values]

VARIABLES
    phase,              \* "Tracing", "Proving", "Proved" or "Panic"
    program,            \* the operations, as given to the tracer
    is, rs, ws, fs,     \* initial entries, entries read and written, final entries
    ts,
    chain,              \* ic_rs_ws: the entries committed while tracing
    step,               \* current_step: operations replayed
    popped,             \* cell -> entries taken off its queues
    chain2, scanned,    \* ic_rs_ws and ic_is_fs of the circuit
    last_addr,          \* scan_monotonic_last_addr
    prints,             \* fingerprints: bags of (addr, value, timestamp)
    out                 \* what the last read returned

tracer == <<program, is, rs, ws, fs, ts, chain>>
circuit == <<step, popped, chain2, scanned, last_addr, prints>>
nvars == <<phase, tracer, circuit, out>>

MemOp(v, t) == [values |-> v, timestamp |-> t]
padding == MemOp(Zero, 0)

\* The derived order of Address: by tag, then by address.
Before(a, b) == a[1] < b[1] \/ (a[1] = b[1] /\ a[2] < b[2])

required_steps == Cardinality(Cells) \div SCAN_BATCH_SIZE

Init ==
    /\ phase = "Tracing" /\ program = <<>> /\ ts = 0 /\ chain = <<>>
    /\ is = [c \in Cells |-> MemOp(InitialValue[c], 0)]
    /\ rs = [c \in Cells |-> <<>>] /\ ws = [c \in Cells |-> <<>>]
    /\ fs = <<>>
    /\ step = 0 /\ popped = [c \in Cells |-> 0] /\ chain2 = <<>> /\ scanned = <<>>
    /\ last_addr = <<0, 0>>
    /\ prints = [s \in {"is", "fs", "rs", "ws"} |-> EmptyBag]
    /\ out = Zero

-----------------------------------------------------------------------------
(* Tracing                                                                 *)

\* Mutant: a read finds the first entry of its cell.
Latest_First(c) == IF ws[c] = <<>> THEN is[c] ELSE Head(ws[c])

Latest(c) == IF ws[c] = <<>> THEN is[c] ELSE Last(ws[c])

perform_memory_operation(c, v) ==
    LET rv == Latest(c)
        wv == MemOp(IF v = None THEN rv.values ELSE v, ts + 1)
    IN  /\ ts' = ts + 1
        /\ rs' = [rs EXCEPT ![c] = Append(@, rv)]
        /\ ws' = [ws EXCEPT ![c] = Append(@, wv)]
        /\ chain' = Append(chain, <<c, rv, wv>>)

\* conditional_read (v = None) or conditional_write of a step.
Trace(cond, c, v) ==
    /\ phase = "Tracing" /\ Len(program) < MaxSteps
    /\ program' = Append(program, [cond |-> cond, cell |-> c, val |-> v])
    /\ IF cond THEN perform_memory_operation(c, v) ELSE UNCHANGED <<rs, ws, ts, chain>>
    /\ out' = IF v # None THEN out ELSE IF cond THEN Latest(c).values ELSE Zero
    /\ UNCHANGED <<phase, is, fs, circuit>>

\* Cells that fill the last batch, in a segment behind all others.
PaddingCells ==
    LET n == (SCAN_BATCH_SIZE - (Cardinality(Cells) % SCAN_BATCH_SIZE)) % SCAN_BATCH_SIZE
        top == CHOOSE c \in Cells : \A d \in Cells : d = c \/ Before(d, c)
    IN  {<<top[1] + 1, top[2] + k>> : k \in 0 .. (n - 1)}

\* Mutant: a cell that was never used has no final entry.
FinalEntries_UsedOnly(padded) ==
    [c \in {d \in DOMAIN padded : d \in Cells => ws[d] # <<>>} |->
        IF c \in Cells THEN Last(ws[c]) ELSE padded[c]]

\* Per cell the entries, initial or written, that nobody read; a later one
\* replaces an earlier one.
FinalEntries(padded) ==
    LET entries(c) == <<padded[c]>> \o (IF c \in Cells THEN ws[c] ELSE <<>>)
        unread(c) == {k \in DOMAIN entries(c) :
                        c \in Cells => ~Contains(rs[c], entries(c)[k])}
    IN  [c \in {d \in DOMAIN padded : unread(d) # {}} |-> entries(c)[Max(unread(c))]]

constraints ==
    LET padded == [c \in Cells \cup PaddingCells |->
                    IF c \in Cells THEN is[c] ELSE padding]
    IN  /\ phase = "Tracing" /\ Len(program) >= required_steps /\ program # <<>>
        /\ phase' = "Proving"
        /\ is' = padded
        /\ fs' = FinalEntries(padded)
        /\ UNCHANGED <<program, rs, ws, ts, chain, circuit, out>>

-----------------------------------------------------------------------------
(* Synthesis                                                               *)

\* The n-th cell is the one with n - 1 before it.
Sorted(cells) ==
    [n \in 1 .. Cardinality(cells) |->
        CHOOSE c \in cells : Cardinality({d \in cells : Before(d, c)}) = n - 1]

\* The rows that step k scans, filled up with padding rows of tag 0.
ScanRows(k) ==
    LET all == Sorted(DOMAIN is)
    IN  [j \in 1 .. SCAN_BATCH_SIZE |->
            LET n == SCAN_BATCH_SIZE * k + j
            IN  IF n <= Len(all) THEN all[n] ELSE <<0, 0>>]

FinalEntry(c) == IF c \in DOMAIN fs THEN fs[c] ELSE padding

enforce_monotonic_commitment(c, last) ==
    c[1] = 0 \/ c[1] > last[1] \/ (c[1] = last[1] /\ c[2] = last[2] + 1)

Mark(c, e) == <<c[2], e.values, e.timestamp>>
Fingerprint(c, e) == SetToBag({Mark(c, e)})

\* The product of the fingerprints of cells with their entries.
Product(cells, entry) ==
    [m \in {Mark(c, entry[c]) : c \in cells} |-> Cardinality({c \in cells : Mark(c, entry[c]) = m})]

\* Padding rows, which come last, are neither committed nor multiplied.
Scan(rows) ==
    LET active == {j \in DOMAIN rows : rows[j][1] # 0}
        cells == {rows[j] : j \in active}
        before(j) == IF j = 1 THEN last_addr ELSE rows[j - 1]
    IN  [ok |-> \A j \in DOMAIN rows : enforce_monotonic_commitment(rows[j], before(j)),
         last |-> rows[SCAN_BATCH_SIZE],
         commits |-> [j \in 1 .. Cardinality(active) |->
                        <<rows[j], is[rows[j]], FinalEntry(rows[j])>>],
         is |-> Product(cells, is),
         fs |-> Product(cells, [c \in DOMAIN is |-> FinalEntry(c)])]

\* The commitment that constraints() computed over all cells.
expected_is_fs ==
    LET all == Sorted(DOMAIN is)
    IN  [n \in DOMAIN all |->
            <<all[n], is[all[n]], IF all[n] \in DOMAIN fs THEN fs[all[n]] ELSE is[all[n]]>>]

\* FingerPrintPreWires::check
BalancedPrints(p) == p["is"] (+) p["ws"] = p["rs"] (+) p["fs"]

\* The assertions of the last step.
LastStepHolds(chain3, scanned3, popped3, prints3) ==
    /\ chain3 = chain /\ scanned3 = expected_is_fs
    /\ \A c \in Cells : popped3[c] = Len(ws[c])
    /\ BalancedPrints(prints3)

\* start_step, the memory operation of the step, finish_step.
ProveStep ==
    LET o == program[step + 1]
        s == Scan(ScanRows(step))
        k == popped[o.cell] + 1
        queued == o.cond => k <= Len(ws[o.cell])
        rv == rs[o.cell][k]
        wv == ws[o.cell][k]
        popped3 == IF o.cond THEN [popped EXCEPT ![o.cell] = k] ELSE popped
        chain3 == IF o.cond THEN Append(chain2, <<o.cell, rv, wv>>) ELSE chain2
        scanned3 == scanned \o s.commits
        prints3 == [prints EXCEPT
            !["is"] = @ (+) s.is, !["fs"] = @ (+) s.fs,
            !["rs"] = IF o.cond THEN @ (+) Fingerprint(o.cell, rv) ELSE @,
            !["ws"] = IF o.cond THEN @ (+) Fingerprint(o.cell, wv) ELSE @]
        ok == /\ s.ok /\ queued
              /\ o.cond /\ o.val # None => wv.values = o.val
              /\ step + 1 = Len(program) => LastStepHolds(chain3, scanned3, popped3, prints3)
    IN  /\ phase = "Proving"
        /\ phase' = IF ~ok THEN "Panic" ELSE IF step + 1 = Len(program) THEN "Proved" ELSE phase
        /\ step' = step + 1
        /\ popped' = popped3 /\ chain2' = chain3 /\ scanned' = scanned3
        /\ last_addr' = s.last /\ prints' = prints3
        /\ out' = IF o.val # None THEN out ELSE IF o.cond THEN rv.values ELSE Zero
        /\ UNCHANGED tracer

Next ==
    \/ \E cond \in BOOLEAN, c \in Cells, v \in Values \cup {None} : Trace(cond, c, v)
    \/ constraints
    \/ ProveStep

Spec == Init /\ [][Next]_nvars

-----------------------------------------------------------------------------

\* The memory is a random access memory, while tracing and again while
\* proving: each read returns what the program last wrote to the cell.
Ram == INSTANCE ProverRam WITH
    mem <- [c \in Cells |->
            LET k == IF phase = "Tracing" THEN Len(ws[c]) ELSE popped[c]
            IN  IF k = 0 THEN is[c].values ELSE ws[c][k].values],
    out <- out

ImplementsRam == Ram!RamSpec

\* Each segment is contiguous, and the scan needs no padding cells.  (The
\* step circuit scans one cell a step; required_steps rounds down, so with
\* padding cells a program of that many steps would leave them unscanned.)
Contiguous ==
    \A c, d \in Cells : c[1] = d[1] /\ d[2] < c[2] => <<c[1], c[2] - 1>> \in Cells
WholeBatches == Cardinality(Cells) % SCAN_BATCH_SIZE = 0

\* No assertion of the prover fails for an honestly traced program: the
\* queues are replayed to the end in the traced order, the steps scan every
\* cell once and in order, and initial and written entries are together the
\* read and final ones.
ProofCompletes == phase # "Panic"
=============================================================================
