----------------------------- MODULE ProverRam -----------------------------
(***************************************************************************)
(* What the proof circuit expects of its memory: a plain random access     *)
(* memory, used once to trace a program and once more, from the initial    *)
(* contents, to synthesize its constraints.  The crate's DummyMemory is    *)
(* this memory; NebulaMemory has to implement it.                          *)
(***************************************************************************)
CONSTANTS Cells, Values, Zero, InitialValue

VARIABLES mem, out

RamInit == mem = InitialValue /\ out = Zero

\* A read that is switched off returns zeros.
Read(c, a) == out' = (IF c THEN mem[a] ELSE Zero) /\ UNCHANGED mem

Write(c, a, v) == mem' = (IF c THEN [mem EXCEPT ![a] = v] ELSE mem) /\ UNCHANGED out

\* The circuit replays the program from the start.
Restart == mem' = InitialValue /\ UNCHANGED out

RamNext ==
    \/ \E c \in BOOLEAN, a \in Cells : Read(c, a)
    \/ \E c \in BOOLEAN, a \in Cells, v \in Values : Write(c, a, v)
    \/ Restart

RamSpec == RamInit /\ [][RamNext]_<<mem, out>>
=============================================================================
