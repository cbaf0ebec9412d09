---------------------- MODULE InterleavingCircuitProofs ----------------------
(***************************************************************************)
(* Theorems about the verifier of interleavings and about the circuit that *)
(* has to express it, for every well-shaped transaction and however many   *)
(* handlers it installs and refs it creates.                               *)
(*                                                                         *)
(* Part one is about InterleavingVerifier: control is in one place, an     *)
(* accepted transaction is at rest, and claims about who resumes a process *)
(* are honoured.  Part two: the copies that verifier, interleaver and      *)
(* circuit keep of the control state, the handler stacks and the refs      *)
(* agree.  Part three: what the verifier takes can be proved, and what can *)
(* be proved the verifier takes, apart from the calls that the model names.*)
(***************************************************************************)
EXTENDS InterleavingCircuit, TLAPS, SequenceTheorems, WellFoundedInduction

-----------------------------------------------------------------------------
(* PART ONE.  The verifier                                                 *)

\* One entry per process, for the state that passing control updates.
Typed ==
    /\ tx \in Transactions
    /\ DOMAIN activation = Procs
    /\ DOMAIN must_enter = Procs
    /\ DOMAIN ref_building = Procs
    /\ must_exit \in [Procs -> BOOLEAN]
    /\ on_yield \in [Procs -> BOOLEAN]
    /\ finalized \in [Procs -> BOOLEAN]
    /\ did_burn \in [Procs -> BOOLEAN]

\* A UTXO is final only while it is suspended at a yield: a Yield sets both, and
\* the Resume that wakes it up takes both back.
FinalIsSuspended == \A p \in Utxos : finalized[p] => on_yield[p]

\* Only inputs without a continuation burn.
BurnsAreDue == \A p \in Procs : did_burn[p] => p \in MustBurn

\* Nothing moves after the verdict, so what Accept has checked stays true.
VerdictStands ==
    verdict = "Ok" =>
        /\ ~is_utxo(id_curr)
        /\ \A p \in Utxos : finalized[p]
        /\ \A p \in Tokens : did_burn[p] \/ ownership[p] # None

RestInv == FinalIsSuspended /\ BurnsAreDue /\ VerdictStands
Inv == Typed /\ OnlyCurrentIsActive /\ RestInv

-----------------------------------------------------------------------------
(* Steps that pass no control                                              *)

\* What the invariant is about, apart from the refs.
control == <<verdict, id_curr, activation, must_enter, must_exit, on_yield, finalized,
             did_burn, ownership, tx>>

\* Only the running process begins, fills or completes a ref.
RefsMove ==
    /\ DOMAIN ref_building' = DOMAIN ref_building
    /\ \A p \in Procs \ {id_curr} : ref_building'[p] = ref_building[p]

\* The processes are those of the transaction, which does not change.
LEMMA SameTransaction ==
    ASSUME UNCHANGED tx
    PROVE  /\ UNCHANGED <<Procs, Utxos, NewOutputs, Tokens, MustBurn, Entrypoint>>
           /\ Utxos \subseteq Procs
  BY DEF Procs, Utxos, Inputs, NewOutputs, CoordScripts, Tokens, MustBurn, Entrypoint

\* A step that passes no control and judges nothing keeps the invariant.
LEMMA QuietStep ==
    ASSUME Inv, UNCHANGED control, RefsMove
    PROVE  Inv'
  <1>1. UNCHANGED <<Procs, Utxos, MustBurn, Tokens>>
    BY SameTransaction DEF control
  <1>2. Typed'
    BY <1>1 DEF Inv, Typed, control, RefsMove
  <1>3. OnlyCurrentIsActive'
    BY <1>1 DEF Inv, OnlyCurrentIsActive, control, RefsMove
  <1>4. RestInv'
    BY <1>1 DEF Inv, RestInv, FinalIsSuspended, BurnsAreDue, VerdictStands, is_utxo, control
  <1> QED
    BY <1>2, <1>3, <1>4 DEF Inv

\* Installing handlers, filling and reading refs.
LEMMA QuietActions ==
    ASSUME Inv, Handlers \/ Data \/ Observe
    PROVE  Inv'
  <1> USE DEF control, claims, frames, suspension, creation, refs, assets
  <1>1. CASE Handlers
    BY <1>1, QuietStep DEF Handlers, InstallHandler, UninstallHandler, MayUninstall, RefsMove
  <1>2. ASSUME NEW size, NewRef(size)
        PROVE  Inv'
    <2>1. UNCHANGED control
      BY <1>2 DEF NewRef
    <2>2. RefsMove
      BY <1>2 DEF NewRef, RefsMove, Inv, Typed
    <2> QED
      BY <2>1, <2>2, QuietStep
  <1>3. ASSUME NEW word, RefPush(word)
        PROVE  Inv'
    <2>1. UNCHANGED control
      BY <1>3 DEF RefPush, MayPush
    <2>2. RefsMove
      BY <1>3 DEF RefPush, MayPush, RefsMove, Inv, Typed
    <2> QED
      BY <2>1, <2>2, QuietStep
  <1>4. ASSUME NEW r, NEW offset, NEW word, RefWrite(r, offset, word)
        PROVE  Inv'
    BY <1>4, QuietStep DEF RefWrite, MayAccess, RefsMove
  <1>5. CASE Observe
    BY <1>5, QuietStep
    DEF Observe, ProgramHash, GetHandlerFor, Activation, RefGet, MayAccess, vars, RefsMove
  <1> QED
    BY <1>1, <1>2, <1>3, <1>4, <1>5 DEF Data

\* A created process is suspended; nobody runs it yet.
LEMMA CreatingInv ==
    ASSUME Inv, Creating
    PROVE  Inv'
  <1> USE DEF control, claims, frames, suspension, creation, refs, assets
  <1>1. ASSUME NEW id \in Procs, NEW val, Create(id, val)
        PROVE  Inv'
    <2>1. UNCHANGED <<Procs, Utxos, MustBurn, Tokens>> /\ Utxos \subseteq Procs
      BY <1>1, SameTransaction DEF Create, MayCreate
    <2>2. Typed'
      BY <1>1, <2>1 DEF Inv, Typed, Create, MayCreate
    <2>3. OnlyCurrentIsActive'
      BY <1>1, <2>1 DEF Inv, OnlyCurrentIsActive, Create, MayCreate
    <2>4. FinalIsSuspended'
      BY <1>1, <2>1 DEF Inv, Typed, RestInv, FinalIsSuspended, Create, MayCreate
    <2>5. BurnsAreDue' /\ VerdictStands'
      BY <1>1, <2>1 DEF Inv, RestInv, BurnsAreDue, VerdictStands, Create, MayCreate, HostCall
    <2> QED
      BY <2>2, <2>3, <2>4, <2>5 DEF Inv, RestInv
  <1>2. ASSUME NEW val, NEW caller, InitCall(val, caller)
        PROVE  Inv'
    BY <1>2, QuietStep DEF InitCall, RefsMove
  <1> QED
    BY <1>1, <1>2 DEF Creating, NewUtxo, NewToken, NewCoord

-----------------------------------------------------------------------------
(* Passing control                                                         *)

\* Whoever passes control leaves nothing behind that it would still have to do.
LEMMA TransferInv ==
    ASSUME Inv, HostCall, NEW target, NEW f, NEW val, NEW ret, NEW resumer,
           Transfer(target, f, val, ret, resumer),
           UNCHANGED on_yield \/ Adopt(target),
           UNCHANGED <<verdict, creation, refs, assets, handler_stack, tx>>
    PROVE  Inv'
  <1> USE DEF creation, refs, assets
  <1>1. UNCHANGED <<Procs, Utxos, MustBurn, Tokens>> /\ Utxos \subseteq Procs
    BY SameTransaction
  <1>2. on_yield' \in [Procs -> BOOLEAN]
    BY DEF Inv, Typed, Adopt
  <1>3. Typed'
    BY <1>1, <1>2 DEF Inv, Typed, Transfer, MayTransfer
  <1>4. OnlyCurrentIsActive'
    BY <1>1 DEF Inv, Typed, OnlyCurrentIsActive, Transfer, MayTransfer, HostCall
  <1>5. \A p \in Procs : p # target => on_yield'[p] = on_yield[p]
    BY DEF Inv, Typed, Adopt
  <1>6. \A p \in Procs : finalized'[p] => p # target /\ finalized[p]
    BY DEF Inv, Typed, Transfer, MayTransfer
  <1>7. FinalIsSuspended'
    BY <1>1, <1>5, <1>6 DEF Inv, RestInv, FinalIsSuspended
  <1>8. BurnsAreDue' /\ VerdictStands'
    BY <1>1 DEF Inv, RestInv, BurnsAreDue, VerdictStands, HostCall
  <1> QED
    BY <1>3, <1>4, <1>7, <1>8 DEF Inv, RestInv

\* A process that gives control back is suspended or a script.
LEMMA ControlInv ==
    ASSUME Inv, Control
    PROVE  Inv'
  <1> USE DEF claims, frames, suspension, creation, refs, assets
  <1>1. ASSUME NEW target, NEW f, NEW val, NEW ret, NEW caller, Resume(target, f, val, ret, caller)
        PROVE  Inv'
    BY <1>1, TransferInv DEF Resume, MayResume, MayTransfer
  <1>2. ASSUME NEW i, NEW f, NEW val, NEW ret, CallEffectHandler(i, f, val, ret)
        PROVE  Inv'
    BY <1>2, TransferInv DEF CallEffectHandler, MayCallHandler, MayTransfer
  <1>3. ASSUME NEW val, Yield(val)
        PROVE  Inv'
    <2>1. UNCHANGED <<Procs, Utxos, MustBurn, Tokens>> /\ Utxos \subseteq Procs
      BY <1>3, SameTransaction DEF Yield, MayYield
    <2>2. Typed'
      BY <1>3, <2>1 DEF Inv, Typed, Yield, MayYield
    <2>3. OnlyCurrentIsActive'
      BY <1>3, <2>1 DEF Inv, Typed, OnlyCurrentIsActive, Yield, MayYield, HostCall
    <2>4. FinalIsSuspended'
      BY <1>3, <2>1 DEF Inv, Typed, RestInv, FinalIsSuspended, Yield, MayYield
    <2>5. BurnsAreDue' /\ VerdictStands'
      BY <1>3, <2>1 DEF Inv, RestInv, BurnsAreDue, VerdictStands, Yield, MayYield, HostCall
    <2> QED
      BY <2>2, <2>3, <2>4, <2>5 DEF Inv, RestInv
  <1>4. CASE Return
    <2>1. UNCHANGED <<Procs, Utxos, MustBurn, Tokens>> /\ Utxos \subseteq Procs
      BY <1>4, SameTransaction DEF Return, MayReturn
    <2>2. Typed'
      BY <1>4, <2>1 DEF Inv, Typed, Return, MayReturn
    <2>3. OnlyCurrentIsActive'
      BY <1>4, <2>1 DEF Inv, Typed, OnlyCurrentIsActive, Return, MayReturn, HostCall
    <2>4. FinalIsSuspended'
      BY <1>4, <2>1 DEF Inv, Typed, RestInv, FinalIsSuspended, Return, MayReturn, is_utxo
    <2>5. BurnsAreDue' /\ VerdictStands'
      BY <1>4, <2>1 DEF Inv, RestInv, BurnsAreDue, VerdictStands, Return, MayReturn, HostCall
    <2> QED
      BY <2>2, <2>3, <2>4, <2>5 DEF Inv, RestInv
  <1>5. ASSUME NEW f, Enter(f)
        PROVE  Inv'
    <2>1. UNCHANGED <<Procs, Utxos, MustBurn, Tokens>>
      BY <1>5, SameTransaction DEF Enter, MayEnter
    <2>2. Typed'
      BY <1>5, <2>1 DEF Inv, Typed, Enter, MayEnter
    <2>3. OnlyCurrentIsActive'
      BY <1>5, <2>1 DEF Inv, Typed, OnlyCurrentIsActive, Enter, MayEnter
    <2>4. RestInv'
      BY <1>5, <2>1
      DEF Inv, RestInv, FinalIsSuspended, BurnsAreDue, VerdictStands, Enter, MayEnter
    <2> QED
      BY <2>2, <2>3, <2>4 DEF Inv
  <1> QED
    BY <1>1, <1>2, <1>3, <1>4, <1>5 DEF Control

-----------------------------------------------------------------------------
(* Burning, owning and the verdict                                         *)

\* Burn checks that the process has to burn; Bind and Unbind happen before the
\* verdict.
LEMMA OwningInv ==
    ASSUME Inv, Owning
    PROVE  Inv'
  <1> USE DEF claims, frames, suspension, creation, refs, assets
  <1>1. UNCHANGED <<Procs, Utxos, MustBurn, Tokens>>
    BY SameTransaction DEF Owning, Burn, Bind, MayBind, Unbind, MayUnbind
  <1>2. verdict = "Running" /\ verdict' # "Ok"
    BY DEF Owning, Burn, Bind, MayBind, Unbind, MayUnbind, HostCall
  <1>3. UNCHANGED <<tx, id_curr, activation, must_enter, must_exit, ref_building, on_yield, finalized>>
    BY DEF Owning, Burn, Bind, MayBind, Unbind, MayUnbind
  <1>4. /\ did_burn' \in [Procs -> BOOLEAN]
        /\ \A p \in Procs : did_burn'[p] => did_burn[p] \/ p \in MustBurn
    BY DEF Owning, Burn, Bind, MayBind, Unbind, MayUnbind, Inv, Typed
  <1>5. Typed'
    BY <1>1, <1>3, <1>4 DEF Inv, Typed
  <1>6. OnlyCurrentIsActive'
    BY <1>1, <1>3 DEF Inv, OnlyCurrentIsActive
  <1>7. RestInv'
    BY <1>1, <1>2, <1>3, <1>4 DEF Inv, RestInv, FinalIsSuspended, BurnsAreDue, VerdictStands
  <1> QED
    BY <1>5, <1>6, <1>7 DEF Inv

\* Accept has checked what VerdictStands says.
LEMMA VerdictInv ==
    ASSUME Inv, Accept \/ Reject
    PROVE  Inv'
  <1> USE DEF claims, frames, suspension, creation, refs, assets
  <1>1. UNCHANGED <<Procs, Utxos, MustBurn, Tokens>>
    BY SameTransaction DEF Accept, Reject
  <1>2. Typed' /\ OnlyCurrentIsActive' /\ FinalIsSuspended' /\ BurnsAreDue'
    BY <1>1 DEF Inv, Typed, OnlyCurrentIsActive, RestInv, FinalIsSuspended, BurnsAreDue,
                Accept, Reject
  <1>3. VerdictStands'
    BY <1>1 DEF VerdictStands, Accept, Reject, FinalConditions, is_utxo
  <1> QED
    BY <1>2, <1>3 DEF Inv, RestInv

-----------------------------------------------------------------------------
(* The theorems                                                            *)

\* Every process is suspended when the replay starts at the entrypoint.
LEMMA InitInv == Init => Inv
  <1> SUFFICES ASSUME Init PROVE Inv
    OBVIOUS
  <1>1. Typed
    BY DEF Init, Typed
  <1>2. OnlyCurrentIsActive
    BY DEF Init, OnlyCurrentIsActive
  <1>3. RestInv
    BY SameTransaction DEF Init, RestInv, FinalIsSuspended, BurnsAreDue, VerdictStands, Procs
  <1> QED
    BY <1>1, <1>2, <1>3 DEF Inv

\* Every host call, and every verdict, keeps the invariant.
LEMMA NextInv == Inv /\ [Next]_vars => Inv'
  <1> SUFFICES ASSUME Inv, [Next]_vars PROVE Inv'
    OBVIOUS
  <1>1. CASE UNCHANGED vars
    BY <1>1, QuietStep DEF vars, control, RefsMove, frames, suspension, refs, assets
  <1> QED
    BY <1>1, ControlInv, CreatingInv, QuietActions, OwningInv, VerdictInv DEF Next

\* In every replay of state_transition only the running process has an
\* activation, a function to enter or to leave, or a ref it is filling.
THEOREM OnlyCurrentIsActiveCorrect == Spec => []OnlyCurrentIsActive
  <1>1. Inv => OnlyCurrentIsActive
    BY DEF Inv
  <1> QED
    BY <1>1, InitInv, NextInv, PTL DEF Spec

\* verify_interleaving_semantics accepts no transaction with a UTXO that is
\* not suspended at a yield or a token that is neither bound nor due to burn.
THEOREM AcceptedAreAtRestCorrect == Spec => []AcceptedAreAtRest
  <1>1. Inv => AcceptedAreAtRest
    <2> SUFFICES ASSUME Inv, verdict = "Ok" PROVE AcceptedAreAtRest
      BY DEF AcceptedAreAtRest
    <2>1. /\ ~is_utxo(id_curr)
          /\ \A p \in Utxos : finalized[p]
          /\ \A p \in Tokens : did_burn[p] \/ ownership[p] # None
      BY DEF Inv, RestInv, VerdictStands
    <2>2. WellShaped(tx)
      BY InstanceAssumption DEF Inv, Typed
    <2>3. Tokens \subseteq Utxos
      BY <2>2 DEF WellShaped, Tokens, Utxos, Inputs, NewOutputs
    <2>4. Utxos \subseteq Procs
      BY DEF Procs
    <2>5. \A p \in Utxos : on_yield[p] /\ activation[p] = None /\ ~must_exit[p]
      BY <2>1, <2>4 DEF Inv, RestInv, FinalIsSuspended, OnlyCurrentIsActive, is_utxo
    <2>6. \A p \in Tokens : ownership[p] # None \/ p \in MustBurn
      BY <2>1, <2>3, <2>4 DEF Inv, RestInv, BurnsAreDue
    <2> QED
      BY <2>5, <2>6 DEF AcceptedAreAtRest
  <1> QED
    BY <1>1, InitInv, NextInv, PTL DEF Spec

\* No process gets control by Resume, CallEffectHandler or Yield from another
\* one than it claimed.
THEOREM ClaimsHonouredCorrect == Spec => ClaimsHonoured
  <1> USE DEF claims, frames, suspension, creation, refs, assets
  <1>1. ASSUME Next
        PROVE  \/ id_curr' = id_curr \/ Return
               \/ expected_resumer[id_curr'] \in {None, id_curr}
    <2>1. CASE Control
      <3>1. ASSUME NEW target, NEW f, NEW val, NEW ret, NEW resumer,
                   MayTransfer(target, val), Transfer(target, f, val, ret, resumer)
            PROVE  expected_resumer[id_curr'] \in {None, id_curr}
        BY <3>1 DEF Transfer, MayTransfer, ResumerMatches
      <3>2. ASSUME NEW target, NEW f, NEW val, NEW ret, NEW caller,
                   Resume(target, f, val, ret, caller)
            PROVE  expected_resumer[id_curr'] \in {None, id_curr}
        BY <3>1, <3>2 DEF Resume, MayResume
      <3>3. ASSUME NEW i, NEW f, NEW val, NEW ret, CallEffectHandler(i, f, val, ret)
            PROVE  expected_resumer[id_curr'] \in {None, id_curr}
        BY <3>1, <3>3 DEF CallEffectHandler, MayCallHandler
      <3>4. ASSUME NEW val, Yield(val)
            PROVE  expected_resumer[id_curr'] \in {None, id_curr}
        BY <3>4 DEF Yield, MayYield, ResumerMatches
      <3>5. ASSUME NEW f, Enter(f)
            PROVE  id_curr' = id_curr
        BY <3>5 DEF Enter, MayEnter
      <3> QED
        BY <2>1, <3>2, <3>3, <3>4, <3>5 DEF Control
    <2>2. CASE Creating \/ Handlers \/ Data
      BY <2>2
      DEF Creating, NewUtxo, NewToken, NewCoord, Create, MayCreate, InitCall, Handlers,
          InstallHandler, UninstallHandler, MayUninstall, Data, NewRef, RefPush, MayPush,
          RefWrite, MayAccess
    <2>3. CASE Observe
      BY <2>3 DEF Observe, ProgramHash, GetHandlerFor, Activation, RefGet, MayAccess, vars
    <2>4. CASE Owning \/ Accept \/ Reject
      BY <2>4 DEF Owning, Burn, Bind, MayBind, Unbind, MayUnbind, Accept, Reject
    <2> QED
      BY <1>1, <2>1, <2>2, <2>3, <2>4 DEF Next
  <1>2. ASSUME [Next]_vars
        PROVE  [LET q == id_curr' IN
                \/ q = id_curr \/ Return
                \/ expected_resumer[q] \in {None, id_curr}]_vars
    BY <1>1, <1>2
  <1> QED
    BY <1>2, PTL DEF Spec, ClaimsHonoured

-----------------------------------------------------------------------------
(* PART TWO.  The copies of the control state                              *)

Fields == {"expected_input", "expected_resumer", "on_yield", "yield_to", "activation", "init",
           "init_caller", "initialized", "finalized", "did_burn", "ownership", "must_enter",
           "must_exit"}

-----------------------------------------------------------------------------
(* The replay is one of the verifier                                       *)

\* The fields that ledger_operation_from_wit keeps.
LEMMA FromWitKeeps ==
    ASSUME NEW o \in Ops
    PROVE  /\ FromWit(o).op = o.op
           /\ o.op # "Resume" /\ o.op # "CallEffectHandler" => FromWit(o) = o
           /\ o.op = "Resume" =>
                /\ FromWit(o).target = o.target /\ FromWit(o).f = o.f /\ FromWit(o).val = o.val
                /\ FromWit(o).caller = o.caller
                /\ o.ret # None => FromWit(o).ret = o.ret
           /\ o.op = "CallEffectHandler" =>
                /\ FromWit(o).interface = o.interface /\ FromWit(o).f = o.f
                /\ FromWit(o).val = o.val
                /\ o.ret # None => FromWit(o).ret = o.ret
  BY DEF Ops, FromWit

\* The arguments of the operations.
LEMMA OpArguments ==
    ASSUME NEW o \in Ops
    PROVE  /\ o.op \in {"Resume"} \cup NewProcess \cup {"Bind", "Unbind", "ProgramHash"} =>
                o.target \in Procs
           /\ o.op \in HandlerOps => o.interface \in Interfaces
           /\ o.op = "Resume" => o.caller \in Option(Procs)
           /\ o.op = "NewRef" => o.size \in 0 .. MaxWords
           /\ o.op \in {"RefGet", "RefWrite"} => o.val \in Refs /\ o.offset \in 0 .. (MaxWords - 1)
           /\ o.op \in {"RefPush", "RefWrite"} => o.word \in Words
           /\ o.op \in {"Resume", "CallEffectHandler", "Enter", "Yield", "Return", "Burn",
                        "Activation", "Init", "Bind", "Unbind", "ProgramHash", "NewRef", "RefPush",
                        "RefGet", "RefWrite", "InstallHandler", "UninstallHandler",
                        "GetHandlerFor"} \cup NewProcess
  BY DEF Ops, NewProcess, HandlerOps

\* Every host call of the replay is a step of verify_interleaving_semantics.
LEMMA HostStepIsNext ==
    ASSUME NEW o \in Ops, HostStep(o)
    PROVE  Next
  <1> USE DEF Ops, HostStep, NewProcess
  <1>1. CASE o.op \in {"Resume", "CallEffectHandler", "Enter", "Yield", "Return"}
    BY <1>1 DEF Next, Control
  <1>2. CASE o.op \in {"NewUtxo", "NewToken", "NewCoord", "Init"}
    BY <1>2 DEF Next, Creating
  <1>3. CASE o.op \in {"InstallHandler", "UninstallHandler"}
    BY <1>3 DEF Next, Handlers
  <1>4. CASE o.op \in {"NewRef", "RefPush", "RefWrite"}
    BY <1>4 DEF Next, Data
  <1>5. CASE o.op \in {"ProgramHash", "GetHandlerFor", "Activation", "RefGet"}
    BY <1>5 DEF Next, Observe
  <1>6. CASE o.op \in {"Burn", "Bind", "Unbind"}
    BY <1>6 DEF Next, Owning
  <1> QED
    BY <1>1, <1>2, <1>3, <1>4, <1>5, <1>6

-----------------------------------------------------------------------------
(* The memory of the circuit                                               *)

\* What the two writes of a step leave in field f of process p.
Written(p, f, a, A, x, b, B, y) ==
    IF p = b /\ f \in B THEN y[f] ELSE IF p = a /\ f \in A THEN x[f] ELSE ps[p][f]

\* The fields are those of the dummy read.
LEMMA FieldsAreDummy == DOMAIN dummy = Fields
  BY DEF dummy, Fields

\* A step writes the current process first and the target after it.
LEMMA TwoWrites ==
    ASSUME DOMAIN ps = Procs, NEW a, NEW A, NEW x, NEW b, NEW B, NEW y
    PROVE  /\ DOMAIN Write(Write(ps, a, A, x), b, B, y) = Procs
           /\ \A p \in Procs, f \in Fields :
                Write(Write(ps, a, A, x), b, B, y)[p][f] = Written(p, f, a, A, x, b, B, y)
  <1>1. PICK mem : mem = Write(ps, a, A, x)
    OBVIOUS
  <1>2. /\ DOMAIN mem = Procs
        /\ \A p \in Procs, f \in Fields :
             mem[p][f] = IF p = a /\ f \in A THEN x[f] ELSE ps[p][f]
    BY <1>1, FieldsAreDummy DEF Write
  <1>3. /\ DOMAIN Write(mem, b, B, y) = Procs
        /\ \A p \in Procs, f \in Fields :
             Write(mem, b, B, y)[p][f] = IF p = b /\ f \in B THEN y[f] ELSE mem[p][f]
    BY <1>2, FieldsAreDummy DEF Write
  <1> QED
    BY <1>1, <1>2, <1>3 DEF Written

\* A read gives the fields that are switched on.
LEMMA ReadFields ==
    ASSUME NEW p, NEW S
    PROVE  /\ DOMAIN Read(p, S) = Fields
           /\ \A f \in Fields : Read(p, S)[f] = IF f \in S THEN ps[p][f] ELSE dummy[f]
  BY FieldsAreDummy DEF Read

\* The reads c and t and the writes x and y of operation o on target q.
MemoryStep(o, q, c, t, x, y) ==
    /\ c = Read(irw.id_curr, MemSwitchesCurr(o.op))
    /\ q = TracedTarget(o, c)
    /\ t = Read(q, MemSwitchesTarget(o.op))
    /\ x = program_state_transitions(o, c, t, NodeProcess(o)).curr
    /\ y = program_state_transitions(o, c, t, NodeProcess(o)).target
    /\ DOMAIN c = Fields /\ DOMAIN t = Fields
    /\ \A f \in Fields :
         /\ c[f] = IF f \in MemSwitchesCurr(o.op) THEN ps[irw.id_curr][f] ELSE dummy[f]
         /\ t[f] = IF f \in MemSwitchesTarget(o.op) THEN ps[q][f] ELSE dummy[f]
    /\ DOMAIN ps' = Procs
    /\ \A p \in Procs, f \in Fields :
         ps'[p][f] = Written(p, f, irw.id_curr, MemSwitchesCurr(o.op), x,
                             q, MemSwitchesTarget(o.op), y)

\* Every step of the circuit has its reads and writes.
LEMMA StepWrites ==
    ASSUME DOMAIN ps = Procs, NEW o, CircuitStep(o)
    PROVE  \E q, c, t, x, y : MemoryStep(o, q, c, t, x, y)
  <1>1. PICK c : c = Read(irw.id_curr, MemSwitchesCurr(o.op))
    OBVIOUS
  <1>2. PICK q : q = TracedTarget(o, c)
    OBVIOUS
  <1>3. PICK t : t = Read(q, MemSwitchesTarget(o.op))
    OBVIOUS
  <1>4. PICK x, y : /\ x = program_state_transitions(o, c, t, NodeProcess(o)).curr
                    /\ y = program_state_transitions(o, c, t, NodeProcess(o)).target
    OBVIOUS
  <1>5. ps' = Write(Write(ps, irw.id_curr, MemSwitchesCurr(o.op), x),
                    q, MemSwitchesTarget(o.op), y)
    BY <1>1, <1>2, <1>3, <1>4 DEF CircuitStep, Wires
  <1>6. /\ DOMAIN ps' = Procs
        /\ \A p \in Procs, f \in Fields :
             ps'[p][f] = Written(p, f, irw.id_curr, MemSwitchesCurr(o.op), x,
                                 q, MemSwitchesTarget(o.op), y)
    BY <1>5, TwoWrites
  <1>7. MemoryStep(o, q, c, t, x, y)
    BY <1>1, <1>2, <1>3, <1>4, <1>6, ReadFields DEF MemoryStep
  <1> QED
    BY <1>7

\* What me and the target q of a Resume or CallEffectHandler have in memory
\* afterwards: the claims of q are taken, those of me recorded.
Transferred(p, q, me, f, val, ret, resumer) ==
    /\ ps'[p].initialized = ps[p].initialized
    /\ ps'[p].did_burn = ps[p].did_burn
    /\ ps'[p].ownership = ps[p].ownership
    /\ ps'[p].init = ps[p].init /\ ps'[p].init_caller = ps[p].init_caller
    /\ ps'[p].finalized = IF p = q THEN FALSE ELSE ps[p].finalized
    /\ ps'[p].must_enter = IF p = q THEN f ELSE ps[p].must_enter
    /\ ps'[p].must_exit = IF p = me THEN FALSE ELSE ps[p].must_exit
    /\ ps'[p].expected_input = IF p = q THEN None ELSE IF p = me THEN ret
                               ELSE ps[p].expected_input
    /\ ps'[p].expected_resumer = IF p = q THEN None ELSE IF p = me THEN resumer
                                 ELSE ps[p].expected_resumer
    /\ ps'[p].activation = IF p = q THEN val ELSE IF p = me THEN 0 ELSE ps[p].activation

\* A Resume also wakes q.
Woken(p, q, me) ==
    /\ ps'[p].on_yield = IF p = q THEN FALSE ELSE ps[p].on_yield
    /\ ps'[p].yield_to = IF p = q /\ ps[p].on_yield THEN me ELSE ps[p].yield_to

\* What the circuit writes for a Resume.
LEMMA ResumeMemory ==
    ASSUME DOMAIN ps = Procs, NEW o, o.op = "Resume", o.target \in Procs,
           irw.id_curr \in Procs, irw.id_curr # o.target, ~is_utxo(irw.id_curr), CircuitStep(o)
    PROVE  \A p \in Procs :
             /\ Transferred(p, o.target, irw.id_curr, o.f, o.val, o.ret, o.caller)
             /\ Woken(p, o.target, irw.id_curr)
  <1>1. PICK q, c, t, x, y : MemoryStep(o, q, c, t, x, y)
    BY StepWrites
  <1>2. /\ MemSwitchesCurr(o.op) =
             {"activation", "expected_input", "expected_resumer", "must_exit"}
        /\ MemSwitchesTarget(o.op) =
             {"activation", "expected_input", "expected_resumer", "on_yield", "yield_to",
              "finalized", "initialized", "must_enter", "must_exit"}
    BY DEF MemSwitchesCurr, MemSwitchesTarget, NewProcess
  <1>3. q = o.target /\ x = ResumeWrites(o, c, t).curr /\ y = ResumeWrites(o, c, t).target
    BY <1>1 DEF MemoryStep, TracedTarget, program_state_transitions, NewProcess
  <1>4. DOMAIN c = Fields /\ DOMAIN t = Fields
    BY <1>1 DEF MemoryStep
  <1>5. /\ x["activation"] = 0 /\ x["expected_input"] = o.ret /\ x["expected_resumer"] = o.caller
        /\ x["must_exit"] = FALSE
        /\ y["expected_input"] = None /\ y["expected_resumer"] = None
        /\ y["activation"] = o.val /\ y["finalized"] = FALSE /\ y["on_yield"] = FALSE
        /\ y["must_enter"] = o.f
        /\ y["yield_to"] = IF t["on_yield"] THEN irw.id_curr ELSE t["yield_to"]
        /\ y["initialized"] = t["initialized"] /\ y["must_exit"] = t["must_exit"]
    BY <1>3, <1>4 DEF ResumeWrites, Fields
  <1>6. /\ t["on_yield"] = ps[q]["on_yield"] /\ t["yield_to"] = ps[q]["yield_to"]
        /\ t["initialized"] = ps[q]["initialized"] /\ t["must_exit"] = ps[q]["must_exit"]
    BY <1>1, <1>2 DEF MemoryStep, Fields
  <1>7. \A p \in Procs, f \in Fields :
          ps'[p][f] = Written(p, f, irw.id_curr, MemSwitchesCurr(o.op), x,
                              q, MemSwitchesTarget(o.op), y)
    BY <1>1 DEF MemoryStep
  <1>8. \A p \in Procs, f \in Fields :
          ps'[p][f] = IF p = q /\ f \in MemSwitchesTarget(o.op) THEN y[f]
                      ELSE IF p = irw.id_curr /\ f \in MemSwitchesCurr(o.op) THEN x[f]
                      ELSE ps[p][f]
    BY <1>7 DEF Written
  <1> TAKE p \in Procs
  <1>9. /\ ps'[p]["initialized"] = ps[p]["initialized"]
        /\ ps'[p]["did_burn"] = ps[p]["did_burn"]
        /\ ps'[p]["ownership"] = ps[p]["ownership"]
        /\ ps'[p]["init"] = ps[p]["init"] /\ ps'[p]["init_caller"] = ps[p]["init_caller"]
    BY <1>2, <1>5, <1>6, <1>8 DEF Fields
  <1>10. /\ ps'[p]["on_yield"] = IF p = q THEN FALSE ELSE ps[p]["on_yield"]
         /\ ps'[p]["yield_to"] = IF p = q /\ ps[p]["on_yield"]
                                 THEN irw.id_curr ELSE ps[p]["yield_to"]
         /\ ps'[p]["finalized"] = IF p = q THEN FALSE ELSE ps[p]["finalized"]
         /\ ps'[p]["must_enter"] = IF p = q THEN o.f ELSE ps[p]["must_enter"]
    <2>1. CASE p = q
      <3>1. ps'[p]["yield_to"] = y["yield_to"]
        BY <2>1, <1>2, <1>8 DEF Fields
      <3>2. y["yield_to"] = IF ps[p]["on_yield"] THEN irw.id_curr ELSE ps[p]["yield_to"]
        BY <2>1, <1>5, <1>6
      <3> QED
        BY <2>1, <3>1, <3>2, <1>2, <1>5, <1>8 DEF Fields
    <2>2. CASE p # q
      BY <2>2, <1>2, <1>8 DEF Fields
    <2> QED
      BY <2>1, <2>2
  <1>11. ps'[p]["must_exit"] = IF p = irw.id_curr THEN FALSE ELSE ps[p]["must_exit"]
    <2>1. CASE p = irw.id_curr
      BY <2>1, <1>2, <1>3, <1>5, <1>8 DEF Fields
    <2>2. CASE p = q
      BY <2>2, <1>2, <1>3, <1>5, <1>6, <1>8 DEF Fields
    <2>3. CASE p # irw.id_curr /\ p # q
      BY <2>3, <1>8 DEF Fields
    <2> QED
      BY <2>1, <2>2, <2>3
  <1>12. /\ ps'[p]["expected_input"] =
              IF p = q THEN None ELSE IF p = irw.id_curr THEN o.ret ELSE ps[p]["expected_input"]
         /\ ps'[p]["expected_resumer"] =
              IF p = q THEN None ELSE IF p = irw.id_curr THEN o.caller
              ELSE ps[p]["expected_resumer"]
         /\ ps'[p]["activation"] =
              IF p = q THEN o.val ELSE IF p = irw.id_curr THEN 0 ELSE ps[p]["activation"]
    BY <1>2, <1>5, <1>8 DEF Fields
  <1> QED
    BY <1>3, <1>9, <1>10, <1>11, <1>12 DEF Transferred, Woken

\* What the circuit writes for a CallEffectHandler, which wakes nobody.
LEMMA CallMemory ==
    ASSUME DOMAIN ps = Procs, NEW o, o.op = "CallEffectHandler", NodeProcess(o) \in Procs,
           irw.id_curr \in Procs, irw.id_curr # NodeProcess(o), CircuitStep(o)
    PROVE  \A p \in Procs :
             /\ Transferred(p, NodeProcess(o), irw.id_curr, o.f, o.val, o.ret, NodeProcess(o))
             /\ ps'[p].on_yield = ps[p].on_yield /\ ps'[p].yield_to = ps[p].yield_to
  <1>1. PICK q, c, t, x, y : MemoryStep(o, q, c, t, x, y)
    BY StepWrites
  <1>2. /\ MemSwitchesCurr(o.op) =
             {"activation", "expected_input", "expected_resumer", "must_exit"}
        /\ MemSwitchesTarget(o.op) =
             {"activation", "expected_input", "expected_resumer", "finalized", "must_enter",
              "must_exit"}
    BY DEF MemSwitchesCurr, MemSwitchesTarget, NewProcess
  <1>3. /\ q = NodeProcess(o)
        /\ x = CallWrites(o, c, t, NodeProcess(o)).curr
        /\ y = CallWrites(o, c, t, NodeProcess(o)).target
    BY <1>1 DEF MemoryStep, TracedTarget, program_state_transitions, NewProcess
  <1>4. DOMAIN c = Fields /\ DOMAIN t = Fields
    BY <1>1 DEF MemoryStep
  <1>5. /\ x["activation"] = 0 /\ x["expected_input"] = o.ret
        /\ x["expected_resumer"] = NodeProcess(o) /\ x["must_exit"] = FALSE
        /\ y["expected_input"] = None /\ y["expected_resumer"] = None
        /\ y["activation"] = o.val /\ y["finalized"] = FALSE /\ y["must_enter"] = o.f
        /\ y["must_exit"] = t["must_exit"]
    BY <1>3, <1>4 DEF CallWrites, Fields
  <1>6. t["must_exit"] = ps[q]["must_exit"]
    BY <1>1, <1>2 DEF MemoryStep, Fields
  <1>7. \A p \in Procs, f \in Fields :
          ps'[p][f] = Written(p, f, irw.id_curr, MemSwitchesCurr(o.op), x,
                              q, MemSwitchesTarget(o.op), y)
    BY <1>1 DEF MemoryStep
  <1>8. \A p \in Procs, f \in Fields :
          ps'[p][f] = IF p = q /\ f \in MemSwitchesTarget(o.op) THEN y[f]
                      ELSE IF p = irw.id_curr /\ f \in MemSwitchesCurr(o.op) THEN x[f]
                      ELSE ps[p][f]
    BY <1>7 DEF Written
  <1> TAKE p \in Procs
  <1>9. /\ ps'[p]["initialized"] = ps[p]["initialized"]
        /\ ps'[p]["did_burn"] = ps[p]["did_burn"]
        /\ ps'[p]["ownership"] = ps[p]["ownership"]
        /\ ps'[p]["init"] = ps[p]["init"] /\ ps'[p]["init_caller"] = ps[p]["init_caller"]
    BY <1>2, <1>5, <1>6, <1>8 DEF Fields
  <1>10. /\ ps'[p]["on_yield"] = ps[p]["on_yield"]
         /\ ps'[p]["yield_to"] = ps[p]["yield_to"]
         /\ ps'[p]["finalized"] = IF p = q THEN FALSE ELSE ps[p]["finalized"]
         /\ ps'[p]["must_enter"] = IF p = q THEN o.f ELSE ps[p]["must_enter"]
    BY <1>2, <1>5, <1>6, <1>8 DEF Fields
  <1>11. ps'[p]["must_exit"] = IF p = irw.id_curr THEN FALSE ELSE ps[p]["must_exit"]
    <2>1. CASE p = irw.id_curr
      BY <2>1, <1>2, <1>3, <1>5, <1>8 DEF Fields
    <2>2. CASE p = q
      BY <2>2, <1>2, <1>3, <1>5, <1>6, <1>8 DEF Fields
    <2>3. CASE p # irw.id_curr /\ p # q
      BY <2>3, <1>8 DEF Fields
    <2> QED
      BY <2>1, <2>2, <2>3
  <1>12. /\ ps'[p]["expected_input"] =
              IF p = q THEN None ELSE IF p = irw.id_curr THEN o.ret ELSE ps[p]["expected_input"]
         /\ ps'[p]["expected_resumer"] =
              IF p = q THEN None ELSE IF p = irw.id_curr THEN NodeProcess(o)
              ELSE ps[p]["expected_resumer"]
         /\ ps'[p]["activation"] =
              IF p = q THEN o.val ELSE IF p = irw.id_curr THEN 0 ELSE ps[p]["activation"]
    BY <1>2, <1>5, <1>8 DEF Fields
  <1> QED
    BY <1>3, <1>9, <1>10, <1>11, <1>12 DEF Transferred

\* The memory after me gave up its frame, at a yield or for good.
Suspended(p, me, yields) ==
    /\ ps'[p].initialized = ps[p].initialized
    /\ ps'[p].did_burn = ps[p].did_burn
    /\ ps'[p].ownership = ps[p].ownership
    /\ ps'[p].init = ps[p].init /\ ps'[p].init_caller = ps[p].init_caller
    /\ ps'[p].yield_to = ps[p].yield_to
    /\ ps'[p].must_enter = ps[p].must_enter
    /\ ps'[p].expected_input = ps[p].expected_input
    /\ ps'[p].expected_resumer = ps[p].expected_resumer
    /\ ps'[p].on_yield = IF p = me /\ yields THEN TRUE ELSE ps[p].on_yield
    /\ ps'[p].finalized = IF p = me THEN TRUE ELSE ps[p].finalized
    /\ ps'[p].must_exit = IF p = me THEN FALSE ELSE ps[p].must_exit
    /\ ps'[p].activation = IF p = me THEN 0 ELSE ps[p].activation

\* What the circuit writes for a Yield or Return.
LEMMA SuspendMemory ==
    ASSUME DOMAIN ps = Procs, NEW o, o.op \in {"Yield", "Return"}, irw.id_curr \in Procs,
           CircuitStep(o)
    PROVE  \A p \in Procs : Suspended(p, irw.id_curr, o.op = "Yield")
  <1>1. PICK q, c, t, x, y : MemoryStep(o, q, c, t, x, y)
    BY StepWrites
  <1>2. /\ MemSwitchesCurr(o.op) =
             {"activation", "on_yield", "yield_to", "finalized", "must_exit"}
        /\ MemSwitchesTarget(o.op) =
             IF o.op = "Yield" THEN {"expected_input", "expected_resumer", "must_enter"} ELSE {}
    BY DEF MemSwitchesCurr, MemSwitchesTarget, NewProcess
  <1>3. /\ y = t
        /\ o.op = "Yield" => x = [c EXCEPT !.activation = 0, !.finalized = TRUE,
                                           !.on_yield = TRUE, !.must_exit = FALSE]
        /\ o.op = "Return" => x = [c EXCEPT !.activation = 0, !.finalized = TRUE,
                                            !.must_exit = FALSE]
    BY <1>1 DEF MemoryStep, program_state_transitions, NewProcess
  <1>4. DOMAIN c = Fields
    BY <1>1 DEF MemoryStep
  <1>5. /\ x["activation"] = 0 /\ x["finalized"] = TRUE /\ x["must_exit"] = FALSE
        /\ x["yield_to"] = c["yield_to"]
        /\ x["on_yield"] = IF o.op = "Yield" THEN TRUE ELSE c["on_yield"]
    BY <1>3, <1>4 DEF Fields
  <1>6. /\ c["yield_to"] = ps[irw.id_curr]["yield_to"]
        /\ c["on_yield"] = ps[irw.id_curr]["on_yield"]
        /\ \A f \in MemSwitchesTarget(o.op) : t[f] = ps[q][f]
    BY <1>1, <1>2 DEF MemoryStep, Fields
  <1>7. \A p \in Procs, f \in Fields :
          ps'[p][f] = IF p = q /\ f \in MemSwitchesTarget(o.op) THEN y[f]
                      ELSE IF p = irw.id_curr /\ f \in MemSwitchesCurr(o.op) THEN x[f]
                      ELSE ps[p][f]
    BY <1>1 DEF MemoryStep, Written
  <1>8. \A p \in Procs, f \in Fields :
          ps'[p][f] = IF p = irw.id_curr /\ f \in MemSwitchesCurr(o.op) THEN x[f] ELSE ps[p][f]
    BY <1>2, <1>3, <1>6, <1>7 DEF Fields
  <1> TAKE p \in Procs
  <1>9. CASE p = irw.id_curr
    BY <1>9, <1>2, <1>5, <1>6, <1>8, ZenonT(60) DEF Fields, Suspended
  <1>10. CASE p # irw.id_curr
    BY <1>10, <1>8 DEF Fields, Suspended
  <1> QED
    BY <1>9, <1>10

\* Enter moves the running process into its function.
LEMMA EnterMemory ==
    ASSUME DOMAIN ps = Procs, NEW o, o.op = "Enter", irw.id_curr \in Procs, CircuitStep(o)
    PROVE  \A p \in Procs, f \in Fields :
             ps'[p][f] = IF p = irw.id_curr /\ f = "must_enter" THEN None
                         ELSE IF p = irw.id_curr /\ f = "must_exit" THEN TRUE
                         ELSE ps[p][f]
  <1>1. PICK q, c, t, x, y : MemoryStep(o, q, c, t, x, y)
    BY StepWrites
  <1>2. MemSwitchesCurr(o.op) = {"must_enter", "must_exit"} /\ MemSwitchesTarget(o.op) = {}
    BY DEF MemSwitchesCurr, MemSwitchesTarget, NewProcess
  <1>3. x = [c EXCEPT !.must_enter = None, !.must_exit = TRUE] /\ DOMAIN c = Fields
    BY <1>1 DEF MemoryStep, program_state_transitions, NewProcess
  <1>4. x["must_enter"] = None /\ x["must_exit"] = TRUE
    BY <1>3 DEF Fields
  <1>5. \A p \in Procs, f \in Fields :
          ps'[p][f] = IF p = irw.id_curr /\ f \in {"must_enter", "must_exit"} THEN x[f]
                      ELSE ps[p][f]
    BY <1>1, <1>2 DEF MemoryStep, Written
  <1> TAKE p \in Procs, f \in Fields
  <1>6. CASE p = irw.id_curr /\ f = "must_enter"
    BY <1>4, <1>5, <1>6
  <1>7. CASE p = irw.id_curr /\ f = "must_exit"
    BY <1>4, <1>5, <1>7
  <1>8. CASE p # irw.id_curr \/ f \notin {"must_enter", "must_exit"}
    BY <1>5, <1>8
  <1> QED
    BY <1>6, <1>7, <1>8

\* Burn sets did_burn and writes back what else it reads.
LEMMA BurnMemory ==
    ASSUME DOMAIN ps = Procs, NEW o, o.op = "Burn", irw.id_curr \in Procs, CircuitStep(o)
    PROVE  \A p \in Procs, f \in Fields :
             ps'[p][f] = IF p = irw.id_curr /\ f = "did_burn" THEN TRUE ELSE ps[p][f]
  <1>1. PICK q, c, t, x, y : MemoryStep(o, q, c, t, x, y)
    BY StepWrites
  <1>2. /\ MemSwitchesCurr(o.op) = {"activation", "did_burn", "initialized", "must_exit"}
        /\ MemSwitchesTarget(o.op) = {}
    BY DEF MemSwitchesCurr, MemSwitchesTarget, NewProcess
  <1>3. x = [c EXCEPT !.did_burn = TRUE] /\ DOMAIN c = Fields
    BY <1>1 DEF MemoryStep, program_state_transitions, NewProcess
  <1>4. \A f \in MemSwitchesCurr(o.op) :
          x[f] = IF f = "did_burn" THEN TRUE ELSE ps[irw.id_curr][f]
    <2>1. \A f \in MemSwitchesCurr(o.op) : c[f] = ps[irw.id_curr][f]
      BY <1>1, <1>2 DEF MemoryStep, Fields
    <2> QED
      BY <1>2, <1>3, <2>1 DEF Fields
  <1>5. \A p \in Procs, f \in Fields :
          ps'[p][f] = IF p = irw.id_curr /\ f \in MemSwitchesCurr(o.op) THEN x[f] ELSE ps[p][f]
    BY <1>1, <1>2 DEF MemoryStep, Written
  <1> QED
    BY <1>2, <1>4, <1>5

\* The memory after q was created.
Created(p, q) ==
    \A f \in Fields \ {"init", "init_caller"} :
        ps'[p][f] = IF p = q /\ f \in {"initialized", "on_yield"} THEN TRUE
                    ELSE IF p = q /\ f \in {"expected_input", "expected_resumer", "yield_to"}
                         THEN None
                    ELSE ps[p][f]

\* What the circuit writes for NewUtxo, NewToken and NewCoord.
LEMMA CreateMemory ==
    ASSUME DOMAIN ps = Procs, NEW o, o.op \in NewProcess, CircuitStep(o)
    PROVE  \A p \in Procs : Created(p, o.target)
  <1>1. PICK q, c, t, x, y : MemoryStep(o, q, c, t, x, y)
    BY StepWrites
  <1>2. /\ MemSwitchesCurr(o.op) = {}
        /\ MemSwitchesTarget(o.op) =
             {"initialized", "init", "init_caller", "expected_input", "expected_resumer",
              "on_yield", "yield_to"}
    BY DEF MemSwitchesCurr, MemSwitchesTarget, NewProcess
  <1>3. q = o.target /\ y = CreateWrites(o, c, t).target /\ DOMAIN t = Fields
    BY <1>1 DEF MemoryStep, program_state_transitions, NewProcess, TracedTarget
  <1>4. /\ y["initialized"] = TRUE /\ y["on_yield"] = TRUE
        /\ y["expected_input"] = None /\ y["expected_resumer"] = None /\ y["yield_to"] = None
    BY <1>3 DEF CreateWrites, Fields
  <1>5. \A p \in Procs, f \in Fields :
          ps'[p][f] = IF p = o.target /\ f \in MemSwitchesTarget(o.op) THEN y[f] ELSE ps[p][f]
    BY <1>1, <1>2, <1>3 DEF MemoryStep, Written
  <1> TAKE p \in Procs
  <1> SUFFICES ASSUME NEW f \in Fields \ {"init", "init_caller"}
               PROVE  ps'[p][f] = IF p = o.target /\ f \in {"initialized", "on_yield"} THEN TRUE
                                  ELSE IF p = o.target /\
                                          f \in {"expected_input", "expected_resumer", "yield_to"}
                                       THEN None
                                  ELSE ps[p][f]
    BY DEF Created
  <1>6. CASE p = o.target /\ f \in {"initialized", "on_yield"}
    <2>1. ps'[p][f] = y[f]
      BY <1>2, <1>5, <1>6
    <2> QED
      BY <1>4, <1>6, <2>1
  <1>7. CASE p = o.target /\ f \in {"expected_input", "expected_resumer", "yield_to"}
    <2>1. ps'[p][f] = y[f]
      BY <1>2, <1>5, <1>7
    <2> QED
      BY <1>4, <1>7, <2>1
  <1>8. CASE p # o.target \/ f \notin {"initialized", "on_yield", "expected_input",
                                       "expected_resumer", "yield_to"}
    BY <1>2, <1>5, <1>8
  <1> QED
    BY <1>6, <1>7, <1>8

\* Bind and Unbind change an owner.
LEMMA OwnerMemory ==
    ASSUME DOMAIN ps = Procs, NEW o, o.op \in {"Bind", "Unbind"}, CircuitStep(o)
    PROVE  \A p \in Procs, f \in Fields :
             ps'[p][f] = IF o.op = "Bind" /\ p = irw.id_curr /\ f = "ownership" THEN o.target
                         ELSE IF o.op = "Unbind" /\ p = o.target /\ f = "ownership" THEN None
                         ELSE ps[p][f]
  <1>1. PICK q, c, t, x, y : MemoryStep(o, q, c, t, x, y)
    BY StepWrites
  <1>2. \A p \in Procs, f \in Fields :
          ps'[p][f] = IF p = q /\ f \in MemSwitchesTarget(o.op) THEN y[f]
                      ELSE IF p = irw.id_curr /\ f \in MemSwitchesCurr(o.op) THEN x[f]
                      ELSE ps[p][f]
    BY <1>1 DEF MemoryStep, Written
  <1>3. CASE o.op = "Bind"
    <2>1. MemSwitchesCurr(o.op) = {"ownership"} /\ MemSwitchesTarget(o.op) = {"initialized"}
      BY <1>3 DEF MemSwitchesCurr, MemSwitchesTarget, NewProcess
    <2>2. x = [c EXCEPT !.ownership = o.target] /\ y = t /\ DOMAIN c = Fields
      BY <1>1, <1>3 DEF MemoryStep, program_state_transitions, NewProcess
    <2>3. x["ownership"] = o.target /\ y["initialized"] = ps[q]["initialized"]
      BY <1>1, <2>1, <2>2 DEF MemoryStep, Fields
    <2> QED
      BY <1>2, <1>3, <2>1, <2>3
  <1>4. CASE o.op = "Unbind"
    <2>1. MemSwitchesCurr(o.op) = {} /\ MemSwitchesTarget(o.op) = {"ownership"}
      BY <1>4 DEF MemSwitchesCurr, MemSwitchesTarget, NewProcess
    <2>2. q = o.target /\ y = [t EXCEPT !.ownership = None] /\ DOMAIN t = Fields
      BY <1>1, <1>4 DEF MemoryStep, program_state_transitions, NewProcess, TracedTarget
    <2>3. y["ownership"] = None
      BY <2>2 DEF Fields
    <2> QED
      BY <1>2, <1>4, <2>1, <2>2, <2>3
  <1> QED
    BY <1>3, <1>4

\* The operations on refs and handlers and the ones that only check a result.
PlainOps == {"Activation", "Init", "ProgramHash", "NewRef", "RefPush", "RefGet", "RefWrite",
             "InstallHandler", "UninstallHandler", "GetHandlerFor", "Nop"}

\* Those write back what they read.
LEMMA PlainMemory ==
    ASSUME DOMAIN ps = Procs, NEW o, o.op \in PlainOps, CircuitStep(o)
    PROVE  \A p \in Procs, f \in Fields : ps'[p][f] = ps[p][f]
  <1>1. PICK q, c, t, x, y : MemoryStep(o, q, c, t, x, y)
    BY StepWrites
  <1>2. MemSwitchesTarget(o.op) = {} /\ MemSwitchesCurr(o.op) \subseteq Fields
    BY DEF MemSwitchesCurr, MemSwitchesTarget, NewProcess, PlainOps, Fields
  <1>3. x = c
    BY <1>1 DEF MemoryStep, program_state_transitions, NewProcess, PlainOps
  <1>4. \A f \in MemSwitchesCurr(o.op) : x[f] = ps[irw.id_curr][f]
    BY <1>1, <1>2, <1>3 DEF MemoryStep
  <1> QED
    BY <1>1, <1>2, <1>4 DEF MemoryStep, Written

\* No step forgets a process.
LEMMA MemoryDomain ==
    ASSUME DOMAIN ps = Procs, NEW o, CircuitStep(o)
    PROVE  DOMAIN ps' = Procs
  BY StepWrites DEF MemoryStep

-----------------------------------------------------------------------------
(* The wires between the steps                                             *)

RoundFields == {"id_curr", "id_prev", "next_ref_id", "ref_arena_len", "handler_stack_counter",
                "ref_building_remaining", "ref_building_ptr"}

\* The process that runs after operation o, if o passes control.
JumpsTo(o) ==
    IF \/ o.op \in {"Resume", "CallEffectHandler", "Yield"}
       \/ o.op = "Return" /\ Wires(o).curr.yield_to # None
    THEN Wires(o).target_id ELSE None

\* What a step hands to the next one.
LEMMA RoundStep ==
    ASSUME DOMAIN irw = RoundFields, NEW o, CircuitStep(o)
    PROVE  /\ DOMAIN irw' = RoundFields
           /\ irw'.id_curr = IF JumpsTo(o) = None THEN irw.id_curr ELSE JumpsTo(o)
           /\ irw'.id_prev = IF JumpsTo(o) = None THEN irw.id_prev ELSE irw.id_curr
           /\ irw'.next_ref_id =
                IF o.op = "NewRef" THEN irw.next_ref_id + 1 ELSE irw.next_ref_id
           /\ irw'.ref_building_remaining =
                IF o.op = "NewRef" THEN o.size
                ELSE IF o.op = "RefPush" THEN irw.ref_building_remaining - 1
                ELSE irw.ref_building_remaining
           /\ irw'.handler_stack_counter =
                IF o.op = "InstallHandler" THEN irw.handler_stack_counter + 1
                ELSE irw.handler_stack_counter
           /\ irw'.ref_arena_len =
                IF o.op = "NewRef" THEN irw.ref_arena_len + o.size ELSE irw.ref_arena_len
           /\ irw'.ref_building_ptr =
                IF o.op = "NewRef" THEN irw.ref_arena_len
                ELSE IF o.op = "RefPush" THEN irw.ref_building_ptr + 1
                ELSE irw.ref_building_ptr
  <1>1. irw' = NextRound(o, Wires(o))
    BY DEF CircuitStep
  <1>2. PICK to : to = JumpsTo(o)
    OBVIOUS
  <1>3. PICK jump : jump = [irw EXCEPT !.id_curr = IF to = None THEN @ ELSE to,
                                       !.id_prev = IF to = None THEN @ ELSE irw.id_curr]
    OBVIOUS
  <1>4. irw' = CASE o.op = "NewRef" -> AllocateRef(o, jump)
                 [] o.op = "RefPush" ->
                      [jump EXCEPT !.ref_building_remaining = @ - 1, !.ref_building_ptr = @ + 1]
                 [] o.op = "InstallHandler" -> [jump EXCEPT !.handler_stack_counter = @ + 1]
                 [] OTHER -> jump
    <2>1. (CASE o.op \in {"Resume", "CallEffectHandler", "Yield"} -> Wires(o).target_id
             [] o.op = "Return" /\ Wires(o).curr.yield_to # None -> Wires(o).target_id
             [] OTHER -> None) = to
      BY <1>2 DEF JumpsTo
    <2> QED
      BY <1>1, <1>3, <2>1 DEF NextRound
  <1>5. /\ DOMAIN jump = RoundFields
        /\ jump.id_curr = IF to = None THEN irw.id_curr ELSE to
        /\ jump.id_prev = IF to = None THEN irw.id_prev ELSE irw.id_curr
        /\ \A f \in RoundFields \ {"id_curr", "id_prev"} : jump[f] = irw[f]
    BY <1>3 DEF RoundFields
  <1>6. CASE o.op = "NewRef"
    BY <1>2, <1>4, <1>5, <1>6 DEF AllocateRef, RoundFields
  <1>7. CASE o.op = "RefPush"
    BY <1>2, <1>4, <1>5, <1>7 DEF RoundFields
  <1>8. CASE o.op = "InstallHandler"
    BY <1>2, <1>4, <1>5, <1>8 DEF RoundFields
  <1>9. CASE o.op \notin {"NewRef", "RefPush", "InstallHandler"}
    BY <1>2, <1>4, <1>5, <1>9 DEF RoundFields
  <1> QED
    BY <1>6, <1>7, <1>8, <1>9

-----------------------------------------------------------------------------
(* The invariant: control                                                  *)

\* One entry per process, interface or UTXO, in verifier and circuit.
CopiesTyped ==
    /\ id_curr \in Procs
    /\ DOMAIN expected_input = Procs /\ DOMAIN expected_resumer = Procs
    /\ yield_to \in [Procs -> Option(Procs)]
    /\ DOMAIN initialized = Procs /\ DOMAIN ownership = Utxos
    /\ handler_stack \in [Interfaces -> Seq(Procs)]
    /\ DOMAIN ps = Procs
    /\ DOMAIN irw = RoundFields

\* The circuit's memory of process p is what the verifier knows of p.
ProcessAgrees(p) ==
    /\ ps[p].on_yield = on_yield[p] /\ ps[p].yield_to = yield_to[p]
    /\ ps[p].initialized = initialized[p] /\ ps[p].finalized = finalized[p]
    /\ ps[p].did_burn = did_burn[p]
    /\ ps[p].must_enter = must_enter[p] /\ ps[p].must_exit = must_exit[p]
    /\ ps[p].expected_resumer = expected_resumer[p]
    /\ expected_input[p] # None => ps[p].expected_input = expected_input[p]
    /\ activation[p] # None => ps[p].activation = activation[p][1]
    /\ p \in Utxos => ps[p].ownership = ownership[p]

InterleaverAgrees ==
    il = [id_curr |-> id_curr, on_yield |-> on_yield, yield_to |-> yield_to,
          handler_stack |-> handler_stack]

\* The node at the head of a stack names the handler that was installed last.
HeadsAgree ==
    \A i \in Interfaces :
        handler_stack[i] # <<>> => nodes[heads[i]].process = Last(handler_stack[i])

\* A process that was not created yet has never run.
UncreatedAreFresh ==
    \A p \in Procs : ~initialized[p] => on_yield[p] = TRUE /\ yield_to[p] = None

ControlAgrees ==
    /\ irw.id_curr = id_curr
    /\ UncreatedAreFresh
    /\ InterleaverAgrees
    /\ \A p \in Procs : ProcessAgrees(p)

\* No process is the missing one, and the transaction is what it was.
LEMMA ProcsAreSome ==
    ASSUME tx \in Transactions
    PROVE  None \notin Procs /\ Entrypoint \in Procs /\ Utxos \subseteq Procs /\ Pid0 \in Procs
  BY InstanceAssumption, CircuitAssumption
  DEF WellShaped, Procs, Utxos, Inputs, NewOutputs, CoordScripts, Entrypoint

\* All but the last entry of a sequence.
LEMMA FrontIsSeq ==
    ASSUME NEW S, NEW s \in Seq(S), s # <<>>
    PROVE  /\ Front(s) \in Seq(S) /\ Len(Front(s)) = Len(s) - 1
           /\ \A k \in 1 .. (Len(s) - 1) : Front(s)[k] = s[k]
           /\ Len(s) \in Nat \ {0}
           /\ \A k \in 1 .. Len(s) : s[k] \in S
  <1>1. Len(s) \in Nat \ {0} /\ \A k \in 1 .. Len(s) : s[k] \in S
    BY EmptySeq, LenProperties, ElementOfSeq
  <1>2. PICK n : n = Len(s) - 1
    OBVIOUS
  <1>3. n \in Nat /\ \A k \in 1 .. n : s[k] \in S
    BY <1>1, <1>2
  <1>4. /\ SubSeq(s, 1, n) \in Seq(S)
        /\ Len(SubSeq(s, 1, n)) = IF 1 <= n THEN n - 1 + 1 ELSE 0
        /\ \A k \in 1 .. (n - 1 + 1) : SubSeq(s, 1, n)[k] = s[1 + k - 1]
    BY <1>3, SubSeqProperties
  <1>5. Len(SubSeq(s, 1, n)) = n /\ \A k \in 1 .. n : SubSeq(s, 1, n)[k] = s[k]
    BY <1>3, <1>4
  <1> QED
    BY <1>1, <1>2, <1>4, <1>5 DEF Front

\* A step of the verifier keeps its entries.
LEMMA EntriesStay ==
    ASSUME Inv, CopiesTyped, NEW o \in Ops, HostStep(o)
    PROVE  /\ tx' = tx
           /\ id_curr' \in Procs
           /\ DOMAIN expected_input' = Procs /\ DOMAIN expected_resumer' = Procs
           /\ yield_to' \in [Procs -> Option(Procs)]
           /\ DOMAIN initialized' = Procs /\ DOMAIN ownership' = Utxos
           /\ handler_stack' \in [Interfaces -> Seq(Procs)]
  <1> USE DEF claims, frames, suspension, creation, refs, assets, CopiesTyped, HostStep
  <1>1. CASE o.op = "Resume"
    BY <1>1, OpArguments DEF Resume, MayResume, MayTransfer, Transfer, Adopt, Option
  <1>2. CASE o.op = "CallEffectHandler"
    <2>1. handler_stack[o.interface] \in Seq(Procs) /\ handler_stack[o.interface] # <<>>
      BY <1>2, OpArguments DEF CallEffectHandler, MayCallHandler, MayTransfer, HandlerOps
    <2>2. Last(handler_stack[o.interface]) \in Procs
      BY <2>1 DEF Last
    <2> QED
      BY <1>2, <2>2 DEF CallEffectHandler, MayCallHandler, MayTransfer, Transfer
  <1>3. CASE o.op \in {"Yield", "Return", "Enter"}
    BY <1>3 DEF Yield, MayYield, Return, MayReturn, ReturnTo, Enter, MayEnter, Option
  <1>4. CASE o.op \in NewProcess
    BY <1>4, OpArguments DEF NewProcess, NewUtxo, NewToken, NewCoord, Create, MayCreate, Option
  <1>5. CASE o.op = "InstallHandler"
    <2>1. handler_stack[o.interface] \in Seq(Procs) /\ o.interface \in Interfaces
      BY <1>5, OpArguments DEF HandlerOps
    <2>2. Append(handler_stack[o.interface], id_curr) \in Seq(Procs)
      BY <2>1, AppendProperties
    <2>3. handler_stack' = [handler_stack EXCEPT ![o.interface] =
                                Append(handler_stack[o.interface], id_curr)]
      BY <1>5 DEF InstallHandler
    <2> QED
      BY <1>5, <2>2, <2>3 DEF InstallHandler
  <1>6. CASE o.op = "UninstallHandler"
    <2>1. handler_stack[o.interface] \in Seq(Procs) /\ handler_stack[o.interface] # <<>>
      BY <1>6, OpArguments DEF UninstallHandler, MayUninstall, HandlerOps
    <2>2. Front(handler_stack[o.interface]) \in Seq(Procs)
      BY <2>1, FrontIsSeq
    <2> QED
      BY <1>6, <2>2 DEF UninstallHandler, MayUninstall
  <1>7. CASE o.op \in {"NewRef", "RefPush", "RefWrite"}
    BY <1>7 DEF NewRef, RefPush, MayPush, RefWrite, MayAccess
  <1>8. CASE o.op \in {"Activation", "ProgramHash", "RefGet", "GetHandlerFor"}
    BY <1>8 DEF Activation, ProgramHash, RefGet, MayAccess, GetHandlerFor, vars
  <1>9. CASE o.op \in {"Init", "Burn", "Bind", "Unbind"}
    BY <1>9 DEF InitCall, Burn, Bind, MayBind, Unbind, MayUnbind
  <1> QED
    BY <1>1, <1>2, <1>3, <1>4, <1>5, <1>6, <1>7, <1>8, <1>9, OpArguments DEF NewProcess

\* Everything about the state before a step that the next lemmas use.
Before == Inv /\ CopiesTyped /\ HeadsAgree /\ ControlAgrees

\* Resume makes the same changes in verifier and circuit, since the circuit
\* only lets scripts resume.
LEMMA ResumeProcesses ==
    ASSUME Before, NEW o \in Ops, o.op = "Resume", Replay(o), NEW p \in Procs
    PROVE  ProcessAgrees(p)'
  <1> USE DEF claims, frames, suspension, creation, refs, assets
  <1>1. PICK u : u = FromWit(o)
    OBVIOUS
  <1>2. /\ u.op = "Resume" /\ u.target = o.target /\ u.f = o.f /\ u.val = o.val
        /\ u.caller = o.caller /\ (o.ret # None => u.ret = o.ret)
    BY <1>1, FromWitKeeps
  <1>3. o.target \in Procs
    BY OpArguments
  <1>4. id_curr \in Procs /\ irw.id_curr = id_curr /\ DOMAIN ps = Procs
    BY DEF Before, CopiesTyped, ControlAgrees
  <1>5. Resume(o.target, o.f, o.val, o.ret, o.caller)
    BY DEF Replay, HostStep
  <1>6. Satisfied(u) /\ CircuitStep(u)
    BY <1>1 DEF Replay
  <1>7. irw.id_curr # u.target /\ ~is_utxo(irw.id_curr)
    BY <1>2, <1>6 DEF Satisfied, visit_resume, NewProcess
  <1>8. ProcessAgrees(p)
    BY DEF Before, ControlAgrees
  <1>9. Utxos' = Utxos
    BY <1>5, SameTransaction DEF Resume, MayResume, MayTransfer
  <1>10. /\ Transferred(p, o.target, id_curr, o.f, o.val, u.ret, o.caller)
         /\ Woken(p, o.target, id_curr)
    <2>1. /\ Transferred(p, u.target, irw.id_curr, u.f, u.val, u.ret, u.caller)
          /\ Woken(p, u.target, irw.id_curr)
      BY <1>2, <1>3, <1>4, <1>6, <1>7, ResumeMemory
    <2> QED
      BY <1>2, <1>4, <2>1
  <1>11. /\ initialized'[p] = initialized[p] /\ did_burn'[p] = did_burn[p]
         /\ ownership' = ownership
    BY <1>5 DEF Resume, MayResume, MayTransfer
  <1>12. /\ on_yield'[p] = IF p = o.target THEN FALSE ELSE on_yield[p]
         /\ yield_to'[p] = IF p = o.target /\ on_yield[p] THEN id_curr ELSE yield_to[p]
    BY <1>4, <1>5, <1>7 DEF Resume, MayResume, MayTransfer, Adopt, Before, CopiesTyped, Inv, Typed
  <1>13. /\ finalized'[p] = IF p = o.target THEN FALSE ELSE finalized[p]
         /\ must_enter'[p] = IF p = o.target THEN o.f ELSE must_enter[p]
         /\ must_exit'[p] = IF p = id_curr THEN FALSE ELSE must_exit[p]
    BY <1>5 DEF Resume, MayResume, MayTransfer, Transfer, Before, Inv, Typed
  <1>14. /\ expected_input'[p] = IF p = id_curr THEN o.ret ELSE IF p = o.target THEN None
                                 ELSE expected_input[p]
         /\ expected_resumer'[p] = IF p = id_curr THEN o.caller ELSE IF p = o.target THEN None
                                   ELSE expected_resumer[p]
         /\ activation'[p] = IF p = o.target THEN <<o.val, id_curr>>
                             ELSE IF p = id_curr THEN None ELSE activation[p]
    BY <1>5 DEF Resume, MayResume, MayTransfer, Transfer, Before, CopiesTyped, Inv, Typed
  <1>15. /\ ps'[p].on_yield = on_yield'[p] /\ ps'[p].yield_to = yield_to'[p]
         /\ ps'[p].finalized = finalized'[p] /\ ps'[p].must_exit = must_exit'[p]
    BY <1>8, <1>10, <1>12, <1>13 DEF ProcessAgrees, Transferred, Woken
  <1>16. /\ ps'[p].initialized = initialized'[p] /\ ps'[p].did_burn = did_burn'[p]
         /\ ps'[p].must_enter = must_enter'[p]
         /\ (p \in Utxos => ps'[p].ownership = ownership'[p])
    BY <1>8, <1>10, <1>11, <1>13 DEF ProcessAgrees, Transferred
  <1>17. /\ ps'[p].expected_resumer = expected_resumer'[p]
         /\ (expected_input'[p] # None => ps'[p].expected_input = expected_input'[p])
         /\ (activation'[p] # None => ps'[p].activation = activation'[p][1])
    BY <1>2, <1>4, <1>7, <1>8, <1>10, <1>14 DEF ProcessAgrees, Transferred
  <1> QED
    BY <1>9, <1>15, <1>16, <1>17 DEF ProcessAgrees

\* The handler that the circuit finds is the one that the verifier calls.
LEMMA SameHandler ==
    ASSUME Before, NEW o \in Ops, o.op = "CallEffectHandler", Replay(o)
    PROVE  /\ o.interface \in Interfaces /\ handler_stack[o.interface] # <<>>
           /\ NodeProcess(FromWit(o)) = Last(handler_stack[o.interface])
           /\ Last(handler_stack[o.interface]) \in Procs
           /\ irw.id_curr # NodeProcess(FromWit(o))
  <1>1. o.interface \in Interfaces /\ handler_stack[o.interface] # <<>>
    BY OpArguments
    DEF Replay, HostStep, CallEffectHandler, MayCallHandler, MayTransfer, HandlerOps
  <1>2. FromWit(o).op = "CallEffectHandler" /\ FromWit(o).interface = o.interface
    BY FromWitKeeps
  <1>3. NodeProcess(FromWit(o)) = Last(handler_stack[o.interface])
    BY <1>1, <1>2 DEF NodeProcess, Before, HeadsAgree
  <1>4. Last(handler_stack[o.interface]) \in Procs
    BY <1>1, FrontIsSeq DEF Last, Before, CopiesTyped
  <1>5. irw.id_curr # NodeProcess(FromWit(o))
    BY <1>2 DEF Replay, Satisfied, visit_call_effect_handler, NewProcess, Wires
  <1> QED
    BY <1>1, <1>3, <1>4, <1>5

\* So does CallEffectHandler.
LEMMA CallProcesses ==
    ASSUME Before, NEW o \in Ops, o.op = "CallEffectHandler", Replay(o), NEW p \in Procs
    PROVE  ProcessAgrees(p)'
  <1> USE DEF claims, frames, suspension, creation, refs, assets
  <1>1. PICK u : u = FromWit(o)
    OBVIOUS
  <1>2. /\ u.op = "CallEffectHandler" /\ u.f = o.f /\ u.val = o.val
        /\ (o.ret # None => u.ret = o.ret)
    BY <1>1, FromWitKeeps
  <1>3. PICK q : q = Last(handler_stack[o.interface])
    OBVIOUS
  <1>4. id_curr \in Procs /\ irw.id_curr = id_curr /\ DOMAIN ps = Procs
    BY DEF Before, CopiesTyped, ControlAgrees
  <1>5. /\ Transfer(q, o.f, o.val, o.ret, q)
        /\ UNCHANGED <<verdict, on_yield, yield_to, creation, refs, assets, handler_stack, tx>>
    BY <1>3 DEF Replay, HostStep, CallEffectHandler, MayCallHandler, MayTransfer
  <1>6. CircuitStep(u)
    BY <1>1 DEF Replay
  <1>7. NodeProcess(u) = q /\ q \in Procs /\ irw.id_curr # q
    BY <1>1, <1>3, SameHandler
  <1>8. ProcessAgrees(p)
    BY DEF Before, ControlAgrees
  <1>9. Utxos' = Utxos
    BY <1>5, SameTransaction
  <1>10. /\ Transferred(p, q, id_curr, o.f, o.val, u.ret, q)
         /\ ps'[p].on_yield = ps[p].on_yield /\ ps'[p].yield_to = ps[p].yield_to
    <2>1. /\ Transferred(p, NodeProcess(u), irw.id_curr, u.f, u.val, u.ret, NodeProcess(u))
          /\ ps'[p].on_yield = ps[p].on_yield /\ ps'[p].yield_to = ps[p].yield_to
      BY <1>2, <1>4, <1>6, <1>7, CallMemory
    <2> QED
      BY <1>2, <1>4, <1>7, <2>1
  <1>11. /\ initialized'[p] = initialized[p] /\ did_burn'[p] = did_burn[p]
         /\ ownership' = ownership /\ on_yield' = on_yield /\ yield_to' = yield_to
    BY <1>5
  <1>12. /\ finalized'[p] = IF p = q THEN FALSE ELSE finalized[p]
         /\ must_enter'[p] = IF p = q THEN o.f ELSE must_enter[p]
         /\ must_exit'[p] = IF p = id_curr THEN FALSE ELSE must_exit[p]
    BY <1>5 DEF Transfer, MayTransfer, Before, Inv, Typed
  <1>13. /\ expected_input'[p] = IF p = id_curr THEN o.ret ELSE IF p = q THEN None
                                 ELSE expected_input[p]
         /\ expected_resumer'[p] = IF p = id_curr THEN q ELSE IF p = q THEN None
                                   ELSE expected_resumer[p]
         /\ activation'[p] = IF p = q THEN <<o.val, id_curr>>
                             ELSE IF p = id_curr THEN None ELSE activation[p]
    BY <1>5 DEF Transfer, MayTransfer, Before, CopiesTyped, Inv, Typed
  <1>14. /\ ps'[p].on_yield = on_yield'[p] /\ ps'[p].yield_to = yield_to'[p]
         /\ ps'[p].finalized = finalized'[p] /\ ps'[p].must_exit = must_exit'[p]
    BY <1>8, <1>10, <1>11, <1>12 DEF ProcessAgrees, Transferred
  <1>15. /\ ps'[p].initialized = initialized'[p] /\ ps'[p].did_burn = did_burn'[p]
         /\ ps'[p].must_enter = must_enter'[p]
         /\ (p \in Utxos => ps'[p].ownership = ownership'[p])
    BY <1>8, <1>10, <1>11, <1>12 DEF ProcessAgrees, Transferred
  <1>16. /\ ps'[p].expected_resumer = expected_resumer'[p]
         /\ (expected_input'[p] # None => ps'[p].expected_input = expected_input'[p])
         /\ (activation'[p] # None => ps'[p].activation = activation'[p][1])
    BY <1>2, <1>4, <1>7, <1>8, <1>10, <1>13 DEF ProcessAgrees, Transferred
  <1> QED
    BY <1>9, <1>14, <1>15, <1>16 DEF ProcessAgrees

\* The operations that from_wit hands on as they are.
LEMMA PlainReplay ==
    ASSUME Before, NEW o \in Ops, o.op \notin {"Resume", "CallEffectHandler"}, Replay(o)
    PROVE  /\ CircuitStep(o) /\ Satisfied(o) /\ HostStep(o)
           /\ id_curr \in Procs /\ irw.id_curr = id_curr /\ DOMAIN ps = Procs
           /\ \A p \in Procs : ProcessAgrees(p)
           /\ Utxos' = Utxos /\ Utxos \subseteq Procs
  <1>1. FromWit(o) = o
    BY FromWitKeeps
  <1>2. tx' = tx
    BY EntriesStay DEF Replay, Before
  <1> QED
    BY <1>1, <1>2, SameTransaction DEF Replay, Before, CopiesTyped, ControlAgrees

\* Yield and Return give up the running frame in both.
LEMMA SuspendProcesses ==
    ASSUME Before, NEW o \in Ops, o.op \in {"Yield", "Return"}, Replay(o), NEW p \in Procs
    PROVE  ProcessAgrees(p)'
  <1> USE DEF claims, frames, suspension, creation, refs, assets
  <1>1. /\ CircuitStep(o) /\ HostStep(o) /\ ProcessAgrees(p) /\ Utxos' = Utxos
        /\ id_curr \in Procs /\ irw.id_curr = id_curr /\ DOMAIN ps = Procs
    BY PlainReplay
  <1>2. /\ UNCHANGED <<claims, yield_to, must_enter, creation, assets>>
        /\ finalized' = [finalized EXCEPT ![id_curr] = TRUE]
        /\ activation' = [activation EXCEPT ![id_curr] = None]
        /\ must_exit' = [must_exit EXCEPT ![id_curr] = FALSE]
        /\ on_yield' = IF o.op = "Yield" THEN [on_yield EXCEPT ![id_curr] = TRUE] ELSE on_yield
    BY <1>1 DEF HostStep, Yield, MayYield, Return, MayReturn
  <1>3. /\ finalized'[p] = IF p = id_curr THEN TRUE ELSE finalized[p]
        /\ activation'[p] = IF p = id_curr THEN None ELSE activation[p]
        /\ must_exit'[p] = IF p = id_curr THEN FALSE ELSE must_exit[p]
        /\ on_yield'[p] = IF p = id_curr /\ o.op = "Yield" THEN TRUE ELSE on_yield[p]
    BY <1>2 DEF Before, Inv, Typed
  <1>4. Suspended(p, id_curr, o.op = "Yield")
    BY <1>1, SuspendMemory
  <1>5. /\ ps'[p].on_yield = on_yield'[p] /\ ps'[p].finalized = finalized'[p]
        /\ ps'[p].must_exit = must_exit'[p]
    BY <1>1, <1>3, <1>4 DEF ProcessAgrees, Suspended
  <1>6. activation'[p] # None => ps'[p].activation = activation'[p][1]
    BY <1>1, <1>3, <1>4 DEF ProcessAgrees, Suspended
  <1> QED
    BY <1>1, <1>2, <1>4, <1>5, <1>6 DEF ProcessAgrees, Suspended

\* Enter and Burn change flags of the running process.
LEMMA FlagProcesses ==
    ASSUME Before, NEW o \in Ops, o.op \in {"Enter", "Burn"}, Replay(o), NEW p \in Procs
    PROVE  ProcessAgrees(p)'
  <1> USE DEF claims, frames, suspension, creation, refs, assets
  <1>1. /\ CircuitStep(o) /\ HostStep(o) /\ ProcessAgrees(p) /\ Utxos' = Utxos
        /\ id_curr \in Procs /\ irw.id_curr = id_curr /\ DOMAIN ps = Procs
    BY PlainReplay
  <1>2. CASE o.op = "Enter"
    <2>1. /\ UNCHANGED <<claims, activation, suspension, creation, assets>>
          /\ must_enter'[p] = IF p = id_curr THEN None ELSE must_enter[p]
          /\ must_exit'[p] = IF p = id_curr THEN TRUE ELSE must_exit[p]
      BY <1>1, <1>2 DEF HostStep, Enter, MayEnter, Before, Inv, Typed
    <2>2. \A f \in Fields :
            ps'[p][f] = IF p = id_curr /\ f = "must_enter" THEN None
                        ELSE IF p = id_curr /\ f = "must_exit" THEN TRUE
                        ELSE ps[p][f]
      BY <1>1, <1>2, EnterMemory
    <2>3. ps'[p]["must_enter"] = must_enter'[p] /\ ps'[p]["must_exit"] = must_exit'[p]
      BY <1>1, <2>1, <2>2 DEF ProcessAgrees, Fields
    <2>4. \A f \in Fields \ {"must_enter", "must_exit"} : ps'[p][f] = ps[p][f]
      BY <2>2
    <2> QED
      BY <1>1, <2>1, <2>3, <2>4 DEF ProcessAgrees, Fields
  <1>3. CASE o.op = "Burn"
    <2>1. /\ UNCHANGED <<claims, frames, suspension, creation, ownership>>
          /\ did_burn'[p] = IF p = id_curr THEN TRUE ELSE did_burn[p]
      BY <1>1, <1>3 DEF HostStep, Burn, Before, Inv, Typed
    <2>2. \A f \in Fields :
            ps'[p][f] = IF p = id_curr /\ f = "did_burn" THEN TRUE ELSE ps[p][f]
      BY <1>1, <1>3, BurnMemory
    <2>3. ps'[p]["did_burn"] = did_burn'[p]
      BY <1>1, <2>1, <2>2 DEF ProcessAgrees, Fields
    <2>4. \A f \in Fields \ {"did_burn"} : ps'[p][f] = ps[p][f]
      BY <2>2
    <2> QED
      BY <1>1, <2>1, <2>3, <2>4 DEF ProcessAgrees, Fields
  <1> QED
    BY <1>2, <1>3

\* NewUtxo, NewToken and NewCoord prepare the same process.
LEMMA CreateProcesses ==
    ASSUME Before, NEW o \in Ops, o.op \in NewProcess, Replay(o), NEW p \in Procs
    PROVE  ProcessAgrees(p)'
  <1> USE DEF claims, frames, suspension, creation, refs, assets
  <1>1. /\ CircuitStep(o) /\ HostStep(o) /\ ProcessAgrees(p) /\ Utxos' = Utxos
        /\ DOMAIN ps = Procs
    BY PlainReplay DEF NewProcess
  <1>2. Create(o.target, o.val)
    BY <1>1 DEF HostStep, NewProcess, NewUtxo, NewToken, NewCoord
  <1>3. /\ UNCHANGED <<frames, finalized, assets>>
        /\ initialized'[p] = IF p = o.target THEN TRUE ELSE initialized[p]
        /\ on_yield'[p] = IF p = o.target THEN TRUE ELSE on_yield[p]
        /\ expected_input'[p] = IF p = o.target THEN None ELSE expected_input[p]
        /\ expected_resumer'[p] = IF p = o.target THEN None ELSE expected_resumer[p]
        /\ yield_to'[p] = IF p = o.target THEN None ELSE yield_to[p]
    BY <1>2 DEF Create, MayCreate, Before, CopiesTyped, Inv, Typed
  <1>4. Created(p, o.target)
    BY <1>1, CreateMemory
  <1>5. \A f \in {"finalized", "did_burn", "must_enter", "must_exit", "activation", "ownership"} :
          ps'[p][f] = ps[p][f]
    BY <1>4 DEF Fields, Created
  <1>6. CASE p = o.target
    <2>1. /\ ps'[p]["initialized"] = TRUE /\ ps'[p]["on_yield"] = TRUE
          /\ ps'[p]["expected_resumer"] = None /\ ps'[p]["yield_to"] = None
      BY <1>4, <1>6 DEF Fields, Created
    <2> QED
      BY <1>1, <1>3, <1>5, <1>6, <2>1 DEF ProcessAgrees
  <1>7. CASE p # o.target
    <2>1. /\ ps'[p]["initialized"] = ps[p]["initialized"]
          /\ ps'[p]["on_yield"] = ps[p]["on_yield"] /\ ps'[p]["yield_to"] = ps[p]["yield_to"]
          /\ ps'[p]["expected_input"] = ps[p]["expected_input"]
          /\ ps'[p]["expected_resumer"] = ps[p]["expected_resumer"]
      BY <1>4, <1>7 DEF Fields, Created
    <2> QED
      BY <1>1, <1>3, <1>5, <1>7, <2>1 DEF ProcessAgrees
  <1> QED
    BY <1>6, <1>7

\* Bind and Unbind change the same owner.
LEMMA OwnerProcesses ==
    ASSUME Before, NEW o \in Ops, o.op \in {"Bind", "Unbind"}, Replay(o), NEW p \in Procs
    PROVE  ProcessAgrees(p)'
  <1> USE DEF claims, frames, suspension, creation, refs, assets
  <1>1. /\ CircuitStep(o) /\ HostStep(o) /\ ProcessAgrees(p) /\ Utxos' = Utxos
        /\ irw.id_curr = id_curr /\ DOMAIN ps = Procs
    BY PlainReplay
  <1>2. /\ UNCHANGED <<claims, frames, suspension, creation, did_burn>>
        /\ p \in Utxos =>
             ownership'[p] = IF o.op = "Bind" /\ p = id_curr THEN o.target
                             ELSE IF o.op = "Unbind" /\ p = o.target THEN None
                             ELSE ownership[p]
    BY <1>1 DEF HostStep, Bind, MayBind, Unbind, MayUnbind, Before, CopiesTyped
  <1>3. \A f \in Fields :
          ps'[p][f] = IF o.op = "Bind" /\ p = irw.id_curr /\ f = "ownership" THEN o.target
                      ELSE IF o.op = "Unbind" /\ p = o.target /\ f = "ownership" THEN None
                      ELSE ps[p][f]
    BY <1>1, OwnerMemory
  <1>4. p \in Utxos => ps'[p]["ownership"] = ownership'[p]
    BY <1>1, <1>2, <1>3 DEF ProcessAgrees, Fields
  <1>5. \A f \in Fields \ {"ownership"} : ps'[p][f] = ps[p][f]
    BY <1>3
  <1> QED
    BY <1>1, <1>2, <1>4, <1>5 DEF ProcessAgrees, Fields

\* The other operations change nothing of a process that is compared.
LEMMA PlainProcesses ==
    ASSUME Before, NEW o \in Ops, o.op \in PlainOps, Replay(o), NEW p \in Procs
    PROVE  ProcessAgrees(p)'
  <1> USE DEF claims, frames, suspension, creation, refs, assets
  <1>1. /\ CircuitStep(o) /\ HostStep(o) /\ ProcessAgrees(p) /\ Utxos' = Utxos
        /\ DOMAIN ps = Procs
    BY PlainReplay DEF PlainOps
  <1>2. UNCHANGED <<claims, frames, suspension, initialized, assets>>
    <2>1. CASE o.op \in {"NewRef", "RefPush", "RefWrite", "InstallHandler", "UninstallHandler", "Init"}
      BY <2>1, <1>1
      DEF HostStep, NewRef, RefPush, MayPush, RefWrite, MayAccess, InstallHandler,
          UninstallHandler, MayUninstall, InitCall
    <2>2. CASE o.op \in {"Activation", "ProgramHash", "RefGet", "GetHandlerFor"}
      BY <2>2, <1>1 DEF HostStep, Activation, ProgramHash, RefGet, MayAccess, GetHandlerFor, vars
    <2>3. o.op # "Nop"
      BY OpArguments DEF NewProcess
    <2> QED
      BY <2>1, <2>2, <2>3 DEF PlainOps
  <1>3. \A f \in Fields : ps'[p][f] = ps[p][f]
    BY <1>1, PlainMemory
  <1> QED
    BY <1>1, <1>2, <1>3 DEF ProcessAgrees, Fields

\* Every host call keeps the memory of every process in agreement.
LEMMA ProcessesStep ==
    ASSUME Before, NEW o \in Ops, Replay(o), NEW p \in Procs
    PROVE  ProcessAgrees(p)'
  <1>1. o.op \in PlainOps \cup NewProcess \cup {"Resume", "CallEffectHandler", "Yield", "Return",
                                                "Enter", "Burn", "Bind", "Unbind"}
    BY OpArguments DEF PlainOps
  <1> QED
    BY <1>1, ResumeProcesses, CallProcesses, SuspendProcesses, FlagProcesses, CreateProcesses,
       OwnerProcesses, PlainProcesses

\* Only four host calls pass control, and those that create a process are the
\* only other ones that touch a suspension.
LEMMA StaysPut ==
    ASSUME NEW o \in Ops, HostStep(o), o.op \notin {"Resume", "CallEffectHandler", "Yield", "Return"}
    PROVE  /\ id_curr' = id_curr
           /\ o.op \notin NewProcess => UNCHANGED <<on_yield, yield_to, initialized>>
           /\ o.op \notin {"InstallHandler", "UninstallHandler"} => UNCHANGED handler_stack
  <1> USE DEF claims, frames, suspension, creation, refs, assets, HostStep
  <1>1. CASE o.op \in NewProcess
    BY <1>1 DEF NewProcess, NewUtxo, NewToken, NewCoord, Create, MayCreate
  <1>2. CASE o.op \in {"Enter", "NewRef", "RefPush", "RefWrite", "InstallHandler", "UninstallHandler"}
    BY <1>2
    DEF Enter, MayEnter, NewRef, RefPush, MayPush, RefWrite, MayAccess, InstallHandler,
        UninstallHandler, MayUninstall
  <1>3. CASE o.op \in {"Activation", "ProgramHash", "RefGet", "GetHandlerFor"}
    BY <1>3 DEF Activation, ProgramHash, RefGet, MayAccess, GetHandlerFor, vars
  <1>4. CASE o.op \in {"Init", "Burn", "Bind", "Unbind"}
    BY <1>4 DEF InitCall, Burn, Bind, MayBind, Unbind, MayUnbind
  <1> QED
    BY <1>1, <1>2, <1>3, <1>4, OpArguments

\* The circuit goes where the verifier goes.
LEMMA SamePlace ==
    ASSUME Before, NEW o \in Ops, Replay(o)
    PROVE  irw'.id_curr = id_curr'
  <1> USE DEF claims, frames, suspension, creation, refs, assets
  <1>1. PICK u : u = FromWit(o)
    OBVIOUS
  <1>2. u.op = o.op
    BY <1>1, FromWitKeeps
  <1>3. irw'.id_curr = IF JumpsTo(u) = None THEN irw.id_curr ELSE JumpsTo(u)
    BY <1>1, RoundStep DEF Replay, Before, CopiesTyped
  <1>4. id_curr \in Procs /\ irw.id_curr = id_curr /\ None \notin Procs
    BY ProcsAreSome DEF Before, CopiesTyped, ControlAgrees, Inv, Typed
  <1>5. CASE o.op = "Resume"
    <2>1. u.target = o.target /\ o.target \in Procs
      BY <1>1, <1>5, FromWitKeeps, OpArguments
    <2>2. JumpsTo(u) = o.target
      BY <1>2, <1>5, <2>1 DEF JumpsTo, Wires, TracedTarget, NewProcess
    <2>3. id_curr' = o.target
      BY <1>5 DEF Replay, HostStep, Resume, MayResume, MayTransfer, Transfer
    <2> QED
      BY <1>3, <1>4, <2>1, <2>2, <2>3
  <1>6. CASE o.op = "CallEffectHandler"
    <2>1. JumpsTo(u) = NodeProcess(u)
      BY <1>2, <1>6 DEF JumpsTo, Wires, TracedTarget, NewProcess
    <2>2. id_curr' = Last(handler_stack[o.interface])
      BY <1>6 DEF Replay, HostStep, CallEffectHandler, MayCallHandler, MayTransfer, Transfer
    <2> QED
      BY <1>1, <1>3, <1>4, <1>6, <2>1, <2>2, SameHandler
  <1>7. CASE o.op \in {"Yield", "Return"}
    <2>1. PICK parent : parent = yield_to[id_curr] /\ parent \in Option(Procs)
      BY <1>4 DEF Before, CopiesTyped
    <2>2. Wires(u).curr.yield_to = parent
      <3>1. "yield_to" \in MemSwitchesCurr(u.op) /\ "yield_to" \in Fields
        BY <1>2, <1>7 DEF MemSwitchesCurr, Fields
      <3>2. Read(irw.id_curr, MemSwitchesCurr(u.op))["yield_to"] = ps[irw.id_curr]["yield_to"]
        BY <3>1, ReadFields
      <3>3. ps[irw.id_curr]["yield_to"] = parent
        BY <1>4, <2>1 DEF Before, ControlAgrees, ProcessAgrees
      <3> QED
        BY <3>2, <3>3 DEF Wires
    <2>3. Wires(u).target_id = decode_or_zero(Wires(u).curr.yield_to)
      BY <1>2, <1>7 DEF Wires, TracedTarget, NewProcess
    <2>4. parent # None => JumpsTo(u) = parent
      BY <1>2, <1>7, <2>2, <2>3 DEF JumpsTo, decode_or_zero
    <2>5. o.op = "Return" /\ parent = None => JumpsTo(u) = None
      BY <1>2, <2>2 DEF JumpsTo
    <2>6. CASE o.op = "Yield"
      <3>1. parent # None /\ id_curr' = parent
        BY <2>1, <2>6 DEF Replay, HostStep, Yield, MayYield
      <3> QED
        BY <1>3, <2>4, <3>1
    <2>7. CASE o.op = "Return"
      <3>1. id_curr' = IF parent = None THEN id_curr ELSE parent
        BY <2>1, <2>7 DEF Replay, HostStep, Return, MayReturn, ReturnTo
      <3> QED
        BY <1>3, <1>4, <2>4, <2>5, <2>7, <3>1
    <2> QED
      BY <1>7, <2>6, <2>7
  <1>8. CASE o.op \notin {"Resume", "CallEffectHandler", "Yield", "Return"}
    <2>1. JumpsTo(u) = None
      BY <1>2, <1>8 DEF JumpsTo
    <2>2. id_curr' = id_curr
      BY <1>8, StaysPut DEF Replay
    <2> QED
      BY <1>3, <1>4, <2>1, <2>2
  <1> QED
    BY <1>5, <1>6, <1>7, <1>8

\* Nothing wakes a process that was not created.
LEMMA FreshStep ==
    ASSUME Before, NEW o \in Ops, Replay(o)
    PROVE  UncreatedAreFresh'
  <1> USE DEF claims, frames, suspension, creation, refs, assets
  <1>1. HostStep(o) /\ UncreatedAreFresh /\ Procs' = Procs
    BY EntriesStay, SameTransaction DEF Replay, Before, ControlAgrees
  <1>2. CASE o.op = "Resume"
    <2>1. initialized[o.target] /\ initialized' = initialized
      BY <1>1, <1>2 DEF HostStep, Resume, MayResume, MayTransfer
    <2>2. \A p \in Procs : p # o.target => on_yield'[p] = on_yield[p] /\ yield_to'[p] = yield_to[p]
      BY <1>1, <1>2
      DEF HostStep, Resume, MayResume, MayTransfer, Adopt, Before, CopiesTyped, Inv, Typed
    <2> QED
      BY <1>1, <2>1, <2>2 DEF UncreatedAreFresh
  <1>3. CASE o.op \in {"CallEffectHandler", "Return"}
    BY <1>1, <1>3
    DEF HostStep, CallEffectHandler, MayCallHandler, MayTransfer, Return, MayReturn,
        UncreatedAreFresh
  <1>4. CASE o.op = "Yield"
    <2>1. \A p \in Procs : on_yield'[p] = IF p = id_curr THEN TRUE ELSE on_yield[p]
      BY <1>1, <1>4, ZenonT(30) DEF HostStep, Yield, MayYield, Before, Inv, Typed
    <2>2. yield_to' = yield_to /\ initialized' = initialized
      BY <1>1, <1>4 DEF HostStep, Yield, MayYield
    <2> QED
      BY <1>1, <2>1, <2>2 DEF UncreatedAreFresh
  <1>5. CASE o.op \in NewProcess
    <2>1. Create(o.target, o.val)
      BY <1>1, <1>5 DEF HostStep, NewProcess, NewUtxo, NewToken, NewCoord
    <2>2. \A p \in Procs :
            /\ initialized'[p] = IF p = o.target THEN TRUE ELSE initialized[p]
            /\ p # o.target => on_yield'[p] = on_yield[p] /\ yield_to'[p] = yield_to[p]
      BY <2>1 DEF Create, MayCreate, Before, CopiesTyped, Inv, Typed
    <2> QED
      BY <1>1, <2>2 DEF UncreatedAreFresh
  <1>6. CASE o.op \notin {"Resume", "CallEffectHandler", "Yield", "Return"} \cup NewProcess
    BY <1>1, <1>6, StaysPut DEF UncreatedAreFresh
  <1> QED
    BY <1>2, <1>3, <1>4, <1>5, <1>6

\* Writing back what is there changes nothing.
LEMMA SameUpdate ==
    ASSUME NEW S, NEW T, NEW g \in [S -> T], NEW a, NEW v, v = g[a]
    PROVE  [g EXCEPT ![a] = v] = g
  OBVIOUS

\* The interleaver makes the same moves from its own state alone.
LEMMA InterleaverStep ==
    ASSUME Before, NEW o \in Ops, Replay(o)
    PROVE  InterleaverAgrees'
  <1> USE DEF claims, frames, suspension, creation, refs, assets
  <1>1. /\ il = [id_curr |-> id_curr, on_yield |-> on_yield, yield_to |-> yield_to,
                 handler_stack |-> handler_stack]
        /\ HostStep(o) /\ il' = make_interleaved_trace(o)
    BY DEF Replay, Before, ControlAgrees, InterleaverAgrees
  <1>2. on_yield \in [Procs -> BOOLEAN] /\ yield_to \in [Procs -> Option(Procs)]
    BY DEF Before, CopiesTyped, Inv, Typed
  <1>3. CASE o.op = "Resume"
    <2>1. PICK me, q : me = id_curr /\ q = o.target
      OBVIOUS
    <2>2. il' = [id_curr |-> q,
                 on_yield |-> [on_yield EXCEPT ![q] = IF on_yield[q] /\ ~is_utxo(me)
                                                      THEN FALSE ELSE on_yield[q]],
                 yield_to |-> [yield_to EXCEPT ![q] = IF on_yield[q] /\ ~is_utxo(me)
                                                      THEN me ELSE yield_to[q]],
                 handler_stack |-> handler_stack]
      BY <1>1, <1>3, <2>1 DEF make_interleaved_trace
    <2>3. id_curr' = q /\ Adopt(q) /\ handler_stack' = handler_stack
      BY <1>1, <1>3, <2>1 DEF HostStep, Resume, MayResume, MayTransfer, Transfer
    <2>4. CASE on_yield[q] /\ ~is_utxo(me)
      BY <2>1, <2>2, <2>3, <2>4 DEF Adopt, InterleaverAgrees
    <2>5. CASE ~(on_yield[q] /\ ~is_utxo(me))
      <3>1. on_yield' = on_yield /\ yield_to' = yield_to
        BY <2>1, <2>3, <2>5 DEF Adopt
      <3>2. /\ [on_yield EXCEPT ![q] = on_yield[q]] = on_yield
            /\ [yield_to EXCEPT ![q] = yield_to[q]] = yield_to
        BY <1>2, SameUpdate
      <3> QED
        BY <2>2, <2>3, <2>5, <3>1, <3>2 DEF InterleaverAgrees
    <2> QED
      BY <2>4, <2>5
  <1>4. CASE o.op = "CallEffectHandler"
    <2>1. il' = [id_curr |-> Last(handler_stack[o.interface]), on_yield |-> on_yield,
                 yield_to |-> yield_to, handler_stack |-> handler_stack]
      BY <1>1, <1>4 DEF make_interleaved_trace
    <2>2. /\ id_curr' = Last(handler_stack[o.interface])
          /\ UNCHANGED <<on_yield, yield_to, handler_stack>>
      BY <1>1, <1>4 DEF HostStep, CallEffectHandler, MayCallHandler, MayTransfer, Transfer
    <2> QED
      BY <2>1, <2>2 DEF InterleaverAgrees
  <1>5. CASE o.op = "Yield"
    <2>1. il' = [id_curr |-> IF yield_to[id_curr] = None THEN id_curr ELSE yield_to[id_curr],
                 on_yield |-> [on_yield EXCEPT ![id_curr] = TRUE],
                 yield_to |-> yield_to, handler_stack |-> handler_stack]
      BY <1>1, <1>5 DEF make_interleaved_trace
    <2>2. /\ yield_to[id_curr] # None /\ id_curr' = yield_to[id_curr]
          /\ on_yield' = [on_yield EXCEPT ![id_curr] = TRUE]
          /\ UNCHANGED <<yield_to, handler_stack>>
      BY <1>1, <1>5 DEF HostStep, Yield, MayYield
    <2> QED
      BY <2>1, <2>2 DEF InterleaverAgrees
  <1>6. CASE o.op = "Return"
    <2>1. il' = [id_curr |-> IF yield_to[id_curr] = None THEN id_curr ELSE yield_to[id_curr],
                 on_yield |-> on_yield, yield_to |-> yield_to, handler_stack |-> handler_stack]
      BY <1>1, <1>6 DEF make_interleaved_trace
    <2>2. /\ id_curr' = IF yield_to[id_curr] = None THEN id_curr ELSE yield_to[id_curr]
          /\ UNCHANGED <<on_yield, yield_to, handler_stack>>
      BY <1>1, <1>6 DEF HostStep, Return, MayReturn, ReturnTo
    <2> QED
      BY <2>1, <2>2 DEF InterleaverAgrees
  <1>7. CASE o.op \in {"InstallHandler", "UninstallHandler"}
    <2>1. PICK stack : stack = IF o.op = "InstallHandler"
                               THEN Append(handler_stack[o.interface], id_curr)
                               ELSE Front(handler_stack[o.interface])
      OBVIOUS
    <2>2. il' = [id_curr |-> id_curr, on_yield |-> on_yield, yield_to |-> yield_to,
                 handler_stack |-> [handler_stack EXCEPT ![o.interface] = stack]]
      BY <1>1, <1>7, <2>1 DEF make_interleaved_trace
    <2>3. handler_stack' = [handler_stack EXCEPT ![o.interface] = stack]
      BY <1>1, <1>7, <2>1 DEF HostStep, InstallHandler, UninstallHandler, MayUninstall
    <2>4. UNCHANGED <<id_curr, on_yield, yield_to>>
      BY <1>1, <1>7, StaysPut DEF NewProcess
    <2> QED
      BY <2>2, <2>3, <2>4 DEF InterleaverAgrees
  <1>8. CASE o.op \in NewProcess
    <2>1. il' = il
      BY <1>1, <1>8 DEF make_interleaved_trace, NewProcess
    <2>2. Create(o.target, o.val)
      BY <1>1, <1>8 DEF HostStep, NewProcess, NewUtxo, NewToken, NewCoord
    <2>3. on_yield[o.target] = TRUE /\ yield_to[o.target] = None
      BY <1>8, <2>2, OpArguments DEF Create, MayCreate, Before, ControlAgrees, UncreatedAreFresh
    <2>4. on_yield' = on_yield /\ yield_to' = yield_to
      BY <1>2, <2>2, <2>3, SameUpdate DEF Create, MayCreate
    <2>5. UNCHANGED <<id_curr, handler_stack>>
      BY <2>2 DEF Create, MayCreate
    <2> QED
      BY <1>1, <2>1, <2>4, <2>5 DEF InterleaverAgrees
  <1>9. CASE o.op \notin {"Resume", "CallEffectHandler", "Yield", "Return", "InstallHandler",
                          "UninstallHandler"} \cup NewProcess
    <2>1. il' = il
      BY <1>1, <1>9 DEF make_interleaved_trace
    <2>2. UNCHANGED <<id_curr, on_yield, yield_to, handler_stack>>
      BY <1>1, <1>9, StaysPut
    <2> QED
      BY <1>1, <2>1, <2>2 DEF InterleaverAgrees
  <1> QED
    BY <1>3, <1>4, <1>5, <1>6, <1>7, <1>8, <1>9

\* Every host call keeps the control state in agreement.
LEMMA ControlStep ==
    ASSUME Before, NEW o \in Ops, Replay(o)
    PROVE  CopiesTyped' /\ ControlAgrees'
  <1>1. HostStep(o) /\ CircuitStep(FromWit(o)) /\ Inv /\ CopiesTyped
    BY DEF Replay, Before
  <1>2. UNCHANGED <<Procs, Utxos, tx>>
    BY <1>1, EntriesStay, SameTransaction
  <1>3. Interfaces' = Interfaces
    BY <1>2 DEF Interfaces
  <1>4. DOMAIN ps' = Procs /\ DOMAIN irw' = RoundFields
    BY <1>1, MemoryDomain, RoundStep DEF CopiesTyped
  <1>5. CopiesTyped'
    BY <1>1, <1>2, <1>3, <1>4, EntriesStay DEF CopiesTyped, Option
  <1>6. \A p \in Procs : ProcessAgrees(p)'
    BY ProcessesStep
  <1> QED
    BY <1>2, <1>5, <1>6, SamePlace, FreshStep, InterleaverStep DEF ControlAgrees

-----------------------------------------------------------------------------
(* The invariant: handler stacks                                           *)

\* link[i][k] is the node of handler k of interface i.  Nodes are linked from
\* the newest handler to the oldest, and none is used twice.
NodeLinked(link, i, k) ==
    /\ link[i][k] < irw.handler_stack_counter
    /\ nodes[link[i][k]].process = handler_stack[i][k]
    /\ k > 1 => nodes[link[i][k]].next = link[i][k - 1]

HeadLinked(link, i) == handler_stack[i] # <<>> => heads[i] = link[i][Len(handler_stack[i])]

Linked(link) ==
    \A i \in Interfaces :
        /\ \A k \in 1 .. Len(handler_stack[i]) : NodeLinked(link, i, k)
        /\ HeadLinked(link, i)

HandlersLinked ==
    /\ DOMAIN heads = Interfaces
    /\ DOMAIN nodes = 0 .. (MaxInstalls - 1)
    /\ irw.handler_stack_counter \in Nat
    /\ \E link \in [Interfaces -> [Nat -> Nat]] : Linked(link)

\* The newest node is the one at the head.
LEMMA LinkedHeads ==
    ASSUME CopiesTyped, HandlersLinked
    PROVE  HeadsAgree
  <1>1. PICK link \in [Interfaces -> [Nat -> Nat]] : Linked(link)
    BY DEF HandlersLinked
  <1> SUFFICES ASSUME NEW i \in Interfaces, handler_stack[i] # <<>>
               PROVE  nodes[heads[i]].process = Last(handler_stack[i])
    BY DEF HeadsAgree
  <1>2. Len(handler_stack[i]) \in Nat \ {0}
    BY FrontIsSeq DEF CopiesTyped
  <1>3. Len(handler_stack[i]) \in 1 .. Len(handler_stack[i])
    BY <1>2
  <1> QED
    BY <1>1, <1>3, ZenonT(30) DEF Linked, NodeLinked, HeadLinked, Last

\* A handler is installed in a fresh node.
LEMMA InstallLinks ==
    ASSUME Before, HandlersLinked, NEW o \in Ops, o.op = "InstallHandler", Replay(o)
    PROVE  HandlersLinked'
  <1>1. PICK link \in [Interfaces -> [Nat -> Nat]] : Linked(link)
    BY DEF HandlersLinked
  <1>2. PICK j, n, len : /\ j = o.interface /\ n = irw.handler_stack_counter
                         /\ len = Len(handler_stack[j])
    OBVIOUS
  <1>3. /\ j \in Interfaces /\ n \in Nat /\ n < MaxInstalls /\ len \in Nat
        /\ handler_stack[j] \in Seq(Procs)
    BY <1>2, OpArguments, LenProperties
    DEF HandlerOps, HandlersLinked, Replay, WithinBounds, Before, CopiesTyped
  <1>4. /\ CircuitStep(o) /\ HostStep(o) /\ irw.id_curr = id_curr /\ tx' = tx
    BY PlainReplay, EntriesStay DEF Before
  <1>5. /\ nodes' = [nodes EXCEPT ![n] = [process |-> id_curr, next |-> heads[j]]]
        /\ heads' = [heads EXCEPT ![j] = n]
    BY <1>2, <1>4 DEF CircuitStep, HandlerStackOps
  <1>6. irw'.handler_stack_counter = n + 1
    BY <1>2, <1>4, RoundStep DEF Before, CopiesTyped
  <1>7. handler_stack' = [handler_stack EXCEPT ![j] = Append(handler_stack[j], id_curr)]
    BY <1>2, <1>4 DEF HostStep, InstallHandler
  <1>8. PICK longer \in [Interfaces -> [Nat -> Nat]] :
          /\ \A i \in Interfaces : i # j => longer[i] = link[i]
          /\ \A k \in Nat : longer[j][k] = IF k = len + 1 THEN n ELSE link[j][k]
    <2>1. [link EXCEPT ![j] = [link[j] EXCEPT ![len + 1] = n]] \in [Interfaces -> [Nat -> Nat]]
      BY <1>1, <1>3
    <2> QED
      BY <1>1, <1>3, <2>1
  <1>9. /\ DOMAIN nodes = 0 .. (MaxInstalls - 1)
        /\ n \in DOMAIN nodes /\ \A a \in Nat : a < n => a \in DOMAIN nodes
        /\ DOMAIN heads = Interfaces
    BY <1>3, CircuitAssumption DEF HandlersLinked
  <1>10. /\ nodes'[n].process = id_curr /\ nodes'[n].next = heads[j]
         /\ \A a \in Nat : a < n => nodes'[a] = nodes[a]
    BY <1>3, <1>5, <1>9
  <1>11. Interfaces' = Interfaces
    BY <1>4 DEF Interfaces
  <1>12. ASSUME NEW i \in Interfaces, i # j
         PROVE  /\ \A k \in 1 .. Len(handler_stack'[i]) : NodeLinked(longer, i, k)'
                /\ HeadLinked(longer, i)'
    <2>1. handler_stack'[i] = handler_stack[i] /\ heads'[i] = heads[i] /\ longer[i] = link[i]
      BY <1>3, <1>5, <1>7, <1>8, <1>9, <1>12 DEF Before, CopiesTyped
    <2>2. handler_stack[i] \in Seq(Procs) /\ Len(handler_stack[i]) \in Nat
      BY LenProperties DEF Before, CopiesTyped
    <2>3. HeadLinked(longer, i)'
      BY <1>1, <2>1 DEF Linked, HeadLinked
    <2>4. ASSUME NEW k \in 1 .. Len(handler_stack[i])
          PROVE  NodeLinked(longer, i, k)'
      <3>1. k \in Nat /\ k - 1 \in Int
        BY <2>2
      <3>2. NodeLinked(link, i, k) /\ link[i][k] \in Nat
        BY <1>1, <3>1 DEF Linked
      <3>3. link[i][k] < n
        BY <1>2, <3>2 DEF NodeLinked
      <3>4. link[i][k] < n + 1 /\ nodes'[link[i][k]] = nodes[link[i][k]]
        <4>1. PICK a \in Nat : a = link[i][k]
          BY <3>2
        <4>2. a < n /\ n \in Nat
          BY <1>3, <3>3, <4>1
        <4>3. a < n + 1
          BY <4>2
        <4> QED
          BY <1>10, <4>1, <4>2, <4>3
      <3> QED
        BY <1>6, <2>1, <3>2, <3>4 DEF NodeLinked
    <2> QED
      BY <2>1, <2>3, <2>4
  <1>13. /\ \A k \in 1 .. Len(handler_stack'[j]) : NodeLinked(longer, j, k)'
         /\ HeadLinked(longer, j)'
    <2>1. /\ handler_stack'[j] = Append(handler_stack[j], id_curr) /\ heads'[j] = n
          /\ longer[j][len + 1] = n
      <3>1. len + 1 \in Nat
        BY <1>3
      <3>2. longer[j][len + 1] = n
        BY <1>8, <3>1
      <3>3. handler_stack'[j] = Append(handler_stack[j], id_curr)
        BY <1>3, <1>7 DEF Before, CopiesTyped
      <3> QED
        BY <1>3, <1>5, <1>9, <3>2, <3>3
    <2>2. /\ Len(handler_stack'[j]) = len + 1 /\ handler_stack'[j][len + 1] = id_curr
          /\ \A k \in 1 .. len : handler_stack'[j][k] = handler_stack[j][k]
      <3>1. PICK s \in Seq(Procs) : s = handler_stack[j]
        BY <1>3
      <3>2. id_curr \in Procs
        BY DEF Before, CopiesTyped
      <3>3. /\ Len(Append(s, id_curr)) = Len(s) + 1
            /\ Append(s, id_curr)[Len(s) + 1] = id_curr
            /\ \A k \in 1 .. Len(s) : Append(s, id_curr)[k] = s[k]
        BY <3>2, AppendProperties
      <3> QED
        BY <1>2, <2>1, <3>1, <3>3
    <2>3. HeadLinked(longer, j)'
      BY <2>1, <2>2 DEF HeadLinked
    <2>4. ASSUME NEW k \in 1 .. len
          PROVE  NodeLinked(longer, j, k)'
      <3>1. k \in Nat /\ k - 1 \in Nat /\ k # len + 1 /\ k - 1 # len + 1
        BY <1>3
      <3>2. NodeLinked(link, j, k) /\ link[j][k] \in Nat
        BY <1>1, <1>2, <1>3, <3>1 DEF Linked
      <3>3. link[j][k] < n
        BY <1>2, <3>2 DEF NodeLinked
      <3>4. link[j][k] < n + 1 /\ nodes'[link[j][k]] = nodes[link[j][k]]
        <4>1. PICK a \in Nat : a = link[j][k]
          BY <3>2
        <4>2. a < n /\ n \in Nat
          BY <1>3, <3>3, <4>1
        <4>3. a < n + 1
          BY <4>2
        <4> QED
          BY <1>10, <4>1, <4>2, <4>3
      <3>5. longer[j][k] = link[j][k] /\ longer[j][k - 1] = link[j][k - 1]
        BY <1>8, <3>1
      <3> QED
        BY <1>6, <2>2, <3>2, <3>4, <3>5 DEF NodeLinked
    <2>5. ASSUME NEW k, k = len + 1
          PROVE  NodeLinked(longer, j, k)'
      <3>1. longer[j][k] = n /\ handler_stack'[j][k] = id_curr
        BY <2>1, <2>2, <2>5
      <3>2. n < n + 1
        BY <1>3
      <3>3. ASSUME k > 1
            PROVE  heads[j] = longer[j][k - 1]
        <4>1. len # 0 /\ handler_stack[j] # <<>>
          BY <1>2, <1>3, <2>5, <3>3, EmptySeq
        <4>2. heads[j] = link[j][len]
          BY <1>1, <1>2, <1>3, <4>1 DEF Linked, HeadLinked
        <4>3. k - 1 = len /\ len # len + 1
          BY <1>3, <2>5
        <4> QED
          BY <1>3, <1>8, <4>2, <4>3
      <3>4. k > 1 => nodes'[longer[j][k]].next = longer[j][k - 1]
        BY <1>10, <3>1, <3>3
      <3> QED
        BY <1>6, <1>10, <3>1, <3>2, <3>4 DEF NodeLinked
    <2> QED
      <3>1. \A k \in 1 .. (len + 1) : k \in 1 .. len \/ k = len + 1
        BY <1>3
      <3> QED
        BY <2>2, <2>3, <2>4, <2>5, <3>1
  <1>14. Linked(longer)'
    BY <1>11, <1>12, <1>13 DEF Linked
  <1>15. irw'.handler_stack_counter \in Nat
    BY <1>3, <1>6
  <1>16. DOMAIN heads' = Interfaces /\ DOMAIN nodes' = 0 .. (MaxInstalls - 1)
    BY <1>5, <1>9
  <1> QED
    BY <1>8, <1>11, <1>14, <1>15, <1>16 DEF HandlersLinked

\* A handler is uninstalled by going on to the next node.
LEMMA UninstallLinks ==
    ASSUME Before, HandlersLinked, NEW o \in Ops, o.op = "UninstallHandler", Replay(o)
    PROVE  HandlersLinked'
  <1>1. PICK link \in [Interfaces -> [Nat -> Nat]] : Linked(link)
    BY DEF HandlersLinked
  <1>2. PICK j, len : j = o.interface /\ len = Len(handler_stack[j])
    OBVIOUS
  <1>3. CircuitStep(o) /\ HostStep(o) /\ tx' = tx
    BY PlainReplay, EntriesStay DEF Before
  <1>4. /\ j \in Interfaces /\ handler_stack[j] \in Seq(Procs) /\ handler_stack[j] # <<>>
        /\ handler_stack' = [handler_stack EXCEPT ![j] = Front(handler_stack[j])]
    BY <1>2, <1>3, OpArguments
    DEF HandlerOps, HostStep, UninstallHandler, MayUninstall, Before, CopiesTyped
  <1>5. /\ len \in Nat \ {0} /\ Len(Front(handler_stack[j])) = len - 1
        /\ \A k \in 1 .. (len - 1) : Front(handler_stack[j])[k] = handler_stack[j][k]
    BY <1>2, <1>4, FrontIsSeq
  <1>6. nodes' = nodes /\ heads' = [heads EXCEPT ![j] = nodes[heads[j]].next]
    BY <1>2, <1>3 DEF CircuitStep, HandlerStackOps
  <1>7. irw'.handler_stack_counter = irw.handler_stack_counter
    BY <1>3, RoundStep DEF Before, CopiesTyped
  <1>8. DOMAIN heads = Interfaces /\ DOMAIN handler_stack = Interfaces
    BY DEF HandlersLinked, Before, CopiesTyped
  <1>9. Interfaces' = Interfaces
    BY <1>3 DEF Interfaces
  <1>10. ASSUME NEW i \in Interfaces, i # j
         PROVE  /\ \A k \in 1 .. Len(handler_stack'[i]) : NodeLinked(link, i, k)'
                /\ HeadLinked(link, i)'
    <2>1. handler_stack'[i] = handler_stack[i] /\ heads'[i] = heads[i]
      BY <1>4, <1>6, <1>8, <1>10
    <2> QED
      BY <1>1, <1>6, <1>7, <2>1 DEF Linked, NodeLinked, HeadLinked
  <1>11. /\ \A k \in 1 .. Len(handler_stack'[j]) : NodeLinked(link, j, k)'
         /\ HeadLinked(link, j)'
    <2>1. /\ handler_stack'[j] = Front(handler_stack[j])
          /\ heads'[j] = nodes[heads[j]].next
      BY <1>4, <1>6, <1>8
    <2>2. ASSUME NEW k \in 1 .. (len - 1)
          PROVE  NodeLinked(link, j, k)'
      <3>1. k \in 1 .. len
        BY <1>5
      <3>2. NodeLinked(link, j, k)
        BY <1>1, <1>2, <1>4, <3>1 DEF Linked
      <3>3. handler_stack'[j][k] = handler_stack[j][k]
        BY <1>5, <2>1
      <3> QED
        BY <1>6, <1>7, <3>2, <3>3 DEF NodeLinked
    <2>3. HeadLinked(link, j)'
      <3> SUFFICES ASSUME handler_stack'[j] # <<>>
                   PROVE  heads'[j] = link[j][Len(handler_stack'[j])]
        BY DEF HeadLinked
      <3>1. len - 1 # 0
        BY <1>4, <1>5, <2>1, FrontIsSeq, EmptySeq
      <3>2. len \in 1 .. len /\ len > 1
        BY <1>5, <3>1
      <3>3. heads[j] = link[j][len]
        BY <1>1, <1>2, <1>4 DEF Linked, HeadLinked
      <3>4. nodes[link[j][len]].next = link[j][len - 1]
        BY <1>1, <1>2, <1>4, <3>2 DEF Linked, NodeLinked
      <3> QED
        BY <1>5, <2>1, <3>3, <3>4
    <2> QED
      BY <1>5, <2>1, <2>2, <2>3
  <1>12. Linked(link)'
    BY <1>9, <1>10, <1>11 DEF Linked
  <1> QED
    BY <1>6, <1>7, <1>9, <1>12 DEF HandlersLinked

\* The other operations leave the stacks alone.
LEMMA OtherLinks ==
    ASSUME Before, HandlersLinked, NEW o \in Ops, o.op \notin {"InstallHandler", "UninstallHandler"},
           Replay(o)
    PROVE  HandlersLinked'
  <1>1. PICK u : u = FromWit(o)
    OBVIOUS
  <1>2. u.op = o.op /\ CircuitStep(u) /\ HostStep(o)
    BY <1>1, FromWitKeeps DEF Replay
  <1>3. UNCHANGED <<heads, nodes>>
    BY <1>2 DEF CircuitStep, HandlerStackOps
  <1>4. irw'.handler_stack_counter = irw.handler_stack_counter
    BY <1>2, RoundStep DEF Before, CopiesTyped
  <1>5. tx' = tx /\ Interfaces' = Interfaces
    BY <1>2, EntriesStay DEF Before, Interfaces
  <1>6. handler_stack' = handler_stack
    <2>1. CASE o.op \in {"Resume", "CallEffectHandler", "Yield", "Return"}
      BY <1>2, <2>1
      DEF HostStep, Resume, MayResume, MayTransfer, CallEffectHandler, MayCallHandler, Yield,
          MayYield, Return, MayReturn
    <2>2. CASE o.op \notin {"Resume", "CallEffectHandler", "Yield", "Return"}
      BY <1>2, <2>2, StaysPut
    <2> QED
      BY <2>1, <2>2
  <1>7. ASSUME NEW link, Linked(link)
        PROVE  Linked(link)'
    BY <1>3, <1>4, <1>5, <1>6, <1>7 DEF Linked, NodeLinked, HeadLinked
  <1> QED
    BY <1>3, <1>4, <1>5, <1>7 DEF HandlersLinked

-----------------------------------------------------------------------------
(* The walk along a handler stack                                          *)

\* A set of natural numbers has a least one.
LEMMA LeastNumber ==
    ASSUME NEW S, S \subseteq Nat, S # {}
    PROVE  \E x \in S : \A y \in S : x <= y
  <1>1. PICK x \in S : \A y \in S : ~(<<y, x>> \in OpToRel(<, Nat))
    BY NatLessThanWellFounded, WFMin
  <1>2. \A y \in S : ~(y < x)
    BY <1>1 DEF OpToRel
  <1> QED
    BY <1>2

\* walk visits n + 1 nodes, from the head of interface i.
Walks(walk, i, n) ==
    walk = [k \in 0 .. n |-> IF k = 0 THEN heads[i] ELSE nodes[walk[k - 1]].next]

\* The nodes on the way are the links, newest first.
Follows(walk, link, i, n) == \A k \in 0 .. (n - 1) : walk[k] = link[i][n - k]

\* Positions counted from the head and from the bottom of a stack of n.
LEMMA Positions ==
    ASSUME NEW n \in Nat, NEW k \in 0 .. n
    PROVE  /\ k \in Nat
           /\ k # n => k \in 0 .. (n - 1) /\ n - k \in 1 .. n
           /\ k # 0 => /\ k - 1 \in 0 .. (n - 1) /\ k - 1 \in 0 .. n /\ k - 1 # n /\ ~(k <= k - 1)
                       /\ n - (k - 1) \in 1 .. n /\ n - (k - 1) - 1 = n - k
                       /\ n - (k - 1) = n - k + 1
                       /\ k # n => n - (k - 1) > 1
                       /\ k = n => n - (k - 1) = 1
  OBVIOUS

\* A walk goes along the links.
LEMMA WalkFollowsLinks ==
    ASSUME CopiesTyped, NEW link, Linked(link),
           NEW i \in Interfaces, NEW n, n = Len(handler_stack[i]), NEW walk, Walks(walk, i, n)
    PROVE  Follows(walk, link, i, n)
  <1>1. n \in Nat
    BY LenProperties DEF CopiesTyped
  <1>2. PICK Bad : Bad = {k \in 0 .. (n - 1) : walk[k] # link[i][n - k]}
    OBVIOUS
  <1>3. ASSUME Bad # {} PROVE FALSE
    <2>1. PICK k \in Bad : \A m \in Bad : k <= m
      <3>1. Bad \subseteq Nat
        BY <1>1, <1>2
      <3> QED
        BY <1>3, <3>1, LeastNumber
    <2>2. /\ k \in 0 .. (n - 1) /\ k \in 0 .. n /\ n - k \in 1 .. n /\ k \in Nat
          /\ walk[k] # link[i][n - k]
      <3>1. k \in 0 .. (n - 1)
        BY <1>2, <2>1
      <3>2. walk[k] # link[i][n - k]
        BY <1>2, <2>1
      <3>3. k \in 0 .. n /\ k # n
        BY <1>1, <3>1
      <3>4. n - k \in 1 .. n /\ k \in Nat
        BY <1>1, <3>3, Positions
      <3> QED
        BY <3>1, <3>2, <3>3, <3>4
    <2>3. CASE k = 0
      <3>1. walk[k] = heads[i] /\ n - k = n /\ n # 0
        BY <1>1, <2>2, <2>3 DEF Walks
      <3>2. handler_stack[i] # <<>>
        BY <3>1, EmptySeq
      <3> QED
        BY <2>2, <3>1, <3>2 DEF Linked, HeadLinked
    <2>4. CASE k # 0
      <3>1. PICK m, l : m = n - k /\ l = n - (k - 1)
        OBVIOUS
      <3>2. /\ k - 1 \in 0 .. (n - 1) /\ ~(k <= k - 1)
            /\ l \in 1 .. n /\ l > 1 /\ l - 1 = m
        BY <1>1, <2>2, <2>4, <3>1, Positions
      <3>3. walk[k - 1] = link[i][l]
        BY <1>2, <2>1, <3>1, <3>2
      <3>4. walk[k] = nodes[walk[k - 1]].next
        BY <2>2, <2>4 DEF Walks
      <3>5. NodeLinked(link, i, l)
        BY <3>2 DEF Linked
      <3>6. nodes[link[i][l]].next = link[i][m]
        BY <3>2, <3>5 DEF NodeLinked
      <3> QED
        BY <2>2, <3>1, <3>3, <3>4, <3>6
    <2> QED
      BY <2>3, <2>4
  <1> QED
    BY <1>2, <1>3 DEF Follows

\* There is such a walk, so the recursive function of StackOf is one.
LEMMA WalkExists ==
    ASSUME CopiesTyped, HandlersLinked, NEW i \in Interfaces, NEW n, n = Len(handler_stack[i])
    PROVE  \E walk : Walks(walk, i, n)
  <1>1. PICK link \in [Interfaces -> [Nat -> Nat]] : Linked(link)
    BY DEF HandlersLinked
  <1>2. n \in Nat
    BY LenProperties DEF CopiesTyped
  <1>3. PICK last : last = IF n = 0 THEN heads[i] ELSE nodes[link[i][1]].next
    OBVIOUS
  <1>4. PICK walk : walk = [k \in 0 .. n |-> IF k = n THEN last ELSE link[i][n - k]]
    OBVIOUS
  <1>5. ASSUME NEW k \in 0 .. n
        PROVE  walk[k] = IF k = 0 THEN heads[i] ELSE nodes[walk[k - 1]].next
    <2>1. CASE k = 0 /\ n = 0
      BY <1>3, <1>4, <2>1
    <2>2. CASE k = 0 /\ n # 0
      <3>1. handler_stack[i] # <<>>
        BY <2>2, EmptySeq
      <3>2. walk[k] = link[i][n] /\ heads[i] = link[i][n]
        BY <1>1, <1>2, <1>4, <2>2, <3>1 DEF Linked, HeadLinked
      <3> QED
        BY <2>2, <3>2
    <2>3. CASE k # 0
      <3>1. PICK m, l : m = n - k /\ l = n - (k - 1)
        OBVIOUS
      <3>2. /\ k - 1 \in 0 .. n /\ k - 1 # n /\ l \in 1 .. n /\ l - 1 = m
            /\ k # n => l > 1
            /\ k = n => l = 1 /\ n # 0
        BY <1>2, <2>3, <3>1, Positions
      <3>3. walk[k - 1] = link[i][l]
        BY <1>4, <3>1, <3>2
      <3>4. NodeLinked(link, i, l)
        BY <1>1, <3>2 DEF Linked
      <3>5. CASE k = n
        BY <1>3, <1>4, <2>3, <3>2, <3>3, <3>5
      <3>6. CASE k # n
        <4>1. nodes[link[i][l]].next = link[i][m]
          BY <3>2, <3>4, <3>6 DEF NodeLinked
        <4>2. walk[k] = link[i][m]
          BY <1>4, <3>1, <3>6
        <4> QED
          BY <2>3, <3>3, <4>1, <4>2
      <3> QED
        BY <3>5, <3>6
    <2> QED
      BY <2>1, <2>2, <2>3
  <1>6. walk = [k \in 0 .. n |-> IF k = 0 THEN heads[i] ELSE nodes[walk[k - 1]].next]
    <2>1. walk = [k \in 0 .. n |-> walk[k]]
      BY <1>4
    <2> QED
      BY <1>5, <2>1
  <1> QED
    BY <1>6 DEF Walks

\* The handlers that the circuit links are those that the verifier stacks.
LEMMA StacksAgree ==
    ASSUME CopiesTyped, HandlersLinked, NEW i \in Interfaces
    PROVE  StackOf(i) = Reverse(handler_stack[i])
  <1>1. PICK link \in [Interfaces -> [Nat -> Nat]] : Linked(link)
    BY DEF HandlersLinked
  <1>2. PICK n : n = Len(handler_stack[i]) /\ n \in Nat
    BY LenProperties DEF CopiesTyped
  <1>3. PICK walk : /\ Walks(walk, i, n)
                    /\ StackOf(i) = [k \in 1 .. n |-> nodes[walk[k - 1]].process]
    <2>1. PICK w : w = CHOOSE walk : Walks(walk, i, n)
      OBVIOUS
    <2>2. Walks(w, i, n)
      BY <1>2, <2>1, WalkExists
    <2>3. w = CHOOSE walk : walk = [k \in 0 .. n |-> IF k = 0 THEN heads[i]
                                                     ELSE nodes[walk[k - 1]].next]
      BY <2>1 DEF Walks
    <2>4. StackOf(i) = [k \in 1 .. n |-> nodes[w[k - 1]].process]
      BY <1>2, <2>3 DEF StackOf
    <2> QED
      BY <2>2, <2>4
  <1>4. ASSUME NEW k \in 1 .. n
        PROVE  nodes[walk[k - 1]].process = handler_stack[i][n - k + 1]
    <2>1. PICK l : l = n - (k - 1)
      OBVIOUS
    <2>2. k - 1 \in 0 .. (n - 1) /\ l \in 1 .. n /\ l = n - k + 1
      <3>1. k \in 0 .. n /\ k # 0
        BY <1>2
      <3> QED
        BY <1>2, <2>1, <3>1, Positions
    <2>3. walk[k - 1] = link[i][l]
      <3>1. \A m \in 0 .. (n - 1) : walk[m] = link[i][n - m]
        <4>1. Follows(walk, link, i, n)
          BY <1>1, <1>2, <1>3, WalkFollowsLinks
        <4> QED
          BY <4>1 DEF Follows
      <3> QED
        BY <2>1, <2>2, <3>1
    <2>4. NodeLinked(link, i, l)
      BY <1>1, <1>2, <2>2 DEF Linked
    <2> QED
      BY <2>2, <2>3, <2>4 DEF NodeLinked
  <1>5. Reverse(handler_stack[i]) = [k \in 1 .. n |-> handler_stack[i][n - k + 1]]
    BY <1>2 DEF Reverse
  <1> QED
    BY <1>3, <1>4, <1>5

-----------------------------------------------------------------------------
(* The invariant: refs                                                     *)

\* Where ref r is in the arena, and what is there.
RefPlaced(r) ==
    /\ sizes[r] = Len(ref_content(r)) /\ bases[r] \in Nat
    /\ bases[r] + sizes[r] <= irw.ref_arena_len
    /\ \A k \in 1 .. sizes[r] : arena[bases[r] + k - 1] = ref_content(r)[k]

\* Known refs lie one after the other; nothing is behind the last one.
RefsPlaced ==
    /\ \A r \in Refs : Known(r) => RefPlaced(r)
    /\ \A r, s \in Refs : r < s /\ Known(s) => bases[r] + sizes[r] <= bases[s]
    /\ \A a \in DOMAIN arena : a >= irw.ref_arena_len => arena[a] = ZeroWord

\* There is room for as many words as the refs can have.
RefsFit ==
    /\ ref_store \in Seq(Seq(Words)) /\ Len(ref_store) <= MaxRefs
    /\ DOMAIN sizes = Refs /\ DOMAIN bases = Refs
    /\ DOMAIN arena = 0 .. (MaxRefs * MaxWords - 1)
    /\ irw.ref_arena_len \in Nat /\ irw.ref_arena_len <= Len(ref_store) * MaxWords

\* The circuit fills the word of the ref that the running process fills.
BuildingPlaced ==
    LET b == ref_building[id_curr] IN
    b # None =>
        /\ b \in [ref : Refs, offset : Nat]
        /\ Known(b.ref) /\ b.offset < Len(ref_content(b.ref))
        /\ irw.ref_building_ptr = bases[b.ref] + b.offset

RefsInv == RefsFit /\ RefsPlaced /\ BuildingPlaced

\* The room of one more ref.
LEMMA OneMoreFits ==
    ASSUME NEW n \in Nat, NEW m \in Nat, NEW w \in Nat, n < m
    PROVE  (n + 1) * w = n * w + w /\ n * w + w <= m * w
  <1>1. (n + 1) * w = n * w + w
    OBVIOUS
  <1>2. PICK d \in Nat : m = n + 1 + d
    <2>1. m - n - 1 \in Nat /\ m = n + 1 + (m - n - 1)
      OBVIOUS
    <2> QED
      BY <2>1
  <1>3. m * w = (n + 1) * w + d * w /\ d * w \in Nat
    BY <1>2
  <1> QED
    BY <1>1, <1>3

\* What a known ref is.
LEMMA KnownRef ==
    ASSUME RefsFit, NEW r \in Refs, Known(r)
    PROVE  /\ r \in Nat /\ r + 1 \in 1 .. Len(ref_store)
           /\ ref_content(r) \in Seq(Words) /\ Len(ref_content(r)) \in Nat
  <1>1. r \in Nat /\ Len(ref_store) \in Nat
    BY InstanceAssumption, LenProperties DEF RefsFit, Refs
  <1>2. r + 1 \in 1 .. Len(ref_store)
    BY <1>1 DEF Known
  <1>3. ref_content(r) \in Seq(Words)
    BY <1>2, ElementOfSeq DEF RefsFit, ref_content
  <1> QED
    BY <1>1, <1>2, <1>3, LenProperties

\* What lies before the end of the last ref is in the arena.
LEMMA ArenaRoom ==
    ASSUME RefsFit, tx \in Transactions
    PROVE  /\ MaxWords \in Nat
           /\ \A a \in Nat : a < irw.ref_arena_len => a \in DOMAIN arena
  <1>1. MaxWords \in Nat /\ MaxRefs \in Nat
    BY InstanceAssumption DEF WellShaped, MaxWords
  <1>2. PICK n \in Nat, m \in Nat, w \in Nat, len \in Nat :
          n = Len(ref_store) /\ m = MaxRefs /\ w = MaxWords /\ len = irw.ref_arena_len
    BY <1>1, LenProperties DEF RefsFit
  <1>3. n <= m /\ len <= n * w /\ DOMAIN arena = 0 .. (m * w - 1)
    BY <1>2 DEF RefsFit
  <1>4. n * w <= m * w
    <2>1. CASE n = m
      BY <2>1
    <2>2. CASE n < m
      BY <2>2, OneMoreFits
    <2> QED
      BY <1>3, <2>1, <2>2
  <1>5. ASSUME NEW a \in Nat, a < len PROVE a \in 0 .. (m * w - 1)
    BY <1>3, <1>4, <1>5
  <1> QED
    BY <1>1, <1>2, <1>3, <1>5

\* A word of a known ref is written in its place in the arena, where no other
\* ref is.
LEMMA WordWritten ==
    ASSUME RefsFit, RefsPlaced, tx \in Transactions, tx' = tx, NEW r \in Refs, Known(r), NEW off \in Nat,
           off < Len(ref_content(r)), NEW w \in Words,
           ref_store' = [ref_store EXCEPT ![r + 1][off + 1] = w],
           arena' = [arena EXCEPT ![bases[r] + off] = w], UNCHANGED <<sizes, bases>>,
           irw'.ref_arena_len = irw.ref_arena_len
    PROVE  /\ RefsFit' /\ RefsPlaced' /\ Len(ref_store') = Len(ref_store)
           /\ \A s \in Refs : Known(s) => Len(ref_store'[s + 1]) = Len(ref_content(s))
  <1>1. PICK c : c = ref_content(r)
    OBVIOUS
  <1>2. /\ c \in Seq(Words) /\ Len(c) \in Nat /\ r \in Nat /\ r + 1 \in 1 .. Len(ref_store)
        /\ off + 1 \in 1 .. Len(c) /\ Len(ref_store) \in Nat
    <2>1. c \in Seq(Words) /\ Len(c) \in Nat /\ r \in Nat /\ r + 1 \in 1 .. Len(ref_store)
      BY <1>1, KnownRef
    <2>2. off + 1 \in 1 .. Len(c)
      BY <1>1, <2>1
    <2> QED
      BY <2>1, <2>2, LenProperties DEF RefsFit
  <1>3. PICK d : d = [c EXCEPT ![off + 1] = w]
    OBVIOUS
  <1>4. /\ d \in Seq(Words) /\ Len(d) = Len(c)
        /\ \A k \in 1 .. Len(c) : d[k] = IF k = off + 1 THEN w ELSE c[k]
    BY <1>2, <1>3, ExceptSeq
  <1>5. ref_store' = [ref_store EXCEPT ![r + 1] = d]
    BY <1>1, <1>3 DEF ref_content
  <1>6. /\ ref_store' \in Seq(Seq(Words)) /\ Len(ref_store') = Len(ref_store)
        /\ \A k \in 1 .. Len(ref_store) : ref_store'[k] = IF k = r + 1 THEN d ELSE ref_store[k]
    BY <1>2, <1>4, <1>5, ExceptSeq DEF RefsFit
  <1>7. UNCHANGED MaxWords
    BY DEF MaxWords
  <1>8. RefsFit'
    BY <1>6, <1>7 DEF RefsFit
  <1>9. /\ sizes[r] = Len(c) /\ bases[r] \in Nat
        /\ bases[r] + sizes[r] <= irw.ref_arena_len
        /\ \A k \in 1 .. sizes[r] : arena[bases[r] + k - 1] = c[k]
    BY <1>1 DEF RefsPlaced, RefPlaced
  <1>10. PICK b, len : b = bases[r] /\ len = irw.ref_arena_len
    OBVIOUS
  <1>11. b \in Nat /\ len \in Nat /\ b + off < len
    BY <1>2, <1>9, <1>10 DEF RefsFit
  <1>12. /\ arena'[b + off] = w
         /\ \A a \in Nat : a < len /\ a # b + off => arena'[a] = arena[a]
         /\ \A a \in DOMAIN arena : a # b + off => arena'[a] = arena[a]
         /\ DOMAIN arena' = DOMAIN arena
    <2>1. b + off \in DOMAIN arena /\ \A a \in Nat : a < len => a \in DOMAIN arena
      BY <1>10, <1>11, ArenaRoom
    <2> QED
      BY <1>10, <2>1
  <1>13. RefPlaced(r)'
    <2>1. ref_content(r)' = d
      BY <1>2, <1>6 DEF ref_content
    <2>2. ASSUME NEW k \in 1 .. Len(c)
          PROVE  arena'[b + k - 1] = d[k]
      <3>1. CASE k = off + 1
        <4>1. b + k - 1 = b + off
          BY <1>2, <1>11, <3>1
        <4> QED
          BY <1>4, <1>12, <3>1, <4>1
      <3>2. CASE k # off + 1
        <4>1. b + k - 1 \in Nat /\ b + k - 1 < len /\ b + k - 1 # b + off
          <5>1. b + Len(c) <= len
            BY <1>9, <1>10
          <5> QED
            BY <1>2, <1>11, <3>2, <5>1, SMTT(30)
        <4>2. arena[b + k - 1] = c[k]
          BY <1>9, <1>10
        <4> QED
          BY <1>4, <1>12, <3>2, <4>1, <4>2
      <3> QED
        BY <3>1, <3>2
    <2> QED
      BY <1>4, <1>9, <1>10, <2>1, <2>2 DEF RefPlaced
  <1>14. ASSUME NEW s \in Refs, Known(s), s # r
         PROVE  RefPlaced(s)'
    <2>1. /\ s \in Nat /\ s + 1 \in 1 .. Len(ref_store) /\ s + 1 # r + 1
          /\ Len(ref_content(s)) \in Nat
      BY <1>2, <1>14, KnownRef
    <2>2. ref_content(s)' = ref_content(s)
      BY <1>6, <2>1 DEF ref_content
    <2>3. PICK e, z : e = bases[s] /\ z = sizes[s]
      OBVIOUS
    <2>4. /\ z = Len(ref_content(s)) /\ e \in Nat /\ e + z <= len
          /\ \A k \in 1 .. z : arena[e + k - 1] = ref_content(s)[k]
      BY <1>10, <1>14, <2>3 DEF RefsPlaced, RefPlaced
    <2>5. e + z <= b \/ b + Len(c) <= e
      <3>1. s < r \/ r < s
        BY <1>2, <1>14, <2>1
      <3>2. s < r => bases[s] + sizes[s] <= bases[r]
        BY DEF RefsPlaced
      <3>3. r < s => bases[r] + sizes[r] <= bases[s]
        BY <1>14 DEF RefsPlaced
      <3> QED
        BY <1>9, <1>10, <2>3, <3>1, <3>2, <3>3
    <2>6. ASSUME NEW k \in 1 .. z
          PROVE  arena'[e + k - 1] = arena[e + k - 1]
      <3>1. e + k - 1 \in Nat /\ e + k - 1 < len /\ e + k - 1 # b + off
        <4>1. z \in Nat /\ k \in Nat /\ 1 <= k /\ k <= z
          BY <2>1, <2>4
        <4>2. e \in Nat /\ e + z <= len
          BY <2>4
        <4>3. PICK n \in Nat : n = Len(c) /\ off + 1 <= n
          BY <1>2
        <4>4. e + z <= b \/ b + n <= e
          BY <2>5, <4>3
        <4> QED
          BY <1>11, <4>1, <4>2, <4>3, <4>4, SMTT(30)
      <3> QED
        BY <1>12, <3>1
    <2> QED
      BY <1>10, <2>2, <2>3, <2>4, <2>6 DEF RefPlaced
  <1>15. RefsPlaced'
    <2>1. \A s \in Refs : Known(s)' => Known(s)
      BY <1>6 DEF Known
    <2>2. \A a \in DOMAIN arena' : a >= irw'.ref_arena_len => arena'[a] = ZeroWord
      <3> SUFFICES ASSUME NEW a \in DOMAIN arena, a >= len PROVE arena'[a] = ZeroWord
        BY <1>10, <1>12
      <3>1. a # b + off
        BY <1>11 DEF RefsFit
      <3> QED
        BY <1>10, <1>12, <3>1 DEF RefsPlaced
    <2> QED
      BY <1>13, <1>14, <2>1, <2>2 DEF RefsPlaced
  <1>16. ASSUME NEW s \in Refs, Known(s)
         PROVE  Len(ref_store'[s + 1]) = Len(ref_content(s))
    <2>1. s + 1 \in 1 .. Len(ref_store)
      BY <1>16, KnownRef
    <2> QED
      BY <1>1, <1>4, <1>6, <2>1 DEF ref_content
  <1> QED
    BY <1>6, <1>8, <1>15, <1>16

\* RefWrite finds the word at the offset that the verifier checked.
LEMMA RefWriteStep ==
    ASSUME Before, RefsInv, NEW o \in Ops, o.op = "RefWrite", Replay(o)
    PROVE  RefsInv'
  <1> USE DEF claims, frames, suspension, creation, refs, assets
  <1>1. CircuitStep(o) /\ HostStep(o) /\ tx' = tx /\ tx \in Transactions
    BY PlainReplay, EntriesStay DEF Before, Inv, Typed
  <1>2. o.val \in Refs /\ o.offset \in Nat /\ o.word \in Words
    BY OpArguments
  <1>3. /\ HostCall /\ Known(o.val) /\ o.offset < Len(ref_content(o.val))
        /\ ref_store' = [ref_store EXCEPT ![o.val + 1][o.offset + 1] = o.word]
        /\ UNCHANGED <<id_curr, ref_building>>
    BY <1>1 DEF HostStep, RefWrite, MayAccess
  <1>4. /\ arena' = [arena EXCEPT ![bases[o.val] + o.offset] = o.word]
        /\ UNCHANGED <<sizes, bases>>
    BY <1>1 DEF CircuitStep, RefArenaOps
  <1>5. irw'.ref_arena_len = irw.ref_arena_len
    BY <1>1, RoundStep DEF Before, CopiesTyped
  <1>6. RefsFit' /\ RefsPlaced'
    BY <1>1, <1>2, <1>3, <1>4, <1>5, WordWritten DEF RefsInv
  <1>7. BuildingPlaced'
    BY <1>3 DEF BuildingPlaced, HostCall
  <1> QED
    BY <1>6, <1>7 DEF RefsInv

\* RefPush writes at the pointer, which is where the filled ref goes on.
LEMMA RefPushStep ==
    ASSUME Before, RefsInv, NEW o \in Ops, o.op = "RefPush", Replay(o)
    PROVE  RefsInv'
  <1> USE DEF claims, frames, suspension, creation, refs, assets
  <1>1. CircuitStep(o) /\ HostStep(o) /\ tx' = tx /\ tx \in Transactions /\ id_curr \in Procs
    BY PlainReplay, EntriesStay DEF Before, Inv, Typed
  <1>2. PICK b : b = ref_building[id_curr]
    OBVIOUS
  <1>3. /\ b # None /\ id_curr' = id_curr
        /\ ref_store' = [ref_store EXCEPT ![b.ref + 1][b.offset + 1] = o.word]
        /\ ref_building' = [ref_building EXCEPT ![id_curr] =
                IF Complete(b.offset, b.ref) THEN None ELSE [b EXCEPT !.offset = @ + 1]]
    BY <1>1, <1>2 DEF HostStep, RefPush, MayPush
  <1>4. /\ b \in [ref : Refs, offset : Nat]
        /\ Known(b.ref) /\ b.offset < Len(ref_content(b.ref))
        /\ irw.ref_building_ptr = bases[b.ref] + b.offset
    BY <1>2, <1>3 DEF RefsInv, BuildingPlaced
  <1>5. PICK r \in Refs, off \in Nat : r = b.ref /\ off = b.offset
    BY <1>4
  <1>6. o.word \in Words
    BY OpArguments
  <1>7. /\ arena' = [arena EXCEPT ![bases[r] + off] = o.word] /\ UNCHANGED <<sizes, bases>>
    BY <1>1, <1>4, <1>5 DEF CircuitStep, RefArenaOps
  <1>8. /\ irw'.ref_arena_len = irw.ref_arena_len
        /\ irw'.ref_building_ptr = bases[r] + off + 1
    BY <1>1, <1>4, <1>5, RoundStep DEF Before, CopiesTyped
  <1>9. /\ RefsFit' /\ RefsPlaced' /\ Len(ref_store') = Len(ref_store)
        /\ Len(ref_store'[r + 1]) = Len(ref_content(r))
    BY <1>1, <1>3, <1>4, <1>5, <1>6, <1>7, <1>8, WordWritten DEF RefsInv
  <1>10. BuildingPlaced'
    <2>1. ref_building'[id_curr'] =
            IF Complete(b.offset, b.ref) THEN None ELSE [b EXCEPT !.offset = @ + 1]
      BY <1>1, <1>3 DEF Before, Inv, Typed
    <2>2. CASE Complete(b.offset, b.ref)
      BY <2>1, <2>2 DEF BuildingPlaced
    <2>3. CASE ~Complete(b.offset, b.ref)
      <3>1. PICK c : c = [b EXCEPT !.offset = @ + 1]
        OBVIOUS
      <3>2. c \in [ref : Refs, offset : Nat] /\ c.ref = r /\ c.offset = off + 1
        BY <1>4, <1>5, <3>1
      <3>3. ref_building'[id_curr'] = c
        BY <2>1, <2>3, <3>1
      <3>4. Known(r)' /\ Len(ref_content(r)') = Len(ref_content(r))
        BY <1>4, <1>5, <1>9 DEF Known, ref_content
      <3>5. off + 1 < Len(ref_content(r))
        <4>1. Len(ref_content(r)) \in Nat
          BY <1>4, <1>5, KnownRef DEF RefsInv
        <4> QED
          BY <1>5, <2>3, <4>1 DEF Complete
      <3>6. irw'.ref_building_ptr = bases'[r] + (off + 1)
        <4>1. bases[r] \in Nat
          BY <1>4, <1>5 DEF RefsInv, RefsPlaced, RefPlaced
        <4> QED
          BY <1>7, <1>8, <4>1
      <3> QED
        BY <3>2, <3>3, <3>4, <3>5, <3>6 DEF BuildingPlaced
    <2> QED
      BY <2>2, <2>3
  <1> QED
    BY <1>9, <1>10 DEF RefsInv

\* NewRef takes the words behind the last ref, which are zero.
LEMMA NewRefStep ==
    ASSUME Before, RefsInv, NEW o \in Ops, o.op = "NewRef", Replay(o)
    PROVE  RefsInv'
  <1> USE DEF claims, frames, suspension, creation, refs, assets
  <1>1. CircuitStep(o) /\ HostStep(o) /\ tx' = tx /\ tx \in Transactions /\ id_curr \in Procs
    BY PlainReplay, EntriesStay DEF Before, Inv, Typed
  <1>2. PICK n, m, z, len : /\ n = Len(ref_store) /\ m = o.size /\ z = [w \in 1 .. m |-> ZeroWord]
                            /\ len = irw.ref_arena_len
    OBVIOUS
  <1>3. /\ HostCall /\ n < MaxRefs /\ o.ret = n /\ ref_store' = Append(ref_store, z)
        /\ id_curr' = id_curr
        /\ ref_building' = IF m = 0 THEN ref_building
                           ELSE [ref_building EXCEPT ![id_curr] = [ref |-> n, offset |-> 0]]
    BY <1>1, <1>2 DEF HostStep, NewRef
  <1>4. MaxWords \in Nat /\ MaxWords' = MaxWords /\ MaxRefs \in Nat
    BY <1>1, ArenaRoom, InstanceAssumption DEF RefsInv, MaxWords
  <1>5. n \in Nat /\ m \in Nat /\ m <= MaxWords /\ len \in Nat /\ n \in Refs
    <2>1. n \in Nat /\ len \in Nat
      BY <1>2, LenProperties DEF RefsInv, RefsFit
    <2>2. m \in 0 .. MaxWords
      BY <1>2, OpArguments
    <2> QED
      BY <1>3, <1>4, <2>1, <2>2 DEF Refs
  <1>6. z \in Seq(Words) /\ Len(z) = m /\ \A k \in 1 .. m : z[k] = ZeroWord
    <2>1. \A k \in 1 .. m : ZeroWord \in Words
      BY InstanceAssumption
    <2> QED
      BY <1>2, <1>5, <2>1, IsASeq
  <1>7. /\ ref_store' \in Seq(Seq(Words)) /\ Len(ref_store') = n + 1
        /\ ref_store'[n + 1] = z /\ \A k \in 1 .. n : ref_store'[k] = ref_store[k]
    <2>1. ref_store \in Seq(Seq(Words))
      BY DEF RefsInv, RefsFit
    <2> QED
      BY <1>2, <1>3, <1>6, <2>1, AppendProperties
  <1>8. /\ sizes' = [sizes EXCEPT ![n] = m] /\ bases' = [bases EXCEPT ![n] = len]
        /\ arena' = arena
    BY <1>1, <1>2, <1>3 DEF CircuitStep, RefArenaOps
  <1>9. irw'.ref_arena_len = len + m /\ irw'.ref_building_ptr = len
    BY <1>1, <1>2, RoundStep DEF Before, CopiesTyped
  <1>10. DOMAIN sizes = Refs /\ DOMAIN bases = Refs /\ len <= n * MaxWords
    BY <1>2 DEF RefsInv, RefsFit
  <1>11. /\ sizes'[n] = m /\ bases'[n] = len
         /\ \A s \in Refs : s # n => sizes'[s] = sizes[s] /\ bases'[s] = bases[s]
    BY <1>5, <1>8, <1>10
  <1>12. RefsFit' /\ \A a \in Nat : a < len + m => a \in DOMAIN arena
    <2>1. PICK w \in Nat, t \in Nat : w = MaxWords /\ t = MaxRefs
      BY <1>4
    <2>2. (n + 1) * w = n * w + w /\ n * w + w <= t * w
      BY <1>3, <1>5, <2>1, OneMoreFits
    <2>3. PICK p \in Nat, q \in Nat, room \in Nat : p = n * w /\ q = (n + 1) * w /\ room = t * w
      BY <1>5
    <2>4. len + m <= q /\ len + m <= room
      BY <1>5, <1>10, <2>1, <2>2, <2>3
    <2>5. len + m \in Nat /\ len + m <= (n + 1) * MaxWords /\ n + 1 <= MaxRefs
      BY <1>3, <1>4, <1>5, <2>1, <2>3, <2>4
    <2>6. DOMAIN arena' = 0 .. (MaxRefs * MaxWords - 1) /\ DOMAIN arena = 0 .. (room - 1)
      BY <1>8, <2>1, <2>3 DEF RefsInv, RefsFit
    <2>7. ASSUME NEW a \in Nat, a < len + m PROVE a \in 0 .. (room - 1)
      BY <2>4, <2>5, <2>7
    <2> QED
      BY <1>4, <1>7, <1>8, <1>9, <1>10, <2>5, <2>6, <2>7 DEF RefsFit
  <1>13. \A s \in Refs : s \in Nat /\ (Known(s) => s # n /\ s < n) /\ (Known(s)' => s = n \/ Known(s))
    BY <1>2, <1>4, <1>5, <1>7 DEF Known, Refs
  <1>14. RefPlaced(n)'
    <2>1. ref_content(n)' = z
      BY <1>7 DEF ref_content
    <2>2. ASSUME NEW k \in 1 .. m
          PROVE  arena'[len + k - 1] = z[k]
      <3>1. PICK a : a = len + k - 1
        OBVIOUS
      <3>2. a \in Nat /\ a >= len /\ a < len + m
        BY <1>5, <3>1
      <3>3. a \in DOMAIN arena
        BY <1>12, <3>2
      <3>4. arena[a] = ZeroWord
        BY <1>2, <1>8, <3>2, <3>3 DEF RefsInv, RefsPlaced
      <3> QED
        BY <1>6, <1>8, <3>1, <3>4
    <2>3. len + m <= irw'.ref_arena_len
      BY <1>5, <1>9
    <2> QED
      BY <1>5, <1>6, <1>11, <2>1, <2>2, <2>3 DEF RefPlaced
  <1>15. ASSUME NEW s \in Refs, Known(s)
         PROVE  RefPlaced(s)' /\ bases[s] + sizes[s] <= len
    <2>1. RefPlaced(s) /\ s # n /\ s + 1 \in 1 .. n
      BY <1>2, <1>13, <1>15, KnownRef DEF RefsInv, RefsPlaced
    <2>2. ref_content(s)' = ref_content(s)
      BY <1>7, <2>1 DEF ref_content
    <2>3. bases[s] + sizes[s] <= len
      BY <1>2, <2>1 DEF RefPlaced
    <2>4. bases[s] + sizes[s] <= len + m
      <3>1. bases[s] \in Nat /\ sizes[s] \in Nat
        BY <1>15, <2>1, KnownRef DEF RefPlaced, RefsInv
      <3> QED
        BY <1>5, <2>3, <3>1
    <2> QED
      BY <1>8, <1>9, <1>11, <2>1, <2>2, <2>3, <2>4 DEF RefPlaced
  <1>16. RefsPlaced'
    <2>1. ASSUME NEW r \in Refs, NEW s \in Refs, r < s, Known(s)'
          PROVE  bases'[r] + sizes'[r] <= bases'[s]
      <3>1. CASE s = n
        <4>1. Known(r) /\ r # n
          BY <1>2, <1>5, <1>13, <2>1, <3>1 DEF Known
        <4> QED
          BY <1>11, <1>15, <3>1, <4>1
      <3>2. CASE s # n
        <4>1. Known(s) /\ s < n /\ r # n
          BY <1>5, <1>13, <2>1, <3>2
        <4> QED
          BY <1>11, <2>1, <3>2, <4>1 DEF RefsInv, RefsPlaced
      <3> QED
        BY <3>1, <3>2
    <2>2. ASSUME NEW a \in DOMAIN arena', a >= irw'.ref_arena_len
          PROVE  arena'[a] = ZeroWord
      <3>1. a \in DOMAIN arena /\ a \in Int /\ a >= len
        BY <1>5, <1>8, <1>9, <2>2 DEF RefsInv, RefsFit
      <3> QED
        BY <1>2, <1>8, <3>1 DEF RefsInv, RefsPlaced
    <2>3. \A s \in Refs : Known(s)' => RefPlaced(s)'
      BY <1>13, <1>14, <1>15
    <2> QED
      BY <2>1, <2>2, <2>3 DEF RefsPlaced
  <1>17. BuildingPlaced'
    <2>1. CASE m = 0
      BY <1>3, <2>1 DEF BuildingPlaced, HostCall
    <2>2. CASE m # 0
      <3>1. PICK b : b = [ref |-> n, offset |-> 0]
        OBVIOUS
      <3>2. b \in [ref : Refs, offset : Nat] /\ b.ref = n /\ b.offset = 0
        BY <1>5, <3>1
      <3>3. ref_building'[id_curr'] = b
        BY <1>1, <1>3, <2>2, <3>1 DEF Before, Inv, Typed
      <3>4. Known(n)' /\ 0 < Len(ref_content(n)')
        BY <1>5, <1>6, <1>7, <2>2 DEF Known, ref_content
      <3>5. irw'.ref_building_ptr = bases'[n] + 0
        BY <1>5, <1>9, <1>11
      <3> QED
        BY <3>2, <3>3, <3>4, <3>5 DEF BuildingPlaced
    <2> QED
      BY <2>1, <2>2
  <1> QED
    BY <1>12, <1>16, <1>17 DEF RefsInv

\* Whatever the step, the refs agree as before when neither side touches them
\* and control stays or goes to a process that fills no ref.
LEMMA RefsUntouched ==
    ASSUME Inv, RefsInv, tx' = tx, id_curr' \in Procs, UNCHANGED <<refs, sizes, bases, arena>>,
           irw'.ref_arena_len = irw.ref_arena_len, irw'.ref_building_ptr = irw.ref_building_ptr
    PROVE  RefsInv'
  <1>1. UNCHANGED <<ref_store, ref_building, MaxWords>>
    BY DEF refs, MaxWords
  <1>2. RefsFit'
    BY <1>1 DEF RefsInv, RefsFit
  <1>3. \A r : Known(r)' = Known(r) /\ ref_content(r)' = ref_content(r)
    BY <1>1 DEF Known, ref_content
  <1>4. RefsPlaced'
    BY <1>3 DEF RefsInv, RefsPlaced, RefPlaced
  <1>5. BuildingPlaced'
    <2>1. CASE id_curr' = id_curr
      BY <1>1, <1>3, <2>1 DEF RefsInv, BuildingPlaced
    <2>2. CASE id_curr' # id_curr
      <3>1. ref_building'[id_curr'] = None
        BY <1>1, <2>2 DEF Inv, OnlyCurrentIsActive
      <3> QED
        BY <3>1 DEF BuildingPlaced
    <2> QED
      BY <2>1, <2>2
  <1> QED
    BY <1>2, <1>4, <1>5 DEF RefsInv

\* Only three host calls touch the refs.
LEMMA RefsAlone ==
    ASSUME NEW o \in Ops, HostStep(o), o.op \notin {"NewRef", "RefPush", "RefWrite"}
    PROVE  UNCHANGED refs
  <1>1. CASE o.op \in {"Resume", "CallEffectHandler", "Yield", "Return", "Enter"}
    BY <1>1
    DEF HostStep, Resume, MayResume, MayTransfer, CallEffectHandler, MayCallHandler, Yield,
        MayYield, Return, MayReturn, Enter, MayEnter
  <1>2. CASE o.op \in NewProcess
    BY <1>2 DEF HostStep, NewProcess, NewUtxo, NewToken, NewCoord, Create, MayCreate
  <1>3. CASE o.op \in {"InstallHandler", "UninstallHandler", "Init", "Burn", "Bind", "Unbind"}
    BY <1>3
    DEF HostStep, InstallHandler, UninstallHandler, MayUninstall, InitCall, Burn, Bind,
        MayBind, Unbind, MayUnbind
  <1>4. CASE o.op \in {"Activation", "ProgramHash", "RefGet", "GetHandlerFor"}
    BY <1>4
    DEF HostStep, Activation, ProgramHash, RefGet, MayAccess, GetHandlerFor, vars
  <1> QED
    BY <1>1, <1>2, <1>3, <1>4, OpArguments

\* Every host call keeps the refs in agreement.
LEMMA RefsStep ==
    ASSUME Before, RefsInv, NEW o \in Ops, Replay(o)
    PROVE  RefsInv'
  <1>1. CASE o.op \in {"NewRef", "RefPush", "RefWrite"}
    BY <1>1, NewRefStep, RefPushStep, RefWriteStep
  <1>2. CASE o.op \notin {"NewRef", "RefPush", "RefWrite"}
    <2>1. PICK u : u = FromWit(o)
      OBVIOUS
    <2>2. u.op = o.op /\ CircuitStep(u) /\ HostStep(o) /\ Inv /\ CopiesTyped
      BY <2>1, FromWitKeeps DEF Replay, Before
    <2>3. UNCHANGED <<sizes, bases, arena>>
      BY <1>2, <2>2 DEF CircuitStep, RefArenaOps
    <2>4. /\ irw'.ref_arena_len = irw.ref_arena_len
          /\ irw'.ref_building_ptr = irw.ref_building_ptr
      BY <1>2, <2>2, RoundStep DEF CopiesTyped
    <2>5. tx' = tx /\ id_curr' \in Procs
      BY <2>2, EntriesStay
    <2>6. UNCHANGED refs
      BY <1>2, <2>2, RefsAlone
    <2> QED
      BY <2>2, <2>3, <2>4, <2>5, <2>6, RefsUntouched
  <1> QED
    BY <1>1, <1>2

-----------------------------------------------------------------------------
(* The theorem                                                             *)

\* The inductive invariant.
CopiesInv == Inv /\ CopiesTyped /\ ControlAgrees /\ HandlersLinked /\ RefsInv

\* One host call.
LEMMA ReplayInv ==
    ASSUME CopiesInv, NEW o \in Ops, Replay(o)
    PROVE  CopiesInv'
  <1>1. Before /\ HandlersLinked /\ RefsInv
    BY LinkedHeads DEF CopiesInv, Before
  <1>2. Inv'
    BY HostStepIsNext, NextInv DEF Replay, CopiesInv
  <1>3. HandlersLinked'
    BY <1>1, InstallLinks, UninstallLinks, OtherLinks
  <1> QED
    BY <1>1, <1>2, <1>3, ControlStep, RefsStep DEF CopiesInv

\* A step of padding.
LEMMA NopInv ==
    ASSUME CopiesInv, Nop
    PROVE  CopiesInv'
  <1>1. PICK o : o = [op |-> "Nop", target |-> Pid0]
    OBVIOUS
  <1>2. o.op = "Nop" /\ CircuitStep(o) /\ UNCHANGED <<vars, il>>
    BY <1>1 DEF Nop
  <1>3. UNCHANGED <<heads, nodes, sizes, bases, arena>>
    BY <1>2 DEF CircuitStep, HandlerStackOps, RefArenaOps
  <1>4. /\ DOMAIN irw' = RoundFields /\ irw'.id_curr = irw.id_curr
        /\ irw'.handler_stack_counter = irw.handler_stack_counter
        /\ irw'.ref_arena_len = irw.ref_arena_len
        /\ irw'.ref_building_ptr = irw.ref_building_ptr
    <2>1. JumpsTo(o) = None
      BY <1>2 DEF JumpsTo
    <2> QED
      BY <1>2, <2>1, RoundStep DEF CopiesInv, CopiesTyped
  <1>5. DOMAIN ps' = Procs /\ \A p \in Procs, f \in Fields : ps'[p][f] = ps[p][f]
    BY <1>2, MemoryDomain, PlainMemory DEF PlainOps, CopiesInv, CopiesTyped
  <1>6. UNCHANGED <<Procs, Utxos, Interfaces, tx>>
    BY <1>2, SameTransaction DEF vars, Interfaces
  <1>7. Inv'
    BY <1>2, NextInv DEF CopiesInv
  <1>8. CopiesTyped'
    BY <1>2, <1>4, <1>5, <1>6
    DEF CopiesInv, CopiesTyped, vars, claims, frames, suspension, creation, assets, Option
  <1>9. ASSUME NEW p \in Procs
        PROVE  ProcessAgrees(p)'
    BY <1>2, <1>5, <1>6
    DEF CopiesInv, ControlAgrees, ProcessAgrees, Fields, vars, claims, frames, suspension,
        creation, assets
  <1>10. ControlAgrees'
    BY <1>2, <1>4, <1>6, <1>9
    DEF CopiesInv, ControlAgrees, InterleaverAgrees, UncreatedAreFresh, vars, suspension, creation
  <1>11. HandlersLinked'
    <2>1. ASSUME NEW link, Linked(link) PROVE Linked(link)'
      BY <1>2, <1>3, <1>4, <1>6, <2>1 DEF Linked, NodeLinked, HeadLinked, vars
    <2> QED
      BY <1>3, <1>4, <1>6, <2>1 DEF CopiesInv, HandlersLinked
  <1>12. RefsInv'
    BY <1>2, <1>3, <1>4, <1>6, RefsUntouched DEF CopiesInv, CopiesTyped, vars
  <1> QED
    BY <1>7, <1>8, <1>10, <1>11, <1>12 DEF CopiesInv

\* The memory, wires and stacks that the prover starts with are those of a
\* transaction that has not run.
LEMMA CopiesInit == CircuitInit => CopiesInv
  <1> SUFFICES ASSUME CircuitInit
               PROVE  CopiesInv
    OBVIOUS
  <1>1. Init /\ Inv /\ tx \in Transactions
    BY InitInv DEF CircuitInit, Init
  <1>2. None \notin Procs /\ Entrypoint \in Procs /\ Utxos \subseteq Procs
    BY <1>1, ProcsAreSome
  <1>3. DOMAIN OwnershipIn = Utxos /\ MaxWords \in Nat /\ MaxRefs \in Nat
    BY <1>1, InstanceAssumption DEF WellShaped, OwnershipIn, Utxos, Inputs, NewOutputs, MaxWords
  <1>4. /\ DOMAIN irw = RoundFields /\ irw.id_curr = Entrypoint
        /\ irw.ref_arena_len = 0 /\ irw.handler_stack_counter = 0
    BY DEF CircuitInit, InterRoundInit, RoundFields
  <1>5. DOMAIN ps = Procs /\ \A p \in Procs : ps[p] = InitialState(p)
    BY DEF CircuitInit
  <1>6. CopiesTyped
    <2>1. yield_to \in [Procs -> Option(Procs)]
      BY <1>1 DEF Init, Option
    <2>2. handler_stack \in [Interfaces -> Seq(Procs)]
      BY <1>1, EmptySeq DEF Init
    <2> QED
      BY <1>1, <1>2, <1>3, <1>4, <1>5, <2>1, <2>2 DEF CopiesTyped, Init
  <1>7. ASSUME NEW p \in Procs
        PROVE  ProcessAgrees(p)
    <2>1. PICK s : s = InitialState(p) /\ s = ps[p]
      BY <1>5
    <2>2. /\ s.on_yield = TRUE /\ s.yield_to = None
          /\ s.initialized = (p \in Inputs \cup {Entrypoint})
          /\ s.finalized = FALSE /\ s.did_burn = FALSE
          /\ s.must_enter = None /\ s.must_exit = FALSE /\ s.expected_resumer = None
          /\ p \in Utxos => s.ownership = OwnershipIn[p]
      BY <2>1 DEF InitialState, dummy
    <2> QED
      BY <1>1, <2>1, <2>2 DEF ProcessAgrees, Init
  <1>8. ControlAgrees
    <2>1. UncreatedAreFresh
      BY <1>1 DEF UncreatedAreFresh, Init
    <2>2. InterleaverAgrees
      BY DEF InterleaverAgrees, CircuitInit, Init
    <2> QED
      BY <1>1, <1>4, <1>7, <2>1, <2>2 DEF ControlAgrees, Init
  <1>9. HandlersLinked
    <2>1. PICK link : link = [i \in Interfaces |-> [k \in Nat |-> 0]]
      OBVIOUS
    <2>2. link \in [Interfaces -> [Nat -> Nat]]
      BY <2>1
    <2>3. \A i \in Interfaces : handler_stack[i] = <<>> /\ Len(handler_stack[i]) = 0
      BY <1>1 DEF Init
    <2>4. Linked(link)
      BY <2>3 DEF Linked, HeadLinked
    <2>5. DOMAIN heads = Interfaces /\ DOMAIN nodes = 0 .. (MaxInstalls - 1)
      BY DEF CircuitInit, InitHandlerMemory
    <2>6. irw.handler_stack_counter \in Nat
      BY <1>4
    <2> QED
      BY <2>2, <2>4, <2>5, <2>6 DEF HandlersLinked
  <1>10. RefsInv
    <2>1. ref_store = <<>> /\ Len(ref_store) = 0 /\ ref_store \in Seq(Seq(Words))
      BY <1>1, EmptySeq DEF Init
    <2>2. 0 <= 0 * MaxWords /\ 0 <= MaxRefs
      BY <1>3
    <2>3. RefsFit
      BY <1>4, <2>1, <2>2 DEF RefsFit, CircuitInit, InitRefMemory
    <2>4. \A r \in Refs : ~Known(r)
      BY <1>3, <2>1 DEF Known, Refs
    <2>5. RefsPlaced
      BY <2>4 DEF RefsPlaced, CircuitInit, InitRefMemory
    <2>6. BuildingPlaced
      BY <1>1, <1>2 DEF BuildingPlaced, Init
    <2> QED
      BY <2>3, <2>5, <2>6 DEF RefsInv
  <1> QED
    BY <1>1, <1>6, <1>8, <1>9, <1>10 DEF CopiesInv

\* Host calls and padding keep the copies in agreement.
LEMMA CopiesNext == CopiesInv /\ [CircuitNext]_cvars => CopiesInv'
  <1> SUFFICES ASSUME CopiesInv, [CircuitNext]_cvars
               PROVE  CopiesInv'
    OBVIOUS
  <1>1. ASSUME NEW o \in Ops, Replay(o)
        PROVE  CopiesInv'
    BY <1>1, ReplayInv
  <1>2. CASE Nop
    BY <1>2, NopInv
  <1>3. CASE UNCHANGED cvars
    <2>1. UNCHANGED <<vars, il, irw, ps, heads, nodes, sizes, bases, arena>>
      BY <1>3 DEF cvars, circuit
    <2>2. UNCHANGED <<Procs, Utxos, Interfaces, MaxWords, tx>>
      BY <2>1, SameTransaction DEF vars, Interfaces, MaxWords
    <2>3. Inv'
      BY <2>1, NextInv DEF CopiesInv
    <2>4. CopiesTyped'
      BY <2>1, <2>2
      DEF CopiesInv, CopiesTyped, vars, claims, suspension, creation, assets, Option
    <2>5. ASSUME NEW p \in Procs
          PROVE  ProcessAgrees(p)'
      BY <2>1, <2>2
      DEF CopiesInv, ControlAgrees, ProcessAgrees, vars, claims, frames, suspension, creation,
          assets
    <2>6. ControlAgrees'
      BY <2>1, <2>2, <2>5
      DEF CopiesInv, ControlAgrees, InterleaverAgrees, UncreatedAreFresh, vars, suspension,
          creation
    <2>7. HandlersLinked'
      <3>1. ASSUME NEW link, Linked(link) PROVE Linked(link)'
        BY <2>1, <2>2, <3>1 DEF Linked, NodeLinked, HeadLinked, vars
      <3> QED
        BY <2>1, <2>2, <3>1 DEF CopiesInv, HandlersLinked
    <2>8. RefsInv'
      BY <2>1, <2>2, <2>4, RefsUntouched DEF CopiesInv, CopiesTyped, vars
    <2> QED
      BY <2>3, <2>4, <2>6, <2>7, <2>8 DEF CopiesInv
  <1> QED
    BY <1>1, <1>2, <1>3 DEF CircuitNext

\* CopiesAgree: the verifier, the interleaver that orders the host calls for
\* the prover and the step circuits each keep their own copy of the control
\* state, and after every host call that verifier and circuit both take, the
\* copies agree on who runs, on the frames, claims and owners of every process,
\* on the installed handlers and on the contents of every ref.
THEOREM CopiesAgreeCorrect == CircuitSpec => []CopiesAgree
  <1>1. CopiesInv => CopiesAgree
    <2> SUFFICES ASSUME CopiesInv
                 PROVE  CopiesAgree
      OBVIOUS
    <2>1. /\ id_curr = irw.id_curr /\ id_curr = il.id_curr
          /\ il.yield_to = yield_to /\ il.on_yield = on_yield /\ il.handler_stack = handler_stack
      BY DEF CopiesInv, ControlAgrees, InterleaverAgrees
    <2>2. \A p \in Procs : ProcessAgrees(p)
      BY DEF CopiesInv, ControlAgrees
    <2>3. \A i \in Interfaces : StackOf(i) = Reverse(handler_stack[i])
      BY StacksAgree DEF CopiesInv
    <2>4. \A r \in Refs : Known(r) => RefPlaced(r)
      BY DEF CopiesInv, RefsInv, RefsPlaced
    <2> QED
      BY <2>1, <2>2, <2>3, <2>4 DEF CopiesAgree, ProcessAgrees, RefPlaced
  <1> QED
    BY <1>1, CopiesInit, CopiesNext, PTL DEF CircuitSpec

-----------------------------------------------------------------------------
(* PART THREE.  Verifier and circuit take the same host calls              *)

(* The invariant: what the checks of verifier and circuit rest on          *)

\* Arguments of resumes and of creations.  Only the running process has one in
\* the circuit's memory, and the process that ran before it passed it.
ArgumentsAgree ==
    /\ DOMAIN init = Procs
    /\ \A p \in Procs :
        /\ activation[p] \in Option(Refs \X Procs)
        /\ p # id_curr => ps[p].activation = 0
        /\ init[p] \in Option(Refs \X Procs)
        /\ init[p] # None => ps[p].init = init[p][1] /\ ps[p].init_caller = init[p][2]
    /\ activation[id_curr] # None => irw.id_prev = activation[id_curr][2]

\* The words that are left to push to the ref that is being filled.
WordsLeft ==
    LET b == ref_building[id_curr]
    IN  IF b = None THEN 0 ELSE Len(ref_content(b.ref)) - b.offset

RefWiresAgree ==
    /\ irw.next_ref_id = Len(ref_store)
    /\ irw.ref_building_remaining = WordsLeft
    /\ \A r \in Refs : ~Known(r) => sizes[r] = 0

\* A process that has run was created and, but for the entrypoint, has a parent.
Started(p) == initialized[p] /\ (p = Entrypoint \/ yield_to[p] # None)

\* Handlers and parents have run; nobody runs, and no token has an owner, before
\* it is created.
StartedFirst ==
    /\ Started(id_curr)
    /\ \A i \in Interfaces : \A k \in 1 .. Len(handler_stack[i]) : Started(handler_stack[i][k])
    /\ \A p \in Procs : yield_to[p] # None => Started(yield_to[p])
    /\ \A p \in Procs : ~on_yield[p] => yield_to[p] # None
    /\ \A p \in Utxos : ownership[p] # None => initialized[p]

ChecksInv ==
    CopiesInv /\ verdict = "Running" /\ ArgumentsAgree /\ RefWiresAgree /\ StartedFirst

\* The arguments after Resume or CallEffectHandler: the target has the only one.
LEMMA ArgumentPassed ==
    ASSUME Before, NEW o \in Ops, o.op \in {"Resume", "CallEffectHandler"}, Replay(o)
    PROVE  /\ o.val \in Refs /\ id_curr' \in Procs /\ id_curr' # id_curr
           /\ activation' = [activation EXCEPT ![id_curr] = None, ![id_curr'] = <<o.val, id_curr>>]
           /\ UNCHANGED creation /\ irw'.id_prev = id_curr
           /\ \A p \in Procs :
                /\ ps'[p].activation = IF p = id_curr' THEN o.val ELSE IF p = id_curr THEN 0
                                       ELSE ps[p].activation
                /\ ps'[p].init = ps[p].init /\ ps'[p].init_caller = ps[p].init_caller
  <1>1. PICK u : u = FromWit(o)
    OBVIOUS
  <1>2. u.op = o.op /\ u.val = o.val /\ o.val \in Refs
    BY <1>1, FromWitKeeps DEF Ops
  <1>3. id_curr \in Procs /\ irw.id_curr = id_curr /\ DOMAIN ps = Procs /\ DOMAIN irw = RoundFields
    BY DEF Before, CopiesTyped, ControlAgrees
  <1>4. CircuitStep(u) /\ Satisfied(u) /\ HostStep(o)
    BY <1>1 DEF Replay
  <1>5. PICK q : /\ q \in Procs /\ q # id_curr /\ id_curr' = q
                 /\ activation' = [activation EXCEPT ![id_curr] = None, ![q] = <<o.val, id_curr>>]
                 /\ UNCHANGED creation
                 /\ \E resumer : \A p \in Procs :
                      Transferred(p, q, irw.id_curr, u.f, u.val, u.ret, resumer)
    <2>1. CASE o.op = "Resume"
      <3>1. u.target = o.target /\ o.target \in Procs
        BY <1>1, <2>1, FromWitKeeps, OpArguments
      <3>2. /\ o.target # id_curr /\ id_curr' = o.target
            /\ activation' = [activation EXCEPT ![id_curr] = None, ![o.target] = <<o.val, id_curr>>]
            /\ UNCHANGED creation
        BY <1>4, <2>1 DEF HostStep, Resume, MayResume, Transfer
      <3>3. ~is_utxo(irw.id_curr)
        BY <1>2, <1>4, <2>1 DEF Satisfied, visit_resume, NewProcess
      <3>4. \A p \in Procs : Transferred(p, o.target, irw.id_curr, u.f, u.val, u.ret, u.caller)
        BY <1>2, <1>3, <1>4, <2>1, <3>1, <3>2, <3>3, ResumeMemory
      <3> QED
        BY <3>1, <3>2, <3>4
    <2>2. CASE o.op = "CallEffectHandler"
      <3>1. PICK q : q = Last(handler_stack[o.interface])
        OBVIOUS
      <3>2. NodeProcess(u) = q /\ q \in Procs /\ q # id_curr
        BY <1>1, <1>3, <2>2, <3>1, SameHandler
      <3>3. /\ id_curr' = q
            /\ activation' = [activation EXCEPT ![id_curr] = None, ![q] = <<o.val, id_curr>>]
            /\ UNCHANGED creation
        BY <1>4, <2>2, <3>1 DEF HostStep, CallEffectHandler, Transfer
      <3>4. \A p \in Procs : Transferred(p, q, irw.id_curr, u.f, u.val, u.ret, q)
        BY <1>2, <1>3, <1>4, <2>2, <3>2, CallMemory
      <3> QED
        BY <3>2, <3>3, <3>4
    <2> QED
      BY <2>1, <2>2
  <1>6. irw'.id_prev = id_curr
    <2>1. irw'.id_curr = q
      BY <1>5, SamePlace
    <2> QED
      BY <1>3, <1>4, <1>5, <2>1, RoundStep
  <1>7. PICK resumer : \A p \in Procs : Transferred(p, q, id_curr, u.f, u.val, u.ret, resumer)
    BY <1>3, <1>5
  <1>8. ASSUME NEW p \in Procs
        PROVE  /\ ps'[p].activation = IF p = q THEN o.val ELSE IF p = id_curr THEN 0
                                      ELSE ps[p].activation
               /\ ps'[p].init = ps[p].init /\ ps'[p].init_caller = ps[p].init_caller
    BY <1>2, <1>7 DEF Transferred
  <1> QED
    BY <1>2, <1>5, <1>6, <1>8

\* What a created process finds as its argument, in verifier and circuit.
LEMMA ArgumentCreated ==
    ASSUME Before, NEW o \in Ops, o.op \in NewProcess, Replay(o)
    PROVE  /\ o.val \in Refs /\ o.target \in Procs
           /\ init' = [init EXCEPT ![o.target] = <<o.val, id_curr>>]
           /\ \A p \in Procs :
                /\ ps'[p].activation = ps[p].activation
                /\ ps'[p].init = IF p = o.target THEN o.val ELSE ps[p].init
                /\ ps'[p].init_caller = IF p = o.target THEN id_curr ELSE ps[p].init_caller
  <1>1. o.val \in Refs /\ o.target \in Procs
    BY DEF Ops, NewProcess
  <1>2. CircuitStep(o) /\ HostStep(o) /\ irw.id_curr = id_curr /\ DOMAIN ps = Procs
    BY PlainReplay DEF NewProcess
  <1>3. init' = [init EXCEPT ![o.target] = <<o.val, id_curr>>]
    BY <1>2 DEF HostStep, NewProcess, NewUtxo, NewToken, NewCoord, Create
  <1>4. PICK q, c, t, x, y : MemoryStep(o, q, c, t, x, y)
    BY <1>2, StepWrites
  <1>5. /\ MemSwitchesCurr(o.op) = {}
        /\ MemSwitchesTarget(o.op) =
             {"initialized", "init", "init_caller", "expected_input", "expected_resumer",
              "on_yield", "yield_to"}
    BY DEF MemSwitchesCurr, MemSwitchesTarget, NewProcess
  <1>6. q = o.target /\ y = CreateWrites(o, c, t).target /\ DOMAIN t = Fields
    BY <1>4 DEF MemoryStep, program_state_transitions, NewProcess, TracedTarget
  <1>7. y["init"] = o.val /\ y["init_caller"] = id_curr
    BY <1>2, <1>6 DEF CreateWrites, Fields
  <1>8. \A p \in Procs, f \in Fields :
          ps'[p][f] = IF p = o.target /\ f \in MemSwitchesTarget(o.op) THEN y[f] ELSE ps[p][f]
    BY <1>4, <1>5, <1>6 DEF MemoryStep, Written
  <1>9. ASSUME NEW p \in Procs
        PROVE  /\ ps'[p]["activation"] = ps[p]["activation"]
               /\ ps'[p]["init"] = IF p = o.target THEN o.val ELSE ps[p]["init"]
               /\ ps'[p]["init_caller"] = IF p = o.target THEN id_curr ELSE ps[p]["init_caller"]
    BY <1>5, <1>7, <1>8 DEF Fields
  <1> QED
    BY <1>1, <1>3, <1>9

\* Every other host call leaves the arguments in the circuit's memory alone,
\* but for the frame that Yield and Return give up.
LEMMA ArgumentsKept ==
    ASSUME Before, NEW o \in Ops, Replay(o),
           o.op \notin {"Resume", "CallEffectHandler"} \cup NewProcess
    PROVE  \A p \in Procs :
             /\ ps'[p].activation = IF o.op \in {"Yield", "Return"} /\ p = id_curr THEN 0
                                    ELSE ps[p].activation
             /\ ps'[p].init = ps[p].init /\ ps'[p].init_caller = ps[p].init_caller
  <1>1. CircuitStep(o) /\ irw.id_curr = id_curr /\ id_curr \in Procs /\ DOMAIN ps = Procs
    BY PlainReplay
  <1>2. CASE o.op \in {"Yield", "Return"}
    <2>1. \A p \in Procs : Suspended(p, id_curr, o.op = "Yield")
      BY <1>1, <1>2, SuspendMemory
    <2> QED
      BY <1>2, <2>1 DEF Suspended
  <1>3. CASE o.op \notin {"Yield", "Return"}
    <2>1. \A p \in Procs, f \in {"activation", "init", "init_caller"} : ps'[p][f] = ps[p][f]
      <3>1. CASE o.op = "Enter"
        <4>1. \A p \in Procs, f \in Fields :
                ps'[p][f] = IF p = id_curr /\ f = "must_enter" THEN None
                            ELSE IF p = id_curr /\ f = "must_exit" THEN TRUE
                            ELSE ps[p][f]
          BY <1>1, <3>1, EnterMemory
        <4> QED
          BY <4>1 DEF Fields
      <3>2. CASE o.op = "Burn"
        <4>1. \A p \in Procs, f \in Fields :
                ps'[p][f] = IF p = id_curr /\ f = "did_burn" THEN TRUE ELSE ps[p][f]
          BY <1>1, <3>2, BurnMemory
        <4> QED
          BY <4>1 DEF Fields
      <3>3. CASE o.op \in {"Bind", "Unbind"}
        BY <1>1, <3>3, OwnerMemory DEF Fields
      <3>4. CASE o.op \in PlainOps
        BY <1>1, <3>4, PlainMemory DEF Fields
      <3> QED
        BY <1>3, <3>1, <3>2, <3>3, <3>4, OpArguments DEF PlainOps
    <2> QED
      BY <1>3, <2>1
  <1> QED
    BY <1>2, <1>3

\* Every host call keeps the arguments in agreement.
LEMMA ArgumentsStep ==
    ASSUME Before, ArgumentsAgree, NEW o \in Ops, Replay(o)
    PROVE  ArgumentsAgree'
  <1> USE DEF claims, frames, suspension, creation, refs, assets
  <1>1. HostStep(o) /\ DOMAIN activation = Procs /\ DOMAIN init = Procs /\ id_curr \in Procs
    BY DEF Replay, Before, Inv, Typed, CopiesTyped, ArgumentsAgree
  <1>2. Procs' = Procs /\ Refs' = Refs /\ id_curr' \in Procs
    BY <1>1, EntriesStay, SameTransaction DEF Before, Refs
  <1>3. \A p \in Procs : activation[p] \in Option(Refs \X Procs) /\ init[p] \in Option(Refs \X Procs)
    BY DEF ArgumentsAgree
  <1>4. CASE o.op \in {"Resume", "CallEffectHandler"}
    <2>1. PICK q : /\ q = id_curr' /\ o.val \in Refs /\ q \in Procs /\ q # id_curr
                   /\ activation' = [activation EXCEPT ![id_curr] = None, ![q] = <<o.val, id_curr>>]
                   /\ init' = init /\ irw'.id_prev = id_curr
                   /\ \A p \in Procs :
                        /\ ps'[p].activation = IF p = q THEN o.val ELSE IF p = id_curr THEN 0
                                               ELSE ps[p].activation
                        /\ ps'[p].init = ps[p].init /\ ps'[p].init_caller = ps[p].init_caller
      BY <1>4, ArgumentPassed
    <2>2. \A p \in Procs : activation'[p] = IF p = q THEN <<o.val, id_curr>>
                                            ELSE IF p = id_curr THEN None ELSE activation[p]
      BY <1>1, <2>1
    <2>3. <<o.val, id_curr>> \in Refs \X Procs /\ <<o.val, id_curr>>[2] = id_curr
      BY <1>1, <2>1
    <2>4. \A p \in Procs : activation'[p] \in Option(Refs \X Procs)
      BY <1>3, <2>2, <2>3 DEF Option
    <2>5. activation'[id_curr'][2] = irw'.id_prev
      BY <2>1, <2>2, <2>3
    <2> QED
      BY <1>1, <1>2, <2>1, <2>4, <2>5 DEF ArgumentsAgree, Option
  <1>5. CASE o.op \in NewProcess
    <2>1. /\ o.val \in Refs /\ o.target \in Procs
          /\ init' = [init EXCEPT ![o.target] = <<o.val, id_curr>>]
          /\ \A p \in Procs :
               /\ ps'[p].activation = ps[p].activation
               /\ ps'[p].init = IF p = o.target THEN o.val ELSE ps[p].init
               /\ ps'[p].init_caller = IF p = o.target THEN id_curr ELSE ps[p].init_caller
      BY <1>5, ArgumentCreated
    <2>2. activation' = activation /\ id_curr' = id_curr
      BY <1>1, <1>5 DEF HostStep, NewProcess, NewUtxo, NewToken, NewCoord, Create
    <2>3. irw'.id_prev = irw.id_prev
      <3>1. CircuitStep(o) /\ DOMAIN irw = RoundFields /\ JumpsTo(o) = None
        BY <1>5, PlainReplay DEF JumpsTo, NewProcess, Before, CopiesTyped
      <3> QED
        BY <3>1, RoundStep
    <2>4. /\ <<o.val, id_curr>> \in Refs \X Procs
          /\ <<o.val, id_curr>>[1] = o.val /\ <<o.val, id_curr>>[2] = id_curr
      BY <1>1, <2>1
    <2>5. \A p \in Procs : init'[p] = IF p = o.target THEN <<o.val, id_curr>> ELSE init[p]
      BY <1>1, <2>1
    <2>6. DOMAIN init' = Procs
      BY <1>1, <2>1
    <2>7. ASSUME NEW p \in Procs
          PROVE  /\ init'[p] \in Option(Refs \X Procs)
                 /\ init'[p] # None =>
                      ps'[p].init = init'[p][1] /\ ps'[p].init_caller = init'[p][2]
      <3>1. CASE p = o.target
        BY <2>1, <2>4, <2>5, <3>1 DEF Option
      <3>2. CASE p # o.target
        BY <2>1, <2>5, <3>2, ZenonT(30) DEF ArgumentsAgree
      <3> QED
        BY <3>1, <3>2
    <2> QED
      BY <1>2, <2>1, <2>2, <2>3, <2>6, <2>7 DEF ArgumentsAgree, Option
  <1>6. CASE o.op \notin {"Resume", "CallEffectHandler"} \cup NewProcess
    <2>1. \A p \in Procs :
            /\ ps'[p].activation = IF o.op \in {"Yield", "Return"} /\ p = id_curr THEN 0
                                   ELSE ps[p].activation
            /\ ps'[p].init = ps[p].init /\ ps'[p].init_caller = ps[p].init_caller
      BY <1>6, ArgumentsKept
    <2>2. CASE o.op \in {"Yield", "Return"}
      <3>1. activation' = [activation EXCEPT ![id_curr] = None] /\ init' = init
        BY <1>1, <2>2 DEF HostStep, Yield, Return
      <3>2. \A p \in Procs : activation'[p] = IF p = id_curr THEN None ELSE activation[p]
        BY <1>1, <3>1
      <3>3. activation'[id_curr'] = None
        BY <1>2, <3>2 DEF Before, Inv, OnlyCurrentIsActive
      <3>4. \A p \in Procs : activation'[p] \in Option(Refs \X Procs)
        BY <1>3, <3>2 DEF Option
      <3>5. \A p \in Procs : ps'[p].activation = 0
        BY <2>1, <2>2 DEF ArgumentsAgree
      <3> QED
        BY <1>1, <1>2, <2>1, <3>1, <3>3, <3>4, <3>5 DEF ArgumentsAgree, Option
    <2>3. CASE o.op \notin {"Yield", "Return"}
      <3>1. activation' = activation /\ id_curr' = id_curr
        <4>1. CASE o.op \in {"Enter", "NewRef", "RefPush", "RefWrite", "InstallHandler",
                             "UninstallHandler"}
          BY <1>1, <4>1
          DEF HostStep, Enter, NewRef, RefPush, RefWrite, InstallHandler, UninstallHandler
        <4>2. CASE o.op \in {"Activation", "ProgramHash", "RefGet", "GetHandlerFor"}
          BY <1>1, <4>2 DEF HostStep, Activation, ProgramHash, RefGet, GetHandlerFor, vars
        <4>3. CASE o.op \in {"Init", "Burn", "Bind", "Unbind"}
          BY <1>1, <4>3 DEF HostStep, InitCall, Burn, Bind, Unbind
        <4> QED
          BY <1>6, <2>3, <4>1, <4>2, <4>3, OpArguments
      <3>2. init' = init \/ init' = [init EXCEPT ![id_curr] = None]
        <4>1. CASE o.op \in {"Enter", "NewRef", "RefPush", "RefWrite", "InstallHandler",
                             "UninstallHandler"}
          BY <1>1, <4>1
          DEF HostStep, Enter, NewRef, RefPush, RefWrite, InstallHandler, UninstallHandler
        <4>2. CASE o.op \in {"Activation", "ProgramHash", "RefGet", "GetHandlerFor"}
          BY <1>1, <4>2 DEF HostStep, Activation, ProgramHash, RefGet, GetHandlerFor, vars
        <4>3. CASE o.op \in {"Init", "Burn", "Bind", "Unbind"}
          BY <1>1, <4>3 DEF HostStep, InitCall, Burn, Bind, Unbind
        <4> QED
          BY <1>6, <2>3, <4>1, <4>2, <4>3, OpArguments
      <3>3. \A p \in Procs : init'[p] \in {init[p], None}
        BY <1>1, <3>2
      <3>4. DOMAIN init' = Procs
        BY <1>1, <3>2
      <3>5. irw'.id_prev = irw.id_prev
        <4>1. CircuitStep(o) /\ DOMAIN irw = RoundFields /\ JumpsTo(o) = None
          BY <1>6, <2>3, PlainReplay DEF JumpsTo, Before, CopiesTyped
        <4> QED
          BY <4>1, RoundStep
      <3>6. ASSUME NEW p \in Procs
            PROVE  /\ init'[p] \in Option(Refs \X Procs)
                   /\ init'[p] # None =>
                        ps'[p].init = init'[p][1] /\ ps'[p].init_caller = init'[p][2]
        BY <2>1, <3>3 DEF ArgumentsAgree, Option
      <3> QED
        BY <1>2, <2>1, <2>3, <3>1, <3>4, <3>5, <3>6 DEF ArgumentsAgree, Option
    <2> QED
      BY <2>2, <2>3
  <1> QED
    BY <1>4, <1>5, <1>6

\* The wires count the refs and the words that are left to push.
LEMMA RefWiresStep ==
    ASSUME Before, RefsInv, RefWiresAgree, NEW o \in Ops, Replay(o)
    PROVE  RefWiresAgree'
  <1> USE DEF claims, frames, suspension, creation, refs, assets
  <1>1. PICK u : u = FromWit(o)
    OBVIOUS
  <1>2. u.op = o.op /\ CircuitStep(u) /\ HostStep(o) /\ DOMAIN irw = RoundFields
    BY <1>1, FromWitKeeps DEF Replay, Before, CopiesTyped
  <1>3. /\ id_curr \in Procs /\ id_curr' \in Procs /\ DOMAIN ref_building = Procs
        /\ tx \in Transactions /\ tx' = tx
    BY <1>2, EntriesStay DEF Before, CopiesTyped, Inv, Typed
  <1>4. Len(ref_store) \in Nat /\ Refs \subseteq Nat /\ DOMAIN sizes = Refs
    BY InstanceAssumption, LenProperties DEF RefsInv, RefsFit, Refs
  <1>5. CASE o.op = "NewRef"
    <2>1. PICK n, m : n = Len(ref_store) /\ m = o.size /\ n \in Nat /\ m \in Nat
      BY <1>3, <1>4, <1>5, OpArguments
    <2>2. /\ HostCall /\ n < MaxRefs /\ o.ret = n /\ id_curr' = id_curr
          /\ ref_store' = Append(ref_store, [w \in 1 .. m |-> ZeroWord])
          /\ ref_building' = IF m = 0 THEN ref_building
                             ELSE [ref_building EXCEPT ![id_curr] = [ref |-> n, offset |-> 0]]
      BY <1>2, <1>5, <2>1 DEF HostStep, NewRef
    <2>3. n \in Refs
      BY <2>1, <2>2, InstanceAssumption DEF Refs
    <2>4. u = o
      BY <1>1, <1>5, FromWitKeeps
    <2>5. irw'.next_ref_id = n + 1 /\ irw'.ref_building_remaining = m
      BY <1>2, <1>5, <2>1, <2>4, RoundStep DEF RefWiresAgree
    <2>6. sizes' = [sizes EXCEPT ![n] = m]
      BY <1>2, <1>5, <2>1, <2>2, <2>4 DEF CircuitStep, RefArenaOps
    <2>7. Len(ref_store') = n + 1
      <3>1. [w \in 1 .. m |-> ZeroWord] \in Seq(Words)
        BY <2>1, InstanceAssumption, IsASeq
      <3> QED
        BY <2>1, <2>2, <3>1, AppendProperties DEF RefsInv, RefsFit
    <2>8. \A r \in Refs : ~Known(r)' => r # n /\ ~Known(r)
      BY <1>4, <2>1, <2>7 DEF Known
    <2>9. \A r \in Refs : ~Known(r)' => sizes'[r] = 0
      BY <1>4, <2>6, <2>8 DEF RefWiresAgree
    <2>10. WordsLeft' = m
      <3>1. CASE m = 0
        <4>1. ref_building'[id_curr'] = None
          BY <2>2, <3>1 DEF HostCall
        <4> QED
          BY <3>1, <4>1 DEF WordsLeft
      <3>2. CASE m # 0
        <4>1. ref_building'[id_curr'] = [ref |-> n, offset |-> 0]
          BY <1>3, <2>2, <3>2
        <4>2. [ref |-> n, offset |-> 0] \in [ref : Refs, offset : Nat]
          BY <2>3
        <4>3. ref_building'[id_curr'] # None
          BY <4>1, <4>2, InstanceAssumption
        <4>4. Known(n)' /\ n \in Refs /\ sizes'[n] = m
          BY <1>4, <2>1, <2>3, <2>6, <2>7 DEF Known
        <4>5. Len(ref_content(n)') = m
          BY <1>5, <4>4, RefsStep DEF RefsInv, RefsPlaced, RefPlaced
        <4> QED
          BY <2>1, <4>1, <4>3, <4>5 DEF WordsLeft, ref_content
      <3> QED
        BY <3>1, <3>2
    <2>11. Refs' = Refs
      BY DEF Refs
    <2> QED
      BY <2>5, <2>7, <2>9, <2>10, <2>11 DEF RefWiresAgree
  <1>6. CASE o.op = "RefPush"
    <2>1. PICK b : b = ref_building[id_curr]
      OBVIOUS
    <2>2. /\ b # None /\ id_curr' = id_curr
          /\ ref_store' = [ref_store EXCEPT ![b.ref + 1][b.offset + 1] = o.word]
          /\ ref_building' = [ref_building EXCEPT ![id_curr] =
                IF Complete(b.offset, b.ref) THEN None ELSE [b EXCEPT !.offset = @ + 1]]
      BY <1>2, <1>6, <2>1 DEF HostStep, RefPush, MayPush
    <2>3. /\ b \in [ref : Refs, offset : Nat] /\ Known(b.ref)
          /\ b.offset < Len(ref_content(b.ref))
      BY <2>1, <2>2 DEF RefsInv, BuildingPlaced
    <2>4. PICK n : n = Len(ref_content(b.ref)) /\ n \in Nat /\ sizes[b.ref] = n
      BY <2>3, KnownRef DEF RefsInv, RefsPlaced, RefPlaced
    <2>5. u = o /\ UNCHANGED sizes
      BY <1>1, <1>2, <1>6, FromWitKeeps DEF CircuitStep, RefArenaOps
    <2>6. irw.ref_building_remaining = n - b.offset
      BY <2>1, <2>2, <2>4 DEF RefWiresAgree, WordsLeft
    <2>7. /\ irw'.next_ref_id = irw.next_ref_id
          /\ irw'.ref_building_remaining = n - b.offset - 1
      BY <1>2, <1>6, <2>5, <2>6, RoundStep
    <2>8. Len(ref_store') = Len(ref_store) /\ DOMAIN ref_store' = DOMAIN ref_store
      <3>1. ref_store' = [ref_store EXCEPT ![b.ref + 1] = ref_store'[b.ref + 1]]
            /\ DOMAIN ref_store' = DOMAIN ref_store
        <4>1. b.ref + 1 \in DOMAIN ref_store
          BY <2>3, KnownRef, LenProperties DEF RefsInv, RefsFit
        <4> QED
          BY <2>2, <4>1
      <3>2. ref_store' \in Seq(Seq(Words)) /\ ref_store \in Seq(Seq(Words))
        BY <1>6, RefsStep DEF RefsInv, RefsFit
      <3> QED
        BY <3>1, <3>2, LenProperties
    <2>9. \A r \in Refs : Known(r)' = Known(r)
      BY <2>8 DEF Known
    <2>10. WordsLeft' = n - b.offset - 1
      <3>1. CASE Complete(b.offset, b.ref)
        <4>1. ref_building'[id_curr'] = None
          BY <1>3, <2>2, <3>1
        <4>2. b.offset + 1 = n
          BY <2>3, <2>4, <3>1 DEF Complete
        <4> QED
          BY <2>3, <2>4, <4>1, <4>2 DEF WordsLeft
      <3>2. CASE ~Complete(b.offset, b.ref)
        <4>1. ref_building'[id_curr'] = [b EXCEPT !.offset = @ + 1]
          BY <1>3, <2>2, <3>2
        <4>2. PICK c : c = [b EXCEPT !.offset = @ + 1]
          OBVIOUS
        <4>3. c \in [ref : Refs, offset : Nat] /\ c.ref = b.ref /\ c.offset = b.offset + 1
          BY <2>3, <4>2
        <4>4. ref_building'[id_curr'] = c /\ c # None
          BY <4>1, <4>2, <4>3, InstanceAssumption
        <4>5. Len(ref_content(b.ref)') = n
          BY <1>6, <2>3, <2>4, <2>5, <2>9, RefsStep DEF RefsInv, RefsPlaced, RefPlaced
        <4> QED
          BY <2>3, <2>4, <4>3, <4>4, <4>5 DEF WordsLeft, ref_content
      <3> QED
        BY <3>1, <3>2
    <2>11. Refs' = Refs
      BY DEF Refs
    <2> QED
      BY <2>5, <2>7, <2>8, <2>9, <2>10, <2>11 DEF RefWiresAgree
  <1>7. CASE o.op = "RefWrite"
    <2>1. /\ HostCall /\ Known(o.val) /\ o.val \in Refs
          /\ ref_store' = [ref_store EXCEPT ![o.val + 1][o.offset + 1] = o.word]
          /\ UNCHANGED <<id_curr, ref_building>>
      BY <1>2, <1>7, OpArguments DEF HostStep, RefWrite, MayAccess
    <2>2. UNCHANGED sizes
      BY <1>2, <1>7 DEF CircuitStep, RefArenaOps
    <2>3. /\ irw'.next_ref_id = irw.next_ref_id
          /\ irw'.ref_building_remaining = irw.ref_building_remaining
      BY <1>2, <1>7, RoundStep
    <2>4. Len(ref_store') = Len(ref_store)
      <3>1. o.val + 1 \in DOMAIN ref_store
        BY <2>1, KnownRef, LenProperties DEF RefsInv, RefsFit
      <3>2. DOMAIN ref_store' = DOMAIN ref_store
        BY <2>1, <3>1
      <3>3. ref_store' \in Seq(Seq(Words)) /\ ref_store \in Seq(Seq(Words))
        BY <1>7, RefsStep DEF RefsInv, RefsFit
      <3> QED
        BY <3>2, <3>3, LenProperties
    <2>5. WordsLeft = 0 /\ WordsLeft' = 0
      BY <2>1 DEF WordsLeft, HostCall
    <2>6. Refs' = Refs
      BY DEF Refs
    <2> QED
      BY <2>2, <2>3, <2>4, <2>5, <2>6 DEF RefWiresAgree, Known
  <1>8. CASE o.op \notin {"NewRef", "RefPush", "RefWrite"}
    <2>1. UNCHANGED <<ref_store, ref_building>>
      BY <1>2, <1>8, RefsAlone
    <2>2. UNCHANGED sizes
      BY <1>2, <1>8 DEF CircuitStep, RefArenaOps
    <2>3. /\ irw'.next_ref_id = irw.next_ref_id
          /\ irw'.ref_building_remaining = irw.ref_building_remaining
      BY <1>2, <1>8, RoundStep
    <2>4. WordsLeft' = WordsLeft
      <3>1. CASE id_curr' = id_curr
        BY <2>1, <3>1 DEF WordsLeft, ref_content
      <3>2. CASE id_curr' # id_curr
        <4>1. ref_building[id_curr'] = None
          BY <1>3, <3>2 DEF Before, Inv, OnlyCurrentIsActive
        <4>2. o.op \in {"Resume", "CallEffectHandler", "Yield", "Return"}
          BY <1>2, <3>2, StaysPut
        <4>3. HostCall
          BY <1>2, <4>2
          DEF HostStep, Resume, MayResume, CallEffectHandler, MayCallHandler, Yield, MayYield,
              Return, MayReturn
        <4> QED
          BY <2>1, <4>1, <4>3 DEF WordsLeft, HostCall
      <3> QED
        BY <3>1, <3>2
    <2>5. Refs' = Refs
      BY DEF Refs
    <2> QED
      BY <2>1, <2>2, <2>3, <2>4, <2>5 DEF RefWiresAgree, Known
  <1> QED
    BY <1>5, <1>6, <1>7, <1>8

\* A process stays created, and its parent changes only when a script wakes it
\* up or before it is created.
LEMMA ParentsStep ==
    ASSUME Before, NEW o \in Ops, Replay(o), NEW p \in Procs
    PROVE  /\ initialized[p] => initialized'[p]
           /\ \/ yield_to'[p] = yield_to[p] /\ (~on_yield'[p] => ~on_yield[p])
              \/ yield_to'[p] = id_curr
              \/ ~initialized[p] /\ yield_to'[p] = None /\ on_yield'[p]
           /\ o.op = "Resume" /\ on_yield[o.target] => yield_to'[o.target] = id_curr
  <1> USE DEF claims, frames, suspension, creation, refs, assets
  <1>1. HostStep(o) /\ DOMAIN initialized = Procs /\ DOMAIN yield_to = Procs /\ DOMAIN on_yield = Procs
    BY DEF Replay, Before, CopiesTyped, Inv, Typed
  <1>2. CASE o.op = "Resume"
    <2>1. PICK u : u = FromWit(o)
      OBVIOUS
    <2>2. u.op = "Resume" /\ Satisfied(u) /\ irw.id_curr = id_curr
      BY <1>2, <2>1, FromWitKeeps DEF Replay, Before, ControlAgrees
    <2>3. ~is_utxo(id_curr)
      BY <2>2 DEF Satisfied, visit_resume, NewProcess
    <2>4. o.target \in Procs
      BY <1>2, OpArguments
    <2>5. initialized' = initialized /\ Adopt(o.target)
      BY <1>1, <1>2 DEF HostStep, Resume
    <2>6. CASE on_yield[o.target]
      BY <1>1, <2>3, <2>4, <2>5, <2>6 DEF Adopt
    <2>7. CASE ~on_yield[o.target]
      BY <1>1, <2>5, <2>7 DEF Adopt
    <2> QED
      BY <2>6, <2>7
  <1>3. CASE o.op \in NewProcess
    <2>1. Create(o.target, o.val)
      BY <1>1, <1>3 DEF HostStep, NewProcess, NewUtxo, NewToken, NewCoord
    <2> QED
      BY <1>1, <1>3, <2>1 DEF Create, MayCreate, NewProcess
  <1>4. CASE o.op \in {"CallEffectHandler", "Yield", "Return"}
    BY <1>1, <1>4 DEF HostStep, CallEffectHandler, Yield, Return
  <1>5. CASE o.op \notin {"Resume", "CallEffectHandler", "Yield", "Return"} \cup NewProcess
    BY <1>1, <1>5, StaysPut
  <1> QED
    BY <1>2, <1>3, <1>4, <1>5

\* Whoever has run stays so.
LEMMA StartedStays ==
    ASSUME Before, NEW o \in Ops, Replay(o), NEW p \in Procs, Started(p)
    PROVE  Started(p)'
  <1>1. initialized[p] /\ (p = Entrypoint \/ yield_to[p] # None)
    BY DEF Started
  <1>2. id_curr # None /\ Entrypoint' = Entrypoint
    BY ProcsAreSome, EntriesStay, SameTransaction DEF Before, CopiesTyped, Inv, Typed, Replay
  <1>3. initialized'[p] /\ (yield_to'[p] = yield_to[p] \/ yield_to'[p] = id_curr)
    BY <1>1, ParentsStep
  <1> QED
    BY <1>1, <1>2, <1>3 DEF Started

\* Control only goes to processes that were created.
LEMMA StartedNext ==
    ASSUME Before, StartedFirst, NEW o \in Ops, Replay(o)
    PROVE  \E q \in Procs : id_curr' = q /\ Started(q)'
  <1> USE DEF claims, frames, suspension, creation, refs, assets
  <1>1. HostStep(o) /\ id_curr \in Procs /\ None \notin Procs /\ yield_to \in [Procs -> Option(Procs)]
    BY ProcsAreSome DEF Replay, Before, CopiesTyped, Inv, Typed
  <1>2. CASE o.op = "Resume"
    <2>1. id_curr' = o.target /\ o.target \in Procs /\ initialized[o.target]
      BY <1>1, <1>2, OpArguments DEF HostStep, Resume, MayResume, Transfer
    <2>2. initialized'[o.target] /\ yield_to'[o.target] # None
      <3>1. CASE on_yield[o.target]
        BY <1>1, <1>2, <2>1, <3>1, ParentsStep
      <3>2. CASE ~on_yield[o.target]
        BY <1>1, <2>1, <3>2, ParentsStep DEF StartedFirst
      <3> QED
        BY <3>1, <3>2
    <2> QED
      BY <2>1, <2>2 DEF Started
  <1>3. CASE o.op = "CallEffectHandler"
    <2>1. PICK i, s : i = o.interface /\ s = handler_stack[i]
      OBVIOUS
    <2>2. i \in Interfaces /\ s # <<>> /\ Last(s) \in Procs
      BY <1>3, <2>1, SameHandler
    <2>3. s \in Seq(Procs)
      BY <2>1, <2>2 DEF Before, CopiesTyped
    <2>4. Len(s) \in 1 .. Len(s)
      BY <2>2, <2>3, EmptySeq, LenProperties
    <2>5. Started(s[Len(s)])
      BY <2>1, <2>2, <2>4 DEF StartedFirst
    <2>6. Started(Last(s))
      BY <2>5 DEF Last
    <2>7. id_curr' = Last(s)
      BY <1>1, <1>3, <2>1 DEF HostStep, CallEffectHandler, Transfer
    <2> QED
      BY <2>2, <2>6, <2>7, StartedStays
  <1>4. CASE o.op \in {"Yield", "Return"}
    <2>1. id_curr' = IF yield_to[id_curr] = None THEN id_curr ELSE yield_to[id_curr]
      BY <1>1, <1>4 DEF HostStep, Yield, MayYield, Return, ReturnTo
    <2>2. PICK q : q = id_curr'
      OBVIOUS
    <2>3. q \in Procs
      BY <1>1, <2>1, <2>2 DEF Option
    <2>4. Started(q)
      BY <1>1, <2>1, <2>2 DEF StartedFirst
    <2> QED
      BY <2>2, <2>3, <2>4, StartedStays
  <1>5. CASE o.op \notin {"Resume", "CallEffectHandler", "Yield", "Return"}
    <2>1. id_curr' = id_curr /\ Started(id_curr)
      BY <1>1, <1>5, StaysPut DEF StartedFirst
    <2>2. PICK q : q = id_curr
      OBVIOUS
    <2> QED
      BY <1>1, <2>1, <2>2, StartedStays
  <1> QED
    BY <1>2, <1>3, <1>4, <1>5

\* Every host call keeps running processes, handlers, parents and owned tokens
\* among those that were created.
LEMMA StartedStep ==
    ASSUME Before, StartedFirst, NEW o \in Ops, Replay(o)
    PROVE  StartedFirst'
  <1> USE DEF claims, frames, suspension, creation, refs, assets
  <1>1. HostStep(o) /\ id_curr \in Procs /\ None \notin Procs /\ yield_to \in [Procs -> Option(Procs)]
    BY ProcsAreSome DEF Replay, Before, CopiesTyped, Inv, Typed
  <1>2. /\ UNCHANGED <<Procs, Utxos, Interfaces>> /\ Utxos \subseteq Procs
        /\ handler_stack \in [Interfaces -> Seq(Procs)] /\ DOMAIN ownership = Utxos
    BY <1>1, EntriesStay, SameTransaction DEF Before, CopiesTyped, Interfaces
  <1>3. Started(id_curr)'
    <2>1. PICK q \in Procs : id_curr' = q /\ Started(q)'
      BY StartedNext
    <2> QED
      BY <2>1 DEF Started
  <1>4. ASSUME NEW i \in Interfaces, NEW k \in 1 .. Len(handler_stack'[i])
        PROVE  Started(handler_stack[i][k])'
    <2>1. PICK s : s = handler_stack[i] /\ s \in Seq(Procs) /\ Len(s) \in Nat
      BY <1>2, LenProperties
    <2>2. \A j \in 1 .. Len(s) : s[j] \in Procs /\ Started(s[j])
      BY <2>1, ElementOfSeq DEF StartedFirst
    <2>3. \E q \in Procs : q = handler_stack'[i][k] /\ Started(q)
      <3>1. CASE o.op = "InstallHandler"
        <4>1. handler_stack' = [handler_stack EXCEPT ![o.interface] = Append(@, id_curr)]
          BY <1>1, <3>1 DEF HostStep, InstallHandler
        <4>2. handler_stack'[i] \in {s, Append(s, id_curr)}
          BY <1>2, <2>1, <4>1
        <4>3. Started(id_curr)
          BY DEF StartedFirst
        <4>4. Len(Append(s, id_curr)) = Len(s) + 1 /\ Append(s, id_curr)[Len(s) + 1] = id_curr
              /\ \A j \in 1 .. Len(s) : Append(s, id_curr)[j] = s[j]
          BY <1>1, <2>1, AppendProperties
        <4> QED
          BY <1>1, <1>4, <2>1, <2>2, <4>2, <4>3, <4>4, SMTT(30)
      <3>2. CASE o.op = "UninstallHandler"
        <4>1. /\ handler_stack' = [handler_stack EXCEPT ![o.interface] = Front(@)]
              /\ handler_stack[o.interface] # <<>>
          BY <1>1, <3>2 DEF HostStep, UninstallHandler, MayUninstall
        <4>2. CASE i = o.interface
          <5>1. handler_stack'[i] = Front(s) /\ s # <<>>
            BY <1>2, <2>1, <4>1, <4>2
          <5>2. Len(Front(s)) = Len(s) - 1 /\ \A j \in 1 .. (Len(s) - 1) : Front(s)[j] = s[j]
            BY <2>1, <5>1, FrontIsSeq
          <5> QED
            BY <1>4, <2>1, <2>2, <5>1, <5>2
        <4>3. CASE i # o.interface
          BY <1>2, <1>4, <2>1, <2>2, <4>1, <4>3
        <4> QED
          BY <4>2, <4>3
      <3>3. CASE o.op \notin {"InstallHandler", "UninstallHandler"}
        <4>1. handler_stack' = handler_stack
          <5>1. CASE o.op \in {"Resume", "CallEffectHandler", "Yield", "Return"}
            BY <1>1, <5>1 DEF HostStep, Resume, CallEffectHandler, Yield, Return
          <5> QED
            BY <1>1, <3>3, <5>1, StaysPut
        <4> QED
          BY <1>4, <2>1, <2>2, <4>1
      <3> QED
        BY <3>1, <3>2, <3>3
    <2>4. PICK q \in Procs : q = handler_stack'[i][k] /\ Started(q)
      BY <2>3
    <2>5. Started(q)'
      BY <2>4, StartedStays
    <2> QED
      BY <2>4, <2>5 DEF Started
  <1>5. ASSUME NEW p \in Procs, yield_to'[p] # None
        PROVE  Started(yield_to[p])'
    <2>1. yield_to'[p] = yield_to[p] \/ yield_to'[p] = id_curr
      BY <1>5, ParentsStep
    <2>2. PICK q : q = yield_to'[p] /\ q \in Procs /\ Started(q)
      BY <1>1, <1>5, <2>1 DEF StartedFirst, Option
    <2>3. Started(q)'
      BY <2>2, StartedStays
    <2> QED
      BY <2>2, <2>3 DEF Started
  <1>6. \A p \in Procs : ~on_yield'[p] => yield_to'[p] # None
    BY <1>1, ParentsStep DEF StartedFirst
  <1>7. \A p \in Utxos : ownership'[p] # None => initialized'[p]
    <2>1. \A p \in Utxos : ownership'[p] # None => initialized[p]
      <3>1. CASE o.op = "Bind"
        BY <1>1, <1>2, <3>1 DEF HostStep, Bind, MayBind, StartedFirst
      <3>2. CASE o.op = "Unbind"
        BY <1>1, <1>2, <3>2 DEF HostStep, Unbind, StartedFirst
      <3>3. CASE o.op \notin {"Bind", "Unbind"}
        <4>1. ownership' = ownership
          <5>1. CASE o.op \in {"Resume", "CallEffectHandler", "Yield", "Return", "Enter"} \cup NewProcess
            BY <1>1, <5>1
            DEF HostStep, Resume, CallEffectHandler, Yield, Return, Enter, NewProcess, NewUtxo,
                NewToken, NewCoord, Create
          <5>2. CASE o.op \in {"NewRef", "RefPush", "RefWrite", "InstallHandler",
                               "UninstallHandler", "Init", "Burn"}
            BY <1>1, <5>2
            DEF HostStep, NewRef, RefPush, RefWrite, InstallHandler, UninstallHandler, InitCall,
                Burn
          <5>3. CASE o.op \in {"Activation", "ProgramHash", "RefGet", "GetHandlerFor"}
            BY <1>1, <5>3 DEF HostStep, Activation, ProgramHash, RefGet, GetHandlerFor, vars
          <5> QED
            BY <3>3, <5>1, <5>2, <5>3, OpArguments
        <4> QED
          BY <4>1 DEF StartedFirst
      <3> QED
        BY <3>1, <3>2, <3>3
    <2> QED
      BY <1>2, <2>1, ParentsStep
  <1> QED
    BY <1>2, <1>3, <1>4, <1>5, <1>6, <1>7 DEF StartedFirst

\* Before the first host call nobody has an argument, a ref or an owner that the
\* transaction does not start with.
LEMMA ChecksInit == CircuitInit => ChecksInv
  <1> SUFFICES ASSUME CircuitInit
               PROVE  ChecksInv
    OBVIOUS
  <1>1. CopiesInv /\ Init /\ verdict = "Running" /\ tx \in Transactions
    BY CopiesInit DEF CircuitInit, Init
  <1>2. None \notin Procs /\ Entrypoint \in Procs /\ Utxos \subseteq Procs
    BY <1>1, ProcsAreSome
  <1>3. \A p \in Procs : ps[p].activation = 0
    <2>1. \A p \in Procs : ps[p] = InitialState(p)
      BY DEF CircuitInit
    <2> QED
      BY <2>1 DEF InitialState, dummy
  <1>4. ArgumentsAgree
    BY <1>1, <1>2, <1>3 DEF ArgumentsAgree, Init, Option
  <1>5. RefWiresAgree
    <2>1. irw.next_ref_id = 0 /\ irw.ref_building_remaining = 0
      BY DEF CircuitInit, InterRoundInit
    <2>2. Len(ref_store) = 0 /\ WordsLeft = 0
      BY <1>1, <1>2 DEF Init, WordsLeft
    <2>3. \A r \in Refs : sizes[r] = 0
      BY DEF CircuitInit, InitRefMemory
    <2> QED
      BY <2>1, <2>2, <2>3 DEF RefWiresAgree
  <1>6. StartedFirst
    <2>1. id_curr = Entrypoint /\ initialized[Entrypoint]
      BY <1>1, <1>2 DEF Init
    <2>2. \A i \in Interfaces : Len(handler_stack[i]) = 0
      BY <1>1 DEF Init
    <2>3. \A p \in Procs : yield_to[p] = None /\ on_yield[p]
      BY <1>1 DEF Init
    <2>4. \A p \in Utxos : ownership[p] # None => p \in Inputs
      BY <1>1, InstanceAssumption
      DEF Init, WellShaped, OwnershipIn, Utxos, Inputs, NewOutputs
    <2>5. \A p \in Utxos : ownership[p] # None => initialized[p]
      BY <1>1, <1>2, <2>4 DEF Init
    <2> QED
      BY <2>1, <2>2, <2>3, <2>5 DEF StartedFirst, Started
  <1> QED
    BY <1>1, <1>4, <1>5, <1>6 DEF ChecksInv

\* Padding and stuttering keep it.
LEMMA ChecksKept ==
    ASSUME ChecksInv, Nop \/ UNCHANGED cvars
    PROVE  ChecksInv'
  <1>1. CopiesInv'
    BY CopiesNext DEF ChecksInv, CircuitNext
  <1>2. UNCHANGED vars
    BY DEF Nop, cvars
  <1>3. /\ UNCHANGED <<verdict, id_curr, activation, init, on_yield, yield_to, initialized,
                       ref_store, ref_building, ownership, handler_stack, tx>>
    BY <1>2 DEF vars, frames, suspension, creation, refs, assets
  <1>4. /\ UNCHANGED <<sizes>>
        /\ \A p \in Procs, f \in {"activation", "init", "init_caller"} : ps'[p][f] = ps[p][f]
        /\ \A f \in {"id_prev", "next_ref_id", "ref_building_remaining"} : irw'[f] = irw[f]
    <2>1. CASE Nop
      <3>1. PICK o : o = [op |-> "Nop", target |-> Pid0]
        OBVIOUS
      <3>2. o.op = "Nop" /\ CircuitStep(o) /\ CopiesTyped
        BY <2>1, <3>1 DEF Nop, ChecksInv, CopiesInv
      <3>3. UNCHANGED sizes
        BY <3>2 DEF CircuitStep, RefArenaOps
      <3>4. JumpsTo(o) = None
        BY <3>2 DEF JumpsTo
      <3>5. /\ irw'.id_prev = irw.id_prev /\ irw'.next_ref_id = irw.next_ref_id
            /\ irw'.ref_building_remaining = irw.ref_building_remaining
        BY <3>2, <3>4, RoundStep DEF CopiesTyped
      <3>6. \A p \in Procs, f \in Fields : ps'[p][f] = ps[p][f]
        BY <3>2, PlainMemory DEF PlainOps, CopiesTyped
      <3> QED
        BY <3>3, <3>5, <3>6 DEF Fields
    <2>2. CASE UNCHANGED cvars
      BY <2>2 DEF cvars, circuit
    <2> QED
      BY <2>1, <2>2
  <1>5. UNCHANGED <<Procs, Utxos, Interfaces, Entrypoint, Refs>>
    BY <1>3, SameTransaction DEF Interfaces, Refs
  <1>6. ArgumentsAgree'
    BY <1>3, <1>4, <1>5 DEF ChecksInv, ArgumentsAgree, Option
  <1>7. RefWiresAgree'
    BY <1>3, <1>4, <1>5 DEF ChecksInv, RefWiresAgree, WordsLeft, Known, ref_content
  <1>8. StartedFirst'
    BY <1>3, <1>5 DEF ChecksInv, StartedFirst, Started
  <1> QED
    BY <1>1, <1>3, <1>6, <1>7, <1>8 DEF ChecksInv

\* Every step keeps it.
LEMMA ChecksNext == ChecksInv /\ [CircuitNext]_cvars => ChecksInv'
  <1> SUFFICES ASSUME ChecksInv, [CircuitNext]_cvars
               PROVE  ChecksInv'
    OBVIOUS
  <1>1. ASSUME NEW o \in Ops, Replay(o)
        PROVE  ChecksInv'
    <2>1. Before /\ RefsInv
      BY LinkedHeads DEF ChecksInv, CopiesInv, Before
    <2>2. verdict' = "Running"
      BY <1>1 DEF Replay, HostStep
    <2>3. CopiesInv'
      BY <1>1, ReplayInv DEF ChecksInv
    <2> QED
      BY <1>1, <2>1, <2>2, <2>3, ArgumentsStep, RefWiresStep, StartedStep DEF ChecksInv
  <1> QED
    BY <1>1, ChecksKept DEF CircuitNext

-----------------------------------------------------------------------------
(* What the circuit checks, in terms of the verifier's state               *)

\* The wires w of operation o: the reads c and t, the target q and the values
\* that the prover computes from them.
WiresAre(o, w, c, t, q) ==
    /\ w = Wires(o)
    /\ w.curr = c /\ w.target = t /\ w.target_id = q
    /\ w.address = TargetAddress(o, c) /\ w.node = NodeProcess(o)
    /\ w.curr_write = program_state_transitions(o, c, t, NodeProcess(o)).curr
    /\ w.target_write = program_state_transitions(o, c, t, NodeProcess(o)).target
    /\ q = TracedTarget(o, c)
    /\ DOMAIN c = Fields /\ DOMAIN t = Fields
    /\ \A f \in Fields :
         /\ c[f] = IF f \in MemSwitchesCurr(o.op) THEN ps[irw.id_curr][f] ELSE dummy[f]
         /\ t[f] = IF f \in MemSwitchesTarget(o.op) THEN ps[q][f] ELSE dummy[f]

\* Every operation has its wires.
LEMMA StepWires ==
    ASSUME NEW o
    PROVE  \E w, c, t, q : WiresAre(o, w, c, t, q)
  <1>1. PICK w : w = Wires(o)
    OBVIOUS
  <1>2. PICK c : c = Read(irw.id_curr, MemSwitchesCurr(o.op))
    OBVIOUS
  <1>3. PICK q : q = TracedTarget(o, c)
    OBVIOUS
  <1>4. PICK t : t = Read(q, MemSwitchesTarget(o.op))
    OBVIOUS
  <1>5. /\ w.curr = c /\ w.target = t /\ w.target_id = q
        /\ w.address = TargetAddress(o, c) /\ w.node = NodeProcess(o)
        /\ w.curr_write = program_state_transitions(o, c, t, NodeProcess(o)).curr
        /\ w.target_write = program_state_transitions(o, c, t, NodeProcess(o)).target
    BY <1>1, <1>2, <1>3, <1>4 DEF Wires
  <1>6. WiresAre(o, w, c, t, q)
    BY <1>1, <1>2, <1>3, <1>4, <1>5, ReadFields DEF WiresAre
  <1> QED
    BY <1>6

\* What verifier and circuit agree on when a host call is checked.
LEMMA ChecksContext ==
    ASSUME ChecksInv
    PROVE  /\ verdict = "Running" /\ irw.id_curr = id_curr /\ id_curr \in Procs
           /\ None \notin Procs /\ Pid0 \in Procs /\ Utxos \subseteq Procs
           /\ DOMAIN ps = Procs /\ yield_to \in [Procs -> Option(Procs)]
           /\ \A p \in Procs : ProcessAgrees(p)
           /\ HeadsAgree /\ OnlyCurrentIsActive
           /\ tx \in Transactions /\ WellShaped(tx)
  BY LinkedHeads, ProcsAreSome, InstanceAssumption
  DEF ChecksInv, CopiesInv, CopiesTyped, ControlAgrees, Inv, Typed

\* Words are left exactly while the running process fills a ref.
LEMMA BuildingWire ==
    ASSUME ChecksInv
    PROVE  irw.ref_building_remaining # 0 <=> ref_building[id_curr] # None
  <1>1. irw.ref_building_remaining = WordsLeft
    BY DEF ChecksInv, RefWiresAgree
  <1>2. PICK b : b = ref_building[id_curr]
    OBVIOUS
  <1>3. CASE b = None
    BY <1>1, <1>2, <1>3 DEF WordsLeft
  <1>4. CASE b # None
    <2>1. /\ b \in [ref : Refs, offset : Nat] /\ Known(b.ref)
          /\ b.offset < Len(ref_content(b.ref)) /\ RefsFit
      BY <1>2, <1>4 DEF ChecksInv, CopiesInv, RefsInv, BuildingPlaced
    <2>2. PICK n \in Nat : n = Len(ref_content(b.ref))
      BY <2>1, KnownRef
    <2>3. b.offset \in Nat /\ b.offset < n
      BY <2>1, <2>2
    <2>4. n - b.offset # 0
      BY <2>2, <2>3
    <2> QED
      BY <1>1, <1>2, <1>4, <2>2, <2>4 DEF WordsLeft
  <1> QED
    BY <1>2, <1>3, <1>4

\* The checks that all host calls share: an Enter is not asked for before other
\* calls, and RefPush is the only call while a ref is filled.
LEMMA SharedChecks ==
    ASSUME ChecksInv, NEW o \in Ops, NEW u, u.op = o.op, NEW w, NEW c, NEW t, NEW q,
           WiresAre(u, w, c, t, q)
    PROVE  /\ o.op # "Enter" => visit_pending_enter(u, w)
           /\ ref_building_mode(u) <=> (ref_building[id_curr] # None <=> o.op = "RefPush")
  <1>1. ref_building_mode(u) <=> (ref_building[id_curr] # None <=> o.op = "RefPush")
    BY BuildingWire DEF ref_building_mode
  <1>2. ASSUME o.op # "Enter"
        PROVE  visit_pending_enter(u, w)
    <2>1. "must_enter" \notin MemSwitchesCurr(u.op)
      BY <1>2 DEF MemSwitchesCurr
    <2>2. c["must_enter"] = None
      BY <2>1 DEF WiresAre, Fields, dummy
    <2> QED
      BY <1>2, <2>2 DEF visit_pending_enter, WiresAre
  <1> QED
    BY <1>1, <1>2

\* Resume: the target is not running, so its activation is free.
LEMMA ResumeChecks ==
    ASSUME ChecksInv, NEW o \in Ops, o.op = "Resume"
    PROVE  /\ Wires(FromWit(o)).target_id = o.target
           /\ Satisfied(FromWit(o)) <=>
                /\ ref_building[id_curr] = None
                /\ o.target # id_curr /\ ~is_utxo(id_curr) /\ initialized[o.target]
                /\ ps[o.target].expected_input \in {None, o.val}
                /\ ResumerMatches(o.target)
  <1>1. PICK u : u = FromWit(o)
    OBVIOUS
  <1>2. u.op = "Resume" /\ u.target = o.target /\ u.val = o.val /\ u.caller = o.caller
    BY <1>1, FromWitKeeps
  <1>3. PICK w, c, t, q : WiresAre(u, w, c, t, q)
    BY StepWires
  <1>4. o.target \in Procs
    BY OpArguments
  <1>5. q = o.target /\ w.address = o.target /\ w.target_id = q
    BY <1>2, <1>3 DEF WiresAre, TracedTarget, TargetAddress, NewProcess
  <1>6. MemSwitchesTarget(u.op) =
          {"activation", "expected_input", "expected_resumer", "on_yield", "yield_to",
           "finalized", "initialized", "must_enter", "must_exit"}
    BY <1>2 DEF MemSwitchesTarget, NewProcess
  <1>7. /\ t["initialized"] = initialized[o.target]
        /\ t["activation"] = ps[o.target]["activation"]
        /\ t["expected_input"] = ps[o.target]["expected_input"]
        /\ t["expected_resumer"] = expected_resumer[o.target]
    <2>1. ProcessAgrees(o.target)
      BY <1>4, ChecksContext
    <2>2. \A f \in {"initialized", "activation", "expected_input", "expected_resumer"} :
            t[f] = ps[o.target][f]
      BY <1>3, <1>5, <1>6 DEF WiresAre, Fields
    <2> QED
      BY <2>1, <2>2 DEF ProcessAgrees
  <1>8. /\ w.curr_write = ResumeWrites(u, c, t).curr /\ w.target_write = ResumeWrites(u, c, t).target
        /\ DOMAIN c = Fields /\ DOMAIN t = Fields /\ w.target = t /\ w = Wires(u)
    BY <1>2, <1>3 DEF WiresAre, program_state_transitions, NewProcess
  <1>9. PICK x, y : x = w.curr_write /\ y = w.target_write
    OBVIOUS
  <1>10. /\ x["expected_resumer"] = o.caller /\ x["must_exit"] = FALSE
         /\ y["expected_input"] = None /\ y["expected_resumer"] = None /\ y["on_yield"] = FALSE
         /\ ~is_utxo(irw.id_curr) =>
              y["yield_to"] = IF t["on_yield"] THEN irw.id_curr ELSE t["yield_to"]
    <2>1. /\ x["expected_resumer"] = u.caller /\ x["must_exit"] = FALSE
          /\ y["expected_input"] = None /\ y["expected_resumer"] = None /\ y["on_yield"] = FALSE
      BY <1>8, <1>9 DEF ResumeWrites, Fields
    <2>2. y["yield_to"] = IF t["on_yield"] /\ ~is_utxo(irw.id_curr)
                          THEN irw.id_curr ELSE t["yield_to"]
      BY <1>8, <1>9 DEF ResumeWrites, Fields
    <2> QED
      BY <1>2, <2>1, <2>2
  <1>11. Satisfied(u) <=>
           /\ TracedInLockstep(u, w) /\ visit_pending_enter(u, w) /\ ref_building_mode(u)
           /\ visit_resume(u, w)
    BY <1>2, <1>8 DEF Satisfied, NewProcess
  <1>12. TracedInLockstep(u, w) /\ visit_pending_enter(u, w)
         /\ (ref_building_mode(u) <=> ref_building[id_curr] = None)
    BY <1>2, <1>3, <1>5, SharedChecks DEF TracedInLockstep
  <1>13. irw.id_curr = id_curr
    BY ChecksContext
  <1>14. o.target # id_curr => ps[o.target]["activation"] = 0
    BY <1>4 DEF ChecksInv, ArgumentsAgree
  <1>15. visit_resume(u, w) <=>
           /\ o.target # id_curr /\ ~is_utxo(id_curr) /\ initialized[o.target]
           /\ ps[o.target].expected_input \in {None, o.val}
           /\ ResumerMatches(o.target)
    BY <1>2, <1>7, <1>8, <1>9, <1>10, <1>13, <1>14
    DEF visit_resume, conditional_enforce_eq_if_some, ResumerMatches
  <1> QED
    BY <1>1, <1>5, <1>8, <1>11, <1>12, <1>15

\* CallEffectHandler: the node at the head is the handler.
LEMMA CallChecks ==
    ASSUME ChecksInv, NEW o \in Ops, o.op = "CallEffectHandler",
           handler_stack[o.interface] # <<>>
    PROVE  LET p == Last(handler_stack[o.interface]) IN
           /\ p \in Procs /\ Wires(FromWit(o)).target_id = p
           /\ Satisfied(FromWit(o)) <=>
                /\ ref_building[id_curr] = None
                /\ p # id_curr
                /\ ps[p].expected_input \in {None, o.val}
                /\ ResumerMatches(p)
  <1>1. PICK u : u = FromWit(o)
    OBVIOUS
  <1>2. u.op = "CallEffectHandler" /\ u.interface = o.interface /\ u.val = o.val
    BY <1>1, FromWitKeeps
  <1>3. PICK w, c, t, q : WiresAre(u, w, c, t, q)
    BY StepWires
  <1>4. PICK p : p = Last(handler_stack[o.interface])
    OBVIOUS
  <1>5. o.interface \in Interfaces
    BY OpArguments DEF HandlerOps
  <1>6. p \in Procs
    BY <1>4, <1>5, FrontIsSeq DEF ChecksInv, CopiesInv, CopiesTyped, Last
  <1>7. NodeProcess(u) = p
    BY <1>2, <1>4, <1>5, ChecksContext DEF NodeProcess, HeadsAgree
  <1>8. q = p /\ w.address = p /\ w.node = p /\ w.target_id = q
    BY <1>2, <1>3, <1>7 DEF WiresAre, TracedTarget, TargetAddress, NewProcess
  <1>9. MemSwitchesTarget(u.op) =
          {"activation", "expected_input", "expected_resumer", "finalized", "must_enter",
           "must_exit"}
    BY <1>2 DEF MemSwitchesTarget, NewProcess
  <1>10. /\ t["activation"] = ps[p]["activation"]
         /\ t["expected_input"] = ps[p]["expected_input"]
         /\ t["expected_resumer"] = expected_resumer[p]
    <2>1. ProcessAgrees(p)
      BY <1>6, ChecksContext
    <2>2. \A f \in {"activation", "expected_input", "expected_resumer"} : t[f] = ps[p][f]
      BY <1>3, <1>8, <1>9 DEF WiresAre, Fields
    <2> QED
      BY <2>1, <2>2 DEF ProcessAgrees
  <1>11. /\ w.curr_write = CallWrites(u, c, t, p).curr /\ w.target_write = CallWrites(u, c, t, p).target
         /\ DOMAIN c = Fields /\ DOMAIN t = Fields /\ w.target = t /\ w = Wires(u)
    BY <1>2, <1>3, <1>7 DEF WiresAre, program_state_transitions, NewProcess
  <1>12. PICK x, y : x = w.curr_write /\ y = w.target_write
    OBVIOUS
  <1>13. /\ x["expected_resumer"] = p /\ x["must_exit"] = FALSE
         /\ y["expected_input"] = None /\ y["expected_resumer"] = None
    BY <1>11, <1>12 DEF CallWrites, Fields
  <1>14. Satisfied(u) <=>
           /\ TracedInLockstep(u, w) /\ visit_pending_enter(u, w) /\ ref_building_mode(u)
           /\ visit_call_effect_handler(u, w)
    BY <1>2, <1>11 DEF Satisfied, NewProcess
  <1>15. TracedInLockstep(u, w) /\ visit_pending_enter(u, w)
         /\ (ref_building_mode(u) <=> ref_building[id_curr] = None)
    BY <1>2, <1>3, <1>8, SharedChecks DEF TracedInLockstep
  <1>16. irw.id_curr = id_curr
    BY ChecksContext
  <1>17. p # id_curr => ps[p]["activation"] = 0
    BY <1>6 DEF ChecksInv, ArgumentsAgree
  <1>18. visit_call_effect_handler(u, w) <=>
           /\ p # id_curr
           /\ ps[p].expected_input \in {None, o.val}
           /\ ResumerMatches(p)
    BY <1>2, <1>8, <1>10, <1>11, <1>12, <1>13, <1>16, <1>17
    DEF visit_call_effect_handler, conditional_enforce_eq_if_some, ResumerMatches
  <1> QED
    BY <1>1, <1>4, <1>6, <1>8, <1>11, <1>14, <1>15, <1>18

\* Yield: the target is the parent, whose claims are checked and kept.
LEMMA YieldChecks ==
    ASSUME ChecksInv, NEW o \in Ops, o.op = "Yield"
    PROVE  LET parent == yield_to[id_curr] IN
           /\ parent # None => parent \in Procs /\ Wires(FromWit(o)).target_id = parent
           /\ Satisfied(FromWit(o)) <=>
                /\ ref_building[id_curr] = None
                /\ is_utxo(id_curr) /\ parent # None
                /\ ps[parent].expected_input \in {None, o.val}
                /\ ResumerMatches(parent)
  <1>1. FromWit(o) = o
    BY FromWitKeeps
  <1>2. PICK w, c, t, q : WiresAre(o, w, c, t, q)
    BY StepWires
  <1>3. PICK parent : parent = yield_to[id_curr]
    OBVIOUS
  <1>4. /\ irw.id_curr = id_curr /\ id_curr \in Procs /\ parent \in Option(Procs)
        /\ ProcessAgrees(id_curr)
    BY <1>3, ChecksContext
  <1>5. /\ MemSwitchesCurr(o.op) = {"activation", "on_yield", "yield_to", "finalized", "must_exit"}
        /\ MemSwitchesTarget(o.op) = {"expected_input", "expected_resumer", "must_enter"}
    BY DEF MemSwitchesCurr, MemSwitchesTarget, NewProcess
  <1>6. c["yield_to"] = parent
    <2>1. c["yield_to"] = ps[id_curr]["yield_to"]
      BY <1>2, <1>4, <1>5 DEF WiresAre, Fields
    <2> QED
      BY <1>3, <1>4, <2>1 DEF ProcessAgrees
  <1>7. /\ q = decode_or_zero(parent) /\ w.address = q /\ w.target_id = q
        /\ w.curr = c /\ w.target = t /\ w = Wires(o) /\ DOMAIN c = Fields
    BY <1>2, <1>6 DEF WiresAre, TracedTarget, TargetAddress, NewProcess
  <1>8. /\ w.target_write = t
        /\ w.curr_write = [c EXCEPT !.activation = 0, !.finalized = TRUE, !.on_yield = TRUE,
                                    !.must_exit = FALSE]
    BY <1>2 DEF WiresAre, program_state_transitions, NewProcess
  <1>9. PICK x : x = w.curr_write
    OBVIOUS
  <1>10. /\ x["finalized"] = TRUE /\ x["on_yield"] = TRUE /\ x["must_exit"] = FALSE
         /\ x["yield_to"] = c["yield_to"]
    BY <1>7, <1>8, <1>9 DEF Fields
  <1>11. parent # None =>
           /\ q = parent /\ parent \in Procs
           /\ t["expected_input"] = ps[parent]["expected_input"]
           /\ t["expected_resumer"] = expected_resumer[parent]
    <2> SUFFICES ASSUME parent # None
                 PROVE  /\ q = parent /\ parent \in Procs
                        /\ t["expected_input"] = ps[parent]["expected_input"]
                        /\ t["expected_resumer"] = expected_resumer[parent]
      OBVIOUS
    <2>1. q = parent /\ parent \in Procs
      BY <1>4, <1>7 DEF decode_or_zero, Option
    <2>2. t["expected_input"] = ps[q]["expected_input"] /\ t["expected_resumer"] = ps[q]["expected_resumer"]
      BY <1>2, <1>5 DEF WiresAre, Fields
    <2>3. ProcessAgrees(parent)
      BY <2>1, ChecksContext
    <2> QED
      BY <2>1, <2>2, <2>3 DEF ProcessAgrees
  <1>12. Satisfied(o) <=>
           /\ TracedInLockstep(o, w) /\ visit_pending_enter(o, w) /\ ref_building_mode(o)
           /\ visit_yield(o, w)
    BY <1>7 DEF Satisfied, NewProcess
  <1>13. TracedInLockstep(o, w) /\ visit_pending_enter(o, w)
         /\ (ref_building_mode(o) <=> ref_building[id_curr] = None)
    BY <1>2, <1>7, SharedChecks DEF TracedInLockstep
  <1>14. visit_yield(o, w) <=>
           /\ is_utxo(id_curr) /\ parent # None
           /\ ps[parent].expected_input \in {None, o.val}
           /\ ResumerMatches(parent)
    BY <1>4, <1>6, <1>7, <1>8, <1>9, <1>10, <1>11
    DEF visit_yield, conditional_enforce_eq_if_some, ResumerMatches
  <1> QED
    BY <1>1, <1>3, <1>7, <1>11, <1>12, <1>13, <1>14

\* Return and Enter.
LEMMA FrameChecks ==
    ASSUME ChecksInv, NEW o \in Ops
    PROVE  /\ o.op = "Return" =>
                (Satisfied(FromWit(o)) <=> ref_building[id_curr] = None /\ ~is_utxo(id_curr))
           /\ o.op = "Enter" =>
                (Satisfied(FromWit(o)) <=>
                    /\ ref_building[id_curr] = None
                    /\ must_enter[id_curr] = o.f /\ ~must_exit[id_curr])
  <1>1. PICK w, c, t, q : WiresAre(o, w, c, t, q)
    BY StepWires
  <1>2. /\ irw.id_curr = id_curr /\ ProcessAgrees(id_curr)
        /\ w = Wires(o) /\ w.curr = c /\ DOMAIN c = Fields
    BY <1>1, ChecksContext DEF WiresAre
  <1>3. PICK x : x = w.curr_write
    OBVIOUS
  <1>4. ASSUME o.op = "Return"
        PROVE  Satisfied(FromWit(o)) <=> ref_building[id_curr] = None /\ ~is_utxo(id_curr)
    <2>1. FromWit(o) = o
      BY <1>4, FromWitKeeps
    <2>2. w.curr_write = [c EXCEPT !.activation = 0, !.finalized = TRUE, !.must_exit = FALSE]
      BY <1>1, <1>4 DEF WiresAre, program_state_transitions, NewProcess
    <2>3. x["finalized"] = TRUE /\ x["activation"] = 0 /\ x["must_exit"] = FALSE
      BY <1>2, <1>3, <2>2 DEF Fields
    <2>4. Satisfied(o) <=>
            /\ TracedInLockstep(o, w) /\ visit_pending_enter(o, w) /\ ref_building_mode(o)
            /\ visit_return(o, w)
      BY <1>2, <1>4 DEF Satisfied, NewProcess
    <2>5. TracedInLockstep(o, w)
      BY <1>4 DEF TracedInLockstep, MemSwitchesTarget, RomSwitchesTarget, NewProcess
    <2>6. visit_pending_enter(o, w) /\ (ref_building_mode(o) <=> ref_building[id_curr] = None)
      BY <1>1, <1>4, SharedChecks
    <2> QED
      BY <1>2, <1>3, <2>1, <2>3, <2>4, <2>5, <2>6 DEF visit_return
  <1>5. ASSUME o.op = "Enter"
        PROVE  Satisfied(FromWit(o)) <=>
                 /\ ref_building[id_curr] = None
                 /\ must_enter[id_curr] = o.f /\ ~must_exit[id_curr]
    <2>1. FromWit(o) = o /\ o.f \in Functions
      BY <1>5, FromWitKeeps DEF Ops, NewProcess
    <2>2. w.curr_write = [c EXCEPT !.must_enter = None, !.must_exit = TRUE]
      BY <1>1, <1>5 DEF WiresAre, program_state_transitions, NewProcess
    <2>3. x["must_enter"] = None /\ x["must_exit"] = TRUE
      BY <1>2, <1>3, <2>2 DEF Fields
    <2>4. MemSwitchesCurr(o.op) = {"must_enter", "must_exit"}
      BY <1>5 DEF MemSwitchesCurr
    <2>5. c["must_enter"] = must_enter[id_curr] /\ c["must_exit"] = must_exit[id_curr]
      <3>1. c["must_enter"] = ps[id_curr]["must_enter"] /\ c["must_exit"] = ps[id_curr]["must_exit"]
        BY <1>1, <1>2, <2>4 DEF WiresAre, Fields
      <3> QED
        BY <1>2, <3>1 DEF ProcessAgrees
    <2>6. Satisfied(o) <=>
            /\ TracedInLockstep(o, w) /\ visit_pending_enter(o, w) /\ ref_building_mode(o)
            /\ visit_enter(o, w)
      BY <1>2, <1>5 DEF Satisfied, NewProcess
    <2>7. TracedInLockstep(o, w)
      BY <1>5 DEF TracedInLockstep, MemSwitchesTarget, RomSwitchesTarget, NewProcess
    <2>8. ref_building_mode(o) <=> ref_building[id_curr] = None
      BY <1>1, <1>5, SharedChecks
    <2>9. visit_enter(o, w) <=> must_enter[id_curr] = o.f /\ ~must_exit[id_curr]
      BY <1>2, <1>3, <2>3, <2>5 DEF visit_enter
    <2>10. must_enter[id_curr] = o.f => visit_pending_enter(o, w)
      BY <1>2, <1>5, <2>1, <2>5, InstanceAssumption DEF visit_pending_enter
    <2> QED
      BY <2>1, <2>6, <2>7, <2>8, <2>9, <2>10
  <1> QED
    BY <1>4, <1>5

\* Creation.
LEMMA CreateChecks ==
    ASSUME ChecksInv, NEW o \in Ops, o.op \in NewProcess
    PROVE  Satisfied(FromWit(o)) <=>
             /\ ref_building[id_curr] = None
             /\ ~is_utxo(id_curr) /\ ~initialized[o.target]
             /\ is_utxo(o.target) <=> o.op # "NewCoord"
             /\ o.op # "NewCoord" => (is_token(o.target) <=> o.op = "NewToken")
  <1>1. FromWit(o) = o /\ o.target \in Procs
    BY FromWitKeeps, OpArguments DEF NewProcess
  <1>2. PICK w, c, t, q : WiresAre(o, w, c, t, q)
    BY StepWires
  <1>3. MemSwitchesTarget(o.op) =
          {"initialized", "init", "init_caller", "expected_input", "expected_resumer",
           "on_yield", "yield_to"}
    BY DEF MemSwitchesTarget, NewProcess
  <1>4. /\ q = o.target /\ w.address = o.target /\ w.target_id = o.target /\ w = Wires(o)
        /\ w.target = t /\ DOMAIN t = Fields /\ w.target_write = CreateWrites(o, c, t).target
    BY <1>2 DEF WiresAre, TracedTarget, TargetAddress, program_state_transitions, NewProcess
  <1>5. PICK y : y = w.target_write
    OBVIOUS
  <1>6. y["initialized"] = TRUE
    BY <1>4, <1>5 DEF CreateWrites, Fields
  <1>7. t["initialized"] = initialized[o.target]
    <2>1. t["initialized"] = ps[o.target]["initialized"]
      BY <1>2, <1>3, <1>4 DEF WiresAre, Fields
    <2>2. ProcessAgrees(o.target)
      BY <1>1, ChecksContext
    <2> QED
      BY <2>1, <2>2 DEF ProcessAgrees
  <1>8. Satisfied(o) <=>
          /\ TracedInLockstep(o, w) /\ visit_pending_enter(o, w) /\ ref_building_mode(o)
          /\ visit_new_process(o, w)
    BY <1>4 DEF Satisfied, NewProcess
  <1>9. TracedInLockstep(o, w) /\ visit_pending_enter(o, w)
        /\ (ref_building_mode(o) <=> ref_building[id_curr] = None)
    BY <1>2, <1>4, SharedChecks DEF TracedInLockstep, NewProcess
  <1>10. irw.id_curr = id_curr
    BY ChecksContext
  <1>11. visit_new_process(o, w) <=>
           /\ ~is_utxo(id_curr) /\ ~initialized[o.target]
           /\ is_utxo(o.target) <=> o.op # "NewCoord"
           /\ o.op # "NewCoord" => (is_token(o.target) <=> o.op = "NewToken")
    BY <1>4, <1>5, <1>6, <1>7, <1>10 DEF visit_new_process, NewProcess
  <1> QED
    BY <1>1, <1>8, <1>9, <1>11

\* Burn, and the two calls that hand out an argument.
LEMMA CurrentChecks ==
    ASSUME ChecksInv, NEW o \in Ops
    PROVE  /\ o.op = "Burn" =>
                (Satisfied(FromWit(o)) <=>
                    ref_building[id_curr] = None /\ is_utxo(id_curr) /\ id_curr \in MustBurn)
           /\ o.op = "Activation" =>
                (Satisfied(FromWit(o)) <=>
                    /\ ref_building[id_curr] = None
                    /\ ps[id_curr].activation = o.val /\ decode_or_zero(irw.id_prev) = o.caller)
           /\ o.op = "Init" =>
                (Satisfied(FromWit(o)) <=>
                    /\ ref_building[id_curr] = None
                    /\ ps[id_curr].init = o.val /\ ps[id_curr].init_caller = o.caller)
  <1> SUFFICES ASSUME o.op \in {"Burn", "Activation", "Init"}
               PROVE  /\ o.op = "Burn" =>
                        (Satisfied(o) <=>
                            ref_building[id_curr] = None /\ is_utxo(id_curr) /\ id_curr \in MustBurn)
                      /\ o.op = "Activation" =>
                        (Satisfied(o) <=>
                            /\ ref_building[id_curr] = None
                            /\ ps[id_curr].activation = o.val
                            /\ decode_or_zero(irw.id_prev) = o.caller)
                      /\ o.op = "Init" =>
                        (Satisfied(o) <=>
                            /\ ref_building[id_curr] = None
                            /\ ps[id_curr].init = o.val /\ ps[id_curr].init_caller = o.caller)
    BY FromWitKeeps
  <1>1. PICK w, c, t, q : WiresAre(o, w, c, t, q)
    BY StepWires
  <1>2. irw.id_curr = id_curr /\ ProcessAgrees(id_curr) /\ w = Wires(o) /\ w.curr = c
    BY <1>1, ChecksContext DEF WiresAre
  <1>3. TracedInLockstep(o, w)
    BY DEF TracedInLockstep, MemSwitchesTarget, RomSwitchesTarget, NewProcess
  <1>4. visit_pending_enter(o, w) /\ (ref_building_mode(o) <=> ref_building[id_curr] = None)
    BY <1>1, SharedChecks
  <1>5. CASE o.op = "Burn"
    <2>1. Satisfied(o) <=>
            /\ TracedInLockstep(o, w) /\ visit_pending_enter(o, w) /\ ref_building_mode(o)
            /\ visit_burn(o, w)
      BY <1>2, <1>5 DEF Satisfied, NewProcess
    <2>2. MemSwitchesCurr(o.op) = {"activation", "did_burn", "initialized", "must_exit"}
      BY <1>5 DEF MemSwitchesCurr
    <2>3. c["initialized"] = ps[id_curr]["initialized"]
      BY <1>1, <1>2, <2>2 DEF WiresAre, Fields
    <2>4. c["initialized"] = initialized[id_curr] /\ initialized[id_curr]
      BY <1>2, <2>3 DEF ProcessAgrees, ChecksInv, StartedFirst, Started
    <2>5. MustBurn \subseteq Inputs
      BY ChecksContext DEF WellShaped, MustBurn, Inputs
    <2> QED
      BY <1>2, <1>3, <1>4, <1>5, <2>1, <2>4, <2>5 DEF visit_burn
  <1>6. CASE o.op = "Activation"
    <2>1. Satisfied(o) <=>
            /\ TracedInLockstep(o, w) /\ visit_pending_enter(o, w) /\ ref_building_mode(o)
            /\ check_activation(o, w)
      BY <1>2, <1>6 DEF Satisfied, NewProcess
    <2>2. c["activation"] = ps[id_curr]["activation"]
      BY <1>1, <1>2, <1>6 DEF WiresAre, Fields, MemSwitchesCurr
    <2> QED
      BY <1>2, <1>3, <1>4, <1>6, <2>1, <2>2 DEF check_activation
  <1>7. CASE o.op = "Init"
    <2>1. Satisfied(o) <=>
            /\ TracedInLockstep(o, w) /\ visit_pending_enter(o, w) /\ ref_building_mode(o)
            /\ check_init(o, w)
      BY <1>2, <1>7 DEF Satisfied, NewProcess
    <2>2. c["init"] = ps[id_curr]["init"] /\ c["init_caller"] = ps[id_curr]["init_caller"]
      BY <1>1, <1>2, <1>7 DEF WiresAre, Fields, MemSwitchesCurr
    <2> QED
      BY <1>2, <1>3, <1>4, <1>7, <2>1, <2>2 DEF check_init
  <1> QED
    BY <1>5, <1>6, <1>7

\* Bind and Unbind.  The prover traces process 0 as the target of a Bind.
LEMMA OwnerChecks ==
    ASSUME ChecksInv, NEW o \in Ops
    PROVE  /\ o.op = "Bind" =>
                (Satisfied(FromWit(o)) <=>
                    /\ ref_building[id_curr] = None /\ o.target = Pid0
                    /\ is_utxo(id_curr) /\ is_utxo(o.target) /\ initialized[o.target]
                    /\ ownership[id_curr] = None)
           /\ o.op = "Unbind" =>
                (Satisfied(FromWit(o)) <=>
                    /\ ref_building[id_curr] = None
                    /\ is_utxo(id_curr) /\ is_utxo(o.target)
                    /\ ownership[o.target] = id_curr)
  <1> SUFFICES ASSUME o.op \in {"Bind", "Unbind"}
               PROVE  /\ o.op = "Bind" =>
                        (Satisfied(o) <=>
                            /\ ref_building[id_curr] = None /\ o.target = Pid0
                            /\ is_utxo(id_curr) /\ is_utxo(o.target) /\ initialized[o.target]
                            /\ ownership[id_curr] = None)
                      /\ o.op = "Unbind" =>
                        (Satisfied(o) <=>
                            /\ ref_building[id_curr] = None
                            /\ is_utxo(id_curr) /\ is_utxo(o.target)
                            /\ ownership[o.target] = id_curr)
    BY FromWitKeeps
  <1>1. PICK w, c, t, q : WiresAre(o, w, c, t, q)
    BY StepWires
  <1>2. /\ irw.id_curr = id_curr /\ ProcessAgrees(id_curr) /\ w = Wires(o) /\ w.curr = c
        /\ w.target = t /\ DOMAIN c = Fields /\ DOMAIN t = Fields
        /\ o.target \in Procs /\ ProcessAgrees(o.target)
    BY <1>1, ChecksContext, OpArguments DEF WiresAre
  <1>3. visit_pending_enter(o, w) /\ (ref_building_mode(o) <=> ref_building[id_curr] = None)
    BY <1>1, SharedChecks
  <1>4. PICK x, y : x = w.curr_write /\ y = w.target_write
    OBVIOUS
  <1>5. CASE o.op = "Bind"
    <2>1. Satisfied(o) <=>
            /\ TracedInLockstep(o, w) /\ visit_pending_enter(o, w) /\ ref_building_mode(o)
            /\ visit_bind(o, w)
      BY <1>2, <1>5 DEF Satisfied, NewProcess
    <2>2. w.address = o.target /\ w.target_id = Pid0 /\ q = Pid0
      BY <1>1, <1>5 DEF WiresAre, TracedTarget, TargetAddress, NewProcess
    <2>3. TracedInLockstep(o, w) <=> o.target = Pid0
      BY <1>5, <2>2 DEF TracedInLockstep, RomSwitchesTarget
    <2>4. MemSwitchesCurr(o.op) = {"ownership"} /\ MemSwitchesTarget(o.op) = {"initialized"}
      BY <1>5 DEF MemSwitchesCurr, MemSwitchesTarget, NewProcess
    <2>5. c["ownership"] = ps[id_curr]["ownership"] /\ t["initialized"] = ps[Pid0]["initialized"]
      BY <1>1, <1>2, <2>2, <2>4 DEF WiresAre, Fields
    <2>6. w.curr_write = [c EXCEPT !.ownership = o.target]
      BY <1>1, <1>5 DEF WiresAre, program_state_transitions, NewProcess
    <2>7. x["ownership"] = o.target
      BY <1>2, <1>4, <2>6 DEF Fields
    <2>8. /\ is_utxo(id_curr) => c["ownership"] = ownership[id_curr]
          /\ o.target = Pid0 => t["initialized"] = initialized[o.target]
      BY <1>2, <2>5 DEF ProcessAgrees, is_utxo
    <2>9. o.target = Pid0 =>
            (visit_bind(o, w) <=>
                /\ is_utxo(id_curr) /\ is_utxo(o.target) /\ initialized[o.target]
                /\ ownership[id_curr] = None)
      BY <1>2, <1>4, <2>7, <2>8 DEF visit_bind
    <2> QED
      BY <1>3, <1>5, <2>1, <2>3, <2>9
  <1>6. CASE o.op = "Unbind"
    <2>1. Satisfied(o) <=>
            /\ TracedInLockstep(o, w) /\ visit_pending_enter(o, w) /\ ref_building_mode(o)
            /\ visit_unbind(o, w)
      BY <1>2, <1>6 DEF Satisfied, NewProcess
    <2>2. w.address = o.target /\ w.target_id = o.target /\ q = o.target
      BY <1>1, <1>6 DEF WiresAre, TracedTarget, TargetAddress, NewProcess
    <2>3. TracedInLockstep(o, w)
      BY <2>2 DEF TracedInLockstep
    <2>4. MemSwitchesTarget(o.op) = {"ownership"}
      BY <1>6 DEF MemSwitchesTarget, NewProcess
    <2>5. t["ownership"] = ps[o.target]["ownership"]
      BY <1>1, <2>2, <2>4 DEF WiresAre, Fields
    <2>6. w.target_write = [t EXCEPT !.ownership = None]
      BY <1>1, <1>6 DEF WiresAre, program_state_transitions, NewProcess
    <2>7. y["ownership"] = None
      BY <1>2, <1>4, <2>6 DEF Fields
    <2>8. is_utxo(o.target) => t["ownership"] = ownership[o.target]
      BY <1>2, <2>5 DEF ProcessAgrees, is_utxo
    <2>9. visit_unbind(o, w) <=>
            /\ is_utxo(id_curr) /\ is_utxo(o.target) /\ ownership[o.target] = id_curr
      BY <1>2, <1>4, <2>7, <2>8 DEF visit_unbind
    <2> QED
      BY <1>3, <1>6, <2>1, <2>3, <2>9
  <1> QED
    BY <1>5, <1>6

\* The handler calls, on a stack that is not empty.
LEMMA HandlerChecks ==
    ASSUME ChecksInv, NEW o \in Ops
    PROVE  /\ o.op = "InstallHandler" =>
                (Satisfied(FromWit(o)) <=> ref_building[id_curr] = None /\ ~is_utxo(id_curr))
           /\ o.op = "UninstallHandler" /\ handler_stack[o.interface] # <<>> =>
                (Satisfied(FromWit(o)) <=>
                    /\ ref_building[id_curr] = None /\ ~is_utxo(id_curr)
                    /\ Last(handler_stack[o.interface]) = id_curr)
           /\ o.op = "GetHandlerFor" /\ handler_stack[o.interface] # <<>> =>
                (Satisfied(FromWit(o)) <=>
                    /\ ref_building[id_curr] = None
                    /\ Last(handler_stack[o.interface]) = o.handler)
           /\ o.op = "ProgramHash" => (Satisfied(FromWit(o)) <=> ref_building[id_curr] = None)
  <1> SUFFICES ASSUME o.op \in {"InstallHandler", "UninstallHandler", "GetHandlerFor", "ProgramHash"},
                      FromWit(o) = o
               PROVE  /\ o.op = "InstallHandler" =>
                        (Satisfied(o) <=> ref_building[id_curr] = None /\ ~is_utxo(id_curr))
                      /\ o.op = "UninstallHandler" /\ handler_stack[o.interface] # <<>> =>
                        (Satisfied(o) <=>
                            /\ ref_building[id_curr] = None /\ ~is_utxo(id_curr)
                            /\ Last(handler_stack[o.interface]) = id_curr)
                      /\ o.op = "GetHandlerFor" /\ handler_stack[o.interface] # <<>> =>
                        (Satisfied(o) <=>
                            /\ ref_building[id_curr] = None
                            /\ Last(handler_stack[o.interface]) = o.handler)
                      /\ o.op = "ProgramHash" =>
                        (Satisfied(o) <=> ref_building[id_curr] = None)
    BY FromWitKeeps
  <1>1. PICK w, c, t, q : WiresAre(o, w, c, t, q)
    BY StepWires
  <1>2. irw.id_curr = id_curr /\ w = Wires(o) /\ w.node = NodeProcess(o)
    BY <1>1, ChecksContext DEF WiresAre
  <1>3. visit_pending_enter(o, w) /\ (ref_building_mode(o) <=> ref_building[id_curr] = None)
    BY <1>1, SharedChecks
  <1>4. o.op # "ProgramHash" => TracedInLockstep(o, w)
    BY DEF TracedInLockstep, MemSwitchesTarget, RomSwitchesTarget, NewProcess
  <1>5. /\ o.op \in {"UninstallHandler", "GetHandlerFor"} /\ handler_stack[o.interface] # <<>> =>
             w.node = Last(handler_stack[o.interface])
    BY <1>2, ChecksContext, OpArguments DEF NodeProcess, HeadsAgree, HandlerOps
  <1>6. CASE o.op = "InstallHandler"
    <2>1. Satisfied(o) <=>
            /\ TracedInLockstep(o, w) /\ visit_pending_enter(o, w) /\ ref_building_mode(o)
            /\ visit_install_handler(o)
      BY <1>2, <1>6 DEF Satisfied, NewProcess
    <2> QED
      BY <1>2, <1>3, <1>4, <1>6, <2>1 DEF visit_install_handler
  <1>7. CASE o.op = "UninstallHandler"
    <2>1. Satisfied(o) <=>
            /\ TracedInLockstep(o, w) /\ visit_pending_enter(o, w) /\ ref_building_mode(o)
            /\ visit_uninstall_handler(o, w)
      BY <1>2, <1>7 DEF Satisfied, NewProcess
    <2> QED
      BY <1>2, <1>3, <1>4, <1>5, <1>7, <2>1 DEF visit_uninstall_handler
  <1>8. CASE o.op = "GetHandlerFor"
    <2>1. Satisfied(o) <=>
            /\ TracedInLockstep(o, w) /\ visit_pending_enter(o, w) /\ ref_building_mode(o)
            /\ visit_get_handler_for(o, w)
      BY <1>2, <1>8 DEF Satisfied, NewProcess
    <2> QED
      BY <1>3, <1>4, <1>5, <1>8, <2>1 DEF visit_get_handler_for
  <1>9. CASE o.op = "ProgramHash"
    <2>1. Satisfied(o) <=>
            TracedInLockstep(o, w) /\ visit_pending_enter(o, w) /\ ref_building_mode(o)
      BY <1>2, <1>9 DEF Satisfied, NewProcess
    <2>2. TracedInLockstep(o, w)
      BY <1>1, <1>9 DEF WiresAre, TracedTarget, TargetAddress, TracedInLockstep, NewProcess
    <2> QED
      BY <1>3, <1>9, <2>1, <2>2
  <1> QED
    BY <1>6, <1>7, <1>8, <1>9

\* The calls on refs.  A ref that does not exist has size 0, so it has no word
\* in range.
LEMMA RefChecks ==
    ASSUME ChecksInv, NEW o \in Ops
    PROVE  /\ o.op = "NewRef" =>
                (Satisfied(FromWit(o)) <=> ref_building[id_curr] = None /\ o.ret = Len(ref_store))
           /\ o.op = "RefPush" => (Satisfied(FromWit(o)) <=> ref_building[id_curr] # None)
           /\ o.op = "RefGet" =>
                (Satisfied(FromWit(o)) <=>
                    /\ ref_building[id_curr] = None
                    /\ Known(o.val) /\ o.offset < Len(ref_content(o.val))
                    /\ ref_content(o.val)[o.offset + 1] = o.word)
           /\ o.op = "RefWrite" =>
                (Satisfied(FromWit(o)) <=>
                    /\ ref_building[id_curr] = None
                    /\ Known(o.val) /\ o.offset < Len(ref_content(o.val)))
  <1> SUFFICES ASSUME o.op \in {"NewRef", "RefPush", "RefGet", "RefWrite"}, FromWit(o) = o
               PROVE  /\ o.op = "NewRef" =>
                        (Satisfied(o) <=> ref_building[id_curr] = None /\ o.ret = Len(ref_store))
                      /\ o.op = "RefPush" => (Satisfied(o) <=> ref_building[id_curr] # None)
                      /\ o.op = "RefGet" =>
                        (Satisfied(o) <=>
                            /\ ref_building[id_curr] = None
                            /\ Known(o.val) /\ o.offset < Len(ref_content(o.val))
                            /\ ref_content(o.val)[o.offset + 1] = o.word)
                      /\ o.op = "RefWrite" =>
                        (Satisfied(o) <=>
                            /\ ref_building[id_curr] = None
                            /\ Known(o.val) /\ o.offset < Len(ref_content(o.val)))
    BY FromWitKeeps
  <1>1. PICK w, c, t, q : WiresAre(o, w, c, t, q)
    BY StepWires
  <1>2. w = Wires(o)
    BY <1>1 DEF WiresAre
  <1>3. TracedInLockstep(o, w)
    BY DEF TracedInLockstep, MemSwitchesTarget, RomSwitchesTarget, NewProcess
  <1>4. /\ visit_pending_enter(o, w)
        /\ ref_building_mode(o) <=> (ref_building[id_curr] # None <=> o.op = "RefPush")
    BY <1>1, SharedChecks
  <1>5. CASE o.op = "NewRef"
    <2>1. Satisfied(o) <=>
            /\ TracedInLockstep(o, w) /\ visit_pending_enter(o, w) /\ ref_building_mode(o)
            /\ visit_new_ref(o)
      BY <1>2, <1>5 DEF Satisfied, NewProcess
    <2>2. irw.next_ref_id = Len(ref_store)
      BY DEF ChecksInv, RefWiresAgree
    <2> QED
      BY <1>3, <1>4, <1>5, <2>1, <2>2, BuildingWire DEF visit_new_ref
  <1>6. CASE o.op = "RefPush"
    <2>1. Satisfied(o) <=>
            /\ TracedInLockstep(o, w) /\ visit_pending_enter(o, w) /\ ref_building_mode(o)
            /\ visit_ref_push(o)
      BY <1>2, <1>6 DEF Satisfied, NewProcess
    <2> QED
      BY <1>3, <1>4, <1>6, <2>1, BuildingWire DEF visit_ref_push
  <1>7. ASSUME o.op \in {"RefGet", "RefWrite"}
        PROVE  /\ RefInRange(o) <=> Known(o.val) /\ o.offset < Len(ref_content(o.val))
               /\ RefInRange(o) => arena[bases[o.val] + o.offset] = ref_content(o.val)[o.offset + 1]
    <2>1. o.val \in Refs /\ o.offset \in Nat
      BY <1>7, OpArguments
    <2>2. CASE Known(o.val)
      <3>1. PICK n \in Nat : n = Len(ref_content(o.val)) /\ RefPlaced(o.val)
        BY <2>1, <2>2, KnownRef DEF ChecksInv, CopiesInv, RefsInv, RefsPlaced
      <3>2. /\ sizes[o.val] = n /\ bases[o.val] \in Nat
            /\ \A k \in 1 .. n : arena[bases[o.val] + k - 1] = ref_content(o.val)[k]
        BY <3>1 DEF RefPlaced
      <3>3. RefInRange(o) <=> o.offset < n
        BY <2>1, <3>1, <3>2 DEF RefInRange
      <3>4. ASSUME o.offset < n
            PROVE  arena[bases[o.val] + o.offset] = ref_content(o.val)[o.offset + 1]
        <4>1. PICK k : k = o.offset + 1 /\ k \in 1 .. n
          BY <2>1, <3>1, <3>4
        <4>2. bases[o.val] + k - 1 = bases[o.val] + o.offset
          BY <2>1, <3>2, <4>1
        <4> QED
          BY <3>2, <4>1, <4>2
      <3> QED
        BY <2>2, <3>1, <3>3, <3>4
    <2>3. CASE ~Known(o.val)
      <3>1. sizes[o.val] = 0
        BY <2>1, <2>3 DEF ChecksInv, RefWiresAgree
      <3> QED
        BY <2>1, <2>3, <3>1 DEF RefInRange
    <2> QED
      BY <2>2, <2>3
  <1>8. CASE o.op = "RefGet"
    <2>1. Satisfied(o) <=>
            /\ TracedInLockstep(o, w) /\ visit_pending_enter(o, w) /\ ref_building_mode(o)
            /\ visit_ref_get(o)
      BY <1>2, <1>8 DEF Satisfied, NewProcess
    <2> QED
      BY <1>3, <1>4, <1>7, <1>8, <2>1 DEF visit_ref_get
  <1>9. CASE o.op = "RefWrite"
    <2>1. Satisfied(o) <=>
            /\ TracedInLockstep(o, w) /\ visit_pending_enter(o, w) /\ ref_building_mode(o)
            /\ RefInRange(o)
      BY <1>2, <1>9 DEF Satisfied, NewProcess
    <2> QED
      BY <1>3, <1>4, <1>7, <1>9, <2>1
  <1> QED
    BY <1>5, <1>6, <1>8, <1>9

-----------------------------------------------------------------------------
(* The theorems: verifier and circuit take the same host calls             *)

\* The circuit has every claim that the verifier has.
LEMMA SameInput ==
    ASSUME ChecksInv, NEW p \in Procs, NEW val, expected_input[p] \in {None, val},
           ~(expected_input[p] = None /\ ps[p].expected_input # None)
    PROVE  ps[p].expected_input \in {None, val}
  BY ChecksContext DEF ProcessAgrees

\* What verifier and circuit take, for the calls that pass control.
LEMMA ControlProvable ==
    ASSUME ChecksInv, NEW o \in Ops, Accepts(o), ~Narrower(o),
           o.op \in {"Resume", "CallEffectHandler", "Yield", "Return", "Enter"}
    PROVE  Satisfied(FromWit(o))
  <1>1. CASE o.op = "Resume"
    <2>1. MayResume(o.target, o.val) /\ o.target \in Procs
      BY <1>1, OpArguments DEF Accepts, NewProcess
    <2>2. ~is_utxo(id_curr)
      BY <1>1 DEF Narrower
    <2>3. ~(expected_input[o.target] = None /\ ps[o.target].expected_input # None)
      BY <1>1, ResumeChecks DEF Narrower
    <2>4. ps[o.target].expected_input \in {None, o.val}
      BY <2>1, <2>3, SameInput DEF MayResume, MayTransfer, InputMatches
    <2> QED
      BY <1>1, <2>1, <2>2, <2>4, ResumeChecks DEF MayResume, MayTransfer, HostCall
  <1>2. CASE o.op = "CallEffectHandler"
    <2>1. PICK p : p = Last(handler_stack[o.interface])
      OBVIOUS
    <2>2. HostCall /\ handler_stack[o.interface] # <<>> /\ MayTransfer(p, o.val)
      BY <1>2, <2>1 DEF Accepts, MayCallHandler, NewProcess
    <2>3. p # id_curr
      BY <1>2, <2>1 DEF Narrower
    <2>4. /\ p \in Procs /\ Wires(FromWit(o)).target_id = p
          /\ Satisfied(FromWit(o)) <=>
               /\ ref_building[id_curr] = None
               /\ p # id_curr
               /\ ps[p].expected_input \in {None, o.val}
               /\ ResumerMatches(p)
      BY <1>2, <2>1, <2>2, CallChecks
    <2>5. ~(expected_input[p] = None /\ ps[p].expected_input # None)
      BY <1>2, <2>4 DEF Narrower
    <2>6. ps[p].expected_input \in {None, o.val}
      BY <2>2, <2>4, <2>5, SameInput DEF MayTransfer, InputMatches
    <2> QED
      BY <2>2, <2>3, <2>4, <2>6 DEF MayTransfer, HostCall
  <1>3. CASE o.op = "Yield"
    <2>1. PICK p : p = yield_to[id_curr]
      OBVIOUS
    <2>2. HostCall /\ is_utxo(id_curr) /\ p # None /\ ResumerMatches(p)
      BY <1>3, <2>1 DEF Accepts, MayYield, NewProcess
    <2>3. /\ p \in Procs /\ Wires(FromWit(o)).target_id = p
          /\ Satisfied(FromWit(o)) <=>
               /\ ref_building[id_curr] = None
               /\ is_utxo(id_curr) /\ p # None
               /\ ps[p].expected_input \in {None, o.val}
               /\ ResumerMatches(p)
      BY <1>3, <2>1, <2>2, YieldChecks
    <2>4. /\ expected_input[p] \in {None, o.val}
          /\ ~(expected_input[p] = None /\ ps[p].expected_input # None)
      BY <1>3, <2>3 DEF Narrower
    <2>5. ps[p].expected_input \in {None, o.val}
      BY <2>3, <2>4, SameInput
    <2> QED
      BY <2>2, <2>3, <2>5 DEF HostCall
  <1>4. CASE o.op = "Return"
    BY <1>4, FrameChecks DEF Accepts, MayReturn, HostCall, NewProcess
  <1>5. CASE o.op = "Enter"
    BY <1>5, FrameChecks DEF Accepts, MayEnter, NewProcess
  <1> QED
    BY <1>1, <1>2, <1>3, <1>4, <1>5

\* The calls that pass no control.
LEMMA OthersProvable ==
    ASSUME ChecksInv, NEW o \in Ops, Accepts(o), ~Narrower(o),
           o.op \notin {"Resume", "CallEffectHandler", "Yield", "Return", "Enter"}
    PROVE  Satisfied(FromWit(o))
  <1>1. CASE o.op \in NewProcess
    <2>1. /\ MayCreate(o.target)
          /\ is_utxo(o.target) <=> o.op # "NewCoord"
          /\ o.op # "NewCoord" => (is_token(o.target) <=> o.op = "NewToken")
      BY <1>1 DEF Accepts, NewProcess
    <2> QED
      BY <1>1, <2>1, CreateChecks DEF MayCreate, HostCall
  <1>2. CASE o.op = "Burn"
    BY <1>2, CurrentChecks DEF Accepts, HostCall, NewProcess
  <1>3. CASE o.op = "Activation"
    <2>1. HostCall /\ activation[id_curr] # None /\ activation[id_curr] = <<o.val, o.caller>>
      BY <1>3 DEF Accepts, NewProcess
    <2>2. ps[id_curr].activation = o.val /\ irw.id_prev = o.caller
      <3>1. /\ ps[id_curr].activation = activation[id_curr][1]
            /\ irw.id_prev = activation[id_curr][2]
        BY <2>1, ChecksContext DEF ChecksInv, ArgumentsAgree, ProcessAgrees
      <3> QED
        BY <2>1, <3>1
    <2>3. o.caller \in Procs
      BY <1>3 DEF Ops, NewProcess
    <2>4. decode_or_zero(irw.id_prev) = o.caller
      BY <2>2, <2>3, ChecksContext DEF decode_or_zero
    <2> QED
      BY <1>3, <2>1, <2>2, <2>4, CurrentChecks DEF HostCall
  <1>4. CASE o.op = "Init"
    <2>1. HostCall /\ init[id_curr] # None /\ init[id_curr] = <<o.val, o.caller>>
      BY <1>4 DEF Accepts, NewProcess
    <2>2. ps[id_curr].init = o.val /\ ps[id_curr].init_caller = o.caller
      <3>1. ps[id_curr].init = init[id_curr][1] /\ ps[id_curr].init_caller = init[id_curr][2]
        BY <2>1, ChecksContext DEF ChecksInv, ArgumentsAgree
      <3> QED
        BY <2>1, <3>1
    <2> QED
      BY <1>4, <2>1, <2>2, CurrentChecks DEF HostCall
  <1>5. CASE o.op = "Bind"
    <2>1. MayBind(o.target) /\ o.target = Pid0
      BY <1>5 DEF Accepts, Narrower, NewProcess
    <2> QED
      BY <1>5, <2>1, OwnerChecks DEF MayBind, HostCall
  <1>6. CASE o.op = "Unbind"
    BY <1>6, OwnerChecks DEF Accepts, MayUnbind, HostCall, NewProcess
  <1>7. CASE o.op \in {"NewRef", "RefPush", "RefGet", "RefWrite"}
    BY <1>7, RefChecks DEF Accepts, MayPush, MayAccess, HostCall, NewProcess
  <1>8. CASE o.op \in {"ProgramHash", "InstallHandler", "UninstallHandler", "GetHandlerFor"}
    BY <1>8, HandlerChecks DEF Accepts, MayUninstall, HostCall, NewProcess
  <1> QED
    BY <1>1, <1>2, <1>3, <1>4, <1>5, <1>6, <1>7, <1>8, OpArguments

\* Provable: for every transaction and every state that the replay reaches, each
\* host call that verify_interleaving_semantics takes satisfies the constraints
\* of make_step_circuit with the values that trace_memory_ops computes, apart
\* from the calls that Narrower names.
THEOREM ProvableCorrect == CircuitSpec => []Provable
  <1>1. ChecksInv => Provable
    BY ControlProvable, OthersProvable DEF Provable
  <1> QED
    BY <1>1, ChecksInit, ChecksNext, PTL DEF CircuitSpec

\* The calls that ProvedIsAccepted says nothing about.
Excepted(o) == Wider(o) \/ EnterPending(o)

\* A call that satisfies the circuit while no Enter is pending is one that the
\* verifier looks at.
LEMMA CallIsOpen ==
    ASSUME ChecksInv, NEW o \in Ops, ~Excepted(o), o.op \notin {"Enter", "RefPush"},
           ref_building[id_curr] = None
    PROVE  HostCall
  BY ChecksContext DEF HostCall, Excepted, EnterPending, Wider

\* What the circuit lets pass, the verifier takes: the calls that pass control.
LEMMA ControlSound ==
    ASSUME ChecksInv, NEW o \in Ops, Satisfied(FromWit(o)), ~Excepted(o),
           o.op \in {"Resume", "CallEffectHandler", "Yield", "Return", "Enter"}
    PROVE  Accepts(o)
  <1>1. CASE o.op = "Resume"
    <2>1. /\ ref_building[id_curr] = None /\ o.target \in Procs
          /\ o.target # id_curr /\ ~is_utxo(id_curr) /\ initialized[o.target]
          /\ ps[o.target].expected_input \in {None, o.val}
          /\ ResumerMatches(o.target)
      BY <1>1, ResumeChecks, OpArguments
    <2>2. activation[o.target] = None /\ InputMatches(o.target, o.val)
      BY <2>1, ChecksContext DEF OnlyCurrentIsActive, InputMatches, ProcessAgrees
    <2>3. HostCall
      BY <1>1, <2>1, CallIsOpen
    <2> QED
      BY <1>1, <2>1, <2>2, <2>3 DEF Accepts, MayResume, MayTransfer, NewProcess
  <1>2. CASE o.op = "CallEffectHandler"
    <2>1. PICK p : p = Last(handler_stack[o.interface])
      OBVIOUS
    <2>2. handler_stack[o.interface] # <<>>
      BY <1>2 DEF Excepted, EnterPending, Wider, HandlerOps
    <2>3. /\ ref_building[id_curr] = None /\ p \in Procs /\ p # id_curr
          /\ ps[p].expected_input \in {None, o.val} /\ ResumerMatches(p)
      BY <1>2, <2>1, <2>2, CallChecks
    <2>4. activation[p] = None /\ InputMatches(p, o.val)
      BY <2>3, ChecksContext DEF OnlyCurrentIsActive, InputMatches, ProcessAgrees
    <2>5. HostCall
      BY <1>2, <2>3, CallIsOpen
    <2> QED
      BY <1>2, <2>1, <2>2, <2>3, <2>4, <2>5 DEF Accepts, MayCallHandler, MayTransfer, NewProcess
  <1>3. CASE o.op = "Yield"
    <2>1. PICK p : p = yield_to[id_curr]
      OBVIOUS
    <2>2. /\ ref_building[id_curr] = None /\ is_utxo(id_curr) /\ p # None /\ p \in Procs
          /\ ps[p].expected_input \in {None, o.val} /\ ResumerMatches(p)
      BY <1>3, <2>1, YieldChecks
    <2>3. Known(o.val)
      BY <1>3 DEF Excepted, EnterPending, Wider
    <2>4. expected_input[p] # None => expected_input[p] = o.val
      BY <2>2, ChecksContext DEF ProcessAgrees
    <2>5. HostCall
      BY <1>3, <2>2, CallIsOpen
    <2> QED
      BY <1>3, <2>1, <2>2, <2>3, <2>4, <2>5 DEF Accepts, MayYield, NewProcess
  <1>4. CASE o.op = "Return"
    <2>1. ref_building[id_curr] = None /\ ~is_utxo(id_curr)
      BY <1>4, FrameChecks
    <2>2. HostCall
      BY <1>4, <2>1, CallIsOpen
    <2>3. yield_to[id_curr] # None \/ id_curr = Entrypoint
      BY DEF ChecksInv, StartedFirst, Started
    <2> QED
      BY <1>4, <2>1, <2>2, <2>3 DEF Accepts, MayReturn, NewProcess
  <1>5. CASE o.op = "Enter"
    BY <1>5, FrameChecks, ChecksContext DEF Accepts, MayEnter, NewProcess
  <1> QED
    BY <1>1, <1>2, <1>3, <1>4, <1>5

\* The calls that pass no control.
LEMMA OthersSound ==
    ASSUME ChecksInv, NEW o \in Ops, WithinBounds(o), Satisfied(FromWit(o)), ~Excepted(o),
           o.op \notin {"Resume", "CallEffectHandler", "Yield", "Return", "Enter"}
    PROVE  Accepts(o)
  <1>1. CASE o.op \in NewProcess
    <2>1. /\ ref_building[id_curr] = None
          /\ ~is_utxo(id_curr) /\ ~initialized[o.target]
          /\ is_utxo(o.target) <=> o.op # "NewCoord"
          /\ o.op # "NewCoord" => (is_token(o.target) <=> o.op = "NewToken")
      BY <1>1, CreateChecks
    <2>2. HostCall
      BY <1>1, <2>1, CallIsOpen DEF NewProcess
    <2> QED
      BY <1>1, <2>1, <2>2 DEF Accepts, MayCreate, NewProcess
  <1>2. CASE o.op = "Burn"
    BY <1>2, CurrentChecks, CallIsOpen DEF Accepts, NewProcess
  <1>3. CASE o.op = "Activation"
    <2>1. /\ ref_building[id_curr] = None
          /\ ps[id_curr].activation = o.val /\ decode_or_zero(irw.id_prev) = o.caller
      BY <1>3, CurrentChecks
    <2>2. PICK a : a = activation[id_curr] /\ a # None /\ a \in Refs \X Procs
      BY <1>3, ChecksContext DEF Excepted, EnterPending, Wider, ChecksInv, ArgumentsAgree, Option
    <2>3. a[1] = o.val /\ irw.id_prev = a[2] /\ a[2] \in Procs
      BY <2>1, <2>2, ChecksContext DEF ChecksInv, ArgumentsAgree, ProcessAgrees
    <2>4. a[2] = o.caller
      BY <2>1, <2>3, ChecksContext DEF decode_or_zero
    <2>5. a = <<o.val, o.caller>>
      BY <2>2, <2>3, <2>4
    <2>6. HostCall
      BY <1>3, <2>1, CallIsOpen
    <2> QED
      BY <1>3, <2>2, <2>5, <2>6 DEF Accepts, NewProcess
  <1>4. CASE o.op = "Init"
    <2>1. /\ ref_building[id_curr] = None
          /\ ps[id_curr].init = o.val /\ ps[id_curr].init_caller = o.caller
      BY <1>4, CurrentChecks
    <2>2. PICK a : a = init[id_curr] /\ a # None /\ a \in Refs \X Procs
      BY <1>4, ChecksContext DEF Excepted, EnterPending, Wider, ChecksInv, ArgumentsAgree, Option
    <2>3. a[1] = o.val /\ a[2] = o.caller
      BY <2>1, <2>2, ChecksContext DEF ChecksInv, ArgumentsAgree
    <2>4. a = <<o.val, o.caller>>
      BY <2>2, <2>3
    <2>5. HostCall
      BY <1>4, <2>1, CallIsOpen
    <2> QED
      BY <1>4, <2>2, <2>4, <2>5 DEF Accepts, NewProcess
  <1>5. CASE o.op = "Bind"
    <2>1. /\ ref_building[id_curr] = None
          /\ is_utxo(id_curr) /\ is_utxo(o.target) /\ initialized[o.target]
          /\ ownership[id_curr] = None
      BY <1>5, OwnerChecks
    <2>2. initialized[id_curr]
      BY DEF ChecksInv, StartedFirst, Started
    <2>3. HostCall
      BY <1>5, <2>1, CallIsOpen
    <2> QED
      BY <1>5, <2>1, <2>2, <2>3 DEF Accepts, MayBind, NewProcess
  <1>6. CASE o.op = "Unbind"
    <2>1. /\ ref_building[id_curr] = None
          /\ is_utxo(id_curr) /\ is_utxo(o.target) /\ ownership[o.target] = id_curr
      BY <1>6, OwnerChecks
    <2>2. initialized[o.target]
      BY <2>1, ChecksContext DEF ChecksInv, StartedFirst, is_utxo
    <2>3. HostCall
      BY <1>6, <2>1, CallIsOpen
    <2> QED
      BY <1>6, <2>1, <2>2, <2>3 DEF Accepts, MayUnbind, NewProcess
  <1>7. CASE o.op = "RefPush"
    <2>1. ref_building[id_curr] # None /\ must_enter[id_curr] = None /\ verdict = "Running"
      BY <1>7, RefChecks, ChecksContext DEF Excepted, EnterPending, Wider
    <2> QED
      BY <1>7, <2>1 DEF Accepts, MayPush, NewProcess
  <1>8. CASE o.op \in {"NewRef", "RefGet", "RefWrite"}
    <2>1. HostCall
      BY <1>8, RefChecks, CallIsOpen
    <2>2. CASE o.op = "NewRef"
      BY <2>1, <2>2, RefChecks DEF Accepts, WithinBounds, NewProcess
    <2>3. CASE o.op \in {"RefGet", "RefWrite"}
      BY <2>1, <2>3, RefChecks DEF Accepts, MayAccess, NewProcess
    <2> QED
      BY <1>8, <2>2, <2>3
  <1>9. CASE o.op \in {"ProgramHash", "InstallHandler", "UninstallHandler", "GetHandlerFor"}
    <2>1. o.op \in {"UninstallHandler", "GetHandlerFor"} => handler_stack[o.interface] # <<>>
      BY DEF Excepted, EnterPending, Wider, HandlerOps
    <2>2. HostCall
      BY <1>9, <2>1, HandlerChecks, CallIsOpen
    <2> QED
      BY <1>9, <2>1, <2>2, HandlerChecks DEF Accepts, MayUninstall, WithinBounds, NewProcess
  <1> QED
    BY <1>1, <1>2, <1>3, <1>4, <1>5, <1>6, <1>7, <1>8, <1>9, OpArguments

\* For every transaction and every state that the replay reaches, each host call
\* whose step circuit is satisfied by the values an honest prover computes is one
\* that verify_interleaving_semantics takes, apart from the calls that Wider names
\* and while no Enter is pending.
THEOREM ProvedIsAcceptedCorrect == CircuitSpec => []ProvedIsAccepted
  <1>1. ChecksInv => ProvedIsAccepted
    BY ControlSound, OthersSound DEF ProvedIsAccepted, Excepted
  <1> QED
    BY <1>1, ChecksInit, ChecksNext, PTL DEF CircuitSpec

\* Accepts leaves out no check: a step of the verifier that keeps it running is
\* one that Accepts holds for.  (That nothing else keeps it from the step is for
\* the model checker to see, since it is about ENABLED.)
LEMMA StepIsAccepted ==
    ASSUME NEW o \in Ops, HostStep(o)
    PROVE  Accepts(o)
  <1> USE DEF HostStep, Accepts, NewProcess
  <1>1. CASE o.op \in {"Resume", "CallEffectHandler", "Yield", "Return", "Enter"}
    BY <1>1 DEF Resume, CallEffectHandler, Yield, Return, Enter
  <1>2. CASE o.op \in NewProcess
    BY <1>2 DEF NewUtxo, NewToken, NewCoord, Create
  <1>3. CASE o.op \in {"Activation", "Init", "ProgramHash", "GetHandlerFor"}
    BY <1>3 DEF Activation, InitCall, ProgramHash, GetHandlerFor
  <1>4. CASE o.op \in {"NewRef", "RefPush", "RefGet", "RefWrite"}
    BY <1>4 DEF NewRef, RefPush, RefGet, RefWrite
  <1>5. CASE o.op \in {"InstallHandler", "UninstallHandler", "Burn", "Bind", "Unbind"}
    BY <1>5 DEF InstallHandler, UninstallHandler, Burn, Bind, Unbind
  <1> QED
    BY <1>1, <1>2, <1>3, <1>4, <1>5, OpArguments
=============================================================================
