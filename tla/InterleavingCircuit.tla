------------------------ MODULE InterleavingCircuit ------------------------
(***************************************************************************)
(* The proof circuit of the legacy interleaving proof crate, next to the   *)
(* verifier whose checks it has to express.  The prover interleaves the    *)
(* host calls (make_interleaved_trace), computes the memory of every step  *)
(* outside the circuit (trace_memory_ops) and then synthesizes one step    *)
(* circuit per host call (make_step_circuit), whose constraints must hold. *)
(*                                                                         *)
(* Verifier, interleaver and circuit keep their own copy of the control    *)
(* state.  A step of this module replays one host call in all three, as    *)
(* long as verifier and circuit both take it; Provable and                 *)
(* ProvedIsAccepted compare what the two take in every state so reached.   *)
(* The prover is honest throughout: every wire that is a witness has the   *)
(* value the code computes for it.  Field elements are                     *)
(* natural numbers where 0 also stands for "none" (activation, init) and   *)
(* optional values where the code encodes OptionalF.  Addresses of the ref *)
(* arena count words, the batches of four elements of the code.            *)
(***************************************************************************)
EXTENDS InterleavingVerifier

CONSTANTS
    Pid0,           \* the first entry of the process table
    MaxInstalls     \* handlers a transaction installs: nodes of the arena

ASSUME CircuitAssumption ==
    /\ \A t \in Transactions : Pid0 \in t.inputs \cup t.new_outputs \cup t.scripts
    /\ MaxInstalls \in Nat

VARIABLES
    il,             \* the interleaver: its own id_curr, on_yield, yield_to, handler_stack
    irw,            \* wires that go from one step to the next
    ps,             \* per-process memory
    heads, nodes,   \* interface -> head of its handler stack; arena of stack nodes
    sizes, bases, arena     \* size and base of a ref; contents of all refs

circuit == <<irw, ps, heads, nodes, sizes, bases, arena>>
cvars == <<vars, il, circuit>>

\* OptionalF::decode_or_zero
decode_or_zero(p) == IF p = None THEN Pid0 ELSE p

\* What a memory read gives when its switch is off.
dummy ==
    [expected_input |-> None, expected_resumer |-> None, on_yield |-> FALSE, yield_to |-> None,
     activation |-> 0, init |-> 0, init_caller |-> Pid0, initialized |-> FALSE,
     finalized |-> FALSE, did_burn |-> FALSE, ownership |-> None, must_enter |-> None,
     must_exit |-> FALSE]

InitialState(p) ==
    [dummy EXCEPT !.on_yield = TRUE,
                  !.initialized = p \in Inputs \cup {Entrypoint},
                  !.ownership = IF p \in Utxos THEN OwnershipIn[p] ELSE None]

InitHandlerMemory ==
    /\ heads = [i \in Interfaces |-> 0]
    /\ nodes = [n \in 0 .. (MaxInstalls - 1) |-> [process |-> Pid0, next |-> 0]]

InitRefMemory ==
    /\ sizes = [r \in Refs |-> 0]
    /\ bases = [r \in Refs |-> 0]
    /\ arena = [a \in 0 .. (MaxRefs * MaxWords - 1) |-> ZeroWord]

InterRoundInit ==
    [id_curr |-> Entrypoint, id_prev |-> None, next_ref_id |-> 0, ref_arena_len |-> 0,
     handler_stack_counter |-> 0, ref_building_remaining |-> 0, ref_building_ptr |-> 0]

CircuitInit ==
    /\ Init
    /\ il = [id_curr |-> Entrypoint, on_yield |-> on_yield, yield_to |-> yield_to,
             handler_stack |-> handler_stack]
    /\ irw = InterRoundInit
    /\ ps = [p \in Procs |-> InitialState(p)]
    /\ InitHandlerMemory
    /\ InitRefMemory

-----------------------------------------------------------------------------
(* Which memory an operation touches (get_config)                          *)

NewProcess == {"NewUtxo", "NewToken", "NewCoord"}
HandlerOps == {"InstallHandler", "UninstallHandler", "GetHandlerFor", "CallEffectHandler"}

MemSwitchesCurr(op) ==
    CASE op \in {"Resume", "CallEffectHandler"} ->
            {"activation", "expected_input", "expected_resumer", "must_exit"}
      [] op = "Enter" -> {"must_enter", "must_exit"}
      [] op \in {"Yield", "Return"} ->
            {"activation", "on_yield", "yield_to", "finalized", "must_exit"}
      [] op = "Burn" -> {"activation", "did_burn", "initialized", "must_exit"}
      [] op = "Activation" -> {"activation"}
      [] op = "Init" -> {"init", "init_caller"}
      [] op = "Bind" -> {"ownership"}
      [] OTHER -> {}

MemSwitchesTarget(op) ==
    CASE op = "Resume" ->
            {"activation", "expected_input", "expected_resumer", "on_yield", "yield_to",
             "finalized", "initialized", "must_enter", "must_exit"}
      [] op = "CallEffectHandler" ->
            {"activation", "expected_input", "expected_resumer", "finalized", "must_enter",
             "must_exit"}
      [] op = "Yield" -> {"expected_input", "expected_resumer", "must_enter"}
      [] op \in NewProcess ->
            {"initialized", "init", "init_caller", "expected_input", "expected_resumer",
             "on_yield", "yield_to"}
      [] op = "Bind" -> {"initialized"}
      [] op = "Unbind" -> {"ownership"}
      [] OTHER -> {}

\* Operations that read the read-only memory (kind, program hash) of the target.
RomSwitchesTarget == NewProcess \cup {"Resume", "ProgramHash", "Bind", "Unbind"}

Read(p, switches) ==
    [f \in DOMAIN dummy |-> IF f \in switches THEN ps[p][f] ELSE dummy[f]]

Write(mem, p, switches, state) ==
    [mem EXCEPT ![p] = [f \in DOMAIN dummy |-> IF f \in switches THEN state[f] ELSE @[f]]]

-----------------------------------------------------------------------------
(* Handler stacks: linked lists in an arena (handler_stack_gadget)         *)

\* The process in the node at the head.  An empty stack has head 0, which is
\* also the first node.
NodeProcess(o) ==
    IF o.op \in {"CallEffectHandler", "UninstallHandler", "GetHandlerFor"}
    THEN nodes[heads[o.interface]].process ELSE Pid0

HandlerStackOps(o) ==
    IF o.op = "InstallHandler" THEN
        /\ nodes' = [nodes EXCEPT ![irw.handler_stack_counter] =
                        [process |-> irw.id_curr, next |-> heads[o.interface]]]
        /\ heads' = [heads EXCEPT ![o.interface] = irw.handler_stack_counter]
    ELSE IF o.op = "UninstallHandler" THEN
        /\ heads' = [heads EXCEPT ![o.interface] = nodes[@].next]
        /\ UNCHANGED nodes
    ELSE UNCHANGED <<heads, nodes>>

(* Refs: sizes, bases and one arena (ref_arena_gadget)                     *)

RefArenaOps(o) ==
    CASE o.op = "NewRef" ->
            /\ sizes' = [sizes EXCEPT ![o.ret] = o.size]
            /\ bases' = [bases EXCEPT ![o.ret] = irw.ref_arena_len]
            /\ UNCHANGED arena
      [] o.op = "RefPush" ->
            /\ arena' = [arena EXCEPT ![irw.ref_building_ptr] = o.word]
            /\ UNCHANGED <<sizes, bases>>
      [] o.op = "RefWrite" ->
            /\ arena' = [arena EXCEPT ![bases[o.val] + o.offset] = o.word]
            /\ UNCHANGED <<sizes, bases>>
      [] OTHER -> UNCHANGED <<sizes, bases, arena>>

\* Mutant: the offset after the last word is in range.
RefInRange_OffByOne(o) == o.offset <= sizes[o.val]

\* size - (offset + 1) fits into 16 bits, so it is not negative.
RefInRange(o) == o.offset + 1 <= sizes[o.val]

-----------------------------------------------------------------------------
(* The values the prover computes (program_state_transitions)              *)

\* Mutant: a resumed process keeps the claims it was suspended with.
ResumeWrites_ClaimsKept(o, c, t) ==
    [curr |-> [c EXCEPT !.activation = 0, !.expected_input = o.ret,
                        !.expected_resumer = o.caller, !.must_exit = FALSE],
     target |-> [t EXCEPT !.activation = o.val, !.finalized = FALSE,
                          !.yield_to = IF t.on_yield /\ ~is_utxo(irw.id_curr)
                                       THEN irw.id_curr ELSE @,
                          !.on_yield = FALSE, !.must_enter = o.f]]

ResumeWrites(o, c, t) ==
    [curr |-> [c EXCEPT !.activation = 0, !.expected_input = o.ret,
                        !.expected_resumer = o.caller, !.must_exit = FALSE],
     target |-> [t EXCEPT !.expected_input = None, !.expected_resumer = None,
                          !.activation = o.val, !.finalized = FALSE,
                          !.yield_to = IF t.on_yield /\ ~is_utxo(irw.id_curr)
                                       THEN irw.id_curr ELSE @,
                          !.on_yield = FALSE, !.must_enter = o.f]]

CallWrites(o, c, t, handler) ==
    [curr |-> [c EXCEPT !.activation = 0, !.expected_input = o.ret,
                        !.expected_resumer = handler, !.must_exit = FALSE],
     target |-> [t EXCEPT !.expected_input = None, !.expected_resumer = None,
                          !.activation = o.val, !.finalized = FALSE, !.must_enter = o.f]]

CreateWrites(o, c, t) ==
    [curr |-> c,
     target |-> [t EXCEPT !.initialized = TRUE, !.init = o.val, !.init_caller = irw.id_curr,
                          !.expected_input = None, !.expected_resumer = None,
                          !.on_yield = TRUE, !.yield_to = None]]

program_state_transitions(o, c, t, handler) ==
    CASE o.op = "Resume" -> ResumeWrites(o, c, t)
      [] o.op = "CallEffectHandler" -> CallWrites(o, c, t, handler)
      [] o.op = "Enter" ->
            [curr |-> [c EXCEPT !.must_enter = None, !.must_exit = TRUE], target |-> t]
      [] o.op = "Yield" ->
            [curr |-> [c EXCEPT !.activation = 0, !.finalized = TRUE, !.on_yield = TRUE,
                                !.must_exit = FALSE], target |-> t]
      [] o.op = "Return" ->
            [curr |-> [c EXCEPT !.activation = 0, !.finalized = TRUE, !.must_exit = FALSE],
             target |-> t]
      [] o.op = "Burn" -> [curr |-> [c EXCEPT !.did_burn = TRUE], target |-> t]
      [] o.op \in NewProcess -> CreateWrites(o, c, t)
      [] o.op = "Bind" -> [curr |-> [c EXCEPT !.ownership = o.target], target |-> t]
      [] o.op = "Unbind" -> [curr |-> c, target |-> [t EXCEPT !.ownership = None]]
      [] OTHER -> [curr |-> c, target |-> t]

\* The process whose memory the prover traces as the target of o, 0 for most.
TracedTarget(o, c) ==
    CASE o.op \in NewProcess \cup {"Resume", "ProgramHash", "Unbind"} -> o.target
      [] o.op = "CallEffectHandler" -> NodeProcess(o)
      [] o.op \in {"Yield", "Return"} -> decode_or_zero(c.yield_to)
      [] OTHER -> Pid0

\* The process whose memory the circuit addresses: its first argument unless
\* the operation returns or calls a handler.
TargetAddress(o, c) ==
    CASE o.op \in {"Yield", "Return"} -> decode_or_zero(c.yield_to)
      [] o.op = "CallEffectHandler" -> NodeProcess(o)
      [] OTHER -> o.target

\* Reads and writes of a step, in the order of from_irw: current process,
\* handler stack, target.
Wires(o) ==
    LET c == Read(irw.id_curr, MemSwitchesCurr(o.op))
        target == TracedTarget(o, c)
        t == Read(target, MemSwitchesTarget(o.op))
        w == program_state_transitions(o, c, t, NodeProcess(o))
    IN  [curr |-> c, target |-> t, target_id |-> target, address |-> TargetAddress(o, c),
         curr_write |-> w.curr, target_write |-> w.target, node |-> NodeProcess(o)]

\* The memory argument replays the traced operations at the addresses of the
\* circuit: an address that was not traced stops the prover.
TracedInLockstep(o, w) ==
    MemSwitchesTarget(o.op) # {} \/ o.op \in RomSwitchesTarget => w.address = w.target_id

-----------------------------------------------------------------------------
(* The constraints of the step circuit (make_step_circuit)                 *)

conditional_enforce_eq_if_some(expected, value) == expected \in {None, value}

visit_resume(o, w) ==
    /\ irw.id_curr # o.target
    /\ ~is_utxo(irw.id_curr)
    /\ w.target.initialized
    /\ w.target.activation = 0
    /\ conditional_enforce_eq_if_some(w.target.expected_input, o.val)
    /\ conditional_enforce_eq_if_some(w.target.expected_resumer, irw.id_curr)
    /\ w.target_write.yield_to =
            IF w.target.on_yield THEN irw.id_curr ELSE w.target.yield_to
    /\ ~w.target_write.on_yield
    /\ w.target_write.expected_input = None /\ w.target_write.expected_resumer = None
    /\ w.curr_write.expected_resumer = o.caller
    /\ ~w.curr_write.must_exit

\* must_enter is read for Enter only.
visit_pending_enter(o, w) == w.curr.must_enter # None <=> o.op = "Enter"

visit_call_effect_handler(o, w) ==
    /\ irw.id_curr # w.node
    /\ w.target.activation = 0
    /\ conditional_enforce_eq_if_some(w.target.expected_input, o.val)
    /\ conditional_enforce_eq_if_some(w.target.expected_resumer, irw.id_curr)
    /\ w.target_write.expected_input = None /\ w.target_write.expected_resumer = None
    /\ w.curr_write.expected_resumer = w.node
    /\ ~w.curr_write.must_exit

visit_enter(o, w) ==
    /\ w.curr.must_enter = o.f
    /\ ~w.curr.must_exit
    /\ w.curr_write.must_enter = None /\ w.curr_write.must_exit

\* The read-only memory of must_burn has the inputs only.
visit_burn(o, w) ==
    /\ is_utxo(irw.id_curr) /\ w.curr.initialized
    /\ irw.id_curr \in Inputs \cap MustBurn

visit_yield(o, w) ==
    /\ is_utxo(irw.id_curr)
    /\ w.curr.yield_to # None
    /\ conditional_enforce_eq_if_some(w.target.expected_input, o.val)
    /\ conditional_enforce_eq_if_some(w.target.expected_resumer, irw.id_curr)
    /\ w.target_write = w.target
    /\ w.curr_write.finalized /\ w.curr_write.on_yield
    /\ w.curr_write.yield_to = w.curr.yield_to
    /\ ~w.curr_write.must_exit

visit_return(o, w) ==
    /\ ~is_utxo(irw.id_curr)
    /\ w.curr_write.finalized /\ w.curr_write.activation = 0 /\ ~w.curr_write.must_exit

visit_new_process(o, w) ==
    /\ ~is_utxo(irw.id_curr)
    /\ is_utxo(o.target) <=> o.op \in {"NewUtxo", "NewToken"}
    /\ o.op # "NewCoord" => (is_token(o.target) <=> o.op = "NewToken")
    /\ ~w.target.initialized /\ w.target_write.initialized

check_activation(o, w) ==
    w.curr.activation = o.val /\ decode_or_zero(irw.id_prev) = o.caller

check_init(o, w) == w.curr.init = o.val /\ w.curr.init_caller = o.caller

visit_bind(o, w) ==
    /\ is_utxo(irw.id_curr) /\ is_utxo(o.target) /\ w.target.initialized
    /\ w.curr.ownership = None
    /\ w.curr_write.ownership = o.target

visit_unbind(o, w) ==
    /\ is_utxo(irw.id_curr) /\ is_utxo(o.target)
    /\ w.target.ownership = irw.id_curr
    /\ w.target_write.ownership = None

visit_new_ref(o) == irw.ref_building_remaining = 0 /\ o.ret = irw.next_ref_id

visit_ref_push(o) == irw.ref_building_remaining # 0

visit_ref_get(o) == RefInRange(o) /\ arena[bases[o.val] + o.offset] = o.word

visit_install_handler(o) == ~is_utxo(irw.id_curr)

visit_uninstall_handler(o, w) == ~is_utxo(irw.id_curr) /\ irw.id_curr = w.node

visit_get_handler_for(o, w) == o.handler = w.node

\* While a ref is being filled only RefPush is possible, and only then.
ref_building_mode(o) == irw.ref_building_remaining # 0 <=> o.op = "RefPush"

\* make_step_circuit is satisfied for operation o by the wires the prover
\* computes.
Satisfied(o) ==
    LET w == Wires(o) IN
    /\ TracedInLockstep(o, w)
    /\ visit_pending_enter(o, w)
    /\ ref_building_mode(o)
    /\ CASE o.op = "Resume" -> visit_resume(o, w)
         [] o.op = "CallEffectHandler" -> visit_call_effect_handler(o, w)
         [] o.op = "Enter" -> visit_enter(o, w)
         [] o.op = "Yield" -> visit_yield(o, w)
         [] o.op = "Return" -> visit_return(o, w)
         [] o.op = "Burn" -> visit_burn(o, w)
         [] o.op \in NewProcess -> visit_new_process(o, w)
         [] o.op = "Activation" -> check_activation(o, w)
         [] o.op = "Init" -> check_init(o, w)
         [] o.op = "Bind" -> visit_bind(o, w)
         [] o.op = "Unbind" -> visit_unbind(o, w)
         [] o.op = "NewRef" -> visit_new_ref(o)
         [] o.op = "RefPush" -> visit_ref_push(o)
         [] o.op = "RefGet" -> visit_ref_get(o)
         [] o.op = "RefWrite" -> RefInRange(o)
         [] o.op = "InstallHandler" -> visit_install_handler(o)
         [] o.op = "UninstallHandler" -> visit_uninstall_handler(o, w)
         [] o.op = "GetHandlerFor" -> visit_get_handler_for(o, w)
         [] o.op \in {"ProgramHash", "Nop"} -> TRUE

AllocateRef(o, round) ==
    [round EXCEPT !.ref_building_remaining = o.size, !.ref_building_ptr = irw.ref_arena_len,
                  !.next_ref_id = @ + 1, !.ref_arena_len = @ + o.size]

\* The wires handed to the next step, as the visits leave them.
NextRound(o, w) ==
    LET to == CASE o.op \in {"Resume", "CallEffectHandler", "Yield"} -> w.target_id
                [] o.op = "Return" /\ w.curr.yield_to # None -> w.target_id
                [] OTHER -> None
        jump == [irw EXCEPT !.id_curr = IF to = None THEN @ ELSE to,
                            !.id_prev = IF to = None THEN @ ELSE irw.id_curr]
    IN  CASE o.op = "NewRef" -> AllocateRef(o, jump)
          [] o.op = "RefPush" ->
                [jump EXCEPT !.ref_building_remaining = @ - 1, !.ref_building_ptr = @ + 1]
          [] o.op = "InstallHandler" -> [jump EXCEPT !.handler_stack_counter = @ + 1]
          [] OTHER -> jump

CircuitStep(o) ==
    LET w == Wires(o) IN
    /\ ps' = Write(Write(ps, irw.id_curr, MemSwitchesCurr(o.op), w.curr_write),
                   w.target_id, MemSwitchesTarget(o.op), w.target_write)
    /\ irw' = NextRound(o, w)
    /\ HandlerStackOps(o)
    /\ RefArenaOps(o)

-----------------------------------------------------------------------------
(* The interleaver (make_interleaved_trace)                                *)

\* Mutant: the interleaver forgets that a process yielded.
make_interleaved_trace_StaleYield(o) ==
    CASE o.op = "Resume" ->
            LET adopts == il.on_yield[o.target] /\ ~is_utxo(il.id_curr) IN
            [il EXCEPT !.id_curr = o.target,
                       !.yield_to[o.target] = IF adopts THEN il.id_curr ELSE @,
                       !.on_yield[o.target] = IF adopts THEN FALSE ELSE @]
      [] o.op \in {"Yield", "Return"} ->
            IF il.yield_to[il.id_curr] = None THEN il
            ELSE [il EXCEPT !.id_curr = il.yield_to[il.id_curr]]
      [] o.op = "CallEffectHandler" -> [il EXCEPT !.id_curr = Last(il.handler_stack[o.interface])]
      [] o.op = "InstallHandler" -> [il EXCEPT !.handler_stack[o.interface] = Append(@, il.id_curr)]
      [] o.op = "UninstallHandler" -> [il EXCEPT !.handler_stack[o.interface] = Front(@)]
      [] OTHER -> il

make_interleaved_trace(o) ==
    CASE o.op = "Resume" ->
            LET adopts == il.on_yield[o.target] /\ ~is_utxo(il.id_curr) IN
            [il EXCEPT !.id_curr = o.target,
                       !.yield_to[o.target] = IF adopts THEN il.id_curr ELSE @,
                       !.on_yield[o.target] = IF adopts THEN FALSE ELSE @]
      [] o.op = "Yield" ->
            [il EXCEPT !.on_yield[il.id_curr] = TRUE,
                       !.id_curr = IF il.yield_to[@] = None THEN @ ELSE il.yield_to[@]]
      [] o.op = "Return" ->
            [il EXCEPT !.id_curr = IF il.yield_to[@] = None THEN @ ELSE il.yield_to[@]]
      [] o.op = "CallEffectHandler" -> [il EXCEPT !.id_curr = Last(il.handler_stack[o.interface])]
      [] o.op = "InstallHandler" -> [il EXCEPT !.handler_stack[o.interface] = Append(@, il.id_curr)]
      [] o.op = "UninstallHandler" -> [il EXCEPT !.handler_stack[o.interface] = Front(@)]
      [] OTHER -> il

-----------------------------------------------------------------------------
(* Host calls, as the verifier sees them and as the circuit does           *)

\* ledger_operation_from_wit: an unresolved ret becomes ref 0.
FromWit(o) ==
    IF o.op \in {"Resume", "CallEffectHandler"} /\ o.ret = None
    THEN [o EXCEPT !.ret = 0] ELSE o

Ops ==
    [op : {"Resume"}, target : Procs, f : Functions, val : Refs, ret : Option(Refs),
     caller : Option(Procs)]
    \cup [op : {"CallEffectHandler"}, interface : Interfaces, f : Functions, val : Refs,
          ret : Option(Refs)]
    \cup [op : {"Enter"}, f : Functions, target : {Pid0}]
    \cup [op : {"Yield"}, val : Refs]
    \cup [op : {"Return"}]
    \cup [op : {"Burn"}, target : {Pid0}]
    \cup [op : NewProcess, target : Procs, val : Refs]
    \cup [op : {"Activation", "Init"}, val : Refs, caller : Procs, target : {Pid0}]
    \cup [op : {"Bind", "Unbind", "ProgramHash"}, target : Procs]
    \cup [op : {"NewRef"}, size : 0 .. MaxWords, ret : Refs, target : {Pid0}]
    \cup [op : {"RefPush"}, word : Words, target : {Pid0}]
    \cup [op : {"RefGet", "RefWrite"}, val : Refs, offset : 0 .. (MaxWords - 1), word : Words,
          target : {Pid0}]
    \cup [op : {"InstallHandler", "UninstallHandler"}, interface : Interfaces, target : {Pid0}]
    \cup [op : {"GetHandlerFor"}, interface : Interfaces, handler : Procs, target : {Pid0}]

\* The host call as an action of the verifier, its recorded results included.
HostStep(o) ==
    /\ verdict' = "Running"
    /\ CASE o.op = "Resume" -> Resume(o.target, o.f, o.val, o.ret, o.caller)
         [] o.op = "CallEffectHandler" -> CallEffectHandler(o.interface, o.f, o.val, o.ret)
         [] o.op = "Enter" -> Enter(o.f)
         [] o.op = "Yield" -> Yield(o.val)
         [] o.op = "Return" -> Return
         [] o.op = "Burn" -> Burn
         [] o.op = "NewUtxo" -> NewUtxo(o.target, o.val)
         [] o.op = "NewToken" -> NewToken(o.target, o.val)
         [] o.op = "NewCoord" -> NewCoord(o.target, o.val)
         [] o.op = "Activation" -> Activation /\ activation[id_curr] = <<o.val, o.caller>>
         [] o.op = "Init" -> InitCall(o.val, o.caller)
         [] o.op = "Bind" -> Bind(o.target)
         [] o.op = "Unbind" -> Unbind(o.target)
         [] o.op = "ProgramHash" -> ProgramHash(o.target)
         [] o.op = "NewRef" -> o.ret = Len(ref_store) /\ NewRef(o.size)
         [] o.op = "RefPush" -> RefPush(o.word)
         [] o.op = "RefGet" -> RefGet(o.val, o.offset) /\ ref_content(o.val)[o.offset + 1] = o.word
         [] o.op = "RefWrite" -> RefWrite(o.val, o.offset, o.word)
         [] o.op = "InstallHandler" -> InstallHandler(o.interface)
         [] o.op = "UninstallHandler" -> UninstallHandler(o.interface)
         [] o.op = "GetHandlerFor" ->
                GetHandlerFor(o.interface) /\ Last(handler_stack[o.interface]) = o.handler

\* The verifier takes host call o next.  An arm of state_transition is what it
\* checks and then assignments, so it takes o exactly when the checks hold.
Accepts(o) ==
    CASE o.op = "Resume" -> MayResume(o.target, o.val)
      [] o.op = "CallEffectHandler" -> MayCallHandler(o.interface, o.val)
      [] o.op = "Enter" -> MayEnter(o.f)
      [] o.op = "Yield" -> MayYield(o.val)
      [] o.op = "Return" -> MayReturn
      [] o.op = "Burn" -> HostCall /\ is_utxo(id_curr) /\ id_curr \in MustBurn
      [] o.op \in NewProcess ->
            /\ MayCreate(o.target)
            /\ is_utxo(o.target) <=> o.op # "NewCoord"
            /\ o.op # "NewCoord" => (is_token(o.target) <=> o.op = "NewToken")
      [] o.op = "Activation" ->
            HostCall /\ activation[id_curr] # None /\ activation[id_curr] = <<o.val, o.caller>>
      [] o.op = "Init" ->
            HostCall /\ init[id_curr] # None /\ init[id_curr] = <<o.val, o.caller>>
      [] o.op = "Bind" -> MayBind(o.target)
      [] o.op = "Unbind" -> MayUnbind(o.target)
      [] o.op = "ProgramHash" -> HostCall
      [] o.op = "NewRef" -> HostCall /\ Len(ref_store) < MaxRefs /\ o.ret = Len(ref_store)
      [] o.op = "RefPush" -> MayPush
      [] o.op = "RefGet" -> MayAccess(o.val, o.offset) /\ ref_content(o.val)[o.offset + 1] = o.word
      [] o.op = "RefWrite" -> MayAccess(o.val, o.offset)
      [] o.op = "InstallHandler" ->
            /\ HostCall /\ ~is_utxo(id_curr)
            /\ Len(handler_stack[o.interface]) < MaxHandlers
      [] o.op = "UninstallHandler" -> MayUninstall(o.interface)
      [] o.op = "GetHandlerFor" ->
            /\ HostCall /\ handler_stack[o.interface] # <<>>
            /\ Last(handler_stack[o.interface]) = o.handler

\* The bounds of the model.
WithinBounds(o) ==
    /\ o.op = "NewRef" => Len(ref_store) < MaxRefs
    /\ o.op = "InstallHandler" =>
        /\ Len(handler_stack[o.interface]) < MaxHandlers
        /\ irw.handler_stack_counter < MaxInstalls

\* One host call of the trace, replayed, interleaved and proved.
Replay(o) ==
    /\ WithinBounds(o)
    /\ HostStep(o)
    /\ Satisfied(FromWit(o))
    /\ il' = make_interleaved_trace(o)
    /\ CircuitStep(FromWit(o))

\* trace_memory_ops pads the trace, which changes nothing.
Nop ==
    /\ Satisfied([op |-> "Nop", target |-> Pid0])
    /\ CircuitStep([op |-> "Nop", target |-> Pid0])
    /\ UNCHANGED <<vars, il>>

CircuitNext == (\E o \in Ops : Replay(o)) \/ Nop

CircuitSpec == CircuitInit /\ [][CircuitNext]_cvars

-----------------------------------------------------------------------------
\* The handlers installed for i, as the arena links them, newest first.
StackOf(i) ==
    LET walk[k \in 0 .. Len(handler_stack[i])] ==
            IF k = 0 THEN heads[i] ELSE nodes[walk[k - 1]].next
    IN  [k \in 1 .. Len(handler_stack[i]) |-> nodes[walk[k - 1]].process]

\* Verifier, interleaver and circuit are always in the same place with the
\* same frames, claims, owners, handlers and refs, although each of them
\* computes its own copy from the host calls alone.
CopiesAgree ==
    /\ id_curr = irw.id_curr /\ id_curr = il.id_curr
    /\ il.yield_to = yield_to /\ il.on_yield = on_yield /\ il.handler_stack = handler_stack
    /\ \A p \in Procs :
        /\ ps[p].on_yield = on_yield[p] /\ ps[p].yield_to = yield_to[p]
        /\ ps[p].initialized = initialized[p] /\ ps[p].finalized = finalized[p]
        /\ ps[p].did_burn = did_burn[p]
        /\ ps[p].must_enter = must_enter[p] /\ ps[p].must_exit = must_exit[p]
        /\ ps[p].expected_resumer = expected_resumer[p]
        /\ expected_input[p] # None => ps[p].expected_input = expected_input[p]
        /\ activation[p] # None => ps[p].activation = activation[p][1]
        /\ p \in Utxos => ps[p].ownership = ownership[p]
    /\ \A i \in Interfaces : StackOf(i) = Reverse(handler_stack[i])
    /\ \A r \in Refs : Known(r) =>
        /\ sizes[r] = Len(ref_content(r))
        /\ \A k \in 1 .. sizes[r] : arena[bases[r] + k - 1] = ref_content(r)[k]

\* What the circuit refuses although the verifier takes it: a resume by a
\* UTXO, a call of the own handler, a yield of another ref with the expected
\* contents, a claim that was never resolved, and an owner other than the
\* first process.
Narrower(o) ==
    \/ o.op = "Resume" /\ is_utxo(id_curr)
    \/ o.op = "CallEffectHandler" /\ Last(handler_stack[o.interface]) = id_curr
    \/ /\ o.op \in {"Resume", "CallEffectHandler", "Yield"}
       /\ LET t == Wires(FromWit(o)).target_id
          IN  \/ expected_input[t] = None /\ ps[t].expected_input # None
              \/ o.op = "Yield" /\ expected_input[t] \notin {None, o.val}
    \/ o.op = "Bind" /\ o.target # Pid0

\* Every host call that the verifier takes can be proved: the values that the
\* prover computes satisfy the constraints, apart from the calls that the
\* circuit supports more narrowly.
Provable ==
    \A o \in Ops :
        WithinBounds(o) /\ Accepts(o) => Satisfied(FromWit(o)) \/ Narrower(o)

\* Before a pending Enter the circuit takes any other host call as well: the
\* wire of must_enter is only read for Enter (MemSwitchesCurr), although the
\* comment in make_step_circuit says that no other opcode is valid then.
EnterPending(o) == must_enter[id_curr] # None /\ o.op # "Enter"

\* What the circuit lets pass although the verifier refuses it: a handler from
\* an emptied stack, an argument that was read before or never set, and the
\* yield of a ref that does not exist.
Wider(o) ==
    \/ o.op = "Yield" /\ ~Known(o.val)
    \/ o.op \in HandlerOps \ {"InstallHandler"} /\ handler_stack[o.interface] = <<>>
    \/ o.op = "Init" /\ init[id_curr] = None
    \/ o.op = "Activation" /\ activation[id_curr] = None

\* An honest prover proves nothing that the verifier refuses: with the wires,
\* switches and targets that from_irw and trace_memory_ops compute, a host call
\* that satisfies the circuit is one that the verifier takes.  (Which other
\* witnesses the constraints would admit is not modelled, so this is not the
\* soundness of the proof system.)
ProvedIsAccepted ==
    \A o \in Ops :
        WithinBounds(o) /\ ~EnterPending(o) /\ Satisfied(FromWit(o)) => Accepts(o) \/ Wider(o)
=============================================================================
