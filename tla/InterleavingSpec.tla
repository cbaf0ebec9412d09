-------------------------- MODULE InterleavingSpec --------------------------
(***************************************************************************)
(* The host-call protocol of one transaction, as the repository's own      *)
(* Quint machine states it and as traces of Step events are replayed       *)
(* against it (src/starstream-interleaving-spec).  A coordination script   *)
(* creates UTXOs and calls their methods; a UTXO suspends itself with      *)
(* yield, after which it registers the methods it will answer to.  Each    *)
(* action is one Step.                                                     *)
(***************************************************************************)
EXTENDS Integers, Sequences, FiniteSets, SequencesExt

CONSTANTS
    Methods,        \* method hashes
    Values,         \* argument and result values; only equality matters
    ValidValues,    \* values whose limbs fit in 32 bits
    Handles,        \* resource handles of a coordination script
    MaxUtxos,       \* bound on the UTXOs of a transaction
    Unit,           \* the empty value List()
    NoMethod,       \* expected_method: None
    NoKey           \* pending_ctor_key: None

ASSUME InterleavingAssumption ==
    /\ Unit \in Values
    /\ ValidValues \subseteq Values
    /\ MaxUtxos \in Nat
    /\ NoMethod \notin Methods

Coord(n) == <<"coord", n>>
Utxo(n) == <<"utxo", n>>
Coords == {Coord(0), Coord(1)}
Utxos == {Utxo(n) : n \in 0 .. (MaxUtxos - 1)}
CoroutineId == Coords \cup Utxos

is_utxo(cid) == cid[1] = "utxo"
is_coord(cid) == ~is_utxo(cid)

ResourceKey == [holder : CoroutineId, handle : Handles]

ASSUME NoKeyAssumption == NoKey \notin ResourceKey

VARIABLES
    curr,               \* the coroutine that runs
    call_stack,         \* frames of the calls in progress
    curr_cid_phase,     \* what the running coroutine has to do next
    utxo_lifecycle,     \* UTXO -> Live or Consumed, for those created
    next_utxo_id,
    enabled_methods,    \* UTXO -> the methods it answers to
    resource_resolver,  \* handle of a script -> UTXO
    pending_ctor_key,   \* the handle a running constructor will be known by
    entered             \* history: the running call's enter step was taken

vars == <<curr, call_stack, curr_cid_phase, utxo_lifecycle, next_utxo_id, enabled_methods,
          resource_resolver, pending_ctor_key, entered>>

Put(f, k, v) == [x \in DOMAIN f \cup {k} |-> IF x = k THEN v ELSE f[x]]

Init ==
    /\ curr = Coord(1)
    /\ call_stack = <<[caller |-> Coord(0), expected_arguments |-> Unit,
                       expected_result |-> Unit, expected_method |-> NoMethod]>>
    /\ curr_cid_phase = "Executing"
    /\ utxo_lifecycle = [u \in {} |-> "Live"]
    /\ next_utxo_id = 0
    /\ enabled_methods = [u \in {} |-> {}]
    /\ resource_resolver = [k \in {} |-> Coord(0)]
    /\ pending_ctor_key = NoKey
    /\ entered = TRUE

\* What the phase of the running coroutine lets it do.
action_allowed(op) ==
    /\ curr_cid_phase = "CtorEnterPending" => op = "EnterConstructor"
    /\ curr_cid_phase = "MethodEnterPending" => op = "EnterMethod"
    /\ curr_cid_phase = "Yield" => op \in {"RegisterMethod", "Return"}

MayCreate == is_coord(curr) /\ Len(call_stack) > 0

new_utxo(arguments, handle) ==
    LET target == Utxo(next_utxo_id) IN
    /\ next_utxo_id < MaxUtxos
    /\ action_allowed("NewUtxo")
    /\ MayCreate
    /\ curr' = target
    /\ call_stack' = Append(call_stack,
            [caller |-> curr, expected_arguments |-> arguments,
             expected_result |-> Unit, expected_method |-> NoMethod])
    /\ curr_cid_phase' = "CtorEnterPending"
    /\ utxo_lifecycle' = Put(utxo_lifecycle, target, "Live")
    /\ next_utxo_id' = next_utxo_id + 1
    /\ enabled_methods' = Put(enabled_methods, target, {})
    /\ pending_ctor_key' = [holder |-> curr, handle |-> handle]
    /\ entered' = FALSE
    /\ UNCHANGED resource_resolver

enter_constructor(arguments) ==
    /\ action_allowed("EnterConstructor")
    /\ is_utxo(curr)
    /\ arguments \in ValidValues
    /\ Last(call_stack).expected_arguments = arguments
    /\ pending_ctor_key # NoKey
    /\ curr_cid_phase' = "Executing"
    /\ entered' = TRUE
    /\ UNCHANGED <<curr, call_stack, utxo_lifecycle, next_utxo_id, enabled_methods,
                   resource_resolver, pending_ctor_key>>

\* A suspension starts from an empty set of methods.
yield_begin ==
    /\ action_allowed("YieldBegin")
    /\ is_utxo(curr)
    /\ curr_cid_phase = "Executing"
    /\ curr_cid_phase' = "Yield"
    /\ enabled_methods' = [enabled_methods EXCEPT ![curr] = {}]
    /\ UNCHANGED <<curr, call_stack, utxo_lifecycle, next_utxo_id, resource_resolver,
                   pending_ctor_key, entered>>

register_method(method) ==
    /\ action_allowed("RegisterMethod")
    /\ is_utxo(curr)
    /\ curr_cid_phase = "Yield"
    /\ method \notin enabled_methods[curr]
    /\ enabled_methods' = [enabled_methods EXCEPT ![curr] = @ \cup {method}]
    /\ UNCHANGED <<curr, call_stack, curr_cid_phase, utxo_lifecycle, next_utxo_id,
                   resource_resolver, pending_ctor_key, entered>>

\* Mutant: a UTXO that did not yield stays live.
LifecycleAfter_OnYield(utxo) ==
    IF curr_cid_phase = "Yield" /\ enabled_methods[utxo] = {} THEN "Consumed" ELSE "Live"

\* A UTXO that returns with no method registered is consumed.
LifecycleAfter(utxo) == IF enabled_methods[utxo] = {} THEN "Consumed" ELSE "Live"

KeyAfterReturn == NoKey

return(result) ==
    LET frame == Last(call_stack) IN
    /\ action_allowed("Return")
    /\ Len(call_stack) > 0
    /\ frame.expected_result = result
    /\ curr' = frame.caller
    /\ resource_resolver' =
            IF pending_ctor_key = NoKey THEN resource_resolver
            ELSE Put(resource_resolver, pending_ctor_key, curr)
    /\ call_stack' = Front(call_stack)
    /\ pending_ctor_key' = KeyAfterReturn
    /\ utxo_lifecycle' =
            IF is_utxo(curr) THEN [utxo_lifecycle EXCEPT ![curr] = LifecycleAfter(curr)]
            ELSE utxo_lifecycle
    /\ curr_cid_phase' = "Executing"
    /\ entered' = TRUE
    /\ UNCHANGED <<next_utxo_id, enabled_methods>>

\* Mutant: a handle is all it takes.
Callable_ByHandle(target, method) == target \in DOMAIN utxo_lifecycle

Callable(target, method) ==
    method \in enabled_methods[target] /\ utxo_lifecycle[target] = "Live"

call_method(handle, method, arguments, result) ==
    LET key == [holder |-> curr, handle |-> handle]
        target == resource_resolver[key]
    IN
    /\ action_allowed("CallMethod")
    /\ is_coord(curr)
    /\ curr_cid_phase = "Executing"
    /\ key \in DOMAIN resource_resolver
    /\ Callable(target, method)
    /\ curr' = target
    /\ call_stack' = Append(call_stack,
            [caller |-> curr, expected_arguments |-> arguments,
             expected_result |-> result, expected_method |-> method])
    /\ entered' = FALSE
    /\ UNCHANGED <<curr_cid_phase, utxo_lifecycle, next_utxo_id, enabled_methods,
                   resource_resolver, pending_ctor_key>>

enter_method(method, arguments) ==
    /\ action_allowed("EnterMethod")
    /\ is_utxo(curr)
    /\ Len(call_stack) > 0
    /\ Last(call_stack).expected_arguments = arguments
    /\ Last(call_stack).expected_method = method
    /\ entered' = TRUE
    /\ UNCHANGED <<curr, call_stack, curr_cid_phase, utxo_lifecycle, next_utxo_id,
                   enabled_methods, resource_resolver, pending_ctor_key>>

execution_complete == is_coord(curr) /\ call_stack = <<>> /\ UNCHANGED vars

Next ==
    \/ \E a \in Values, h \in Handles : new_utxo(a, h)
    \/ \E a \in Values : enter_constructor(a)
    \/ yield_begin
    \/ \E m \in Methods : register_method(m)
    \/ \E v \in Values : return(v)
    \/ \E h \in Handles, m \in Methods, a \in Values, v \in Values : call_method(h, m, a, v)
    \/ \E m \in Methods, a \in Values : enter_method(m, a)
    \/ execution_complete

Spec == Init /\ [][Next]_vars

-----------------------------------------------------------------------------
Created == {Utxo(n) : n \in 0 .. (next_utxo_id - 1)}

\* A UTXO at rest is live exactly when somebody can still call it: return
\* decides the lifecycle from the methods registered since the last yield.
LiveIffCallable ==
    \A u \in Created \ {curr} : utxo_lifecycle[u] = "Live" <=> enabled_methods[u] # {}

\* A consumed UTXO stays consumed, whichever handles still name it.
consumed_utxo_stays_consumed ==
    [][\A u \in Created :
        utxo_lifecycle[u] = "Consumed" => utxo_lifecycle'[u] = "Consumed"]_vars

=============================================================================
