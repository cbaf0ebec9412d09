----------------------- MODULE InterleavingSpecProofs -----------------------
(***************************************************************************)
(* Safety of the Quint machine, for any number of UTXOs, methods, values   *)
(* and handles.                                                            *)
(***************************************************************************)
EXTENDS InterleavingSpec, SequenceTheorems, TLAPS

Frames == [caller : Coords, expected_arguments : Values, expected_result : Values,
           expected_method : Methods \cup {NoMethod}]

\* Every caller is a coordination script, and every handle names a UTXO.
Typed ==
    /\ next_utxo_id \in Nat
    /\ curr \in Coords \cup Created
    /\ call_stack \in Seq(Frames)
    /\ utxo_lifecycle \in [Created -> {"Live", "Consumed"}]
    /\ enabled_methods \in [Created -> SUBSET Methods]
    /\ \A k \in DOMAIN resource_resolver : resource_resolver[k] \in Created

\* Only a constructor has a handle pending, and only a live UTXO runs.
RunningInv ==
    /\ pending_ctor_key # NoKey => is_utxo(curr)
    /\ is_utxo(curr) => utxo_lifecycle[curr] = "Live"

Inv == Typed /\ RunningInv /\ LiveIffCallable

-----------------------------------------------------------------------------
LEMMA KindsDiffer ==
    /\ \A c \in Coords : is_coord(c) /\ ~is_utxo(c)
    /\ \A u \in Created : is_utxo(u)
  BY DEF Coords, Coord, Created, Utxo, is_utxo, is_coord

\* A script that runs is no UTXO.
LEMMA ScriptIsCoord ==
    ASSUME Typed, is_coord(curr)
    PROVE  curr \in Coords /\ curr \notin Created
  BY KindsDiffer DEF Typed, is_coord

LEMMA UtxoIsCreated ==
    ASSUME Typed, is_utxo(curr)
    PROVE  curr \in Created
  BY KindsDiffer DEF Typed, is_coord

\* The next UTXO is a new one.
LEMMA CreatedGrows ==
    ASSUME Typed, next_utxo_id' = next_utxo_id + 1
    PROVE  Created' = Created \cup {Utxo(next_utxo_id)} /\ Utxo(next_utxo_id) \notin Created
<1>1. next_utxo_id \in Nat
  BY DEF Typed
<1>2. 0 .. (next_utxo_id' - 1) = (0 .. (next_utxo_id - 1)) \cup {next_utxo_id}
  BY <1>1
<1>3. Created' = Created \cup {Utxo(next_utxo_id)}
  BY <1>2 DEF Created
<1>4. Utxo(next_utxo_id) \notin Created
  BY <1>1 DEF Created, Utxo
<1> QED
  BY <1>3, <1>4

LEMMA CreatedStays ==
    ASSUME UNCHANGED next_utxo_id PROVE Created' = Created
  BY DEF Created

LEMMA InvInit == Init => Inv
<1> SUFFICES ASSUME Init PROVE Inv
  OBVIOUS
<1>1. Created = {}
  BY DEF Created, Init
<1>2. curr \in Coords /\ is_coord(curr) /\ pending_ctor_key = NoKey
  BY KindsDiffer DEF Init, Coords
<1>3. call_stack \in Seq(Frames)
  <2>1. [caller |-> Coord(0), expected_arguments |-> Unit, expected_result |-> Unit,
         expected_method |-> NoMethod] \in Frames
    BY InterleavingAssumption DEF Frames, Coords
  <2> QED
    BY <2>1 DEF Init
<1>4. Typed
  BY <1>1, <1>2, <1>3 DEF Typed, Init
<1>5. RunningInv /\ LiveIffCallable
  BY <1>1, <1>2 DEF RunningInv, LiveIffCallable, is_coord
<1> QED
  BY <1>4, <1>5 DEF Inv

LEMMA PushFrame ==
    ASSUME Typed, NEW c \in Coords, NEW a \in Values, NEW v \in Values,
           NEW m \in Methods \cup {NoMethod}
    PROVE  Append(call_stack, [caller |-> c, expected_arguments |-> a, expected_result |-> v,
                               expected_method |-> m]) \in Seq(Frames)
  BY DEF Typed, Frames

LEMMA PopFrame ==
    ASSUME Typed, Len(call_stack) > 0
    PROVE  Last(call_stack).caller \in Coords /\ Front(call_stack) \in Seq(Frames)
<1>1. call_stack \in Seq(Frames) /\ Len(call_stack) \in Nat
  BY DEF Typed
<1>2. call_stack[Len(call_stack)] \in Frames
  BY <1>1
<1>3. SubSeq(call_stack, 1, Len(call_stack) - 1) \in Seq(Frames)
  BY <1>1
<1> QED
  BY <1>2, <1>3 DEF Last, Front, Frames

\* A script creates a UTXO, which starts to run.
LEMMA NewUtxoStep ==
    ASSUME Inv, NEW a \in Values, NEW h \in Handles, new_utxo(a, h)
    PROVE  Inv'
<1> DEFINE target == Utxo(next_utxo_id)
<1> USE DEF Inv
<1>1. curr \in Coords /\ curr \notin Created
  BY ScriptIsCoord DEF new_utxo, MayCreate
<1>2. Created' = Created \cup {target} /\ target \notin Created
  BY CreatedGrows DEF new_utxo
<1>3. call_stack' \in Seq(Frames)
  BY <1>1, PushFrame, InterleavingAssumption DEF new_utxo
<1>4. utxo_lifecycle' \in [Created' -> {"Live", "Consumed"}]
      /\ utxo_lifecycle'[target] = "Live" /\ \A u \in Created : utxo_lifecycle'[u] = utxo_lifecycle[u]
  BY <1>2 DEF new_utxo, Typed, Put
<1>5. enabled_methods' \in [Created' -> SUBSET Methods]
      /\ \A u \in Created : enabled_methods'[u] = enabled_methods[u]
  BY <1>2 DEF new_utxo, Typed, Put
<1>6. Typed'
  BY <1>2, <1>3, <1>4, <1>5 DEF new_utxo, Typed
<1>7. RunningInv'
  BY <1>4 DEF new_utxo, RunningInv, is_utxo, Utxo
<1>8. LiveIffCallable'
  BY <1>1, <1>2, <1>4, <1>5 DEF new_utxo, LiveIffCallable
<1> QED
  BY <1>6, <1>7, <1>8

\* Steps of a UTXO between its call and its return.
LEMMA YieldStep ==
    ASSUME Inv, yield_begin \/ \E m \in Methods : register_method(m)
    PROVE  Inv'
<1> USE DEF Inv
<1>1. Created' = Created
  BY CreatedStays DEF yield_begin, register_method
<1>2. curr \in Created /\ curr' = curr
  BY UtxoIsCreated DEF yield_begin, register_method
<1>3. \E S \in SUBSET Methods : enabled_methods' = [enabled_methods EXCEPT ![curr] = S]
  <2>1. CASE yield_begin
    BY <2>1 DEF yield_begin
  <2>2. ASSUME NEW m \in Methods, register_method(m)
        PROVE  \E S \in SUBSET Methods : enabled_methods' = [enabled_methods EXCEPT ![curr] = S]
    <3>1. enabled_methods[curr] \cup {m} \in SUBSET Methods
      BY <1>2 DEF Typed
    <3> QED
      BY <2>2, <3>1 DEF register_method
  <2> QED
    BY <2>1, <2>2
<1>4. UNCHANGED <<call_stack, utxo_lifecycle, next_utxo_id, resource_resolver, pending_ctor_key>>
  BY DEF yield_begin, register_method
<1>5. Typed'
  BY <1>1, <1>2, <1>3, <1>4 DEF Typed
<1>6. RunningInv' /\ LiveIffCallable'
  BY <1>1, <1>2, <1>3, <1>4 DEF RunningInv, LiveIffCallable, Typed
<1> QED
  BY <1>5, <1>6

\* A return decides the lifecycle of the UTXO that ran.
LEMMA ReturnStep ==
    ASSUME Inv, NEW v \in Values, return(v)
    PROVE  Inv'
<1> USE DEF Inv
<1>1. Created' = Created
  BY CreatedStays DEF return
<1>2. curr' \in Coords /\ call_stack' \in Seq(Frames)
  BY PopFrame DEF return
<1>3. curr' \notin Created /\ ~is_utxo(curr')
  BY <1>2, KindsDiffer
<1>4. pending_ctor_key' = NoKey /\ UNCHANGED enabled_methods
  BY DEF return, KeyAfterReturn
<1>5. \A k \in DOMAIN resource_resolver' : resource_resolver'[k] \in Created
  BY UtxoIsCreated DEF return, Put, Typed, RunningInv
<1>6. CASE is_utxo(curr)
  <2>1. curr \in Created
    BY <1>6, UtxoIsCreated
  <2>2. utxo_lifecycle' = [utxo_lifecycle EXCEPT ![curr] = LifecycleAfter(curr)]
    BY <1>6 DEF return
  <2>3. utxo_lifecycle' \in [Created -> {"Live", "Consumed"}]
        /\ (utxo_lifecycle'[curr] = "Live" <=> enabled_methods[curr] # {})
    BY <2>1, <2>2 DEF Typed, LifecycleAfter
  <2>4. \A u \in Created \ {curr} : utxo_lifecycle'[u] = utxo_lifecycle[u]
    BY <2>2 DEF Typed
  <2> QED
    BY <1>1, <1>2, <1>3, <1>4, <1>5, <2>3, <2>4
    DEF Typed, RunningInv, LiveIffCallable, return
<1>7. CASE ~is_utxo(curr)
  <2>1. curr \notin Created /\ UNCHANGED utxo_lifecycle
    BY <1>7, KindsDiffer DEF return
  <2> QED
    BY <1>1, <1>2, <1>3, <1>4, <1>5, <2>1 DEF Typed, RunningInv, LiveIffCallable, return
<1> QED
  BY <1>6, <1>7

\* A call goes to a live UTXO.
LEMMA CallStep ==
    ASSUME Inv, NEW h \in Handles, NEW m \in Methods, NEW a \in Values, NEW v \in Values,
           call_method(h, m, a, v)
    PROVE  Inv'
<1> USE DEF Inv
<1>1. Created' = Created
  BY CreatedStays DEF call_method
<1>2. curr \in Coords /\ curr \notin Created
  BY ScriptIsCoord DEF call_method
<1>3. curr' \in Created /\ utxo_lifecycle[curr'] = "Live"
  BY DEF call_method, Callable, Typed
<1>4. call_stack' \in Seq(Frames)
  BY <1>2, PushFrame DEF call_method
<1>5. UNCHANGED <<utxo_lifecycle, next_utxo_id, enabled_methods, resource_resolver, pending_ctor_key>>
  BY DEF call_method
<1>6. is_utxo(curr')
  BY <1>3, KindsDiffer
<1> QED
  BY <1>1, <1>2, <1>3, <1>4, <1>5, <1>6 DEF Typed, RunningInv, LiveIffCallable

LEMMA InvStep == Inv /\ [Next]_vars => Inv'
<1> SUFFICES ASSUME Inv, [Next]_vars PROVE Inv'
  OBVIOUS
<1>1. CASE UNCHANGED <<curr, call_stack, utxo_lifecycle, next_utxo_id, enabled_methods,
                       resource_resolver, pending_ctor_key>>
  <2>1. Created' = Created
    BY <1>1, CreatedStays
  <2> QED
    BY <1>1, <2>1 DEF Inv, Typed, RunningInv, LiveIffCallable
<1>2. ASSUME NEW a \in Values, enter_constructor(a) PROVE Inv'
  BY <1>1, <1>2 DEF enter_constructor
<1>3. ASSUME NEW m \in Methods, NEW a \in Values, enter_method(m, a) PROVE Inv'
  BY <1>1, <1>3 DEF enter_method
<1>4. CASE UNCHANGED vars
  BY <1>1, <1>4 DEF vars
<1> QED
  BY <1>2, <1>3, <1>4, NewUtxoStep, YieldStep, ReturnStep, CallStep DEF Next, execution_complete

LEMMA Invariant == Spec => []Inv
  BY InvInit, InvStep, PTL DEF Spec

\* In every reachable state of the Quint machine, and for every bound, a UTXO
\* that does not run is live exactly if it answers to some method.
THEOREM LiveIffCallableCorrect == Spec => []LiveIffCallable
<1>1. Inv => LiveIffCallable
  BY DEF Inv
<1> QED
  BY <1>1, Invariant, PTL

\* What no step may do: bring a consumed UTXO back, through whatever handle.
LEMMA ConsumedStays ==
    ASSUME Inv, [Next]_vars
    PROVE  [\A u \in Created :
              utxo_lifecycle[u] = "Consumed" => utxo_lifecycle'[u] = "Consumed"]_vars
<1> SUFFICES ASSUME Next, NEW u \in Created, utxo_lifecycle[u] = "Consumed"
             PROVE  utxo_lifecycle'[u] = "Consumed"
  OBVIOUS
<1> USE DEF Inv
<1>1. ASSUME NEW a \in Values, NEW h \in Handles, new_utxo(a, h)
      PROVE  utxo_lifecycle'[u] = "Consumed"
  <2>1. Utxo(next_utxo_id) \notin Created
    BY <1>1, CreatedGrows DEF new_utxo
  <2> QED
    BY <1>1, <2>1 DEF new_utxo, Put, Typed
<1>2. ASSUME NEW v \in Values, return(v)
      PROVE  utxo_lifecycle'[u] = "Consumed"
  <2>1. is_utxo(curr) => u # curr
    BY DEF RunningInv
  <2> QED
    BY <1>2, <2>1 DEF return, Typed
<1>3. CASE UNCHANGED utxo_lifecycle
  BY <1>3
<1> QED
  BY <1>1, <1>2, <1>3
  DEF Next, enter_constructor, yield_begin, register_method, call_method, enter_method,
      execution_complete, vars

\* Consumption is final: no step of a transaction makes a consumed UTXO live
\* again, because only a live UTXO ever gets to the return that decides.
THEOREM ConsumptionIsFinal == Spec => consumed_utxo_stays_consumed
<1>1. Inv /\ [Next]_vars => [\A u \in Created :
              utxo_lifecycle[u] = "Consumed" => utxo_lifecycle'[u] = "Consumed"]_vars
  BY ConsumedStays
<1> QED
  BY <1>1, Invariant, PTL DEF Spec, consumed_utxo_stays_consumed

=============================================================================
