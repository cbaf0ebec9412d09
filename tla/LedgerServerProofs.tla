------------------------- MODULE LedgerServerProofs -------------------------
(***************************************************************************)
(* Safety of the ledger server, for any number of requests, keys,          *)
(* contracts and envelopes.                                                *)
(***************************************************************************)
EXTENDS LedgerServer, FiniteSetTheorems, WellFoundedInduction, TLAPS

Active == {r \in Request : pc[r] # "idle"}

\* A request that is being served works on an envelope.
EnvOK == \A r \in Request : pc[r] \in Serving => env[r] \in Envelope

TypeInv == TypeOK /\ PermitsAccounted /\ EnvOK

LEMMA EnvelopeFields ==
    ASSUME NEW e \in Envelope
    PROVE  /\ e.key \in Key /\ e.account \in Key /\ e.wasm \in Contract
           /\ e.nonce \in U64 /\ e.size \in U64 /\ e.amount \in U64
           /\ e.context \in {PUBLISH_CONTEXT, FUND_CONTEXT}
           /\ e # NoEnvelope
  BY EnvelopeAssumption DEF EnvelopeType

\* Finishing an active request keeps the permits accounted for.
LEMMA FinishPermits ==
    ASSUME TypeOK, PermitsAccounted, NEW r \in Request, NEW answer \in Replies,
           pc[r] # "idle", Finish(r, answer)
    PROVE  permits' \in 0 .. MaxRequests /\ PermitsAccounted'
<1>1. IsFiniteSet(Active)
  BY ConstantsAssumption, FS_Subset DEF Active
<1>2. r \in Active /\ Active' = Active \ {r}
  BY DEF Active, Finish, TypeOK
<1>3. Cardinality(Active') = Cardinality(Active) - 1
  BY <1>1, <1>2, FS_RemoveElement
<1>4. IsFiniteSet(Active')
  BY <1>1, <1>2, FS_Subset
<1>5. Cardinality(Active) \in Nat /\ Cardinality(Active') \in Nat
  BY <1>1, <1>4, FS_CardinalityType
<1>6. permits + Cardinality(Active) = MaxRequests
  BY DEF PermitsAccounted, Active
<1>7. permits' + Cardinality(Active') = MaxRequests
  BY <1>3, <1>5, <1>6, ConstantsAssumption DEF Finish, TypeOK
<1>8. permits' \in 0 .. MaxRequests
  BY <1>5, <1>7, ConstantsAssumption DEF Finish, TypeOK
<1> QED
  BY <1>7, <1>8 DEF PermitsAccounted, Active

LEMMA AdmitPermits ==
    ASSUME TypeOK, PermitsAccounted, NEW r \in Request, NEW state \in States \ {"idle"},
           Admit(r, state)
    PROVE  permits' \in 0 .. MaxRequests /\ PermitsAccounted'
<1>1. IsFiniteSet(Active)
  BY ConstantsAssumption, FS_Subset DEF Active
<1>2. r \notin Active /\ Active' = Active \cup {r}
  BY DEF Active, Admit, TypeOK
<1>3. Cardinality(Active') = Cardinality(Active) + 1
  BY <1>1, <1>2, FS_AddElement
<1>5. Cardinality(Active) \in Nat
  BY <1>1, FS_CardinalityType
<1>6. permits + Cardinality(Active) = MaxRequests
  BY DEF PermitsAccounted, Active
<1>7. permits' + Cardinality(Active') = MaxRequests
  BY <1>3, <1>5, <1>6, ConstantsAssumption DEF Admit, TypeOK
<1>8. permits' \in 0 .. MaxRequests
  BY <1>6, ConstantsAssumption DEF Admit, TypeOK
<1> QED
  BY <1>7, <1>8 DEF PermitsAccounted, Active

\* A step inside a handler keeps a request active.
LEMMA GotoPermits ==
    ASSUME TypeOK, PermitsAccounted, NEW r \in Request, NEW state \in States \ {"idle"},
           pc[r] # "idle", Goto(r, state)
    PROVE  permits' \in 0 .. MaxRequests /\ PermitsAccounted'
<1>1. Active' = Active
  BY DEF Active, Goto, TypeOK
<1> QED
  BY <1>1 DEF PermitsAccounted, Active, Goto, TypeOK

\* What every completion and every internal step does to the request state.
LEMMA FinishType ==
    ASSUME TypeInv, NEW r \in Request, NEW answer \in Replies,
           pc[r] # "idle", Finish(r, answer)
    PROVE  /\ permits' \in 0 .. MaxRequests /\ PermitsAccounted' /\ EnvOK'
           /\ pc' \in [Request -> States] /\ reply' \in [Request -> Replies]
           /\ env' \in [Request -> Envelope \cup {NoEnvelope}]
<1>1. permits' \in 0 .. MaxRequests /\ PermitsAccounted'
  BY FinishPermits DEF TypeInv
<1> QED
  BY <1>1 DEF TypeInv, TypeOK, EnvOK, Finish, States, Serving

LEMMA GotoType ==
    ASSUME TypeInv, NEW r \in Request, NEW state \in States \ {"idle"},
           pc[r] # "idle", Goto(r, state),
           \/ env' = env /\ (state \in Serving => env[r] \in Envelope)
           \/ \E e \in Envelope : env' = [env EXCEPT ![r] = e]
    PROVE  /\ permits' \in 0 .. MaxRequests /\ PermitsAccounted' /\ EnvOK'
           /\ pc' \in [Request -> States] /\ reply' \in [Request -> Replies]
           /\ env' \in [Request -> Envelope \cup {NoEnvelope}]
<1>1. permits' \in 0 .. MaxRequests /\ PermitsAccounted'
  BY GotoPermits DEF TypeInv
<1> QED
  BY <1>1 DEF TypeInv, TypeOK, EnvOK, Goto

LEMMA RecordType ==
    ASSUME TypeOK, NEW e \in Envelope, Record(e)
    PROVE  blocks' \in Seq(BlockType)
  BY DEF TypeOK, Record, BlockType

LEMMA TypeInit == Init => TypeInv
<1> SUFFICES ASSUME Init PROVE TypeInv
  OBVIOUS
<1>1. TypeOK
  BY ConstantsAssumption, EnvelopeAssumption
  DEF Init, TypeOK, U64, States, Replies, PutStates, FundStates, RpcStates
<1>2. Cardinality({r \in Request : pc[r] # "idle"}) = 0
  <2>1. {r \in Request : pc[r] # "idle"} = {}
    BY DEF Init
  <2> QED
    BY <2>1, FS_EmptySet
<1>3. PermitsAccounted
  BY <1>2, ConstantsAssumption DEF PermitsAccounted, Init
<1>4. EnvOK
  BY DEF EnvOK, Init, Serving
<1> QED
  BY <1>1, <1>3, <1>4 DEF TypeInv

LEMMA TypeStep == TypeInv /\ [Next]_vars => TypeInv'
<1> SUFFICES ASSUME TypeInv, [Next]_vars PROVE TypeInv'
  OBVIOUS
<1> USE DEF TypeInv
<1>u. CASE UNCHANGED vars
  BY <1>u DEF vars, TypeOK, PermitsAccounted, EnvOK
<1>n. CASE Next
  <2> PICK r \in Request : Arrive(r) \/ Await(r) \/ Serve(r) \/ Disconnect(r)
    BY <1>n DEF Next
  <2>r. Replies = Replies \cup {"none", "Ok", "BadRequest", "AccountNotFound", "NonceTooLow",
            "InsufficientBalance", "ContractImportNotFound", "NotAdmin",
            "NotFound", "Runtime", "ServiceUnavailable"}
    BY DEF Replies
  <2>s. Serving \subseteq States \ {"idle"} /\ Awaiting \subseteq States \ {"idle"}
        /\ "put_receive" \in States /\ "fund_receive" \in States
    BY DEF Serving, States, Awaiting, PutStates, FundStates, RpcStates
  <2>1. CASE \E state \in {"put_receive", "fund_receive", "get_receive", "rpc_receive"} :
                Admit(r, state)
    <3> PICK state \in {"put_receive", "fund_receive", "get_receive", "rpc_receive"} :
                Admit(r, state)
      BY <2>1
    <3>1. state \in States \ {"idle"} /\ state \notin Serving
      BY DEF States, PutStates, FundStates, RpcStates, Serving
    <3>2. permits' \in 0 .. MaxRequests /\ PermitsAccounted'
      BY <3>1, AdmitPermits
    <3>3. EnvOK'
      BY <3>1 DEF EnvOK, Admit, TypeOK
    <3> QED
      BY <2>r, <3>1, <3>2, <3>3 DEF TypeOK, Admit, ledger, history
  <2>2. CASE Overload(r)
    BY <2>2, <2>r DEF TypeOK, Overload, ledger, history, PermitsAccounted, EnvOK
  <2>3. CASE Disconnect(r)
    <3>1. /\ permits' \in 0 .. MaxRequests /\ PermitsAccounted' /\ EnvOK'
          /\ pc' \in [Request -> States] /\ reply' \in [Request -> Replies]
          /\ env' \in [Request -> Envelope \cup {NoEnvelope}]
      BY <2>3, <2>r, <2>s, FinishType DEF Disconnect
    <3> QED
      BY <2>3, <3>1 DEF TypeOK, Disconnect, ledger, history
  <2>4. CASE Malformed(r) \/ ContractGet(r) \/ RpcHeight(r) \/ RpcCall(r)
    <3>1. /\ permits' \in 0 .. MaxRequests /\ PermitsAccounted' /\ EnvOK'
          /\ pc' \in [Request -> States] /\ reply' \in [Request -> Replies]
          /\ env' \in [Request -> Envelope \cup {NoEnvelope}]
      BY <2>4, <2>r, FinishType DEF Malformed, ContractGet, RpcHeight, RpcCall
    <3> QED
      BY <2>4, <3>1 DEF TypeOK, Malformed, ContractGet, RpcHeight, RpcCall, ledger, history
  <2>5. CASE RpcLookup(r)
    <3>1. /\ permits' \in 0 .. MaxRequests /\ PermitsAccounted' /\ EnvOK'
          /\ pc' \in [Request -> States] /\ reply' \in [Request -> Replies]
          /\ env' \in [Request -> Envelope \cup {NoEnvelope}]
      <4> PICK digest \in Contract :
            \/ /\ digest \in Stored
               /\ env' = [env EXCEPT ![r] = contracts[digest]]
               /\ Goto(r, "rpc_params")
            \/ Finish(r, "NotFound")
        BY <2>5 DEF RpcLookup
      <4>1. CASE digest \in Stored /\ ~Finish(r, "NotFound")
        <5>1. contracts[digest] \in Envelope
          BY <4>1 DEF TypeOK, Stored
        <5>2. "rpc_params" \in States \ {"idle"}
          BY DEF States, RpcStates
        <5> QED
          BY <4>1, <5>1, <5>2, <2>5, GotoType DEF RpcLookup
      <4>2. CASE Finish(r, "NotFound")
        BY <4>2, <2>5, <2>r, FinishType DEF RpcLookup
      <4> QED
        BY <4>1, <4>2
    <3> QED
      BY <2>5, <3>1 DEF TypeOK, RpcLookup, ledger, history
  <2>9. CASE RpcParams(r)
    <3>0. "rpc_call" \in States \ {"idle"} /\ "rpc_call" \notin Serving
      BY DEF States, RpcStates, Serving
    <3>1. /\ permits' \in 0 .. MaxRequests /\ PermitsAccounted' /\ EnvOK'
          /\ pc' \in [Request -> States] /\ reply' \in [Request -> Replies]
          /\ env' \in [Request -> Envelope \cup {NoEnvelope}]
      BY <2>9, <2>r, <3>0, FinishType, GotoType DEF RpcParams
    <3> QED
      BY <2>9, <3>1 DEF TypeOK, RpcParams, ledger, history
  <2>6. CASE PutAuthorize(r)
    <3> PICK e \in Envelope :
            \/ e.key \notin accounts /\ Finish(r, "AccountNotFound") /\ UNCHANGED lastNonce
            \/ Finish(r, "NonceTooLow") /\ UNCHANGED lastNonce
            \/ /\ lastNonce' = [lastNonce EXCEPT ![e.key] = e.nonce]
               /\ env' = [env EXCEPT ![r] = e]
               /\ Goto(r, "put_charge")
      BY <2>6 DEF PutAuthorize
    <3>1. /\ permits' \in 0 .. MaxRequests /\ PermitsAccounted' /\ EnvOK'
          /\ pc' \in [Request -> States] /\ reply' \in [Request -> Replies]
          /\ env' \in [Request -> Envelope \cup {NoEnvelope}]
      <4>1. "put_charge" \in States \ {"idle"} /\ pc[r] # "idle"
        BY <2>s, <2>6 DEF Serving, PutAuthorize
      <4> QED
        BY <4>1, <2>r, FinishType, GotoType
    <3>2. lastNonce' \in [Key -> U64]
      BY EnvelopeFields DEF TypeOK
    <3> QED
      BY <2>6, <3>1, <3>2 DEF TypeOK, PutAuthorize, history
  <2>7. CASE FundAuthorize(r)
    <3> PICK e \in Envelope :
            \/ Finish(r, "NotAdmin") /\ UNCHANGED adminNonce
            \/ Finish(r, "NonceTooLow") /\ UNCHANGED adminNonce
            \/ /\ adminNonce' = e.nonce
               /\ env' = [env EXCEPT ![r] = e]
               /\ Goto(r, "fund_credit")
      BY <2>7 DEF FundAuthorize
    <3>1. /\ permits' \in 0 .. MaxRequests /\ PermitsAccounted' /\ EnvOK'
          /\ pc' \in [Request -> States] /\ reply' \in [Request -> Replies]
          /\ env' \in [Request -> Envelope \cup {NoEnvelope}]
      <4>1. "fund_credit" \in States \ {"idle"} /\ pc[r] # "idle"
        BY <2>s, <2>7 DEF Serving, FundAuthorize
      <4> QED
        BY <4>1, <2>r, FinishType, GotoType
    <3>2. adminNonce' \in U64
      BY EnvelopeFields DEF TypeOK
    <3> QED
      BY <2>7, <3>1, <3>2 DEF TypeOK, FundAuthorize, history
  <2>8. CASE PutCharge(r) \/ PutCheck(r) \/ PutResolve(r) \/ PutInsert(r) \/ PutRecord(r)
             \/ FundCredit(r) \/ FundRecord(r)
    <3> DEFINE e == env[r]
    <3>0. pc[r] # "idle" /\ e \in Envelope
      BY <2>8 DEF PutCharge, PutCheck, PutResolve, PutInsert, PutRecord, FundCredit,
                  FundRecord, EnvOK, Serving
    <3>1. /\ permits' \in 0 .. MaxRequests /\ PermitsAccounted' /\ EnvOK'
          /\ pc' \in [Request -> States] /\ reply' \in [Request -> Replies]
          /\ env' \in [Request -> Envelope \cup {NoEnvelope}]
      <4>1. CASE \E answer \in Replies : Finish(r, answer)
        BY <4>1, <3>0, FinishType
      <4>2. CASE \E state \in Serving : Goto(r, state) /\ UNCHANGED env
        BY <4>2, <3>0, <2>s, GotoType
      <4> QED
        BY <4>1, <4>2, <2>8, <2>r
        DEF PutCharge, PutCheck, PutResolve, PutInsert, PutRecord, FundCredit, FundRecord, Serving
    <3>2. e.key \in Key /\ e.account \in Key /\ e.wasm \in Contract /\ e.size \in U64
          /\ e.amount \in U64
      BY <3>0, EnvelopeFields
    <3>3. balance' \in [Key -> U64]
      <4>1. ASSUME NEW a \in U64, NEW b \in U64
            PROVE  SaturatingAdd(a, b) \in U64 /\ (a >= b => a - b \in U64)
        BY ConstantsAssumption DEF SaturatingAdd, U64
      <4>2. CASE PutCharge(r)
        BY <4>1, <4>2, <3>2 DEF TypeOK, PutCharge
      <4>3. CASE FundCredit(r)
        BY <4>1, <4>3, <3>2 DEF TypeOK, FundCredit
      <4> QED
        BY <4>2, <4>3, <2>8
        DEF TypeOK, PutCheck, PutResolve, PutInsert, PutRecord, FundRecord, ledger
    <3>4. charged' \in [Envelope -> Nat] /\ credited' \in [Envelope -> Nat]
      <4>1. /\ charged' = charged \/ charged' = [charged EXCEPT ![env[r]] = @ + 1]
            /\ credited' = credited \/ credited' = [credited EXCEPT ![env[r]] = @ + 1]
        BY <2>8
        DEF PutCharge, PutCheck, PutResolve, PutInsert, PutRecord, FundCredit, FundRecord, history
      <4>2. charged[env[r]] + 1 \in Nat /\ credited[env[r]] + 1 \in Nat
        BY <3>0 DEF TypeOK
      <4> QED
        BY <3>0, <4>1, <4>2 DEF TypeOK
    <3>5. contracts' \in [Contract -> Envelope \cup {NoEnvelope}]
      BY <2>8, <3>0, <3>2
      DEF TypeOK, PutCharge, PutCheck, PutResolve, PutInsert, PutRecord, FundCredit, FundRecord, ledger
    <3>6. blocks' \in Seq(BlockType)
      BY <2>8, <3>0, RecordType
      DEF TypeOK, PutCharge, PutCheck, PutResolve, PutInsert, PutRecord, FundCredit, FundRecord, ledger
    <3>7. accounts' \subseteq Key /\ lastNonce' \in [Key -> U64] /\ adminNonce' \in U64
      BY <2>8, <3>2
      DEF TypeOK, PutCharge, PutCheck, PutResolve, PutInsert, PutRecord, FundCredit, FundRecord, ledger
    <3> QED
      BY <3>1, <3>3, <3>4, <3>5, <3>6, <3>7 DEF TypeOK
  <2> QED
    BY <2>1, <2>2, <2>3, <2>4, <2>5, <2>6, <2>7, <2>8, <2>9 DEF Arrive, Await, Serve
<1> QED
  BY <1>u, <1>n

\* Every reachable state is well typed: no balance leaves the range of u64,
\* and every request that is served holds an envelope.
LEMMA TypeInvariant == Spec => []TypeInv
  BY TypeInit, TypeStep, PTL DEF Spec

\* The server's state is always well typed, for every instance.
THEOREM TypeCorrect == Spec => []TypeOK
<1>1. TypeInv => TypeOK
  BY DEF TypeInv
<1> QED
  BY <1>1, TypeInvariant, PTL

\* Permits are neither lost nor duplicated: every admitted request gives its
\* permit back exactly once, answered or dropped.
THEOREM PermitsCorrect == Spec => []PermitsAccounted
<1>1. TypeInv => PermitsAccounted
  BY DEF TypeInv
<1> QED
  BY <1>1, TypeInvariant, PTL

-----------------------------------------------------------------------------
(* Replay protection.                                                      *)

SameNonce(e, f) == e.key = f.key /\ e.nonce = f.nonce

\* The nonce of a charged envelope is behind its account's last nonce, and a
\* request between its nonce and its charge is the only one with that nonce.
ChargeInv ==
    /\ OncePerNonce(charged)
    /\ \A e \in Envelope : charged[e] > 0 => e.nonce <= lastNonce[e.key]
    /\ \A r \in Request : pc[r] = "put_charge" =>
        /\ env[r].nonce <= lastNonce[env[r].key]
        /\ \A f \in Envelope : SameNonce(env[r], f) => charged[f] = 0
    /\ \A r, q \in Request :
        pc[r] = "put_charge" /\ pc[q] = "put_charge" /\ SameNonce(env[r], env[q]) => r = q

\* The same for credits, whose only signer is the admin.
CreditInv ==
    /\ OncePerNonce(credited)
    /\ \A e \in Envelope : credited[e] > 0 => e.key = AdminKey /\ e.nonce <= adminNonce
    /\ \A r \in Request : pc[r] = "fund_credit" =>
        /\ env[r].key = AdminKey /\ env[r].nonce <= adminNonce
        /\ \A f \in Envelope : SameNonce(env[r], f) => credited[f] = 0
    /\ \A r, q \in Request :
        pc[r] = "fund_credit" /\ pc[q] = "fund_credit" /\ SameNonce(env[r], env[q]) => r = q

\* An action that neither charges, nor moves a nonce, nor enters the charge.
LEMMA ChargeFrame ==
    ASSUME ChargeInv, UNCHANGED <<charged, lastNonce>>,
           \A q \in Request : pc'[q] = "put_charge" => pc[q] = "put_charge" /\ env'[q] = env[q]
    PROVE  ChargeInv'
  BY DEF ChargeInv, OncePerNonce, SameNonce

LEMMA CreditFrame ==
    ASSUME CreditInv, UNCHANGED <<credited, adminNonce>>,
           \A q \in Request : pc'[q] = "fund_credit" => pc[q] = "fund_credit" /\ env'[q] = env[q]
    PROVE  CreditInv'
  BY DEF CreditInv, OncePerNonce, SameNonce

LEMMA ChargeStep == TypeInv /\ ChargeInv /\ [Next]_vars => ChargeInv'
<1> SUFFICES ASSUME TypeInv, ChargeInv, [Next]_vars PROVE ChargeInv'
  OBVIOUS
<1> USE DEF TypeInv
<1>u. CASE UNCHANGED vars
  BY <1>u, ChargeFrame DEF vars
<1>n. CASE Next
  <2> PICK r \in Request : Arrive(r) \/ Await(r) \/ Serve(r) \/ Disconnect(r)
    BY <1>n DEF Next
  <2>1. CASE PutAuthorize(r)
    <3> PICK e \in Envelope :
            \/ (\E answer : Finish(r, answer)) /\ UNCHANGED lastNonce
            \/ /\ FreshNonce(lastNonce[e.key], e.nonce)
               /\ lastNonce' = [lastNonce EXCEPT ![e.key] = e.nonce]
               /\ env' = [env EXCEPT ![r] = e]
               /\ Goto(r, "put_charge")
      BY <2>1 DEF PutAuthorize
    <3>c. UNCHANGED charged
      BY <2>1 DEF PutAuthorize, history
    <3>1. CASE (\E answer : Finish(r, answer)) /\ UNCHANGED lastNonce
      <4>1. \A q \in Request : pc'[q] = "put_charge" => pc[q] = "put_charge" /\ env'[q] = env[q]
        BY <3>1 DEF TypeOK, Finish
      <4> QED
        BY <3>1, <3>c, <4>1, ChargeFrame
    <3>2. CASE /\ FreshNonce(lastNonce[e.key], e.nonce)
               /\ lastNonce' = [lastNonce EXCEPT ![e.key] = e.nonce]
               /\ env' = [env EXCEPT ![r] = e]
               /\ Goto(r, "put_charge")
      <4>1. /\ e.key \in Key /\ e.nonce \in Int
            /\ \A k \in Key : lastNonce[k] \in Int
            /\ \A f \in Envelope : f.key \in Key /\ f.nonce \in Int
        BY EnvelopeFields, ConstantsAssumption DEF TypeOK, U64
      <4>2. \A k \in Key : lastNonce'[k] >= lastNonce[k]
        BY <3>2, <4>1 DEF TypeOK, FreshNonce
      <4>3. lastNonce'[e.key] = e.nonce /\ e.nonce > lastNonce[e.key]
        BY <3>2, <4>1 DEF TypeOK, FreshNonce
      <4>4. env'[r] = e /\ \A q \in Request \ {r} : pc'[q] = pc[q] /\ env'[q] = env[q]
        BY <3>2 DEF TypeOK, Goto
      <4>5. \A f \in Envelope : SameNonce(e, f) => charged[f] = 0
        <5> SUFFICES ASSUME NEW f \in Envelope, SameNonce(e, f), charged[f] # 0 PROVE FALSE
          OBVIOUS
        <5>1. charged[f] > 0
          BY DEF TypeOK
        <5>2. f.nonce <= lastNonce[f.key]
          BY <5>1 DEF ChargeInv
        <5> QED
          BY <5>2, <4>1, <4>3 DEF SameNonce
      <4>6. \A q \in Request \ {r} : pc[q] = "put_charge" => env[q] \in Envelope /\ ~SameNonce(e, env[q])
        BY <4>1, <4>3 DEF ChargeInv, SameNonce, EnvOK, Serving
      <4>7. OncePerNonce(charged)'
        BY <3>c DEF ChargeInv, OncePerNonce
      <4>8. \A f \in Envelope : charged'[f] > 0 => f.nonce <= lastNonce'[f.key]
        BY <3>c, <4>1, <4>2, <3>2 DEF ChargeInv, TypeOK
      <4>9. ASSUME NEW q \in Request, pc'[q] = "put_charge"
            PROVE  /\ env'[q].nonce <= lastNonce'[env'[q].key]
                   /\ \A f \in Envelope : SameNonce(env'[q], f) => charged'[f] = 0
        <5>1. CASE q = r
          BY <5>1, <4>1, <4>3, <4>4, <4>5, <3>c
        <5>2. CASE q # r
          <6>1. pc[q] = "put_charge" /\ env'[q] = env[q] /\ env[q] \in Envelope
            BY <5>2, <4>4, <4>6, <4>9
          <6>2. env[q].nonce <= lastNonce[env[q].key] /\ env[q].key \in Key /\ env[q].nonce \in Int
            BY <6>1, <4>1 DEF ChargeInv
          <6>3. lastNonce'[env[q].key] \in Int /\ lastNonce'[env[q].key] >= lastNonce[env[q].key]
            BY <6>2, <4>1, <4>2, <3>2 DEF TypeOK
          <6>4. env[q].nonce <= lastNonce'[env[q].key]
            BY <6>2, <6>3, <4>1
          <6> QED
            BY <6>1, <6>4, <3>c DEF ChargeInv
        <5> QED
          BY <5>1, <5>2
      <4>10. ASSUME NEW p \in Request, NEW q \in Request, pc'[p] = "put_charge",
                    pc'[q] = "put_charge", SameNonce(env'[p], env'[q])
             PROVE  p = q
        BY <4>4, <4>6, <4>10 DEF ChargeInv, SameNonce
      <4> QED
        BY <4>7, <4>8, <4>9, <4>10 DEF ChargeInv, SameNonce
    <3> QED
      BY <3>1, <3>2
  <2>2. CASE PutCharge(r)
    <3> DEFINE e == env[r]
    <3>0. e \in Envelope /\ pc[r] = "put_charge" /\ UNCHANGED lastNonce
      BY <2>2 DEF PutCharge, EnvOK, Serving
    <3>1. \A q \in Request : pc'[q] = "put_charge" => q # r /\ pc[q] = "put_charge" /\ env'[q] = env[q]
      BY <2>2 DEF PutCharge, TypeOK, Finish, Goto
    <3>2. CASE UNCHANGED charged
      BY <3>0, <3>1, <3>2, ChargeFrame
    <3>3. CASE charged' = [charged EXCEPT ![e] = @ + 1]
      <4>1. \A f \in Envelope : charged'[f] = IF f = e THEN charged[e] + 1 ELSE charged[f]
        BY <3>3, <3>0 DEF TypeOK
      <4>2. charged[e] = 0 /\ charged'[e] = 1 /\ e.nonce <= lastNonce[e.key]
            /\ \A f \in Envelope : SameNonce(e, f) => charged[f] = 0
        <5>1. /\ \A f \in Envelope : SameNonce(e, f) => charged[f] = 0
              /\ e.nonce <= lastNonce[e.key]
          BY <3>0 DEF ChargeInv
        <5>2. charged[e] = 0
          BY <5>1, <3>0 DEF SameNonce
        <5> QED
          BY <5>1, <5>2, <4>1, <3>0
      <4>3. OncePerNonce(charged)'
        BY <4>1, <4>2 DEF ChargeInv, OncePerNonce, SameNonce
      <4>4. \A f \in Envelope : charged'[f] > 0 => f.nonce <= lastNonce'[f.key]
        BY <4>1, <4>2, <3>0 DEF ChargeInv
      <4>5. ASSUME NEW q \in Request, pc'[q] = "put_charge"
            PROVE  /\ env'[q].nonce <= lastNonce'[env'[q].key]
                   /\ \A f \in Envelope : SameNonce(env'[q], f) => charged'[f] = 0
        <5>1. pc[q] = "put_charge" /\ env'[q] = env[q] /\ ~SameNonce(env[q], e)
          BY <4>5, <3>0, <3>1 DEF ChargeInv
        <5> QED
          BY <5>1, <3>0, <4>1 DEF ChargeInv
      <4>6. ASSUME NEW p \in Request, NEW q \in Request, pc'[p] = "put_charge",
                    pc'[q] = "put_charge", SameNonce(env'[p], env'[q])
             PROVE  p = q
        BY <3>1, <4>6 DEF ChargeInv
      <4> QED
        BY <4>3, <4>4, <4>5, <4>6 DEF ChargeInv, SameNonce
    <3> QED
      BY <3>2, <3>3, <2>2 DEF PutCharge
  <2>3. CASE ~PutAuthorize(r) /\ ~PutCharge(r)
    <3>1. UNCHANGED <<charged, lastNonce>>
      BY <2>3
      DEF Arrive, Await, Serve, Disconnect, Admit, Overload, Malformed, FundAuthorize, ContractGet,
          RpcHeight, RpcLookup, RpcParams,
          PutCheck, PutResolve, PutInsert, PutRecord, FundCredit, FundRecord,
          RpcCall, ledger, history
    <3>2. \A q \in Request : pc'[q] = "put_charge" => pc[q] = "put_charge" /\ env'[q] = env[q]
      <4>1. CASE Arrive(r)
        BY <4>1 DEF Arrive, Admit, Overload, TypeOK
      <4>2. CASE Disconnect(r) \/ Malformed(r) \/ FundAuthorize(r) \/ ContractGet(r) \/ RpcHeight(r)
                 \/ RpcLookup(r) \/ RpcParams(r) \/ RpcCall(r)
        BY <4>2 DEF Disconnect, Malformed, FundAuthorize, ContractGet, RpcHeight, RpcLookup, RpcParams,
                    RpcCall, TypeOK, Finish, Goto, Awaiting
      <4>3. CASE PutCheck(r) \/ PutResolve(r) \/ PutInsert(r) \/ PutRecord(r)
                 \/ FundCredit(r) \/ FundRecord(r)
        BY <4>3 DEF PutCheck, PutResolve, PutInsert, PutRecord, FundCredit, FundRecord,
                    TypeOK, Finish, Goto
      <4> QED
        BY <2>3, <4>1, <4>2, <4>3 DEF Await, Serve
    <3> QED
      BY <3>1, <3>2, ChargeFrame
  <2> QED
    BY <2>1, <2>2, <2>3
<1> QED
  BY <1>u, <1>n

LEMMA CreditStep == TypeInv /\ CreditInv /\ [Next]_vars => CreditInv'
<1> SUFFICES ASSUME TypeInv, CreditInv, [Next]_vars PROVE CreditInv'
  OBVIOUS
<1> USE DEF TypeInv
<1>u. CASE UNCHANGED vars
  BY <1>u, CreditFrame DEF vars
<1>n. CASE Next
  <2> PICK r \in Request : Arrive(r) \/ Await(r) \/ Serve(r) \/ Disconnect(r)
    BY <1>n DEF Next
  <2>1. CASE FundAuthorize(r)
    <3> PICK e \in Envelope :
            \/ (\E answer : Finish(r, answer)) /\ UNCHANGED adminNonce
            \/ /\ e.key = AdminKey
               /\ FreshNonce(adminNonce, e.nonce)
               /\ adminNonce' = e.nonce
               /\ env' = [env EXCEPT ![r] = e]
               /\ Goto(r, "fund_credit")
      BY <2>1 DEF FundAuthorize
    <3>c. UNCHANGED credited
      BY <2>1 DEF FundAuthorize, history
    <3>1. CASE (\E answer : Finish(r, answer)) /\ UNCHANGED adminNonce
      <4>1. \A q \in Request : pc'[q] = "fund_credit" => pc[q] = "fund_credit" /\ env'[q] = env[q]
        BY <3>1 DEF TypeOK, Finish
      <4> QED
        BY <3>1, <3>c, <4>1, CreditFrame
    <3>2. CASE /\ e.key = AdminKey
               /\ FreshNonce(adminNonce, e.nonce)
               /\ adminNonce' = e.nonce
               /\ env' = [env EXCEPT ![r] = e]
               /\ Goto(r, "fund_credit")
      <4>1. e.nonce \in Int /\ adminNonce \in Int /\ \A f \in Envelope : f.nonce \in Int
        BY EnvelopeFields, ConstantsAssumption DEF TypeOK, U64
      <4>2. adminNonce' = e.nonce /\ e.nonce > adminNonce
        BY <3>2 DEF FreshNonce
      <4>3. env'[r] = e /\ \A q \in Request \ {r} : pc'[q] = pc[q] /\ env'[q] = env[q]
        BY <3>2 DEF TypeOK, Goto
      <4>4. \A f \in Envelope : SameNonce(e, f) => credited[f] = 0
        <5> SUFFICES ASSUME NEW f \in Envelope, SameNonce(e, f), credited[f] # 0 PROVE FALSE
          OBVIOUS
        <5>1. credited[f] > 0
          BY DEF TypeOK
        <5>2. f.nonce <= adminNonce
          BY <5>1 DEF CreditInv
        <5> QED
          BY <5>2, <4>1, <4>2 DEF SameNonce
      <4>5. \A q \in Request \ {r} : pc[q] = "fund_credit" => env[q] \in Envelope /\ ~SameNonce(e, env[q])
        BY <4>1, <4>2 DEF CreditInv, SameNonce, EnvOK, Serving
      <4>6. OncePerNonce(credited)'
        BY <3>c DEF CreditInv, OncePerNonce
      <4>7. \A f \in Envelope : credited'[f] > 0 => f.key = AdminKey /\ f.nonce <= adminNonce'
        BY <3>c, <4>1, <4>2 DEF CreditInv
      <4>8. ASSUME NEW q \in Request, pc'[q] = "fund_credit"
            PROVE  /\ env'[q].key = AdminKey /\ env'[q].nonce <= adminNonce'
                   /\ \A f \in Envelope : SameNonce(env'[q], f) => credited'[f] = 0
        <5>1. CASE q = r
          BY <5>1, <3>2, <4>1, <4>2, <4>3, <4>4, <3>c
        <5>2. CASE q # r
          <6>1. pc[q] = "fund_credit" /\ env'[q] = env[q] /\ env[q] \in Envelope
            BY <5>2, <4>3, <4>5, <4>8
          <6>2. env[q].nonce <= adminNonce /\ env[q].nonce \in Int
            BY <6>1, <4>1 DEF CreditInv
          <6>3. env[q].nonce <= adminNonce'
            BY <6>2, <4>1, <4>2
          <6> QED
            BY <6>1, <6>3, <3>c DEF CreditInv
        <5> QED
          BY <5>1, <5>2
      <4>9. ASSUME NEW p \in Request, NEW q \in Request, pc'[p] = "fund_credit",
                   pc'[q] = "fund_credit", SameNonce(env'[p], env'[q])
            PROVE  p = q
        BY <4>3, <4>5, <4>9 DEF CreditInv, SameNonce
      <4> QED
        BY <4>6, <4>7, <4>8, <4>9 DEF CreditInv, SameNonce
    <3> QED
      BY <3>1, <3>2
  <2>2. CASE FundCredit(r)
    <3> DEFINE e == env[r]
    <3>0. e \in Envelope /\ pc[r] = "fund_credit" /\ UNCHANGED adminNonce
      BY <2>2 DEF FundCredit, EnvOK, Serving
    <3>1. \A q \in Request : pc'[q] = "fund_credit" => q # r /\ pc[q] = "fund_credit" /\ env'[q] = env[q]
      BY <2>2 DEF FundCredit, TypeOK, Goto
    <3>2. \A f \in Envelope : credited'[f] = IF f = e THEN credited[e] + 1 ELSE credited[f]
      BY <2>2, <3>0 DEF FundCredit, TypeOK
    <3>3. /\ \A f \in Envelope : SameNonce(e, f) => credited[f] = 0
          /\ e.key = AdminKey /\ e.nonce <= adminNonce
      BY <3>0 DEF CreditInv
    <3>4. credited'[e] = 1
      <4>1. credited[e] = 0
        BY <3>0, <3>3 DEF SameNonce
      <4> QED
        BY <4>1, <3>0, <3>2
    <3>5. OncePerNonce(credited)'
      BY <3>2, <3>3, <3>4 DEF CreditInv, OncePerNonce, SameNonce
    <3>6. \A f \in Envelope : credited'[f] > 0 => f.key = AdminKey /\ f.nonce <= adminNonce'
      BY <3>0, <3>2, <3>3 DEF CreditInv
    <3>7. ASSUME NEW q \in Request, pc'[q] = "fund_credit"
          PROVE  /\ env'[q].key = AdminKey /\ env'[q].nonce <= adminNonce'
                 /\ \A f \in Envelope : SameNonce(env'[q], f) => credited'[f] = 0
      <4>1. pc[q] = "fund_credit" /\ env'[q] = env[q] /\ ~SameNonce(env[q], e)
        BY <3>7, <3>0, <3>1 DEF CreditInv
      <4> QED
        BY <4>1, <3>0, <3>2 DEF CreditInv
    <3>8. ASSUME NEW p \in Request, NEW q \in Request, pc'[p] = "fund_credit",
                 pc'[q] = "fund_credit", SameNonce(env'[p], env'[q])
          PROVE  p = q
      BY <3>1, <3>8 DEF CreditInv
    <3> QED
      BY <3>5, <3>6, <3>7, <3>8 DEF CreditInv, SameNonce
  <2>3. CASE ~FundAuthorize(r) /\ ~FundCredit(r)
    <3>1. UNCHANGED <<credited, adminNonce>>
      BY <2>3
      DEF Arrive, Await, Serve, Disconnect, Admit, Overload, Malformed, PutAuthorize, ContractGet,
          RpcHeight, RpcLookup, RpcParams,
          PutCharge, PutCheck, PutResolve, PutInsert, PutRecord, FundRecord,
          RpcCall, ledger, history
    <3>2. \A q \in Request : pc'[q] = "fund_credit" => pc[q] = "fund_credit" /\ env'[q] = env[q]
      <4>1. CASE Arrive(r)
        BY <4>1 DEF Arrive, Admit, Overload, TypeOK
      <4>2. CASE Disconnect(r) \/ Malformed(r) \/ PutAuthorize(r) \/ ContractGet(r) \/ RpcHeight(r)
                 \/ RpcLookup(r) \/ RpcParams(r) \/ RpcCall(r)
        BY <4>2 DEF Disconnect, Malformed, PutAuthorize, ContractGet, RpcHeight, RpcLookup, RpcParams,
                    RpcCall, TypeOK, Finish, Goto, Awaiting
      <4>3. CASE PutCharge(r) \/ PutCheck(r) \/ PutResolve(r) \/ PutInsert(r) \/ PutRecord(r)
                 \/ FundRecord(r)
        BY <4>3 DEF PutCharge, PutCheck, PutResolve, PutInsert, PutRecord, FundRecord,
                    TypeOK, Finish, Goto
      <4> QED
        BY <2>3, <4>1, <4>2, <4>3 DEF Await, Serve
    <3> QED
      BY <3>1, <3>2, CreditFrame
  <2> QED
    BY <2>1, <2>2, <2>3
<1> QED
  BY <1>u, <1>n

LEMMA NonceInit == Init => ChargeInv /\ CreditInv
  BY DEF Init, ChargeInv, CreditInv, OncePerNonce

LEMMA NonceInvariant == Spec => [](TypeInv /\ ChargeInv /\ CreditInv)
<1>1. Init => TypeInv /\ ChargeInv /\ CreditInv
  BY TypeInit, NonceInit
<1>2. TypeInv /\ ChargeInv /\ CreditInv /\ [Next]_vars => (TypeInv /\ ChargeInv /\ CreditInv)'
  BY TypeStep, ChargeStep, CreditStep
<1> QED
  BY <1>1, <1>2, PTL DEF Spec

\* Replay protection: whatever clients submit, in whatever interleaving, an
\* envelope is charged or credited at most once and a nonce serves for one
\* envelope of its signer.
THEOREM NoncesCorrect == Spec => []NonceSpentOnce
<1>1. TypeInv /\ ChargeInv /\ CreditInv => NonceSpentOnce
  BY DEF ChargeInv, CreditInv, NonceSpentOnce
<1> QED
  BY <1>1, NonceInvariant, PTL

-----------------------------------------------------------------------------
(* What is stored has been paid for and has its imports.                   *)

PaidStates == {"put_check", "put_resolve", "put_insert", "put_record"}

\* What each await point of handle_contract_put may rely on, although the
\* locks it was established under have been released.
StoreInv ==
    /\ StoredArePaid
    /\ ImportClosure
    /\ \A r \in Request : pc[r] \in PaidStates \cup {"put_charge"} =>
        PublishOk(env[r], env[r].wasm) /\ env[r].key \in accounts
    /\ \A r \in Request : pc[r] \in PaidStates => charged[env[r]] > 0
    /\ \A r \in Request : pc[r] = "put_insert" => Imports[env[r].wasm] \subseteq Stored

\* Nothing StoreInv relies on is ever taken back.
LEMMA Growth ==
    ASSUME TypeInv, NEW r \in Request, Arrive(r) \/ Await(r) \/ Serve(r) \/ Disconnect(r)
    PROVE  /\ accounts \subseteq accounts'
           /\ \A e \in Envelope : charged[e] > 0 => charged'[e] > 0
           /\ \A e \in Envelope : credited[e] > 0 => credited'[e] > 0
           /\ \A d \in Stored : contracts'[d] = contracts[d]
           /\ Stored \subseteq Stored'
<1> USE DEF TypeInv
<1>1. CASE PutCharge(r)
  <2>1. env[r] \in Envelope
    BY <1>1 DEF PutCharge, EnvOK, Serving
  <2>2. \A e \in Envelope : charged[e] \in Nat
    BY DEF TypeOK
  <2>3. \A e \in Envelope : charged'[e] \in {charged[e], charged[e] + 1}
    BY <1>1, <2>1, <2>2 DEF PutCharge, TypeOK
  <2>4. UNCHANGED <<accounts, credited, contracts>>
    BY <1>1 DEF PutCharge
  <2> QED
    BY <2>2, <2>3, <2>4 DEF Stored
<1>2. CASE FundCredit(r)
  <2>1. env[r] \in Envelope
    BY <1>2 DEF FundCredit, EnvOK, Serving
  <2>2. \A e \in Envelope : credited[e] \in Nat
    BY DEF TypeOK
  <2>3. \A e \in Envelope : credited'[e] \in {credited[e], credited[e] + 1}
    BY <1>2, <2>1, <2>2 DEF FundCredit, TypeOK
  <2>4. UNCHANGED <<charged, contracts>> /\ accounts \subseteq accounts'
    BY <1>2 DEF FundCredit
  <2> QED
    BY <2>2, <2>3, <2>4 DEF Stored
<1>3. CASE PutInsert(r)
  <2>1. env[r] \in Envelope
    BY <1>3 DEF PutInsert, EnvOK, Serving
  <2>2. UNCHANGED <<accounts, charged, credited>>
    BY <1>3 DEF PutInsert, history
  <2>3. env[r].wasm \in Contract /\ env[r] # NoEnvelope
    BY <2>1, EnvelopeFields
  <2>4. \/ UNCHANGED contracts
        \/ env[r].wasm \notin Stored /\ contracts' = [contracts EXCEPT ![env[r].wasm] = env[r]]
    BY <1>3 DEF PutInsert
  <2>5. \A d \in Stored : contracts'[d] = contracts[d]
    BY <2>3, <2>4 DEF TypeOK, Stored
  <2>6. Stored \subseteq Stored'
    BY <2>5 DEF Stored
  <2> QED
    BY <2>2, <2>5, <2>6
<1>4. CASE ~PutCharge(r) /\ ~FundCredit(r) /\ ~PutInsert(r)
  <2>1. UNCHANGED <<accounts, charged, credited, contracts>>
    BY <1>4
    DEF Arrive, Await, Serve, Disconnect, Admit, Overload, Malformed, PutAuthorize, FundAuthorize,
        ContractGet, RpcHeight, RpcLookup, RpcParams, PutCheck, PutResolve, PutRecord, FundRecord,
        RpcCall, ledger, history
  <2> QED
    BY <2>1 DEF Stored
<1> QED
  BY <1>1, <1>2, <1>3, <1>4

\* Only the handlers' own steps move a request, and only its own request.
LEMMA OthersStay ==
    ASSUME TypeInv, NEW r \in Request, Arrive(r) \/ Await(r) \/ Serve(r) \/ Disconnect(r)
    PROVE  \A q \in Request \ {r} : pc'[q] = pc[q] /\ env'[q] = env[q] /\ reply'[q] = reply[q]
<1> USE DEF TypeInv
<1>1. CASE Arrive(r)
  BY <1>1 DEF Arrive, Admit, Overload, TypeOK
<1>2. CASE Await(r) \/ Disconnect(r)
  BY <1>2 DEF Await, Disconnect, Malformed, PutAuthorize, FundAuthorize, ContractGet, RpcHeight,
              RpcLookup, RpcParams, RpcCall, TypeOK, Finish, Goto
<1>3. CASE Serve(r)
  BY <1>3 DEF Serve, PutCharge, PutCheck, PutResolve, PutInsert, PutRecord, FundCredit, FundRecord,
              RpcCall, TypeOK, Finish, Goto
<1> QED
  BY <1>1, <1>2, <1>3

\* Where the moving request can be afterwards, and how it got there.
LEMMA Arrivals ==
    ASSUME TypeInv, NEW r \in Request, Arrive(r) \/ Await(r) \/ Serve(r) \/ Disconnect(r)
    PROVE  /\ pc'[r] = "put_charge" =>
                \E e \in Envelope : env'[r] = e /\ PublishOk(e, e.wasm) /\ e.key \in accounts
           /\ pc'[r] = "put_check" =>
                pc[r] = "put_charge" /\ env'[r] = env[r] /\ charged'[env[r]] = charged[env[r]] + 1
           /\ pc'[r] = "put_resolve" => pc[r] = "put_check" /\ env'[r] = env[r]
           /\ pc'[r] = "put_insert" =>
                pc[r] = "put_resolve" /\ env'[r] = env[r] /\ Imports[env[r].wasm] \subseteq Stored
           /\ pc'[r] = "put_record" =>
                /\ pc[r] = "put_insert" /\ env'[r] = env[r] /\ env[r].wasm \notin Stored
                /\ contracts' = [contracts EXCEPT ![env[r].wasm] = env[r]]
                /\ UNCHANGED <<blocks, credited>>
           /\ pc'[r] = "fund_credit" => \E e \in Envelope : env'[r] = e /\ FundOk(e)
           /\ pc'[r] = "fund_record" =>
                /\ pc[r] = "fund_credit" /\ env'[r] = env[r]
                /\ credited' = [credited EXCEPT ![env[r]] = @ + 1]
                /\ UNCHANGED <<blocks, contracts>>
<1> USE DEF TypeInv
<1>s. Serving \subseteq States
  BY DEF Serving, States, PutStates, FundStates, RpcStates
<1>0. CASE pc'[r] \notin Serving
  BY <1>0 DEF Serving
<1>1. CASE Arrive(r)
  <2>1. pc'[r] \notin Serving
    BY <1>1 DEF Arrive, Admit, Overload, TypeOK, Serving
  <2> QED
    BY <2>1, <1>0
<1>2. CASE Disconnect(r) \/ Malformed(r) \/ ContractGet(r) \/ RpcHeight(r) \/ RpcCall(r)
           \/ PutRecord(r) \/ FundRecord(r)
  <2>1. pc'[r] \notin Serving
    BY <1>2 DEF Disconnect, Malformed, ContractGet, RpcHeight, RpcCall, PutRecord, FundRecord,
                Finish, TypeOK, Serving
  <2> QED
    BY <2>1, <1>0
<1>3. CASE RpcLookup(r) \/ RpcParams(r)
  <2>1. pc'[r] \in {"idle", "rpc_params", "rpc_call"}
    BY <1>3 DEF RpcLookup, RpcParams, Finish, Goto, TypeOK
  <2> QED
    BY <2>1
<1>4. CASE PutAuthorize(r)
  <2>1. pc'[r] \in {"idle", "put_charge"}
    BY <1>4 DEF PutAuthorize, Finish, Goto, TypeOK
  <2>2. pc'[r] = "put_charge" =>
            \E e \in Envelope : env'[r] = e /\ PublishOk(e, e.wasm) /\ e.key \in accounts
    BY <1>4 DEF PutAuthorize, Finish, Goto, TypeOK, PublishOk
  <2> QED
    BY <2>1, <2>2
<1>5. CASE FundAuthorize(r)
  <2>1. pc'[r] \in {"idle", "fund_credit"}
    BY <1>5 DEF FundAuthorize, Finish, Goto, TypeOK
  <2>2. pc'[r] = "fund_credit" => \E e \in Envelope : env'[r] = e /\ FundOk(e)
    BY <1>5 DEF FundAuthorize, Finish, Goto, TypeOK
  <2> QED
    BY <2>1, <2>2
<1>6. CASE PutCharge(r)
  <2>1. env[r] \in Envelope /\ pc[r] = "put_charge"
    BY <1>6 DEF PutCharge, EnvOK, Serving
  <2>2. \/ pc'[r] = "idle"
        \/ /\ pc'[r] = "put_check" /\ env' = env
           /\ charged' = [charged EXCEPT ![env[r]] = @ + 1]
    BY <1>6 DEF PutCharge, Finish, Goto, TypeOK
  <2> QED
    BY <2>1, <2>2 DEF TypeOK
<1>7. CASE PutCheck(r)
  BY <1>7 DEF PutCheck, Finish, Goto, TypeOK
<1>8. CASE PutResolve(r)
  BY <1>8 DEF PutResolve, Finish, Goto, TypeOK, ImportsResolved
<1>9. CASE PutInsert(r)
  BY <1>9 DEF PutInsert, Finish, Goto, TypeOK, history
<1>10. CASE FundCredit(r)
  BY <1>10 DEF FundCredit, Goto, TypeOK
<1> QED
  BY <1>1, <1>2, <1>3, <1>4, <1>5, <1>6, <1>7, <1>8, <1>9, <1>10 DEF Await, Serve

\* Only an insertion changes the contracts.
LEMMA ContractsChange ==
    ASSUME NEW r \in Request, Arrive(r) \/ Await(r) \/ Serve(r) \/ Disconnect(r)
    PROVE  UNCHANGED contracts \/ PutInsert(r)
  BY DEF Arrive, Await, Serve, Disconnect, Admit, Overload, Malformed, PutAuthorize, FundAuthorize,
         ContractGet, RpcHeight, RpcLookup, RpcParams,
         PutCharge, PutCheck, PutResolve, PutRecord, FundCredit,
         FundRecord, RpcCall, ledger, history

LEMMA StoreStep == TypeInv /\ StoreInv /\ [Next]_vars => StoreInv'
<1> SUFFICES ASSUME TypeInv, StoreInv, [Next]_vars PROVE StoreInv'
  OBVIOUS
<1>u. CASE UNCHANGED vars
  BY <1>u DEF vars, StoreInv, StoredArePaid, ImportClosure, Stored, PublishOk
<1>n. CASE Next
  <2> PICK r \in Request : Arrive(r) \/ Await(r) \/ Serve(r) \/ Disconnect(r)
    BY <1>n DEF Next
  <2>g. /\ accounts \subseteq accounts'
        /\ \A e \in Envelope : charged[e] > 0 => charged'[e] > 0
        /\ \A d \in Stored : contracts'[d] = contracts[d]
        /\ Stored \subseteq Stored'
    BY Growth
  <2>o. \A q \in Request \ {r} : pc'[q] = pc[q] /\ env'[q] = env[q]
    BY OthersStay
  <2>e. \A q \in Request : pc[q] \in PaidStates \cup {"put_charge"} => env[q] \in Envelope
    BY DEF TypeInv, EnvOK, PaidStates, Serving
  <2>1. ASSUME NEW q \in Request, pc'[q] \in PaidStates \cup {"put_charge"}
        PROVE  PublishOk(env'[q], env'[q].wasm) /\ env'[q].key \in accounts'
    <3>1. CASE q # r
      BY <3>1, <2>1, <2>g, <2>o DEF StoreInv
    <3>2. CASE q = r /\ pc'[r] = "put_charge"
      BY <3>2, <2>g, Arrivals
    <3>3. CASE q = r /\ pc'[r] \in PaidStates
      <4>1. env'[r] = env[r] /\ pc[r] \in PaidStates \cup {"put_charge"}
        BY <3>3, Arrivals DEF PaidStates
      <4> QED
        BY <3>3, <4>1, <2>g DEF StoreInv
    <3> QED
      BY <3>1, <3>2, <3>3, <2>1
  <2>2. ASSUME NEW q \in Request, pc'[q] \in PaidStates
        PROVE  charged'[env'[q]] > 0
    <3>1. CASE q # r
      BY <3>1, <2>2, <2>g, <2>o, <2>e DEF StoreInv
    <3>2. CASE q = r /\ pc'[r] = "put_check"
      <4>1. charged'[env[r]] = charged[env[r]] + 1 /\ env'[r] = env[r] /\ env[r] \in Envelope
        BY <3>2, <2>e, Arrivals DEF PaidStates
      <4>2. charged[env[r]] \in Nat
        BY <4>1 DEF TypeInv, TypeOK
      <4> QED
        BY <3>2, <4>1, <4>2
    <3>3. CASE q = r /\ pc'[r] # "put_check"
      <4>1. env'[r] = env[r] /\ pc[r] \in PaidStates
        BY <3>3, <2>2, Arrivals DEF PaidStates
      <4> QED
        BY <3>3, <4>1, <2>g, <2>e DEF StoreInv
    <3> QED
      BY <3>1, <3>2, <3>3
  <2>3. ASSUME NEW q \in Request, pc'[q] = "put_insert"
        PROVE  Imports[env'[q].wasm] \subseteq Stored'
    <3>1. CASE q # r
      BY <3>1, <2>3, <2>g, <2>o DEF StoreInv
    <3>2. CASE q = r
      BY <3>2, <2>3, <2>g, Arrivals
    <3> QED
      BY <3>1, <3>2
  <2>4. StoredArePaid' /\ ImportClosure'
    <3>1. CASE UNCHANGED contracts
      <4>1. Stored' = Stored
        BY <3>1 DEF Stored
      <4>2. \A d \in Stored : contracts[d] \in Envelope
        BY DEF Stored, TypeInv, TypeOK
      <4> QED
        BY <3>1, <4>1, <4>2, <2>g DEF StoreInv, StoredArePaid, ImportClosure, PublishOk
    <3>2. CASE PutInsert(r) /\ ~UNCHANGED contracts
      <4> DEFINE e == env[r]
      <4>1. pc[r] = "put_insert" /\ contracts' = [contracts EXCEPT ![e.wasm] = e]
            /\ UNCHANGED <<accounts, charged>>
        BY <3>2 DEF PutInsert, history
      <4>2. e \in Envelope /\ e.wasm \in Contract /\ e # NoEnvelope
        BY <4>1, <2>e, EnvelopeFields DEF PaidStates
      <4>3. Stored' = Stored \cup {e.wasm} /\ contracts'[e.wasm] = e
        BY <4>1, <4>2 DEF Stored, TypeInv, TypeOK
      <4>4. PublishOk(e, e.wasm) /\ e.key \in accounts /\ charged[e] > 0
            /\ Imports[e.wasm] \subseteq Stored
        BY <4>1 DEF StoreInv, PaidStates
      <4>5. \A d \in Stored : contracts'[d] = contracts[d]
        BY <2>g
      <4>6. ASSUME NEW d \in Stored'
            PROVE  /\ PublishOk(contracts'[d], d) /\ contracts'[d].key \in accounts'
                   /\ charged'[contracts'[d]] > 0 /\ Imports[d] \subseteq Stored'
        <5>1. CASE d \in Stored
          BY <5>1, <4>1, <4>3, <4>5 DEF StoreInv, StoredArePaid, ImportClosure
        <5>2. CASE d = e.wasm
          BY <5>2, <4>1, <4>3, <4>4
        <5> QED
          BY <5>1, <5>2, <4>3
      <4> QED
        BY <4>6 DEF StoredArePaid, ImportClosure, PublishOk
    <3> QED
      BY <3>1, <3>2, ContractsChange
  <2> QED
    BY <2>1, <2>2, <2>3, <2>4 DEF StoreInv, PublishOk
<1> QED
  BY <1>u, <1>n

LEMMA StoreInvariant == Spec => [](TypeInv /\ StoreInv)
<1>1. Init => StoreInv
  BY DEF Init, StoreInv, StoredArePaid, ImportClosure, Stored, PaidStates
<1> QED
  BY <1>1, TypeInit, TypeStep, StoreStep, PTL DEF Spec

\* No interleaving, early answer or failure stores a contract that nobody
\* paid for.
THEOREM StorePaidCorrect == Spec => []StoredArePaid
<1>1. StoreInv => StoredArePaid
  BY DEF StoreInv
<1> QED
  BY <1>1, StoreInvariant, PTL

\* The stored contracts are closed under imports, for every import relation,
\* although imports are resolved long before the insertion.
THEOREM ImportClosureCorrect == Spec => []ImportClosure
<1>1. StoreInv => ImportClosure
  BY DEF StoreInv
<1> QED
  BY <1>1, StoreInvariant, PTL

-----------------------------------------------------------------------------
(* The block log.                                                          *)

\* What a request that is about to log holds: an envelope that took effect,
\* that is not in the log, and that no other request is about to log.
LogInv ==
    /\ LogFaithful
    /\ \A r \in Request : pc[r] = "put_record" =>
        /\ contracts[env[r].wasm] = env[r]
        /\ env[r].context = PUBLISH_CONTEXT /\ env[r] \notin Logged
    /\ \A r \in Request : pc[r] = "fund_credit" => env[r].context = FUND_CONTEXT
    /\ \A r \in Request : pc[r] = "fund_record" =>
        /\ credited[env[r]] > 0
        /\ env[r].context = FUND_CONTEXT /\ env[r] \notin Logged
    /\ \A r, q \in Request :
        /\ {pc[r], pc[q]} \subseteq {"put_record", "fund_record"}
        /\ env[r] = env[q]
        => r = q

\* Only the two record steps write the log.
LEMMA BlocksChange ==
    ASSUME NEW r \in Request, Arrive(r) \/ Await(r) \/ Serve(r) \/ Disconnect(r)
    PROVE  UNCHANGED blocks \/ PutRecord(r) \/ FundRecord(r)
  BY DEF Arrive, Await, Serve, Disconnect, Admit, Overload, Malformed, PutAuthorize, FundAuthorize,
         ContractGet, RpcHeight, RpcLookup, RpcParams,
         PutCharge, PutCheck, PutResolve, PutInsert, FundCredit,
         RpcCall, ledger, history

\* Recording an action that is not in the log adds it at the end.
LEMMA RecordLogs ==
    ASSUME TypeOK, NEW e \in Envelope, Record(e)
    PROVE  /\ Len(blocks) \in Nat /\ DOMAIN blocks = 1 .. Len(blocks)
           /\ DOMAIN blocks' = 1 .. (Len(blocks) + 1)
           /\ \A i \in DOMAIN blocks : blocks'[i] = blocks[i]
           /\ blocks'[Len(blocks) + 1] = [height |-> Len(blocks) + 1, action |-> e]
           /\ Logged' = Logged \cup {e}
<1> DEFINE b == [height |-> Len(blocks) + 1, action |-> e]
           n == Len(blocks)
<1>1. b \in BlockType /\ blocks \in Seq(BlockType) /\ n \in Nat
  BY DEF TypeOK, BlockType
<1>2. blocks' = Append(blocks, b)
  BY DEF Record
<1>3. DOMAIN blocks = 1 .. n /\ DOMAIN blocks' = 1 .. (n + 1)
  BY <1>1, <1>2
<1>4. (\A i \in DOMAIN blocks : blocks'[i] = blocks[i]) /\ blocks'[n + 1] = b
  BY <1>1, <1>2
<1>5. DOMAIN blocks' = DOMAIN blocks \cup {n + 1}
  BY <1>1, <1>3
<1>6. Logged' = Logged \cup {e}
  BY <1>4, <1>5 DEF Logged
<1> QED
  BY <1>1, <1>3, <1>4, <1>6

LEMMA LogStep ==
    TypeInv /\ CreditInv /\ StoreInv /\ LogInv /\ [Next]_vars => LogInv'
<1> SUFFICES ASSUME TypeInv, CreditInv, StoreInv, LogInv, [Next]_vars PROVE LogInv'
  OBVIOUS
<1>u. CASE UNCHANGED vars
  BY <1>u DEF vars, LogInv, LogFaithful, Logged
<1>n. CASE Next
  <2> PICK r \in Request : Arrive(r) \/ Await(r) \/ Serve(r) \/ Disconnect(r)
    BY <1>n DEF Next
  <2>g. /\ \A e \in Envelope : credited[e] > 0 => credited'[e] > 0
        /\ \A d \in Stored : contracts'[d] = contracts[d]
    BY Growth
  <2>o. \A q \in Request \ {r} : pc'[q] = pc[q] /\ env'[q] = env[q]
    BY OthersStay
  <2>e. \A q \in Request : pc[q] \in Serving => env[q] \in Envelope /\ env[q].wasm \in Contract
    BY EnvelopeFields DEF TypeInv, EnvOK
  <2>b. \A i \in DOMAIN blocks : blocks[i].action \in Envelope /\ blocks[i].action \in Logged
    <3>1. blocks \in Seq(BlockType)
      BY DEF TypeInv, TypeOK
    <3>2. \A i \in DOMAIN blocks : blocks[i] \in BlockType
      BY <3>1
    <3> QED
      BY <3>2 DEF BlockType, Logged
  <2>w. \A e \in Envelope : contracts[e.wasm] = e => e.wasm \in Stored
    BY EnvelopeFields DEF Stored
  <2>c. PUBLISH_CONTEXT # FUND_CONTEXT
    BY DEF PUBLISH_CONTEXT, FUND_CONTEXT
  <2>l. \A e \in Logged :
            /\ e \in Envelope
            /\ e.context = PUBLISH_CONTEXT => contracts[e.wasm] = e
            /\ e.context = FUND_CONTEXT => credited[e] > 0
    BY <2>b DEF Logged, LogInv, LogFaithful
  \* An entry of the log stays right.
  <2>k. \A e \in Logged :
            /\ e.context = PUBLISH_CONTEXT => contracts'[e.wasm] = e
            /\ e.context = FUND_CONTEXT => credited'[e] > 0
    BY <2>l, <2>g, <2>w
  <2>1. CASE pc'[r] \in {"put_record", "fund_record"}
    <3> DEFINE e == env[r]
    <3>1. /\ UNCHANGED blocks /\ env'[r] = e /\ e \in Envelope
          /\ pc'[r] = "put_record" =>
                /\ pc[r] = "put_insert" /\ e.wasm \notin Stored
                /\ contracts' = [contracts EXCEPT ![e.wasm] = e]
          /\ pc'[r] = "fund_record" =>
                /\ pc[r] = "fund_credit"
                /\ credited' = [credited EXCEPT ![e] = @ + 1]
      BY <2>1, <2>e, Arrivals DEF Serving
    <3>2. e \notin Logged
      <4>1. CASE pc'[r] = "put_record"
        <5>1. PublishOk(e, e.wasm)
          BY <4>1, <3>1 DEF StoreInv, PaidStates
        <5> QED
          BY <4>1, <5>1, <3>1, <2>l, <2>w DEF PublishOk
      <4>2. CASE pc'[r] = "fund_record"
        <5>1. credited[e] = 0 /\ e.context = FUND_CONTEXT
          BY <4>2, <3>1 DEF CreditInv, SameNonce, LogInv
        <5> QED
          BY <5>1, <2>l
      <4> QED
        BY <4>1, <4>2, <2>1
    <3>3. \A q \in Request \ {r} : pc[q] \in {"put_record", "fund_record"} => env[q] # e
      <4>1. CASE pc'[r] = "put_record"
        <5>1. e.context = PUBLISH_CONTEXT
          BY <4>1, <3>1 DEF StoreInv, PaidStates, PublishOk
        <5> QED
          BY <4>1, <5>1, <3>1, <2>w, <2>c DEF LogInv
      <4>2. CASE pc'[r] = "fund_record"
        <5>1. credited[e] = 0 /\ e.context = FUND_CONTEXT
          BY <4>2, <3>1 DEF CreditInv, SameNonce, LogInv
        <5> QED
          BY <5>1, <2>c DEF LogInv
      <4> QED
        BY <4>1, <4>2, <2>1
    <3>4. pc'[r] = "put_record" => contracts'[e.wasm] = e /\ e.context = PUBLISH_CONTEXT
      BY <3>1, <2>e DEF StoreInv, PaidStates, PublishOk, Serving, TypeInv, TypeOK
    <3>5. pc'[r] = "fund_record" => credited'[e] > 0 /\ e.context = FUND_CONTEXT
      BY <3>1 DEF LogInv, TypeInv, TypeOK
    <3>6. Logged' = Logged
      BY <3>1 DEF Logged
    <3>7. LogFaithful'
      BY <3>1, <2>b, <2>k DEF LogInv, LogFaithful
    <3>8. ASSUME NEW q \in Request, pc'[q] = "put_record"
          PROVE  /\ contracts'[env'[q].wasm] = env'[q]
                 /\ env'[q].context = PUBLISH_CONTEXT /\ env'[q] \notin Logged'
      <4>1. CASE q = r
        BY <4>1, <3>8, <3>1, <3>2, <3>4, <3>6
      <4>2. CASE q # r
        BY <4>2, <3>8, <2>o, <2>e, <2>w, <2>g, <3>6 DEF LogInv, Serving
      <4> QED
        BY <4>1, <4>2
    <3>9. ASSUME NEW q \in Request, pc'[q] = "fund_record"
          PROVE  /\ credited'[env'[q]] > 0
                 /\ env'[q].context = FUND_CONTEXT /\ env'[q] \notin Logged'
      <4>1. CASE q = r
        BY <4>1, <3>9, <3>1, <3>2, <3>5, <3>6
      <4>2. CASE q # r
        BY <4>2, <3>9, <2>o, <2>e, <2>g, <3>6 DEF LogInv, Serving
      <4> QED
        BY <4>1, <4>2
    <3>10. \A q \in Request : pc'[q] = "fund_credit" => env'[q].context = FUND_CONTEXT
      BY <2>1, <2>o DEF LogInv
    <3>11. ASSUME NEW p \in Request, NEW q \in Request, env'[p] = env'[q],
                  {pc'[p], pc'[q]} \subseteq {"put_record", "fund_record"}
           PROVE  p = q
      BY <3>11, <3>1, <3>3, <2>o DEF LogInv
    <3> QED
      BY <3>7, <3>8, <3>9, <3>10, <3>11 DEF LogInv
  <2>2. CASE pc'[r] \notin {"put_record", "fund_record"}
    <3>1. \A q \in Request : pc'[q] \in {"put_record", "fund_record"} =>
            q # r /\ pc[q] = pc'[q] /\ env'[q] = env[q]
      BY <2>2, <2>o
    <3>2. LogFaithful' /\ \A q \in Request :
            pc'[q] \in {"put_record", "fund_record"} => env[q] \notin Logged'
      <4>1. CASE UNCHANGED blocks
        <5>1. Logged' = Logged
          BY <4>1 DEF Logged
        <5> QED
          BY <4>1, <5>1, <3>1, <2>b, <2>k DEF LogInv, LogFaithful
      <4>2. CASE PutRecord(r) \/ FundRecord(r)
        <5> DEFINE e == env[r]
        <5>1. e \in Envelope /\ pc[r] \in {"put_record", "fund_record"} /\ Record(e)
              /\ UNCHANGED <<contracts, credited>>
          BY <4>2, <2>e DEF PutRecord, FundRecord, Serving, history
        <5>2. /\ Len(blocks) \in Nat /\ DOMAIN blocks = 1 .. Len(blocks)
              /\ DOMAIN blocks' = 1 .. (Len(blocks) + 1)
              /\ \A i \in DOMAIN blocks : blocks'[i] = blocks[i]
              /\ blocks'[Len(blocks) + 1] = [height |-> Len(blocks) + 1, action |-> e]
              /\ Logged' = Logged \cup {e}
          BY <5>1, RecordLogs DEF TypeInv
        <5>3. e \notin Logged
          BY <5>1 DEF LogInv
        <5>4. /\ e.context = PUBLISH_CONTEXT => contracts'[e.wasm] = e
              /\ e.context = FUND_CONTEXT => credited'[e] > 0
          BY <5>1, <2>c DEF LogInv
        <5>5. ASSUME NEW i \in DOMAIN blocks'
              PROVE  /\ blocks'[i].height = i
                     /\ \A j \in DOMAIN blocks' : blocks'[j].action = blocks'[i].action => j = i
                     /\ blocks'[i].action.context = PUBLISH_CONTEXT
                            => contracts'[blocks'[i].action.wasm] = blocks'[i].action
                     /\ blocks'[i].action.context = FUND_CONTEXT => credited'[blocks'[i].action] > 0
          <6>1. CASE i = Len(blocks) + 1
            <7>1. blocks'[i].height = i /\ blocks'[i].action = e
              BY <6>1, <5>2
            <7>2. \A j \in DOMAIN blocks' : blocks'[j].action = e => j = i
              BY <6>1, <5>2, <5>3, <2>b
            <7> QED
              BY <7>1, <7>2, <5>4
          <6>2. CASE i \in DOMAIN blocks
            <7>1. blocks'[i] = blocks[i] /\ blocks[i].action # e
              BY <6>2, <5>2, <5>3, <2>b
            <7>2. \A j \in DOMAIN blocks' : blocks'[j].action = blocks'[i].action => j = i
              <8> SUFFICES ASSUME NEW j \in DOMAIN blocks', blocks'[j].action = blocks[i].action
                           PROVE  j = i
                BY <7>1
              <8>1. j \in DOMAIN blocks
                BY <7>1, <5>2
              <8> QED
                BY <8>1, <6>2, <5>2 DEF LogInv, LogFaithful
            <7> QED
              BY <7>1, <7>2, <6>2, <2>b, <2>k DEF LogInv, LogFaithful
          <6> QED
            BY <6>1, <6>2, <5>2
        <5>6. LogFaithful'
          BY <5>5 DEF LogFaithful
        <5>7. \A q \in Request :
                pc'[q] \in {"put_record", "fund_record"} => env[q] \notin Logged'
          BY <3>1, <5>1, <5>2 DEF LogInv
        <5> QED
          BY <5>6, <5>7
      <4> QED
        BY <4>1, <4>2, BlocksChange
    <3>3. ASSUME NEW q \in Request, pc'[q] = "put_record"
          PROVE  contracts'[env'[q].wasm] = env'[q] /\ env'[q].context = PUBLISH_CONTEXT
      BY <3>3, <3>1, <2>e, <2>w, <2>g DEF LogInv, Serving
    <3>4. ASSUME NEW q \in Request, pc'[q] = "fund_record"
          PROVE  credited'[env'[q]] > 0 /\ env'[q].context = FUND_CONTEXT
      BY <3>4, <3>1, <2>e, <2>g DEF LogInv, Serving
    <3>5. \A q \in Request : pc'[q] = "fund_credit" => env'[q].context = FUND_CONTEXT
      BY <2>o, Arrivals DEF LogInv, FundOk
    <3>6. ASSUME NEW p \in Request, NEW q \in Request, env'[p] = env'[q],
                 {pc'[p], pc'[q]} \subseteq {"put_record", "fund_record"}
          PROVE  p = q
      BY <3>6, <3>1 DEF LogInv
    <3> QED
      BY <3>1, <3>2, <3>3, <3>4, <3>5, <3>6 DEF LogInv
  <2> QED
    BY <2>1, <2>2
<1> QED
  BY <1>u, <1>n

LedgerInv == TypeInv /\ ChargeInv /\ CreditInv /\ StoreInv /\ LogInv

LEMMA LogInvariant == Spec => []LedgerInv
<1>1. Init => LogInv
  BY DEF Init, LogInv, LogFaithful
<1>2. Init => StoreInv
  BY DEF Init, StoreInv, StoredArePaid, ImportClosure, Stored, PaidStates
<1>3. Init => LedgerInv
  BY <1>1, <1>2, TypeInit, NonceInit DEF LedgerInv
<1>4. LedgerInv /\ [Next]_vars => LedgerInv'
  BY TypeStep, ChargeStep, CreditStep, StoreStep, LogStep DEF LedgerInv
<1> QED
  BY <1>3, <1>4, PTL DEF Spec

\* The block log is a faithful account of the ledger, for any number of
\* concurrent requests: consecutive heights, no action twice, and every
\* action names what the ledger holds or has credited.
THEOREM LogCorrect == Spec => []LogFaithful
<1>1. LedgerInv => LogFaithful
  BY DEF LedgerInv, LogInv
<1> QED
  BY <1>1, LogInvariant, PTL

\* If clients wait for their answers, every change is in the log or in the
\* hands of the request that logs it next.
UnloggedInv == ~Disconnects => NothingUnlogged

LEMMA UnloggedStep == LedgerInv /\ UnloggedInv /\ [Next]_vars => UnloggedInv'
<1> SUFFICES ASSUME LedgerInv, ~Disconnects, NothingUnlogged, [Next]_vars PROVE NothingUnlogged'
  BY DEF UnloggedInv
<1>u. CASE UNCHANGED vars
  BY <1>u DEF vars, NothingUnlogged, Logged, Stored
<1>n. CASE Next
  <2> PICK r \in Request : Arrive(r) \/ Await(r) \/ Serve(r) \/ Disconnect(r)
    BY <1>n DEF Next
  <2>t. TypeInv
    BY DEF LedgerInv
  <2>o. \A q \in Request \ {r} : pc'[q] = pc[q] /\ env'[q] = env[q]
    BY <2>t, OthersStay
  <2>g. \A d \in Stored : contracts'[d] = contracts[d]
    BY <2>t, Growth
  \* A request that has to log does nothing else first, and does not go away.
  <2>r. pc[r] = "put_record" => PutRecord(r)
    BY DEF Arrive, Await, Serve, Disconnect, Admit, Overload, Malformed, PutAuthorize, FundAuthorize,
           ContractGet, RpcHeight, RpcLookup, RpcParams,
           PutCharge, PutCheck, PutResolve, PutInsert, FundCredit,
           FundRecord, RpcCall
  <2>f. pc[r] = "fund_record" => FundRecord(r)
    BY DEF Arrive, Await, Serve, Disconnect, Admit, Overload, Malformed, PutAuthorize, FundAuthorize,
           ContractGet, RpcHeight, RpcLookup, RpcParams,
           PutCharge, PutCheck, PutResolve, PutInsert, FundCredit,
           PutRecord, RpcCall
  <2>l. Logged \subseteq Logged' /\ (pc[r] \in {"put_record", "fund_record"} => env[r] \in Logged')
    <3>1. CASE UNCHANGED blocks /\ ~PutRecord(r) /\ ~FundRecord(r)
      BY <3>1, <2>r, <2>f DEF Logged
    <3>2. CASE PutRecord(r) \/ FundRecord(r)
      <4>1. Record(env[r]) /\ env[r] \in Envelope
        BY <3>2, <2>t DEF PutRecord, FundRecord, TypeInv, EnvOK, Serving
      <4> QED
        BY <4>1, <2>t, RecordLogs DEF TypeInv
    <3> QED
      BY <3>1, <3>2, BlocksChange
  <2>1. ASSUME NEW d \in Stored'
        PROVE  \/ contracts'[d] \in Logged'
               \/ \E q \in Request : pc'[q] = "put_record" /\ env'[q] = contracts'[d]
    <3>1. CASE d \in Stored
      BY <3>1, <2>g, <2>l, <2>o DEF NothingUnlogged
    <3>2. CASE d \notin Stored
      <4>1. PutInsert(r) /\ contracts' # contracts
        BY <3>2, ContractsChange DEF Stored
      <4>2. contracts' = [contracts EXCEPT ![env[r].wasm] = env[r]]
            /\ Goto(r, "put_record") /\ UNCHANGED env
        BY <4>1 DEF PutInsert
      <4>3. d = env[r].wasm /\ contracts'[d] = env[r]
        BY <4>2, <3>2, <2>t DEF Stored, TypeInv, TypeOK
      <4>4. pc'[r] = "put_record" /\ env'[r] = env[r]
        BY <4>2, <2>t DEF Goto, TypeInv, TypeOK
      <4> QED
        BY <4>3, <4>4
    <3> QED
      BY <3>1, <3>2
  <2>2. ASSUME NEW e \in Envelope, credited'[e] > 0
        PROVE  \/ e \in Logged'
               \/ \E q \in Request : pc'[q] = "fund_record" /\ env'[q] = e
    <3>1. CASE credited[e] > 0
      BY <3>1, <2>l, <2>o DEF NothingUnlogged
    <3>2. CASE ~(credited[e] > 0)
      <4>1. FundCredit(r)
        BY <3>2, <2>2 DEF Arrive, Await, Serve, Disconnect, Admit, Overload, Malformed, PutAuthorize,
           FundAuthorize, ContractGet, RpcHeight, RpcLookup, RpcParams,
           PutCharge, PutCheck, PutResolve, PutInsert,
           FundRecord, PutRecord, RpcCall, ledger, history
      <4>2. credited' = [credited EXCEPT ![env[r]] = @ + 1] /\ Goto(r, "fund_record") /\ UNCHANGED env
        BY <4>1 DEF FundCredit
      <4>3. e = env[r]
        BY <4>2, <3>2, <2>2, <2>t DEF TypeInv, TypeOK
      <4>4. pc'[r] = "fund_record" /\ env'[r] = e
        BY <4>2, <4>3, <2>t DEF Goto, TypeInv, TypeOK
      <4> QED
        BY <4>4
    <3> QED
      BY <3>1, <3>2
  <2> QED
    BY <2>1, <2>2 DEF NothingUnlogged
<1> QED
  BY <1>u, <1>n

\* As long as clients stay for their answers, nothing changes the ledger
\* without being logged: a stored contract or a credit is in the log or its
\* request is at the step that logs it.
THEOREM UnloggedCorrect == Spec => [](~Disconnects => NothingUnlogged)
<1>1. Init => UnloggedInv
  BY DEF Init, UnloggedInv, NothingUnlogged, Stored
<1>2. UnloggedInv => (~Disconnects => NothingUnlogged)
  BY DEF UnloggedInv
<1> QED
  BY <1>1, <1>2, UnloggedStep, LogInvariant, PTL DEF Spec

-----------------------------------------------------------------------------
(* Sums over sets of envelopes                                             *)

\* A set of natural numbers has a least one.
LEMMA LeastNumber ==
    ASSUME NEW S, S \subseteq Nat, S # {}
    PROVE  \E x \in S : \A y \in S : x <= y
  <1>1. PICK x \in S : \A y \in S : ~(<<y, x>> \in OpToRel(<, Nat))
    BY NatLessThanWellFounded, WFMin
  <1>2. \A y \in S : ~(y < x)
    BY <1>1 DEF OpToRel
  <1> QED
    BY <1>2

\* The element that a fold takes from a set first.
First(s) == CHOOSE x \in s : TRUE

\* f[s] is the sum of the weights of s, for the sets of one kind.
Sums(f, w, Sets) ==
    f = [s \in Sets |-> IF s = {} THEN 0 ELSE w[First(s)] + f[s \ {First(s)}]]

UpTo(S, n) == {s \in SUBSET S : Cardinality(s) <= n}

\* Taking one element away.
LEMMA Smaller ==
    ASSUME NEW S, IsFiniteSet(S), NEW s \in SUBSET S, s # {}
    PROVE  /\ First(s) \in s /\ First(s) \in S
           /\ s \ {First(s)} \in SUBSET S
           /\ Cardinality(s) \in Nat /\ Cardinality(s) > 0
           /\ Cardinality(s \ {First(s)}) = Cardinality(s) - 1
  <1>1. First(s) \in s
    BY DEF First
  <1>2. IsFiniteSet(s)
    BY FS_Subset
  <1>3. Cardinality(s) \in Nat /\ Cardinality(s) # 0
    BY <1>2, FS_CardinalityType, FS_EmptySet
  <1>4. Cardinality(s \ {First(s)}) = Cardinality(s) - 1
    BY <1>1, <1>2, FS_RemoveElement
  <1> QED
    BY <1>1, <1>3, <1>4

\* Sums exist, however the elements are taken.
LEMMA SumsExist ==
    ASSUME NEW S, IsFiniteSet(S), NEW w
    PROVE  \E f : Sums(f, w, SUBSET S)
  <1> DEFINE Bad == {n \in Nat : ~\E f : Sums(f, w, UpTo(S, n))}
  <1>1. CASE Bad # {}
    <2>1. PICK n \in Bad : \A m \in Bad : n <= m
      BY <1>1, LeastNumber
    <2>2. n \in Nat /\ ~\E f : Sums(f, w, UpTo(S, n))
      OBVIOUS
    <2>3. CASE n = 0
      <3>1. ASSUME NEW s \in UpTo(S, 0), s # {} PROVE FALSE
        <4>1. s \in SUBSET S /\ Cardinality(s) <= 0
          BY DEF UpTo
        <4>2. Cardinality(s) \in Nat /\ Cardinality(s) > 0
          BY <3>1, <4>1, Smaller
        <4> QED
          BY <4>1, <4>2
      <3>2. PICK f : f = [s \in UpTo(S, 0) |-> 0]
        OBVIOUS
      <3>3. Sums(f, w, UpTo(S, 0))
        BY <3>1, <3>2 DEF Sums
      <3> QED
        BY <2>2, <2>3, <3>3
    <2>4. CASE n # 0
      <3>1. n - 1 \in Nat /\ n - 1 \notin Bad
        BY <2>1, <2>2, <2>4
      <3>2. PICK g : Sums(g, w, UpTo(S, n - 1))
        BY <3>1
      <3>3. PICK f : f = [s \in UpTo(S, n) |-> IF s = {} THEN 0
                                              ELSE w[First(s)] + g[s \ {First(s)}]]
        OBVIOUS
      <3>4. \A s \in UpTo(S, n - 1) : s \in UpTo(S, n) /\ f[s] = g[s]
        <4>1. \A s \in UpTo(S, n - 1) : s \in UpTo(S, n)
          <5>1. \A s \in SUBSET S : Cardinality(s) \in Nat
            BY FS_Subset, FS_CardinalityType
          <5> QED
            BY <2>2, <5>1 DEF UpTo
        <4>2. \A s \in UpTo(S, n - 1) :
                g[s] = IF s = {} THEN 0 ELSE w[First(s)] + g[s \ {First(s)}]
          BY <3>2 DEF Sums
        <4> QED
          BY <3>3, <4>1, <4>2
      <3>5. \A s \in UpTo(S, n) : s # {} => s \ {First(s)} \in UpTo(S, n - 1)
        BY <2>2, Smaller DEF UpTo
      <3>6. \A s \in UpTo(S, n) : s # {} => g[s \ {First(s)}] = f[s \ {First(s)}]
        BY <3>4, <3>5
      <3>7. f = [s \in UpTo(S, n) |-> IF s = {} THEN 0
                                      ELSE w[First(s)] + f[s \ {First(s)}]]
        BY <3>3, <3>6
      <3> QED
        BY <2>2, <3>7 DEF Sums
    <2> QED
      BY <2>3, <2>4
  <1>2. CASE Bad = {}
    <2>1. Cardinality(S) \in Nat
      BY FS_CardinalityType
    <2>2. UpTo(S, Cardinality(S)) = SUBSET S
      <3>1. \A s \in SUBSET S : Cardinality(s) <= Cardinality(S)
        BY FS_Subset
      <3> QED
        BY <3>1 DEF UpTo
    <2>3. \E f : Sums(f, w, UpTo(S, Cardinality(S)))
      BY <1>2, <2>1
    <2> QED
      BY <2>2, <2>3
  <1> QED
    BY <1>1, <1>2

\* The weights v are those of w, but e weighs d more.
Heavier(v, w, S, e, d) ==
    /\ w \in [S -> Nat] /\ v \in [S -> Nat] /\ d \in Nat
    /\ \A x \in S : (x # e => v[x] = w[x]) /\ (x = e => v[x] = w[x] + d)

\* A sum is a number, and grows with the weight of one element as that does.
LEMMA SumGrows ==
    ASSUME NEW S, IsFiniteSet(S), NEW w, NEW v, NEW e, NEW d, Heavier(v, w, S, e, d),
           NEW f, Sums(f, w, SUBSET S), NEW g, Sums(g, v, SUBSET S)
    PROVE  /\ f[S] \in Nat
           /\ e \in S => g[S] = f[S] + d
           /\ e \notin S => g[S] = f[S]
  <1> DEFINE Good(s) == /\ f[s] \in Nat
                        /\ e \in s => g[s] = f[s] + d
                        /\ e \notin s => g[s] = f[s]
             Bad == {n \in Nat : \E s \in SUBSET S : Cardinality(s) = n /\ ~Good(s)}
  <1>0. /\ w \in [S -> Nat] /\ v \in [S -> Nat] /\ d \in Nat
        /\ \A x \in S : (x # e => v[x] = w[x]) /\ (x = e => v[x] = w[x] + d)
    BY DEF Heavier
  <1>1. \A s \in SUBSET S : s = {} => f[s] = 0 /\ g[s] = 0
    BY DEF Sums
  <1>2. \A s \in SUBSET S : s # {} => /\ f[s] = w[First(s)] + f[s \ {First(s)}]
                                      /\ g[s] = v[First(s)] + g[s \ {First(s)}]
    BY DEF Sums
  <1>3. ASSUME Bad # {} PROVE FALSE
    <2>1. PICK n \in Bad : \A m \in Bad : n <= m
      BY <1>3, LeastNumber
    <2>2. PICK s \in SUBSET S : Cardinality(s) = n /\ ~Good(s)
      OBVIOUS
    <2>3. s # {}
      BY <1>0, <1>1, <2>2
    <2> DEFINE x == First(s)
               r == s \ {x}
    <2>4. x \in s /\ x \in S /\ r \in SUBSET S /\ Cardinality(r) = n - 1 /\ n \in Nat /\ n > 0
      BY <2>2, <2>3, Smaller
    <2>5. r = s \ {x} /\ f[s] = w[x] + f[r] /\ g[s] = v[x] + g[r]
      BY <1>2, <2>3
    <2> HIDE DEF x, r, Good
    <2>6. Good(r)
      <3>1. n - 1 \notin Bad /\ n - 1 \in Nat
        BY <2>1, <2>4
      <3> QED
        BY <2>4, <3>1
    <2>7. w[x] \in Nat /\ v[x] \in Nat /\ f[r] \in Nat
      BY <1>0, <2>4, <2>6 DEF Good
    <2>8. CASE x = e
      <3>1. e \in s /\ e \notin r /\ v[x] = w[x] + d
        BY <1>0, <2>4, <2>5, <2>8
      <3>2. g[r] = f[r]
        BY <2>6, <3>1 DEF Good
      <3> QED
        BY <1>0, <2>2, <2>5, <2>7, <3>1, <3>2 DEF Good
    <2>9. CASE x # e
      <3>1. (e \in s <=> e \in r) /\ v[x] = w[x]
        BY <1>0, <2>4, <2>5, <2>9
      <3> QED
        BY <1>0, <2>2, <2>5, <2>6, <2>7, <3>1 DEF Good
    <2> QED
      BY <2>8, <2>9
  <1>4. Cardinality(S) \in Nat
    BY FS_CardinalityType
  <1>5. Good(S)
    BY <1>3, <1>4
  <1> QED
    BY <1>5

\* The sum of zeros is zero.
LEMMA SumOfZeros ==
    ASSUME NEW S, IsFiniteSet(S), NEW w, \A x \in S : w[x] = 0, NEW f, Sums(f, w, SUBSET S)
    PROVE  f[S] = 0
  <1> DEFINE Bad == {n \in Nat : \E s \in SUBSET S : Cardinality(s) = n /\ f[s] # 0}
  <1>1. ASSUME Bad # {} PROVE FALSE
    <2>1. PICK n \in Bad : \A m \in Bad : n <= m
      BY <1>1, LeastNumber
    <2>2. PICK s \in SUBSET S : Cardinality(s) = n /\ f[s] # 0
      OBVIOUS
    <2>3. s # {} /\ f[s] = w[First(s)] + f[s \ {First(s)}]
      BY <2>2 DEF Sums
    <2> DEFINE r == s \ {First(s)}
    <2>4. First(s) \in S /\ r \in SUBSET S /\ Cardinality(r) = n - 1 /\ n \in Nat /\ n > 0
      BY <2>2, <2>3, Smaller
    <2>5. n - 1 \notin Bad /\ n - 1 \in Nat
      BY <2>1, <2>4
    <2>6. f[r] = 0
      BY <2>4, <2>5
    <2> QED
      BY <2>2, <2>3, <2>4, <2>6
  <1>2. Cardinality(S) \in Nat
    BY FS_CardinalityType
  <1> QED
    BY <1>1, <1>2

\* What c charges or credits of the envelopes S, where a says how much each time.
Weigh(c, a, S) == [e \in S |-> c[e] * a[e]]
Amount == [e \in Envelope |-> e.amount]
Size == [e \in Envelope |-> e.size]

\* The counts d, where envelope x took effect once more than in c.
OneMore(d, c, x) == d = [c EXCEPT ![x] = @ + 1]

\* The envelopes that fund account k, and those that key k has signed.
Funding(k) == {e \in Envelope : e.account = k}
SignedBy(k) == {e \in Envelope : e.key = k}

LEMMA WeightsGrow ==
    ASSUME NEW S \in SUBSET Envelope, NEW c \in [Envelope -> Nat], NEW x \in Envelope,
           NEW d, OneMore(d, c, x), NEW a \in [Envelope -> Nat],
           NEW f, Sums(f, Weigh(c, a, S), SUBSET S),
           NEW g, Sums(g, Weigh(d, a, S), SUBSET S)
    PROVE  /\ f[S] \in Nat
           /\ x \in S => g[S] = f[S] + a[x]
           /\ x \notin S => g[S] = f[S]
  <1>1. IsFiniteSet(S)
    BY EnvelopeAssumption, FS_Subset
  <1> DEFINE w == Weigh(c, a, S)
             v == Weigh(d, a, S)
  <1>2. \A e \in Envelope : a[e] \in Nat /\ c[e] \in Nat
    OBVIOUS
  <1>3. \A e \in Envelope : d[e] = IF e = x THEN c[e] + 1 ELSE c[e]
    BY DEF OneMore
  <1>4. \A m, n \in Nat : m * n \in Nat /\ (m + 1) * n = m * n + n
    OBVIOUS
  <1>5. w \in [S -> Nat] /\ v \in [S -> Nat]
    BY <1>2, <1>3, <1>4 DEF Weigh
  <1>6. Heavier(v, w, S, x, a[x])
    BY <1>2, <1>3, <1>4, <1>5 DEF Weigh, Heavier
  <1>7. Sums(f, w, SUBSET S) /\ Sums(g, v, SUBSET S)
    OBVIOUS
  <1> HIDE DEF w, v
  <1> QED
    BY <1>1, <1>6, <1>7, SumGrows

\* Credits are such a sum.
LEMMA CreditsAreSums ==
    ASSUME NEW c, NEW k
    PROVE  \E f : /\ Sums(f, Weigh(c, Amount, Funding(k)), SUBSET Funding(k))
                  /\ Credits(c, k) = f[Funding(k)]
  <1> DEFINE S == Funding(k)
             w == Weigh(c, Amount, S)
             Recurs(f) == f = [s \in SUBSET S |->
                                IF s = {} THEN 0
                                ELSE LET x == CHOOSE x \in s : TRUE
                                     IN  (c[x] * x.amount) + f[s \ {x}]]
  <1>1. IsFiniteSet(S) /\ S \in SUBSET Envelope
    BY EnvelopeAssumption, FS_Subset DEF Funding
  <1>2. ASSUME NEW f PROVE Recurs(f) <=> Sums(f, w, SUBSET S)
    <2>1. \A s \in SUBSET S : s # {} => w[First(s)] = c[First(s)] * First(s).amount
      BY <1>1, Smaller DEF Weigh, Amount
    <2> HIDE DEF w
    <2> QED
      BY <2>1 DEF Sums, First
  <1>3. \E f : Recurs(f)
    <2>1. PICK f : Sums(f, w, SUBSET S)
      BY <1>1, SumsExist
    <2>2. Recurs(f)
      BY <1>2, <2>1
    <2> QED
      BY <2>2
  <1>4. Recurs(CHOOSE f : Recurs(f))
    BY <1>3
  <1>5. Credits(c, k) = (CHOOSE f : Recurs(f))[S]
    BY DEF Credits, Funding, MapThenSumSet, MapThenFoldSet
  <1> HIDE DEF Recurs
  <1> QED
    BY <1>2, <1>4, <1>5

\* Charges are such a sum.
LEMMA ChargesAreSums ==
    ASSUME NEW c, NEW k
    PROVE  \E f : /\ Sums(f, Weigh(c, Size, SignedBy(k)), SUBSET SignedBy(k))
                  /\ Charges(c, k) = f[SignedBy(k)]
  <1> DEFINE S == SignedBy(k)
             w == Weigh(c, Size, S)
             Recurs(f) == f = [s \in SUBSET S |->
                                IF s = {} THEN 0
                                ELSE LET x == CHOOSE x \in s : TRUE
                                     IN  (c[x] * x.size) + f[s \ {x}]]
  <1>1. IsFiniteSet(S) /\ S \in SUBSET Envelope
    BY EnvelopeAssumption, FS_Subset DEF SignedBy
  <1>2. ASSUME NEW f PROVE Recurs(f) <=> Sums(f, w, SUBSET S)
    <2>1. \A s \in SUBSET S : s # {} => w[First(s)] = c[First(s)] * First(s).size
      BY <1>1, Smaller DEF Weigh, Size
    <2> HIDE DEF w
    <2> QED
      BY <2>1 DEF Sums, First
  <1>3. \E f : Recurs(f)
    <2>1. PICK f : Sums(f, w, SUBSET S)
      BY <1>1, SumsExist
    <2>2. Recurs(f)
      BY <1>2, <2>1
    <2> QED
      BY <2>2
  <1>4. Recurs(CHOOSE f : Recurs(f))
    BY <1>3
  <1>5. Charges(c, k) = (CHOOSE f : Recurs(f))[S]
    BY DEF Charges, SignedBy, MapThenSumSet, MapThenFoldSet
  <1> HIDE DEF Recurs
  <1> QED
    BY <1>2, <1>4, <1>5

\* The credits of a key, before and after an envelope is credited once more.
LEMMA CreditsGrow ==
    ASSUME NEW c \in [Envelope -> Nat], NEW k \in Key, NEW x \in Envelope,
           NEW d, OneMore(d, c, x)
    PROVE  /\ Credits(c, k) \in Nat
           /\ x.account = k => Credits(d, k) = Credits(c, k) + x.amount
           /\ x.account # k => Credits(d, k) = Credits(c, k)
  <1> DEFINE S == Funding(k)
  <1>2. S \in SUBSET Envelope /\ (x \in S <=> x.account = k)
    BY DEF Funding
  <1>3. PICK f : Sums(f, Weigh(c, Amount, S), SUBSET S) /\ Credits(c, k) = f[S]
    BY CreditsAreSums
  <1>4. PICK g : Sums(g, Weigh(d, Amount, S), SUBSET S) /\ Credits(d, k) = g[S]
    BY CreditsAreSums
  <1>5. Amount \in [Envelope -> Nat] /\ Amount[x] = x.amount
    BY EnvelopeFields, ConstantsAssumption DEF Amount, U64
  <1> HIDE DEF S
  <1> QED
    BY <1>2, <1>3, <1>4, <1>5, WeightsGrow

\* The charges of a key, before and after an envelope is charged once more.
LEMMA ChargesGrow ==
    ASSUME NEW c \in [Envelope -> Nat], NEW k \in Key, NEW x \in Envelope,
           NEW d, OneMore(d, c, x)
    PROVE  /\ Charges(c, k) \in Nat
           /\ x.key = k => Charges(d, k) = Charges(c, k) + x.size
           /\ x.key # k => Charges(d, k) = Charges(c, k)
  <1> DEFINE S == SignedBy(k)
  <1>2. S \in SUBSET Envelope /\ (x \in S <=> x.key = k)
    BY DEF SignedBy
  <1>3. PICK f : Sums(f, Weigh(c, Size, S), SUBSET S) /\ Charges(c, k) = f[S]
    BY ChargesAreSums
  <1>4. PICK g : Sums(g, Weigh(d, Size, S), SUBSET S) /\ Charges(d, k) = g[S]
    BY ChargesAreSums
  <1>5. Size \in [Envelope -> Nat] /\ Size[x] = x.size
    BY EnvelopeFields, ConstantsAssumption DEF Size, U64
  <1> HIDE DEF S
  <1> QED
    BY <1>2, <1>3, <1>4, <1>5, WeightsGrow

\* What never took effect adds up to nothing.
LEMMA NothingYet ==
    ASSUME NEW c, c = [e \in Envelope |-> 0], NEW k
    PROVE  Credits(c, k) = 0 /\ Charges(c, k) = 0
  <1>1. \A e \in Envelope : e.amount \in Nat /\ e.size \in Nat
    BY EnvelopeFields, ConstantsAssumption DEF U64
  <1>2. \A n \in Nat : 0 * n = 0
    OBVIOUS
  <1>3. Credits(c, k) = 0
    <2>1. PICK f : /\ Sums(f, Weigh(c, Amount, Funding(k)), SUBSET Funding(k))
                   /\ Credits(c, k) = f[Funding(k)]
      BY CreditsAreSums
    <2>2. IsFiniteSet(Funding(k))
      BY EnvelopeAssumption, FS_Subset DEF Funding
    <2>3. \A x \in Funding(k) : Weigh(c, Amount, Funding(k))[x] = 0
      BY <1>1, <1>2 DEF Weigh, Amount, Funding
    <2> QED
      BY <2>1, <2>2, <2>3, SumOfZeros
  <1>4. Charges(c, k) = 0
    <2>1. PICK f : /\ Sums(f, Weigh(c, Size, SignedBy(k)), SUBSET SignedBy(k))
                   /\ Charges(c, k) = f[SignedBy(k)]
      BY ChargesAreSums
    <2>2. IsFiniteSet(SignedBy(k))
      BY EnvelopeAssumption, FS_Subset DEF SignedBy
    <2>3. \A x \in SignedBy(k) : Weigh(c, Size, SignedBy(k))[x] = 0
      BY <1>1, <1>2 DEF Weigh, Size, SignedBy
    <2> QED
      BY <2>1, <2>2, <2>3, SumOfZeros
  <1> QED
    BY <1>3, <1>4

-----------------------------------------------------------------------------
(* Balances                                                                *)

\* The least of two numbers.
LEMMA LeastOfTwo ==
    ASSUME NEW a \in Nat, NEW b \in Nat
    PROVE  Min({a, b}) = IF a <= b THEN a ELSE b
  <1>1. \E x \in {a, b} : \A y \in {a, b} : x <= y
    OBVIOUS
  <1>2. Min({a, b}) \in {a, b} /\ \A y \in {a, b} : Min({a, b}) <= y
    BY <1>1 DEF Min
  <1> QED
    BY <1>2

\* A balance between what is left of the credits, up to the largest balance, and
\* all that is left of them.
Between(b, credits, charges) ==
    /\ b <= credits - charges
    /\ b >= (IF MaxU64 <= credits THEN MaxU64 ELSE credits) - charges

LEMMA CreditArithmetic ==
    ASSUME NEW b \in U64, NEW a \in U64, NEW credits \in Nat, NEW charges \in Nat,
           Between(b, credits, charges)
    PROVE  Between(SaturatingAdd(b, a), credits + a, charges)
  <1>1. b \in Nat /\ a \in Nat /\ MaxU64 \in Nat /\ b <= MaxU64
    BY ConstantsAssumption DEF U64
  <1>2. CASE b + a > MaxU64
    <2>1. SaturatingAdd(b, a) = MaxU64
      BY <1>2 DEF SaturatingAdd
    <2> QED
      BY <1>1, <1>2, <2>1 DEF Between
  <1>3. CASE ~(b + a > MaxU64)
    <2>1. SaturatingAdd(b, a) = b + a
      BY <1>3 DEF SaturatingAdd
    <2> QED
      BY <1>1, <2>1 DEF Between
  <1> QED
    BY <1>2, <1>3

LEMMA ChargeArithmetic ==
    ASSUME NEW b \in U64, NEW a \in U64, NEW credits \in Nat, NEW charges \in Nat,
           Between(b, credits, charges)
    PROVE  Between(b - a, credits, charges + a)
  BY ConstantsAssumption DEF U64, Between

\* BalanceConserved, with the sums known to be numbers.
BalanceInv ==
    \A k \in Key : /\ Credits(credited, k) \in Nat /\ Charges(charged, k) \in Nat
                   /\ Between(balance[k], Credits(credited, k), Charges(charged, k))

LEMMA BalanceStep == TypeInv /\ BalanceInv /\ [Next]_vars => BalanceInv'
<1> SUFFICES ASSUME TypeInv, BalanceInv, [Next]_vars PROVE BalanceInv'
  OBVIOUS
<1>u. CASE UNCHANGED <<balance, charged, credited>>
  BY <1>u DEF BalanceInv
<1>n. CASE ~UNCHANGED <<balance, charged, credited>>
  <2>1. PICK r \in Request : Arrive(r) \/ Await(r) \/ Serve(r) \/ Disconnect(r)
    BY <1>n DEF Next, vars
  <2>2. PutCharge(r) \/ FundCredit(r)
    BY <1>n, <2>1
    DEF Arrive, Await, Serve, Disconnect, Admit, Overload, Malformed, PutAuthorize, FundAuthorize,
        ContractGet, RpcHeight, RpcLookup, RpcParams,
        PutCheck, PutResolve, PutInsert, PutRecord, FundRecord,
        RpcCall, ledger, history
  <2>3. env[r] \in Envelope
    BY <2>2 DEF TypeInv, PutCharge, FundCredit, EnvOK, Serving
  <2> DEFINE e == env[r]
  <2>4. e.key \in Key /\ e.account \in Key /\ e.size \in U64 /\ e.amount \in U64
    BY <2>3, EnvelopeFields
  <2>5. charged \in [Envelope -> Nat] /\ credited \in [Envelope -> Nat] /\ balance \in [Key -> U64]
    BY DEF TypeInv, TypeOK
  <2>6. CASE PutCharge(r)
    <3>1. /\ balance' = [balance EXCEPT ![e.key] = @ - e.size]
          /\ OneMore(charged', charged, e) /\ credited' = credited
      BY <1>n, <2>6 DEF PutCharge, OneMore
    <3> HIDE DEF e
    <3>2. \A k \in Key : /\ e.key = k => Charges(charged', k) = Charges(charged, k) + e.size
                         /\ e.key # k => Charges(charged', k) = Charges(charged, k)
      BY <2>3, <2>5, <3>1, ChargesGrow DEF e
    <3> SUFFICES ASSUME NEW k \in Key
                 PROVE  /\ Credits(credited', k) \in Nat /\ Charges(charged', k) \in Nat
                        /\ Between(balance'[k], Credits(credited', k), Charges(charged', k))
      BY DEF BalanceInv
    <3>3. /\ Credits(credited, k) \in Nat /\ Charges(charged, k) \in Nat
          /\ Between(balance[k], Credits(credited, k), Charges(charged, k)) /\ balance[k] \in U64
      BY <2>5 DEF BalanceInv
    <3>4. CASE k = e.key
      <4>1. balance'[k] = balance[k] - e.size
        BY <2>4, <2>5, <3>1, <3>4
      <4>2. Charges(charged', k) = Charges(charged, k) + e.size /\ e.size \in Nat
        BY <2>4, <3>2, <3>4, ConstantsAssumption DEF U64
      <4>3. Between(balance[k] - e.size, Credits(credited, k), Charges(charged, k) + e.size)
        BY <2>4, <3>3, ChargeArithmetic
      <4> QED
        BY <3>1, <3>3, <4>1, <4>2, <4>3
    <3>5. CASE k # e.key
      <4>1. balance'[k] = balance[k]
        BY <2>4, <2>5, <3>1, <3>5
      <4> QED
        BY <3>1, <3>2, <3>3, <3>5, <4>1
    <3> QED
      BY <3>4, <3>5
  <2>7. CASE FundCredit(r)
    <3>1. /\ balance' = [balance EXCEPT ![e.account] = SaturatingAdd(@, e.amount)]
          /\ OneMore(credited', credited, e) /\ charged' = charged
      BY <2>7 DEF FundCredit, OneMore
    <3> HIDE DEF e
    <3>2. \A k \in Key : /\ e.account = k => Credits(credited', k) = Credits(credited, k) + e.amount
                         /\ e.account # k => Credits(credited', k) = Credits(credited, k)
      BY <2>3, <2>5, <3>1, CreditsGrow DEF e
    <3> SUFFICES ASSUME NEW k \in Key
                 PROVE  /\ Credits(credited', k) \in Nat /\ Charges(charged', k) \in Nat
                        /\ Between(balance'[k], Credits(credited', k), Charges(charged', k))
      BY DEF BalanceInv
    <3>3. /\ Credits(credited, k) \in Nat /\ Charges(charged, k) \in Nat
          /\ Between(balance[k], Credits(credited, k), Charges(charged, k)) /\ balance[k] \in U64
      BY <2>5 DEF BalanceInv
    <3>4. CASE k = e.account
      <4>1. balance'[k] = SaturatingAdd(balance[k], e.amount)
        BY <2>4, <2>5, <3>1, <3>4
      <4>2. Credits(credited', k) = Credits(credited, k) + e.amount /\ e.amount \in Nat
        BY <2>4, <3>2, <3>4, ConstantsAssumption DEF U64
      <4>3. Between(SaturatingAdd(balance[k], e.amount),
                    Credits(credited, k) + e.amount, Charges(charged, k))
        BY <2>4, <3>3, CreditArithmetic
      <4> QED
        BY <3>1, <3>3, <4>1, <4>2, <4>3
    <3>5. CASE k # e.account
      <4>1. balance'[k] = balance[k]
        BY <2>4, <2>5, <3>1, <3>5
      <4> QED
        BY <3>1, <3>2, <3>3, <3>5, <4>1
    <3> QED
      BY <3>4, <3>5
  <2> QED
    BY <2>2, <2>6, <2>7
<1> QED
  BY <1>u, <1>n

\* No interleaving of charges and credits loses or makes money: the balance of an
\* account is what it was credited less what its key was charged, but for what a
\* saturating credit cuts off.
THEOREM BalanceCorrect == Spec => []BalanceConserved
<1>1. Init => BalanceInv
  <2>1. ASSUME Init PROVE BalanceInv
    BY <2>1, NothingYet, ConstantsAssumption DEF Init, BalanceInv, Between
  <2> QED
    BY <2>1
<1>2. BalanceInv => BalanceConserved
  BY LeastOfTwo, ConstantsAssumption DEF BalanceInv, Between, BalanceConserved
<1> QED
  BY <1>1, <1>2, BalanceStep, TypeInvariant, PTL DEF Spec

=============================================================================
