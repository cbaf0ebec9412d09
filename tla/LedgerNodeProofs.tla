-------------------------- MODULE LedgerNodeProofs --------------------------
(***************************************************************************)
(* Proofs about LedgerNode, for any number of clients and any limit.       *)
(***************************************************************************)
EXTENDS LedgerNode, FiniteSetTheorems, TLAPS

\* What the accept loop leaves behind when it returns Poll::Pending: it will
\* hear of a notification and of every task that finishes, and it stopped
\* listening only because it was full.
ParkedInv ==
    http = "accepting" /\ ~woken =>
        /\ ~notified
        /\ "shutdown" \in wakers
        /\ tasks = Open
        /\ tasks # {} => "join" \in wakers
        /\ "accept" \in wakers => Queued = {}
        /\ "accept" \notin wakers => Cardinality(tasks) >= MaxConnections

\* The loop is only parked inside poll_fn, and main has notified when it waits.
SignalInv ==
    /\ http \in {"spawned", "sleeping"} => woken
    /\ main # "running" => notified

IInv == TypeOK /\ ConnectionsBounded /\ ParkedInv /\ SignalInv

\* Taking finished tasks out leaves the open connections.
LEMMA ReapedIsOpen == TypeOK => Reaped = Open /\ Reaped \subseteq tasks
  BY DEF TypeOK, Reaped, Open

\* The sets the loop counts are finite.
LEMMA TasksFinite ==
    ASSUME TypeOK
    PROVE  /\ IsFiniteSet(tasks) /\ IsFiniteSet(Reaped)
           /\ Cardinality(tasks) \in Nat /\ Cardinality(Reaped) \in Nat
           /\ Cardinality(Reaped) <= Cardinality(tasks)
  <1>1. tasks \subseteq Conn /\ Reaped \subseteq tasks
    BY DEF TypeOK, Reaped
  <1>2. IsFiniteSet(tasks)
    BY <1>1, FS_Subset, NodeAssumption DEF NodeAssumption
  <1>3. IsFiniteSet(Reaped) /\ Cardinality(Reaped) <= Cardinality(tasks)
    BY <1>1, <1>2, FS_Subset
  <1> QED
    BY <1>2, <1>3, FS_CardinalityType

LEMMA InitInv == Init => IInv
  <1> SUFFICES ASSUME Init PROVE IInv
    OBVIOUS
  <1>1. TypeOK
    BY DEF Init, TypeOK, Open
  <1>2. ConnectionsBounded
    BY FS_EmptySet, NodeAssumption DEF Init, ConnectionsBounded, NodeAssumption
  <1> QED
    BY <1>1, <1>2 DEF IInv, Init, ParkedInv, SignalInv

-----------------------------------------------------------------------------
(* One lemma per kind of step.                                             *)

LEMMA PollInv == IInv /\ Poll => IInv'
  <1> SUFFICES ASSUME IInv, Poll PROVE IInv'
    OBVIOUS
  <1> USE DEF IInv
  <1>f. /\ Cardinality(tasks) \in Nat /\ Cardinality(Reaped) \in Nat
        /\ Cardinality(Reaped) <= MaxConnections /\ IsFiniteSet(Reaped)
    BY TasksFinite, NodeAssumption DEF ConnectionsBounded, NodeAssumption
  <1>o. Reaped = Open /\ Reaped \subseteq tasks
    BY ReapedIsOpen
  <1>1. CASE http = "spawned" /\ http' = "accepting" /\ UNCHANGED <<conn, tasks, wakers, woken>>
    BY <1>1 DEF Poll, TypeOK, ConnectionsBounded, ParkedInv, SignalInv, Open
  <1>2. CASE notified /\ http' = "draining" /\ tasks' = Reaped /\ UNCHANGED <<conn, wakers, woken>>
    BY <1>2, <1>f, <1>o DEF Poll, TypeOK, ConnectionsBounded, ParkedInv, SignalInv, Open
  <1>3. CASE http = "accepting" /\ ~notified /\ PollFull
    <2>1. Reaped # {} => "join" \in JoinWaker
      BY DEF JoinWaker
    <2>2. JoinWaker \subseteq {"join"}
      BY DEF JoinWaker
    <2>3. /\ tasks' = Open /\ Open' = Open /\ wakers' = {"shutdown"} \cup JoinWaker
          /\ Cardinality(tasks') >= MaxConnections /\ http' = http /\ conn' = conn
          /\ main' = main /\ notified' = notified /\ polled' = TRUE /\ woken' = FALSE
      BY <1>3, <1>o DEF Poll, PollFull, Park, Full, Open
    <2>4. TypeOK' /\ ConnectionsBounded'
      BY <2>2, <2>3, <1>f, <1>o DEF TypeOK, ConnectionsBounded, Open
    <2>5. ParkedInv' /\ SignalInv'
      BY <2>1, <2>2, <2>3, <1>3, <1>o DEF ParkedInv, SignalInv
    <2> QED
      BY <2>4, <2>5
  <1>4. CASE http = "accepting" /\ ~notified /\ PollAccept
    <2>1. JoinWaker \subseteq {"join"} /\ (Reaped # {} => "join" \in JoinWaker)
      BY DEF JoinWaker
    <2>2. /\ main' = main /\ notified' = notified /\ polled' = TRUE
          /\ Cardinality(Reaped) < MaxConnections
      BY <1>4, <1>f, NodeAssumption DEF Poll, PollAccept, Full, NodeAssumption
    <2>3. CASE /\ Queued = {} /\ tasks' = Reaped
               /\ Park({"shutdown", "accept"} \cup JoinWaker)
      <3>1. /\ tasks' = Open /\ Open' = Open /\ Queued' = {} /\ http' = http /\ conn' = conn
            /\ wakers' = {"shutdown", "accept"} \cup JoinWaker /\ woken' = FALSE
        BY <2>3, <1>o DEF Park, Open, Queued
      <3>2. TypeOK' /\ ConnectionsBounded'
        BY <2>1, <2>2, <3>1, <1>f, <1>o DEF TypeOK, ConnectionsBounded, Open
      <3>3. ParkedInv' /\ SignalInv'
        BY <2>1, <2>2, <3>1, <1>4, <1>o DEF ParkedInv, SignalInv
      <3> QED
        BY <3>2, <3>3
    <2>4. ASSUME NEW c \in Queued, conn' = [conn EXCEPT ![c] = "idle"],
                 tasks' = Reaped \cup {c}, UNCHANGED <<http, wakers, woken>>
          PROVE  IInv'
      <3>1. Cardinality(tasks') <= MaxConnections
        <4>1. c \notin Reaped
          BY <1>o DEF Queued, Open
        <4>2. Cardinality(Reaped \cup {c}) = Cardinality(Reaped) + 1
          BY <4>1, <1>f, FS_AddElement
        <4> QED
          BY <4>2, <2>2, <2>4, <1>f, NodeAssumption DEF NodeAssumption
      <3>2. TypeOK'
        BY <2>2, <2>4, <1>o, <1>4 DEF TypeOK, Open, Queued, Reaped
      <3>3. ParkedInv' /\ SignalInv'
        BY <2>2, <2>4, <1>4 DEF ParkedInv, SignalInv, Poll
      <3> QED
        BY <3>1, <3>2, <3>3 DEF ConnectionsBounded
    <2>5. ASSUME NEW c \in Queued, conn' = [conn EXCEPT ![c] = "closed"],
                 tasks' = Reaped, UNCHANGED <<http, wakers, woken>>
          PROVE  IInv'
      <3>1. TypeOK' /\ ConnectionsBounded'
        BY <2>2, <2>5, <1>o, <1>4, <1>f DEF TypeOK, Open, Queued, Reaped, ConnectionsBounded
      <3>2. ParkedInv' /\ SignalInv'
        BY <2>2, <2>5, <1>4 DEF ParkedInv, SignalInv, Poll
      <3> QED
        BY <3>1, <3>2
    <2>6. CASE http' = "sleeping" /\ tasks' = Reaped /\ UNCHANGED <<conn, wakers, woken>>
      <3>1. TypeOK' /\ ConnectionsBounded'
        BY <2>2, <2>6, <1>o, <1>f DEF TypeOK, Open, ConnectionsBounded
      <3>2. ParkedInv' /\ SignalInv'
        BY <2>2, <2>6, <1>4 DEF ParkedInv, SignalInv, Poll
      <3> QED
        BY <3>1, <3>2
    <2> QED
      BY <1>4, <2>3, <2>4, <2>5, <2>6 DEF PollAccept
  <1> QED
    BY <1>1, <1>2, <1>3, <1>4 DEF Poll

LEMMA CloseInv ==
    ASSUME IInv, NEW c \in Open, Close(c)
    PROVE  IInv'
  <1> USE DEF IInv
  <1>1. Open' = Open \ {c} /\ Queued' = Queued /\ c \in tasks
    BY DEF Close, Open, Queued, TypeOK
  <1>2. TypeOK' /\ ConnectionsBounded'
    BY <1>1 DEF Close, TypeOK, ConnectionsBounded, Open
  <1>3. ParkedInv'
    BY <1>1 DEF Close, ParkedInv, TypeOK
  <1>4. SignalInv'
    BY DEF Close, SignalInv
  <1> QED
    BY <1>2, <1>3, <1>4

LEMMA ConnInv ==
    ASSUME IInv, NEW c \in Conn, Connect(c) \/ Request(c) \/ Answer(c) \/ Hangup(c) \/ Release(c)
    PROVE  IInv'
  <1> USE DEF IInv
  <1>1. CASE Connect(c)
    <2>1. Open' = Open /\ Queued' = Queued \cup {c}
      BY <1>1 DEF Connect, Open, Queued, TypeOK
    <2>2. TypeOK' /\ ConnectionsBounded'
      BY <1>1, <2>1 DEF Connect, TypeOK, ConnectionsBounded, Open
    <2>3. ParkedInv' /\ SignalInv'
      BY <1>1, <2>1 DEF Connect, ParkedInv, SignalInv, TypeOK
    <2> QED
      BY <2>2, <2>3
  <1>2. ASSUME conn[c] \in {"idle", "busy"}, conn' = [conn EXCEPT ![c] = "idle"]
                \/ conn' = [conn EXCEPT ![c] = "busy"],
               UNCHANGED <<main, http, notified, polled, tasks, wakers, woken>>
        PROVE  IInv'
    <2>1. Open' = Open /\ Queued' = Queued
      BY <1>2 DEF Open, Queued, TypeOK
    <2>2. TypeOK' /\ ConnectionsBounded'
      BY <1>2, <2>1 DEF TypeOK, ConnectionsBounded, Open
    <2>3. ParkedInv' /\ SignalInv'
      BY <1>2, <2>1 DEF ParkedInv, SignalInv
    <2> QED
      BY <2>2, <2>3
  <1>3. CASE Request(c)
    BY <1>2, <1>3 DEF Request
  <1>4. CASE Answer(c)
    BY <1>2, <1>4, CloseInv DEF Answer, Open
  <1>5. CASE Hangup(c) \/ Release(c)
    BY <1>5, CloseInv DEF Hangup, Release, Open
  <1> QED
    BY <1>1, <1>3, <1>4, <1>5

LEMMA OtherInv == IInv /\ (WakeUp \/ HttpDone \/ Signal \/ Exit \/ Timeout \/ UNCHANGED vars) => IInv'
  <1> SUFFICES ASSUME IInv, WakeUp \/ HttpDone \/ Signal \/ Exit \/ Timeout \/ UNCHANGED vars
               PROVE  IInv'
    OBVIOUS
  <1> USE DEF IInv, TypeOK, ConnectionsBounded, ParkedInv, SignalInv, Open, Queued
  <1>1. CASE WakeUp
    BY <1>1 DEF WakeUp
  <1>2. CASE HttpDone
    <2>1. Cardinality({}) <= MaxConnections
      BY FS_EmptySet, NodeAssumption DEF NodeAssumption
    <2>2. Open = {}
      BY <1>2 DEF HttpDone, Drained
    <2> QED
      BY <1>2, <2>1, <2>2 DEF HttpDone
  <1>3. CASE Signal
    BY <1>3 DEF Signal, Notify
  <1>4. CASE Exit \/ Timeout
    BY <1>4 DEF Exit, Timeout, Return
  <1>5. CASE UNCHANGED vars
    BY <1>5 DEF vars
  <1> QED
    BY <1>1, <1>2, <1>3, <1>4, <1>5

\* The inductive invariant holds in every reachable state.
LEMMA Inductive == Spec => []IInv
  <1>1. IInv /\ [Next]_vars => IInv'
    BY PollInv, ConnInv, OtherInv DEF Next, Server
  <1> QED
    BY <1>1, InitInv, PTL DEF Spec

-----------------------------------------------------------------------------
\* The accept loop keeps its types and its JoinSet in step with the open
\* connections (handle_http).
THEOREM TypeCorrect == Spec => []TypeOK
  <1>1. IInv => TypeOK
    BY DEF IInv
  <1> QED
    BY <1>1, Inductive, PTL

\* No more than max_requests connection tasks, for every limit.
THEOREM BoundCorrect == Spec => []ConnectionsBounded
  <1>1. IInv => ConnectionsBounded
    BY DEF IInv
  <1> QED
    BY <1>1, Inductive, PTL

\* The accept loop never sleeps while it could accept or should stop, although
\* it does not poll the listener when it is full.
THEOREM WakeupCorrect == Spec => []NoLostWakeup
  <1>1. IInv => NoLostWakeup
    BY DEF IInv, ParkedInv, NoLostWakeup
  <1> QED
    BY <1>1, Inductive, PTL

\* A signal that main received is found by the accept loop at its next poll,
\* which is due.
THEOREM SignalCorrect == Spec => []SignalIsNoticed
  <1>1. IInv => SignalIsNoticed
    <2> SUFFICES ASSUME IInv, main # "running", http \in {"spawned", "accepting"}
                 PROVE  notified /\ woken
      BY DEF SignalIsNoticed
    <2>1. notified
      BY DEF IInv, SignalInv
    <2>2. woken
      BY <2>1 DEF IInv, SignalInv, ParkedInv
    <2> QED
      BY <2>1, <2>2
  <1> QED
    BY <1>1, Inductive, PTL

\* A server that reports it stopped has no open connection: graceful.shutdown
\* and join_next leave none behind, and none is opened afterwards.
THEOREM DoneCorrect == Spec => []DoneIsQuiet
  <1>1. Init => DoneIsQuiet
    BY DEF Init, DoneIsQuiet
  <1>2. IInv /\ DoneIsQuiet /\ [Next]_vars => DoneIsQuiet'
    <2> SUFFICES ASSUME IInv, DoneIsQuiet, [Next]_vars PROVE DoneIsQuiet'
      OBVIOUS
    <2>1. CASE HttpDone
      BY <2>1 DEF HttpDone, Drained, IInv, TypeOK, DoneIsQuiet, Open
    <2>2. CASE Poll \/ WakeUp
      BY <2>2 DEF Poll, PollFull, PollAccept, Park, WakeUp, DoneIsQuiet
    <2>3. ASSUME NEW c \in Conn,
                 Connect(c) \/ Request(c) \/ Answer(c) \/ Hangup(c) \/ Release(c)
          PROVE  DoneIsQuiet'
      BY <2>3 DEF Connect, Request, Answer, Hangup, Release, Close, Running, DoneIsQuiet
    <2>4. CASE Signal \/ Exit \/ Timeout \/ UNCHANGED vars
      BY <2>4 DEF Signal, Exit, Timeout, Return, vars, DoneIsQuiet, Open
    <2> QED
      BY <2>1, <2>2, <2>3, <2>4 DEF Next, Server
  <1> QED
    BY <1>1, <1>2, Inductive, PTL DEF Spec
=============================================================================
