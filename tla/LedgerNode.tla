----------------------------- MODULE LedgerNode -----------------------------
(***************************************************************************)
(* The life of a ledger node: main of starstream-ledger-node, which waits  *)
(* for a signal and then for the server to stop, and the accept loop of    *)
(* Ledger::handle_http (src/starstream-ledger/src/server/http/mod.rs).     *)
(*                                                                         *)
(* The accept loop is a future: it runs when it has been woken, and the    *)
(* wakers it registered when it last returned Poll::Pending decide what    *)
(* wakes it.  One Poll action is one turn of the loop.  What happens       *)
(* inside a request is LedgerServer; here a connection is idle (open,      *)
(* nothing requested) or busy (a request is being served).                 *)
(***************************************************************************)
EXTENDS Integers, FiniteSets

CONSTANTS
    Conn,               \* TCP connections
    MaxConnections      \* max_requests, also the limit on open connections

ASSUME NodeAssumption == IsFiniteSet(Conn) /\ MaxConnections \in Nat

VARIABLES
    main,       \* "running", "waiting" for the server, or "exited"
    http,       \* "spawned", "accepting", "sleeping", "draining" or "done"
    notified,   \* a permit of the Notify, or the wake-up of its waiter
    polled,     \* whether the accept loop waits for the notification yet
    conn,       \* the state of each connection
    tasks,      \* connections whose task is in the JoinSet
    wakers,     \* what the accept loop registered for
    woken       \* whether it will be polled again

vars == <<main, http, notified, polled, conn, tasks, wakers, woken>>

Queued == {c \in Conn : conn[c] = "queued"}
Open == {c \in Conn : conn[c] \in {"idle", "busy"}}

Init ==
    /\ main = "running"
    /\ http = "spawned"
    /\ notified = FALSE
    /\ polled = FALSE
    /\ conn = [c \in Conn |-> "none"]
    /\ tasks = {}
    /\ wakers = {}
    /\ woken = TRUE

-----------------------------------------------------------------------------
(* The accept loop                                                         *)

\* Mutant: tasks with nothing to do are taken out as well.
Reaped_Idle == {c \in tasks : conn[c] = "busy"}

\* Finished tasks are taken out of the JoinSet; the loop is woken by the next
\* one that finishes.
Reaped == {c \in tasks : conn[c] # "closed"}
JoinWaker == IF Reaped = {} THEN {} ELSE {"join"}

Full == Cardinality(Reaped) >= MaxConnections

Park(sources) ==
    /\ wakers' = sources
    /\ woken' = FALSE
    /\ UNCHANGED <<http, conn>>

\* Mutant: at the limit the loop waits for the listener only.
PollFull_DeafToTasks ==
    /\ Full
    /\ Park({"shutdown", "accept"})
    /\ tasks' = Reaped

\* No connection is accepted until a task completes.
PollFull ==
    /\ Full
    /\ Park({"shutdown"} \cup JoinWaker)
    /\ tasks' = Reaped

PollAccept ==
    /\ ~Full
    /\ \/ /\ Queued = {}
          /\ Park({"shutdown", "accept"} \cup JoinWaker)
          /\ tasks' = Reaped
       \/ \E c \in Queued :
            /\ conn' = [conn EXCEPT ![c] = "idle"]
            /\ tasks' = Reaped \cup {c}
            /\ UNCHANGED <<http, wakers, woken>>
       \/ \E c \in Queued :                         \* is_connection_error
            /\ conn' = [conn EXCEPT ![c] = "closed"]
            /\ tasks' = Reaped
            /\ UNCHANGED <<http, wakers, woken>>
       \/ /\ Queued # {}                            \* any other error
          /\ http' = "sleeping"
          /\ tasks' = Reaped
          /\ UNCHANGED <<conn, wakers, woken>>

\* The notification is looked at before the listener.  The first turn makes
\* the loop a waiter of the Notify.
Poll ==
    /\ http \in {"spawned", "accepting"}
    /\ woken
    /\ polled' = TRUE
    /\ \/ /\ http = "spawned"
          /\ http' = "accepting"
          /\ UNCHANGED <<conn, tasks, wakers, woken>>
       \/ /\ http = "accepting"
          /\ notified
          /\ http' = "draining"
          /\ tasks' = Reaped
          /\ UNCHANGED <<conn, wakers, woken>>
       \/ /\ http = "accepting"
          /\ ~notified
          /\ PollFull \/ PollAccept
    /\ UNCHANGED <<main, notified>>

\* One second after an error of the listener.
WakeUp ==
    /\ http = "sleeping"
    /\ http' = "accepting"
    /\ UNCHANGED <<main, notified, polled, conn, tasks, wakers, woken>>

\* graceful.shutdown has closed all connections and join_next has nothing left.
Drained == Open \cap tasks = {}

HttpDone ==
    /\ http = "draining"
    /\ Drained
    /\ http' = "done"
    /\ tasks' = {}
    /\ UNCHANGED <<main, notified, polled, conn, wakers, woken>>

-----------------------------------------------------------------------------
(* Connections                                                             *)

Running == main # "exited" /\ http # "done"

\* A client connects; the kernel queues it for the listener.
Connect(c) ==
    /\ Running
    /\ conn[c] = "none"
    /\ conn' = [conn EXCEPT ![c] = "queued"]
    /\ woken' = (woken \/ "accept" \in wakers)
    /\ UNCHANGED <<main, http, notified, polled, tasks, wakers>>

Request(c) ==
    /\ Running
    /\ conn[c] = "idle"
    /\ conn' = [conn EXCEPT ![c] = "busy"]
    /\ UNCHANGED <<main, http, notified, polled, tasks, wakers, woken>>

\* The task of the connection completes.
Close(c) ==
    /\ conn' = [conn EXCEPT ![c] = "closed"]
    /\ woken' = (woken \/ "join" \in wakers)
    /\ UNCHANGED <<main, http, notified, polled, tasks, wakers>>

\* The request is answered; a connection that was told to shut down closes.
Answer(c) ==
    /\ Running
    /\ conn[c] = "busy"
    /\ \/ /\ http = "draining"
          /\ Close(c)
       \/ /\ http # "draining"
          /\ conn' = [conn EXCEPT ![c] = "idle"]
          /\ UNCHANGED <<main, http, notified, polled, tasks, wakers, woken>>

\* The client goes away.
Hangup(c) ==
    /\ Running
    /\ c \in Open
    /\ Close(c)

\* graceful.shutdown closes connections with no request in progress.
Release(c) ==
    /\ Running
    /\ http = "draining"
    /\ conn[c] = "idle"
    /\ Close(c)

-----------------------------------------------------------------------------
(* main                                                                    *)

\* Mutant: notify_waiters leaves no permit for a loop that does not wait yet.
Notify_Waiters ==
    /\ notified' = polled
    /\ woken' = (woken \/ "shutdown" \in wakers)

\* notify_one wakes the waiter, or leaves a permit for it.
Notify ==
    /\ notified' = TRUE
    /\ woken' = (woken \/ "shutdown" \in wakers)

\* ^C or SIGTERM.
Signal ==
    /\ main = "running"
    /\ main' = "waiting"
    /\ Notify
    /\ UNCHANGED <<http, polled, conn, tasks, wakers>>

Return ==
    /\ main = "waiting"
    /\ main' = "exited"
    /\ UNCHANGED <<http, notified, polled, conn, tasks, wakers, woken>>

\* The server has stopped.
Exit == http = "done" /\ Return

\* shutdown_timeout passes first.  Tasks that still run end with the process.
Timeout == http # "done" /\ Return

Server == Poll \/ WakeUp \/ HttpDone
Live == main # "exited"

Next ==
    \/ Live /\ Server
    \/ \E c \in Conn : Connect(c) \/ Request(c) \/ Answer(c) \/ Hangup(c) \/ Release(c)
    \/ Signal
    \/ Exit
    \/ Timeout

Spec == Init /\ [][Next]_vars

\* The runtime polls what was woken.  Nothing is assumed of clients, of the
\* time a request takes or of signals, nor that shutdown_timeout is short
\* enough to help.
Fairness ==
    /\ WF_vars(Live /\ Server)
    /\ WF_vars(Exit)
    /\ \A c \in Conn : WF_vars(Release(c))

FairSpec == Spec /\ Fairness

-----------------------------------------------------------------------------
\* Every variable keeps its type, and the JoinSet holds the open connections
\* and finished ones that were not taken out yet.
TypeOK ==
    /\ main \in {"running", "waiting", "exited"}
    /\ http \in {"spawned", "accepting", "sleeping", "draining", "done"}
    /\ notified \in BOOLEAN /\ polled \in BOOLEAN /\ woken \in BOOLEAN
    /\ conn \in [Conn -> {"none", "queued", "idle", "busy", "closed"}]
    /\ Open \subseteq tasks
    /\ tasks \subseteq {c \in Conn : conn[c] \in {"idle", "busy", "closed"}}
    /\ wakers \subseteq {"shutdown", "accept", "join"}

\* The accept loop does not sleep through anything: when it is parked, there
\* is no notification, and no client waits while a slot is free (at the limit
\* it does not poll the listener, so only a finished task can wake it).
NoLostWakeup ==
    http = "accepting" /\ ~woken =>
        /\ ~notified
        /\ Queued # {} => Cardinality(Open) >= MaxConnections

\* There are never more connections than the limit, those with a finished task
\* that is still in the JoinSet included.
ConnectionsBounded == Cardinality(tasks) <= MaxConnections

\* The server reports that it stopped only when no connection is open: a
\* shutdown cuts off no request that is in progress.
DoneIsQuiet == http = "done" => Open = {}

\* A signal reaches the accept loop, even before its first poll: from then on
\* the loop is due to be polled and will find the notification.
SignalIsNoticed == main # "running" /\ http \in {"spawned", "accepting"} => notified /\ woken

\* After a signal the node stops without waiting for shutdown_timeout, whenever
\* the signal comes (before the first poll, at the connection limit, after a
\* listener error): only a request that is in progress for ever can hold it up.
StopsUnlessBusy ==
    main = "waiting" ~> (main = "exited" \/ \E c \in Conn : [](conn[c] = "busy"))
=============================================================================
