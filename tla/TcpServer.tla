----------------------------- MODULE TcpServer -----------------------------
(***************************************************************************)
(* A TcpServer (net/TcpServer.cc) with its Acceptor and its pool of        *)
(* reactors: start(), the accepting of connections, and the destructor.    *)
(* What a connection does between being established and being destroyed,   *)
(* and its removal by the peer's close, is TcpConnection.tla.              *)
(***************************************************************************)
EXTENDS ReactorThreadPool

CONSTANTS MaxConns,               \* bound: connections that arrive
          MaxOpenFiles            \* the process's limit, less what it needs itself

ASSUME TcpServerAssumption == MaxConns \in Nat /\ MaxOpenFiles \in Nat

VARIABLES
  arrived,           \* connections in the listening socket's backlog
  accepted,          \* the number of connections accepted
  conn_state, home,  \* of each connection; its reactor, 0 being main's
  m_conn_map,
  open               \* connections whose descriptor is open

conns == <<arrived, accepted, conn_state, home, m_conn_map, open>>
vars == <<pool, conns>>

Conns == 1..MaxConns
Task(name, c) == [run |-> name, conn |-> c]
Tasks == [run : {"connect_established", "connect_destroyed"}, conn : Conns]

Init ==
  /\ PoolInit
  /\ arrived = 0 /\ accepted = 0
  /\ conn_state = [c \in Conns |-> "none"]
  /\ home = [c \in Conns |-> 0]
  /\ m_conn_map = {} /\ open = {}

UNCHANGED_owner == UNCHANGED <<m_size_pool, idx, waiting, pc, m_count, m_reactor, m_going_to_quit, batch, asked, cut>>

\* The kernel completes a handshake once the socket listens.
Arrive ==
  /\ main = "serving" /\ accepted + arrived < MaxConns
  /\ arrived' = arrived + 1
  /\ UNCHANGED <<pool, accepted, conn_state, home, m_conn_map, open>>

\* start(): the first call starts the pool; m_has_started stops the others.
Start ==
  /\ main = "constructed"
  /\ main' = "start"
  /\ UNCHANGED_owner /\ UNCHANGED <<queue, m_next_idx, misused, conns>>

Listen ==
  /\ main = "started"
  /\ main' = "serving"
  /\ UNCHANGED_owner /\ UNCHANGED <<queue, m_next_idx, misused, conns>>

\* handle_conn_arrival and new_conn_callback.
Accept ==
  LET c == accepted + 1 IN
  /\ main = "serving" /\ arrived > 0
  /\ Cardinality(open) < MaxOpenFiles
  /\ arrived' = arrived - 1 /\ accepted' = c
  /\ open' = open \cup {c}
  /\ m_conn_map' = m_conn_map \cup {c}
  /\ IF m_size_pool = 0
     THEN /\ home' = [home EXCEPT ![c] = 0]
          /\ conn_state' = [conn_state EXCEPT ![c] = "kConnected"]
          /\ UNCHANGED <<m_next_idx, queue, misused>>
     ELSE /\ home' = [home EXCEPT ![c] = m_next_idx]
          /\ m_next_idx' = NextIdx(m_next_idx)
          /\ conn_state' = [conn_state EXCEPT ![c] = "kConnecting"]
          /\ Post(m_next_idx, Task("connect_established", c))
  /\ UNCHANGED_owner /\ UNCHANGED main

\* accept(2) fails, with EMFILE at the limit or otherwise: Socket::accept
\* logs it as FATAL, which aborts before Acceptor can use its reserve.
AcceptFails ==
  /\ main = "serving" /\ arrived > 0
  /\ main' = "aborted"
  /\ UNCHANGED_owner /\ UNCHANGED <<queue, m_next_idx, misused, conns>>

\* ~TcpServer hands each connection to its reactor, one after the other...
Destroy ==
  /\ main \in {"constructed", "serving"}
  /\ main' = "destroy_conns"
  /\ UNCHANGED_owner /\ UNCHANGED <<queue, m_next_idx, misused, conns>>

DestroyConn ==
  /\ main = "destroy_conns"
  /\ \E c \in m_conn_map :
       /\ m_conn_map' = m_conn_map \ {c}
       /\ IF home[c] = 0
          THEN /\ conn_state' = [conn_state EXCEPT ![c] = "kDisconnected"]
               /\ open' = open \ {c}
               /\ UNCHANGED <<queue, misused>>
          ELSE /\ Post(home[c], Task("connect_destroyed", c))
               /\ UNCHANGED <<conn_state, open>>
  /\ UNCHANGED_owner /\ UNCHANGED <<main, m_next_idx, arrived, accepted, home>>

\* ...and then its members go, the pool among them.
DestroyPool ==
  /\ main = "destroy_conns" /\ m_conn_map = {}
  /\ main' = "destroy" /\ idx' = 1
  /\ UNCHANGED <<m_size_pool, waiting, pc, m_count, m_reactor, m_going_to_quit, queue, batch, m_next_idx, asked,
                 cut, misused, conns>>

\* connect_established or connect_destroyed on the connection's own thread.
RunTask(t) ==
  LET task == Head(batch[t]) IN
  /\ TakeTask(t)
  /\ IF task.run = "connect_established"
     THEN /\ conn_state' = [conn_state EXCEPT ![task.conn] = "kConnected"]
          /\ UNCHANGED open
     ELSE /\ conn_state' = [conn_state EXCEPT ![task.conn] =
                              IF @ = "kConnected" THEN "kDisconnected" ELSE @]
          /\ open' = open \ {task.conn}
  /\ UNCHANGED <<arrived, accepted, home, m_conn_map>>

LeakQueued(t) == {}

\* The connections held only by tasks of a queue go with the queue.
Released(t) == {queue[t][i].conn : i \in DOMAIN queue[t]} \ m_conn_map

Exit(t) ==
  /\ ExitThread(t)
  /\ open' = open \ Released(t)
  /\ UNCHANGED <<arrived, accepted, conn_state, home, m_conn_map>>

Main ==
  \/ Start \/ Listen \/ Accept \/ DestroyConn \/ DestroyPool
  \/ (OwnerStep /\ UNCHANGED conns)

Pooled(t) ==
  \/ (ThreadStep(t) /\ UNCHANGED conns)
  \/ RunTask(t) \/ Exit(t)

Running == main # "aborted"

Next ==
  /\ Running
  /\ \/ Main \/ Arrive \/ AcceptFails \/ Destroy
     \/ \E t \in Threads : Pooled(t)

\* Every thread that can go on does; nothing makes the owner destroy the
\* server or clients arrive.
Spec ==
  /\ Init /\ [][Next]_vars
  /\ WF_vars(Running /\ Main)
  /\ \A t \in Threads : WF_vars(Running /\ Pooled(t))

(***************************************************************************)
(* Properties.                                                             *)
(***************************************************************************)
\* Every variable has its type; a latch counts down once (Thread::run).
TypeOK ==
  /\ m_size_pool \in 0..MaxThreads
  /\ IF m_size_pool = 0 THEN m_next_idx = 1 ELSE m_next_idx \in InPool
  /\ main \in {"constructed", "start", "latch", "start_reactor", "started", "serving", "destroy_conns", "destroy",
               "join", "gone", "aborted"}
  /\ waiting \in {"none", "latch", "m_cond"} /\ misused \in BOOLEAN
  /\ pc \in [Threads -> {"none", "created", "latched", "built", "published", "poll", "tasks", "returned", "exited"}]
  /\ m_count \in [Threads -> {0, 1}]
  /\ {m_reactor, m_going_to_quit, asked, cut} \subseteq [Threads -> BOOLEAN]
  /\ {queue, batch} \subseteq [Threads -> Seq(Tasks)]
  /\ arrived \in Nat /\ accepted \in Nat /\ accepted + arrived <= MaxConns
  /\ conn_state \in [Conns -> {"none", "kConnecting", "kConnected", "kDisconnected"}]
  /\ home \in [Conns -> 0..MaxThreads]
  /\ m_conn_map \subseteq Conns /\ open \subseteq Conns

\* The number of connections given to a reactor.
Load(t) == Cardinality({c \in 1..accepted : home[c] = t})

\* Connections are spread evenly: the loads of two reactors of the pool never
\* differ by more than one (get_next_reactor; net/TcpServer.h promises a
\* round-robin).
RoundRobin == \A s, t \in InPool : Load(s) <= Load(t) + 1

\* The reactors before the next one in turn have one connection more.
Ahead(t) == IF t < m_next_idx THEN 1 ELSE 0

TurnInv == \A s, t \in InPool : Load(s) + Ahead(t) = Load(t) + Ahead(s)

\* No task is queued to, and no quit is asked of, a Reactor that is not yet on
\* its thread's stack or no longer there: start() waits for each thread
\* (latch, then condition), and the destructor hands out its connections
\* before it lets the threads go.
ReactorsExistWhenUsed == ~misused

\* Every connection that was reported up is reported down before the server
\* is gone, in that order, unless mark_quit met its reactor in the middle of a
\* batch: then the loop returns without the tasks queued behind that batch.
NoConnectionForgotten ==
  main = "gone" =>
    \A c \in 1..accepted : conn_state[c] = "kDisconnected" \/ (home[c] # 0 /\ cut[home[c]])

\* No descriptor outlives the server, also of connections whose tasks were
\* dropped with the reactor's queue.
AllSocketsClosed == main = "gone" => open = {}

\* What thread t still has to run, in order.
Todo(t) == batch[t] \o queue[t]

HasTodo(t, task) == \E i \in DOMAIN Todo(t) : Todo(t)[i] = task

\* A thread outside the batch has none, and one whose reactor cannot be reached
\* has no queue; a loop that was asked to quit before its last batch leaves no
\* task behind.
QueuesInv(t) ==
  /\ pc[t] # "tasks" => batch[t] = <<>>
  /\ pc[t] \notin Published => queue[t] = <<>>
  /\ asked[t] /\ ~cut[t] /\ pc[t] \in {"tasks", "returned"} => queue[t] = <<>>

\* A reactor's tasks are about its own connections, none is queued twice, and a
\* connection is established before it is destroyed.
TasksInv(t) ==
  \A i \in DOMAIN Todo(t) :
    LET task == Todo(t)[i]
        c == task.conn
    IN /\ c <= accepted /\ home[c] = t
       /\ IF task.run = "connect_established" THEN conn_state[c] = "kConnecting" ELSE c \notin m_conn_map
       /\ \A j \in DOMAIN Todo(t) :
            /\ Todo(t)[j] = task => j = i
            /\ task.run = "connect_destroyed" /\ Todo(t)[j] = Task("connect_established", c) => j < i

\* A connection is in the map, or destroyed, or its reactor has the task that
\* destroys it, unless that was dropped with the queue.
ConnInv(c) ==
  /\ IF m_size_pool = 0 THEN home[c] = 0 ELSE home[c] \in InPool
  /\ conn_state[c] # "none"
  /\ home[c] = 0 => conn_state[c] = IF c \in m_conn_map THEN "kConnected" ELSE "kDisconnected"
  /\ home[c] # 0 /\ ~cut[home[c]] =>
       /\ conn_state[c] = "kConnecting" => HasTodo(home[c], Task("connect_established", c))
       /\ c \notin m_conn_map /\ conn_state[c] # "kDisconnected" =>
            HasTodo(home[c], Task("connect_destroyed", c))
  /\ c \in open \ m_conn_map => home[c] # 0 /\ HasTodo(home[c], Task("connect_destroyed", c))

ConnectionsInv ==
  /\ m_conn_map \cup open \subseteq 1..accepted
  /\ main \in Ending => m_conn_map = {}
  /\ accepted > 0 => \A t \in InPool : pc[t] \in Published \cup {"exited"}
  /\ \A t \in Threads : QueuesInv(t) /\ TasksInv(t)
  /\ \A c \in 1..accepted : ConnInv(c)

\* start() returns: the two hand-shakes of the owner with each new thread
\* (CountdownLatch, then m_cond) lose no notification.
StartCompletes == main = "start" ~> main \in {"serving", "aborted"}

\* An accepted connection is established on its thread, unless the server is
\* destroyed before.
AcceptedIsEstablished ==
  \A c \in Conns :
    conn_state[c] = "kConnecting" ~> (conn_state[c] # "kConnecting" \/ main \in {"join", "gone", "aborted"})

\* The destructor returns; what can keep it in join() for ever is a quit
\* request that loop() erased because the thread had only just published its
\* reactor.
DestroyCompletes ==
  main = "destroy_conns" ~> (main = "gone" \/ \E t \in Threads : QuitLost(t))

\* Threads and reactors are there when they are used, and connections are
\* spread over them in turn (start, get_next_reactor, ~ReactorThread).
ServerInv == TypeOK /\ PoolInv /\ ReactorsExistWhenUsed /\ TurnInv /\ RoundRobin

\* A server that is gone leaves nothing behind: connections were reported down
\* and descriptors are closed (~TcpServer, connect_destroyed, ~Reactor).
NothingLeftBehind == ConnectionsInv /\ NoConnectionForgotten /\ AllSocketsClosed

\* Whoever waits for the pool's threads gets on: start(), an accepted
\* connection, and the destructor.
ServerProgress == StartCompletes /\ AcceptedIsEstablished /\ DestroyCompletes
=============================================================================
