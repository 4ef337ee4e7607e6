----------------------------- MODULE TcpClient -----------------------------
(***************************************************************************)
(* A TcpClient (net/TcpClient.cc) and its Connector in the thread of their *)
(* Reactor, and one more thread that calls connect(), disconnect() and     *)
(* stop().  The reactor's loop is that of Reactor.tla: it polls, handles   *)
(* the events reported, then runs the tasks queued so far.  Of a           *)
(* TcpConnection (TcpConnection.tla) the client sees its establishment,    *)
(* its closing and its destruction.                                        *)
(*                                                                         *)
(* The program keeps to what the FIXMEs of the code ask for: connect() is  *)
(* not called while an attempt, a retry or a connection of this client is  *)
(* there, and the client is destroyed in the reactor's thread; with a      *)
(* connection, only when no task of its connector is queued (such a task   *)
(* holds a raw pointer to the connector, which then goes with the client). *)
(***************************************************************************)
EXTENDS Connector

CONSTANT MaxCalls                 \* bound: calls of the other thread

ASSUME TcpClientAssumption == MaxCalls \in Nat

VARIABLES
  m_enable_retry,
  client_is_connected,  \* TcpClient::m_is_connected
  connection_,          \* descriptor of *connection_, or NoFd
  conn,                 \* descriptor -> state of the TcpConnection
  close_callback,       \* descriptor -> whose remove_conn it calls
  client_alive,
  remover,              \* the 1 s timer of ~TcpClient, holding connector_
  phase, active, batch, \* the reactor's iteration
  restarting,           \* remove_conn decided to restart, and has not yet
  calls, stopped,       \* calls left; stop() is the last start/stop call
  raced,                \* stop() ran while restarting
  misused               \* a member function of a destroyed object ran

client == <<m_enable_retry, client_is_connected, connection_, conn, close_callback, client_alive, remover>>
loop == <<phase, active, batch, restarting>>
program == <<calls, stopped, raced>>
connector == <<m_is_connected, attempt>>
vars == <<connector, tasks, server_up, client, loop, program, misused>>

Fds == 1..MaxFds
Live == {"kConnected", "kDisconnecting"}

ConnectorAlive == client_alive \/ retries > 0 \/ remover

Uses(alive) == misused' = (misused \/ ~alive)

Init ==
  /\ ConnectorInit
  /\ m_enable_retry \in BOOLEAN
  /\ client_is_connected = TRUE
  /\ connection_ = NoFd
  /\ conn = [fd \in Fds |-> "none"]
  /\ close_callback = [fd \in Fds |-> "client"]
  /\ client_alive = TRUE /\ remover = FALSE
  /\ phase = "poll" /\ active = {} /\ batch = <<>> /\ restarting = FALSE
  /\ calls = MaxCalls /\ stopped = FALSE /\ raced = FALSE
  /\ misused = FALSE

(***************************************************************************)
(* Calls of the other thread.                                              *)
(***************************************************************************)
Queued(name) == \E i \in DOMAIN (batch \o tasks) : (batch \o tasks)[i].run = name

Idle ==
  /\ registered = {} /\ retries = 0 /\ ~restarting
  /\ connection_ = NoFd
  /\ ~Queued("start_in_reactor") /\ ~Queued("stop_in_reactor")

Call == calls > 0 /\ client_alive /\ calls' = calls - 1 /\ UNCHANGED <<attempt, server_up, loop, misused>>

Connect ==
  /\ Call
  /\ Idle
  /\ start
  /\ client_is_connected' = TRUE
  /\ stopped' = FALSE /\ raced' = FALSE
  /\ UNCHANGED <<m_enable_retry, connection_, conn, close_callback, client_alive, remover>>

\* The connection, if there is one, sends its FIN; the peer may then close.
Disconnect ==
  /\ Call
  /\ client_is_connected' = FALSE
  /\ conn' = [fd \in Fds |-> IF fd = connection_ /\ conn[fd] = "kConnected"
                             THEN "kDisconnecting" ELSE conn[fd]]
  /\ UNCHANGED <<m_is_connected, tasks, m_enable_retry, connection_, close_callback, client_alive, remover,
                 stopped, raced>>

Stop ==
  /\ Call
  /\ stop
  /\ client_is_connected' = FALSE
  /\ stopped' = TRUE /\ raced' = (raced \/ restarting)
  /\ UNCHANGED <<m_enable_retry, connection_, conn, close_callback, client_alive, remover>>

(***************************************************************************)
(* The reactor's thread.                                                   *)
(***************************************************************************)
\* Timers wait for half a second at least, longer than an iteration takes:
\* the tasks queued with them have run when they expire.
Ready ==
  {e \in {"channel", "retry", "conn", "remover"} :
     CASE e = "channel" -> registered # {}
       [] e = "conn" -> \E fd \in Fds : conn[fd] \in Live
       [] e = "retry" -> retries > 0 /\ tasks = <<>>
       [] e = "remover" -> remover /\ tasks = <<>>}

new_conn_callback(fd) ==
  /\ connection_' = fd
  /\ conn' = [conn EXCEPT ![fd] = "kConnected"]
  /\ close_callback' = [close_callback EXCEPT ![fd] = "client"]

\* TcpConnection::handle_close ends in the close callback: remove_conn of the
\* client, or of namespace detail once the client is gone.
HandleClose(fd) ==
  /\ conn' = [conn EXCEPT ![fd] = "kDisconnected"]
  /\ queue_in_reactor(Task("connect_destroyed", fd))
  /\ IF close_callback[fd] = "client"
     THEN /\ connection_' = NoFd
          /\ restarting' = (m_enable_retry /\ client_is_connected)
          /\ Uses(client_alive)
     ELSE UNCHANGED <<connection_, restarting, misused>>

Poll ==
  /\ phase = "poll"
  /\ phase' = "events"
  /\ active' \in SUBSET Ready
  /\ active' # {} \/ tasks # <<>>
  /\ UNCHANGED <<connector, tasks, server_up, client, batch, restarting, program, misused>>

Handle(event) ==
  /\ phase = "events" /\ event \in active /\ ~restarting
  /\ active' = active \ {event}
  /\ UNCHANGED <<phase, batch, server_up, program, m_enable_retry, client_is_connected, client_alive>>

ChannelEvent ==
  /\ Handle("channel")
  /\ Uses(IF server_up /\ m_is_connected THEN client_alive ELSE ConnectorAlive)
  /\ UNCHANGED <<m_is_connected, remover, restarting>>
  /\ \/ AttemptFails /\ ~server_up /\ UNCHANGED <<connection_, conn, close_callback>>
     \/ /\ AttemptSucceeds /\ server_up
        /\ IF m_is_connected
           THEN new_conn_callback(m_channel)
           ELSE UNCHANGED <<connection_, conn, close_callback>>

RetryTimer ==
  /\ Handle("retry")
  /\ start_in_reactor(retries - 1)
  /\ UNCHANGED <<m_is_connected, tasks, connection_, conn, close_callback, remover, restarting, misused>>

RemoverTimer ==
  /\ Handle("remover")
  /\ remover' = FALSE
  /\ UNCHANGED <<connector, tasks, connection_, conn, close_callback, restarting, misused>>

\* The peer closed: TcpConnection::handle_close.
ConnEvent ==
  /\ Handle("conn")
  /\ \E fd \in Fds : conn[fd] \in Live /\ HandleClose(fd)
  /\ UNCHANGED <<connector, close_callback, remover>>

\* The rest of remove_conn, after its test of the two flags.
Restart ==
  /\ restarting
  /\ restarting' = FALSE
  /\ restart
  /\ Uses(client_alive)
  /\ UNCHANGED <<tasks, server_up, client, phase, active, batch, program>>

SwapTasks ==
  /\ phase = "events" /\ active = {} /\ ~restarting
  /\ phase' = "tasks" /\ batch' = tasks /\ tasks' = <<>>
  /\ UNCHANGED <<connector, server_up, client, active, restarting, program, misused>>

RunTask(name) ==
  /\ phase = "tasks" /\ batch # <<>> /\ Head(batch).run = name /\ ~restarting
  /\ batch' = Tail(batch)
  /\ UNCHANGED <<server_up, m_enable_retry, client_is_connected, close_callback, client_alive, remover,
                 phase, active, program, m_is_connected>>

ConnectorTask ==
  /\ \/ RunTask("start_in_reactor") /\ start_in_reactor(retries) /\ UNCHANGED tasks
     \/ RunTask("stop_in_reactor") /\ stop_in_reactor
     \/ RunTask("reset_channel") /\ reset_channel /\ UNCHANGED tasks
  /\ Uses(ConnectorAlive)
  /\ UNCHANGED <<connection_, conn, restarting>>

ConnDestroyed ==
  /\ RunTask("connect_destroyed")
  /\ conn' = [conn EXCEPT ![Head(batch).fd] = "none"]
  /\ open' = open \ {Head(batch).fd}
  /\ UNCHANGED <<tasks, m_state, m_channel, m_retry_delay_ms, registered, retries, gave_up, connection_,
                 restarting, misused>>

ForceClose ==
  /\ RunTask("force_close_in_reactor")
  /\ IF conn[Head(batch).fd] \in Live
     THEN HandleClose(Head(batch).fd)
     ELSE UNCHANGED <<tasks, connection_, conn, restarting, misused>>
  /\ UNCHANGED attempt

TasksDone ==
  /\ phase = "tasks" /\ batch = <<>> /\ ~restarting
  /\ phase' = "poll"
  /\ UNCHANGED <<connector, tasks, server_up, client, active, batch, restarting, program, misused>>

NoConnectorTask == ~Queued("start_in_reactor") /\ ~Queued("stop_in_reactor") /\ ~Queued("reset_channel")

KeepCloseCallback ==
  /\ phase = "tasks" /\ client_alive /\ ~restarting
  /\ connection_ # NoFd /\ NoConnectorTask
  /\ client_alive' = FALSE
  /\ connection_' = NoFd
  /\ UNCHANGED <<connector, tasks, server_up, m_enable_retry, client_is_connected, conn, close_callback,
                 remover, loop, program, misused>>

DestroyWithoutStop ==
  /\ phase = "tasks" /\ client_alive /\ ~restarting
  /\ connection_ = NoFd
  /\ client_alive' = FALSE /\ remover' = TRUE
  /\ UNCHANGED <<connector, tasks, server_up, m_enable_retry, client_is_connected, connection_, conn,
                 close_callback, loop, program, misused>>

\* ~TcpClient, in the reactor's thread.  unique: only the client holds the
\* connection.
Destroy ==
  /\ phase = "tasks" /\ client_alive /\ ~restarting
  /\ connection_ # NoFd => NoConnectorTask
  /\ client_alive' = FALSE
  /\ connection_' = NoFd
  /\ IF connection_ # NoFd
     THEN \E unique \in BOOLEAN :
            /\ close_callback' = [close_callback EXCEPT ![connection_] = "detail"]
            /\ conn' = IF unique THEN [conn EXCEPT ![connection_] = "kDisconnecting"] ELSE conn
            /\ tasks' = IF unique THEN Append(tasks, Task("force_close_in_reactor", connection_)) ELSE tasks
            /\ UNCHANGED <<m_is_connected, remover>>
     ELSE /\ stop
          /\ remover' = TRUE
          /\ UNCHANGED <<conn, close_callback>>
  /\ UNCHANGED <<attempt, server_up, m_enable_retry, client_is_connected, loop, program, misused>>

ServerChanges ==
  /\ server_up' = ~server_up
  /\ UNCHANGED <<connector, tasks, client, loop, program, misused>>

ReactorStep ==
  \/ Poll \/ ChannelEvent \/ RetryTimer \/ RemoverTimer \/ ConnEvent \/ Restart
  \/ SwapTasks \/ ConnectorTask \/ ConnDestroyed \/ ForceClose \/ TasksDone

Next ==
  \/ Connect \/ Disconnect \/ Stop \/ Destroy \/ ServerChanges
  \/ ReactorStep

\* The reactor's thread goes on as long as it has something to do; every
\* connection attempt ends (the kernel's SYN timeout) and timers expire.
Fairness ==
  /\ WF_vars(ReactorStep)
  /\ SF_vars(Poll /\ "channel" \in active')
  /\ SF_vars(Poll /\ "retry" \in active')

Spec == Init /\ [][Next]_vars /\ Fairness

(***************************************************************************)
(* Properties.                                                             *)
(***************************************************************************)
\* Every variable has its type; the back-off delay doubles from 500 ms and
\* stops at 30 s (Connector::retry).
TypeOK ==
  /\ m_is_connected \in BOOLEAN /\ client_is_connected \in BOOLEAN
  /\ m_state \in {"kDisconnected", "kConnecting", "kConnected"}
  /\ m_channel \in {NoFd} \cup Fds /\ connection_ \in {NoFd} \cup Fds
  /\ m_retry_delay_ms \in {500, 1000, 2000, 4000, 8000, 16000, 30000}
  /\ registered \subseteq Fds /\ open \subseteq Fds
  /\ retries \in Nat
  /\ conn \in [Fds -> {"none", "kConnected", "kDisconnecting", "kDisconnected"}]
  /\ close_callback \in [Fds -> {"client", "detail"}]
  /\ phase \in {"poll", "events", "tasks"}

\* The client tries one thing at a time: of a queued start, a retry timer, a
\* connecting socket, a restart under way and an established connection there
\* is at most one.  It is what the asserts of start_in_reactor, connecting and
\* remove_conn rely on, across retries, restarts and stops.
OneAttempt ==
  Cardinality(registered) + retries
    + (IF Queued("start_in_reactor") /\ m_is_connected THEN 1 ELSE 0)
    + (IF restarting THEN 1 ELSE 0)
    + Cardinality({fd \in Fds : conn[fd] \in Live /\ close_callback[fd] = "client"}) <= 1

\* A channel in the poller is the one m_channel points to, and its connector
\* exists: the delayed reset_channel never destroys a later attempt's channel,
\* and one that has left the poller is waiting for reset_channel.
ChannelOwned ==
  /\ registered # {} => registered = {m_channel} /\ ConnectorAlive
  /\ ConnectorAlive /\ m_channel # NoFd /\ registered = {} => Queued("reset_channel")

\* No socket leaks and none is closed early: between two handlers the open
\* descriptors are those of the connecting channel and of the connections
\* that were not destroyed (retry, handle_write and stop_in_reactor close the
\* others).
SocketsAccounted == open = registered \cup {fd \in Fds : conn[fd] # "none"}

\* No callback, task or timer runs a member function of a TcpClient or a
\* Connector that was destroyed: the callbacks bind raw pointers, and the
\* destructor's stop(), timer and new close callback have to be enough.
NothingUsedAfterDestruction == ~misused

\* After stop() without a later connect() the attempts end: no connecting
\* socket, no timer.  The exception is the window that raced records: stop()
\* between remove_conn's test of m_is_connected and the assignment in
\* Connector::restart() is overwritten.
StopEndsAttempts ==
  <>[](stopped /\ ~raced) => <>[](registered = {} /\ retries = 0)

\* A destroyed client leaves nothing behind: its connector goes away, with
\* its timers, its channel and its descriptor.
DestroyedConnectorIsFreed ==
  []<>(client_alive \/ (~ConnectorAlive /\ registered = {}))

\* A client that may retry is connected again and again while the server
\* accepts: neither a failed attempt nor a lost connection ends the trying,
\* unless connect(2) failed with an error that is not retried.
Reconnects ==
  /\ m_enable_retry
  /\ <>[](server_up /\ client_alive /\ m_is_connected /\ client_is_connected /\ ~gave_up)
  => []<>(connection_ # NoFd)

\* Between two handlers there is one attempt at most, and every descriptor and
\* channel has its owner (remove_and_reset_channel, retry, stop_in_reactor,
\* connect_destroyed).
ClientInv == TypeOK /\ OneAttempt /\ ChannelOwned /\ SocketsAccounted

\* stop() and ~TcpClient put an end to the attempts, and the connector of a
\* destroyed client goes away.
AttemptsEnd == StopEndsAttempts /\ DestroyedConnectorIsFreed
=============================================================================
