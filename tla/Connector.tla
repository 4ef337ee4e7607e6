----------------------------- MODULE Connector -----------------------------
(***************************************************************************)
(* One connection attempt after another (net/Connector.cc), until one      *)
(* succeeds or stop() is called: m_state, the Channel of the socket being  *)
(* connected, and the back-off delay of the retry timer.  Each operator is *)
(* what one member function does to these variables; TcpClient.tla runs    *)
(* them in the reactor's thread.                                           *)
(*                                                                         *)
(* The connector's Channel is named by its file descriptor.  Descriptors   *)
(* are reused as the kernel does: socket() returns the lowest free one.    *)
(***************************************************************************)
EXTENDS Naturals, Sequences, FiniteSetsExt

CONSTANT MaxFds                   \* bound: descriptors of the process

ASSUME ConnectorAssumption == MaxFds \in Nat \ {0}

VARIABLES
  m_is_connected,    \* start() was called, and stop() was not
  m_state,
  m_channel,         \* the descriptor of *m_channel, or NoFd
  m_retry_delay_ms,
  registered,        \* channels of connecting sockets in the poller
  open,              \* open descriptors
  retries,           \* pending timers that run start_in_reactor
  tasks,             \* the reactor's queue
  server_up,         \* the peer accepts connections
  gave_up            \* connect() failed with an error that is not retried

attempt == <<m_state, m_channel, m_retry_delay_ms, registered, open, retries, gave_up>>

NoFd == 0
kInitRetryDelayMs == 500
kMaxRetryDelayMs == 30000

ConnectorInit ==
  /\ m_is_connected = FALSE
  /\ m_state = "kDisconnected"
  /\ m_channel = NoFd
  /\ m_retry_delay_ms = kInitRetryDelayMs
  /\ registered = {} /\ open = {} /\ retries = 0
  /\ tasks = <<>>
  /\ server_up \in BOOLEAN
  /\ gave_up = FALSE

Task(name, fd) == [run |-> name, fd |-> fd]

queue_in_reactor(task) == tasks' = Append(tasks, task)

StopOnlyQueues == queue_in_reactor(Task("stop_in_reactor", NoFd)) /\ UNCHANGED m_is_connected

\* Called from another thread, start() and stop() set the flag and queue.
start == m_is_connected' = TRUE /\ queue_in_reactor(Task("start_in_reactor", NoFd))
stop == m_is_connected' = FALSE /\ queue_in_reactor(Task("stop_in_reactor", NoFd))

UncappedDelay(delay) == 2 * delay

NextDelay(delay) == Min({2 * delay, kMaxRetryDelayMs})

RetryUntilMaxDelay(fd, wanted, delay, pending) ==
  /\ open' = open \ {fd}
  /\ m_state' = "kDisconnected"
  /\ retries' = IF wanted /\ delay < kMaxRetryDelayMs THEN pending + 1 ELSE pending
  /\ m_retry_delay_ms' = IF wanted THEN NextDelay(delay) ELSE delay

\* The attempt on fd is over; another one starts when the timer expires.
\* (pending: the retry timers, without the one whose callback this is.)
retry(fd, wanted, delay, pending) ==
  /\ open' = open \ {fd}
  /\ m_state' = "kDisconnected"
  /\ retries' = IF wanted THEN pending + 1 ELSE pending
  /\ m_retry_delay_ms' = IF wanted THEN NextDelay(delay) ELSE delay

\* The channel of fd takes the place of the one m_channel points to.
connecting(fd) ==
  /\ m_state' = "kConnecting"
  /\ m_channel' = fd
  /\ registered' = registered \cup {fd}
  /\ open' = open \cup {fd}

\* connect(2) is in progress or done; fails and is retried; fails for good.
\* While the server is up only the first and the last happen.
connect(state, delay, pending) ==
  LET fd == Min((1..MaxFds) \ open) IN
  \/ /\ connecting(fd)
     /\ m_retry_delay_ms' = delay /\ retries' = pending
     /\ UNCHANGED gave_up
  \/ /\ ~server_up
     /\ retry(fd, TRUE, delay, pending)
     /\ UNCHANGED <<m_channel, registered, gave_up>>
  \/ /\ gave_up' = TRUE
     /\ m_state' = state /\ m_retry_delay_ms' = delay /\ retries' = pending
     /\ UNCHANGED <<m_channel, registered, open>>

start_in_reactor(pending) ==
  IF m_is_connected
  THEN connect(m_state, m_retry_delay_ms, pending)
  ELSE /\ retries' = pending
       /\ UNCHANGED <<m_state, m_channel, m_retry_delay_ms, registered, open, gave_up>>

\* restart() is called by the owner in the reactor's thread.
restart ==
  /\ m_is_connected' = TRUE
  /\ connect("kDisconnected", kInitRetryDelayMs, retries)

StaysRegistered ==
  /\ UNCHANGED <<registered, m_channel>>
  /\ queue_in_reactor(Task("reset_channel", NoFd))

NeverReset ==
  /\ registered' = registered \ {m_channel}
  /\ UNCHANGED <<m_channel, tasks>>

\* The channel leaves the poller at once; it is destroyed by a queued task,
\* because it may be the one whose event is being handled.
remove_and_reset_channel ==
  /\ registered' = registered \ {m_channel}
  /\ queue_in_reactor(Task("reset_channel", NoFd))
  /\ UNCHANGED m_channel

reset_channel ==
  /\ m_channel' = NoFd
  /\ UNCHANGED <<m_state, m_retry_delay_ms, registered, open, retries, gave_up>>

EndAttempt ==
  /\ remove_and_reset_channel
  /\ retry(m_channel, m_is_connected, m_retry_delay_ms, retries)
  /\ UNCHANGED gave_up

stop_in_reactor ==
  IF m_state = "kConnecting" THEN EndAttempt ELSE UNCHANGED <<attempt, tasks>>

\* handle_error, and handle_write if SO_ERROR is set or the socket is
\* connected to itself.  (After handle_error an event that also says writable
\* runs handle_write, which does nothing in state kDisconnected.)
AttemptFails == m_state = "kConnecting" /\ EndAttempt

LeavesUnwantedOpen ==
  /\ m_state = "kConnecting"
  /\ remove_and_reset_channel
  /\ m_state' = "kConnected"
  /\ UNCHANGED <<open, m_retry_delay_ms, retries, gave_up>>

\* handle_write of a connected socket: the owner gets it, or it is closed.
AttemptSucceeds ==
  /\ m_state = "kConnecting"
  /\ remove_and_reset_channel
  /\ m_state' = "kConnected"
  /\ open' = IF m_is_connected THEN open ELSE open \ {m_channel}
  /\ UNCHANGED <<m_retry_delay_ms, retries, gave_up>>
=============================================================================
