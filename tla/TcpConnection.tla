--------------------------- MODULE TcpConnection ---------------------------
(***************************************************************************)
(* One accepted connection (net/TcpConnection.cc) on the thread of its     *)
(* reactor: the connection state, the sending state, the channel and its   *)
(* registration with epoll, the calls of the user on the reactor's thread  *)
(* and on others, the peer, and the TcpServer that owns it.                *)
(*                                                                         *)
(* Handlers are cut where they call user code, and calls on other threads  *)
(* where they test m_conn_state before acting on it.  Bytes are abstracted *)
(* to one unit per message and one per file chunk.  The reactor is used    *)
(* through what module TaskQueue says of it; each of its iterations polls, *)
(* handles the active channels and timers, then runs tasks.                *)
(***************************************************************************)
EXTENDS Naturals, Sequences, FiniteSets, SequencesExt

CONSTANTS Callers,        \* threads other than the reactor's
          Scenarios,      \* the programs that use the connection
          MaxCalls,       \* bound: calls of user code
          MaxArrivals,    \* bound: messages from the peer
          FileChunks,     \* chunks of the longest file
          HighWaterMark   \* m_highwater_mark, in messages

Ops == {"send", "file", "shutdown", "shutdown_after", "force_close",
        "force_close_delay", "start_read", "stop_read"}

\* A program: whether the connection lives on the acceptor's reactor, whether
\* the TcpServer may be destroyed, whether user code asks disconnected()
\* before start_read, stop_read and enable_zero_copy, and the calls user code
\* makes on the reactor's thread and on others.  enable_zero_copy is for the
\* former.
Scenario == [single : BOOLEAN, server_dies : BOOLEAN, checks : BOOLEAN,
             reactor_ops : SUBSET Ops, caller_ops : SUBSET (Ops \ {"file"})]

ASSUME ConnectionAssumption ==
  /\ Scenarios \subseteq Scenario
  /\ {MaxCalls, MaxArrivals, FileChunks, HighWaterMark} \subseteq Nat

NoFile == FileChunks + 1          \* m_zero_copier_ptr = nullptr
Holders == Callers \cup {"io"}    \* who may keep a TcpConnectionPtr
None == "none"

VARIABLES
  scenario,             \* does not change
  m_conn_state, m_sending_state, m_is_reading,
  m_concerned_events,   \* of the channel: a subset of {"in", "out"}
  m_idx,                \* kNew, kAdded or kDeleted
  m_output_buffer,      \* messages
  m_zero_copier,        \* chunks left to copy, or NoFile
  tasks, timers,        \* of the reactor
  iopc,                 \* "idle", or the callback of this connection that the
                        \* reactor's thread is in
  m_recv_events,        \* events of the channel that are still to be handled
  m_is_handing_event,
  inbound, peer,        \* unread bytes; "open", "fin" or "rst"
  fin_sent, sent,       \* what went out on the socket
  mapped,               \* m_conn_map holds the connection
  removals,             \* calls of remove_connection_in_reactor queued
  server,               \* the TcpServer exists
  kept, cpc, calls, arrivals,
  ups, downs, closes, destroys   \* history: callbacks to the user and owner

conn == <<m_conn_state, m_sending_state, m_is_reading>>
channel == <<m_concerned_events, m_idx>>
output == <<m_output_buffer, m_zero_copier>>
io == <<iopc, m_recv_events, m_is_handing_event>>
net == <<inbound, peer, fin_sent, sent, arrivals>>
owner == <<scenario, mapped, removals, server>>
users == <<kept, cpc, calls>>
history == <<ups, downs, closes, destroys>>
vars == <<conn, channel, output, tasks, timers, io, net, owner, users, history>>

Init ==
  /\ scenario \in Scenarios
  /\ m_conn_state = "kConnecting" /\ m_sending_state = "kNotSending"
  /\ m_is_reading = TRUE
  /\ m_concerned_events = {} /\ m_idx = "kNew"
  /\ m_output_buffer = <<>> /\ m_zero_copier = NoFile
  /\ tasks = <<<<"connect_established">>>> /\ timers = {}
  /\ iopc = "idle" /\ m_recv_events = {} /\ m_is_handing_event = FALSE
  /\ inbound = FALSE /\ peer = "open" /\ fin_sent = FALSE /\ sent = <<>>
  /\ mapped = TRUE /\ removals = 0 /\ server = TRUE
  /\ kept = {} /\ cpc = [c \in Callers |-> None] /\ calls = 0 /\ arrivals = 0
  /\ ups = 0 /\ downs = 0 /\ closes = 0 /\ destroys = 0

\* Tasks bound to a shared_ptr; the others are bound to a raw this.
SharedTasks == {"connect_established", "connect_destroyed", "force_close", "callback"}

\* Some shared_ptr to the connection exists.
Alive ==
  \/ mapped \/ removals > 0 \/ kept # {} \/ iopc # "idle" \/ m_is_handing_event
  \/ \E k \in DOMAIN tasks : tasks[k][1] \in SharedTasks

(***************************************************************************)
(* Channel and poller                                                      *)
(***************************************************************************)

\* m_concerned_events becomes E; update_self_in_reactor, which ends in
\* EPollPoller::update_channel.
SetEvents(E) ==
  /\ m_concerned_events' = E
  /\ m_idx' = IF m_idx = "kAdded" /\ E = {} THEN "kDeleted" ELSE "kAdded"

\* What epoll reports of the channel.  Hang-up is always reported.
Ready ==
  {e \in {"in", "out", "hup"} :
     /\ m_idx = "kAdded"
     /\ \/ e = "in" /\ e \in m_concerned_events /\ (inbound \/ peer # "open")
        \/ e = "out" /\ e \in m_concerned_events
        \/ e = "hup" /\ (peer = "rst" \/ (peer = "fin" /\ fin_sent))}

\* poll returns with this channel among the active ones; it may find the
\* socket not writable.
PollReturns ==
  /\ iopc = "idle" /\ m_recv_events = {}
  /\ \E E \in {Ready, Ready \ {"out"}} :
       E # {} /\ m_recv_events' = E
  /\ UNCHANGED <<conn, channel, output, tasks, timers, iopc, m_is_handing_event,
                 net, owner, users, history>>

(***************************************************************************)
(* Sending                                                                 *)
(***************************************************************************)

AppendOnly(m, q) ==
  /\ m_output_buffer' = Append(m_output_buffer, m)
  /\ tasks' = q
  /\ UNCHANGED <<channel, sent>>

WriteAtEntry(m, q) ==
  /\ tasks' = q
  /\ \/ /\ sent' = Append(sent, m)
        /\ UNCHANGED <<m_output_buffer, channel>>
     \/ /\ m_output_buffer' = Append(m_output_buffer, m)
        /\ SetEvents(m_concerned_events \cup {"out"})
        /\ UNCHANGED sent

\* send_bytes_in_reactor, with q the tasks that wait
send_bytes_in_reactor(m, q) ==
  LET len == Len(m_output_buffer)
  IN IF m_conn_state = "kDisconnected"
       THEN tasks' = q /\ UNCHANGED <<m_output_buffer, channel, sent>>
       ELSE /\ m_output_buffer' = Append(m_output_buffer, m)
            /\ tasks' = IF len < HighWaterMark /\ len + 1 >= HighWaterMark
                          THEN Append(q, <<"callback">>) ELSE q
            /\ IF "out" \in m_concerned_events
                 THEN UNCHANGED channel ELSE SetEvents(m_concerned_events \cup {"out"})
            /\ UNCHANGED sent

ShutdownWhileWriting == fin_sent' = TRUE

\* shutdown_in_reactor: half-close now, or leave it to handle_socket_writable.
shutdown_in_reactor == fin_sent' = (fin_sent \/ "out" \notin m_concerned_events)

\* How much of n units the socket takes: nothing once it cannot be written.
Takes(n) == IF fin_sent \/ peer = "rst" THEN {0} ELSE 0..n

ChunkPastTheEnd == Takes(1)

\* send_one_chunk: how many chunks of the file it copies.
ChunksCopied == IF m_zero_copier > 0 THEN Takes(1) ELSE {0}

FinishWithoutShutdown ==
  /\ SetEvents(m_concerned_events \ {"out"})
  /\ tasks' = Append(tasks, <<"callback">>)
  /\ UNCHANGED fin_sent

FinishEndsAll ==
  /\ SetEvents({})
  /\ tasks' = Append(tasks, <<"callback">>)
  /\ fin_sent' = (fin_sent \/ m_conn_state = "kDisconnecting")

\* The end of handle_socket_writable once there is nothing left to send: the
\* channel stops writing, the write-complete callback is queued, and a
\* shutdown that was waiting for this happens.
SendingFinished ==
  /\ SetEvents(m_concerned_events \ {"out"})
  /\ tasks' = Append(tasks, <<"callback">>)
  /\ fin_sent' = (fin_sent \/ m_conn_state = "kDisconnecting")

\* handle_socket_writable: n messages of the buffer are written, unless a file
\* is being sent; if the buffer is then empty, send_one_chunk copies k chunks
\* of the file, or, after enough failures, gives it up.
SendSome(n, k, abort) ==
  LET buffer == SubSeq(m_output_buffer, n + 1, Len(m_output_buffer))
      copies == buffer = <<>> /\ m_zero_copier # NoFile
      left == IF abort THEN 0 ELSE m_zero_copier - k
      chunk == [from |-> "file", no |-> FileChunks - m_zero_copier]
  IN /\ IF m_sending_state = "kSendingFile" THEN n = 0
                                            ELSE n \in Takes(Len(m_output_buffer))
     /\ k \in IF copies THEN ChunksCopied ELSE {0}
     /\ abort => copies /\ k = 0
     /\ m_output_buffer' = buffer
     /\ m_zero_copier' = IF copies /\ left = 0 THEN NoFile ELSE left
     /\ sent' = sent \o SubSeq(m_output_buffer, 1, n) \o IF k = 1 THEN <<chunk>> ELSE <<>>
     /\ m_sending_state' =
          IF copies THEN IF left = 0 THEN "kNotSending" ELSE "kSendingFile"
          ELSE IF m_sending_state = "kSendingFile" THEN "kSendingFile"
          ELSE IF buffer = <<>> THEN "kNotSending" ELSE "kSendingBuffer"
     /\ IF m_sending_state' = "kNotSending" THEN SendingFinished
                                            ELSE UNCHANGED <<channel, tasks, fin_sent>>

(***************************************************************************)
(* Opening and closing                                                     *)
(***************************************************************************)

\* connect_established, as far as its call of the user
connect_established ==
  /\ m_conn_state' = "kConnected"
  /\ SetEvents(m_concerned_events \cup {"in"})
  /\ iopc' = "up"
  /\ ups' = ups + 1
  /\ kept' = Holders
  /\ UNCHANGED <<downs, closes, destroys>>

\* handle_close, as far as its call of the user
handle_close ==
  /\ m_conn_state' = "kDisconnected"
  /\ SetEvents({})
  /\ iopc' = "down"
  /\ downs' = downs + 1
  /\ UNCHANGED <<ups, closes, destroys>>

remove_self_from_reactor ==
  /\ m_idx' = "kNew"
  /\ destroys' = destroys + 1
  /\ UNCHANGED m_concerned_events

DestroyWithoutClosing ==
  /\ remove_self_from_reactor
  /\ UNCHANGED <<m_conn_state, iopc, ups, downs, closes>>

\* connect_destroyed; if the connection is still up it calls the user first
connect_destroyed ==
  IF m_conn_state = "kConnected"
    THEN /\ m_conn_state' = "kDisconnected"
         /\ SetEvents({})
         /\ iopc' = "destroyed"
         /\ downs' = downs + 1
         /\ UNCHANGED <<ups, closes, destroys>>
    ELSE /\ remove_self_from_reactor
         /\ UNCHANGED <<m_conn_state, iopc, ups, downs, closes>>

\* TcpServer::remove_conn, the close callback.  On the acceptor's own thread
\* remove_connection_in_reactor runs at once.
remove_conn ==
  IF ~server THEN UNCHANGED <<mapped, removals, tasks>>
  ELSE IF scenario.single
    THEN /\ mapped' = FALSE
         /\ tasks' = Append(tasks, <<"connect_destroyed">>)
         /\ UNCHANGED removals
    ELSE /\ removals' = removals + 1
         /\ UNCHANGED <<mapped, tasks>>

\* A callback of the user returns, and its caller goes on: handle_close calls
\* the close callback, connect_destroyed removes the channel.
CallbackReturns ==
  /\ iopc # "idle"
  /\ iopc' = "idle"
  /\ m_is_handing_event' = (m_is_handing_event /\ m_recv_events # {})
  /\ IF iopc = "down" THEN remove_conn /\ closes' = closes + 1
                      ELSE UNCHANGED <<mapped, removals, tasks, closes>>
  /\ IF iopc = "destroyed" THEN remove_self_from_reactor
                           ELSE UNCHANGED <<channel, destroys>>
  /\ UNCHANGED <<conn, output, timers, m_recv_events, net, scenario, server, users,
                 ups, downs>>

EraseOnly ==
  /\ removals > 0
  /\ removals' = removals - 1
  /\ mapped' = FALSE
  /\ UNCHANGED <<conn, channel, output, tasks, timers, io, net, scenario, server, users,
                 history>>

\* TcpServer::remove_connection_in_reactor on another thread
remove_connection_in_reactor ==
  /\ removals > 0
  /\ removals' = removals - 1
  /\ IF server THEN mapped' = FALSE /\ tasks' = Append(tasks, <<"connect_destroyed">>)
               ELSE UNCHANGED <<mapped, tasks>>
  /\ UNCHANGED <<conn, channel, output, timers, io, net, scenario, server, users,
                 history>>

\* TcpServer::~TcpServer.  On a single reactor this happens in some callback
\* that is not one of this connection's, and connect_destroyed runs at once.
ServerDestroyed ==
  /\ scenario.server_dies /\ server
  /\ server' = FALSE
  /\ mapped' = FALSE
  /\ IF ~mapped
       THEN UNCHANGED <<conn, channel, iopc, tasks, history>>
     ELSE IF scenario.single
       THEN /\ iopc = "idle" /\ ~m_is_handing_event
            /\ connect_destroyed
            /\ UNCHANGED <<m_sending_state, m_is_reading, tasks>>
       ELSE /\ tasks' = Append(tasks, <<"connect_destroyed">>)
            /\ UNCHANGED <<conn, channel, iopc, history>>
  /\ UNCHANGED <<output, timers, m_recv_events, m_is_handing_event, net, scenario, removals,
                 users>>

(***************************************************************************)
(* The user's calls                                                        *)
(***************************************************************************)

\* start_read_in_reactor (on) and stop_read_in_reactor
ReadInReactor(on) ==
  LET E == IF on THEN m_concerned_events \cup {"in"} ELSE m_concerned_events \ {"in"}
      differs == IF on THEN ~m_is_reading \/ "in" \notin m_concerned_events
                       ELSE m_is_reading \/ "in" \in m_concerned_events
  IN IF differs THEN SetEvents(E) /\ m_is_reading' = on
                ELSE UNCHANGED <<channel, m_is_reading>>

\* The part of a call that runs on the reactor's thread, with q the tasks that
\* wait: run_asap_in_reactor runs it inside the call or as a task.
InReactor(op, m, q) ==
  \/ /\ op = "send"
     /\ send_bytes_in_reactor(m, q)
     /\ UNCHANGED <<m_is_reading, m_zero_copier, timers, fin_sent>>
  \/ /\ op \in {"shutdown", "shutdown_after"}
     /\ shutdown_in_reactor
     /\ timers' = IF op = "shutdown" THEN timers
                                     ELSE timers \cup {"force_close_in_reactor"}
     /\ tasks' = q
     /\ UNCHANGED <<m_is_reading, channel, output, sent>>
  \/ /\ op \in {"start_read", "stop_read"}
     /\ ReadInReactor(op = "start_read")
     /\ tasks' = q
     /\ UNCHANGED <<output, timers, fin_sent, sent>>

RunAsapOps == {"send", "shutdown", "shutdown_after", "start_read", "stop_read"}

\* The test a call makes first, or that the user is assumed to make.
MayCall(op) ==
  CASE op \in {"send", "shutdown", "shutdown_after"} -> m_conn_state = "kConnected"
    [] op \in {"force_close", "force_close_delay"} ->
         m_conn_state \in {"kConnected", "kDisconnecting"}
    [] OTHER -> scenario.checks => m_conn_state # "kDisconnected"

StateAfterCall(op) ==
  IF op \in {"shutdown", "shutdown_after", "force_close", "force_close_delay"}
    THEN "kDisconnecting" ELSE m_conn_state

DelayInReactor == timers' = timers \cup {"force_close_in_reactor"}

\* force_close_with_delay: the timer calls force_close, not
\* force_close_in_reactor.
DelayForceClose == timers' = timers \cup {"force_close"}

InUserCode == iopc # "idle" \/ ("io" \in kept /\ ~m_is_handing_event)

\* A call on the reactor's thread, from a callback of this connection or of
\* another channel.
ReactorCalls(op) ==
  /\ InUserCode
  /\ calls < MaxCalls
  /\ calls' = calls + 1
  /\ MayCall(op)
  /\ m_conn_state' = StateAfterCall(op)
  /\ \/ /\ op \in RunAsapOps
        /\ InReactor(op, [from |-> "io", no |-> calls'], tasks)
     \/ /\ op = "force_close"
        /\ tasks' = Append(tasks, <<op>>)
        /\ UNCHANGED <<m_is_reading, channel, output, timers, fin_sent, sent>>
     \/ /\ op = "force_close_delay"
        /\ DelayForceClose
        /\ UNCHANGED <<m_is_reading, channel, output, tasks, fin_sent, sent>>
     \/ /\ op = "file"
        /\ m_zero_copier' \in 0..FileChunks
        /\ SetEvents(m_concerned_events \cup {"out"})
        /\ UNCHANGED <<m_is_reading, m_output_buffer, tasks, timers, fin_sent, sent>>
  /\ UNCHANGED <<m_sending_state, io, inbound, peer, arrivals, owner, kept, cpc, history>>

\* A call on another thread tests m_conn_state ...
CallerChecks(c, op) ==
  /\ c \in kept /\ cpc[c] = None
  /\ calls < MaxCalls
  /\ calls' = calls + 1
  /\ MayCall(op)
  /\ cpc' = [cpc EXCEPT ![c] = op]
  /\ UNCHANGED <<conn, channel, output, tasks, timers, io, net, owner, kept, history>>

\* ... and then sets it and queues its part in the reactor.
CallerActs(c) ==
  LET op == cpc[c]
  IN /\ op # None
     /\ cpc' = [cpc EXCEPT ![c] = None]
     /\ m_conn_state' = StateAfterCall(op)
     /\ IF op = "force_close_delay"
          THEN DelayForceClose /\ UNCHANGED tasks
          ELSE /\ tasks' = Append(tasks, IF op = "send" THEN <<op, [from |-> c, no |-> calls]>>
                                                        ELSE <<op>>)
               /\ UNCHANGED timers
     /\ UNCHANGED <<m_sending_state, m_is_reading, channel, output, io, net, owner,
                    kept, calls, history>>

\* A TcpConnectionPtr is dropped.  The calls a thread has queued are bound to
\* a raw pointer, so it is assumed to keep its own until they have run.
Release(h) ==
  /\ h \in kept
  /\ h \in Callers => /\ cpc[h] = None
                      /\ \A k \in DOMAIN tasks : tasks[k][1] \in SharedTasks
  /\ kept' = kept \ {h}
  /\ UNCHANGED <<conn, channel, output, tasks, timers, io, net, owner, cpc, calls, history>>

(***************************************************************************)
(* The reactor's thread                                                    *)
(***************************************************************************)

CanBeClosed == m_conn_state \in {"kConnected", "kDisconnecting"}

\* force_close_in_reactor
force_close_in_reactor ==
  IF CanBeClosed THEN handle_close
                 ELSE UNCHANGED <<m_conn_state, channel, iopc, history>>

TasksBeforeEvents ==
  /\ iopc = "idle" /\ tasks # <<>>
  /\ tasks[1][1] \in {"connect_destroyed", "force_close"}
  /\ tasks' = Tail(tasks)
  /\ IF tasks[1][1] = "force_close" THEN force_close_in_reactor ELSE connect_destroyed
  /\ UNCHANGED <<m_sending_state, m_is_reading, output, timers, m_recv_events,
                 m_is_handing_event, net, owner, users>>

\* The tasks that open and close the connection
RunClosingTask ==
  /\ iopc = "idle" /\ m_recv_events = {} /\ tasks # <<>>
  /\ tasks[1][1] \in {"connect_destroyed", "force_close"}
  /\ tasks' = Tail(tasks)
  /\ IF tasks[1][1] = "force_close" THEN force_close_in_reactor ELSE connect_destroyed
  /\ UNCHANGED <<m_sending_state, m_is_reading, output, timers, m_recv_events,
                 m_is_handing_event, net, owner, users>>

RunConnectEstablished ==
  /\ iopc = "idle" /\ m_recv_events = {} /\ tasks # <<>>
  /\ tasks[1][1] = "connect_established"
  /\ tasks' = Tail(tasks)
  /\ connect_established
  /\ UNCHANGED <<m_sending_state, m_is_reading, output, timers, m_recv_events,
                 m_is_handing_event, net, owner, cpc, calls>>

\* The write-complete or high-water-mark callback
RunCallback ==
  /\ iopc = "idle" /\ m_recv_events = {} /\ tasks # <<>>
  /\ tasks[1][1] = "callback"
  /\ tasks' = Tail(tasks)
  /\ iopc' = "callback"
  /\ UNCHANGED <<conn, channel, output, timers, m_recv_events, m_is_handing_event,
                 net, owner, users, history>>

\* A call that another thread queued
RunCall ==
  /\ iopc = "idle" /\ m_recv_events = {} /\ tasks # <<>>
  /\ Alive
  /\ tasks[1][1] \in RunAsapOps
  /\ InReactor(tasks[1][1], tasks[1][Len(tasks[1])], Tail(tasks))
  /\ UNCHANGED <<m_conn_state, m_sending_state, io, inbound, peer, arrivals, owner,
                 users, history>>

\* A timer holds a weak_ptr.  It may fire between poll and the handling of
\* this channel's events.
TimerFires(t) ==
  /\ iopc = "idle" /\ ~m_is_handing_event
  /\ t \in timers
  /\ timers' = timers \ {t}
  /\ IF ~(Alive /\ CanBeClosed)
       THEN UNCHANGED <<m_conn_state, channel, iopc, history, tasks>>
     ELSE IF t = "force_close_in_reactor"
       THEN handle_close /\ UNCHANGED tasks
       ELSE /\ m_conn_state' = "kDisconnecting"
            /\ tasks' = Append(tasks, <<"force_close">>)
            /\ UNCHANGED <<channel, iopc, history>>
  /\ UNCHANGED <<m_sending_state, m_is_reading, output, m_recv_events,
                 m_is_handing_event, net, owner, users>>

\* Channel::handle_event: hang-up without input closes, ...
HandleHup ==
  /\ iopc = "idle" /\ Alive
  /\ "hup" \in m_recv_events /\ "in" \notin m_recv_events
  /\ m_recv_events' = m_recv_events \ {"hup"}
  /\ m_is_handing_event' = TRUE
  /\ handle_close
  /\ UNCHANGED <<m_sending_state, m_is_reading, output, tasks, timers, net, owner, users>>

\* ... then handle_socket_readable: a message, the end of the stream, or an
\* error that is only logged, ...
handle_socket_readable ==
  /\ iopc = "idle" /\ Alive
  /\ "in" \in m_recv_events
  /\ m_recv_events' = m_recv_events \ {"in", "hup"}
  /\ \/ /\ inbound
        /\ inbound' = FALSE
        /\ iopc' = "message"
        /\ m_is_handing_event' = TRUE
        /\ UNCHANGED <<m_conn_state, channel, history>>
     \/ /\ ~inbound /\ (peer = "fin" \/ "hup" \in m_recv_events)
        /\ handle_close
        /\ m_is_handing_event' = TRUE
        /\ UNCHANGED inbound
     \/ /\ ~inbound /\ peer = "rst" /\ "hup" \notin m_recv_events
        /\ m_is_handing_event' = (m_recv_events' # {})
        /\ UNCHANGED <<m_conn_state, channel, iopc, history, inbound>>
  /\ UNCHANGED <<m_sending_state, m_is_reading, output, tasks, timers, peer, fin_sent,
                 sent, arrivals, owner, users>>

\* ... and last handle_socket_writable.
handle_socket_writable ==
  /\ iopc = "idle" /\ Alive
  /\ m_recv_events = {"out"}
  /\ m_recv_events' = {}
  /\ m_is_handing_event' = FALSE
  /\ IF "out" \in m_concerned_events
       THEN \E n \in 0..Len(m_output_buffer), k \in 0..1, abort \in BOOLEAN :
              SendSome(n, k, abort)
       ELSE UNCHANGED <<m_sending_state, channel, output, tasks, fin_sent, sent>>
  /\ UNCHANGED <<m_conn_state, m_is_reading, timers, iopc, inbound, peer, arrivals,
                 owner, users, history>>

(***************************************************************************)
(* The peer                                                                *)
(***************************************************************************)

PeerSends ==
  /\ peer = "open" /\ arrivals < MaxArrivals
  /\ inbound' = TRUE
  /\ arrivals' = arrivals + 1
  /\ UNCHANGED <<conn, channel, output, tasks, timers, io, peer, fin_sent, sent, owner,
                 users, history>>

PeerCloses(how) ==
  /\ peer = "open" \/ (peer = "fin" /\ how = "rst")
  /\ peer' = how
  /\ UNCHANGED <<conn, channel, output, tasks, timers, io, inbound, fin_sent, sent,
                 arrivals, owner, users, history>>

RunTask == RunConnectEstablished \/ RunClosingTask \/ RunCallback \/ RunCall
HandleEvent == HandleHup \/ handle_socket_readable \/ handle_socket_writable

Next ==
  \/ PollReturns \/ HandleEvent \/ RunTask \/ CallbackReturns
  \/ \E t \in timers : TimerFires(t)
  \/ \E op \in scenario.reactor_ops : ReactorCalls(op)
  \/ \E c \in Callers : CallerActs(c) \/ \E op \in scenario.caller_ops : CallerChecks(c, op)
  \/ \E h \in Holders : Release(h)
  \/ remove_connection_in_reactor \/ ServerDestroyed
  \/ Alive /\ (PeerSends \/ PeerCloses("fin") \/ PeerCloses("rst"))

Spec == Init /\ [][Next]_vars

\* The peer reads in the end, so a socket that can be written takes bytes.
WriteProgress == handle_socket_writable /\ sent' # sent

\* Both reactors keep running, their timers expire, threads that are inside a
\* call finish it, and bytes move.  Nobody has to release a pointer.
Fairness ==
  /\ WF_vars(PollReturns) /\ WF_vars(HandleEvent) /\ WF_vars(CallbackReturns)
  /\ SF_vars(RunTask) /\ SF_vars(WriteProgress)
  /\ SF_vars(\E t \in timers : TimerFires(t))
  /\ WF_vars(\E c \in Callers : CallerActs(c))
  /\ WF_vars(remove_connection_in_reactor)

FairSpec == Spec /\ Fairness

(***************************************************************************)
(* Properties                                                              *)
(***************************************************************************)

Message == [from : Holders \cup {"file"}, no : 0..(MaxCalls + FileChunks)]

\* Types of the variables.
TypeOK ==
  /\ m_conn_state \in {"kConnecting", "kConnected", "kDisconnecting", "kDisconnected"}
  /\ m_sending_state \in {"kNotSending", "kSendingBuffer", "kSendingFile"}
  /\ {m_is_reading, m_is_handing_event, inbound, fin_sent, mapped, server} \subseteq BOOLEAN
  /\ m_concerned_events \subseteq {"in", "out"}
  /\ m_idx \in {"kNew", "kAdded", "kDeleted"}
  /\ m_output_buffer \in Seq(Message) /\ sent \in Seq(Message)
  /\ m_zero_copier \in 0..NoFile
  /\ timers \subseteq {"force_close", "force_close_in_reactor"}
  /\ \A k \in DOMAIN tasks : tasks[k][1] \in SharedTasks \cup RunAsapOps
  /\ iopc \in {"idle", "up", "down", "destroyed", "message", "callback"}
  /\ m_recv_events \subseteq {"in", "out", "hup"}
  /\ peer \in {"open", "fin", "rst"}
  /\ kept \subseteq Holders
  /\ cpc \in [Callers -> Ops \cup {None}]
  /\ {removals, calls, arrivals, ups, downs, closes, destroys} \subseteq Nat

\* The user hears once that the connection is down, the owner's close callback
\* is called once and connect_destroyed runs once, although handle_close is
\* reached from events, queued tasks and timers.
ClosedOnce == downs <= 1 /\ closes <= 1 /\ destroys <= 1

\* The last TcpConnectionPtr goes only after the connection was closed, its
\* user was told, and its channel left the poller without interests: what the
\* destructors of TcpConnection and Channel assert.
DestroyedClean ==
  ~Alive => /\ m_conn_state = "kDisconnected"
            /\ ups = downs
            /\ m_idx = "kNew" /\ m_concerned_events = {}

\* A channel that epoll watches, or that the reactor is about to handle, is
\* never the channel of a destroyed connection.
ChannelOutlivesEvents == m_recv_events # {} \/ m_idx = "kAdded" => Alive

\* Unsent bytes are never forgotten: while the connection is not closed the
\* channel asks for writability as long as there is something to send.
OutputIsWatched ==
  (m_output_buffer # <<>> \/ m_zero_copier # NoFile) /\ m_conn_state # "kDisconnected"
    => "out" \in m_concerned_events

\* The messages one thread sends go out in the order of its calls, although
\* calls on the reactor's thread overtake calls on others.
ThreadOrder ==
  \A i, j \in DOMAIN sent :
    i < j /\ sent[i].from = sent[j].from /\ sent[i].from # "file" => sent[i].no < sent[j].no

\* shutdown() half-closes the socket only when everything handed to the
\* reactor before has been written.
FinAfterOutput ==
  [][fin_sent' /\ ~fin_sent /\ m_conn_state # "kDisconnected"
       => m_output_buffer' = <<>> /\ m_zero_copier' = NoFile]_vars

\* A closed connection is torn down: connect_destroyed runs on its reactor.
ClosedIsDestroyed == m_conn_state = "kDisconnected" ~> destroys > 0

\* shutdown() takes effect: the stream is ended once everything is sent, or the
\* connection is closed.
ShutdownCompletes ==
  m_conn_state = "kDisconnecting" ~> fin_sent \/ m_conn_state = "kDisconnected"

\* The peer's closing is noticed unless the user stopped reading.
PeerCloseIsNoticed ==
  peer # "open" /\ m_is_reading ~> m_conn_state = "kDisconnected" \/ ~m_is_reading

\* The bytes in m_output_buffer are "going to be sent" (the note in
\* send_bytes_in_reactor), unless the connection is closed first.
BufferedBytesAreSent == m_output_buffer # <<>> ~> m_output_buffer = <<>> \/ downs > 0

\* The state of a connection and its lifetime: no event reaches a destroyed
\* one, none is destroyed half open, and unsent bytes stay watched
\* (connect_destroyed, ~TcpConnection, Channel::tie, send_bytes_in_reactor).
ConnectionInv == TypeOK /\ DestroyedClean /\ ChannelOutlivesEvents /\ OutputIsWatched

\* The stream is in order: each thread's messages as it sent them, and the FIN
\* of shutdown() behind all of them.
OutputInOrder == []ThreadOrder /\ FinAfterOutput

\* A close by either side is carried through: the peer's is noticed, and a
\* closed connection is destroyed on its reactor.
CloseCompletes == PeerCloseIsNoticed /\ ClosedIsDestroyed
=============================================================================
