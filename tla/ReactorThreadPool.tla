------------------------- MODULE ReactorThreadPool -------------------------
(***************************************************************************)
(* A ReactorThreadPool: the thread that owns it ("main", the thread of the *)
(* default reactor) starts ReactorThreads one after the other, gives their *)
(* reactors out in turn, and in the end makes each quit and joins it       *)
(* (net/ReactorThreadPool.cc, net/ReactorThread.cc, common/Thread.cc).     *)
(*                                                                         *)
(* pc[t] is where thread t is: in Thread::run, in reactor_thread_loop_func *)
(* or in Reactor::loop.  Of the loop only the order matters here of poll,  *)
(* of the tasks and of the test of m_going_to_quit; that poll returns for  *)
(* a queued task or a quit request is NoLostWakeup of Reactor.tla.         *)
(***************************************************************************)
EXTENDS Integers, Sequences, FiniteSetsExt

CONSTANT MaxThreads               \* bound: threads of the pool

ASSUME PoolAssumption == MaxThreads \in Nat

VARIABLES
  m_size_pool,
  main,              \* where the owner is
  idx,               \* its loop variable over the threads
  waiting,           \* the condition it is blocked on: "latch", "m_cond", "none"
  pc,
  m_count,           \* the CountdownLatch of each Thread
  m_reactor,         \* ReactorThread::m_reactor is not NULL
  m_going_to_quit,
  queue, batch,      \* the tasks of each reactor
  m_next_idx,
  asked, cut,        \* mark_quit was called; it was called during a batch
  misused            \* a reactor that does not exist was used

pool == <<m_size_pool, main, idx, waiting, pc, m_count, m_reactor, m_going_to_quit, queue, batch, m_next_idx,
          asked, cut, misused>>

Threads == 1..MaxThreads
InPool == 1..m_size_pool

PoolInit ==
  /\ m_size_pool \in 0..MaxThreads
  /\ main = "constructed" /\ idx = 1 /\ waiting = "none"
  /\ pc = [t \in Threads |-> "none"]
  /\ m_count = [t \in Threads |-> 1]
  /\ m_reactor = [t \in Threads |-> FALSE]
  /\ m_going_to_quit = [t \in Threads |-> FALSE]
  /\ queue = [t \in Threads |-> <<>>] /\ batch = [t \in Threads |-> <<>>]
  /\ m_next_idx = 1
  /\ asked = [t \in Threads |-> FALSE] /\ cut = [t \in Threads |-> FALSE]
  /\ misused = FALSE

\* The Reactor on thread t's stack exists.
ReactorExists(t) == pc[t] \in {"built", "published", "poll", "tasks", "returned"}

(***************************************************************************)
(* The owner: ReactorThreadPool::start, get_next_reactor, destruction.     *)
(***************************************************************************)
\* Thread::start of the next thread, or the end of the loop.
CreateThread ==
  /\ main = "start"
  /\ IF idx <= m_size_pool
     THEN pc' = [pc EXCEPT ![idx] = "created"] /\ main' = "latch"
     ELSE main' = "started" /\ UNCHANGED pc
  /\ UNCHANGED <<m_size_pool, idx, waiting, m_count, m_reactor, m_going_to_quit, queue, batch, m_next_idx,
                 asked, cut, misused>>

\* CountdownLatch::wait: tested with the lock held, given up while blocked.
AwaitLatch ==
  /\ main = "latch" /\ waiting = "none"
  /\ IF m_count[idx] > 0
     THEN waiting' = "latch" /\ UNCHANGED main
     ELSE main' = "start_reactor" /\ UNCHANGED waiting
  /\ UNCHANGED <<m_size_pool, idx, pc, m_count, m_reactor, m_going_to_quit, queue, batch, m_next_idx, asked,
                 cut, misused>>

ReturnBeforeReactor ==
  /\ main = "start_reactor"
  /\ main' = "start" /\ idx' = idx + 1
  /\ UNCHANGED <<m_size_pool, waiting, pc, m_count, m_reactor, m_going_to_quit, queue, batch, m_next_idx,
                 asked, cut, misused>>

\* start_reactor waits until the thread has published its reactor.
AwaitReactor ==
  /\ main = "start_reactor" /\ waiting = "none"
  /\ IF m_reactor[idx]
     THEN main' = "start" /\ idx' = idx + 1 /\ UNCHANGED waiting
     ELSE waiting' = "m_cond" /\ UNCHANGED <<main, idx>>
  /\ UNCHANGED <<m_size_pool, pc, m_count, m_reactor, m_going_to_quit, queue, batch, m_next_idx, asked, cut,
                 misused>>

StayOnReactor(i) == i

\* get_next_reactor: the index of the next time.
NextIdx(i) == (i % m_size_pool) + 1

JoinOnly ==
  /\ main = "destroy"
  /\ IF idx <= m_size_pool
     THEN main' = "join"
     ELSE main' = "gone"
  /\ UNCHANGED <<m_size_pool, idx, waiting, pc, m_count, m_reactor, m_going_to_quit, queue, batch, m_next_idx,
                 asked, cut, misused>>

\* ~ReactorThread of the next thread that runs a reactor, if there is one:
\* mark_quit, then join.
QuitThread ==
  LET left == {t \in InPool : t >= idx /\ m_reactor[t]} IN
  /\ main = "destroy"
  /\ IF left # {}
     THEN /\ main' = "join" /\ idx' = Min(left)
          /\ m_going_to_quit' = [m_going_to_quit EXCEPT ![idx'] = TRUE]
          /\ asked' = [asked EXCEPT ![idx'] = TRUE]
          /\ cut' = [cut EXCEPT ![idx'] = pc[idx'] = "tasks"]
          /\ misused' = (misused \/ ~ReactorExists(idx'))
     ELSE main' = "gone" /\ UNCHANGED <<idx, m_going_to_quit, asked, cut, misused>>
  /\ UNCHANGED <<m_size_pool, waiting, pc, m_count, m_reactor, queue, batch, m_next_idx>>

Join ==
  /\ main = "join" /\ pc[idx] = "exited"
  /\ main' = "destroy" /\ idx' = idx + 1
  /\ UNCHANGED <<m_size_pool, waiting, pc, m_count, m_reactor, m_going_to_quit, queue, batch, m_next_idx,
                 asked, cut, misused>>

(***************************************************************************)
(* A thread of the pool.                                                   *)
(***************************************************************************)
Goes(t, from, to) ==
  /\ pc[t] = from
  /\ pc' = [pc EXCEPT ![t] = to]
  /\ UNCHANGED <<m_size_pool, main, idx, m_next_idx, asked, cut, misused>>

\* notify of a condition only the owner waits on, in its iteration for t.
Notify(t, cond) == waiting' = IF waiting = cond /\ idx = t THEN "none" ELSE waiting

CountDownTwice(t) ==
  /\ Goes(t, "created", "latched")
  /\ m_count' = [m_count EXCEPT ![t] = @ - 2]
  /\ Notify(t, "latch")
  /\ UNCHANGED <<m_reactor, m_going_to_quit, queue, batch>>

\* Thread::run up to m_func().
CountDown(t) ==
  /\ Goes(t, "created", "latched")
  /\ m_count' = [m_count EXCEPT ![t] = @ - 1]
  /\ Notify(t, "latch")
  /\ UNCHANGED <<m_reactor, m_going_to_quit, queue, batch>>

\* The Reactor is constructed and the user's init function runs.
BuildReactor(t) ==
  /\ Goes(t, "latched", "built")
  /\ UNCHANGED <<waiting, m_count, m_reactor, m_going_to_quit, queue, batch>>

PublishSilently(t) ==
  /\ Goes(t, "built", "published")
  /\ m_reactor' = [m_reactor EXCEPT ![t] = TRUE]
  /\ UNCHANGED <<waiting, m_count, m_going_to_quit, queue, batch>>

Publish(t) ==
  /\ Goes(t, "built", "published")
  /\ m_reactor' = [m_reactor EXCEPT ![t] = TRUE]
  /\ Notify(t, "m_cond")
  /\ UNCHANGED <<m_count, m_going_to_quit, queue, batch>>

\* loop() clears the flag, also if mark_quit has already been called.
EnterLoop(t) ==
  /\ Goes(t, "published", "poll")
  /\ m_going_to_quit' = [m_going_to_quit EXCEPT ![t] = FALSE]
  /\ UNCHANGED <<waiting, m_count, m_reactor, queue, batch>>

QuitBeforeTasks(t) ==
  /\ queue[t] # <<>> \/ m_going_to_quit[t]
  /\ IF m_going_to_quit[t] THEN Goes(t, "poll", "returned") ELSE Goes(t, "poll", "tasks")
  /\ batch' = [batch EXCEPT ![t] = IF m_going_to_quit[t] THEN <<>> ELSE queue[t]]
  /\ queue' = [queue EXCEPT ![t] = IF m_going_to_quit[t] THEN @ ELSE <<>>]
  /\ UNCHANGED <<waiting, m_count, m_reactor, m_going_to_quit>>

WakesOnlyToQuit(t) ==
  /\ m_going_to_quit[t]
  /\ Goes(t, "poll", "tasks")
  /\ batch' = [batch EXCEPT ![t] = queue[t]]
  /\ queue' = [queue EXCEPT ![t] = <<>>]
  /\ UNCHANGED <<waiting, m_count, m_reactor, m_going_to_quit>>

PollReturns(t) ==
  /\ queue[t] # <<>> \/ m_going_to_quit[t]
  /\ Goes(t, "poll", "tasks")
  /\ batch' = [batch EXCEPT ![t] = queue[t]]
  /\ queue' = [queue EXCEPT ![t] = <<>>]
  /\ UNCHANGED <<waiting, m_count, m_reactor, m_going_to_quit>>

TasksDone(t) ==
  /\ batch[t] = <<>>
  /\ Goes(t, "tasks", IF m_going_to_quit[t] THEN "returned" ELSE "poll")
  /\ UNCHANGED <<waiting, m_count, m_reactor, m_going_to_quit, queue, batch>>

\* m_reactor is cleared, and the Reactor destroyed with what is in its queue.
ExitThread(t) ==
  /\ Goes(t, "returned", "exited")
  /\ m_reactor' = [m_reactor EXCEPT ![t] = FALSE]
  /\ queue' = [queue EXCEPT ![t] = <<>>]
  /\ UNCHANGED <<waiting, m_count, m_going_to_quit, batch>>

\* The tasks of thread t run one at a time; what they do is the user's part.
TakeTask(t) ==
  /\ pc[t] = "tasks" /\ batch[t] # <<>>
  /\ batch' = [batch EXCEPT ![t] = Tail(@)]
  /\ UNCHANGED <<m_size_pool, main, idx, waiting, pc, m_count, m_reactor, m_going_to_quit, queue, m_next_idx,
                 asked, cut, misused>>

\* Reactor::queue_in_reactor of thread t's reactor.
Post(t, task) ==
  /\ queue' = [queue EXCEPT ![t] = Append(@, task)]
  /\ misused' = (misused \/ ~ReactorExists(t))

OwnerStep == CreateThread \/ AwaitLatch \/ AwaitReactor \/ QuitThread \/ Join
ThreadStep(t) == CountDown(t) \/ BuildReactor(t) \/ Publish(t) \/ EnterLoop(t) \/ PollReturns(t) \/ TasksDone(t)

\* mark_quit came between the publication of the reactor and its loop().
QuitLost(t) == asked[t] /\ pc[t] \in {"poll", "tasks"} /\ ~m_going_to_quit[t]

(***************************************************************************)
(* Where the threads are, by where the owner is.                           *)
(***************************************************************************)
Starting == {"constructed", "start", "latch", "start_reactor", "started", "serving"}
Ending == {"destroy", "join", "gone"}

\* m_reactor points to the thread's reactor.
Published == {"published", "poll", "tasks", "returned"}

\* start() has met the threads before idx and not begun the ones behind it; the
\* destructor has seen the ones before idx exit. A loop ends only if it was
\* asked to, and the owner asks one thread after the other.
ThreadInv(t) ==
  /\ pc[t] # "none" => t <= m_size_pool
  /\ m_count[t] = IF pc[t] \in {"none", "created"} THEN 1 ELSE 0
  /\ m_reactor[t] <=> pc[t] \in Published
  /\ m_going_to_quit[t] \/ cut[t] => asked[t]
  /\ pc[t] \in {"returned", "exited"} => m_going_to_quit[t]
  /\ asked[t] => main \in Ending /\ (t < idx \/ (t = idx /\ main = "join"))
  /\ main \in Starting =>
       /\ t < idx => pc[t] \in Published
       /\ t = idx => (pc[t] # "none" <=> main \in {"latch", "start_reactor"})
       /\ t > idx => pc[t] = "none"
  /\ main \notin Starting \cup {"aborted"} => pc[t] \in {"none", "exited"} \cup Published
  /\ main \in Ending /\ (t < idx \/ main = "gone") => pc[t] \in {"none", "exited"}

PoolInv ==
  /\ idx \in 1..(m_size_pool + 1)
  /\ main = "constructed" => idx = 1
  /\ main \in {"started", "serving"} => idx = m_size_pool + 1
  /\ main \in {"latch", "start_reactor", "join"} => idx <= m_size_pool
  /\ \A t \in Threads : ThreadInv(t)
=============================================================================
