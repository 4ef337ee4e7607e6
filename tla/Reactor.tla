------------------------------ MODULE Reactor ------------------------------
(***************************************************************************)
(* One Reactor (net/Reactor.cc): the loop of its own thread, the queue of  *)
(* tasks other threads hand to it under a mutex, and the eventfd that      *)
(* wakes the loop out of poll.                                             *)
(*                                                                         *)
(* A step is what happens between two points where another thread can      *)
(* interfere: a critical section of m_mutexlock, one system call on the    *)
(* eventfd, or one access to the atomic m_going_to_quit.                   *)
(***************************************************************************)
EXTENDS Naturals, Sequences

CONSTANTS Callers,        \* threads other than the reactor's own
          Tasks,          \* the task objects handed to the reactor
          Channels,       \* the channels of the poller except the eventfd's
          WakeupChannel,  \* m_wakeup_channel
          MaxEventfd      \* largest value of the eventfd's counter

ASSUME ReactorAssumption ==
  /\ MaxEventfd \in Nat \ {0}
  /\ WakeupChannel \notin Channels
  /\ Channels \cap Tasks = {}

VARIABLES
  rpc,              \* where the reactor's thread is in loop()
  m_going_to_quit,
  m_pending_tasks,  \* guarded by m_mutexlock
  tasks,            \* the vector do_queueing_tasks swapped out
  stack,            \* callbacks and tasks in progress, innermost last
  m_active_channels,\* channels the last poll reported, not yet handled
  ready,            \* channels with an event pending in the kernel
  eventfd,          \* counter of m_wakeup_fd
  cpc,              \* caller threads: idle, or about to write the eventfd
  early             \* tasks the reactor's thread queued before loop()

vars == <<rpc, m_going_to_quit, m_pending_tasks, tasks, stack,
          m_active_channels, ready, eventfd, cpc, early>>

loopvars == <<rpc, tasks, stack, m_active_channels>>

Elements(s) == {s[i] : i \in DOMAIN s}

NeverCallingPending == FALSE

\* The flag of the class that only its own thread reads.
m_is_calling_pending_tasks == rpc \in {"swap", "run"}

\* User code runs on the reactor's thread: main() before loop(), and the
\* callbacks and tasks that loop() calls.
InUserCode == rpc = "created" \/ stack # <<>>

\* Every task object is handed over again only after it has run.  This
\* bounds the queue; it is a restriction of the model.
Outstanding == Elements(m_pending_tasks) \cup Elements(tasks) \cup Elements(stack)

Init ==
  /\ rpc = "created"
  /\ m_going_to_quit = FALSE
  /\ m_pending_tasks = <<>>
  /\ tasks = <<>>
  /\ stack = <<>>
  /\ m_active_channels = {}
  /\ ready = {}
  /\ eventfd = 0
  /\ cpc = [c \in Callers |-> "idle"]
  /\ early = {}

(***************************************************************************)
(* The operations of the class.                                            *)
(***************************************************************************)

\* A write to the non-blocking eventfd adds one; at its limit the write
\* fails with EAGAIN, which is only logged.
wakeup_from_waiting_pool ==
  eventfd' = IF eventfd < MaxEventfd THEN eventfd + 1 ELSE eventfd

WakeOnlyIfQueueWasEmpty(c, t) ==
  /\ cpc[c] = "idle"
  /\ t \notin Outstanding
  /\ m_pending_tasks' = Append(m_pending_tasks, t)
  /\ cpc' = [cpc EXCEPT ![c] = IF m_pending_tasks = <<>> THEN "wake" ELSE "idle"]
  /\ UNCHANGED <<loopvars, m_going_to_quit, ready, eventfd, early>>

\* queue_in_reactor on another thread: the push is one critical section and
\* the wakeup a later step.
CallerQueues(c, t) ==
  /\ cpc[c] = "idle"
  /\ t \notin Outstanding
  /\ m_pending_tasks' = Append(m_pending_tasks, t)
  /\ cpc' = [cpc EXCEPT ![c] = "wake"]
  /\ UNCHANGED <<loopvars, m_going_to_quit, ready, eventfd, early>>

QuitWithoutWakeup(c) ==
  /\ cpc[c] = "idle"
  /\ m_going_to_quit' = TRUE
  /\ UNCHANGED <<loopvars, m_pending_tasks, ready, eventfd, early, cpc>>

\* mark_quit on another thread: the flag first, the wakeup later.
CallerMarksQuit(c) ==
  /\ cpc[c] = "idle"
  /\ m_going_to_quit' = TRUE
  /\ cpc' = [cpc EXCEPT ![c] = "wake"]
  /\ UNCHANGED <<loopvars, m_pending_tasks, ready, eventfd, early>>

CallerWakes(c) ==
  /\ cpc[c] = "wake"
  /\ cpc' = [cpc EXCEPT ![c] = "idle"]
  /\ wakeup_from_waiting_pool
  /\ UNCHANGED <<loopvars, m_going_to_quit, m_pending_tasks, ready, early>>

\* queue_in_reactor on the reactor's thread wakes only while the tasks of
\* this iteration are being run.
SelfQueues(t) ==
  /\ InUserCode
  /\ t \notin Outstanding
  /\ m_pending_tasks' = Append(m_pending_tasks, t)
  /\ IF m_is_calling_pending_tasks
       THEN wakeup_from_waiting_pool
       ELSE UNCHANGED eventfd
  /\ early' = IF rpc = "created" THEN early \cup {t} ELSE early
  /\ UNCHANGED <<loopvars, m_going_to_quit, ready, cpc>>

\* run_asap_in_reactor on the reactor's thread calls the task directly.
SelfRunsAsap(t) ==
  /\ InUserCode
  /\ t \notin Outstanding
  /\ stack' = Append(stack, t)
  /\ UNCHANGED <<rpc, tasks, m_active_channels, m_going_to_quit,
                 m_pending_tasks, ready, eventfd, cpc, early>>

\* mark_quit on the reactor's thread.
SelfMarksQuit ==
  /\ InUserCode
  /\ m_going_to_quit' = TRUE
  /\ UNCHANGED <<loopvars, m_pending_tasks, ready, eventfd, cpc, early>>

\* The innermost callback or task returns.
CallReturns ==
  /\ stack # <<>>
  /\ stack' = SubSeq(stack, 1, Len(stack) - 1)
  /\ UNCHANGED <<rpc, tasks, m_active_channels, m_going_to_quit,
                 m_pending_tasks, ready, eventfd, cpc, early>>

(***************************************************************************)
(* loop()                                                                  *)
(***************************************************************************)

\* Entering loop() clears the quit flag.
LoopEntered ==
  /\ rpc = "created"
  /\ stack = <<>>
  /\ rpc' = "test"
  /\ m_going_to_quit' = FALSE
  /\ UNCHANGED <<m_pending_tasks, tasks, stack, m_active_channels, ready,
                 eventfd, cpc, early>>

\* The condition of the while.
LoopTests ==
  /\ rpc = "test"
  /\ rpc' = IF m_going_to_quit THEN "returned" ELSE "poll"
  /\ UNCHANGED <<m_going_to_quit, m_pending_tasks, tasks, stack,
                 m_active_channels, ready, eventfd, cpc, early>>

ReadyChannels == ready \cup (IF eventfd > 0 THEN {WakeupChannel} ELSE {})

\* poll returns because a descriptor is ready.
PollReturns ==
  /\ rpc = "poll"
  /\ ReadyChannels # {}
  /\ m_active_channels' = ReadyChannels
  /\ rpc' = "handle"
  /\ UNCHANGED <<m_going_to_quit, m_pending_tasks, tasks, stack, ready,
                 eventfd, cpc, early>>

\* poll returns because of its timeout, or of a signal.
PollTimesOut ==
  /\ rpc = "poll"
  /\ ReadyChannels = {}
  /\ m_active_channels' = {}
  /\ rpc' = "handle"
  /\ UNCHANGED <<m_going_to_quit, m_pending_tasks, tasks, stack, ready,
                 eventfd, cpc, early>>

\* The wakeup channel's callback reads the eventfd, which resets it.
handle_wakeup ==
  /\ rpc = "handle"
  /\ stack = <<>>
  /\ WakeupChannel \in m_active_channels
  /\ m_active_channels' = m_active_channels \ {WakeupChannel}
  /\ eventfd' = 0
  /\ UNCHANGED <<rpc, m_going_to_quit, m_pending_tasks, tasks, stack, ready,
                 cpc, early>>

\* The callback of another channel consumes its event and then runs user code.
HandleEvent(ch) ==
  /\ rpc = "handle"
  /\ stack = <<>>
  /\ ch \in m_active_channels
  /\ m_active_channels' = m_active_channels \ {ch}
  /\ ready' = ready \ {ch}
  /\ stack' = <<ch>>
  /\ UNCHANGED <<rpc, m_going_to_quit, m_pending_tasks, tasks, eventfd, cpc,
                 early>>

\* All active channels are handled: do_queueing_tasks begins.
EventsHandled ==
  /\ rpc = "handle"
  /\ stack = <<>>
  /\ m_active_channels = {}
  /\ rpc' = "swap"
  /\ UNCHANGED <<m_going_to_quit, m_pending_tasks, tasks, stack,
                 m_active_channels, ready, eventfd, cpc, early>>

CopyTasksWithoutClearing ==
  /\ rpc = "swap"
  /\ tasks' = m_pending_tasks
  /\ rpc' = "run"
  /\ early' = {}
  /\ UNCHANGED <<m_going_to_quit, m_pending_tasks, stack, m_active_channels,
                 ready, eventfd, cpc>>

\* The critical section of do_queueing_tasks.
SwapTasks ==
  /\ rpc = "swap"
  /\ tasks' = m_pending_tasks
  /\ m_pending_tasks' = <<>>
  /\ rpc' = "run"
  /\ early' = {}
  /\ UNCHANGED <<m_going_to_quit, stack, m_active_channels, ready, eventfd, cpc>>

\* The for loop over the swapped tasks.
RunTask ==
  /\ rpc = "run"
  /\ stack = <<>>
  /\ tasks # <<>>
  /\ stack' = <<Head(tasks)>>
  /\ tasks' = Tail(tasks)
  /\ UNCHANGED <<rpc, m_going_to_quit, m_pending_tasks, m_active_channels,
                 ready, eventfd, cpc, early>>

DrainUntilEmpty ==
  /\ rpc = "run"
  /\ stack = <<>>
  /\ tasks = <<>>
  /\ rpc' = IF m_pending_tasks = <<>> THEN "test" ELSE "swap"
  /\ UNCHANGED <<m_going_to_quit, m_pending_tasks, tasks, stack,
                 m_active_channels, ready, eventfd, cpc, early>>

\* The end of do_queueing_tasks: one batch per iteration.
TasksDone ==
  /\ rpc = "run"
  /\ stack = <<>>
  /\ tasks = <<>>
  /\ rpc' = "test"
  /\ UNCHANGED <<m_going_to_quit, m_pending_tasks, tasks, stack,
                 m_active_channels, ready, eventfd, cpc, early>>

\* The kernel reports an event on a descriptor.
EventArrives(ch) ==
  /\ ch \notin ready
  /\ ready' = ready \cup {ch}
  /\ UNCHANGED <<loopvars, m_going_to_quit, m_pending_tasks, eventfd, cpc, early>>

LoopStep ==
  \/ LoopEntered \/ LoopTests \/ PollReturns \/ handle_wakeup
  \/ (\E ch \in Channels : HandleEvent(ch))
  \/ EventsHandled \/ SwapTasks \/ RunTask \/ TasksDone \/ CallReturns

SelfStep ==
  \/ \E t \in Tasks : SelfQueues(t) \/ SelfRunsAsap(t)
  \/ SelfMarksQuit

CallerStep(c) ==
  \/ \E t \in Tasks : CallerQueues(c, t)
  \/ CallerMarksQuit(c)
  \/ CallerWakes(c)

Next ==
  \/ LoopStep
  \/ SelfStep
  \/ PollTimesOut
  \/ \E c \in Callers : CallerStep(c)
  \/ \E ch \in Channels : EventArrives(ch)

Spec == Init /\ [][Next]_vars

\* The reactor's thread runs, every callback or task eventually returns however
\* many calls it makes, and a thread that has pushed a task goes on to the
\* wakeup.  Nothing is assumed of the poll timeout, of events, or of what
\* callers and callbacks decide to do.
Fairness ==
  /\ WF_vars(LoopStep)
  /\ SF_vars(LoopEntered)
  /\ \A x \in Tasks \cup Channels :
       SF_vars(stack # <<>> /\ stack[Len(stack)] = x /\ CallReturns)
  /\ \A c \in Callers : WF_vars(CallerWakes(c))

FairSpec == Spec /\ Fairness

(***************************************************************************)
(* Properties                                                              *)
(***************************************************************************)

LoopPoints == {"created", "test", "poll", "handle", "swap", "run", "returned"}

\* Types of the variables.
TypeOK ==
  /\ rpc \in LoopPoints
  /\ m_going_to_quit \in BOOLEAN
  /\ m_pending_tasks \in Seq(Tasks)
  /\ tasks \in Seq(Tasks)
  /\ stack \in Seq(Tasks \cup Channels)
  /\ m_active_channels \subseteq Channels \cup {WakeupChannel}
  /\ ready \subseteq Channels
  /\ eventfd \in 0..MaxEventfd
  /\ cpc \in [Callers -> {"idle", "wake"}]
  /\ early \subseteq Tasks

\* The loop will leave poll without waiting for its timeout: the eventfd is
\* readable, or the thread that must write it is about to.
WakeupOnItsWay == eventfd > 0 \/ \E c \in Callers : cpc[c] = "wake"

\* Work the loop must not sleep on: a queued task (except those its own
\* thread queued before loop(), which Reactor::queue_in_reactor does not
\* signal), or a request to quit.
MustNotSleep ==
  \/ \E t \in Elements(m_pending_tasks) : t \notin early
  \/ m_going_to_quit

\* No lost wakeup: whenever the loop sits in poll while a task is queued or
\* mark_quit has been called, a wakeup is there or on its way
\* (Reactor::queue_in_reactor, mark_quit, do_queueing_tasks).
NoLostWakeup == rpc = "poll" /\ MustNotSleep => WakeupOnItsWay

\* Every callback and task runs to completion before the loop moves on: the
\* loop tests its condition, polls and swaps the queue with no call in
\* progress, and keeps no swapped task or unhandled channel when it polls
\* again (Reactor::loop, do_queueing_tasks).
RunToCompletion ==
  /\ rpc \in {"test", "poll", "swap", "returned"} => stack = <<>>
  /\ rpc # "run" => tasks = <<>>
  /\ rpc # "handle" => m_active_channels = {}

\* Outside the part of an iteration that is certain to swap the queue, a
\* signalled task has its wakeup there or on its way.
PendingIsSignalled ==
  rpc \notin {"handle", "swap"} /\ (\E t \in Elements(m_pending_tasks) : t \notin early)
    => WakeupOnItsWay

\* The inductive invariant behind NoLostWakeup and ImplementsTaskQueue: the
\* loop() and do_queueing_tasks steps keep these facts together.
ReactorInv ==
  /\ TypeOK
  /\ RunToCompletion
  /\ PendingIsSignalled
  /\ rpc = "poll" /\ m_going_to_quit => WakeupOnItsWay

\* FIFO, exactly once, one at a time: the reactor implements TaskQueue, whose
\* queue is the swapped tasks followed by the pending ones.
TQ == INSTANCE TaskQueue WITH queue <- tasks \o m_pending_tasks
ImplementsTaskQueue == TQ!TQSpec

\* A task that was queued starts although poll may never time out, unless the
\* loop returns first.
QueuedTaskStarts ==
  \A t \in Tasks :
    t \in Elements(m_pending_tasks) \ early
      ~> t \in Elements(stack) \/ rpc = "returned"

\* Tasks that keep queueing tasks do not keep the loop from its channels: an
\* event is handled in the end, because do_queueing_tasks runs one batch.
EventIsHandled ==
  \A ch \in Channels :
    ch \in ready ~> ch \notin ready \/ rpc = "returned"

\* mark_quit called while the loop runs ends it.
QuitWhileLooping ==
  (m_going_to_quit /\ rpc # "created") ~> rpc = "returned"

\* What is asked of a running loop happens, without the help of poll's timeout:
\* queued tasks start, events are handled, and mark_quit ends it.
RequestsAreServed == QueuedTaskStarts /\ EventIsHandled /\ QuitWhileLooping
=============================================================================
