--------------------------- MODULE ReactorProofs ---------------------------
(* Proofs about Reactor for any sets of threads, tasks and channels. *)
EXTENDS Reactor, SequenceTheorems, TLAPS

\* Appending a task adds exactly that task to the elements of the queue.
LEMMA ElementsAppend ==
  ASSUME NEW S, NEW q \in Seq(S), NEW x \in S
  PROVE  Elements(Append(q, x)) = Elements(q) \cup {x}
<1>1. DOMAIN q = 1..Len(q) /\ DOMAIN Append(q, x) = 1..(Len(q) + 1)
  OBVIOUS
<1>2. \A i \in 1..Len(q) : Append(q, x)[i] = q[i]
  OBVIOUS
<1>3. Append(q, x)[Len(q) + 1] = x
  OBVIOUS
<1>4. 1..(Len(q) + 1) = 1..Len(q) \cup {Len(q) + 1}
  OBVIOUS
<1> QED
  BY <1>1, <1>2, <1>3, <1>4 DEF Elements

\* The empty queue has no elements.
LEMMA ElementsEmpty == Elements(<<>>) = {}
BY DEF Elements

\* A write to the eventfd leaves it readable and within its limit.
LEMMA WakeupMakesReadable ==
  ASSUME eventfd \in 0..MaxEventfd, wakeup_from_waiting_pool
  PROVE  eventfd' \in 0..MaxEventfd /\ eventfd' > 0
BY ReactorAssumption DEF wakeup_from_waiting_pool

\* Removing the innermost call leaves a stack of calls.
LEMMA StackPop ==
  ASSUME NEW S, NEW s \in Seq(S), s # <<>>
  PROVE  SubSeq(s, 1, Len(s) - 1) \in Seq(S)
OBVIOUS

\* Who will write the eventfd changes only for the thread that takes a step.
LEMMA CallerBecomes ==
  ASSUME cpc \in [Callers -> {"idle", "wake"}], NEW c \in Callers,
         NEW v \in {"idle", "wake"}, cpc' = [cpc EXCEPT ![c] = v]
  PROVE  /\ cpc' \in [Callers -> {"idle", "wake"}]
         /\ cpc'[c] = v
         /\ \A d \in Callers \ {c} : cpc'[d] = cpc[d]
OBVIOUS

-----------------------------------------------------------------------------

\* The invariant holds initially.
LEMMA InitInv == Init => ReactorInv
<1> SUFFICES ASSUME Init PROVE ReactorInv
  OBVIOUS
<1>1. TypeOK
  <2>1. <<>> \in Seq(Tasks) /\ <<>> \in Seq(Tasks \cup Channels)
    OBVIOUS
  <2>2. 0 \in 0..MaxEventfd
    BY ReactorAssumption
  <2>3. cpc \in [Callers -> {"idle", "wake"}]
    BY DEF Init
  <2> QED
    BY <2>1, <2>2, <2>3, Zenon DEF Init, TypeOK, LoopPoints
<1>2. PendingIsSignalled
  BY ElementsEmpty DEF Init, PendingIsSignalled
<1> QED
  BY <1>1, <1>2 DEF Init, ReactorInv, RunToCompletion

\* A step of another thread keeps the invariant.
LEMMA CallerStepInv ==
  ASSUME ReactorInv, NEW c \in Callers, CallerStep(c)
  PROVE  ReactorInv'
<1> USE DEF ReactorInv
<1>1. ASSUME NEW t \in Tasks, CallerQueues(c, t)
      PROVE  ReactorInv'
  <2>1. WakeupOnItsWay'
    BY <1>1, CallerBecomes DEF CallerQueues, WakeupOnItsWay, TypeOK
  <2>2. TypeOK'
    BY <1>1, CallerBecomes DEF CallerQueues, loopvars, TypeOK
  <2> QED
    BY <1>1, <2>1, <2>2
       DEF CallerQueues, loopvars, RunToCompletion, PendingIsSignalled
<1>2. ASSUME CallerMarksQuit(c)
      PROVE  ReactorInv'
  <2>1. WakeupOnItsWay'
    BY <1>2, CallerBecomes DEF CallerMarksQuit, WakeupOnItsWay, TypeOK
  <2>2. TypeOK'
    BY <1>2, CallerBecomes DEF CallerMarksQuit, loopvars, TypeOK
  <2> QED
    BY <1>2, <2>1, <2>2
       DEF CallerMarksQuit, loopvars, RunToCompletion, PendingIsSignalled
<1>3. ASSUME CallerWakes(c)
      PROVE  ReactorInv'
  <2>1. eventfd' \in 0..MaxEventfd /\ eventfd' > 0
    BY <1>3, WakeupMakesReadable DEF CallerWakes, TypeOK
  <2>2. TypeOK'
    BY <1>3, <2>1, CallerBecomes DEF CallerWakes, loopvars, TypeOK
  <2> QED
    BY <1>3, <2>1, <2>2
       DEF CallerWakes, loopvars, RunToCompletion, PendingIsSignalled, WakeupOnItsWay
<1> QED
  BY <1>1, <1>2, <1>3 DEF CallerStep

\* A step of user code on the reactor's own thread keeps the invariant.
LEMMA SelfStepInv ==
  ASSUME ReactorInv, SelfStep
  PROVE  ReactorInv'
<1> USE DEF ReactorInv
<1>1. ASSUME NEW t \in Tasks, SelfQueues(t)
      PROVE  ReactorInv'
  <2>1. rpc' = rpc /\ rpc \in {"created", "handle", "run"}
    BY <1>1 DEF SelfQueues, InUserCode, loopvars, RunToCompletion, TypeOK, LoopPoints
  <2>2. Elements(m_pending_tasks') = Elements(m_pending_tasks) \cup {t}
    BY <1>1, ElementsAppend DEF SelfQueues, TypeOK
  <2>3. eventfd' \in 0..MaxEventfd /\ (rpc = "run" => eventfd' > 0)
                                   /\ (rpc # "run" => eventfd' = eventfd)
    BY <1>1, <2>1, WakeupMakesReadable
       DEF SelfQueues, m_is_calling_pending_tasks, TypeOK
  <2>4. TypeOK'
    BY <1>1, <2>3 DEF SelfQueues, loopvars, TypeOK
  <2>5. PendingIsSignalled'
    <3>1. CASE rpc = "run"
      BY <2>3, <3>1 DEF PendingIsSignalled, WakeupOnItsWay
    <3>2. CASE rpc = "handle"
      BY <2>1, <3>2 DEF PendingIsSignalled
    <3>3. CASE rpc = "created"
      BY <1>1, <2>1, <2>2, <2>3, <3>3
         DEF SelfQueues, PendingIsSignalled, WakeupOnItsWay
    <3> QED
      BY <2>1, <3>1, <3>2, <3>3
  <2> QED
    BY <1>1, <2>1, <2>4, <2>5 DEF SelfQueues, loopvars, RunToCompletion
<1>2. ASSUME NEW t \in Tasks, SelfRunsAsap(t)
      PROVE  ReactorInv'
  <2>1. TypeOK'
    BY <1>2 DEF SelfRunsAsap, TypeOK
  <2> QED
    BY <1>2, <2>1
       DEF SelfRunsAsap, InUserCode, TypeOK, LoopPoints, RunToCompletion,
           PendingIsSignalled, WakeupOnItsWay
<1>3. ASSUME SelfMarksQuit
      PROVE  ReactorInv'
  BY <1>3
     DEF SelfMarksQuit, InUserCode, loopvars, TypeOK, RunToCompletion,
         PendingIsSignalled, WakeupOnItsWay
<1> QED
  BY <1>1, <1>2, <1>3 DEF SelfStep

\* A step of loop(), and a poll timeout, keep the invariant.
LEMMA LoopStepInv ==
  ASSUME ReactorInv, LoopStep \/ PollTimesOut
  PROVE  ReactorInv'
<1> USE DEF ReactorInv
<1>1. CASE LoopEntered
  BY <1>1, Zenon DEF LoopEntered, TypeOK, LoopPoints, RunToCompletion,
              PendingIsSignalled, WakeupOnItsWay
<1>2. CASE LoopTests
  BY <1>2 DEF LoopTests, TypeOK, LoopPoints, RunToCompletion,
              PendingIsSignalled, WakeupOnItsWay
<1>3. CASE PollReturns \/ PollTimesOut
  <2>1. TypeOK'
    BY <1>3 DEF PollReturns, PollTimesOut, ReadyChannels, TypeOK, LoopPoints
  <2> QED
    BY <1>3, <2>1 DEF PollReturns, PollTimesOut, RunToCompletion, PendingIsSignalled
<1>4. CASE handle_wakeup
  <2>1. TypeOK'
    BY <1>4, ReactorAssumption DEF handle_wakeup, TypeOK
  <2> QED
    BY <1>4, <2>1 DEF handle_wakeup, RunToCompletion, PendingIsSignalled
<1>5. ASSUME NEW ch \in Channels, HandleEvent(ch)
      PROVE  ReactorInv'
  <2>1. TypeOK'
    BY <1>5 DEF HandleEvent, TypeOK
  <2> QED
    BY <1>5, <2>1 DEF HandleEvent, RunToCompletion, PendingIsSignalled
<1>6. CASE EventsHandled
  BY <1>6 DEF EventsHandled, TypeOK, LoopPoints, RunToCompletion, PendingIsSignalled
<1>7. CASE SwapTasks
  <2>1. TypeOK'
    BY <1>7 DEF SwapTasks, TypeOK, LoopPoints
  <2>2. PendingIsSignalled'
    BY <1>7, ElementsEmpty DEF SwapTasks, PendingIsSignalled
  <2> QED
    BY <1>7, <2>1, <2>2 DEF SwapTasks, RunToCompletion
<1>8. CASE RunTask
  <2>1. TypeOK'
    BY <1>8 DEF RunTask, TypeOK
  <2> QED
    BY <1>8, <2>1 DEF RunTask, RunToCompletion, PendingIsSignalled, WakeupOnItsWay
<1>9. CASE TasksDone
  BY <1>9 DEF TasksDone, TypeOK, LoopPoints, RunToCompletion,
              PendingIsSignalled, WakeupOnItsWay
<1>10. CASE CallReturns
  <2>1. stack' \in Seq(Tasks \cup Channels)
    BY <1>10, StackPop DEF CallReturns, TypeOK
  <2>2. TypeOK'
    BY <1>10, <2>1 DEF CallReturns, TypeOK
  <2> QED
    BY <1>10, <2>2 DEF CallReturns, RunToCompletion, PendingIsSignalled, WakeupOnItsWay
<1> QED
  BY <1>1, <1>2, <1>3, <1>4, <1>5, <1>6, <1>7, <1>8, <1>9, <1>10 DEF LoopStep

\* Every step keeps the invariant.
LEMMA NextInv == ReactorInv /\ [Next]_vars => ReactorInv'
<1> SUFFICES ASSUME ReactorInv, [Next]_vars
             PROVE  ReactorInv'
  OBVIOUS
<1>1. ASSUME NEW ch \in Channels, EventArrives(ch)
      PROVE  ReactorInv'
  BY <1>1 DEF EventArrives, loopvars, ReactorInv, TypeOK, RunToCompletion,
              PendingIsSignalled, WakeupOnItsWay
<1>2. CASE UNCHANGED vars
  BY <1>2 DEF vars, ReactorInv, TypeOK, RunToCompletion, PendingIsSignalled,
              WakeupOnItsWay
<1> QED
  BY <1>1, <1>2, LoopStepInv, SelfStepInv, CallerStepInv DEF Next

\* The inductive invariant of Reactor holds for any number of threads, tasks
\* and channels, and any limit of the eventfd.
THEOREM ReactorInvariance == Spec => []ReactorInv
BY InitInv, NextInv, PTL DEF Spec

\* Types are kept by every operation of Reactor.
THEOREM TypeCorrectness == Spec => []TypeOK
<1>1. ReactorInv => TypeOK
  BY DEF ReactorInv
<1> QED
  BY <1>1, ReactorInvariance, PTL

\* No wakeup is lost: loop() never sleeps in poll on a queued task or on a
\* quit request for which no wakeup is there or on its way.
THEOREM WakeupsAreNotLost == Spec => []NoLostWakeup
<1>1. ReactorInv => NoLostWakeup
  BY DEF ReactorInv, PendingIsSignalled, NoLostWakeup, MustNotSleep
<1> QED
  BY <1>1, ReactorInvariance, PTL

-----------------------------------------------------------------------------

\* Facts about concatenation that the refinement needs.
LEMMA ConcatFacts ==
  ASSUME NEW S, NEW p \in Seq(S), NEW q \in Seq(S), NEW x \in S
  PROVE  /\ <<>> \o q = q
         /\ q \o <<>> = q
         /\ p \o Append(q, x) = Append(p \o q, x)
         /\ p # <<>> => /\ p \o q # <<>>
                        /\ Head(p \o q) = Head(p)
                        /\ Tail(p \o q) = Tail(p) \o q
OBVIOUS

\* Every step of Reactor is a step of TaskQueue or leaves it unchanged.
LEMMA StepRefinement ==
  ReactorInv /\ [Next]_vars => [TQ!TQNext]_(TQ!tqvars)
<1> SUFFICES ASSUME ReactorInv, [Next]_vars
             PROVE  [TQ!TQNext]_(TQ!tqvars)
  OBVIOUS
<1> USE DEF TQ!TQNext, TQ!tqvars
<1>t. tasks \in Seq(Tasks) /\ m_pending_tasks \in Seq(Tasks)
  BY DEF ReactorInv, TypeOK
<1>1. ASSUME NEW c \in Callers, NEW t \in Tasks, CallerQueues(c, t)
      PROVE  TQ!Submit(t)
  BY <1>t, <1>1, ConcatFacts DEF CallerQueues, loopvars, TQ!Submit
<1>2. ASSUME NEW t \in Tasks, SelfQueues(t)
      PROVE  TQ!Submit(t)
  BY <1>t, <1>2, ConcatFacts DEF SelfQueues, loopvars, TQ!Submit
<1>3. ASSUME NEW t \in Tasks, SelfRunsAsap(t)
      PROVE  TQ!RunNested(t)
  BY <1>3 DEF SelfRunsAsap, TQ!RunNested
<1>4. CASE CallReturns
  BY <1>4 DEF CallReturns, TQ!Finish
<1>5. ASSUME NEW ch \in Channels, HandleEvent(ch)
      PROVE  TQ!StartEvent(ch)
  BY <1>5 DEF HandleEvent, TQ!StartEvent
<1>6. CASE RunTask
  <2>1. Head(tasks) \in Tasks
    BY <1>t, <1>6 DEF RunTask
  <2>2. TQ!StartOldest
    BY <1>t, <1>6, <2>1, ConcatFacts DEF RunTask, TQ!StartOldest
  <2> QED
    BY <2>2
<1>7. CASE SwapTasks
  <2>1. tasks = <<>>
    BY <1>7 DEF SwapTasks, ReactorInv, RunToCompletion
  <2>2. m_pending_tasks \o <<>> = m_pending_tasks /\ <<>> \o m_pending_tasks = m_pending_tasks
    BY <1>t
  <2> QED
    BY <1>7, <2>1, <2>2 DEF SwapTasks
<1>8. ASSUME NEW c \in Callers, CallerMarksQuit(c) \/ CallerWakes(c)
      PROVE  UNCHANGED TQ!tqvars
  BY <1>8 DEF CallerMarksQuit, CallerWakes, loopvars
<1>9. CASE \/ LoopEntered \/ LoopTests \/ PollReturns \/ PollTimesOut
           \/ handle_wakeup \/ EventsHandled \/ TasksDone \/ SelfMarksQuit
  BY <1>9 DEF LoopEntered, LoopTests, PollReturns, PollTimesOut, handle_wakeup,
              EventsHandled, TasksDone, SelfMarksQuit, loopvars
<1>10. ASSUME NEW ch \in Channels, EventArrives(ch)
       PROVE  UNCHANGED TQ!tqvars
  BY <1>10 DEF EventArrives, loopvars
<1>11. CASE UNCHANGED vars
  BY <1>11 DEF vars
<1> QED
  BY <1>1, <1>2, <1>3, <1>4, <1>5, <1>6, <1>7, <1>8, <1>9, <1>10, <1>11
     DEF Next, LoopStep, SelfStep, CallerStep

\* A reactor implements its abstract specification: queued tasks start in
\* order, each once, and never while another callback is in progress.
THEOREM Refinement == Spec => ImplementsTaskQueue
<1>1. Init => TQ!TQInit
  <2>1. <<>> \o <<>> = <<>>
    OBVIOUS
  <2> QED
    BY <2>1 DEF Init, TQ!TQInit
<1> QED
  BY <1>1, StepRefinement, ReactorInvariance, PTL
     DEF Spec, ImplementsTaskQueue, TQ!TQSpec
=============================================================================
