---------------------------- MODULE TimerQueue ----------------------------
(***************************************************************************)
(* The timers of one Reactor (net/TimerQueue.cc, Timer.h, TimerId.h): the  *)
(* two ordered sets, the timerfd, the callbacks of expired timers and what *)
(* they may do, and add_timer and remove called from any thread.           *)
(*                                                                         *)
(* Time is relative.  due[x] counts the clock ticks until timer x expires  *)
(* (0: expired) and timerfd the ticks until the timerfd becomes readable   *)
(* (0: readable), so there is no horizon.  Timers that expire in the same  *)
(* batch are called in any order.  One tick stands for the 100 us that     *)
(* how_long_from_now waits at least.                                       *)
(*                                                                         *)
(* The reactor is used through what module TaskQueue says of it: tasks run *)
(* in order on one thread, never during another callback.                  *)
(***************************************************************************)
EXTENDS Naturals, Sequences, FiniteSets, FiniteSetsExt

CONSTANTS Callers,     \* threads other than the reactor's
          Slots,       \* addresses of Timer objects
          MaxTimers,   \* bound: Timer objects ever created
          MaxDelay,    \* largest delay or interval, in ticks
          MaxTasks,    \* bound: tasks waiting in the reactor's queue
          MaxJumps     \* bound: adjustments of the wall clock

ASSUME TimerAssumption ==
  /\ MaxTimers \in Nat /\ MaxDelay \in Nat \ {0}
  /\ MaxTasks \in Nat /\ MaxJumps \in Nat

Off == MaxDelay + 1                  \* timerfd disarmed
None == 0                            \* no Timer: sequence numbers start at 1
Ids == Slots \X (1..MaxTimers)       \* values of TimerId

VARIABLES
  seq,                  \* seq[x]: m_global_timer_id of the Timer at x, or None
  interval,             \* interval[x]: 0 for a one-shot timer
  due,                  \* due[x]: ticks until it expires
  g_global_timer_id,
  m_timers_set,         \* addresses in the set ordered by expiration
  m_active_timers_set,  \* TimerIds in the set ordered by address
  m_canceling_timers,
  expired,              \* the batch handle_timerfd_read works on
  to_call,              \* timers of the batch whose alarm() is still to come
  calling,              \* m_is_calling_expired_timers
  elapsed,              \* ticks since the batch was retrieved
  timerfd,
  tasks,                \* the reactor's queue
  caller,               \* a thread inside add_timer: the Timer it created
  ids,                  \* TimerIds that add_timer has returned
  jumps,                \* clock adjustments so far
  removed, alarmed, stopped   \* history: ids given to remove(), ids whose
                              \* alarm() ran, ids remove() found

timers == <<seq, interval, due, g_global_timer_id>>
sets == <<m_timers_set, m_active_timers_set>>
batch == <<m_canceling_timers, expired, to_call, calling, elapsed>>
history == <<removed, alarmed, stopped>>
vars == <<timers, sets, batch, timerfd, tasks, caller, ids, jumps, history>>

Init ==
  /\ seq = [x \in Slots |-> None]
  /\ interval = [x \in Slots |-> 0]
  /\ due = [x \in Slots |-> 0]
  /\ g_global_timer_id = 0
  /\ m_timers_set = {} /\ m_active_timers_set = {}
  /\ m_canceling_timers = {} /\ expired = {} /\ to_call = {}
  /\ calling = FALSE /\ elapsed = 0
  /\ timerfd = Off
  /\ tasks = <<>>
  /\ caller = [c \in Callers |-> <<>>]
  /\ ids = {}
  /\ jumps = 0
  /\ removed = {} /\ alarmed = {} /\ stopped = {}

TimerIdOf(x) == <<x, seq[x]>>

\* User code runs on the reactor's thread: the callback of some channel or
\* task, or, during a batch, the alarm() of one of its timers.
InUserCode == calling => to_call # expired

(***************************************************************************)
(* The parts of the class that run on the reactor's thread                 *)
(***************************************************************************)

\* how_long_from_now: at least one tick.
how_long_from_now(d) == Max({d, 1})

IdBeforeIncrement == g_global_timer_id

\* The sequence number of a new Timer, g_global_timer_id.increment_and_get().
NextId == g_global_timer_id + 1

\* Timer::Timer; the address comes from the allocator.
NewTimer(x, d, i) ==
  /\ seq[x] = None
  /\ g_global_timer_id < MaxTimers
  /\ g_global_timer_id' = g_global_timer_id + 1
  /\ seq' = [seq EXCEPT ![x] = NextId]
  /\ due' = [due EXCEPT ![x] = d]
  /\ interval' = [interval EXCEPT ![x] = i]

\* delete: the address is free again.
Delete(X) ==
  /\ seq' = [x \in Slots |-> IF x \in X THEN None ELSE seq[x]]
  /\ interval' = [x \in Slots |-> IF x \in X THEN 0 ELSE interval[x]]

OnlyWhenEmpty(d) == m_timers_set = {}

\* The result of insert: the earliest expiration changed.
EarliestChanged(d) == \A y \in m_timers_set : d < due[y]

\* add_timer_in_reactor of the timer id, due in d ticks: insert into both
\* sets and move the timerfd if it is now the earliest.
add_timer_in_reactor(id, d) ==
  /\ m_timers_set' = m_timers_set \cup {id[1]}
  /\ m_active_timers_set' = m_active_timers_set \cup {id}
  /\ timerfd' = IF EarliestChanged(d) THEN how_long_from_now(d) ELSE timerfd

EraseFromActiveOnly(id) ==
  /\ id \in m_active_timers_set
  /\ m_active_timers_set' = m_active_timers_set \ {id}
  /\ Delete({id[1]})
  /\ due' = [due EXCEPT ![id[1]] = 0]
  /\ UNCHANGED <<m_canceling_timers, m_timers_set>>

CancelByAddress(id) ==
  /\ \E x \in m_timers_set : x = id[1]
  /\ m_timers_set' = m_timers_set \ {id[1]}
  /\ m_active_timers_set' = {a \in m_active_timers_set : a[1] # id[1]}
  /\ Delete({id[1]})
  /\ due' = [due EXCEPT ![id[1]] = 0]
  /\ UNCHANGED m_canceling_timers

\* cancel_in_reactor of a timer it finds: erased from both sets and deleted.
CancelActive(id) ==
  /\ id \in m_active_timers_set
  /\ m_timers_set' = m_timers_set \ {id[1]}
  /\ m_active_timers_set' = m_active_timers_set \ {id}
  /\ Delete({id[1]})
  /\ due' = [due EXCEPT ![id[1]] = 0]
  /\ UNCHANGED m_canceling_timers

ForgetInactive(id) ==
  /\ id \notin m_active_timers_set
  /\ UNCHANGED <<m_canceling_timers, sets, seq, interval, due>>

\* cancel_in_reactor of a timer it does not find: remembered if a batch is
\* being called, otherwise ignored.
CancelInactive(id) ==
  /\ id \notin m_active_timers_set
  /\ m_canceling_timers' = IF calling THEN m_canceling_timers \cup {id}
                                      ELSE m_canceling_timers
  /\ UNCHANGED <<sets, seq, interval, due>>

cancel_in_reactor(id) ==
  /\ CancelActive(id) \/ CancelInactive(id)
  /\ removed' = removed \cup {id}
  /\ stopped' = IF id \in m_active_timers_set \cup {TimerIdOf(x) : x \in expired}
                  THEN stopped \cup {id} ELSE stopped
  /\ UNCHANGED alarmed

\* One task of the queue, run by do_queueing_tasks between callbacks.
RunTask ==
  /\ ~calling
  /\ tasks # <<>>
  /\ tasks' = Tail(tasks)
  /\ LET id == Head(tasks).id
     IN \/ /\ Head(tasks).op = "add"
           /\ add_timer_in_reactor(id, due[id[1]])
           /\ UNCHANGED <<timers, batch, history>>
        \/ /\ Head(tasks).op = "cancel"
           /\ cancel_in_reactor(id)
           /\ UNCHANGED <<g_global_timer_id, expired, to_call, calling,
                          elapsed, timerfd>>
  /\ UNCHANGED <<caller, ids, jumps>>

(***************************************************************************)
(* add_timer and remove                                                    *)
(***************************************************************************)

\* On the reactor's thread the whole of add_timer runs at once.
SelfAddsTimer(x, d, i) ==
  /\ InUserCode
  /\ NewTimer(x, d, i)
  /\ add_timer_in_reactor(<<x, NextId>>, d)
  /\ ids' = ids \cup {<<x, NextId>>}
  /\ UNCHANGED <<batch, tasks, caller, jumps, history>>

SelfRemoves(id) ==
  /\ InUserCode
  /\ cancel_in_reactor(id)
  /\ UNCHANGED <<g_global_timer_id, expired, to_call, calling, elapsed, timerfd,
                 tasks, caller, ids, jumps>>

\* On another thread add_timer creates the Timer and queues the insertion ...
CallerAddsTimer(c, x, d, i) ==
  /\ caller[c] = <<>>
  /\ Len(tasks) < MaxTasks
  /\ NewTimer(x, d, i)
  /\ LET id == <<x, NextId>>
     IN /\ tasks' = Append(tasks, [op |-> "add", id |-> id])
        /\ caller' = [caller EXCEPT ![c] = id]
  /\ UNCHANGED <<sets, batch, timerfd, ids, jumps, history>>

\* ... and then reads global_id() through the pointer it handed over.  If
\* the Timer is gone the value read is undefined.
CallerReadsId(c) ==
  /\ caller[c] # <<>>
  /\ LET x == caller[c][1]
     IN \E s \in 1..MaxTimers :
          /\ seq[x] = caller[c][2] => s = seq[x]
          /\ ids' = ids \cup {<<x, s>>}
  /\ caller' = [caller EXCEPT ![c] = <<>>]
  /\ UNCHANGED <<timers, sets, batch, timerfd, tasks, jumps, history>>

CallerRemoves(c, id) ==
  /\ caller[c] = <<>>
  /\ Len(tasks) < MaxTasks
  /\ tasks' = Append(tasks, [op |-> "cancel", id |-> id])
  /\ UNCHANGED <<timers, sets, batch, timerfd, caller, ids, jumps, history>>

(***************************************************************************)
(* handle_timerfd_read                                                     *)
(***************************************************************************)

\* The timerfd is read, which leaves it disarmed, and the expired timers are
\* moved out of both sets (retrieve_expired_timers).
TimerfdReadable ==
  /\ ~calling
  /\ timerfd = 0
  /\ timerfd' = Off
  /\ LET e == {x \in m_timers_set : due[x] = 0}
     IN /\ expired' = e
        /\ to_call' = e
        /\ m_timers_set' = m_timers_set \ e
        /\ m_active_timers_set' = m_active_timers_set \ {TimerIdOf(x) : x \in e}
  /\ calling' = TRUE
  /\ m_canceling_timers' = {}
  /\ elapsed' = 0
  /\ UNCHANGED <<timers, tasks, caller, ids, jumps, history>>

\* The next callback of the batch starts.
Alarm(x) ==
  /\ calling
  /\ x \in to_call
  /\ to_call' = to_call \ {x}
  /\ alarmed' = alarmed \cup {TimerIdOf(x)}
  /\ UNCHANGED <<timers, sets, m_canceling_timers, expired, calling, elapsed,
                 timerfd, tasks, caller, ids, jumps, removed, stopped>>

\* The timers of the batch that reset() puts back.
Restarted == {x \in expired : interval[x] > 0 /\ TimerIdOf(x) \notin m_canceling_timers}

\* Timer::restart(now), with now the time the batch was retrieved.
restart(x) == IF interval[x] > elapsed THEN interval[x] - elapsed ELSE 0

ResetArmsOnlyRestarted ==
  /\ calling
  /\ to_call = {}
  /\ calling' = FALSE
  /\ expired' = {}
  /\ elapsed' = 0
  /\ Delete(expired \ Restarted)
  /\ due' = [x \in Slots |-> IF x \in Restarted THEN restart(x) ELSE due[x]]
  /\ m_timers_set' = m_timers_set \cup Restarted
  /\ m_active_timers_set' = m_active_timers_set \cup {TimerIdOf(x) : x \in Restarted}
  /\ timerfd' = IF Restarted = {} THEN timerfd
                ELSE how_long_from_now(Min({due'[x] : x \in Restarted}))
  /\ UNCHANGED <<g_global_timer_id, m_canceling_timers, to_call, tasks, caller,
                 ids, jumps, history>>

\* reset: repeating timers restart unless cancelled, the others are deleted, and the timerfd is set for the earliest timer.
Reset ==
  /\ calling
  /\ to_call = {}
  /\ calling' = FALSE
  /\ expired' = {}
  /\ elapsed' = 0
  /\ Delete(expired \ Restarted)
  /\ due' = [x \in Slots |-> IF x \in Restarted THEN restart(x) ELSE due[x]]
  /\ m_timers_set' = m_timers_set \cup Restarted
  /\ m_active_timers_set' = m_active_timers_set \cup {TimerIdOf(x) : x \in Restarted}
  /\ timerfd' = IF m_timers_set' = {} THEN timerfd
                ELSE how_long_from_now(Min({due'[x] : x \in m_timers_set'}))
  /\ UNCHANGED <<g_global_timer_id, m_canceling_timers, to_call, tasks, caller,
                 ids, jumps, history>>

(***************************************************************************)
(* Clocks                                                                  *)
(***************************************************************************)

Less(n) == IF n > 0 THEN n - 1 ELSE 0
Counting == {x \in Slots : seq[x] # None /\ x \notin expired}

\* Time passes on both clocks.
Tick ==
  /\ due' = [x \in Slots |-> IF x \in Counting THEN Less(due[x]) ELSE due[x]]
  /\ timerfd' = IF timerfd = Off THEN Off ELSE Less(timerfd)
  /\ elapsed' = IF calling /\ elapsed < MaxDelay THEN elapsed + 1 ELSE elapsed
  /\ UNCHANGED <<seq, interval, g_global_timer_id, sets, m_canceling_timers,
                 expired, to_call, calling, tasks, caller, ids, jumps, history>>

\* The wall clock, which Timestamp::now() reads, is set one tick ahead or
\* back; the timerfd runs on the monotonic clock.
ClockIsSet(forward) ==
  /\ jumps < MaxJumps
  /\ jumps' = jumps + 1
  /\ elapsed' = IF ~calling THEN elapsed
                ELSE IF forward THEN Min({elapsed + 1, MaxDelay}) ELSE Less(elapsed)
  /\ due' = [x \in Slots |->
               IF x \notin Counting THEN due[x]
               ELSE IF forward THEN Less(due[x])
               ELSE IF due[x] < MaxDelay THEN due[x] + 1 ELSE due[x]]
  /\ UNCHANGED <<seq, interval, g_global_timer_id, sets, m_canceling_timers,
                 expired, to_call, calling, timerfd, tasks, caller, ids, history>>

HandlerStep == TimerfdReadable \/ (\E x \in Slots : Alarm(x)) \/ Reset

UserStep ==
  \/ \E x \in Slots, d \in 0..MaxDelay : \E i \in {0, d} : SelfAddsTimer(x, d, i)
  \/ \E id \in ids : SelfRemoves(id)

CallerStep(c) ==
  \/ \E x \in Slots, d \in 0..MaxDelay : \E i \in {0, d} : CallerAddsTimer(c, x, d, i)
  \/ CallerReadsId(c)
  \/ \E id \in ids : CallerRemoves(c, id)

Next ==
  \/ HandlerStep
  \/ RunTask
  \/ UserStep
  \/ \E c \in Callers : CallerStep(c)
  \/ Tick
  \/ \E forward \in BOOLEAN : ClockIsSet(forward)

Spec == Init /\ [][Next]_vars

\* Time passes and the reactor's thread handles its timerfd; every iteration
\* of its loop also runs the queued tasks (Reactor!QueuedTaskStarts), so tasks
\* are not starved by timers.
Fairness ==
  /\ WF_vars(HandlerStep)
  /\ SF_vars(RunTask)
  /\ WF_vars(Tick)

FairSpec == Spec /\ Fairness

(***************************************************************************)
(* Properties                                                              *)
(***************************************************************************)

Task == [op : {"add", "cancel"}, id : Ids]

\* Types of the variables.
TypeOK ==
  /\ seq \in [Slots -> 0..MaxTimers]
  /\ interval \in [Slots -> 0..MaxDelay]
  /\ due \in [Slots -> 0..MaxDelay]
  /\ g_global_timer_id \in 0..MaxTimers
  /\ m_timers_set \subseteq Slots
  /\ m_active_timers_set \subseteq Ids
  /\ m_canceling_timers \subseteq Ids
  /\ expired \subseteq Slots /\ to_call \subseteq expired
  /\ calling \in BOOLEAN
  /\ elapsed \in 0..MaxDelay
  /\ timerfd \in 0..Off
  /\ tasks \in Seq(Task) /\ Len(tasks) <= MaxTasks
  /\ caller \in [Callers -> Ids \cup {<<>>}]
  /\ ids \subseteq Ids
  /\ jumps \in 0..MaxJumps
  /\ removed \subseteq Ids /\ alarmed \subseteq Ids /\ stopped \subseteq Ids

Live == {x \in Slots : seq[x] # None}
QueuedToAdd == {x \in Slots :
                  \E k \in DOMAIN tasks : tasks[k] = [op |-> "add", id |-> TimerIdOf(x)]}

\* Every Timer object has exactly one owner until it is deleted: the queued
\* insertion, the two sets (which agree, as the assertions of TimerQueue.cc
\* say), or the batch being called.  So none leaks, none is deleted twice,
\* and alarm() and reset() never touch a deleted one.
TimersOwnedOnce ==
  /\ Live = QueuedToAdd \cup m_timers_set \cup expired
  /\ QueuedToAdd \cap (m_timers_set \cup expired) = {}
  /\ m_timers_set \cap expired = {}
  /\ m_active_timers_set = {TimerIdOf(x) : x \in m_timers_set}

\* What the owners rely on: a queued insertion is the only one for its Timer,
\* which is alive; sequence numbers come from the counter; outside a batch the
\* vector of expired timers is gone.
OwnersAreSound ==
  /\ ~calling => expired = {}
  /\ \A x \in Slots : seq[x] <= g_global_timer_id
  /\ \A k \in DOMAIN tasks :
       tasks[k].op = "add" =>
         /\ seq[tasks[k].id[1]] = tasks[k].id[2]
         /\ \A j \in DOMAIN tasks : tasks[j].op = "add" /\ tasks[j].id[1] = tasks[k].id[1] => j = k

\* What cancelling relies on: in a batch, the timers no longer to be called were
\* called; a timer that remove() found is gone, or in the batch and remembered
\* in m_canceling_timers; and its number is never given out again.
CancelsAreKept ==
  /\ \A x \in expired \ to_call : TimerIdOf(x) \in alarmed
  /\ \A id \in stopped :
       /\ id[2] <= g_global_timer_id
       /\ seq[id[1]] # id[2] \/ (id[1] \in expired /\ id \in m_canceling_timers)

\* No timer is forgotten: between batches, while some timer waits, the timerfd
\* is armed; and unless the wall clock was set, it is armed for no later than
\* the earliest timer (add_timer_in_reactor, cancel_in_reactor, reset).
EarliestIsArmed ==
  ~calling =>
    \A x \in m_timers_set :
      /\ timerfd # Off
      /\ jumps = 0 => timerfd <= how_long_from_now(due[x])

\* A remove() that found its timer, active or in the batch being called, is
\* final: the timer is not scheduled again once the batch is over, even if it
\* cancels itself in its own callback (m_canceling_timers).
StoppedStaysStopped == ~calling => stopped \cap m_active_timers_set = {}

\* A timer is deleted only after its callback ran or its own TimerId was given
\* to remove(): the TimerId of a deleted timer never cancels the timer that
\* now lives at the same address (cancel_in_reactor, reset).
DeletedForAReason ==
  [][\A x \in Slots :
       seq[x] # None /\ seq'[x] = None => TimerIdOf(x) \in removed' \cup alarmed']_vars

\* A scheduled timer leaves the sets in the end, because it expires or is
\* removed, however timers are added, repeated and removed meanwhile.
TimerExpires ==
  \A id \in Ids : id \in m_active_timers_set ~> id \notin m_active_timers_set

\* The memory of timers: types, one owner for each Timer until it is deleted,
\* and the bookkeeping of the queue, the batch and the cancellations that keeps
\* it so (insert, retrieve_expired_timers, reset, cancel_in_reactor).
TimerInv == TypeOK /\ TimersOwnedOnce /\ OwnersAreSound /\ CancelsAreKept

\* remove() stops the timer it was given, for good, and no other one
\* (cancel_in_reactor, m_canceling_timers, the sequence number in TimerId).
CancelIsExact == []StoppedStaysStopped /\ DeletedForAReason
=============================================================================
