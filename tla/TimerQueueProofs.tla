-------------------------- MODULE TimerQueueProofs --------------------------
(***************************************************************************)
(* Proofs about TimerQueue, for any threads, addresses, delays and bounds: *)
(* every Timer has one owner until it is deleted, the timerfd is armed for *)
(* the earliest timer, and remove() cancels exactly the timer it was given.*)
(***************************************************************************)
EXTENDS TimerQueue, WellFoundedInduction, TLAPS

(***************************************************************************)
(* The operators.                                                          *)
(***************************************************************************)

\* how_long_from_now waits for at least one tick.
LEMMA HowLong ==
  ASSUME NEW d \in Nat
  PROVE  how_long_from_now(d) = IF d > 1 THEN d ELSE 1
  BY DEF how_long_from_now, Max

\* A non-empty set of delays has a least one, the one for which reset() arms.
LEMMA MinIsLeast ==
  ASSUME NEW S \in SUBSET Nat, S # {}
  PROVE  Min(S) \in S /\ \A n \in S : Min(S) <= n
<1>1. PICK m \in S : \A n \in S : <<n, m>> \notin OpToRel(<, Nat)
    BY WFMin, NatLessThanWellFounded, Zenon
<1>2. \A n \in S : ~(n < m)
    BY <1>1, Zenon DEF OpToRel
<1>3. \E k \in S : \A n \in S : k <= n
    BY <1>2
<1> QED
    BY <1>3, Zenon DEF Min

\* The types that the steps below need one by one.
LEMMA Types ==
  TypeOK =>
    /\ seq \in [Slots -> 0..MaxTimers] /\ interval \in [Slots -> 0..MaxDelay]
    /\ due \in [Slots -> 0..MaxDelay] /\ g_global_timer_id \in 0..MaxTimers
    /\ elapsed \in 0..MaxDelay /\ timerfd \in 0..Off /\ jumps \in 0..MaxJumps
    /\ m_timers_set \subseteq Slots /\ expired \subseteq Slots /\ to_call \subseteq expired
  BY Zenon DEF TypeOK

\* An address whose Timer is queued for insertion, by the task alone.
AddsFor(x) == \E k \in DOMAIN tasks : tasks[k].op = "add" /\ tasks[k].id[1] = x

\* The queued insertions are of live timers, so the task names its Timer.
LEMMA QueuedByTask == TypeOK /\ OwnersAreSound => QueuedToAdd = {y \in Slots : AddsFor(y)}
<1> SUFFICES ASSUME TypeOK, OwnersAreSound PROVE QueuedToAdd = {y \in Slots : AddsFor(y)}
    OBVIOUS
<1>1. ASSUME NEW x \in Slots, x \in QueuedToAdd PROVE AddsFor(x)
    BY <1>1 DEF QueuedToAdd, AddsFor, TimerIdOf
<1>2. ASSUME NEW x \in Slots, AddsFor(x) PROVE x \in QueuedToAdd
  <2>1. PICK k \in DOMAIN tasks : tasks[k].op = "add" /\ tasks[k].id[1] = x
      BY <1>2 DEF AddsFor
  <2>2. tasks[k] \in Task /\ tasks[k].id \in Ids
    <3>1. tasks \in Seq(Task)
        BY DEF TypeOK
    <3>2. tasks[k] \in Task
        BY <3>1
    <3> QED
        BY <3>2 DEF Task
  <2>3. tasks[k].id = <<x, seq[x]>>
      BY <2>1, <2>2 DEF OwnersAreSound, Ids
  <2>4. tasks[k] = [op |-> "add", id |-> <<x, seq[x]>>]
      BY <2>1, <2>2, <2>3 DEF Task
  <2> QED
      BY <2>4 DEF QueuedToAdd, TimerIdOf
<1> QED
    BY <1>1, <1>2 DEF QueuedToAdd

\* The same in the state after a step.
LEMMA QueuedByTaskAfter ==
  ASSUME TypeOK', OwnersAreSound'
  PROVE  QueuedToAdd' = {y \in Slots : AddsFor(y)'}
<1>1. (QueuedToAdd = {y \in Slots : AddsFor(y)})'
    BY QueuedByTask, PTL
<1> QED
    BY <1>1

(***************************************************************************)
(* Types.                                                                  *)
(***************************************************************************)

\* The constructor's state.
LEMMA InitInv == Init => TimerInv
<1> SUFFICES ASSUME Init PROVE TimerInv
    OBVIOUS
<1>1. TypeOK
  <2>1. tasks \in Seq(Task) /\ Len(tasks) <= MaxTasks
      BY TimerAssumption DEF Init
  <2>2. caller \in [Callers -> Ids \cup {<<>>}]
      BY Zenon DEF Init
  <2>3. /\ seq \in [Slots -> 0..MaxTimers] /\ interval \in [Slots -> 0..MaxDelay]
        /\ due \in [Slots -> 0..MaxDelay] /\ g_global_timer_id \in 0..MaxTimers
        /\ elapsed \in 0..MaxDelay /\ timerfd \in 0..Off /\ jumps \in 0..MaxJumps
      BY TimerAssumption DEF Init, None, Off
  <2> QED
      BY <2>1, <2>2, <2>3, Zenon DEF Init, TypeOK
<1>2. OwnersAreSound /\ CancelsAreKept
    BY TimerAssumption DEF Init, OwnersAreSound, CancelsAreKept, None
<1>3. QueuedToAdd = {} /\ Live = {}
    BY DEF Init, QueuedToAdd, Live, None
<1>4. TimersOwnedOnce
    BY <1>3 DEF Init, TimersOwnedOnce
<1> QED
    BY <1>1, <1>2, <1>4 DEF TimerInv

\* A new Timer has the next number, and its delay and interval.
LEMMA NewTimerFacts ==
  ASSUME TypeOK, OwnersAreSound, NEW x \in Slots, NEW d \in 0..MaxDelay, NEW i \in {0, d}, NewTimer(x, d, i)
  PROVE  /\ seq[x] = 0 /\ NextId \in 1..MaxTimers /\ g_global_timer_id' = NextId
         /\ g_global_timer_id' \in 0..MaxTimers
         /\ seq' \in [Slots -> 0..MaxTimers] /\ seq' = [seq EXCEPT ![x] = NextId]
         /\ interval' \in [Slots -> 0..MaxDelay]
         /\ due' \in [Slots -> 0..MaxDelay] /\ due' = [due EXCEPT ![x] = d]
         /\ <<x, NextId>> \in Ids
         /\ \A y \in Slots : seq[y] < NextId
  BY TimerAssumption, SMTT(30) DEF TypeOK, OwnersAreSound, NewTimer, NextId, None, Ids

\* Deleting timers leaves the others their numbers.
LEMMA DeleteFacts ==
  ASSUME TypeOK, NEW X, Delete(X)
  PROVE  /\ seq' \in [Slots -> 0..MaxTimers] /\ interval' \in [Slots -> 0..MaxDelay]
         /\ \A x \in Slots : seq'[x] = IF x \in X THEN 0 ELSE seq[x]
  BY TimerAssumption DEF TypeOK, Delete, None

\* how_long_from_now fits the timerfd, and is not mistaken for "disarmed".
LEMMA HowLongType ==
  ASSUME NEW d \in 0..MaxDelay
  PROVE  how_long_from_now(d) \in 0..Off /\ how_long_from_now(d) # Off
  BY HowLong, TimerAssumption DEF Off

\* insert: the two sets and the timerfd.
LEMMA AddFacts ==
  ASSUME TypeOK, NEW id \in Ids, NEW d \in 0..MaxDelay, add_timer_in_reactor(id, d)
  PROVE  /\ id[1] \in Slots /\ id[2] \in 1..MaxTimers /\ id = <<id[1], id[2]>>
         /\ m_timers_set' \subseteq Slots /\ m_active_timers_set' \subseteq Ids
         /\ timerfd' \in 0..Off
  BY HowLongType DEF TypeOK, add_timer_in_reactor, Ids

(***************************************************************************)
(* remove().                                                               *)
(***************************************************************************)

\* The first task leaves the queue.
LEMMA TailFacts ==
  ASSUME TypeOK, tasks # <<>>, tasks' = Tail(tasks)
  PROVE  /\ tasks' \in Seq(Task) /\ Len(tasks') <= MaxTasks
         /\ Head(tasks) = tasks[1] /\ Head(tasks) \in Task /\ 1 \in DOMAIN tasks
         /\ \A k \in DOMAIN tasks' : k + 1 \in DOMAIN tasks /\ tasks'[k] = tasks[k + 1]
         /\ \A k \in DOMAIN tasks : k # 1 => k - 1 \in DOMAIN tasks' /\ tasks'[k - 1] = tasks[k]
<1>1. tasks \in Seq(Task) /\ Len(tasks) <= MaxTasks
    BY DEF TypeOK
<1> QED
    BY <1>1, TimerAssumption

\* The queue keeps its insertions; s tasks have left it.
KeepsAdds(s) ==
  /\ tasks' \in Seq(Task) /\ Len(tasks') <= MaxTasks
  /\ \A k \in DOMAIN tasks' :
       tasks'[k].op = "add" => k + s \in DOMAIN tasks /\ tasks'[k] = tasks[k + s]
  /\ \A x \in Slots : AddsFor(x)' <=> AddsFor(x)

\* Then the queued insertions stay sound as long as their timers keep their
\* numbers.
LEMMA AddsStaySound ==
  ASSUME TimerInv, NEW s \in {0, 1}, KeepsAdds(s),
         \A x \in Slots : AddsFor(x) => seq'[x] = seq[x],
         NEW k \in DOMAIN tasks', tasks'[k].op = "add"
  PROVE  /\ seq'[tasks'[k].id[1]] = tasks'[k].id[2]
         /\ \A j \in DOMAIN tasks' : tasks'[j].op = "add" /\ tasks'[j].id[1] = tasks'[k].id[1] => j = k
<1>1. k + s \in DOMAIN tasks /\ tasks'[k] = tasks[k + s]
    BY DEF KeepsAdds
<1>2. tasks'[k].id[1] \in Slots
  <2>1. tasks'[k] \in Task
      BY DEF KeepsAdds
  <2> QED
      BY <2>1 DEF Task, Ids
<1>3. seq[tasks'[k].id[1]] = tasks'[k].id[2] /\ AddsFor(tasks'[k].id[1])
    BY <1>1 DEF TimerInv, OwnersAreSound, AddsFor
<1>4. ASSUME NEW j \in DOMAIN tasks', tasks'[j].op = "add", tasks'[j].id[1] = tasks'[k].id[1]
      PROVE  j = k
  <2>1. j + s \in DOMAIN tasks /\ tasks'[j] = tasks[j + s]
      BY <1>4 DEF KeepsAdds
  <2>2. j + s = k + s
      BY <2>1, <1>1, <1>4 DEF TimerInv, OwnersAreSound
  <2>3. j \in Nat /\ k \in Nat
      BY DEF KeepsAdds
  <2> QED
      BY <2>2, <2>3
<1> QED
    BY <1>2, <1>3, <1>4

\* A step that moves no Timer keeps the owners.
LEMMA OwnersUnmoved ==
  ASSUME TimerInv, TypeOK', NEW s \in {0, 1}, KeepsAdds(s),
         UNCHANGED <<seq, g_global_timer_id, sets, expired, calling>>
  PROVE  OwnersAreSound' /\ TimersOwnedOnce'
<1>1. UNCHANGED <<seq, g_global_timer_id, m_timers_set, m_active_timers_set, expired, calling>>
    BY DEF sets
<1>2. OwnersAreSound'
  <2>1. ASSUME NEW k \in DOMAIN tasks', tasks'[k].op = "add"
        PROVE  /\ seq'[tasks'[k].id[1]] = tasks'[k].id[2]
               /\ \A j \in DOMAIN tasks' : tasks'[j].op = "add" /\ tasks'[j].id[1] = tasks'[k].id[1] => j = k
    <3>1. \A x \in Slots : AddsFor(x) => seq'[x] = seq[x]
        BY <1>1
    <3> QED
        BY <2>1, <3>1, AddsStaySound
  <2> QED
      BY <2>1, <1>1 DEF TimerInv, OwnersAreSound
<1>3. QueuedToAdd' = QueuedToAdd
  <2>1. QueuedToAdd' = {y \in Slots : AddsFor(y)'}
      BY <1>2, QueuedByTaskAfter
  <2>2. QueuedToAdd = {y \in Slots : AddsFor(y)}
      BY QueuedByTask DEF TimerInv
  <2> QED
      BY <2>1, <2>2 DEF KeepsAdds
<1>4. Live' = Live
    BY <1>1 DEF Live
<1>5. TimersOwnedOnce'
    BY <1>1, <1>3, <1>4 DEF TimerInv, TimersOwnedOnce, TimerIdOf
<1> QED
    BY <1>2, <1>5

\* A step that leaves the queue alone.
LEMMA SameTasks ==
  ASSUME TypeOK, tasks' = tasks
  PROVE KeepsAdds(0)
<1>1. tasks \in Seq(Task) /\ Len(tasks) <= MaxTasks
    BY DEF TypeOK
<1>2. \A x \in Slots : AddsFor(x)' <=> AddsFor(x)
    BY DEF AddsFor
<1>3. \A k \in DOMAIN tasks : k + 0 = k
    BY <1>1
<1> QED
    BY <1>1, <1>2, <1>3 DEF KeepsAdds

\* cancel_in_reactor of an active timer: it is erased from both sets and
\* deleted, and no queued insertion or batch knows it.
LEMMA CancelActiveInv ==
  ASSUME TimerInv, NEW id \in Ids, cancel_in_reactor(id), CancelActive(id),
         UNCHANGED <<g_global_timer_id, expired, to_call, calling, elapsed, timerfd, caller, ids, jumps>>,
         NEW s \in {0, 1}, KeepsAdds(s)
  PROVE  TimerInv'
<1> DEFINE z == id[1]
<1>1. z \in Slots /\ id[2] \in 1..MaxTimers /\ id = <<z, id[2]>>
    BY DEF Ids
<1>2. z \in m_timers_set /\ seq[z] = id[2]
  <2>1. PICK y \in m_timers_set : id = TimerIdOf(y)
      BY DEF CancelActive, TimerInv, TimersOwnedOnce
  <2> QED
      BY <2>1 DEF TimerIdOf
<1>3. /\ seq' \in [Slots -> 0..MaxTimers] /\ interval' \in [Slots -> 0..MaxDelay]
      /\ \A x \in Slots : seq'[x] = IF x = z THEN 0 ELSE seq[x]
    BY DeleteFacts DEF CancelActive, TimerInv
<1>4. /\ m_timers_set' = m_timers_set \ {z} /\ m_active_timers_set' = m_active_timers_set \ {id}
      /\ due' = [due EXCEPT ![z] = 0] /\ m_canceling_timers' = m_canceling_timers
      /\ removed' = removed \cup {id} /\ stopped' = stopped \cup {id} /\ alarmed' = alarmed
    BY DEF CancelActive, cancel_in_reactor
<1>5. QueuedToAdd = {y \in Slots : AddsFor(y)}
    BY QueuedByTask DEF TimerInv
<1>6. z \notin expired /\ ~AddsFor(z)
    BY <1>1, <1>2, <1>5 DEF TimerInv, TimersOwnedOnce
<1>t. /\ seq \in [Slots -> 0..MaxTimers] /\ due \in [Slots -> 0..MaxDelay]
      /\ g_global_timer_id \in 0..MaxTimers
      /\ m_timers_set \subseteq Slots /\ expired \subseteq Slots /\ to_call \subseteq expired
    BY Types DEF TimerInv
<1> HIDE DEF z
<1>7. TypeOK'
  <2>1. due' \in [Slots -> 0..MaxDelay]
      BY <1>1, <1>t, <1>4, TimerAssumption
  <2> QED
      BY <1>3, <1>4, <2>1 DEF TimerInv, TypeOK, KeepsAdds
<1>8. OwnersAreSound'
  <2>1. \A x \in Slots : seq'[x] <= g_global_timer_id'
      BY <1>t, <1>3 DEF TimerInv, OwnersAreSound
  <2>2. ASSUME NEW k \in DOMAIN tasks', tasks'[k].op = "add"
        PROVE  /\ seq'[tasks'[k].id[1]] = tasks'[k].id[2]
               /\ \A j \in DOMAIN tasks' : tasks'[j].op = "add" /\ tasks'[j].id[1] = tasks'[k].id[1] => j = k
    <3>1. \A x \in Slots : AddsFor(x) => seq'[x] = seq[x]
        BY <1>3, <1>6
    <3> QED
        BY <2>2, <3>1, AddsStaySound
  <2> QED
      BY <2>1, <2>2 DEF TimerInv, OwnersAreSound
<1>9. TimersOwnedOnce'
  <2>1. QueuedToAdd' = {y \in Slots : AddsFor(y)}
    <3>1. QueuedToAdd' = {y \in Slots : AddsFor(y)'}
        BY <1>7, <1>8, QueuedByTaskAfter
    <3> QED
        BY <3>1 DEF KeepsAdds
  <2>2. Live' = Live \ {z}
      BY <1>3 DEF Live, None
  <2>3. m_active_timers_set' = {<<x, seq'[x]>> : x \in m_timers_set'}
    <3>1. m_active_timers_set = {<<x, seq[x]>> : x \in m_timers_set}
        BY DEF TimerInv, TimersOwnedOnce, TimerIdOf
    <3>2. \A x \in m_timers_set : <<x, seq[x]>> = id <=> x = z
        BY <1>1, <1>2
    <3> QED
        BY <3>1, <3>2, <1>t, <1>3, <1>4
  <2> QED
      BY <2>1, <2>2, <2>3, <1>4, <1>5, <1>6 DEF TimerInv, TimersOwnedOnce, TimerIdOf
<1>10. CancelsAreKept'
  <2>1. \A x \in expired \ to_call : <<x, seq'[x]>> \in alarmed'
      BY <1>t, <1>3, <1>4, <1>6 DEF TimerInv, CancelsAreKept, TimerIdOf
  <2>2. ASSUME NEW i \in stopped'
        PROVE  /\ i[2] <= g_global_timer_id'
               /\ seq'[i[1]] # i[2] \/ (i[1] \in expired' /\ i \in m_canceling_timers')
    <3>1. CASE i = id
        BY <3>1, <1>1, <1>2, <1>3 DEF TimerInv, OwnersAreSound, z
    <3>2. CASE i \in stopped
      <4>1. i[1] \in Slots /\ i[2] \in 1..MaxTimers
          BY <3>2 DEF TimerInv, TypeOK, Ids
      <4> QED
          BY <3>2, <4>1, <1>t, <1>3, <1>4 DEF TimerInv, CancelsAreKept
    <3> QED
        BY <3>1, <3>2, <1>4
  <2> QED
      BY <2>1, <2>2 DEF CancelsAreKept, TimerIdOf
<1> QED
    BY <1>7, <1>8, <1>9, <1>10 DEF TimerInv

\* cancel_in_reactor of a timer that is not active: remembered during a batch,
\* so that a timer of the batch is not put back.
LEMMA CancelInactiveInv ==
  ASSUME TimerInv, NEW id \in Ids, cancel_in_reactor(id), CancelInactive(id),
         UNCHANGED <<g_global_timer_id, expired, to_call, calling, elapsed, timerfd, caller, ids, jumps>>,
         NEW s \in {0, 1}, KeepsAdds(s)
  PROVE  TimerInv'
<1>1. /\ UNCHANGED <<seq, interval, due, m_timers_set, m_active_timers_set>>
      /\ m_canceling_timers' = IF calling THEN m_canceling_timers \cup {id} ELSE m_canceling_timers
      /\ removed' = removed \cup {id} /\ alarmed' = alarmed
    BY DEF CancelInactive, cancel_in_reactor, sets
<1>2. stopped' = IF \E x \in expired : id = TimerIdOf(x) THEN stopped \cup {id} ELSE stopped
    BY DEF CancelInactive, cancel_in_reactor
<1>3. TypeOK'
    BY <1>1, <1>2 DEF TimerInv, TypeOK, KeepsAdds
<1>4. OwnersAreSound' /\ TimersOwnedOnce'
    BY <1>1, <1>3, OwnersUnmoved DEF sets
<1>5. CancelsAreKept'
  <2>1. \A x \in expired \ to_call : <<x, seq'[x]>> \in alarmed'
      BY <1>1 DEF TimerInv, CancelsAreKept, TimerIdOf
  <2>2. ASSUME NEW i \in stopped'
        PROVE  /\ i[2] <= g_global_timer_id'
               /\ seq'[i[1]] # i[2] \/ (i[1] \in expired' /\ i \in m_canceling_timers')
    <3>1. CASE i \in stopped
        BY <3>1, <1>1 DEF TimerInv, CancelsAreKept
    <3>2. CASE i \notin stopped
      <4>1. PICK x \in expired : id = TimerIdOf(x) /\ i = id
          BY <3>2, <1>2
      <4>2. calling /\ x \in Slots
          BY Types DEF TimerInv, OwnersAreSound
      <4> QED
          BY <4>1, <4>2, <1>1 DEF TimerInv, OwnersAreSound, TimerIdOf
    <3> QED
        BY <3>1, <3>2
  <2> QED
      BY <2>1, <2>2 DEF CancelsAreKept, TimerIdOf
<1> QED
    BY <1>3, <1>4, <1>5 DEF TimerInv

\* remove() on the reactor's thread, or as a task that runs there.
LEMMA CancelInv ==
  ASSUME TimerInv, NEW id \in Ids, cancel_in_reactor(id),
         UNCHANGED <<g_global_timer_id, expired, to_call, calling, elapsed, timerfd, caller, ids, jumps>>,
         NEW s \in {0, 1}, KeepsAdds(s)
  PROVE  TimerInv'
<1>1. CASE CancelActive(id)
    BY <1>1, CancelActiveInv
<1>2. CASE CancelInactive(id)
    BY <1>2, CancelInactiveInv
<1> QED
    BY <1>1, <1>2 DEF cancel_in_reactor

(***************************************************************************)
(* add_timer.                                                              *)
(***************************************************************************)

\* A free address is known to nobody.
LEMMA FreeIsUnknown ==
  ASSUME TimerInv, NEW x \in Slots, seq[x] = 0
  PROVE  x \notin m_timers_set /\ x \notin expired /\ ~AddsFor(x)
<1>1. x \notin Live
    BY DEF Live, None
<1>2. QueuedToAdd = {y \in Slots : AddsFor(y)}
    BY QueuedByTask DEF TimerInv
<1> QED
    BY <1>1, <1>2 DEF TimerInv, TimersOwnedOnce

\* A new Timer disturbs no cancellation: its number is new.
LEMMA NewTimerCancels ==
  ASSUME TimerInv, NEW x \in Slots, NEW d \in 0..MaxDelay, NEW i \in {0, d}, NewTimer(x, d, i),
         UNCHANGED <<batch, history>>
  PROVE  CancelsAreKept'
<1>1. /\ seq[x] = 0 /\ g_global_timer_id' = NextId /\ seq' = [seq EXCEPT ![x] = NextId]
      /\ NextId = g_global_timer_id + 1
      /\ seq \in [Slots -> 0..MaxTimers] /\ g_global_timer_id \in 0..MaxTimers
  <2>1. NextId = g_global_timer_id + 1
      BY DEF NextId
  <2>2. TypeOK /\ OwnersAreSound
      BY DEF TimerInv
  <2>3. seq[x] = 0 /\ g_global_timer_id' = NextId /\ seq' = [seq EXCEPT ![x] = NextId]
      BY DEF NewTimer, NextId, None
  <2> QED
      BY <2>1, <2>2, <2>3, Types, Zenon
<1>2. x \notin expired
    BY <1>1, FreeIsUnknown
<1>3. UNCHANGED <<m_canceling_timers, expired, to_call, alarmed, stopped>>
    BY DEF batch, history
<1>4. \A y \in expired \ to_call : <<y, seq'[y]>> \in alarmed
    BY <1>1, <1>2, Types DEF TimerInv, CancelsAreKept, TimerIdOf
<1>5. ASSUME NEW id \in stopped
      PROVE  /\ id[2] <= g_global_timer_id'
             /\ seq'[id[1]] # id[2] \/ (id[1] \in expired /\ id \in m_canceling_timers)
  <2>1. id[1] \in Slots /\ id[2] \in 1..MaxTimers
      BY DEF TimerInv, TypeOK, Ids
  <2>2. /\ id[2] <= g_global_timer_id
        /\ seq[id[1]] # id[2] \/ (id[1] \in expired /\ id \in m_canceling_timers)
      BY DEF TimerInv, CancelsAreKept
  <2> QED
      BY <2>1, <2>2, <1>1
<1> QED
    BY <1>3, <1>4, <1>5 DEF CancelsAreKept, TimerIdOf

\* add_timer on the reactor's thread: the new Timer goes into both sets.
LEMMA SelfAddsTimerInv ==
  ASSUME TimerInv, NEW x \in Slots, NEW d \in 0..MaxDelay, NEW i \in {0, d}, SelfAddsTimer(x, d, i)
  PROVE  TimerInv'
<1>1. /\ NewTimer(x, d, i) /\ add_timer_in_reactor(<<x, NextId>>, d)
      /\ ids' = ids \cup {<<x, NextId>>} /\ UNCHANGED <<batch, tasks, caller, jumps, history>>
    BY DEF SelfAddsTimer
<1>2. /\ seq[x] = 0 /\ NextId \in 1..MaxTimers /\ g_global_timer_id' = NextId
      /\ g_global_timer_id' \in 0..MaxTimers
      /\ seq' \in [Slots -> 0..MaxTimers] /\ seq' = [seq EXCEPT ![x] = NextId]
      /\ interval' \in [Slots -> 0..MaxDelay] /\ due' \in [Slots -> 0..MaxDelay]
      /\ <<x, NextId>> \in Ids
      /\ \A y \in Slots : seq[y] < NextId
    BY <1>1, NewTimerFacts DEF TimerInv
<1>3. /\ m_timers_set' = m_timers_set \cup {x}
      /\ m_active_timers_set' = m_active_timers_set \cup {<<x, NextId>>}
      /\ timerfd' \in 0..Off
    BY <1>1, <1>2, AddFacts DEF TimerInv, add_timer_in_reactor
<1>4. x \notin m_timers_set /\ x \notin expired /\ ~AddsFor(x)
    BY <1>2, FreeIsUnknown
<1>5. TypeOK'
  <2>1. UNCHANGED <<m_canceling_timers, expired, to_call, calling, elapsed, removed, alarmed, stopped,
                    tasks, caller, jumps>>
      BY <1>1, Zenon DEF batch, history
  <2>2. m_timers_set' \subseteq Slots /\ m_active_timers_set' \subseteq Ids /\ ids' \subseteq Ids
      BY <1>1, <1>2, <1>3, Zenon DEF TimerInv, TypeOK
  <2> QED
      BY <1>2, <1>3, <2>1, <2>2, Zenon DEF TimerInv, TypeOK
<1>6. KeepsAdds(0)
    BY <1>1, SameTasks DEF TimerInv
<1>7. seq \in [Slots -> 0..MaxTimers] /\ m_timers_set \subseteq Slots
    BY Types DEF TimerInv
<1>8. OwnersAreSound'
  <2>1. ASSUME NEW k \in DOMAIN tasks', tasks'[k].op = "add"
        PROVE  /\ seq'[tasks'[k].id[1]] = tasks'[k].id[2]
               /\ \A j \in DOMAIN tasks' : tasks'[j].op = "add" /\ tasks'[j].id[1] = tasks'[k].id[1] => j = k
    <3>1. \A y \in Slots : AddsFor(y) => seq'[y] = seq[y]
        BY <1>2, <1>4, <1>7
    <3> QED
        BY <1>6, <2>1, <3>1, AddsStaySound
  <2>2. \A y \in Slots : seq'[y] <= g_global_timer_id'
      BY <1>2, <1>7
  <2> QED
      BY <1>1, <2>1, <2>2 DEF TimerInv, OwnersAreSound, batch
<1>9. TimersOwnedOnce'
  <2>1. QueuedToAdd' = {y \in Slots : AddsFor(y)'}
      BY <1>5, <1>8, QueuedByTaskAfter
  <2>2. QueuedToAdd = {y \in Slots : AddsFor(y)}
      BY QueuedByTask DEF TimerInv
  <2>3. QueuedToAdd' = QueuedToAdd
      BY <1>6, <2>1, <2>2 DEF KeepsAdds
  <2>4. Live' = Live \cup {x}
      BY <1>2, <1>7 DEF Live, None
  <2>5. m_active_timers_set' = {<<y, seq'[y]>> : y \in m_timers_set'}
    <3>1. m_active_timers_set = {<<y, seq[y]>> : y \in m_timers_set}
        BY DEF TimerInv, TimersOwnedOnce, TimerIdOf
    <3>2. \A y \in m_timers_set : seq'[y] = seq[y]
        BY <1>2, <1>4, <1>7
    <3>3. seq'[x] = NextId
        BY <1>2, <1>7
    <3> QED
        BY <3>1, <3>2, <3>3, <1>3
  <2>6. expired' = expired /\ x \notin QueuedToAdd
      BY <1>1, <1>4, <2>2 DEF batch
  <2> QED
      BY <2>3, <2>4, <2>5, <2>6, <1>3, <1>4 DEF TimerInv, TimersOwnedOnce, TimerIdOf
<1>10. CancelsAreKept'
    BY <1>1, NewTimerCancels
<1> QED
    BY <1>5, <1>8, <1>9, <1>10 DEF TimerInv

\* The queued half of add_timer: the Timer moves from the queue to the sets.
LEMMA RunAddInv ==
  ASSUME TimerInv, RunTask, Head(tasks).op = "add"
  PROVE  TimerInv'
<1> DEFINE id == Head(tasks).id
           z == id[1]
<1>1. /\ tasks # <<>> /\ tasks' = Tail(tasks) /\ add_timer_in_reactor(id, due[z])
      /\ UNCHANGED <<timers, batch, history, caller, ids, jumps>>
    BY DEF RunTask
<1>2. /\ tasks' \in Seq(Task) /\ Len(tasks') <= MaxTasks
      /\ Head(tasks) = tasks[1] /\ Head(tasks) \in Task /\ 1 \in DOMAIN tasks
      /\ \A k \in DOMAIN tasks' : k + 1 \in DOMAIN tasks /\ tasks'[k] = tasks[k + 1]
      /\ \A k \in DOMAIN tasks : k # 1 => k - 1 \in DOMAIN tasks' /\ tasks'[k - 1] = tasks[k]
    BY <1>1, TailFacts DEF TimerInv
<1>3. id \in Ids /\ z \in Slots /\ id = <<z, id[2]>>
    BY <1>2 DEF Task, Ids
<1>4. AddsFor(z) /\ seq[z] = id[2]
    BY <1>2 DEF AddsFor, TimerInv, OwnersAreSound
<1>5. UNCHANGED <<seq, interval, due, g_global_timer_id, m_canceling_timers, expired, to_call, calling,
                  elapsed, removed, alarmed, stopped, caller, ids, jumps>>
    BY <1>1, Zenon DEF timers, batch, history
<1> HIDE DEF id, z
<1>6. /\ m_timers_set' = m_timers_set \cup {z} /\ m_active_timers_set' = m_active_timers_set \cup {id}
    BY <1>1 DEF add_timer_in_reactor, z
<1>7. TypeOK'
  <2>1. due[z] \in 0..MaxDelay
      BY <1>3, Types DEF TimerInv
  <2>2. m_timers_set' \subseteq Slots /\ m_active_timers_set' \subseteq Ids /\ timerfd' \in 0..Off
      BY <1>1, <1>3, <2>1, AddFacts DEF TimerInv
  <2> QED
      BY <1>2, <1>5, <2>2 DEF TimerInv, TypeOK
<1>8. \A y \in Slots : AddsFor(y)' <=> AddsFor(y) /\ y # z
  <2> TAKE y \in Slots
  <2>1. ASSUME AddsFor(y)' PROVE AddsFor(y) /\ y # z
    <3>1. PICK k \in DOMAIN tasks' : tasks'[k].op = "add" /\ tasks'[k].id[1] = y
        BY <2>1 DEF AddsFor
    <3>2. k + 1 \in DOMAIN tasks /\ tasks'[k] = tasks[k + 1] /\ k + 1 # 1
        BY <1>2
    <3> QED
        BY <3>1, <3>2, <1>2 DEF AddsFor, TimerInv, OwnersAreSound, z, id
  <2>2. ASSUME AddsFor(y), y # z PROVE AddsFor(y)'
    <3>1. PICK k \in DOMAIN tasks : tasks[k].op = "add" /\ tasks[k].id[1] = y
        BY <2>2 DEF AddsFor
    <3>2. k # 1
        BY <3>1, <2>2, <1>2 DEF z, id
    <3> QED
        BY <3>1, <3>2, <1>2 DEF AddsFor
  <2> QED
      BY <2>1, <2>2
<1>9. OwnersAreSound'
  <2>1. ASSUME NEW k \in DOMAIN tasks', tasks'[k].op = "add"
        PROVE  /\ seq'[tasks'[k].id[1]] = tasks'[k].id[2]
               /\ \A j \in DOMAIN tasks' : tasks'[j].op = "add" /\ tasks'[j].id[1] = tasks'[k].id[1] => j = k
    <3>1. k + 1 \in DOMAIN tasks /\ tasks'[k] = tasks[k + 1]
        BY <1>2
    <3>2. seq[tasks'[k].id[1]] = tasks'[k].id[2]
        BY <3>1, <2>1 DEF TimerInv, OwnersAreSound
    <3>3. ASSUME NEW j \in DOMAIN tasks', tasks'[j].op = "add", tasks'[j].id[1] = tasks'[k].id[1]
          PROVE  j = k
      <4>1. j + 1 \in DOMAIN tasks /\ tasks'[j] = tasks[j + 1]
          BY <1>2
      <4>2. j + 1 = k + 1
          BY <4>1, <3>1, <3>3, <2>1 DEF TimerInv, OwnersAreSound
      <4> QED
          BY <4>2, <1>2
    <3> QED
        BY <3>2, <3>3, <1>5
  <2> QED
      BY <2>1, <1>5 DEF TimerInv, OwnersAreSound
<1>10. TimersOwnedOnce'
  <2>1. QueuedToAdd' = {y \in Slots : AddsFor(y)'}
      BY <1>7, <1>9, QueuedByTaskAfter
  <2>2. QueuedToAdd = {y \in Slots : AddsFor(y)}
      BY QueuedByTask DEF TimerInv
  <2>3. QueuedToAdd' = QueuedToAdd \ {z} /\ z \in QueuedToAdd
      BY <1>3, <1>4, <1>8, <2>1, <2>2
  <2>4. Live' = Live
      BY <1>5 DEF Live
  <2>5. m_active_timers_set' = {<<y, seq'[y]>> : y \in m_timers_set'}
      BY <1>3, <1>4, <1>5, <1>6 DEF TimerInv, TimersOwnedOnce, TimerIdOf
  <2> QED
      BY <2>3, <2>4, <2>5, <1>5, <1>6 DEF TimerInv, TimersOwnedOnce, TimerIdOf
<1>11. CancelsAreKept'
    BY <1>5 DEF TimerInv, CancelsAreKept, TimerIdOf
<1> QED
    BY <1>7, <1>9, <1>10, <1>11 DEF TimerInv

\* The queued half of remove().
LEMMA RunCancelInv ==
  ASSUME TimerInv, RunTask, Head(tasks).op = "cancel"
  PROVE  TimerInv'
<1>1. /\ tasks # <<>> /\ tasks' = Tail(tasks) /\ cancel_in_reactor(Head(tasks).id)
      /\ UNCHANGED <<g_global_timer_id, expired, to_call, calling, elapsed, timerfd, caller, ids, jumps>>
    BY DEF RunTask
<1>2. /\ tasks' \in Seq(Task) /\ Len(tasks') <= MaxTasks
      /\ Head(tasks) = tasks[1] /\ Head(tasks) \in Task /\ 1 \in DOMAIN tasks
      /\ \A k \in DOMAIN tasks' : k + 1 \in DOMAIN tasks /\ tasks'[k] = tasks[k + 1]
      /\ \A k \in DOMAIN tasks : k # 1 => k - 1 \in DOMAIN tasks' /\ tasks'[k - 1] = tasks[k]
    BY <1>1, TailFacts DEF TimerInv
<1>3. Head(tasks).id \in Ids
    BY <1>2 DEF Task
<1>4. KeepsAdds(1)
  <2>1. ASSUME NEW y \in Slots PROVE AddsFor(y)' <=> AddsFor(y)
      BY <1>2 DEF AddsFor
  <2> QED
      BY <2>1, <1>2 DEF KeepsAdds
<1> QED
    BY <1>1, <1>3, <1>4, CancelInv

\* A task is put at the end of the queue.
LEMMA AppendFacts ==
  ASSUME TypeOK, Len(tasks) < MaxTasks, NEW e \in Task, tasks' = Append(tasks, e)
  PROVE  /\ tasks' \in Seq(Task) /\ Len(tasks') <= MaxTasks
         /\ DOMAIN tasks' = DOMAIN tasks \cup {Len(tasks) + 1}
         /\ \A k \in DOMAIN tasks : tasks'[k] = tasks[k] /\ k # Len(tasks) + 1 /\ k + 0 = k
         /\ tasks'[Len(tasks) + 1] = e
<1>1. tasks \in Seq(Task)
    BY DEF TypeOK
<1> QED
    BY <1>1, TimerAssumption

\* add_timer on another thread: the queue owns the new Timer.
LEMMA CallerAddsTimerInv ==
  ASSUME TimerInv, NEW c \in Callers, NEW x \in Slots, NEW d \in 0..MaxDelay, NEW i \in {0, d},
         CallerAddsTimer(c, x, d, i)
  PROVE  TimerInv'
<1> DEFINE n == Len(tasks) + 1
           e == [op |-> "add", id |-> <<x, NextId>>]
<1>1. /\ NewTimer(x, d, i) /\ Len(tasks) < MaxTasks
      /\ tasks' = Append(tasks, e) /\ caller' = [caller EXCEPT ![c] = <<x, NextId>>]
      /\ UNCHANGED <<sets, batch, timerfd, ids, jumps, history>>
    BY DEF CallerAddsTimer
<1>2. /\ seq[x] = 0 /\ NextId \in 1..MaxTimers /\ g_global_timer_id' = NextId
      /\ g_global_timer_id' \in 0..MaxTimers
      /\ seq' \in [Slots -> 0..MaxTimers] /\ seq' = [seq EXCEPT ![x] = NextId]
      /\ interval' \in [Slots -> 0..MaxDelay] /\ due' \in [Slots -> 0..MaxDelay]
      /\ <<x, NextId>> \in Ids
      /\ \A y \in Slots : seq[y] < NextId
    BY <1>1, NewTimerFacts DEF TimerInv
<1>3. e \in Task
    BY <1>2 DEF Task
<1>4. e.op = "add" /\ e.id[1] = x /\ e.id[2] = NextId
    OBVIOUS
<1> HIDE DEF e
<1>5. /\ tasks' \in Seq(Task) /\ Len(tasks') <= MaxTasks
      /\ DOMAIN tasks' = DOMAIN tasks \cup {n}
      /\ \A k \in DOMAIN tasks : tasks'[k] = tasks[k] /\ k # n
      /\ tasks'[n] = e
    BY <1>1, <1>3, AppendFacts DEF TimerInv
<1> HIDE DEF n
<1>6. x \notin m_timers_set /\ x \notin expired /\ ~AddsFor(x)
    BY <1>2, FreeIsUnknown
<1>7. UNCHANGED <<m_timers_set, m_active_timers_set, m_canceling_timers, expired, to_call, calling, elapsed,
                  removed, alarmed, stopped, timerfd, ids, jumps>>
    BY <1>1, Zenon DEF sets, batch, history
<1>8. TypeOK'
  <2>1. caller' \in [Callers -> Ids \cup {<<>>}]
      BY <1>1, <1>2 DEF TimerInv, TypeOK
  <2> QED
      BY <1>2, <1>5, <1>7, <2>1, Zenon DEF TimerInv, TypeOK
<1>9. seq \in [Slots -> 0..MaxTimers] /\ m_timers_set \subseteq Slots
    BY Types DEF TimerInv
<1>10. \A y \in Slots : AddsFor(y)' <=> AddsFor(y) \/ y = x
  <2>1. AddsFor(x)'
      BY <1>4, <1>5 DEF AddsFor
  <2>2. ASSUME NEW y \in Slots, y # x PROVE AddsFor(y)' <=> AddsFor(y)
      BY <2>2, <1>4, <1>5 DEF AddsFor
  <2> QED
      BY <2>1, <2>2
<1>11. OwnersAreSound'
  <2>1. ASSUME NEW k \in DOMAIN tasks, tasks[k].op = "add"
        PROVE  /\ tasks[k].id[1] \in Slots /\ tasks[k].id[1] # x /\ seq'[tasks[k].id[1]] = tasks[k].id[2]
               /\ \A j \in DOMAIN tasks : tasks[j].op = "add" /\ tasks[j].id[1] = tasks[k].id[1] => j = k
    <3>1. tasks[k] \in Task
      <4>1. tasks \in Seq(Task)
          BY DEF TimerInv, TypeOK
      <4> QED
          BY <4>1
    <3>2. tasks[k].id[1] \in Slots
        BY <3>1 DEF Task, Ids
    <3>3. tasks[k].id[1] # x
        BY <2>1, <1>6, Zenon DEF AddsFor
    <3> QED
        BY <3>2, <3>3, <2>1, <1>2, <1>9 DEF TimerInv, OwnersAreSound
  <2>2. ASSUME NEW k \in DOMAIN tasks', tasks'[k].op = "add"
        PROVE  /\ seq'[tasks'[k].id[1]] = tasks'[k].id[2]
               /\ \A j \in DOMAIN tasks' : tasks'[j].op = "add" /\ tasks'[j].id[1] = tasks'[k].id[1] => j = k
    <3>1. CASE k = n
      <4>1. seq'[x] = NextId
          BY <1>2, <1>9
      <4> QED
          BY <3>1, <4>1, <2>1, <1>4, <1>5
    <3>2. CASE k \in DOMAIN tasks
        BY <3>2, <2>1, <2>2, <1>4, <1>5
    <3> QED
        BY <3>1, <3>2, <1>5, Zenon
  <2>3. \A y \in Slots : seq'[y] <= g_global_timer_id'
      BY <1>2, <1>9
  <2> QED
      BY <2>2, <2>3, <1>7 DEF TimerInv, OwnersAreSound
<1>12. TimersOwnedOnce'
  <2>1. QueuedToAdd' = {y \in Slots : AddsFor(y)'}
      BY <1>8, <1>11, QueuedByTaskAfter
  <2>2. QueuedToAdd = {y \in Slots : AddsFor(y)}
      BY QueuedByTask DEF TimerInv
  <2>3. QueuedToAdd' = QueuedToAdd \cup {x}
      BY <1>10, <2>1, <2>2
  <2>4. Live' = Live \cup {x}
      BY <1>2, <1>9, SMTT(30) DEF Live, None
  <2>5. m_active_timers_set' = {<<y, seq'[y]>> : y \in m_timers_set'}
    <3>1. m_active_timers_set = {<<y, seq[y]>> : y \in m_timers_set}
        BY DEF TimerInv, TimersOwnedOnce, TimerIdOf
    <3>2. \A y \in m_timers_set : seq'[y] = seq[y]
        BY <1>2, <1>6, <1>9
    <3> QED
        BY <3>1, <3>2, <1>7
  <2> QED
      BY <2>3, <2>4, <2>5, <1>6, <1>7 DEF TimerInv, TimersOwnedOnce, TimerIdOf
<1>13. CancelsAreKept'
    BY <1>1, NewTimerCancels
<1> QED
    BY <1>8, <1>11, <1>12, <1>13 DEF TimerInv

\* The thread reads the id of its Timer, or garbage of a deleted one.
LEMMA CallerReadsIdInv ==
  ASSUME TimerInv, NEW c \in Callers, CallerReadsId(c)
  PROVE  TimerInv'
<1>1. UNCHANGED <<seq, interval, due, g_global_timer_id, m_timers_set, m_active_timers_set, m_canceling_timers,
                  expired, to_call, calling, elapsed, timerfd, tasks, jumps, removed, alarmed, stopped>>
    BY Zenon DEF CallerReadsId, timers, sets, batch, history
<1>2. KeepsAdds(0)
    BY <1>1, SameTasks DEF TimerInv
<1>3. TypeOK'
  <2>1. caller[c] \in Ids
      BY DEF CallerReadsId, TimerInv, TypeOK
  <2>2. PICK s \in 1..MaxTimers : ids' = ids \cup {<<caller[c][1], s>>}
      BY DEF CallerReadsId
  <2>3. <<caller[c][1], s>> \in Ids
      BY <2>1 DEF Ids
  <2>4. caller' \in [Callers -> Ids \cup {<<>>}]
      BY DEF CallerReadsId, TimerInv, TypeOK
  <2> QED
      BY <1>1, <2>2, <2>3, <2>4, Zenon DEF TimerInv, TypeOK
<1>4. OwnersAreSound' /\ TimersOwnedOnce'
    BY <1>1, <1>2, <1>3, OwnersUnmoved DEF sets
<1>5. CancelsAreKept'
    BY <1>1 DEF TimerInv, CancelsAreKept, TimerIdOf
<1> QED
    BY <1>3, <1>4, <1>5 DEF TimerInv

\* remove() on another thread is only queued.
LEMMA CallerRemovesInv ==
  ASSUME TimerInv, NEW c \in Callers, NEW id \in ids, CallerRemoves(c, id)
  PROVE  TimerInv'
<1> DEFINE e == [op |-> "cancel", id |-> id]
<1>1. UNCHANGED <<seq, interval, due, g_global_timer_id, m_timers_set, m_active_timers_set, m_canceling_timers,
                  expired, to_call, calling, elapsed, timerfd, caller, ids, jumps, removed, alarmed, stopped>>
    BY Zenon DEF CallerRemoves, timers, sets, batch, history
<1>2. e \in Task /\ e.op = "cancel"
  <2>1. id \in Ids
      BY DEF TimerInv, TypeOK
  <2> QED
      BY <2>1 DEF Task
<1>3. Len(tasks) < MaxTasks /\ tasks' = Append(tasks, e)
    BY DEF CallerRemoves
<1> HIDE DEF e
<1>4. /\ tasks' \in Seq(Task) /\ Len(tasks') <= MaxTasks
      /\ DOMAIN tasks' = DOMAIN tasks \cup {Len(tasks) + 1}
      /\ \A k \in DOMAIN tasks : tasks'[k] = tasks[k] /\ k # Len(tasks) + 1 /\ k + 0 = k
      /\ tasks'[Len(tasks) + 1] = e
    BY <1>2, <1>3, AppendFacts DEF TimerInv
<1>5. KeepsAdds(0)
  <2>1. ASSUME NEW y \in Slots PROVE AddsFor(y)' <=> AddsFor(y)
      BY <1>2, <1>4 DEF AddsFor
  <2>2. ASSUME NEW k \in DOMAIN tasks', tasks'[k].op = "add"
        PROVE  k + 0 \in DOMAIN tasks /\ tasks'[k] = tasks[k + 0]
      BY <2>2, <1>2, <1>4
  <2> QED
      BY <2>1, <2>2, <1>4 DEF KeepsAdds
<1>6. TypeOK'
    BY <1>1, <1>4 DEF TimerInv, TypeOK
<1>7. OwnersAreSound' /\ TimersOwnedOnce'
    BY <1>1, <1>5, <1>6, OwnersUnmoved DEF sets
<1>8. CancelsAreKept'
    BY <1>1 DEF TimerInv, CancelsAreKept, TimerIdOf
<1> QED
    BY <1>6, <1>7, <1>8 DEF TimerInv

(***************************************************************************)
(* handle_timerfd_read.                                                    *)
(***************************************************************************)

\* retrieve_expired_timers moves timers from the sets to the batch.
LEMMA TimerfdReadableInv ==
  ASSUME TimerInv, TimerfdReadable
  PROVE  TimerInv'
<1> DEFINE e == {x \in m_timers_set : due[x] = 0}
<1>1. /\ ~calling /\ timerfd' = Off /\ expired' = e /\ to_call' = e
      /\ m_timers_set' = m_timers_set \ e
      /\ m_active_timers_set' = m_active_timers_set \ {TimerIdOf(x) : x \in e}
      /\ calling' = TRUE /\ m_canceling_timers' = {} /\ elapsed' = 0
    BY DEF TimerfdReadable
<1>2. UNCHANGED <<seq, interval, due, g_global_timer_id, tasks, caller, ids, jumps, removed, alarmed, stopped>>
    BY Zenon DEF TimerfdReadable, timers, history
<1>3. m_timers_set \subseteq Slots /\ expired = {} /\ e \subseteq m_timers_set
    BY <1>1, Types DEF TimerInv, OwnersAreSound
<1> HIDE DEF e
<1>4. TypeOK'
  <2>1. calling' \in BOOLEAN
      BY <1>1
  <2>2. elapsed' \in 0..MaxDelay /\ timerfd' \in 0..Off
      BY <1>1, TimerAssumption DEF Off
  <2>3. /\ m_timers_set' \subseteq Slots /\ m_active_timers_set' \subseteq Ids /\ m_canceling_timers' \subseteq Ids
        /\ expired' \subseteq Slots /\ to_call' \subseteq expired'
      BY <1>1, <1>3 DEF TimerInv, TypeOK
  <2> QED
      BY <1>2, <2>1, <2>2, <2>3, Zenon DEF TimerInv, TypeOK
<1>5. KeepsAdds(0)
    BY <1>2, SameTasks DEF TimerInv
<1>6. OwnersAreSound'
  <2>1. ASSUME NEW k \in DOMAIN tasks', tasks'[k].op = "add"
        PROVE  /\ seq'[tasks'[k].id[1]] = tasks'[k].id[2]
               /\ \A j \in DOMAIN tasks' : tasks'[j].op = "add" /\ tasks'[j].id[1] = tasks'[k].id[1] => j = k
    <3>1. \A y \in Slots : AddsFor(y) => seq'[y] = seq[y]
        BY <1>2
    <3> QED
        BY <2>1, <3>1, <1>5, AddsStaySound
  <2> QED
      BY <2>1, <1>1, <1>2 DEF TimerInv, OwnersAreSound
<1>7. TimersOwnedOnce'
  <2>1. QueuedToAdd' = {y \in Slots : AddsFor(y)'}
      BY <1>4, <1>6, QueuedByTaskAfter
  <2>2. QueuedToAdd = {y \in Slots : AddsFor(y)}
      BY QueuedByTask DEF TimerInv
  <2>3. QueuedToAdd' = QueuedToAdd
      BY <2>1, <2>2, <1>5 DEF KeepsAdds
  <2>4. Live' = Live
      BY <1>2 DEF Live
  <2>5. m_active_timers_set' = {<<y, seq'[y]>> : y \in m_timers_set'}
      BY <1>1, <1>2, <1>3 DEF TimerInv, TimersOwnedOnce, TimerIdOf
  <2> QED
      BY <2>3, <2>4, <2>5, <1>1, <1>3 DEF TimerInv, TimersOwnedOnce, TimerIdOf
<1>8. CancelsAreKept'
    BY <1>1, <1>2, <1>3 DEF TimerInv, CancelsAreKept, TimerIdOf
<1> QED
    BY <1>4, <1>6, <1>7, <1>8 DEF TimerInv

\* alarm() of one timer of the batch.
LEMMA AlarmInv ==
  ASSUME TimerInv, NEW x \in Slots, Alarm(x)
  PROVE  TimerInv'
<1>1. UNCHANGED <<seq, interval, due, g_global_timer_id, m_timers_set, m_active_timers_set, m_canceling_timers,
                  expired, calling, elapsed, timerfd, tasks, caller, ids, jumps, removed, stopped>>
    BY Zenon DEF Alarm, timers, sets
<1>2. x \in to_call /\ to_call' = to_call \ {x} /\ alarmed' = alarmed \cup {TimerIdOf(x)}
    BY DEF Alarm
<1>3. TimerIdOf(x) \in Ids
  <2>1. x \in Live
      BY <1>2 DEF TimerInv, TypeOK, TimersOwnedOnce
  <2>2. seq[x] \in 0..MaxTimers /\ seq[x] # 0
      BY <2>1, Types DEF TimerInv, Live, None
  <2> QED
      BY <2>2 DEF Ids, TimerIdOf
<1>4. TypeOK'
    BY <1>1, <1>2, <1>3 DEF TimerInv, TypeOK
<1>5. KeepsAdds(0)
    BY <1>1, SameTasks DEF TimerInv
<1>6. OwnersAreSound' /\ TimersOwnedOnce'
    BY <1>1, <1>4, <1>5, OwnersUnmoved DEF sets
<1>7. CancelsAreKept'
    BY <1>1, <1>2 DEF TimerInv, CancelsAreKept, TimerIdOf
<1> QED
    BY <1>4, <1>6, <1>7 DEF TimerInv

\* restart gives a delay within the interval.
LEMMA RestartType ==
  ASSUME TypeOK, NEW x \in Slots
  PROVE  restart(x) \in 0..MaxDelay
  BY Types, TimerAssumption DEF restart

\* reset() puts the repeating timers that were not cancelled back and deletes
\* the others.
LEMMA ResetInv ==
  ASSUME TimerInv, Reset
  PROVE  TimerInv'
<1> DEFINE R == Restarted
<1>1. /\ to_call = {} /\ calling' = FALSE /\ expired' = {} /\ elapsed' = 0
      /\ Delete(expired \ R)
      /\ due' = [x \in Slots |-> IF x \in R THEN restart(x) ELSE due[x]]
      /\ m_timers_set' = m_timers_set \cup R
      /\ m_active_timers_set' = m_active_timers_set \cup {TimerIdOf(x) : x \in R}
      /\ timerfd' = IF m_timers_set' = {} THEN timerfd ELSE how_long_from_now(Min({due'[x] : x \in m_timers_set'}))
    BY DEF Reset
<1>2. UNCHANGED <<g_global_timer_id, m_canceling_timers, to_call, tasks, caller, ids, jumps, removed, alarmed, stopped>>
    BY Zenon DEF Reset, history
<1>3. R \subseteq expired /\ \A x \in R : <<x, seq[x]>> \notin m_canceling_timers
    BY DEF Restarted, TimerIdOf
<1> HIDE DEF R
<1>4. /\ seq' \in [Slots -> 0..MaxTimers] /\ interval' \in [Slots -> 0..MaxDelay]
      /\ \A x \in Slots : seq'[x] = IF x \in expired \ R THEN 0 ELSE seq[x]
    BY <1>1, DeleteFacts DEF TimerInv
<1>5. /\ seq \in [Slots -> 0..MaxTimers] /\ due \in [Slots -> 0..MaxDelay] /\ timerfd \in 0..Off
      /\ m_timers_set \subseteq Slots /\ expired \subseteq Slots
    BY Types DEF TimerInv
<1>6. due' \in [Slots -> 0..MaxDelay]
    BY <1>1, <1>5, RestartType DEF TimerInv
<1>7. TypeOK'
  <2>1. timerfd' \in 0..Off
    <3>1. CASE m_timers_set' = {}
        BY <3>1, <1>1, <1>5
    <3>2. CASE m_timers_set' # {}
      <4> DEFINE S == {due'[x] : x \in m_timers_set'}
      <4>1. S \subseteq 0..MaxDelay /\ S # {} /\ timerfd' = how_long_from_now(Min(S))
        <5>1. m_timers_set' \subseteq Slots
            BY <1>1, <1>3, <1>5, Zenon
        <5>2. timerfd' = how_long_from_now(Min(S))
            BY <3>2, <1>1, Zenon
        <5> QED
            BY <3>2, <5>1, <5>2, <1>6, Zenon
      <4> HIDE DEF S
      <4>2. Min(S) \in 0..MaxDelay
        <5>1. S \in SUBSET Nat
            BY <4>1, TimerAssumption
        <5>2. Min(S) \in S
            BY <4>1, <5>1, MinIsLeast, Zenon
        <5> QED
            BY <4>1, <5>2, Zenon
      <4> QED
          BY <4>1, <4>2, HowLongType
    <3> QED
        BY <3>1, <3>2
  <2>2. elapsed' \in 0..MaxDelay
      BY <1>1, TimerAssumption
  <2>3. \A x \in R : TimerIdOf(x) \in Ids
    <3>1. \A x \in R : x \in Slots /\ seq[x] \in 0..MaxTimers /\ seq[x] # 0
        BY <1>3, <1>5 DEF TimerInv, TimersOwnedOnce, Live, None
    <3> QED
        BY <3>1 DEF Ids, TimerIdOf
  <2>4. /\ m_timers_set' \subseteq Slots /\ m_active_timers_set' \subseteq Ids
        /\ expired' \subseteq Slots /\ to_call' \subseteq expired'
      BY <1>1, <1>2, <1>3, <1>5, <2>3 DEF TimerInv, TypeOK
  <2>5. calling' \in BOOLEAN
      BY <1>1, Zenon
  <2> QED
      BY <1>2, <1>4, <1>6, <2>1, <2>2, <2>4, <2>5, Zenon DEF TimerInv, TypeOK
<1>8. KeepsAdds(0)
    BY <1>2, SameTasks DEF TimerInv
<1>9. QueuedToAdd = {y \in Slots : AddsFor(y)}
    BY QueuedByTask DEF TimerInv
<1>10. OwnersAreSound'
  <2>1. ASSUME NEW k \in DOMAIN tasks', tasks'[k].op = "add"
        PROVE  /\ seq'[tasks'[k].id[1]] = tasks'[k].id[2]
               /\ \A j \in DOMAIN tasks' : tasks'[j].op = "add" /\ tasks'[j].id[1] = tasks'[k].id[1] => j = k
    <3>1. \A y \in Slots : AddsFor(y) => seq'[y] = seq[y]
        BY <1>4, <1>9 DEF TimerInv, TimersOwnedOnce
    <3> QED
        BY <2>1, <3>1, <1>8, AddsStaySound
  <2>2. \A y \in Slots : seq'[y] <= g_global_timer_id'
    <3>1. g_global_timer_id \in 0..MaxTimers
        BY Types, SMTT(30) DEF TimerInv
    <3> QED
        BY <3>1, <1>2, <1>4 DEF TimerInv, OwnersAreSound
  <2> QED
      BY <2>1, <2>2, <1>1 DEF OwnersAreSound
<1>11. TimersOwnedOnce'
  <2>1. QueuedToAdd' = {y \in Slots : AddsFor(y)'}
      BY <1>7, <1>10, QueuedByTaskAfter
  <2>2. QueuedToAdd' = QueuedToAdd
      BY <2>1, <1>8, <1>9 DEF KeepsAdds
  <2>3. Live' = Live \ (expired \ R)
      BY <1>4, <1>5 DEF Live, None
  <2>4. m_active_timers_set' = {<<y, seq'[y]>> : y \in m_timers_set'}
    <3>1. m_active_timers_set = {<<y, seq[y]>> : y \in m_timers_set}
        BY DEF TimerInv, TimersOwnedOnce, TimerIdOf
    <3>2. \A y \in m_timers_set \cup R : seq'[y] = seq[y]
        BY <1>3, <1>4, <1>5 DEF TimerInv, TimersOwnedOnce
    <3> QED
        BY <3>1, <3>2, <1>1 DEF TimerIdOf
  <2> QED
      BY <2>2, <2>3, <2>4, <1>1, <1>3 DEF TimerInv, TimersOwnedOnce, TimerIdOf
<1>12. CancelsAreKept'
  <2>1. ASSUME NEW i \in stopped
        PROVE  i[2] <= g_global_timer_id' /\ seq'[i[1]] # i[2]
    <3>1. i[1] \in Slots /\ i[2] \in 1..MaxTimers /\ i = <<i[1], i[2]>>
        BY DEF TimerInv, TypeOK, Ids
    <3>2. /\ i[2] <= g_global_timer_id
          /\ seq[i[1]] # i[2] \/ (i[1] \in expired /\ i \in m_canceling_timers)
        BY DEF TimerInv, CancelsAreKept
    <3>3. CASE seq[i[1]] # i[2]
        BY <3>1, <3>2, <3>3, <1>2, <1>4
    <3>4. CASE seq[i[1]] = i[2]
      <4>1. i[1] \in expired \ R
          BY <3>1, <3>2, <3>4, <1>3
      <4> QED
          BY <4>1, <3>1, <3>2, <1>2, <1>4
    <3> QED
        BY <3>3, <3>4
  <2> QED
      BY <2>1, <1>1, <1>2 DEF CancelsAreKept
<1> QED
    BY <1>7, <1>10, <1>11, <1>12 DEF TimerInv

(***************************************************************************)
(* Clocks.                                                                 *)
(***************************************************************************)

\* Counting down stays within the delays.
LEMMA LessType ==
  ASSUME NEW m \in Nat, NEW n \in 0..m
  PROVE Less(n) \in 0..m /\ Less(n) <= n
  BY DEF Less

\* A clock moves no Timer.
LEMMA ClockInv ==
  ASSUME TimerInv,
         UNCHANGED <<seq, interval, g_global_timer_id, sets, m_canceling_timers, expired, to_call, calling,
                     tasks, caller, ids, history>>,
         due' \in [Slots -> 0..MaxDelay], elapsed' \in 0..MaxDelay, timerfd' \in 0..Off, jumps' \in 0..MaxJumps
  PROVE  TimerInv'
<1>1. UNCHANGED <<seq, interval, g_global_timer_id, m_timers_set, m_active_timers_set, m_canceling_timers,
                  expired, to_call, calling, tasks, caller, ids, removed, alarmed, stopped>>
    BY Zenon DEF sets, history
<1>2. TypeOK'
    BY <1>1, Zenon DEF TimerInv, TypeOK
<1>3. KeepsAdds(0)
    BY <1>1, SameTasks DEF TimerInv
<1>4. OwnersAreSound' /\ TimersOwnedOnce'
    BY <1>1, <1>2, <1>3, OwnersUnmoved DEF sets
<1>5. CancelsAreKept'
    BY <1>1 DEF TimerInv, CancelsAreKept, TimerIdOf
<1> QED
    BY <1>2, <1>4, <1>5 DEF TimerInv

\* Time passes.
LEMMA TickInv ==
  ASSUME TimerInv, Tick
  PROVE  TimerInv'
<1>1. /\ due \in [Slots -> 0..MaxDelay] /\ elapsed \in 0..MaxDelay
      /\ timerfd \in 0..Off /\ jumps \in 0..MaxJumps
    BY Types DEF TimerInv
<1>2. due' \in [Slots -> 0..MaxDelay]
    BY <1>1, LessType, TimerAssumption DEF Tick
<1>3. elapsed' \in 0..MaxDelay /\ timerfd' \in 0..Off /\ jumps' \in 0..MaxJumps
    BY <1>1, TimerAssumption DEF Tick, Off, Less
<1>4. UNCHANGED <<seq, interval, g_global_timer_id, sets, m_canceling_timers, expired, to_call, calling,
                  tasks, caller, ids, history>>
    BY DEF Tick
<1> QED
    BY <1>2, <1>3, <1>4, ClockInv

\* The wall clock is set.
LEMMA ClockIsSetInv ==
  ASSUME TimerInv, NEW forward \in BOOLEAN, ClockIsSet(forward)
  PROVE  TimerInv'
<1>1. /\ due \in [Slots -> 0..MaxDelay] /\ elapsed \in 0..MaxDelay
      /\ timerfd \in 0..Off /\ jumps \in 0..MaxJumps
    BY Types DEF TimerInv
<1>2. due' \in [Slots -> 0..MaxDelay]
    BY <1>1, TimerAssumption DEF ClockIsSet, Less
<1>3. elapsed' \in 0..MaxDelay
  <2>1. Min({elapsed + 1, MaxDelay}) \in {elapsed + 1, MaxDelay}
        /\ Min({elapsed + 1, MaxDelay}) <= MaxDelay
      BY <1>1, MinIsLeast, TimerAssumption
  <2> QED
      BY <1>1, <2>1, TimerAssumption DEF ClockIsSet, Less
<1>4. timerfd' \in 0..Off /\ jumps' \in 0..MaxJumps
    BY <1>1, TimerAssumption DEF ClockIsSet
<1>5. UNCHANGED <<seq, interval, g_global_timer_id, sets, m_canceling_timers, expired, to_call, calling,
                  tasks, caller, ids, history>>
    BY DEF ClockIsSet
<1> QED
    BY <1>2, <1>3, <1>4, <1>5, ClockInv

(***************************************************************************)
(* The invariant.                                                          *)
(***************************************************************************)

\* Every step of the timers' reactor and of its callers keeps the invariant.
LEMMA NextInv == TimerInv /\ [Next]_vars => TimerInv'
<1> SUFFICES ASSUME TimerInv, [Next]_vars PROVE TimerInv'
    OBVIOUS
<1>1. CASE TimerfdReadable
    BY <1>1, TimerfdReadableInv
<1>2. CASE \E x \in Slots : Alarm(x)
    BY <1>2, AlarmInv
<1>3. CASE Reset
    BY <1>3, ResetInv
<1>4. CASE RunTask
  <2>1. Head(tasks).op = "add" \/ Head(tasks).op = "cancel"
      BY <1>4 DEF RunTask
  <2> QED
      BY <1>4, <2>1, RunAddInv, RunCancelInv
<1>5. CASE UserStep
  <2>1. CASE \E x \in Slots, d \in 0..MaxDelay : \E i \in {0, d} : SelfAddsTimer(x, d, i)
      BY <2>1, SelfAddsTimerInv
  <2>2. ASSUME NEW id \in ids, SelfRemoves(id) PROVE TimerInv'
    <3>1. id \in Ids /\ KeepsAdds(0)
        BY <2>2, SameTasks DEF SelfRemoves, TimerInv, TypeOK
    <3> QED
        BY <2>2, <3>1, CancelInv DEF SelfRemoves
  <2> QED
      BY <1>5, <2>1, <2>2 DEF UserStep
<1>6. ASSUME NEW c \in Callers, CallerStep(c) PROVE TimerInv'
  <2>1. CASE \E x \in Slots, d \in 0..MaxDelay : \E i \in {0, d} : CallerAddsTimer(c, x, d, i)
      BY <2>1, CallerAddsTimerInv
  <2>2. CASE CallerReadsId(c)
      BY <2>2, CallerReadsIdInv
  <2>3. CASE \E id \in ids : CallerRemoves(c, id)
      BY <2>3, CallerRemovesInv
  <2> QED
      BY <1>6, <2>1, <2>2, <2>3 DEF CallerStep
<1>7. CASE Tick
    BY <1>7, TickInv
<1>8. CASE \E forward \in BOOLEAN : ClockIsSet(forward)
    BY <1>8, ClockIsSetInv
<1>9. CASE UNCHANGED vars
  <2>1. /\ UNCHANGED <<seq, interval, due, g_global_timer_id, sets, m_canceling_timers, expired, to_call, calling,
                       tasks, caller, ids, history>>
        /\ UNCHANGED <<elapsed, timerfd, jumps>>
      BY <1>9, Zenon DEF vars, timers, batch
  <2> QED
      BY <2>1, Types, ClockInv DEF TimerInv
<1> QED
    BY <1>1, <1>2, <1>3, <1>4, <1>5, <1>6, <1>7, <1>8, <1>9 DEF Next, HandlerStep

\* Every Timer has one owner, in every reachable state: none leaks, none is
\* deleted twice, and the callbacks never touch a deleted one.
THEOREM TimerOwnership == Spec => []TimerInv
  BY InitInv, NextInv, PTL DEF Spec

(***************************************************************************)
(* remove() is exact.                                                      *)
(***************************************************************************)

\* A stopped timer is gone once no batch is being called.
LEMMA StoppedIsGone == TimerInv => StoppedStaysStopped
<1> SUFFICES ASSUME TimerInv, ~calling, NEW id \in stopped, id \in m_active_timers_set PROVE FALSE
    BY DEF StoppedStaysStopped
<1>1. seq[id[1]] # id[2]
    BY DEF TimerInv, CancelsAreKept, OwnersAreSound
<1>2. PICK x \in m_timers_set : id = <<x, seq[x]>>
    BY DEF TimerInv, TimersOwnedOnce, TimerIdOf
<1> QED
    BY <1>1, <1>2

\* A new Timer takes a free address.
LEMMA NewTimerStays ==
  ASSUME TimerInv, NEW y \in Slots, NEW d, NEW i, NewTimer(y, d, i), NEW x \in Slots, seq[x] # None
  PROVE  seq'[x] # None
<1>1. seq \in [Slots -> 0..MaxTimers]
    BY Types DEF TimerInv
<1> QED
    BY <1>1 DEF NewTimer

\* What deletes a Timer: cancel_in_reactor its own id, reset() after its alarm().
LEMMA DeletionStep ==
  ASSUME TimerInv, Next, NEW x \in Slots, seq[x] # None, seq'[x] = None
  PROVE  TimerIdOf(x) \in removed' \cup alarmed'
<1>1. ASSUME NEW id \in Ids, cancel_in_reactor(id) PROVE TimerIdOf(x) \in removed'
  <2>1. CASE CancelActive(id)
    <3>1. PICK y \in m_timers_set : id = <<y, seq[y]>>
        BY <2>1 DEF CancelActive, TimerInv, TimersOwnedOnce, TimerIdOf
    <3>2. x = y
        BY <2>1, <3>1 DEF CancelActive, Delete
    <3> QED
        BY <1>1, <3>1, <3>2 DEF cancel_in_reactor, TimerIdOf
  <2>2. CASE CancelInactive(id)
      BY <2>2 DEF CancelInactive
  <2> QED
      BY <1>1, <2>1, <2>2 DEF cancel_in_reactor
<1>2. CASE Reset
  <2>1. x \in expired /\ x \notin to_call
      BY <1>2 DEF Reset, Delete
  <2>2. alarmed' = alarmed
      BY <1>2 DEF Reset, history
  <2> QED
      BY <2>1, <2>2 DEF TimerInv, CancelsAreKept
<1>3. CASE RunTask
  <2>1. ~(Head(tasks).op = "add")
      BY <1>3 DEF RunTask, timers
  <2>2. tasks # <<>> /\ tasks' = Tail(tasks) /\ cancel_in_reactor(Head(tasks).id)
      BY <1>3, <2>1 DEF RunTask
  <2>3. Head(tasks) \in Task
      BY <2>2, TailFacts DEF TimerInv
  <2>4. Head(tasks).id \in Ids
      BY <2>3 DEF Task
  <2> QED
      BY <1>1, <2>2, <2>4
<1>4. CASE UserStep
  <2>1. ASSUME NEW y \in Slots, NEW d \in 0..MaxDelay, NEW i \in {0, d}, SelfAddsTimer(y, d, i) PROVE FALSE
    <3>1. NewTimer(y, d, i)
        BY <2>1 DEF SelfAddsTimer
    <3> QED
        BY <3>1, NewTimerStays
  <2>2. ASSUME NEW id \in ids, SelfRemoves(id) PROVE TimerIdOf(x) \in removed'
      BY <2>2, <1>1 DEF SelfRemoves, TimerInv, TypeOK
  <2> QED
      BY <1>4, <2>1, <2>2 DEF UserStep
<1>5. ASSUME NEW c \in Callers, CallerStep(c) PROVE FALSE
  <2>1. ASSUME NEW y \in Slots, NEW d \in 0..MaxDelay, NEW i \in {0, d}, CallerAddsTimer(c, y, d, i) PROVE FALSE
    <3>1. NewTimer(y, d, i)
        BY <2>1 DEF CallerAddsTimer
    <3> QED
        BY <3>1, NewTimerStays
  <2>2. ~CallerReadsId(c) /\ \A id \in ids : ~CallerRemoves(c, id)
      BY DEF CallerReadsId, CallerRemoves, timers
  <2> QED
      BY <1>5, <2>1, <2>2 DEF CallerStep
<1>6. ~TimerfdReadable /\ (\A y \in Slots : ~Alarm(y)) /\ ~Tick /\ (\A f \in BOOLEAN : ~ClockIsSet(f))
    BY DEF TimerfdReadable, Alarm, Tick, ClockIsSet, timers
<1> QED
    BY <1>2, <1>3, <1>4, <1>5, <1>6 DEF Next, HandlerStep

\* remove() stops the timer it was given, for good, and no other one.
THEOREM CancelExactness == Spec => CancelIsExact
<1>1. TimerInv /\ [Next]_vars =>
        [\A x \in Slots : seq[x] # None /\ seq'[x] = None => TimerIdOf(x) \in removed' \cup alarmed']_vars
    BY DeletionStep
<1>2. Spec => []StoppedStaysStopped
    BY TimerOwnership, StoppedIsGone, PTL
<1>3. Spec => DeletedForAReason
    BY <1>1, TimerOwnership, PTL DEF Spec, DeletedForAReason
<1> QED
    BY <1>2, <1>3 DEF CancelIsExact

(***************************************************************************)
(* The timerfd is armed.                                                   *)
(***************************************************************************)

\* A step that schedules nothing leaves the timerfd early enough.
LEMMA StillArmed ==
  ASSUME TimerInv, EarliestIsArmed, calling' = calling, timerfd' = timerfd, jumps' = jumps,
         m_timers_set' \subseteq m_timers_set, \A x \in m_timers_set' : due'[x] = due[x]
  PROVE  EarliestIsArmed'
  BY DEF EarliestIsArmed, how_long_from_now

\* insert: the new timer is the earliest and the timerfd is moved, or it is not.
LEMMA InsertArms ==
  ASSUME TimerInv, EarliestIsArmed, NEW id \in Ids, NEW d \in 0..MaxDelay, add_timer_in_reactor(id, d),
         calling' = calling, jumps' = jumps, due'[id[1]] = d, \A x \in m_timers_set : due'[x] = due[x]
  PROVE  EarliestIsArmed'
<1> SUFFICES ASSUME ~calling, NEW x \in m_timers_set'
             PROVE  timerfd' # Off /\ (jumps = 0 => timerfd' <= how_long_from_now(due'[x]))
    BY DEF EarliestIsArmed, how_long_from_now
<1>1. due \in [Slots -> 0..MaxDelay] /\ m_timers_set \subseteq Slots /\ timerfd \in 0..Off
    BY Types DEF TimerInv
<1>2. x \in m_timers_set \/ x = id[1]
    BY DEF add_timer_in_reactor
<1>3. due'[x] \in 0..MaxDelay
    BY <1>1, <1>2
<1>4. \A e \in 0..MaxDelay : how_long_from_now(e) = IF e > 1 THEN e ELSE 1
    BY HowLong, TimerAssumption
<1>5. CASE EarliestChanged(d)
  <2>1. timerfd' = how_long_from_now(d) /\ d <= due'[x]
      BY <1>1, <1>2, <1>5 DEF add_timer_in_reactor, EarliestChanged
  <2> QED
      BY <1>3, <1>4, <2>1, TimerAssumption DEF Off
<1>6. CASE ~EarliestChanged(d)
  <2>1. PICK y \in m_timers_set : due[y] <= d
      BY <1>1, <1>6 DEF EarliestChanged
  <2>2. timerfd' = timerfd /\ timerfd # Off /\ (jumps = 0 => timerfd <= how_long_from_now(due[y]))
      BY <1>6 DEF EarliestIsArmed, add_timer_in_reactor
  <2>3. CASE x \in m_timers_set
      BY <2>2, <2>3 DEF EarliestIsArmed
  <2>4. CASE x = id[1]
      BY <2>1, <2>2, <2>4, <1>1, <1>3, <1>4, TimerAssumption DEF Off
  <2> QED
      BY <1>2, <2>3, <2>4
<1> QED
    BY <1>5, <1>6

\* reset() arms the timerfd for the earliest timer of all.
LEMMA ResetArms ==
  ASSUME TimerInv, TimerInv', Reset
  PROVE  EarliestIsArmed'
<1> SUFFICES ASSUME NEW x \in m_timers_set'
             PROVE  timerfd' # Off /\ timerfd' <= how_long_from_now(due'[x])
    BY DEF EarliestIsArmed, how_long_from_now
<1> DEFINE S == {due'[y] : y \in m_timers_set'}
<1>1. timerfd' = how_long_from_now(Min(S)) /\ due'[x] \in S
    BY DEF Reset
<1>2. due' \in [Slots -> 0..MaxDelay] /\ m_timers_set' \subseteq Slots
    BY SMTT(30) DEF TimerInv, TypeOK
<1>3. S \in SUBSET Nat /\ S \subseteq 0..MaxDelay
    BY <1>2, TimerAssumption
<1> HIDE DEF S
<1>4. Min(S) \in S /\ \A n \in S : Min(S) <= n
    BY <1>1, <1>3, MinIsLeast, Zenon
<1>5. Min(S) \in 0..MaxDelay /\ due'[x] \in 0..MaxDelay /\ Min(S) <= due'[x]
    BY <1>1, <1>3, <1>4, Zenon
<1>6. \A e \in 0..MaxDelay : how_long_from_now(e) = IF e > 1 THEN e ELSE 1
    BY HowLong, TimerAssumption
<1> QED
    BY <1>1, <1>5, <1>6, TimerAssumption DEF Off

\* As time passes the timerfd stays as early as the timers.
LEMMA TickArms ==
  ASSUME TimerInv, EarliestIsArmed, Tick
  PROVE  EarliestIsArmed'
<1> SUFFICES ASSUME ~calling, NEW x \in m_timers_set
             PROVE  timerfd' # Off /\ (jumps = 0 => timerfd' <= how_long_from_now(due'[x]))
    BY DEF EarliestIsArmed, how_long_from_now, Tick, sets
<1>1. due \in [Slots -> 0..MaxDelay] /\ m_timers_set \subseteq Slots /\ timerfd \in 0..Off
    BY Types DEF TimerInv
<1>2. timerfd # Off /\ (jumps = 0 => timerfd <= how_long_from_now(due[x]))
    BY DEF EarliestIsArmed
<1>3. due'[x] = Less(due[x]) /\ timerfd' = Less(timerfd)
    BY <1>1, <1>2 DEF Tick, Counting, TimerInv, TimersOwnedOnce, Live
<1>4. \A e \in 0..MaxDelay : how_long_from_now(e) = IF e > 1 THEN e ELSE 1
    BY HowLong, TimerAssumption
<1>5. due[x] \in 0..MaxDelay /\ Less(due[x]) \in 0..MaxDelay
    BY <1>1, TimerAssumption DEF Less
<1> QED
    BY <1>1, <1>2, <1>3, <1>4, <1>5, TimerAssumption DEF Less, Off

\* Setting the wall clock leaves the timerfd armed, if no longer in step.
LEMMA ClockIsSetArms ==
  ASSUME TimerInv, EarliestIsArmed, NEW forward \in BOOLEAN, ClockIsSet(forward)
  PROVE  EarliestIsArmed'
<1>1. jumps \in 0..MaxJumps
    BY Types DEF TimerInv
<1>2. jumps' # 0 /\ UNCHANGED <<calling, timerfd, m_timers_set>>
    BY <1>1, TimerAssumption DEF ClockIsSet, sets
<1> QED
    BY <1>2 DEF EarliestIsArmed

\* A new Timer touches the delay of no scheduled one.
LEMMA NewTimerDue ==
  ASSUME TimerInv, NEW x \in Slots, NEW d \in 0..MaxDelay, NEW i \in {0, d}, NewTimer(x, d, i)
  PROVE  due'[x] = d /\ (\A y \in m_timers_set : due'[y] = due[y]) /\ <<x, NextId>> \in Ids
<1>1. seq[x] = 0 /\ due' = [due EXCEPT ![x] = d] /\ <<x, NextId>> \in Ids
    BY NewTimerFacts DEF TimerInv
<1>2. x \notin m_timers_set
    BY <1>1, FreeIsUnknown
<1>3. due \in [Slots -> 0..MaxDelay] /\ m_timers_set \subseteq Slots
    BY Types DEF TimerInv
<1> QED
    BY <1>1, <1>2, <1>3

\* cancel_in_reactor schedules nothing.
LEMMA CancelArms ==
  ASSUME TimerInv, EarliestIsArmed, NEW id \in Ids, cancel_in_reactor(id), UNCHANGED <<calling, timerfd, jumps>>
  PROVE  EarliestIsArmed'
<1>1. due \in [Slots -> 0..MaxDelay] /\ m_timers_set \subseteq Slots
    BY Types DEF TimerInv
<1>2. m_timers_set' \subseteq m_timers_set /\ \A x \in m_timers_set' : due'[x] = due[x]
    BY <1>1 DEF cancel_in_reactor, CancelActive, CancelInactive, sets
<1> QED
    BY <1>2, StillArmed

\* A task of the queue inserts or cancels.
LEMMA RunTaskArms ==
  ASSUME TimerInv, EarliestIsArmed, RunTask
  PROVE  EarliestIsArmed'
<1>1. tasks # <<>> /\ tasks' = Tail(tasks)
    BY DEF RunTask
<1>2. Head(tasks) \in Task
    BY <1>1, TailFacts DEF TimerInv
<1>3. Head(tasks).id \in Ids /\ Head(tasks).id[1] \in Slots
    BY <1>2 DEF Task, Ids
<1>4. CASE Head(tasks).op = "add"
  <2> DEFINE id == Head(tasks).id
  <2>1. due[id[1]] \in 0..MaxDelay
      BY <1>3, Types DEF TimerInv
  <2>2. add_timer_in_reactor(id, due[id[1]]) /\ UNCHANGED <<due, calling, jumps>>
      BY <1>4 DEF RunTask, timers, batch
  <2> HIDE DEF id
  <2>3. id \in Ids
      BY <1>3 DEF id
  <2> QED
      BY <2>1, <2>2, <2>3, InsertArms
<1>5. CASE Head(tasks).op = "cancel"
  <2>1. cancel_in_reactor(Head(tasks).id) /\ UNCHANGED <<calling, timerfd, jumps>>
      BY <1>5 DEF RunTask
  <2> QED
      BY <2>1, <1>3, CancelArms
<1>6. Head(tasks).op = "add" \/ Head(tasks).op = "cancel"
    BY Zenon DEF RunTask
<1> QED
    BY <1>4, <1>5, <1>6, Zenon

\* add_timer on the reactor's thread.
LEMMA SelfAddsArms ==
  ASSUME TimerInv, EarliestIsArmed, NEW x \in Slots, NEW d \in 0..MaxDelay, NEW i \in {0, d},
         SelfAddsTimer(x, d, i)
  PROVE  EarliestIsArmed'
<1>1. /\ NewTimer(x, d, i) /\ add_timer_in_reactor(<<x, NextId>>, d)
      /\ UNCHANGED <<calling, jumps>>
    BY DEF SelfAddsTimer, batch
<1>2. due'[x] = d /\ (\A y \in m_timers_set : due'[y] = due[y]) /\ <<x, NextId>> \in Ids
    BY <1>1, NewTimerDue
<1> QED
    BY <1>1, <1>2, InsertArms

\* No scheduled timer is forgotten: the timerfd is armed while timers wait, and
\* in time for the earliest unless the wall clock was set.
THEOREM EarliestArmed == Spec => []EarliestIsArmed
<1>1. Init => EarliestIsArmed
    BY DEF Init, EarliestIsArmed
<1>2. TimerInv /\ TimerInv' /\ EarliestIsArmed /\ [Next]_vars => EarliestIsArmed'
  <2> SUFFICES ASSUME TimerInv, TimerInv', EarliestIsArmed, [Next]_vars PROVE EarliestIsArmed'
      OBVIOUS
  <2>1. CASE TimerfdReadable
      BY <2>1 DEF TimerfdReadable, EarliestIsArmed
  <2>2. CASE \E x \in Slots : Alarm(x)
      BY <2>2, StillArmed DEF Alarm, timers, sets
  <2>3. CASE Reset
      BY <2>3, ResetArms
  <2>4. CASE RunTask
      BY <2>4, RunTaskArms
  <2>5. CASE UserStep
    <3>1. CASE \E x \in Slots, d \in 0..MaxDelay : \E i \in {0, d} : SelfAddsTimer(x, d, i)
        BY <3>1, SelfAddsArms
    <3>2. ASSUME NEW id \in ids, SelfRemoves(id) PROVE EarliestIsArmed'
        BY <3>2, CancelArms DEF SelfRemoves, TimerInv, TypeOK
    <3> QED
        BY <2>5, <3>1, <3>2 DEF UserStep
  <2>6. ASSUME NEW c \in Callers, CallerStep(c) PROVE EarliestIsArmed'
    <3>1. ASSUME NEW x \in Slots, NEW d \in 0..MaxDelay, NEW i \in {0, d}, CallerAddsTimer(c, x, d, i)
          PROVE  EarliestIsArmed'
      <4>1. NewTimer(x, d, i) /\ UNCHANGED <<m_timers_set, calling, timerfd, jumps>>
          BY <3>1 DEF CallerAddsTimer, sets, batch
      <4>2. \A y \in m_timers_set : due'[y] = due[y]
          BY <4>1, NewTimerDue, Zenon
      <4> QED
          BY <4>1, <4>2, StillArmed
    <3>2. CASE CallerReadsId(c)
        BY <3>2, StillArmed DEF CallerReadsId, timers, sets, batch
    <3>3. CASE \E id \in ids : CallerRemoves(c, id)
        BY <3>3, StillArmed DEF CallerRemoves, timers, sets, batch
    <3> QED
        BY <2>6, <3>1, <3>2, <3>3, SMTT(30) DEF CallerStep
  <2>7. CASE Tick
      BY <2>7, TickArms
  <2>8. CASE \E forward \in BOOLEAN : ClockIsSet(forward)
      BY <2>8, ClockIsSetArms
  <2>9. CASE UNCHANGED vars
      BY <2>9, StillArmed DEF vars, timers, sets, batch
  <2> QED
      BY <2>1, <2>2, <2>3, <2>4, <2>5, <2>6, <2>7, <2>8, <2>9 DEF Next, HandlerStep
<1> QED
    BY <1>1, <1>2, TimerOwnership, PTL DEF Spec
=============================================================================
