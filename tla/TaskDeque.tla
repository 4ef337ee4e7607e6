------------------------------ MODULE TaskDeque ------------------------------
(***************************************************************************)
(* The two blocking deques with a limit: TaskDeque (common/TaskDeque.cc),  *)
(* whose worker threads run the tasks, and BoundedBlockingDeque            *)
(* (common/BoundedBlockingDeque.h), whose consumers call take_front.  Both *)
(* are a deque under one MutexLock with two Conditions; what differs is    *)
(* the test for "full", the end of a wait, and stop().                     *)
(*                                                                         *)
(* A thread goes through the steps of MutexLock and Condition one by one,  *)
(* since m_holder_pid is changed beside the pthread mutex, not with it.    *)
(***************************************************************************)
EXTENDS Naturals, Sequences, FiniteSets, SequencesExt

CONSTANTS
  Producers, Consumers,           \* threads
  Owner,                          \* the thread that calls stop() or set_size
  kMaxTaskDequeSize,              \* empty tasks a new TaskDeque holds
  Limits,                         \* limits a deque is created with, 0 for none
  MaxPushes,                      \* bound: pushes of each producer
  MaxSpurious                     \* bound: spurious wakeups

Threads == Producers \cup Consumers \cup {Owner}
NoThread == "none"

ASSUME TaskDequeAssumption ==
  /\ kMaxTaskDequeSize \in Nat /\ Limits \subseteq Nat /\ MaxPushes \in Nat \ {0} /\ MaxSpurious \in Nat
  /\ Producers \cap Consumers = {} /\ Owner \notin Producers \cup Consumers /\ NoThread \notin Threads

VARIABLES
  kind,              \* which class
  m_max_queue_size,
  deque,             \* ids of tasks, 0 for an empty one
  m_is_running,
  mutex,             \* who holds the pthread mutex, or NoThread
  m_holder_pid,
  waiting,           \* condition -> threads blocked in pthread_cond_wait
  pc,
  left,              \* pushes a producer still makes
  m_id_counter,
  taken,             \* ids in the order they were taken
  spurious

vars == <<kind, m_max_queue_size, deque, m_is_running, mutex, m_holder_pid, waiting, pc, left, m_id_counter,
          taken, spurious>>

Init ==
  /\ kind \in {"TaskDeque", "BoundedBlockingDeque"}
  /\ m_max_queue_size \in IF kind = "TaskDeque" THEN Limits ELSE Limits \ {0}
  /\ deque = IF kind = "TaskDeque" THEN [i \in 1..kMaxTaskDequeSize |-> 0] ELSE <<>>
  /\ m_is_running = TRUE
  /\ mutex = NoThread /\ m_holder_pid = NoThread
  /\ waiting = [cond \in {"not_empty", "not_full"} |-> {}]
  /\ pc = [t \in Threads |-> IF t \in Consumers THEN "loop" ELSE IF t = Owner THEN "user" ELSE "lock"]
  /\ left = [p \in Producers |-> MaxPushes]
  /\ m_id_counter = 0 /\ taken = <<>> /\ spurious = MaxSpurious

(***************************************************************************)
(* MutexLock and Condition.                                                *)
(***************************************************************************)
Data == <<kind, m_max_queue_size, deque, m_is_running, left, m_id_counter, taken>>

\* pthread_mutex_lock, or the return from pthread_cond_wait.
Lock(t) ==
  /\ pc[t] \in {"lock", "woken"} /\ mutex = NoThread
  /\ mutex' = t
  /\ pc' = [pc EXCEPT ![t] = "assign"]
  /\ UNCHANGED <<Data, m_holder_pid, waiting, spurious>>

Assign(t) ==
  /\ pc[t] = "assign"
  /\ m_holder_pid' = t
  /\ pc' = [pc EXCEPT ![t] = "test"]
  /\ UNCHANGED <<Data, mutex, waiting, spurious>>

\* Condition::wait gives up the holder first,
Unassign(t) ==
  /\ pc[t] = "unassign"
  /\ m_holder_pid' = NoThread
  /\ pc' = [pc EXCEPT ![t] = "block"]
  /\ UNCHANGED <<Data, mutex, waiting, spurious>>

\* Where a thread has the mutex.
Holding == {"assign", "test", "unassign", "block", "release", "unlock"}

CondOf(t) == IF t \in Producers THEN "not_full" ELSE "not_empty"

\* then the mutex and the thread's own turn, in one step.
Block(t) ==
  /\ pc[t] = "block"
  /\ mutex' = NoThread
  /\ waiting' = [waiting EXCEPT ![CondOf(t)] = @ \cup {t}]
  /\ pc' = [pc EXCEPT ![t] = "blocked"]
  /\ UNCHANGED <<Data, m_holder_pid, spurious>>

WakeSpuriously(t) ==
  /\ pc[t] = "blocked" /\ spurious > 0
  /\ spurious' = spurious - 1
  /\ waiting' = [waiting EXCEPT ![CondOf(t)] = @ \ {t}]
  /\ pc' = [pc EXCEPT ![t] = "woken"]
  /\ UNCHANGED <<Data, mutex, m_holder_pid>>

UnlockFirst(t) ==
  /\ pc[t] = "release"
  /\ mutex' = NoThread
  /\ pc' = [pc EXCEPT ![t] = "unlock"]
  /\ UNCHANGED <<Data, m_holder_pid, waiting, spurious>>

Release(t) ==
  /\ pc[t] = "release"
  /\ m_holder_pid' = NoThread
  /\ pc' = [pc EXCEPT ![t] = "unlock"]
  /\ UNCHANGED <<Data, mutex, waiting, spurious>>

After(t) ==
  CASE t \in Producers -> IF left[t] > 0 THEN "lock" ELSE "done"
    [] t \in Consumers -> "loop"
    [] t = Owner -> IF kind = "TaskDeque" THEN "join" ELSE "done"

Unlock(t) ==
  /\ pc[t] = "unlock"
  /\ mutex' = NoThread
  /\ pc' = [pc EXCEPT ![t] = After(t)]
  /\ UNCHANGED <<Data, m_holder_pid, waiting, spurious>>

WakesButStays(t, cond, woken) ==
  /\ UNCHANGED waiting
  /\ pc' = [u \in Threads |-> IF u = t THEN "release" ELSE IF u \in woken THEN "woken" ELSE pc[u]]

\* Thread t goes to "release" and the threads in woken leave the condition.
Wakes(t, cond, woken) ==
  /\ waiting' = [waiting EXCEPT ![cond] = @ \ woken]
  /\ pc' = [u \in Threads |-> IF u = t THEN "release" ELSE IF u \in woken THEN "woken" ELSE pc[u]]

NotifyNobody(t, cond) == Wakes(t, cond, {})

notify(t, cond) ==
  IF waiting[cond] = {} THEN Wakes(t, cond, {}) ELSE \E u \in waiting[cond] : Wakes(t, cond, {u})

(***************************************************************************)
(* The deques.                                                             *)
(***************************************************************************)
is_full ==
  IF kind = "TaskDeque"
  THEN m_max_queue_size > 0 /\ Len(deque) >= m_max_queue_size
  ELSE Len(deque) = m_max_queue_size

\* A worker of a TaskDeque that was stopped does not wait any more.
MustWaitForTask == deque = <<>> /\ (kind = "TaskDeque" => m_is_running)

Wait(t) ==
  /\ pc[t] = "test"
  /\ (t \in Producers /\ is_full) \/ (t \in Consumers /\ MustWaitForTask)
  /\ pc' = [pc EXCEPT ![t] = "unassign"]
  /\ UNCHANGED <<Data, mutex, m_holder_pid, waiting, spurious>>

PushWithoutTest(p) ==
  /\ pc[p] = "test"
  /\ m_id_counter' = m_id_counter + 1
  /\ left' = [left EXCEPT ![p] = @ - 1]
  /\ deque' = Append(deque, m_id_counter')
  /\ notify(p, "not_empty")
  /\ UNCHANGED <<kind, m_max_queue_size, m_is_running, taken, mutex, m_holder_pid, spurious>>

push(p) ==
  /\ pc[p] = "test" /\ ~is_full
  /\ m_id_counter' = m_id_counter + 1
  /\ left' = [left EXCEPT ![p] = @ - 1]
  /\ \/ deque' = Append(deque, m_id_counter')
     \/ deque' = <<m_id_counter'>> \o deque
  /\ notify(p, "not_empty")
  /\ UNCHANGED <<kind, m_max_queue_size, m_is_running, taken, mutex, m_holder_pid, spurious>>

TakeWithoutPop(c) ==
  /\ pc[c] = "test" /\ ~MustWaitForTask /\ deque # <<>>
  /\ taken' = IF Head(deque) = 0 THEN taken ELSE Append(taken, Head(deque))
  /\ notify(c, "not_full")
  /\ UNCHANGED <<deque, kind, m_max_queue_size, m_is_running, left, m_id_counter, mutex, m_holder_pid, spurious>>

TakeSilently(c) ==
  /\ pc[c] = "test" /\ ~MustWaitForTask
  /\ deque' = IF deque = <<>> THEN <<>> ELSE Tail(deque)
  /\ taken' = IF deque = <<>> \/ Head(deque) = 0 THEN taken ELSE Append(taken, Head(deque))
  /\ Wakes(c, "not_full", {})
  /\ UNCHANGED <<kind, m_max_queue_size, m_is_running, left, m_id_counter, mutex, m_holder_pid, spurious>>

\* take_one and take_front.  An empty task is taken, and not run.
take(c) ==
  /\ pc[c] = "test" /\ ~MustWaitForTask
  /\ IF deque = <<>>
     THEN Wakes(c, "not_full", {}) /\ UNCHANGED <<deque, taken>>
     ELSE /\ deque' = Tail(deque)
          /\ taken' = IF Head(deque) = 0 THEN taken ELSE Append(taken, Head(deque))
          /\ IF kind = "TaskDeque" /\ m_max_queue_size = 0
             THEN Wakes(c, "not_full", {})
             ELSE notify(c, "not_full")
  /\ UNCHANGED <<kind, m_max_queue_size, m_is_running, left, m_id_counter, mutex, m_holder_pid, spurious>>

\* worker_loop runs the task it took and tests the flag; a consumer of a
\* BoundedBlockingDeque just takes the next.
WorkerLoop(c) ==
  /\ pc[c] = "loop"
  /\ pc' = [pc EXCEPT ![c] = IF kind = "TaskDeque" /\ ~m_is_running THEN "done" ELSE "lock"]
  /\ UNCHANGED <<Data, mutex, m_holder_pid, waiting, spurious>>

OwnerCalls ==
  /\ pc[Owner] = "user"
  /\ pc' = [pc EXCEPT ![Owner] = "lock"]
  /\ UNCHANGED <<Data, mutex, m_holder_pid, waiting, spurious>>

StopNotifiesOne ==
  /\ pc[Owner] = "test" /\ kind = "TaskDeque"
  /\ m_is_running' = FALSE
  /\ notify(Owner, "not_empty")
  /\ UNCHANGED <<kind, m_max_queue_size, deque, left, m_id_counter, taken, mutex, m_holder_pid, spurious>>

stop ==
  /\ pc[Owner] = "test" /\ kind = "TaskDeque"
  /\ m_is_running' = FALSE
  /\ Wakes(Owner, "not_empty", waiting["not_empty"])
  /\ UNCHANGED <<kind, m_max_queue_size, deque, left, m_id_counter, taken, mutex, m_holder_pid, spurious>>

Join ==
  /\ pc[Owner] = "join" /\ \A c \in Consumers : pc[c] = "done"
  /\ pc' = [pc EXCEPT ![Owner] = "done"]
  /\ UNCHANGED <<Data, mutex, m_holder_pid, waiting, spurious>>

\* Only a larger limit: set_size below the length lets the deque outgrow it.
set_size ==
  /\ pc[Owner] = "test" /\ kind = "BoundedBlockingDeque"
  /\ m_max_queue_size' = m_max_queue_size + 1
  /\ pc' = [pc EXCEPT ![Owner] = "release"]
  /\ UNCHANGED <<kind, deque, m_is_running, left, m_id_counter, taken, mutex, m_holder_pid, waiting, spurious>>

ThreadStep(t) ==
  Lock(t) \/ Assign(t) \/ Unassign(t) \/ Block(t) \/ Release(t) \/ Unlock(t) \/ Wait(t)

Steps ==
  \/ \E p \in Producers : push(p)
  \/ \E c \in Consumers : take(c) \/ WorkerLoop(c)
  \/ stop \/ Join \/ set_size
  \/ \E t \in Threads : ThreadStep(t)

Next == Steps \/ OwnerCalls \/ \E t \in Threads : WakeSpuriously(t)

\* Some thread that can run does; with finitely many pushes and wakeups that is
\* enough, all that is left to do is done.  Nothing makes the owner call stop() or set_size.
Spec == Init /\ [][Next]_vars /\ WF_vars(Steps)

(***************************************************************************)
(* Properties.                                                             *)
(***************************************************************************)
\* Every variable has its type; the threads blocked in a Condition are those
\* whose program counter says so, and a producer still has what it pushes.
TypeOK ==
  /\ kind \in {"TaskDeque", "BoundedBlockingDeque"} /\ m_is_running \in BOOLEAN
  /\ {m_max_queue_size, m_id_counter, spurious} \subseteq Nat
  /\ mutex \in Threads \cup {NoThread} /\ m_holder_pid \in Threads \cup {NoThread}
  /\ deque \in Seq(0..m_id_counter) /\ taken \in Seq(1..m_id_counter)
  /\ left \in [Producers -> 0..MaxPushes]
  /\ pc \in [Threads -> {"user", "loop", "lock", "join", "done", "blocked", "woken"} \cup Holding]
  /\ waiting = [cond \in {"not_empty", "not_full"} |-> {t \in Threads : pc[t] = "blocked" /\ CondOf(t) = cond}]
  /\ \A p \in Producers : pc[p] \notin {"release", "unlock", "done"} => left[p] > 0

\* One thread at a time is between lock and unlock, and it has the mutex;
\* m_holder_pid is set a step after the mutex is taken, and unset a step before
\* it is given up.
LockInv ==
  /\ \A t \in Threads : pc[t] \in Holding <=> mutex = t
  /\ \A t \in Threads : m_holder_pid = t <=> pc[t] \in {"test", "unassign", "release"}

\* m_holder_pid names the thread that holds the pthread mutex whenever is_full
\* asserts it, and nobody while the mutex is free (asserted when it is
\* destroyed), through waits, wakeups and hand-overs.
HolderIsOwner ==
  /\ \A t \in Threads : pc[t] = "test" => mutex = t /\ m_holder_pid = t
  /\ mutex = NoThread => m_holder_pid = NoThread

\* However producers, consumers and wakeups interleave, the deque does not
\* outgrow its limit (a TaskDeque starts with kMaxTaskDequeSize empty tasks).
DequeBounded ==
  \/ Len(deque) <= m_max_queue_size
  \/ kind = "TaskDeque" /\ (m_max_queue_size = 0 \/ Len(deque) <= kMaxTaskDequeSize)

\* Every task that was pushed is either still in the deque or was taken by
\* exactly one consumer.
EachTaskOnce ==
  /\ ToSet(taken) \cup (ToSet(deque) \ {0}) = 1..m_id_counter
  /\ ToSet(taken) \cap ToSet(deque) = {}
  /\ \A j, k \in DOMAIN taken : taken[j] = taken[k] => j = k
  /\ \A j, k \in DOMAIN deque : deque[j] = deque[k] /\ deque[j] # 0 => j = k

\* A task in the deque is taken, unless the TaskDeque is stopped: one notify
\* for each push is enough, with several consumers and spurious wakeups.
TaskIsTaken ==
  deque # <<>> ~> (deque = <<>> \/ ~m_is_running)

\* A producer that waits for room gets its task in, unless the TaskDeque is
\* stopped: stop() wakes only the workers, and leaves such a producer waiting.
PushCompletes ==
  \A p \in Producers : pc[p] = "blocked" ~> (pc[p] = "done" \/ ~m_is_running)

\* stop() returns: every worker, waiting or not, sees the flag and ends.
StopCompletes == pc[Owner] = "join" ~> pc[Owner] = "done"

\* The deque keeps its tasks, each for one consumer, and its limit, and the
\* mutex that protects it one thread (push, take_one, take_front, MutexLock).
DequeInv == TypeOK /\ LockInv /\ DequeBounded /\ EachTaskOnce

\* No notification is lost: consumers get the tasks, producers the room, and
\* stop() its workers (Condition::notify, notify_all).
WaitsEnd == TaskIsTaken /\ PushCompletes /\ StopCompletes
=============================================================================
