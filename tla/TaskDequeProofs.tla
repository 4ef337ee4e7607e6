--------------------------- MODULE TaskDequeProofs ---------------------------
(***************************************************************************)
(* Proofs about TaskDeque, for any threads, limits and number of pushes:   *)
(* m_holder_pid is right wherever it is asserted, the deque keeps its      *)
(* limit, and every task is in the deque or was taken once.                *)
(***************************************************************************)
EXTENDS TaskDeque, TLAPS

PCs == {"user", "loop", "lock", "join", "done", "blocked", "woken"} \cup Holding
Conds == {"not_empty", "not_full"}

\* The part of TypeOK about the data, and the part about the threads.
DataType ==
  /\ kind \in {"TaskDeque", "BoundedBlockingDeque"} /\ m_is_running \in BOOLEAN
  /\ m_max_queue_size \in Nat /\ m_id_counter \in Nat
  /\ deque \in Seq(0..m_id_counter) /\ taken \in Seq(1..m_id_counter)
  /\ left \in [Producers -> 0..MaxPushes]

ControlType ==
  /\ spurious \in Nat
  /\ mutex \in Threads \cup {NoThread} /\ m_holder_pid \in Threads \cup {NoThread}
  /\ pc \in [Threads -> PCs]
  /\ waiting = [cond \in Conds |-> {t \in Threads : pc[t] = "blocked" /\ CondOf(t) = cond}]

\* A producer on its way to push has something to push.
HasPushes == \A p \in Producers : pc[p] \notin {"release", "unlock", "done"} => left[p] > 0

\* TypeOK in parts.
LEMMA TypeParts == TypeOK <=> DataType /\ ControlType /\ HasPushes
  BY DEF TypeOK, DataType, ControlType, HasPushes, PCs, Conds

\* The condition a thread waits for.
LEMMA CondOfType ==
  ASSUME NEW t
  PROVE CondOf(t) \in Conds
  BY DEF CondOf, Conds

\* The constructors' state.
LEMMA InitInv == Init => DequeInv
<1> SUFFICES ASSUME Init PROVE DequeInv
    OBVIOUS
<1>1. DataType
    BY TaskDequeAssumption DEF Init, DataType
<1>2. pc \in [Threads -> PCs] /\ \A t \in Threads : pc[t] \in {"loop", "user", "lock"}
    BY DEF Init, PCs
<1>3. ControlType
    BY <1>2, TaskDequeAssumption DEF Init, ControlType, Conds
<1>4. HasPushes
    BY TaskDequeAssumption DEF Init, HasPushes
<1>5. LockInv
    BY <1>2, TaskDequeAssumption DEF Init, LockInv, Holding
<1>6. DequeBounded
    BY TaskDequeAssumption DEF Init, DequeBounded
<1>7. EachTaskOnce
    BY TaskDequeAssumption DEF Init, EachTaskOnce, ToSet
<1> QED
    BY <1>1, <1>3, <1>4, <1>5, <1>6, <1>7, TypeParts DEF DequeInv

(***************************************************************************)
(* MutexLock and Condition.                                                *)
(***************************************************************************)

\* A step of a thread that blocks or wakes nobody keeps the sets of waiters.
LEMMA OneThreadMoves ==
  ASSUME ControlType, NEW t \in Threads, NEW v \in PCs, pc' = [pc EXCEPT ![t] = v],
         v # "blocked", pc[t] # "blocked", waiting' = waiting
  PROVE  /\ pc' \in [Threads -> PCs] /\ pc'[t] = v /\ \A u \in Threads : u # t => pc'[u] = pc[u]
         /\ waiting' = [cond \in Conds |-> {u \in Threads : pc'[u] = "blocked" /\ CondOf(u) = cond}]
<1>1. /\ pc \in [Threads -> PCs]
      /\ waiting = [cond \in Conds |-> {u \in Threads : pc[u] = "blocked" /\ CondOf(u) = cond}]
    BY DEF ControlType
<1>2. pc' \in [Threads -> PCs] /\ pc'[t] = v /\ \A u \in Threads : u # t => pc'[u] = pc[u]
    BY <1>1
<1>3. \A u \in Threads : pc'[u] = "blocked" <=> pc[u] = "blocked"
    BY <1>2
<1>4. \A cond \in Conds : {u \in Threads : pc'[u] = "blocked" /\ CondOf(u) = cond}
                        = {u \in Threads : pc[u] = "blocked" /\ CondOf(u) = cond}
    BY <1>3
<1> QED
    BY <1>1, <1>2, <1>4

\* A step that leaves the deque alone keeps what DequeInv says of it.
LEMMA DataUnchanged ==
  ASSUME DequeInv, UNCHANGED Data, ControlType', HasPushes', LockInv'
  PROVE  DequeInv'
<1>1. UNCHANGED <<kind, m_max_queue_size, deque, m_is_running, left, m_id_counter, taken>>
    BY DEF Data
<1>2. DataType /\ DequeBounded /\ EachTaskOnce
    BY TypeParts DEF DequeInv
<1>3. DataType'
    BY <1>1, <1>2 DEF DataType
<1>4. DequeBounded' /\ EachTaskOnce'
    BY <1>1, <1>2 DEF DequeBounded, EachTaskOnce
<1>5. TypeOK'
    BY <1>3, TypeParts, PTL
<1> QED
    BY <1>4, <1>5 DEF DequeInv

\* Where m_holder_pid names the thread.
Asserting == {"test", "unassign", "release"}

\* Mutex and holder follow the thread that moves to v.
LocksFollow(t, v) ==
  /\ v \in Holding => mutex \in {t, NoThread}
  /\ mutex' = IF v \in Holding THEN t ELSE IF mutex = t THEN NoThread ELSE mutex
  /\ m_holder_pid' = IF v \in Asserting THEN t ELSE IF m_holder_pid = t THEN NoThread ELSE m_holder_pid

\* The two variables of MutexLock, whatever the other threads do outside of it.
LEMMA LocksKept ==
  ASSUME LockInv, NEW t \in Threads, NEW v, LocksFollow(t, v), pc'[t] = v,
         \A u \in Threads \ {t} : pc'[u] = pc[u] \/ (pc[u] = "blocked" /\ pc'[u] = "woken"),
         mutex \in Threads \cup {NoThread}, m_holder_pid \in Threads \cup {NoThread}
  PROVE  LockInv' /\ mutex' \in Threads \cup {NoThread} /\ m_holder_pid' \in Threads \cup {NoThread}
<1>1. \A u \in Threads \ {t} : /\ pc'[u] \in Holding <=> pc[u] \in Holding
                               /\ pc'[u] \in Asserting <=> pc[u] \in Asserting
    BY DEF Holding, Asserting
<1>2. \A x \in Asserting : x \in Holding
    BY DEF Holding, Asserting
<1>3. /\ \A u \in Threads : pc[u] \in Holding <=> mutex = u
      /\ \A u \in Threads : m_holder_pid = u <=> pc[u] \in Asserting
    BY DEF LockInv, Asserting
<1>4. \A u \in Threads : u # NoThread
    BY TaskDequeAssumption
<1>5. /\ v \in Holding => mutex \in {t, NoThread}
      /\ mutex' = IF v \in Holding THEN t ELSE IF mutex = t THEN NoThread ELSE mutex
      /\ m_holder_pid' = IF v \in Asserting THEN t ELSE IF m_holder_pid = t THEN NoThread ELSE m_holder_pid
    BY DEF LocksFollow
<1>6. ASSUME NEW w \in Threads PROVE pc'[w] \in Holding <=> mutex' = w
  <2>1. CASE w = t
      BY <1>4, <1>5, <2>1
  <2>2. CASE w # t
    <3>1. w \in Threads \ {t}
        BY <2>2
    <3>2. (pc'[w] \in Holding <=> pc[w] \in Holding) /\ (pc[w] \in Holding <=> mutex = w) /\ w # NoThread
        BY <1>1, <1>3, <1>4, <3>1, Zenon
    <3> QED
        BY <1>4, <1>5, <2>2, <3>2
  <2> QED
      BY <2>1, <2>2
<1>7. ASSUME NEW w \in Threads PROVE m_holder_pid' = w <=> pc'[w] \in Asserting
  <2>1. CASE w = t
      BY <1>4, <1>5, <2>1
  <2>2. CASE w # t
    <3>1. w \in Threads \ {t}
        BY <2>2
    <3>2. /\ pc'[w] \in Asserting <=> pc[w] \in Asserting
          /\ pc[w] \in Asserting <=> m_holder_pid = w
          /\ pc[w] \in Asserting => mutex = w
          /\ w # NoThread
        BY <1>1, <1>2, <1>3, <1>4, <3>1, Zenon
    <3> QED
        BY <1>2, <1>4, <1>5, <2>2, <3>2
  <2> QED
      BY <2>1, <2>2
<1> QED
    BY <1>5, <1>6, <1>7 DEF LockInv, Asserting

\* A step of one thread that leaves the deque alone, and wakes and blocks nobody.
LEMMA MoveKeeps ==
  ASSUME DequeInv, NEW t \in Threads, NEW v \in PCs, pc' = [pc EXCEPT ![t] = v],
         v # "blocked", pc[t] # "blocked", LocksFollow(t, v),
         t \in Producers /\ v \notin {"release", "unlock", "done"} => left[t] > 0,
         UNCHANGED <<Data, waiting, spurious>>
  PROVE  DequeInv'
<1>1. ControlType /\ HasPushes /\ LockInv
    BY TypeParts DEF DequeInv
<1>2. UNCHANGED Data /\ UNCHANGED left /\ waiting' = waiting /\ spurious' = spurious
    BY DEF Data
<1>3. /\ pc' \in [Threads -> PCs] /\ pc'[t] = v /\ \A u \in Threads : u # t => pc'[u] = pc[u]
      /\ waiting' = [cond \in Conds |-> {u \in Threads : pc'[u] = "blocked" /\ CondOf(u) = cond}]
    BY <1>1, <1>2, OneThreadMoves, Zenon
<1>4. LockInv' /\ mutex' \in Threads \cup {NoThread} /\ m_holder_pid' \in Threads \cup {NoThread}
    BY <1>1, <1>3, LocksKept DEF ControlType
<1>5. ControlType'
    BY <1>1, <1>2, <1>3, <1>4 DEF ControlType
<1>6. HasPushes'
  <2>1. \A p \in Producers : p \in Threads
      BY DEF Threads
  <2> QED
      BY <1>1, <1>2, <1>3, <2>1 DEF HasPushes
<1> QED
    BY <1>2, <1>4, <1>5, <1>6, DataUnchanged

\* pthread_mutex_lock, or the return from pthread_cond_wait.
LEMMA LockKeeps ==
  ASSUME DequeInv, NEW t \in Threads, Lock(t)
  PROVE DequeInv'
<1>1. LockInv /\ HasPushes /\ ControlType
    BY TypeParts DEF DequeInv
<1>2. LocksFollow(t, "assign")
    BY <1>1, TaskDequeAssumption DEF Lock, LockInv, LocksFollow, Holding, Asserting, ControlType
<1>3. "assign" \in PCs
    BY DEF PCs, Holding
<1>4. t \in Producers => left[t] > 0
    BY <1>1 DEF Lock, HasPushes
<1> QED
    BY <1>2, <1>3, <1>4, MoveKeeps, Zenon DEF Lock

\* assign_holder.
LEMMA AssignKeeps ==
  ASSUME DequeInv, NEW t \in Threads, Assign(t)
  PROVE DequeInv'
<1>1. LockInv /\ HasPushes /\ ControlType
    BY TypeParts DEF DequeInv
<1>2. LocksFollow(t, "test")
    BY <1>1, TaskDequeAssumption DEF Assign, LockInv, LocksFollow, Holding, Asserting, ControlType
<1>3. "test" \in PCs
    BY DEF PCs, Holding
<1>4. t \in Producers => left[t] > 0
    BY <1>1 DEF Assign, HasPushes
<1> QED
    BY <1>2, <1>3, <1>4, MoveKeeps, Zenon DEF Assign

\* unassign_holder, before the wait.
LEMMA UnassignKeeps ==
  ASSUME DequeInv, NEW t \in Threads, Unassign(t)
  PROVE DequeInv'
<1>1. LockInv /\ HasPushes /\ ControlType
    BY TypeParts DEF DequeInv
<1>2. LocksFollow(t, "block")
    BY <1>1, TaskDequeAssumption DEF Unassign, LockInv, LocksFollow, Holding, Asserting, ControlType
<1>3. "block" \in PCs
    BY DEF PCs, Holding
<1>4. t \in Producers => left[t] > 0
    BY <1>1 DEF Unassign, HasPushes
<1> QED
    BY <1>2, <1>3, <1>4, MoveKeeps, Zenon DEF Unassign

\* The tests of push and of take_one that end in a wait.
LEMMA WaitKeeps ==
  ASSUME DequeInv, NEW t \in Threads, Wait(t)
  PROVE DequeInv'
<1>1. LockInv /\ HasPushes /\ ControlType
    BY TypeParts DEF DequeInv
<1>2. LocksFollow(t, "unassign")
    BY <1>1, TaskDequeAssumption DEF Wait, LockInv, LocksFollow, Holding, Asserting, ControlType
<1>3. "unassign" \in PCs
    BY DEF PCs, Holding
<1>4. t \in Producers => left[t] > 0
    BY <1>1 DEF Wait, HasPushes
<1> QED
    BY <1>2, <1>3, <1>4, MoveKeeps, Zenon DEF Wait

\* unassign_holder, at the end of the scope of a MutexLockGuard.
LEMMA ReleaseKeeps ==
  ASSUME DequeInv, NEW t \in Threads, Release(t)
  PROVE DequeInv'
<1>1. LockInv
    BY DEF DequeInv
<1>2. LocksFollow(t, "unlock")
    BY <1>1, TaskDequeAssumption DEF Release, LockInv, LocksFollow, Holding, Asserting
<1>3. "unlock" \in PCs
    BY DEF PCs, Holding
<1> QED
    BY <1>2, <1>3, MoveKeeps, Zenon DEF Release

\* pthread_mutex_unlock.
LEMMA UnlockKeeps ==
  ASSUME DequeInv, NEW t \in Threads, Unlock(t)
  PROVE DequeInv'
<1>1. LockInv /\ ControlType /\ left \in [Producers -> 0..MaxPushes]
    BY TypeParts DEF DequeInv, DataType
<1>2. /\ After(t) \in {"lock", "done", "loop", "join"}
      /\ t \in Producers /\ After(t) # "done" => left[t] > 0
    BY <1>1, TaskDequeAssumption DEF After, Threads
<1>3. LocksFollow(t, After(t))
    BY <1>1, <1>2, TaskDequeAssumption DEF Unlock, LockInv, LocksFollow, Holding, Asserting
<1>4. After(t) \in PCs
    BY <1>2 DEF PCs
<1> QED
    BY <1>2, <1>3, <1>4, MoveKeeps, Zenon DEF Unlock

\* A thread outside of the mutex that stays there.
LEMMA OutsideKeeps ==
  ASSUME DequeInv, NEW t \in Threads \ Producers, NEW v \in {"lock", "done"},
         pc[t] \in {"loop", "user", "join"}, pc' = [pc EXCEPT ![t] = v],
         UNCHANGED <<Data, mutex, m_holder_pid, waiting, spurious>>
  PROVE  DequeInv'
<1>1. LockInv
    BY DEF DequeInv
<1>2. LocksFollow(t, v)
    BY <1>1, TaskDequeAssumption DEF LockInv, LocksFollow, Holding, Asserting
<1>3. v \in PCs
    BY DEF PCs
<1> QED
    BY <1>2, <1>3, MoveKeeps, Zenon

\* The loop of a worker.
LEMMA WorkerLoopKeeps ==
  ASSUME DequeInv, NEW c \in Consumers, WorkerLoop(c)
  PROVE DequeInv'
<1>1. c \in Threads \ Producers
    BY TaskDequeAssumption DEF Threads
<1> QED
    BY <1>1, OutsideKeeps, Zenon DEF WorkerLoop

\* The owner calls stop or set_size.
LEMMA OwnerCallsKeeps ==
  ASSUME DequeInv, OwnerCalls
  PROVE DequeInv'
<1>1. Owner \in Threads \ Producers
    BY TaskDequeAssumption DEF Threads
<1> QED
    BY <1>1, OutsideKeeps, Zenon DEF OwnerCalls

\* stop joins the workers.
LEMMA JoinKeeps ==
  ASSUME DequeInv, Join
  PROVE DequeInv'
<1>1. Owner \in Threads \ Producers
    BY TaskDequeAssumption DEF Threads
<1> QED
    BY <1>1, OutsideKeeps, Zenon DEF Join

\* pthread_cond_wait gives up the mutex and starts to wait.
LEMMA BlockKeeps ==
  ASSUME DequeInv, NEW t \in Threads, Block(t)
  PROVE DequeInv'
<1>1. LockInv /\ ControlType /\ HasPushes
    BY TypeParts DEF DequeInv
<1>2. LocksFollow(t, "blocked")
    BY <1>1, TaskDequeAssumption DEF Block, LockInv, LocksFollow, Holding, Asserting
<1>3. pc' \in [Threads -> PCs] /\ pc'[t] = "blocked" /\ \A u \in Threads : u # t => pc'[u] = pc[u]
    BY <1>1 DEF Block, ControlType, PCs
<1>4. LockInv' /\ mutex' \in Threads \cup {NoThread} /\ m_holder_pid' \in Threads \cup {NoThread}
    BY <1>1, <1>2, <1>3, LocksKept DEF ControlType
<1>5. waiting' = [cond \in Conds |-> {u \in Threads : pc'[u] = "blocked" /\ CondOf(u) = cond}]
  <2>1. CondOf(t) \in Conds
      BY CondOfType
  <2> QED
      BY <1>1, <1>3, <2>1 DEF ControlType, Block
<1>6. ControlType'
    BY <1>1, <1>3, <1>4, <1>5, Zenon DEF ControlType, Block
<1>7. HasPushes'
  <2>1. \A p \in Producers : p \in Threads
      BY DEF Threads
  <2> QED
      BY <1>1, <1>3, <2>1 DEF HasPushes, Block, Data
<1> QED
    BY <1>4, <1>6, <1>7, DataUnchanged DEF Block

\* A wakeup nobody asked for.
LEMMA WakeSpuriouslyKeeps ==
  ASSUME DequeInv, NEW t \in Threads, WakeSpuriously(t)
  PROVE DequeInv'
<1>1. LockInv /\ ControlType /\ HasPushes
    BY TypeParts DEF DequeInv
<1>2. LocksFollow(t, "woken")
    BY <1>1, TaskDequeAssumption DEF WakeSpuriously, LockInv, LocksFollow, Holding, Asserting
<1>3. pc' \in [Threads -> PCs] /\ pc'[t] = "woken" /\ \A u \in Threads : u # t => pc'[u] = pc[u]
    BY <1>1 DEF WakeSpuriously, ControlType, PCs
<1>4. LockInv' /\ mutex' \in Threads \cup {NoThread} /\ m_holder_pid' \in Threads \cup {NoThread}
    BY <1>1, <1>2, <1>3, LocksKept DEF ControlType
<1>5. waiting' = [cond \in Conds |-> {u \in Threads : pc'[u] = "blocked" /\ CondOf(u) = cond}]
  <2>1. CondOf(t) \in Conds
      BY CondOfType
  <2> QED
      BY <1>1, <1>3, <2>1 DEF ControlType, WakeSpuriously
<1>6. ControlType'
  <2>1. spurious' \in Nat
      BY <1>1 DEF ControlType, WakeSpuriously
  <2> QED
      BY <1>3, <1>4, <1>5, <2>1 DEF ControlType
<1>7. HasPushes'
  <2>1. \A p \in Producers : p \in Threads
      BY DEF Threads
  <2> QED
      BY <1>1, <1>3, <2>1 DEF HasPushes, WakeSpuriously, Data
<1> QED
    BY <1>4, <1>6, <1>7, DataUnchanged DEF WakeSpuriously

\* A thread that is at the end of its work under the mutex, with the waiters it wakes.
Finishes(t) ==
  /\ pc'[t] = "release"
  /\ \A u \in Threads \ {t} : pc'[u] = pc[u] \/ (pc[u] = "blocked" /\ pc'[u] = "woken")

\* Condition::notify and notify_all: waiters leave the condition, and have to
\* get the mutex like any other thread.
LEMMA WakesKeeps ==
  ASSUME ControlType, LockInv, NEW t \in Threads, pc[t] = "test", NEW cond \in Conds,
         NEW woken, woken \subseteq waiting[cond], Wakes(t, cond, woken),
         UNCHANGED <<mutex, m_holder_pid, spurious>>
  PROVE  ControlType' /\ LockInv' /\ Finishes(t)
<1>1. /\ pc \in [Threads -> PCs]
      /\ waiting = [c \in Conds |-> {u \in Threads : pc[u] = "blocked" /\ CondOf(u) = c}]
    BY DEF ControlType
<1>2. \A u \in woken : u \in Threads /\ pc[u] = "blocked" /\ CondOf(u) = cond
    BY <1>1
<1>3. pc' = [u \in Threads |-> IF u = t THEN "release" ELSE IF u \in woken THEN "woken" ELSE pc[u]]
    BY DEF Wakes
<1>4. pc' \in [Threads -> PCs]
    BY <1>1, <1>3 DEF PCs, Holding
<1>5. Finishes(t)
    BY <1>2, <1>3 DEF Finishes
<1>6. LocksFollow(t, "release")
    BY TaskDequeAssumption DEF LockInv, LocksFollow, Holding, Asserting
<1>7. LockInv' /\ mutex' \in Threads \cup {NoThread} /\ m_holder_pid' \in Threads \cup {NoThread}
    BY <1>5, <1>6, LocksKept DEF ControlType, Finishes
<1>8. waiting' = [c \in Conds |-> {u \in Threads : pc'[u] = "blocked" /\ CondOf(u) = c}]
  <2>1. \A u \in Threads : pc'[u] = "blocked" <=> pc[u] = "blocked" /\ u \notin woken
      BY <1>2, <1>3
  <2>2. waiting' = [waiting EXCEPT ![cond] = waiting[cond] \ woken]
      BY DEF Wakes
  <2>3. ASSUME NEW c \in Conds
        PROVE  waiting'[c] = {u \in Threads : pc'[u] = "blocked" /\ CondOf(u) = c}
    <3>1. CASE c = cond
        BY <1>1, <2>1, <2>2, <3>1
    <3>2. CASE c # cond
        BY <1>1, <1>2, <2>1, <2>2, <3>2
    <3> QED
        BY <3>1, <3>2
  <2>4. waiting' = [c \in Conds |-> waiting'[c]]
      BY <1>1, <2>2
  <2> QED
      BY <2>3, <2>4
<1> QED
    BY <1>4, <1>5, <1>7, <1>8 DEF ControlType

\* notify wakes one of the waiters, if there is one.
LEMMA NotifyKeeps ==
  ASSUME ControlType, LockInv, NEW t \in Threads, pc[t] = "test", NEW cond \in Conds,
         notify(t, cond), UNCHANGED <<mutex, m_holder_pid, spurious>>
  PROVE  ControlType' /\ LockInv' /\ Finishes(t)
<1>1. PICK woken : woken \subseteq waiting[cond] /\ Wakes(t, cond, woken)
  <2>1. CASE waiting[cond] = {}
    <3>1. Wakes(t, cond, {})
        BY <2>1 DEF notify
    <3> QED
        BY <3>1
  <2>2. CASE waiting[cond] # {}
    <3>1. PICK u \in waiting[cond] : Wakes(t, cond, {u})
        BY <2>2 DEF notify
    <3>2. {u} \subseteq waiting[cond]
        BY <3>1
    <3> QED
        BY <3>1, <3>2
  <2> QED
      BY <2>1, <2>2
<1> QED
    BY <1>1, WakesKeeps

(***************************************************************************)
(* The deques.                                                             *)
(***************************************************************************)

\* No task is in q twice.
Once(q) == \A j, k \in DOMAIN q : q[j] = q[k] /\ q[j] # 0 => j = k

\* The elements of S in d, and x, are in e.
Pushed(S, d, x, e) ==
  /\ e \in Seq(S \cup {x}) /\ Len(e) = Len(d) + 1 /\ ToSet(e) = ToSet(d) \cup {x}
  /\ Once(d) => Once(e)

\* push_back and push_front: the deque has the new task, and all it had.
LEMMA PushedAtAnEnd ==
  ASSUME NEW S, NEW d \in Seq(S), NEW x, x \notin ToSet(d), NEW e, e = Append(d, x) \/ e = <<x>> \o d
  PROVE  Pushed(S, d, x, e)
<1>1. CASE e = Append(d, x)
  <2>1. /\ e \in Seq(S \cup {x}) /\ Len(e) = Len(d) + 1 /\ e[Len(d) + 1] = x
        /\ \A k \in 1..Len(d) : e[k] = d[k]
      BY <1>1
  <2>2. ToSet(e) = ToSet(d) \cup {x}
      BY <2>1 DEF ToSet
  <2>3. Once(d) => Once(e)
      BY <2>1 DEF ToSet, Once
  <2> QED
      BY <2>1, <2>2, <2>3 DEF Pushed
<1>2. CASE e = <<x>> \o d
  <2>1. /\ e \in Seq(S \cup {x}) /\ Len(e) = Len(d) + 1 /\ e[1] = x
        /\ \A k \in 1..Len(d) : e[k + 1] = d[k]
      BY <1>2
  <2>2. \A k \in 2..Len(e) : e[k] = d[k - 1] /\ k - 1 \in 1..Len(d)
      BY <2>1
  <2>3. ASSUME NEW y PROVE y \in ToSet(e) <=> y \in ToSet(d) \cup {x}
    <3>1. ASSUME y \in ToSet(d) PROVE y \in ToSet(e)
      <4>1. PICK k \in 1..Len(d) : y = d[k]
          BY <3>1 DEF ToSet
      <4>2. k + 1 \in DOMAIN e /\ e[k + 1] = y
          BY <2>1, <4>1
      <4> QED
          BY <4>2 DEF ToSet
    <3>2. x \in ToSet(e)
        BY <2>1 DEF ToSet
    <3>3. ASSUME y \in ToSet(e) PROVE y \in ToSet(d) \cup {x}
      <4>1. PICK k \in 1..Len(e) : y = e[k]
          BY <2>1, <3>3 DEF ToSet
      <4>2. k = 1 \/ k \in 2..Len(e)
          BY <4>1
      <4> QED
          BY <2>1, <2>2, <4>1, <4>2 DEF ToSet
    <3> QED
        BY <3>1, <3>2, <3>3
  <2>4. ASSUME Once(d), NEW j \in DOMAIN e, NEW k \in DOMAIN e, e[j] = e[k], e[j] # 0 PROVE j = k
    <3>1. j \in 1..Len(e) /\ k \in 1..Len(e)
        BY <2>1
    <3>2. \A l \in 2..Len(e) : e[l] # x
      <4>1. \A m \in 1..Len(d) : d[m] # x
          BY DEF ToSet
      <4> QED
          BY <2>2, <4>1
    <3>3. CASE j = 1 \/ k = 1
        BY <2>1, <2>4, <3>1, <3>2, <3>3
    <3>4. CASE j # 1 /\ k # 1
      <4>1. j - 1 \in DOMAIN d /\ k - 1 \in DOMAIN d /\ d[j - 1] = d[k - 1] /\ d[j - 1] # 0
          BY <2>2, <2>4, <3>1, <3>4
      <4>2. j - 1 = k - 1
          BY <2>4, <4>1 DEF Once
      <4> QED
          BY <3>1, <4>2
    <3> QED
        BY <3>3, <3>4
  <2> QED
      BY <2>1, <2>3, <2>4 DEF Once, Pushed
<1> QED
    BY <1>1, <1>2

\* pop_front: what the deque had is its first element and what it has.
LEMMA PoppedAtFront ==
  ASSUME NEW S, NEW d \in Seq(S), d # <<>>, Once(d)
  PROVE  /\ Head(d) \in S /\ Tail(d) \in Seq(S) /\ Len(Tail(d)) = Len(d) - 1
         /\ ToSet(d) = ToSet(Tail(d)) \cup {Head(d)} /\ Once(Tail(d))
         /\ Head(d) # 0 => Head(d) \notin ToSet(Tail(d))
<1> DEFINE e == Tail(d)
<1>1. /\ Head(d) = d[1] /\ Head(d) \in S /\ e \in Seq(S) /\ Len(d) \in Nat \ {0} /\ Len(e) = Len(d) - 1
      /\ \A k \in 1..Len(e) : e[k] = d[k + 1]
    OBVIOUS
<1> HIDE DEF e
<1>2. \A k \in 2..Len(d) : d[k] = e[k - 1] /\ k - 1 \in 1..Len(e)
    BY <1>1
<1>3. ASSUME NEW y PROVE y \in ToSet(d) <=> y \in ToSet(e) \cup {Head(d)}
  <2>1. ASSUME y \in ToSet(e) PROVE y \in ToSet(d)
    <3>1. PICK k \in 1..Len(e) : y = e[k]
        BY <1>1, <2>1 DEF ToSet
    <3>2. k + 1 \in DOMAIN d /\ d[k + 1] = y
        BY <1>1, <3>1
    <3> QED
        BY <3>2 DEF ToSet
  <2>2. Head(d) \in ToSet(d)
      BY <1>1 DEF ToSet
  <2>3. ASSUME y \in ToSet(d) PROVE y \in ToSet(e) \cup {Head(d)}
    <3>1. PICK k \in 1..Len(d) : y = d[k]
        BY <2>3 DEF ToSet
    <3>2. k = 1 \/ k \in 2..Len(d)
        BY <3>1
    <3> QED
        BY <1>1, <1>2, <3>1, <3>2 DEF ToSet
  <2> QED
      BY <2>1, <2>2, <2>3
<1>4. Once(e)
  <2>1. SUFFICES ASSUME NEW j \in 1..Len(e), NEW k \in 1..Len(e), e[j] = e[k], e[j] # 0 PROVE j = k
      BY <1>1 DEF Once
  <2>2. j + 1 \in DOMAIN d /\ k + 1 \in DOMAIN d
      BY <1>1
  <2>3. d[j + 1] = d[k + 1] /\ d[j + 1] # 0
      BY <1>1, <2>1
  <2>4. j + 1 = k + 1
      BY <2>2, <2>3 DEF Once
  <2> QED
      BY <2>4
<1>5. ASSUME Head(d) # 0, NEW k \in 1..Len(e) PROVE e[k] # Head(d)
  <2>1. k + 1 \in DOMAIN d /\ 1 \in DOMAIN d /\ k + 1 # 1
      BY <1>1
  <2> QED
      BY <1>1, <1>5, <2>1 DEF Once
<1>6. Head(d) # 0 => Head(d) \notin ToSet(e)
    BY <1>1, <1>5 DEF ToSet
<1> QED
    BY <1>1, <1>3, <1>4, <1>6 DEF e

\* push: a task with a new id, and room for it.
LEMMA PushKeeps ==
  ASSUME DequeInv, NEW p \in Producers, push(p)
  PROVE DequeInv'
<1>1. DataType /\ ControlType /\ HasPushes /\ LockInv /\ DequeBounded /\ EachTaskOnce
    BY TypeParts DEF DequeInv
<1>2. /\ pc[p] = "test" /\ ~is_full /\ m_id_counter' = m_id_counter + 1 /\ left' = [left EXCEPT ![p] = @ - 1]
      /\ deque' = Append(deque, m_id_counter') \/ deque' = <<m_id_counter'>> \o deque
      /\ notify(p, "not_empty")
      /\ UNCHANGED <<kind, m_max_queue_size, m_is_running, taken, mutex, m_holder_pid, spurious>>
    BY DEF push
<1>3. p \in Threads /\ \A q \in Producers : q \in Threads
    BY DEF Threads
<1>4. ControlType' /\ LockInv' /\ Finishes(p)
  <2>1. "not_empty" \in Conds
      BY DEF Conds
  <2> QED
      BY <1>1, <1>2, <1>3, <2>1, NotifyKeeps
<1>5. /\ m_id_counter \in Nat /\ m_id_counter' \in Nat /\ m_max_queue_size \in Nat
      /\ deque \in Seq(0..m_id_counter) /\ taken \in Seq(1..m_id_counter)
      /\ left \in [Producers -> 0..MaxPushes] /\ left[p] > 0
  <2>1. left[p] > 0
      BY <1>1, <1>2 DEF HasPushes
  <2> QED
      BY <1>1, <1>2, <2>1 DEF DataType
<1>6. left' \in [Producers -> 0..MaxPushes] /\ \A q \in Producers \ {p} : left'[q] = left[q]
    BY <1>2, <1>5, TaskDequeAssumption
<1>7. HasPushes'
    BY <1>1, <1>3, <1>4, <1>6 DEF HasPushes, Finishes
<1>8. m_id_counter' \notin ToSet(deque) /\ m_id_counter' \notin ToSet(taken)
    BY <1>2, <1>5 DEF ToSet
<1>9. /\ deque' \in Seq((0..m_id_counter) \cup {m_id_counter'}) /\ Len(deque') = Len(deque) + 1
      /\ ToSet(deque') = ToSet(deque) \cup {m_id_counter'}
      /\ Once(deque) => Once(deque')
  <2>1. deque \in Seq(0..m_id_counter)
      BY <1>5
  <2>2. deque' = Append(deque, m_id_counter') \/ deque' = <<m_id_counter'>> \o deque
      BY <1>2
  <2>3. m_id_counter' \notin ToSet(deque)
      BY <1>8
  <2> QED
    <3>1. Pushed(0..m_id_counter, deque, m_id_counter', deque')
        BY <2>1, <2>2, <2>3, PushedAtAnEnd, Zenon
    <3> QED
        BY <3>1 DEF Pushed
<1>10. /\ (0..m_id_counter) \cup {m_id_counter'} = 0..m_id_counter'
       /\ (1..m_id_counter) \cup {m_id_counter'} = 1..m_id_counter'
    BY <1>2, <1>5
<1>11. DataType'
  <2>1. deque' \in Seq(0..m_id_counter')
      BY <1>9, <1>10
  <2>2. taken' \in Seq(1..m_id_counter')
      BY <1>2, <1>5
  <2> QED
      BY <1>1, <1>2, <1>5, <1>6, <2>1, <2>2 DEF DataType
<1>12. DequeBounded'
    BY <1>1, <1>2, <1>5, <1>9 DEF DequeBounded, is_full, DataType
<1>13. EachTaskOnce'
  <2>1. Once(deque')
      BY <1>1, <1>9 DEF EachTaskOnce, Once
  <2>2. ToSet(taken) \cup (ToSet(deque') \ {0}) = 1..m_id_counter'
    <3>1. m_id_counter' # 0
        BY <1>2, <1>5
    <3> QED
        BY <1>1, <1>9, <1>10, <3>1 DEF EachTaskOnce
  <2>3. ToSet(taken) \cap ToSet(deque') = {}
      BY <1>1, <1>8, <1>9 DEF EachTaskOnce
  <2> QED
      BY <1>1, <1>2, <2>1, <2>2, <2>3 DEF EachTaskOnce, Once
<1>14. TypeOK'
    BY <1>4, <1>7, <1>11, TypeParts, PTL
<1> QED
    BY <1>4, <1>12, <1>13, <1>14 DEF DequeInv

\* The producers of a step that ends in t's unlocking.
LEMMA FinishesHasPushes ==
  ASSUME HasPushes, NEW t \in Threads, Finishes(t), left' = left PROVE HasPushes'
<1>1. \A q \in Producers : q \in Threads
    BY DEF Threads
<1> QED
    BY <1>1 DEF HasPushes, Finishes

\* take_one and take_front: the first task moves from the deque to its taker.
LEMMA TakeKeeps ==
  ASSUME DequeInv, NEW c \in Consumers, take(c)
  PROVE DequeInv'
<1>1. DataType /\ ControlType /\ HasPushes /\ LockInv /\ DequeBounded /\ EachTaskOnce
    BY TypeParts DEF DequeInv
<1>2. pc[c] = "test" /\ UNCHANGED <<kind, m_max_queue_size, m_is_running, left, m_id_counter, mutex, m_holder_pid, spurious>>
    BY DEF take
<1>3. c \in Threads /\ "not_full" \in Conds
    BY DEF Threads, Conds
<1>4. ControlType' /\ LockInv' /\ Finishes(c)
  <2>1. CASE Wakes(c, "not_full", {})
      BY <1>1, <1>2, <1>3, <2>1, WakesKeeps
  <2>2. CASE notify(c, "not_full")
      BY <1>1, <1>2, <1>3, <2>2, NotifyKeeps
  <2> QED
      BY <2>1, <2>2 DEF take
<1>5. HasPushes'
    BY <1>1, <1>2, <1>3, <1>4, FinishesHasPushes
<1>6. DataType' /\ DequeBounded' /\ EachTaskOnce'
  <2>1. CASE deque = <<>>
    <3>1. UNCHANGED <<deque, taken>>
        BY <2>1 DEF take
    <3> QED
        BY <1>1, <1>2, <3>1 DEF DataType, DequeBounded, EachTaskOnce
  <2>2. CASE deque # <<>>
    <3> DEFINE h == Head(deque)
               e == Tail(deque)
    <3>1. deque' = e /\ taken' = IF h = 0 THEN taken ELSE Append(taken, h)
        BY <2>2 DEF take
    <3>2. deque \in Seq(0..m_id_counter) /\ taken \in Seq(1..m_id_counter) /\ m_id_counter \in Nat
        BY <1>1 DEF DataType
    <3>3. /\ Once(deque) /\ ToSet(taken) \cup (ToSet(deque) \ {0}) = 1..m_id_counter
          /\ ToSet(taken) \cap ToSet(deque) = {}
          /\ \A j, k \in DOMAIN taken : taken[j] = taken[k] => j = k
        BY <1>1 DEF EachTaskOnce, Once
    <3>4. /\ h \in 0..m_id_counter /\ e \in Seq(0..m_id_counter) /\ Len(e) = Len(deque) - 1
          /\ ToSet(deque) = ToSet(e) \cup {h} /\ Once(e)
          /\ h # 0 => h \notin ToSet(e)
        BY <2>2, <3>2, <3>3, PoppedAtFront
    <3> HIDE DEF h, e
    <3>5. DequeBounded'
      <4>1. Len(deque) \in Nat /\ Len(deque') <= Len(deque) /\ m_max_queue_size \in Nat
          BY <1>1, <3>1, <3>2, <3>4 DEF DataType
      <4> QED
          BY <1>1, <1>2, <3>1, <3>4, <4>1, TaskDequeAssumption DEF DequeBounded
    <3>6. CASE h = 0
      <4>1. ToSet(e) \ {0} = ToSet(deque) \ {0} /\ ToSet(taken) \cap ToSet(e) = {}
          BY <3>3, <3>4, <3>6
      <4>2. EachTaskOnce'
          BY <1>2, <3>1, <3>3, <3>4, <3>6, <4>1 DEF EachTaskOnce, Once
      <4>3. DataType'
          BY <1>1, <1>2, <3>1, <3>4, <3>6 DEF DataType
      <4> QED
          BY <3>5, <4>2, <4>3
    <3>7. CASE h # 0
      <4>1. h \in 1..m_id_counter /\ h \notin ToSet(taken) /\ h \notin ToSet(e)
          BY <3>2, <3>3, <3>4, <3>7
      <4>2. Pushed(1..m_id_counter, taken, h, taken')
          BY <3>1, <3>2, <3>7, <4>1, PushedAtAnEnd, Zenon
      <4>3. Once(taken)
          BY <3>3 DEF Once
      <4>4. taken' \in Seq(1..m_id_counter)
          BY <3>1, <3>2, <3>7, <4>1
      <4>5. ToSet(taken') = ToSet(taken) \cup {h} /\ Once(taken')
          BY <4>2, <4>3 DEF Pushed
      <4>6. \A j, k \in DOMAIN taken' : taken'[j] = taken'[k] => j = k
        <5>1. \A j \in DOMAIN taken' : taken'[j] # 0
            BY <3>2, <4>4
        <5> QED
            BY <4>5, <5>1 DEF Once
      <4>7. /\ ToSet(taken') \cup (ToSet(e) \ {0}) = 1..m_id_counter
            /\ ToSet(taken') \cap ToSet(e) = {}
          BY <3>3, <3>4, <3>7, <4>1, <4>5
      <4>8. EachTaskOnce'
          BY <1>2, <3>1, <3>4, <4>6, <4>7 DEF EachTaskOnce, Once
      <4>9. DataType'
          BY <1>1, <1>2, <3>1, <3>4, <4>4 DEF DataType
      <4> QED
          BY <3>5, <4>8, <4>9
    <3> QED
        BY <3>6, <3>7
  <2> QED
      BY <2>1, <2>2
<1>7. TypeOK'
    BY <1>4, <1>5, <1>6, TypeParts, PTL
<1> QED
    BY <1>4, <1>6, <1>7 DEF DequeInv

\* stop wakes every worker.
LEMMA StopKeeps ==
  ASSUME DequeInv, stop
  PROVE DequeInv'
<1>1. DataType /\ ControlType /\ HasPushes /\ LockInv /\ DequeBounded /\ EachTaskOnce
    BY TypeParts DEF DequeInv
<1>2. Owner \in Threads /\ "not_empty" \in Conds
    BY DEF Threads, Conds
<1>3. /\ pc[Owner] = "test" /\ m_is_running' = FALSE /\ Wakes(Owner, "not_empty", waiting["not_empty"])
      /\ UNCHANGED <<kind, m_max_queue_size, deque, left, m_id_counter, taken, mutex, m_holder_pid, spurious>>
    BY DEF stop
<1>4. ControlType' /\ LockInv' /\ Finishes(Owner)
    BY <1>1, <1>2, <1>3, WakesKeeps
<1>5. HasPushes'
    BY <1>1, <1>2, <1>3, <1>4, FinishesHasPushes
<1>6. DataType'
    BY <1>1, <1>3, Zenon DEF DataType
<1>7. DequeBounded' /\ EachTaskOnce'
    BY <1>1, <1>3 DEF DequeBounded, EachTaskOnce
<1>8. TypeOK'
    BY <1>4, <1>5, <1>6, TypeParts, PTL
<1> QED
    BY <1>4, <1>7, <1>8 DEF DequeInv

\* set_size allows one more.
LEMMA SetSizeKeeps ==
  ASSUME DequeInv, set_size
  PROVE DequeInv'
<1>1. DataType /\ ControlType /\ HasPushes /\ LockInv /\ DequeBounded /\ EachTaskOnce
    BY TypeParts DEF DequeInv
<1>2. Owner \in Threads /\ "release" \in PCs
    BY DEF Threads, PCs, Holding
<1>3. /\ pc[Owner] = "test" /\ kind = "BoundedBlockingDeque" /\ m_max_queue_size' = m_max_queue_size + 1
      /\ pc' = [pc EXCEPT ![Owner] = "release"]
      /\ UNCHANGED <<kind, deque, m_is_running, left, m_id_counter, taken, mutex, m_holder_pid, waiting, spurious>>
    BY DEF set_size
<1>4. /\ pc' \in [Threads -> PCs] /\ pc'[Owner] = "release" /\ \A u \in Threads : u # Owner => pc'[u] = pc[u]
      /\ waiting' = [cond \in Conds |-> {u \in Threads : pc'[u] = "blocked" /\ CondOf(u) = cond}]
    BY <1>1, <1>2, <1>3, OneThreadMoves, Zenon
<1>5. LocksFollow(Owner, "release")
    BY <1>1, <1>2, <1>3, TaskDequeAssumption DEF LockInv, LocksFollow, Holding, Asserting
<1>6. LockInv' /\ mutex' \in Threads \cup {NoThread} /\ m_holder_pid' \in Threads \cup {NoThread}
    BY <1>1, <1>2, <1>4, <1>5, LocksKept DEF ControlType
<1>7. ControlType'
    BY <1>1, <1>3, <1>4, <1>6 DEF ControlType
<1>8. HasPushes'
    BY <1>1, <1>2, <1>3, <1>4, FinishesHasPushes DEF Finishes
<1>9. DataType'
    BY <1>1, <1>3 DEF DataType
<1>10. DequeBounded' /\ EachTaskOnce'
  <2>1. Len(deque) \in Nat /\ m_max_queue_size \in Nat
      BY <1>1 DEF DataType
  <2>2. DequeBounded'
      BY <1>1, <1>3, <2>1 DEF DequeBounded
  <2> QED
      BY <1>1, <1>3, <2>2 DEF EachTaskOnce
<1>11. TypeOK'
    BY <1>7, <1>8, <1>9, TypeParts, PTL
<1> QED
    BY <1>6, <1>10, <1>11 DEF DequeInv

(***************************************************************************)
(* The theorems.                                                           *)
(***************************************************************************)

\* DequeInv is inductive.
LEMMA NextInv == DequeInv /\ [Next]_vars => DequeInv'
<1> SUFFICES ASSUME DequeInv, [Next]_vars PROVE DequeInv'
    OBVIOUS
<1>1. ASSUME NEW p \in Producers, push(p) PROVE DequeInv'
    BY <1>1, PushKeeps
<1>2. ASSUME NEW c \in Consumers, take(c) \/ WorkerLoop(c) PROVE DequeInv'
    BY <1>2, TakeKeeps, WorkerLoopKeeps
<1>3. CASE stop \/ Join \/ set_size \/ OwnerCalls
    BY <1>3, StopKeeps, JoinKeeps, SetSizeKeeps, OwnerCallsKeeps
<1>4. ASSUME NEW t \in Threads, ThreadStep(t) PROVE DequeInv'
    BY <1>4, LockKeeps, AssignKeeps, UnassignKeeps, BlockKeeps, ReleaseKeeps, UnlockKeeps, WaitKeeps
       DEF ThreadStep
<1>5. ASSUME NEW t \in Threads, WakeSpuriously(t) PROVE DequeInv'
    BY <1>5, WakeSpuriouslyKeeps
<1>6. CASE UNCHANGED vars
  <2>1. UNCHANGED Data /\ UNCHANGED <<mutex, m_holder_pid, waiting, pc, spurious, left>>
      BY <1>6 DEF vars, Data
  <2>2. ControlType /\ HasPushes /\ LockInv
      BY TypeParts DEF DequeInv
  <2>3. ControlType'
      BY <2>1, <2>2 DEF ControlType
  <2>4. HasPushes' /\ LockInv'
      BY <2>1, <2>2 DEF HasPushes, LockInv
  <2> QED
      BY <2>1, <2>3, <2>4, DataUnchanged
<1> QED
    BY <1>1, <1>2, <1>3, <1>4, <1>5, <1>6 DEF Next, Steps

\* The deques keep every task for one consumer and stay within their limit,
\* and one thread at a time is inside the mutex, for any number of producers,
\* consumers, pushes and spurious wakeups (push, take_one, take_front, stop,
\* set_size, MutexLock, Condition).
THEOREM DequeSafety == Spec => []DequeInv
  BY InitInv, NextInv, PTL DEF Spec

\* The holder asserted in is_full and in MutexLock's destructor is right: it is
\* the thread that has the mutex wherever the deque is touched, and nobody when
\* the mutex is free (assign_holder, unassign_holder, Condition::wait).
THEOREM HolderSafety == Spec => []HolderIsOwner
<1>1. DequeInv => HolderIsOwner
  <2> SUFFICES ASSUME DequeInv PROVE HolderIsOwner
      OBVIOUS
  <2>1. LockInv /\ ControlType
      BY TypeParts DEF DequeInv
  <2> QED
      BY <2>1, TaskDequeAssumption DEF HolderIsOwner, LockInv, Holding, ControlType
<1> QED
    BY <1>1, DequeSafety, PTL
=============================================================================
