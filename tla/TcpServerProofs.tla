-------------------------- MODULE TcpServerProofs --------------------------
(***************************************************************************)
(* Proofs about TcpServer and its ReactorThreadPool, for any number of     *)
(* threads and connections: no reactor is used that does not exist,        *)
(* connections are spread in turn, and a server that is gone has reported  *)
(* its connections down and closed their descriptors.                      *)
(***************************************************************************)
EXTENDS TcpServer, FiniteSetTheorems, WellFoundedInduction, TLAPS

Mains == Starting \cup Ending \cup {"destroy_conns", "aborted"}
PCs == {"none", "created", "latched", "built", "exited"} \cup Published

(***************************************************************************)
(* TypeOK in parts: the pool, the tasks, the connections.                  *)
(***************************************************************************)
PoolType ==
  /\ m_size_pool \in Nat /\ m_size_pool <= MaxThreads
  /\ main \in Mains
  /\ waiting \in {"none", "latch", "m_cond"}
  /\ pc \in [Threads -> PCs]
  /\ m_count \in [Threads -> {0, 1}]

FlagType ==
  /\ misused \in BOOLEAN
  /\ m_reactor \in [Threads -> BOOLEAN] /\ m_going_to_quit \in [Threads -> BOOLEAN]
  /\ asked \in [Threads -> BOOLEAN] /\ cut \in [Threads -> BOOLEAN]

TaskType == queue \in [Threads -> Seq(Tasks)] /\ batch \in [Threads -> Seq(Tasks)]

ConnType ==
  /\ arrived \in Nat /\ accepted \in Nat /\ accepted + arrived <= MaxConns
  /\ conn_state \in [Conns -> {"none", "kConnecting", "kConnected", "kDisconnected"}]
  /\ home \in [Conns -> 0..MaxThreads]
  /\ m_conn_map \subseteq Conns /\ open \subseteq Conns
  /\ IF m_size_pool = 0 THEN m_next_idx = 1 ELSE m_next_idx \in InPool

LEMMA TypeParts == TypeOK <=> PoolType /\ FlagType /\ TaskType /\ ConnType
<1>1. m_size_pool \in 0..MaxThreads <=> m_size_pool \in Nat /\ m_size_pool <= MaxThreads
    BY PoolAssumption
<1>2. {m_reactor, m_going_to_quit, asked, cut} \subseteq [Threads -> BOOLEAN] <=>
        /\ m_reactor \in [Threads -> BOOLEAN] /\ m_going_to_quit \in [Threads -> BOOLEAN]
        /\ asked \in [Threads -> BOOLEAN] /\ cut \in [Threads -> BOOLEAN]
    BY Zenon
<1>3. {queue, batch} \subseteq [Threads -> Seq(Tasks)] <=> TaskType
    BY Zenon DEF TaskType
<1>4. PCs = {"none", "created", "latched", "built", "published", "poll", "tasks", "returned", "exited"}
    BY Zenon DEF PCs, Published
<1>5. Mains = {"constructed", "start", "latch", "start_reactor", "started", "serving", "destroy_conns", "destroy",
               "join", "gone", "aborted"}
    BY Zenon DEF Mains, Starting, Ending
<1> QED
    BY <1>1, <1>2, <1>3, <1>4, <1>5, Zenon DEF TypeOK, PoolType, FlagType, ConnType

\* What the steps of the pool keep.
Pool == PoolType /\ FlagType /\ PoolInv

(***************************************************************************)
(* The pool: a step of one of its threads.                                 *)
(***************************************************************************)
LEMMA OneThreadMoves ==
  ASSUME Pool, NEW t \in Threads,
         UNCHANGED <<m_size_pool, main, idx, asked, cut, misused>>,
         waiting' \in {"none", "latch", "m_cond"},
         pc' \in [Threads -> PCs], m_count' \in [Threads -> {0, 1}],
         m_reactor' \in [Threads -> BOOLEAN], m_going_to_quit' \in [Threads -> BOOLEAN],
         \A u \in Threads : u # t =>
           /\ pc'[u] = pc[u] /\ m_count'[u] = m_count[u] /\ m_reactor'[u] = m_reactor[u]
           /\ m_going_to_quit'[u] = m_going_to_quit[u],
         ThreadInv(t)'
  PROVE  Pool'
<1>1. PoolType' /\ FlagType'
    BY Zenon DEF Pool, PoolType, FlagType, Threads
<1>2. ASSUME NEW u \in Threads, u # t PROVE ThreadInv(u)'
    BY <1>2, Zenon DEF Pool, PoolInv, ThreadInv
<1>3. PoolInv'
    BY <1>2, Zenon DEF Pool, PoolInv, Threads
<1> QED
    BY <1>1, <1>3 DEF Pool

\* Thread::run counts the latch down.
LEMMA CountDownPool ==
  ASSUME Pool, NEW t \in Threads, CountDown(t)
  PROVE Pool'
<1>1. /\ pc[t] = "created" /\ pc' = [pc EXCEPT ![t] = "latched"] /\ m_count' = [m_count EXCEPT ![t] = @ - 1]
      /\ waiting' = (IF waiting = "latch" /\ idx = t THEN "none" ELSE waiting)
      /\ UNCHANGED <<m_size_pool, main, idx, asked, cut, misused, m_reactor, m_going_to_quit>>
    BY DEF CountDown, Goes, Notify
<1>2. PoolType /\ FlagType /\ ThreadInv(t)
    BY DEF Pool, PoolInv
<1>3. m_count[t] = 1
    BY <1>1, <1>2 DEF ThreadInv
<1>4. pc' \in [Threads -> PCs] /\ m_count' \in [Threads -> {0, 1}] /\ waiting' \in {"none", "latch", "m_cond"}
    BY <1>1, <1>2, <1>3 DEF PoolType, PCs
<1>5. ThreadInv(t)'
    BY <1>1, <1>2, <1>3 DEF ThreadInv, PoolType, Published, Starting, Ending
<1> QED
    BY <1>1, <1>2, <1>4, <1>5, OneThreadMoves DEF PoolType, FlagType

\* reactor_thread_loop_func constructs the Reactor.
LEMMA BuildReactorPool ==
  ASSUME Pool, NEW t \in Threads, BuildReactor(t)
  PROVE Pool'
<1>1. /\ pc[t] = "latched" /\ pc' = [pc EXCEPT ![t] = "built"]
      /\ waiting' = waiting
      /\ UNCHANGED <<m_size_pool, main, idx, asked, cut, misused, m_count, m_reactor, m_going_to_quit>>
    BY DEF BuildReactor, Goes
<1>2. PoolType /\ FlagType /\ ThreadInv(t)
    BY DEF Pool, PoolInv
<1>3. /\ pc' \in [Threads -> PCs] /\ waiting' \in {"none", "latch", "m_cond"}
      /\ m_reactor' \in [Threads -> BOOLEAN] /\ m_going_to_quit' \in [Threads -> BOOLEAN]
    BY <1>1, <1>2 DEF PoolType, FlagType, PCs, Published
<1>4. ThreadInv(t)'
    BY <1>1, <1>2 DEF ThreadInv, PoolType, FlagType, Published, Starting, Ending
<1> QED
    BY <1>1, <1>2, <1>3, <1>4, OneThreadMoves DEF PoolType, FlagType

\* The thread publishes its reactor.
LEMMA PublishPool ==
  ASSUME Pool, NEW t \in Threads, Publish(t)
  PROVE Pool'
<1>1. /\ pc[t] = "built" /\ pc' = [pc EXCEPT ![t] = "published"] /\ m_reactor' = [m_reactor EXCEPT ![t] = TRUE]
      /\ waiting' = (IF waiting = "m_cond" /\ idx = t THEN "none" ELSE waiting)
      /\ UNCHANGED <<m_size_pool, main, idx, asked, cut, misused, m_count, m_going_to_quit>>
    BY DEF Publish, Goes, Notify
<1>2. PoolType /\ FlagType /\ ThreadInv(t)
    BY DEF Pool, PoolInv
<1>3. /\ pc' \in [Threads -> PCs] /\ waiting' \in {"none", "latch", "m_cond"}
      /\ m_reactor' \in [Threads -> BOOLEAN] /\ m_going_to_quit' \in [Threads -> BOOLEAN]
    BY <1>1, <1>2 DEF PoolType, FlagType, PCs, Published
<1>4. ThreadInv(t)'
    BY <1>1, <1>2 DEF ThreadInv, PoolType, FlagType, Published, Starting, Ending
<1> QED
    BY <1>1, <1>2, <1>3, <1>4, OneThreadMoves, Zenon DEF PoolType, FlagType

\* loop() begins, and forgets a request to quit.
LEMMA EnterLoopPool ==
  ASSUME Pool, NEW t \in Threads, EnterLoop(t)
  PROVE Pool'
<1>1. /\ pc[t] = "published" /\ pc' = [pc EXCEPT ![t] = "poll"] /\ m_going_to_quit' = [m_going_to_quit EXCEPT ![t] = FALSE]
      /\ waiting' = waiting
      /\ UNCHANGED <<m_size_pool, main, idx, asked, cut, misused, m_count, m_reactor>>
    BY DEF EnterLoop, Goes
<1>2. PoolType /\ FlagType /\ ThreadInv(t)
    BY DEF Pool, PoolInv
<1>3. /\ pc' \in [Threads -> PCs] /\ waiting' \in {"none", "latch", "m_cond"}
      /\ m_reactor' \in [Threads -> BOOLEAN] /\ m_going_to_quit' \in [Threads -> BOOLEAN]
    BY <1>1, <1>2 DEF PoolType, FlagType, PCs, Published
<1>4. ThreadInv(t)'
    BY <1>1, <1>2 DEF ThreadInv, PoolType, FlagType, Published, Starting, Ending
<1> QED
    BY <1>1, <1>2, <1>3, <1>4, OneThreadMoves, Zenon DEF PoolType, FlagType

\* poll returns for a task or a request to quit.
LEMMA PollReturnsPool ==
  ASSUME Pool, NEW t \in Threads, PollReturns(t)
  PROVE Pool'
<1>1. /\ pc[t] = "poll" /\ pc' = [pc EXCEPT ![t] = "tasks"]
      /\ waiting' = waiting
      /\ UNCHANGED <<m_size_pool, main, idx, asked, cut, misused, m_count, m_reactor, m_going_to_quit>>
    BY DEF PollReturns, Goes
<1>2. PoolType /\ FlagType /\ ThreadInv(t)
    BY DEF Pool, PoolInv
<1>3. /\ pc' \in [Threads -> PCs] /\ waiting' \in {"none", "latch", "m_cond"}
      /\ m_reactor' \in [Threads -> BOOLEAN] /\ m_going_to_quit' \in [Threads -> BOOLEAN]
    BY <1>1, <1>2 DEF PoolType, FlagType, PCs, Published
<1>4. ThreadInv(t)'
    BY <1>1, <1>2 DEF ThreadInv, PoolType, FlagType, Published, Starting, Ending
<1> QED
    BY <1>1, <1>2, <1>3, <1>4, OneThreadMoves DEF PoolType, FlagType

\* The thread's function returns.
LEMMA ExitThreadPool ==
  ASSUME Pool, NEW t \in Threads, ExitThread(t)
  PROVE Pool'
<1>1. /\ pc[t] = "returned" /\ pc' = [pc EXCEPT ![t] = "exited"] /\ m_reactor' = [m_reactor EXCEPT ![t] = FALSE]
      /\ waiting' = waiting
      /\ UNCHANGED <<m_size_pool, main, idx, asked, cut, misused, m_count, m_going_to_quit>>
    BY DEF ExitThread, Goes
<1>2. PoolType /\ FlagType /\ ThreadInv(t)
    BY DEF Pool, PoolInv
<1>3. /\ pc' \in [Threads -> PCs] /\ waiting' \in {"none", "latch", "m_cond"}
      /\ m_reactor' \in [Threads -> BOOLEAN] /\ m_going_to_quit' \in [Threads -> BOOLEAN]
    BY <1>1, <1>2 DEF PoolType, FlagType, PCs, Published
<1>4. ThreadInv(t)'
    BY <1>1, <1>2 DEF ThreadInv, PoolType, FlagType, Published, Starting, Ending
<1> QED
    BY <1>1, <1>2, <1>3, <1>4, OneThreadMoves, Zenon DEF PoolType, FlagType

\* A batch ends, and the loop tests m_going_to_quit.
LEMMA TasksDonePool ==
  ASSUME Pool, NEW t \in Threads, TasksDone(t)
  PROVE Pool'
<1>1. /\ pc[t] = "tasks" /\ pc' = [pc EXCEPT ![t] = IF m_going_to_quit[t] THEN "returned" ELSE "poll"]
      /\ UNCHANGED <<waiting, m_size_pool, main, idx, asked, cut, misused, m_count, m_reactor, m_going_to_quit>>
    BY DEF TasksDone, Goes
<1>2. PoolType /\ FlagType /\ ThreadInv(t)
    BY DEF Pool, PoolInv
<1>3. pc' \in [Threads -> PCs]
    BY <1>1, <1>2 DEF PoolType, PCs, Published
<1>4. ThreadInv(t)'
    BY <1>1, <1>2 DEF ThreadInv, PoolType, FlagType, Published, Starting, Ending
<1> QED
    BY <1>1, <1>2, <1>3, <1>4, OneThreadMoves DEF PoolType, FlagType

(***************************************************************************)
(* The pool: a step of its owner.                                          *)
(***************************************************************************)

\* A step that leaves the threads alone.
LEMMA OwnerMoves ==
  ASSUME Pool, UNCHANGED <<m_size_pool, pc, m_count, m_reactor, m_going_to_quit, asked, cut>>,
         main' \in Mains, waiting' \in {"none", "latch", "m_cond"}, misused' \in BOOLEAN,
         idx' \in 1..(m_size_pool + 1),
         main' = "constructed" => idx' = 1,
         main' \in {"started", "serving"} => idx' = m_size_pool + 1,
         main' \in {"latch", "start_reactor", "join"} => idx' <= m_size_pool,
         \A t \in Threads : ThreadInv(t)'
  PROVE  Pool'
<1>1. PoolType' /\ FlagType'
    BY Zenon DEF Pool, PoolType, FlagType, Threads
<1>2. PoolInv'
    BY Zenon DEF Pool, PoolInv, Threads
<1> QED
    BY <1>1, <1>2 DEF Pool

\* start() creates the next thread, or is done with them.
LEMMA CreateThreadPool ==
  ASSUME Pool, CreateThread
  PROVE Pool'
<1>1. PoolType /\ FlagType /\ PoolInv
    BY DEF Pool
<1>2. /\ main = "start"
      /\ UNCHANGED <<m_size_pool, idx, waiting, m_count, m_reactor, m_going_to_quit, asked, cut, misused>>
    BY DEF CreateThread
<1>3. CASE idx <= m_size_pool
  <2>1. pc' = [pc EXCEPT ![idx] = "created"] /\ main' = "latch"
      BY <1>3 DEF CreateThread
  <2>2. idx \in Threads /\ pc[idx] = "none"
      BY <1>1, <1>2, <1>3, PoolAssumption DEF PoolInv, ThreadInv, PoolType, Starting, Threads
  <2>3. PoolType'
      BY <1>1, <1>2, <2>1, Zenon DEF PoolType, PCs, Mains, Starting, Threads
  <2>4. FlagType'
      BY <1>1, <1>2, Zenon DEF FlagType, Threads
  <2>5. ASSUME NEW t \in Threads PROVE ThreadInv(t)'
    <3>1. ThreadInv(t) /\ t \in Int /\ idx \in Int
        BY <1>1 DEF PoolInv, PoolType, Threads
    <3>2. CASE t = idx
        BY <1>1, <1>2, <1>3, <2>1, <2>2, <3>1, <3>2 DEF ThreadInv, PoolType, FlagType, Starting, Ending, Published
    <3>3. CASE t # idx
        BY <1>1, <1>2, <1>3, <2>1, <2>2, <3>1, <3>3 DEF ThreadInv, PoolType, FlagType, Starting, Ending, Published
    <3> QED
        BY <3>2, <3>3
  <2>6. PoolInv'
      BY <1>1, <1>2, <1>3, <2>1, <2>5 DEF PoolInv, Threads
  <2> QED
      BY <2>3, <2>4, <2>6 DEF Pool
<1>4. CASE ~(idx <= m_size_pool)
  <2>1. UNCHANGED pc /\ main' = "started"
      BY <1>4 DEF CreateThread
  <2>2. idx = m_size_pool + 1
      BY <1>1, <1>4 DEF PoolInv, PoolType
  <2>3. ASSUME NEW t \in Threads PROVE ThreadInv(t)'
    <3>1. ThreadInv(t)
        BY <1>1 DEF PoolInv
    <3> QED
        BY <1>2, <2>1, <3>1 DEF ThreadInv, Starting, Ending
  <2> QED
      BY <1>1, <1>2, <2>1, <2>2, <2>3, OwnerMoves DEF PoolType, FlagType, PoolInv, Mains, Starting
<1> QED
    BY <1>3, <1>4

\* CountdownLatch::wait.
LEMMA AwaitLatchPool ==
  ASSUME Pool, AwaitLatch
  PROVE Pool'
<1>1. PoolType /\ FlagType /\ PoolInv
    BY DEF Pool
<1>2. /\ main = "latch" /\ main' \in {"latch", "start_reactor"} /\ waiting' \in {"none", "latch"}
      /\ UNCHANGED <<m_size_pool, idx, pc, m_count, m_reactor, m_going_to_quit, asked, cut, misused>>
    BY DEF AwaitLatch
<1>3. ASSUME NEW t \in Threads PROVE ThreadInv(t)'
  <2>1. ThreadInv(t)
      BY <1>1 DEF PoolInv
  <2> QED
      BY <1>2, <2>1 DEF ThreadInv, Starting, Ending
<1> QED
    BY <1>1, <1>2, <1>3, OwnerMoves DEF PoolType, FlagType, PoolInv, Mains, Starting

\* start_reactor goes on only with a reactor that is published.
LEMMA AwaitReactorPool ==
  ASSUME Pool, AwaitReactor
  PROVE Pool'
<1>1. PoolType /\ FlagType /\ PoolInv
    BY DEF Pool
<1>2. /\ main = "start_reactor" /\ waiting' \in {"none", "m_cond"}
      /\ UNCHANGED <<m_size_pool, pc, m_count, m_reactor, m_going_to_quit, asked, cut, misused>>
      /\ \/ m_reactor[idx] /\ main' = "start" /\ idx' = idx + 1
         \/ UNCHANGED <<main, idx>>
    BY DEF AwaitReactor
<1>3. idx \in 1..m_size_pool /\ m_size_pool \in Nat /\ idx \in Threads
    BY <1>1, <1>2, PoolAssumption DEF PoolInv, PoolType, Threads
<1>4. ASSUME NEW t \in Threads PROVE ThreadInv(t)'
  <2>1. ThreadInv(t) /\ ThreadInv(idx) /\ t \in Int
      BY <1>1, <1>3 DEF PoolInv, Threads
  <2> QED
      BY <1>2, <1>3, <2>1 DEF ThreadInv, Starting, Ending
<1>5. main' \in Mains /\ idx' \in 1..(m_size_pool + 1) /\ (main' = "start_reactor" => idx' <= m_size_pool)
      /\ main' \in {"start", "start_reactor"}
    BY <1>2, <1>3 DEF Mains, Starting
<1> QED
    BY <1>1, <1>2, <1>4, <1>5, OwnerMoves DEF PoolType, FlagType

\* TcpServer::start, listen, the fatal accept and the destructor's first step.
LEMMA MainPool ==
  ASSUME Pool, UNCHANGED <<m_size_pool, idx, waiting, pc, m_count, m_reactor, m_going_to_quit, asked, cut, misused>>,
         \/ main = "constructed" /\ main' = "start"
         \/ main = "started" /\ main' = "serving"
         \/ main = "serving" /\ main' = "aborted"
         \/ main \in {"constructed", "serving"} /\ main' = "destroy_conns"
  PROVE  Pool'
<1>1. PoolType /\ FlagType /\ PoolInv
    BY DEF Pool
<1>2. ASSUME NEW t \in Threads PROVE ThreadInv(t)'
  <2>1. /\ ThreadInv(t) /\ t \in Int /\ idx \in Int /\ m_size_pool \in Int
        /\ main = "serving" => idx = m_size_pool + 1
        /\ main = "constructed" => idx = 1 /\ t >= idx
      BY <1>1 DEF PoolInv, Threads, PoolType
  <2> QED
      BY <1>1, <2>1 DEF ThreadInv, Starting, Ending, Published, FlagType
<1>3. /\ main' \in Mains /\ (main' = "serving" => idx' = m_size_pool + 1)
      /\ main' \notin {"constructed", "started", "latch", "start_reactor", "join"}
    BY <1>1 DEF Mains, Starting, PoolInv
<1> QED
    BY <1>1, <1>2, <1>3, OwnerMoves DEF PoolType, FlagType, PoolInv

\* The destructor begins with the first thread.
LEMMA DestroyPoolPool ==
  ASSUME Pool, DestroyPool
  PROVE Pool'
<1>1. PoolType /\ FlagType /\ PoolInv
    BY DEF Pool
<1>2. /\ main = "destroy_conns" /\ main' = "destroy" /\ idx' = 1
      /\ UNCHANGED <<m_size_pool, waiting, pc, m_count, m_reactor, m_going_to_quit, asked, cut, misused>>
    BY DEF DestroyPool
<1>3. ASSUME NEW t \in Threads PROVE ThreadInv(t)'
  <2>1. ThreadInv(t) /\ t \in Int /\ ~(t < 1)
      BY <1>1 DEF PoolInv, Threads
  <2> QED
      BY <1>1, <1>2, <2>1 DEF ThreadInv, Starting, Ending, FlagType
<1> QED
    BY <1>1, <1>2, <1>3, OwnerMoves DEF PoolType, FlagType, PoolInv, Mains, Ending

\* join() returns.
LEMMA JoinPool ==
  ASSUME Pool, Join
  PROVE Pool'
<1>1. PoolType /\ FlagType /\ PoolInv
    BY DEF Pool
<1>2. /\ main = "join" /\ pc[idx] = "exited" /\ main' = "destroy" /\ idx' = idx + 1
      /\ UNCHANGED <<m_size_pool, waiting, pc, m_count, m_reactor, m_going_to_quit, asked, cut, misused>>
    BY DEF Join
<1>3. idx \in 1..m_size_pool /\ m_size_pool \in Nat
    BY <1>1, <1>2 DEF PoolInv, PoolType
<1>4. ASSUME NEW t \in Threads PROVE ThreadInv(t)'
  <2>1. ThreadInv(t) /\ t \in Int
      BY <1>1 DEF PoolInv, Threads
  <2> QED
      BY <1>1, <1>2, <1>3, <2>1 DEF ThreadInv, Starting, Ending, FlagType
<1> QED
    BY <1>1, <1>2, <1>3, <1>4, OwnerMoves DEF PoolType, FlagType, PoolInv, Mains, Ending

\* A non-empty set of numbers has a least one: the next thread to be joined.
LEMMA MinIsLeast ==
  ASSUME NEW S \in SUBSET Nat, S # {}
  PROVE  Min(S) \in S /\ \A n \in S : Min(S) <= n
<1>1. PICK m \in S : \A n \in S : <<n, m>> \notin OpToRel(<, Nat)
    BY WFMin, NatLessThanWellFounded, Zenon
<1>2. \A n \in S : ~(n < m)
    BY <1>1, Zenon DEF OpToRel
<1>3. \E k \in S : \A n \in S : k <= n
    BY <1>2
<1> QED
    BY <1>3, Zenon DEF Min

\* The thread ~ReactorThread asks next, if there is one left.
LEMMA QuitThreadParts ==
  ASSUME Pool, QuitThread
  PROVE  /\ main = "destroy"
         /\ UNCHANGED <<m_size_pool, waiting, pc, m_count, m_reactor, queue, batch, m_next_idx>>
         /\ \/ /\ main' = "join" /\ idx' \in Threads /\ idx <= idx' /\ idx' <= m_size_pool /\ m_reactor[idx']
               /\ \A t \in Threads : idx <= t /\ t < idx' => ~m_reactor[t]
               /\ m_going_to_quit' = [m_going_to_quit EXCEPT ![idx'] = TRUE]
               /\ asked' = [asked EXCEPT ![idx'] = TRUE]
               /\ cut' = [cut EXCEPT ![idx'] = pc[idx'] = "tasks"]
               /\ misused' = (misused \/ ~ReactorExists(idx'))
            \/ /\ main' = "gone" /\ UNCHANGED <<idx, m_going_to_quit, asked, cut, misused>>
               /\ \A t \in Threads : idx <= t => ~m_reactor[t]
<1> DEFINE left == {t \in InPool : t >= idx /\ m_reactor[t]}
<1>1. PoolType /\ PoolInv
    BY DEF Pool
<1>2. idx \in Int /\ m_size_pool \in Nat /\ MaxThreads \in Nat /\ InPool \subseteq Threads /\ Threads \subseteq Nat
    BY <1>1, PoolAssumption DEF PoolInv, PoolType, InPool, Threads
<1>3. \A t \in Threads : m_reactor[t] => t \in InPool
    BY <1>1, <1>2 DEF PoolInv, ThreadInv, Published, InPool, Threads
<1>4. CASE left # {}
  <2>1. left \in SUBSET Nat
      BY <1>2, Zenon
  <2>2. Min(left) \in left /\ \A n \in left : Min(left) <= n
      BY <1>4, <2>1, MinIsLeast, Zenon
  <2>3. /\ main = "destroy" /\ main' = "join" /\ idx' = Min(left)
        /\ m_going_to_quit' = [m_going_to_quit EXCEPT ![idx'] = TRUE]
        /\ asked' = [asked EXCEPT ![idx'] = TRUE]
        /\ cut' = [cut EXCEPT ![idx'] = pc[idx'] = "tasks"]
        /\ misused' = (misused \/ ~ReactorExists(idx'))
        /\ UNCHANGED <<m_size_pool, waiting, pc, m_count, m_reactor, queue, batch, m_next_idx>>
      BY <1>4, Zenon DEF QuitThread
  <2>4. idx' \in InPool /\ idx <= idx' /\ m_reactor[idx'] /\ \A n \in left : idx' <= n
      BY <1>2, <2>2, <2>3
  <2>5. idx' \in Threads /\ idx' <= m_size_pool
      BY <1>2, <2>4 DEF InPool
  <2>6. ASSUME NEW t \in Threads, idx <= t, t < idx' PROVE ~m_reactor[t]
    <3>1. SUFFICES ASSUME m_reactor[t] PROVE FALSE
        OBVIOUS
    <3>2. t \in left
        BY <1>2, <1>3, <2>6, <3>1
    <3>3. idx' <= t
        BY <2>4, <3>2
    <3> QED
        BY <1>2, <2>5, <2>6, <3>3
  <2> QED
      BY <2>3, <2>4, <2>5, <2>6, Zenon
<1>5. CASE left = {}
  <2>1. /\ main = "destroy" /\ main' = "gone" /\ UNCHANGED <<idx, m_going_to_quit, asked, cut, misused>>
        /\ UNCHANGED <<m_size_pool, waiting, pc, m_count, m_reactor, queue, batch, m_next_idx>>
      BY <1>5, Zenon DEF QuitThread
  <2>2. ASSUME NEW t \in Threads, idx <= t PROVE ~m_reactor[t]
      BY <1>2, <1>3, <1>5, <2>2
  <2> QED
      BY <2>1, <2>2, Zenon
<1> QED
    BY <1>4, <1>5

\* ~ReactorThread asks the next thread to quit.
LEMMA QuitThreadPool ==
  ASSUME Pool, QuitThread
  PROVE Pool'
<1>1. PoolType /\ FlagType /\ PoolInv
    BY DEF Pool
<1>2. main = "destroy" /\ UNCHANGED <<m_size_pool, waiting, pc, m_count, m_reactor>>
    BY QuitThreadParts
<1>3. idx \in 1..(m_size_pool + 1) /\ m_size_pool \in Nat
    BY <1>1 DEF PoolInv, PoolType
<1>4. CASE main' = "join"
  <2>1. /\ idx' \in Threads /\ idx <= idx' /\ idx' <= m_size_pool /\ m_reactor[idx']
        /\ \A t \in Threads : idx <= t /\ t < idx' => ~m_reactor[t]
        /\ m_going_to_quit' = [m_going_to_quit EXCEPT ![idx'] = TRUE]
        /\ asked' = [asked EXCEPT ![idx'] = TRUE]
        /\ cut' = [cut EXCEPT ![idx'] = pc[idx'] = "tasks"]
        /\ misused' = (misused \/ ~ReactorExists(idx'))
      BY <1>4, QuitThreadParts
  <2>2. PoolType'
      BY <1>1, <1>2, <1>4, Zenon DEF PoolType, Mains, Ending, Threads
  <2>3. FlagType'
      BY <1>1, <1>2, <2>1 DEF FlagType, Threads
  <2>4. ASSUME NEW t \in Threads PROVE ThreadInv(t)'
    <3>1. ThreadInv(t) /\ t \in Int /\ idx' \in Int
        BY <1>1, <2>1 DEF PoolInv, Threads
    <3>2. CASE t = idx'
        BY <1>1, <1>2, <1>3, <1>4, <2>1, <3>1, <3>2 DEF ThreadInv, FlagType, Starting, Ending, Published
    <3>3. CASE t # idx'
      <4>1. m_going_to_quit'[t] = m_going_to_quit[t] /\ asked'[t] = asked[t] /\ cut'[t] = cut[t]
          BY <1>1, <2>1, <3>3 DEF FlagType
      <4>2. t < idx' => t < idx \/ ~m_reactor[t]
          BY <1>3, <2>1, <3>1
      <4> QED
          BY <1>1, <1>2, <1>3, <1>4, <2>1, <3>1, <3>3, <4>1, <4>2 DEF ThreadInv, FlagType, Starting, Ending
    <3> QED
        BY <3>2, <3>3
  <2>5. PoolInv'
      BY <1>2, <1>3, <1>4, <2>1, <2>4 DEF PoolInv, Threads
  <2> QED
      BY <2>2, <2>3, <2>5 DEF Pool
<1>5. CASE main' = "gone"
  <2>1. UNCHANGED <<idx, m_going_to_quit, asked, cut, misused>> /\ \A t \in Threads : idx <= t => ~m_reactor[t]
      BY <1>5, QuitThreadParts
  <2>2. ASSUME NEW t \in Threads PROVE ThreadInv(t)'
    <3>1. ThreadInv(t) /\ t \in Int
        BY <1>1 DEF PoolInv, Threads
    <3> QED
        BY <1>1, <1>2, <1>3, <1>5, <2>1, <3>1 DEF ThreadInv, FlagType, Starting, Ending
  <2> QED
      BY <1>1, <1>2, <1>3, <1>5, <2>1, <2>2, OwnerMoves DEF PoolType, FlagType, Mains, Ending
<1> QED
    BY <1>4, <1>5, QuitThreadParts

(***************************************************************************)
(* The tasks of the reactors.                                              *)
(***************************************************************************)
Serving == PoolType /\ FlagType /\ PoolInv /\ TaskType /\ ConnType /\ ConnectionsInv

\* Numbers that the steps below use.
LEMMA Numbers ==
  ASSUME Serving
  PROVE  /\ InPool \subseteq Threads /\ Threads \subseteq Nat \ {0} /\ m_size_pool \in Nat
         /\ 1..accepted \subseteq Conns /\ accepted \in Nat
         /\ \A c \in 1..accepted : home[c] # 0 => home[c] \in InPool
<1>1. InPool \subseteq Threads /\ Threads \subseteq Nat \ {0} /\ m_size_pool \in Nat
    BY PoolAssumption DEF Serving, PoolType, InPool, Threads
<1>2. 1..accepted \subseteq Conns /\ accepted \in Nat
    BY TcpServerAssumption DEF Serving, ConnType, Conns
<1>3. ASSUME NEW c \in 1..accepted, home[c] # 0 PROVE home[c] \in InPool
    BY <1>3 DEF Serving, ConnectionsInv, ConnInv
<1> QED
    BY <1>1, <1>2, <1>3

\* A step that leaves the tasks and the connections as they are.
LEMMA SameTasks ==
  ASSUME Serving,
         UNCHANGED <<m_size_pool, accepted, conn_state, home, m_conn_map, open>>,
         \A t \in Threads : Todo(t)' = Todo(t) /\ QueuesInv(t)' /\ (cut[t] => cut'[t]),
         main' \in Ending => m_conn_map = {},
         accepted > 0 => \A t \in InPool : pc'[t] \in Published \cup {"exited"}
  PROVE  ConnectionsInv'
<1>1. ConnectionsInv
    BY DEF Serving
<1>2. ASSUME NEW t \in Threads PROVE TasksInv(t)'
  <2>1. TasksInv(t) /\ Todo(t)' = Todo(t)
      BY <1>1 DEF ConnectionsInv
  <2> QED
      BY <2>1, Zenon DEF TasksInv
<1>3. ASSUME NEW c \in 1..accepted PROVE ConnInv(c)'
  <2>1. ConnInv(c)
      BY <1>1 DEF ConnectionsInv
  <2>2. home[c] # 0 => home[c] \in Threads
      BY <1>3, Numbers
  <2>3. home[c] # 0 => /\ \A task : HasTodo(home[c], task)' <=> HasTodo(home[c], task)
                       /\ cut[home[c]] => cut'[home[c]]
    <3>1. HAVE home[c] # 0
    <3>2. Todo(home[c])' = Todo(home[c]) /\ (cut[home[c]] => cut'[home[c]])
        BY <2>2, <3>1
    <3> QED
        BY <3>2, Zenon DEF HasTodo
  <2> QED
      BY <2>1, <2>3, Zenon DEF ConnInv, InPool
<1> QED
    BY <1>1, <1>2, <1>3, Zenon DEF ConnectionsInv, InPool, Threads

\* A step of thread t that leaves what it still has to run.
LEMMA ThreadServes ==
  ASSUME Serving, NEW t \in Threads, NEW to,
         UNCHANGED <<m_size_pool, main, asked, cut, conns>>,
         pc' = [pc EXCEPT ![t] = to],
         \A u \in Threads : u # t => queue'[u] = queue[u] /\ batch'[u] = batch[u],
         Todo(t)' = Todo(t), QueuesInv(t)',
         pc[t] \in Published \cup {"exited"} => to \in Published
  PROVE  ConnectionsInv'
<1>1. ConnectionsInv /\ pc \in [Threads -> PCs]
    BY DEF Serving, PoolType
<1>2. ASSUME NEW u \in Threads PROVE Todo(u)' = Todo(u) /\ QueuesInv(u)' /\ (cut[u] => cut'[u])
  <2>1. CASE u = t
      BY <2>1
  <2>2. CASE u # t
    <3>1. pc'[u] = pc[u] /\ queue'[u] = queue[u] /\ batch'[u] = batch[u] /\ QueuesInv(u)
        BY <1>1, <2>2 DEF ConnectionsInv
    <3> QED
        BY <3>1, Zenon DEF Todo, QueuesInv
  <2> QED
      BY <2>1, <2>2
<1>3. accepted > 0 => \A u \in InPool : pc'[u] \in Published \cup {"exited"}
  <2>1. SUFFICES ASSUME accepted > 0, NEW u \in InPool PROVE pc'[u] \in Published \cup {"exited"}
      OBVIOUS
  <2>2. u \in Threads /\ pc[u] \in Published \cup {"exited"}
      BY <1>1, <2>1, Numbers DEF ConnectionsInv
  <2> QED
      BY <1>1, <2>2
<1>4. main' \in Ending => m_conn_map = {}
    BY <1>1 DEF ConnectionsInv
<1> QED
    BY <1>2, <1>3, <1>4, SameTasks DEF conns

\* The steps of a thread between its creation and its end, but for the tasks.
LEMMA ThreadStepServes ==
  ASSUME Serving, NEW t \in Threads, ThreadStep(t), UNCHANGED conns
  PROVE ConnectionsInv' /\ TaskType'
<1>1. ConnectionsInv /\ TaskType /\ QueuesInv(t) /\ ThreadInv(t) /\ pc \in [Threads -> PCs]
    BY DEF Serving, ConnectionsInv, PoolInv, PoolType
<1>2. ASSUME NEW to, pc' = [pc EXCEPT ![t] = to], UNCHANGED <<m_size_pool, main, asked, cut, queue, batch>>,
             pc[t] \notin Published => to # "tasks" /\ to # "returned",
             pc[t] = "tasks" => to \in {"poll", "returned"} /\ batch[t] = <<>>,
             pc[t] # "tasks" => to \notin {"tasks", "returned"},
             pc[t] \in Published \cup {"exited"} => to \in Published
      PROVE  ConnectionsInv' /\ TaskType'
  <2>1. Todo(t)' = Todo(t) /\ pc'[t] = to /\ \A u \in Threads : queue'[u] = queue[u] /\ batch'[u] = batch[u]
      BY <1>1, <1>2 DEF Todo
  <2>2. QueuesInv(t)'
      BY <1>1, <1>2, <2>1 DEF QueuesInv, Published
  <2>3. TaskType'
      BY <1>1, <1>2, Zenon DEF TaskType, Threads, Tasks, Conns
  <2> QED
      BY <1>2, <2>1, <2>2, <2>3, ThreadServes, Zenon
<1>3. CASE CountDown(t)
    BY <1>2, <1>3, Zenon DEF CountDown, Goes, Published
<1>4. CASE BuildReactor(t)
    BY <1>2, <1>4, Zenon DEF BuildReactor, Goes, Published
<1>5. CASE Publish(t)
    BY <1>2, <1>5, Zenon DEF Publish, Goes, Published
<1>6. CASE EnterLoop(t)
    BY <1>2, <1>6, Zenon DEF EnterLoop, Goes, Published
<1>7. CASE TasksDone(t)
    BY <1>2, <1>7, Zenon DEF TasksDone, Goes, Published
<1>8. CASE PollReturns(t)
  <2>1. /\ pc[t] = "poll" /\ pc' = [pc EXCEPT ![t] = "tasks"] /\ UNCHANGED <<m_size_pool, main, asked, cut>>
        /\ batch' = [batch EXCEPT ![t] = queue[t]] /\ queue' = [queue EXCEPT ![t] = <<>>]
      BY <1>8 DEF PollReturns, Goes
  <2>2. queue[t] \in Seq(Tasks) /\ batch[t] = <<>>
      BY <1>1, <2>1 DEF TaskType, QueuesInv
  <2>3. batch'[t] = queue[t] /\ queue'[t] = <<>> /\ pc'[t] = "tasks"
      BY <1>1, <2>1 DEF TaskType
  <2>4. Todo(t)' = Todo(t)
    <3>1. <<>> \o queue[t] = queue[t] /\ queue[t] \o <<>> = queue[t]
        BY <2>2
    <3> QED
        BY <2>2, <2>3, <3>1, Zenon DEF Todo
  <2>5. QueuesInv(t)'
      BY <2>3 DEF QueuesInv, Published
  <2>6. TaskType'
    <3>1. <<>> \in Seq(Tasks) /\ Threads' = Threads /\ Tasks' = Tasks
        BY DEF Threads, Tasks, Conns
    <3> QED
        BY <1>1, <2>1, <2>2, <3>1 DEF TaskType
  <2>7. \A u \in Threads : u # t => queue'[u] = queue[u] /\ batch'[u] = batch[u]
      BY <1>1, <2>1 DEF TaskType
  <2> QED
      BY <2>1, <2>4, <2>5, <2>6, <2>7, ThreadServes, Zenon DEF Published
<1> QED
    BY <1>3, <1>4, <1>5, <1>6, <1>7, <1>8 DEF ThreadStep

\* A step of the owner that has nothing to do with tasks or connections.
LEMMA OwnerServes ==
  ASSUME Serving, UNCHANGED <<m_size_pool, queue, batch, conns>>,
         \A t \in Threads : QueuesInv(t)' /\ (cut[t] => cut'[t]),
         main' \in Ending => m_conn_map = {},
         accepted > 0 => \A t \in InPool : pc'[t] \in Published \cup {"exited"}
  PROVE  ConnectionsInv' /\ TaskType'
<1>1. \A t \in Threads : Todo(t)' = Todo(t)
    BY DEF Todo
<1>2. TaskType'
    BY Zenon DEF Serving, TaskType, Threads, Tasks, Conns
<1>3. UNCHANGED <<accepted, conn_state, home, m_conn_map, open>>
    BY DEF conns
<1> QED
    BY <1>1, <1>2, <1>3, SameTasks

\* The owner moves on and the threads stay where they are.
LEMMA MainServes ==
  ASSUME Serving, UNCHANGED <<m_size_pool, pc, asked, cut, queue, batch, conns>>,
         main' \in Ending => m_conn_map = {}
  PROVE  ConnectionsInv' /\ TaskType'
<1>1. ASSUME NEW t \in Threads PROVE QueuesInv(t)' /\ (cut[t] => cut'[t])
  <2>1. QueuesInv(t)
      BY DEF Serving, ConnectionsInv
  <2> QED
      BY <2>1, Zenon DEF QueuesInv
<1>2. accepted > 0 => \A t \in InPool : pc'[t] \in Published \cup {"exited"}
    BY DEF Serving, ConnectionsInv
<1> QED
    BY <1>1, <1>2, OwnerServes

LEMMA OwnerStepServes ==
  ASSUME Serving, OwnerStep, UNCHANGED conns
  PROVE ConnectionsInv' /\ TaskType'
<1>1. ConnectionsInv /\ PoolInv /\ PoolType /\ FlagType
    BY DEF Serving
<1>2. CASE CreateThread
  <2>1. CASE idx <= m_size_pool
    <3>1. /\ main = "start" /\ main' = "latch" /\ pc' = [pc EXCEPT ![idx] = "created"]
          /\ UNCHANGED <<m_size_pool, asked, cut, queue, batch>>
        BY <1>2, <2>1 DEF CreateThread
    <3>2. idx \in Threads /\ idx \in InPool /\ pc[idx] = "none"
        BY <1>1, <2>1, <3>1, PoolAssumption DEF PoolInv, ThreadInv, PoolType, Starting, Threads, InPool
    <3>3. ~(accepted > 0)
        BY <1>1, <3>2 DEF ConnectionsInv, Published
    <3>4. ASSUME NEW t \in Threads PROVE QueuesInv(t)' /\ (cut[t] => cut'[t])
      <4>1. QueuesInv(t)
          BY <1>1 DEF ConnectionsInv
      <4>2. CASE t = idx
        <5>1. pc[t] = "none" /\ pc'[t] = "created"
            BY <1>1, <3>1, <3>2, <4>2 DEF PoolType
        <5> QED
            BY <3>1, <4>1, <5>1 DEF QueuesInv, Published
      <4>3. CASE t # idx
        <5>1. pc'[t] = pc[t]
            BY <1>1, <3>1, <4>3 DEF PoolType
        <5> QED
            BY <3>1, <4>1, <5>1, Zenon DEF QueuesInv
      <4> QED
          BY <4>2, <4>3
    <3>5. main' \notin Ending
        BY <3>1 DEF Ending
    <3> QED
        BY <3>1, <3>3, <3>4, <3>5, OwnerServes
  <2>2. CASE ~(idx <= m_size_pool)
    <3>1. main' = "started" /\ UNCHANGED <<m_size_pool, pc, asked, cut, queue, batch>>
        BY <1>2, <2>2 DEF CreateThread
    <3> QED
        BY <3>1, MainServes DEF Ending
  <2> QED
      BY <2>1, <2>2
<1>3. CASE AwaitLatch
  <2>1. main' \in {"latch", "start_reactor"} /\ UNCHANGED <<m_size_pool, pc, asked, cut, queue, batch>>
      BY <1>3 DEF AwaitLatch
  <2> QED
      BY <2>1, MainServes DEF Ending
<1>4. CASE AwaitReactor
  <2>1. main' \in {"start", "start_reactor"} /\ UNCHANGED <<m_size_pool, pc, asked, cut, queue, batch>>
      BY <1>4 DEF AwaitReactor
  <2> QED
      BY <2>1, MainServes DEF Ending
<1>5. CASE Join
  <2>1. main = "join" /\ UNCHANGED <<m_size_pool, pc, asked, cut, queue, batch>>
      BY <1>5 DEF Join
  <2>2. m_conn_map = {}
      BY <1>1, <2>1 DEF ConnectionsInv, Ending
  <2> QED
      BY <2>1, <2>2, MainServes
<1>6. CASE QuitThread
  <2>1. Pool
      BY <1>1 DEF Pool
  <2>2. main = "destroy" /\ UNCHANGED <<m_size_pool, pc, queue, batch>>
      BY <1>6, <2>1, QuitThreadParts
  <2>3. m_conn_map = {}
      BY <1>1, <2>2 DEF ConnectionsInv, Ending
  <2>4. CASE main' = "join"
    <3>1. /\ idx' \in Threads /\ idx <= idx'
          /\ asked' = [asked EXCEPT ![idx'] = TRUE] /\ cut' = [cut EXCEPT ![idx'] = pc[idx'] = "tasks"]
        BY <1>6, <2>1, <2>4, QuitThreadParts
    <3>2. ASSUME NEW t \in Threads PROVE QueuesInv(t)' /\ (cut[t] => cut'[t])
      <4>1. QueuesInv(t) /\ ThreadInv(t) /\ t \in Int /\ idx \in Int
          BY <1>1 DEF ConnectionsInv, PoolInv, Threads, PoolType
      <4>2. CASE t = idx'
        <5>1. asked'[t] = TRUE /\ cut'[t] = (pc[t] = "tasks")
            BY <1>1, <3>1, <4>2 DEF FlagType
        <5>2. ~asked[t] /\ ~cut[t] /\ pc[t] # "returned"
            BY <1>1, <2>2, <3>1, <4>1, <4>2 DEF ThreadInv, FlagType
        <5> QED
            BY <2>2, <4>1, <5>1, <5>2, Zenon DEF QueuesInv
      <4>3. CASE t # idx'
        <5>1. asked'[t] = asked[t] /\ cut'[t] = cut[t]
            BY <1>1, <3>1, <4>3 DEF FlagType
        <5> QED
            BY <2>2, <4>1, <5>1 DEF QueuesInv
      <4> QED
          BY <4>2, <4>3
    <3>3. accepted > 0 => \A t \in InPool : pc'[t] \in Published \cup {"exited"}
        BY <1>1, <2>2 DEF ConnectionsInv
    <3> QED
        BY <2>2, <2>3, <3>2, <3>3, OwnerServes
  <2>5. CASE main' = "gone"
    <3>1. UNCHANGED <<asked, cut>>
        BY <1>6, <2>1, <2>5, QuitThreadParts
    <3> QED
        BY <2>2, <2>3, <3>1, MainServes
  <2> QED
      BY <1>6, <2>1, <2>4, <2>5, QuitThreadParts
<1> QED
    BY <1>2, <1>3, <1>4, <1>5, <1>6 DEF OwnerStep

(***************************************************************************)
(* A task is queued, run or dropped.                                       *)
(***************************************************************************)
Appends(s, u, x) ==
  /\ Len(s) \in Nat /\ DOMAIN s = 1..Len(s) /\ DOMAIN u = 1..(Len(s) + 1)
  /\ \A i \in DOMAIN s : i \in DOMAIN u /\ u[i] = s[i]
  /\ u[Len(s) + 1] = x

Drops(s, u) ==
  /\ Len(s) \in Nat \ {0} /\ DOMAIN s = 1..Len(s) /\ DOMAIN u = 1..(Len(s) - 1)
  /\ \A i \in DOMAIN u : i + 1 \in DOMAIN s /\ u[i] = s[i + 1]
  /\ \A i \in DOMAIN s : i # 1 => i - 1 \in DOMAIN u /\ u[i - 1] = s[i]

\* queue_in_reactor appends to what there is to run.
LEMMA AppendsTodo ==
  ASSUME NEW T, NEW b \in Seq(T), NEW q \in Seq(T), NEW x \in T
  PROVE  Appends(b \o q, b \o Append(q, x), x)
<1> DEFINE s == b \o q
           u == b \o Append(q, x)
<1>1. /\ Len(b) \in Nat /\ Len(q) \in Nat /\ Len(s) = Len(b) + Len(q) /\ DOMAIN s = 1..(Len(b) + Len(q))
      /\ Append(q, x) \in Seq(T) /\ Len(Append(q, x)) = Len(q) + 1
      /\ \A i \in 1..Len(q) : Append(q, x)[i] = q[i]
      /\ Append(q, x)[Len(q) + 1] = x
    OBVIOUS
<1>2. /\ DOMAIN u = 1..(Len(b) + Len(q) + 1)
      /\ \A i \in 1..Len(b) : u[i] = b[i]
      /\ \A i \in 1..(Len(q) + 1) : u[Len(b) + i] = Append(q, x)[i]
    BY <1>1
<1>3. /\ \A i \in 1..Len(b) : s[i] = b[i]
      /\ \A i \in 1..Len(q) : s[Len(b) + i] = q[i]
    OBVIOUS
<1> HIDE DEF s, u
<1>4. ASSUME NEW i \in 1..(Len(b) + Len(q)) PROVE u[i] = s[i]
  <2>1. CASE i <= Len(b)
      BY <1>1, <1>2, <1>3, <2>1
  <2>2. CASE i > Len(b)
    <3>1. i - Len(b) \in 1..Len(q) /\ i - Len(b) \in 1..(Len(q) + 1) /\ Len(b) + (i - Len(b)) = i
        BY <1>1, <2>2
    <3>2. u[Len(b) + (i - Len(b))] = s[Len(b) + (i - Len(b))]
        BY <1>1, <1>2, <1>3, <3>1, Zenon
    <3> QED
        BY <3>1, <3>2
  <2> QED
      BY <1>1, <2>1, <2>2
<1>5. u[Len(b) + Len(q) + 1] = x
  <2>1. Len(q) + 1 \in 1..(Len(q) + 1) /\ Len(b) + (Len(q) + 1) = Len(b) + Len(q) + 1
      BY <1>1
  <2> QED
      BY <1>1, <1>2, <2>1
<1>6. Appends(s, u, x)
    BY <1>1, <1>2, <1>4, <1>5 DEF Appends
<1> QED
    BY <1>6 DEF s, u

\* Running a task takes it from the front of what there is to run.
LEMMA DropsTodo ==
  ASSUME NEW T, NEW b \in Seq(T), NEW q \in Seq(T), b # <<>>
  PROVE  Drops(b \o q, Tail(b) \o q) /\ (b \o q)[1] = Head(b) /\ Head(b) \in T
<1> DEFINE s == b \o q
           c == Tail(b)
           u == c \o q
<1>1. /\ Len(b) \in Nat \ {0} /\ Len(q) \in Nat /\ Len(s) = Len(b) + Len(q) /\ DOMAIN s = 1..(Len(b) + Len(q))
      /\ c \in Seq(T) /\ Len(c) = Len(b) - 1
      /\ \A i \in 1..(Len(b) - 1) : c[i] = b[i + 1]
      /\ Head(b) = b[1] /\ b[1] \in T
    OBVIOUS
<1>2. /\ \A i \in 1..Len(b) : s[i] = b[i]
      /\ \A i \in 1..Len(q) : s[Len(b) + i] = q[i]
    OBVIOUS
<1> HIDE DEF c
<1>3. /\ DOMAIN u = 1..(Len(b) - 1 + Len(q))
      /\ \A i \in 1..(Len(b) - 1) : u[i] = c[i]
      /\ \A i \in 1..Len(q) : u[Len(b) - 1 + i] = q[i]
  <2>1. ASSUME NEW d \in Seq(T)
        PROVE  /\ DOMAIN (d \o q) = 1..(Len(d) + Len(q))
               /\ \A i \in 1..Len(d) : (d \o q)[i] = d[i]
               /\ \A i \in 1..Len(q) : (d \o q)[Len(d) + i] = q[i]
      OBVIOUS
  <2>2. /\ DOMAIN u = 1..(Len(c) + Len(q))
        /\ \A i \in 1..Len(c) : u[i] = c[i]
        /\ \A i \in 1..Len(q) : u[Len(c) + i] = q[i]
      BY <1>1, <2>1, Zenon
  <2> HIDE DEF u
  <2> QED
      BY <1>1, <2>2, Zenon
<1> HIDE DEF s, u
<1>4. ASSUME NEW i \in 1..(Len(b) - 1 + Len(q)) PROVE i + 1 \in 1..(Len(b) + Len(q)) /\ u[i] = s[i + 1]
  <2>1. i + 1 \in 1..(Len(b) + Len(q))
      BY <1>1
  <2>2. CASE i <= Len(b) - 1
    <3>1. i \in 1..(Len(b) - 1) /\ i + 1 \in 1..Len(b)
        BY <1>1, <2>2
    <3> QED
        BY <1>1, <1>2, <1>3, <2>1, <3>1
  <2>3. CASE i > Len(b) - 1
    <3>1. /\ i - (Len(b) - 1) \in 1..Len(q) /\ Len(b) - 1 + (i - (Len(b) - 1)) = i
          /\ Len(b) + (i - (Len(b) - 1)) = i + 1
        BY <1>1, <2>3
    <3>2. u[Len(b) - 1 + (i - (Len(b) - 1))] = s[Len(b) + (i - (Len(b) - 1))]
        BY <1>2, <1>3, <3>1, Zenon
    <3> QED
        BY <2>1, <3>1, <3>2
  <2> QED
      BY <1>1, <2>2, <2>3
<1>5. ASSUME NEW i \in 1..(Len(b) + Len(q)), i # 1 PROVE i - 1 \in 1..(Len(b) - 1 + Len(q)) /\ u[i - 1] = s[i]
  <2>1. i - 1 \in 1..(Len(b) - 1 + Len(q)) /\ (i - 1) + 1 = i
      BY <1>1, <1>5
  <2> QED
      BY <1>4, <2>1
<1>6. Drops(s, u)
    BY <1>1, <1>3, <1>4, <1>5 DEF Drops
<1>7. s[1] = Head(b) /\ Head(b) \in T
    BY <1>1, <1>2
<1> QED
    BY <1>6, <1>7 DEF s, u, c

\* A task queued to a reactor that exists and was not asked to quit.
LEMMA PostedTodo ==
  ASSUME Serving, NEW k \in Threads, NEW x \in Tasks, UNCHANGED <<pc, asked, cut, batch>>,
         queue' = [queue EXCEPT ![k] = Append(@, x)], pc[k] \in Published, ~asked[k]
  PROVE  /\ TaskType' /\ \A t \in Threads : QueuesInv(t)'
         /\ \A t \in Threads : t # k => Todo(t)' = Todo(t)
         /\ Appends(Todo(k), Todo(k)', x)
<1>1. queue \in [Threads -> Seq(Tasks)] /\ batch \in [Threads -> Seq(Tasks)] /\ Threads' = Threads /\ Tasks' = Tasks
    BY Zenon DEF Serving, TaskType, Threads, Tasks, Conns
<1>2. Append(queue[k], x) \in Seq(Tasks) /\ batch[k] \in Seq(Tasks) /\ queue[k] \in Seq(Tasks)
    BY <1>1
<1>3. TaskType'
    BY <1>1, <1>2 DEF TaskType
<1>4. queue'[k] = Append(queue[k], x) /\ batch'[k] = batch[k] /\ \A t \in Threads : t # k => queue'[t] = queue[t]
    BY <1>1
<1>5. ASSUME NEW t \in Threads, t # k PROVE Todo(t)' = Todo(t) /\ QueuesInv(t)'
  <2>1. queue'[t] = queue[t] /\ batch'[t] = batch[t] /\ QueuesInv(t)
      BY <1>4, <1>5 DEF Serving, ConnectionsInv
  <2> QED
      BY <2>1, Zenon DEF Todo, QueuesInv
<1>6. QueuesInv(k)'
  <2>1. QueuesInv(k)
      BY DEF Serving, ConnectionsInv
  <2> QED
      BY <1>4, <2>1 DEF QueuesInv
<1>7. Appends(Todo(k), Todo(k)', x)
  <2>1. Appends(batch[k] \o queue[k], batch[k] \o Append(queue[k], x), x)
      BY <1>2, AppendsTodo, Zenon
  <2> QED
      BY <1>4, <2>1, Zenon DEF Todo
<1> QED
    BY <1>3, <1>5, <1>6, <1>7

\* A task that was to be run still is.
LEMMA PostedHas ==
  ASSUME NEW k, NEW x, Appends(Todo(k), Todo(k)', x), \A t \in Threads : t # k => Todo(t)' = Todo(t)
  PROVE  \A t \in Threads : \A task : HasTodo(t, task) => HasTodo(t, task)'
<1>1. ASSUME NEW t \in Threads, NEW task, HasTodo(t, task) PROVE HasTodo(t, task)'
  <2>1. CASE t = k
    <3>1. PICK i \in DOMAIN Todo(k) : Todo(k)[i] = task
        BY <1>1, <2>1 DEF HasTodo
    <3>2. i \in DOMAIN Todo(k)' /\ Todo(k)'[i] = task
        BY <3>1, Zenon DEF Appends
    <3> QED
        BY <2>1, <3>2, Zenon DEF HasTodo
  <2>2. CASE t # k
      BY <1>1, <2>2, Zenon DEF HasTodo
  <2> QED
      BY <2>1, <2>2
<1> QED
    BY <1>1

\* TasksInv for a pair of tasks.
LEMMA PairFacts ==
  ASSUME NEW t, TasksInv(t), NEW i \in DOMAIN Todo(t), NEW j \in DOMAIN Todo(t)
  PROVE  /\ Todo(t)[j] = Todo(t)[i] => j = i
         /\ Todo(t)[i].run = "connect_destroyed" /\ Todo(t)[j] = Task("connect_established", Todo(t)[i].conn) => j < i
BY Zenon DEF TasksInv

\* What a task is about.
LEMMA TodoFacts ==
  ASSUME Serving, NEW t \in Threads, NEW i \in DOMAIN Todo(t)
  PROVE  /\ Todo(t)[i] \in Tasks /\ Todo(t)[i].conn \in 1..accepted /\ home[Todo(t)[i].conn] = t
         /\ Todo(t)[i] = Task(Todo(t)[i].run, Todo(t)[i].conn)
<1>1. Todo(t) \in Seq(Tasks)
    BY DEF Serving, TaskType, Todo
<1>2. Todo(t)[i] \in Tasks
    BY <1>1
<1>3. Todo(t)[i].conn <= accepted /\ home[Todo(t)[i].conn] = t
    BY DEF Serving, ConnectionsInv, TasksInv
<1>4. Todo(t)[i].conn \in 1..accepted
    BY <1>2, <1>3, TcpServerAssumption DEF Tasks, Conns, Serving, ConnType
<1>5. Todo(t)[i] = Task(Todo(t)[i].run, Todo(t)[i].conn)
    BY <1>2 DEF Tasks, Task
<1> QED
    BY <1>2, <1>3, <1>4, <1>5

\* Accepting connection accepted + 1 leaves the tasks of the others as they are.
LEMMA AcceptKeepsTasks ==
  ASSUME Serving, NEW k, accepted' = accepted + 1, m_conn_map' = m_conn_map \cup {accepted + 1},
         accepted + 1 \in Conns,
         NEW st, conn_state' = [conn_state EXCEPT ![accepted + 1] = st],
         home' = [home EXCEPT ![accepted + 1] = k]
  PROVE  \A t \in Threads : Todo(t)' = Todo(t) => TasksInv(t)'
<1> SUFFICES ASSUME NEW t \in Threads, Todo(t)' = Todo(t) PROVE TasksInv(t)'
    OBVIOUS
<1>1. TasksInv(t) /\ conn_state \in [Conns -> {"none", "kConnecting", "kConnected", "kDisconnected"}]
      /\ home \in [Conns -> 0..MaxThreads]
    BY DEF Serving, ConnectionsInv, ConnType
<1>2. ASSUME NEW i \in DOMAIN Todo(t), NEW c, c = Todo(t)[i].conn
      PROVE  c <= accepted' /\ home'[c] = home[c] /\ conn_state'[c] = conn_state[c] /\ (c \in m_conn_map' <=> c \in m_conn_map)
  <2>1. c \in 1..accepted /\ accepted \in Nat
      BY <1>2, TodoFacts, Numbers
  <2>2. c # accepted + 1 /\ c <= accepted'
      BY <2>1
  <2> QED
      BY <1>1, <2>1, <2>2, Numbers
<1>3. SUFFICES ASSUME NEW i \in DOMAIN Todo(t)
               PROVE  /\ Todo(t)[i].conn <= accepted' /\ home'[Todo(t)[i].conn] = t
                      /\ IF Todo(t)[i].run = "connect_established" THEN conn_state'[Todo(t)[i].conn] = "kConnecting"
                                                                   ELSE Todo(t)[i].conn \notin m_conn_map'
                      /\ \A j \in DOMAIN Todo(t) :
                           /\ Todo(t)[j] = Todo(t)[i] => j = i
                           /\ Todo(t)[i].run = "connect_destroyed" /\ Todo(t)[j] = Task("connect_established", Todo(t)[i].conn)
                                => j < i
    BY Zenon DEF TasksInv, Task
<1>4. /\ Todo(t)[i].conn <= accepted' /\ home'[Todo(t)[i].conn] = home[Todo(t)[i].conn]
      /\ conn_state'[Todo(t)[i].conn] = conn_state[Todo(t)[i].conn]
      /\ Todo(t)[i].conn \in m_conn_map' <=> Todo(t)[i].conn \in m_conn_map
    BY <1>2
<1> QED
    BY <1>1, <1>4, Zenon DEF TasksInv

\* A connection for a reactor of the pool.
LEMMA AcceptServes ==
  ASSUME Serving, ~misused, Accept
  PROVE ConnectionsInv' /\ TaskType' /\ ~misused'
<1> PICK c : c = accepted + 1
    OBVIOUS
<1> DEFINE x == Task("connect_established", c)
<1>1. /\ main = "serving" /\ arrived > 0 /\ accepted' = c
      /\ open' = open \cup {c} /\ m_conn_map' = m_conn_map \cup {c}
      /\ UNCHANGED <<m_size_pool, pc, batch, asked, cut, main>>
    BY DEF Accept, UNCHANGED_owner
<1>2. /\ ConnectionsInv /\ PoolInv /\ FlagType /\ TaskType /\ ConnType
      /\ conn_state \in [Conns -> {"none", "kConnecting", "kConnected", "kDisconnected"}]
      /\ home \in [Conns -> 0..MaxThreads]
    BY DEF Serving, ConnType
<1>3. accepted \in Nat /\ c \in Conns /\ c \notin 1..accepted /\ 1..accepted' = (1..accepted) \cup {c}
    BY <1>1, <1>2, TcpServerAssumption DEF ConnType, Conns
<1>4. \A t \in InPool : pc[t] \in Published /\ ~asked[t] /\ t \in Threads
  <2>1. ASSUME NEW t \in InPool PROVE pc[t] \in Published /\ ~asked[t] /\ t \in Threads
    <3>1. t \in Threads /\ m_size_pool \in Nat /\ t <= m_size_pool /\ t \in Int
        BY Numbers DEF InPool
    <3>2. ThreadInv(t) /\ idx = m_size_pool + 1
        BY <1>1, <1>2, <3>1 DEF PoolInv
    <3> QED
        BY <1>1, <3>1, <3>2 DEF ThreadInv, Starting, Ending
  <2> QED
      BY <2>1
<1>5. CASE m_size_pool = 0
  <2>1. /\ home' = [home EXCEPT ![c] = 0] /\ conn_state' = [conn_state EXCEPT ![c] = "kConnected"]
        /\ UNCHANGED <<queue, misused>>
      BY <1>5 DEF Accept
  <2>2. ASSUME NEW t \in Threads PROVE Todo(t)' = Todo(t) /\ QueuesInv(t)'
    <3>1. QueuesInv(t)
        BY <1>2 DEF ConnectionsInv
    <3> QED
        BY <1>1, <2>1, <3>1, Zenon DEF Todo, QueuesInv
  <2>3. \A t \in Threads : TasksInv(t)'
      BY <1>1, <1>3, <2>1, <2>2, AcceptKeepsTasks, Zenon
  <2>4. ASSUME NEW d \in 1..accepted PROVE ConnInv(d)'
    <3>1. d \in Conns /\ d # c /\ ConnInv(d)
        BY <1>2, <1>3, Numbers DEF ConnectionsInv
    <3>2. home'[d] = home[d] /\ conn_state'[d] = conn_state[d] /\ (d \in m_conn_map' <=> d \in m_conn_map)
          /\ (d \in open' <=> d \in open)
        BY <1>1, <1>2, <1>3, <2>1, <3>1
    <3>3. home[d] = 0
        BY <1>5, <3>1 DEF ConnInv
    <3> QED
        BY <1>1, <1>5, <3>1, <3>2, <3>3, Zenon DEF ConnInv
  <2>5. ConnInv(c)'
    <3>1. home'[c] = 0 /\ conn_state'[c] = "kConnected" /\ c \in m_conn_map'
        BY <1>1, <1>2, <1>3, <2>1
    <3> QED
        BY <1>1, <1>5, <3>1 DEF ConnInv
  <2>6. TaskType'
      BY <1>1, <1>2, <2>1, Zenon DEF TaskType, Threads, Tasks, Conns
  <2>7. InPool' = {}
      BY <1>1, <1>5 DEF InPool
  <2>8. m_conn_map' \cup open' \subseteq 1..accepted' /\ main' \notin Ending
      BY <1>1, <1>2, <1>3 DEF ConnectionsInv, Ending
  <2>9. ConnectionsInv'
      BY <1>3, <2>2, <2>3, <2>4, <2>5, <2>7, <2>8, Zenon DEF ConnectionsInv, Threads
  <2> QED
      BY <2>1, <2>6, <2>9
<1>6. CASE m_size_pool # 0
  <2> PICK k : k = m_next_idx
      OBVIOUS
  <2>1. /\ home' = [home EXCEPT ![c] = k] /\ conn_state' = [conn_state EXCEPT ![c] = "kConnecting"]
        /\ queue' = [queue EXCEPT ![k] = Append(@, x)]
        /\ misused' = (misused \/ ~ReactorExists(k))
      BY <1>6 DEF Accept, Post
  <2>2. k \in InPool /\ k \in Threads /\ pc[k] \in Published /\ ~asked[k] /\ k # 0
      BY <1>2, <1>4, <1>6, Numbers DEF ConnType
  <2>3. ~misused'
      BY <2>1, <2>2, Zenon DEF ReactorExists, Published
  <2>4. x \in Tasks
      BY <1>3 DEF Tasks, Task
  <2>5. /\ TaskType' /\ \A t \in Threads : QueuesInv(t)'
        /\ \A t \in Threads : t # k => Todo(t)' = Todo(t)
        /\ Appends(Todo(k), Todo(k)', x)
    <3> HIDE DEF x
    <3> QED
        BY <1>1, <2>1, <2>2, <2>4, PostedTodo, Zenon
  <2>6. \A t \in Threads : t # k => TasksInv(t)'
      BY <1>1, <1>3, <2>1, <2>5, AcceptKeepsTasks, Zenon
  <2> DEFINE s == Todo(k)
             u == Todo(k)'
  <2>7. /\ Len(s) \in Nat /\ DOMAIN s = 1..Len(s) /\ DOMAIN u = (DOMAIN s) \cup {Len(s) + 1} /\ Len(s) + 1 \notin DOMAIN s
        /\ \A i \in DOMAIN s : u[i] = s[i]
        /\ u[Len(s) + 1] = x
      BY <2>5 DEF Appends
  <2>8. ASSUME NEW i \in DOMAIN s
        PROVE  /\ s[i].conn \in 1..accepted /\ s[i].conn # c /\ s[i].conn <= accepted'
               /\ home'[s[i].conn] = k /\ s[i] # x
               /\ IF s[i].run = "connect_established" THEN conn_state'[s[i].conn] = "kConnecting"
                                                      ELSE s[i].conn \notin m_conn_map'
    <3>1. s[i].conn \in 1..accepted /\ home[s[i].conn] = k
        BY <2>2, TodoFacts
    <3>2. s[i].conn # c /\ s[i].conn \in Conns /\ s[i].conn <= accepted'
        BY <1>1, <1>3, <3>1, Numbers
    <3>3. IF s[i].run = "connect_established" THEN conn_state[s[i].conn] = "kConnecting" ELSE s[i].conn \notin m_conn_map
        BY <1>2, <2>2 DEF ConnectionsInv, TasksInv
    <3>4. x.conn = c
        BY DEF Task
    <3>5. home'[s[i].conn] = k /\ conn_state'[s[i].conn] = conn_state[s[i].conn]
        BY <1>2, <2>1, <3>1, <3>2, Zenon
    <3> QED
        BY <1>1, <3>1, <3>2, <3>3, <3>4, <3>5
  <2>9. TasksInv(k)'
    <3>1. SUFFICES ASSUME NEW i \in DOMAIN u
                   PROVE  /\ u[i].conn <= accepted' /\ home'[u[i].conn] = k
                          /\ IF u[i].run = "connect_established" THEN conn_state'[u[i].conn] = "kConnecting"
                                                                 ELSE u[i].conn \notin m_conn_map'
                          /\ \A j \in DOMAIN u :
                               /\ u[j] = u[i] => j = i
                               /\ u[i].run = "connect_destroyed" /\ u[j] = Task("connect_established", u[i].conn) => j < i
        BY Zenon DEF TasksInv
    <3>2. CASE i \in DOMAIN s
      <4>1. u[i] = s[i]
          BY <2>7, <3>2
      <4>2. ASSUME NEW j \in DOMAIN u
            PROVE  /\ u[j] = s[i] => j = i
                   /\ s[i].run = "connect_destroyed" /\ u[j] = Task("connect_established", s[i].conn) => j < i
        <5>1. CASE j \in DOMAIN s
          <6>1. u[j] = s[j]
              BY <2>7, <5>1
          <6>2. TasksInv(k)
              BY <1>2, <2>2 DEF ConnectionsInv
          <6>3. /\ s[j] = s[i] => j = i
                /\ s[i].run = "connect_destroyed" /\ s[j] = Task("connect_established", s[i].conn) => j < i
              BY <3>2, <5>1, <6>2, PairFacts, Zenon
          <6> QED
              BY <6>1, <6>3, Zenon
        <5>2. CASE j = Len(s) + 1
          <6>1. u[j] = x /\ x.conn = c /\ Task("connect_established", s[i].conn).conn = s[i].conn
              BY <2>7, <5>2 DEF Task
          <6>2. s[i] # x /\ s[i].conn # c
              BY <2>8, <3>2
          <6> QED
              BY <6>1, <6>2
        <5> QED
            BY <2>7, <5>1, <5>2
      <4> QED
          BY <2>8, <3>2, <4>1, <4>2
    <3>3. CASE i = Len(s) + 1
      <4>1. u[i] = x /\ x.conn = c /\ x.run = "connect_established"
          BY <2>7, <3>3 DEF Task
      <4>2. home'[c] = k /\ conn_state'[c] = "kConnecting" /\ c <= accepted'
          BY <1>1, <1>2, <1>3, <2>1
      <4>3. ASSUME NEW j \in DOMAIN u, u[j] = x PROVE j = i
          BY <2>7, <2>8, <3>3, <4>3
      <4> QED
          BY <4>1, <4>2, <4>3, Zenon
    <3> QED
        BY <2>7, <3>2, <3>3
  <2>10. \A t \in Threads : \A task : HasTodo(t, task) => HasTodo(t, task)'
      BY <2>5, PostedHas, Zenon
  <2>11. ASSUME NEW d \in 1..accepted PROVE ConnInv(d)'
    <3>1. d \in Conns /\ d # c /\ ConnInv(d) /\ (home[d] # 0 => home[d] \in Threads)
        BY <1>2, <1>3, Numbers DEF ConnectionsInv
    <3>2. home'[d] = home[d] /\ conn_state'[d] = conn_state[d] /\ (d \in m_conn_map' <=> d \in m_conn_map)
          /\ (d \in open' <=> d \in open)
        BY <1>1, <1>2, <1>3, <2>1, <3>1
    <3>3. \A task : home[d] # 0 /\ HasTodo(home[d], task) => HasTodo(home[d], task)'
      <4>1. ASSUME NEW task, home[d] # 0, HasTodo(home[d], task) PROVE HasTodo(home[d], task)'
        <5>1. PICK t \in Threads : t = home[d]
            BY <3>1, <4>1
        <5>2. HasTodo(t, task)'
            BY <2>10, <4>1, <5>1
        <5> QED
            BY <3>2, <5>1, <5>2, Zenon DEF HasTodo
      <4> QED
          BY <4>1
    <3> QED
        BY <1>1, <1>6, <3>1, <3>2, <3>3, Zenon DEF ConnInv, InPool
  <2>12. ConnInv(c)'
    <3>1. home'[c] = k /\ conn_state'[c] = "kConnecting" /\ c \in m_conn_map'
        BY <1>1, <1>2, <1>3, <2>1
    <3>2. HasTodo(k, x)'
      <4>1. Len(s) + 1 \in DOMAIN u /\ u[Len(s) + 1] = x
          BY <2>7
      <4> QED
          BY <4>1, Zenon DEF HasTodo
    <3> QED
        BY <1>1, <1>6, <2>2, <3>1, <3>2, Zenon DEF ConnInv, InPool
  <2>13. m_conn_map' \cup open' \subseteq 1..accepted' /\ main' \notin Ending
      BY <1>1, <1>2, <1>3 DEF ConnectionsInv, Ending
  <2>14. ConnectionsInv'
      BY <1>1, <1>3, <1>4, <2>5, <2>6, <2>9, <2>11, <2>12, <2>13, Zenon DEF ConnectionsInv, Threads, InPool
  <2> QED
      BY <2>3, <2>5, <2>14
<1> QED
    BY <1>5, <1>6

\* ~TcpServer hands a connection to its reactor, or destroys it itself.
LEMMA DestroyConnServes ==
  ASSUME Serving, ~misused, DestroyConn
  PROVE ConnectionsInv' /\ TaskType' /\ ~misused'
<1>1. main = "destroy_conns" /\ UNCHANGED <<m_size_pool, pc, batch, asked, cut, main, accepted, home>>
    BY DEF DestroyConn, UNCHANGED_owner
<1>2. PICK c \in m_conn_map :
        /\ m_conn_map' = m_conn_map \ {c}
        /\ IF home[c] = 0
           THEN /\ conn_state' = [conn_state EXCEPT ![c] = "kDisconnected"]
                /\ open' = open \ {c}
                /\ UNCHANGED <<queue, misused>>
           ELSE /\ Post(home[c], Task("connect_destroyed", c))
                /\ UNCHANGED <<conn_state, open>>
    BY DEF DestroyConn
<1>3. /\ ConnectionsInv /\ PoolInv /\ FlagType /\ TaskType /\ ConnType
      /\ conn_state \in [Conns -> {"none", "kConnecting", "kConnected", "kDisconnected"}]
    BY DEF Serving, ConnType
<1>4. c \in 1..accepted /\ c \in Conns /\ ConnInv(c) /\ accepted > 0
    BY <1>3, Numbers DEF ConnectionsInv
<1>5. m_conn_map' \cup open' \subseteq 1..accepted /\ main' \notin Ending
    BY <1>1, <1>2, <1>3 DEF ConnectionsInv, Ending
<1>6. \A t \in InPool : pc[t] \in Published \cup {"exited"}
    BY <1>3, <1>4 DEF ConnectionsInv
<1>7. ASSUME NEW t \in Threads, Todo(t)' = Todo(t), \A d \in 1..accepted : home[d] = t => conn_state'[d] = conn_state[d]
      PROVE  TasksInv(t)'
  <2>1. SUFFICES ASSUME NEW i \in DOMAIN Todo(t)
                 PROVE  /\ Todo(t)[i].conn <= accepted' /\ home'[Todo(t)[i].conn] = t
                        /\ IF Todo(t)[i].run = "connect_established" THEN conn_state'[Todo(t)[i].conn] = "kConnecting"
                                                                     ELSE Todo(t)[i].conn \notin m_conn_map'
                        /\ \A j \in DOMAIN Todo(t) :
                             /\ Todo(t)[j] = Todo(t)[i] => j = i
                             /\ Todo(t)[i].run = "connect_destroyed" /\ Todo(t)[j] = Task("connect_established", Todo(t)[i].conn)
                                  => j < i
      BY <1>7, Zenon DEF TasksInv, Task
  <2>2. Todo(t)[i].conn \in 1..accepted /\ home[Todo(t)[i].conn] = t
      BY TodoFacts, Zenon
  <2>3. conn_state'[Todo(t)[i].conn] = conn_state[Todo(t)[i].conn] /\ TasksInv(t)
      BY <1>3, <1>7, <2>2 DEF ConnectionsInv
  <2> QED
      BY <1>1, <1>2, <2>3, Zenon DEF TasksInv
<1>8. CASE home[c] = 0
  <2>1. /\ conn_state' = [conn_state EXCEPT ![c] = "kDisconnected"] /\ open' = open \ {c} /\ UNCHANGED <<queue, misused>>
      BY <1>2, <1>8, Zenon
  <2>2. ASSUME NEW t \in Threads PROVE Todo(t)' = Todo(t) /\ QueuesInv(t)' /\ TasksInv(t)'
    <3>1. QueuesInv(t) /\ Todo(t)' = Todo(t)
        BY <1>1, <1>3, <2>1 DEF ConnectionsInv, Todo
    <3>2. QueuesInv(t)'
        BY <1>1, <2>1, <3>1, Zenon DEF QueuesInv
    <3>3. ASSUME NEW d \in 1..accepted, home[d] = t PROVE conn_state'[d] = conn_state[d]
      <4>1. d # c /\ d \in Conns
          BY <1>8, <3>3, Numbers
      <4> QED
          BY <1>3, <2>1, <4>1
    <3> QED
        BY <1>7, <3>1, <3>2, <3>3
  <2>3. ASSUME NEW d \in 1..accepted PROVE ConnInv(d)'
    <3>1. CASE d = c
      <4>1. conn_state'[d] = "kDisconnected" /\ d \notin m_conn_map' /\ d \notin open' /\ home'[d] = 0
          BY <1>1, <1>2, <1>3, <1>4, <1>8, <2>1, <3>1
      <4>2. m_size_pool = 0
          BY <1>4, <1>8, Numbers DEF ConnInv
      <4> QED
          BY <1>1, <4>1, <4>2, Zenon DEF ConnInv
    <3>2. CASE d # c
      <4>1. /\ conn_state'[d] = conn_state[d] /\ (d \in m_conn_map' <=> d \in m_conn_map)
            /\ (d \in open' <=> d \in open) /\ ConnInv(d)
          BY <1>2, <1>3, <2>1, <3>2, Numbers, Zenon DEF ConnectionsInv
      <4>2. m_size_pool = 0
          BY <1>4, <1>8, Numbers DEF ConnInv
      <4>3. home[d] = 0
          BY <4>1, <4>2 DEF ConnInv
      <4> QED
          BY <1>1, <4>1, <4>3, Zenon DEF ConnInv, InPool
    <3> QED
        BY <3>1, <3>2
  <2>4. TaskType'
      BY <1>1, <1>3, <2>1, Zenon DEF TaskType, Threads, Tasks, Conns
  <2>5. ConnectionsInv'
      BY <1>1, <1>5, <1>6, <2>2, <2>3, Zenon DEF ConnectionsInv, Threads, InPool
  <2> QED
      BY <2>1, <2>4, <2>5
<1>9. CASE home[c] # 0
  <2> PICK k : k = home[c]
      OBVIOUS
  <2> DEFINE x == Task("connect_destroyed", c)
  <2>1. /\ queue' = [queue EXCEPT ![k] = Append(@, x)] /\ misused' = (misused \/ ~ReactorExists(k))
        /\ UNCHANGED <<conn_state, open>>
      BY <1>2, <1>9 DEF Post
  <2>2. k \in InPool /\ k \in Threads
      BY <1>4, <1>9, Numbers
  <2>3. pc[k] \in Published /\ ~asked[k]
    <3>1. ThreadInv(k)
        BY <1>3, <2>2, Zenon DEF PoolInv
    <3> QED
        BY <1>1, <1>6, <2>2, <3>1 DEF ThreadInv, Ending
  <2>4. ~misused'
      BY <2>1, <2>3, Zenon DEF ReactorExists, Published
  <2>5. x \in Tasks
      BY <1>4 DEF Tasks, Task
  <2>6. /\ TaskType' /\ \A t \in Threads : QueuesInv(t)'
        /\ \A t \in Threads : t # k => Todo(t)' = Todo(t)
        /\ Appends(Todo(k), Todo(k)', x)
    <3> HIDE DEF x
    <3> QED
        BY <1>1, <2>1, <2>2, <2>3, <2>5, PostedTodo, Zenon
  <2>7. \A t \in Threads : t # k => TasksInv(t)'
      BY <1>7, <2>1, <2>6, Zenon
  <2>8. \A t \in Threads : \A task : HasTodo(t, task) => HasTodo(t, task)'
      BY <2>6, PostedHas, Zenon
  <2> DEFINE s == Todo(k)
             u == Todo(k)'
  <2>9. /\ Len(s) \in Nat /\ DOMAIN s = 1..Len(s) /\ DOMAIN u = (DOMAIN s) \cup {Len(s) + 1} /\ Len(s) + 1 \notin DOMAIN s
        /\ \A i \in DOMAIN s : u[i] = s[i] /\ i < Len(s) + 1
        /\ u[Len(s) + 1] = x
      BY <2>6 DEF Appends
  <2>10. TasksInv(k)
      BY <1>3, <2>2 DEF ConnectionsInv
  <2>11. x.run = "connect_destroyed" /\ x.conn = c /\ \A d : Task("connect_established", d) # x
    <3>1. \A d : Task("connect_established", d).run = "connect_established"
        BY DEF Task
    <3>2. x.run = "connect_destroyed" /\ x.conn = c
        BY DEF Task
    <3> QED
        BY <3>1, <3>2
  <2>12. ASSUME NEW i \in DOMAIN s PROVE s[i] # x
    <3>1. s[i].run = "connect_destroyed" => s[i].conn \notin m_conn_map
        BY <2>10, Zenon DEF TasksInv
    <3> QED
        BY <2>11, <3>1, Zenon
  <2>13. TasksInv(k)'
    <3>1. SUFFICES ASSUME NEW i \in DOMAIN u
                   PROVE  /\ u[i].conn <= accepted' /\ home'[u[i].conn] = k
                          /\ IF u[i].run = "connect_established" THEN conn_state'[u[i].conn] = "kConnecting"
                                                                 ELSE u[i].conn \notin m_conn_map'
                          /\ \A j \in DOMAIN u :
                               /\ u[j] = u[i] => j = i
                               /\ u[i].run = "connect_destroyed" /\ u[j] = Task("connect_established", u[i].conn) => j < i
        BY Zenon DEF TasksInv
    <3>2. CASE i \in DOMAIN s
      <4>1. u[i] = s[i]
          BY <2>9, <3>2, Zenon
      <4>2. ASSUME NEW j \in DOMAIN u
            PROVE  /\ u[j] = s[i] => j = i
                   /\ s[i].run = "connect_destroyed" /\ u[j] = Task("connect_established", s[i].conn) => j < i
        <5>1. CASE j \in DOMAIN s
          <6>1. u[j] = s[j]
              BY <2>9, <5>1
          <6>2. /\ s[j] = s[i] => j = i
                /\ s[i].run = "connect_destroyed" /\ s[j] = Task("connect_established", s[i].conn) => j < i
              BY <2>10, <3>2, <5>1, PairFacts, Zenon
          <6> QED
              BY <6>1, <6>2, Zenon
        <5>2. CASE j = Len(s) + 1
            BY <2>9, <2>11, <2>12, <3>2, <5>2
        <5> QED
            BY <2>9, <5>1, <5>2
      <4>3. /\ s[i].conn <= accepted' /\ home'[s[i].conn] = k
            /\ IF s[i].run = "connect_established" THEN conn_state'[s[i].conn] = "kConnecting"
                                                   ELSE s[i].conn \notin m_conn_map'
          BY <1>1, <1>2, <2>1, <2>10, <3>2, Zenon DEF TasksInv
      <4> QED
          BY <4>1, <4>2, <4>3, Zenon
    <3>3. CASE i = Len(s) + 1
      <4>1. u[i] = x
          BY <2>9, <3>3
      <4>2. c <= accepted' /\ home'[c] = k /\ c \notin m_conn_map'
          BY <1>1, <1>2, <1>4
      <4>3. ASSUME NEW j \in DOMAIN u, j # i PROVE u[j] # x /\ j < i
          BY <2>9, <2>12, <3>3, <4>3
      <4>4. \A j \in DOMAIN u : u[j] = Task("connect_established", c) => j < i
          BY <2>11, <4>1, <4>3
      <4> QED
          BY <2>11, <4>1, <4>2, <4>3, <4>4, Zenon
    <3> QED
        BY <2>9, <3>2, <3>3
  <2>14. ASSUME NEW d \in 1..accepted PROVE ConnInv(d)'
    <3>1. ConnInv(d) /\ (home[d] # 0 => home[d] \in Threads)
        BY <1>3, Numbers DEF ConnectionsInv
    <3>2. \A task : home[d] # 0 /\ HasTodo(home[d], task) => HasTodo(home[d], task)'
      <4>1. ASSUME NEW task, home[d] # 0, HasTodo(home[d], task) PROVE HasTodo(home[d], task)'
        <5>1. PICK t \in Threads : t = home[d]
            BY <3>1, <4>1
        <5>2. HasTodo(t, task)'
            BY <2>8, <4>1, <5>1
        <5> QED
            BY <1>1, <5>1, <5>2, Zenon DEF HasTodo
      <4> QED
          BY <4>1
    <3>3. CASE d = c
      <4>1. HasTodo(k, x)'
        <5>1. Len(s) + 1 \in DOMAIN u /\ u[Len(s) + 1] = x
            BY <2>9
        <5> QED
            BY <5>1, Zenon DEF HasTodo
      <4>2. HasTodo(home[d], Task("connect_destroyed", d))'
          BY <1>1, <3>3, <4>1, Zenon DEF HasTodo
      <4> QED
          BY <1>1, <1>9, <2>1, <3>1, <3>2, <3>3, <4>2, Zenon DEF ConnInv, InPool
    <3>4. CASE d # c
      <4>1. d \in m_conn_map' <=> d \in m_conn_map
          BY <1>2, <3>4
      <4> QED
          BY <1>1, <2>1, <3>1, <3>2, <4>1, Zenon DEF ConnInv, InPool
    <3> QED
        BY <3>3, <3>4
  <2>15. ConnectionsInv'
      BY <1>1, <1>5, <1>6, <2>6, <2>7, <2>13, <2>14, Zenon DEF ConnectionsInv, Threads, InPool
  <2> QED
      BY <2>4, <2>6, <2>15
<1> QED
    BY <1>8, <1>9

\* A thread runs the first task of its batch.
LEMMA RunTaskTodo ==
  ASSUME Serving, NEW t \in Threads, TakeTask(t)
  PROVE  /\ TaskType' /\ \A o \in Threads : QueuesInv(o)'
         /\ \A o \in Threads : o # t => Todo(o)' = Todo(o)
         /\ Drops(Todo(t), Todo(t)') /\ Todo(t)[1] = Head(batch[t])
<1>1. /\ pc[t] = "tasks" /\ batch[t] # <<>> /\ batch' = [batch EXCEPT ![t] = Tail(@)]
      /\ UNCHANGED <<pc, queue, asked, cut>>
    BY DEF TakeTask
<1>2. /\ queue \in [Threads -> Seq(Tasks)] /\ batch \in [Threads -> Seq(Tasks)] /\ Threads' = Threads /\ Tasks' = Tasks
      /\ \A o \in Threads : QueuesInv(o)
    BY Zenon DEF Serving, TaskType, Threads, Tasks, Conns, ConnectionsInv
<1>3. batch[t] \in Seq(Tasks) /\ queue[t] \in Seq(Tasks) /\ Tail(batch[t]) \in Seq(Tasks)
    BY <1>1, <1>2
<1>4. TaskType'
    BY <1>1, <1>2, <1>3 DEF TaskType
<1>5. batch'[t] = Tail(batch[t]) /\ \A o \in Threads : o # t => batch'[o] = batch[o]
    BY <1>1, <1>2
<1>6. ASSUME NEW o \in Threads, o # t PROVE Todo(o)' = Todo(o) /\ QueuesInv(o)'
    BY <1>1, <1>2, <1>5, <1>6, Zenon DEF Todo, QueuesInv
<1>7. QueuesInv(t)'
  <2>1. QueuesInv(t)
      BY <1>2
  <2> QED
      BY <1>1, <2>1, Zenon DEF QueuesInv
<1>8. Drops(Todo(t), Todo(t)') /\ Todo(t)[1] = Head(batch[t])
  <2>1. Drops(batch[t] \o queue[t], Tail(batch[t]) \o queue[t]) /\ (batch[t] \o queue[t])[1] = Head(batch[t])
      BY <1>1, <1>3, DropsTodo, Zenon
  <2> QED
      BY <1>1, <1>5, <2>1, Zenon DEF Todo
<1> QED
    BY <1>4, <1>6, <1>7, <1>8

\* connect_established and connect_destroyed on the connection's thread.
LEMMA RunTaskServes ==
  ASSUME Serving, NEW t \in Threads, RunTask(t)
  PROVE ConnectionsInv' /\ TaskType'
<1> PICK x : x = Todo(t)[1]
    OBVIOUS
<1> PICK c : c = x.conn
    OBVIOUS
<1>1. TakeTask(t) /\ UNCHANGED <<m_size_pool, main, pc, cut, accepted, home, m_conn_map>>
    BY DEF RunTask, TakeTask
<1>2. /\ TaskType' /\ \A o \in Threads : QueuesInv(o)'
      /\ \A o \in Threads : o # t => Todo(o)' = Todo(o)
      /\ Drops(Todo(t), Todo(t)') /\ x = Head(batch[t])
    BY <1>1, RunTaskTodo, Zenon
<1>3. /\ ConnectionsInv /\ TasksInv(t)
      /\ conn_state \in [Conns -> {"none", "kConnecting", "kConnected", "kDisconnected"}]
    BY DEF Serving, ConnType, ConnectionsInv
<1> DEFINE s == Todo(t)
           u == Todo(t)'
<1>4. /\ Len(s) \in Nat \ {0} /\ DOMAIN s = 1..Len(s) /\ DOMAIN u = 1..(Len(s) - 1) /\ 1 \in DOMAIN s
      /\ \A i \in DOMAIN u : i + 1 \in DOMAIN s /\ u[i] = s[i + 1] /\ i \in Nat /\ i + 1 # 1
      /\ \A i \in DOMAIN s : i # 1 => i - 1 \in DOMAIN u /\ u[i - 1] = s[i]
    BY <1>2 DEF Drops
<1>5. x \in Tasks /\ c \in 1..accepted /\ home[c] = t /\ x = Task(x.run, c) /\ c \in Conns
    BY <1>4, TodoFacts, Numbers
<1>6. x.run \in {"connect_established", "connect_destroyed"}
    BY <1>5 DEF Tasks
<1>7. /\ IF x.run = "connect_established" THEN conn_state[c] = "kConnecting" ELSE c \notin m_conn_map
      /\ \A i \in DOMAIN s : /\ s[i] = x => i = 1
                             /\ x.run = "connect_destroyed" /\ s[i] = Task("connect_established", c) => i < 1
    BY <1>3, <1>4, Zenon DEF TasksInv
<1>8. IF x.run = "connect_established"
      THEN conn_state' = [conn_state EXCEPT ![c] = "kConnected"] /\ open' = open
      ELSE /\ conn_state' = [conn_state EXCEPT ![c] = IF @ = "kConnected" THEN "kDisconnected" ELSE @]
           /\ open' = open \ {c}
    BY <1>2 DEF RunTask
<1>9. \A d \in Conns : d # c => conn_state'[d] = conn_state[d] /\ (d \in open' <=> d \in open)
    BY <1>3, <1>8
<1>10. ASSUME NEW i \in DOMAIN s, s[i] # x PROVE i - 1 \in DOMAIN u /\ u[i - 1] = s[i]
    BY <1>4, <1>10
<1>11. ASSUME NEW o \in Threads, NEW task, task # x, HasTodo(o, task) PROVE HasTodo(o, task)'
  <2>1. CASE o = t
    <3>1. PICK i \in DOMAIN s : s[i] = task
        BY <1>11, <2>1 DEF HasTodo
    <3>2. i - 1 \in DOMAIN u /\ u[i - 1] = task
        BY <1>10, <1>11, <3>1
    <3> QED
        BY <2>1, <3>2, Zenon DEF HasTodo
  <2>2. CASE o # t
      BY <1>2, <1>11, <2>2, Zenon DEF HasTodo
  <2> QED
      BY <2>1, <2>2
<1>12. ASSUME NEW o \in Threads, o # t PROVE TasksInv(o)'
  <2>1. Todo(o)' = Todo(o) /\ TasksInv(o)
      BY <1>2, <1>3, <1>12 DEF ConnectionsInv
  <2>2. SUFFICES ASSUME NEW i \in DOMAIN Todo(o)
                 PROVE  /\ Todo(o)[i].conn <= accepted' /\ home'[Todo(o)[i].conn] = o
                        /\ IF Todo(o)[i].run = "connect_established" THEN conn_state'[Todo(o)[i].conn] = "kConnecting"
                                                                     ELSE Todo(o)[i].conn \notin m_conn_map'
                        /\ \A j \in DOMAIN Todo(o) :
                             /\ Todo(o)[j] = Todo(o)[i] => j = i
                             /\ Todo(o)[i].run = "connect_destroyed" /\ Todo(o)[j] = Task("connect_established", Todo(o)[i].conn)
                                  => j < i
      BY <2>1, Zenon DEF TasksInv, Task
  <2>3. Todo(o)[i].conn \in Conns /\ Todo(o)[i].conn # c
    <3>1. Todo(o)[i].conn \in 1..accepted /\ home[Todo(o)[i].conn] = o
        BY <1>12, TodoFacts, Zenon
    <3>2. 1..accepted \subseteq Conns
        BY Numbers, Zenon
    <3> QED
        BY <1>5, <1>12, <3>1, <3>2, Zenon
  <2>4. conn_state'[Todo(o)[i].conn] = conn_state[Todo(o)[i].conn]
      BY <1>9, <2>3, Zenon
  <2> QED
      BY <1>1, <2>1, <2>4, Zenon DEF TasksInv
<1>13. TasksInv(t)'
  <2>1. SUFFICES ASSUME NEW i \in DOMAIN u
                 PROVE  /\ u[i].conn <= accepted' /\ home'[u[i].conn] = t
                        /\ IF u[i].run = "connect_established" THEN conn_state'[u[i].conn] = "kConnecting"
                                                               ELSE u[i].conn \notin m_conn_map'
                        /\ \A j \in DOMAIN u :
                             /\ u[j] = u[i] => j = i
                             /\ u[i].run = "connect_destroyed" /\ u[j] = Task("connect_established", u[i].conn) => j < i
      BY Zenon DEF TasksInv
  <2> PICK y : y = u[i]
      BY Zenon
  <2>2. i + 1 \in DOMAIN s /\ y = s[i + 1] /\ i \in Nat /\ i + 1 # 1
      BY <1>4
  <2>3. /\ y \in Tasks /\ y.conn \in 1..accepted /\ home[y.conn] = t /\ y = Task(y.run, y.conn) /\ y.conn <= accepted
        /\ y.conn \in Conns
    <3>1. y.conn \in 1..accepted /\ accepted \in Nat /\ y.conn \in Conns
        BY <2>2, TodoFacts, Numbers
    <3>2. y.conn <= accepted
        BY <3>1
    <3>3. /\ s[i + 1] \in Tasks /\ home[s[i + 1].conn] = t /\ s[i + 1] = Task(s[i + 1].run, s[i + 1].conn)
        BY <2>2, TodoFacts, Zenon
    <3> QED
        BY <2>2, <3>1, <3>2, <3>3, Zenon
  <2>4. /\ IF y.run = "connect_established" THEN conn_state[y.conn] = "kConnecting" ELSE y.conn \notin m_conn_map
        /\ \A j \in DOMAIN s : /\ s[j] = y => j = i + 1
                               /\ y.run = "connect_destroyed" /\ s[j] = Task("connect_established", y.conn) => j < i + 1
      BY <1>3, <2>2, Zenon DEF TasksInv
  <2>5. ASSUME y.run = "connect_established" PROVE conn_state'[y.conn] = "kConnecting"
    <3>1. y # x
        BY <1>7, <2>2, Zenon
    <3>2. y.conn # c
      <4>1. SUFFICES ASSUME y.conn = c PROVE FALSE
          BY Zenon
      <4>2. y = Task("connect_established", c)
          BY <2>3, <2>5, <4>1
      <4>3. x.run = "connect_destroyed"
          BY <1>5, <1>6, <3>1, <4>2
      <4>4. i + 1 < 1
          BY <1>7, <2>2, <4>2, <4>3, Zenon
      <4> QED
          BY <2>2, <4>4
    <3> QED
        BY <1>9, <2>3, <2>4, <2>5, <3>2, Zenon
  <2>6. ASSUME NEW j \in DOMAIN u
        PROVE  /\ u[j] = y => j = i
               /\ y.run = "connect_destroyed" /\ u[j] = Task("connect_established", y.conn) => j < i
    <3>1. j + 1 \in DOMAIN s /\ u[j] = s[j + 1] /\ j \in Nat
        BY <1>4
    <3>2. /\ s[j + 1] = y => j + 1 = i + 1
          /\ y.run = "connect_destroyed" /\ s[j + 1] = Task("connect_established", y.conn) => j + 1 < i + 1
        BY <2>4, <3>1
    <3> QED
        BY <2>2, <3>1, <3>2
  <2> QED
      BY <1>1, <2>3, <2>4, <2>5, <2>6
<1>14. ASSUME NEW d \in 1..accepted PROVE ConnInv(d)'
  <2>1. ConnInv(d) /\ (home[d] # 0 => home[d] \in Threads) /\ d \in Conns
      BY <1>3, Numbers DEF ConnectionsInv
  <2>2. \A task : home[d] # 0 /\ task # x /\ HasTodo(home[d], task) => HasTodo(home[d], task)'
    <3>1. ASSUME NEW task, task # x, home[d] # 0, HasTodo(home[d], task) PROVE HasTodo(home[d], task)'
      <4>1. PICK o \in Threads : o = home[d]
          BY <2>1, <3>1
      <4>2. HasTodo(o, task)'
          BY <1>11, <3>1, <4>1
      <4> QED
          BY <1>1, <4>1, <4>2, Zenon DEF HasTodo
    <3> QED
        BY <3>1
  <2>3. \A run : Task(run, d).run = run /\ Task(run, d).conn = d
      BY DEF Task
  <2>4. CASE d # c
    <3>1. Task("connect_established", d) # x /\ Task("connect_destroyed", d) # x
        BY <2>3, <2>4
    <3>2. conn_state'[d] = conn_state[d] /\ (d \in open' <=> d \in open)
        BY <1>9, <2>1, <2>4, Zenon
    <3> QED
        BY <1>1, <2>1, <2>2, <3>1, <3>2, Zenon DEF ConnInv, InPool
  <2>5. CASE d = c /\ x.run = "connect_established"
    <3>1. conn_state'[d] = "kConnected" /\ open' = open /\ conn_state[d] = "kConnecting"
        BY <1>3, <1>7, <1>8, <2>1, <2>5, Zenon
    <3>2. Task("connect_destroyed", d) # x
        BY <2>3, <2>5
    <3>3. home[d] # 0
        BY <1>5, <2>5, Numbers, Zenon
    <3> QED
        BY <1>1, <2>1, <2>2, <3>1, <3>2, <3>3, Zenon DEF ConnInv, InPool
  <2>6. CASE d = c /\ x.run = "connect_destroyed"
    <3>1. /\ conn_state'[d] = (IF conn_state[d] = "kConnected" THEN "kDisconnected" ELSE conn_state[d])
          /\ d \notin open'
        BY <1>3, <1>8, <2>1, <2>6, Zenon
    <3>2. home[d] = t /\ home[d] # 0
        BY <1>5, <2>6, Numbers
    <3>3. ~HasTodo(home[d], Task("connect_established", d))
      <4>1. ASSUME NEW i \in DOMAIN s, s[i] = Task("connect_established", d) PROVE FALSE
        <5>1. i < 1 /\ s[i] = Task("connect_established", c)
            BY <1>7, <2>6, <4>1, Zenon
        <5>2. i \in 1..Len(s) /\ Len(s) \in Nat
            BY <1>4, <4>1, Zenon
        <5> QED
            BY <5>1, <5>2
      <4> QED
          BY <3>2, <4>1, Zenon DEF HasTodo
    <3>4. ~cut[home[d]] => conn_state'[d] = "kDisconnected"
      <4>1. conn_state[d] \in {"none", "kConnecting", "kConnected", "kDisconnected"}
          BY <1>3, <2>1
      <4> QED
          BY <2>1, <3>1, <3>2, <3>3, <4>1 DEF ConnInv
    <3>5. conn_state'[d] # "none"
        BY <2>1, <3>1 DEF ConnInv
    <3> QED
        BY <1>1, <2>1, <3>1, <3>2, <3>4, <3>5, Zenon DEF ConnInv, InPool
  <2> QED
      BY <1>6, <2>4, <2>5, <2>6
<1>15. m_conn_map' \cup open' \subseteq 1..accepted
    BY <1>1, <1>3, <1>8 DEF ConnectionsInv
<1>16. ConnectionsInv'
    BY <1>1, <1>2, <1>3, <1>12, <1>13, <1>14, <1>15, Zenon DEF ConnectionsInv, Threads, InPool
<1> QED
    BY <1>2, <1>16

\* The reactor goes with its queue, and with it the connections that only its
\* tasks hold.
LEMMA ExitServes ==
  ASSUME Serving, NEW t \in Threads, Exit(t)
  PROVE ConnectionsInv' /\ TaskType'
<1>1. /\ pc[t] = "returned" /\ pc' = [pc EXCEPT ![t] = "exited"] /\ queue' = [queue EXCEPT ![t] = <<>>]
      /\ open' = open \ Released(t)
      /\ UNCHANGED <<m_size_pool, main, asked, cut, batch, accepted, conn_state, home, m_conn_map>>
    BY DEF Exit, ExitThread, Goes
<1>2. /\ ConnectionsInv /\ queue \in [Threads -> Seq(Tasks)] /\ batch \in [Threads -> Seq(Tasks)]
      /\ pc \in [Threads -> PCs] /\ Threads' = Threads /\ Tasks' = Tasks
      /\ ThreadInv(t) /\ QueuesInv(t)
    BY Zenon DEF Serving, TaskType, PoolType, PoolInv, ConnectionsInv, Threads, Tasks, Conns
<1>3. pc'[t] = "exited" /\ queue'[t] = <<>> /\ \A o \in Threads : o # t => pc'[o] = pc[o] /\ queue'[o] = queue[o]
    BY <1>1, <1>2
<1>4. batch[t] = <<>> /\ batch'[t] = <<>> /\ queue[t] \in Seq(Tasks)
    BY <1>1, <1>2 DEF QueuesInv
<1>5. Todo(t) = queue[t] /\ Todo(t)' = <<>>
  <2>1. <<>> \o queue[t] = queue[t] /\ <<>> \o <<>> = <<>>
      BY <1>4
  <2> QED
      BY <1>3, <1>4, <2>1, Zenon DEF Todo
<1>6. ~cut[t] => queue[t] = <<>>
    BY <1>1, <1>2 DEF QueuesInv, ThreadInv
<1>7. TaskType'
  <2>1. <<>> \in Seq(Tasks)
      OBVIOUS
  <2> QED
      BY <1>1, <1>2, <2>1 DEF TaskType
<1>8. ASSUME NEW o \in Threads, o # t PROVE Todo(o)' = Todo(o) /\ QueuesInv(o)'
  <2>1. QueuesInv(o)
      BY <1>2 DEF ConnectionsInv
  <2> QED
      BY <1>1, <1>3, <1>8, <2>1, Zenon DEF Todo, QueuesInv
<1>9. QueuesInv(t)'
    BY <1>3, <1>4 DEF QueuesInv
<1>10. ASSUME NEW o \in Threads PROVE TasksInv(o)'
  <2>1. CASE o = t
    <3>1. DOMAIN <<>> = {}
        OBVIOUS
    <3>2. \A i \in DOMAIN Todo(t)' : FALSE
        BY <1>5, <3>1, Zenon
    <3> QED
        BY <2>1, <3>2, Zenon DEF TasksInv
  <2>2. CASE o # t
    <3>1. TasksInv(o) /\ Todo(o)' = Todo(o)
        BY <1>2, <1>8, <2>2 DEF ConnectionsInv
    <3> QED
        BY <1>1, <3>1, Zenon DEF TasksInv
  <2> QED
      BY <2>1, <2>2
<1>11. ASSUME NEW d \in 1..accepted PROVE ConnInv(d)'
  <2>1. ConnInv(d) /\ (home[d] # 0 => home[d] \in Threads)
      BY <1>2, Numbers DEF ConnectionsInv
  <2>2. CASE home[d] = t
    <3>1. HasTodo(t, Task("connect_destroyed", d)) /\ d \notin m_conn_map => d \in Released(t)
      <4>1. SUFFICES ASSUME HasTodo(t, Task("connect_destroyed", d)), d \notin m_conn_map PROVE d \in Released(t)
          OBVIOUS
      <4>2. PICK i \in DOMAIN queue[t] : queue[t][i] = Task("connect_destroyed", d)
          BY <1>5, <4>1, Zenon DEF HasTodo
      <4>3. queue[t][i].conn = d
          BY <4>2 DEF Task
      <4> QED
          BY <4>1, <4>3, Zenon DEF Released
    <3>2. ~(d \in open' \ m_conn_map')
        BY <1>1, <2>1, <2>2, <3>1 DEF ConnInv
    <3>3. ~cut[t] => \A task : ~HasTodo(t, task)
      <4>1. DOMAIN <<>> = {}
          OBVIOUS
      <4> QED
          BY <1>5, <1>6, <4>1, Zenon DEF HasTodo
    <3>4. t # 0
        BY Numbers
    <3>5. ~cut[t] => conn_state[d] # "kConnecting" /\ (d \in m_conn_map \/ conn_state[d] = "kDisconnected")
        BY <2>1, <2>2, <3>3, <3>4, Zenon DEF ConnInv
    <3> QED
        BY <1>1, <2>1, <2>2, <3>2, <3>4, <3>5, Zenon DEF ConnInv, InPool
  <2>3. CASE home[d] = 0
    <3>1. d \in open' => d \in open
        BY <1>1
    <3> QED
        BY <1>1, <2>1, <2>3, <3>1, Zenon DEF ConnInv, InPool
  <2>4. CASE home[d] # t /\ home[d] # 0
    <3>1. d \in open' => d \in open
        BY <1>1
    <3>2. PICK o \in Threads : o = home[d] /\ o # t
        BY <2>1, <2>4
    <3>3. \A task : HasTodo(o, task) => HasTodo(o, task)'
        BY <1>8, <3>2, Zenon DEF HasTodo
    <3>4. \A task : HasTodo(home[d], task) => HasTodo(home[d], task)'
        BY <1>1, <3>2, <3>3, Zenon DEF HasTodo
    <3> QED
        BY <1>1, <2>1, <2>4, <3>1, <3>4, Zenon DEF ConnInv, InPool
  <2> QED
      BY <2>2, <2>3, <2>4
<1>12. m_conn_map' \cup open' \subseteq 1..accepted
    BY <1>1, <1>2, Zenon DEF ConnectionsInv
<1>13. accepted > 0 => \A o \in InPool : pc'[o] \in Published \cup {"exited"}
    BY <1>2, <1>3, Numbers, Zenon DEF ConnectionsInv
<1>14. ConnectionsInv'
    BY <1>1, <1>2, <1>8, <1>9, <1>10, <1>11, <1>12, <1>13, Zenon DEF ConnectionsInv, Threads, InPool
<1> QED
    BY <1>7, <1>14

\* A connection that waits in the backlog is not yet the server's.
LEMMA ArriveServes ==
  ASSUME Serving, Arrive
  PROVE ConnectionsInv' /\ TaskType'
<1>1. UNCHANGED <<m_size_pool, main, pc, asked, cut, queue, batch, accepted, conn_state, home, m_conn_map, open>>
    BY DEF Arrive, pool
<1>2. ConnectionsInv /\ TaskType
    BY DEF Serving
<1>3. ASSUME NEW t \in Threads PROVE Todo(t)' = Todo(t) /\ QueuesInv(t)' /\ (cut[t] => cut'[t])
  <2>1. QueuesInv(t)
      BY <1>2 DEF ConnectionsInv
  <2> QED
      BY <1>1, <2>1, Zenon DEF Todo, QueuesInv
<1>4. /\ main' \in Ending => m_conn_map = {}
      /\ accepted > 0 => \A t \in InPool : pc'[t] \in Published \cup {"exited"}
    BY <1>1, <1>2 DEF ConnectionsInv
<1>5. TaskType'
    BY <1>1, <1>2, Zenon DEF TaskType, Threads, Tasks, Conns
<1> QED
    BY <1>1, <1>3, <1>4, <1>5, SameTasks

(***************************************************************************)
(* Whose turn it is.                                                       *)
(***************************************************************************)
\* The index of get_next_reactor goes up by one, and from the last to the first.
LEMMA NextIdxWraps ==
  ASSUME m_size_pool \in Nat, NEW i \in InPool
  PROVE  NextIdx(i) = (IF i < m_size_pool THEN i + 1 ELSE 1) /\ NextIdx(i) \in InPool
<1>1. m_size_pool \in Nat \ {0} /\ i \in Nat /\ i <= m_size_pool /\ i >= 1
    BY DEF InPool
<1>2. CASE i < m_size_pool
  <2>1. i % m_size_pool = i
      BY <1>1, <1>2
  <2> QED
      BY <1>1, <1>2, <2>1 DEF NextIdx, InPool
<1>3. CASE i = m_size_pool
  <2>1. i % m_size_pool = 0
      BY <1>1, <1>3
  <2> QED
      BY <1>1, <1>3, <2>1 DEF NextIdx, InPool
<1> QED
    BY <1>1, <1>2, <1>3

LEMMA LoadIsNat ==
  ASSUME accepted \in Nat, NEW t
  PROVE  Load(t) \in Nat /\ IsFiniteSet({c \in 1..accepted : home[c] = t})
<1>1. IsFiniteSet(1..accepted)
    BY FS_Interval
<1>2. IsFiniteSet({c \in 1..accepted : home[c] = t})
    BY <1>1, FS_Subset
<1> QED
    BY <1>2, FS_CardinalityType DEF Load

\* A connection is one more for its own reactor.
LEMMA LoadGrows ==
  ASSUME ConnType, NEW k, accepted + 1 \in Conns, accepted' = accepted + 1,
         home' = [home EXCEPT ![accepted + 1] = k], NEW t
  PROVE  Load(t)' = Load(t) + (IF t = k THEN 1 ELSE 0)
<1> PICK c : c = accepted + 1
    OBVIOUS
<1> DEFINE mine == {d \in 1..accepted : home[d] = t}
           mine1 == {d \in 1..accepted' : home'[d] = t}
<1>1. /\ accepted \in Nat /\ c \in Conns /\ 1..accepted' = (1..accepted) \cup {c} /\ c \notin 1..accepted
      /\ home \in [Conns -> 0..MaxThreads] /\ 1..accepted \subseteq Conns
    BY TcpServerAssumption DEF ConnType, Conns
<1>2. home'[c] = k /\ \A d \in 1..accepted : home'[d] = home[d]
    BY <1>1
<1>3. IsFiniteSet(mine) /\ Cardinality(mine) \in Nat
    BY <1>1, LoadIsNat, Zenon DEF Load
<1>4. Load(t) = Cardinality(mine) /\ Load(t)' = Cardinality(mine1)
    BY DEF Load
<1>5. CASE t = k
  <2>1. mine1 = mine \cup {c} /\ c \notin mine
      BY <1>1, <1>2, <1>5
  <2>2. Cardinality(mine \cup {c}) = Cardinality(mine) + 1
      BY <1>3, <2>1, FS_AddElement
  <2> QED
      BY <1>4, <1>5, <2>1, <2>2, Zenon
<1>6. CASE t # k
  <2>1. mine1 = mine
      BY <1>1, <1>2, <1>6
  <2> QED
      BY <1>3, <1>4, <1>6, <2>1
<1> QED
    BY <1>5, <1>6

LEMMA SameTurn ==
  ASSUME TurnInv, UNCHANGED <<m_size_pool, m_next_idx, accepted, home>>
  PROVE TurnInv'
<1>1. \A t : Load(t)' = Load(t) /\ Ahead(t)' = Ahead(t)
    BY Zenon DEF Load, Ahead
<1> QED
    BY <1>1, Zenon DEF TurnInv, InPool

\* new_conn_callback with a pool.
LEMMA AcceptTurn ==
  ASSUME ConnType, TurnInv, m_size_pool \in Nat \ {0}, accepted + 1 \in Conns, accepted' = accepted + 1,
         home' = [home EXCEPT ![accepted + 1] = m_next_idx], m_next_idx' = NextIdx(m_next_idx),
         UNCHANGED m_size_pool
  PROVE  TurnInv'
<1> PICK k : k = m_next_idx
    OBVIOUS
<1> PICK m : m = m_size_pool
    OBVIOUS
<1>1. k \in InPool /\ InPool' = InPool /\ InPool = 1..m /\ m \in Nat /\ accepted \in Nat
    BY DEF ConnType, InPool
<1>2. m_next_idx' = IF k < m THEN k + 1 ELSE 1
    BY <1>1, NextIdxWraps
<1>3. SUFFICES ASSUME NEW s \in InPool, NEW t \in InPool
               PROVE  Load(s)' + Ahead(t)' = Load(t)' + Ahead(s)'
    BY <1>1 DEF TurnInv
<1>4. Load(s) \in Nat /\ Load(t) \in Nat
    BY <1>1, LoadIsNat, Zenon
<1>5. Load(s)' = Load(s) + (IF s = k THEN 1 ELSE 0) /\ Load(t)' = Load(t) + (IF t = k THEN 1 ELSE 0)
    BY LoadGrows, Zenon
<1>6. Load(s) + Ahead(t) = Load(t) + Ahead(s)
    BY DEF TurnInv
<1>7. /\ Ahead(s) = (IF s < k THEN 1 ELSE 0) /\ Ahead(t) = (IF t < k THEN 1 ELSE 0)
      /\ Ahead(s)' = (IF s < m_next_idx' THEN 1 ELSE 0) /\ Ahead(t)' = (IF t < m_next_idx' THEN 1 ELSE 0)
    BY DEF Ahead
<1>8. s \in Nat /\ t \in Nat /\ k \in Nat /\ s >= 1 /\ t >= 1 /\ s <= m /\ t <= m /\ k <= m
    BY <1>1
<1>9. CASE k < m
  <2>1. Ahead(s)' = (IF s = k THEN 1 ELSE Ahead(s)) /\ Ahead(t)' = (IF t = k THEN 1 ELSE Ahead(t))
      BY <1>2, <1>7, <1>8, <1>9
  <2> QED
      BY <1>4, <1>5, <1>6, <1>7, <1>8, <2>1
<1>10. CASE k = m
  <2>1. Ahead(s)' = 0 /\ Ahead(t)' = 0 /\ Ahead(s) = (IF s = k THEN 0 ELSE 1) /\ Ahead(t) = (IF t = k THEN 0 ELSE 1)
      BY <1>1, <1>2, <1>7, <1>8, <1>10
  <2> QED
      BY <1>4, <1>5, <1>6, <2>1
<1> QED
    BY <1>8, <1>9, <1>10

\* The loads follow from the turn.
LEMMA TurnIsFair ==
  ASSUME accepted \in Nat, TurnInv
  PROVE RoundRobin
<1> SUFFICES ASSUME NEW s \in InPool, NEW t \in InPool PROVE Load(s) <= Load(t) + 1
    BY DEF RoundRobin
<1>1. Load(s) \in Nat /\ Load(t) \in Nat
    BY LoadIsNat, Zenon
<1>2. Ahead(s) \in {0, 1} /\ Ahead(t) \in {0, 1}
    BY DEF Ahead
<1>3. Load(s) + Ahead(t) = Load(t) + Ahead(s)
    BY DEF TurnInv
<1> QED
    BY <1>1, <1>2, <1>3

(***************************************************************************)
(* The inductive invariant, step by step.                                  *)
(***************************************************************************)
Core == Serving /\ TurnInv /\ ~misused

LEMMA CoreParts ==
  ASSUME Core
  PROVE  Pool /\ Serving /\ PoolType /\ FlagType /\ PoolInv /\ TaskType /\ ConnType /\ ConnectionsInv /\ TurnInv
BY DEF Core, Serving, Pool

\* A step that leaves the connections and the turn as they are.
LEMMA SameConns ==
  ASSUME Core, UNCHANGED <<m_size_pool, m_next_idx, misused, conns>>, Pool', ConnectionsInv' /\ TaskType'
  PROVE  Core'
<1>1. ConnType /\ TurnInv /\ ~misused /\ UNCHANGED <<arrived, accepted, conn_state, home, m_conn_map, open>>
    BY DEF Core, Serving, conns
<1>2. ConnType'
    BY <1>1, Zenon DEF ConnType, Conns, InPool
<1>3. TurnInv'
    BY <1>1, SameTurn
<1> QED
    BY <1>1, <1>2, <1>3 DEF Core, Serving, Pool

\* The steps of the owner that only move it on.
LEMMA MainCore ==
  ASSUME Core, Start \/ Listen \/ AcceptFails \/ Destroy
  PROVE Core'
<1>1. /\ UNCHANGED_owner /\ UNCHANGED <<queue, m_next_idx, misused, conns>>
      /\ \/ main = "constructed" /\ main' = "start"
         \/ main = "started" /\ main' = "serving"
         \/ main = "serving" /\ main' = "aborted"
         \/ main \in {"constructed", "serving"} /\ main' = "destroy_conns"
    BY DEF Start, Listen, AcceptFails, Destroy
<1>2. UNCHANGED <<m_size_pool, idx, waiting, pc, m_count, m_reactor, m_going_to_quit, batch, asked, cut>>
    BY <1>1 DEF UNCHANGED_owner
<1>3. Pool'
    BY <1>1, <1>2, CoreParts, MainPool
<1>4. main' \notin Ending
    BY <1>1 DEF Ending
<1>5. ConnectionsInv' /\ TaskType'
    BY <1>1, <1>2, <1>4, CoreParts, MainServes
<1> QED
    BY <1>1, <1>2, <1>3, <1>5, SameConns

LEMMA DestroyPoolCore ==
  ASSUME Core, DestroyPool
  PROVE Core'
<1>1. /\ m_conn_map = {}
      /\ UNCHANGED <<m_size_pool, pc, queue, batch, m_next_idx, asked, cut, misused, conns>>
    BY DEF DestroyPool
<1>2. Pool'
    BY CoreParts, DestroyPoolPool
<1>3. ConnectionsInv' /\ TaskType'
    BY <1>1, CoreParts, MainServes
<1> QED
    BY <1>1, <1>2, <1>3, SameConns

LEMMA OwnerStepCore ==
  ASSUME Core, OwnerStep, UNCHANGED conns
  PROVE Core'
<1>1. ConnectionsInv' /\ TaskType'
    BY CoreParts, OwnerStepServes
<1>2. CASE CreateThread
  <2>1. UNCHANGED <<m_size_pool, m_next_idx, misused>>
      BY <1>2 DEF CreateThread
  <2> QED
      BY <1>1, <1>2, <2>1, CoreParts, CreateThreadPool, SameConns
<1>3. CASE AwaitLatch
  <2>1. UNCHANGED <<m_size_pool, m_next_idx, misused>>
      BY <1>3 DEF AwaitLatch
  <2> QED
      BY <1>1, <1>3, <2>1, CoreParts, AwaitLatchPool, SameConns
<1>4. CASE AwaitReactor
  <2>1. UNCHANGED <<m_size_pool, m_next_idx, misused>>
      BY <1>4 DEF AwaitReactor
  <2> QED
      BY <1>1, <1>4, <2>1, CoreParts, AwaitReactorPool, SameConns
<1>5. CASE QuitThread
  <2>1. UNCHANGED <<m_size_pool, m_next_idx>>
      BY <1>5 DEF QuitThread
  <2>2. \/ UNCHANGED misused
        \/ idx' \in Threads /\ m_reactor[idx'] /\ misused' = (misused \/ ~ReactorExists(idx'))
      BY <1>5, CoreParts, QuitThreadParts
  <2>3. ASSUME NEW t \in Threads, m_reactor[t] PROVE ReactorExists(t)
    <3>1. ThreadInv(t)
        BY CoreParts DEF PoolInv
    <3> QED
        BY <2>3, <3>1 DEF ThreadInv, ReactorExists, Published
  <2>4. UNCHANGED misused
      BY <2>2, <2>3, CoreParts DEF Core, FlagType
  <2> QED
      BY <1>1, <1>5, <2>1, <2>4, CoreParts, QuitThreadPool, SameConns, Zenon
<1>6. CASE Join
  <2>1. UNCHANGED <<m_size_pool, m_next_idx, misused>>
      BY <1>6 DEF Join
  <2> QED
      BY <1>1, <1>6, <2>1, CoreParts, JoinPool, SameConns
<1> QED
    BY <1>2, <1>3, <1>4, <1>5, <1>6 DEF OwnerStep

LEMMA ThreadStepCore ==
  ASSUME Core, NEW t \in Threads, ThreadStep(t), UNCHANGED conns
  PROVE Core'
<1>1. ConnectionsInv' /\ TaskType'
    BY CoreParts, ThreadStepServes, Zenon
<1>2. UNCHANGED <<m_size_pool, m_next_idx, misused>>
    BY DEF ThreadStep, CountDown, BuildReactor, Publish, EnterLoop, PollReturns, TasksDone, Goes
<1>3. Pool'
    BY CoreParts, CountDownPool, BuildReactorPool, PublishPool, EnterLoopPool, PollReturnsPool, TasksDonePool
       DEF ThreadStep
<1> QED
    BY <1>1, <1>2, <1>3, SameConns

\* A task, the end of a thread, or a connection in the backlog.
LEMMA PooledCore ==
  ASSUME Core, NEW t, Arrive \/ (t \in Threads /\ (RunTask(t) \/ Exit(t)))
  PROVE  Core'
<1>1. ConnectionsInv' /\ TaskType'
    BY CoreParts, RunTaskServes, ExitServes, ArriveServes, Zenon
<1>2. UNCHANGED <<m_size_pool, m_next_idx, misused, accepted, home, m_conn_map>>
    BY DEF RunTask, TakeTask, Exit, ExitThread, Goes, Arrive, pool
<1>3. Pool'
  <2>1. CASE t \in Threads /\ Exit(t)
      BY <2>1, CoreParts, ExitThreadPool DEF Exit
  <2>2. CASE RunTask(t) \/ Arrive
    <3>1. UNCHANGED <<m_size_pool, main, idx, waiting, pc, m_count, m_reactor, m_going_to_quit, asked, cut, misused>>
        BY <2>2, Zenon DEF RunTask, TakeTask, Arrive, pool
    <3>2. PoolType' /\ FlagType'
        BY <3>1, CoreParts, Zenon DEF PoolType, FlagType, Threads
    <3>3. PoolInv'
        BY <3>1, CoreParts, Zenon DEF PoolInv, ThreadInv, Threads
    <3> QED
        BY <3>2, <3>3, Zenon DEF Pool
  <2> QED
      BY <2>1, <2>2
<1>4. /\ ConnType /\ conn_state \in [Conns -> {"none", "kConnecting", "kConnected", "kDisconnected"}]
      /\ Conns' = Conns /\ InPool' = InPool
    BY <1>2, CoreParts, Zenon DEF ConnType, Conns, InPool
<1>5. conn_state' \in [Conns -> {"none", "kConnecting", "kConnected", "kDisconnected"}]
    BY <1>4, Zenon DEF RunTask, Exit, Arrive
<1>6. open' \subseteq Conns
    BY <1>4 DEF RunTask, Exit, Arrive, ConnType
<1>7. arrived' \in Nat /\ accepted + arrived' <= MaxConns
    BY <1>4, TcpServerAssumption DEF RunTask, Exit, Arrive, ConnType
<1>8. ConnType'
    BY <1>2, <1>4, <1>5, <1>6, <1>7, Zenon DEF ConnType
<1>9. TurnInv'
    BY <1>2, CoreParts, SameTurn
<1> QED
    BY <1>1, <1>2, <1>3, <1>8, <1>9 DEF Core, Serving, Pool

LEMMA AcceptCore ==
  ASSUME Core, Accept
  PROVE Core'
<1>1. ConnectionsInv' /\ TaskType' /\ ~misused'
    BY CoreParts, AcceptServes DEF Core
<1> PICK c : c = accepted + 1
    OBVIOUS
<1> PICK k : k = IF m_size_pool = 0 THEN 0 ELSE m_next_idx
    OBVIOUS
<1>2. /\ arrived > 0 /\ arrived' = arrived - 1 /\ accepted' = c
      /\ open' = open \cup {c} /\ m_conn_map' = m_conn_map \cup {c}
      /\ home' = [home EXCEPT ![c] = k]
      /\ conn_state' = [conn_state EXCEPT ![c] = IF m_size_pool = 0 THEN "kConnected" ELSE "kConnecting"]
      /\ m_next_idx' = (IF m_size_pool = 0 THEN m_next_idx ELSE NextIdx(m_next_idx))
    BY DEF Accept
<1>3. UNCHANGED <<main, m_size_pool, idx, waiting, pc, m_count, m_reactor, m_going_to_quit, asked, cut>>
    BY DEF Accept, UNCHANGED_owner
<1>4. /\ ConnType /\ TurnInv /\ Pool /\ m_size_pool \in Nat /\ m_size_pool <= MaxThreads
      /\ Conns' = Conns /\ InPool' = InPool
    BY <1>3, CoreParts DEF PoolType, Conns, InPool
<1>5. accepted \in Nat /\ arrived \in Nat /\ c \in Conns /\ MaxConns \in Nat
    BY <1>2, <1>4, TcpServerAssumption DEF ConnType, Conns
<1>6. Pool'
  <2>1. misused' \in BOOLEAN
      BY CoreParts, Zenon DEF Accept, Post, FlagType
  <2>2. PoolType' /\ FlagType'
      BY <1>3, <1>4, <2>1, Zenon DEF Pool, PoolType, FlagType, Threads
  <2>3. PoolInv'
      BY <1>3, <1>4, Zenon DEF Pool, PoolInv, ThreadInv, Threads
  <2> QED
      BY <2>2, <2>3 DEF Pool
<1>7. k \in 0..MaxThreads /\ (m_size_pool # 0 => k \in InPool)
    BY <1>4, PoolAssumption DEF ConnType, InPool
<1>8. IF m_size_pool = 0 THEN m_next_idx' = 1 ELSE m_next_idx' \in InPool
    BY <1>2, <1>4, NextIdxWraps DEF ConnType
<1>9. ConnType'
  <2>1. arrived' \in Nat /\ accepted' \in Nat /\ accepted' + arrived' <= MaxConns
      BY <1>2, <1>4, <1>5 DEF ConnType
  <2>2. conn_state' \in [Conns -> {"none", "kConnecting", "kConnected", "kDisconnected"}]
      BY <1>2, <1>4, <1>5 DEF ConnType
  <2>3. home' \in [Conns -> 0..MaxThreads]
      BY <1>2, <1>4, <1>5, <1>7 DEF ConnType
  <2>4. m_conn_map' \subseteq Conns /\ open' \subseteq Conns
      BY <1>2, <1>4, <1>5 DEF ConnType
  <2> QED
      BY <1>3, <1>4, <1>8, <2>1, <2>2, <2>3, <2>4, Zenon DEF ConnType
<1>10. TurnInv'
  <2>1. CASE m_size_pool = 0
    <3>1. InPool' = {}
        BY <1>3, <2>1 DEF InPool
    <3> QED
        BY <3>1 DEF TurnInv
  <2>2. CASE m_size_pool # 0
      BY <1>2, <1>3, <1>4, <1>5, <2>2, AcceptTurn
  <2> QED
      BY <2>1, <2>2
<1> QED
    BY <1>1, <1>6, <1>9, <1>10 DEF Core, Serving, Pool

LEMMA DestroyConnCore ==
  ASSUME Core, DestroyConn
  PROVE Core'
<1>1. ConnectionsInv' /\ TaskType' /\ ~misused'
    BY CoreParts, DestroyConnServes DEF Core
<1>2. /\ UNCHANGED <<main, m_size_pool, idx, waiting, pc, m_count, m_reactor, m_going_to_quit, asked, cut>>
      /\ UNCHANGED <<m_next_idx, arrived, accepted, home>>
    BY DEF DestroyConn, UNCHANGED_owner
<1>3. Pool /\ ConnType /\ TurnInv /\ Conns' = Conns /\ InPool' = InPool
    BY <1>2, CoreParts DEF Conns, InPool
<1>4. Pool'
  <2>1. misused' \in BOOLEAN
      BY CoreParts, Zenon DEF DestroyConn, Post, FlagType
  <2>2. PoolType' /\ FlagType'
      BY <1>2, <1>3, <2>1, Zenon DEF Pool, PoolType, FlagType, Threads
  <2>3. PoolInv'
      BY <1>2, <1>3, Zenon DEF Pool, PoolInv, ThreadInv, Threads
  <2> QED
      BY <2>2, <2>3 DEF Pool
<1>5. /\ conn_state' \in [Conns -> {"none", "kConnecting", "kConnected", "kDisconnected"}]
      /\ m_conn_map' \subseteq Conns /\ open' \subseteq Conns
    BY <1>3 DEF DestroyConn, ConnType
<1>6. ConnType'
    BY <1>2, <1>3, <1>5, Zenon DEF ConnType
<1>7. TurnInv'
    BY <1>2, <1>3, SameTurn
<1> QED
    BY <1>1, <1>4, <1>6, <1>7, Zenon DEF Core, Serving, Pool

LEMMA InitCore == Init => Core
<1> SUFFICES ASSUME Init PROVE Core
    OBVIOUS
<1>1. /\ m_size_pool \in Nat /\ m_size_pool <= MaxThreads /\ MaxThreads \in Nat
      /\ main = "constructed" /\ idx = 1 /\ waiting = "none" /\ m_next_idx = 1 /\ misused = FALSE
    BY PoolAssumption DEF Init, PoolInit
<1>2. /\ pc = [t \in Threads |-> "none"] /\ m_count = [t \in Threads |-> 1]
      /\ m_reactor = [t \in Threads |-> FALSE] /\ m_going_to_quit = [t \in Threads |-> FALSE]
      /\ asked = [t \in Threads |-> FALSE] /\ cut = [t \in Threads |-> FALSE]
      /\ queue = [t \in Threads |-> <<>>] /\ batch = [t \in Threads |-> <<>>]
    BY DEF Init, PoolInit
<1>3. /\ arrived = 0 /\ accepted = 0 /\ conn_state = [c \in Conns |-> "none"] /\ home = [c \in Conns |-> 0]
      /\ m_conn_map = {} /\ open = {}
    BY DEF Init
<1>4. PoolType /\ FlagType
    BY <1>1, <1>2, Zenon DEF PoolType, FlagType, Mains, Starting, PCs
<1>5. ASSUME NEW t \in Threads PROVE ThreadInv(t)
  <2>1. t >= 1
      BY <1>1 DEF Threads
  <2> QED
      BY <1>1, <1>2, <2>1 DEF ThreadInv, Starting, Published, Ending, Threads
<1>6. PoolInv
    BY <1>1, <1>5 DEF PoolInv
<1>7. TaskType
    BY <1>2 DEF TaskType
<1>8. ConnType
    BY <1>1, <1>3, TcpServerAssumption DEF ConnType, InPool
<1>9. ASSUME NEW t \in Threads PROVE QueuesInv(t) /\ TasksInv(t)
  <2>1. batch[t] = <<>> /\ queue[t] = <<>>
      BY <1>2
  <2>2. <<>> \o <<>> = <<>> /\ DOMAIN <<>> = {}
      OBVIOUS
  <2>3. DOMAIN Todo(t) = {}
      BY <2>1, <2>2, Zenon DEF Todo
  <2>4. TasksInv(t)
      BY <2>3, Zenon DEF TasksInv
  <2> QED
      BY <2>1, <2>4 DEF QueuesInv
<1>10. ConnectionsInv
    BY <1>1, <1>3, <1>9 DEF ConnectionsInv, Ending
<1>11. TurnInv
  <2> SUFFICES ASSUME NEW s \in InPool, NEW t \in InPool PROVE Load(s) + Ahead(t) = Load(t) + Ahead(s)
      BY DEF TurnInv
  <2>1. s >= 1 /\ t >= 1 /\ s \in Nat /\ t \in Nat
      BY DEF InPool
  <2>2. Ahead(s) = 0 /\ Ahead(t) = 0
      BY <1>1, <2>1 DEF Ahead
  <2>3. {c \in 1..accepted : home[c] = s} = {} /\ {c \in 1..accepted : home[c] = t} = {}
      BY <1>3
  <2> QED
      BY <2>2, <2>3, FS_EmptySet, Zenon DEF Load
<1> QED
    BY <1>1, <1>4, <1>6, <1>7, <1>8, <1>10, <1>11 DEF Core, Serving

LEMMA NextCore == Core /\ [Next]_vars => Core'
<1> SUFFICES ASSUME Core, [Next]_vars PROVE Core'
    OBVIOUS
<1>1. CASE Main
    BY <1>1, MainCore, AcceptCore, DestroyConnCore, DestroyPoolCore, OwnerStepCore DEF Main
<1>2. CASE Arrive
    BY <1>2, PooledCore
<1>3. CASE AcceptFails \/ Destroy
    BY <1>3, MainCore
<1>4. ASSUME NEW t \in Threads, Pooled(t) PROVE Core'
    BY <1>4, ThreadStepCore, PooledCore DEF Pooled
<1>5. CASE UNCHANGED vars
  <2>1. /\ UNCHANGED <<m_size_pool, main, idx, waiting, pc, m_count, m_reactor, m_going_to_quit, queue, batch>>
        /\ UNCHANGED <<m_next_idx, asked, cut, misused, conns>>
      BY <1>5 DEF vars, pool
  <2>2. PoolType' /\ FlagType'
      BY <2>1, CoreParts, Zenon DEF PoolType, FlagType, Threads
  <2>3. PoolInv'
      BY <2>1, CoreParts, Zenon DEF PoolInv, ThreadInv, Threads
  <2>4. Pool'
      BY <2>2, <2>3 DEF Pool
  <2>5. ConnectionsInv' /\ TaskType'
      BY <2>1, CoreParts, MainServes DEF ConnectionsInv
  <2> QED
      BY <2>1, <2>4, <2>5, SameConns
<1> QED
    BY <1>1, <1>2, <1>3, <1>4, <1>5 DEF Next

\* With the server gone every thread has exited, so that no task is left: what
\* is not cut off was run.
LEMMA GoneIsEmpty ==
  ASSUME Core, main = "gone"
  PROVE NoConnectionForgotten /\ AllSocketsClosed
<1>1. m_conn_map = {} /\ ConnectionsInv /\ PoolInv /\ open \subseteq 1..accepted
    BY CoreParts DEF ConnectionsInv, Ending
<1>2. ASSUME NEW t \in Threads, NEW task PROVE ~HasTodo(t, task)
  <2>1. ThreadInv(t) /\ QueuesInv(t)
      BY <1>1 DEF PoolInv, ConnectionsInv
  <2>2. pc[t] \in {"none", "exited"}
      BY <2>1 DEF ThreadInv, Ending
  <2>3. batch[t] = <<>> /\ queue[t] = <<>>
      BY <2>1, <2>2 DEF QueuesInv, Published
  <2>4. <<>> \o <<>> = <<>> /\ DOMAIN <<>> = {}
      OBVIOUS
  <2> QED
      BY <2>3, <2>4, Zenon DEF Todo, HasTodo
<1>3. ASSUME NEW c \in 1..accepted
      PROVE  c \notin open /\ (conn_state[c] = "kDisconnected" \/ (home[c] # 0 /\ cut[home[c]]))
  <2>1. ConnInv(c) /\ (home[c] # 0 => home[c] \in Threads)
      BY <1>1, CoreParts, Numbers DEF ConnectionsInv
  <2>2. \A task : home[c] # 0 => ~HasTodo(home[c], task)
      BY <1>2, <2>1
  <2> QED
      BY <1>1, <2>1, <2>2, Zenon DEF ConnInv
<1> QED
    BY <1>1, <1>3 DEF NoConnectionForgotten, AllSocketsClosed

(***************************************************************************)
(* The theorems.                                                           *)
(***************************************************************************)
LEMMA CoreAlways == Spec => []Core
BY InitCore, NextCore, PTL DEF Spec

\* For any number of threads and connections: start() and the destructor use
\* reactors only while they are on their threads' stacks, and
\* get_next_reactor gives connections to the reactors in turn.
THEOREM ServerSafety == Spec => []ServerInv
<1>1. Core => ServerInv
  <2> SUFFICES ASSUME Core PROVE ServerInv
      OBVIOUS
  <2>1. TypeOK
      BY CoreParts, TypeParts
  <2>2. RoundRobin
      BY CoreParts, TurnIsFair DEF ConnType
  <2> QED
      BY <2>1, <2>2, CoreParts DEF ServerInv, ReactorsExistWhenUsed, Core
<1> QED
    BY <1>1, CoreAlways, PTL

\* For any number of threads and connections: once ~TcpServer has returned,
\* every connection was reported down, but for those whose reactor was told
\* to quit in the middle of a batch, and every descriptor is closed.
THEOREM DestructionSafety == Spec => []NothingLeftBehind
<1>1. Core => NothingLeftBehind
    BY CoreParts, GoneIsEmpty DEF NothingLeftBehind, NoConnectionForgotten, AllSocketsClosed
<1> QED
    BY <1>1, CoreAlways, PTL
=============================================================================
