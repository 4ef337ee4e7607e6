---------------------------- MODULE AsyncLogging ----------------------------
(***************************************************************************)
(* AsyncLogging (common/AsyncLogging.cc): any thread appends lines to the  *)
(* current buffer, the backend thread exchanges the full buffers for empty *)
(* ones and writes them to a LogFile.                                      *)
(*                                                                         *)
(* Lines are numbered in the order of append(), which is atomic under      *)
(* m_mutex.  Of the buffers that are always empty (reserved and the two of *)
(* the backend) only whether the pointer is set is kept.                   *)
(***************************************************************************)
EXTENDS LogFile

CONSTANTS BufferSize,             \* of a FixedBuffer, in lines
          MaxLines                \* bound: lines appended

ASSUME AsyncLoggingAssumption == BufferSize \in Nat /\ BufferSize > 1 /\ MaxLines \in Nat

VARIABLES
  owner,             \* where the thread that calls start() and stop() is
  m_is_running,
  cur, used, reserved,            \* m_cur_buffer_ptr, m_used_buffers, m_reserved_buffer_ptr
  pc,                             \* where the backend is
  new1, new2, to_write, next,     \* its new_buffer_ptrs, buffers_to_write, loop index
  total,             \* lines appended
  dropped,           \* lines the backend gave up
  caught             \* lines appended when stop() met a backend about to swap

front == <<cur, used, reserved>>
back == <<pc, new1, new2, to_write, next>>
vars == <<now, logfile, owner, m_is_running, front, back, total, dropped, caught>>

Init ==
  /\ now \in 1..MaxTime
  /\ LogFileInit
  /\ owner = "constructed" /\ m_is_running = FALSE
  /\ cur = <<>> /\ used = <<>> /\ reserved = TRUE
  /\ pc = "none" /\ new1 = TRUE /\ new2 = TRUE /\ to_write = <<>> /\ next = 1
  /\ total = 0 /\ dropped = {} /\ caught = 0

AvailOffByOne(buffer) == BufferSize - Len(buffer) + 1

avail(buffer) == BufferSize - Len(buffer)

\* append() under the lock.
append_line ==
  IF avail(cur) > 1
  THEN cur' = Append(cur, total + 1) /\ UNCHANGED <<used, reserved>>
  ELSE /\ used' = Append(used, cur)
       /\ cur' = <<total + 1>>
       /\ reserved' = FALSE

Log ==
  /\ total < MaxLines
  /\ total' = total + 1
  /\ append_line
  /\ UNCHANGED <<now, logfile, owner, m_is_running, back, dropped, caught>>

(***************************************************************************)
(* start() and stop().                                                     *)
(***************************************************************************)
Start ==
  /\ owner = "constructed"
  /\ owner' = "starting" /\ m_is_running' = TRUE /\ pc' = "begin"
  /\ UNCHANGED <<now, logfile, front, new1, new2, to_write, next, total, dropped, caught>>

\* start() has waited for m_backend_latch.
Started ==
  /\ owner = "starting" /\ pc # "begin"
  /\ owner' = "started"
  /\ UNCHANGED <<now, logfile, m_is_running, front, back, total, dropped, caught>>

Stop ==
  /\ owner = "started"
  /\ owner' = "joining" /\ m_is_running' = FALSE
  /\ caught' = IF pc \in {"lock", "wait"} THEN total ELSE 0
  /\ UNCHANGED <<now, logfile, front, back, total, dropped>>

Joined ==
  /\ owner = "joining" /\ pc = "exited"
  /\ owner' = "stopped"
  /\ UNCHANGED <<now, logfile, m_is_running, front, back, total, dropped, caught>>

(***************************************************************************)
(* The backend thread.                                                     *)
(***************************************************************************)
Backend(from) == pc = from /\ UNCHANGED <<now, owner, m_is_running, total, caught>>

Begin ==
  /\ Backend("begin")
  /\ pc' = "test"
  /\ UNCHANGED <<logfile, front, new1, new2, to_write, next, dropped>>

\* while (m_is_running); behind the loop the file is flushed and closed.
TestRunning ==
  /\ Backend("test")
  /\ IF m_is_running
     THEN pc' = "lock" /\ UNCHANGED logfile
     ELSE pc' = "exited" /\ flush
  /\ UNCHANGED <<front, new1, new2, to_write, next, dropped>>

SwapLosesCurrent ==
  /\ to_write' = used
  /\ used' = <<>> /\ cur' = <<>>
  /\ new1' = FALSE
  /\ new2' = (new2 /\ reserved)
  /\ reserved' = TRUE

SwapTakesSpareAlways ==
  /\ to_write' = Append(used, cur)
  /\ used' = <<>> /\ cur' = <<>>
  /\ new1' = FALSE /\ new2' = FALSE
  /\ reserved' = TRUE

Swap ==
  /\ to_write' = Append(used, cur)
  /\ used' = <<>> /\ cur' = <<>>
  /\ new1' = FALSE
  /\ new2' = (new2 /\ reserved)
  /\ reserved' = (reserved \/ new2)

\* With the lock held: wait if there is no full buffer, else swap.
LockBuffers ==
  /\ Backend("lock")
  /\ IF used = <<>>
     THEN pc' = "wait" /\ UNCHANGED <<front, new1, new2, to_write>>
     ELSE pc' = "write" /\ Swap
  /\ UNCHANGED <<logfile, next, dropped>>

TestAfterWait ==
  /\ Backend("wait")
  /\ IF m_is_running
     THEN pc' = "write" /\ Swap
     ELSE pc' = "test" /\ UNCHANGED <<front, new1, new2, to_write>>
  /\ UNCHANGED <<logfile, next, dropped>>

WaitForFullBuffer ==
  /\ Backend("wait") /\ used # <<>>
  /\ pc' = "write"
  /\ Swap
  /\ UNCHANGED <<logfile, next, dropped>>

\* The wait ends by a notification or by its timeout, in any state.
WaitReturns ==
  /\ Backend("wait")
  /\ pc' = "write"
  /\ Swap
  /\ UNCHANGED <<logfile, next, dropped>>

kKeep == 2

\* More than two buffers: a notice is written, the newer ones are dropped.
DropBuffers ==
  /\ Backend("write") /\ next = 1 /\ Len(to_write) > kKeep
  /\ append(<<0>>, <<0>>)
  /\ dropped' = dropped \cup UNION {ToSet(to_write[i]) : i \in (kKeep + 1)..Len(to_write)}
  /\ to_write' = SubSeq(to_write, 1, kKeep)
  /\ UNCHANGED <<front, pc, new1, new2, next>>

\* output.append of one buffer; the disk may be full.
WriteBuffer ==
  /\ Backend("write") /\ Len(to_write) <= kKeep /\ next <= Len(to_write)
  /\ next' = next + 1
  /\ \E n \in {0, Len(to_write[next])} :
       /\ append(to_write[next], SubSeq(to_write[next], 1, n))
       /\ dropped' = dropped \cup ToSet(SubSeq(to_write[next], n + 1, Len(to_write[next])))
  /\ UNCHANGED <<front, pc, new1, new2, to_write>>

Missing == (IF new1 THEN 0 ELSE 1) + (IF new2 THEN 0 ELSE 1)

RefillWithoutFlush ==
  /\ Backend("write") /\ Len(to_write) <= kKeep /\ next > Len(to_write)
  /\ new1' = TRUE /\ new2' = TRUE
  /\ to_write' = <<>> /\ next' = 1
  /\ pc' = "test"
  /\ UNCHANGED <<front, dropped, logfile>>

\* The spare buffers are taken back from those written; then flush().
Refill ==
  /\ Backend("write") /\ Len(to_write) <= kKeep /\ next > Len(to_write)
  /\ new1' = TRUE /\ new2' = TRUE
  /\ to_write' = <<>> /\ next' = 1
  /\ pc' = "test"
  /\ flush
  /\ UNCHANGED <<front, dropped>>

TimePasses == ClockChanges /\ UNCHANGED <<logfile, owner, m_is_running, front, back, total, dropped, caught>>

BackendStep ==
  Begin \/ TestRunning \/ LockBuffers \/ WaitReturns \/ DropBuffers \/ WriteBuffer \/ Refill

Next == Log \/ Start \/ Started \/ Stop \/ Joined \/ TimePasses \/ BackendStep

\* The backend is never blocked for good: its wait has a timeout.
Spec == Init /\ [][Next]_vars /\ WF_vars(BackendStep) /\ WF_vars(Started \/ Joined)

(***************************************************************************)
(* Properties.                                                             *)
(***************************************************************************)
\* Every variable has its type; a buffer keeps room for its last byte and
\* LogFile's counter stays below the number of appends between checks.
TypeOK ==
  /\ now \in 1..MaxTime /\ log \in Seq(Nat) /\ written \in Nat /\ m_count \in 0..(m_check_every_n_appends - 1)
  /\ {m_last_roll, last_append} \subseteq 1..MaxTime
  /\ owner \in {"constructed", "starting", "started", "joining", "stopped"}
  /\ pc \in {"none", "begin", "test", "lock", "wait", "write", "exited"}
  /\ {m_is_running, reserved, new1, new2} \subseteq BOOLEAN
  /\ {total, caught} \subseteq Nat /\ dropped \subseteq 1..total
  /\ cur \in Seq(Nat) /\ Len(cur) < BufferSize
  /\ used \in Seq(Seq(Nat)) /\ \A i \in DOMAIN used : Len(used[i]) < BufferSize
  /\ to_write \in Seq(Seq(Nat)) /\ next \in 1..(Len(to_write) + 1)

\* The buffers with lines that are still to be written, in the order they were
\* filled.
Buffered == SubSeq(to_write, next, Len(to_write)) \o used \o <<cur>>

\* The lines of s, but for the notices, are in the order of appending.
Ascends(s) == \A i, j \in DOMAIN s : i < j /\ s[i] # 0 /\ s[j] # 0 => s[i] < s[j]
Before(s, t) == \A i \in DOMAIN s, j \in DOMAIN t : s[i] < t[j]

\* No line is lost, written twice or written out of order between append()
\* and the file: what is in the file and in the buffers is, but for the lines
\* the backend gave up, all that was appended, in the order of appending.
LinesKept ==
  /\ Ascends(log)
  /\ \A k \in DOMAIN Buffered :
       /\ Ascends(Buffered[k]) /\ Before(log, Buffered[k])
       /\ \A l \in DOMAIN Buffered : k < l => Before(Buffered[k], Buffered[l])
  /\ (ToSet(log) \ {0}) \cup UNION {ToSet(Buffered[k]) : k \in DOMAIN Buffered} = (1..total) \ dropped

\* The backend finds a buffer for each spare one it has to replace: if the
\* reserve was used there are two buffers or more, also after dropping (it
\* is what the asserts before back() and pop_back() rely on).
SparesCanBeRefilled ==
  /\ reserved \/ used # <<>>
  /\ IF pc = "write" THEN Missing <= Len(to_write) ELSE new1 /\ new2

\* stop() called while the backend is about to swap loses no line appended
\* before it; what can stay behind when the backend has exited was appended
\* later, or since the swap of an iteration that was writing.
StopWritesWhatWasThere ==
  pc = "exited" => \A k \in DOMAIN Buffered : \A line \in ToSet(Buffered[k]) : line > caught

\* Once stop() has met a backend about to swap, that swap is still made and is
\* the last: the lines in the buffers that are not being written are newer.
StopMeetsTheSwap ==
  /\ owner = "constructed" <=> pc = "none"
  /\ m_is_running <=> owner \in {"starting", "started"}
  /\ caught <= total /\ (caught > 0 => owner \in {"joining", "stopped"})
  /\ pc # "write" => to_write = <<>> /\ next = 1
  /\ pc \notin {"lock", "wait"} =>
       /\ \A line \in ToSet(cur) : line > caught
       /\ \A k \in DOMAIN used : \A line \in ToSet(used[k]) : line > caught

\* A line reaches the disk while logging runs: it does not stay in a buffer
\* that never fills or in stdio, unless the backend gives it up.
LineReachesDisk ==
  \A line \in 1..MaxLines :
    (line <= total /\ owner # "constructed") ~>
      (line \in (ToSet(log) \ unflushed) \cup dropped \/ owner \in {"joining", "stopped"})

\* stop() returns, whatever the backend is doing when it is called.
StopCompletes == owner = "joining" ~> owner = "stopped"

\* The fate of lines: none is lost, repeated or reordered between append() and
\* the file, stop() leaves behind only those it may, and the backend has a
\* buffer for each one it must replace (append, the swap of the backend, stop).
LoggingInv == TypeOK /\ LinesKept /\ StopMeetsTheSwap /\ StopWritesWhatWasThere /\ SparesCanBeRefilled

\* The backend gets on: lines reach the disk and stop() returns.
LoggingProgress == LineReachesDisk /\ StopCompletes
=============================================================================
