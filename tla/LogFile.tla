------------------------------ MODULE LogFile ------------------------------
(***************************************************************************)
(* A LogFile (common/LogFile.cc) over an AppendFile (common/FileUtil.cc):  *)
(* lines go through the buffer of stdio to a file that is replaced when it *)
(* is too long or its day is over.  It is used by one thread.              *)
(*                                                                         *)
(* A line has length 1.  log holds the lines of all files in the order     *)
(* they were written, notices of dropped lines as 0; unflushed those that  *)
(* are still in the buffer of stdio.                                       *)
(***************************************************************************)
EXTENDS Integers, Sequences, SequencesExt

CONSTANTS
  m_rollsize, m_flush_interval, m_check_every_n_appends,
  kRollPerSeconds,
  MaxTime                         \* bound: the clock's values

ASSUME LogFileAssumption ==
  /\ {m_rollsize, m_flush_interval} \subseteq Nat
  /\ {m_check_every_n_appends, kRollPerSeconds, MaxTime} \subseteq Nat \ {0}

VARIABLES
  now,               \* time(NULL)
  log, unflushed,
  written,           \* m_file->written_bytes()
  m_count, m_start_time, m_last_roll, m_last_flush,
  last_append        \* when the last append was

logfile == <<log, unflushed, written, m_count, m_start_time, m_last_roll, m_last_flush, last_append>>

Period == (now \div kRollPerSeconds) * kRollPerSeconds

\* The constructor opens the first file: roll_file with m_last_roll 0.
LogFileInit ==
  /\ log = <<>> /\ unflushed = {}
  /\ written = 0 /\ m_count = 0
  /\ m_start_time = Period /\ m_last_roll = now /\ m_last_flush = now
  /\ last_append = now

\* The clock may be set to any time, also back.
ClockChanges ==
  /\ now' \in 1..MaxTime
  /\ now' # now

\* A file's name is the second it was opened in, so there is one a second.
MayRoll == now > m_last_roll

\* roll_file after an append that left `bytes` in the file and `buffered` in
\* stdio's buffer; the old file is closed, which flushes it.
roll_file(bytes, buffered) ==
  IF MayRoll
  THEN /\ m_last_roll' = now /\ m_last_flush' = now /\ m_start_time' = Period
       /\ written' = 0 /\ unflushed' = {}
  ELSE /\ written' = bytes /\ unflushed' = buffered
       /\ UNCHANGED <<m_last_roll, m_last_flush, m_start_time>>

RollLate(bytes) == bytes > m_rollsize + 1

TooLong(bytes) == bytes > m_rollsize

\* append_unlocked.  If the disk takes only `taken` of the lines the others
\* are given up, but counted.
append(lines, taken) ==
  LET bytes == written + Len(lines)
      buffered == unflushed \cup ToSet(taken) IN
  /\ log' = log \o taken
  /\ last_append' = now
  /\ IF TooLong(bytes)
     THEN roll_file(bytes, buffered) /\ UNCHANGED m_count
     ELSE IF m_count + 1 < m_check_every_n_appends
     THEN /\ m_count' = m_count + 1
          /\ written' = bytes /\ unflushed' = buffered
          /\ UNCHANGED <<m_start_time, m_last_roll, m_last_flush>>
     ELSE /\ m_count' = 0
          /\ IF Period # m_start_time
             THEN roll_file(bytes, buffered)
             ELSE /\ written' = bytes
                  /\ m_last_flush' = IF now - m_last_flush > m_flush_interval THEN now ELSE m_last_flush
                  /\ unflushed' = IF now - m_last_flush > m_flush_interval THEN {} ELSE buffered
                  /\ UNCHANGED <<m_start_time, m_last_roll>>

flush ==
  /\ unflushed' = {}
  /\ UNCHANGED <<log, written, m_count, m_start_time, m_last_roll, m_last_flush, last_append>>

\* A file is over m_rollsize only as long as it may not be replaced: its last
\* append found a clock that is not past the second of the last roll.
OversizeHasAReason == written > m_rollsize => last_append <= m_last_roll
=============================================================================
