----------------------------- MODULE ZeroCopier -----------------------------
(***************************************************************************)
(* flute::ZeroCopier (common/ZeroCopier.h, common/ZeroCopier.cc): sends a  *)
(* file to a socket chunk by chunk in one of three copy modes.  Bytes are  *)
(* their positions in the file.  TcpConnection calls send_one_chunk each   *)
(* time the socket is writable, until has_finished() says to stop.         *)
(*                                                                         *)
(* sendfile(2) and send(2) take any part of what they are given or fail;   *)
(* read(2) on the file advances its file position, which sendfile with an  *)
(* offset and mmap do not use.  The file does not change while it is sent, *)
(* and mmap and munmap succeed.                                            *)
(***************************************************************************)
EXTENDS Integers, Sequences

CONSTANTS
    kMaxTrial,     \* failures in a row before the copier gives up (100)
    g_chunk_size,  \* bytes of one chunk (1024)
    FileSizes      \* the sizes of file a program sends

VARIABLES
    g_copy_mode,         \* "kZeroCopy", "kMMap" or "kReadWrite"
    size,                \* the size of the file
    m_source_available,  \* the file could be opened
    m_total_bytes, m_offset, m_failure_counter, m_started,
    file_pos,            \* the file position of m_source_fd
    received,            \* history: positions the socket took, in order
    short,               \* history: a read-write chunk was taken in part
    aborted              \* history: mark_abort was called

copierVars == <<g_copy_mode, size, m_source_available, m_total_bytes, m_offset,
                m_failure_counter, m_started, file_pos, received, short,
                aborted>>

-----------------------------------------------------------------------------
\* The constructor; open(2) or fstat(2) may fail, and m_total_bytes is then
\* not initialised: any value.
CopierInit ==
    /\ g_copy_mode \in {"kZeroCopy", "kMMap", "kReadWrite"}
    /\ size \in FileSizes
    /\ m_source_available \in BOOLEAN
    /\ IF m_source_available THEN m_total_bytes = size
       ELSE m_total_bytes \in FileSizes
    /\ m_offset = 0 /\ m_failure_counter = 0 /\ m_started = FALSE
    /\ file_pos = 0 /\ received = <<>>
    /\ short = FALSE /\ aborted = FALSE

\* is_valid(): set_target_fd and start are called together, so a started
\* copier has a target.
is_valid == m_source_available /\ m_started

has_finished == ~is_valid \/ m_offset = m_total_bytes

remaining_bytes == m_total_bytes - m_offset

\* TcpConnection::enable_zero_copy
start ==
    /\ ~m_started
    /\ m_started' = TRUE
    /\ UNCHANGED <<g_copy_mode, size, m_source_available, m_total_bytes,
                   m_offset, m_failure_counter, file_pos, received, short,
                   aborted>>

Positions(from, n) == [i \in 1 .. n |-> from + i - 1]

\* Mutant: the whole chunk is taken as sent.
CountsWholeChunk(bytes_to_send, n) ==
    /\ m_offset' = m_offset + bytes_to_send
    /\ received' = received \o Positions(m_offset, n)
    /\ UNCHANGED <<file_pos, short>>

\* n bytes at m_offset were taken.
Sent(bytes_to_send, n) ==
    /\ m_offset' = m_offset + n
    /\ received' = received \o Positions(m_offset, n)
    /\ UNCHANGED <<file_pos, short>>

send_one_chunk_zerocopy(bytes_to_send, n) ==
    g_copy_mode = "kZeroCopy" /\ n > 0 /\ Sent(bytes_to_send, n)

\* The pages around m_offset are mapped and sent from there.
send_one_chunk_mmap(bytes_to_send, n) ==
    g_copy_mode = "kMMap" /\ n > 0 /\ Sent(bytes_to_send, n)

\* What read(2) returns at the file position.
ReadOf(bytes_to_send) ==
    IF bytes_to_send <= size - file_pos THEN bytes_to_send ELSE size - file_pos

\* read() moves the file position by all that was read; write() may take less,
\* and m_offset follows what was written.
send_one_chunk_rw(bytes_to_send, n) ==
    LET read == ReadOf(bytes_to_send)
    IN  /\ g_copy_mode = "kReadWrite"
        /\ n <= read
        /\ n = 0 => read = 0
        /\ file_pos' = file_pos + read
        /\ received' = received \o Positions(file_pos, n)
        /\ m_offset' = m_offset + n
        /\ short' = (short \/ n < read)

\* Nothing was taken.  In read-write mode the read may have succeeded, and
\* what it read is lost.
FailsToSend(bytes_to_send) ==
    /\ \E read \in IF g_copy_mode = "kReadWrite" THEN {0, ReadOf(bytes_to_send)}
                   ELSE {0} :
          file_pos' = file_pos + read /\ short' = (short \/ read > 0)
    /\ UNCHANGED received

\* The number of bytes, at most a chunk, that a call tries to send.
BytesToSend ==
    IF remaining_bytes < g_chunk_size THEN remaining_bytes ELSE g_chunk_size

CountsAsSent == m_failure_counter' = 0 /\ UNCHANGED <<m_total_bytes, aborted>>

\* Mutant: the copier stops one failure late.
OneTrialMore ==
    /\ m_failure_counter' = m_failure_counter + 1
    /\ IF m_failure_counter' > kMaxTrial
         THEN m_total_bytes' = 0 /\ m_offset' = 0 /\ aborted' = TRUE
         ELSE UNCHANGED <<m_total_bytes, m_offset, aborted>>

\* Mutant: the last trial starts the count again.
NeverGivesUp ==
    /\ m_failure_counter' = (m_failure_counter + 1) % kMaxTrial
    /\ UNCHANGED <<m_total_bytes, m_offset, aborted>>

\* mark_abort() lies to the caller that all was sent.
CountsAsFailure ==
    /\ m_failure_counter' = m_failure_counter + 1
    /\ IF m_failure_counter' >= kMaxTrial
         THEN m_total_bytes' = 0 /\ m_offset' = 0 /\ aborted' = TRUE
         ELSE UNCHANGED <<m_total_bytes, m_offset, aborted>>

send_one_chunk ==
    /\ m_started /\ ~has_finished
    /\ \/ /\ \E n \in 0 .. BytesToSend :
                \/ send_one_chunk_zerocopy(BytesToSend, n)
                \/ send_one_chunk_mmap(BytesToSend, n)
                \/ send_one_chunk_rw(BytesToSend, n)
          /\ CountsAsSent
       \/ /\ FailsToSend(BytesToSend)
          /\ CountsAsFailure
    /\ UNCHANGED <<g_copy_mode, size, m_source_available, m_started>>

CopierNext == start \/ send_one_chunk

CopierFairness == WF_copierVars(start) /\ WF_copierVars(send_one_chunk)

-----------------------------------------------------------------------------
(* Properties                                                              *)

(* The type; has_finished compares with ==, so the offset must never pass  *)
(* the total, and the failures counted stay below kMaxTrial until the      *)
(* copier gives up.                                                        *)
CopierTypeOK ==
    /\ m_offset \in 0 .. m_total_bytes
    /\ m_failure_counter \in 0 .. kMaxTrial
    /\ m_failure_counter = kMaxTrial => aborted
    /\ file_pos \in 0 .. size

(* Unless a read-write chunk was taken only in part (its rest is then      *)
(* lost), the socket receives the bytes of the file in order, each once.   *)
ReceivesPrefix ==
    ~short => \A i \in 1 .. Len(received) : received[i] = i - 1

(* A copier that finished without giving up has sent the whole file,       *)
(* whatever parts the socket took and however often it failed.             *)
FinishedMeansSent ==
    m_started /\ m_source_available /\ has_finished /\ ~aborted /\ ~short
        => Len(received) = size

(* A transfer ends, finished or given up, however the socket behaves:      *)
(* TcpConnection is not kept writing forever.  Only a read-write chunk     *)
(* taken in part can prevent it, for then the end of the file is reached   *)
(* with the offset behind it.                                              *)
TransferEnds == <>((m_started /\ has_finished) \/ short)

(* A transfer ends, and what the socket received is the file, in order and *)
(* whole unless the copier gave up (send_one_chunk and its three modes).   *)
FileArrives ==
    /\ [](CopierTypeOK /\ ReceivesPrefix /\ FinishedMeansSent)
    /\ TransferEnds
=============================================================================
