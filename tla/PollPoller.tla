----------------------------- MODULE PollPoller -----------------------------
(***************************************************************************)
(* The Poller over poll(2) (net/poller/PollPoller.cc): an array of pollfds *)
(* and, in each channel, the index of its entry.  A channel stands for its *)
(* file descriptor.  An entry whose fd is negated (-fd - 1) is marked      *)
(* ignored.  Indices are those of TLA+ sequences: 0 stands for the -1 of a *)
(* channel that is not in the array.                                       *)
(***************************************************************************)
EXTENDS Naturals, Sequences

CONSTANTS Channels, Events

VARIABLES m_channel_map,
          m_concerned_events,  \* of each channel
          m_idx,               \* of each channel
          pollfds_

vars == <<m_channel_map, m_concerned_events, m_idx, pollfds_>>

Init ==
  /\ m_channel_map = {}
  /\ m_concerned_events = [c \in Channels |-> {}]
  /\ m_idx = [c \in Channels |-> 0]
  /\ pollfds_ = <<>>

\* update_channel of a channel without an entry: appended.  It is not ignored
\* even if it has no events.
AddEntry(c, E) ==
  /\ m_idx[c] = 0
  /\ pollfds_' = Append(pollfds_, [fd |-> c, ignored |-> FALSE, events |-> E])
  /\ m_idx' = [m_idx EXCEPT ![c] = Len(pollfds_) + 1]
  /\ m_channel_map' = m_channel_map \cup {c}

KeepEvents(c, E) ==
  /\ m_idx[c] > 0
  /\ pollfds_' = [pollfds_ EXCEPT ![m_idx[c]].ignored = (E = {})]
  /\ UNCHANGED <<m_idx, m_channel_map>>

\* update_channel of a channel with an entry: ignored if it has no events.
ChangeEntry(c, E) ==
  /\ m_idx[c] > 0
  /\ pollfds_' = [pollfds_ EXCEPT ![m_idx[c]] =
                    [fd |-> c, ignored |-> (E = {}), events |-> E]]
  /\ UNCHANGED <<m_idx, m_channel_map>>

\* wang_to_read, end_reading, want_to_write, end_writing and end_all
update_channel(c, E) ==
  /\ m_concerned_events' = [m_concerned_events EXCEPT ![c] = E]
  /\ AddEntry(c, E) \/ ChangeEntry(c, E)

Front(s) == SubSeq(s, 1, Len(s) - 1)

RemoveWithoutReindex(c) ==
  LET n == Len(pollfds_)
      last == pollfds_[n]
  IN /\ pollfds_' = Front([pollfds_ EXCEPT ![m_idx[c]] = last])
     /\ m_idx' = [m_idx EXCEPT ![c] = 0]

\* The last entry takes the place of the one removed, and c has no entry.
RemoveEntry(c) ==
  LET n == Len(pollfds_)
      last == pollfds_[n]
  IN /\ pollfds_' = Front([pollfds_ EXCEPT ![m_idx[c]] = last])
     /\ m_idx' = [m_idx EXCEPT ![last.fd] = m_idx[c], ![c] = 0]

\* remove_channel.  The channel is destroyed next; another one with the same
\* file descriptor starts with index -1.
remove_channel(c) ==
  /\ c \in m_channel_map
  /\ m_concerned_events[c] = {}
  /\ m_channel_map' = m_channel_map \ {c}
  /\ RemoveEntry(c)
  /\ UNCHANGED m_concerned_events

Next == \E c \in Channels : remove_channel(c) \/ \E E \in SUBSET Events : update_channel(c, E)

Spec == Init /\ [][Next]_vars

(***************************************************************************)
(* Properties                                                              *)
(***************************************************************************)

Entry == [fd : Channels, ignored : BOOLEAN, events : SUBSET Events]

\* Types of the variables.
TypeOK ==
  /\ m_channel_map \subseteq Channels
  /\ m_concerned_events \in [Channels -> SUBSET Events]
  /\ m_idx \in [Channels -> Nat]
  /\ pollfds_ \in Seq(Entry)

\* Every registered channel's index is that of its own entry, every entry
\* belongs to the registered channel that has its index, and the channels not
\* registered have none: removing by swapping with the last entry keeps all
\* the others reachable.
IndexInv ==
  /\ \A c \in m_channel_map : m_idx[c] \in DOMAIN pollfds_ /\ pollfds_[m_idx[c]].fd = c
  /\ \A k \in DOMAIN pollfds_ :
       pollfds_[k].fd \in m_channel_map /\ m_idx[pollfds_[k].fd] = k
  /\ \A c \in Channels \ m_channel_map : m_idx[c] = 0 /\ m_concerned_events[c] = {}

\* An entry asks the kernel for what its channel is concerned with.
EventsInv ==
  \A k \in DOMAIN pollfds_ :
    /\ pollfds_[k].events = m_concerned_events[pollfds_[k].fd]
    /\ pollfds_[k].ignored => pollfds_[k].events = {}

PollPollerInv == TypeOK /\ IndexInv /\ EventsInv

watched == [c \in Channels |-> IF c \in m_channel_map THEN pollfds_[m_idx[c]].events ELSE {}]

P == INSTANCE Poller WITH
       known <- m_channel_map, asked <- m_concerned_events, watched <- watched

\* The array implements the interests the Reactor asked for.
ImplementsPoller == P!PSpec
=============================================================================
