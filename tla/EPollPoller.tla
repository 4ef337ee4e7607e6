----------------------------- MODULE EPollPoller -----------------------------
(***************************************************************************)
(* The Poller over epoll(7) (net/poller/EPollPoller.cc): the state each    *)
(* channel is in (kNew, kAdded, kDeleted), the kernel's interest list, and *)
(* the growing list of events.  A channel stands for its file descriptor.  *)
(***************************************************************************)
EXTENDS Naturals, FiniteSets

CONSTANTS Channels, Events, kInitEventListSize

ASSUME EPollPollerAssumption ==
  kInitEventListSize \in Nat \ {0} /\ IsFiniteSet(Channels)

VARIABLES m_channel_map,
          m_concerned_events,  \* of each channel
          m_idx,               \* of each channel
          epoll,               \* what the kernel watches: [list, events]
          failed,              \* an epoll_ctl has failed
          m_events_list        \* its size

vars == <<m_channel_map, m_concerned_events, m_idx, epoll, failed, m_events_list>>

Init ==
  /\ m_channel_map = {}
  /\ m_concerned_events = [c \in Channels |-> {}]
  /\ m_idx = [c \in Channels |-> "kNew"]
  /\ epoll = [list |-> {}, events |-> [c \in Channels |-> {}]]
  /\ failed = FALSE
  /\ m_events_list = kInitEventListSize

\* epoll_ctl: EEXIST, ENOENT, or the interest list changes.
update(op, c, E) ==
  /\ failed' = (failed \/ (op = "ADD") = (c \in epoll.list))
  /\ epoll' = [list |-> IF op = "DEL" THEN epoll.list \ {c} ELSE epoll.list \cup {c},
               events |-> [epoll.events EXCEPT ![c] = E]]

AlwaysAdd(c, E) ==
  /\ m_channel_map' = m_channel_map \cup {c}
  /\ update("ADD", c, E)
  /\ m_idx' = [m_idx EXCEPT ![c] = "kAdded"]

\* update_channel of a channel that is not in epoll, even if E is empty
AddChannel(c, E) ==
  /\ m_idx[c] \in {"kNew", "kDeleted"}
  /\ m_channel_map' = m_channel_map \cup {c}
  /\ update("ADD", c, E)
  /\ m_idx' = [m_idx EXCEPT ![c] = "kAdded"]

ModifyOnlyToDelete(c, E) ==
  /\ m_idx[c] = "kAdded"
  /\ IF E = {} THEN update("DEL", c, E) ELSE UNCHANGED <<epoll, failed>>
  /\ m_idx' = [m_idx EXCEPT ![c] = IF E = {} THEN "kDeleted" ELSE "kAdded"]
  /\ UNCHANGED m_channel_map

\* update_channel of a channel that is in epoll
ModifyChannel(c, E) ==
  /\ m_idx[c] = "kAdded"
  /\ update(IF E = {} THEN "DEL" ELSE "MOD", c, E)
  /\ m_idx' = [m_idx EXCEPT ![c] = IF E = {} THEN "kDeleted" ELSE "kAdded"]
  /\ UNCHANGED m_channel_map

\* wang_to_read, end_reading, want_to_write, end_writing and end_all
update_channel(c, E) ==
  /\ m_concerned_events' = [m_concerned_events EXCEPT ![c] = E]
  /\ AddChannel(c, E) \/ ModifyChannel(c, E)
  /\ UNCHANGED m_events_list

remove_channel(c) ==
  /\ c \in m_channel_map
  /\ m_concerned_events[c] = {}
  /\ m_channel_map' = m_channel_map \ {c}
  /\ IF m_idx[c] = "kAdded" THEN update("DEL", c, {}) ELSE UNCHANGED <<epoll, failed>>
  /\ m_idx' = [m_idx EXCEPT ![c] = "kNew"]
  /\ UNCHANGED <<m_concerned_events, m_events_list>>

GrowWhenNotFull(n) == IF n > 0 THEN 2 * m_events_list ELSE m_events_list

\* The size of the list after n events arrived
Grow(n) == IF n = m_events_list THEN 2 * m_events_list ELSE m_events_list

\* poll: some of the channels in epoll are reported, as many as the list holds.
poll ==
  /\ \E n \in 0..m_events_list : n <= Cardinality(epoll.list) /\ m_events_list' = Grow(n)
  /\ UNCHANGED <<m_channel_map, m_concerned_events, m_idx, epoll, failed>>

Next ==
  \/ \E c \in Channels : remove_channel(c) \/ \E E \in SUBSET Events : update_channel(c, E)
  \/ poll

Spec == Init /\ [][Next]_vars

(***************************************************************************)
(* Properties                                                              *)
(***************************************************************************)

\* Types of the variables.
TypeOK ==
  /\ m_channel_map \subseteq Channels
  /\ m_concerned_events \in [Channels -> SUBSET Events]
  /\ m_idx \in [Channels -> {"kNew", "kAdded", "kDeleted"}]
  /\ epoll \in [list : SUBSET Channels, events : [Channels -> SUBSET Events]]
  /\ failed \in BOOLEAN
  /\ m_events_list \in Nat

\* The state of each channel is the truth about the kernel's list and about
\* m_channel_map, so no epoll_ctl ever fails (which for ADD and MOD ends the
\* process), and the kernel watches what the channel is concerned with.
EPollInv ==
  /\ ~failed
  /\ epoll.list = {c \in Channels : m_idx[c] = "kAdded"}
  /\ m_channel_map = {c \in Channels : m_idx[c] # "kNew"}
  /\ epoll.events = m_concerned_events
  /\ \A c \in Channels : m_idx[c] # "kAdded" => m_concerned_events[c] = {}

EPollPollerInv == TypeOK /\ EPollInv

P == INSTANCE Poller WITH
       known <- m_channel_map, asked <- m_concerned_events, watched <- epoll.events

\* The interest list implements what the Reactor asked for.
ImplementsPoller == P!PSpec

\* The list of events stays within twice the number of channels.
EventListBounded ==
  m_events_list <= kInitEventListSize \/ m_events_list <= 2 * Cardinality(Channels)
=============================================================================
