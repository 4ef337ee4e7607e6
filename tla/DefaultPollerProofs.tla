------------------------- MODULE DefaultPollerProofs -------------------------
(***************************************************************************)
(* Proofs about both pollers and the choice between them, for any channels *)
(* and events: the array of PollPoller and its indices stay consistent, no *)
(* epoll_ctl of EPollPoller fails, the list of events is bounded, and both *)
(* implement Poller.                                                       *)
(***************************************************************************)
EXTENDS DefaultPoller, SequenceTheorems, FiniteSetTheorems, TLAPS

(***************************************************************************)
(* PollPoller.                                                             *)
(***************************************************************************)

\* The empty array satisfies the invariant.
LEMMA PollInitInv == Poll!Init => Poll!PollPollerInv
<1> SUFFICES ASSUME Poll!Init PROVE Poll!PollPollerInv
    OBVIOUS
<1>1. pollfds_ \in Seq(Poll!Entry) /\ DOMAIN pollfds_ = {}
    BY DEF Poll!Init
<1> QED
    BY <1>1 DEF Poll!Init, Poll!PollPollerInv, Poll!TypeOK, Poll!IndexInv, Poll!EventsInv

\* Poll!update_channel of a new channel appends its entry.
LEMMA AddEntryInv ==
  ASSUME Poll!PollPollerInv, NEW c \in Channels, NEW E \in SUBSET Events,
         Poll!AddEntry(c, E), poll_concerned' = [poll_concerned EXCEPT ![c] = E]
  PROVE  Poll!PollPollerInv'
<1> DEFINE n == Len(pollfds_)
           e == [fd |-> c, ignored |-> FALSE, events |-> E]
<1>1. pollfds_ \in Seq(Poll!Entry) /\ n \in Nat /\ DOMAIN pollfds_ = 1..n /\ e \in Poll!Entry
    BY DEF Poll!PollPollerInv, Poll!TypeOK, Poll!Entry
<1>2. /\ pollfds_' \in Seq(Poll!Entry)
      /\ DOMAIN pollfds_' = 1..(n + 1)
      /\ pollfds_'[n + 1] = e
      /\ \A k \in 1..n : pollfds_'[k] = pollfds_[k]
    BY <1>1 DEF Poll!AddEntry
<1>3. c \notin poll_map
    BY <1>1 DEF Poll!AddEntry, Poll!PollPollerInv, Poll!IndexInv
<1>4. Poll!TypeOK'
    BY <1>1, <1>2 DEF Poll!PollPollerInv, Poll!TypeOK, Poll!AddEntry
<1>5. \A k \in 1..n : pollfds_[k].fd \in poll_map /\ pollfds_[k].fd # c
    BY <1>1, <1>3 DEF Poll!PollPollerInv, Poll!IndexInv
<1>6. Poll!IndexInv'
  <2>1. \A d \in poll_map' : poll_idx'[d] \in 1..(n + 1) /\ pollfds_'[poll_idx'[d]].fd = d
    <3> TAKE d \in poll_map'
    <3>1. CASE d = c
        BY <3>1, <1>1, <1>2 DEF Poll!AddEntry, Poll!PollPollerInv, Poll!TypeOK
    <3>2. CASE d # c
      <4>1. d \in poll_map /\ d \in Channels /\ poll_idx'[d] = poll_idx[d]
          BY <3>2 DEF Poll!AddEntry, Poll!PollPollerInv, Poll!TypeOK
      <4> QED
          BY <4>1, <1>1, <1>2 DEF Poll!PollPollerInv, Poll!IndexInv
    <3> QED
        BY <3>1, <3>2
  <2>2. \A k \in 1..(n + 1) :
          pollfds_'[k].fd \in poll_map' /\ poll_idx'[pollfds_'[k].fd] = k
    <3> TAKE k \in 1..(n + 1)
    <3>1. CASE k = n + 1
        BY <3>1, <1>1, <1>2 DEF Poll!AddEntry, Poll!PollPollerInv, Poll!TypeOK
    <3>2. CASE k \in 1..n
        BY <3>2, <1>1, <1>2, <1>5, Zenon DEF Poll!AddEntry, Poll!PollPollerInv, Poll!TypeOK, Poll!IndexInv
    <3> QED
        BY <3>1, <3>2, <1>1
  <2>3. \A d \in Channels \ poll_map' : poll_idx'[d] = 0 /\ poll_concerned'[d] = {}
      BY DEF Poll!AddEntry, Poll!PollPollerInv, Poll!TypeOK, Poll!IndexInv
  <2> QED
      BY <2>1, <2>2, <2>3, <1>2 DEF Poll!IndexInv
<1>7. Poll!EventsInv'
  <2> SUFFICES ASSUME NEW k \in 1..(n + 1)
               PROVE  /\ pollfds_'[k].events = poll_concerned'[pollfds_'[k].fd]
                      /\ pollfds_'[k].ignored => pollfds_'[k].events = {}
      BY <1>2 DEF Poll!EventsInv
  <2>1. CASE k = n + 1
      BY <2>1, <1>2 DEF Poll!PollPollerInv, Poll!TypeOK
  <2>2. CASE k \in 1..n
    <3>1. pollfds_'[k] = pollfds_[k] /\ pollfds_[k].fd # c
        BY <2>2, <1>2, <1>5
    <3>2. poll_concerned'[pollfds_[k].fd] = poll_concerned[pollfds_[k].fd]
        BY <3>1, <1>1, <2>2 DEF Poll!PollPollerInv, Poll!TypeOK, Poll!Entry
    <3> QED
        BY <3>1, <3>2, <1>1, <2>2 DEF Poll!PollPollerInv, Poll!EventsInv
  <2> QED
      BY <2>1, <2>2, <1>1
<1> QED
    BY <1>4, <1>6, <1>7 DEF Poll!PollPollerInv

\* Poll!update_channel of a registered channel rewrites its own entry.
LEMMA ChangeEntryInv ==
  ASSUME Poll!PollPollerInv, NEW c \in Channels, NEW E \in SUBSET Events,
         Poll!ChangeEntry(c, E), poll_concerned' = [poll_concerned EXCEPT ![c] = E]
  PROVE  Poll!PollPollerInv'
<1> DEFINE n == Len(pollfds_)
           e == [fd |-> c, ignored |-> (E = {}), events |-> E]
           i == poll_idx[c]
<1>1. pollfds_ \in Seq(Poll!Entry) /\ n \in Nat /\ DOMAIN pollfds_ = 1..n /\ e \in Poll!Entry
    BY DEF Poll!PollPollerInv, Poll!TypeOK, Poll!Entry
<1>2. c \in poll_map /\ i \in 1..n /\ pollfds_[i].fd = c
    BY <1>1 DEF Poll!ChangeEntry, Poll!PollPollerInv, Poll!IndexInv
<1>3. /\ pollfds_' = [pollfds_ EXCEPT ![i] = e]
      /\ pollfds_' \in Seq(Poll!Entry)
      /\ DOMAIN pollfds_' = 1..n
      /\ pollfds_'[i] = e
      /\ \A k \in 1..n : k # i => pollfds_'[k] = pollfds_[k]
  <2>1. pollfds_' = [pollfds_ EXCEPT ![i] = e]
      BY DEF Poll!ChangeEntry
  <2> HIDE DEF e, i, n
  <2>2. /\ pollfds_' \in Seq(Poll!Entry)
        /\ Len(pollfds_') = n
        /\ \A k \in 1..n : pollfds_'[k] = IF k = i THEN e ELSE pollfds_[k]
      BY <2>1, <1>1, <1>2, ExceptSeq DEF n
  <2> QED
      BY <2>1, <2>2, <1>1, <1>2
<1>4. \A k \in 1..n : pollfds_'[k].fd = pollfds_[k].fd
    BY <1>2, <1>3
<1>5. \A k \in 1..n : k # i => pollfds_[k].fd # c /\ pollfds_[k].fd \in Channels
    BY <1>1, <1>2 DEF Poll!PollPollerInv, Poll!TypeOK, Poll!IndexInv
<1>6. Poll!TypeOK'
    BY <1>3 DEF Poll!PollPollerInv, Poll!TypeOK, Poll!ChangeEntry
<1>7. Poll!IndexInv'
    BY <1>1, <1>2, <1>3, <1>4 DEF Poll!PollPollerInv, Poll!TypeOK, Poll!IndexInv, Poll!ChangeEntry
<1>8. Poll!EventsInv'
  <2> SUFFICES ASSUME NEW k \in 1..n
               PROVE  /\ pollfds_'[k].events = poll_concerned'[pollfds_'[k].fd]
                      /\ pollfds_'[k].ignored => pollfds_'[k].events = {}
      BY <1>3 DEF Poll!EventsInv
  <2>1. CASE k = i
      BY <2>1, <1>3, Zenon DEF Poll!PollPollerInv, Poll!TypeOK
  <2>2. CASE k # i
    <3>1. pollfds_'[k] = pollfds_[k]
        BY <2>2, <1>3
    <3>2. poll_concerned'[pollfds_[k].fd] = poll_concerned[pollfds_[k].fd]
        BY <2>2, <1>5 DEF Poll!PollPollerInv, Poll!TypeOK
    <3> QED
        BY <3>1, <3>2, <1>1 DEF Poll!PollPollerInv, Poll!EventsInv
  <2> QED
      BY <2>1, <2>2
<1> QED
    BY <1>6, <1>7, <1>8 DEF Poll!PollPollerInv

\* Removing an entry by moving the last one into its place leaves an array of
\* the other entries.
LEMMA RemoveEntryFacts ==
  ASSUME Poll!PollPollerInv, NEW c \in poll_map, Poll!RemoveEntry(c)
  PROVE  LET n == Len(pollfds_)
             i == poll_idx[c]
         IN /\ n \in Nat /\ i \in 1..n /\ DOMAIN pollfds_ = 1..n
            /\ pollfds_' \in Seq(Poll!Entry)
            /\ DOMAIN pollfds_' = 1..(n - 1)
            /\ \A k \in 1..(n - 1) : pollfds_'[k] = IF k = i THEN pollfds_[n] ELSE pollfds_[k]
            /\ poll_idx' = [poll_idx EXCEPT ![pollfds_[n].fd] = i, ![c] = 0]
<1> DEFINE n == Len(pollfds_)
           i == poll_idx[c]
           swapped == [pollfds_ EXCEPT ![i] = pollfds_[n]]
<1>1. pollfds_ \in Seq(Poll!Entry) /\ n \in Nat /\ DOMAIN pollfds_ = 1..n /\ i \in 1..n
    BY DEF Poll!PollPollerInv, Poll!TypeOK, Poll!IndexInv
<1>2. n \in 1..n /\ pollfds_[n] \in Poll!Entry
    BY <1>1
<1>3. pollfds_' = SubSeq(swapped, 1, Len(swapped) - 1)
    BY DEF Poll!RemoveEntry, Poll!Front
<1>4. poll_idx' = [poll_idx EXCEPT ![pollfds_[n].fd] = i, ![c] = 0]
    BY DEF Poll!RemoveEntry
<1> HIDE DEF n, i, swapped
<1>5. /\ swapped \in Seq(Poll!Entry)
      /\ Len(swapped) = n
      /\ \A k \in 1..n : swapped[k] = IF k = i THEN pollfds_[n] ELSE pollfds_[k]
    BY <1>1, <1>2, ExceptSeq DEF n, swapped
<1>6. /\ pollfds_' \in Seq(Poll!Entry)
      /\ DOMAIN pollfds_' = 1..(n - 1)
      /\ \A k \in 1..(n - 1) : pollfds_'[k] = swapped[k]
    BY <1>1, <1>2, <1>3, <1>5
<1> QED
    BY <1>1, <1>4, <1>5, <1>6 DEF n, i

\* Poll!remove_channel keeps every other channel's index right.
LEMMA PollRemoveChannelInv ==
  ASSUME Poll!PollPollerInv, NEW c \in Channels, Poll!remove_channel(c)
  PROVE  Poll!PollPollerInv'
<1> DEFINE n == Len(pollfds_)
           i == poll_idx[c]
           l == pollfds_[n].fd
<1>1. c \in poll_map /\ poll_concerned[c] = {}
    BY DEF Poll!remove_channel
<1>2. /\ n \in Nat /\ i \in 1..n /\ DOMAIN pollfds_ = 1..n
      /\ pollfds_' \in Seq(Poll!Entry)
      /\ DOMAIN pollfds_' = 1..(n - 1)
      /\ \A k \in 1..(n - 1) : pollfds_'[k] = IF k = i THEN pollfds_[n] ELSE pollfds_[k]
      /\ poll_idx' = [poll_idx EXCEPT ![l] = i, ![c] = 0]
    BY <1>1, RemoveEntryFacts DEF Poll!remove_channel
<1>3. /\ poll_map' = poll_map \ {c}
      /\ poll_concerned' = poll_concerned
      /\ poll_idx \in [Channels -> Nat]
      /\ poll_map \subseteq Channels
    BY DEF Poll!remove_channel, Poll!PollPollerInv, Poll!TypeOK
<1>4. /\ \A d \in poll_map : poll_idx[d] \in 1..n /\ pollfds_[poll_idx[d]].fd = d
      /\ \A k \in 1..n : pollfds_[k].fd \in poll_map /\ poll_idx[pollfds_[k].fd] = k
      /\ \A d \in Channels \ poll_map : poll_idx[d] = 0 /\ poll_concerned[d] = {}
    BY <1>2 DEF Poll!PollPollerInv, Poll!IndexInv
<1>5. l \in poll_map /\ poll_idx[l] = n
    BY <1>2, <1>4
<1>6. poll_idx' \in [Channels -> Nat] /\ poll_idx'[c] = 0
      /\ (l # c => poll_idx'[l] = i)
      /\ \A d \in Channels : d # c /\ d # l => poll_idx'[d] = poll_idx[d]
    BY <1>2, <1>3, <1>5
<1> HIDE DEF l, i, n
<1>7. Poll!TypeOK'
    BY <1>2, <1>3, <1>6, Zenon DEF Poll!PollPollerInv, Poll!TypeOK
<1>8. Poll!IndexInv'
  <2>1. \A d \in poll_map' : poll_idx'[d] \in 1..(n - 1) /\ pollfds_'[poll_idx'[d]].fd = d
    <3> SUFFICES ASSUME NEW d \in poll_map, d # c
                 PROVE  poll_idx'[d] \in 1..(n - 1) /\ pollfds_'[poll_idx'[d]].fd = d
        BY <1>3
    <3>1. CASE d = l
      <4>1. poll_idx'[d] = i /\ i # n
          BY <3>1, <1>1, <1>4, <1>5, <1>6 DEF i
      <4> QED
          BY <4>1, <3>1, <1>2 DEF l
    <3>2. CASE d # l
      <4>1. poll_idx'[d] = poll_idx[d] /\ poll_idx[d] # n /\ poll_idx[d] # i
          BY <3>2, <1>1, <1>3, <1>4, <1>6 DEF l, i
      <4> QED
          BY <4>1, <1>2, <1>4
    <3> QED
        BY <3>1, <3>2
  <2>2. \A k \in 1..(n - 1) :
          pollfds_'[k].fd \in poll_map' /\ poll_idx'[pollfds_'[k].fd] = k
    <3> TAKE k \in 1..(n - 1)
    <3>1. CASE k = i
      <4>1. pollfds_'[k].fd = l /\ l # c
          BY <3>1, <1>2, <1>5 DEF l, i
      <4> QED
          BY <4>1, <3>1, <1>3, <1>5, <1>6
    <3>2. CASE k # i
      <4>1. /\ pollfds_'[k].fd = pollfds_[k].fd
            /\ pollfds_[k].fd \in poll_map /\ poll_idx[pollfds_[k].fd] = k
          BY <3>2, <1>2, <1>4
      <4>2. pollfds_[k].fd # c /\ pollfds_[k].fd # l
          BY <4>1, <3>2, <1>2, <1>5 DEF i
      <4> QED
          BY <4>1, <4>2, <1>3, <1>6
    <3> QED
        BY <3>1, <3>2
  <2>3. \A d \in Channels \ poll_map' : poll_idx'[d] = 0 /\ poll_concerned'[d] = {}
      BY <1>1, <1>3, <1>4, <1>5, <1>6
  <2> QED
      BY <2>1, <2>2, <2>3, <1>2, Zenon DEF Poll!IndexInv
<1>9. Poll!EventsInv'
  <2> SUFFICES ASSUME NEW k \in 1..(n - 1)
               PROVE  /\ pollfds_'[k].events = poll_concerned[pollfds_'[k].fd]
                      /\ pollfds_'[k].ignored => pollfds_'[k].events = {}
      BY <1>2, <1>3 DEF Poll!EventsInv
  <2>1. \A j \in 1..n : /\ pollfds_[j].events = poll_concerned[pollfds_[j].fd]
                        /\ pollfds_[j].ignored => pollfds_[j].events = {}
      BY <1>2 DEF Poll!PollPollerInv, Poll!EventsInv
  <2> QED
      BY <2>1, <1>2
<1> QED
    BY <1>7, <1>8, <1>9 DEF Poll!PollPollerInv

\* Every step of PollPoller keeps its indices and entries consistent.
LEMMA PollNextInv ==
  ASSUME Poll!PollPollerInv, Poll!Next \/ UNCHANGED pollVars
  PROVE  Poll!PollPollerInv'
<1>1. CASE \E c \in Channels : Poll!remove_channel(c)
    BY <1>1, PollRemoveChannelInv
<1>2. CASE \E c \in Channels, E \in SUBSET Events : Poll!update_channel(c, E)
    BY <1>2, AddEntryInv, ChangeEntryInv, Zenon DEF Poll!update_channel
<1>3. CASE UNCHANGED pollVars
    BY <1>3 DEF pollVars, Poll!PollPollerInv, Poll!TypeOK, Poll!IndexInv, Poll!EventsInv, Poll!Entry
<1> QED
    BY <1>1, <1>2, <1>3 DEF Poll!Next

\* The kernel watches every channel for what the channel is concerned with.
LEMMA WatchedAsConcerned == Poll!PollPollerInv => Poll!watched = poll_concerned
<1> SUFFICES ASSUME Poll!PollPollerInv PROVE Poll!watched = poll_concerned
    OBVIOUS
<1>1. ASSUME NEW c \in Channels PROVE Poll!watched[c] = poll_concerned[c]
  <2>1. CASE c \in poll_map
    <3>1. poll_idx[c] \in DOMAIN pollfds_ /\ pollfds_[poll_idx[c]].fd = c
        BY <2>1 DEF Poll!PollPollerInv, Poll!IndexInv
    <3>2. pollfds_[poll_idx[c]].events = poll_concerned[c]
        BY <3>1 DEF Poll!PollPollerInv, Poll!EventsInv
    <3> QED
        BY <2>1, <3>2 DEF Poll!watched
  <2>2. CASE c \notin poll_map
      BY <2>2 DEF Poll!PollPollerInv, Poll!IndexInv, Poll!watched
  <2> QED
      BY <2>1, <2>2
<1> QED
    BY <1>1 DEF Poll!PollPollerInv, Poll!TypeOK, Poll!watched

\* Every step of PollPoller is a step of Poller: the kernel watches each
\* channel for what it last asked for.
LEMMA PollNextRefines ==
  ASSUME Poll!PollPollerInv, Poll!PollPollerInv', Poll!Next \/ UNCHANGED pollVars
  PROVE  Poll!P!PNext \/ UNCHANGED <<poll_map, poll_concerned, Poll!watched>>
<1>1. Poll!watched = poll_concerned /\ (Poll!watched = poll_concerned)'
    BY WatchedAsConcerned, PTL
<1>2. CASE \E c \in Channels : Poll!remove_channel(c)
    BY <1>1, <1>2 DEF Poll!remove_channel, Poll!P!PNext, Poll!P!Remove
<1>3. ASSUME NEW c \in Channels, NEW E \in SUBSET Events, Poll!update_channel(c, E)
      PROVE  Poll!P!PNext
  <2>1. poll_map' = poll_map \cup {c}
      BY <1>3 DEF Poll!update_channel, Poll!AddEntry, Poll!ChangeEntry, Poll!PollPollerInv, Poll!IndexInv
  <2> QED
      BY <2>1, <1>1, <1>3, Zenon DEF Poll!update_channel, Poll!P!PNext, Poll!P!Update
<1>4. CASE UNCHANGED pollVars
    BY <1>1, <1>4 DEF pollVars
<1> QED
    BY <1>2, <1>3, <1>4 DEF Poll!Next

(***************************************************************************)
(* EPollPoller.                                                            *)
(***************************************************************************)

\* The constructor's state.
LEMMA InitInv == Init => EPollPollerInv
<1> SUFFICES ASSUME Init PROVE EPollPollerInv
    OBVIOUS
<1>1. TypeOK
    BY EPollPollerAssumption, Zenon DEF Init, TypeOK
<1>2. /\ ~failed /\ epoll.list = {} /\ m_channel_map = {} /\ epoll.events = m_concerned_events
      /\ \A c \in Channels : m_idx[c] = "kNew" /\ m_concerned_events[c] = {}
    BY DEF Init
<1>3. EPollInv
    BY <1>2 DEF EPollInv
<1> QED
    BY <1>1, <1>3 DEF EPollPollerInv

\* epoll_ctl changes the interest list to what was asked for, and fails only
\* on a list that does not agree with the operation.
LEMMA UpdateFacts ==
  ASSUME EPollPollerInv, NEW op, NEW c \in Channels, NEW E \in SUBSET Events, update(op, c, E),
         op = "ADD" <=> c \notin epoll.list
  PROVE  /\ ~failed'
         /\ epoll' \in [list : SUBSET Channels, events : [Channels -> SUBSET Events]]
         /\ epoll'.list = IF op = "DEL" THEN epoll.list \ {c} ELSE epoll.list \cup {c}
         /\ epoll'.events = [epoll.events EXCEPT ![c] = E]
  BY DEF update, EPollPollerInv, TypeOK, EPollInv

\* update_channel keeps the state of the channel in step with the kernel.
LEMMA UpdateChannelInv ==
  ASSUME EPollPollerInv, NEW c \in Channels, NEW E \in SUBSET Events, update_channel(c, E)
  PROVE  EPollPollerInv'
<1>1. m_concerned_events' = [m_concerned_events EXCEPT ![c] = E] /\ m_events_list' = m_events_list
    BY DEF update_channel
<1>2. CASE AddChannel(c, E)
  <2>1. c \notin epoll.list
      BY <1>2 DEF AddChannel, EPollPollerInv, EPollInv
  <2>2. update("ADD", c, E) /\ m_idx' = [m_idx EXCEPT ![c] = "kAdded"]
        /\ m_channel_map' = m_channel_map \cup {c}
      BY <1>2 DEF AddChannel
  <2>3. /\ ~failed'
        /\ epoll' \in [list : SUBSET Channels, events : [Channels -> SUBSET Events]]
        /\ epoll'.list = epoll.list \cup {c}
        /\ epoll'.events = [epoll.events EXCEPT ![c] = E]
      BY <2>1, <2>2, UpdateFacts, Zenon
  <2>4. failed' \in BOOLEAN
      BY <2>2 DEF update
  <2> QED
      BY <1>1, <2>2, <2>3, <2>4 DEF EPollPollerInv, TypeOK, EPollInv
<1>3. CASE ModifyChannel(c, E)
  <2> DEFINE op == IF E = {} THEN "DEL" ELSE "MOD"
  <2>1. c \in epoll.list /\ c \in m_channel_map
      BY <1>3 DEF ModifyChannel, EPollPollerInv, EPollInv
  <2>2. update(op, c, E) /\ m_channel_map' = m_channel_map
        /\ m_idx' = [m_idx EXCEPT ![c] = IF E = {} THEN "kDeleted" ELSE "kAdded"]
      BY <1>3 DEF ModifyChannel
  <2>3. /\ ~failed'
        /\ epoll' \in [list : SUBSET Channels, events : [Channels -> SUBSET Events]]
        /\ epoll'.list = IF op = "DEL" THEN epoll.list \ {c} ELSE epoll.list \cup {c}
        /\ epoll'.events = [epoll.events EXCEPT ![c] = E]
    <3>1. op = "ADD" <=> c \notin epoll.list
        BY <2>1
    <3>2. op \in {"DEL", "MOD"}
        OBVIOUS
    <3> HIDE DEF op
    <3> QED
        BY <3>1, <3>2, <2>2, UpdateFacts, Zenon
  <2>4. failed' \in BOOLEAN
      BY <2>2 DEF update
  <2>5. (op = "DEL") = (E = {})
      OBVIOUS
  <2> QED
      BY <1>1, <2>1, <2>2, <2>3, <2>4, <2>5 DEF EPollPollerInv, TypeOK, EPollInv
<1> QED
    BY <1>2, <1>3 DEF update_channel

\* remove_channel takes the channel out of epoll only if it is there.
LEMMA RemoveChannelInv ==
  ASSUME EPollPollerInv, NEW c \in Channels, remove_channel(c)
  PROVE  EPollPollerInv'
<1>1. /\ m_channel_map' = m_channel_map \ {c}
      /\ m_concerned_events[c] = {}
      /\ m_idx' = [m_idx EXCEPT ![c] = "kNew"]
      /\ m_concerned_events' = m_concerned_events
      /\ m_events_list' = m_events_list
    BY DEF remove_channel
<1>2. CASE m_idx[c] = "kAdded"
  <2>1. c \in epoll.list /\ update("DEL", c, {})
      BY <1>2 DEF remove_channel, EPollPollerInv, EPollInv
  <2>2. /\ ~failed'
        /\ epoll' \in [list : SUBSET Channels, events : [Channels -> SUBSET Events]]
        /\ epoll'.list = epoll.list \ {c}
        /\ epoll'.events = [epoll.events EXCEPT ![c] = {}]
    <3>1. {} \in SUBSET Events /\ ("DEL" = "ADD" <=> c \notin epoll.list)
        BY <2>1
    <3> QED
        BY <3>1, <2>1, UpdateFacts, Zenon
  <2>3. failed' \in BOOLEAN
      BY <2>1 DEF update
  <2> QED
      BY <1>1, <2>2, <2>3 DEF EPollPollerInv, TypeOK, EPollInv
<1>3. CASE m_idx[c] # "kAdded"
    BY <1>1, <1>3 DEF remove_channel, EPollPollerInv, TypeOK, EPollInv
<1> QED
    BY <1>2, <1>3

\* Every step of EPollPoller keeps the channels' states and the kernel in step.
LEMMA NextInv ==
  ASSUME EPollPollerInv, Next \/ UNCHANGED vars
  PROVE  EPollPollerInv'
<1>1. CASE \E c \in Channels : remove_channel(c)
    BY <1>1, RemoveChannelInv
<1>2. CASE \E c \in Channels, E \in SUBSET Events : update_channel(c, E)
    BY <1>2, UpdateChannelInv
<1>3. CASE poll
    BY <1>3 DEF poll, Grow, EPollPollerInv, TypeOK, EPollInv
<1>4. CASE UNCHANGED vars
    BY <1>4 DEF vars, EPollPollerInv, TypeOK, EPollInv
<1> QED
    BY <1>1, <1>2, <1>3, <1>4 DEF Next

\* The list of events is doubled only when it was full of events of different
\* channels.
LEMMA NextBounded ==
  ASSUME EPollPollerInv, EventListBounded, Next \/ UNCHANGED vars
  PROVE  EventListBounded'
<1>1. Cardinality(epoll.list) \in Nat /\ Cardinality(Channels) \in Nat
      /\ Cardinality(epoll.list) <= Cardinality(Channels)
  <2>1. IsFiniteSet(Channels) /\ epoll.list \in SUBSET Channels
      BY EPollPollerAssumption DEF EPollPollerInv, TypeOK
  <2>2. IsFiniteSet(epoll.list) /\ Cardinality(epoll.list) <= Cardinality(Channels)
      BY <2>1, FS_Subset, Zenon
  <2> QED
      BY <2>1, <2>2, FS_CardinalityType, Zenon
<1>2. CASE poll
  <2>1. PICK n \in 0..m_events_list : n <= Cardinality(epoll.list) /\ m_events_list' = Grow(n)
      BY <1>2 DEF poll
  <2>2. m_events_list \in Nat
      BY DEF EPollPollerInv, TypeOK
  <2> QED
      BY <1>1, <2>1, <2>2 DEF Grow, EventListBounded
<1>3. CASE ~poll
  <2>1. m_events_list' = m_events_list
      BY <1>3 DEF Next, remove_channel, update_channel, vars
  <2> QED
      BY <2>1 DEF EventListBounded
<1> QED
    BY <1>2, <1>3

\* Every step of EPollPoller is a step of Poller or leaves it alone.
LEMMA NextRefines ==
  ASSUME EPollPollerInv, EPollPollerInv', Next \/ UNCHANGED vars
  PROVE  P!PNext \/ UNCHANGED <<m_channel_map, m_concerned_events, epoll.events>>
<1>1. epoll.events = m_concerned_events /\ epoll'.events = m_concerned_events'
    BY DEF EPollPollerInv, EPollInv
<1>2. CASE \E c \in Channels : remove_channel(c)
    BY <1>1, <1>2 DEF remove_channel, P!PNext, P!Remove
<1>3. ASSUME NEW c \in Channels, NEW E \in SUBSET Events, update_channel(c, E)
      PROVE  P!PNext
  <2>1. m_channel_map' = m_channel_map \cup {c}
      BY <1>3 DEF update_channel, AddChannel, ModifyChannel, EPollPollerInv, EPollInv
  <2> QED
      BY <2>1, <1>1, <1>3, Zenon DEF update_channel, P!PNext, P!Update
<1>4. CASE poll \/ UNCHANGED vars
    BY <1>4 DEF poll, vars
<1> QED
    BY <1>2, <1>3, <1>4 DEF Next

(***************************************************************************)
(* The poller that a Reactor gets.                                         *)
(***************************************************************************)

\* A step of whichever poller was chosen is a step of each or leaves it alone.
LEMMA DefaultStep ==
  ASSUME [UsePoll \/ UseEPoll]_<<use_poll, vars, pollVars>>
  PROVE  (Poll!Next \/ UNCHANGED pollVars) /\ (Next \/ UNCHANGED vars)
  BY Zenon DEF UsePoll, UseEPoll

\* The bookkeeping of the chosen poller is right in every reachable state: the
\* pollfds and their indices, or the channels' states and the kernel's list;
\* no epoll_ctl fails, and the list of events stays bounded.
THEOREM PollersInvariance == DefaultSpec => []PollersInv
<1>1. DefaultInit => PollersInv
  <2> SUFFICES ASSUME DefaultInit PROVE PollersInv
      OBVIOUS
  <2>1. Poll!PollPollerInv /\ EPollPollerInv
      BY PollInitInv, InitInv DEF DefaultInit
  <2>2. EventListBounded
      BY EPollPollerAssumption DEF DefaultInit, Init, EventListBounded
  <2> QED
      BY <2>1, <2>2 DEF PollersInv, PollPollerInv
<1>2. PollersInv /\ [UsePoll \/ UseEPoll]_<<use_poll, vars, pollVars>> => PollersInv'
  <2> SUFFICES ASSUME PollersInv, [UsePoll \/ UseEPoll]_<<use_poll, vars, pollVars>> PROVE PollersInv'
      OBVIOUS
  <2>1. (Poll!Next \/ UNCHANGED pollVars) /\ (Next \/ UNCHANGED vars)
      BY DefaultStep
  <2>2. Poll!PollPollerInv /\ EPollPollerInv /\ EventListBounded
      BY DEF PollersInv, PollPollerInv
  <2>3. Poll!PollPollerInv'
      BY <2>1, <2>2, PollNextInv
  <2>4. EPollPollerInv' /\ EventListBounded'
      BY <2>1, <2>2, NextInv, NextBounded
  <2> QED
      BY <2>3, <2>4 DEF PollersInv, PollPollerInv
<1> QED
    BY <1>1, <1>2, PTL DEF DefaultSpec

\* The pollfds implement Poller: poll(2) is asked for exactly what each channel
\* last wanted.
THEOREM PollPollerRefinement == DefaultSpec => PollImplementsPoller
<1>1. DefaultInit => Poll!P!PInit
    BY DEF DefaultInit, Poll!Init, Poll!P!PInit, Poll!watched
<1>2. PollersInv /\ PollersInv' /\ [UsePoll \/ UseEPoll]_<<use_poll, vars, pollVars>>
        => [Poll!P!PNext]_<<poll_map, poll_concerned, Poll!watched>>
  <2> SUFFICES ASSUME PollersInv, PollersInv', [UsePoll \/ UseEPoll]_<<use_poll, vars, pollVars>>
               PROVE  Poll!P!PNext \/ UNCHANGED <<poll_map, poll_concerned, Poll!watched>>
      OBVIOUS
  <2>1. Poll!PollPollerInv /\ Poll!PollPollerInv'
      BY DEF PollersInv, PollPollerInv
  <2> QED
      BY <2>1, DefaultStep, PollNextRefines
<1> QED
    BY <1>1, <1>2, PollersInvariance, PTL
       DEF DefaultSpec, PollImplementsPoller, Poll!ImplementsPoller, Poll!P!PSpec

\* The interest list of epoll implements Poller.
THEOREM EPollPollerRefinement == DefaultSpec => ImplementsPoller
<1>1. DefaultInit => P!PInit
    BY DEF DefaultInit, Init, P!PInit
<1>2. PollersInv /\ PollersInv' /\ [UsePoll \/ UseEPoll]_<<use_poll, vars, pollVars>>
        => [P!PNext]_<<m_channel_map, m_concerned_events, epoll.events>>
  <2> SUFFICES ASSUME PollersInv, PollersInv', [UsePoll \/ UseEPoll]_<<use_poll, vars, pollVars>>
               PROVE  P!PNext \/ UNCHANGED <<m_channel_map, m_concerned_events, epoll.events>>
      OBVIOUS
  <2>1. EPollPollerInv /\ EPollPollerInv'
      BY DEF PollersInv
  <2> QED
      BY <2>1, DefaultStep, NextRefines
<1> QED
    BY <1>1, <1>2, PollersInvariance, PTL DEF DefaultSpec, ImplementsPoller, P!PSpec
=============================================================================
