---------------------------- MODULE DefaultPoller ----------------------------
(***************************************************************************)
(* The choice a Reactor makes of its Poller (net/poller/DefaultPoller.cc): *)
(* poll(2) if FLUTE_USE_POLL is in the environment, else epoll(7).  The    *)
(* poller that is not chosen is never constructed: its variables keep the  *)
(* values of an empty poller.                                              *)
(***************************************************************************)
EXTENDS EPollPoller, Sequences

VARIABLES use_poll,        \* FLUTE_USE_POLL
          poll_map,        \* m_channel_map of the PollPoller
          poll_concerned,  \* m_concerned_events of its channels
          poll_idx,        \* m_idx of its channels
          pollfds_

pollVars == <<poll_map, poll_concerned, poll_idx, pollfds_>>

Poll == INSTANCE PollPoller WITH
          m_channel_map <- poll_map, m_concerned_events <- poll_concerned, m_idx <- poll_idx

DefaultInit == use_poll \in BOOLEAN /\ Init /\ Poll!Init

UsePoll  == use_poll /\ Poll!Next /\ UNCHANGED <<use_poll, vars>>
UseEPoll == ~use_poll /\ Next /\ UNCHANGED <<use_poll, pollVars>>

DefaultSpec == DefaultInit /\ [][UsePoll \/ UseEPoll]_<<use_poll, vars, pollVars>>

(***************************************************************************)
(* Properties of the PollPoller; those of the EPollPoller keep their names *)
(***************************************************************************)

\* The invariant of PollPoller.tla: every channel's index is that of its own
\* pollfd, whatever the swaps of remove_channel did.
PollPollerInv == Poll!PollPollerInv

\* The pollfds implement the interests the Reactor asked for.
PollImplementsPoller == Poll!ImplementsPoller

\* The bookkeeping of whichever poller runs is right: indices and pollfds, or
\* channel states and the kernel's list; and the list that epoll_wait fills
\* does not outgrow the channels.
PollersInv == PollPollerInv /\ EPollPollerInv /\ EventListBounded
=============================================================================
