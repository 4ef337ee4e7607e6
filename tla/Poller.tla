------------------------------- MODULE Poller -------------------------------
(***************************************************************************)
(* What a Poller promises its Reactor (net/Poller.h): it knows a set of    *)
(* channels, and the kernel watches each of them for exactly the events    *)
(* the channel last asked for.                                             *)
(***************************************************************************)
CONSTANTS Channels, Events

VARIABLES known,     \* the channels in m_channel_map
          asked,     \* asked[c]: the events c is concerned with
          watched    \* watched[c]: the events the kernel watches c for

PInit ==
  /\ known = {}
  /\ asked = [c \in Channels |-> {}]
  /\ watched = [c \in Channels |-> {}]

\* update_channel: c is concerned with the events E from now on.
Update(c, E) ==
  /\ known' = known \cup {c}
  /\ asked' = [asked EXCEPT ![c] = E]
  /\ watched' = [watched EXCEPT ![c] = E]

\* remove_channel of a channel that no longer wants events and gets none
Remove(c) ==
  /\ c \in known
  /\ asked[c] = {} /\ watched[c] = {}
  /\ known' = known \ {c}
  /\ UNCHANGED <<asked, watched>>

PNext == \E c \in Channels : Remove(c) \/ \E E \in SUBSET Events : Update(c, E)

PSpec == PInit /\ [][PNext]_<<known, asked, watched>>
=============================================================================
