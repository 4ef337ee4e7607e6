----------------------------- MODULE TaskQueue -----------------------------
(***************************************************************************)
(* What a reactor promises to the code that hands it work: one thread runs *)
(* callbacks one at a time, queued tasks start in the order in which they  *)
(* were queued, each of them once, and only between two callbacks.  A      *)
(* callback may run another task as a nested call.                         *)
(*                                                                         *)
(* Nothing of the wakeup protocol is visible here; module Reactor is shown *)
(* to implement this specification.                                        *)
(***************************************************************************)
EXTENDS Naturals, Sequences

CONSTANTS Tasks,        \* the task objects
          Channels      \* the channels whose callbacks the thread runs

VARIABLES queue,        \* tasks waiting to start, oldest first
          stack         \* the calls the thread is executing, innermost last

tqvars == <<queue, stack>>

TQInit ==
  /\ queue = <<>>
  /\ stack = <<>>

\* Any thread hands over a task.
Submit(t) ==
  /\ queue' = Append(queue, t)
  /\ UNCHANGED stack

\* The thread starts the oldest task; no other callback is in progress.
StartOldest ==
  /\ stack = <<>>
  /\ queue # <<>>
  /\ stack' = <<Head(queue)>>
  /\ queue' = Tail(queue)

\* The thread runs the callback of a channel.
StartEvent(ch) ==
  /\ stack = <<>>
  /\ stack' = <<ch>>
  /\ UNCHANGED queue

\* A task submitted by the thread to itself may run as a nested call.
RunNested(t) ==
  /\ stack' = Append(stack, t)
  /\ UNCHANGED queue

\* The innermost call returns.
Finish ==
  /\ stack # <<>>
  /\ stack' = SubSeq(stack, 1, Len(stack) - 1)
  /\ UNCHANGED queue

TQNext ==
  \/ \E t \in Tasks : Submit(t) \/ RunNested(t)
  \/ \E ch \in Channels : StartEvent(ch)
  \/ StartOldest
  \/ Finish

TQSpec == TQInit /\ [][TQNext]_tqvars
=============================================================================
