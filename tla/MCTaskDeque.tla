---- MODULE MCTaskDeque ----
(* Two producers and two consumers, on a deque with room for one task. *)
EXTENDS TaskDeque
====
