---- MODULE MCAsyncLogging ----
(* Enough lines to fill more than two buffers behind the one being written. *)
EXTENDS AsyncLogging
====
