----------------------------- MODULE MCPollers -----------------------------
(* Instance of DefaultPoller, and through it of both pollers, for TLC. *)
EXTENDS DefaultPoller
=============================================================================
