---- MODULE MCTcpServer ----
(* A server with a pool of none to three reactors. *)
EXTENDS TcpServer
====
