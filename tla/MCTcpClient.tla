---- MODULE MCTcpClient ----
(* A client that is connected, disconnected, stopped and connected again, *)
(* to a server that comes and goes.                                       *)
EXTENDS TcpClient
====
