------------------------- MODULE MCTcpConnection -------------------------
(* Instances of TcpConnection for TLC: the programs of each run. *)
EXTENDS TcpConnection

Program(reactor_ops, caller_ops) ==
  [single |-> FALSE, server_dies |-> FALSE, checks |-> TRUE,
   reactor_ops |-> reactor_ops, caller_ops |-> caller_ops]

\* A connection on a pool reactor with a thread that sends, one on the
\* acceptor's reactor, and one whose server may be destroyed.
Safety ==
  {Program({"send", "file", "shutdown", "force_close", "force_close_delay"}, {"send"}),
   [Program({"send", "shutdown", "force_close", "force_close_delay"}, {})
      EXCEPT !.single = TRUE],
   [Program({"send"}, {}) EXCEPT !.server_dies = TRUE]}

OnReactorThread ==
  {Program({"send", "shutdown", "shutdown_after", "force_close", "force_close_delay",
            "start_read", "stop_read"}, {})}

SendsDuringFile == {Program({"send", "file"}, {})}
=============================================================================
