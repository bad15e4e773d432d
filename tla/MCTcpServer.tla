----------------------------- MODULE MCTcpServer -----------------------------
(* Small instances of TcpServer for TLC. *)
EXTENDS TcpServer

CONSTANTS c, d, j, k     \* model values: two connections and two calling threads
=============================================================================
