------------------------------ MODULE MC_Worker ------------------------------
(* Two sends and a receipt, one replaced client, one lost connection.         *)
EXTENDS SocketWorker
MC_Requests == 1..3
MC_Sends == {1, 2}
=============================================================================
