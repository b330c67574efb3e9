---------------------------- MODULE MCTcpSocket ----------------------------
(* TcpSocket with the model values of its TLC runs.                        *)
EXTENDS TcpSocket

Limits == {0, 1, 3}
=============================================================================
