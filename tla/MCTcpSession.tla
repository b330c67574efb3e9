---------------------------- MODULE MCTcpSession ----------------------------
(* Small instances of TcpSession.                                          *)
EXTENDS TcpSession

\* Every stream of four bytes.
FourBytes == [1 .. 4 -> {"x", "cr", "lf"}]
=============================================================================
