-------------------------- MODULE MCHttpConnection --------------------------
(* HttpConnection with the model values of its TLC runs.                   *)
EXTENDS HttpConnection

ResponseLengths == {-1, 0, 2}
=============================================================================
