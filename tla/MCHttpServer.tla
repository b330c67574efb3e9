---------------------------- MODULE MCHttpServer ----------------------------
(* HttpServer with the model values of its TLC runs.                       *)
EXTENDS HttpServer

RequestLengths == {-1, 0, 2}
=============================================================================
