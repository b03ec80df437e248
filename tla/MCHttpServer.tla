---------------------------- MODULE MCHttpServer ----------------------------
(* Small instances of HttpServer. *)
EXTENDS HttpServer

CONSTANTS b1, b2
=============================================================================
