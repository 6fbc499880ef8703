---------------------------- MODULE MCHttpServer ----------------------------
(* Small instances of HttpServer.                                          *)
EXTENDS HttpServer, TLC
CONSTANTS a1, c1, c2, c3, s1

=============================================================================
