---------------------------- MODULE MCHttpServer ----------------------------
(***************************************************************************)
(* Instances of HttpServer for TLC.                                        *)
(***************************************************************************)
EXTENDS HttpServer, TLC

AllKinds == Request
Hostile == {"leave", "junk", "nofile", "signal"}
\* Connections are interchangeable.
Symmetry == Permutations(Conns)
=============================================================================
