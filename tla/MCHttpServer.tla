---------------------------- MODULE MCHttpServer ----------------------------
(* HttpServer for TLC: the connections and threads of the run. *)
EXTENDS HttpServer

CONSTANTS a1, a2, a3, t1, t2

TwoClients == {a1, a2}
ThreeClients == {a1, a2, a3}
TwoWorkers == {t1, t2}
=============================================================================
