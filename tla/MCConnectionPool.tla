-------------------------- MODULE MCConnectionPool --------------------------
(* ConnectionPool on a small instance: two threads, two connections. *)
EXTENDS ConnectionPool
CONSTANTS w1, w2, h1, h2, none
TwoWorkers == {w1, w2}
TwoHandlers == {h1, h2}
OneSlow == {h1}
=============================================================================
