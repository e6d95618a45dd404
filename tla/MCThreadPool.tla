---------------------------- MODULE MCThreadPool ----------------------------
(* ThreadPool on a small instance: two threads, three handlers. *)
EXTENDS ThreadPool
CONSTANTS w1, w2, h1, h2, h3, none
TwoWorkers == {w1, w2}
ThreeHandlers == {h1, h2, h3}
=============================================================================
