------------------------- MODULE MCConnectionThread -------------------------
(* ConnectionThread on a small instance: two connections. *)
EXTENDS ConnectionThread
CONSTANTS h1, h2
TwoHandlers == {h1, h2}
=============================================================================
