-------------------------- MODULE MCGraphCatalog --------------------------
(* Bounds for GraphCatalog: the sessions are interchangeable. *)
EXTENDS GraphCatalog, TLC

Sessions == Permutations(Session)
=============================================================================
