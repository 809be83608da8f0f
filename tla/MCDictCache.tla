---------------------------- MODULE MCDictCache ----------------------------
(***************************************************************************)
(* Instances of DictCache for TLC: two sessions of one database, and two    *)
(* sessions of two databases with a cache too small for their terms.        *)
(***************************************************************************)
EXTENDS DictCache, TLC

CONSTANTS b1, b2, dbA, dbB

OneDatabase  == b1 :> dbA @@ b2 :> dbA
TwoDatabases == b1 :> dbA @@ b2 :> dbB

\* Every fingerprint hashes to the first slot: probe streaks always overlap.
Collide == [fp \in Database \X Term |-> 0]

Sessions == Permutations({b1, b2})
Keys == Permutations(Term)
=============================================================================
