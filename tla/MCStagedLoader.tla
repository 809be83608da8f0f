-------------------------- MODULE MCStagedLoader --------------------------
(***************************************************************************)
(* Instances of StagedLoader for TLC: two loads of two databases that share *)
(* the job table, and two loads of one database.                            *)
(***************************************************************************)
EXTENDS StagedLoader, TLC

CONSTANTS c1, c2, dbA, dbB, a, b, val, uniq

OneDatabase  == [c \in Coordinator |-> dbA]
TwoDatabases == c1 :> dbA @@ c2 :> dbB

\* Two lines that share their subject; and one line twice.
TwoLines == <<<<a, b, a>>, <<a, b, b>>>>
OneLine  == <<<<b, b, b>>>>
Short == {TwoLines}
Both  == {TwoLines, OneLine}
=============================================================================
