---------------------------- MODULE DictContract ----------------------------
(***************************************************************************)
(* What the dictionary and its cache promise their callers: the cache is a *)
(* partial view of the rows in force.  It may learn a mapping only if the  *)
(* row is committed, may forget anything at any moment, and must know      *)
(* nothing of a database whose dictionary is replaced.                     *)
(***************************************************************************)
EXTENDS Naturals

CONSTANTS Database, Term

VARIABLES rows,   \* the <<term, id>> rows in force in each database
          known   \* the <<<<database, term>>, id>> mappings the cache answers

Names(k) == <<k[1][2], k[2]>> \in rows[k[1][1]]

Init == rows = [d \in Database |-> {}] /\ known = {}

OnlyChanges(d) == \A e \in Database \ {d} : rows'[e] = rows[e]

\* A transaction commits new rows.
Grow(d) ==
    /\ rows[d] \subseteq rows'[d]
    /\ OnlyChanges(d)
    /\ UNCHANGED known

\* A re-created extension takes over with a dictionary of its own.
Replace(d) ==
    /\ \A k \in known : k[1][1] # d
    /\ OnlyChanges(d)
    /\ UNCHANGED known

\* A mapping is published, displaced by another, or forgotten.
Learn ==
    /\ \A k \in known' \ known : Names(k)
    /\ UNCHANGED rows

Next == Learn \/ \E d \in Database : Grow(d) \/ Replace(d)

Spec == Init /\ [][Next]_<<rows, known>>

\* Whatever the cache answers names a row in force.
KnownIsTrue == \A k \in known : Names(k)
=============================================================================
