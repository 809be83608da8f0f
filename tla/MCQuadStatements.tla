-------------------------- MODULE MCQuadStatements --------------------------
(* Two sessions, one named graph next to the default one, two triples.     *)
EXTENDS QuadStatements, TLC

CONSTANTS s1, s2, n1, a, b

MCSymmetry == Permutations({s1, s2})
MCEntails == {<<a, b>>}
MCAppended == {<<n1, a>>}
MCMaterialized == {n1}
MCUpdates == {
    <<[do |-> "insertData", g |-> n1, t |-> b],
      [do |-> "deleteData", g |-> n1, t |-> a]>>,
    \* DELETE { ?x } INSERT { its other } WHERE { ?x }
    <<[do |-> "modify", g |-> n1, where |-> Triple,
       del |-> [t \in Triple |-> {t}], ins |-> [t \in Triple |-> Triple \ {t}]]>>,
    <<[do |-> "drop", of |-> "all", g |-> 0, silent |-> FALSE]>>,
    <<[do |-> "create", g |-> n1, silent |-> FALSE]>>,
    <<[do |-> "clear", of |-> "graph", g |-> n1, silent |-> TRUE]>>}
=============================================================================
