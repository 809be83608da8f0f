-------------------------- MODULE MCStoredGraphs --------------------------
(***************************************************************************)
(* A chain and a cycle of subclasses longer than the depth limit, a type,  *)
(* a domain, a range and a subproperty to infer from, a blank class, a     *)
(* literal, two graphs; and graphs of blank nodes that are hard to tell    *)
(* apart.                                                                  *)
(***************************************************************************)
EXTENDS GraphIdentity

MCIri == {"a", "b", "c", "d", "x", "p", "q", "type", "sub", "subp", "dom", "range", "same"}
MCBlank == {"_n", "n1", "n2", "n3", "n4", "m1", "m2", "m3", "m4"}
MCLiteral == {"l"}
MCGraph == {0, 1}
MCTermOrder == <<"a", "b", "c", "d", "dom", "l", "p", "q", "range", "same", "sub", "subp", "type", "x">>
\* A cycle of four and two cycles of two, which hash alike node by node; three
\* nodes around a fourth; nodes of one shape among ground triples.
In(g, T) == {<<t, g>> : t \in T}
Cycles == In(0, {<<"n1", "p", "n2">>, <<"n2", "p", "n3">>, <<"n3", "p", "n4">>, <<"n4", "p", "n1">>}) \cup
          In(1, {<<"m1", "p", "m2">>, <<"m2", "p", "m1">>, <<"m4", "p", "m3">>, <<"m3", "p", "m4">>})
Stars == In(0, {<<"n4", "p", "n1">>, <<"n4", "p", "n2">>, <<"n4", "p", "n3">>, <<"n1", "q", "n2">>}) \cup
         In(1, {<<"m1", "p", "m2">>, <<"m1", "p", "m3">>, <<"m1", "p", "m4">>, <<"m3", "q", "m2">>})
Knots == In(0, {<<"n1", "p", "n2">>, <<"n1", "p", "n3">>, <<"n2", "p", "n3">>,
                <<"n3", "p", "n4">>, <<"n4", "p", "n1">>, <<"n4", "p", "n2">>}) \cup
         In(1, {<<"m2", "p", "m3">>, <<"m2", "p", "m4">>, <<"m3", "p", "m4">>,
                <<"m4", "p", "m1">>, <<"m1", "p", "m2">>, <<"m1", "p", "m3">>})
Twins == In(0, {<<"a", "p", "l">>, <<"n1", "type", "b">>, <<"n2", "type", "b">>, <<"n3", "p", "n3">>}) \cup
         In(1, {<<"a", "p", "l">>, <<"m1", "type", "b">>, <<"m2", "type", "b">>, <<"m2", "p", "m2">>,
                <<"n3", "p", "n3">>})
MCStored == {{}, Cycles, Stars, Knots, Twins}
MCNarrows == {[predicate |-> "p", class |-> ""], [predicate |-> "", class |-> "b"]}
MCInsertable == {<<<<"a", "sub", "b">>, 0>>} \cup
    {<<t, 1>> : t \in {<<"a", "sub", "b">>, <<"b", "sub", "c">>, <<"c", "sub", "d">>, <<"c", "sub", "a">>,
                       <<"_n", "sub", "a">>, <<"x", "type", "a">>, <<"x", "p", "l">>, <<"p", "dom", "a">>,
                       <<"q", "range", "b">>, <<"p", "subp", "q">>, <<"x", "p", "b">>}}
Sub == Pred("sub")
MCPaths == {Plus(Sub), Star(Sub), Plus(Inv(Sub)), Inv(Star(Sub)), Opt(Pred("p")), Inv(Pred("p")),
            Plus(Alt(Sub, Pred("p"))), Alt(Pred("p"), Pred("type")), Alt(Sub, Inv(Sub)),
            Plus(Seq2(Sub, Sub))}
MCEnds == {<<Free, Free>>, <<Const("a"), Free>>, <<Free, Const("c")>>, <<Joined("b"), Free>>,
           <<Free, Joined("a")>>, <<Const("b"), Const("d")>>, <<Joined("a"), Joined("a")>>}
=============================================================================
