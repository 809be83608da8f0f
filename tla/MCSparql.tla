------------------------------ MODULE MCSparql ------------------------------
\* Small instances of SparqlTranslation: two named graphs, patterns of up to
\* three operators, and the solution modifiers, CONSTRUCTs, DESCRIBEs and
\* updates over a few of them.
EXTENDS UpdateWhere

MCVar     == {"x", "y", "z", "w", "g"}
MCNumeral == {"n1", "n2"}
MCBlank   == {"b1_1", "b2_1", "b3_1"}
MCText    == {"s2"}
MCTerm    == {"a", "b", "p", "q", "i1", "i2"} \cup MCNumeral \cup MCBlank \cup MCText
MCValueOf == ("n1" :> 2) @@ ("n2" :> 10)
MCIriOf   == (1 :> "i1") @@ (2 :> "i2")
\* The numbers are in the other order byte by byte.
MCLex     == [t \in MCTerm |-> CASE t = "n1" -> "2" [] t = "n2" -> "10" [] t = "s2" -> "2" [] OTHER -> t]
MCLexRank == ("10" :> 1) @@ ("2" :> 2) @@ ("a" :> 3) @@ ("b" :> 4) @@ ("i1" :> 5)
             @@ ("i2" :> 6) @@ ("p" :> 7) @@ ("q" :> 8)
             @@ ("b1_1" :> 9) @@ ("b2_1" :> 10) @@ ("b3_1" :> 11)

XpY == <<"x", "p", "y">>
YqZ == <<"y", "q", "z">>
XqZ == <<"x", "q", "z">>
ZpW == <<"z", "p", "w">>
Base  == {Bgp(<<XpY>>), Bgp(<<XqZ>>), Bgp(<<YqZ>>), Bgp(<<ZpW>>), Bgp(<<ZpW, XpY, YqZ>>)}
Small == {Bgp(<<XpY>>), Bgp(<<XqZ>>), Bgp(<<YqZ>>)}
Tests == {Less("y", "n2"), Not(IsBound("z")), Or(Eq("y", "z"), Less("y", "z"))}
Cells == {Values(<<"y">>, << <<"b">>, <<"n1">> >>), Values(<<"x", "y">>, << <<"a", Null>>, <<Null, "b">> >>),
          Values(<<"g">>, << <<"i1">> >>)}
Pairs(S, T) ==
    UNION {{Join(l, r), Union(l, r), Minus(l, r), LeftJoin(l, r, Always)} : <<l, r>> \in S \X T}
One(S) ==
    {Filter(e, i) : e \in Tests, i \in S} \cup {GraphOf(n, i) : n \in {"g", "i1"}, i \in S}
    \cup {Extend(i, "w", x) : i \in S, x \in {"y", "a"}} \cup {Join(i, v) : i \in S, v \in Cells}
    \cup {LeftJoin(l, r, Less("y", "z")) : <<l, r>> \in S \X Small}
Patterns1 == Base \cup Pairs(Base, Base) \cup One(Base)
Patterns2 == One(Pairs(Small, Small)) \cup Pairs(One(Small), Small) \cup Pairs(Pairs(Small, Small), Small)
             \cup Pairs(Small, One(Small)) \cup Pairs(Small, Pairs(Small, Small))

Plain(p, select) ==
    [form |-> "select", p |-> p, select |-> select, distinct |-> FALSE, order |-> <<>>, limit |-> -1,
     offset |-> 0, group |-> <<>>, aggs |-> <<>>, having |-> <<>>]
Agg(out, fn, distinct, v) == [out |-> out, fn |-> fn, distinct |-> distinct, v |-> v]
\* The modifiers, on a few patterns.
Few == {Bgp(<<XpY>>), Bgp(<<XqZ>>), LeftJoin(Bgp(<<XpY>>), Bgp(<<YqZ>>), Always),
        Union(Bgp(<<XpY>>), Bgp(<<XqZ>>)), GraphOf("g", Bgp(<<XqZ>>)),
        Minus(Bgp(<<XqZ>>), Bgp(<<XpY>>))}
Modified(p) ==
    UNION {LET q == Plain(p, Listed(Visible(p) \ {v})) IN {
       [q EXCEPT !.form = "ask"], [q EXCEPT !.distinct = TRUE], [q EXCEPT !.distinct = TRUE, !.limit = 1]} :
       v \in Visible(p)}
    \cup UNION {LET q == [Plain(p, Listed(Visible(p) \ {u})) EXCEPT !.order = <<[v |-> v, asc |-> asc]>>] IN {
       q, [q EXCEPT !.limit = 1], [q EXCEPT !.offset = 1], [q EXCEPT !.offset = 1, !.limit = 1]} :
       v \in Visible(p), u \in Visible(p), asc \in BOOLEAN}
    \cup UNION {LET q == [Plain(p, <<v, "n">>) EXCEPT !.group = <<v>>] IN {
       [q EXCEPT !.aggs = <<a>>, !.having = h] :
           a \in {Agg("n", "count*", FALSE, u), Agg("n", "count", TRUE, u), Agg("n", "min", FALSE, u)},
           h \in {<<>>, <<[out |-> "n", is |-> "1"]>>}} : v \in Visible(p), u \in Visible(p)}
    \cup {[Plain(p, <<"n">>) EXCEPT !.aggs = <<Agg("n", fn, FALSE, v)>>] :
             fn \in {"sum", "count", "count*"}, v \in Visible(p)}
\* CONSTRUCT: constants, variables, labels, a copy of a graph, a group beside
\* a UNION; DESCRIBE of resources, of variables and in a graph.
All3 == <<"x", "y", "z">>
ConstructOf(p, template, limit) == [form |-> "construct", p |-> p, template |-> template, limit |-> limit, offset |-> 0]
Templates ==
    {<<<<"a", "p", "b">>>>, <<<<"x", "q", "_r">>, <<"_r", "p", "y">>>>, <<<<"_r", "p", "_t">>, <<"x", "q", "z">>>>,
     <<<<"x", "p", "y">>, <<"x", "p", "z">>>>, <<<<"a", "p", "_r">>, <<"a", "q", "w">>>>}
ConstructQueries ==
    {ConstructOf(p, t, -1) : p \in Few \cup {Extend(Bgp(<<XpY>>), "w", "y"), Join(Bgp(<<XpY>>), Union(Bgp(<<XqZ>>), Bgp(<<ZpW>>))),
                                            Bgp(<<All3>>), Bgp(<<<<"a", "p", "b">>>>)}, t \in Templates}
    \cup {ConstructOf(GraphOf("i1", Bgp(<<All3>>)), <<All3>>, -1), ConstructOf(Bgp(<<XpY>>), <<<<"x", "p", "y">>>>, 1),
          ConstructOf(Bgp(<<XpY>>), <<<<"a", "p", "b">>>>, 0)}
\* A CONSTRUCT of a UNION, and of something beside one.
UnionQueries ==
    {ConstructOf(p, <<<<"x", "p", "a">>>>, -1) : p \in {Union(Bgp(<<XpY>>), Bgp(<<XqZ>>)),
        Join(Bgp(<<XpY>>), Union(Bgp(<<XqZ>>), Bgp(<<ZpW>>))),
        Filter(Less("y", "n2"), Union(Bgp(<<XpY>>), Bgp(<<XqZ>>)))}}
DescribeOf(p, roots, V) == [form |-> "describe", p |-> p, roots |-> roots, vars |-> V]
DescribeQueries ==
    {DescribeOf(p, roots, V) : p \in {Bgp(<<XpY>>), GraphOf("i1", Bgp(<<XpY>>)), GraphOf("g", Bgp(<<XqZ>>)),
                                     LeftJoin(Bgp(<<XpY>>), Bgp(<<YqZ>>), Always), Union(Bgp(<<XpY>>), Bgp(<<XqZ>>))},
        roots \in {<<>>, <<"a">>, <<"b", "a">>}, V \in {{}, {"x"}, {"y", "z"}, {"g"}}}
\* Updates: a flip, a new value, a swap of subject and object, another graph, terms alone,
\* a template that an OPTIONAL may leave unbound, and what is refused; with
\* and without WITH <i1>.
UpdateOf(p, del, ins, with) == [form |-> "update", p |-> p, del |-> del, ins |-> ins, with |-> with]
Halves(n) == {
    << << <<"x", "p", "y", n>> >>, << <<"x", "q", "y", n>> >> >>, << << <<"x", "p", "y", n>> >>, << <<"y", "p", "x", n>> >> >>,
    << << <<"x", "p", "y", n>> >>, <<>> >>, << << <<"x", "p", "y", "b">> >>, << <<"x", "q", "y", "i2">> >> >>,
    << <<>>, << <<"a", "p", "b", n>>, <<"x", "p", "b", n>> >> >>, << << <<"a", "p", "z", n>> >>, << <<"x", "q", "z", n>> >> >>,
    << <<>>, << <<"x", "q", "_r", n>> >> >>, << << <<"x", "p", "y", "x">> >>, <<>> >>, << <<>>, << <<"n1", "p", "x", n>> >> >>,
    << <<>>, << <<"x", "p", "w", n>> >> >>, << << <<"x", "p", "y", n>> >>, << <<"x", "p", "b", n>> >> >> }
UpdatePatterns == {Bgp(<<XpY>>), Bgp(<<XqZ>>), LeftJoin(Bgp(<<XpY>>), Bgp(<<YqZ>>), Always),
    Union(Bgp(<<XpY>>), Bgp(<<XqZ>>)), Minus(Bgp(<<XpY>>), Bgp(<<XqZ>>)), GraphOf("i2", Bgp(<<XqZ>>)),
    Join(GraphOf("g", Bgp(<<XpY>>)), Bgp(<<YqZ>>)), Filter(Not(Less("y", "n2")), Bgp(<<XpY>>)),
    Extend(Bgp(<<XpY>>), "w", "y")}
UpdateQueries ==
    {UpdateOf(p, h[1], h[2], Null) : p \in UpdatePatterns, h \in Halves(Null)}
    \cup {UpdateOf(p, h[1], h[2], "i1") : p \in UpdatePatterns, h \in Halves("i1")}
MCQueries == {Plain(p, Listed(Visible(p))) : p \in Patterns1 \cup Patterns2}
             \cup UNION {Modified(p) : p \in Few} \cup ConstructQueries \cup DescribeQueries \cup UpdateQueries
Data == {<<"a", "p", "b", 0>>, <<"a", "p", "n1", 1>>, <<"b", "q", "n2", 1>>, <<"b", "q", "n1", 2>>,
         <<"a", "q", "b", 2>>, <<"b", "p", "a", 1>>}
\* With blank nodes, for the queries that make and follow them.
Blanks == {<<"a", "p", "b1_1", 1>>, <<"b1_1", "p", "b2_1", 1>>, <<"b2_1", "q", "b1_1", 0>>, <<"b1_1", "q", "s2", 1>>}
MCDatasets == SUBSET Data \cup {Blanks, Blanks \cup {<<"a", "p", "b", 0>>, <<"b", "q", "n2", 1>>}}
=============================================================================
