----------------------------- MODULE MCIngest -----------------------------
\* Two sessions, documents of at most two lines, one graph
\* made before and one that a load makes.
EXTENDS Ingest

iri(x) == <<"iri", x, "">>
lit(x, d) == <<"lit", x, d>>
blank(x) == <<"blank", x, "">>
line(s, p, o, g, form) == [t |-> <<s, p, o>>, g |-> g, form |-> form]

\* One text under two datatypes, one of them a subject too; a blank node with
\* the label of an IRI; the same statement twice; prefixes; a broken line; two
\* graphs.
Typed2   == <<line(iri("a"), iri("a"), lit("1", "int"), Default, "bare"),
              line(iri("int"), iri("a"), lit("1", "str"), Default, "bare")>>
Twice    == <<line(blank("a"), iri("a"), iri("b"), Default, "bare"),
              line(blank("a"), iri("a"), iri("b"), Default, "bare")>>
Prefixed == <<line(iri("a"), iri("b"), iri("a"), Default, "bare"),
              line(iri("a"), iri("b"), lit("1", "int"), Default, "short")>>
Broken   == <<line(iri("a"), iri("b"), iri("a"), Default, "bare"),
              line(iri("b"), iri("b"), iri("a"), Default, "broken")>>
TwoGraphs == <<line(iri("a"), iri("a"), lit("1", "int"), Default, "bare"),
               line(iri("a"), iri("a"), lit("1", "int"), "n", "bare")>>
MCKnown == <<"k">>
MCDocument == {Typed2, Twice, Prefixed, Broken, TwoGraphs, <<>>}

call(path, mode, doc, strict) == [path |-> path, mode |-> mode, doc |-> doc, g |-> 0, strict |-> strict]
MCCalls ==
    {call("turtle", m, Typed2, FALSE) : m \in Mode}
    \cup {call("turtle", "combined", d, FALSE) : d \in {Twice, Prefixed, Broken, <<>>}}
    \cup {call("quads", m, TwoGraphs, b) : m \in {"baseline", "combined"}, b \in BOOLEAN}
    \cup {call("quads", "combined", Twice, FALSE)}
    \cup {call("dict_batched", "batched", d, FALSE) : d \in {Twice, Broken}}
    \cup {call(p, "combined", d, FALSE) : p \in Rebuilds, d \in {Typed2, Prefixed}}
    \cup {call("staged", "baseline", d, FALSE) : d \in {Typed2, Prefixed}}
    \cup {[call("quads", "baseline", TwoGraphs, FALSE) EXCEPT !.g = 1]}
    \cup {[call("turtle", "baseline", Prefixed, FALSE) EXCEPT !.g = 1]}
=============================================================================
