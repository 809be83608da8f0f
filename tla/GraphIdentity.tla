--------------------------- MODULE GraphIdentity ---------------------------
(***************************************************************************)
(* What says whether two stored graphs are the same: the RDFC-1.0 digest   *)
(* (src/storage/canon.rs), the structural digest (fd1.rs), the export and  *)
(* its manifest (export.rs) and the diff by ground triples and blank-node  *)
(* components (diff.rs).  All read the asserted rows of a graph.           *)
(*                                                                         *)
(* A text is a sequence of integers and a SHA-256 value is the text in     *)
(* brackets: two are equal when the texts are, and they have an order, of  *)
(* which the algorithm needs no more.  Rows come in no order: where the    *)
(* first of several equal candidates wins, CHOOSE takes one of them.       *)
(***************************************************************************)
EXTENDS PropertyPaths, TLC

CONSTANTS TermOrder,                \* the IRIs and literals, in byte order
          MaxPermutationGroup,      \* MAX_PERMUTATION_GROUP
          MaxRecursionDepth,        \* MAX_RECURSION_DEPTH
          DiffMaxRows,              \* pgrdf.diff_max_rows
          Narrows                   \* bound: what diffs are narrowed to

ASSUME IdentityAssumption ==
    /\ \A x \in Iri \cup Literal : \E i \in DOMAIN TermOrder : TermOrder[i] = x
    /\ MaxPermutationGroup \in Nat \ {0} /\ MaxRecursionDepth \in Nat
    /\ DiffMaxRows \in Nat \ {0}

SX == INSTANCE SequencesExt

-----------------------------------------------------------------------------
\* Texts and hashes.

Code == [x \in Iri \cup Literal |-> CHOOSE i \in DOMAIN TermOrder : TermOrder[i] = x]
Open == -1
Close == -2
NodeMark == -3      \* "_:"
SelfName == -4      \* the label "a" of the node looked at
OtherName == -5     \* the label "z" of any other
Canon == -6         \* the issuers' prefixes, "c14n" and "b"
Temp == -7

Before(a, b) ==
    LET common == {i \in DOMAIN a : i \in DOMAIN b}
        differ == {i \in common : a[i] # b[i]}
        first  == CHOOSE i \in differ : \A j \in differ : i <= j IN
    IF differ = {} THEN Len(a) < Len(b) ELSE a[first] < b[first]
Hash(text) == <<Open>> \o text \o <<Close>>
InOrder(S, Text(_)) == LET listed == SX!FoldSet(LAMBDA x, s : Append(s, x), <<>>, S) IN
    SortSeq(listed, LAMBDA x, y : Before(Text(x), Text(y)))
TextOf(S, Text(_)) == SX!FoldLeft(LAMBDA acc, x : acc \o Text(x), <<>>, InOrder(S, Text))

\* name: the text of each blank node.
TermText(x, name) == IF x \in Blank THEN <<NodeMark>> \o name[x] ELSE <<Code[x]>>
Line(t, name) == TermText(t[1], name) \o TermText(t[2], name) \o TermText(t[3], name)

Blanks(T) == {x \in NodesOf(T) : x \in Blank}
\* Where a blank node stands: bnode_quads, which holds a loop twice.
Places(T, n) == {q \in T \X {1, 3} : q[1][q[2]] = n}
Bearing(T) == {t \in T : t[1] \in Blank \/ t[3] \in Blank}
Ground(T)  == T \ Bearing(T)

-----------------------------------------------------------------------------
\* RDFC-1.0.  An issuer is the sequence of the nodes it has named.

Issue(order, b) == IF SX!Contains(order, b) THEN order ELSE Append(order, b)
IssuedFor(prefix, order, b) == <<prefix, CHOOSE i \in DOMAIN order : order[i] = b>>

SelfOrOther(n, b) == IF b = n THEN <<SelfName>> ELSE <<OtherName>>
HashFirstDegree(T, n) == Hash(TextOf(Places(T, n), LAMBDA q : Line(q[1], [b \in Blank |-> SelfOrOther(n, b)])))

HashRelated(T, q, order, canonical) ==
    LET b == q[1][q[2]] IN
    Hash(<<q[2], Code[q[1][2]]>> \o
         (IF SX!Contains(canonical, b) THEN <<NodeMark>> \o IssuedFor(Canon, canonical, b)
          ELSE IF SX!Contains(order, b) THEN <<NodeMark>> \o IssuedFor(Temp, order, b)
          ELSE HashFirstDegree(T, b)))

\* The first pass over a permutation names its nodes.
Named(canonical, acc, b) ==
    IF SX!Contains(canonical, b)
    THEN [acc EXCEPT !.path = @ \o <<NodeMark>> \o IssuedFor(Canon, canonical, b)]
    ELSE LET order == Issue(acc.order, b) IN
         [acc EXCEPT !.order = order,
                     !.path = @ \o <<NodeMark>> \o IssuedFor(Temp, order, b),
                     !.open = IF SX!Contains(acc.order, b) THEN @ ELSE Append(@, b)]

\* (Mutant: the first permutation of the labels.)
FirstTried(S) == LET order == CHOOSE o \in {c.order : c \in S} : TRUE IN CHOOSE c \in S : c.order = order
Least(S) == CHOOSE c \in S : \A d \in S : ~Before(d.path, c.path)

\* A result that is not ok is a refusal: the budget was exceeded.  The source
\* also gives up a permutation as soon as it cannot be the least.
RECURSIVE HashNDegree(_, _, _, _, _)
HashNDegree(T, id, order, canonical, depth) ==
    LET related == {<<HashRelated(T, q, order, canonical), q[1][q[2]]>> :
                       q \in {q \in T \X {1, 3} : /\ id \in {q[1][1], q[1][3]}
                                                  /\ q[1][q[2]] \in Blank \ {id}}}
        group(h) == {r[2] : r \in {r \in related : r[1] = h}}
        deeper(acc, b) ==
            LET sub == HashNDegree(T, b, acc.order, canonical, depth + 1) IN
            IF ~acc.ok THEN acc ELSE
            [acc EXCEPT !.ok = sub.ok, !.order = sub.order,
                        !.path = @ \o <<NodeMark>> \o IssuedFor(Temp, acc.order, b) \o sub.hash]
        candidate(perm, acc) ==
            LET named == SX!FoldLeft(LAMBDA a, b : Named(canonical, a, b),
                                     [ok |-> TRUE, path |-> <<>>, order |-> acc.order, open |-> <<>>], perm) IN
            SX!FoldLeft(deeper, named, named.open)
        take(acc, h) ==
            IF ~acc.ok \/ Cardinality(group(h)) > MaxPermutationGroup THEN [acc EXCEPT !.ok = FALSE]
            ELSE LET all == {candidate(perm, acc) : perm \in SX!SetToSeqs(group(h))}
                     best == Least(all) IN
                 [ok |-> \A c \in all : c.ok, order |-> best.order, data |-> acc.data \o h \o best.path]
        done == SX!FoldLeft(take, [ok |-> depth <= MaxRecursionDepth, order |-> order, data |-> <<>>],
                            InOrder({r[1] : r \in related}, LAMBDA h : h)) IN
    [ok |-> done.ok, hash |-> Hash(done.data), order |-> done.order]

\* canonicalize_labeled: first the nodes whose hash is their own, then the
\* groups that share one.
Hashed(T) == {<<HashFirstDegree(T, b), b>> : b \in Blanks(T)}
Shared(hashed) == {x \in hashed : \E y \in hashed : x # y /\ x[1] = y[1]}
Adopt(canonical, results) ==
    [ok |-> \A r \in results : r.ok,
     order |-> SX!FoldLeft(LAMBDA c, r : SX!FoldLeft(Issue, c, r.order), canonical,
                           InOrder(results, LAMBDA r : r.hash))]
Distinguish(T, canonical, group) ==
    Adopt(canonical, {HashNDegree(T, b, <<b>>, canonical, 0) :
                         b \in {b \in group : ~SX!Contains(canonical, b)}})
NameShared(T, shared, alone) ==
    LET next(acc, h) ==
            IF acc.ok THEN Distinguish(T, acc.order, {x[2] : x \in {x \in shared : x[1] = h}}) ELSE acc IN
    SX!FoldLeft(next, [ok |-> TRUE, order |-> alone], InOrder({x[1] : x \in shared}, LAMBDA h : h))
CanonicalOrder(T, hashed) ==
    NameShared(T, Shared(hashed),
               SX!FoldLeft(LAMBDA c, x : Issue(c, x[2]), <<>>,
                           InOrder(hashed \ Shared(hashed), LAMBDA x : x[1])))
\* graph_digest: the hash of the lines under the canonical labels.
Labelled(T, c) ==
    IF ~c.ok THEN [ok |-> FALSE, lines |-> {}]
    ELSE [ok |-> TRUE, lines |-> {Line(t, [b \in Blanks(T) |-> IssuedFor(Canon, c.order, b)]) : t \in T}]
Canonicalize(T) == Labelled(T, CanonicalOrder(T, Hashed(T)))

-----------------------------------------------------------------------------
\* structural_digest: the ground triples and, for each blank node, the lines
\* it stands in, without looking further.

Signature(T, n) == TextOf({t \in T : n \in {t[1], t[3]}}, LAMBDA t : Line(t, [b \in Blank |-> SelfOrOther(n, b)]))
StructuralDigest(T) ==
    [ground |-> Ground(T), sigs |-> TextOf(Blanks(T), LAMBDA n : Hash(Signature(T, n)))]

\* export_graph and graph_manifest: the lines under the stored labels, and
\* what is counted and digested of them.
ExportLines(g) == Asserted(g)
Manifest(g) ==
    [asserted  |-> Cardinality(Asserted(g)),
     inferred  |-> Cardinality({r \in rows : r.g = g /\ r.inf}),
     bytes     |-> ExportLines(g),
     identity  |-> Canonicalize(Asserted(g)),
     structure |-> StructuralDigest(Asserted(g))]

-----------------------------------------------------------------------------
\* The diff.  components: the triples that share blank nodes, directly or
\* through others, go together; each component has a digest of its own.

Components(T) ==
    LET touches(c, t) == \E u \in c : {u[1], u[3]} \cap {t[1], t[3]} \cap Blank # {}
        join(t, cs) == LET met == {c \in cs : touches(c, t)} IN (cs \ met) \cup {UNION met \cup {t}} IN
    SX!FoldSet(join, {}, Bearing(T))

\* With the digest of each, which is all that is compared.
Digested(components) == {[triples |-> c, digest |-> Canonicalize(c)] : c \in components}

\* compare_components: of the components with one digest, as many are common
\* as both graphs have; the surplus is removed, or added.
\* (Mutant: a digest the other graph has at all is common.)
Unmatched(mine, theirs) == {c.triples : c \in {c \in mine : \A d \in theirs : c.digest # d.digest}}
Having(digested, d) == {c.triples : c \in {c \in digested : c.digest = d}}
Surplus(mine, theirs) ==
    LET beyond(d) ==
            LET n == Cardinality(Having(mine, d)) - Cardinality(Having(theirs, d)) IN
            CHOOSE R \in SUBSET Having(mine, d) : Cardinality(R) = IF n > 0 THEN n ELSE 0 IN
    UNION {beyond(c.digest) : c \in mine}

\* Narrow: the predicate and the class asked for, "" when not.
Matches(narrow, t) ==
    /\ narrow.predicate \in {"", t[2]}
    /\ narrow.class # "" => t[2] = Type /\ t[3] = narrow.class

\* graph_diff: the rows of each side, a ground triple alone and a component
\* whole; "" is both sides.
Sided(A, B, gone, come, side, narrow) ==
    LET rowsOf(X, Y, surplus, sd) ==
            IF side \notin {"", sd} THEN {}
            ELSE {t \in Ground(X) \ Ground(Y) : Matches(narrow, t)} \cup
                 UNION {c \in surplus : \E t \in c : Matches(narrow, t)} IN
    [removed |-> rowsOf(A, B, gone, "-"), added |-> rowsOf(B, A, come, "+")]
OrRefusal(A, B, components, d) ==
    IF \/ \E T \in {A, B} : Cardinality(Bearing(T)) > DiffMaxRows
       \/ \E c \in components : ~c.digest.ok
       \/ Cardinality(d.removed) + Cardinality(d.added) > DiffMaxRows
    THEN [ok |-> FALSE, removed |-> {}, added |-> {}]
    ELSE [ok |-> TRUE, removed |-> d.removed, added |-> d.added]
\* ca, cb: the digested components of A and of B.
GraphDiff(A, B, ca, cb, side, narrow) ==
    OrRefusal(A, B, ca \cup cb, Sided(A, B, Surplus(ca, cb), Surplus(cb, ca), side, narrow))

\* graph_diff_summary: how many of each, by predicate and by (named) class.
Summary(A, B, common, gone, come) ==
    LET minus == (Ground(A) \ Ground(B)) \cup UNION gone
        plus  == (Ground(B) \ Ground(A)) \cup UNION come
        changes(m, p) == <<Cardinality(m), Cardinality(p)>>
        with(T, p) == {t \in T : t[2] = p}
        typed(T, c) == {t \in with(T, Type) : t[3] = c} IN
    [ground      |-> <<Cardinality(Ground(A) \ Ground(B)), Cardinality(Ground(B) \ Ground(A)),
                       Cardinality(Ground(A) \cap Ground(B))>>,
     components  |-> <<Cardinality(gone), Cardinality(come), common>>,
     byPredicate |-> [p \in {t[2] : t \in minus \cup plus} |-> changes(with(minus, p), with(plus, p))],
     byType      |-> [c \in {t[3] : t \in with(minus \cup plus, Type)} \cap Iri |->
                         changes(typed(minus, c), typed(plus, c))]]
DiffSummary(A, B, ca, cb) ==
    Summary(A, B, Cardinality(ca) - Cardinality(Surplus(ca, cb)), Surplus(ca, cb), Surplus(cb, ca))

-----------------------------------------------------------------------------
\* Two graphs are the same when renaming blank nodes makes one the other.
Renamed(T, f) == {<<IF t[1] \in Blank THEN f[t[1]] ELSE t[1], t[2],
                    IF t[3] \in Blank THEN f[t[3]] ELSE t[3]>> : t \in T}
Isomorphic(A, B) ==
    /\ Cardinality(A) = Cardinality(B)
    /\ Cardinality(Blanks(A)) = Cardinality(Blanks(B))
    /\ \E f \in [Blanks(A) -> Blanks(B)] : Renamed(A, f) = B

\* The three digests of a manifest are one finer than the other: the same
\* bytes have the same identity, and the same identity the same structure.
\* The identity is exact ("Isomorphic graphs -- under ANY blank-node labels --
\* return EQUAL digests; non-isomorphic graphs differ", graph_digest), and a
\* refusal does not depend on the labels either.
Nested(m, n, same) ==
    /\ m.bytes = n.bytes => m.identity = n.identity
    /\ same => m.identity = n.identity
    /\ m.identity.ok /\ m.identity = n.identity => same
    /\ same => m.structure = n.structure
DigestsNest == \A g, h \in Graph :
    g < h => Nested(Manifest(g), Manifest(h), Isomorphic(Asserted(g), Asserted(h)))

\* A diff is empty exactly when the graphs are isomorphic (diff.rs:19), what it
\* leaves of both graphs is the same graph, it reports no component that the
\* other side has too, and a narrowed diff misses no row that matches.
Everything == [predicate |-> "", class |-> ""]
ExactSummary(s, d) ==
    \A side \in {<<1, d.removed>>, <<2, d.added>>} :
        SX!FoldSet(LAMBDA p, n : n + s.byPredicate[p][side[1]], 0, DOMAIN s.byPredicate) = Cardinality(side[2])
ExactDiff(A, B, d) ==
    /\ Isomorphic(A, B) <=> d.removed = {} /\ d.added = {}
    /\ Isomorphic(A \ d.removed, B \ d.added)
    /\ \A c \in Components(d.removed), e \in Components(d.added) : ~Isomorphic(c, e)
ExactNarrowed(n, nd, d) ==
    /\ nd.ok /\ nd.added = {} /\ nd.removed \subseteq d.removed
    /\ {t \in d.removed : Matches(n, t)} \subseteq nd.removed
DiffOf(A, B, ca, cb, d) ==
    d.ok => /\ ExactDiff(A, B, d)
            /\ ExactSummary(DiffSummary(A, B, ca, cb), d)
            /\ \A n \in Narrows : ExactNarrowed(n, GraphDiff(A, B, ca, cb, "-", n), d)
DiffOfComponents(A, B, ca, cb) == DiffOf(A, B, ca, cb, GraphDiff(A, B, ca, cb, "", Everything))
DiffIsExact == \A g, h \in Graph :
    g < h => DiffOfComponents(Asserted(g), Asserted(h), Digested(Components(Asserted(g))),
                              Digested(Components(Asserted(h))))
=============================================================================
