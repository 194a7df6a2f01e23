------------------------------ MODULE Retrieval ------------------------------
(***************************************************************************)
(* What the knowledge base computes: how the text of a document is cut     *)
(* into chunks (src/rag/splitter.py), and how a question is answered from  *)
(* chunks: rewriting, three routes that may fail one by one, reciprocal    *)
(* rank fusion within a query and across queries, reranking by a model,    *)
(* and the reply of the tool rag_search (src/rag/hybrid.py, routes.py,     *)
(* rewriter.py, rerank.py, src/tools/rag_document_tools.py).               *)
(*                                                                         *)
(* A behaviour is one call of split or one search. What the indexes and    *)
(* the models answer is chosen; an index answers with ids in the order of  *)
(* their scores. Chunk ids and contents are small numbers. Scores are      *)
(* exact integers here and floating point numbers in the code, where ties  *)
(* between sums of three or more terms may fall either way.                *)
(***************************************************************************)
EXTENDS Integers, Sequences, FiniteSets, SequencesExt, FiniteSetsExt, TLC

CONSTANTS
    Ids,            \* chunk ids, a set of positive numbers
    ClientSets,     \* the clients that may be configured
    Query,          \* the question
    Rewritings,     \* other queries that the model may propose
    NumQueries,     \* how many queries are kept
    K,              \* rrf_constant_k
    TopK,           \* citations of a reply
    MaxAnswer,      \* bound on the hits of a route
    MaxCalls,       \* bound on the routes asked in a search
    Grades,         \* scores the reranking model gives
    Alphabet,       \* characters of a text
    MaxText,        \* bound on its length
    ChunkSize,
    Overlaps        \* chunk overlaps tried

VARIABLES
    step,           \* what is done next
    text, overlap, chunks,      \* split: its input, and its output
    routes,         \* the routes that are configured
    stored,         \* content by chunk id as PostgreSQL has it, 0 for no chunk
    queries,        \* the queries of the search
    per_query,      \* for every query asked so far what each route returned
    degraded,       \* routes that failed
    ranked,         \* chunk ids in their final order
    reply           \* what the tool returned

vars == <<step, text, overlap, chunks, routes, stored, queries, per_query, degraded,
          ranked, reply>>

-----------------------------------------------------------------------------
(* Splitting. "n" is a line feed, "s" a space, "p" a full stop, "f" the     *)
(* three backquotes of a code fence, which count as one character here.     *)

separators == <<<<"n", "n">>, <<"n">>, <<"p">>, <<"s">>>>

Blank(s) == \A i \in DOMAIN s : s[i] \in {"n", "s"}

\* A fence is one at the beginning of a line.
fences(s) ==
    SetToSortSeq({i \in DOMAIN s : s[i] = "f" /\ (i = 1 \/ s[i - 1] = "n")}, <)

\* _protect_code_blocks: fences in pairs, what is between them kept whole.
protect_code_blocks(s) ==
    LET F == fences(s)
        pairs == Len(F) \div 2
        from(j) == IF j = 0 THEN 1 ELSE F[2 * j] + 1
        plain(a, b) == IF a > b THEN <<>> ELSE <<[atomic |-> FALSE, text |-> SubSeq(s, a, b)]>>
        code(j) == <<[atomic |-> TRUE, text |-> SubSeq(s, F[2 * j - 1], F[2 * j])]>>
    IN  FlattenSeq([j \in 1..pairs |-> plain(from(j - 1), F[2 * j - 1] - 1) \o code(j)])
            \o plain(from(pairs), Len(s))

\* The first place of sep in s, 0 for none.
First(s, sep) ==
    LET at == {i \in 1..(Len(s) - Len(sep) + 1) : SubSeq(s, i, i + Len(sep) - 1) = sep}
    IN  IF at = {} THEN 0 ELSE Min(at)

\* _split_keeping_sep: every part but the first begins with the separator.
RECURSIVE split_keeping_sep(_, _)
split_keeping_sep(s, sep) ==
    LET p == First(s, sep) IN
    IF p = 0 THEN <<s>>
    ELSE LET rest == split_keeping_sep(SubSeq(s, p + Len(sep), Len(s)), sep)
         IN  <<SubSeq(s, 1, p - 1)>> \o [rest EXCEPT ![1] = sep \o @]

hard_split_by_rune(s) ==
    [j \in 1..((Len(s) + ChunkSize - 1) \div ChunkSize) |->
        SubSeq(s, (j - 1) * ChunkSize + 1, Min({j * ChunkSize, Len(s)}))]

\* _recursive_split, from the n-th separator on; blank parts are dropped.
RECURSIVE recursive_split(_, _)
recursive_split(s, n) ==
    IF Len(s) <= ChunkSize THEN IF Blank(s) THEN <<>> ELSE <<s>>
    ELSE IF n > Len(separators) THEN hard_split_by_rune(s)
    ELSE LET parts == split_keeping_sep(s, separators[n])
         IN  FlattenSeq([j \in DOMAIN parts |-> recursive_split(parts[j], n + 1)])

\* _merge, first part: pieces are joined while they fit.
JoinPieces(pieces) ==
    LET add(acc, piece) ==
            IF acc.buf = <<>> \/ Len(acc.buf) + Len(piece) <= ChunkSize
            THEN [acc EXCEPT !.buf = @ \o piece]
            ELSE [merged |-> Append(acc.merged, acc.buf), buf |-> piece]
    IN  FoldLeft(add, [merged |-> <<>>, buf |-> <<>>], pieces)

\* Faulty: the last buffer is not flushed.
MergeUnflushed(pieces, n) == JoinPieces(pieces).merged

\* _merge: the buffer is flushed, and every chunk but the first begins with the end
\* of the one before it.
merge(pieces, n) ==
    LET joined == JoinPieces(pieces)
        merged == joined.merged \o (IF joined.buf = <<>> THEN <<>> ELSE <<joined.buf>>)
        tail(s) == SubSeq(s, Max({1, Len(s) - n + 1}), Len(s))
    IN  [i \in DOMAIN merged |->
            IF i = 1 THEN merged[1] ELSE tail(merged[i - 1]) \o merged[i]]

split(s, n) ==
    LET atoms == protect_code_blocks(s)
        pieces(a) == IF a.atomic THEN <<a.text>> ELSE recursive_split(a.text, 1)
    IN  merge(FlattenSeq([j \in DOMAIN atoms |-> pieces(atoms[j])]), n)

-----------------------------------------------------------------------------
(* Ranking.                                                                 *)

\* _dedup_keep_order
dedup_keep_order(s) ==
    FoldLeft(LAMBDA seen, q : IF q \in ToSet(seen) THEN seen ELSE Append(seen, q), <<>>, s)

\* parse_rewrite_output: queries, or nothing.
parse_rewrite_output == UNION {[1..n -> Rewritings \cup {Query}] : n \in 0..2}

\* rewrite: the question is appended, and what exceeds num_queries cut off.
rewrite(proposed) ==
    LET all == dedup_keep_order(proposed \o <<Query>>)
    IN  SubSeq(all, 1, Min({NumQueries, Len(all)}))

\* _static_mode
static_mode(rs) ==
    CASE {"dense", "keyword"} \subseteq rs -> "hybrid"
      [] "keyword" \in rs /\ "dense" \notin rs -> "keyword"
      [] "dense" \in rs /\ "keyword" \notin rs -> "semantic"
      [] OTHER -> "unavailable"

\* _resolve: ids without a chunk are skipped.
resolve(ids) == SelectSeq(ids, LAMBDA i : stored[i] # 0)

\* Tenths of the weight of a route, and a number that every denominator divides.
weight(r) == IF r = "graph" THEN 3 ELSE 10

Scale == (K + 1) * (K + 2) * (K + 3) * (IF MaxAnswer > 3 THEN K + 4 ELSE 1)

Place(s, i) == CHOOSE p \in DOMAIN s : s[p] = i

\* Faulty: the score of a later route replaces that of an earlier one.
QueryRrfLastRoute(hits) ==
    LET found == UNION {ToSet(hits[r]) : r \in DOMAIN hits}
        last(i) == Last(SelectSeq(<<"dense", "keyword", "graph">>,
                       LAMBDA r : r \in DOMAIN hits /\ i \in ToSet(hits[r])))
        score(i) == weight(last(i)) * (Scale \div (K + Place(hits[last(i)], i)))
    IN  SetToSortSeq(found, LAMBDA a, b :
            score(a) > score(b) \/ (score(a) = score(b) /\ a < b))

\* _query_rrf: by chunk id, the sum of w / (k + rank + 1) over the routes.
query_rrf(hits) ==
    LET found == UNION {ToSet(hits[r]) : r \in DOMAIN hits}
        score(i) == MapThenSumSet(
            LAMBDA r : weight(r) * (Scale \div (K + Place(hits[r], i))),
            {r \in DOMAIN hits : i \in ToSet(hits[r])})
    IN  SetToSortSeq(found, LAMBDA a, b :
            score(a) > score(b) \/ (score(a) = score(b) /\ a < b))

\* _cross_query_rrf: by content, over the rankings of all queries; the first hit with
\* a content stands for it.
cross_query_rrf(hits_by_query) ==
    LET by_query == FoldLeft(LAMBDA acc, hits : Append(acc, query_rrf(hits)), <<>>, hits_by_query)
        flat == FlattenSeq(by_query)
        items == {flat[p] : p \in {x \in DOMAIN flat :
                     \A y \in 1..(x - 1) : stored[flat[y]] # stored[flat[x]]}}
        positions(i) == {<<q, p>> \in (DOMAIN by_query) \X (1..Cardinality(Ids)) :
                            p <= Len(by_query[q]) /\ stored[by_query[q][p]] = stored[i]}
        score(i) == MapThenSumSet(LAMBDA x : Scale \div (K + x[2]), positions(i))
    IN  SetToSortSeq(items, LAMBDA a, b :
            score(a) > score(b) \/ (score(a) = score(b) /\ a < b))

\* Faulty: a candidate the model did not score is dropped.
ApplyRerankScored(items, scored) ==
    SetToSortSeq({items[p] : p \in DOMAIN scored}, LAMBDA a, b :
        scored[Place(items, a)] > scored[Place(items, b)])

\* _apply_rerank: by the score of the model, those without one at the end, and in
\* their order among equals.
apply_rerank(items, scored) ==
    LET grade(i) == LET p == Place(items, i) IN IF p \in DOMAIN scored THEN scored[p] ELSE -1
    IN  SetToSortSeq(ToSet(items), LAMBDA a, b :
            grade(a) > grade(b) \/ (grade(a) = grade(b) /\ Place(items, a) < Place(items, b)))

-----------------------------------------------------------------------------
(* A call.                                                                  *)

Texts == UNION {[1..n -> Alphabet] : n \in 0..MaxText}

\* Contents: every chunk its own; a chunk gone from PostgreSQL; two chunks alike.
Stores ==
    LET own == [i \in Ids |-> i]
    IN  {own, [own EXCEPT ![Max(Ids)] = 0], [own EXCEPT ![Max(Ids)] = Min(Ids)]}

Init ==
    /\ step = "start"
    /\ text = <<>> /\ overlap = 0 /\ chunks = <<>>
    /\ routes = {} /\ stored = [i \in Ids |-> 0]
    /\ queries = <<>> /\ per_query = <<>> /\ degraded = {} /\ ranked = <<>>
    /\ reply = "none"

searching == <<routes, stored, queries, per_query, degraded, ranked, reply>>

\* _chunk_text on a text that is not blank.
chunk_text ==
    /\ step = "start"
    /\ text' \in {s \in Texts : ~Blank(s)}
    /\ overlap' \in Overlaps
    /\ chunks' = split(text', overlap')
    /\ step' = "split"
    /\ UNCHANGED searching

\* build_routes: a route is there when all the clients it needs are.
build_routes(clients) ==
    LET needs == [dense |-> {"milvus", "embedding"}, keyword |-> {"es"},
                  graph |-> {"kg_store", "kg_extractor"}]
    IN  {r \in DOMAIN needs : needs[r] \subseteq clients}

\* search, up to the queries. The rewriting model fails (no proposals) or proposes.
search ==
    /\ step = "start"
    /\ \E clients \in ClientSets : routes' = build_routes(clients)
    /\ stored' \in Stores
    /\ \/ /\ static_mode(routes') = "unavailable"
          /\ reply' = "rag_unavailable"
          /\ step' = "done"
          /\ UNCHANGED queries
       \/ /\ static_mode(routes') # "unavailable"
          /\ \E proposed \in parse_rewrite_output : queries' = rewrite(proposed)
          /\ Len(queries') * Cardinality(routes') <= MaxCalls
          /\ step' = "retrieve"
          /\ UNCHANGED reply
    /\ UNCHANGED <<text, overlap, chunks, per_query, degraded, ranked>>

\* Ids as an index returns them, best first.
Answers == UNION {{s \in [1..n -> Ids] : IsInjective(s)} : n \in 0..MaxAnswer}

\* What the search of a route may return. The graph route asks a model for entities
\* first, and returns nothing where it finds none.
DenseRoute == {resolve(ids) : ids \in Answers}

KeywordRoute == {resolve(ids) : ids \in Answers}

\* parse_kg_output: entities, none, or an exception for an output outside the schema.
parse_kg_output == {"entities", "none", "invalid"}

\* RagKgStore.search: through paths, or over one hop without APOC; ids with a chunk.
kg_search == Answers

GraphRoute(extracted) == IF extracted = "none" THEN {<<>>} ELSE {resolve(ids) : ids \in kg_search}

RouteAnswers(r) ==
    CASE r = "dense" -> DenseRoute
      [] r = "keyword" -> KeywordRoute
      [] r = "graph" -> UNION {GraphRoute(e) : e \in parse_kg_output \ {"invalid"}}

\* The route that is asked next for the current query.
NextRoute ==
    LET asked == IF per_query = <<>> THEN {} ELSE DOMAIN Last(per_query)
    IN  Head(SelectSeq(<<"dense", "keyword", "graph">>,
            LAMBDA r : r \in routes /\ (asked = routes \/ r \notin asked)))

\* _retrieve: one route for one query. It answers, or it raises and is recorded as
\* degraded, and the others are asked all the same.
retrieve ==
    LET fresh == per_query = <<>> \/ DOMAIN Last(per_query) = routes
        add(ids) == IF fresh THEN Append(per_query, NextRoute :> ids)
                    ELSE [per_query EXCEPT ![Len(per_query)] = @ @@ (NextRoute :> ids)]
    IN  /\ step = "retrieve"
        /\ \/ /\ \E ids \in RouteAnswers(NextRoute) : per_query' = add(ids)
              /\ UNCHANGED degraded
           \/ /\ per_query' = add(<<>>)
              /\ degraded' = degraded \cup {NextRoute}
        /\ step' = IF Len(per_query') = Len(queries) /\ DOMAIN Last(per_query') = routes
                   THEN "fuse" ELSE "retrieve"
        /\ UNCHANGED <<text, overlap, chunks, routes, stored, queries, ranked, reply>>

\* The fusion.
fuse ==
    /\ step = "fuse"
    /\ ranked' = cross_query_rrf(per_query)
    /\ step' = "rerank"
    /\ UNCHANGED <<text, overlap, chunks, routes, stored, queries, per_query, degraded, reply>>

\* parse_rerank_output: scores for some of the candidates; anything else is no answer.
parse_rerank_output(n) == UNION {[graded -> Grades] : graded \in SUBSET (1..n) \ {{}}}

\* The reranking, where it is configured and answers, and the reply of rag_search: up
\* to TopK citations, or that nothing was found.
rag_search ==
    /\ step = "rerank"
    /\ \/ UNCHANGED ranked
       \/ /\ Len(ranked) > 1
          /\ \E scored \in parse_rerank_output(Len(ranked)) :
                ranked' = apply_rerank(ranked, scored)
    /\ reply' = IF ranked = <<>> THEN "empty" ELSE "cited"
    /\ step' = "done"
    /\ UNCHANGED <<text, overlap, chunks, routes, stored, queries, per_query, degraded>>

Next == chunk_text \/ search \/ retrieve \/ fuse \/ rag_search

Spec == Init /\ [][Next]_vars

sources == SubSeq(ranked, 1, Min({TopK, Len(ranked)}))

-----------------------------------------------------------------------------
(* Properties.                                                             *)

\* A chunk without what it repeats of the one before it.
Own ==
    FoldLeft(LAMBDA acc, c :
                Append(acc, IF acc = <<>> THEN c
                            ELSE SubSeq(c, 1 + Min({overlap, Len(Last(acc))}), Len(c))),
             <<>>, chunks)

\* split: whatever separators, code blocks and blank lines a text has, its chunks hold
\* every character of it that is not blank, once and in order, apart from the overlap;
\* and only a code block makes a chunk larger than the chunk size.
SplitKeepsText ==
    step = "split" =>
        LET own == Own
            visible(s) == SelectSeq(s, LAMBDA c : c \notin {"n", "s"})
        IN  /\ visible(FlattenSeq(own)) = visible(text)
            /\ \A i \in DOMAIN own : Len(own[i]) > ChunkSize =>
                  Head(own[i]) = "f" /\ Last(own[i]) = "f"

\* Wherever y was found, x was found too and earlier.
Dominates(x, y) ==
    \A q \in DOMAIN per_query : \A r \in routes :
        LET s == per_query[q][r] IN
        y \in ToSet(s) => x \in ToSet(s) /\ Place(s, x) < Place(s, y)

\* Fusion within a query and across queries: a chunk that every route put behind
\* another one, for every query, never comes out ahead of it, whatever the weights of
\* the routes, their failures and the chunks that are gone. (Unless its text is stored
\* twice: then both places count for it.)
FusionRespectsDominance ==
    step = "rerank" =>
        LET place(i) == CHOOSE p \in DOMAIN ranked : stored[ranked[p]] = stored[i]
            found == UNION {ToSet(per_query[q][r]) : q \in DOMAIN per_query, r \in routes}
        IN  \A x, y \in found :
                /\ x # y /\ Dominates(x, y)
                /\ \A z \in Ids \ {y} : stored[z] # stored[y]
                => place(x) < place(y)

\* search: every text that some route found for some query and that PostgreSQL still
\* has is cited, once, as long as there is room, also when the model scored only some
\* of the candidates.
NothingFoundIsLost ==
    step = "done" /\ reply # "rag_unavailable" =>
        LET texts == {stored[i] : i \in UNION {ToSet(per_query[q][r]) :
                                                  q \in DOMAIN per_query, r \in routes}}
            cited == [p \in DOMAIN sources |-> stored[sources[p]]]
        IN  /\ IsInjective(cited)
            /\ ToSet(cited) \subseteq texts
            /\ Len(cited) = Min({TopK, Cardinality(texts)})

\* What rag/hybrid.py says of a route that fails, that it is reported and not swallowed:
\* the tool says that nothing was found only when every route was searched.
EmptyMeansSearched == reply = "empty" => degraded = {}

=============================================================================
