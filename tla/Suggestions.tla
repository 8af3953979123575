----------------------------- MODULE Suggestions -----------------------------
(***************************************************************************)
(* What the sug, hint and nav businesses recall and how they rank it: the  *)
(* trie of the suggestions and the recalls of lib/recall/, as operators of *)
(* the documents of docs.db, the query statistics, the co-occurrences and  *)
(* the trie.  Words and queries are sequences of characters, for their     *)
(* prefixes.  Where the order of equal frequencies decides what is cut     *)
(* (std::sort, ORDER BY ... LIMIT) an operator gives every outcome.        *)
(*                                                                         *)
(* Features are in thousandths.  All entries are of the same day.  LIKE    *)
(* compares like IsPrefix: queries have no wildcards and one case.         *)
(***************************************************************************)
EXTENDS Integers, Sequences, FiniteSetsExt, SequencesExt

CONSTANTS
    NodeCap,        \* the entries a node of the trie keeps: 200
    SearchLimit,    \* the entries SugTrieRecall asks for: 50
    TopQueries,     \* the user queries RebuildTrie takes: 200
    HotQueries,     \* the queries NavGlobalHotRecall takes: 30
    ExpandLimit,    \* the queries HintQueryExpandRecall takes: 15
    ExpandPrefix,   \* the bytes of the query it takes them by: 6
    CooccurLimit,   \* the documents HintCooccurRecall takes: 20
    PresetWords     \* preset_words

ASSUME LimitsAssumption ==
    {NodeCap, SearchLimit, TopQueries, HotQueries, ExpandLimit, ExpandPrefix, CooccurLimit}
        \subseteq Nat \ {0}

LargestOf(S) == IF S = {} THEN 1 ELSE Max(S \union {1})

\* The outcomes of taking the first n by descending value.
TopOf(S, n, value) ==
    {T \in SUBSET S : /\ Cardinality(T) = Min({n, Cardinality(S)})
                      /\ \A x \in T, y \in S \ T : value[x] >= value[y]}

FreqOf(S) == [x \in S |-> x.freq]

\* 1000 * log1p(n)
Log1p(n) == IF n = 0 THEN 0 ELSE <<693, 1099, 1386, 1609, 1792, 1946, 2079>>[n]
LogShare(n, largest) == (1000 * Log1p(n)) \div Log1p(largest)

-----------------------------------------------------------------------------
(* QueryStatsStore.  The statistics are a function from queries to their   *)
(* frequency; before Initialize there are none to be read or written.      *)

Opened(stats, open) == IF open THEN stats ELSE [q \in {} |-> 0]

IncrementQuery(stats, q, open) ==
    IF ~open THEN stats
    ELSE [p \in DOMAIN stats \union {q} |->
            (IF p \in DOMAIN stats THEN stats[p] ELSE 0) + (IF p = q THEN 1 ELSE 0)]

Rows(stats) == {[query |-> q, freq |-> stats[q]] : q \in DOMAIN stats}
GetTopN(stats, n) == TopOf(Rows(stats), n, FreqOf(Rows(stats)))
GetByPrefix(stats, prefix, n) ==
    IF prefix = <<>> THEN {{}}
    ELSE TopOf({r \in Rows(stats) : IsPrefix(prefix, r.query)}, n, FreqOf(Rows(stats)))

-----------------------------------------------------------------------------
(* The trie.                                                               *)

TitleEntries(docs) ==
    {[word |-> docs[d].title, source |-> "title", from |-> d, freq |-> LargestOf({docs[d].clicks})] :
        d \in {e \in DOMAIN docs : docs[e].title # <<>>}}

TagEntries(docs) ==
    UNION {{[word |-> w, source |-> "tag", from |-> d, freq |-> LargestOf({docs[d].clicks \div 2})] :
               w \in {t \in docs[d].tags : Len(t) >= 2}} : d \in DOMAIN docs}

QueryEntries(rows) ==
    {[word |-> r.query, source |-> "user_query", from |-> "", freq |-> r.freq] : r \in rows}

\* RebuildTrie: the entries Build is given, in every outcome.
Entries(docs, stats) ==
    {TitleEntries(docs) \union TagEntries(docs) \union QueryEntries(rows) :
        rows \in GetTopN(stats, TopQueries)}

\* The entries a node keeps, of those whose word leads through it.
Through(entries, prefix) == {e \in entries : e.word # <<>> /\ IsPrefix(prefix, e.word)}

\* Mutant: Build does not sort, so that a node keeps any of its entries.
SearchUnsorted(entries, prefix) ==
    IF prefix = <<>> THEN {{}}
    ELSE TopOf(Through(entries, prefix), Min({NodeCap, SearchLimit}), [e \in entries |-> 0])

\* Build sorts by frequency before it inserts; Search takes the first of the
\* node it reaches.
Search(entries, prefix) ==
    IF prefix = <<>> THEN {{}}
    ELSE TopOf(Through(entries, prefix), Min({NodeCap, SearchLimit}), FreqOf(entries))

-----------------------------------------------------------------------------
(* The recalls.  Each gives the outcomes of ProcessDag: sets of candidates *)
(* with their source and features.                                         *)

Candidate(word, source, from, features) ==
    [word |-> word, source |-> source, from |-> from, features |-> features]

\* The features are stored as pm, fn and fs.
SugTrieRecall(entries, q) ==
    {LET largest == LargestOf({e.freq : e \in found})
     IN  {Candidate(e.word, e.source, e.from,
                    [pm |-> (1000 * Len(q)) \div Len(e.word), fn |-> LogShare(e.freq, largest),
                     fs |-> 1000]) : e \in found} :
        found \in Search(entries, q)}

\* Of the tags a and b.
TagJaccard(a, b) ==
    IF a = {} \/ b = {} THEN 0 ELSE (1000 * Cardinality(a \cap b)) \div Cardinality(a \union b)

\* The documents the hints for one come from.
OtherTitled(docs, d) == {e \in DOMAIN docs \ {d} : docs[e].title # <<>>}

\* Mutant: seen does not begin with the document of the request.
HintTagRecallItself(docs, d) ==
    IF d \notin DOMAIN docs THEN {{}}
    ELSE {{Candidate(docs[e].title, "tag_match", e,
                     [tag_relevance |-> TagJaccard(docs[d].tags, docs[e].tags)]) :
             e \in {f \in DOMAIN docs : /\ docs[f].title # <<>>
                                        /\ TagJaccard(docs[d].tags, docs[f].tags) > 100}}}

HintTagRecall(docs, d) ==
    IF d \notin DOMAIN docs THEN {{}}
    ELSE {{Candidate(docs[e].title, "tag_match", e,
                     [tag_relevance |-> TagJaccard(docs[d].tags, docs[e].tags)]) :
             e \in {f \in OtherTitled(docs, d) : TagJaccard(docs[d].tags, docs[f].tags) > 100}}}

HintCategoryRecall(docs, d) ==
    IF d \notin DOMAIN docs \/ docs[d].category = "" THEN {{}}
    ELSE LET same == {e \in OtherTitled(docs, d) : docs[e].category = docs[d].category}
             largest == LargestOf({docs[e].clicks : e \in same})
         IN  {{Candidate(docs[e].title, "category_hot", e,
                         [category_relevance |-> LogShare(docs[e].clicks, largest)]) : e \in same}}

\* The rows GetTopCooccur reads may name documents that are no longer stored,
\* or be of a document that is not.
HintCooccurRecall(docs, cooccur, d, open) ==
    LET rows == IF open THEN {r \in cooccur : r.src = d} ELSE {}
    IN  {LET kept == {r \in top : r.dst \in DOMAIN docs /\ docs[r.dst].title # <<>>}
             largest == LargestOf({r.freq : r \in kept})
         IN  {Candidate(docs[r.dst].title, "cooccur", r.dst,
                        [cooccur_score |-> (1000 * r.freq) \div largest]) : r \in kept} :
            top \in TopOf(rows, CooccurLimit, FreqOf(rows))}

\* The query itself does not count for the largest frequency.
HintQueryExpandRecall(stats, q) ==
    {LET others == {r \in rows : r.query # q}
         largest == LargestOf({r.freq : r \in others})
     IN  {Candidate(r.query, "query_expand", "", [query_relevance |-> LogShare(r.freq, largest)]) :
            r \in others} :
        rows \in GetByPrefix(stats, SubSeq(q, 1, Min({ExpandPrefix, Len(q)})), ExpandLimit)}

NavGlobalHotRecall(stats) ==
    {LET largest == LargestOf({r.freq : r \in rows})
     IN  {Candidate(r.query, "hot", "", [heat |-> LogShare(r.freq, largest)]) :
            r \in {s \in rows : s.query # <<>>}} :
        rows \in GetTopN(stats, HotQueries)}

NavDocTitleRecall(docs) ==
    LET titled == OtherTitled(docs, "")
        largest == LargestOf({docs[d].clicks : d \in titled})
    IN  {{Candidate(docs[d].title, "doc_hot", d, [heat |-> LogShare(docs[d].clicks, largest)]) :
            d \in titled}}

NavPresetRecall == {{Candidate(w, "preset", "", [heat |-> 500]) : w \in PresetWords}}

-----------------------------------------------------------------------------
(* RankEngine::Score with the processors of a stage, and ApplyRankOutput.  *)

GetFeature(c, name) == IF name \in DOMAIN c.features THEN c.features[name] ELSE 0

WeightedSum(c, processor) ==
    processor.weight * FoldSeq(LAMBDA f, sum : sum + f.weight * GetFeature(c, f.name), 0,
                               processor.features)

\* A processor whose name is not registered, or without features, leaves the
\* scores; each other one replaces them.
Scorers(stage) ==
    SelectSeq(stage.processors, LAMBDA p : p.name = "WeightedSumScorer" /\ p.features # <<>>)

Score(c, stage) == IF Scorers(stage) = <<>> THEN 0 ELSE WeightedSum(c, Last(Scorers(stage)))

TopK(stage) == IF stage.top_k > 0 THEN stage.top_k ELSE 20

\* CommonDoRank: without a stage or processors nothing is written.
Ranked(candidates, stage) ==
    IF candidates = {} \/ stage.processors = <<>> THEN {{}}
    ELSE TopOf(candidates, TopK(stage), [c \in candidates |-> Score(c, stage)])
=============================================================================
