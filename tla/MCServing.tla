------------------------------ MODULE MCServing ------------------------------
(***************************************************************************)
(* Deployments for TLC: every list of up to three recall nodes over two    *)
(* names with up to two dependencies, next to a plain framework.yaml; a    *)
(* range of framework.yaml files, sound and not, next to a few files; and  *)
(* the suggestions of a server with documents, with the features of the    *)
(* repository's files and with those its recalls provide, and with a       *)
(* handler that two businesses share.                                      *)
(***************************************************************************)
EXTENDS Serving

Suggesters ==
    {"SugTrieRecallProcessor", "HintTagRecall", "HintCategoryRecall", "HintCooccurRecall",
     "HintQueryExpandRecall", "NavGlobalHotRecall", "NavDocTitleRecall", "NavPresetRecall"}

MCUsable == {"a", "b"} \union Suggesters
MCHandlers == {"SearchBizHandler", "SugBizHandler", "HintBizHandler", "NavBizHandler"}
MCPresetWords == {<<"c">>}
MCSessions == {"SearchSession", "Session"}

Node(name, deps) == [name |-> name, enable |-> TRUE, deps |-> deps]

Deps == {<<>>, <<"a">>, <<"b">>, <<"a", "b">>, <<"b", "b">>, <<"x">>, <<"a", "x">>}

NodeEntries == {Node(n, d) : n \in {"a", "b"}, d \in Deps}
           \union {[Node("x", <<"a">>) EXCEPT !.enable = FALSE], Node("x", <<>>), Node("", <<"a">>)}

Graphs == {ListOf(g) : g \in UNION {[1..n -> NodeEntries] : n \in 0..3}}

File(b, recall) ==
    [state |-> "ok", business_type |-> b, recall |-> recall, filter |-> Absent,
     postprocess |-> Absent, rank_config |-> <<>>]

Business(b, h, s, skip) ==
    [business_type |-> b, handler_name |-> h, session_name |-> s, skip_search |-> skip, skip_rank |-> FALSE]

SearchBusiness == Business("search", "SearchBizHandler", "SearchSession", FALSE)
SugBusiness == Business("sug", "SugBizHandler", "Session", FALSE)

Lists ==
    {Absent, NotAList} \union
    {ListOf(l) : l \in UNION {[1..n -> {SearchBusiness, SugBusiness, Business("sug", "SearchBizHandler", "Session", TRUE),
                     Business("search", "SugBizHandler", "None", FALSE),
                     Business("hint", "OtherHandler", "Session", FALSE),
                     Business("", "SugBizHandler", "Session", FALSE)}] : n \in 0..3}}

Plain(list) ==
    [state |-> "ok", numbers |-> Nothing, level |-> "info", businesses |-> list,
     background |-> [auto_train |-> "on", sug_trie_rebuild |-> "default"]]

Numbers == {f :> v : f \in DOMAIN Defaults, v \in {-1, 0, 1, 65535, 65536}}

Mains ==
    {[Plain(ListOf(<<SearchBusiness>>)) EXCEPT !.state = s] : s \in {"unreadable", "null"}}
    \union {[Plain(ListOf(<<SearchBusiness>>)) EXCEPT !.numbers = n] : n \in Numbers}
    \union {[Plain(ListOf(<<SearchBusiness>>)) EXCEPT !.level = "verbose"]}
    \union {Plain(l) : l \in Lists}

Circle == ListOf(<<Node("a", <<"b">>), Node("b", <<"a">>)>>)
Chain == ListOf(<<Node("a", <<>>), Node("b", <<"a">>)>>)

\* search.yaml and search.yml, with a filter and rank_config in one only; a
\* file that is no YAML.
Directories ==
    { {}, {File("search", Chain), File("sug", Circle)},
      {[File("search", Chain) EXCEPT !.filter = ListOf(<<Node("a", <<>>), Node("none", <<>>)>>),
                                     !.rank_config = <<[top_k |-> -1, processors |-> Absent]>>],
       [File("search", NotAList) EXCEPT !.postprocess = NotAList],
       [File("sug", Chain) EXCEPT !.state = "unreadable"]} }

\* A site without documents, whose clients search and ask for a suggestion.
Ask(route, params, body) == [route |-> route, params |-> params, body |-> body]

NoSite ==
    [docs |-> Nothing, stats |-> Nothing, cooccur |-> {},
     asks |-> {Ask("search", "q" :> <<"a">>, Nothing), Ask("search", Nothing, Nothing),
              Ask("sug", "q" :> <<"a">>, Nothing)}]

\* A site with documents.
Doc(title, tags, category, clicks) ==
    [title |-> title, tags |-> tags, category |-> category, clicks |-> clicks]

SomeDocs ==
    [d1 |-> Doc(<<"a", "b">>, {<<"a", "c">>, <<"b">>}, "x", 3),
     d2 |-> Doc(<<"a", "c">>, {<<"a", "c">>}, "x", 0),
     d3 |-> Doc(<<"b", "a">>, {<<"a", "b">>}, "", 2)]

Site ==
    [docs |-> SomeDocs,
     stats |-> <<"a", "b">> :> 1 @@ <<"a", "c", "b">> :> 2,
     cooccur |-> {[src |-> "d1", dst |-> "d3", freq |-> 2], [src |-> "d1", dst |-> "gone", freq |-> 1],
                  [src |-> "gone", dst |-> "d1", freq |-> 1]},
     asks |-> {Ask("sug", "q" :> <<"a">>, Nothing), Ask("sug", "query" :> <<"b">>, Nothing),
               Ask("sug", "q" :> <<"a">>, "q" :> <<"a", "b">> @@ "query" :> <<"b">>),
               Ask("sug", Nothing, Nothing), Ask("hint", Nothing, Nothing),
               Ask("hint", "doc_id" :> "d1" @@ "q" :> <<"a", "b">>, Nothing),
               Ask("hint", "doc_id" :> "gone", Nothing), Ask("hint", "doc_id" :> "d2", Nothing),
               Ask("nav", Nothing, Nothing)}]

Scorer(names) ==
    [name |-> "WeightedSumScorer", weight |-> 1,
     features |-> [i \in DOMAIN names |-> [name |-> names[i], weight |-> 1]]]

Ranking(top_k, names) == <<[top_k |-> top_k, processors |-> ListOf(<<Scorer(names)>>)]>>

Recalls(names) == ListOf([i \in DOMAIN names |-> Node(names[i], <<>>)])

SugFile(ranking) ==
    [File("sug", Recalls(<<"SugTrieRecallProcessor">>)) EXCEPT !.rank_config = ranking]
HintFile(top_k) ==
    [File("hint", Recalls(<<"HintTagRecall", "HintCategoryRecall", "HintCooccurRecall",
                            "HintQueryExpandRecall">>))
        EXCEPT !.rank_config = Ranking(top_k, <<"tag_relevance", "category_relevance",
                                               "cooccur_score", "query_relevance">>)]
NavFile ==
    [File("nav", Recalls(<<"NavGlobalHotRecall", "NavDocTitleRecall", "NavPresetRecall">>))
        EXCEPT !.rank_config = Ranking(2, <<"heat">>)]

HintBusiness == Business("hint", "HintBizHandler", "Session", FALSE)
NavBusiness == Business("nav", "NavBizHandler", "Session", FALSE)
NavBySug == Business("nav", "SugBizHandler", "Session", FALSE)

SuggestionFiles ==
    {{SugFile(Ranking(8, <<"prefix_match", "freq_norm", "freshness">>)), HintFile(8), NavFile},
     {SugFile(Ranking(2, <<"pm", "fn", "fs">>)), HintFile(2), NavFile}}

MCDeployments ==
    {[main |-> Plain(ListOf(<<SearchBusiness>>)), files |-> {File("search", g)}, site |-> NoSite] :
        g \in Graphs}
    \union {[main |-> m, files |-> d, site |-> NoSite] : m \in Mains, d \in Directories}
    \union {[main |-> Plain(ListOf(l)), files |-> d, site |-> Site] :
              l \in {<<SugBusiness, HintBusiness, NavBusiness>>, <<SugBusiness, NavBySug>>}, d \in SuggestionFiles}
=============================================================================
