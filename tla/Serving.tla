------------------------------- MODULE Serving -------------------------------
(***************************************************************************)
(* The server after its start: the requests that come in by the routes of  *)
(* the HTTP server, their way through Server::HandleRequest, the handlers  *)
(* of sug, hint and nav, and what these share: the query statistics, which *)
(* every suggestion request adds to, and the trie, which is built from     *)
(* them and from docs.db when the handler is created, by a task and by an  *)
(* admin.  Searches are modelled in SearchRequest, rebuilds of the trie    *)
(* next to requests in HotSwap.                                            *)
(***************************************************************************)
EXTENDS Startup, Suggestions

CONSTANT MaxTurns    \* bound: requests, rebuilds and deletes

ASSUME TurnsAssumption == MaxTurns \in Nat
ASSUME PresetAssumption == IsFiniteSet(PresetWords)

Word == Seq(STRING)

\* What the tables hold: nobody clicks from a document to the same document
\* (EventHandler's ChainInv), and a count begins at 1.
IsDocs(table) ==
    /\ IsFiniteSet(DOMAIN table) /\ DOMAIN table \subseteq STRING
    /\ \A d \in DOMAIN table :
         /\ table[d] \in [title : Word, tags : SUBSET Word, category : STRING, clicks : Nat]
         /\ IsFiniteSet(table[d].tags)
IsStats(table) ==
    /\ IsFiniteSet(DOMAIN table) /\ DOMAIN table \subseteq Word
    /\ \A q \in DOMAIN table : table[q] \in Nat \ {0}
IsCooccur(table) == IsFiniteSet(table) /\ \A r \in table : r.src # r.dst

IsAsk(http) ==
    \A fields \in {http.params, http.body} : \A name \in DOMAIN fields :
        fields[name] \in (IF name = "doc_id" THEN STRING ELSE Word)

ASSUME SitesAssumption ==
    \A d \in Deployments :
        /\ IsDocs(d.site.docs) /\ IsStats(d.site.stats) /\ IsCooccur(d.site.cooccur)
        /\ \A http \in d.site.asks : IsAsk(http)

VARIABLES
    asks,       \* the requests the clients of this deployment make
    docs,       \* docs.db
    cooccur,    \* doc_cooccur
    stats,      \* query_stats
    trie,       \* active_buffer_, as its entries
    rebuilt,    \* history: what the last rebuild of the trie has read
    answer,     \* what the last step answered, if it was a request
    turns       \* how many requests, rebuilds and deletes there were

vars == <<startVars, asks, docs, cooccur, stats, trie, rebuilt, answer, turns>>

NoAnswer == [status |-> "none"]

Init ==
    /\ \E d \in Deployments :
         /\ StartInit(d)
         /\ asks = d.site.asks
         /\ docs = d.site.docs
         /\ cooccur = d.site.cooccur
         /\ stats = d.site.stats
    /\ trie = {}
    /\ rebuilt = [docs |-> Nothing, stats |-> Nothing]
    /\ answer = NoAnswer
    /\ turns = 0

-----------------------------------------------------------------------------
(* The trie and the handlers' ExtraInit.                                   *)

\* The handlers that open the two tables when they are created.
StatsOpen(created) == "SugBizHandler" \in created
CooccurOpen == "HintBizHandler" \in DOMAIN handling

\* SugBizHandler::RebuildTrie.
RebuildTrie(created) ==
    LET readable == Opened(stats, StatsOpen(created))
    IN  /\ trie' \in Entries(docs, readable)
        /\ rebuilt' = [docs |-> docs, stats |-> readable]

\* A handler is created and its ExtraInit called; again for each business
\* that names it.
StartHandler ==
    /\ InitHandler
    /\ IF Businesses[entry].handler_name = "SugBizHandler" /\ phase' = phase
       THEN RebuildTrie({"SugBizHandler"})
       ELSE UNCHANGED <<trie, rebuilt>>
    /\ UNCHANGED <<asks, docs, cooccur, stats, answer, turns>>

Boot ==
    /\ Boots
    /\ UNCHANGED <<asks, docs, cooccur, stats, trie, rebuilt, answer, turns>>

\* The task, when it is enabled, or an admin.
RebuildRequest ==
    /\ phase = "serving"
    /\ turns < MaxTurns
    /\ turns' = turns + 1
    /\ RebuildTrie(DOMAIN handling)
    /\ answer' = NoAnswer
    /\ UNCHANGED <<startVars, asks, docs, cooccur, stats>>

\* A document is removed from docs.db; the rows of doc_cooccur stay.
DeleteDoc(d) ==
    /\ phase = "serving"
    /\ turns < MaxTurns
    /\ turns' = turns + 1
    /\ docs' = [e \in DOMAIN docs \ {d} |-> docs[e]]
    /\ answer' = NoAnswer
    /\ UNCHANGED <<startVars, asks, cooccur, stats, trie, rebuilt>>

-----------------------------------------------------------------------------
(* Server::HandleRequest.                                                  *)

\* A field is taken from the body before the parameters.  Of the two names of
\* the query, query goes first in the parameters and q in the body.
FirstGiven(values, default) ==
    IF values = <<>> THEN default ELSE Head(values)

GivenAs(fields, name) == IF name \in DOMAIN fields THEN <<fields[name]>> ELSE <<>>

QueryOf(http) ==
    FirstGiven(GivenAs(http.body, "q") \o GivenAs(http.body, "query")
                 \o GivenAs(http.params, "query") \o GivenAs(http.params, "q"), <<>>)
DocIdOf(http) ==
    FirstGiven(GivenAs(http.body, "doc_id") \o GivenAs(http.params, "doc_id"), "")

-----------------------------------------------------------------------------
(* The handlers of sug, hint and nav.                                      *)

\* The name each writes its candidates under, and reads its results under.
KindOf == [SugBizHandler |-> "sug", HintBizHandler |-> "hint", NavBizHandler |-> "nav"]
Suggests(h, c) == h \in DOMAIN KindOf /\ KindOf[h] = c.business_type

\* InterposeCheckQuery lets every query pass.
HintCanSearch(d) == d # ""
QueryCanSearch(q) == q # <<>>

CanSearch(h, q, d) ==
    /\ h = "HintBizHandler" => HintCanSearch(d)
    /\ h \in {"SearchBizHandler", "SugBizHandler"} => QueryCanSearch(q)

\* The outcomes of one node of a recall graph.
Recall(processor, q, d) ==
    CASE processor = "SugTrieRecallProcessor" -> SugTrieRecall(trie, q)
      [] processor = "HintTagRecall" -> HintTagRecall(docs, d)
      [] processor = "HintCategoryRecall" -> HintCategoryRecall(docs, d)
      [] processor = "HintCooccurRecall" -> HintCooccurRecall(docs, cooccur, d, CooccurOpen)
      [] processor = "HintQueryExpandRecall" ->
            HintQueryExpandRecall(Opened(stats, StatsOpen(DOMAIN handling)), q)
      [] processor = "NavGlobalHotRecall" ->
            NavGlobalHotRecall(Opened(stats, StatsOpen(DOMAIN handling)))
      [] processor = "NavDocTitleRecall" -> NavDocTitleRecall(docs)
      [] processor = "NavPresetRecall" -> NavPresetRecall
      [] OTHER -> {{}}

\* MergeRecall: one outcome of each node together; a node that the time-out
\* has caught gives nothing.
MergeRecall(c, skipped, q, d) ==
    LET ran == DOMAIN RecallNodes(c) \ skipped
        outcomes(i) == Recall(pipelines[c.business_type].recall.slots[i], q, d)
    IN  {UNION {pick[i] : i \in ran} :
            pick \in {p \in [ran -> UNION {outcomes(i) : i \in ran}] :
                        \A i \in ran : p[i] \in outcomes(i)}}

\* The candidates are written under the kind of the handler, read under the
\* business type of its configuration, the results the other way round: with
\* two names nothing is found.
Suggested(h, c, skipped, q, d) ==
    LET b == c.business_type
    IN  IF CanSearch(h, q, d) /\ ~c.skip_rank /\ Suggests(h, c) /\ b \in DOMAIN rankConfig
        THEN UNION {Ranked(found, rankConfig[b]) : found \in MergeRecall(c, skipped, q, d)}
        ELSE {{}}

Reply(http, status, items, late) ==
    [status |-> status, route |-> http.route, query |-> QueryOf(http), doc |-> DocIdOf(http),
     items |-> items, late |-> late]

\* SetResponse of sug counts every query that is not empty, whether or not
\* something was found for it.
SugSetResponse(h, q) ==
    stats' = IF h = "SugBizHandler" /\ q # <<>> THEN IncrementQuery(stats, q, TRUE) ELSE stats

\* Server::Search finds no handler.
NoHandler(http) ==
    /\ http.route \notin DOMAIN routed
    /\ answer' = Reply(http, "500", {}, FALSE)
    /\ UNCHANGED stats

\* The recall graph runs, if CanSearch lets it, and does not return.
Hangs(http) ==
    /\ http.route \in DOMAIN routed
    /\ CanSearch(routed[http.route], QueryOf(http), DocIdOf(http))
    /\ ~ExecuteReturns(RecallNodes(ConfigFor(http.route)))
    /\ answer' = Reply(http, "waits", {}, FALSE)
    /\ UNCHANGED stats

\* The way of a request through the handler; that of a search is left to
\* SearchRequest.
Answers(http) ==
    LET b == http.route
        q == QueryOf(http)
        d == DocIdOf(http)
    IN  /\ b \in DOMAIN routed
        /\ CanSearch(routed[b], q, d) => ExecuteReturns(RecallNodes(ConfigFor(b)))
        /\ \E skipped \in SUBSET DOMAIN RecallNodes(ConfigFor(b)) :
             \E items \in Suggested(routed[b], ConfigFor(b), skipped, q, d) :
                answer' = Reply(http, "200", items, skipped # {})
        /\ SugSetResponse(routed[b], q)

\* The request of a client, from HandleRequest to the status of the reply.
Request(http) ==
    /\ phase = "serving"
    /\ turns < MaxTurns
    /\ turns' = turns + 1
    /\ NoHandler(http) \/ Hangs(http) \/ Answers(http)
    /\ UNCHANGED <<startVars, asks, docs, cooccur, trie, rebuilt>>

\* main has returned, or the clients are gone.
Rest ==
    /\ phase = "exited" \/ (phase = "serving" /\ turns = MaxTurns)
    /\ UNCHANGED vars

Next ==
    \/ Boot \/ StartHandler
    \/ \E http \in asks : Request(http)
    \/ RebuildRequest
    \/ \E d \in DOMAIN docs : DeleteDoc(d)
    \/ Rest

Spec == Init /\ [][Next]_vars

-----------------------------------------------------------------------------
(* Properties.                                                             *)

TypeOK ==
    /\ StartTypeOK
    /\ DOMAIN docs \subseteq STRING
    /\ \A q \in DOMAIN stats : stats[q] \in Nat \ {0}
    /\ trie = {} \/ phase \in {"handlers", "serving", "exited"}
    /\ answer.status \in {"none", "200", "500", "waits"}
    /\ turns \in 0..MaxTurns

\* Kahn's algorithm in BuildDag refuses a recall graph exactly when some of
\* its nodes wait for one another or for a node that is not there, and a
\* request waits for ever exactly when the graph it runs was refused at the
\* start, which the log is all that tells: processor_pipeline.cpp:170 ignores
\* what LoadFromConfig returns.  Graphs that are accepted cannot block
\* anybody, whatever nodes are disabled, unregistered or have the same name.
GraphsRunOrRefused ==
    /\ \A b \in DOMAIN pipelines :
         LET g == pipelines[b].recall
         IN  WaitForEachOther(g.nodes) <=> g.nodes # <<>> /\ ~g.loaded
    /\ answer.status = "waits" =>
         /\ ~ConfigFor(answer.route).skip_search
         /\ ~pipelines[ConfigFor(answer.route).business_type].recall.loaded

\* The last step answered a request by a handler.
AnsweredBy(h) == answer.status = "200" /\ answer.route \in DOMAIN routed /\ routed[answer.route] = h

\* No recall of the request was cut short, and the business has the processor
\* and ranks what it finds.
Ran(h, processor) ==
    LET c == ConfigFor(answer.route)
    IN  /\ ~answer.late /\ ~c.skip_rank /\ Suggests(h, c)
        /\ CanSearch(h, answer.query, answer.doc)
        /\ \E i \in DOMAIN RecallNodes(c) :
             pipelines[c.business_type].recall.slots[i] = processor
        /\ c.business_type \in DOMAIN rankConfig
        /\ rankConfig[c.business_type].processors # <<>>

\* The ranking has not cut anything.
Uncut ==
    Cardinality(answer.items) < TopK(rankConfig[ConfigFor(answer.route).business_type])

\* How often what is said to have the word was clicked or asked for, when the
\* trie was last rebuilt; 0 when nothing had it.
Popularity(word, source, from) ==
    CASE source = "title" /\ from \in DOMAIN rebuilt.docs /\ rebuilt.docs[from].title = word ->
            Max({1, rebuilt.docs[from].clicks})
      [] source = "tag" /\ from \in DOMAIN rebuilt.docs /\ word \in rebuilt.docs[from].tags ->
            Max({1, rebuilt.docs[from].clicks \div 2})
      [] source = "user_query" /\ word \in DOMAIN rebuilt.stats -> rebuilt.stats[word]
      [] OTHER -> 0

\* What there was to suggest for a query at the last rebuild.
Matching(q) ==
    {e \in {<<rebuilt.docs[d].title, "title", d>> : d \in DOMAIN rebuilt.docs}
           \union (UNION {{<<w, "tag", d>> : w \in rebuilt.docs[d].tags} : d \in DOMAIN rebuilt.docs})
           \union {<<w, "user_query", "">> : w \in DOMAIN rebuilt.stats} :
        IsPrefix(q, e[1]) /\ (e[2] = "tag" => Len(e[1]) >= 2)}

\* A query that RebuildTrie surely took, however it broke ties.
SurelyTaken(q) ==
    Cardinality({p \in DOMAIN rebuilt.stats : rebuilt.stats[p] >= rebuilt.stats[q]}) <= TopQueries

\* A suggestion of the trie begins with the query and was a title, a tag or a
\* query at the last rebuild, however documents and statistics have changed
\* since; fewer than SearchLimit of those, but for queries RebuildTrie need
\* not have taken, are more frequent, though the nodes of the trie keep only
\* NodeCap entries each and the score may order them otherwise; and when
\* nothing had to be cut, all of them are suggested.
SuggestsTheFrequent ==
    AnsweredBy("SugBizHandler") =>
        LET all == Matching(answer.query)
            frequency(e) == Popularity(e[1], e[2], e[3])
            fromTrie == {x \in answer.items : x.source \in {"title", "tag", "user_query"}}
            shown == {<<x.word, x.source, x.from>> : x \in fromTrie}
        IN  /\ shown \subseteq all
            /\ \A e \in shown :
                 Cardinality({f \in all : /\ frequency(f) > frequency(e)
                                          /\ f[2] = "user_query" => SurelyTaken(f[1])})
                    < SearchLimit
            /\ /\ Ran("SugBizHandler", "SugTrieRecallProcessor")
               /\ Cardinality(DOMAIN rebuilt.stats) <= TopQueries
               /\ Cardinality(all) <= Min({NodeCap, SearchLimit})
               /\ Uncut
               => shown = all

\* A hint for a document is the title of another document that is stored now
\* and has in common with it what its source says, or a query somebody asked
\* before that begins like this one and is not this one; and when nothing had
\* to be cut, every other titled document of its category is there.
HintsLeadElsewhere ==
    AnsweredBy("HintBizHandler") =>
        LET d == answer.doc
            q == answer.query
        IN
        /\ \A x \in answer.items :
             /\ x.source \in {"tag_match", "category_hot", "cooccur"} =>
                    x.from \in DOMAIN docs \ {d} /\ docs[x.from].title = x.word
             /\ x.source = "tag_match" =>
                    d \in DOMAIN docs /\ docs[x.from].tags \cap docs[d].tags # {}
             /\ x.source = "category_hot" =>
                    d \in DOMAIN docs /\ docs[x.from].category = docs[d].category
             /\ x.source = "cooccur" => \E r \in cooccur : r.src = d /\ r.dst = x.from
             /\ x.source = "query_expand" =>
                    /\ x.word \in DOMAIN stats \ {q}
                    /\ q # <<>> /\ IsPrefix(SubSeq(q, 1, Min({ExpandPrefix, Len(q)})), x.word)
        /\ Ran("HintBizHandler", "HintCategoryRecall") /\ Uncut /\ d \in DOMAIN docs =>
             \A e \in DOMAIN docs \ {d} :
                docs[e].title # <<>> /\ docs[d].category # "" /\ docs[e].category = docs[d].category =>
                    \E x \in answer.items : x.word = docs[e].title
=============================================================================
