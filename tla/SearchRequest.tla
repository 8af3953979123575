--------------------------- MODULE SearchRequest ---------------------------
(***************************************************************************)
(* framework/server/server.cpp and framework/handler/base_handler.cpp: one *)
(* request from Server::Search through the stages of BaseHandler::Search   *)
(* and back, with the stages of the search business                        *)
(* (biz/search/search_handler.cpp, the filters and the MMR reranker) and   *)
(* of the suggestion, hint and navigation businesses, which only override  *)
(* MergeRecall, CanSearch, SetResponse and Report.                         *)
(*                                                                         *)
(* A session belongs to one thread: what moves besides its stages is the   *)
(* clock.  Candidate lists are sets where the code sorts them before their *)
(* order matters (std::sort leaves equal scores in any order); scores are  *)
(* arbitrary, as the features and the models are.                          *)
(***************************************************************************)
EXTENDS Integers, Sequences, FiniteSets

CONSTANTS
    Docs,        \* documents, or the entries a list business recalls
    Titles,      \* classes of similar titles; NoTitle is the empty title
    NoTitle,
    SpamTitles,  \* titles SpamFilter drops: empty, repetitive or all capitals
    Poor,        \* documents below the thresholds of QualityFilter
    Blacklisted, \* documents of the blacklist file
    Filters,     \* filter_stages, in order
    Scores,      \* values of the coarse and of the fine score
    Configs,     \* the skip_* flags a business may be configured with
    RankTopK,    \* cut of AfterRank (500)
    ListTopK,    \* top_k of the rank stage of the list businesses (6 or 8)
    RerankTopK,  \* cut of AfterRerank (100)
    MmrTopK,     \* top_k of the MMR stage (20)
    Pages        \* page numbers and page sizes a client sends

ASSUME DocsAssumption == IsFiniteSet(Docs)
ASSUME TitlesAssumption == NoTitle \in Titles /\ NoTitle \in SpamTitles
ASSUME FiltersAssumption == Filters \in Seq({"Dedup", "Quality", "Spam", "Blacklist"})
ASSUME ScoresAssumption == Scores \subseteq Nat /\ 0 \in Scores
ASSUME ConfigsAssumption ==
    Configs \subseteq [skip_search : BOOLEAN, skip_rank : BOOLEAN, skip_interpose : BOOLEAN]
ASSUME CutsAssumption == {RankTopK, ListTopK, RerankTopK, MmrTopK} \union Pages \subseteq Nat \ {0}

VARIABLES
    business,    \* business_type of the request
    config,      \* BusinessConfig of its handler
    pc,          \* the stage the request is in
    code,        \* what BaseHandler::Search returns
    late,        \* Session::IsTimedOut()
    step,        \* the next filter of the filter pipeline
    recall,      \* SearchSession::recall_results, or *_recall_docs
    coarse,      \* coarse_rank_results
    fine,        \* fine_rank_results
    final,       \* final_results
    vector,      \* *_rank_vector of the list businesses
    title,       \* title of each candidate after MergeRecall
    coarseScore, \* coarse_score, or the score of a list item
    fineScore,   \* lgbm_score of the rerank stage
    response,    \* Session::response
    reply,       \* the CommonResponse Server::Search fills
    opened,      \* history: InitSession has succeeded
    finals,      \* history: runs of the scope guard
    impressions, \* history: impressions sent to ReportStore
    ranked       \* history: fine_rank_results as AfterRerank left it

flow  == <<business, config>>
lists == <<recall, coarse, fine, final, vector, ranked>>
data  == <<title, coarseScore, fineScore>>
told  == <<reply, opened, finals, impressions>>
vars  == <<flow, pc, code, late, step, lists, data, response, told>>

Empty(r) == [ret |-> r, total |-> 0, items |-> <<>>]
NoResponse == Empty(0)

\* The businesses of framework.yaml return 0 from every stage; a handler of
\* another business ("custom") overrides any stage.
Shipped == {"search", "list"}
Codes == IF business = "custom" THEN {-1, 0, 1} ELSE {0}

Init ==
    /\ business \in {"search", "list", "custom", "unknown"}
    /\ config \in Configs
    /\ pc = "create"
    /\ code = 0
    /\ late = FALSE
    /\ step = 1
    /\ recall = {} /\ coarse = {} /\ fine = {} /\ ranked = {}
    /\ final = <<>> /\ vector = <<>>
    /\ title = [d \in Docs |-> NoTitle]
    /\ coarseScore = [d \in Docs |-> 0]
    /\ fineScore = [d \in Docs |-> 0]
    /\ response = NoResponse
    /\ reply = NoResponse
    /\ opened = FALSE
    /\ finals = 0
    /\ impressions = 0

-----------------------------------------------------------------------------
(* Helpers.                                                                *)

Smaller(a, b) == IF a < b THEN a ELSE b

\* Mutant: resize before sort.
AnyK(S, score, k) == {T \in SUBSET S : Cardinality(T) = Smaller(k, Cardinality(S))}

\* The scores the processors of a stage give to the features of the candidates S.
Scored(S) == {s \in [Docs -> Scores] : \A d \in Docs \ S : s[d] = 0}

\* What sort and resize(k) leave of S: the k best, any of those that tie.
TopK(S, score, k) ==
    {T \in SUBSET S : /\ Cardinality(T) = Smaller(k, Cardinality(S))
                      /\ \A t \in T, s \in S \ T : score[t] >= score[s]}

\* The ways to line up S.
Orders(S) == {q \in [1..Cardinality(S) -> S] : \A i, j \in DOMAIN q : q[i] = q[j] => i = j}

Sorted(q, score) == \A i, j \in DOMAIN q : i < j => score[q[i]] >= score[q[j]]

\* final_score after AfterRerank, and the relevance MMR reads: the fine score
\* where the model gave one above 0, the coarse score elsewhere.
Relevance == [d \in Docs |-> IF fineScore[d] > 0 THEN fineScore[d] ELSE coarseScore[d]]

\* The dedup filter compares with final_results; the candidates themselves are
\* not compared with each other.
Similar(d) == \E i \in DOMAIN final : title[final[i]] = title[d]

IsSpam(d) == title[d] \in SpamTitles

\* ShouldKeep of a filter.
Keeps(f, d) ==
    CASE f = "Dedup"     -> ~Similar(d)
      [] f = "Quality"   -> d \notin Poor
      [] f = "Spam"      -> ~IsSpam(d)
      [] f = "Blacklist" -> d \notin Blacklisted

\* MMRRerankProcessor: the most relevant candidate first, then whichever
\* balances relevance and diversity.  Its max_candidates (100) is not below
\* RerankTopK and cuts nothing.
MMR(S) ==
    {q \in UNION {Orders(T) : T \in SUBSET S} :
        /\ Len(q) = Smaller(MmrTopK, Cardinality(S))
        /\ q # <<>> => \A d \in S : Relevance[q[1]] >= Relevance[d]}

\* The page the response holds, cut from the whole result.
PageOf(q, page, size) == SubSeq(q, (page - 1) * size + 1, Smaller(page * size, Len(q)))

-----------------------------------------------------------------------------
(* Server::Search.                                                         *)

\* A session can always be made; a business nobody registered has no handler.
Route ==
    /\ pc = "create"
    /\ IF business = "unknown"
         THEN pc' = "done" /\ reply' = Empty(-10004)
         ELSE pc' = "init" /\ UNCHANGED reply
    /\ UNCHANGED <<flow, code, late, step, lists, data, response, opened, finals, impressions>>

\* Back from the handler: an error, or a copy of the session's response.
Answer ==
    /\ pc = "return"
    /\ pc' = "done"
    /\ reply' = IF code # 0 THEN Empty(code) ELSE response
    /\ UNCHANGED <<flow, code, late, step, lists, data, response, opened, finals, impressions>>

\* The clock passes the deadline of the session.
SessionExpires ==
    /\ pc \notin {"create", "done"}
    /\ ~late
    /\ late' = TRUE
    /\ UNCHANGED <<flow, pc, code, step, lists, data, response, told>>

-----------------------------------------------------------------------------
(* BaseHandler::Search.  Goto leaves everything but the stage alone.       *)

Goto(stage) ==
    /\ pc' = stage
    /\ UNCHANGED <<flow, late, step, lists, data, told>>

\* Mutant: an early return from outside the scope of the guard.
LeaveUnguarded(r) == code' = r /\ UNCHANGED response /\ Goto("return")

\* return r, through the scope guard.
Leave(r) == code' = r /\ UNCHANGED response /\ Goto("guard")

\* A stage that rejects the request: an empty answer, unless the business
\* wants its interposition to see it.
Reject ==
    \/ /\ response' = NoResponse
       /\ code' = 0
       /\ Goto("guard")
    \/ business = "custom" /\ UNCHANGED <<code, response>> /\ Goto("interpose")

InitSession ==
    /\ pc = "init"
    /\ code' \in Codes
    /\ opened' = (code' = 0)
    /\ pc' = IF code' = 0 THEN "cansearch" ELSE "return"
    /\ UNCHANGED <<flow, late, step, lists, data, response, reply, finals, impressions>>

\* The query is empty or blocked, or it may go on.
CanSearch ==
    /\ pc = "cansearch"
    /\ Reject \/ (UNCHANGED <<code, response>> /\ Goto("presearch"))

PreSearch ==
    /\ pc = "presearch"
    /\ \E r \in Codes : \/ r < 0 /\ Leave(r)
                        \/ r > 0 /\ Reject
                        \/ r = 0 /\ UNCHANGED <<code, response>> /\ Goto("search")

\* The recall graph and MergeRecall: whatever the sources found, with the
\* titles of the rows that docs.db still holds.
Recall ==
    /\ business \in Shipped
    /\ recall' \in SUBSET Docs
    /\ title' \in {t \in [Docs -> Titles] : \A d \in Docs \ recall' : t[d] = NoTitle}
    /\ UNCHANGED <<flow, code, late, step, coarse, fine, final, vector, ranked, coarseScore,
                   fineScore, response, told>>

DoSearch ==
    /\ pc = "search"
    /\ IF config.skip_search
         THEN UNCHANGED <<code, response>> /\ Goto("beforerank")
         ELSE \/ Recall /\ pc' = "beforerank"
              \/ /\ business = "custom"
                 /\ \E r \in Codes : \/ r < 0 /\ Leave(r)
                                     \/ r > 0 /\ Reject
                                     \/ r = 0 /\ UNCHANGED <<code, response>> /\ Goto("beforerank")

BeforeRank ==
    /\ pc = "beforerank"
    /\ IF config.skip_rank
         THEN UNCHANGED <<code, response>> /\ Goto("rerank")
         ELSE \E r \in Codes : \/ r < 0 /\ Leave(r)
                               \/ r > 0 /\ Reject
                               \/ r = 0 /\ UNCHANGED <<code, response>> /\ Goto("rank")

\* AfterRank of the search business; the others have none.
SortAndCut(score) ==
    \E T \in TopK(recall, score, RankTopK) : recall' = T /\ coarse' = T

\* CommonDoRank: score the candidates and put them in order.
Rank ==
    /\ coarseScore' \in Scored(recall)
    /\ \/ /\ business = "search"
          /\ SortAndCut(coarseScore')
          /\ UNCHANGED vector
       \/ /\ business = "list"
          /\ vector' \in UNION {Orders(T) : T \in TopK(recall, coarseScore', ListTopK)}
          /\ Sorted(vector', coarseScore')
          /\ UNCHANGED <<recall, coarse>>
    /\ pc' = "afterrank"
    /\ UNCHANGED <<flow, code, late, step, fine, final, ranked, title, fineScore, response, told>>

\* A failed ranking goes on when RankFallback succeeds.
DoRank ==
    /\ pc = "rank"
    /\ \/ recall # {} /\ Rank
       \/ recall = {} /\ UNCHANGED <<code, response>> /\ Goto("afterrank")
       \/ \E fallback \in Codes \ {0} : Leave(fallback)

\* Called again by Search, after CommonDoRank has called it.
AfterRank ==
    /\ pc = "afterrank"
    /\ IF business = "search" THEN SortAndCut(coarseScore) ELSE UNCHANGED <<recall, coarse>>
    /\ pc' = "rerank"
    /\ UNCHANGED <<flow, code, late, step, fine, final, vector, ranked, data, response, told>>

\* CommonDoRerank and AfterRerank; no list business has rerank processors.
Rerank ==
    /\ business = "search"
    /\ coarse # {}
    /\ UNCHANGED <<flow, code, late, step, recall, final, vector, title, coarseScore, response, told>>
    /\ fineScore' \in Scored(coarse)
    /\ \E T \in TopK(coarse, Relevance', RerankTopK) : coarse' = T /\ fine' = T /\ ranked' = T
    /\ pc' = "interpose"

\* Its return code is only logged.
DoRerank ==
    /\ pc = "rerank"
    /\ \/ Rerank
       \/ /\ business = "search" => coarse = {}
          /\ UNCHANGED <<code, response>>
          /\ Goto("interpose")

-----------------------------------------------------------------------------
(* DoInterpose.  No business provides interposition rules: for all but the *)
(* search business there is nothing to do.                                 *)

Interpose ==
    /\ pc = "interpose"
    /\ UNCHANGED <<code, response>>
    /\ Goto(IF config.skip_interpose \/ business # "search" THEN "respond" ELSE "filter")

\* Mutant: a time-out ends DoInterpose instead of the filter pipeline.
RunFilterOrGiveUp ==
    /\ pc = "filter"
    /\ step <= Len(Filters)
    /\ fine' = {d \in fine : Keeps(Filters[step], d)}
    /\ step' = step + 1
    /\ pc' = IF late THEN "respond" ELSE "filter"
    /\ UNCHANGED <<flow, code, late, recall, coarse, final, vector, ranked, data, response, told>>

\* One filter of the pipeline, and the time-out behind it.  A filter works on
\* the fine results, or on the coarse ones once the fine ones are gone.
RunFilter ==
    /\ pc = "filter"
    /\ step <= Len(Filters)
    /\ LET kept(S) == {d \in S : Keeps(Filters[step], d)} IN
         IF fine = {} THEN coarse' = kept(coarse) /\ UNCHANGED fine
                      ELSE fine' = kept(fine) /\ UNCHANGED coarse
    /\ step' = step + 1
    /\ pc' = IF late THEN "postprocess" ELSE "filter"
    /\ UNCHANGED <<flow, code, late, recall, final, vector, ranked, data, response, told>>

FiltersDone ==
    /\ pc = "filter"
    /\ step > Len(Filters)
    /\ UNCHANGED <<code, response>>
    /\ Goto("postprocess")

\* Mutant: an empty result falls back on the list of before the filters.
PostprocessOrFallBack ==
    /\ pc = "postprocess"
    /\ final' \in MMR(IF fine = {} THEN ranked ELSE fine)
    /\ fine' = {final'[i] : i \in DOMAIN final'}
    /\ pc' = "respond"
    /\ UNCHANGED <<flow, code, late, step, recall, coarse, vector, ranked, data, response, told>>

\* The postprocess pipeline reorders the fine results, which then become the
\* final ones.
Postprocess ==
    /\ pc = "postprocess"
    /\ final' \in MMR(fine)
    /\ fine' = {final'[i] : i \in DOMAIN final'}
    /\ pc' = "respond"
    /\ UNCHANGED <<flow, code, late, step, recall, coarse, vector, ranked, data, response, told>>

-----------------------------------------------------------------------------
(* The end of the request.                                                 *)

\* The list businesses answer all their items.
Listed == [ret |-> 0, total |-> Len(vector), items |-> vector]

\* The search business answers one page, and the size of the whole.
Paged(page, size) == [ret |-> 0, total |-> Len(final), items |-> PageOf(final, page, size)]

SetResponse ==
    /\ pc = "respond"
    /\ \E r \in Codes, page, size \in Pages :
          IF r # 0
            THEN Leave(r)
            ELSE /\ response' = IF business = "search" THEN Paged(page, size) ELSE Listed
                 /\ UNCHANGED code
                 /\ Goto("report")

\* The impressions of the answer, and the return of the template method.
Report ==
    /\ pc = "report"
    /\ impressions' = impressions + response.total
    /\ pc' = "guard"
    /\ code' = 0
    /\ UNCHANGED <<flow, late, step, lists, data, response, reply, opened, finals>>

\* The scope guard: ReportFinal and BeforeDestruct.
ScopeGuard ==
    /\ pc = "guard"
    /\ finals' = finals + 1
    /\ pc' = "return"
    /\ UNCHANGED <<flow, code, late, step, lists, data, response, reply, opened, impressions>>

\* The answer is on its way.
Done == pc = "done" /\ UNCHANGED vars

Stage ==
    \/ InitSession \/ CanSearch \/ PreSearch \/ DoSearch \/ BeforeRank \/ DoRank \/ AfterRank
    \/ DoRerank \/ Interpose \/ RunFilter \/ FiltersDone \/ Postprocess \/ SetResponse \/ Report
    \/ ScopeGuard

Next == Route \/ Stage \/ Answer \/ SessionExpires \/ Done

Spec == Init /\ [][Next]_vars

-----------------------------------------------------------------------------
(* Properties.                                                             *)

\* The filters that judge a document by itself.
Rejects(f, d) == f # "Dedup" /\ ~Keeps(f, d)
Rejected(d) == \E k \in DOMAIN Filters : Rejects(Filters[k], d)
Survivors == {d \in ranked : ~Rejected(d)}

Stages ==
    {"create", "init", "cansearch", "presearch", "search", "beforerank", "rank", "afterrank",
     "rerank", "interpose", "filter", "postprocess", "respond", "report", "guard", "return", "done"}

Lists == UNION {[1..n -> Docs] : n \in 0..Cardinality(Docs)}
Responses == [ret : Int, total : 0..Cardinality(Docs), items : Lists]

\* Every variable keeps its type.
TypeOK ==
    /\ business \in {"search", "list", "custom", "unknown"}
    /\ config \in Configs
    /\ pc \in Stages
    /\ code \in -1..1
    /\ late \in BOOLEAN
    /\ step \in 1..(Len(Filters) + 1)
    /\ recall \subseteq Docs /\ coarse \subseteq Docs /\ fine \subseteq Docs /\ ranked \subseteq Docs
    /\ final \in Lists /\ vector \in Lists
    /\ title \in [Docs -> Titles]
    /\ coarseScore \in [Docs -> Scores] /\ fineScore \in [Docs -> Scores]
    /\ response \in Responses /\ reply \in Responses
    /\ opened \in BOOLEAN
    /\ finals \in 0..1
    /\ impressions \in Nat

\* No answer of the search business holds a document that a filter rejects:
\* blacklisted, of poor quality, or without a title because its row in docs.db
\* is gone.  Only the filters skipped by a time-out in the middle of the
\* pipeline may be missing (processor_pipeline.cpp:95-117).  The filters work
\* on one of two lists and the answer is cut from a third.
FilteredNotAnswered ==
    business = "search" =>
        \A i \in DOMAIN reply.items, k \in DOMAIN Filters :
            Rejects(Filters[k], reply.items[i]) => late /\ k >= step

\* Ranking, two cuts, filters and MMR keep the best candidate in front: no
\* candidate of the coarse ranking that passes the filters is more relevant
\* than the first result, and no item cut from a list business's answer has a
\* higher score than one that stayed.
BestFirst ==
    pc = "done" =>
        /\ final # <<>> => \A d \in recall : Rejected(d) \/ Relevance[final[1]] >= Relevance[d]
        /\ \A i \in DOMAIN vector, d \in recall :
              (\A j \in DOMAIN vector : vector[j] # d) => coarseScore[vector[i]] >= coarseScore[d]

\* What the ranking left and no filter rejects is answered, up to the cut of
\* MMR: also when the session times out, and when a filter empties the fine
\* results and the next ones turn to the coarse list.  A business configured
\* with skip_interpose is left out: nothing fills its final_results.
SurvivorsAnswered ==
    pc = "done" /\ business = "search" /\ ~config.skip_interpose =>
        LET expected == Smaller(MmrTopK, Cardinality(Survivors)) IN
        IF late THEN reply.total >= expected ELSE reply.total = expected

\* However the template method is left, the scope guard runs exactly once for
\* a session that was initialised, and the impressions reported count the
\* results of the answer that reaches the client: none for an error or a
\* rejected request.
ReportedOnce ==
    /\ pc = "done" =>
          /\ finals = IF opened THEN 1 ELSE 0
          /\ impressions = reply.total
    /\ finals = 1 => pc \in {"return", "done"}

\* What the README says of the dedup filter and its comment of the comparison
\* with the results kept so far: no two results with similar titles.
NoNearDuplicates ==
    pc = "done" /\ business = "search" /\ ~late =>
        \A i, j \in DOMAIN reply.items :
            title[reply.items[i]] = title[reply.items[j]] => i = j
=============================================================================
