------------------------ MODULE SearchRequestProofs ------------------------
(***************************************************************************)
(* TLAPS proofs about SearchRequest, for any documents, titles, filters,   *)
(* scores, configurations and cuts: type correctness, what a filter        *)
(* rejects is not answered, what all of them keep is, the best first, and  *)
(* the final report.                                                       *)
(***************************************************************************)
EXTENDS SearchRequest, FiniteSetTheorems, SequenceTheorems, TLAPS

\* The stages inside the scope of the guard.
Inner == Stages \ {"create", "init", "guard", "return", "done"}

\* The session is opened inside the handler and reported when it has been
\* left; the impressions are sent with a response that is returned.
ReportInv ==
    /\ pc \in {"create", "init"} => ~opened
    /\ pc \in Inner \union {"guard"} => opened
    /\ pc \notin {"return", "done"} => finals = 0
    /\ pc \in {"return", "done"} => finals = IF opened THEN 1 ELSE 0
    /\ pc \notin {"guard", "return", "done"} => impressions = 0
    /\ pc \in {"guard", "return"} => impressions = IF code = 0 THEN response.total ELSE 0
    /\ pc = "return" /\ ~opened => code # 0
    /\ pc = "done" => impressions = reply.total

\* The stages up to the recall, up to the ranking, up to the filters and up to
\* the answer.
Opening   == {"create", "init", "cansearch", "presearch", "search"}
Ranking   == Opening \union {"beforerank", "rank", "afterrank", "rerank", "interpose"}
Filtering == Ranking \union {"filter", "postprocess"}
Answering == Filtering \union {"respond"}

\* What the filters that have run left in the lists and in the answer.
Clean(d) == \A k \in DOMAIN Filters : Rejects(Filters[k], d) => k >= step
CleanList(q) == \A i \in DOMAIN q : Clean(q[i]) /\ (late \/ step > Len(Filters))

PassInv ==
    business = "search" =>
        /\ pc \in Ranking => step = 1
        /\ pc \in Opening => fine = {}
        /\ pc \in Filtering => final = <<>>
        /\ pc \in Answering => response = NoResponse
        /\ pc # "done" => reply = NoResponse
        /\ \A d \in fine : Clean(d)
        /\ pc = "postprocess" => late \/ step > Len(Filters)
        /\ CleanList(final) /\ CleanList(response.items) /\ CleanList(reply.items)

\* Before AfterRerank has made the fine list.
Unranked == Ranking \ {"interpose"}

\* What the filters that have run leave of the ranked documents.
Passing == {d \in ranked : \A k \in DOMAIN Filters : Rejects(Filters[k], d) => k >= step}

\* How many of the survivors are due, and whether n answers are enough.
Due == Smaller(MmrTopK, Cardinality(Survivors))
Enough(n, due, cut) == IF cut THEN n >= due ELSE n = due

SurvivorInv ==
    business = "search" =>
        /\ code = 0
        /\ pc \in Unranked => ranked = {} /\ fine = {}
        /\ pc \in Filtering => fine = Passing
        /\ ~config.skip_interpose =>
              /\ pc = "respond" => Enough(Len(final), Due, late)
              /\ pc \in {"report", "guard", "return"} => Enough(response.total, Due, late)
              /\ pc = "done" => Enough(reply.total, Due, late)

\* The ranked documents are the best of the recalled ones, the first of the
\* final ones the best of those that are left, and a list business cuts the worst.
RankedBest == \A e \in ranked : \A d \in recall \ ranked : Relevance[e] >= Relevance[d]

FirstBest == final # <<>> => \A d \in recall : Rejected(d) \/ Relevance[final[1]] >= Relevance[d]

ListedBest ==
    \A i \in DOMAIN vector : \A d \in recall :
        (\A j \in DOMAIN vector : vector[j] # d) => coarseScore[vector[i]] >= coarseScore[d]

BestInv ==
    /\ business # "search" => final = <<>> /\ coarse = {}
    /\ pc \in {"filter", "postprocess"} => business = "search"
    /\ business # "list" => vector = <<>>
    /\ pc \in Opening \union {"beforerank"} => coarse = {}
    /\ pc \in Opening \union {"beforerank", "rank"} => vector = <<>>
    /\ pc \in Unranked => ranked = {}
    /\ pc = "rerank" => coarse \in {{}, recall}
    /\ RankedBest /\ FirstBest /\ ListedBest

IInv == TypeOK /\ ReportInv /\ PassInv /\ SurvivorInv /\ BestInv

-----------------------------------------------------------------------------
(* What the helpers return.                                                *)

LEMMA OrdersType ==
  ASSUME NEW S \in SUBSET Docs, NEW q \in Orders(S)
  PROVE  q \in Lists /\ (\A i \in DOMAIN q : q[i] \in S) /\ Len(q) \in 0..Cardinality(Docs)
  <1>1. Cardinality(S) \in 0..Cardinality(Docs)
    BY DocsAssumption, FS_Subset, FS_CardinalityType
  <1>2. q \in [1..Cardinality(S) -> S]
    BY DEF Orders
  <1>3. q \in [1..Cardinality(S) -> Docs]
    BY <1>2
  <1>4. Len(q) = Cardinality(S)
    BY <1>1, <1>2
  <1> QED
    BY <1>1, <1>2, <1>3, <1>4 DEF Lists

LEMMA MMRType ==
  ASSUME NEW S \in SUBSET Docs, NEW q \in MMR(S)
  PROVE  q \in Lists /\ (\A i \in DOMAIN q : q[i] \in S) /\ Len(q) \in 0..Cardinality(Docs)
  <1>1. PICK T \in SUBSET S : q \in Orders(T)
    BY DEF MMR
  <1> QED
    BY <1>1, OrdersType

\* A page is a list again, of members of the whole.
LEMMA PageType ==
  ASSUME NEW q \in Lists, NEW page \in Pages, NEW size \in Pages
  PROVE  /\ PageOf(q, page, size) \in Lists
         /\ \A i \in DOMAIN PageOf(q, page, size) :
               \E j \in DOMAIN q : PageOf(q, page, size)[i] = q[j]
  <1> DEFINE first == (page - 1) * size + 1
             last == Smaller(page * size, Len(q))
             p == PageOf(q, page, size)
  <1>1. PICK n \in 0..Cardinality(Docs) : q \in [1..n -> Docs]
    BY DEF Lists
  <1>2. Cardinality(Docs) \in Nat /\ n \in Nat /\ Len(q) = n
    BY <1>1, DocsAssumption, FS_CardinalityType
  <1>3. page \in Nat \ {0} /\ size \in Nat \ {0}
    BY CutsAssumption
  <1>4. (page - 1) * size \in Nat /\ page * size \in Nat
    BY <1>3
  <1>5. first \in Nat \ {0} /\ last \in Int /\ last <= n
    BY <1>2, <1>4 DEF Smaller
  <1>6. \A i \in first..last : i \in 1..n /\ q[i] \in Docs
    BY <1>1, <1>2, <1>5
  <1> HIDE DEF first, last
  <1>7. p = SubSeq(q, first, last)
    BY DEF PageOf, first, last
  <1>8. /\ p \in Seq(Docs)
        /\ Len(p) = IF first <= last THEN last - first + 1 ELSE 0
        /\ \A i \in 1..(last - first + 1) : p[i] = q[first + i - 1]
    BY <1>5, <1>6, <1>7, SubSeqProperties
  <1> HIDE DEF p
  <1>9. DOMAIN p = 1..Len(p) /\ Len(p) \in Nat /\ Len(p) <= n /\ p \in [1..Len(p) -> Docs]
    BY <1>2, <1>5, <1>8
  <1>10. p \in Lists
    BY <1>2, <1>9 DEF Lists
  <1>11. \A i \in DOMAIN p : p[i] = q[first + i - 1] /\ first + i - 1 \in 1..n
    BY <1>2, <1>5, <1>8, <1>9
  <1> QED
    BY <1>1, <1>10, <1>11 DEF p

LEMMA EmptyType == <<>> \in Lists
  <1>1. 0 \in 0..Cardinality(Docs)
    BY DocsAssumption, FS_CardinalityType
  <1>2. <<>> \in [1..0 -> Docs]
    OBVIOUS
  <1> QED
    BY <1>1, <1>2 DEF Lists

\* The responses that do not depend on a list.
LEMMA FixedResponses ==
  NoResponse \in Responses /\ \A r \in Int : Empty(r) \in Responses
  <1>1. 0 \in 0..Cardinality(Docs)
    BY DocsAssumption, FS_CardinalityType
  <1> QED
    BY <1>1, EmptyType DEF NoResponse, Empty, Responses

LEMMA ListLength ==
  ASSUME NEW q \in Lists
  PROVE  Len(q) \in 0..Cardinality(Docs)
  <1>1. PICK n \in 0..Cardinality(Docs) : q \in [1..n -> Docs]
    BY DEF Lists
  <1>2. Cardinality(Docs) \in Nat
    BY DocsAssumption, FS_CardinalityType
  <1> QED
    BY <1>1, <1>2

-----------------------------------------------------------------------------
(* Type correctness.                                                       *)

LEMMA InitType == Init => TypeOK
  <1> SUFFICES ASSUME Init PROVE TypeOK
    OBVIOUS
  <1>1. /\ title \in [Docs -> Titles]
        /\ coarseScore \in [Docs -> Scores] /\ fineScore \in [Docs -> Scores]
    BY TitlesAssumption, ScoresAssumption DEF Init
  <1>2. response \in Responses /\ reply \in Responses /\ final \in Lists /\ vector \in Lists
    BY EmptyType, FixedResponses DEF Init
  <1>3. step \in 1..(Len(Filters) + 1)
    BY FiltersAssumption DEF Init
  <1>4. /\ business \in {"search", "list", "custom", "unknown"} /\ config \in Configs
        /\ pc \in Stages /\ code \in -1..1
    BY DEF Init, Stages
  <1>5. /\ recall \subseteq Docs /\ coarse \subseteq Docs /\ fine \subseteq Docs /\ ranked \subseteq Docs
        /\ finals \in 0..1 /\ impressions \in Nat
    BY DEF Init
  <1>6. late \in BOOLEAN /\ opened \in BOOLEAN
    BY Zenon DEF Init
  <1> QED
    BY <1>1, <1>2, <1>3, <1>4, <1>5, <1>6, Zenon DEF TypeOK

\* What a stage does to the code and the response: it goes on, it leaves with
\* an error, or it rejects the request.
LEMMA StageCases ==
  ASSUME TypeOK,
         \/ CanSearch \/ PreSearch \/ DoSearch \/ BeforeRank \/ DoRank \/ AfterRank \/ DoRerank
         \/ Interpose \/ RunFilter \/ FiltersDone \/ Postprocess
  PROVE  /\ pc \in Inner
         /\ UNCHANGED <<flow, late, told>>
         /\ \/ pc' \in Inner /\ UNCHANGED <<code, response>>
            \/ pc' = "guard" /\ code' \in {-1, 1} /\ UNCHANGED <<response, step, lists, data>>
            \/ pc' = "guard" /\ code' = 0 /\ response' = NoResponse /\ UNCHANGED <<step, lists, data>>
  <1> USE DEF Inner, Stages, Goto, Leave, Reject, Codes
  <1>1. CASE CanSearch
    BY <1>1 DEF CanSearch
  <1>2. CASE PreSearch
    BY <1>2 DEF PreSearch
  <1>3. CASE DoSearch
    <2>1. CASE Recall
      BY <1>3, <2>1 DEF DoSearch, Recall
    <2>2. CASE ~Recall
      BY <1>3, <2>2 DEF DoSearch
    <2> QED
      BY <2>1, <2>2
  <1>4. CASE BeforeRank
    BY <1>4 DEF BeforeRank
  <1>5. CASE DoRank
    <2>1. CASE Rank
      BY <1>5, <2>1 DEF DoRank, Rank
    <2>2. CASE ~Rank
      BY <1>5, <2>2 DEF DoRank
    <2> QED
      BY <2>1, <2>2
  <1>6. CASE AfterRank
    BY <1>6 DEF AfterRank
  <1>7. CASE DoRerank
    <2>1. CASE Rerank
      BY <1>7, <2>1 DEF DoRerank, Rerank
    <2>2. CASE ~Rerank
      BY <1>7, <2>2 DEF DoRerank
    <2> QED
      BY <2>1, <2>2
  <1>8. CASE Interpose \/ FiltersDone
    BY <1>8 DEF Interpose, FiltersDone
  <1>9. CASE RunFilter
    BY <1>9 DEF RunFilter
  <1>10. CASE Postprocess
    BY <1>10 DEF Postprocess
  <1> QED
    BY <1>1, <1>2, <1>3, <1>4, <1>5, <1>6, <1>7, <1>8, <1>9, <1>10

\* The flags, apart: they stay Boolean.
LEMMA FlagType == TypeOK /\ [Next]_vars => late' \in BOOLEAN /\ opened' \in BOOLEAN
  <1> SUFFICES ASSUME TypeOK, [Next]_vars PROVE late' \in BOOLEAN /\ opened' \in BOOLEAN
    OBVIOUS
  <1>1. late \in BOOLEAN /\ opened \in BOOLEAN
    BY DEF TypeOK
  <1>2. CASE UNCHANGED vars
    BY <1>1, <1>2, Zenon DEF vars, told
  <1>3. CASE Route \/ Answer
    <2>1. UNCHANGED <<late, opened>>
      BY <1>3 DEF Route, Answer
    <2> QED
      BY <1>1, <2>1, Zenon
  <1>6. CASE SessionExpires
    BY <1>1, <1>6, Zenon DEF SessionExpires, told
  <1>7. CASE InitSession
    BY <1>1, <1>7, Zenon DEF InitSession
  <1>8. CASE Report \/ ScopeGuard
    BY <1>1, <1>8, Zenon DEF Report, ScopeGuard
  <1>9. CASE Done
    BY <1>1, <1>9, Zenon DEF Done, vars, told
  <1>4. CASE SetResponse
    BY <1>1, <1>4, Zenon DEF SetResponse, Leave, Goto, told
  <1>5. CASE \/ CanSearch \/ PreSearch \/ DoSearch \/ BeforeRank \/ DoRank \/ AfterRank \/ DoRerank
             \/ Interpose \/ RunFilter \/ FiltersDone \/ Postprocess
    <2>1. UNCHANGED <<late, told>>
      BY <1>5, StageCases
    <2> QED
      BY <1>1, <2>1, Zenon DEF told
  <1> QED
    BY <1>2, <1>3, <1>4, <1>5, <1>6, <1>7, <1>8, <1>9 DEF Next, Stage

LEMMA ServerType ==
  ASSUME TypeOK, ReportInv, Route \/ Answer \/ SessionExpires \/ InitSession \/ Report \/ ScopeGuard
  PROVE  /\ UNCHANGED <<flow, step, lists, data, response>>
         /\ pc' \in Stages /\ code' \in -1..1
         /\ reply' \in Responses
         /\ finals' \in 0..1 /\ impressions' \in Nat
  <1> USE DEF Stages
  <1>1. CASE Route
    BY <1>1, FixedResponses DEF Route, TypeOK
  <1>2. CASE Answer
    BY <1>2, FixedResponses DEF Answer, TypeOK
  <1>3. CASE SessionExpires
    <2>1. UNCHANGED <<flow, pc, code, step, lists, data, response, told>>
      BY <1>3 DEF SessionExpires
    <2> QED
      BY <2>1 DEF TypeOK, told
  <1>4. CASE InitSession
    BY <1>4 DEF InitSession, Codes, TypeOK
  <1>5. CASE Report
    <2>1. impressions = 0 /\ pc = "report" /\ response.total \in Nat
      <3>1. pc = "report"
        BY <1>5 DEF Report
      <3>2. response \in Responses /\ Cardinality(Docs) \in Nat
        BY DocsAssumption, FS_CardinalityType DEF TypeOK
      <3> QED
        BY <3>1, <3>2 DEF ReportInv, Responses
    <2>2. impressions' \in Nat
      BY <1>5, <2>1 DEF Report
    <2>3. /\ UNCHANGED <<flow, step, lists, data, response, reply, finals>>
          /\ pc' = "guard" /\ code' = 0
      BY <1>5 DEF Report
    <2> QED
      BY <2>2, <2>3 DEF TypeOK
  <1>6. CASE ScopeGuard
    <2>1. finals = 0 /\ pc = "guard"
      <3>1. pc = "guard"
        BY <1>6 DEF ScopeGuard
      <3> QED
        BY <3>1 DEF ReportInv
    <2> QED
      BY <1>6, <2>1 DEF ScopeGuard, TypeOK
  <1> QED
    BY <1>1, <1>2, <1>3, <1>4, <1>5, <1>6

LEMMA ResponseType ==
  ASSUME TypeOK, SetResponse
  PROVE  /\ UNCHANGED <<flow, late, step, lists, data, told>>
         /\ pc = "respond"
         /\ \/ pc' = "guard" /\ code' \in {-1, 1} /\ UNCHANGED response
            \/ /\ pc' = "report" /\ UNCHANGED code
               /\ response' \in Responses
               /\ business = "search" => \A i \in DOMAIN response'.items :
                                            \E j \in DOMAIN final : response'.items[i] = final[j]
  <1>1. PICK r \in Codes, page \in Pages, size \in Pages :
           IF r # 0
             THEN Leave(r)
             ELSE /\ response' = IF business = "search" THEN Paged(page, size) ELSE Listed
                  /\ UNCHANGED code
                  /\ Goto("report")
    BY DEF SetResponse
  <1>2. pc = "respond" /\ r \in -1..1
    BY DEF SetResponse, Codes
  <1>3. CASE r # 0
    BY <1>1, <1>2, <1>3 DEF Leave, Goto
  <1>4. CASE r = 0
    <2>1. final \in Lists /\ vector \in Lists
      BY DEF TypeOK
    <2>2. /\ PageOf(final, page, size) \in Lists
          /\ \A i \in DOMAIN PageOf(final, page, size) :
                \E j \in DOMAIN final : PageOf(final, page, size)[i] = final[j]
      BY <2>1, PageType
    <2>3. Len(final) \in 0..Cardinality(Docs) /\ Len(vector) \in 0..Cardinality(Docs)
      BY <2>1, ListLength
    <2>4. CASE business = "search"
      <3>1. response' = [ret |-> 0, total |-> Len(final), items |-> PageOf(final, page, size)]
        BY <1>1, <1>4, <2>4 DEF Paged
      <3>2. response' \in Responses
        BY <2>2, <2>3, <3>1 DEF Responses
      <3> QED
        BY <1>1, <1>2, <1>4, <2>2, <3>1, <3>2 DEF Goto
    <2>5. CASE business # "search"
      <3>1. response' = [ret |-> 0, total |-> Len(vector), items |-> vector]
        BY <1>1, <1>4, <2>5 DEF Listed
      <3>2. response' \in Responses
        BY <2>1, <2>3, <3>1 DEF Responses
      <3> QED
        BY <1>1, <1>2, <1>4, <2>5, <3>2 DEF Goto
    <2> QED
      BY <2>4, <2>5
  <1> QED
    BY <1>3, <1>4

\* The lists and the scores after a stage.
LEMMA ListType ==
  ASSUME TypeOK,
         \/ CanSearch \/ PreSearch \/ DoSearch \/ BeforeRank \/ DoRank \/ AfterRank \/ DoRerank
         \/ Interpose \/ RunFilter \/ FiltersDone \/ Postprocess
  PROVE  /\ recall' \subseteq Docs /\ coarse' \subseteq Docs /\ fine' \subseteq Docs
         /\ ranked' \subseteq Docs
         /\ final' \in Lists /\ vector' \in Lists
         /\ title' \in [Docs -> Titles]
         /\ coarseScore' \in [Docs -> Scores] /\ fineScore' \in [Docs -> Scores]
         /\ step' \in 1..(Len(Filters) + 1)
  <1>0. /\ recall \subseteq Docs /\ coarse \subseteq Docs /\ fine \subseteq Docs /\ ranked \subseteq Docs
        /\ final \in Lists /\ vector \in Lists
        /\ title \in [Docs -> Titles]
        /\ coarseScore \in [Docs -> Scores] /\ fineScore \in [Docs -> Scores]
        /\ step \in 1..(Len(Filters) + 1)
    BY DEF TypeOK
  <1>1. CASE UNCHANGED <<step, lists, data>>
    BY <1>0, <1>1 DEF lists, data
  <1>2. CASE CanSearch \/ PreSearch \/ BeforeRank \/ Interpose \/ FiltersDone
    <2>1. UNCHANGED <<step, lists, data>>
      BY <1>2 DEF CanSearch, PreSearch, BeforeRank, Interpose, FiltersDone, Goto, Leave, Reject
    <2> QED
      BY <1>1, <2>1
  <1>3. CASE DoSearch
    <2>1. CASE Recall
      BY <1>0, <2>1 DEF Recall
    <2>2. CASE ~Recall
      BY <1>1, <1>3, <2>2 DEF DoSearch, Goto, Leave, Reject
    <2> QED
      BY <2>1, <2>2
  <1>4. CASE DoRank
    <2>1. CASE Rank
      <3>1. coarseScore' \in [Docs -> Scores]
        BY <2>1 DEF Rank, Scored
      <3>2. UNCHANGED <<step, fine, final, ranked, title, fineScore>>
        BY <2>1 DEF Rank
      <3>3. CASE SortAndCut(coarseScore') /\ UNCHANGED vector
        BY <1>0, <3>1, <3>2, <3>3 DEF SortAndCut, TopK
      <3>4. CASE /\ vector' \in UNION {Orders(T) : T \in TopK(recall, coarseScore', ListTopK)}
                 /\ UNCHANGED <<recall, coarse>>
        <4>1. PICK T \in TopK(recall, coarseScore', ListTopK) : vector' \in Orders(T)
          BY <3>4
        <4>2. T \in SUBSET Docs
          BY <1>0 DEF TopK
        <4>3. vector' \in Lists
          BY <4>1, <4>2, OrdersType
        <4> QED
          BY <1>0, <3>1, <3>2, <3>4, <4>3
      <3> QED
        BY <2>1, <3>3, <3>4 DEF Rank
    <2>2. CASE ~Rank
      BY <1>1, <1>4, <2>2 DEF DoRank, Goto, Leave
    <2> QED
      BY <2>1, <2>2
  <1>5. CASE AfterRank
    <2>1. UNCHANGED <<step, fine, final, vector, ranked, data>>
      BY <1>5 DEF AfterRank
    <2>2. recall' \subseteq Docs /\ coarse' \subseteq Docs
      BY <1>0, <1>5 DEF AfterRank, SortAndCut, TopK
    <2> QED
      BY <1>0, <2>1, <2>2 DEF data
  <1>6. CASE DoRerank
    <2>1. CASE Rerank
      <3>1. /\ UNCHANGED <<step, recall, final, vector, title, coarseScore>>
            /\ fineScore' \in [Docs -> Scores]
        BY <2>1 DEF Rerank, Scored
      <3>2. PICK T \in SUBSET coarse : coarse' = T /\ fine' = T /\ ranked' = T
        BY <2>1 DEF Rerank, TopK
      <3> QED
        BY <1>0, <3>1, <3>2
    <2>2. CASE ~Rerank
      BY <1>1, <1>6, <2>2 DEF DoRerank, Goto
    <2> QED
      BY <2>1, <2>2
  <1>7. CASE RunFilter
    <2>1. /\ UNCHANGED <<recall, final, vector, ranked, data>>
          /\ coarse' \subseteq coarse /\ fine' \subseteq fine
      BY <1>7 DEF RunFilter
    <2>2. step' \in 1..(Len(Filters) + 1)
      BY <1>0, <1>7, FiltersAssumption DEF RunFilter
    <2> QED
      BY <1>0, <2>1, <2>2 DEF data
  <1>8. CASE Postprocess
    <2>1. /\ UNCHANGED <<step, recall, coarse, vector, ranked, data>>
          /\ final' \in MMR(fine)
          /\ fine' = {final'[i] : i \in DOMAIN final'}
      BY <1>8 DEF Postprocess
    <2>2. final' \in Lists /\ \A i \in DOMAIN final' : final'[i] \in fine
      BY <1>0, <2>1, MMRType
    <2> QED
      BY <1>0, <2>1, <2>2 DEF data
  <1> QED
    BY <1>2, <1>3, <1>4, <1>5, <1>6, <1>7, <1>8

LEMMA TypeStep == TypeOK /\ ReportInv /\ [Next]_vars => TypeOK'
  <1> SUFFICES ASSUME TypeOK, ReportInv, [Next]_vars PROVE TypeOK'
    OBVIOUS
  <1>0. late' \in BOOLEAN /\ opened' \in BOOLEAN
    BY FlagType
  <1>1. CASE UNCHANGED vars
    BY <1>1 DEF vars, flow, lists, data, told, TypeOK
  <1>2. CASE Route \/ Answer \/ SessionExpires \/ InitSession \/ Report \/ ScopeGuard
    <2>1. /\ UNCHANGED <<flow, step, lists, data, response>>
          /\ pc' \in Stages /\ code' \in -1..1
          /\ reply' \in Responses
          /\ finals' \in 0..1 /\ impressions' \in Nat
      BY <1>2, ServerType
    <2> QED
      BY <1>0, <2>1, Zenon DEF TypeOK, flow, lists, data
  <1>3. CASE SetResponse
    <2>1. /\ UNCHANGED <<flow, late, step, lists, data, told>>
          /\ pc' \in Stages /\ code' \in -1..1
          /\ response' \in Responses
      BY <1>3, ResponseType DEF TypeOK, Stages
    <2> QED
      BY <1>0, <2>1, Zenon DEF TypeOK, flow, lists, data, told
  <1>4. CASE \/ CanSearch \/ PreSearch \/ DoSearch \/ BeforeRank \/ DoRank \/ AfterRank \/ DoRerank
             \/ Interpose \/ RunFilter \/ FiltersDone \/ Postprocess
    <2>1. /\ UNCHANGED <<flow, late, told>>
          /\ pc' \in Stages /\ code' \in -1..1
          /\ response' \in Responses
      BY <1>4, StageCases, FixedResponses DEF TypeOK, Inner, Stages
    <2>2. /\ recall' \subseteq Docs /\ coarse' \subseteq Docs /\ fine' \subseteq Docs
          /\ ranked' \subseteq Docs
          /\ final' \in Lists /\ vector' \in Lists
          /\ title' \in [Docs -> Titles]
          /\ coarseScore' \in [Docs -> Scores] /\ fineScore' \in [Docs -> Scores]
          /\ step' \in 1..(Len(Filters) + 1)
      BY <1>4, ListType
    <2> QED
      BY <1>0, <2>1, <2>2, Zenon DEF TypeOK, flow, told
  <1> QED
    BY <1>1, <1>2, <1>3, <1>4 DEF Next, Stage, Done

-----------------------------------------------------------------------------
(* The report.                                                             *)

LEMMA ReportStep == TypeOK /\ ReportInv /\ [Next]_vars => ReportInv'
  <1> SUFFICES ASSUME TypeOK, ReportInv, [Next]_vars PROVE ReportInv'
    OBVIOUS
  <1> USE DEF Inner, Stages
  <1>1. CASE UNCHANGED vars
    BY <1>1, Zenon DEF vars, told, ReportInv
  <1>2. CASE Route
    <2>1. /\ pc = "create" /\ pc' \in {"init", "done"} /\ UNCHANGED <<opened, finals, impressions>>
          /\ pc' = "done" => reply'.total = 0
      BY <1>2 DEF Route, Empty
    <2> QED
      BY <2>1 DEF ReportInv
  <1>3. CASE Answer
    <2>1. /\ pc = "return" /\ pc' = "done" /\ UNCHANGED <<opened, finals, impressions>>
          /\ reply'.total = IF code = 0 THEN response.total ELSE 0
      BY <1>3 DEF Answer, Empty
    <2> QED
      BY <2>1 DEF ReportInv
  <1>4. CASE SessionExpires
    <2>1. UNCHANGED <<pc, code, response, reply, opened, finals, impressions>>
      BY <1>4, Zenon DEF SessionExpires, told
    <2> QED
      BY <2>1, Zenon DEF ReportInv
  <1>5. CASE InitSession
    <2>1. /\ pc = "init" /\ pc' \in {"cansearch", "return"} /\ opened' = (code' = 0)
          /\ pc' = "cansearch" <=> code' = 0
          /\ UNCHANGED <<response, reply, finals, impressions>>
      BY <1>5 DEF InitSession
    <2> QED
      BY <2>1 DEF ReportInv
  <1>6. CASE SetResponse
    <2>1. /\ UNCHANGED <<reply, opened, finals, impressions>>
          /\ pc = "respond"
          /\ \/ pc' = "guard" /\ code' # 0
             \/ pc' = "report"
      BY <1>6, ResponseType DEF told
    <2> QED
      BY <2>1 DEF ReportInv
  <1>7. CASE Report
    <2>1. /\ pc = "report" /\ pc' = "guard" /\ code' = 0
          /\ UNCHANGED <<response, reply, opened, finals>>
          /\ impressions' = impressions + response.total
      BY <1>7 DEF Report
    <2>2. response.total \in Nat
      BY DocsAssumption, FS_CardinalityType DEF TypeOK, Responses
    <2> QED
      BY <2>1, <2>2 DEF ReportInv
  <1>8. CASE ScopeGuard
    <2>1. /\ pc = "guard" /\ pc' = "return" /\ finals' = finals + 1
          /\ UNCHANGED <<code, response, reply, opened, impressions>>
      BY <1>8 DEF ScopeGuard
    <2> QED
      BY <2>1 DEF ReportInv
  <1>9. CASE \/ CanSearch \/ PreSearch \/ DoSearch \/ BeforeRank \/ DoRank \/ AfterRank \/ DoRerank
             \/ Interpose \/ RunFilter \/ FiltersDone \/ Postprocess
    <2>1. /\ pc \in Inner /\ UNCHANGED <<reply, opened, finals, impressions>>
          /\ \/ pc' \in Inner
             \/ pc' = "guard" /\ (code' # 0 \/ response'.total = 0)
      BY <1>9, StageCases DEF told, NoResponse, Empty
    <2> QED
      BY <2>1 DEF ReportInv
  <1> QED
    BY <1>1, <1>2, <1>3, <1>4, <1>5, <1>6, <1>7, <1>8, <1>9 DEF Next, Stage, Done

-----------------------------------------------------------------------------
(* The filters.                                                            *)

\* Whether a filter rejects a document hangs on its title alone.
LEMMA RejectsTitle ==
  ASSUME UNCHANGED title, NEW k \in DOMAIN Filters, NEW d
  PROVE  Rejects(Filters[k], d)' <=> Rejects(Filters[k], d)
  <1>0. Filters[k] \in {"Dedup", "Quality", "Spam", "Blacklist"}
    BY FiltersAssumption
  <1>1. CASE Filters[k] = "Dedup"
    BY <1>1 DEF Rejects
  <1>2. CASE Filters[k] = "Quality"
    BY <1>2 DEF Rejects, Keeps, IsSpam
  <1>3. CASE Filters[k] = "Spam"
    BY <1>3 DEF Rejects, Keeps, IsSpam
  <1>4. CASE Filters[k] = "Blacklist"
    BY <1>4 DEF Rejects, Keeps, IsSpam
  <1> QED
    BY <1>0, <1>1, <1>2, <1>3, <1>4

LEMMA CleanStays ==
  ASSUME UNCHANGED <<title, step>>, NEW d
  PROVE  Clean(d)' <=> Clean(d)
  <1>1. \A k \in DOMAIN Filters : Rejects(Filters[k], d)' <=> Rejects(Filters[k], d)
    BY RejectsTitle
  <1> QED
    BY <1>1 DEF Clean

\* A list that does not change stays clean: a request that is late remains so.
LEMMA ListsStay ==
  ASSUME UNCHANGED <<title, step>>, late => late'
  PROVE  /\ UNCHANGED final /\ CleanList(final) => CleanList(final)'
         /\ UNCHANGED response /\ CleanList(response.items) => CleanList(response.items)'
         /\ UNCHANGED reply /\ CleanList(reply.items) => CleanList(reply.items)'
  <1>1. \A d : Clean(d)' <=> Clean(d)
    BY CleanStays
  <1>2. CASE UNCHANGED final /\ CleanList(final)
    BY <1>1, <1>2 DEF CleanList
  <1>3. CASE UNCHANGED response /\ CleanList(response.items)
    BY <1>1, <1>3 DEF CleanList
  <1>4. CASE UNCHANGED reply /\ CleanList(reply.items)
    BY <1>1, <1>4 DEF CleanList
  <1> QED
    BY <1>1, <1>2, <1>3, <1>4 DEF CleanList

\* The stage goes forward.
Forward ==
    /\ \A S \in {Opening, Ranking, Filtering, Answering} : pc' \in S => pc \in S
    /\ pc' # "done" => pc # "done"

\* A step that leaves the lists, the titles and the answer alone.
LEMMA PassKept ==
  ASSUME PassInv, Forward, business' = business, late => late',
         UNCHANGED <<step, title, fine, final, response, reply>>,
         pc' = "postprocess" => late' \/ step > Len(Filters)
  PROVE  PassInv'
  <1>1. CASE business # "search"
    BY <1>1 DEF PassInv
  <1>2. CASE business = "search"
    <2>1. \A d : Clean(d)' <=> Clean(d)
      BY CleanStays
    <2>2. \A d \in fine' : Clean(d)'
      BY <1>2, <2>1 DEF PassInv
    <2>3. CleanList(final)' /\ CleanList(response.items)' /\ CleanList(reply.items)'
      BY <1>2, ListsStay DEF PassInv
    <2>4. /\ pc' \in Ranking => step' = 1
          /\ pc' \in Opening => fine' = {}
          /\ pc' \in Filtering => final' = <<>>
          /\ pc' \in Answering => response' = NoResponse
          /\ pc' # "done" => reply' = NoResponse
      BY <1>2 DEF PassInv, Forward
    <2>5. pc' = "postprocess" => late' \/ step' > Len(Filters)
      OBVIOUS
    <2> QED
      BY <2>2, <2>3, <2>4, <2>5, Zenon DEF PassInv, NoResponse, Ranking, Opening, Filtering, Answering, Empty
  <1> QED
    BY <1>1, <1>2

\* A stage that leaves with an error or an empty answer.
LEMMA PassLeft ==
  ASSUME PassInv, business' = business, late => late', pc \in Inner, pc' = "guard",
         UNCHANGED <<step, title, fine, final, reply>>,
         UNCHANGED response \/ response' = NoResponse
  PROVE  PassInv'
  <1> USE DEF Opening, Ranking, Filtering, Answering, Inner, Stages
  <1>1. Forward
    BY DEF Forward
  <1>2. CASE UNCHANGED response
    BY <1>1, <1>2, PassKept
  <1>3. CASE response' = NoResponse
    <2>1. CASE business # "search"
      BY <2>1 DEF PassInv
    <2>2. CASE business = "search"
      <3>1. \A d : Clean(d)' <=> Clean(d)
        BY CleanStays
      <3>2. \A d \in fine' : Clean(d)'
        BY <2>2, <3>1 DEF PassInv
      <3>3. CleanList(final)' /\ CleanList(reply.items)'
        BY <2>2, ListsStay DEF PassInv
      <3>4. CleanList(response.items)'
        BY <1>3 DEF CleanList, NoResponse, Empty
      <3>5. reply' = NoResponse
        BY <2>2 DEF PassInv
      <3> QED
        BY <3>2, <3>3, <3>4, <3>5 DEF PassInv, NoResponse, Empty
    <2> QED
      BY <2>1, <2>2
  <1> QED
    BY <1>2, <1>3

\* Before the first filter nothing has to be clean yet, and nothing is
\* answered.
LEMMA PassBefore ==
  ASSUME TypeOK, PassInv, business = "search", business' = business, late => late',
         pc \in Ranking, pc' \in (Ranking \ Opening) \union {"filter", "respond"},
         UNCHANGED <<step, final, response, reply>>
  PROVE  PassInv'
  <1> USE DEF Opening, Ranking, Filtering, Answering
  <1>1. step' = 1 /\ final' = <<>> /\ response' = NoResponse /\ reply' = NoResponse
    BY DEF PassInv
  <1>2. \A d : Clean(d)'
    BY <1>1, FiltersAssumption DEF Clean
  <1>3. CleanList(final)' /\ CleanList(response.items)' /\ CleanList(reply.items)'
    BY <1>1 DEF CleanList, NoResponse, Empty
  <1> QED
    BY <1>1, <1>2, <1>3 DEF PassInv, NoResponse, Empty

LEMMA FilterStep ==
  ASSUME TypeOK, PassInv, business = "search", RunFilter
  PROVE  PassInv'
  <1> USE DEF Opening, Ranking, Filtering, Answering
  <1>1. /\ UNCHANGED <<business, late, final, title, response, reply>>
        /\ pc = "filter" /\ step' = step + 1 /\ step \in 1..Len(Filters)
        /\ pc' \in {"filter", "postprocess"}
        /\ fine' \subseteq {d \in fine : Keeps(Filters[step], d)}
    BY DEF RunFilter, flow, data, told, TypeOK
  <1>2. pc' = "postprocess" => late'
    BY DEF RunFilter
  <1>3. final' = <<>> /\ response' = NoResponse /\ reply' = NoResponse
    BY <1>1 DEF PassInv
  <1>4. \A d \in fine' : Clean(d)'
    <2> SUFFICES ASSUME NEW d \in fine', NEW k \in DOMAIN Filters, Rejects(Filters[k], d)'
                 PROVE  k >= step'
      BY DEF Clean
    <2>1. Rejects(Filters[k], d)
      BY <1>1, RejectsTitle
    <2>2. k >= step
      BY <1>1, <2>1 DEF PassInv, Clean
    <2>3. k # step
      BY <1>1, <2>1 DEF Rejects
    <2>4. k \in Int /\ step \in Int
      BY <1>1, FiltersAssumption
    <2> QED
      BY <1>1, <2>2, <2>3, <2>4
  <1>5. CleanList(final)' /\ CleanList(response.items)' /\ CleanList(reply.items)'
    BY <1>3 DEF CleanList, NoResponse, Empty
  <1> QED
    BY <1>1, <1>2, <1>3, <1>4, <1>5 DEF PassInv, NoResponse, Empty

LEMMA PostprocessStep ==
  ASSUME TypeOK, PassInv, business = "search", Postprocess
  PROVE  PassInv'
  <1> USE DEF Opening, Ranking, Filtering, Answering
  <1>1. /\ UNCHANGED <<business, late, step, title, response, reply>>
        /\ pc = "postprocess" /\ pc' = "respond"
        /\ final' \in MMR(fine) /\ fine' = {final'[i] : i \in DOMAIN final'}
        /\ fine \subseteq Docs
    BY DEF Postprocess, flow, data, told, TypeOK
  <1>2. response' = NoResponse /\ reply' = NoResponse /\ (late' \/ step' > Len(Filters))
    BY <1>1 DEF PassInv
  <1>3. \A i \in DOMAIN final' : final'[i] \in fine
    BY <1>1, MMRType
  <1>4. \A d \in fine : Clean(d)'
    BY <1>1, CleanStays DEF PassInv
  <1>5. (\A d \in fine' : Clean(d)') /\ CleanList(final)'
    BY <1>1, <1>2, <1>3, <1>4 DEF CleanList
  <1>6. CleanList(response.items)' /\ CleanList(reply.items)'
    BY <1>2 DEF CleanList, NoResponse, Empty
  <1> QED
    BY <1>1, <1>2, <1>5, <1>6 DEF PassInv, NoResponse, Empty

LEMMA PassStages ==
  ASSUME TypeOK, PassInv, business = "search",
         \/ CanSearch \/ PreSearch \/ DoSearch \/ BeforeRank \/ DoRank \/ AfterRank \/ DoRerank
         \/ Interpose \/ RunFilter \/ FiltersDone \/ Postprocess
  PROVE  PassInv'
  <1>1. /\ pc \in Inner
        /\ UNCHANGED <<flow, late, told>>
        /\ \/ pc' \in Inner /\ UNCHANGED <<code, response>>
           \/ pc' = "guard" /\ code' \in {-1, 1} /\ UNCHANGED <<response, step, lists, data>>
           \/ pc' = "guard" /\ code' = 0 /\ response' = NoResponse /\ UNCHANGED <<step, lists, data>>
    BY StageCases
  <1>2. business' = business /\ (late => late') /\ UNCHANGED reply
    BY <1>1, Zenon DEF flow, told
  <1>3. CASE pc' = "guard" /\ UNCHANGED <<step, lists, data>>
    <2>1. UNCHANGED <<step, title, fine, final>> /\ (UNCHANGED response \/ response' = NoResponse)
      BY <1>1, <1>3 DEF lists, data, Inner
    <2> QED
      BY <1>1, <1>2, <1>3, <2>1, PassLeft
  <1>4. CASE pc' \in Inner /\ UNCHANGED <<code, response>>
    <2> USE DEF Opening, Ranking, Filtering, Answering, Inner, Stages, Goto, Leave, Reject
    <2>1. CASE CanSearch \/ PreSearch \/ FiltersDone
      <3>1. UNCHANGED <<step, title, fine, final>>
        BY <2>1 DEF CanSearch, PreSearch, FiltersDone, lists, data
      <3>2. Forward /\ (pc' = "postprocess" => step > Len(Filters))
        BY <1>4, <2>1 DEF CanSearch, PreSearch, FiltersDone, Forward
      <3> QED
        BY <1>2, <1>4, <3>1, <3>2, PassKept
    <2>2. CASE DoSearch \/ BeforeRank \/ DoRank \/ AfterRank \/ DoRerank \/ Interpose
      <3>1. UNCHANGED <<step, final>>
        BY <2>2 DEF DoSearch, Recall, BeforeRank, DoRank, Rank, AfterRank, DoRerank, Rerank,
           Interpose, lists
      <3>2. pc \in Ranking /\ pc' \in (Ranking \ Opening) \union {"filter", "respond"}
        BY <1>4, <2>2 DEF DoSearch, Recall, BeforeRank, DoRank, Rank, AfterRank, DoRerank, Rerank,
           Interpose
      <3> QED
        BY <1>2, <1>4, <3>1, <3>2, PassBefore
    <2> QED
      BY <2>1, <2>2, FilterStep, PostprocessStep
  <1> QED
    BY <1>1, <1>3, <1>4 DEF Inner

LEMMA BusinessFixed == TypeOK /\ ReportInv /\ [Next]_vars => UNCHANGED business
  <1> SUFFICES ASSUME TypeOK, ReportInv, [Next]_vars PROVE UNCHANGED business
    OBVIOUS
  <1>1. CASE UNCHANGED vars
    BY <1>1 DEF vars, flow
  <1>2. CASE Route \/ Answer \/ SessionExpires \/ InitSession \/ Report \/ ScopeGuard
    BY <1>2, ServerType DEF flow
  <1>3. CASE SetResponse
    BY <1>3, ResponseType DEF flow
  <1>4. CASE \/ CanSearch \/ PreSearch \/ DoSearch \/ BeforeRank \/ DoRank \/ AfterRank \/ DoRerank
             \/ Interpose \/ RunFilter \/ FiltersDone \/ Postprocess
    BY <1>4, StageCases DEF flow
  <1> QED
    BY <1>1, <1>2, <1>3, <1>4 DEF Next, Stage, Done

LEMMA PassStep == TypeOK /\ ReportInv /\ PassInv /\ [Next]_vars => PassInv'
  <1> SUFFICES ASSUME TypeOK, ReportInv, PassInv, [Next]_vars PROVE PassInv'
    OBVIOUS
  <1> USE DEF Opening, Ranking, Filtering, Answering
  <1>1. CASE UNCHANGED vars
    <2>1. /\ UNCHANGED <<business, pc, step, title, fine, final, response, reply>>
          /\ late => late'
      BY <1>1, Zenon DEF vars, flow, lists, data, told
    <2>2. Forward
      BY <2>1 DEF Forward
    <2>3. CASE business # "search"
      BY <2>1, <2>3 DEF PassInv
    <2>4. CASE business = "search"
      BY <2>1, <2>2, <2>4, PassKept DEF PassInv
    <2> QED
      BY <2>3, <2>4
  <1>2. CASE business # "search"
    BY <1>2, BusinessFixed DEF PassInv
  <1>3. CASE Route /\ business = "search"
    <2>1. UNCHANGED <<business, step, title, fine, final, response, reply>> /\ pc' = "init" /\ pc = "create"
      BY <1>3 DEF Route, flow, lists, data
    <2>2. UNCHANGED late
      BY <1>3 DEF Route
    <2>3. late => late'
      BY <2>2, Zenon
    <2>4. Forward
      BY <2>1 DEF Forward
    <2> QED
      BY <2>1, <2>3, <2>4, PassKept
  <1>4. CASE Answer /\ business = "search"
    <2>1. /\ UNCHANGED <<business, step, title, fine, final, response>> /\ pc' = "done"
          /\ reply' = IF code # 0 THEN Empty(code) ELSE response
      BY <1>4 DEF Answer, flow, lists, data
    <2>2. late => late'
      BY <1>4, Zenon DEF Answer
    <2>3. \A d : Clean(d)' <=> Clean(d)
      BY <2>1, CleanStays
    <2>4. CleanList(final)' /\ CleanList(response.items)'
      BY <1>4, <2>1, <2>2, ListsStay DEF PassInv
    <2>5. CleanList(reply.items)'
      BY <2>1, <2>4 DEF CleanList, Empty
    <2> QED
      BY <1>4, <2>1, <2>3, <2>4, <2>5 DEF PassInv, NoResponse, Empty
  <1>5. CASE SetResponse /\ business = "search"
    <2>1. /\ UNCHANGED <<business, step, title, fine, final, reply>> /\ pc = "respond"
          /\ \/ pc' = "guard" /\ UNCHANGED response
             \/ /\ pc' = "report"
                /\ \A i \in DOMAIN response'.items :
                      \E j \in DOMAIN final : response'.items[i] = final[j]
      BY <1>5, ResponseType DEF flow, lists, data, told
    <2>2. late => late'
      <3>1. UNCHANGED late
        BY <1>5, ResponseType
      <3> QED
        BY <3>1, Zenon
    <2>3. CASE pc' = "guard" /\ UNCHANGED response
      BY <2>1, <2>2, <2>3, PassLeft DEF Inner, Stages
    <2>4. CASE /\ pc' = "report"
               /\ \A i \in DOMAIN response'.items :
                     \E j \in DOMAIN final : response'.items[i] = final[j]
      <3>1. CleanList(final)' /\ CleanList(reply.items)'
        BY <1>5, <2>1, <2>2, ListsStay DEF PassInv
      <3>2. CleanList(response.items)'
        BY <2>1, <2>4, <3>1 DEF CleanList
      <3>3. (\A d \in fine' : Clean(d)') /\ reply' = NoResponse
        BY <1>5, <2>1, CleanStays DEF PassInv
      <3> QED
        BY <2>1, <2>4, <3>1, <3>2, <3>3 DEF PassInv, NoResponse, Empty
    <2> QED
      BY <2>1, <2>3, <2>4
  <1>6. CASE (SessionExpires \/ InitSession \/ Report \/ ScopeGuard) /\ business = "search"
    <2>1. UNCHANGED <<business, step, title, fine, final, response, reply>>
      BY <1>6 DEF SessionExpires, InitSession, Report, ScopeGuard, flow, lists, data, told
    <2>2. late => late'
      BY <1>6, Zenon DEF SessionExpires, InitSession, Report, ScopeGuard
    <2>3. Forward
      BY <1>6 DEF SessionExpires, InitSession, Report, ScopeGuard, Forward
    <2>4. pc' = "postprocess" => late' \/ step > Len(Filters)
      BY <1>6 DEF SessionExpires, InitSession, Report, ScopeGuard, PassInv
    <2> QED
      BY <2>1, <2>2, <2>3, <2>4, PassKept
  <1>7. CASE /\ \/ CanSearch \/ PreSearch \/ DoSearch \/ BeforeRank \/ DoRank \/ AfterRank \/ DoRerank
                \/ Interpose \/ RunFilter \/ FiltersDone \/ Postprocess
             /\ business = "search"
    BY <1>7, PassStages
  <1> QED
    BY <1>1, <1>2, <1>3, <1>4, <1>5, <1>6, <1>7, Zenon DEF Next, Stage, Done

-----------------------------------------------------------------------------
(* What is answered of the ranking, and which comes first.                 *)

\* A line-up of a set leaves out none of it.
LEMMA OrdersOnto ==
  ASSUME NEW T \in SUBSET Docs, NEW q \in Orders(T), NEW t \in T
  PROVE  \E j \in DOMAIN q : q[j] = t
  <1> SUFFICES ASSUME \A j \in DOMAIN q : q[j] # t PROVE FALSE
    OBVIOUS
  <1> DEFINE n == Cardinality(T)
  <1>1. IsFiniteSet(T) /\ n \in Nat
    BY DocsAssumption, FS_Subset, FS_CardinalityType
  <1>2. IsFiniteSet(T \ {t}) /\ Cardinality(T \ {t}) = n - 1
    BY <1>1, FS_RemoveElement
  <1>3. IsFiniteSet(1..n) /\ Cardinality(1..n) = n
    BY <1>1, FS_Interval
  <1>4. q \in [1..n -> T \ {t}] /\ \A i, j \in 1..n : q[i] = q[j] => i = j
    BY DEF Orders
  <1> HIDE DEF n
  <1>5. \E i, j \in 1..n : i # j /\ q[i] = q[j]
    BY <1>1, <1>2, <1>3, <1>4, FS_PigeonHole
  <1> QED
    BY <1>4, <1>5

LEMMA MMRBest ==
  ASSUME NEW S \in SUBSET Docs, NEW q \in MMR(S)
  PROVE  /\ Len(q) = Smaller(MmrTopK, Cardinality(S))
         /\ \A i \in DOMAIN q : q[i] \in S
         /\ q # <<>> => 1 \in DOMAIN q /\ \A d \in S : Relevance[q[1]] >= Relevance[d]
  <1>1. q \in Lists /\ \A i \in DOMAIN q : q[i] \in S
    BY MMRType
  <1>2. PICK n \in 0..Cardinality(Docs) : q \in [1..n -> Docs]
    BY <1>1 DEF Lists
  <1>3. q # <<>> => 1 \in DOMAIN q
    BY <1>2, DocsAssumption, FS_CardinalityType
  <1> QED
    BY <1>1, <1>3 DEF MMR

LEMMA RejectedStays ==
  ASSUME UNCHANGED title, NEW d
  PROVE  Rejected(d)' <=> Rejected(d)
  BY RejectsTitle DEF Rejected

\* What the ranking left and the titles fix how many answers are due.
LEMMA DueStays ==
  ASSUME TypeOK, UNCHANGED <<title, ranked>>
  PROVE  Survivors' = Survivors /\ Due' = Due /\ Due \in Nat
  <1>1. Survivors' = Survivors
    BY RejectedStays DEF Survivors
  <1>2. Due' = Due
    BY <1>1 DEF Due
  <1>3. Survivors \in SUBSET Docs
    BY DEF Survivors, TypeOK
  <1>4. Cardinality(Survivors) \in Nat
    BY <1>3, DocsAssumption, FS_Subset, FS_CardinalityType
  <1> QED
    BY <1>1, <1>2, <1>4, CutsAssumption DEF Due, Smaller

LEMMA NothingDue == ranked = {} => Due = 0
  <1> SUFFICES ASSUME ranked = {} PROVE Due = 0
    OBVIOUS
  <1>1. Cardinality(Survivors) = 0
    BY FS_EmptySet DEF Survivors
  <1> QED
    BY <1>1, CutsAssumption DEF Due, Smaller

LEMMA PassingStays ==
  ASSUME UNCHANGED <<title, ranked, step>>
  PROVE  Passing' = Passing
  <1>1. \A d : \A k \in DOMAIN Filters : Rejects(Filters[k], d)' <=> Rejects(Filters[k], d)
    BY RejectsTitle
  <1> QED
    BY <1>1 DEF Passing

\* The stages in which a number of answers is awaited, and where it is told.
AnswerFits ==
    /\ pc = "respond" => Enough(Len(final), Due, late)
    /\ pc \in {"report", "guard", "return"} => Enough(response.total, Due, late)
    /\ pc = "done" => Enough(reply.total, Due, late)

\* A step that leaves the ranking, the filters and the answer alone.
LEMMA SurvivorKept ==
  ASSUME TypeOK, SurvivorInv, business = "search", UNCHANGED <<business, config>>, late => late',
         UNCHANGED <<title, ranked, fine, step, final, response, reply>>, code' = 0,
         pc' \in Unranked => pc \in Unranked, pc' \in Filtering => pc \in Filtering,
         pc' = "respond" => pc = "respond", pc' = "done" => pc = "done",
         pc' \in {"report", "guard", "return"} => pc \in {"report", "guard", "return"}
  PROVE  SurvivorInv'
  <1>1. Passing' = Passing /\ Due' = Due /\ Due \in Nat
    BY PassingStays, DueStays
  <1>2. \A n : Enough(n, Due, late) => Enough(n, Due, late')
    BY <1>1 DEF Enough
  <1>3. ~config.skip_interpose /\ AnswerFits => AnswerFits'
    BY <1>1, <1>2 DEF AnswerFits
  <1>4. Unranked' = Unranked /\ Filtering' = Filtering
    BY DEF Unranked, Filtering, Ranking, Opening
  <1>5. ~config.skip_interpose => AnswerFits
    BY DEF SurvivorInv, AnswerFits
  <1>6. ~config'.skip_interpose => AnswerFits'
    BY <1>3, <1>5
  <1>7. /\ pc' \in Unranked => ranked' = {} /\ fine' = {}
        /\ pc' \in Filtering => fine' = Passing'
    BY <1>1 DEF SurvivorInv
  <1> QED
    BY <1>4, <1>6, <1>7 DEF SurvivorInv, AnswerFits

\* A step before the ranking is done.
LEMMA SurvivorUnranked ==
  ASSUME TypeOK, code' = 0, ranked' = {}, fine' = {}, pc' \in Unranked \union {"interpose"}
  PROVE  SurvivorInv'
  <1>1. Passing' = {}
    BY DEF Passing
  <1> QED
    BY <1>1 DEF SurvivorInv, Unranked, Ranking, Opening, Filtering

LEMMA SurvivorFilter ==
  ASSUME TypeOK, PassInv, SurvivorInv, business = "search", RunFilter
  PROVE  SurvivorInv'
  <1>1. /\ UNCHANGED <<business, config, code, title, ranked, final>>
        /\ pc = "filter" /\ step' = step + 1 /\ step \in 1..Len(Filters)
        /\ pc' \in {"filter", "postprocess"}
        /\ fine' = {d \in fine : Keeps(Filters[step], d)}
    BY DEF RunFilter, flow, lists, data, TypeOK
  <1>2. fine = Passing /\ final = <<>> /\ code = 0
    BY <1>1 DEF SurvivorInv, PassInv, Filtering
  <1>3. \A d : Keeps(Filters[step], d) <=> ~Rejects(Filters[step], d)
    <2>1. Filters[step] = "Dedup" => \A d : Keeps(Filters[step], d)
      BY <1>2 DEF Keeps, Similar
    <2> QED
      BY <2>1 DEF Rejects
  <1>4. \A d : \A k \in DOMAIN Filters : Rejects(Filters[k], d)' <=> Rejects(Filters[k], d)
    BY <1>1, RejectsTitle
  <1>5. DOMAIN Filters = 1..Len(Filters) /\ Len(Filters) \in Nat
    BY FiltersAssumption
  <1>6. \A d \in ranked : d \in Passing' <=> d \in Passing /\ ~Rejects(Filters[step], d)
    <2> TAKE d \in ranked
    <2>1. d \in Passing' <=> \A k \in DOMAIN Filters : Rejects(Filters[k], d) => k >= step + 1
      BY <1>1, <1>4 DEF Passing
    <2>2. d \in Passing <=> \A k \in DOMAIN Filters : Rejects(Filters[k], d) => k >= step
      BY DEF Passing
    <2>3. \A k \in DOMAIN Filters : k >= step + 1 <=> k >= step /\ k # step
      BY <1>1, <1>5
    <2>4. step \in DOMAIN Filters
      BY <1>1, <1>5
    <2> QED
      BY <2>1, <2>2, <2>3, <2>4
  <1>7. Passing' \subseteq ranked /\ Passing \subseteq ranked
    BY <1>1 DEF Passing
  <1>8. fine' = Passing'
    BY <1>1, <1>2, <1>3, <1>6, <1>7
  <1> QED
    BY <1>1, <1>2, <1>8 DEF SurvivorInv, Unranked, Ranking, Opening

LEMMA SurvivorPostprocess ==
  ASSUME TypeOK, PassInv, SurvivorInv, business = "search", Postprocess
  PROVE  SurvivorInv'
  <1>1. /\ UNCHANGED <<business, config, code, late, step, title, ranked>>
        /\ pc = "postprocess" /\ pc' = "respond" /\ final' \in MMR(fine)
    BY DEF Postprocess, flow, data
  <1>2. fine = Passing /\ code = 0 /\ (late \/ step > Len(Filters)) /\ fine \in SUBSET Docs
    BY <1>1 DEF SurvivorInv, PassInv, Filtering, TypeOK
  <1>3. Due' = Due /\ Due \in Nat
    BY <1>1, DueStays
  <1>4. Len(final') = Smaller(MmrTopK, Cardinality(fine))
    BY <1>1, <1>2, MMRBest
  <1>5. IsFiniteSet(fine) /\ Cardinality(fine) \in Nat
    BY <1>2, DocsAssumption, FS_Subset, FS_CardinalityType
  <1>6. Survivors \in SUBSET fine
    BY <1>2 DEF Survivors, Passing, Rejected
  <1>7. Cardinality(Survivors) \in Nat /\ Cardinality(Survivors) <= Cardinality(fine)
    BY <1>5, <1>6, FS_Subset, FS_CardinalityType
  <1>8. step > Len(Filters) => Survivors = fine
    <2>1. \A k \in DOMAIN Filters : step > Len(Filters) => ~(k >= step)
      BY FiltersAssumption DEF TypeOK
    <2> QED
      BY <1>2, <1>6, <2>1 DEF Survivors, Passing, Rejected
  <1>9. Enough(Len(final'), Due, late)
    <2>1. MmrTopK \in Nat
      BY CutsAssumption
    <2>2. CASE late
      <3>1. Len(final') >= Due
        BY <2>1, <1>4, <1>5, <1>7 DEF Due, Smaller
      <3> QED
        BY <2>2, <3>1 DEF Enough
    <2>3. CASE ~late
      <3>1. Len(final') = Due
        BY <2>3, <1>2, <1>4, <1>8 DEF Due
      <3> QED
        BY <2>3, <3>1 DEF Enough
    <2> QED
      BY <2>2, <2>3
  <1> QED
    BY <1>1, <1>2, <1>3, <1>9 DEF SurvivorInv, Unranked, Ranking, Opening, Filtering

LEMMA SurvivorStages ==
  ASSUME TypeOK, PassInv, SurvivorInv, business = "search",
         \/ CanSearch \/ PreSearch \/ DoSearch \/ BeforeRank \/ DoRank \/ AfterRank \/ DoRerank
         \/ Interpose \/ FiltersDone
  PROVE  SurvivorInv'
  <1> USE DEF Unranked, Ranking, Opening, Filtering
  <1>1. Codes = {0} /\ code = 0
    BY DEF Codes, SurvivorInv
  <1>2. UNCHANGED <<business, config, reply>> /\ (late => late')
    <2>1. UNCHANGED <<flow, late, told>>
      BY StageCases
    <2> QED
      BY <2>1, Zenon DEF flow, told
  <1>3. CASE CanSearch /\ pc' = "guard"
    <2>1. pc = "cansearch" /\ UNCHANGED <<title, ranked, late>> /\ code' = 0 /\ response' = NoResponse
      BY <1>3 DEF CanSearch, Reject, Goto, lists, data
    <2>2. ranked = {} /\ Due' = Due
      BY <2>1, DueStays DEF SurvivorInv
    <2>3. Enough(response'.total, Due', late')
      BY <2>1, <2>2, NothingDue DEF NoResponse, Empty, Enough
    <2> QED
      BY <1>3, <2>1, <2>3 DEF SurvivorInv
  <1>4. CASE \/ PreSearch \/ BeforeRank \/ (CanSearch /\ pc' # "guard")
             \/ (DoSearch /\ ~Recall) \/ (DoRank /\ ~Rank) \/ (DoRerank /\ ~Rerank)
    <2>1. /\ pc \in Unranked /\ pc' \in Unranked \union {"interpose"} /\ code' = 0
          /\ UNCHANGED <<ranked, fine>>
      BY <1>1, <1>4 DEF PreSearch, BeforeRank, CanSearch, DoSearch, DoRank, DoRerank, Reject, Leave, Goto, lists
    <2> QED
      BY <2>1, SurvivorUnranked DEF SurvivorInv
  <1>5. CASE (DoSearch /\ Recall) \/ (DoRank /\ Rank) \/ AfterRank
    <2>1. /\ pc \in Unranked /\ pc' \in Unranked /\ code' = code /\ UNCHANGED <<ranked, fine>>
      <3>1. CASE DoSearch /\ Recall
        BY <3>1 DEF DoSearch, Recall, Goto
      <3>2. CASE DoRank /\ Rank
        BY <1>1, <3>2 DEF DoRank, Rank, Goto
      <3>3. CASE AfterRank
        BY <3>3 DEF AfterRank
      <3> QED
        BY <1>5, <3>1, <3>2, <3>3
    <2> QED
      BY <1>1, <2>1, SurvivorUnranked DEF SurvivorInv
  <1>6. CASE DoRerank /\ Rerank
    <2>1. /\ pc = "rerank" /\ pc' = "interpose" /\ fine' = ranked' /\ UNCHANGED <<step, code>>
      BY <1>6 DEF DoRerank, Rerank
    <2>2. step = 1
      BY <2>1 DEF PassInv
    <2>3. Passing' = ranked'
      BY <2>1, <2>2, FiltersAssumption DEF Passing
    <2> QED
      BY <1>1, <2>1, <2>3 DEF SurvivorInv
  <1>7. CASE Interpose \/ FiltersDone
    <2>1. /\ UNCHANGED <<title, ranked, fine, step, final, response, code>>
          /\ \/ pc = "interpose" /\ pc' = "respond" /\ config.skip_interpose
             \/ pc \in {"interpose", "filter"} /\ pc' \in {"filter", "postprocess"}
      BY <1>7 DEF Interpose, FiltersDone, Goto, lists, data
    <2>2. CASE pc' = "respond" /\ config.skip_interpose
      BY <1>1, <1>2, <2>1, <2>2 DEF SurvivorInv
    <2>3. CASE pc \in {"interpose", "filter"} /\ pc' \in {"filter", "postprocess"}
      BY <1>1, <1>2, <2>1, <2>3, SurvivorKept
    <2> QED
      BY <2>1, <2>2, <2>3
  <1> QED
    BY <1>3, <1>4, <1>5, <1>6, <1>7

LEMMA SurvivorStep ==
  TypeOK /\ ReportInv /\ PassInv /\ SurvivorInv /\ [Next]_vars => SurvivorInv'
  <1> SUFFICES ASSUME TypeOK, ReportInv, PassInv, SurvivorInv, [Next]_vars PROVE SurvivorInv'
    OBVIOUS
  <1>1. CASE business # "search"
    BY <1>1, BusinessFixed DEF SurvivorInv
  <1>2. CASE business = "search" /\ UNCHANGED vars
    <2>1. /\ UNCHANGED <<business, config, pc, title, ranked, fine, step, final, response, reply, code>>
          /\ late => late'
      BY <1>2, Zenon DEF vars, flow, lists, data, told
    <2>2. code = 0
      BY <1>2 DEF SurvivorInv
    <2> QED
      BY <1>2, <2>1, <2>2, SurvivorKept
  <1>3. CASE business = "search" /\ (Route \/ SessionExpires \/ InitSession \/ Report \/ ScopeGuard)
    <2>1. code = 0 /\ Codes = {0}
      BY <1>3 DEF SurvivorInv, Codes
    <2>2. UNCHANGED <<business, config, title, ranked, fine, step, final, response>> /\ code' = 0
      BY <1>3, <2>1 DEF Route, SessionExpires, InitSession, Report, ScopeGuard, flow, lists, data
    <2>3. late => late'
      BY <1>3, Zenon DEF Route, SessionExpires, InitSession, Report, ScopeGuard
    <2>4. /\ UNCHANGED reply
          /\ \/ UNCHANGED pc
             \/ <<pc, pc'>> \in {<<"create", "init">>, <<"init", "cansearch">>, <<"report", "guard">>,
                                 <<"guard", "return">>}
      BY <1>3, <2>2 DEF Route, SessionExpires, InitSession, Report, ScopeGuard, told
    <2> QED
      BY <1>3, <2>2, <2>3, <2>4, SurvivorKept DEF Unranked, Filtering, Ranking, Opening
  <1>4. CASE business = "search" /\ SetResponse
    <2>1. Codes = {0} /\ code = 0
      BY <1>4 DEF Codes, SurvivorInv
    <2>2. PICK page, size \in Pages : response' = Paged(page, size) /\ UNCHANGED code /\ Goto("report")
      BY <1>4, <2>1 DEF SetResponse
    <2>3. response'.total = Len(final)
      BY <2>2 DEF Paged
    <2>4. /\ pc = "respond" /\ pc' = "report" /\ UNCHANGED <<business, config, title, ranked>>
      BY <1>4, <2>2 DEF SetResponse, Goto, flow, lists, data
    <2>5. UNCHANGED late
      BY <1>4, ResponseType
    <2>6. Due' = Due
      BY <2>4, DueStays
    <2>7. Enough(Len(final), Due, late) => Enough(Len(final), Due, late')
      BY <2>5 DEF Enough
    <2> QED
      BY <1>4, <2>1, <2>2, <2>3, <2>4, <2>6, <2>7
      DEF SurvivorInv, Unranked, Filtering, Ranking, Opening
  <1>5. CASE business = "search" /\ Answer
    <2>1. /\ pc = "return" /\ pc' = "done" /\ UNCHANGED <<business, config, code, title, ranked>>
          /\ code = 0 /\ reply' = response
      BY <1>5 DEF Answer, flow, lists, data, SurvivorInv
    <2>2. Due' = Due
      BY <2>1, DueStays
    <2>3. Enough(response.total, Due, late) => Enough(response.total, Due, late')
      BY <1>5 DEF Answer, Enough
    <2> QED
      BY <1>5, <2>1, <2>2, <2>3 DEF SurvivorInv, Unranked, Filtering, Ranking, Opening
  <1>6. CASE /\ \/ CanSearch \/ PreSearch \/ DoSearch \/ BeforeRank \/ DoRank \/ AfterRank \/ DoRerank
                \/ Interpose \/ FiltersDone
             /\ business = "search"
    BY <1>6, SurvivorStages
  <1> QED
    BY <1>1, <1>2, <1>3, <1>4, <1>5, <1>6, SurvivorFilter, SurvivorPostprocess DEF Next, Stage, Done

LEMMA FinalEmpty ==
  ASSUME PassInv, BestInv, pc \in Filtering
  PROVE  final = <<>>
  BY DEF PassInv, BestInv

\* A step that leaves the ranking and the answer alone.
LEMMA BestKept ==
  ASSUME BestInv, UNCHANGED <<business, recall, ranked, final, vector, title, coarseScore, fineScore>>,
         coarse' \subseteq coarse,
         pc' \in Opening => pc \in Opening, pc' = "beforerank" => pc \in Opening \union {"beforerank"},
         pc' = "rank" => pc \in {"beforerank", "rank"}, pc' \in Unranked => pc \in Unranked,
         pc' = "rerank" => coarse = {} \/ (pc = "rerank" /\ coarse' = coarse),
         pc' \in {"filter", "postprocess"} => business = "search"
  PROVE  BestInv'
  <1>1. Relevance' = Relevance
    BY DEF Relevance
  <1>2. \A d : Rejected(d)' <=> Rejected(d)
    BY RejectedStays
  <1>3. RankedBest' /\ ListedBest'
    BY <1>1 DEF BestInv, RankedBest, ListedBest
  <1>4. FirstBest'
    BY <1>1, <1>2 DEF BestInv, FirstBest
  <1>5. Unranked' = Unranked /\ Opening' = Opening
    BY DEF Unranked, Ranking, Opening
  <1> QED
    BY <1>3, <1>4, <1>5 DEF BestInv

\* The first ranking: candidates of the search business are cut to the best,
\* those of a list business lined up.
LEMMA BestRank ==
  ASSUME TypeOK, PassInv, BestInv, DoRank, Rank
  PROVE  BestInv'
  <1> USE DEF Unranked, Ranking, Opening, Filtering
  <1>1. /\ pc = "rank" /\ business' = business
        /\ UNCHANGED <<final, ranked>>
        /\ business \in {"search", "list"}
    BY DEF DoRank, Rank, flow
  <1>2. ranked' = {} /\ final' = <<>>
    BY <1>1, FinalEmpty DEF BestInv
  <1>3. RankedBest' /\ FirstBest'
    BY <1>2 DEF RankedBest, FirstBest
  <1>4. pc' = "afterrank"
    BY DEF Rank
  <1>5. CASE business = "search"
    <2>1. vector' = <<>>
      BY <1>1, <1>5 DEF Rank, BestInv
    <2>2. ListedBest'
      BY <2>1 DEF ListedBest
    <2> QED
      BY <1>1, <1>2, <1>3, <1>4, <1>5, <2>1, <2>2 DEF BestInv
  <1>6. CASE business = "list"
    <2>1. PICK T \in TopK(recall, coarseScore', ListTopK) : vector' \in Orders(T)
      BY <1>1, <1>6 DEF Rank
    <2>2. recall' = recall /\ coarse' = {}
      BY <1>1, <1>6 DEF Rank, BestInv
    <2>3. T \in SUBSET Docs /\ T \subseteq recall
      BY DEF TopK, TypeOK
    <2>4. \A t \in T, s \in recall \ T : coarseScore'[t] >= coarseScore'[s]
      BY DEF TopK
    <2>5. \A i \in DOMAIN vector' : vector'[i] \in T
      BY <2>1, <2>3, OrdersType
    <2>6. \A t \in T : \E j \in DOMAIN vector' : vector'[j] = t
      BY <2>1, <2>3, OrdersOnto
    <2>7. ListedBest'
      BY <2>2, <2>4, <2>5, <2>6 DEF ListedBest
    <2> QED
      BY <1>1, <1>2, <1>3, <1>4, <1>6, <2>2, <2>7 DEF BestInv
  <1> QED
    BY <1>1, <1>5, <1>6

LEMMA BestAfterRank ==
  ASSUME TypeOK, PassInv, BestInv, AfterRank
  PROVE  BestInv'
  <1> USE DEF Unranked, Ranking, Opening, Filtering
  <1>1. /\ pc = "afterrank" /\ pc' = "rerank"
        /\ UNCHANGED <<business, final, vector, ranked, title, coarseScore, fineScore>>
    BY DEF AfterRank, flow, data
  <1>2. CASE business # "search"
    <2>1. UNCHANGED <<recall, coarse>> /\ coarse = {}
      BY <1>2 DEF AfterRank, BestInv
    <2> QED
      BY <1>1, <1>2, <2>1, BestKept
  <1>3. CASE business = "search"
    <2>1. recall' = coarse'
      BY <1>3 DEF AfterRank, SortAndCut
    <2>2. ranked' = {} /\ final' = <<>> /\ vector' = <<>>
      BY <1>1, <1>3, FinalEmpty DEF BestInv
    <2>3. RankedBest' /\ FirstBest' /\ ListedBest'
      BY <2>2 DEF RankedBest, FirstBest, ListedBest
    <2> QED
      BY <1>1, <1>3, <2>1, <2>2, <2>3 DEF BestInv
  <1> QED
    BY <1>2, <1>3

LEMMA BestRerank ==
  ASSUME TypeOK, PassInv, BestInv, DoRerank, Rerank
  PROVE  BestInv'
  <1> USE DEF Unranked, Ranking, Opening, Filtering
  <1>1. /\ pc = "rerank" /\ pc' = "interpose" /\ business = "search" /\ coarse # {}
        /\ UNCHANGED <<business, recall, final, vector>>
    BY DEF DoRerank, Rerank, flow
  <1>2. coarse = recall /\ final' = <<>> /\ vector' = <<>>
    BY <1>1, FinalEmpty DEF BestInv
  <1>3. PICK T \in TopK(coarse, Relevance', RerankTopK) : ranked' = T
    BY DEF Rerank
  <1>4. RankedBest'
    BY <1>1, <1>2, <1>3 DEF RankedBest, TopK
  <1>5. FirstBest' /\ ListedBest'
    BY <1>2 DEF FirstBest, ListedBest
  <1> QED
    BY <1>1, <1>2, <1>4, <1>5 DEF BestInv

\* The filters leave every ranked document that none of them rejects, and MMR
\* puts the best of those in front.
LEMMA BestPostprocess ==
  ASSUME TypeOK, PassInv, SurvivorInv, BestInv, Postprocess
  PROVE  BestInv'
  <1>1. /\ pc = "postprocess" /\ pc' = "respond" /\ final' \in MMR(fine)
        /\ UNCHANGED <<business, recall, coarse, vector, ranked, title, coarseScore, fineScore>>
    BY DEF Postprocess, flow, data
  <1>2. business = "search"
    BY <1>1 DEF BestInv
  <1>3. fine = Passing /\ fine \in SUBSET Docs
    BY <1>1, <1>2 DEF SurvivorInv, Filtering, TypeOK
  <1>4. /\ \A i \in DOMAIN final' : final'[i] \in fine
        /\ final' # <<>> => 1 \in DOMAIN final' /\ \A d \in fine : Relevance[final'[1]] >= Relevance[d]
    BY <1>1, <1>3, MMRBest
  <1>5. Relevance' = Relevance
    BY <1>1 DEF Relevance
  <1>6. \A d : Rejected(d)' <=> Rejected(d)
    BY <1>1, RejectedStays
  <1>7. FirstBest'
    <2> SUFFICES ASSUME final' # <<>>, NEW d \in recall, ~Rejected(d)
                 PROVE  Relevance[final'[1]] >= Relevance[d]
      BY <1>1, <1>5, <1>6 DEF FirstBest
    <2>1. CASE d \in ranked
      <3>1. d \in fine
        BY <1>3, <2>1 DEF Passing, Rejected
      <3> QED
        BY <1>4, <3>1
    <2>2. CASE d \notin ranked
      <3>1. final'[1] \in ranked
        BY <1>3, <1>4 DEF Passing
      <3> QED
        BY <2>2, <3>1 DEF BestInv, RankedBest
    <2> QED
      BY <2>1, <2>2
  <1>8. RankedBest' /\ ListedBest'
    BY <1>1, <1>5 DEF BestInv, RankedBest, ListedBest
  <1> QED
    BY <1>1, <1>2, <1>7, <1>8 DEF BestInv, Unranked, Ranking, Opening

LEMMA BestStep ==
  TypeOK /\ ReportInv /\ PassInv /\ SurvivorInv /\ BestInv /\ [Next]_vars => BestInv'
  <1> SUFFICES ASSUME TypeOK, ReportInv, PassInv, SurvivorInv, BestInv, [Next]_vars PROVE BestInv'
    OBVIOUS
  <1> USE DEF Unranked, Ranking, Opening
  <1>0. UNCHANGED business
    BY BusinessFixed
  <1>1. CASE UNCHANGED vars \/ SessionExpires
    <2>1. UNCHANGED <<pc, recall, coarse, ranked, final, vector, title, coarseScore, fineScore>>
      BY <1>1 DEF vars, SessionExpires, lists, data
    <2> QED
      BY <1>0, <2>1, BestKept DEF BestInv
  <1>2. CASE Route \/ Answer \/ InitSession \/ Report \/ ScopeGuard \/ SetResponse
    <2>1. UNCHANGED <<recall, coarse, ranked, final, vector, title, coarseScore, fineScore>>
      BY <1>2 DEF Route, Answer, InitSession, Report, ScopeGuard, SetResponse, Leave, Goto, lists, data
    <2>2. \/ pc = "create" /\ pc' = "init"
          \/ pc = "init" /\ pc' = "cansearch"
          \/ pc' \in {"report", "guard", "return", "done"}
      BY <1>2 DEF Route, Answer, InitSession, Report, ScopeGuard, SetResponse, Leave, Goto
    <2> QED
      BY <1>0, <2>1, <2>2, BestKept
  <1>3. CASE CanSearch \/ PreSearch \/ BeforeRank \/ Interpose \/ FiltersDone
    <2>1. UNCHANGED <<recall, coarse, ranked, final, vector, title, coarseScore, fineScore>>
      BY <1>3 DEF CanSearch, PreSearch, BeforeRank, Interpose, FiltersDone, Reject, Leave, Goto, lists, data
    <2>2. \/ pc \in Opening /\ pc' \in Opening
          \/ pc = "beforerank" /\ pc' \in {"rank", "rerank"} /\ coarse = {}
          \/ pc' \in {"interpose", "guard", "respond"}
          \/ pc' \in {"filter", "postprocess"} /\ business = "search"
      BY <1>3 DEF CanSearch, PreSearch, BeforeRank, Interpose, FiltersDone, Reject, Leave, Goto, BestInv
    <2> QED
      BY <1>0, <2>1, <2>2, BestKept
  <1>4. CASE DoSearch
    <2>1. CASE Recall
      <3>1. /\ pc = "search" /\ pc' = "beforerank" /\ UNCHANGED <<coarse, final, vector, ranked>>
        BY <1>4, <2>1 DEF DoSearch, Recall, Goto, Shipped
      <3>2. coarse' = {} /\ final' = <<>> /\ vector' = <<>> /\ ranked' = {}
        BY <3>1, FinalEmpty DEF BestInv, Filtering
      <3>3. RankedBest' /\ FirstBest' /\ ListedBest'
        BY <3>2 DEF RankedBest, FirstBest, ListedBest
      <3> QED
        BY <3>1, <3>2, <3>3 DEF BestInv
    <2>2. CASE ~Recall
      <3>1. /\ UNCHANGED <<recall, coarse, ranked, final, vector, title, coarseScore, fineScore>>
            /\ pc = "search" /\ pc' \in {"beforerank", "guard", "interpose"}
        BY <1>4, <2>2 DEF DoSearch, Reject, Leave, Goto, lists, data
      <3> QED
        BY <1>0, <3>1, BestKept
    <2> QED
      BY <2>1, <2>2
  <1>5. CASE DoRank
    <2>1. CASE ~Rank
      <3>1. /\ UNCHANGED <<recall, coarse, ranked, final, vector, title, coarseScore, fineScore>>
            /\ pc = "rank" /\ pc' \in {"afterrank", "guard"}
        BY <1>5, <2>1 DEF DoRank, Leave, Goto, lists, data
      <3> QED
        BY <1>0, <3>1, BestKept
    <2> QED
      BY <1>5, <2>1, BestRank
  <1>6. CASE DoRerank
    <2>1. CASE ~Rerank
      <3>1. /\ UNCHANGED <<recall, coarse, ranked, final, vector, title, coarseScore, fineScore>>
            /\ pc' = "interpose"
        BY <1>6, <2>1 DEF DoRerank, Goto, lists, data
      <3> QED
        BY <1>0, <3>1, BestKept
    <2> QED
      BY <1>6, <2>1, BestRerank
  <1>7. CASE RunFilter
    <2>1. /\ UNCHANGED <<recall, ranked, final, vector, title, coarseScore, fineScore>>
          /\ pc = "filter" /\ pc' \in {"filter", "postprocess"} /\ coarse' \subseteq coarse
      BY <1>7 DEF RunFilter, data
    <2>2. business = "search"
      BY <2>1 DEF BestInv
    <2> QED
      BY <1>0, <2>1, <2>2, BestKept
  <1> QED
    BY <1>1, <1>2, <1>3, <1>4, <1>5, <1>6, <1>7, BestAfterRank, BestPostprocess DEF Next, Stage, Done

-----------------------------------------------------------------------------
(* The theorems.                                                           *)

LEMMA InitInv == Init => IInv
  <1> SUFFICES ASSUME Init PROVE IInv
    OBVIOUS
  <1>1. TypeOK
    BY InitType
  <1>2. ReportInv
    BY DEF Init, ReportInv, Inner
  <1>3. /\ pc = "create" /\ step = 1 /\ fine = {} /\ final = <<>>
        /\ response = NoResponse /\ reply = NoResponse
    BY DEF Init
  <1>4. PassInv
    BY <1>3 DEF PassInv, CleanList, NoResponse, Empty
  <1>5. /\ code = 0 /\ coarse = {} /\ ranked = {} /\ vector = <<>>
    BY DEF Init
  <1>6. SurvivorInv
    BY <1>3, <1>5 DEF SurvivorInv, Passing, Unranked, Ranking, Opening, Filtering
  <1>7. BestInv
    BY <1>3, <1>5 DEF BestInv, RankedBest, FirstBest, ListedBest
  <1> QED
    BY <1>1, <1>2, <1>4, <1>6, <1>7 DEF IInv

\* The inductive invariant.
LEMMA Inductive == Spec => []IInv
  <1>1. IInv /\ [Next]_vars => IInv'
    BY TypeStep, ReportStep, PassStep, SurvivorStep, BestStep DEF IInv
  <1> QED
    BY <1>1, InitInv, PTL DEF Spec

\* Type correctness of the request: in particular the scope guard runs at most
\* once, every cut is a list of documents and the answer is one of them.
THEOREM TypeCorrect == Spec => []TypeOK
  <1>1. IInv => TypeOK
    BY DEF IInv
  <1> QED
    BY <1>1, Inductive, PTL

\* Nothing a filter rejects is answered, for every list of filters, every set
\* of candidates and wherever the time-out strikes: a document in the fine list
\* has passed the filters that have run, and the answer is cut from that list.
THEOREM FilteredTheorem == Spec => []FilteredNotAnswered
  <1>1. IInv => FilteredNotAnswered
    <2> SUFFICES ASSUME IInv, business = "search", NEW i \in DOMAIN reply.items,
                        NEW k \in DOMAIN Filters, Rejects(Filters[k], reply.items[i])
                 PROVE  late /\ k >= step
      BY DEF FilteredNotAnswered
    <2>1. CleanList(reply.items)
      BY DEF IInv, PassInv
    <2>2. k >= step /\ (late \/ step > Len(Filters))
      BY <2>1 DEF CleanList, Clean
    <2>3. k \in 1..Len(Filters) /\ step \in Int
      BY FiltersAssumption DEF IInv, TypeOK
    <2> QED
      BY <2>2, <2>3
  <1> QED
    BY <1>1, Inductive, PTL

\* However the stages end, the final report of an initialised session is made
\* exactly once, and the impressions are those of the answer.
THEOREM ReportTheorem == Spec => []ReportedOnce
  <1>1. IInv => ReportedOnce
    <2> SUFFICES ASSUME IInv PROVE ReportedOnce
      OBVIOUS
    <2>1. ReportInv
      BY DEF IInv
    <2> QED
      BY <2>1 DEF ReportInv, ReportedOnce
  <1> QED
    BY <1>1, Inductive, PTL

\* What the ranking left and no filter rejects is answered, up to the cut of
\* MMR and wherever the time-out strikes: until the answer the fine list is
\* exactly the part of the ranking that has passed the filters so far, and
\* nothing else rejects a request of the search business once it is ranked.
THEOREM SurvivorTheorem == Spec => []SurvivorsAnswered
  <1>1. IInv => SurvivorsAnswered
    <2> SUFFICES ASSUME IInv, pc = "done", business = "search", ~config.skip_interpose
                 PROVE  Enough(reply.total, Due, late)
      BY DEF SurvivorsAnswered, Enough, Due
    <2> QED
      BY DEF IInv, SurvivorInv
  <1> QED
    BY <1>1, Inductive, PTL

\* The first result is the best of the recalled documents that no filter
\* rejects, through two rankings, three cuts, the filters and MMR; and a list
\* business cuts off no better item than it answers.
THEOREM BestTheorem == Spec => []BestFirst
  <1>1. IInv => BestFirst
    BY DEF IInv, BestInv, FirstBest, ListedBest, BestFirst
  <1> QED
    BY <1>1, Inductive, PTL
=============================================================================
