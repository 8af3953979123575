---------------------------- MODULE IndexBuilder ----------------------------
(***************************************************************************)
(* lib/index/index_builder.cpp: the keyword index and the vector index,    *)
(* filled and saved together, and what a search reads from them: the terms *)
(* of its text (QueryParser), the two recall processors                    *)
(* (inverted_recall.cpp, vector_recall.cpp) and the fusion of their lists  *)
(* (SearchBizHandler::MergeRecall).  docs.db, and the interleaving of      *)
(* these calls with each other, are in DocCorpus.                          *)
(***************************************************************************)
EXTENDS InvertedIndex, VectorIndex, QueryParser

CONSTANTS
    Title,          \* the title of each input
    Encode,         \* the embedding of each input
    EncodeQuery,    \* the embedding of each query
    MaxRecall       \* max_recall of both recall processors

ASSUME InputsEncoded ==
    /\ Title \in [Inputs -> DOMAIN EncodeQuery] /\ DOMAIN EncodeQuery \subseteq Texts
    /\ Encode \in [Inputs -> Vectors]
    /\ \A q \in DOMAIN EncodeQuery : EncodeQuery[q] \in Vectors
    /\ "title" \in Fields /\ \A in \in Inputs : in.terms["title"] = SimpleTokenize(Title[in])

ASSUME RecallAssumption == MaxRecall \in Nat

VARIABLES
    given,      \* history: what each document was last added with
    givenFile,  \* history: the same for the saved files
    reloaded    \* history: this process has loaded the files

builderVars == <<vars, vectorVars, given, givenFile, reloaded>>

BuilderInit ==
    /\ Init /\ VectorInit
    /\ given = EmptyMap
    /\ givenFile = EmptyMap
    /\ reloaded = FALSE

\* IndexBuilder::AddDocument, behind the row of docs.db.
Put(d, in) ==
    /\ Len(idMap) < MaxVectors /\ Len(points) < MaxVectors
    /\ AddDocument(d, in)
    /\ AddVector(d, Encode[in])
    /\ given' = With(given, d, in)
    /\ UNCHANGED <<givenFile, reloaded>>

\* HandleDelete takes the document out of the keyword index only.
DeleteDocument(d) ==
    /\ RemoveDocument(d)
    /\ UNCHANGED <<vectorVars, given, givenFile, reloaded>>

ClearIndex ==
    /\ Clear
    /\ UNCHANGED <<vectorVars, given, givenFile, reloaded>>

SaveIndexes ==
    /\ Save /\ SaveVectors
    /\ givenFile' = given
    /\ UNCHANGED <<given, reloaded>>

\* A new process with new objects loads both files.
LoadIndexes ==
    /\ Load /\ LoadVectors
    /\ given' = givenFile
    /\ reloaded' = TRUE
    /\ UNCHANGED givenFile

BuilderNext ==
    \/ \E d \in Docs : (\E in \in Inputs : Put(d, in)) \/ DeleteDocument(d)
    \/ ClearIndex \/ SaveIndexes \/ LoadIndexes

BuilderSpec == BuilderInit /\ [][BuilderNext]_builderVars

-----------------------------------------------------------------------------
(* A search.                                                               *)

Postings(t) == IF t \in DOMAIN index THEN DOMAIN index[t] ELSE {}

\* InvertedIndex::Search: by the number of terms that match.
SearchTerms(terms) ==
    LET found == UNION {Postings(terms[i]) : i \in DOMAIN terms}
    IN  BestOf([d \in found |-> Cardinality({i \in DOMAIN terms : d \in Postings(terms[i])})],
               MaxRecall)

\* The terms of each query.
TermsOfQuery == [text \in DOMAIN EncodeQuery |-> Parse(text)]

\* The keyword recall keeps the order of Search; the scores it computes are
\* replaced by those of the fusion.
InvertedRecall(text) == SearchTerms(TermsOfQuery[text])

\* Without a term the query has no embedding.
VectorRecall(text) ==
    IF TermsOfQuery[text] = <<>> THEN {<<>>}
    ELSE {SubSeq(q, 1, Min({Len(q), MaxRecall})) : q \in SearchVectors(EncodeQuery[text])}

\* MergeRecall, given what the two processors put out.
MergeRecall(byTerms, byVector) == FuseByRRF(<<byTerms, byVector>>)

-----------------------------------------------------------------------------
(* Properties.                                                             *)

\* The vectors keep up with the documents.  Without Faiss each document has the
\* embedding of its last version, also after a restart and, since nothing
\* removes a vector, after the document is deleted.  With Faiss positions and
\* ids match, and the last position of a document has its last embedding, as
\* long as the process has loaded no file.
VectorsFollow ==
    IF ~faiss
    THEN /\ vectors = [d \in DOMAIN given |-> Encode[given[d]]]
         /\ ToSet(idMap) = DOMAIN given
    ELSE ~reloaded =>
         /\ Len(points) = Len(idMap)
         /\ \A d \in DOMAIN given :
              LET places == {p \in DOMAIN idMap : idMap[p] = d}
              IN  places # {} /\ points[Max(places)] = Encode[given[d]]

Before(list, d, e) ==
    e \in ToSet(list) => \E i, j \in DOMAIN list : i < j /\ list[i] = d /\ list[j] = e

\* The documents that have every term of a query.
HavingAll(text) == {d \in DOMAIN docTerms : ToSet(TermsOfQuery[text]) \subseteq docTerms[d]}

PlainQueries == {text \in DOMAIN EncodeQuery : Plain(text) /\ TermsOfQuery[text] # <<>>}

\* A search with the title of a document of the index finds it, over any series
\* of additions, updates, deletes, saves and restarts, unless too many documents
\* have all its terms, or too many are found, for the limits; what it finds was added
\* once, and each document is there once; and a document that both sources rank
\* before another stays before it.  This rests on the tokenisers, which are
\* compared on all texts, and on the expansion.
FoundByTitle ==
    /\ TokenisersAgree
    /\ ExpansionBounded
    /\ \A text \in DOMAIN EncodeQuery :
        \A byTerms \in InvertedRecall(text), byVector \in VectorRecall(text) :
          \A fused \in MergeRecall(byTerms, byVector) :
            LET found == ToSet(fused) IN
            /\ \A d \in DOMAIN docTerms :
                 /\ d \in DOMAIN given
                 /\ /\ Title[given[d]] = text /\ text \in PlainQueries
                    /\ Cardinality(HavingAll(text)) <= MaxRecall
                    /\ Cardinality(ToSet(byTerms) \cup ToSet(byVector)) <= MaxTotal
                    => d \in found
            /\ ToSet(byTerms) \subseteq DOMAIN docTerms
            /\ Len(fused) = Cardinality(found)
            /\ ~faiss => /\ found \subseteq DOMAIN given
                         /\ \A d, e \in found :
                              d # e /\ Before(byTerms, d, e) /\ Before(byVector, d, e)
                                /\ e \in ToSet(byTerms) \cup ToSet(byVector)
                              => Before(fused, d, e)
=============================================================================
