----------------------------- MODULE VectorIndex -----------------------------
(***************************************************************************)
(* lib/index/vector_index.cpp.  A build with Faiss keeps the vectors in an *)
(* HNSW graph, one position per AddVector, and the document of each        *)
(* position in doc_ids_; a build without keeps one vector per document and *)
(* scans them.  Nothing ever removes a vector.  Every operation runs under *)
(* rwlock_, so each is one step.  The search of the graph is taken to be   *)
(* exact.                                                                  *)
(***************************************************************************)
EXTENDS Integers, Sequences, FiniteSets, SequencesExt, Functions, RecallFusion, Places

CONSTANTS
    Vectors,        \* the embeddings, all of config_.dim
    Similarity,     \* of two embeddings
    Threshold,      \* similarity_threshold
    TopK,           \* top_k
    MaxVectors      \* bound: how many vectors or ids an index may hold

ASSUME SimilarityAssumption == Similarity \in [Vectors \X Vectors -> Int]
ASSUME TopKAssumption == TopK \in Nat

VARIABLES
    faiss,      \* the build: HAVE_FAISS
    vectors,    \* vectors_: document -> embedding
    points,     \* hnsw_index_: the embedding of each position
    idMap,      \* id_map_, or doc_ids_ with Faiss
    vectorFile  \* what Save has written last: a set of at most one content

vectorVars == <<faiss, vectors, points, idMap, vectorFile>>

VectorInit ==
    /\ faiss \in BOOLEAN
    /\ vectors = <<>>
    /\ points = <<>>
    /\ idMap = <<>>
    /\ vectorFile = {}

\* Mutant: the scanning build keeps the first vector of a document.
AddVectorOnce(d, v) ==
    /\ IF faiss
       THEN points' = Append(points, v) /\ UNCHANGED vectors
       ELSE /\ vectors' = [e \in DOMAIN vectors \cup {d} |-> IF e \in DOMAIN vectors THEN vectors[e] ELSE v]
            /\ UNCHANGED points
    /\ idMap' = Append(idMap, d)
    /\ UNCHANGED <<faiss, vectorFile>>

\* A document that is added again: a second position, or a vector in the place
\* of the old one; in both builds a second entry of the id map.
AddVector(d, v) ==
    /\ IF faiss
       THEN points' = Append(points, v) /\ UNCHANGED vectors
       ELSE /\ vectors' = [e \in DOMAIN vectors \cup {d} |-> IF e = d THEN v ELSE vectors[e]]
            /\ UNCHANGED points
    /\ idMap' = Append(idMap, d)
    /\ UNCHANGED <<faiss, vectorFile>>

SaveVectors ==
    /\ vectorFile' = {IF faiss THEN points ELSE vectors}
    /\ UNCHANGED <<faiss, vectors, points, idMap>>

\* Into the object of a process that has just started.  The ids of a Faiss
\* index are not in its file.
LoadVectors ==
    \E f \in vectorFile :
        /\ IF faiss
           THEN points' = f /\ idMap' = <<>> /\ UNCHANGED vectors
           ELSE vectors' = f /\ idMap' \in SetToSeqs(DOMAIN f) /\ UNCHANGED points
        /\ UNCHANGED <<faiss, vectorFile>>

\* The positions nearest to v, cut to top_k; those that are similar enough and
\* have an id give a result each.
GraphHits(v) ==
    LET near(list) == AtPlaces(list, {i \in DOMAIN list :
            Similarity[v, points[list[i]]] >= Threshold /\ list[i] <= Len(idMap)})
    IN  {[i \in DOMAIN near(list) |-> idMap[near(list)[i]]] :
            list \in BestOf([p \in DOMAIN points |-> Similarity[v, points[p]]], TopK)}

ScanHits(v) ==
    LET near == {d \in DOMAIN vectors : Similarity[v, vectors[d]] >= Threshold}
    IN  BestOf([d \in near |-> Similarity[v, vectors[d]]], TopK)

\* VectorIndex::Search: the lists of documents it may return.
SearchVectors(v) == IF faiss THEN GraphHits(v) ELSE ScanHits(v)
=============================================================================
