--------------------------- MODULE InvertedIndex ---------------------------
(***************************************************************************)
(* lib/index/inverted_index.cpp: the keyword index.  Every operation runs  *)
(* under rwlock_, so each is one step.  Four structures have to stay in    *)
(* step with each other: the posting lists, the lengths and the term lists *)
(* of the documents, and the counters BM25 divides by; and they have to    *)
(* survive the text format of Save and Load.                               *)
(*                                                                         *)
(* A document is what Tokenize makes of its fields: a set of terms per     *)
(* field (title, content, each tag, category).  Ids are single words.      *)
(***************************************************************************)
EXTENDS Integers, FiniteSets, FiniteSetsExt

CONSTANTS
    Docs,       \* document ids, without white space
    Terms,
    Fields,     \* the fields of a document
    Weight,     \* the weight of each field
    Inputs      \* documents considered: [terms : [Fields -> SUBSET Terms], length : Nat]

ASSUME WeightAssumption == Weight \in [Fields -> Nat]
ASSUME FieldsAssumption == IsFiniteSet(Fields)
ASSUME InputsAssumption == Inputs \subseteq [terms : [Fields -> SUBSET Terms], length : Nat]

VARIABLES
    index,          \* index_: term -> document -> posting node
    docLengths,     \* doc_lengths_
    docTerms,       \* doc_terms_
    totalDocs,      \* total_docs_
    totalDocLen,    \* total_doc_len_
    avgDocLen,      \* avg_doc_len_, as <<total length, number of documents>>
    file,           \* what Save has written last: a set of at most one content
    wordless        \* history: documents without terms that Load has read

content == <<index, docLengths, docTerms, totalDocs, totalDocLen, avgDocLen>>
vars == <<content, file, wordless>>

Nodes == [freq : Nat, weight : Nat, length : Nat]
EmptyMap == [x \in {} |-> x]

\* Finite maps, as unordered_map has them.
With(f, x, v) == [y \in DOMAIN f \union {x} |-> IF y = x THEN v ELSE f[y]]
Without(f, x) == [y \in DOMAIN f \ {x} |-> f[y]]

Init ==
    /\ index = EmptyMap
    /\ docLengths = EmptyMap
    /\ docTerms = EmptyMap
    /\ totalDocs = 0
    /\ totalDocLen = 0
    /\ avgDocLen = <<0, 0>>
    /\ file = {}
    /\ wordless = {}

\* Mutant: the lists that become empty stay.
ErasedKeepingEmpty(idx, d, terms) ==
    [t \in DOMAIN idx |-> IF t \in terms THEN Without(idx[t], d) ELSE idx[t]]

\* The posting lists of the terms without the document; empty lists are erased.
Erased(idx, d, terms) ==
    [t \in {u \in DOMAIN idx : u \notin terms \/ DOMAIN idx[u] \ {d} # {}} |->
        IF t \in terms THEN Without(idx[t], d) ELSE idx[t]]

\* The node of a term after the fields of a document are added to its list.
Posted(list, d, t, in) ==
    LET fields == {f \in Fields : t \in in.terms[f]}
        before == IF d \in DOMAIN list THEN list[d]
                                       ELSE [freq |-> 0, weight |-> 0, length |-> in.length]
    IN  [before EXCEPT !.freq = @ + Cardinality(fields),
                       !.weight = Max({@} \union {Weight[f] : f \in fields})]

Added(idx, d, in, terms) ==
    LET list(t) == IF t \in DOMAIN idx THEN idx[t] ELSE EmptyMap
    IN  [t \in DOMAIN idx \union terms |->
            IF t \in terms THEN With(list(t), d, Posted(list(t), d, t, in)) ELSE idx[t]]

TermsOf(in) == UNION {in.terms[f] : f \in Fields}

-----------------------------------------------------------------------------
\* Mutant: an update does not clear what the document was indexed under.
AddOnTop(d, in) ==
    LET isNew == d \notin DOMAIN docLengths
        old == IF isNew THEN 0 ELSE docLengths[d]
    IN  /\ index' = Added(index, d, in, TermsOf(in))
        /\ docLengths' = With(docLengths, d, in.length)
        /\ docTerms' = With(docTerms, d, TermsOf(in))
        /\ totalDocs' = IF isNew THEN totalDocs + 1 ELSE totalDocs
        /\ totalDocLen' = totalDocLen - old + in.length
        /\ avgDocLen' = <<totalDocLen', Cardinality(DOMAIN docLengths')>>
        /\ wordless' = wordless \ {d}
        /\ UNCHANGED file

\* Idempotent: a known document is first taken out of the lists of its terms.
AddDocument(d, in) ==
    LET isNew == d \notin DOMAIN docLengths
        old == IF isNew THEN 0 ELSE docLengths[d]
        oldTerms == IF isNew \/ d \notin DOMAIN docTerms THEN {} ELSE docTerms[d]
    IN  /\ index' = Added(Erased(index, d, oldTerms), d, in, TermsOf(in))
        /\ docLengths' = With(docLengths, d, in.length)
        /\ docTerms' = With(docTerms, d, TermsOf(in))
        /\ totalDocs' = IF isNew THEN totalDocs + 1 ELSE totalDocs
        /\ totalDocLen' = totalDocLen - old + in.length
        /\ avgDocLen' = <<totalDocLen', Cardinality(DOMAIN docLengths')>>
        /\ wordless' = wordless \ {d}
        /\ UNCHANGED file

\* Mutant: the length of the document stays in the total.
RemoveKeepingLength(d) ==
    IF d \notin DOMAIN docTerms THEN UNCHANGED vars
    ELSE /\ index' = Erased(index, d, docTerms[d])
         /\ docTerms' = Without(docTerms, d)
         /\ docLengths' = Without(docLengths, d)
         /\ totalDocs' = IF totalDocs > 0 THEN totalDocs - 1 ELSE 0
         /\ avgDocLen' = <<totalDocLen, Cardinality(DOMAIN docLengths')>>
         /\ UNCHANGED <<totalDocLen, file, wordless>>

\* A document without a term list is taken for unknown.
RemoveDocument(d) ==
    IF d \notin DOMAIN docTerms THEN UNCHANGED vars
    ELSE /\ index' = Erased(index, d, docTerms[d])
         /\ docTerms' = Without(docTerms, d)
         /\ docLengths' = Without(docLengths, d)
         /\ totalDocLen' = IF d \in DOMAIN docLengths THEN totalDocLen - docLengths[d]
                                                      ELSE totalDocLen
         /\ totalDocs' = IF totalDocs > 0 THEN totalDocs - 1 ELSE 0
         /\ avgDocLen' = <<totalDocLen', Cardinality(DOMAIN docLengths')>>
         /\ UNCHANGED <<file, wordless>>

Clear ==
    /\ index' = EmptyMap
    /\ docLengths' = EmptyMap
    /\ docTerms' = EmptyMap
    /\ totalDocs' = 0
    /\ totalDocLen' = 0
    /\ avgDocLen' = <<0, 0>>
    /\ wordless' = {}
    /\ UNCHANGED file

\* One line TOTAL, a DOC_LEN and a DOC_TERMS line per document, a TERM line
\* per list and a NODE line per node.
Save ==
    /\ file' = {[total |-> totalDocs, lengths |-> docLengths, terms |-> docTerms, index |-> index]}
    /\ UNCHANGED <<content, wordless>>

SumOfLengths(lengths) == MapThenSumSet(LAMBDA d : lengths[d], DOMAIN lengths)

\* A DOC_TERMS line makes an entry of doc_terms_ only with its first term.
Load == \E f \in file :
    /\ index' = f.index
    /\ docLengths' = f.lengths
    /\ docTerms' = [d \in {e \in DOMAIN f.terms : f.terms[e] # {}} |-> f.terms[d]]
    /\ wordless' = DOMAIN f.lengths \ DOMAIN docTerms'
    /\ totalDocs' = f.total
    /\ totalDocLen' = SumOfLengths(f.lengths)
    /\ avgDocLen' = <<totalDocLen', Cardinality(DOMAIN f.lengths)>>
    /\ UNCHANGED file

Next ==
    \/ \E d \in Docs, in \in Inputs : AddDocument(d, in)
    \/ \E d \in Docs : RemoveDocument(d)
    \/ Clear
    \/ Save
    \/ Load

Spec == Init /\ [][Next]_vars

-----------------------------------------------------------------------------
(* Properties.                                                             *)

MapType(f, S, T) == DOMAIN f \subseteq S /\ \A x \in DOMAIN f : f[x] \in T

IndexType(idx) ==
    /\ DOMAIN idx \subseteq Terms
    /\ \A t \in DOMAIN idx : MapType(idx[t], Docs, Nodes)

\* Type correctness: no operation, not even the reading of a saved file, brings
\* in a term or a document that was never added.
TypeOK ==
    /\ IndexType(index)
    /\ MapType(docLengths, Docs, Nat)
    /\ MapType(docTerms, Docs, SUBSET Terms)
    /\ totalDocs \in Nat /\ totalDocLen \in Nat /\ avgDocLen \in Nat \X Nat
    /\ \A f \in file : /\ IndexType(f.index)
                       /\ MapType(f.lengths, Docs, Nat)
                       /\ MapType(f.terms, Docs, SUBSET Terms)
                       /\ f.total \in Nat
    /\ wordless \subseteq Docs

\* The two directions of the index stay inverse to each other over any series
\* of additions, updates, removals, saves and loads: a document is in the list
\* of a term exactly when the term is in the list of the document, and a term
\* of no document has no list (GetTermCount).
ListsInverse ==
    /\ \A t \in Terms, d \in Docs :
         (t \in DOMAIN index /\ d \in DOMAIN index[t]) <=> (d \in DOMAIN docTerms /\ t \in docTerms[d])
    /\ \A t \in DOMAIN index : DOMAIN index[t] # {}

\* What BM25 reads is current: a node has the length of its document as it was
\* last added, and its counts are those of one document, not of two versions.
NodesCurrent ==
    \A t \in DOMAIN index : \A d \in DOMAIN index[t] :
        /\ d \in DOMAIN docLengths /\ index[t][d].length = docLengths[d]
        /\ index[t][d].freq \in 1..Cardinality(Fields)

\* The counters BM25 divides by are exact: total_docs_, so that
\* total_docs_ - doc_freq in CalculateIDF does not wrap around, and the average
\* length, which is kept up incrementally; and a counted document that cannot be
\* removed any more is one without terms that was read from a file.
CountersExact ==
    /\ totalDocs = Cardinality(DOMAIN docLengths)
    /\ \A t \in DOMAIN index : Cardinality(DOMAIN index[t]) <= totalDocs
    /\ DOMAIN docTerms \subseteq DOMAIN docLengths
    /\ DOMAIN docLengths \ DOMAIN docTerms = wordless
    /\ totalDocLen = SumOfLengths(docLengths)
    /\ avgDocLen = <<totalDocLen, Cardinality(DOMAIN docLengths)>>

-----------------------------------------------------------------------------
(* The index keeps its promise to the searches.                            *)

Matches(idx) == [d \in Docs |-> {t \in DOMAIN idx : d \in DOMAIN idx[t]}]

Promise == INSTANCE SearchableDocs WITH
    matches <- Matches(index),
    kept <- {Matches(f.index) : f \in file}

\* Every behaviour of the index is one of SearchableDocs, and an addition puts
\* the terms of the document added in the place of all it was found by before.
ImplementsSearch ==
    /\ Promise!Spec
    /\ [][\A d \in Docs, in \in Inputs :
            AddDocument(d, in) => Promise!Put(d, TermsOf(in))]_vars
=============================================================================
