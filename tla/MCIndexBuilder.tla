--------------------------- MODULE MCIndexBuilder ---------------------------
EXTENDS IndexBuilder, TLC

CONSTANT MaxText     \* bound: the length of the texts the tokenisers are compared on

MCWeight == [f \in Fields |-> IF f = "title" THEN 3 ELSE 1]

\* An alphabet with each class of characters; fA is the full-width A.
MCLowerOf == [A |-> "a"]
MCHalfOf == [fA |-> "A"]
MCStopWords == {<<"a">>, <<"b", "a">>, <<"z", "z">>}
MCTexts == BoundedSeq(Letters \cup Digits \cup Wide \cup {" ", "!", "'", "-"}, MaxText)

\* As in query_expander.cpp, a key is a word of two wide characters or of
\* capitals.
Phone == <<"z", "z">>
MCSynonyms == Phone :> << <<"z">>, <<"b", "b">> >>
MCAbbreviations == <<"A", "A">> :> Phone
MCTermLists == BoundedSeq({Phone, <<"A", "A">>, <<"z">>}, 3)

Input(title, body, length) ==
    [terms |-> [f \in Fields |-> SimpleTokenize(IF f = "title" THEN title ELSE body)],
     length |-> length]

\* A document of punctuation only, one that repeats a term, and two that share a
\* term with it.
Blank == <<"!">>
Word == <<"A", "b">>
Two == <<"z", " ", "a">>
MCTitles == (Input(Blank, Blank, 1) :> Blank) @@ (Input(Word, <<"a", "b", "z">>, 3) :> Word)
                @@ (Input(Two, <<>>, 2) :> Two) @@ (Input(Blank, <<"z">>, 1) :> Blank)
MCInputs == DOMAIN MCTitles
MCTerms == UNION {UNION {in.terms[f] : f \in Fields} : in \in MCInputs}

\* Two embeddings, alike only to themselves.
MCEncode == [in \in MCInputs |-> IF MCTitles[in] = Word THEN 1 ELSE 2]
MCEncodeQuery == (Blank :> 1) @@ (Word :> 1) @@ (Two :> 2) @@ (<<"b", "z">> :> 1)
MCSimilarity == [p \in Vectors \X Vectors |-> IF p[1] = p[2] THEN 9 ELSE 5]

Symmetry == Permutations(Docs)
=============================================================================
