----------------------------- MODULE QueryParser -----------------------------
(***************************************************************************)
(* From the text of a query to the terms that are searched: the normaliser *)
(* (query_normalizer.cpp), the tokeniser of queries (string_utils.cpp), the *)
(* expander (query_expander.cpp) and QueryParser::Parse, which calls them; *)
(* and SimpleTokenize of inverted_index.cpp, which makes the terms a       *)
(* document is indexed under.  A search finds a document only when the two *)
(* tokenisers agree.                                                       *)
(*                                                                         *)
(* A text is a sequence of characters, a word a text.  A few characters    *)
(* stand for each class the code tells apart; a character that takes three *)
(* bytes of UTF-8 (Wide) is one of these, since the code never splits one. *)
(***************************************************************************)
EXTENDS Integers, Sequences, FiniteSets, SequencesExt, Places

CONSTANTS
    Letters,     \* ASCII letters
    Digits,      \* ASCII digits
    Wide,        \* characters of three bytes
    LowerOf,     \* the capitals: capital -> small letter
    HalfOf,      \* the full-width letters and digits: wide character -> ASCII
    StopWords,   \* the words RemoveStopWords drops
    Synonyms,    \* the dictionaries of the expander: word -> sequence of words
    Related,
    Categories,
    Abbreviations, \* abbreviation -> word
    Texts,         \* the texts considered
    TermLists      \* the lists of terms considered

Space == " "

ASSUME AlphabetAssumption ==
    /\ DOMAIN LowerOf \subseteq Letters
    /\ \A c \in DOMAIN LowerOf : LowerOf[c] \in Letters \ DOMAIN LowerOf
    /\ DOMAIN HalfOf \subseteq Wide /\ \A c \in DOMAIN HalfOf : HalfOf[c] \in Letters \cup Digits
    /\ Letters \cap Digits = {} /\ (Letters \cup Digits) \cap Wide = {}
    /\ {Space, "'", "-", "_"} \cap (Letters \cup Digits \cup Wide) = {}

Headwords ==
    DOMAIN Synonyms \cup DOMAIN Related \cup DOMAIN Categories \cup DOMAIN Abbreviations
        \cup {Abbreviations[a] : a \in DOMAIN Abbreviations}

\* The words the dictionaries of query_expander.cpp have something for are of
\* several wide characters, or have a capital.
ASSUME DictionaryAssumption ==
    /\ \A k \in Headwords :
         /\ k \in Seq(STRING)
         /\ \E i \in DOMAIN k : k[i] \in DOMAIN LowerOf \/ (k[i] \in Wide /\ Len(k) > 1)
    /\ \A dictionary \in {Synonyms, Related, Categories} :
         \A k \in DOMAIN dictionary : dictionary[k] \in Seq(Seq(STRING))
    /\ IsFiniteSet(DOMAIN Abbreviations)

ASSUME TextsAssumption ==
    Texts \subseteq Seq(STRING) /\ TermLists \subseteq Seq(Seq(STRING))
-----------------------------------------------------------------------------
(* The tokenisers.                                                         *)

\* The run of characters of words that begins at i, or only what is at i.
Run(text, i, words) ==
    {i} \cup {j \in i..Len(text) : \A m \in i..j : text[m] \in words}

\* Where the longest runs begin, and the characters in singles are.
Starts(text, words, singles) ==
    {i \in DOMAIN text : \/ text[i] \in singles
                         \/ text[i] \in words /\ (i = 1 \/ text[i - 1] \notin words)}

\* The pieces of a text, in order: the longest runs of characters of words,
\* and each of the characters in singles.
Pieces(text, words, singles) ==
    LET starts == InOrder(Starts(text, words, singles))
    IN  [n \in DOMAIN starts |-> AtPlaces(text, Run(text, starts[n], words))]

\* A full-width character is in Wide as long as nothing has converted it.
Alnum == Letters \cup Digits

\* utils::Tokenize, for queries: an apostrophe belongs to a word.
Tokenize(text) == Pieces(text, Alnum \cup {"'"}, Wide)

\* std::tolower; it leaves the bytes of wide characters alone.
Lower(c) == IF c \in DOMAIN LowerOf THEN LowerOf[c] ELSE c
ToLower(text) == [i \in DOMAIN text |-> Lower(text[i])]

\* Mutant: no word is put in lower case.
SimpleTokenizeAsWritten(text) == ToSet(Pieces(text, Alnum, Wide))

\* InvertedIndex::SimpleTokenize, for documents: punctuation separates, and a
\* word is put in lower case when white space, punctuation or the end of the
\* text ends it -- not when a wide character does.
SimpleTokenize(text) ==
    LET BeforeWide(i) == \E j \in i + 1..Len(text) :
            text[j] \in Wide /\ \A m \in i..j - 1 : text[m] \in Alnum
        folded == [i \in DOMAIN text |->
                      IF text[i] \in Alnum /\ BeforeWide(i) THEN text[i] ELSE Lower(text[i])]
    IN  ToSet(Pieces(folded, Alnum, Wide))
-----------------------------------------------------------------------------
(* QueryNormalizer.                                                        *)

FullWidthToHalfWidth(text) ==
    [i \in DOMAIN text |-> IF text[i] \in DOMAIN HalfOf THEN HalfOf[text[i]] ELSE text[i]]

\* A space between a letter and a digit that follows it, and the other way round.
NormalizeAlnum(text) ==
    LET Joint(i) == i > 1 /\ \/ text[i-1] \in Letters /\ text[i] \in Digits
                             \/ text[i-1] \in Digits /\ text[i] \in Letters
    IN  FlattenSeq([i \in DOMAIN text |-> IF Joint(i) THEN <<Space, text[i]>> ELSE <<text[i]>>])

\* One space for several, and none at the ends.
CollapseSpaces(text) ==
    AtPlaces(text, {i \in DOMAIN text : text[i] = Space =>
        /\ i > 1 /\ text[i - 1] # Space
        /\ \E j \in i + 1..Len(text) : text[j] # Space})

RemoveNoise(text) ==
    AtPlaces(text, {i \in DOMAIN text : text[i] \in Alnum \cup Wide \cup {Space, "'", "-", "_"}})

\* The third and further of equal letters in a row are dropped.
SpellCorrection(text) ==
    AtPlaces(text, {i \in DOMAIN text :
        ~(i > 2 /\ text[i] \in Letters /\ text[i] = text[i - 1] /\ text[i - 1] = text[i - 2])})

\* The word around a place, between spaces or the ends (utils::Split).
WordAround(text, i) ==
    {j \in DOMAIN text : \A m \in i..j \cup j..i : text[m] # Space}

\* The words that are no stop words, with one space between them.
RemoveStopWords(text) ==
    LET kept == {i \in DOMAIN text : /\ text[i] # Space
                                     /\ ToLower(AtPlaces(text, WordAround(text, i))) \notin StopWords}
        between == {i \in DOMAIN text : text[i] = Space /\ i + 1 \in kept /\ \E j \in kept : j < i}
    IN  AtPlaces(text, kept \cup between)

\* The steps in their order; TraditionalToSimplified returns its argument.
Normalize(text) ==
    RemoveStopWords(SpellCorrection(RemoveNoise(CollapseSpaces(
        ToLower(NormalizeAlnum(FullWidthToHalfWidth(text)))))))
-----------------------------------------------------------------------------
(* QueryExpander.                                                          *)

\* What a dictionary has for each of the terms, once each, behind the terms.
AddFrom(terms, dictionary) ==
    LET offered == FlattenSeq([n \in DOMAIN terms |->
                       IF terms[n] \in DOMAIN dictionary THEN dictionary[terms[n]] ELSE <<>>])
        fresh == {i \in DOMAIN offered : /\ ~Contains(terms, offered[i])
                                         /\ \A j \in 1..i - 1 : offered[j] # offered[i]}
    IN  terms \o AtPlaces(offered, fresh)

\* Abbreviations work in both directions.
ExpandAbbreviations(terms) ==
    LET Of(t) == (IF t \in DOMAIN Abbreviations THEN <<Abbreviations[t]>> ELSE <<>>)
                 \o SetToSeq({a \in DOMAIN Abbreviations : Abbreviations[a] = t})
    IN  AddFrom(terms, [t \in ToSet(terms) |-> Of(t)])

Limit(terms) == IF 2 * Len(terms) < 5 THEN 5 ELSE 2 * Len(terms)

\* The original terms, and new ones up to twice as many, or five.
FilterExpansion(original, expanded) ==
    LET added == AtPlaces(expanded, {i \in DOMAIN expanded : ~Contains(original, expanded[i])})
        n == Limit(original) - Len(original)
    IN  original \o (IF Len(added) <= n THEN added ELSE SubSeq(added, 1, n))

Expand(terms) ==
    IF terms = <<>> THEN <<>>
    ELSE FilterExpansion(terms, AddFrom(ExpandAbbreviations(
             AddFrom(AddFrom(terms, Synonyms), Related)), Categories))

\* QueryParser::Parse, as far as the terms go.
Parse(text) == Expand(Tokenize(Normalize(text)))
-----------------------------------------------------------------------------
(* Properties.                                                             *)

\* The texts that both tokenisers read alike: without full-width letters,
\* apostrophes, a letter next to a digit, three equal letters in a row, a
\* capital in a word that a wide character ends, and with other punctuation
\* only at a space or an end.
Plain(text) ==
    \A i \in DOMAIN text :
        /\ text[i] \notin DOMAIN HalfOf \cup {"'"}
        /\ text[i] \in Alnum \cup Wide \cup {Space, "-", "_"} \/ i \in {1, Len(text)}
              \/ text[i - 1] = Space \/ text[i + 1] = Space
        /\ \A j \in DOMAIN text : j = i + 1 =>
              ~(text[i] \in Letters /\ text[j] \in Digits) /\ ~(text[i] \in Digits /\ text[j] \in Letters)
        /\ \A j \in DOMAIN text : j = i + 2 /\ text[i] \in Letters =>
              ~(\A m \in i..j : Lower(text[m]) = Lower(text[i]))
        /\ text[i] \in DOMAIN LowerOf => \A j \in i + 1..Len(text) : text[j] \in Wide =>
              \E m \in i..j - 1 : text[m] \notin Alnum

\* The two tokenisers, which share no code, agree on plain texts: every term of
\* a query is one that a document with that text is indexed under, and only the
\* terms of stop words are left out.  The expansion adds nothing to any query: the keys of its
\* dictionaries are words of several wide characters or of capitals, and no
\* query is cut into such words.
TokenisersAgree ==
    \A text \in Texts :
        LET terms == Parse(text)
        IN  /\ terms = Tokenize(Normalize(text))
            /\ Plain(text) => /\ ToSet(terms) \subseteq SimpleTokenize(text)
                              /\ \A t \in SimpleTokenize(text) \ ToSet(terms) :
                                    \E w \in StopWords : t \in SimpleTokenize(w)

\* Whatever the terms and the dictionaries: the terms of the query stay in front
\* and in order, and new ones follow once each, up to the limit.
ExpansionBounded ==
    \A terms \in TermLists :
        LET expanded == Expand(terms)
            added == SubSeq(expanded, Len(terms) + 1, Len(expanded))
        IN  /\ IsPrefix(terms, expanded)
            /\ Len(expanded) <= Limit(terms)
            /\ IsInjective(added) /\ ToSet(added) \cap ToSet(terms) = {}
=============================================================================
