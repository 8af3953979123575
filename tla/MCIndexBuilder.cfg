SPECIFICATION BuilderSpec
CONSTANTS
    Docs = {d1, d2, d3}
    Terms <- MCTerms
    Fields = {"title", "content"}
    Weight <- MCWeight
    Inputs <- MCInputs
    Title <- MCTitles
    Encode <- MCEncode
    EncodeQuery <- MCEncodeQuery
    Vectors = {1, 2}
    Similarity <- MCSimilarity
    Threshold = 7
    TopK = 3
    MaxRecall = 2
    MaxVectors = 3
    RrfK = 60
    MaxTotal = 3
    Letters = {"a", "b", "A"}
    Digits = {"1"}
    Wide = {"z", "fA"}
    LowerOf <- MCLowerOf
    HalfOf <- MCHalfOf
    StopWords <- MCStopWords
    Synonyms <- MCSynonyms
    Related <- MCSynonyms
    Categories <- MCSynonyms
    Abbreviations <- MCAbbreviations
    Texts <- MCTexts
    TermLists <- MCTermLists
    MaxText = 4
SYMMETRY Symmetry
INVARIANTS
    ListsInverse
    CountersExact
    VectorsFollow
    NodesCurrent
    FoundByTitle
PROPERTY
    ImplementsSearch
