SPECIFICATION Spec
CONSTANTS
    d1 = d1
    d2 = d2
    d3 = d3
    none = none
    t1 = t1
    Docs = {d1, d2, d3}
    Titles = {none, t1}
    NoTitle = none
    SpamTitles = {none}
    Poor = {}
    Blacklisted = {d3}
    Filters <- MCFilters
    Scores = {0, 1, 2}
    Configs <- MCConfigs
    RankTopK = 3
    ListTopK = 2
    RerankTopK = 2
    MmrTopK = 2
    Pages = {1, 2}
INVARIANTS
    FilteredNotAnswered
    BestFirst
    SurvivorsAnswered
    ReportedOnce
