-------------------------- MODULE MCSearchRequest --------------------------
EXTENDS SearchRequest

CONSTANTS d1, d2, d3, none, t1

MCFilters == <<"Dedup", "Quality", "Spam", "Blacklist">>

\* The shipped configuration, and one for each flag.
MCConfigs ==
    LET flags(s, r, i) == [skip_search |-> s, skip_rank |-> r, skip_interpose |-> i] IN
    {flags(FALSE, FALSE, FALSE), flags(TRUE, FALSE, FALSE), flags(FALSE, TRUE, FALSE),
     flags(FALSE, FALSE, TRUE)}
=============================================================================
