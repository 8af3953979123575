SPECIFICATION FairSpec
CONSTANTS
    TaskList <- MCTaskList
    Enabled = {"auto_train", "sug_trie_rebuild"}
    Threads = {t1, t2}
    Worker = w
    RefreshInterval = 1
    MaxDocs = 2
    MaxClock = 4
    MaxRequests = 2
INVARIANTS StopsWithinOneTask TrieKeepsUp HotListRecent
PROPERTY SignalEnds
