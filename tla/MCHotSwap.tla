----------------------------- MODULE MCHotSwap -----------------------------
EXTENDS HotSwap

\* The tasks in the order InitFromConfig registers them.
MCTaskList == <<"auto_train", "auto_index_rebuild", "sug_trie_rebuild">>
=============================================================================
