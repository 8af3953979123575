-------------------------------- MODULE Cache --------------------------------
(***************************************************************************)
(* The two-level cache: cache_manager.cpp over the LRU list of lru_cache.h *)
(* (level 1) and the in-memory Redis client of redis_client.cpp (level 2,  *)
(* when Initialize connected it).  Each level has a mutex of its own and   *)
(* CacheManager has none over both, so a call is one step per level and    *)
(* the steps of two calls interleave.  Nothing in the server calls the     *)
(* cache: the threads make any calls of its public interface.              *)
(***************************************************************************)
EXTENDS Integers, Sequences, FiniteSets, SequencesExt

CONSTANTS
    Threads, Keys, Values,
    None,         \* no value
    Capacity,     \* local_capacity
    LocalTtl,     \* local_ttl_seconds
    RedisTtl,     \* redis_ttl_seconds
    Ttls,         \* the ttl_seconds given to Set; 0 stands for the default, -1
    MaxClock,     \* bound: the clock stops here
    MaxCalls      \* bound: how many Get, Set and Delete are called

\* With a capacity of 0 Put loops for ever (EvictOneLocked returns on an empty
\* list).  A redis_ttl_seconds of 0 would leave an old expiration on a new value.
ASSUME CacheAssumption ==
    /\ Capacity \in Nat \ {0}
    /\ LocalTtl \in Nat /\ RedisTtl \in Nat \ {0}
    /\ Ttls \subseteq Nat
    /\ None \notin Values
    /\ MaxCalls \in Nat

VARIABLES
    redis,   \* redis_connected_
    l1,      \* list_: entries [key, value, until], the most recently used first
    store,   \* store_ of the Redis client
    expiry,  \* its expirations_; 0: the key has none
    clock,   \* steady_clock
    call,    \* the rest of each thread's call
    calls,   \* how many calls were made
    last,    \* history: the value of the last Set of each key, None after a Delete
    due,     \* history: when that value is due in level 2
    clean,   \* history: no call ran on the key together with its last write
    cleared, \* history: keys with a Clear since the call of their last write
    older    \* history: <<j, k>>, level 1 was last asked for k after it was for j

vars == <<redis, l1, store, expiry, clock, call, calls, last, due, clean, cleared, older>>
-----------------------------------------------------------------------------

Entry == [key : Keys, value : Values, until : Nat]
Idle == [at |-> "idle"]

\* A time point of 0 means that the entry never expires.
Expired(until) == until # 0 /\ clock > until

UntilAfter(ttl) == IF ttl > 0 THEN clock + ttl ELSE 0

Holds(list, k) == \E e \in ToSet(list) : e.key = k

\* list_ without the entry of k, which map_ finds; a key has one at most.
Others(list, k) ==
    IF Holds(list, k) THEN RemoveAt(list, CHOOSE i \in DOMAIN list : list[i].key = k) ELSE list

\* Whether LRUCache::Get finds k.
Hit(k) == \E e \in ToSet(l1) : e.key = k /\ ~Expired(e.until)

\* Mutant: a hit leaves the entry where it is.
AfterGetInPlace(k) == IF Hit(k) THEN l1 ELSE Others(l1, k)

\* LRUCache::Get: an entry that is found goes to the front, one that expired goes.
AfterGet(k) ==
    IF Hit(k) THEN <<CHOOSE e \in ToSet(l1) : e.key = k>> \o Others(l1, k) ELSE Others(l1, k)

\* EvictOneLocked: the expired entry nearest to the end, or else the last.
Evicted(list) ==
    LET expired == {i \in DOMAIN list : Expired(list[i].until)}
    IN  RemoveAt(list, IF expired = {} THEN Len(list)
                       ELSE CHOOSE i \in expired : \A j \in expired : j <= i)

\* LRUCache::Put.  The list never exceeds the capacity, so one eviction is enough.
AfterPut(k, v, ttl) ==
    LET kept == IF ~Holds(l1, k) /\ Len(l1) >= Capacity THEN Evicted(l1) ELSE Others(l1, k)
    IN  <<[key |-> k, value |-> v, until |-> UntilAfter(ttl)]>> \o kept

Touch(k) == older' = {p \in older : p[1] # k} \cup ((Keys \ {k}) \X {k})

(***************************************************************************)
(* History: which calls overlap.  A call that is left with a step to take  *)
(* in level 2 is running.                                                  *)
(***************************************************************************)
Running(k) == {t \in Threads : call[t] # Idle /\ call[t].key = k}
Writers(k) == {t \in Running(k) : call[t].at \in {"set", "delete"}}

BeginWrite(t, k, v, ttl) ==
    /\ last' = [last EXCEPT ![k] = v]
    /\ due' = [due EXCEPT ![k] = clock + ttl]
    /\ clean' = [clean EXCEPT ![k] = Running(k) = {}]
    /\ cleared' = cleared \ {k}

Init ==
    /\ redis \in BOOLEAN
    /\ l1 = <<>>
    /\ store = [k \in Keys |-> None]
    /\ expiry = [k \in Keys |-> 0]
    /\ clock = 1
    /\ call = [t \in Threads |-> Idle]
    /\ calls = 0
    /\ last = [k \in Keys |-> None]
    /\ due = [k \in Keys |-> 0]
    /\ clean = [k \in Keys |-> TRUE]
    /\ cleared = {}
    /\ older = {}

Called(t) ==
    /\ call[t] = Idle
    /\ calls < MaxCalls
    /\ calls' = calls + 1

\* CacheManager::Get.  A hit in level 1 ends it.
Get(t, k) ==
    /\ Called(t)
    /\ l1' = AfterGet(k)
    /\ IF Hit(k) THEN Touch(k) ELSE UNCHANGED older
    /\ call' = [call EXCEPT ![t] = IF redis /\ ~Hit(k) THEN [at |-> "get", key |-> k] ELSE Idle]
    /\ clean' = [clean EXCEPT ![k] = @ /\ (redis /\ ~Hit(k) => Writers(k) = {})]
    /\ UNCHANGED <<redis, store, expiry, clock, last, due, cleared>>

\* RedisClient::Get: a value that has expired is erased; one that is found is
\* written back into level 1 by the next step.
GetL2(t) ==
    /\ call[t].at = "get"
    /\ LET k == call[t].key
       IN  IF Expired(expiry[k])
           THEN /\ store' = [store EXCEPT ![k] = None]
                /\ expiry' = [expiry EXCEPT ![k] = 0]
                /\ call' = [call EXCEPT ![t] = Idle]
           ELSE /\ call' = [call EXCEPT ![t] = IF store[k] = None THEN Idle
                            ELSE [at |-> "fill", key |-> k, value |-> store[k]]]
                /\ UNCHANGED <<store, expiry>>
    /\ UNCHANGED <<redis, l1, clock, calls, last, due, clean, cleared, older>>

\* The back-fill: with the local TTL, whatever is left of the value's own.
Fill(t) ==
    /\ call[t].at = "fill"
    /\ l1' = AfterPut(call[t].key, call[t].value, LocalTtl)
    /\ Touch(call[t].key)
    /\ call' = [call EXCEPT ![t] = Idle]
    /\ UNCHANGED <<redis, store, expiry, clock, calls, last, due, clean, cleared>>

\* CacheManager::Set writes level 1 ...
Set(t, k, v, ttl) ==
    /\ Called(t)
    /\ l1' = AfterPut(k, v, IF ttl > 0 THEN ttl ELSE LocalTtl)
    /\ Touch(k)
    /\ LET ttl2 == IF ttl > 0 THEN ttl ELSE RedisTtl
       IN  /\ call' = [call EXCEPT ![t] = IF ~redis THEN Idle
                         ELSE [at |-> "set", key |-> k, value |-> v, ttl |-> ttl2]]
           /\ BeginWrite(t, k, v, ttl2)
    /\ UNCHANGED <<redis, store, expiry, clock>>

\* Mutant: an expiration that is there is not renewed.
SetL2Once(t) ==
    /\ call[t].at = "set"
    /\ LET k == call[t].key
       IN  /\ store' = [store EXCEPT ![k] = call[t].value]
           /\ expiry' = [expiry EXCEPT ![k] = IF @ = 0 THEN UntilAfter(call[t].ttl) ELSE @]
           /\ due' = [due EXCEPT ![k] = clock + call[t].ttl]
    /\ call' = [call EXCEPT ![t] = Idle]
    /\ UNCHANGED <<redis, l1, clock, calls, last, clean, cleared, older>>

\* ... then level 2, where the value is due ttl after this step.
SetL2(t) ==
    /\ call[t].at = "set"
    /\ LET k == call[t].key
           until == UntilAfter(call[t].ttl)
       IN  /\ store' = [store EXCEPT ![k] = call[t].value]
           /\ expiry' = [expiry EXCEPT ![k] = IF until # 0 THEN until ELSE @]
           /\ due' = [due EXCEPT ![k] = clock + call[t].ttl]
    /\ call' = [call EXCEPT ![t] = Idle]
    /\ UNCHANGED <<redis, l1, clock, calls, last, clean, cleared, older>>

\* Mutant: a key that level 1 does not hold is taken for absent.
DeleteIfLocal(t, k) ==
    /\ Called(t)
    /\ l1' = Others(l1, k)
    /\ call' = [call EXCEPT ![t] = IF redis /\ l1' # l1 THEN [at |-> "delete", key |-> k] ELSE Idle]
    /\ BeginWrite(t, k, None, 0)
    /\ UNCHANGED <<redis, store, expiry, clock, older>>

\* CacheManager::Delete.
Delete(t, k) ==
    /\ Called(t)
    /\ l1' = Others(l1, k)
    /\ call' = [call EXCEPT ![t] = IF redis THEN [at |-> "delete", key |-> k] ELSE Idle]
    /\ BeginWrite(t, k, None, 0)
    /\ UNCHANGED <<redis, store, expiry, clock, older>>

DeleteL2(t) ==
    /\ call[t].at = "delete"
    /\ store' = [store EXCEPT ![call[t].key] = None]
    /\ expiry' = [expiry EXCEPT ![call[t].key] = 0]
    /\ call' = [call EXCEPT ![t] = Idle]
    /\ UNCHANGED <<redis, l1, clock, calls, last, due, clean, cleared, older>>

\* CacheManager::Clear empties level 1 only, where cache_manager.h:65 says both.
Clear(t) ==
    /\ call[t] = Idle
    /\ l1' = <<>>
    /\ cleared' = Keys
    /\ UNCHANGED <<redis, store, expiry, clock, call, calls, last, due, clean, older>>

Tick ==
    /\ clock < MaxClock
    /\ clock' = clock + 1
    /\ UNCHANGED <<redis, l1, store, expiry, call, calls, last, due, clean, cleared, older>>

Next ==
    \/ \E t \in Threads, k \in Keys :
        \/ Get(t, k)
        \/ \E v \in Values, ttl \in Ttls : Set(t, k, v, ttl)
        \/ Delete(t, k)
    \/ \E t \in Threads : GetL2(t) \/ Fill(t) \/ SetL2(t) \/ DeleteL2(t) \/ Clear(t)
    \/ Tick

Spec == Init /\ [][Next]_vars
-----------------------------------------------------------------------------

\* The values have their types, and level 1 holds each key once and never more
\* entries than its capacity: list_ and map_ in lru_cache.h stay of one size.
TypeOK ==
    /\ redis \in BOOLEAN
    /\ l1 \in Seq(Entry) /\ Len(l1) <= Capacity
    /\ \A i, j \in DOMAIN l1 : l1[i].key = l1[j].key => i = j
    /\ store \in [Keys -> Values \cup {None}] /\ expiry \in [Keys -> Nat]
    /\ clock \in Nat /\ calls \in 0..MaxCalls
    /\ last \in [Keys -> Values \cup {None}] /\ due \in [Keys -> Nat]
    /\ clean \in [Keys -> BOOLEAN] /\ cleared \subseteq Keys

\* Settled(k): the last write of k is over, and no other call on k ran while it did.
Settled(k) == clean[k] /\ Writers(k) = {}

\* The levels agree: once the last write of a key is over, and unless a call on
\* that key ran together with it, whatever either level would still answer for
\* the key is the value of that write, and after a Delete neither answers.  So a
\* stale value can only come from a call that overlapped a write, as when a
\* back-fill puts back what a Delete took away, and the next Set or Delete that
\* runs alone mends it.
LevelsAgree ==
    \A k \in Keys : Settled(k) =>
        /\ \A e \in ToSet(l1) : e.key = k /\ ~Expired(e.until) => e.value = last[k]
        /\ store[k] # None /\ ~Expired(expiry[k]) => store[k] = last[k]
        /\ \A t \in Running(k) : call[t].at = "fill" => call[t].value = last[k]

\* Level 2 keeps what level 1 may forget: when Redis is connected, the value of
\* the last write of a key is found there until its own time is over, however
\* often level 1 evicts it or lets it expire and whatever time an earlier value
\* of the key was given.  Nothing is said of a key after a Clear, which the
\* code and its header do not agree about, nor of one with overlapping calls.
\* (cache_manager.cpp 76-87; redis_client.cpp's Set and Get.)
KeptUntilDue ==
    redis => \A k \in Keys \ cleared :
        Settled(k) /\ last[k] # None /\ clock <= due[k] =>
            store[k] = last[k] /\ ~Expired(expiry[k])

\* What a Put evicts: only when the list is full and the key is new; one entry;
\* of the expired ones if there are any, and else of all, the one that was asked
\* for or written longest ago.
VictimOldest ==
    [][ \A k \in Keys :
          LET gone == {e \in ToSet(l1) : \A f \in ToSet(l1') : f.key # e.key}
              expired == {e \in ToSet(l1) : Expired(e.until)}
              candidates == IF expired # {} THEN expired ELSE ToSet(l1)
          IN  l1' # l1 /\ l1' # <<>> /\ l1'[1].key = k /\ (\A e \in ToSet(l1) : e.key # k) =>
                /\ gone # {} => Len(l1) = Capacity
                /\ Len(l1) = Capacity => \E victim \in candidates :
                    /\ gone = {victim}
                    /\ \A e \in candidates \ {victim} : <<victim.key, e.key>> \in older ]_vars
=============================================================================
