---------------------------- MODULE EventHandler ----------------------------
(***************************************************************************)
(* biz/event/event_handler.cpp: what a click, like or other event of a     *)
(* user changes: the event log (events.db), the report queue, the user's   *)
(* profile file (lib/user/user_profile.cpp), the query counts and the      *)
(* co-occurrence of documents (docs.db), and the last click of each user.  *)
(* Request threads run Handle at the same time as the flush thread of      *)
(* ReportStore, the process may crash, and at the end main.cpp stops the   *)
(* server and then the store.  A statement holds its store's mutex and is  *)
(* one step; it can fail, because other connections write docs.db and      *)
(* nothing sets a busy timeout, and those of ReportStore can.  Scores,     *)
(* timestamps, the category weights of profiles, the answer and what other *)
(* requests add to the query counts are left out.                          *)
(***************************************************************************)
EXTENDS ReportStore

CONSTANTS
    Threads,        \* the server's request threads
    Requests,       \* events: [uid, doc, type, query, biz]
    NoName,         \* the empty string, for a field the request lacks
    HistoryCap,     \* how many clicks and likes a profile keeps
    LastClickCap,   \* entries of the last-click map above which it is cleared
    MaxEvents,      \* bound: events and impressions of a behaviour
    MaxFaults       \* bound: statements that fail and crashes

ASSUME HistoryCapAssumption == HistoryCap \in Nat \ {0}
ASSUME RequestsAssumption == Requests # {}
ASSUME ThreadsAssumption == IsFiniteSet(Threads)

\* What the handlers report are events of the store.
ASSUME EventsAssumption ==
    \A r \in Requests, y \in {"impression", "click", "like"} :
        [biz |-> r.biz, type |-> y] \in Events

Uids == {r.uid : r \in Requests} \ {NoName}
Docs == {r.doc : r \in Requests} \ {NoName}
Queries == {r.query : r \in Requests} \ {NoName}

VARIABLES
    phase,      \* where main is
    pc,         \* where each thread is in Handle
    req,        \* the request of each thread
    prof,       \* the profile a thread has loaded and updated
    last,       \* last_doc_id of each thread
    logged,     \* search_events: how many rows each request has
    file,       \* the files <uid>.pb and .pb; the truncated file is Blank
    freq,       \* query_stats
    pairs,      \* doc_cooccur: co_count, keyed by (src, dst)
    lastClick,  \* s_last_click_map
    started,    \* how many events have begun
    faults,     \* how many statements have failed and how often the process crashed
    unlogged,   \* history: events whose WriteEvent failed
    saved,      \* history: the clicks and likes saved for each user, in order
    raced,      \* history: users whose profile updates overlapped or were cut by a crash
    halved      \* history: some pair was stored in one direction only

handlerVars == <<phase, pc, req, prof, last, logged, file, freq, pairs, lastClick,
                 started, faults, unlogged, saved, raced, halved>>
vars == <<handlerVars, storeVars>>

\* UserProfile; what an empty file parses to is the profile without a uid.
NewProfile(u) == [uid |-> u, click |-> <<>>, like |-> <<>>, clicks |-> 0, likes |-> 0]
Blank == NewProfile(NoName)

AnyRequest == CHOOSE r \in Requests : TRUE

Init ==
    /\ StoreInit
    /\ phase = "down"
    /\ pc = [t \in Threads |-> "idle"]
    /\ req = [t \in Threads |-> AnyRequest]
    /\ prof = [t \in Threads |-> Blank]
    /\ last = [t \in Threads |-> NoName]
    /\ logged = [r \in Requests |-> 0]
    /\ file = <<>>
    /\ freq = [q \in Queries |-> 0]
    /\ pairs = [p \in Docs \X Docs |-> 0]
    /\ lastClick = <<>>
    /\ started = 0
    /\ faults = 0
    /\ unlogged = [r \in Requests |-> 0]
    /\ saved = [u \in Uids |-> [click |-> <<>>, like |-> <<>>]]
    /\ raced = {}
    /\ halved = FALSE

-----------------------------------------------------------------------------
(* Which parts of Handle a request goes through.                           *)

Reported(r) == r.type \in {"click", "like"}

Profiled(r) == Reported(r) /\ r.uid # NoName /\ r.doc # NoName
Counted(r) == r.type = "click" /\ r.query # NoName
Chained(r) == r.type = "click" /\ r.uid # NoName /\ r.doc # NoName

AfterProfile(r) ==
    IF Counted(r) THEN "query" ELSE IF Chained(r) THEN "swap" ELSE "idle"
AfterReport(r) == IF Profiled(r) THEN "load" ELSE AfterProfile(r)

-----------------------------------------------------------------------------
(* EventHandler::Handle.                                                   *)

\* A thread that has answered waits without a request.
Goto(t, where) ==
    /\ pc' = [pc EXCEPT ![t] = where]
    /\ req' = [req EXCEPT ![t] = IF where = "idle" THEN AnyRequest ELSE @]
    /\ prof' = [prof EXCEPT ![t] = IF where = "write" THEN @ ELSE Blank]
    /\ last' = [last EXCEPT ![t] = IF where = "second" THEN @ ELSE NoName]

\* Mutant: the report goes out before WriteEvent is called.
BeginReporting(t, r) ==
    /\ phase = "up"
    /\ pc[t] = "idle"
    /\ started < MaxEvents
    /\ started' = started + 1
    /\ pc' = [pc EXCEPT ![t] = "log"]
    /\ req' = [req EXCEPT ![t] = r]
    /\ IF Reported(r) THEN Report([biz |-> r.biz, type |-> r.type]) ELSE UNCHANGED storeVars
    /\ UNCHANGED <<phase, prof, last, logged, file, freq, pairs, lastClick, faults,
                   unlogged, saved, raced, halved>>

Begin(t, r) ==
    /\ phase = "up"
    /\ pc[t] = "idle"
    /\ started < MaxEvents
    /\ started' = started + 1
    /\ pc' = [pc EXCEPT ![t] = "log"]
    /\ req' = [req EXCEPT ![t] = r]
    /\ UNCHANGED <<storeVars, phase, prof, last, logged, file, freq, pairs, lastClick,
                   faults, unlogged, saved, raced, halved>>

\* EventDB::WriteEvent; a failure is only logged.
WriteEvent(t) ==
    /\ pc[t] = "log"
    /\ Goto(t, "report")
    /\ \/ /\ logged' = [logged EXCEPT ![req[t]] = @ + 1]
          /\ UNCHANGED <<unlogged, faults>>
       \/ /\ faults < MaxFaults
          /\ faults' = faults + 1
          /\ unlogged' = [unlogged EXCEPT ![req[t]] = @ + 1]
          /\ UNCHANGED logged
    /\ UNCHANGED <<storeVars, phase, file, freq, pairs, lastClick, started,
                   saved, raced, halved>>

ReportEvent(t) ==
    /\ pc[t] = "report"
    /\ IF Reported(req[t])
       THEN Report([biz |-> req[t].biz, type |-> req[t].type])
       ELSE UNCHANGED storeVars
    /\ Goto(t, AfterReport(req[t]))
    /\ UNCHANGED <<phase, logged, file, freq, pairs, lastClick, started, faults, unlogged, saved, raced, halved>>

-----------------------------------------------------------------------------
(* UserProfileManager::UpdateFromEvent.                                    *)

\* A user without a file gets an empty profile with its uid.
LoadProfile(u) == IF u \in DOMAIN file THEN file[u] ELSE NewProfile(u)

\* Mutant: a full click history takes no more clicks.
UpdatedUntilFull(p, r) ==
    IF r.type = "click"
    THEN [p EXCEPT !.clicks = @ + 1,
                   !.click = IF Len(@) < HistoryCap THEN Append(@, r.doc) ELSE @]
    ELSE [p EXCEPT !.likes = @ + 1,
                   !.like = IF Len(@) < HistoryCap THEN Append(@, r.doc) ELSE @]

\* The click history drops its oldest entry when it is full, the like
\* history takes no more.
Updated(p, r) ==
    IF r.type = "click"
    THEN [p EXCEPT !.clicks = @ + 1,
                   !.click = Append(IF Len(@) < HistoryCap THEN @ ELSE Tail(@), r.doc)]
    ELSE [p EXCEPT !.likes = @ + 1,
                   !.like = IF Len(@) < HistoryCap THEN Append(@, r.doc) ELSE @]

Overlaps(t) ==
    \E s \in Threads \ {t} : pc[s] \in {"open", "write"} /\ req[s].uid = req[t].uid

LoadAndUpdate(t) ==
    /\ pc[t] = "load"
    /\ pc' = [pc EXCEPT ![t] = "open"]
    /\ prof' = [prof EXCEPT ![t] = Updated(LoadProfile(req[t].uid), req[t])]
    /\ raced' = IF Overlaps(t) THEN raced \union {req[t].uid} ELSE raced
    /\ UNCHANGED <<storeVars, phase, req, last, logged, file, freq, pairs, lastClick,
                   started, faults, unlogged, saved, halved>>

Store(u, p) == file' = [x \in DOMAIN file \union {u} |-> IF x = u THEN p ELSE file[x]]

\* SaveProfile opens the file of the profile's uid, which truncates it ...
OpenProfile(t) ==
    /\ pc[t] = "open"
    /\ Store(prof[t].uid, Blank)
    /\ Goto(t, "write")
    /\ UNCHANGED <<storeVars, phase, logged, freq, pairs, lastClick, started, faults, unlogged, saved, raced, halved>>

\* ... and its content arrives when the stream is closed.  Of a longer
\* content another thread wrote meanwhile a tail stays, which the parser
\* reads after this profile; that tail is left out.
WriteProfile(t) ==
    /\ pc[t] = "write"
    /\ Store(prof[t].uid, prof[t])
    /\ saved' = [saved EXCEPT ![req[t].uid][req[t].type] = Append(@, req[t].doc)]
    /\ Goto(t, AfterProfile(req[t]))
    /\ UNCHANGED <<storeVars, phase, logged, freq, pairs, lastClick, started, faults, unlogged, raced, halved>>

-----------------------------------------------------------------------------
(* Query counts, last clicks and co-occurrence.                            *)

\* QueryStatsStore::IncrementQuery.
IncrementQuery(t) ==
    /\ pc[t] = "query"
    /\ Goto(t, IF Chained(req[t]) THEN "swap" ELSE "idle")
    /\ \/ /\ freq' = [freq EXCEPT ![req[t].query] = @ + 1]
          /\ UNCHANGED faults
       \/ /\ faults < MaxFaults
          /\ faults' = faults + 1
          /\ UNCHANGED freq
    /\ UNCHANGED <<storeVars, phase, logged, file, pairs, lastClick, started,
                   unlogged, saved, raced, halved>>

\* Under s_last_click_mutex: an overfull map is cleared, then the user's
\* last click is read and replaced.
SwapLastClick(t) ==
    LET u == req[t].uid
        kept == IF Cardinality(DOMAIN lastClick) > LastClickCap THEN <<>> ELSE lastClick
        before == IF u \in DOMAIN kept THEN kept[u] ELSE NoName
        where == IF before \in {NoName, req[t].doc} THEN "idle" ELSE "first"
    IN  /\ pc[t] = "swap"
        /\ lastClick' = [x \in DOMAIN kept \union {u} |->
                            IF x = u THEN req[t].doc ELSE kept[x]]
        /\ pc' = [pc EXCEPT ![t] = where]
        /\ req' = [req EXCEPT ![t] = IF where = "idle" THEN AnyRequest ELSE @]
        /\ last' = [last EXCEPT ![t] = IF where = "first" THEN before ELSE NoName]
        /\ UNCHANGED <<storeVars, phase, prof, logged, file, freq, pairs, started,
                       faults, unlogged, saved, raced, halved>>

\* One statement of RecordCooccurrence: the count of the pair, or nothing.
CountPair(p) ==
    \/ /\ pairs' = [pairs EXCEPT ![p] = @ + 1]
       /\ UNCHANGED <<faults, halved>>
    \/ /\ faults < MaxFaults
       /\ faults' = faults + 1
       /\ halved' = TRUE
       /\ UNCHANGED pairs

\* DocCooccurStore::RecordCooccurrence takes the mutex and stores the pair ...
RecordForth(t) ==
    /\ pc[t] = "first"
    /\ \A s \in Threads : pc[s] # "second"
    /\ CountPair(<<last[t], req[t].doc>>)
    /\ pc' = [pc EXCEPT ![t] = "second"]
    /\ UNCHANGED <<storeVars, phase, req, prof, last, logged, file, freq, lastClick,
                   started, unlogged, saved, raced>>

\* Mutant: the second statement stores the first direction again.
RecordForthAgain(t) ==
    /\ pc[t] = "second"
    /\ CountPair(<<last[t], req[t].doc>>)
    /\ Goto(t, "idle")
    /\ UNCHANGED <<storeVars, phase, logged, file, freq, lastClick, started, unlogged,
                   saved, raced>>

\* ... and then its mirror image, whatever became of the first.
RecordBack(t) ==
    /\ pc[t] = "second"
    /\ CountPair(<<req[t].doc, last[t]>>)
    /\ Goto(t, "idle")
    /\ UNCHANGED <<storeVars, phase, logged, file, freq, lastClick, started,
                   unlogged, saved, raced>>

Handle(t) ==
    \/ WriteEvent(t) \/ ReportEvent(t)
    \/ LoadAndUpdate(t) \/ OpenProfile(t) \/ WriteProfile(t)
    \/ IncrementQuery(t) \/ SwapLastClick(t)
    \/ RecordForth(t) \/ RecordBack(t)

-----------------------------------------------------------------------------
(* The rest of the process: main.cpp and the other handlers.               *)

Start ==
    /\ phase = "down"
    /\ phase' = "up"
    /\ Initialize \/ UNCHANGED storeVars
    /\ UNCHANGED <<pc, req, prof, last, logged, file, freq, pairs, lastClick, started,
                   faults, unlogged, saved, raced, halved>>

\* A search, sug, hint or nav request reports its impressions.
Impression(biz) ==
    /\ phase = "up"
    /\ started < MaxEvents
    /\ started' = started + 1
    /\ Report([biz |-> biz, type |-> "impression"])
    /\ UNCHANGED <<phase, pc, req, prof, last, logged, file, freq, pairs, lastClick,
                   faults, unlogged, saved, raced, halved>>

\* The signal: the server takes no more requests, its threads answer the
\* ones they have, and Run returns.
ServerReturns ==
    /\ phase = "up"
    /\ \A t \in Threads : pc[t] = "idle"
    /\ phase' = "stopping"
    /\ UNCHANGED <<storeVars, pc, req, prof, last, logged, file, freq, pairs, lastClick,
                   started, faults, unlogged, saved, raced, halved>>

StopStore ==
    /\ phase = "stopping"
    /\ RequestStop \/ StopAfterJoin
    /\ UNCHANGED handlerVars

\* Stop returns at once when the store does not run; then main returns.
Exit ==
    /\ phase = "stopping"
    /\ phase' = "exited"
    /\ ProcessEnds
    /\ lastClick' = <<>>
    /\ UNCHANGED <<pc, req, prof, last, logged, file, freq, pairs, started, faults, unlogged, saved, raced, halved>>

\* What is on disk stays, truncated profile files included.
Crash ==
    /\ phase \in {"up", "stopping"}
    /\ faults < MaxFaults
    /\ faults' = faults + 1
    /\ phase' = "down"
    /\ ProcessDies
    /\ pc' = [t \in Threads |-> "idle"]
    /\ req' = [t \in Threads |-> AnyRequest]
    /\ prof' = [t \in Threads |-> Blank]
    /\ last' = [t \in Threads |-> NoName]
    /\ lastClick' = <<>>
    /\ raced' = raced \union {req[t].uid : t \in {s \in Threads : pc[s] = "write"}}
    /\ halved' = (halved \/ \E t \in Threads : pc[t] = "second")
    /\ UNCHANGED <<logged, file, freq, pairs, started, unlogged, saved>>

\* The flush thread.
Flush ==
    \/ FlushLoop /\ UNCHANGED handlerVars
    \/ /\ StatementFails
       /\ faults < MaxFaults
       /\ faults' = faults + 1
       /\ UNCHANGED <<phase, pc, req, prof, last, logged, file, freq, pairs, lastClick,
                      started, unlogged, saved, raced, halved>>

Done == phase = "exited" /\ UNCHANGED vars

Next ==
    \/ \E t \in Threads : Handle(t) \/ \E r \in Requests : Begin(t, r)
    \/ \E r \in Requests : Impression(r.biz)
    \/ Start \/ ServerReturns \/ StopStore \/ Exit \/ Crash
    \/ Flush \/ Done

Spec == Init /\ [][Next]_vars

-----------------------------------------------------------------------------
Profiles == [uid : Uids \union {NoName}, click : Seq(Docs), like : Seq(Docs),
             clicks : Nat, likes : Nat]

TypeOK ==
    /\ StoreTypeOK
    /\ phase \in {"down", "up", "stopping", "exited"}
    /\ pc \in [Threads -> {"idle", "log", "report", "load", "open", "write", "query",
                           "swap", "first", "second"}]
    /\ req \in [Threads -> Requests]
    /\ prof \in [Threads -> Profiles]
    /\ last \in [Threads -> Docs \union {NoName}]
    /\ logged \in [Requests -> Nat] /\ unlogged \in [Requests -> Nat]
    /\ DOMAIN file \subseteq Uids \union {NoName}
    /\ \A u \in DOMAIN file : file[u] \in Profiles
    /\ freq \in [Queries -> Nat]
    /\ pairs \in [Docs \X Docs -> Nat]
    /\ DOMAIN lastClick \subseteq Uids
    /\ \A u \in DOMAIN lastClick : lastClick[u] \in Docs
    /\ started \in 0..MaxEvents
    /\ faults \in 0..MaxFaults
    /\ saved \in [Uids -> [click : Seq(Docs), like : Seq(Docs)]]
    /\ raced \subseteq Uids
    /\ halved \in BOOLEAN

\* The requests among a set of kinds whose WriteEvent has been called, whether
\* it succeeded or not, numbered.
Handled(kinds) == UNION {{r} \X (1..(logged[r] + unlogged[r])) : r \in kinds}

Clicks == {r \in Requests : r.type = "click"}
Clicked(u, d) == Handled({r \in Clicks : r.uid = u /\ r.doc = d}) # {}

\* No report is doubled or overtaken on its way into the table.  As long as
\* no statement fails and no crash comes none is lost, and until the process
\* ends in order none is dropped; the end itself drops exactly what is still
\* queued.  (report_store.cpp 54-123; event_handler.cpp 252-259.)
ReportsInOrder ==
    /\ Ledger
    /\ faults = 0 => lost = {}
    /\ phase # "exited" => dropped = {}

\* What the dashboard and the suggestions count are events that came in:
\* neither the clicks in the time series of a business nor the uses of a
\* query exceed the clicks in the event log by more than the clicks whose
\* WriteEvent failed, which Handle counts all the same, and two documents
\* have a co-occurrence only when some user clicked both, whatever failed or
\* crashed in between.  (event_handler.cpp 238-297; report_store.cpp 64-180.)
CountsWithinEvents ==
    /\ \A biz \in {r.biz : r \in Requests} :
          QueryTimeSeries(biz).clicks <= Cardinality(Handled({r \in Clicks : r.biz = biz}))
    /\ \A q \in Queries : freq[q] <= Cardinality(Handled({r \in Clicks : r.query = q}))
    /\ \A p \in Docs \X Docs : pairs[p] > 0 =>
          p[1] # p[2] /\ \E u \in Uids : Clicked(u, p[1]) /\ Clicked(u, p[2])

\* A profile file holds exactly what was saved for its user, with the last
\* clicks and the first likes, except after two updates of the user overlapped
\* or a crash cut one.  (user_profile.cpp 27-126.)
ProfileExact ==
    \A u \in Uids \ raced :
        (\A t \in Threads : ~(pc[t] = "write" /\ req[t].uid = u)) =>
            LET p == LoadProfile(u)
                s == saved[u]
                n == Len(s.click)
            IN  /\ p.uid = u
                /\ p.clicks = n
                /\ p.likes = Len(s.like)
                /\ p.click = SubSeq(s.click, IF n > HistoryCap THEN n - HistoryCap + 1 ELSE 1, n)
                /\ p.like = SubSeq(s.like, 1,
                               IF Len(s.like) < HistoryCap THEN Len(s.like) ELSE HistoryCap)

\* The co-occurrence of two documents is symmetric, up to the pair a thread
\* is just storing, unless a statement failed or a crash came between the
\* two.  (doc_cooccur_store.cpp 53-88: "bidirectional co-occurrence".)
PairsMirror ==
    ~halved =>
        \A p \in Docs \X Docs :
            pairs[p] = pairs[<<p[2], p[1]>>]
                         + Cardinality({t \in Threads : pc[t] = "second" /\ p = <<last[t], req[t].doc>>})
                         - Cardinality({t \in Threads : pc[t] = "second" /\ p = <<req[t].doc, last[t]>>})
=============================================================================
