----------------------------- MODULE FetchLoads -----------------------------
(***************************************************************************)
(* Fetch requests of a runtime (src/src/js/fetch_loading.rs, async_fetch.rs *)
(* and background.rs): transport runs on resource workers while callbacks, *)
(* quotas and the CORS preflight cache stay with the owner thread.  A      *)
(* worker carries a snapshot of the preflight cache and brings it back;    *)
(* the owner collects what has finished when its event loop polls, and may *)
(* by then have aborted the fetch or retired the document.  Beacons and    *)
(* deferred (fetchLater) requests outlive their document.                  *)
(***************************************************************************)
EXTENDS Naturals, Sequences, SequencesExt, FiniteSets, FiniteSetsExt, Orderings

CONSTANTS
    Documents,
    Keys,          \* preflight cache keys
    Quota,         \* KEEPALIVE_QUOTA
    Sizes,         \* body lengths
    Delays,        \* activateAfter values
    Ages,          \* preflight max-ages
    MaxFetches,    \* bound: fetches ever begun
    MaxLoads,      \* bound: background requests ever started
    MaxTime,       \* bound: clock
    Workloads,     \* bounds of the instances that are explored side by side
    None

ASSUME BoundsAssumption == {MaxFetches, MaxLoads, MaxTime, Quota} \subseteq Nat
ASSUME WorkloadsAssumption ==
    \A w \in Workloads : /\ w.fetches \in 0 .. MaxFetches
                         /\ w.loads \in 0 .. MaxLoads
                         /\ w.time \in 1 .. MaxTime
                         /\ w.keys \subseteq Keys \cup {None}
ASSUME DataAssumption == Sizes \cup Delays \cup Ages \subseteq Nat

FetchIds == 1 .. MaxFetches
LoadIds  == 1 .. MaxLoads
\* A job of the resource queue is named by the table entry that owns it.
Jobs     == ({"fetch"} \X FetchIds) \cup ({"load"} \X LoadIds)

\* A Networking task that settles the promise of a fetch.
Callback == [id : FetchIds, doc : Documents, result : {"loaded", "failed"}]
\* An entry of BackgroundLoads::pending; its request is taken when it is sent.
Entry    == [doc : Documents, size : Nat, key : Keys \cup {None},
             deadline : Nat \cup {None}, request : BOOLEAN, later : BOOLEAN]
\* BackgroundLoads: the last id, reserved_bytes, the activated flags the pages
\* share, and the table.
Table    == [next : 0 .. MaxLoads, reserved : 0 .. Quota, activated : SUBSET LoadIds,
             pending : [LoadIds -> Entry \cup {None}]]
\* A job and the preflight cache it carries.
Job      == [state : {"queued", "loaded", "failed", "panicked"},
             key : Keys \cup {None}, since : Nat, cache : [Keys -> Nat]]
\* What has become of a background request.
Fate     == [doc : Documents \cup {None}, later : BOOLEAN, handed : Nat,
             refused : BOOLEAN, cancelled : BOOLEAN]

ASSUME NoneAssumption == None \notin Nat \cup Documents \cup Keys \cup Entry \cup Job

VARIABLES
    clock,
    active,       \* documents that are active
    stopped,      \* the resource queue is stopped: its threads did not start
    fetches,      \* FetchLoads::pending
    nextFetch,    \* FetchLoads::next_id
    page,         \* the promise of each fetch, as its page sees it
    callbacks,    \* Networking tasks of the event loop
    loads,        \* BackgroundLoads
    jobs,         \* the jobs the tables hold a ResourceTask for
    cache,        \* cors_preflight_cache: key -> expiry, 0 for no entry
    fate,         \* history of each background request
    load          \* the workload of this behaviour

fetchVars == <<fetches, nextFetch, page, callbacks>>
vars == <<clock, active, stopped, fetchVars, loads, jobs, cache, fate, load>>

Init ==
    /\ clock = 1
    /\ active = Documents
    /\ stopped \in BOOLEAN
    /\ fetches = [i \in FetchIds |-> None]
    /\ nextFetch = 0
    /\ page = [i \in FetchIds |-> "none"]
    /\ callbacks = <<>>
    /\ loads = [next |-> 0, reserved |-> 0, activated |-> {},
                pending |-> [b \in LoadIds |-> None]]
    /\ jobs = [j \in Jobs |-> None]
    /\ cache = [k \in Keys |-> 0]
    /\ fate = [b \in LoadIds |-> [doc |-> None, later |-> FALSE, handed |-> 0,
                                  refused |-> FALSE, cancelled |-> FALSE]]
    /\ load \in Workloads

-----------------------------------------------------------------------------
(* The preflight cache. *)

Fresh(expiry, now) == IF expiry > now THEN expiry ELSE 0

\* Mutant: the snapshot that arrives last wins.
MergeReplaces(c, snapshots, now) ==
    [k \in Keys |->
        IF snapshots = {} THEN c[k]
        ELSE Min({Fresh(s[k], now) : s \in snapshots})]

\* PreflightCache::merge of the snapshots of several finished workers, in any
\* order: expired entries go, and the longest approval of a key stays.
Merge(c, snapshots, now) ==
    IF snapshots = {} THEN c
    ELSE [k \in Keys |-> Max({Fresh(c[k], now)} \cup {Fresh(s[k], now) : s \in snapshots})]

\* ensure_preflight on the worker's snapshot: an unexpired approval is used, or
\* the server is asked, and its answer counts from before the question.
AfterPreflight(snapshot, key, at, age) ==
    LET kept == [k \in Keys |-> Fresh(snapshot[k], at)]
    IN  IF key = None THEN snapshot
        ELSE IF kept[key] > 0 THEN kept
        ELSE [kept EXCEPT ![key] = at + age]

\* A job as it is submitted, with the cache it takes along.
NewJob(key, c) == [state |-> "queued", key |-> key, since |-> clock, cache |-> c]

Complete(j)  == jobs[j] # None /\ jobs[j].state \in {"loaded", "failed"}
Finished(j)  == jobs[j] # None /\ jobs[j].state # "queued"

\* A worker runs a job: the request succeeds or fails, or the worker panics.
\* The preflight happens at some time between the submission and the result.
Execute(j) ==
    /\ jobs[j] # None
    /\ jobs[j].state = "queued"
    /\ \/ \E at \in jobs[j].since .. clock, age \in Ages, result \in {"loaded", "failed"} :
            jobs' = [jobs EXCEPT ![j].state = result,
                        ![j].cache = AfterPreflight(@, jobs[j].key, at, age)]
       \/ jobs' = [jobs EXCEPT ![j].state = "panicked"]
    /\ UNCHANGED <<clock, active, stopped, fetchVars, loads, cache, fate>>

-----------------------------------------------------------------------------
(* fetch() and asynchronous XMLHttpRequest: async_fetch.rs and the promise *)
(* of fetchWithScheduling.                                                 *)

\* begin: an id, a job and a table entry, or an exception when the queue is
\* stopped, which changes nothing.
Begin(d, key) ==
    LET i == nextFetch + 1
    IN  /\ d \in active
        /\ i <= load.fetches
        /\ ~stopped
        /\ nextFetch' = i
        /\ fetches' = [fetches EXCEPT ![i] = d]
        /\ page' = [page EXCEPT ![i] = "waiting"]
        /\ jobs' = [jobs EXCEPT ![<<"fetch", i>>] = NewJob(key, cache)]
        /\ UNCHANGED <<clock, active, stopped, callbacks, loads, cache, fate>>

\* The page aborts: its promise is rejected, and cancel drops the table entry,
\* if there still is one, and with it the scope of its job.
Abort(i) ==
    /\ page[i] = "waiting"
    /\ page' = [page EXCEPT ![i] = "aborted"]
    /\ fetches' = [fetches EXCEPT ![i] = None]
    /\ jobs' = [jobs EXCEPT ![<<"fetch", i>>] = None]
    /\ UNCHANGED <<clock, active, stopped, nextFetch, callbacks, loads, cache, fate>>

\* loaded and failed of fetchWithScheduling: only the first one settles.
RunCallback ==
    /\ callbacks # <<>>
    /\ LET task == Head(callbacks)
       IN  page' = IF page[task.id] = "waiting"
                   THEN [page EXCEPT ![task.id] = task.result] ELSE page
    /\ callbacks' = Tail(callbacks)
    /\ UNCHANGED <<clock, active, stopped, fetches, nextFetch, loads, jobs, cache, fate>>

\* Mutant: a worker that went away without an answer looks like one still busy.
FinishedFetchesWithoutPanics ==
    {i \in FetchIds : fetches[i] # None /\ Complete(<<"fetch", i>>)}

\* What poll collects: a disconnected channel counts as a panic.
FinishedFetches == {i \in FetchIds : fetches[i] # None /\ Finished(<<"fetch", i>>)}

\* deliver for every collected fetch, in the table's arbitrary order: one
\* callback each, unless its document is not active any more.
Delivered(order) ==
    LET live == Keep(order, {i \in FetchIds : fetches[i] \in active})
    IN  [n \in DOMAIN live |->
            [id |-> live[n], doc |-> fetches[live[n]],
             result |-> IF jobs[<<"fetch", live[n]>>].state = "loaded"
                        THEN "loaded" ELSE "failed"]]

\* The snapshots that come back with complete outcomes.
Snapshots(js) == {jobs[j].cache : j \in {x \in js : Complete(x)}}

-----------------------------------------------------------------------------
(* Beacons and deferred requests: background.rs. *)

\* The body bytes of the entries ids, each named by its entry and its place.
Bytes(pending, ids) == UNION {{b} \X (1 .. pending[b].size) : b \in ids}

\* A table entry and its reservation go.
Release(l, ids) ==
    [l EXCEPT !.reserved = @ - Cardinality(Bytes(l.pending, ids)),
              !.pending  = [b \in LoadIds |-> IF b \in ids THEN None ELSE @[b]]]

Occupied(l) == {b \in LoadIds : l.pending[b] # None}
Deferred(l) == {b \in LoadIds : l.pending[b] # None /\ l.pending[b].request}

\* activate_or_release for each of ids: the request is taken and submitted, or
\* the entry is released because the queue is stopped.
Activate(l, ids) ==
    IF stopped THEN Release(l, ids)
    ELSE [l EXCEPT
            !.pending   = [b \in LoadIds |->
                              IF b \in ids THEN [@[b] EXCEPT !.request = FALSE] ELSE @[b]],
            !.activated = @ \cup {b \in ids : l.pending[b].later}]

\* The jobs that Activate submits, with cache c.
Submitted(js, l, ids, c) ==
    [j \in Jobs |->
        IF ~stopped /\ j[1] = "load" /\ j[2] \in ids
        THEN NewJob(l.pending[j[2]].key, c) ELSE js[j]]

\* What Activate makes of the requests' fates.
HandOver(f, ids) ==
    [b \in LoadIds |->
        IF b \notin ids THEN f[b]
        ELSE IF stopped THEN [f[b] EXCEPT !.refused = TRUE]
        ELSE [f[b] EXCEPT !.handed = @ + 1]]

WithinQuota(size) == loads.reserved + size <= Quota

\* start, for sendBeacon (deadline now) and fetchLater (a deadline or none).
\* Over the quota both are refused without a change.
Start(d, size, key, deadline, later) ==
    LET b        == loads.next + 1
        inserted == [loads EXCEPT
                        !.next = b, !.reserved = @ + size,
                        !.pending[b] = [doc |-> d, size |-> size, key |-> key,
                                        deadline |-> deadline, request |-> TRUE,
                                        later |-> later]]
        due      == IF deadline # None /\ deadline <= clock THEN {b} ELSE {}
    IN  /\ d \in active
        /\ b <= load.loads
        /\ WithinQuota(size)
        /\ loads' = Activate(inserted, due)
        /\ jobs' = Submitted(jobs, inserted, due, cache)
        /\ fate' = HandOver([fate EXCEPT ![b].doc = d, ![b].later = later], due)
        /\ UNCHANGED <<clock, active, stopped, fetchVars, cache>>

Beacon(d, size, key)    == Start(d, size, key, clock, FALSE)
FetchLater(d, size, key) ==
    \E deadline \in {None} \cup {clock + x : x \in Delays} : Start(d, size, key, deadline, TRUE)

\* Mutant: an aborted request keeps its reservation.
CancelKeepsReservation(b) ==
    /\ b \in Deferred(loads)
    /\ loads' = [loads EXCEPT !.pending[b] = None]
    /\ fate' = [fate EXCEPT ![b].cancelled = TRUE]
    /\ UNCHANGED <<clock, active, stopped, fetchVars, jobs, cache>>

\* The "cancel" operation: only what has not been handed over.
Cancel(b) ==
    /\ b \in Deferred(loads)
    /\ loads' = Release(loads, {b})
    /\ fate' = [fate EXCEPT ![b].cancelled = TRUE]
    /\ UNCHANGED <<clock, active, stopped, fetchVars, jobs, cache>>

Due == {b \in Deferred(loads) :
            loads.pending[b].deadline # None /\ loads.pending[b].deadline <= clock}

FinishedLoads == {b \in LoadIds : loads.pending[b] # None /\ Finished(<<"load", b>>)}

\* fetch_loading::poll: the fetches, then the background requests that are due
\* and the ones that have finished.
Poll ==
    LET fs     == FinishedFetches
        bs     == FinishedLoads
        merged == Merge(cache, Snapshots({<<"fetch", i>> : i \in fs}), clock)
        gone   == {<<"fetch", i>> : i \in fs} \cup {<<"load", b>> : b \in bs}
    IN  /\ fs \cup Due \cup bs # {}
        /\ \E order \in SetToSeqs(fs) : callbacks' = callbacks \o Delivered(order)
        /\ fetches' = [i \in FetchIds |-> IF i \in fs THEN None ELSE fetches[i]]
        /\ loads' = Release(Activate(loads, Due), bs)
        /\ jobs' = [j \in Jobs |-> IF j \in gone THEN None
                                   ELSE Submitted(jobs, loads, Due, merged)[j]]
        /\ cache' = Merge(merged, Snapshots({<<"load", b>> : b \in bs}), clock)
        /\ fate' = HandOver(fate, Due)
        /\ UNCHANGED <<clock, active, stopped, nextFetch, page>>

-----------------------------------------------------------------------------
(* The documents and the clock. *)

Owned(d) == {b \in Deferred(loads) : loads.pending[b].doc = d}

\* The promises of a document go with it.
Abandon(d) ==
    page' = [i \in FetchIds |->
                IF /\ page[i] = "waiting"
                   /\ \/ fetches[i] = d
                      \/ \E n \in DOMAIN callbacks :
                            callbacks[n].id = i /\ callbacks[n].doc = d
                THEN "gone" ELSE page[i]]

\* Mutant: deferred requests are not sent when their document goes.
RetireForgetsDeferred(d) ==
    LET own == {i \in FetchIds : fetches[i] = d}
    IN  /\ d \in active
        /\ active' = active \ {d}
        /\ Abandon(d)
        /\ callbacks' = Keep(callbacks, {t \in ToSet(callbacks) : t.doc # d})
        /\ fetches' = [i \in FetchIds |-> IF i \in own THEN None ELSE fetches[i]]
        /\ jobs' = [j \in Jobs |-> IF j \in {"fetch"} \X own THEN None ELSE jobs[j]]
        /\ UNCHANGED <<clock, stopped, nextFetch, loads, cache, fate>>

\* Mutant: the tasks already queued for the document stay.
RetireKeepsTasks(d) ==
    LET own == {i \in FetchIds : fetches[i] = d}
    IN  /\ d \in active
        /\ active' = active \ {d}
        /\ Abandon(d)
        /\ loads' = Activate(loads, Owned(d))
        /\ fetches' = [i \in FetchIds |-> IF i \in own THEN None ELSE fetches[i]]
        /\ jobs' = [j \in Jobs |-> IF j \in {"fetch"} \X own THEN None
                                   ELSE Submitted(jobs, loads, Owned(d), cache)[j]]
        /\ fate' = HandOver(fate, Owned(d))
        /\ UNCHANGED <<clock, stopped, nextFetch, callbacks, cache>>

\* The part of retire_document_tree that concerns fetching: queued callbacks
\* are dropped, deferred requests are sent, pending fetches are cancelled.
Retire(d) ==
    LET own == {i \in FetchIds : fetches[i] = d}
    IN  /\ d \in active
        /\ active' = active \ {d}
        /\ Abandon(d)
        /\ callbacks' = Keep(callbacks, {t \in ToSet(callbacks) : t.doc # d})
        /\ loads' = Activate(loads, Owned(d))
        /\ fetches' = [i \in FetchIds |-> IF i \in own THEN None ELSE fetches[i]]
        /\ jobs' = [j \in Jobs |-> IF j \in {"fetch"} \X own THEN None
                                   ELSE Submitted(jobs, loads, Owned(d), cache)[j]]
        /\ fate' = HandOver(fate, Owned(d))
        /\ UNCHANGED <<clock, stopped, nextFetch, cache>>

Tick ==
    /\ clock < load.time
    /\ clock' = clock + 1
    /\ UNCHANGED <<active, stopped, fetchVars, loads, jobs, cache, fate>>

Step ==
    \/ \E d \in Documents, key \in load.keys : Begin(d, key)
    \/ \E d \in Documents, size \in Sizes, key \in load.keys :
          Beacon(d, size, key) \/ FetchLater(d, size, key)
    \/ \E i \in FetchIds : Abort(i)
    \/ \E b \in LoadIds : Cancel(b)
    \/ \E j \in Jobs : Execute(j)
    \/ \E d \in Documents : Retire(d)
    \/ Poll
    \/ RunCallback
    \/ Tick

Next == Step /\ UNCHANGED load

Spec == Init /\ [][Next]_vars

\* A worker finishes its job in the end, which assumes that its transfer ends; a
\* pending fetch makes the embedder run the event loop, and so do its queued
\* tasks (render_demand.rs).
Fairness ==
    /\ \A i \in FetchIds : WF_vars(Execute(<<"fetch", i>>) /\ UNCHANGED load)
    /\ WF_vars(FinishedFetches # {} /\ Poll /\ UNCHANGED load)
    /\ WF_vars(RunCallback /\ UNCHANGED load)

FairSpec == Spec /\ Fairness

-----------------------------------------------------------------------------
(* Properties. *)

\* The variables stay in their types; in particular reserved_bytes never
\* passes KEEPALIVE_QUOTA and never falls below zero (start, release).
TypeOK ==
    /\ clock \in 1 .. MaxTime
    /\ active \subseteq Documents
    /\ stopped \in BOOLEAN
    /\ fetches \in [FetchIds -> Documents \cup {None}]
    /\ nextFetch \in 0 .. MaxFetches
    /\ page \in [FetchIds -> {"none", "waiting", "loaded", "failed", "aborted", "gone"}]
    /\ callbacks \in Seq(Callback)
    /\ loads \in Table
    /\ jobs \in [Jobs -> Job \cup {None}]
    /\ cache \in [Keys -> Nat]
    /\ fate \in [LoadIds -> Fate]
    /\ load \in Workloads

\* reserved_bytes is always the body bytes of the requests in the table,
\* whether they left it by completing, being cancelled or being refused by a
\* stopped queue: a leaked reservation would shut out later beacons for good.
QuotaExact ==
    /\ TypeOK
    /\ loads.reserved = Cardinality(Bytes(loads.pending, Occupied(loads)))

\* A background request is handed to the queue at most once and never after
\* its page cancelled it; once its document is gone it has been handed over
\* (unless cancelled or refused); FetchLaterResult.activated says so truly.
DeferredFate ==
    \A b \in 1 .. loads.next :
        /\ fate[b].handed <= 1
        /\ fate[b].handed = 1 => ~fate[b].cancelled /\ ~fate[b].refused
        /\ fate[b].doc \notin active =>
              fate[b].handed = 1 \/ fate[b].cancelled \/ fate[b].refused
        /\ b \in loads.activated <=> fate[b].later /\ fate[b].handed = 1

\* A retired document has no pending fetch, no job of one and no queued
\* callback, so nothing of it can run (retire_document_tree, deliver).
NothingForRetired ==
    /\ \A i \in FetchIds : fetches[i] # None => fetches[i] \in active
    /\ \A i \in FetchIds : fetches[i] = None => jobs[<<"fetch", i>>] = None
    /\ \A n \in DOMAIN callbacks : callbacks[n].doc \in active

\* Workers that started from the same snapshot come back in any order, and a
\* merge never shortens an approval that is still valid ("without discarding
\* newer approvals", PreflightCache::merge).
ApprovalKept ==
    [][\A k \in Keys : cache[k] > clock => cache'[k] >= cache[k]]_vars

\* Every fetch is answered or aborted, or its document goes, whatever happens
\* to its worker (poll, deliver, fetchWithScheduling).
FetchAnswered == <>[](\A i \in FetchIds : page[i] # "waiting")
=============================================================================
