------------------------------ MODULE WebLocks ------------------------------
(***************************************************************************)
(* Web Locks: the lock manager in src/src/js/storage.rs, the client        *)
(* registry and notification queue in src/src/js/web_locks.rs, and the     *)
(* page side of src/src/js/dom_bootstrap.js that turns grants into         *)
(* callbacks.  A client is a document; documents of one thread share the   *)
(* manager.  A grant reaches the page as a notification that is queued,    *)
(* flushed to the task queue of the client's event loop, and run there; in *)
(* between the lock can be stolen, the request aborted, the document gone. *)
(***************************************************************************)
EXTENDS Naturals, Sequences, SequencesExt, FiniteSets, Orderings

CONSTANTS
    Clients,       \* documents
    Auxiliary,     \* those opened as auxiliary browsing contexts
    Names,         \* lock names (with their origin)
    MaxRequests,   \* bound: requests ever made
    None

ASSUME AuxiliaryAssumption == Auxiliary \subseteq Clients
ASSUME RequestsAssumption == MaxRequests \in Nat

Ids   == 1 .. MaxRequests
Modes == {"shared", "exclusive"}

Requests == [client : Clients, name : Names, mode : Modes,
             state : {"pending", "granted", "held", "stolen"}]
Notes    == [client : Clients, id : Ids, kind : {"granted", "stolen"}]

ASSUME NoneAssumption == None \notin Requests

VARIABLES
    locks,        \* the manager: requests, and held and pending per name
    next,         \* next_web_lock_request_id
    registered,   \* WEB_LOCK_CLIENT_REGISTRY
    notes,        \* PENDING_WEB_LOCK_NOTIFICATIONS
    tasks,        \* client -> WebLock tasks in its event loop
    entries,      \* webLockRequests of the pages: id -> "none", "waiting", "started"
    abortable,    \* ids requested with an AbortSignal
    microtasks,   \* ids with a queued startWebLockRequest
    alive,        \* documents not yet destroyed
    closing       \* requests still to be removed with the document that goes

pageVars == <<entries, abortable, microtasks>>
vars == <<locks, next, registered, notes, tasks, pageVars, alive, closing>>

Init ==
    /\ locks = [requests |-> [i \in Ids |-> None],
                held     |-> [n \in Names |-> <<>>],
                pending  |-> [n \in Names |-> <<>>]]
    /\ next = 1
    /\ registered = {}
    /\ notes = <<>>
    /\ tasks = [c \in Clients |-> <<>>]
    /\ entries = [i \in Ids |-> "none"]
    /\ abortable = {}
    /\ microtasks = {}
    /\ alive = Clients
    /\ closing = {}

-----------------------------------------------------------------------------
(* The manager. *)

Exists(i)  == locks.requests[i] # None
State(i)   == IF Exists(i) THEN locks.requests[i].state ELSE "missing"
Note(m, i, kind) == [client |-> m.requests[i].client, id |-> i, kind |-> kind]

AllShared(m, n) ==
    \A i \in ToSet(m.held[n]) : m.requests[i].mode = "shared"

\* Mutant: shared requests join shared holders past a waiting exclusive one.
GrantableBarging(n, mode) ==
    \/ locks.held[n] = <<>>
    \/ mode = "shared" /\ AllShared(locks, n)

\* web_lock_is_immediately_grantable
Grantable(n, mode) ==
    /\ locks.pending[n] = <<>>
    /\ locks.held[n] = <<>> \/ (mode = "shared" /\ AllShared(locks, n))

\* The places in the queue that web_lock_advance grants: the first one if nothing
\* is held, and the leading shared ones if only shared locks are held.
Granted(m, n) ==
    LET p == m.pending[n]
        shared(k) == \A j \in 1 .. k : m.requests[p[j]].mode = "shared"
    IN  {k \in DOMAIN p : AllShared(m, n) /\ (shared(k) \/ (k = 1 /\ m.held[n] = <<>>))}

\* Grants the requests at the places I of the queue of n: the new manager and
\* the notifications.
Grant(m, n, I) ==
    LET granted == Pick(m.pending[n], I)
        after   == [m EXCEPT
            !.pending[n] = Pick(@, DOMAIN @ \ I),
            !.held[n]    = @ \o granted,
            !.requests   = [i \in Ids |-> IF i \in ToSet(granted)
                               THEN [@[i] EXCEPT !.state = "granted"] ELSE @[i]]]
    IN  [locks |-> after,
         notes |-> [k \in DOMAIN granted |-> Note(m, granted[k], "granted")]]

\* Mutant: the loop stops after one grant.
AdvanceOne(m, n) == Grant(m, n, Granted(m, n) \cap {1})

\* web_lock_advance
Advance(m, n) == Grant(m, n, Granted(m, n))

\* The manager without the request i.
Without(m, i) ==
    LET n == m.requests[i].name
    IN  [m EXCEPT !.requests[i] = None,
                  !.held[n]     = Keep(@, Ids \ {i}),
                  !.pending[n]  = Keep(@, Ids \ {i})]

\* web_lock_remove_request with advance.
RemoveRequest(m, i) == Advance(Without(m, i), m.requests[i].name)

NotesFor(clients) == {q \in Notes : q.client \in clients}

\* Mutant: a notification that finds its runtime busy is not kept.
FlushDropsBusy(queued, reg, busy) ==
    /\ notes' = <<>>
    /\ tasks' = [c \in Clients |-> tasks[c] \o Keep(queued, NotesFor({c} \cap (reg \ busy)))]

\* flush_web_lock_notifications: each notification becomes a task of its client
\* when that is registered, is lost when it is not, and is kept for another
\* flush when the client's runtime is busy.
Flush(queued, reg, busy) ==
    /\ notes' = Keep(queued, NotesFor(reg \cap busy))
    /\ tasks' = [c \in Clients |-> tasks[c] \o Keep(queued, NotesFor({c} \cap (reg \ busy)))]

-----------------------------------------------------------------------------
(* The page: LockManager.request, its callbacks, and the native operations. *)

\* An auxiliary document's client id is made with its document and is never
\* registered; any other client is registered by its first use at the latest.
Registering(c) == IF c \in Auxiliary THEN registered ELSE registered \cup {c}

\* Mutant: the older holders keep their places.
StealShares(n) ==
    [locks |-> [locks EXCEPT !.held[n] = Append(@, next)], notes |-> <<>>]

\* request_web_lock's steal branch, before the new request is entered.
Steal(n) ==
    LET victims == locks.held[n]
        stolen  == [locks EXCEPT
            !.held[n]  = <<next>>,
            !.requests = [i \in Ids |-> IF i \in ToSet(victims)
                             THEN [@[i] EXCEPT !.state = "stolen"] ELSE @[i]]]
    IN  [locks |-> stolen,
         notes |-> [k \in DOMAIN victims |-> Note(locks, victims[k], "stolen")]]

\* An ifAvailable request that is not grantable changes nothing.
Request(c, n, mode, ifAvailable, steal) ==
    LET grantable == Grantable(n, mode)
        result ==
            IF steal THEN Steal(n)
            ELSE IF grantable
                 THEN [locks |-> [locks EXCEPT !.held[n] = Append(@, next)],
                       notes |-> <<>>]
                 ELSE [locks |-> [locks EXCEPT !.pending[n] = Append(@, next)],
                       notes |-> <<>>]
        granted == steal \/ grantable
    IN  /\ c \in alive
        /\ next <= MaxRequests
        /\ steal => (mode = "exclusive" /\ ~ifAvailable)
        /\ ifAvailable => grantable
        /\ locks' = [result.locks EXCEPT !.requests[next] =
                        [client |-> c, name |-> n, mode |-> mode,
                         state |-> IF granted THEN "granted" ELSE "pending"]]
        /\ next' = next + 1
        /\ registered' = Registering(c)
        /\ \E busy \in SUBSET (Clients \ {c}) :
              Flush(notes \o result.notes, registered', busy)
        /\ entries' = [entries EXCEPT ![next] = "waiting"]
        /\ microtasks' = IF granted THEN microtasks \cup {next} ELSE microtasks
        /\ abortable' = IF ifAvailable \/ steal THEN abortable
                        ELSE abortable \cup {next}
        /\ UNCHANGED <<alive, closing>>

\* startWebLockRequest: asks the manager what became of the request.
StartRequest(i) ==
    IF entries[i] # "waiting" THEN UNCHANGED <<locks, entries>>
    ELSE CASE State(i) \in {"granted", "held"} ->
                /\ locks' = [locks EXCEPT !.requests[i].state = "held"]
                /\ entries' = [entries EXCEPT ![i] = "started"]
           [] State(i) = "stolen" ->
                /\ locks' = [locks EXCEPT !.requests[i] = None]
                /\ entries' = [entries EXCEPT ![i] = "none"]
           [] State(i) \in {"pending", "missing"} ->
                UNCHANGED <<locks, entries>>

RunMicrotask(i) ==
    /\ i \in microtasks
    /\ microtasks' = microtasks \ {i}
    /\ StartRequest(i)
    /\ UNCHANGED <<next, registered, notes, tasks, abortable, alive, closing>>

\* Task::WebLock: __omoikane_web_lock_granted or __omoikane_web_lock_stolen.
RunTask(c) ==
    LET task == Head(tasks[c])
        i    == task.id
    IN  /\ tasks[c] # <<>>
        /\ tasks' = [tasks EXCEPT ![c] = Tail(@)]
        /\ \/ task.kind = "granted" /\ StartRequest(i)
           \/ task.kind = "stolen" /\ entries[i] = "none" /\ UNCHANGED <<locks, entries>>
           \/ /\ task.kind = "stolen" /\ entries[i] # "none"
              /\ entries' = [entries EXCEPT ![i] = "none"]
              /\ locks' = IF State(i) = "stolen"
                          THEN [locks EXCEPT !.requests[i] = None] ELSE locks
        /\ UNCHANGED <<next, registered, notes, microtasks, abortable, alive, closing>>

\* Removes i from manager and page, and flushes what that grants.
Drop(i) ==
    LET result == RemoveRequest(locks, i)
    IN  /\ locks' = result.locks
        /\ entries' = [entries EXCEPT ![i] = "none"]
        /\ \E busy \in SUBSET (Clients \ {locks.requests[i].client}) :
              Flush(notes \o result.notes, registered, busy)
        /\ UNCHANGED <<next, registered, microtasks, abortable, alive, closing>>

\* The callback's promise settles (or the callback throws): "release".
Settle(i) ==
    /\ entries[i] = "started"
    /\ Exists(i)
    /\ Drop(i)

\* Mutant: an abort after the grant forgets the page's entry only.
AbortPageOnly(i) ==
    /\ i \in abortable
    /\ entries[i] = "waiting"
    /\ State(i) \in {"pending", "granted"}
    /\ entries' = [entries EXCEPT ![i] = "none"]
    /\ UNCHANGED <<locks, next, registered, notes, tasks, microtasks, abortable, alive,
                   closing>>

\* The signal aborts a request that has not started: "cancel".
Abort(i) ==
    /\ i \in abortable
    /\ entries[i] = "waiting"
    /\ State(i) \in {"pending", "granted"}
    /\ Drop(i)

\* The event loop's own flush before each task.
FlushNotifications(busy) ==
    /\ notes # <<>>
    /\ Flush(notes, registered, busy)
    /\ UNCHANGED <<locks, next, registered, pageVars, alive, closing>>

\* The document is destroyed: unregister_web_lock_client takes it off the
\* registry and removes its requests in hash map order, advancing after each,
\* and leaves the notifications queued.  One turn of its loop is RemoveOwn;
\* Next lets nothing else happen before the loop has ended.
DestroyDocument(c) ==
    /\ c \in alive
    /\ alive' = alive \ {c}
    /\ registered' = registered \ {c}
    /\ closing' = {i \in Ids : Exists(i) /\ locks.requests[i].client = c}
    /\ tasks' = [tasks EXCEPT ![c] = <<>>]
    /\ microtasks' = microtasks \ closing'
    /\ UNCHANGED <<locks, next, notes, entries, abortable>>

RemoveOwn(i) ==
    LET result == RemoveRequest(locks, i)
    IN  /\ i \in closing
        /\ closing' = closing \ {i}
        /\ locks' = result.locks
        /\ notes' = notes \o result.notes
        /\ entries' = [entries EXCEPT ![i] = "none"]
        /\ UNCHANGED <<next, registered, tasks, microtasks, abortable, alive>>

Step ==
    \/ \E c \in Clients, n \in Names, mode \in Modes, ifAvailable, steal \in BOOLEAN :
          Request(c, n, mode, ifAvailable, steal)
    \/ \E i \in Ids : RunMicrotask(i) \/ Settle(i) \/ Abort(i)
    \/ \E c \in Clients : RunTask(c) \/ DestroyDocument(c)
    \/ \E busy \in SUBSET Clients : FlushNotifications(busy)

Next ==
    \/ \E i \in Ids : RemoveOwn(i)
    \/ closing = {} /\ Step

Spec == Init /\ [][Next]_vars

\* Every turn of the pump flushes, with no runtime busy in between turns, and
\* runs tasks and microtasks.  Pages owe nothing: a callback may never settle.
Pump ==
    \/ \E i \in Ids : RemoveOwn(i)
    \/ closing = {} /\ FlushNotifications({})
    \/ closing = {} /\ \E c \in Clients : RunTask(c)
    \/ closing = {} /\ \E i \in Ids : RunMicrotask(i)

FairSpec == Spec /\ WF_vars(Pump)

-----------------------------------------------------------------------------
(* Properties. *)

Holding(i) == State(i) \in {"granted", "held"}

\* The state has its type, and a name's lists hold exactly the requests that
\* are granted or held, and those that are pending, each once (a stolen one is
\* in neither).
TypeOK ==
    /\ locks \in [requests : [Ids -> Requests \cup {None}],
                  held : [Names -> Seq(Ids)], pending : [Names -> Seq(Ids)]]
    /\ next \in 1 .. MaxRequests + 1
    /\ registered \subseteq Clients /\ alive \subseteq Clients
    /\ notes \in Seq(Notes) /\ tasks \in [Clients -> Seq(Notes)]
    /\ entries \in [Ids -> {"none", "waiting", "started"}]
    /\ microtasks \subseteq Ids /\ closing \subseteq Ids
    /\ \A n \in Names :
          LET held == locks.held[n]  pending == locks.pending[n]
              named == {i \in Ids : Exists(i) /\ locks.requests[i].name = n}
          IN  /\ IsInjective(held) /\ IsInjective(pending)
              /\ ToSet(held) = {i \in named : Holding(i)}
              /\ ToSet(pending) = {i \in named : State(i) = "pending"}

\* Two holders of one name are both shared.  A page whose lock was stolen may
\* still run its callback; the manager no longer counts it.
MutualExclusion ==
    \A i, j \in Ids :
        (i # j /\ Holding(i) /\ Holding(j)
           /\ locks.requests[i].name = locks.requests[j].name)
          => (locks.requests[i].mode = "shared" /\ locks.requests[j].mode = "shared")

\* No request that could be granted is left waiting by a release, an abort, a
\* theft or the end of a document (every removal advances its queue).
NothingGrantableWaits == \A n \in Names : Granted(locks, n) = {}

\* Requests of one name are granted in the order they were made: none is granted
\* while an older one still waits, unless it steals.
NoBarging ==
    [][\A i, j \in Ids :
          (i < j /\ State(i) = "pending" /\ State(i)' = "pending"
             /\ ~Holding(j) /\ Holding(j)'
             /\ locks'.requests[j].name = locks.requests[i].name)
            => locks'.held[locks.requests[i].name] = <<j>> /\ j = next
                 /\ locks'.requests[j].mode = "exclusive"]_vars

\* A page's entry always finds its request: the manager never forgets one that a
\* page still waits for, so no promise is left unsettled by "missing".  And the
\* manager keeps no lock for a page that has dropped it.
PageAgrees ==
    /\ TypeOK
    /\ \A i \in Ids : entries[i] # "none" <=> Exists(i)

\* A granted request reaches its page: the callback starts, or the request is
\* aborted, stolen or goes with its document, whatever runtimes were busy.
GrantReachesPage == \A i \in Ids : (State(i) = "granted") ~> (State(i) # "granted")

\* No notification is lost: again and again there is no granted request whose
\* callback has not started and no stolen one that its page has not dropped, so
\* each of them reaches its page (flush_web_lock_notifications,
\* startWebLockRequest).
NotificationsArrive == []<>(\A i \in Ids : State(i) \notin {"granted", "stolen"})
=============================================================================
