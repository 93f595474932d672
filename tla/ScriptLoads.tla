---------------------------- MODULE ScriptLoads ----------------------------
(***************************************************************************)
(* Loading and running the scripts of a page: the parser's scripts of      *)
(* src/src/js/document_script_startup.rs and the inserted scripts of       *)
(* src/src/js/script_loading.rs, with the tasks of src/src/js/mod.rs that  *)
(* start and run them.                                                     *)
(*                                                                         *)
(* The page owner polls; the fetches run on the resource workers and end   *)
(* in any order.  Scripts and listeners move, insert and remove nodes and  *)
(* frames: those effects are steps of their own, which may come between    *)
(* any two steps of the owner.  A script is its node; its text, its realm  *)
(* and document.write are left out, and so is the synchronous fetch of     *)
(* inserted scripts in hosts that do not load without blocking.            *)
(***************************************************************************)
EXTENDS Naturals, Sequences, SequencesExt

CONSTANTS
    Main,        \* the document whose parser's scripts are run
    Frames,      \* documents of frames, which can be retired
    Workloads,   \* the instances, one of which a behaviour follows
    None

\* A workload: the parser's scripts in document order; the scripts inserted
\* later, which follow them in the numbering; and bounds on what happens.
ASSUME WorkloadsAssumption ==
    \A l \in Workloads :
        /\ l.parser \in Seq({"inline", "inlineModule", "blocking", "deferred"})
        /\ l.inserted \in Seq([async : BOOLEAN, doc : {Main} \cup Frames])
        /\ {l.moves, l.retires, l.removals, l.refusals} \subseteq Nat

VARIABLES
    load,       \* the workload of this behaviour
    \* the document and its frames
    active,     \* documents that are active
    owner,      \* node -> the document it is in, or was last in
    connected,  \* inserted nodes that are in a document's tree
    budget,     \* how many moves, retirements, removals, refusals are left
    \* the resource workers
    fetch,      \* node -> "none", "running", "done", "failed"
    \* DocumentScriptStartup
    wait,       \* the DocumentScriptWait of the poll under way, or None
    next,       \* scripts of the parser looked at so far
    pending,    \* the node of the parser-blocking fetch, or None
    deferred,   \* the deferred scripts: [node, ready]
    finished,
    \* ScriptLoads and the networking tasks
    plan,       \* node -> the document it was prepared for
    loads,      \* nodes in ScriptLoads.pending
    ready,      \* the loads that have their response
    queued,     \* the loads whose task has been queued
    ordered,    \* document -> ScriptLoads.ordered
    started,    \* started_inserted_scripts
    tasks,      \* [kind, node, doc] in the event loop
    \* history
    inserted,   \* inserted nodes, in order of insertion
    ran,        \* scripts run, and DOMContentLoaded, in order
    failed      \* nodes that got an error event

domVars     == <<active, owner, connected, budget>>
startupVars == <<wait, next, pending, deferred, finished>>
loadVars    == <<loads, ready, queued, ordered, started>>
historyVars == <<inserted, ran, failed>>
vars == <<load, domVars, fetch, startupVars, plan, loadVars, tasks, historyVars>>

Documents == {Main} \cup Frames

\* The place of the event in the history, where scripts are numbered from 1.
DOMContentLoaded == 0

ParserNodes   == 1 .. Len(load.parser)
InsertedNodes == Len(load.parser) + 1 .. Len(load.parser) + Len(load.inserted)
Nodes         == 1 .. Len(load.parser) + Len(load.inserted)
Kind(n)       == load.parser[n]
Info(n)       == load.inserted[n - Len(load.parser)]

Init ==
    /\ load \in Workloads
    /\ active = Documents
    /\ owner = [n \in Nodes |-> IF n \in ParserNodes THEN Main ELSE Info(n).doc]
    /\ connected = {}
    /\ budget = [moves |-> load.moves, retires |-> load.retires,
                 removals |-> load.removals, refusals |-> load.refusals]
    /\ fetch = [n \in Nodes |-> "none"]
    /\ wait = None
    /\ next = 0
    /\ pending = None
    /\ deferred = <<>>
    /\ finished = (load.parser = <<>>)
    /\ plan = [n \in Nodes |-> None]
    /\ loads = {} /\ ready = {} /\ queued = {} /\ started = {}
    /\ ordered = [d \in Documents |-> <<>>]
    /\ tasks = <<>>
    /\ inserted = <<>> /\ ran = <<>> /\ failed = {}

-----------------------------------------------------------------------------
(***************************************************************************)
(* What scripts, listeners and the network do.                             *)
(***************************************************************************)
Spend(what) ==
    /\ budget[what] > 0
    /\ budget' = [budget EXCEPT ![what] = @ - 1]

\* A new script element enters its document: schedule_connected_resource_loads.
InsertScript(n) ==
    /\ n \in InsertedNodes
    /\ \A m \in InsertedNodes : m < n => Contains(inserted, m)
    /\ ~Contains(inserted, n)
    /\ Info(n).doc \in active
    /\ connected' = connected \cup {n}
    /\ tasks' = Append(tasks, [kind |-> "load", node |-> n])
    /\ inserted' = Append(inserted, n)
    /\ UNCHANGED <<load, active, owner, budget, fetch, startupVars, plan, loadVars,
                   ran, failed>>

\* The element is taken out again: a load that has not begun is cancelled
\* (cancel_resource_loads_for_nodes), one that has begun goes on.
RemoveScript(n) ==
    /\ n \in connected
    /\ Spend("removals")
    /\ connected' = connected \ {n}
    /\ tasks' = SelectSeq(tasks, LAMBDA t : ~(t.kind = "load" /\ t.node = n))
    /\ UNCHANGED <<load, active, owner, fetch, startupVars, plan, loadVars, historyVars>>

\* The element moves to another document: taken out and inserted again, so a
\* load that has not begun goes to the back, and one that has begun loses it.
MoveScript(n, d) ==
    /\ d \in active /\ owner[n] # d
    /\ n \in InsertedNodes => n \in connected
    /\ Spend("moves")
    /\ owner' = [owner EXCEPT ![n] = d]
    /\ LET task == [kind |-> "load", node |-> n]
       IN  IF Contains(tasks, task)
           THEN /\ tasks' = Append(Remove(tasks, task), task)
                /\ inserted' = Append(Remove(inserted, n), n)
           ELSE UNCHANGED <<tasks, inserted>>
    /\ UNCHANGED <<load, active, connected, fetch, startupVars, plan, loadVars, ran,
                   failed>>

\* A frame's document is retired: its tasks, loads and elements go.
Retire(d) ==
    LET gone == {n \in Nodes : owner[n] = d}
    IN  /\ d \in active \cap Frames
        /\ Spend("retires")
        /\ active' = active \ {d}
        /\ connected' = connected \ gone
        /\ tasks' = SelectSeq(tasks, LAMBDA t :
                        IF t.kind = "load" THEN t.node \notin gone
                        ELSE plan[t.node] # d)
        /\ loads' = {n \in loads : plan[n] # d}
        /\ ready' = ready \cap loads'
        /\ queued' = queued \cap loads'
        /\ ordered' = [ordered EXCEPT ![d] = <<>>]
        /\ UNCHANGED <<load, owner, fetch, startupVars, plan, started, historyVars>>

\* A worker answers; no source, Cancelled and Panicked all mean "failed", and
\* so does a response that the content policy will refuse.
FetchEnds(n) ==
    /\ fetch[n] = "running"
    /\ \E result \in {"done", "failed"} : fetch' = [fetch EXCEPT ![n] = result]
    /\ UNCHANGED <<load, domVars, startupVars, plan, loadVars, tasks, historyVars>>

-----------------------------------------------------------------------------
(***************************************************************************)
(* poll_document_scripts: one action per turn of its loop.                 *)
(***************************************************************************)
outsideStartup == UNCHANGED <<load, active, owner, connected, loadVars, tasks,
                              inserted, failed>>

BeginPoll(w) ==
    /\ wait = None
    /\ ~finished
    /\ wait' = w
    /\ UNCHANGED <<load, domVars, fetch, next, pending, deferred, finished, plan,
                   loadVars, tasks, historyVars>>

\* The document the script was prepared for still owns it.
OwnerIsCurrent(n) == plan[n] \in active /\ owner[n] = plan[n]

\* resolve_pending_document_source and what follows from it: the script is
\* run, or its failure is recorded, or it is dropped.
Resolve(n) ==
    IF OwnerIsCurrent(n) /\ fetch[n] = "done" THEN Append(ran, n) ELSE ran

\* receive_source has no answer: a poll returns, a blocking wait waits.
Waiting(n) == fetch[n] = "running"

PendingScript ==
    /\ wait # None /\ pending # None
    /\ \/ /\ Waiting(pending) /\ wait = "Poll"
          /\ wait' = None
          /\ UNCHANGED <<pending, ran>>
       \/ /\ ~Waiting(pending)
          /\ ran' = Resolve(pending)
          /\ pending' = None
          /\ UNCHANGED wait
    /\ outsideStartup
    /\ UNCHANGED <<budget, fetch, next, deferred, finished, plan>>

AtParser == wait # None /\ pending = None /\ next < Len(load.parser)

\* The type, or the policy for the request, does not allow the script, or
\* the queue does not accept its request.
SkipScript ==
    /\ AtParser
    /\ Spend("refusals")
    /\ next' = next + 1
    /\ outsideStartup
    /\ UNCHANGED <<fetch, wait, pending, deferred, finished, plan, ran>>

RunInline ==
    /\ AtParser
    /\ next' = next + 1
    /\ \/ /\ Kind(next') = "inline"
          /\ ran' = Append(ran, next')
          /\ UNCHANGED deferred
       \/ /\ Kind(next') = "inlineModule"
          /\ deferred' = Append(deferred, [node |-> next', ready |-> TRUE])
          /\ UNCHANGED ran
    /\ plan' = [plan EXCEPT ![next'] = owner[next']]
    /\ outsideStartup
    /\ UNCHANGED <<budget, fetch, wait, pending, finished>>

IsExternal(n) == Kind(n) \in {"blocking", "deferred"}

\* start_document_script_source: the parser waits for a blocking script, a
\* deferred one joins the queue at once.
StartFetch ==
    /\ AtParser
    /\ wait = "Poll"
    /\ IsExternal(next + 1)
    /\ next' = next + 1
    /\ plan' = [plan EXCEPT ![next'] = owner[next']]
    /\ fetch' = [fetch EXCEPT ![next'] = "running"]
    /\ \/ /\ Kind(next') = "blocking"
          /\ pending' = next'
          /\ UNCHANGED deferred
       \/ /\ Kind(next') = "deferred"
          /\ deferred' = Append(deferred, [node |-> next', ready |-> FALSE])
          /\ UNCHANGED pending
    /\ outsideStartup
    /\ UNCHANGED <<budget, wait, finished, ran>>

\* A blocking host fetches on the owner.
FetchBlocking ==
    /\ AtParser
    /\ wait = "Block"
    /\ IsExternal(next + 1)
    /\ next' = next + 1
    /\ plan' = [plan EXCEPT ![next'] = owner[next']]
    /\ \/ /\ fetch' = [fetch EXCEPT ![next'] = "failed"]
          /\ UNCHANGED <<deferred, ran>>
       \/ /\ fetch' = [fetch EXCEPT ![next'] = "done"]
          /\ \/ /\ Kind(next') = "blocking"
                /\ ran' = Append(ran, next')
                /\ UNCHANGED deferred
             \/ /\ Kind(next') = "deferred"
                /\ deferred' = Append(deferred, [node |-> next', ready |-> TRUE])
                /\ UNCHANGED ran
    /\ outsideStartup
    /\ UNCHANGED <<budget, wait, pending, finished>>

\* Mutant: a deferred script that is still being fetched goes to the back.
DeferredScriptRotates ==
    /\ wait # None /\ pending = None /\ next = Len(load.parser)
    /\ deferred # <<>>
    /\ LET d == Head(deferred)
       IN  \/ /\ ~d.ready /\ Waiting(d.node) /\ wait = "Poll"
              /\ wait' = None
              /\ deferred' = Append(Tail(deferred), d)
              /\ UNCHANGED ran
           \/ /\ d.ready \/ ~Waiting(d.node)
              /\ deferred' = Tail(deferred)
              /\ ran' = IF d.ready THEN Append(ran, d.node) ELSE Resolve(d.node)
              /\ UNCHANGED wait
    /\ outsideStartup
    /\ UNCHANGED <<budget, fetch, next, pending, finished, plan>>

\* finish_document_script_sequence: the deferred scripts, then the event.
DeferredScript ==
    /\ wait # None /\ pending = None /\ next = Len(load.parser)
    /\ deferred # <<>>
    /\ LET d == Head(deferred)
       IN  \/ /\ ~d.ready /\ Waiting(d.node) /\ wait = "Poll"
              /\ wait' = None
              /\ UNCHANGED <<deferred, ran>>
           \/ /\ d.ready \/ ~Waiting(d.node)
              /\ deferred' = Tail(deferred)
              /\ ran' = IF d.ready THEN Append(ran, d.node) ELSE Resolve(d.node)
              /\ UNCHANGED wait
    /\ outsideStartup
    /\ UNCHANGED <<budget, fetch, next, pending, finished, plan>>

FinishStartup ==
    /\ wait # None /\ pending = None /\ next = Len(load.parser)
    /\ deferred = <<>>
    /\ ran' = Append(ran, DOMContentLoaded)
    /\ finished' = TRUE
    /\ wait' = None
    /\ outsideStartup
    /\ UNCHANGED <<budget, fetch, next, pending, deferred, plan>>

-----------------------------------------------------------------------------
(***************************************************************************)
(* Inserted scripts.  Tasks run while no poll of the parser is under way.  *)
(***************************************************************************)
taskUnchanged == UNCHANGED <<load, active, owner, connected, startupVars, inserted>>

AtTask(kind) == wait = None /\ tasks # <<>> /\ Head(tasks).kind = kind

\* The ResourceLoad task: the script is prepared, its request checked and
\* submitted.  A refused request is dropped by the content policy, or gets an
\* error event when the sandbox or the queue refuses it.
RunLoadTask ==
    /\ AtTask("load")
    /\ tasks' = Tail(tasks)
    /\ LET n == Head(tasks).node
           d == owner[n]
       IN  \/ /\ n \notin connected \/ d \notin active \/ n \in started
              /\ UNCHANGED <<budget, fetch, plan, loadVars, failed>>
           \/ /\ n \in connected /\ d \in active /\ n \notin started
              /\ started' = started \cup {n}
              /\ plan' = [plan EXCEPT ![n] = d]
              /\ \/ /\ Spend("refusals")
                    /\ failed' \in {failed, failed \cup {n}}
                    /\ UNCHANGED <<fetch, loads, ready, queued, ordered>>
                 \/ /\ fetch' = [fetch EXCEPT ![n] = "running"]
                    /\ loads' = loads \cup {n}
                    /\ ordered' = IF Info(n).async THEN ordered
                                  ELSE [ordered EXCEPT ![d] = Append(@, n)]
                    /\ UNCHANGED <<budget, ready, queued, failed>>
    /\ taskUnchanged
    /\ UNCHANGED ran

\* Mutant: whatever has arrived may run.
RunnablePrefixAny(order, arrived) == SelectSeq(order, LAMBDA n : n \in arrived)

\* The ready prefix of a document's order.
RunnablePrefix(order, arrived) ==
    LET blocked == {i \in DOMAIN order : order[i] \notin arrived}
        length  == IF blocked = {} THEN Len(order)
                   ELSE (CHOOSE i \in blocked : \A j \in blocked : i <= j) - 1
    IN  SubSeq(order, 1, length)

Ready(n) == [kind |-> "ready", node |-> n]

\* Mutant: a failed fetch leaves its load without a response.
ArrivedComplete(live) ==
    ready \cup {n \in live : fetch[n] = "done"}

\* The loads of active documents that have an answer, also a failure.
Arrived(live) == ready \cup {n \in live : fetch[n] \in {"done", "failed"}}

\* poll_script_loads: the documents and the unordered scripts in any order.
PollScriptLoads ==
    LET live    == {n \in loads : plan[n] \in active}
        arrived == Arrived(live) \cap live
        order   == [d \in Documents |-> SelectSeq(ordered[d], LAMBDA n : n \in live)]
        prefix  == [d \in Documents |-> RunnablePrefix(order[d], arrived)]
        listed  == UNION {ToSet(order[d]) : d \in Documents}
        free    == {n \in arrived : n \notin listed /\ n \notin queued}
    IN  /\ wait = None
        /\ loads # {}
        /\ loads' = live
        /\ ready' = arrived
        /\ ordered' = [d \in Documents |->
                          SubSeq(order[d], Len(prefix[d]) + 1, Len(order[d]))]
        /\ \E docs \in SetToSeqs(Documents), rest \in SetToSeqs(free) :
              LET run == FlattenSeq([i \in DOMAIN docs |-> prefix[docs[i]]]) \o rest
              IN  /\ tasks' = tasks \o [i \in DOMAIN run |-> Ready(run[i])]
                  /\ queued' = (queued \cap live) \cup ToSet(run)
        /\ UNCHANGED <<load, domVars, fetch, startupVars, plan, started, historyVars>>

\* Mutant: the owner is not looked at when the task runs.
RunReadyTaskUnchecked ==
    /\ AtTask("ready")
    /\ tasks' = Tail(tasks)
    /\ LET n == Head(tasks).node
       IN  /\ loads' = loads \ {n} /\ ready' = ready \ {n} /\ queued' = queued \ {n}
           /\ ran' = IF n \in queued /\ fetch[n] = "done" THEN Append(ran, n) ELSE ran
           /\ failed' = IF n \in queued /\ fetch[n] = "failed" THEN failed \cup {n}
                        ELSE failed
    /\ taskUnchanged
    /\ UNCHANGED <<budget, fetch, plan, ordered, started>>

\* run_ready_script_load: take_ready_script removes the load and drops it
\* when its document is gone or has lost it; else it runs or fires `error`.
RunReadyTask ==
    /\ AtTask("ready")
    /\ tasks' = Tail(tasks)
    /\ LET n  == Head(tasks).node
           ok == n \in queued /\ OwnerIsCurrent(n)
       IN  /\ loads' = loads \ {n} /\ ready' = ready \ {n} /\ queued' = queued \ {n}
           /\ ran' = IF ok /\ fetch[n] = "done" THEN Append(ran, n) ELSE ran
           /\ failed' = IF ok /\ fetch[n] = "failed" THEN failed \cup {n} ELSE failed
    /\ taskUnchanged
    /\ UNCHANGED <<budget, fetch, plan, ordered, started>>

-----------------------------------------------------------------------------
StartupStep ==
    \/ PendingScript \/ SkipScript \/ RunInline \/ StartFetch \/ FetchBlocking
    \/ DeferredScript \/ FinishStartup

Pump == PollScriptLoads \/ RunLoadTask \/ RunReadyTask

Next ==
    \/ \E n \in Nodes : \/ InsertScript(n) \/ RemoveScript(n) \/ FetchEnds(n)
                        \/ \E d \in Documents : MoveScript(n, d)
    \/ \E d \in Frames : Retire(d)
    \/ \E w \in {"Poll", "Block"} : BeginPoll(w)
    \/ StartupStep \/ Pump

Spec == Init /\ [][Next]_vars

\* Workers answer, which assumes that their transfers end; an unfinished
\* startup or a pending load keeps the host's render demand up, so it polls
\* and pumps.
FairSpec ==
    /\ Spec
    /\ WF_vars(\E n \in Nodes : FetchEnds(n))
    /\ WF_vars(BeginPoll("Poll") \/ StartupStep)
    /\ WF_vars(PollScriptLoads)
    /\ WF_vars(RunLoadTask \/ RunReadyTask)

-----------------------------------------------------------------------------
(* Properties. *)

\* The pieces agree: what is queued has its response, an ordered load is
\* pending and not queued, and each load has at most one task.
TypeOK ==
    /\ active \subseteq Documents
    /\ next \in 0 .. Len(load.parser)
    /\ queued \subseteq ready /\ ready \subseteq loads /\ loads \subseteq InsertedNodes
    /\ \A d \in Documents : ToSet(ordered[d]) \cap queued = {}
    /\ \A i, j \in DOMAIN tasks : tasks[i] = tasks[j] => i = j

Position(x)      == CHOOSE i \in DOMAIN ran : ran[i] = x
RanBefore(x, y)  == /\ Contains(ran, x) /\ Contains(ran, y)
                    /\ Position(x) < Position(y)
IsDeferred(n)    == Kind(n) \in {"deferred", "inlineModule"}

\* The parser's scripts run once, in document order, the deferred ones after
\* all others and also in document order, and DOMContentLoaded follows them,
\* in whatever order the responses come and with inserted scripts in between
\* (poll_document_scripts, finish_document_script_sequence).
ParserOrder ==
    /\ TypeOK
    /\ \A i, j \in DOMAIN ran : ran[i] = ran[j] => i = j
    /\ \A m, n \in ParserNodes :
          RanBefore(m, n) => \/ IsDeferred(n) /\ ~IsDeferred(m)
                             \/ (IsDeferred(m) <=> IsDeferred(n)) /\ m < n
    /\ \A n \in ParserNodes : ~RanBefore(DOMContentLoaded, n)

\* Scripts that a page inserts with async off run in the order of insertion,
\* however their responses arrive, whichever fail, and whatever happens to
\* other documents (ScriptLoads.ordered).
InsertionOrder ==
    \A i, j \in DOMAIN inserted :
        LET m == inserted[i]
            n == inserted[j]
        IN  (i < j /\ ~Info(m).async /\ ~Info(n).async /\ plan[m] = plan[n])
                => ~RanBefore(n, m)

Awaited(n) == \/ n \in loads \/ pending = n
              \/ Contains(deferred, [node |-> n, ready |-> FALSE])

\* A script that a worker fetched runs, or gets its error event, only in the
\* document that asked for it: not after the document was retired, and not
\* when the element has moved to another one meanwhile
\* (resolve_pending_document_source, take_ready_script).
NothingForGone ==
    [][\A n \in Nodes :
          /\ (Contains(ran', n) /\ ~Contains(ran, n) /\ Awaited(n)) => OwnerIsCurrent(n)
          /\ n \in failed' \ failed => OwnerIsCurrent(n)']_vars

\* The parser's scripts come to an end and DOMContentLoaded is fired, whatever
\* fails, moves or is retired, and no load of an inserted script is left.
ScriptsSettle == <>[](finished /\ loads = {})
=============================================================================
