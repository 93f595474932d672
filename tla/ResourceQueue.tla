---------------------------- MODULE ResourceQueue ----------------------------
(***************************************************************************)
(* The shared resource worker pool of src/src/resource_worker.rs.          *)
(*                                                                         *)
(* Owners submit prioritised jobs, each tied to a cancellation scope; a    *)
(* lazily started set of worker threads takes the best queued job under    *)
(* one mutex, runs it outside the mutex, sends exactly one outcome on the  *)
(* job's channel and then wakes the owner.  Dropping the last handle stops *)
(* the pool and cancels what is still queued.                              *)
(*                                                                         *)
(* One action is one critical section, one atomic access, or one step      *)
(* outside the mutex whose interleaving can be observed.  A job is named   *)
(* by its submission id; what the job computes is left out.                *)
(***************************************************************************)
EXTENDS Naturals, FiniteSets

CONSTANTS
    Workers,    \* the worker threads, `workers: NonZeroUsize`
    Scopes,     \* the cancellation scopes of the documents
    Priority,   \* the priorities in use, a part of 0..2
    IdLimit,    \* the id the counter cannot pass (u64::MAX in the code)
    Dropper,    \* the thread that drops the last queue handle
    None        \* "no job", "no outcome yet"

ASSUME WorkersAssumption == IsFiniteSet(Workers) /\ Workers # {}
ASSUME ScopesAssumption == Scopes # {}
\* Background = 0, Normal = 1, Critical = 2, in the order derived for the enum.
ASSUME PriorityAssumption == Priority \subseteq 0..2 /\ Priority # {}
ASSUME IdLimitAssumption == IdLimit \in Nat
ASSUME DropperAssumption == Dropper \notin Workers
ASSUME NoneAssumption ==
    None \notin Nat /\ None \notin {"Complete", "Cancelled", "Panicked"}

VARIABLES
    jobs,       \* ids in the binary heap
    nextId,     \* State.next_id
    started,    \* State.started
    stopped,    \* State.stopped
    notifies,   \* submitters between the unlock and their notify_one
    live,       \* scope -> ResourceScope.live
    info,       \* id -> the job's priority, scope and whether it has a waker
    pc,         \* executor -> where it stands
    work,       \* executor -> the job it executes
    result,     \* executor -> the outcome it has decided and not yet sent
    taken,      \* the jobs Pool::drop took out of the heap
    outcome,    \* id -> what was sent on the job's channel
    signal,     \* id -> the owner's waker: "unset", "set", or "panicked"
    received    \* ids whose outcome the owner has received

vars == <<jobs, nextId, started, stopped, notifies, live, info, pc, work,
          result, taken, outcome, signal, received>>

queueVars == <<jobs, nextId, started, stopped, notifies>>
jobVars   == <<outcome, signal, received>>

Ids       == 0..(IdLimit - 1)
JobInfo   == [priority : Priority, scope : Scopes, waker : BOOLEAN]
Outcomes  == {"Complete", "Cancelled", "Panicked"}
Executors == Workers \cup {Dropper}

WorkerPc  == {"unspawned", "lock", "waiting", "claimed", "run", "send",
              "wake", "exited"}
DropperPc == {"handles", "notify", "drain", "send", "wake", "dropped"}

Accepted == {id \in Ids : id < nextId}

\* Mutant: the heap order without the reversed id comparison.
OutranksLatest(i, j) ==
    \/ info[i].priority > info[j].priority
    \/ info[i].priority = info[j].priority /\ j < i

(***************************************************************************)
(* Queued::cmp: the higher priority wins, then the earlier submission.     *)
(***************************************************************************)
Outranks(i, j) ==
    \/ info[i].priority > info[j].priority
    \/ info[i].priority = info[j].priority /\ i < j

\* CancellationToken::is_cancelled: the scope was cancelled or dropped.
IsCancelled(id) == ~live[info[id].scope]

Init ==
    /\ jobs = {}
    /\ nextId = 0
    /\ started = FALSE
    /\ stopped = FALSE
    /\ notifies = 0
    /\ live = [s \in Scopes |-> TRUE]
    /\ info = [id \in Ids |-> CHOOSE i \in JobInfo : TRUE]
    /\ pc = [e \in Executors |-> IF e = Dropper THEN "handles" ELSE "unspawned"]
    /\ work = [e \in Executors |-> None]
    /\ result = [e \in Executors |-> None]
    /\ taken = {}
    /\ outcome = [id \in Ids |-> None]
    /\ signal = [id \in Ids |-> "unset"]
    /\ received = {}

-----------------------------------------------------------------------------
(***************************************************************************)
(* submit_inner.  A submitter holds a queue handle, so the pool cannot be  *)
(* dropped while it is between its critical section and its notify_one.    *)
(***************************************************************************)
HasHandle == pc[Dropper] = "handles"

\* The first submission spawns every worker; the new threads block on the
\* mutex until the submission returns.
Spawned(spawn) ==
    [e \in Executors |-> IF e \in spawn THEN "lock" ELSE pc[e]]

\* Mutant: the id counter may pass its limit.
SubmitPastLimit(p, s, w) ==
    /\ HasHandle
    /\ ~stopped
    /\ nextId <= IdLimit
    /\ started' = TRUE
    /\ pc' = IF started THEN pc ELSE Spawned(Workers)
    /\ jobs' = jobs \cup {nextId}
    /\ info' = [info EXCEPT ![nextId] =
                    [priority |-> p, scope |-> s, waker |-> w]]
    /\ nextId' = nextId + 1
    /\ notifies' = notifies + 1
    /\ UNCHANGED <<stopped, live, work, result, taken, jobVars>>

Submit(p, s, w) ==
    /\ HasHandle
    /\ ~stopped
    /\ nextId < IdLimit
    /\ started' = TRUE
    /\ pc' = IF started THEN pc ELSE Spawned(Workers)
    /\ jobs' = jobs \cup {nextId}
    /\ info' = [info EXCEPT ![nextId] =
                    [priority |-> p, scope |-> s, waker |-> w]]
    /\ nextId' = nextId + 1
    /\ notifies' = notifies + 1
    /\ UNCHANGED <<stopped, live, work, result, taken, jobVars>>

\* The submission whose id would be the last u64 fails, after it may have
\* started the pool.
SubmitExhausted ==
    /\ HasHandle
    /\ ~stopped
    /\ nextId = IdLimit
    /\ started' = TRUE
    /\ pc' = IF started THEN pc ELSE Spawned(Workers)
    /\ UNCHANGED <<jobs, nextId, stopped, notifies, live, info, work, result,
                   taken, jobVars>>

\* A thread cannot be created: the threads spawned so far find the pool
\* stopped, and the caller gets the error.
SpawnFails(spawn) ==
    /\ HasHandle
    /\ ~stopped
    /\ ~started
    /\ spawn # Workers
    /\ started' = TRUE
    /\ stopped' = TRUE
    /\ pc' = Spawned(spawn)
    /\ UNCHANGED <<jobs, nextId, notifies, live, info, work, result, taken,
                   jobVars>>

\* The notify_one after the unlock: it moves one waiting worker, if any.
NotifyOne ==
    /\ notifies > 0
    /\ notifies' = notifies - 1
    /\ \/ /\ \A w \in Workers : pc[w] # "waiting"
          /\ UNCHANGED pc
       \/ \E w \in Workers :
             /\ pc[w] = "waiting"
             /\ pc' = [pc EXCEPT ![w] = "lock"]
    /\ UNCHANGED <<jobs, nextId, started, stopped, live, info, work, result,
                   taken, jobVars>>

-----------------------------------------------------------------------------
(***************************************************************************)
(* worker: the critical section of the loop.                               *)
(***************************************************************************)

\* Mutant: the heap was looked at before the mutex was taken.
WaitUnchecked(w) ==
    /\ pc[w] = "lock"
    /\ ~stopped
    /\ pc' = [pc EXCEPT ![w] = "waiting"]
    /\ UNCHANGED <<queueVars, live, info, work, result, taken, jobVars>>

Wait(w) ==
    /\ pc[w] = "lock"
    /\ jobs = {}
    /\ ~stopped
    /\ pc' = [pc EXCEPT ![w] = "waiting"]
    /\ UNCHANGED <<queueVars, live, info, work, result, taken, jobVars>>

\* Condvar::wait may also return without a notification.
SpuriousWake(w) ==
    /\ pc[w] = "waiting"
    /\ pc' = [pc EXCEPT ![w] = "lock"]
    /\ UNCHANGED <<queueVars, live, info, work, result, taken, jobVars>>

Exit(w) ==
    /\ pc[w] = "lock"
    /\ stopped
    /\ pc' = [pc EXCEPT ![w] = "exited"]
    /\ UNCHANGED <<queueVars, live, info, work, result, taken, jobVars>>

\* Mutant: the job is read from the heap and left in it.
PopPeeks(w) ==
    /\ pc[w] = "lock"
    /\ ~stopped
    /\ \E id \in jobs :
          /\ \A other \in jobs \ {id} : Outranks(id, other)
          /\ work' = [work EXCEPT ![w] = id]
    /\ pc' = [pc EXCEPT ![w] = "claimed"]
    /\ UNCHANGED <<queueVars, live, info, result, taken, jobVars>>

Pop(w) ==
    /\ pc[w] = "lock"
    /\ ~stopped
    /\ \E id \in jobs :
          /\ \A other \in jobs \ {id} : Outranks(id, other)
          /\ jobs' = jobs \ {id}
          /\ work' = [work EXCEPT ![w] = id]
    /\ pc' = [pc EXCEPT ![w] = "claimed"]
    /\ UNCHANGED <<nextId, started, stopped, notifies, live, info, result,
                   taken, jobVars>>

\* Mutant: the closure does not look at the token before it runs the work.
BeginUnchecked(w) ==
    /\ pc[w] = "claimed"
    /\ pc' = [pc EXCEPT ![w] = "run"]
    /\ UNCHANGED <<queueVars, live, info, work, result, taken, jobVars>>

(***************************************************************************)
(* The job's closure, called with run = true by a worker.                  *)
(***************************************************************************)
Begin(w) ==
    /\ pc[w] = "claimed"
    /\ \/ /\ IsCancelled(work[w])
          /\ pc' = [pc EXCEPT ![w] = "send"]
          /\ result' = [result EXCEPT ![w] = "Cancelled"]
       \/ /\ ~IsCancelled(work[w])
          /\ pc' = [pc EXCEPT ![w] = "run"]
          /\ UNCHANGED result
    /\ UNCHANGED <<queueVars, live, info, work, taken, jobVars>>

\* The work returns, and the token is read once more, or it panics.
Finish(w) ==
    /\ pc[w] = "run"
    /\ \E o \in {IF IsCancelled(work[w]) THEN "Cancelled" ELSE "Complete",
                 "Panicked"} :
          result' = [result EXCEPT ![w] = o]
    /\ pc' = [pc EXCEPT ![w] = "send"]
    /\ UNCHANGED <<queueVars, live, info, work, taken, jobVars>>

\* sender.send(outcome); the receiver may be gone, which send ignores.
Send(e) ==
    /\ pc[e] = "send"
    /\ outcome' = [outcome EXCEPT ![work[e]] = result[e]]
    /\ result' = [result EXCEPT ![e] = None]
    /\ pc' = [pc EXCEPT ![e] = "wake"]
    /\ UNCHANGED <<queueVars, live, info, work, taken, signal, received>>

\* Mutant: only a completed job wakes its owner.
WakeIfComplete(e) ==
    /\ pc[e] = "wake"
    /\ signal' = IF info[work[e]].waker /\ outcome[work[e]] = "Complete"
                 THEN [signal EXCEPT ![work[e]] = "set"] ELSE signal
    /\ work' = [work EXCEPT ![e] = None]
    /\ pc' = [pc EXCEPT ![e] = IF e = Dropper THEN "drain" ELSE "lock"]
    /\ UNCHANGED <<queueVars, live, info, result, taken, outcome, received>>

\* waker.wake(), whose panic is caught; then the executor's next iteration.
Wake(e) ==
    /\ pc[e] = "wake"
    /\ \/ /\ info[work[e]].waker
          /\ \E s \in {"set", "panicked"} :
                signal' = [signal EXCEPT ![work[e]] = s]
       \/ /\ ~info[work[e]].waker
          /\ UNCHANGED signal
    /\ work' = [work EXCEPT ![e] = None]
    /\ pc' = [pc EXCEPT ![e] = IF e = Dropper THEN "drain" ELSE "lock"]
    /\ UNCHANGED <<queueVars, live, info, result, taken, outcome, received>>

-----------------------------------------------------------------------------
(***************************************************************************)
(* Pool::drop, on whatever thread drops the last handle.                   *)
(***************************************************************************)
DropPool ==
    /\ HasHandle
    /\ notifies = 0
    /\ stopped' = TRUE
    /\ taken' = jobs
    /\ jobs' = {}
    /\ pc' = [pc EXCEPT ![Dropper] = "notify"]
    /\ UNCHANGED <<nextId, started, notifies, live, info, work, result,
                   jobVars>>

\* Mutant: the drop notifies a single worker.
NotifyAllOne ==
    /\ pc[Dropper] = "notify"
    /\ \/ /\ \A w \in Workers : pc[w] # "waiting"
          /\ pc' = [pc EXCEPT ![Dropper] = "drain"]
       \/ \E w \in Workers :
             /\ pc[w] = "waiting"
             /\ pc' = [pc EXCEPT ![w] = "lock", ![Dropper] = "drain"]
    /\ UNCHANGED <<queueVars, live, info, work, result, taken, jobVars>>

NotifyAll ==
    /\ pc[Dropper] = "notify"
    /\ pc' = [e \in Executors |->
                IF e = Dropper THEN "drain"
                ELSE IF pc[e] = "waiting" THEN "lock" ELSE pc[e]]
    /\ UNCHANGED <<queueVars, live, info, work, result, taken, jobVars>>

\* (job.work)(false): the outcome is Cancelled without a look at the token.
DrainOne ==
    /\ pc[Dropper] = "drain"
    /\ \E id \in taken :
          /\ taken' = taken \ {id}
          /\ work' = [work EXCEPT ![Dropper] = id]
    /\ result' = [result EXCEPT ![Dropper] = "Cancelled"]
    /\ pc' = [pc EXCEPT ![Dropper] = "send"]
    /\ UNCHANGED <<queueVars, live, info, jobVars>>

DropDone ==
    /\ pc[Dropper] = "drain"
    /\ taken = {}
    /\ pc' = [pc EXCEPT ![Dropper] = "dropped"]
    /\ UNCHANGED <<queueVars, live, info, work, result, taken, jobVars>>

(***************************************************************************)
(* The owner: ResourceScope::cancel or its Drop, and a poll of the channel *)
(* once its waker was called.                                              *)
(***************************************************************************)
CancelScope(s) ==
    /\ live[s]
    /\ live' = [live EXCEPT ![s] = FALSE]
    /\ UNCHANGED <<queueVars, info, pc, work, result, taken, jobVars>>

TryRecv(id) ==
    /\ signal[id] = "set"
    /\ signal' = [signal EXCEPT ![id] = "unset"]
    /\ received' = IF outcome[id] = None THEN received ELSE received \cup {id}
    /\ UNCHANGED <<queueVars, live, info, pc, work, result, taken, outcome>>

-----------------------------------------------------------------------------
WorkerStep(w) ==
    Wait(w) \/ Exit(w) \/ Pop(w) \/ Begin(w) \/ Finish(w) \/ Send(w) \/ Wake(w)

DropStep ==
    NotifyAll \/ DrainOne \/ DropDone \/ Send(Dropper) \/ Wake(Dropper)

Next ==
    \/ \E p \in Priority, s \in Scopes, w \in BOOLEAN : Submit(p, s, w)
    \/ SubmitExhausted
    \/ \E spawn \in SUBSET Workers : SpawnFails(spawn)
    \/ NotifyOne
    \/ \E w \in Workers : WorkerStep(w) \/ SpuriousWake(w)
    \/ DropPool
    \/ DropStep
    \/ \E s \in Scopes : CancelScope(s)
    \/ \E id \in Ids : TryRecv(id)

Spec == Init /\ [][Next]_vars

(***************************************************************************)
(* Every thread that can move does: the mutex is only held for a moment,   *)
(* a submitter reaches its notify_one, a started drop finishes, a woken    *)
(* owner polls.  That the work of a job returns is an assumption: each     *)
(* read of its transport has a timeout, the whole of it has none.          *)
(* Nothing has to be submitted, cancelled or dropped, and no wakeup is     *)
(* expected to be spurious.                                                *)
(***************************************************************************)
Fairness ==
    /\ \A w \in Workers : WF_vars(WorkerStep(w))
    /\ WF_vars(NotifyOne)
    /\ WF_vars(DropStep)
    /\ \A id \in Ids : WF_vars(TryRecv(id))

FairSpec == Spec /\ Fairness

-----------------------------------------------------------------------------
(***************************************************************************)
(* Properties                                                              *)
(***************************************************************************)

\* The state of State, of the scopes, the executors and the channels has the
\* shape the Rust types give it.
TypeOK ==
    /\ jobs \subseteq Ids
    /\ nextId \in 0..IdLimit
    /\ started \in BOOLEAN
    /\ stopped \in BOOLEAN
    /\ notifies \in Nat
    /\ live \in [Scopes -> BOOLEAN]
    /\ info \in [Ids -> JobInfo]
    /\ pc \in [Executors -> WorkerPc \cup DropperPc]
    /\ \A w \in Workers : pc[w] \in WorkerPc
    /\ pc[Dropper] \in DropperPc
    /\ work \in [Executors -> Ids \cup {None}]
    /\ result \in [Executors -> Outcomes \cup {None}]
    /\ taken \subseteq Ids
    /\ outcome \in [Ids -> Outcomes \cup {None}]
    /\ signal \in [Ids -> {"unset", "set", "panicked"}]
    /\ received \subseteq Ids

\* Executor e has taken job id and has not sent its outcome.
Holds(e, id) == work[e] = id /\ pc[e] \in {"claimed", "run", "send"}

\* Every accepted job is in exactly one place: the heap, the list taken by
\* Pool::drop, one executor, or its channel.  No interleaving of workers and
\* the drop loses a job, runs it twice or sends two outcomes.
OnePlace ==
    \A id \in Ids :
        /\ id < nextId <=> \/ id \in jobs \cup taken
                           \/ outcome[id] # None
                           \/ \E e \in Executors : Holds(e, id)
        /\ id \in jobs => id \notin taken
        /\ id \in jobs \cup taken =>
              outcome[id] = None /\ \A e \in Executors : ~Holds(e, id)
        /\ \A e \in Executors : Holds(e, id) =>
              outcome[id] = None /\ \A f \in Executors : Holds(f, id) => f = e

\* "Jobs at the same priority retain submission order": while a job waits in
\* the heap, no later job of the same or a lower priority has left it.
NoOvertaking ==
    \A i, j \in Accepted :
        (i < j /\ info[i].priority >= info[j].priority /\ i \in jobs)
            => j \in jobs

WorkersAt(place) == {w \in Workers : pc[w] = place}

\* No wakeup is lost although notify_one comes after the unlock and does
\* nothing when no worker waits: while a worker sleeps on the condition
\* variable, each queued job has a notification on its way or a worker about
\* to look at the heap.
NoLostWakeup ==
    (~stopped /\ WorkersAt("waiting") # {}) =>
        Cardinality(jobs) <= notifies + Cardinality(WorkersAt("lock"))

\* A sleeping worker is never left behind by Pool::drop: once the drop has
\* notified everyone, no worker waits for a notification that cannot come.
NoSleeperAfterDrop ==
    pc[Dropper] \in {"drain", "send", "wake", "dropped"} =>
        WorkersAt("waiting") = {}

Running(id) == \E w \in Workers : work[w] = id /\ pc[w] = "run"

\* A document's scope "cancels queued work": a job that waits while its scope
\* is cancelled is never run, whichever thread ends up with it.
CancelledWaitingNeverRuns ==
    \A id \in Ids :
        [](id \in jobs /\ IsCancelled(id) => []~Running(id))

\* The wake comes after the outcome is committed: an owner that polls only
\* when woken receives the outcome, unless its own waker panicked.
OwnerHears ==
    \A id \in Ids :
        (id < nextId /\ info[id].waker)
            ~> (id \in received \/ signal[id] = "panicked")

(***************************************************************************)
(* What the pool promises, and how its state maps to the promise.          *)
(***************************************************************************)
Promise == INSTANCE JobService WITH
    Limit   <- Cardinality(Workers),
    queued  <- jobs \cup taken \cup
                   {id \in Ids : pc[Dropper] = "send" /\ work[Dropper] = id},
    running <- {id \in Ids : \E w \in Workers : Holds(w, id)},
    answer  <- outcome,
    closed  <- pc[Dropper] # "handles"

\* The threads, the mutex, the condition variable and the drop implement the
\* job service: best job first, at most `workers` at once, one answer each.
ImplementsPromise == Promise!FairSpec
=============================================================================
