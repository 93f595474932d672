------------------------------ MODULE EventLoop ------------------------------
(***************************************************************************)
(* The page's event loop of src/src/js/event_loop.rs: one FIFO queue per   *)
(* task source, a global order across them, timers on a virtual clock, and *)
(* the animation frame callbacks.                                          *)
(*                                                                         *)
(* The loop is single threaded; callbacks it runs call back into it.  So   *)
(* every operation is an action, and any operation may come between the    *)
(* promotion of a task and its turn, which is where the hazards are.       *)
(* Payloads are reduced to what the operations look at: the kind of task,  *)
(* the document that owns it, the node it is about, its timer.             *)
(***************************************************************************)
EXTENDS Naturals, Sequences, SequencesExt, FiniteSets, Orderings

CONSTANTS
    Workloads,      \* the bounds a behaviour may choose, see WorkloadsAssumption
    None

\* A workload bounds one behaviour: the documents, nodes and directly enqueued
\* kinds of task it uses, the tasks, timers and frames it ever creates, the
\* delays scripts ask for and the clock advances by, and the last time of the
\* clock, where it saturates as it does at u64::MAX in the code.
ASSUME WorkloadsAssumption ==
    \A w \in Workloads :
        /\ w.kinds \subseteq {"resource", "lock", "violation", "navigation",
                              "auxiliary", "message", "networking"}
        /\ w.tasks \in Nat /\ w.timers \in Nat /\ w.frames \in Nat
        /\ w.time \in Nat /\ w.delays \subseteq Nat /\ None \notin w.docs

VARIABLES
    load,           \* the workload of this behaviour; never changes
    nextTask,       \* EventLoop.next_task_id
    queues,         \* source -> the queued tasks
    order,          \* EventLoop.order
    nextTimer, now, timers,
    nextFrame, frameOrder, frames,
    frameRun,       \* the callback ids taken by the frame being run
    retired,        \* documents cancelled by cancel_tasks_for_document
    lastRun,        \* history: id of the last task taken by pop_task
    lastDue,        \* history: fire time of the last timer task taken
    fired,          \* history: timers whose task was taken
    cleared         \* history: timers passed to clear_timer

taskVars  == <<nextTask, queues, order>>
timerVars == <<nextTimer, now, timers>>
frameVars == <<nextFrame, frameOrder, frames, frameRun>>
histVars  == <<retired, lastRun, lastDue, fired, cleared>>
vars == <<load, taskVars, timerVars, frameVars, histVars>>

Sources == {"Timer", "Networking", "WebLocks", "Navigation", "PostedMessage"}

\* The source an enqueue_* function or a timer payload is queued on.
SourceOf(kind) ==
    CASE kind = "timer"                                    -> "Timer"
      [] kind \in {"resource", "violation", "networking"}  -> "Networking"
      [] kind = "lock"                                     -> "WebLocks"
      [] kind \in {"navigation", "auxiliary"}              -> "Navigation"
      [] kind = "message"                                  -> "PostedMessage"

Task(kind, owner, node, timer, due) ==
    [id |-> nextTask, kind |-> kind, owner |-> owner, node |-> node,
     timer |-> timer, due |-> due]

Entry(task) == [id |-> task.id, source |-> SourceOf(task.kind)]

\* `enqueue` on one source for each task of a sequence, the ids continuing from
\* next_task_id.
EnqueueAll(source, tasks) ==
    LET numbered == [i \in 1 .. Len(tasks) |->
                        [tasks[i] EXCEPT !.id = nextTask + i - 1]]
    IN  /\ queues' = [queues EXCEPT ![source] = @ \o numbered]
        /\ order' = order \o [i \in 1 .. Len(tasks) |-> Entry(numbered[i])]
        /\ nextTask' = nextTask + Len(tasks)

Enqueue(task) == EnqueueAll(SourceOf(task.kind), <<task>>)

QueuedTasks == UNION {ToSet(queues[s]) : s \in Sources}

\* Removes these tasks from their queues and, by their ids, from the order.
Cancel(gone) ==
    LET ids == {t.id : t \in gone}
    IN  /\ queues' = [s \in Sources |-> Keep(queues[s], ToSet(queues[s]) \ gone)]
        /\ order' = Keep(order, {e \in ToSet(order) : e.id \notin ids})

Saturate(t) == IF t > load.time THEN load.time ELSE t

Init ==
    /\ load \in Workloads
    /\ nextTask = 1
    /\ queues = [s \in Sources |-> <<>>]
    /\ order = <<>>
    /\ nextTimer = 1
    /\ now = 0
    /\ timers = {}
    /\ nextFrame = 0
    /\ frameOrder = <<>>
    /\ frames = {}
    /\ frameRun = <<>>
    /\ retired = {}
    /\ lastRun = 0
    /\ lastDue = 0
    /\ fired = {}
    /\ cleared = {}

Owners == (load.docs \ retired) \cup {None}

-----------------------------------------------------------------------------
(***************************************************************************)
(* Enqueueing.  WebLock and SecurityPolicyViolation tasks always name a    *)
(* document, navigations and posted messages never do.                     *)
(***************************************************************************)
Owned(kind) == kind \in {"timer", "resource", "lock", "violation", "networking"}

EnqueueTimerPayload(owner, node) ==
    /\ "resource" \in load.kinds
    /\ nextTask <= load.tasks
    /\ Enqueue(Task("resource", owner, node, 0, now))
    /\ UNCHANGED <<timerVars, frameVars, histVars>>

EnqueueForDocument(kind, document) ==
    /\ kind \in load.kinds \cap {"lock", "violation", "networking"}
    /\ nextTask <= load.tasks
    /\ Enqueue(Task(kind, document, None, 0, now))
    /\ UNCHANGED <<timerVars, frameVars, histVars>>

EnqueueNavigation(kind) ==
    /\ kind \in load.kinds \cap {"navigation", "auxiliary"}
    /\ nextTask <= load.tasks
    /\ Enqueue(Task(kind, None, None, 0, now))
    /\ UNCHANGED <<timerVars, frameVars, histVars>>

EnqueueMessage ==
    /\ "message" \in load.kinds
    /\ nextTask <= load.tasks
    /\ Enqueue(Task("message", None, None, 0, now))
    /\ UNCHANGED <<timerVars, frameVars, histVars>>

-----------------------------------------------------------------------------
(***************************************************************************)
(* Taking tasks.                                                           *)
(***************************************************************************)

\* pop_task: the head of the order names the source, the head of that source's
\* queue is the task.  The code asserts that both carry the same id.
PopTask ==
    /\ order # <<>>
    /\ LET source == Head(order).source IN
       /\ queues[source] # <<>>
       /\ LET task == Head(queues[source]) IN
          /\ queues' = [queues EXCEPT ![source] = Tail(@)]
          /\ order' = Tail(order)
          /\ lastRun' = task.id
          /\ lastDue' = IF task.timer # 0 THEN task.due ELSE lastDue
          /\ fired' = IF task.timer # 0 THEN fired \cup {task.timer} ELSE fired
    /\ UNCHANGED <<nextTask, timerVars, frameVars, retired, cleared>>

\* Where the queue holds navigations of the page itself.
Navigations ==
    {i \in DOMAIN queues["Navigation"] : queues["Navigation"][i].kind = "navigation"}

\* Mutant: the navigation leaves its queue but stays in the order.
PopNavigationQueueOnly ==
    /\ \E index \in Navigations :
          /\ \A i \in Navigations : index <= i
          /\ queues' = [queues EXCEPT !["Navigation"] = Pick(@, DOMAIN @ \ {index})]
    /\ UNCHANGED <<nextTask, order, timerVars, frameVars, histVars>>

\* pop_navigation_task: the first Navigation, past auxiliary navigations and
\* past older tasks of other sources.
PopNavigationTask ==
    /\ \E index \in Navigations :
          /\ \A i \in Navigations : index <= i
          /\ queues' = [queues EXCEPT !["Navigation"] = Pick(@, DOMAIN @ \ {index})]
          /\ LET id == queues["Navigation"][index].id
             IN  order' = Keep(order, {e \in ToSet(order) : e.id # id})
    /\ UNCHANGED <<nextTask, timerVars, frameVars, histVars>>

-----------------------------------------------------------------------------
(***************************************************************************)
(* Timers on the virtual clock.                                            *)
(***************************************************************************)
ScheduleTimer(delay, repeat, owner) ==
    /\ nextTimer <= load.timers
    /\ timers' = timers \cup
         {[id |-> nextTimer, owner |-> owner, next |-> Saturate(now + delay),
           interval |-> delay, repeat |-> repeat]}
    /\ nextTimer' = nextTimer + 1
    /\ UNCHANGED <<now, taskVars, frameVars, histVars>>

ClearTimer(id) ==
    /\ timers' = {t \in timers : t.id # id}
    /\ cleared' = cleared \cup {id}
    /\ UNCHANGED <<nextTimer, now, taskVars, frameVars, retired, lastRun,
                   lastDue, fired>>

\* Mutant: due timers are promoted in registration order.
EarlierId(t, u) == t.id < u.id

Earlier(t, u) == t.next < u.next \/ (t.next = u.next /\ t.id < u.id)

\* The due timers in the order in which they fire, and the task of each.
Ready(due) == Enumerate(due, {p \in due \X due : Earlier(p[1], p[2])})

TimerTasks(ready) ==
    [i \in 1 .. Len(ready) |->
        Task("timer", ready[i].owner, None, ready[i].id, ready[i].next)]

\* Mutant: the due timers are those strictly before the new time.
AdvanceStrict(elapsed) ==
    LET time  == Saturate(now + elapsed)
        due   == {t \in timers : t.next < time}
        ready == Ready(due)
    IN  /\ nextTask + Len(ready) <= load.tasks + 1
        /\ now' = time
        /\ timers' = (timers \ due) \cup
             {[t EXCEPT !.next = Saturate(time + t.interval)] :
                 t \in {u \in due : u.repeat}}
        /\ EnqueueAll("Timer", TimerTasks(ready))
        /\ UNCHANGED <<nextTimer, frameVars, histVars>>

\* advance: promotes every due timer in fire-time order, once each; an
\* interval restarts from the new time.
Advance(elapsed) ==
    LET time  == Saturate(now + elapsed)
        due   == {t \in timers : t.next <= time}
        ready == Ready(due)
    IN  /\ nextTask + Len(ready) <= load.tasks + 1
        /\ now' = time
        /\ timers' = (timers \ due) \cup
             {[t EXCEPT !.next = Saturate(time + t.interval)] :
                 t \in {u \in due : u.repeat}}
        /\ EnqueueAll("Timer", TimerTasks(ready))
        /\ UNCHANGED <<nextTimer, frameVars, histVars>>

\* next_timer_delay_ms: how long an embedder may sleep.
NextTimerDelay ==
    IF order # <<>> THEN 0
    ELSE IF timers = {} THEN None
    ELSE LET first == CHOOSE t \in timers : \A u \in timers : t.next <= u.next
         IN  IF first.next > now THEN first.next - now ELSE 0

-----------------------------------------------------------------------------
(***************************************************************************)
(* Animation frames.                                                       *)
(***************************************************************************)
ScheduleAnimationFrame(owner) ==
    /\ nextFrame < load.frames
    /\ nextFrame' = nextFrame + 1
    /\ frameOrder' = Append(frameOrder, nextFrame')
    /\ frames' = frames \cup {[id |-> nextFrame', owner |-> owner]}
    /\ UNCHANGED <<frameRun, taskVars, timerVars, histVars>>

CancelAnimationFrame(id) ==
    /\ id \in {f.id : f \in frames}
    /\ frames' = {f \in frames : f.id # id}
    /\ UNCHANGED <<nextFrame, frameOrder, frameRun, taskVars, timerVars,
                   histVars>>

BeginAnimationFrame ==
    /\ frameRun = <<>>
    /\ frameOrder # <<>>
    /\ frameRun' = frameOrder
    /\ frameOrder' = <<>>
    /\ UNCHANGED <<nextFrame, frames, taskVars, timerVars, histVars>>

\* take_animation_frame_callback for the next id of the frame: a callback that
\* was cancelled meanwhile is gone from the map and is skipped.
TakeAnimationFrameCallback ==
    /\ frameRun # <<>>
    /\ frames' = {f \in frames : f.id # Head(frameRun)}
    /\ frameRun' = Tail(frameRun)
    /\ UNCHANGED <<nextFrame, frameOrder, taskVars, timerVars, histVars>>

-----------------------------------------------------------------------------
(***************************************************************************)
(* Cancellation.                                                           *)
(***************************************************************************)
\* Mutant: only timers that still wait on virtual time are cancelled.
CancelScheduledOnly(document) ==
    LET gone == {f.id : f \in {g \in frames : g.owner = document}}
    IN  /\ document \notin retired
        /\ timers' = {t \in timers : t.owner # document}
        /\ Cancel({t \in QueuedTasks :
                     t.kind \in {"lock", "violation"} /\ t.owner = document})
        /\ frames' = {f \in frames : f.id \notin gone}
        /\ frameOrder' = Keep(frameOrder, ToSet(frameOrder) \ gone)
        /\ retired' = retired \cup {document}
        /\ UNCHANGED <<nextTask, nextTimer, now, nextFrame, frameRun, lastRun,
                       lastDue, fired, cleared>>

CancelTasksForDocument(document) ==
    LET gone == {f.id : f \in {g \in frames : g.owner = document}}
    IN  /\ document \notin retired
        /\ timers' = {t \in timers : t.owner # document}
        /\ Cancel({t \in QueuedTasks : Owned(t.kind) /\ t.owner = document})
        /\ frames' = {f \in frames : f.id \notin gone}
        /\ frameOrder' = Keep(frameOrder, ToSet(frameOrder) \ gone)
        /\ retired' = retired \cup {document}
        /\ UNCHANGED <<nextTask, nextTimer, now, nextFrame, frameRun, lastRun,
                       lastDue, fired, cleared>>

CancelResourceLoadsForNodes(nodes) ==
    /\ Cancel({t \in QueuedTasks : t.kind = "resource" /\ t.node \in nodes})
    /\ UNCHANGED <<nextTask, timerVars, frameVars, histVars>>

Step ==
    \/ \E owner \in Owners, node \in load.nodes : EnqueueTimerPayload(owner, node)
    \/ \E kind \in load.kinds, d \in load.docs \ retired : EnqueueForDocument(kind, d)
    \/ \E kind \in load.kinds : EnqueueNavigation(kind)
    \/ EnqueueMessage
    \/ PopTask
    \/ PopNavigationTask
    \/ \E delay \in load.delays, repeat \in BOOLEAN, owner \in Owners :
          ScheduleTimer(delay, repeat, owner)
    \/ \E id \in 1..(nextTimer - 1) : ClearTimer(id)
    \/ \E elapsed \in load.delays : Advance(elapsed)
    \/ \E owner \in Owners : ScheduleAnimationFrame(owner)
    \/ \E id \in 1..nextFrame : CancelAnimationFrame(id)
    \/ BeginAnimationFrame
    \/ TakeAnimationFrameCallback
    \/ \E d \in load.docs : CancelTasksForDocument(d)
    \/ \E nodes \in (SUBSET load.nodes) \ {{}} : CancelResourceLoadsForNodes(nodes)

Next == Step /\ UNCHANGED load

Spec == Init /\ [][Next]_vars

-----------------------------------------------------------------------------
(***************************************************************************)
(* Properties                                                              *)
(***************************************************************************)
Kinds     == {"timer", "resource", "lock", "violation", "navigation", "auxiliary",
              "message", "networking"}
Documents == {None} \cup UNION {w.docs : w \in Workloads}
Nodes     == {None} \cup UNION {w.nodes : w \in Workloads}

Tasks   == [id : Nat, kind : Kinds, owner : Documents, node : Nodes, timer : Nat, due : Nat]
Entries == [id : Nat, source : Sources]
Timers  == [id : Nat, owner : Documents, next : Nat, interval : Nat, repeat : BOOLEAN]

\* The event loop's fields have the shape of their Rust types.
TypeOK ==
    /\ load \in Workloads
    /\ nextTask \in 1..(load.tasks + 1)
    /\ queues \in [Sources -> Seq(Tasks)]
    /\ order \in Seq(Entries)
    /\ nextTimer \in 1..(load.timers + 1)
    /\ now \in 0..load.time
    /\ timers \in SUBSET Timers /\ IsFiniteSet(timers)
    /\ nextFrame \in 0..load.frames
    /\ frameOrder \in Seq(1..nextFrame) /\ frameRun \in Seq(1..nextFrame)
    /\ frames \in SUBSET [id : 1..nextFrame, owner : Documents]
    /\ retired \in SUBSET load.docs
    /\ lastRun \in Nat /\ lastDue \in Nat /\ fired \in SUBSET Nat

\* `order` and the source queues describe the same tasks in the same order,
\* through out-of-order navigations and cancellations: so the assertion in
\* pop_task holds, and no queued task is dropped or stranded.
OrderMatchesQueues ==
    \A s \in Sources :
        LET ofSource == Keep(order, {e \in ToSet(order) : e.source = s})
        IN  /\ Len(ofSource) = Len(queues[s])
            /\ \A i \in DOMAIN ofSource : ofSource[i].id = queues[s][i].id

\* Tasks run in the order they were queued, across all sources: nothing older
\* than the last task taken is still waiting.  Navigations taken early by
\* pop_navigation_task leave the others in place.
FifoAcrossSources ==
    /\ \A i, j \in DOMAIN order : i < j => order[i].id < order[j].id
    /\ \A e \in ToSet(order) : e.id > lastRun

\* The queues keep their shape, the order names what they hold, and tasks run
\* first come, first served, whatever is navigated or cancelled in between.
TaskOrder == TypeOK /\ OrderMatchesQueues /\ FifoAcrossSources

\* "Due timers fire in fire-time order", over any number of clock steps: the
\* fire times of the timer tasks never decrease along the queue, and none lies
\* before the last one run or after the clock.
FireTimeOrder ==
    LET fire == Keep(queues["Timer"], {t \in QueuedTasks : t.timer # 0}) IN
    /\ \A i, j \in DOMAIN fire : i < j => fire[i].due <= fire[j].due
    /\ \A t \in ToSet(fire) : lastDue <= t.due /\ t.due <= now

\* A timeout runs at most once: it waits, or it has one task, or it has run.
OneShotOnce ==
    \A id \in 1..(nextTimer - 1) :
        LET waiting == {t \in timers : t.id = id}
            tasks   == {t \in QueuedTasks : t.timer = id}
        IN  waiting = {} \/ (\A t \in waiting : t.repeat) \/
                (tasks = {} /\ id \notin fired /\ Cardinality(waiting) = 1)

\* Timers run in the order of their times and timeouts run once (advance,
\* pop_task), over repeating timers, clock steps and clear_timer.
TimersInOrder == FireTimeOrder /\ OneShotOnce

\* An embedder that sleeps for next_timer_delay_ms finds work, and one that
\* sleeps less finds none: the delay is exact.
DelayIsExact ==
    [][(now' # now /\ order = <<>> /\ NextTimerDelay # None) =>
          (order' # <<>> <=> now' >= now + NextTimerDelay)]_vars

\* Every animation frame callback belongs to a frame that is still to come or
\* is running: none is stranded outside both, where it would never be called.
NoStrandedFrame ==
    \A f \in frames :
        f.id \in ToSet(frameOrder) \cup ToSet(frameRun)

\* A destroyed document leaves nothing behind: no timer waiting on virtual
\* time, no promoted or queued task, no animation frame callback, whether or
\* not a frame is running; and its going strands no other's callback
\* (cancel_tasks_for_document).
NothingOfRetired ==
    /\ \A d \in retired :
          /\ \A t \in timers : t.owner # d
          /\ \A t \in QueuedTasks : Owned(t.kind) => t.owner # d
          /\ \A f \in frames : f.owner # d
    /\ NoStrandedFrame

\* "clearTimeout must cancel a pending function-callback timer" and "cleared
\* interval must not fire again": no task of a cleared timer is run.
ClearedTimerNeverFires ==
    [][\A id \in cleared : id \in fired' => id \in fired]_vars
=============================================================================
