------------------------- MODULE ResourceQueue_proofs -------------------------
(***************************************************************************)
(* Proofs about the resource worker pool, for any number of workers, any   *)
(* scopes and any id limit: every job is in one place, no job overtakes,   *)
(* no wakeup is lost, the drop leaves no sleeper, a cancelled waiting job  *)
(* never runs, and the pool implements the job service.                    *)
(***************************************************************************)
EXTENDS ResourceQueue, FiniteSetTheorems, TLAPS

\* An executor is inside a job's closure exactly when it has a job, it has a
\* decided outcome exactly when it is about to send it, no worker runs before
\* the first submission, and the drop has taken nothing before it starts.
Bookkeeping ==
    /\ \A e \in Executors :
          /\ pc[e] \in {"claimed", "run", "send", "wake"} <=> work[e] # None
          /\ pc[e] = "send" <=> result[e] # None
    /\ ~started => \A w \in Workers : pc[w] = "unspawned"
    /\ HasHandle => taken = {}

IInv == TypeOK /\ Bookkeeping /\ OnePlace

USE DEF Ids, JobInfo, Outcomes, Executors, WorkerPc, DropperPc, queueVars,
        jobVars, HasHandle

\* Every step keeps the types of State, the executors and the channels.
LEMMA TypeStep == TypeOK /\ [Next]_vars => TypeOK'
<1> SUFFICES ASSUME TypeOK, [Next]_vars
             PROVE  TypeOK'
  OBVIOUS
<1> USE DropperAssumption, NoneAssumption, IdLimitAssumption DEF TypeOK
<1>1. ASSUME NEW p \in Priority, NEW s \in Scopes, NEW w \in BOOLEAN,
             Submit(p, s, w)
      PROVE  TypeOK'
  BY <1>1 DEF Submit, Spawned
<1>2. CASE SubmitExhausted
  BY <1>2 DEF SubmitExhausted, Spawned
<1>3. ASSUME NEW spawn \in SUBSET Workers, SpawnFails(spawn)
      PROVE  TypeOK'
  BY <1>3 DEF SpawnFails, Spawned
<1>4. CASE NotifyOne
  <2>1. notifies' \in Nat
    BY <1>4 DEF NotifyOne
  <2>2. CASE UNCHANGED pc
    BY <1>4, <2>1, <2>2 DEF NotifyOne
  <2>3. ASSUME NEW w \in Workers, pc' = [pc EXCEPT ![w] = "lock"]
        PROVE  TypeOK'
    BY <1>4, <2>1, <2>3 DEF NotifyOne
  <2>4. QED
    BY <1>4, <2>2, <2>3 DEF NotifyOne
<1>5. ASSUME NEW w \in Workers, Wait(w) \/ SpuriousWake(w) \/ Exit(w)
      PROVE  TypeOK'
  BY <1>5 DEF Wait, SpuriousWake, Exit
<1>6. ASSUME NEW w \in Workers, Pop(w)
      PROVE  TypeOK'
  BY <1>6 DEF Pop
<1>7. ASSUME NEW w \in Workers, Begin(w)
      PROVE  TypeOK'
  BY <1>7 DEF Begin
<1>8. ASSUME NEW w \in Workers, Finish(w)
      PROVE  TypeOK'
  BY <1>8 DEF Finish
<1>9. ASSUME NEW e \in Executors, Send(e)
      PROVE  TypeOK'
  BY <1>9 DEF Send
<1>10. ASSUME NEW e \in Executors, Wake(e)
       PROVE  TypeOK'
  <2>1. signal' \in [Ids -> {"unset", "set", "panicked"}]
    BY <1>10 DEF Wake
  <2>2. work' \in [Executors -> Ids \cup {None}]
    BY <1>10 DEF Wake
  <2>3. /\ pc' \in [Executors -> WorkerPc \cup DropperPc]
        /\ \A w \in Workers : pc'[w] \in WorkerPc
        /\ pc'[Dropper] \in DropperPc
    BY <1>10 DEF Wake
  <2>4. UNCHANGED <<jobs, nextId, started, stopped, notifies, live, info, result,
                    taken, outcome, received>>
    BY <1>10 DEF Wake
  <2>5. QED
    BY <2>1, <2>2, <2>3, <2>4
<1>11. CASE DropPool
  BY <1>11 DEF DropPool
<1>12. CASE NotifyAll
  BY <1>12 DEF NotifyAll
<1>13. CASE DrainOne
  BY <1>13 DEF DrainOne
<1>14. CASE DropDone
  BY <1>14 DEF DropDone
<1>15. ASSUME NEW s \in Scopes, CancelScope(s)
       PROVE  TypeOK'
  BY <1>15 DEF CancelScope
<1>16. ASSUME NEW id \in Ids, TryRecv(id)
       PROVE  TypeOK'
  BY <1>16 DEF TryRecv
<1>17. CASE UNCHANGED vars
  BY <1>17 DEF vars
<1> HIDE DEF TypeOK, JobInfo, WorkerPc, DropperPc
<1>18. QED
  BY <1>1, <1>2, <1>3, <1>4, <1>5, <1>6, <1>7, <1>8, <1>9, <1>10, <1>11,
     <1>12, <1>13, <1>14, <1>15, <1>16, <1>17
     DEF Next, WorkerStep, DropStep

LEMMA TypeInit == Init => TypeOK
<1> SUFFICES ASSUME Init
             PROVE  TypeOK
  OBVIOUS
<1>1. PICK p \in Priority, s \in Scopes : TRUE
  BY PriorityAssumption, ScopesAssumption
<1>2. [priority |-> p, scope |-> s, waker |-> TRUE] \in JobInfo
  OBVIOUS
<1> HIDE DEF JobInfo
<1>3. (CHOOSE i \in JobInfo : TRUE) \in JobInfo
  BY <1>2
<1>4. info \in [Ids -> JobInfo]
  BY <1>3 DEF Init
<1>5. /\ pc \in [Executors -> WorkerPc \cup DropperPc]
      /\ \A w \in Workers : pc[w] \in WorkerPc
      /\ pc[Dropper] \in DropperPc
  BY DropperAssumption DEF Init
<1>6. live \in [Scopes -> BOOLEAN]
  BY DEF Init
<1>7. /\ work \in [Executors -> Ids \cup {None}]
      /\ result \in [Executors -> Outcomes \cup {None}]
  BY DEF Init
<1>8. /\ outcome \in [Ids -> Outcomes \cup {None}]
      /\ signal \in [Ids -> {"unset", "set", "panicked"}]
  BY DEF Init
<1>9. nextId \in 0..IdLimit /\ notifies \in Nat
  BY IdLimitAssumption DEF Init
<1> HIDE DEF WorkerPc, DropperPc
<1>10. QED
  BY <1>4, <1>5, <1>6, <1>7, <1>8, <1>9 DEF Init, TypeOK

\* The pool's state always has the shape of its Rust types.
THEOREM TypeCorrect == Spec => []TypeOK
  BY TypeInit, TypeStep, PTL DEF Spec

\* Program counters, held jobs and decided outcomes change together.
LEMMA BookkeepingStep ==
    TypeOK /\ Bookkeeping /\ [Next]_vars => Bookkeeping'
<1> SUFFICES ASSUME TypeOK, Bookkeeping, [Next]_vars
             PROVE  Bookkeeping'
  OBVIOUS
<1> USE DropperAssumption, NoneAssumption, IdLimitAssumption DEF TypeOK, Bookkeeping
<1>1. ASSUME NEW p \in Priority, NEW s \in Scopes, NEW w \in BOOLEAN,
             Submit(p, s, w)
      PROVE  Bookkeeping'
  BY <1>1 DEF Submit, Spawned
<1>2. CASE SubmitExhausted
  BY <1>2 DEF SubmitExhausted, Spawned
<1>3. ASSUME NEW spawn \in SUBSET Workers, SpawnFails(spawn)
      PROVE  Bookkeeping'
  BY <1>3 DEF SpawnFails, Spawned
<1>4. CASE NotifyOne
  BY <1>4 DEF NotifyOne
<1>5. ASSUME NEW w \in Workers, Wait(w) \/ SpuriousWake(w) \/ Exit(w)
      PROVE  Bookkeeping'
  BY <1>5 DEF Wait, SpuriousWake, Exit
<1>6. ASSUME NEW w \in Workers, Pop(w)
      PROVE  Bookkeeping'
  BY <1>6 DEF Pop
<1>7. ASSUME NEW w \in Workers, Begin(w)
      PROVE  Bookkeeping'
  BY <1>7 DEF Begin
<1>8. ASSUME NEW w \in Workers, Finish(w)
      PROVE  Bookkeeping'
  BY <1>8 DEF Finish
<1>9. ASSUME NEW e \in Executors, Send(e)
      PROVE  Bookkeeping'
  BY <1>9 DEF Send
<1>10. ASSUME NEW e \in Executors, Wake(e)
      PROVE  Bookkeeping'
  BY <1>10 DEF Wake
<1>11. CASE DropPool
  BY <1>11 DEF DropPool
<1>12. CASE NotifyAll
  BY <1>12 DEF NotifyAll
<1>13. CASE DrainOne
  BY <1>13 DEF DrainOne
<1>14. CASE DropDone
  BY <1>14 DEF DropDone
<1>15. ASSUME NEW s \in Scopes, CancelScope(s)
      PROVE  Bookkeeping'
  BY <1>15 DEF CancelScope
<1>16. ASSUME NEW id \in Ids, TryRecv(id)
      PROVE  Bookkeeping'
  BY <1>16 DEF TryRecv
<1>17. CASE UNCHANGED vars
  BY <1>17 DEF vars
<1> HIDE DEF TypeOK, Bookkeeping, JobInfo, WorkerPc, DropperPc
<1>18. QED
  BY <1>1, <1>2, <1>3, <1>4, <1>5, <1>6, <1>7, <1>8, <1>9, <1>10, <1>11,
     <1>12, <1>13, <1>14, <1>15, <1>16, <1>17
     DEF Next, WorkerStep, DropStep

\* A step moves a job from one place to the next, never to two and never out.
LEMMA OnePlaceStep ==
    TypeOK /\ Bookkeeping /\ OnePlace /\ [Next]_vars => OnePlace'
<1> SUFFICES ASSUME TypeOK, Bookkeeping, OnePlace, [Next]_vars
             PROVE  OnePlace'
  OBVIOUS
<1> USE DropperAssumption, NoneAssumption, IdLimitAssumption DEF TypeOK, Bookkeeping, OnePlace,
        Holds
<1>1. ASSUME NEW p \in Priority, NEW s \in Scopes, NEW w \in BOOLEAN,
             Submit(p, s, w)
      PROVE  OnePlace'
  <2>1. \A e \in Executors, id \in Ids : Holds(e, id)' <=> Holds(e, id)
    BY <1>1 DEF Submit, Spawned
  <2>2. /\ nextId \in Ids /\ nextId' = nextId + 1
        /\ jobs' = jobs \cup {nextId}
        /\ UNCHANGED <<taken, outcome>>
    BY <1>1 DEF Submit
  <2>3. /\ nextId \notin jobs \cup taken /\ outcome[nextId] = None
        /\ \A e \in Executors : ~Holds(e, nextId)
    BY <2>2
  <2>4. \A id \in Ids : id < nextId' <=> id < nextId \/ id = nextId
    BY <2>2
  <2> HIDE DEF Holds, TypeOK, Bookkeeping, Executors
  <2>5. QED
    BY <2>1, <2>2, <2>3, <2>4
<1>2. CASE SubmitExhausted
  <2>1. CASE started
    BY <1>2, <2>1 DEF SubmitExhausted
  <2>2. CASE ~started
    <3>1. \A e \in Executors, id \in Ids : Holds(e, id)' <=> Holds(e, id)
      BY <1>2, <2>2 DEF SubmitExhausted, Spawned
    <3> HIDE DEF Holds
    <3>2. QED
      BY <1>2, <3>1 DEF SubmitExhausted
  <2>3. QED
    BY <2>1, <2>2
<1>3. ASSUME NEW spawn \in SUBSET Workers, SpawnFails(spawn)
      PROVE  OnePlace'
  <2>1. \A e \in Executors, id \in Ids : Holds(e, id)' <=> Holds(e, id)
    BY <1>3 DEF SpawnFails, Spawned
  <2>2. UNCHANGED <<jobs, nextId, taken, outcome>>
    BY <1>3 DEF SpawnFails
  <2> HIDE DEF Holds
  <2>3. QED
    BY <2>1, <2>2
<1>4. CASE NotifyOne
  BY <1>4 DEF NotifyOne
<1>5. ASSUME NEW w \in Workers, Wait(w) \/ SpuriousWake(w) \/ Exit(w)
      PROVE  OnePlace'
  <2>1. \A e \in Executors, id \in Ids : Holds(e, id)' <=> Holds(e, id)
    <3>1. pc[w] \in {"lock", "waiting"}
      BY <1>5 DEF Wait, SpuriousWake, Exit
    <3>2. /\ pc' = [pc EXCEPT ![w] = pc'[w]]
          /\ pc'[w] \in {"lock", "waiting", "exited"}
          /\ work' = work
      BY <1>5 DEF Wait, SpuriousWake, Exit
    <3>3. QED
      BY <3>1, <3>2
  <2>2. UNCHANGED <<jobs, nextId, taken, outcome>>
    BY <1>5 DEF Wait, SpuriousWake, Exit
  <2> HIDE DEF Holds
  <2>3. QED
    BY <2>1, <2>2
<1>6. ASSUME NEW w \in Workers, Pop(w)
      PROVE  OnePlace'
  BY <1>6 DEF Pop
<1>7. ASSUME NEW w \in Workers, Begin(w)
      PROVE  OnePlace'
  <2>1. /\ pc[w] = "claimed"
        /\ pc' = [pc EXCEPT ![w] = pc'[w]]
        /\ pc'[w] \in {"send", "run"}
        /\ UNCHANGED <<jobs, nextId, taken, outcome, work>>
    BY <1>7 DEF Begin
  <2>2. \A e \in Executors, id \in Ids : Holds(e, id)' <=> Holds(e, id)
    BY <2>1
  <2> HIDE DEF Holds
  <2>3. QED
    BY <2>1, <2>2
<1>8. ASSUME NEW w \in Workers, Finish(w)
      PROVE  OnePlace'
  <2>1. /\ pc[w] = "run"
        /\ pc' = [pc EXCEPT ![w] = pc'[w]]
        /\ pc'[w] \in {"send"}
        /\ UNCHANGED <<jobs, nextId, taken, outcome, work>>
    BY <1>8 DEF Finish
  <2>2. \A e \in Executors, id \in Ids : Holds(e, id)' <=> Holds(e, id)
    BY <2>1
  <2> HIDE DEF Holds
  <2>3. QED
    BY <2>1, <2>2
<1>9. ASSUME NEW e \in Executors, Send(e)
      PROVE  OnePlace'
  BY <1>9 DEF Send
<1>10. ASSUME NEW e \in Executors, Wake(e)
      PROVE  OnePlace'
  <2>1. /\ pc[e] = "wake"
        /\ pc' = [pc EXCEPT ![e] = pc'[e]] /\ pc'[e] \in {"drain", "lock"}
        /\ work' = [work EXCEPT ![e] = None]
        /\ UNCHANGED <<jobs, nextId, taken, outcome>>
    BY <1>10 DEF Wake
  <2>2. \A f \in Executors, id \in Ids : Holds(f, id)' <=> Holds(f, id)
    BY <2>1
  <2> HIDE DEF Holds
  <2>3. QED
    BY <2>1, <2>2
<1>11. CASE DropPool
  BY <1>11 DEF DropPool
<1>12. CASE NotifyAll
  <2>1. \A e \in Executors, id \in Ids : Holds(e, id)' <=> Holds(e, id)
    BY <1>12 DEF NotifyAll
  <2> HIDE DEF Holds
  <2>2. QED
    BY <1>12, <2>1 DEF NotifyAll
<1>13. CASE DrainOne
  BY <1>13 DEF DrainOne
<1>14. CASE DropDone
  BY <1>14 DEF DropDone
<1>15. ASSUME NEW s \in Scopes, CancelScope(s)
      PROVE  OnePlace'
  BY <1>15 DEF CancelScope
<1>16. ASSUME NEW id \in Ids, TryRecv(id)
      PROVE  OnePlace'
  BY <1>16 DEF TryRecv
<1>17. CASE UNCHANGED vars
  BY <1>17 DEF vars
<1> HIDE DEF TypeOK, Bookkeeping, OnePlace, JobInfo, WorkerPc, DropperPc
<1>18. QED
  BY <1>1, <1>2, <1>3, <1>4, <1>5, <1>6, <1>7, <1>8, <1>9, <1>10, <1>11,
     <1>12, <1>13, <1>14, <1>15, <1>16, <1>17
     DEF Next, WorkerStep, DropStep

\* The inductive invariant holds in every reachable state.
LEMMA IInvAlways == Spec => []IInv
<1>1. ASSUME Init
      PROVE  Bookkeeping /\ OnePlace
  <2>1. \A e \in Executors :
            /\ pc[e] \in {"handles", "unspawned"}
            /\ work[e] = None /\ result[e] = None
    BY <1>1 DEF Init
  <2>2. \A w \in Workers : pc[w] = "unspawned"
    BY <1>1, DropperAssumption DEF Init
  <2>3. Bookkeeping
    BY <1>1, <2>1, <2>2 DEF Init, Bookkeeping
  <2>4. \A id \in Ids, e \in Executors : ~Holds(e, id)
    BY <2>1 DEF Holds
  <2>5. OnePlace
    BY <1>1, <2>4, IdLimitAssumption DEF Init, OnePlace
  <2>6. QED
    BY <2>3, <2>5
<1>2. IInv /\ [Next]_vars => IInv'
  BY TypeStep, BookkeepingStep, OnePlaceStep DEF IInv
<1>3. QED
  BY <1>1, <1>2, TypeInit, PTL DEF Spec, IInv

\* A submitted job is never lost, run twice or answered twice, for any number
\* of workers and jobs.
THEOREM OnePlaceAlways == Spec => []OnePlace
  BY IInvAlways, PTL DEF IInv

\* A step that leaves the heap, the counter and the job descriptions alone
\* leaves the order of departures alone.
LEMMA OrderFrame ==
    NoOvertaking /\ UNCHANGED <<jobs, nextId, info>> => NoOvertaking'
  BY DEF NoOvertaking, Accepted

\* Every step keeps the order of departures: a submission arrives behind all
\* other jobs, and a pop takes the best job of the heap.
LEMMA OrderStep == IInv /\ NoOvertaking /\ [Next]_vars => NoOvertaking'
<1> SUFFICES ASSUME IInv, NoOvertaking, [Next]_vars
             PROVE  NoOvertaking'
  OBVIOUS
<1>1. TypeOK /\ OnePlace
  BY DEF IInv
<1>2. ASSUME NEW p \in Priority, NEW s \in Scopes, NEW w \in BOOLEAN,
             Submit(p, s, w)
      PROVE  NoOvertaking'
  <2>1. /\ nextId \in Ids /\ nextId' = nextId + 1
        /\ jobs' = jobs \cup {nextId}
        /\ \A id \in Ids : id # nextId => info'[id] = info[id]
    BY <1>1, <1>2, IdLimitAssumption DEF Submit, TypeOK
  <2>2. SUFFICES ASSUME NEW i \in Accepted', NEW j \in Accepted', i < j,
                        info'[i].priority >= info'[j].priority, i \in jobs'
                 PROVE  j \in jobs'
    BY DEF NoOvertaking
  <2>3. CASE j = nextId
    BY <2>1, <2>3
  <2>4. CASE j # nextId
    <3>1. i \in Accepted /\ j \in Accepted /\ i # nextId
      BY <2>1, <2>2, <2>4, IdLimitAssumption DEF Accepted
    <3>2. QED
      BY <2>1, <2>2, <2>4, <3>1 DEF NoOvertaking, Accepted
  <2>5. QED
    BY <2>3, <2>4
<1>3. ASSUME NEW w \in Workers, Pop(w)
      PROVE  NoOvertaking'
  <2>1. PICK best \in jobs :
            /\ \A other \in jobs \ {best} : Outranks(best, other)
            /\ jobs' = jobs \ {best}
    BY <1>3 DEF Pop
  <2>2. UNCHANGED <<nextId, info>>
    BY <1>3 DEF Pop
  <2>3. SUFFICES ASSUME NEW i \in Accepted, NEW j \in Accepted, i < j,
                        info[i].priority >= info[j].priority, i \in jobs'
                 PROVE  j \in jobs'
    BY <2>2 DEF NoOvertaking, Accepted
  <2>4. j \in jobs
    BY <2>1, <2>3 DEF NoOvertaking
  <2>5. j # best
    <3>1. SUFFICES ASSUME j = best
                   PROVE  FALSE
      OBVIOUS
    <3>2. Outranks(j, i)
      BY <2>1, <2>3, <3>1
    <3>3. info[i].priority \in 0..2 /\ info[j].priority \in 0..2
      BY <1>1, PriorityAssumption DEF TypeOK, Accepted
    <3>4. QED
      BY <2>3, <3>2, <3>3, IdLimitAssumption DEF Outranks, Accepted
  <2>6. QED
    BY <2>1, <2>4, <2>5
<1>4. CASE DropPool
  BY <1>4 DEF DropPool, NoOvertaking
<1>5. CASE NotifyOne \/ SubmitExhausted \/ DropStep
  BY <1>5, OrderFrame DEF NotifyOne, SubmitExhausted, DropStep, NotifyAll,
     DrainOne, DropDone, Send, Wake
<1>6. ASSUME NEW spawn \in SUBSET Workers, SpawnFails(spawn)
      PROVE  NoOvertaking'
  BY <1>6, OrderFrame DEF SpawnFails
<1>7. ASSUME NEW w \in Workers, WorkerStep(w) \/ SpuriousWake(w), ~Pop(w)
      PROVE  NoOvertaking'
  BY <1>7, OrderFrame DEF WorkerStep, SpuriousWake, Wait, Exit, Begin, Finish,
     Send, Wake
<1>8. CASE \/ \E s \in Scopes : CancelScope(s)
           \/ \E id \in Ids : TryRecv(id)
           \/ UNCHANGED vars
  BY <1>8, OrderFrame DEF CancelScope, TryRecv, vars
<1>9. QED
  BY <1>2, <1>3, <1>4, <1>5, <1>6, <1>7, <1>8 DEF Next

\* Jobs of equal or lower priority never overtake an older waiting job.
THEOREM NoOvertakingAlways == Spec => []NoOvertaking
<1>1. Init => NoOvertaking
  BY DEF Init, NoOvertaking
<1>2. QED
  BY <1>1, IInvAlways, OrderStep, PTL DEF Spec

(***************************************************************************)
(* Lost wakeups.  Cardinality is counted over the heap and the workers     *)
(* about to take the mutex, both finite.                                   *)
(***************************************************************************)
LEMMA FiniteParts ==
    ASSUME TypeOK
    PROVE  /\ IsFiniteSet(jobs) /\ Cardinality(jobs) \in Nat
           /\ \A place : /\ IsFiniteSet(WorkersAt(place))
                         /\ Cardinality(WorkersAt(place)) \in Nat
<1>1. IsFiniteSet(Ids)
  BY FS_Interval, IdLimitAssumption
<1>2. IsFiniteSet(jobs)
  BY <1>1, FS_Subset DEF TypeOK
<1>3. ASSUME NEW place
      PROVE  IsFiniteSet(WorkersAt(place))
  BY WorkersAssumption, FS_Subset DEF WorkersAt
<1>4. QED
  BY <1>2, <1>3, FS_CardinalityType

\* A step that removes no waiting or locking worker from its place, adds no
\* job, and takes back no notification cannot lose a wakeup.
LEMMA WakeupFrame ==
    ASSUME TypeOK, TypeOK', NoLostWakeup,
           stopped' = stopped, notifies' = notifies, jobs' \subseteq jobs,
           WorkersAt("waiting")' \subseteq WorkersAt("waiting"),
           WorkersAt("lock") \subseteq WorkersAt("lock")'
    PROVE  NoLostWakeup'
<1>1. Cardinality(jobs') <= Cardinality(jobs) /\ Cardinality(jobs') \in Nat
  BY FiniteParts, FS_Subset, FS_CardinalityType
<1>2. IsFiniteSet(WorkersAt("lock")')
  BY WorkersAssumption, FS_Subset DEF WorkersAt
<1>3. /\ Cardinality(WorkersAt("lock")) <= Cardinality(WorkersAt("lock")')
      /\ Cardinality(WorkersAt("lock")') \in Nat
  BY <1>2, FS_Subset, FS_CardinalityType
<1>4. QED
  BY <1>1, <1>3, FiniteParts DEF NoLostWakeup, TypeOK

\* Every step keeps a notification or an awake worker for each queued job
\* while some worker sleeps.
LEMMA WakeupStep ==
    IInv /\ IInv' /\ NoLostWakeup /\ [Next]_vars => NoLostWakeup'
<1> SUFFICES ASSUME IInv, IInv', NoLostWakeup, [Next]_vars
             PROVE  NoLostWakeup'
  OBVIOUS
<1>0. TypeOK /\ TypeOK' /\ Bookkeeping
  BY DEF IInv
<1> DEFINE lock    == WorkersAt("lock")
           waiting == WorkersAt("waiting")
<1>a. /\ IsFiniteSet(jobs) /\ Cardinality(jobs) \in Nat
      /\ IsFiniteSet(lock) /\ Cardinality(lock) \in Nat
      /\ notifies \in Nat
  BY <1>0, FiniteParts DEF TypeOK
<1>1. ASSUME NEW p \in Priority, NEW s \in Scopes, NEW w \in BOOLEAN,
             Submit(p, s, w)
      PROVE  NoLostWakeup'
  <2>1. CASE started
    <3>0. jobs' = jobs \cup {nextId}
      BY <1>1 DEF Submit
    <3>1. Cardinality(jobs') = IF nextId \in jobs THEN Cardinality(jobs)
                               ELSE Cardinality(jobs) + 1
      BY <1>a, <3>0, FS_AddElement
    <3>2. UNCHANGED <<stopped, pc>> /\ notifies' = notifies + 1
      BY <1>1, <2>1 DEF Submit
    <3>3. waiting' = waiting /\ lock' = lock
      BY <3>2 DEF WorkersAt
    <3>4. QED
      BY <1>a, <3>1, <3>2, <3>3 DEF NoLostWakeup
  <2>2. CASE ~started
    <3>1. waiting' = {}
      BY <1>0, <1>1, <2>2 DEF Submit, Spawned, WorkersAt
    <3>2. QED
      BY <3>1 DEF NoLostWakeup
  <2>3. QED
    BY <2>1, <2>2
<1>2. CASE SubmitExhausted
  <2>1. CASE started
    <3>1. UNCHANGED <<pc, jobs, notifies, stopped>>
      BY <1>2, <2>1 DEF SubmitExhausted
    <3>2. QED
      BY <1>0, <3>1, WakeupFrame DEF WorkersAt
  <2>2. CASE ~started
    <3>1. waiting' = {}
      BY <1>0, <1>2, <2>2 DEF SubmitExhausted, Spawned, WorkersAt
    <3>2. QED
      BY <3>1 DEF NoLostWakeup
  <2>3. QED
    BY <2>1, <2>2
<1>3. ASSUME NEW spawn \in SUBSET Workers, SpawnFails(spawn)
      PROVE  NoLostWakeup'
  BY <1>3 DEF SpawnFails, NoLostWakeup
<1>4. CASE NotifyOne
  <2>0. /\ notifies' = notifies - 1 /\ notifies > 0
        /\ UNCHANGED <<jobs, stopped>>
    BY <1>4 DEF NotifyOne
  <2>1. CASE waiting = {}
    <3>0. \A w \in Workers : pc[w] # "waiting"
      BY <2>1 DEF WorkersAt
    <3>1. UNCHANGED pc
      BY <1>4, <3>0 DEF NotifyOne
    <3>2. waiting' = {}
      BY <2>1, <3>1 DEF WorkersAt
    <3>3. QED
      BY <3>2 DEF NoLostWakeup
  <2>2. CASE waiting # {}
    <3>0. \E w \in Workers : pc[w] = "waiting"
      BY <2>2 DEF WorkersAt
    <3>1. PICK w \in Workers :
              pc[w] = "waiting" /\ pc' = [pc EXCEPT ![w] = "lock"]
      BY <1>4, <3>0 DEF NotifyOne
    <3>2. lock' = lock \cup {w} /\ w \notin lock
      BY <1>0, <3>1 DEF WorkersAt, TypeOK
    <3>3. Cardinality(lock') = Cardinality(lock) + 1
      BY <1>a, <3>2, FS_AddElement
    <3>4. QED
      BY <1>a, <2>0, <2>2, <3>3 DEF NoLostWakeup
  <2>3. QED
    BY <2>1, <2>2
<1>5. ASSUME NEW w \in Workers, Wait(w)
      PROVE  NoLostWakeup'
  <2>1. Cardinality(jobs') = 0
    BY <1>5, FS_EmptySet DEF Wait
  <2>2. notifies' \in Nat /\ Cardinality(lock') \in Nat
    BY <1>0, WorkersAssumption, FS_Subset, FS_CardinalityType
       DEF TypeOK, WorkersAt
  <2>3. QED
    BY <2>1, <2>2 DEF NoLostWakeup
<1>6. ASSUME NEW w \in Workers, SpuriousWake(w)
      PROVE  NoLostWakeup'
  <2>1. waiting' \subseteq waiting /\ lock \subseteq lock'
    BY <1>0, <1>6 DEF SpuriousWake, WorkersAt, TypeOK
  <2>2. QED
    BY <1>0, <1>6, <2>1, WakeupFrame DEF SpuriousWake
<1>7. ASSUME NEW w \in Workers, Exit(w)
      PROVE  NoLostWakeup'
  BY <1>7 DEF Exit, NoLostWakeup
<1>8. ASSUME NEW w \in Workers, Pop(w)
      PROVE  NoLostWakeup'
  <2>1. PICK id \in jobs : jobs' = jobs \ {id}
    BY <1>8 DEF Pop
  <2>2. Cardinality(jobs') = Cardinality(jobs) - 1
    BY <1>a, <2>1, FS_RemoveElement
  <2>3. lock' = lock \ {w} /\ w \in lock /\ waiting' = waiting
    BY <1>0, <1>8 DEF Pop, WorkersAt, TypeOK
  <2>4. Cardinality(lock') = Cardinality(lock) - 1
    BY <1>a, <2>3, FS_RemoveElement
  <2>5. UNCHANGED <<notifies, stopped>>
    BY <1>8 DEF Pop
  <2>6. QED
    BY <1>a, <2>2, <2>3, <2>4, <2>5 DEF NoLostWakeup
<1>9. ASSUME NEW e \in Executors, Send(e) \/ Wake(e)
      PROVE  NoLostWakeup'
  <2>1. waiting' \subseteq waiting /\ lock \subseteq lock'
    BY <1>0, <1>9 DEF Send, Wake, WorkersAt, TypeOK
  <2>2. QED
    BY <1>0, <1>9, <2>1, WakeupFrame DEF Send, Wake
<1>10. ASSUME NEW w \in Workers, Begin(w) \/ Finish(w)
       PROVE  NoLostWakeup'
  <2>1. waiting' \subseteq waiting /\ lock \subseteq lock'
    BY <1>0, <1>10 DEF Begin, Finish, WorkersAt, TypeOK
  <2>2. QED
    BY <1>0, <1>10, <2>1, WakeupFrame DEF Begin, Finish
<1>11. CASE DropPool
  BY <1>11 DEF DropPool, NoLostWakeup
<1>12. CASE NotifyAll \/ DrainOne \/ DropDone
  <2>1. waiting' \subseteq waiting /\ lock \subseteq lock'
    BY <1>0, <1>12, DropperAssumption
       DEF NotifyAll, DrainOne, DropDone, WorkersAt, TypeOK
  <2>2. QED
    BY <1>0, <1>12, <2>1, WakeupFrame DEF NotifyAll, DrainOne, DropDone
<1>13. CASE \/ \E s \in Scopes : CancelScope(s)
            \/ \E id \in Ids : TryRecv(id)
            \/ UNCHANGED vars
  <2>1. UNCHANGED <<pc, jobs, notifies, stopped>>
    BY <1>13 DEF CancelScope, TryRecv, vars
  <2>2. QED
    BY <1>0, <2>1, WakeupFrame DEF WorkersAt
<1>14. QED
  BY <1>1, <1>2, <1>3, <1>4, <1>5, <1>6, <1>7, <1>8, <1>9, <1>10, <1>11,
     <1>12, <1>13 DEF Next, WorkerStep, DropStep

\* Notifying after the unlock loses no wakeup, for any number of workers,
\* submitters and jobs.
THEOREM NoLostWakeupAlways == Spec => []NoLostWakeup
<1>1. Init => NoLostWakeup
  BY DropperAssumption DEF Init, NoLostWakeup, WorkersAt
<1>2. QED
  BY <1>1, IInvAlways, WakeupStep, PTL DEF Spec

-----------------------------------------------------------------------------
(***************************************************************************)
(* The drop of the pool.                                                   *)
(***************************************************************************)

\* Once the last handle is gone the pool is stopped, and the drop answers what
\* it took out of the heap with Cancelled.
Dropping ==
    /\ ~HasHandle => stopped
    /\ pc[Dropper] = "send" => result[Dropper] = "Cancelled"

DropInv == Dropping /\ NoSleeperAfterDrop

\* Workers only fall asleep while the pool is not stopped, so none does behind
\* the back of the drop's notify_all.
LEMMA DropStepInv == TypeOK /\ DropInv /\ [Next]_vars => DropInv'
<1> SUFFICES ASSUME TypeOK, DropInv, [Next]_vars
             PROVE  DropInv'
  OBVIOUS
<1> USE DropperAssumption DEF TypeOK, DropInv, Dropping, NoSleeperAfterDrop,
        WorkersAt
<1>1. ASSUME NEW p \in Priority, NEW s \in Scopes, NEW w \in BOOLEAN,
             Submit(p, s, w)
      PROVE  DropInv'
  BY <1>1 DEF Submit, Spawned
<1>2. CASE SubmitExhausted
  BY <1>2 DEF SubmitExhausted, Spawned
<1>3. ASSUME NEW spawn \in SUBSET Workers, SpawnFails(spawn)
      PROVE  DropInv'
  BY <1>3 DEF SpawnFails, Spawned
<1>4. CASE NotifyOne
  BY <1>4 DEF NotifyOne
<1>5. ASSUME NEW w \in Workers, Wait(w)
      PROVE  DropInv'
  BY <1>5 DEF Wait
<1>6. ASSUME NEW w \in Workers, SpuriousWake(w) \/ Exit(w)
      PROVE  DropInv'
  BY <1>6 DEF SpuriousWake, Exit
<1>7. ASSUME NEW w \in Workers, Pop(w)
      PROVE  DropInv'
  BY <1>7 DEF Pop
<1>8. ASSUME NEW w \in Workers, Begin(w)
      PROVE  DropInv'
  BY <1>8 DEF Begin
<1>9. ASSUME NEW w \in Workers, Finish(w)
      PROVE  DropInv'
  BY <1>9 DEF Finish
<1>10. ASSUME NEW e \in Executors, Send(e)
      PROVE  DropInv'
  BY <1>10 DEF Send
<1>11. ASSUME NEW e \in Executors, Wake(e)
      PROVE  DropInv'
  BY <1>11 DEF Wake
<1>12. CASE DropPool
  BY <1>12 DEF DropPool
<1>13. CASE NotifyAll
  BY <1>13 DEF NotifyAll
<1>14. CASE DrainOne
  BY <1>14 DEF DrainOne
<1>15. CASE DropDone
  BY <1>15 DEF DropDone
<1>16. CASE \/ \E s \in Scopes : CancelScope(s)
            \/ \E id \in Ids : TryRecv(id)
            \/ UNCHANGED vars
  BY <1>16 DEF CancelScope, TryRecv, vars
<1> HIDE DEF TypeOK, DropInv, JobInfo, WorkerPc, DropperPc
<1>17. QED
  BY <1>1, <1>2, <1>3, <1>4, <1>5, <1>6, <1>7, <1>8, <1>9, <1>10, <1>11,
     <1>12, <1>13, <1>14, <1>15, <1>16
     DEF Next, WorkerStep, DropStep

LEMMA DropInvAlways == Spec => []DropInv
<1>1. Init => DropInv
  BY DEF Init, DropInv, Dropping, NoSleeperAfterDrop
<1>2. QED
  BY <1>1, TypeCorrect, DropStepInv, PTL DEF Spec

\* Pool::drop leaves no worker asleep: once it has notified everyone, nobody
\* waits on the condition variable.
THEOREM NoSleeperAfterDropAlways == Spec => []NoSleeperAfterDrop
  BY DropInvAlways, PTL DEF DropInv

-----------------------------------------------------------------------------
(***************************************************************************)
(* Cancellation.                                                           *)
(***************************************************************************)

\* An accepted job whose scope is cancelled and that no worker runs.
Doomed(id) == id < nextId /\ IsCancelled(id) /\ ~Running(id)

\* A doomed job stays doomed: ids are not used twice, a scope is never revived,
\* and the closure reads the token before it runs the work.
LEMMA DoomedStep ==
    ASSUME NEW id \in Ids, IInv, Doomed(id), [Next]_vars
    PROVE  Doomed(id)'
<1>0. TypeOK
  BY DEF IInv
<1> USE DropperAssumption, IdLimitAssumption DEF Doomed, IsCancelled, Running, TypeOK
<1>1. ASSUME NEW p \in Priority, NEW s \in Scopes, NEW w \in BOOLEAN,
             Submit(p, s, w)
      PROVE  Doomed(id)'
  <2>1. id # nextId /\ id < nextId'
    BY <1>0, <1>1 DEF Submit
  <2>2. info'[id] = info[id] /\ live' = live
    BY <1>0, <1>1, <2>1 DEF Submit
  <2>3. work' = work /\ \A w2 \in Workers : pc'[w2] = "run" => pc[w2] = "run"
    BY <1>0, <1>1 DEF Submit, Spawned
  <2>4. QED
    BY <2>1, <2>2, <2>3
<1>2. CASE SubmitExhausted
  BY <1>0, <1>2 DEF SubmitExhausted, Spawned
<1>3. ASSUME NEW spawn \in SUBSET Workers, SpawnFails(spawn)
      PROVE  Doomed(id)'
  BY <1>0, <1>3 DEF SpawnFails, Spawned
<1>4. CASE NotifyOne
  BY <1>0, <1>4 DEF NotifyOne
<1>5. ASSUME NEW w \in Workers, Wait(w) \/ SpuriousWake(w) \/ Exit(w)
      PROVE  Doomed(id)'
  BY <1>0, <1>5 DEF Wait, SpuriousWake, Exit
<1>6. ASSUME NEW w \in Workers, Pop(w)
      PROVE  Doomed(id)'
  BY <1>0, <1>6 DEF Pop
<1>7. ASSUME NEW w \in Workers, Begin(w)
      PROVE  Doomed(id)'
  BY <1>0, <1>7 DEF Begin
<1>8. ASSUME NEW w \in Workers, Finish(w)
      PROVE  Doomed(id)'
  BY <1>0, <1>8 DEF Finish
<1>9. ASSUME NEW e \in Executors, Send(e)
      PROVE  Doomed(id)'
  BY <1>0, <1>9 DEF Send
<1>10. ASSUME NEW e \in Executors, Wake(e)
      PROVE  Doomed(id)'
  BY <1>0, <1>10 DEF Wake
<1>11. CASE DropPool \/ NotifyAll \/ DropDone
  BY <1>0, <1>11 DEF DropPool, NotifyAll, DropDone
<1>12. CASE DrainOne
  BY <1>0, <1>12 DEF DrainOne
<1>13. ASSUME NEW s \in Scopes, CancelScope(s)
      PROVE  Doomed(id)'
  BY <1>0, <1>13 DEF CancelScope
<1>14. CASE \/ \E i \in Ids : TryRecv(i)
            \/ UNCHANGED vars
  BY <1>0, <1>14 DEF TryRecv, vars
<1> HIDE DEF TypeOK, Doomed, JobInfo, WorkerPc, DropperPc
<1>15. QED
  BY <1>1, <1>2, <1>3, <1>4, <1>5, <1>6, <1>7, <1>8, <1>9, <1>10, <1>11,
     <1>12, <1>13, <1>14
     DEF Next, WorkerStep, DropStep

\* A job that waits in the heap while its scope is cancelled is never run, by
\* any worker, ever after.
THEOREM CancelledWaitingNeverRunsAlways == Spec => CancelledWaitingNeverRuns
<1> SUFFICES ASSUME NEW id \in Ids
             PROVE  Spec => [](id \in jobs /\ IsCancelled(id) => []~Running(id))
  BY DEF CancelledWaitingNeverRuns
<1>1. IInv /\ id \in jobs /\ IsCancelled(id) => Doomed(id)
  BY DEF IInv, OnePlace, Doomed, Running, Holds
<1>2. IInv /\ Doomed(id) /\ [Next]_vars => Doomed(id)'
  BY DoomedStep
<1>3. Doomed(id) => ~Running(id)
  BY DEF Doomed
<1>4. QED
  BY <1>1, <1>2, <1>3, IInvAlways, PTL DEF Spec

-----------------------------------------------------------------------------
(***************************************************************************)
(* The pool implements the job service.                                    *)
(***************************************************************************)

\* What the promise sees of the pool.
queuedBar  == jobs \cup taken \cup
                  {id \in Ids : pc[Dropper] = "send" /\ work[Dropper] = id}
runningBar == {id \in Ids : \E w \in Workers : Holds(w, id)}
closedBar  == ~HasHandle

RInv == IInv /\ Dropping

\* A step that moves no job, answers none and closes nothing is invisible.
LEMMA Invisible ==
    ASSUME UNCHANGED <<jobs, taken, outcome, info>>,
           runningBar' = runningBar, closedBar' = closedBar,
           pc[Dropper] = "send" <=> pc'[Dropper] = "send",
           work'[Dropper] = work[Dropper] \/ pc[Dropper] # "send"
    PROVE  UNCHANGED Promise!svars
  BY DEF Promise!svars, queuedBar, runningBar, closedBar

\* A worker that is about to take a job leaves room in the promise's limit:
\* the jobs being run are held by the other workers, one each.
LEMMA RoomForOne ==
    ASSUME RInv, NEW w \in Workers, pc[w] = "lock"
    PROVE  Cardinality(runningBar) < Cardinality(Workers)
<1>1. TypeOK /\ OnePlace
  BY DEF RInv, IInv
<1> DEFINE others == Workers \ {w}
           holder == [id \in runningBar |-> CHOOSE v \in Workers : Holds(v, id)]
<1>2. \A id \in runningBar : holder[id] \in Workers /\ Holds(holder[id], id)
  BY DEF runningBar
<1>3. \A id \in runningBar : holder[id] # w
  BY <1>2 DEF Holds
<1>4. holder \in [runningBar -> others]
  BY <1>2, <1>3
<1>5. \A i, j \in runningBar : holder[i] = holder[j] => i = j
  BY <1>2 DEF Holds
<1> HIDE DEF holder
<1>6. holder \in Injection(runningBar, others)
  BY <1>4, <1>5 DEF Injection, IsInjective
<1>7. /\ IsFiniteSet(others) /\ Cardinality(others) = Cardinality(Workers) - 1
      /\ Cardinality(Workers) \in Nat
  BY WorkersAssumption, FS_RemoveElement, FS_CardinalityType
<1>8. Cardinality(runningBar) <= Cardinality(others) /\ IsFiniteSet(runningBar)
  BY <1>6, <1>7, FS_Injection
<1>9. Cardinality(runningBar) \in Nat
  BY <1>8, FS_CardinalityType
<1>10. QED
  BY <1>7, <1>8, <1>9

\* Every step of the pool is a step of the job service or invisible to it.
LEMMA PromiseStep ==
    RInv /\ RInv' /\ [Next]_vars => [Promise!Next]_(Promise!svars)
<1> SUFFICES ASSUME RInv, RInv', [Next]_vars
             PROVE  [Promise!Next]_(Promise!svars)
  OBVIOUS
<1>0. TypeOK /\ OnePlace /\ Bookkeeping /\ Dropping /\ TypeOK' /\ OnePlace'
  BY DEF RInv, IInv
<1>1. ASSUME NEW p \in Priority, NEW s \in Scopes, NEW w \in BOOLEAN,
             Submit(p, s, w)
      PROVE  \E id \in Ids : Promise!Accept(id)
  <2>1. /\ HasHandle /\ HasHandle' /\ nextId \in Ids
        /\ jobs' = jobs \cup {nextId}
        /\ UNCHANGED <<taken, outcome, work>>
        /\ \A id \in Ids \ {nextId} : info'[id] = info[id]
    BY <1>0, <1>1, IdLimitAssumption, DropperAssumption
       DEF Submit, Spawned, TypeOK
  <2>2. \A e \in Executors, id \in Ids : Holds(e, id)' <=> Holds(e, id)
    BY <1>0, <1>1 DEF Submit, Spawned, Holds, Bookkeeping, TypeOK
  <2>3. runningBar' = runningBar
    BY <2>2 DEF runningBar
  <2>4. queuedBar' = queuedBar \cup {nextId}
    BY <2>1 DEF queuedBar
  <2>5. \A id \in Ids :
            id < nextId <=> id \in queuedBar \cup runningBar \/ outcome[id] # None
    BY <1>0, <2>1 DEF OnePlace, queuedBar, runningBar, Holds
  <2>6. PICK id \in Ids : id = nextId
    BY <2>1
  <2>7. Promise!Accept(id)
    BY <2>1, <2>3, <2>4, <2>5, <2>6
       DEF Promise!Accept, Promise!JobIds, queuedBar, runningBar
  <2>8. QED
    BY <2>7
<1>2. ASSUME NEW w \in Workers, Pop(w)
      PROVE  \E id \in Ids : Promise!Start(id)
  <2>1. PICK id \in jobs :
            /\ \A other \in jobs \ {id} : Outranks(id, other)
            /\ jobs' = jobs \ {id}
            /\ work' = [work EXCEPT ![w] = id]
    BY <1>2 DEF Pop
  <2>2. /\ pc[w] = "lock" /\ pc' = [pc EXCEPT ![w] = "claimed"]
        /\ HasHandle /\ HasHandle' /\ taken = {} /\ id \in Ids
        /\ UNCHANGED <<taken, outcome, info>>
    BY <1>0, <1>2, DropperAssumption DEF Pop, Dropping, Bookkeeping, TypeOK
  <2>3. \A v \in Workers, i \in Ids :
            Holds(v, i)' <=> Holds(v, i) \/ (v = w /\ i = id)
    BY <1>0, <2>1, <2>2 DEF Holds, TypeOK
  <2>4. runningBar' = runningBar \cup {id}
    BY <2>2, <2>3 DEF runningBar
  <2>5. queuedBar = jobs /\ queuedBar' = jobs'
    BY <2>2 DEF queuedBar
  <2>6. Cardinality(runningBar) < Cardinality(Workers)
    BY <2>2, RoomForOne
  <2>7. \A other \in queuedBar \ {id} : Promise!Better(id, other)
    BY <2>1, <2>5 DEF Promise!Better, Outranks
  <2>8. Promise!Start(id)
    BY <2>1, <2>2, <2>4, <2>5, <2>6, <2>7
       DEF Promise!Start, Promise!Cardinality, Cardinality, queuedBar, runningBar
  <2>9. QED
    BY <2>2, <2>8
<1>3. ASSUME NEW w \in Workers, Send(w)
      PROVE  \E id \in Ids, a \in Outcomes : Promise!Settle(id, a)
  <2>1. /\ pc[w] = "send" /\ pc' = [pc EXCEPT ![w] = "wake"]
        /\ outcome' = [outcome EXCEPT ![work[w]] = result[w]]
        /\ UNCHANGED <<jobs, taken, info, work>>
    BY <1>3 DEF Send
  <2>2. work[w] \in Ids /\ result[w] \in Outcomes /\ Holds(w, work[w])
    BY <1>0, <2>1 DEF Bookkeeping, TypeOK, Holds
  <2>3. \A v \in Workers, i \in Ids : Holds(v, i)' <=> Holds(v, i) /\ v # w
    BY <1>0, <2>1 DEF Holds, TypeOK
  <2>4. \A v \in Workers : Holds(v, work[w]) => v = w
    BY <1>0, <2>2 DEF OnePlace
  <2>5. \A i \in Ids : Holds(w, i) => i = work[w]
    BY <2>2 DEF Holds
  <2>6. work[w] \in runningBar /\ runningBar' = runningBar \ {work[w]}
    BY <2>2, <2>3, <2>4, <2>5 DEF runningBar
  <2>7. pc'[Dropper] = pc[Dropper]
    BY <1>0, <2>1, DropperAssumption DEF TypeOK
  <2>8. queuedBar' = queuedBar
    BY <2>1, <2>7 DEF queuedBar
  <2>9. PICK id \in Ids, a \in Outcomes : id = work[w] /\ a = result[w]
    BY <2>2
  <2>10. Promise!Settle(id, a)
    BY <2>1, <2>6, <2>7, <2>8, <2>9 DEF Promise!Settle, queuedBar, runningBar
  <2>11. QED
    BY <2>10
<1>4. CASE Send(Dropper)
  <2>1. /\ pc[Dropper] = "send" /\ pc' = [pc EXCEPT ![Dropper] = "wake"]
        /\ outcome' = [outcome EXCEPT ![work[Dropper]] = "Cancelled"]
        /\ UNCHANGED <<jobs, taken, info, work>>
    BY <1>0, <1>4 DEF Send, Dropping
  <2>2. work[Dropper] \in Ids /\ Holds(Dropper, work[Dropper])
    BY <1>0, <2>1 DEF Bookkeeping, TypeOK, Holds
  <2>3. runningBar' = runningBar
    <3>1. \A v \in Workers, i \in Ids : Holds(v, i)' <=> Holds(v, i)
      BY <1>0, <2>1, DropperAssumption DEF Holds, TypeOK
    <3>2. QED
      BY <3>1 DEF runningBar
  <2>4. work[Dropper] \notin jobs \cup taken
    BY <1>0, <2>2 DEF OnePlace
  <2>5. pc'[Dropper] = "wake"
    BY <1>0, <2>1 DEF TypeOK
  <2>6. work[Dropper] \in queuedBar /\ queuedBar' = queuedBar \ {work[Dropper]}
    BY <2>1, <2>2, <2>4, <2>5 DEF queuedBar
  <2>7. PICK id \in Ids : id = work[Dropper]
    BY <2>2
  <2>8. Promise!Refuse(id)
    BY <2>1, <2>3, <2>5, <2>6, <2>7 DEF Promise!Refuse, queuedBar, runningBar
  <2>9. QED
    BY <2>8 DEF Promise!Next, Promise!JobIds
<1>5. CASE DropPool
  <2>1. /\ HasHandle /\ pc'[Dropper] = "notify"
        /\ taken = {} /\ taken' = jobs /\ jobs' = {}
        /\ UNCHANGED <<work, outcome, info>>
        /\ \A w \in Workers : pc'[w] = pc[w]
    BY <1>0, <1>5, DropperAssumption DEF DropPool, Bookkeeping, TypeOK
  <2>2. runningBar' = runningBar
    BY <2>1 DEF runningBar, Holds
  <2>3. queuedBar' = queuedBar
    BY <2>1 DEF queuedBar
  <2>4. Promise!Close
    BY <2>1, <2>2, <2>3 DEF Promise!Close, queuedBar, runningBar
  <2>5. QED
    BY <2>4 DEF Promise!Next
<1>6. CASE DrainOne
  <2>1. PICK id \in taken :
            taken' = taken \ {id} /\ work' = [work EXCEPT ![Dropper] = id]
    BY <1>6 DEF DrainOne
  <2>2. /\ pc[Dropper] = "drain" /\ pc'[Dropper] = "send" /\ work'[Dropper] = id
        /\ UNCHANGED <<jobs, outcome, info>> /\ id \in Ids
        /\ \A w \in Workers : pc'[w] = pc[w] /\ work'[w] = work[w]
    BY <1>0, <1>6, <2>1, DropperAssumption DEF DrainOne, TypeOK
  <2>3. runningBar' = runningBar
    BY <2>2 DEF runningBar, Holds
  <2>4. queuedBar' = queuedBar
    BY <2>1, <2>2 DEF queuedBar
  <2>5. QED
    BY <2>2, <2>3, <2>4 DEF Promise!svars, queuedBar, runningBar
<1>7. ASSUME NEW w \in Workers, Begin(w) \/ Finish(w)
      PROVE  UNCHANGED Promise!svars
  <2>1. /\ UNCHANGED <<jobs, taken, outcome, info, work>>
        /\ pc[w] \in {"claimed", "run"} /\ pc'[w] \in {"run", "send"}
        /\ \A e \in Executors \ {w} : pc'[e] = pc[e]
    BY <1>0, <1>7 DEF Begin, Finish, TypeOK
  <2>2. \A e \in Executors, i \in Ids : Holds(e, i)' <=> Holds(e, i)
    BY <2>1 DEF Holds
  <2>3. runningBar' = runningBar
    BY <2>2 DEF runningBar
  <2>4. QED
    BY <2>1, <2>3, Invisible, DropperAssumption DEF closedBar
<1>8. ASSUME NEW e \in Executors, Wake(e)
      PROVE  UNCHANGED Promise!svars
  <2>1. /\ UNCHANGED <<jobs, taken, outcome, info>>
        /\ pc[e] = "wake" /\ pc'[e] \in {"lock", "drain"}
        /\ \A f \in Executors \ {e} : pc'[f] = pc[f] /\ work'[f] = work[f]
    BY <1>0, <1>8 DEF Wake, TypeOK
  <2>2. \A f \in Executors, i \in Ids : Holds(f, i)' <=> Holds(f, i)
    BY <2>1 DEF Holds
  <2>3. runningBar' = runningBar
    BY <2>2 DEF runningBar
  <2>4. QED
    BY <2>1, <2>3, Invisible DEF closedBar
<1>9. CASE SubmitExhausted \/ NotifyOne \/ NotifyAll \/ DropDone
  <2>1. UNCHANGED <<jobs, taken, outcome, info, work>>
    BY <1>9 DEF SubmitExhausted, NotifyOne, NotifyAll, DropDone
  <2>2. \A w \in Workers :
            pc'[w] = pc[w] \/ {pc[w], pc'[w]} \subseteq {"unspawned", "waiting", "lock"}
    BY <1>0, <1>9, DropperAssumption
       DEF SubmitExhausted, NotifyOne, NotifyAll, DropDone, Spawned, Bookkeeping, TypeOK
  <2>3. \/ pc'[Dropper] = pc[Dropper]
        \/ {pc[Dropper], pc'[Dropper]} \subseteq {"notify", "drain", "dropped"}
    BY <1>0, <1>9, DropperAssumption
       DEF SubmitExhausted, NotifyOne, NotifyAll, DropDone, Spawned, Bookkeeping, TypeOK
  <2>4. \A w \in Workers, i \in Ids : Holds(w, i)' <=> Holds(w, i)
    BY <2>1, <2>2 DEF Holds
  <2>5. runningBar' = runningBar
    BY <2>4 DEF runningBar
  <2>6. QED
    BY <2>1, <2>3, <2>5, Invisible DEF closedBar
<1>10. ASSUME NEW spawn \in SUBSET Workers, SpawnFails(spawn)
      PROVE  UNCHANGED Promise!svars
  <2>1. UNCHANGED <<jobs, taken, outcome, info, work>> /\ pc'[Dropper] = pc[Dropper]
    BY <1>10, DropperAssumption DEF SpawnFails, Spawned
  <2>2. \A w \in Workers : {pc[w], pc'[w]} \subseteq {"unspawned", "lock"}
    BY <1>0, <1>10, DropperAssumption DEF SpawnFails, Spawned, Bookkeeping, TypeOK
  <2>3. \A w \in Workers, i \in Ids : Holds(w, i)' <=> Holds(w, i)
    BY <2>1, <2>2 DEF Holds
  <2>4. runningBar' = runningBar
    BY <2>3 DEF runningBar
  <2>5. QED
    BY <2>1, <2>4, Invisible DEF closedBar
<1>11. ASSUME NEW w \in Workers, Wait(w) \/ SpuriousWake(w) \/ Exit(w)
      PROVE  UNCHANGED Promise!svars
  <2>1. /\ UNCHANGED <<jobs, taken, outcome, info, work>>
        /\ pc[w] \in {"lock", "waiting"} /\ pc'[w] \in {"lock", "waiting", "exited"}
        /\ \A e \in Executors \ {w} : pc'[e] = pc[e]
    BY <1>0, <1>11 DEF Wait, SpuriousWake, Exit, TypeOK
  <2>2. \A e \in Executors, i \in Ids : Holds(e, i)' <=> Holds(e, i)
    BY <2>1 DEF Holds
  <2>3. runningBar' = runningBar
    BY <2>2 DEF runningBar
  <2>4. QED
    BY <2>1, <2>3, Invisible, DropperAssumption DEF closedBar
<1>12. CASE \/ \E s \in Scopes : CancelScope(s)
            \/ \E id \in Ids : TryRecv(id)
            \/ UNCHANGED vars
  <2>1. UNCHANGED <<jobs, taken, outcome, info, work, pc>>
    BY <1>12 DEF CancelScope, TryRecv, vars
  <2>2. runningBar' = runningBar
    BY <2>1 DEF runningBar, Holds
  <2>3. QED
    BY <2>1, <2>2, Invisible DEF closedBar
<1>13. ASSUME NEW id \in Ids
      PROVE  /\ Promise!Accept(id) \/ Promise!Start(id) => Promise!Next
             /\ \A a \in Outcomes : Promise!Settle(id, a) => Promise!Next
  BY DEF Promise!Next, Promise!JobIds, Promise!Answers
<1>14. QED
  BY <1>1, <1>2, <1>3, <1>4, <1>5, <1>6, <1>7, <1>8, <1>9, <1>10, <1>11,
     <1>12, <1>13 DEF Next, WorkerStep, DropStep

\* The threads, the mutex and the condition variable implement the job
\* service: the best waiting job first, at most `workers` at once, exactly one
\* answer for each job, and nothing started after the drop.
THEOREM PoolKeepsPromise == Spec => Promise!Spec
<1>1. Init => Promise!Init
  <2>1. ASSUME Init
        PROVE  /\ queuedBar = {} /\ runningBar = {} /\ closedBar = FALSE
               /\ outcome = [id \in Ids |-> None]
    <3>1. \A e \in Executors : pc[e] \in {"handles", "unspawned"}
      BY <2>1 DEF Init
    <3>2. QED
      BY <2>1, <3>1, DropperAssumption
         DEF Init, queuedBar, runningBar, closedBar, Holds
  <2>2. Init => info \in [Ids -> JobInfo]
    BY TypeInit DEF TypeOK
  <2>3. QED
    BY <2>1, <2>2 DEF Promise!Init, Promise!JobIds, queuedBar, runningBar, closedBar
<1>2. RInv /\ RInv' /\ [Next]_vars => [Promise!Next]_(Promise!svars)
  BY PromiseStep
<1>3. QED
  BY <1>1, <1>2, IInvAlways, DropInvAlways, PTL
     DEF Spec, RInv, DropInv, Promise!Spec
=============================================================================
