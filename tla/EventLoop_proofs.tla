--------------------------- MODULE EventLoop_proofs ---------------------------
(***************************************************************************)
(* Proofs about the event loop, for any workload: tasks run in the order   *)
(* of their enqueueing and the order never disagrees with the queues,      *)
(* timers fire in the order of their times and timeouts once, a destroyed  *)
(* document leaves nothing behind, and next_timer_delay_ms is exact.       *)
(***************************************************************************)
EXTENDS EventLoop, Orderings_proofs

\* Lists in which the ids, or the fire times, go up.
ById    == {p \in Tasks \X Tasks : p[1].id < p[2].id}
ByEntry == {p \in Entries \X Entries : p[1].id < p[2].id}
ByDue   == {p \in Tasks \X Tasks : p[1].due <= p[2].due}

\* The ids waiting in the queue of source s, and in the order for s.
QueueIds(s) == {t.id : t \in ToSet(queues[s])}
OrderIds(s) == {e.id : e \in {x \in ToSet(order) : x.source = s}}

\* The order and the queues hold the same ids, each going up.
QueueInv ==
    /\ \A s \in Sources : \A t \in ToSet(queues[s]) :
          SourceOf(t.kind) = s /\ t.id < nextTask
    /\ \A s \in Sources : \A i, j \in DOMAIN queues[s] :
          i < j => <<queues[s][i], queues[s][j]>> \in ById
    /\ \A i, j \in DOMAIN order : i < j => <<order[i], order[j]>> \in ByEntry
    /\ \A e \in ToSet(order) : lastRun < e.id
    /\ lastRun < nextTask
    /\ \A s \in Sources : QueueIds(s) = OrderIds(s)

\* Timers wait for times to come, their tasks are for times that have come; a
\* waiting timeout has no task and was not run.
TimerInv ==
    /\ \A t \in timers : now <= t.next /\ t.id \in 1 .. (nextTimer - 1)
    /\ \A t, u \in timers : t.id = u.id => t = u
    /\ lastDue <= now
    /\ \A i, j \in DOMAIN queues["Timer"] :
          i < j => <<queues["Timer"][i], queues["Timer"][j]>> \in ByDue
    /\ \A t \in ToSet(queues["Timer"]) : lastDue <= t.due /\ t.due <= now
    /\ \A t \in QueuedTasks : t.timer < nextTimer /\ (t.timer # 0 => t.kind = "timer")
    /\ \A id \in fired : id < nextTimer
    /\ \A t \in timers :
          ~t.repeat => t.id \notin fired /\ \A u \in QueuedTasks : u.timer # t.id

IInv == TypeOK /\ QueueInv /\ TimerInv /\ NothingOfRetired

-----------------------------------------------------------------------------
(***************************************************************************)
(* The queues and the order.                                               *)
(***************************************************************************)

\* The part of the invariant that is about tasks.
Queued ==
    /\ nextTask \in 1..(load.tasks + 1)
    /\ queues \in [Sources -> Seq(Tasks)] /\ order \in Seq(Entries)
    /\ lastRun \in Nat
    /\ QueueInv

LEMMA SourceFacts ==
    /\ \A kind \in Kinds : SourceOf(kind) \in Sources
    /\ \A kind \in Kinds : SourceOf(kind) = "Timer" <=> kind = "timer"
    /\ SourceOf("navigation") = "Navigation"
    /\ "Timer" \in Sources /\ "Navigation" \in Sources
  BY DEF SourceOf, Sources, Kinds

LEMMA LoadFacts ==
    ASSUME load \in Workloads
    PROVE  /\ load.tasks \in Nat /\ load.timers \in Nat /\ load.frames \in Nat
           /\ load.time \in Nat /\ load.delays \subseteq Nat
           /\ load.docs \subseteq Documents /\ load.nodes \subseteq Nodes
           /\ None \in Documents /\ None \in Nodes /\ load.kinds \subseteq Kinds
           /\ None \notin load.docs
  BY WorkloadsAssumption DEF Documents, Nodes, Kinds

\* An id names one task.
LEMMA UniqueIds ==
    ASSUME Queued, NEW r \in Sources, NEW s \in Sources,
           NEW t \in ToSet(queues[r]), NEW u \in ToSet(queues[s]), t.id = u.id
    PROVE  t = u /\ r = s
<1>1. t.id \in OrderIds(r) /\ u.id \in OrderIds(s)
  BY DEF Queued, QueueInv, QueueIds
<1>2. PICK d \in ToSet(order), e \in ToSet(order) :
          d.source = r /\ e.source = s /\ d.id = t.id /\ e.id = u.id
  BY <1>1 DEF OrderIds
<1>3. order \in Seq(Entries)
  BY DEF Queued
<1>4. PICK i \in DOMAIN order, j \in DOMAIN order : order[i] = d /\ order[j] = e
  BY InToSet
<1>5. i \in Nat /\ j \in Nat /\ d.id \in Nat /\ e.id \in Nat
  <2>1. i \in Nat /\ j \in Nat /\ order[i] \in Entries /\ order[j] \in Entries
    BY <1>3
  <2>2. QED
    BY <1>4, <2>1 DEF Entries
<1>6. (i < j => d.id < e.id) /\ (j < i => e.id < d.id)
  BY <1>4 DEF Queued, QueueInv, ByEntry
<1>7. i = j
  BY <1>2, <1>5, <1>6
<1>8. r = s
  BY <1>2, <1>4, <1>7
<1>9. PICK k \in DOMAIN queues[r], l \in DOMAIN queues[r] :
          queues[r][k] = t /\ queues[r][l] = u
  BY <1>8, InToSet
<1>10. queues[r] \in Seq(Tasks)
  BY DEF Queued
<1>11. k \in Nat /\ l \in Nat /\ t.id \in Nat /\ u.id \in Nat
  <2>1. k \in Nat /\ l \in Nat /\ queues[r][k] \in Tasks /\ queues[r][l] \in Tasks
    BY <1>10
  <2>2. QED
    BY <1>9, <2>1 DEF Tasks
<1>12. (k < l => t.id < u.id) /\ (l < k => u.id < t.id)
  BY <1>9 DEF Queued, QueueInv, ById
<1>13. k = l
  BY <1>11, <1>12
<1>14. QED
  BY <1>8, <1>9, <1>13

\* Tasks enqueued on a source follow everything that waits.
LEMMA EnqueueKeeps ==
    ASSUME Queued, load \in Workloads, NEW source \in Sources, NEW tasks \in Seq(Tasks),
           \A i \in 1 .. Len(tasks) : SourceOf(tasks[i].kind) = source,
           EnqueueAll(source, tasks), nextTask + Len(tasks) <= load.tasks + 1,
           UNCHANGED <<load, lastRun>>
    PROVE  /\ Queued'
           /\ order' = <<>> <=> order = <<>> /\ tasks = <<>>
           /\ \E new \in Seq(Tasks) :
                 /\ Len(new) = Len(tasks)
                 /\ \A i \in 1 .. Len(tasks) :
                       /\ new[i].kind = tasks[i].kind /\ new[i].owner = tasks[i].owner
                       /\ new[i].timer = tasks[i].timer /\ new[i].due = tasks[i].due
                 /\ queues'[source] = queues[source] \o new
                 /\ ToSet(queues'[source]) = ToSet(queues[source]) \cup ToSet(new)
                 /\ \A s \in Sources \ {source} : queues'[s] = queues[s]
<1> DEFINE n == Len(tasks)
           new == [i \in 1 .. n |-> [tasks[i] EXCEPT !.id = nextTask + i - 1]]
           entries == [i \in 1 .. n |-> Entry(new[i])]
<1>0. /\ nextTask \in Nat /\ nextTask > 0 /\ n \in Nat /\ load.tasks \in Nat
      /\ queues \in [Sources -> Seq(Tasks)] /\ order \in Seq(Entries)
  BY LoadFacts DEF Queued
<1>1. /\ queues' = [queues EXCEPT ![source] = @ \o new]
      /\ order' = order \o entries
      /\ nextTask' = nextTask + n
  BY DEF EnqueueAll
<1>2. \A i \in 1 .. n :
          /\ new[i] \in Tasks /\ new[i].id = nextTask + i - 1
          /\ new[i].kind = tasks[i].kind /\ new[i].owner = tasks[i].owner
          /\ new[i].timer = tasks[i].timer /\ new[i].due = tasks[i].due
  <2> TAKE i \in 1 .. n
  <2>1. tasks[i] \in Tasks
    OBVIOUS
  <2>2. PICK id \in Nat : id = nextTask + i - 1
    BY <1>0
  <2>3. new[i] = [tasks[i] EXCEPT !.id = id]
    BY <2>2
  <2>4. QED
    BY <2>1, <2>2, <2>3 DEF Tasks
<1>3. \A i \in 1 .. n :
          /\ entries[i] \in Entries /\ entries[i].id = nextTask + i - 1
          /\ entries[i].source = source
  <2> TAKE i \in 1 .. n
  <2>1. new[i].id \in Nat /\ SourceOf(new[i].kind) = source
    BY <1>2 DEF Tasks
  <2>2. QED
    BY <1>2, <2>1 DEF Entry, Entries
<1>4. /\ new \in Seq(Tasks) /\ Len(new) = n /\ DOMAIN new = 1 .. n
      /\ entries \in Seq(Entries) /\ Len(entries) = n /\ DOMAIN entries = 1 .. n
  BY <1>0, <1>2, <1>3
<1> HIDE DEF new, entries
<1>5. \A i, j \in 1 .. n : i < j => nextTask + i - 1 < nextTask + j - 1
  BY <1>0
<1>6. \A i \in 1 .. n : nextTask <= nextTask + i - 1 /\ nextTask + i - 1 < nextTask + n
  BY <1>0
<1>7. \A x \in ToSet(new) :
          /\ x \in Tasks /\ nextTask <= x.id /\ x.id < nextTask + n
          /\ SourceOf(x.kind) = source
  <2> TAKE x \in ToSet(new)
  <2>1. PICK i \in 1 .. n : new[i] = x
    BY <1>4, InToSet
  <2>2. QED
    BY <1>2, <1>6, <2>1
<1>8. \A x \in ToSet(entries) :
          /\ x \in Entries /\ nextTask <= x.id /\ x.source = source
  <2> TAKE x \in ToSet(entries)
  <2>1. PICK i \in 1 .. n : entries[i] = x
    BY <1>4, InToSet
  <2>2. QED
    BY <1>3, <1>6, <2>1
<1>9. \A s \in Sources : queues[s] \in Seq(Tasks) /\ \A x \in ToSet(queues[s]) : x \in Tasks
  BY <1>0, InToSet
<1>10. \A x \in ToSet(order) : x \in Entries
  BY <1>0, InToSet
<1>11. /\ queues[source] \o new \in Seq(Tasks)
       /\ ToSet(queues[source] \o new) = ToSet(queues[source]) \cup ToSet(new)
       /\ \A i, j \in DOMAIN (queues[source] \o new) :
             i < j => <<(queues[source] \o new)[i], (queues[source] \o new)[j]>> \in ById
  <2>1. \A i, j \in DOMAIN new : i < j => <<new[i], new[j]>> \in ById
    BY <1>2, <1>4, <1>5 DEF ById
  <2>2. \A x \in ToSet(queues[source]), y \in ToSet(new) : <<x, y>> \in ById
    <3> TAKE x \in ToSet(queues[source]), y \in ToSet(new)
    <3>1. x \in Tasks /\ y \in Tasks /\ x.id < nextTask /\ nextTask <= y.id
      BY <1>7, <1>9 DEF Queued, QueueInv
    <3>2. x.id < y.id
      BY <1>0, <3>1 DEF Tasks
    <3>3. QED
      BY <3>1, <3>2 DEF ById
  <2>3. \A i, j \in DOMAIN queues[source] :
            i < j => <<queues[source][i], queues[source][j]>> \in ById
    BY DEF Queued, QueueInv
  <2>4. queues[source] \in Seq(Tasks)
    BY <1>9
  <2>5. QED
    BY <1>4, <2>1, <2>2, <2>3, <2>4, ConcatOrder
<1>12. /\ order' \in Seq(Entries) /\ ToSet(order') = ToSet(order) \cup ToSet(entries)
       /\ \A i, j \in DOMAIN order' : i < j => <<order'[i], order'[j]>> \in ByEntry
  <2>1. \A i, j \in DOMAIN entries : i < j => <<entries[i], entries[j]>> \in ByEntry
    BY <1>3, <1>4, <1>5 DEF ByEntry
  <2>2. \A x \in ToSet(order), y \in ToSet(entries) : <<x, y>> \in ByEntry
    <3> TAKE x \in ToSet(order), y \in ToSet(entries)
    <3>1. x.source \in Sources /\ x \in Entries /\ y \in Entries /\ nextTask <= y.id
      BY <1>8, <1>10 DEF Entries
    <3>2. x.id \in QueueIds(x.source)
      BY <3>1 DEF Queued, QueueInv, OrderIds
    <3>3. x.id < nextTask
      BY <3>1, <3>2 DEF Queued, QueueInv, QueueIds
    <3>4. x.id < y.id
      BY <1>0, <3>1, <3>3 DEF Entries
    <3>5. QED
      BY <3>1, <3>4 DEF ByEntry
  <2>3. \A i, j \in DOMAIN order : i < j => <<order[i], order[j]>> \in ByEntry
    BY DEF Queued, QueueInv
  <2>4. QED
    BY <1>0, <1>1, <1>4, <2>1, <2>2, <2>3, ConcatOrder
<1>13. /\ queues' \in [Sources -> Seq(Tasks)]
       /\ queues'[source] = queues[source] \o new
       /\ \A s \in Sources \ {source} : queues'[s] = queues[s]
  BY <1>0, <1>1, <1>11
<1>14. QueueInv'
  <2>1. ASSUME NEW s \in Sources, NEW x \in ToSet(queues'[s])
        PROVE  SourceOf(x.kind) = s /\ x.id < nextTask'
    <3>1. CASE x \in ToSet(queues[s])
      <4>1. SourceOf(x.kind) = s /\ x.id < nextTask /\ x.id \in Nat
        BY <1>9, <3>1 DEF Queued, QueueInv, Tasks
      <4>2. QED
        BY <1>0, <1>1, <4>1
    <3>2. CASE x \in ToSet(new) /\ s = source
      BY <1>1, <1>7, <3>2
    <3>3. QED
      BY <1>11, <1>13, <3>1, <3>2
  <2>2. \A s \in Sources : \A i, j \in DOMAIN queues'[s] :
            i < j => <<queues'[s][i], queues'[s][j]>> \in ById
    BY <1>11, <1>13 DEF Queued, QueueInv
  <2>3. \A e \in ToSet(order') : lastRun < e.id
    <3>1. lastRun \in Nat /\ lastRun < nextTask
      BY DEF Queued, QueueInv
    <3>2. \A e \in ToSet(entries) : lastRun < e.id
      BY <1>0, <1>8, <3>1 DEF Entries
    <3>3. QED
      BY <1>12, <3>2 DEF Queued, QueueInv
  <2>4. lastRun < nextTask'
    <3>1. lastRun \in Nat /\ lastRun < nextTask
      BY DEF Queued, QueueInv
    <3>2. QED
      BY <1>0, <1>1, <3>1
  <2>5. ASSUME NEW s \in Sources
        PROVE  QueueIds(s)' = OrderIds(s)'
    <3>1. QueueIds(s) = OrderIds(s)
      BY DEF Queued, QueueInv
    <3>2. CASE s # source
      <4>1. QueueIds(s)' = QueueIds(s)
        BY <1>13, <3>2 DEF QueueIds
      <4>2. OrderIds(s)' = OrderIds(s)
        BY <1>8, <1>12, <3>2 DEF OrderIds
      <4>3. QED
        BY <3>1, <4>1, <4>2
    <3>3. CASE s = source
      <4>1. QueueIds(s)' = QueueIds(s) \cup {x.id : x \in ToSet(new)}
        BY <1>11, <1>13, <3>3 DEF QueueIds
      <4>2. OrderIds(s)' = OrderIds(s) \cup {x.id : x \in ToSet(entries)}
        BY <1>8, <1>12, <3>3 DEF OrderIds
      <4>3. {x.id : x \in ToSet(new)} = {x.id : x \in ToSet(entries)}
        <5>1. ASSUME NEW x \in ToSet(new)
              PROVE  \E y \in ToSet(entries) : y.id = x.id
          <6>1. PICK i \in 1 .. n : new[i] = x
            BY <1>4, InToSet
          <6>2. entries[i] \in ToSet(entries) /\ entries[i].id = x.id
            BY <1>2, <1>3, <1>4, <6>1, InToSet
          <6>3. QED
            BY <6>2
        <5>2. ASSUME NEW y \in ToSet(entries)
              PROVE  \E x \in ToSet(new) : y.id = x.id
          <6>1. PICK i \in 1 .. n : entries[i] = y
            BY <1>4, InToSet
          <6>2. new[i] \in ToSet(new) /\ new[i].id = y.id
            BY <1>2, <1>3, <1>4, <6>1, InToSet
          <6>3. QED
            BY <6>2
        <5>3. QED
          BY <5>1, <5>2
      <4>4. QED
        BY <3>1, <4>1, <4>2, <4>3
    <3>4. QED
      BY <3>2, <3>3
  <2>6. QED
    BY <1>12, <2>1, <2>2, <2>3, <2>4, <2>5 DEF QueueInv
<1>15. nextTask' \in 1 .. (load.tasks + 1)'
  BY <1>0, <1>1
<1>16. Queued'
  BY <1>12, <1>13, <1>14, <1>15 DEF Queued
<1>17. order' = <<>> <=> order = <<>> /\ tasks = <<>>
  BY <1>0, <1>1, <1>4
<1>18. QED
  BY <1>2, <1>4, <1>11, <1>13, <1>16, <1>17

\* A step that removes the tasks in `gone` from their queues, and exactly their
\* ids from the order.
Removes(gone) ==
    /\ queues' \in [Sources -> Seq(Tasks)] /\ order' \in Seq(Entries)
    /\ \A s \in Sources : ToSet(queues'[s]) = ToSet(queues[s]) \ gone
    /\ \A s \in Sources : \A R :
          (\A i, j \in DOMAIN queues[s] : i < j => <<queues[s][i], queues[s][j]>> \in R) =>
          (\A i, j \in DOMAIN queues'[s] : i < j => <<queues'[s][i], queues'[s][j]>> \in R)
    /\ ToSet(order') = {e \in ToSet(order) : e.id \notin {t.id : t \in gone}}
    /\ \A i, j \in DOMAIN order' : i < j => <<order'[i], order'[j]>> \in ByEntry
    /\ UNCHANGED <<load, nextTask>>

LEMMA RemoveKeeps ==
    ASSUME Queued, NEW gone \in SUBSET QueuedTasks, Removes(gone),
           lastRun' \in Nat, lastRun' < nextTask, \A e \in ToSet(order') : lastRun' < e.id
    PROVE  Queued'
<1> DEFINE ids == {t.id : t \in gone}
<1>0. /\ UNCHANGED <<load, nextTask>>
      /\ \A s \in Sources : ToSet(queues'[s]) = ToSet(queues[s]) \ gone
      /\ ToSet(order') = {e \in ToSet(order) : e.id \notin ids}
      /\ queues' \in [Sources -> Seq(Tasks)] /\ order' \in Seq(Entries)
  BY DEF Removes
<1>1. \A s \in Sources : \A t \in ToSet(queues'[s]) : SourceOf(t.kind) = s /\ t.id < nextTask'
  BY <1>0 DEF Queued, QueueInv
<1>2. \A s \in Sources : \A i, j \in DOMAIN queues'[s] :
          i < j => <<queues'[s][i], queues'[s][j]>> \in ById
  BY DEF Queued, QueueInv, Removes
<1>3. ASSUME NEW s \in Sources
      PROVE  QueueIds(s)' = OrderIds(s)'
  <2>1. QueueIds(s) = OrderIds(s)
    BY DEF Queued, QueueInv
  <2>2. ASSUME NEW t \in ToSet(queues[s]) \ gone
        PROVE  t.id \in OrderIds(s)'
    <3>1. PICK e \in ToSet(order) : e.source = s /\ e.id = t.id
      BY <2>1 DEF QueueIds, OrderIds
    <3>2. ASSUME NEW g \in gone, g.id = t.id
          PROVE  FALSE
      <4>1. PICK r \in Sources : g \in ToSet(queues[r])
        BY DEF QueuedTasks
      <4>2. g = t
        BY <3>2, <4>1, UniqueIds
      <4>3. QED
        BY <4>2
    <3>3. e \in ToSet(order')
      BY <1>0, <3>1, <3>2
    <3>4. QED
      BY <3>1, <3>3 DEF OrderIds
  <2>3. ASSUME NEW e \in ToSet(order'), e.source = s
        PROVE  e.id \in QueueIds(s)'
    <3>1. e \in ToSet(order) /\ e.id \notin ids
      BY <1>0
    <3>2. PICK t \in ToSet(queues[s]) : t.id = e.id
      BY <2>1, <2>3, <3>1 DEF QueueIds, OrderIds
    <3>3. t \in ToSet(queues'[s])
      BY <1>0, <3>1, <3>2
    <3>4. QED
      BY <3>2, <3>3 DEF QueueIds
  <2>4. \A x \in QueueIds(s)' : x \in OrderIds(s)'
    BY <1>0, <2>2 DEF QueueIds
  <2>5. \A x \in OrderIds(s)' : x \in QueueIds(s)'
    BY <2>3 DEF OrderIds
  <2>6. QED
    BY <2>4, <2>5
<1>4. QueueInv'
  BY <1>0, <1>1, <1>2, <1>3 DEF QueueInv, Removes
<1>5. QED
  BY <1>0, <1>4 DEF Queued

LEMMA CancelRemoves ==
    ASSUME Queued, NEW gone \in SUBSET QueuedTasks, Cancel(gone),
           UNCHANGED <<load, nextTask>>
    PROVE  Removes(gone)
<1> DEFINE ids == {t.id : t \in gone}
           stay == {e \in ToSet(order) : e.id \notin ids}
<1>1. /\ queues' = [s \in Sources |-> Keep(queues[s], ToSet(queues[s]) \ gone)]
      /\ order' = Keep(order, stay)
  BY DEF Cancel
<1>2. queues \in [Sources -> Seq(Tasks)] /\ order \in Seq(Entries)
  BY DEF Queued
<1>3. ASSUME NEW s \in Sources
      PROVE  /\ queues'[s] \in Seq(Tasks) /\ ToSet(queues'[s]) = ToSet(queues[s]) \ gone
             /\ \A R :
                   (\A i, j \in DOMAIN queues[s] : i < j => <<queues[s][i], queues[s][j]>> \in R) =>
                   (\A i, j \in DOMAIN queues'[s] : i < j => <<queues'[s][i], queues'[s][j]>> \in R)
  <2> DEFINE S == ToSet(queues[s]) \ gone
  <2>1. queues'[s] = Keep(queues[s], S) /\ queues[s] \in Seq(Tasks)
    BY <1>1, <1>2
  <2>2. S = ToSet(queues[s]) \cap S
    OBVIOUS
  <2> HIDE DEF S
  <2>3. queues'[s] \in Seq(Tasks) /\ ToSet(queues'[s]) = S
    <3>1. PICK q \in Seq(Tasks) : q = queues[s]
      BY <2>1
    <3>2. Keep(q, S) \in Seq(Tasks) /\ ToSet(Keep(q, S)) = ToSet(q) \cap S
      BY KeepFacts
    <3>3. QED
      BY <2>1, <2>2, <3>1, <3>2
  <2>4. ASSUME NEW R, \A i, j \in DOMAIN queues[s] : i < j => <<queues[s][i], queues[s][j]>> \in R
        PROVE  \A i, j \in DOMAIN queues'[s] : i < j => <<queues'[s][i], queues'[s][j]>> \in R
    BY <2>1, <2>4, KeepOrder
  <2>5. QED
    BY <2>3, <2>4 DEF S
<1>4. /\ order' \in Seq(Entries) /\ ToSet(order') = stay
      /\ \A i, j \in DOMAIN order' : i < j => <<order'[i], order'[j]>> \in ByEntry
  <2>1. stay = ToSet(order) \cap stay
    OBVIOUS
  <2>2. \A i, j \in DOMAIN order : i < j => <<order[i], order[j]>> \in ByEntry
    BY DEF Queued, QueueInv
  <2> HIDE DEF stay
  <2>3. QED
    BY <1>1, <1>2, <2>1, <2>2, KeepFacts, KeepOrder
<1>5. queues' \in [Sources -> Seq(Tasks)]
  BY <1>1, <1>3
<1>6. QED
  BY <1>3, <1>4, <1>5 DEF Removes

\* The assertion in pop_task: the head of the order and the head of its
\* source's queue have the same id.
LEMMA PopTaskRemoves ==
    ASSUME Queued, PopTask, load' = load
    PROVE  \E source \in Sources : \E task \in ToSet(queues[source]) :
              /\ task = Head(queues[source]) /\ queues[source] # <<>>
              /\ Removes({task}) /\ lastRun' = task.id /\ task \in Tasks
              /\ Queued'
              /\ queues'[source] = Tail(queues[source])
              /\ \A s \in Sources \ {source} : queues'[s] = queues[s]
              /\ lastDue' = IF task.timer # 0 THEN task.due ELSE lastDue
              /\ fired' = IF task.timer # 0 THEN fired \cup {task.timer} ELSE fired
<1>1. queues \in [Sources -> Seq(Tasks)] /\ order \in Seq(Entries) /\ order # <<>>
  BY DEF Queued, PopTask
<1>2. PICK first \in Entries : first = Head(order)
  BY <1>1
<1>3. PICK source \in Sources : source = first.source
  BY DEF Entries
<1>4. queues[source] \in Seq(Tasks) /\ queues[source] # <<>>
  BY <1>1, <1>2, <1>3 DEF PopTask
<1>5. PICK task \in Tasks : task = Head(queues[source])
  BY <1>4
<1>6. /\ queues' = [queues EXCEPT ![source] = Tail(@)]
      /\ order' = Tail(order) /\ lastRun' = task.id /\ nextTask' = nextTask
      /\ lastDue' = IF task.timer # 0 THEN task.due ELSE lastDue
      /\ fired' = IF task.timer # 0 THEN fired \cup {task.timer} ELSE fired
  BY <1>2, <1>3, <1>5 DEF PopTask
<1>7. /\ order' \in Seq(Entries) /\ first \in ToSet(order)
      /\ ToSet(order) = ToSet(order') \cup {first}
      /\ \A i, j \in DOMAIN order' : i < j => <<order'[i], order'[j]>> \in ByEntry
      /\ \A x \in ToSet(order') : <<first, x>> \in ByEntry
  <2>1. \A i, j \in DOMAIN order : i < j => <<order[i], order[j]>> \in ByEntry
    BY DEF Queued, QueueInv
  <2>2. QED
    BY <1>1, <1>2, <1>6, <2>1, TailOrder
<1>8. /\ queues'[source] = Tail(queues[source]) /\ queues'[source] \in Seq(Tasks)
      /\ task \in ToSet(queues[source])
      /\ ToSet(queues[source]) = ToSet(queues'[source]) \cup {task}
      /\ \A x \in ToSet(queues'[source]) : <<task, x>> \in ById
      /\ \A R :
            (\A i, j \in DOMAIN queues[source] :
                i < j => <<queues[source][i], queues[source][j]>> \in R) =>
            (\A i, j \in DOMAIN queues'[source] :
                i < j => <<queues'[source][i], queues'[source][j]>> \in R)
  <2>1. \A i, j \in DOMAIN queues[source] :
            i < j => <<queues[source][i], queues[source][j]>> \in ById
    BY DEF Queued, QueueInv
  <2>2. queues'[source] = Tail(queues[source])
    BY <1>1, <1>6
  <2>3. QED
    BY <1>4, <1>5, <2>1, <2>2, TailOrder
<1>9. task.id = first.id
  <2>1. QueueIds(source) = OrderIds(source)
    BY DEF Queued, QueueInv
  <2>2. PICK t \in ToSet(queues[source]) : t.id = first.id
    BY <1>3, <1>7, <2>1 DEF QueueIds, OrderIds
  <2>3. PICK e \in ToSet(order) : e.id = task.id
    BY <1>8, <2>1 DEF QueueIds, OrderIds
  <2>4. task.id = t.id \/ task.id < t.id
    BY <1>8 DEF ById
  <2>5. first.id = e.id \/ first.id < e.id
    BY <1>7 DEF ByEntry
  <2>6. first.id \in Nat /\ task.id \in Nat
    BY DEF Entries, Tasks
  <2>7. QED
    BY <2>2, <2>3, <2>4, <2>5, <2>6
<1>10. task.id \in Nat /\ task.id < nextTask
  BY <1>8 DEF Tasks, Queued, QueueInv
<1>11. \A s \in Sources \ {source} : queues'[s] = queues[s]
  BY <1>1, <1>6
<1>12. Removes({task})
  <2>1. queues' \in [Sources -> Seq(Tasks)]
    BY <1>1, <1>6, <1>8
  <2>2. ASSUME NEW s \in Sources
        PROVE  ToSet(queues'[s]) = ToSet(queues[s]) \ {task}
    <3>1. CASE s = source
      <4>1. ASSUME task \in ToSet(queues'[source])
            PROVE  FALSE
        <5>1. <<task, task>> \in ById
          BY <1>8, <4>1
        <5>2. QED
          BY <1>10, <5>1 DEF ById
      <4>2. QED
        BY <1>8, <3>1, <4>1
    <3>2. CASE s # source
      <4>1. ASSUME task \in ToSet(queues[s])
            PROVE  FALSE
        BY <1>8, <3>2, <4>1, UniqueIds
      <4>2. QED
        BY <1>11, <3>2, <4>1
    <3>3. QED
      BY <3>1, <3>2
  <2>3. ToSet(order') = {e \in ToSet(order) : e.id \notin {t.id : t \in {task}}}
    <3>1. ASSUME NEW x \in ToSet(order')
          PROVE  x.id # task.id
      <4>1. first.id < x.id /\ first.id \in Nat
        BY <1>7 DEF ByEntry, Entries
      <4>2. QED
        BY <1>9, <4>1
    <3>2. QED
      BY <1>7, <1>9, <3>1
  <2>4. QED
    BY <1>6, <1>7, <1>8, <1>11, <2>1, <2>2, <2>3 DEF Removes
<1>13. \A e \in ToSet(order') : lastRun' < e.id
  BY <1>6, <1>7, <1>9 DEF ByEntry
<1>14. {task} \in SUBSET QueuedTasks
  BY <1>8 DEF QueuedTasks
<1>15. Queued'
  BY <1>6, <1>10, <1>12, <1>13, <1>14, RemoveKeeps
<1>16. QED
  BY <1>4, <1>5, <1>6, <1>8, <1>11, <1>12, <1>15

LEMMA PopNavigationRemoves ==
    ASSUME Queued, PopNavigationTask, load' = load
    PROVE  \E task \in QueuedTasks :
              Removes({task}) /\ task.kind = "navigation" /\ UNCHANGED lastRun
<1> DEFINE q == queues["Navigation"]
<1>1. /\ queues \in [Sources -> Seq(Tasks)] /\ order \in Seq(Entries)
      /\ q \in Seq(Tasks) /\ "Navigation" \in Sources
  BY SourceFacts DEF Queued
<1>2. PICK index \in DOMAIN q :
          /\ q[index].kind = "navigation"
          /\ queues' = [queues EXCEPT !["Navigation"] = Pick(@, DOMAIN @ \ {index})]
          /\ LET id == q[index].id
             IN  order' = Keep(order, {e \in ToSet(order) : e.id # id})
          /\ UNCHANGED <<nextTask, lastRun>>
  BY DEF PopNavigationTask, Navigations, histVars
<1>3. PICK task \in Tasks : task = q[index] /\ task \in ToSet(q)
  BY <1>1, InToSet
<1> DEFINE I == DOMAIN q \ {index}
           stay == {e \in ToSet(order) : e.id # task.id}
<1>4. /\ queues'["Navigation"] = Pick(q, I) /\ order' = Keep(order, stay)
      /\ \A s \in Sources \ {"Navigation"} : queues'[s] = queues[s]
      /\ DOMAIN queues' = Sources
  BY <1>1, <1>2, <1>3
<1>5. I \in SUBSET (DOMAIN q)
  OBVIOUS
<1>6. \A i, j \in DOMAIN q : i < j => <<q[i], q[j]>> \in ById
  BY <1>1 DEF Queued, QueueInv
<1>7. {q[i] : i \in I} = ToSet(q) \ {task}
  <2>1. \A i \in I : q[i] # task
    <3> TAKE i \in I
    <3>1. i \in Nat /\ index \in Nat /\ i # index
      BY <1>1
    <3>2. i < index \/ index < i
      BY <3>1
    <3>3. q[i].id < task.id \/ task.id < q[i].id
      BY <1>3, <1>6, <3>2 DEF ById
    <3>4. task.id \in Nat
      BY DEF Tasks
    <3>5. QED
      BY <3>3, <3>4
  <2>2. QED
    BY <1>3, <2>1 DEF ToSet
<1>8. stay = ToSet(order) \cap stay
  OBVIOUS
<1> HIDE DEF I, stay, q
<1>9. /\ queues'["Navigation"] \in Seq(Tasks)
      /\ ToSet(queues'["Navigation"]) = ToSet(q) \ {task}
      /\ \A R :
            (\A i, j \in DOMAIN q : i < j => <<q[i], q[j]>> \in R) =>
            (\A i, j \in DOMAIN queues'["Navigation"] :
                i < j => <<queues'["Navigation"][i], queues'["Navigation"][j]>> \in R)
  <2>1. Pick(q, I) \in Seq(Tasks)
    BY <1>1, <1>5, PickFacts
  <2>2. ToSet(Pick(q, I)) = ToSet(q) \ {task}
    BY <1>1, <1>5, <1>7, PickElements
  <2>3. ASSUME NEW R, \A i, j \in DOMAIN q : i < j => <<q[i], q[j]>> \in R
        PROVE  \A i, j \in DOMAIN Pick(q, I) : i < j => <<Pick(q, I)[i], Pick(q, I)[j]>> \in R
    BY <1>1, <1>5, <2>3, PickOrder
  <2>4. QED
    BY <1>4, <2>1, <2>2, <2>3
<1>10. /\ order' \in Seq(Entries) /\ ToSet(order') = stay
       /\ \A i, j \in DOMAIN order' : i < j => <<order'[i], order'[j]>> \in ByEntry
  <2>1. \A i, j \in DOMAIN order : i < j => <<order[i], order[j]>> \in ByEntry
    BY DEF Queued, QueueInv
  <2>2. QED
    BY <1>1, <1>4, <1>8, <2>1, KeepFacts, KeepOrder
<1>11. \A s \in Sources \ {"Navigation"} : task \notin ToSet(queues[s])
  BY <1>1, <1>3, UniqueIds DEF q
<1>12. Removes({task})
  <2>1. queues' \in [Sources -> Seq(Tasks)]
    <3>1. \A s \in Sources : queues'[s] \in Seq(Tasks)
      BY <1>1, <1>4, <1>9
    <3>2. queues' = [s \in Sources |-> queues'[s]]
      BY <1>1, <1>2
    <3>3. QED
      BY <3>1, <3>2
  <2>2. \A s \in Sources : ToSet(queues'[s]) = ToSet(queues[s]) \ {task}
    BY <1>4, <1>9, <1>11 DEF q
  <2>3. ToSet(order') = {e \in ToSet(order) : e.id \notin {t.id : t \in {task}}}
    BY <1>10 DEF stay
  <2>4. ASSUME NEW s \in Sources, NEW R,
               \A i, j \in DOMAIN queues[s] : i < j => <<queues[s][i], queues[s][j]>> \in R
        PROVE  \A i, j \in DOMAIN queues'[s] : i < j => <<queues'[s][i], queues'[s][j]>> \in R
    <3>1. CASE s = "Navigation"
      BY <1>9, <2>4, <3>1 DEF q
    <3>2. CASE s # "Navigation"
      BY <1>4, <2>4, <3>2
    <3>3. QED
      BY <3>1, <3>2
  <2>5. QED
    BY <1>2, <1>10, <2>1, <2>2, <2>3, <2>4 DEF Removes
<1>13. task \in QueuedTasks
  BY <1>1, <1>3 DEF QueuedTasks, q
<1>14. QED
  BY <1>2, <1>3, <1>12, <1>13

-----------------------------------------------------------------------------
(***************************************************************************)
(* Steps that only add a task, or only remove some.                        *)
(***************************************************************************)
LEMMA QueuedFacts ==
    ASSUME IInv
    PROVE  /\ Queued /\ load \in Workloads
           /\ \A s \in Sources : ToSet(queues[s]) \subseteq QueuedTasks
           /\ \A s \in Sources : \A t \in ToSet(queues[s]) : t \in Tasks
           /\ \A t \in QueuedTasks : \E s \in Sources : t \in ToSet(queues[s])
<1>1. Queued /\ load \in Workloads
  BY DEF IInv, TypeOK, Queued
<1>2. \A s \in Sources : queues[s] \in Seq(Tasks)
  BY <1>1 DEF Queued
<1>3. ASSUME NEW s \in Sources, NEW t \in ToSet(queues[s])
      PROVE  t \in Tasks
  <2>1. PICK i \in DOMAIN queues[s] : queues[s][i] = t
    BY InToSet
  <2>2. QED
    BY <1>2, <2>1
<1>4. QED
  BY <1>1, <1>3 DEF QueuedTasks

\* What the invariant says of timers, given what the step does to the queues.
LEMMA AddKeepsTimers ==
    ASSUME IInv, NEW t \in Tasks, t.kind # "timer", t.timer = 0,
           queues'["Timer"] = queues["Timer"],
           QueuedTasks' = QueuedTasks \cup {t},
           UNCHANGED <<timerVars, lastDue, fired>>
    PROVE  TimerInv'
<1>1. /\ nextTimer' = nextTimer /\ now' = now /\ timers' = timers
      /\ lastDue' = lastDue /\ fired' = fired
  BY DEF timerVars
<1>2. \A x \in timers : x.id # 0
  BY DEF IInv, TimerInv, TypeOK, Timers
<1>3. nextTimer \in Nat /\ 0 < nextTimer
  BY LoadFacts DEF IInv, TypeOK
<1>4. \A u \in QueuedTasks' : u.timer < nextTimer' /\ (u.timer # 0 => u.kind = "timer")
  BY <1>1, <1>3 DEF IInv, TimerInv
<1>5. \A x \in timers' :
          ~x.repeat => x.id \notin fired' /\ \A u \in QueuedTasks' : u.timer # x.id
  BY <1>1, <1>2 DEF IInv, TimerInv
<1>6. QED
  BY <1>1, <1>4, <1>5 DEF IInv, TimerInv

LEMMA RemoveKeepsTimers ==
    ASSUME IInv, NEW gone, Removes(gone), timers' \subseteq timers,
           UNCHANGED <<nextTimer, now, lastDue, fired>>
    PROVE  TimerInv' /\ QueuedTasks' = QueuedTasks \ gone
<1>1. QueuedTasks' = QueuedTasks \ gone
  <2>1. \A s \in Sources : ToSet(queues'[s]) = ToSet(queues[s]) \ gone
    BY DEF Removes
  <2>2. QED
    BY <2>1 DEF QueuedTasks
<1>2. "Timer" \in Sources
  BY SourceFacts
<1>3. \A i, j \in DOMAIN queues'["Timer"] :
          i < j => <<queues'["Timer"][i], queues'["Timer"][j]>> \in ByDue
  <2>1. \A i, j \in DOMAIN queues["Timer"] :
            i < j => <<queues["Timer"][i], queues["Timer"][j]>> \in ByDue
    BY DEF IInv, TimerInv
  <2>2. QED
    BY <1>2, <2>1 DEF Removes
<1>4. \A t \in ToSet(queues'["Timer"]) : lastDue' <= t.due /\ t.due <= now'
  BY <1>2 DEF Removes, IInv, TimerInv
<1>5. \A t \in QueuedTasks' : t.timer < nextTimer' /\ (t.timer # 0 => t.kind = "timer")
  BY <1>1 DEF IInv, TimerInv
<1>6. \A t \in timers' :
          ~t.repeat => t.id \notin fired' /\ \A u \in QueuedTasks' : u.timer # t.id
  BY <1>1 DEF IInv, TimerInv
<1>7. /\ \A t \in timers' : now' <= t.next /\ t.id \in 1 .. (nextTimer' - 1)
      /\ \A t, u \in timers' : t.id = u.id => t = u
      /\ lastDue' <= now'
      /\ \A id \in fired' : id < nextTimer'
  BY DEF IInv, TimerInv
<1>8. QED
  BY <1>1, <1>3, <1>4, <1>5, <1>6, <1>7 DEF TimerInv

\* Enqueueing one task whose owner is alive, or of a kind that has no owner.
LEMMA EnqueueStep ==
    ASSUME IInv, NEW t \in Tasks, t.kind # "timer", t.timer = 0, nextTask <= load.tasks,
           Enqueue(t), UNCHANGED <<load, timerVars, frameVars, histVars>>,
           Owned(t.kind) => t.owner \notin retired
    PROVE  IInv'
<1>1. Queued /\ load \in Workloads /\ load.tasks \in Nat /\ nextTask \in Nat
  BY QueuedFacts, LoadFacts DEF Queued
<1>2. SourceOf(t.kind) \in Sources /\ SourceOf(t.kind) # "Timer" /\ "Timer" \in Sources
  BY SourceFacts DEF Tasks
<1>3. PICK source \in Sources : source = SourceOf(t.kind)
  BY <1>2
<1> DEFINE tasks == <<t>>
<1>4. tasks \in Seq(Tasks) /\ Len(tasks) = 1 /\ tasks[1] = t
  OBVIOUS
<1>5. /\ \A i \in 1 .. Len(tasks) : SourceOf(tasks[i].kind) = source
      /\ EnqueueAll(source, tasks) /\ nextTask + Len(tasks) <= load.tasks + 1
      /\ UNCHANGED <<load, lastRun>>
  <2>1. \A i \in 1 .. Len(tasks) : i = 1
    BY <1>4
  <2>2. nextTask + Len(tasks) <= load.tasks + 1
    BY <1>1, <1>4
  <2>3. QED
    BY <1>3, <1>4, <2>1, <2>2 DEF Enqueue, histVars
<1> HIDE DEF tasks
<1>6. Queued'
  BY <1>1, <1>4, <1>5, EnqueueKeeps
<1>7. PICK new \in Seq(Tasks) :
          /\ Len(new) = Len(tasks)
          /\ \A i \in 1 .. Len(tasks) :
                /\ new[i].kind = tasks[i].kind /\ new[i].owner = tasks[i].owner
                /\ new[i].timer = tasks[i].timer /\ new[i].due = tasks[i].due
          /\ ToSet(queues'[source]) = ToSet(queues[source]) \cup ToSet(new)
          /\ \A s \in Sources \ {source} : queues'[s] = queues[s]
  BY <1>1, <1>4, <1>5, EnqueueKeeps
<1>8. PICK u \in Tasks : u = new[1]
  BY <1>4, <1>7
<1>9. u.kind = t.kind /\ u.owner = t.owner /\ u.timer = t.timer
  <2>1. 1 \in 1 .. Len(tasks)
    BY <1>4
  <2>2. QED
    BY <1>4, <1>7, <1>8, <2>1
<1>10. ToSet(new) = {u}
  <2>1. DOMAIN new = {1}
    BY <1>4, <1>7
  <2>2. QED
    BY <1>8, <2>1 DEF ToSet
<1>11. QueuedTasks' = QueuedTasks \cup {u}
  BY <1>7, <1>10 DEF QueuedTasks
<1>12. queues'["Timer"] = queues["Timer"]
  BY <1>2, <1>3, <1>7
<1>13. TimerInv'
  BY <1>9, <1>11, <1>12, AddKeepsTimers DEF histVars
<1>14. NothingOfRetired'
  <2>1. retired' = retired /\ timers' = timers /\ frames' = frames
        /\ frameOrder' = frameOrder /\ frameRun' = frameRun
    BY DEF histVars, frameVars, timerVars
  <2>2. \A d \in retired : \A x \in QueuedTasks' : Owned(x.kind) => x.owner # d
    BY <1>9, <1>11 DEF IInv, NothingOfRetired
  <2>3. QED
    BY <2>1, <2>2 DEF IInv, NothingOfRetired, NoStrandedFrame
<1>15. TypeOK'
  BY <1>6 DEF IInv, TypeOK, Queued, histVars, frameVars, timerVars
<1>16. QueueInv'
  BY <1>6 DEF Queued
<1>17. QED
  BY <1>13, <1>14, <1>15, <1>16 DEF IInv

\* Enqueueing, for each of the functions that does it.
LEMMA EnqueueSteps ==
    ASSUME IInv, load' = load,
           \/ \E owner \in Owners, node \in load.nodes : EnqueueTimerPayload(owner, node)
           \/ \E kind \in load.kinds, d \in load.docs \ retired : EnqueueForDocument(kind, d)
           \/ \E kind \in load.kinds : EnqueueNavigation(kind)
           \/ EnqueueMessage
    PROVE  IInv'
<1>1. /\ load \in Workloads /\ nextTask \in Nat /\ now \in Nat /\ retired \in SUBSET load.docs
      /\ load.docs \subseteq Documents /\ load.nodes \subseteq Nodes
      /\ None \in Documents /\ None \in Nodes /\ None \notin load.docs
  BY LoadFacts DEF IInv, TypeOK
<1>2. \A kind \in Kinds \ {"timer"} : \A owner \in Documents : \A node \in Nodes :
          /\ Task(kind, owner, node, 0, now) \in Tasks
          /\ Task(kind, owner, node, 0, now).kind = kind
          /\ Task(kind, owner, node, 0, now).owner = owner
          /\ Task(kind, owner, node, 0, now).timer = 0
  BY <1>1 DEF Task, Tasks
<1>3. CASE \E owner \in Owners, node \in load.nodes : EnqueueTimerPayload(owner, node)
  <2>1. PICK owner \in Owners, node \in load.nodes : EnqueueTimerPayload(owner, node)
    BY <1>3
  <2>2. owner \in Documents /\ owner \notin retired /\ node \in Nodes
    BY <1>1 DEF Owners
  <2>3. PICK t \in Tasks : /\ t = Task("resource", owner, node, 0, now)
                           /\ t.kind = "resource" /\ t.owner = owner /\ t.timer = 0
    BY <1>2, <2>2 DEF Kinds
  <2>4. /\ nextTask <= load.tasks /\ Enqueue(t)
        /\ UNCHANGED <<timerVars, frameVars, histVars>>
    BY <2>1, <2>3 DEF EnqueueTimerPayload
  <2>5. QED
    BY <2>2, <2>3, <2>4, EnqueueStep
<1>4. CASE \E kind \in load.kinds, d \in load.docs \ retired : EnqueueForDocument(kind, d)
  <2>1. PICK kind \in load.kinds, d \in load.docs \ retired : EnqueueForDocument(kind, d)
    BY <1>4
  <2>2. kind \in {"lock", "violation", "networking"} /\ d \in Documents /\ d \notin retired
    BY <1>1, <2>1 DEF EnqueueForDocument
  <2>3. PICK t \in Tasks : /\ t = Task(kind, d, None, 0, now)
                           /\ t.kind = kind /\ t.owner = d /\ t.timer = 0
    BY <1>1, <1>2, <2>2 DEF Kinds
  <2>4. /\ nextTask <= load.tasks /\ Enqueue(t)
        /\ UNCHANGED <<timerVars, frameVars, histVars>>
    BY <2>1, <2>3 DEF EnqueueForDocument
  <2>5. t.kind # "timer"
    BY <2>2, <2>3
  <2>6. QED
    BY <2>2, <2>3, <2>4, <2>5, EnqueueStep
<1>5. CASE \E kind \in load.kinds : EnqueueNavigation(kind)
  <2>1. PICK kind \in load.kinds : EnqueueNavigation(kind)
    BY <1>5
  <2>2. kind \in {"navigation", "auxiliary"}
    BY <2>1 DEF EnqueueNavigation
  <2>3. PICK t \in Tasks : /\ t = Task(kind, None, None, 0, now)
                           /\ t.kind = kind /\ t.owner = None /\ t.timer = 0
    BY <1>1, <1>2, <2>2 DEF Kinds
  <2>4. /\ nextTask <= load.tasks /\ Enqueue(t)
        /\ UNCHANGED <<timerVars, frameVars, histVars>>
    BY <2>1, <2>3 DEF EnqueueNavigation
  <2>5. t.kind # "timer" /\ None \notin retired
    BY <1>1, <2>2, <2>3
  <2>6. QED
    BY <2>3, <2>4, <2>5, EnqueueStep
<1>6. CASE EnqueueMessage
  <2>1. PICK t \in Tasks : /\ t = Task("message", None, None, 0, now)
                           /\ t.kind = "message" /\ t.owner = None /\ t.timer = 0
    BY <1>1, <1>2 DEF Kinds
  <2>2. /\ nextTask <= load.tasks /\ Enqueue(t)
        /\ UNCHANGED <<timerVars, frameVars, histVars>>
    BY <1>6, <2>1 DEF EnqueueMessage
  <2>3. t.kind # "timer" /\ None \notin retired
    BY <1>1, <2>1
  <2>4. QED
    BY <2>1, <2>2, <2>3, EnqueueStep
<1>7. QED
  BY <1>3, <1>4, <1>5, <1>6

\* Removing tasks leaves the rest of the invariant to what else the step does.
LEMMA RemoveStep ==
    ASSUME IInv, NEW gone \in SUBSET QueuedTasks, Removes(gone),
           UNCHANGED <<timerVars, frameVars, histVars>>
    PROVE  IInv'
<1>1. Queued /\ lastRun \in Nat /\ lastRun < nextTask
  BY QueuedFacts DEF Queued, QueueInv
<1>2. lastRun' = lastRun /\ \A e \in ToSet(order') : lastRun' < e.id
  BY <1>1 DEF histVars, Removes, Queued, QueueInv
<1>3. Queued' /\ load' = load
  BY <1>1, <1>2, RemoveKeeps DEF Removes
<1>4. TimerInv' /\ QueuedTasks' = QueuedTasks \ gone
  BY RemoveKeepsTimers DEF timerVars, histVars
<1>5. TypeOK'
  BY <1>3 DEF IInv, TypeOK, Queued, histVars, frameVars, timerVars
<1>6. NothingOfRetired'
  BY <1>4 DEF IInv, NothingOfRetired, NoStrandedFrame, histVars, frameVars, timerVars
<1>7. QED
  BY <1>3, <1>4, <1>5, <1>6 DEF IInv, Queued

LEMMA PopNavigationStep ==
    ASSUME IInv, PopNavigationTask, load' = load
    PROVE  IInv'
<1>1. PICK task \in QueuedTasks : Removes({task})
  BY QueuedFacts, PopNavigationRemoves
<1>2. {task} \in SUBSET QueuedTasks
  OBVIOUS
<1>3. UNCHANGED <<timerVars, frameVars, histVars>>
  BY DEF PopNavigationTask
<1>4. QED
  BY <1>1, <1>2, <1>3, RemoveStep

LEMMA CancelLoadsStep ==
    ASSUME IInv, NEW nodes, CancelResourceLoadsForNodes(nodes), load' = load
    PROVE  IInv'
<1>1. PICK gone \in SUBSET QueuedTasks : Cancel(gone)
  BY DEF CancelResourceLoadsForNodes
<1>2. UNCHANGED <<nextTask, timerVars, frameVars, histVars>>
  BY DEF CancelResourceLoadsForNodes
<1>3. Removes(gone)
  BY <1>1, <1>2, QueuedFacts, CancelRemoves
<1>4. QED
  BY <1>2, <1>3, RemoveStep

LEMMA PopTaskStep ==
    ASSUME IInv, PopTask, load' = load
    PROVE  IInv'
<1>1. Queued /\ "Timer" \in Sources
  BY QueuedFacts, SourceFacts
<1>2. PICK source \in Sources : \E task \in ToSet(queues[source]) :
          /\ task = Head(queues[source]) /\ queues[source] # <<>>
          /\ Removes({task}) /\ lastRun' = task.id /\ task \in Tasks
          /\ Queued'
          /\ queues'[source] = Tail(queues[source])
          /\ \A s \in Sources \ {source} : queues'[s] = queues[s]
          /\ lastDue' = IF task.timer # 0 THEN task.due ELSE lastDue
          /\ fired' = IF task.timer # 0 THEN fired \cup {task.timer} ELSE fired
  BY <1>1, PopTaskRemoves
<1>3. PICK task \in ToSet(queues[source]) :
          /\ task = Head(queues[source]) /\ queues[source] # <<>>
          /\ Removes({task}) /\ lastRun' = task.id /\ task \in Tasks
          /\ Queued'
          /\ queues'[source] = Tail(queues[source])
          /\ \A s \in Sources \ {source} : queues'[s] = queues[s]
          /\ lastDue' = IF task.timer # 0 THEN task.due ELSE lastDue
          /\ fired' = IF task.timer # 0 THEN fired \cup {task.timer} ELSE fired
  BY <1>2
<1>4. UNCHANGED <<timerVars, frameVars, retired, cleared>>
  BY DEF PopTask
<1>5. /\ task \in QueuedTasks /\ task.timer \in Nat /\ task.due \in Nat /\ task.id \in Nat
      /\ task.timer < nextTimer /\ (task.timer # 0 => source = "Timer")
  <2>1. task \in QueuedTasks /\ SourceOf(task.kind) = source
    BY <1>1, QueuedFacts DEF Queued, QueueInv
  <2>2. task.timer < nextTimer /\ (task.timer # 0 => task.kind = "timer")
    BY <2>1 DEF IInv, TimerInv
  <2>3. QED
    BY <1>3, <2>1, <2>2, SourceFacts DEF Tasks
<1>6. QueuedTasks' = QueuedTasks \ {task}
  BY <1>3 DEF QueuedTasks, Removes
<1>7. TypeOK'
  <2>1. lastRun' \in Nat /\ lastDue' \in Nat /\ fired' \in SUBSET Nat
    BY <1>3, <1>5 DEF IInv, TypeOK
  <2>2. QED
    BY <1>3, <1>4, <2>1 DEF IInv, TypeOK, Queued, frameVars, timerVars
<1>8. NothingOfRetired'
  BY <1>4, <1>6 DEF IInv, NothingOfRetired, NoStrandedFrame, frameVars, timerVars
<1>9. \A i, j \in DOMAIN queues'["Timer"] :
          i < j => <<queues'["Timer"][i], queues'["Timer"][j]>> \in ByDue
  <2>1. \A i, j \in DOMAIN queues["Timer"] :
            i < j => <<queues["Timer"][i], queues["Timer"][j]>> \in ByDue
    BY DEF IInv, TimerInv
  <2>2. QED
    BY <1>1, <1>3, <2>1 DEF Removes
<1>10. lastDue' <= now /\ \A t \in ToSet(queues'["Timer"]) : lastDue' <= t.due /\ t.due <= now
  <2>1. \A t \in ToSet(queues'["Timer"]) : t \in ToSet(queues["Timer"])
    BY <1>1, <1>3 DEF Removes
  <2>2. /\ \A t \in ToSet(queues["Timer"]) : lastDue <= t.due /\ t.due <= now
        /\ lastDue <= now
    BY DEF IInv, TimerInv
  <2>3. CASE task.timer = 0
    BY <1>3, <2>1, <2>2, <2>3
  <2>4. CASE task.timer # 0
    <3>1. source = "Timer" /\ lastDue' = task.due
      BY <1>3, <1>5, <2>4
    <3>2. PICK q \in Seq(Tasks) : q = queues["Timer"] /\ q # <<>> /\ task = Head(q)
      BY <1>1, <1>3, <3>1 DEF Queued
    <3>3. \A i, j \in DOMAIN q : i < j => <<q[i], q[j]>> \in ByDue
      BY <3>2 DEF IInv, TimerInv
    <3>4. \A x \in ToSet(Tail(q)) : <<Head(q), x>> \in ByDue
      BY <3>2, <3>3, TailOrder
    <3>5. \A x \in ToSet(queues'["Timer"]) : task.due <= x.due
      BY <1>3, <3>1, <3>2, <3>4 DEF ByDue
    <3>6. task.due <= now
      BY <2>2, <3>1
    <3>7. QED
      BY <2>1, <2>2, <3>1, <3>5, <3>6
  <2>5. QED
    BY <2>3, <2>4
<1>11. \A t \in QueuedTasks' : t.timer < nextTimer /\ (t.timer # 0 => t.kind = "timer")
  BY <1>6 DEF IInv, TimerInv
<1>12. \A id \in fired' : id < nextTimer
  BY <1>3, <1>5 DEF IInv, TimerInv
<1>13. \A t \in timers :
          ~t.repeat => t.id \notin fired' /\ \A u \in QueuedTasks' : u.timer # t.id
  BY <1>3, <1>5, <1>6 DEF IInv, TimerInv
<1>14. TimerInv'
  <2>1. nextTimer' = nextTimer /\ now' = now /\ timers' = timers
    BY <1>4 DEF timerVars
  <2>2. /\ \A t \in timers : now <= t.next /\ t.id \in 1 .. (nextTimer - 1)
        /\ \A t, u \in timers : t.id = u.id => t = u
    BY DEF IInv, TimerInv
  <2>3. QED
    BY <1>9, <1>10, <1>11, <1>12, <1>13, <2>1, <2>2 DEF TimerInv
<1>15. QED
  BY <1>3, <1>7, <1>8, <1>14 DEF IInv, Queued

-----------------------------------------------------------------------------
(***************************************************************************)
(* Timers, frames and a document's end.                                    *)
(***************************************************************************)
LEMMA QueuedSame ==
    ASSUME IInv, UNCHANGED <<load, taskVars, lastRun>>
    PROVE  /\ Queued' /\ QueueInv' /\ QueuedTasks' = QueuedTasks
           /\ queues' = queues /\ order' = order /\ nextTask' = nextTask
  BY QueuedFacts DEF Queued, QueueInv, QueueIds, OrderIds, QueuedTasks, taskVars

LEMMA CancelDocumentStep ==
    ASSUME IInv, NEW d \in load.docs, CancelTasksForDocument(d), load' = load
    PROVE  IInv'
<1> DEFINE gone == {t \in QueuedTasks : Owned(t.kind) /\ t.owner = d}
           lost == {f.id : f \in {g \in frames : g.owner = d}}
<1>1. /\ timers' = {t \in timers : t.owner # d} /\ Cancel(gone)
      /\ frames' = {f \in frames : f.id \notin lost}
      /\ frameOrder' = Keep(frameOrder, ToSet(frameOrder) \ lost)
      /\ retired' = retired \cup {d}
      /\ UNCHANGED <<nextTask, nextTimer, now, nextFrame, frameRun, lastRun, lastDue,
                     fired, cleared>>
  BY DEF CancelTasksForDocument
<1>2. gone \in SUBSET QueuedTasks
  OBVIOUS
<1>3. Removes(gone)
  BY <1>1, <1>2, QueuedFacts, CancelRemoves
<1>4. TimerInv' /\ QueuedTasks' = QueuedTasks \ gone
  BY <1>1, <1>2, <1>3, RemoveKeepsTimers
<1>5. Queued'
  <2>1. lastRun \in Nat /\ lastRun < nextTask
    BY QueuedFacts DEF Queued, QueueInv
  <2>2. \A e \in ToSet(order') : lastRun' < e.id
    BY <1>1, <1>3 DEF Removes, IInv, QueueInv
  <2>3. QED
    BY <1>1, <1>2, <1>3, <2>1, <2>2, QueuedFacts, RemoveKeeps
<1>6. PICK kept : kept = ToSet(frameOrder) \ lost
  OBVIOUS
<1>7. frameOrder' \in Seq(1 .. nextFrame) /\ ToSet(frameOrder') = ToSet(frameOrder) \cap kept
  <2>1. PICK T : T = 1 .. nextFrame
    OBVIOUS
  <2>2. PICK s \in Seq(T) : s = frameOrder
    BY <2>1 DEF IInv, TypeOK
  <2>3. Keep(s, kept) \in Seq(T) /\ ToSet(Keep(s, kept)) = ToSet(s) \cap kept
    BY KeepFacts
  <2>4. QED
    BY <1>1, <1>6, <2>1, <2>2, <2>3
<1>8. IsFiniteSet(timers')
  BY <1>1, FS_Subset DEF IInv, TypeOK
<1>9. TypeOK'
  BY <1>1, <1>5, <1>7, <1>8 DEF IInv, TypeOK, Queued
<1>10. \A f \in frames' : f \in frames /\ f.owner # d /\ f.id \in ToSet(frameOrder') \cup ToSet(frameRun')
  <2> TAKE f \in frames'
  <2>1. f \in frames /\ f.id \notin lost
    BY <1>1
  <2>2. f.owner # d
    BY <2>1
  <2>3. f.id \in ToSet(frameOrder) \cup ToSet(frameRun)
    BY <2>1 DEF IInv, NothingOfRetired, NoStrandedFrame
  <2>4. QED
    BY <1>1, <1>6, <1>7, <2>1, <2>2, <2>3
<1>11. NothingOfRetired'
  <2>1. \A e \in retired' : \A t \in timers' : t.owner # e
    BY <1>1 DEF IInv, NothingOfRetired
  <2>2. \A e \in retired' : \A t \in QueuedTasks' : Owned(t.kind) => t.owner # e
    BY <1>1, <1>4 DEF IInv, NothingOfRetired
  <2>3. \A e \in retired' : \A f \in frames' : f.owner # e
    BY <1>1, <1>10 DEF IInv, NothingOfRetired
  <2>4. QED
    BY <1>10, <2>1, <2>2, <2>3 DEF NothingOfRetired, NoStrandedFrame
<1>12. QED
  BY <1>4, <1>5, <1>9, <1>11 DEF IInv, Queued

\* Time saturates and never goes back.
LEMMA SaturateFacts ==
    ASSUME load \in Workloads, NEW t \in 0 .. load.time, NEW d \in Nat
    PROVE  Saturate(t + d) \in 0 .. load.time /\ t <= Saturate(t + d)
  BY LoadFacts DEF Saturate

LEMMA ScheduleTimerStep ==
    ASSUME IInv, NEW delay \in load.delays, NEW repeat \in BOOLEAN, NEW owner \in Owners,
           ScheduleTimer(delay, repeat, owner), load' = load
    PROVE  IInv'
<1>1. /\ load \in Workloads /\ load.timers \in Nat /\ delay \in Nat /\ load.time \in Nat
      /\ nextTimer \in 1 .. (load.timers + 1) /\ now \in 0 .. load.time
      /\ owner \in Documents /\ owner \notin retired
  BY LoadFacts DEF IInv, TypeOK, Owners
<1>2. PICK time \in 0 .. load.time : time = Saturate(now + delay) /\ now <= time
  BY <1>1, SaturateFacts
<1>3. PICK t \in Timers :
          /\ t = [id |-> nextTimer, owner |-> owner, next |-> time,
                  interval |-> delay, repeat |-> repeat]
          /\ t.id = nextTimer /\ t.next = time /\ t.owner = owner
  <2>1. nextTimer \in Nat /\ time \in Nat
    BY <1>1
  <2> DEFINE r == [id |-> nextTimer, owner |-> owner, next |-> time,
                   interval |-> delay, repeat |-> repeat]
  <2>2. r \in Timers /\ r.id = nextTimer /\ r.next = time /\ r.owner = owner
    BY <1>1, <2>1 DEF Timers
  <2> HIDE DEF r
  <2>3. \E t \in Timers : t = r /\ t.id = nextTimer /\ t.next = time /\ t.owner = owner
    BY <2>2
  <2>4. QED
    BY <2>3 DEF r
<1>4. /\ nextTimer <= load.timers /\ timers' = timers \cup {t} /\ nextTimer' = nextTimer + 1
      /\ UNCHANGED <<now, taskVars, frameVars, histVars>>
  BY <1>2, <1>3 DEF ScheduleTimer
<1>5. Queued' /\ QueueInv' /\ QueuedTasks' = QueuedTasks /\ queues' = queues
  BY <1>4, QueuedSame DEF histVars
<1>6. IsFiniteSet(timers')
  BY <1>4, FS_AddElement DEF IInv, TypeOK
<1>7. nextTimer' \in 1 .. (load.timers + 1)
  BY <1>1, <1>4
<1>8. TypeOK'
  BY <1>3, <1>4, <1>5, <1>6, <1>7 DEF IInv, TypeOK, Queued, frameVars, histVars
<1>9. NothingOfRetired'
  BY <1>1, <1>3, <1>4, <1>5 DEF IInv, NothingOfRetired, NoStrandedFrame, frameVars, histVars
<1>10. /\ now' = now /\ lastDue' = lastDue /\ fired' = fired
  BY <1>4 DEF histVars
<1>11. \A u \in timers : u.id # t.id /\ u.id \in 1 .. (nextTimer' - 1) /\ now <= u.next
  <2> TAKE u \in timers
  <2>1. u.id \in 1 .. (nextTimer - 1) /\ now <= u.next
    BY DEF IInv, TimerInv
  <2>2. QED
    BY <1>1, <1>3, <1>4, <2>1
<1>12. t.id \in 1 .. (nextTimer' - 1) /\ now <= t.next
  BY <1>1, <1>2, <1>3, <1>4
<1>13. \A u \in QueuedTasks : /\ u.timer < nextTimer' /\ u.timer # t.id
                              /\ (u.timer # 0 => u.kind = "timer")
  <2> TAKE u \in QueuedTasks
  <2>1. u.timer < nextTimer /\ u.timer \in Nat /\ (u.timer # 0 => u.kind = "timer")
    BY QueuedFacts DEF IInv, TimerInv, Tasks
  <2>2. QED
    BY <1>1, <1>3, <1>4, <2>1
<1>14. \A id \in fired : id < nextTimer' /\ id # t.id
  <2> TAKE id \in fired
  <2>1. id \in Nat /\ id < nextTimer
    BY DEF IInv, TimerInv, TypeOK
  <2>2. QED
    BY <1>1, <1>3, <1>4, <2>1
<1>15. TimerInv'
  <2>1. /\ \A x \in timers' : now' <= x.next /\ x.id \in 1 .. (nextTimer' - 1)
        /\ \A x, y \in timers' : x.id = y.id => x = y
    BY <1>4, <1>10, <1>11, <1>12 DEF IInv, TimerInv
  <2>2. \A x \in timers' :
            ~x.repeat => x.id \notin fired' /\ \A u \in QueuedTasks' : u.timer # x.id
    BY <1>4, <1>5, <1>10, <1>13, <1>14 DEF IInv, TimerInv
  <2>3. /\ lastDue' <= now'
        /\ \A i, j \in DOMAIN queues'["Timer"] :
              i < j => <<queues'["Timer"][i], queues'["Timer"][j]>> \in ByDue
        /\ \A x \in ToSet(queues'["Timer"]) : lastDue' <= x.due /\ x.due <= now'
    BY <1>5, <1>10 DEF IInv, TimerInv
  <2>4. QED
    BY <1>5, <1>10, <1>13, <1>14, <2>1, <2>2, <2>3 DEF TimerInv
<1>16. QED
  BY <1>5, <1>8, <1>9, <1>15 DEF IInv

LEMMA ClearTimerStep ==
    ASSUME IInv, NEW id, ClearTimer(id), load' = load
    PROVE  IInv'
<1>1. /\ timers' = {t \in timers : t.id # id}
      /\ UNCHANGED <<nextTimer, now, taskVars, frameVars, retired, lastRun, lastDue, fired>>
  BY DEF ClearTimer
<1>2. Queued' /\ QueueInv' /\ QueuedTasks' = QueuedTasks /\ queues' = queues
  BY <1>1, QueuedSame
<1>3. IsFiniteSet(timers')
  BY <1>1, FS_Subset DEF IInv, TypeOK
<1>4. TypeOK'
  BY <1>1, <1>2, <1>3 DEF IInv, TypeOK, Queued, frameVars
<1>5. NothingOfRetired'
  BY <1>1, <1>2 DEF IInv, NothingOfRetired, NoStrandedFrame, frameVars
<1>6. TimerInv'
  BY <1>1, <1>2 DEF IInv, TimerInv
<1>7. QED
  BY <1>2, <1>4, <1>5, <1>6 DEF IInv

\* The frame operations touch frames only.
LEMMA FrameSteps ==
    ASSUME IInv, load' = load,
           \/ \E owner \in Owners : ScheduleAnimationFrame(owner)
           \/ \E id \in 1 .. nextFrame : CancelAnimationFrame(id)
           \/ BeginAnimationFrame
           \/ TakeAnimationFrameCallback
    PROVE  IInv'
<1>1. UNCHANGED <<taskVars, timerVars, histVars>>
  BY DEF ScheduleAnimationFrame, CancelAnimationFrame, BeginAnimationFrame,
         TakeAnimationFrameCallback
<1>2. Queued' /\ QueueInv' /\ QueuedTasks' = QueuedTasks /\ queues' = queues
  BY <1>1, QueuedSame DEF histVars
<1>3. TimerInv'
  BY <1>1, <1>2 DEF IInv, TimerInv, timerVars, histVars
<1>4. /\ load.frames \in Nat /\ nextFrame \in 0 .. load.frames /\ None \notin load.docs
      /\ frameOrder \in Seq(1 .. nextFrame) /\ frameRun \in Seq(1 .. nextFrame)
      /\ frames \in SUBSET [id : 1 .. nextFrame, owner : Documents]
      /\ retired \in SUBSET load.docs /\ load.docs \subseteq Documents /\ None \in Documents
      /\ \A f \in frames : f.id \in ToSet(frameOrder) \cup ToSet(frameRun)
      /\ \A d \in retired : \A f \in frames : f.owner # d
  BY LoadFacts DEF IInv, TypeOK, NothingOfRetired, NoStrandedFrame
<1> DEFINE Framed ==
              /\ nextFrame \in 0 .. load.frames
              /\ frameOrder \in Seq(1 .. nextFrame) /\ frameRun \in Seq(1 .. nextFrame)
              /\ frames \in SUBSET [id : 1 .. nextFrame, owner : Documents]
              /\ \A f \in frames : f.id \in ToSet(frameOrder) \cup ToSet(frameRun)
              /\ \A d \in retired : \A f \in frames : f.owner # d
<1>0. SUFFICES Framed'
  <2>1. TypeOK'
    BY <1>1, <1>2, <1>0 DEF IInv, TypeOK, Queued, timerVars, histVars
  <2>2. NothingOfRetired'
    BY <1>1, <1>2, <1>0 DEF IInv, NothingOfRetired, NoStrandedFrame, timerVars, histVars
  <2>3. QED
    BY <1>2, <1>3, <2>1, <2>2 DEF IInv
<1>5. CASE \E owner \in Owners : ScheduleAnimationFrame(owner)
  <2>1. PICK owner \in Owners : ScheduleAnimationFrame(owner)
    BY <1>5
  <2>2. PICK n \in Nat : n = nextFrame + 1 /\ n \in 0 .. load.frames /\ n = nextFrame'
    BY <1>4, <2>1 DEF ScheduleAnimationFrame
  <2>3. PICK f \in [id : 1 .. n, owner : Documents] :
            f = [id |-> n, owner |-> owner] /\ f.id = n /\ f.owner = owner
    <3>1. owner \in Documents /\ n \in 1 .. n
      BY <1>4, <2>2 DEF Owners
    <3> DEFINE r == [id |-> n, owner |-> owner]
    <3>2. r \in [id : 1 .. n, owner : Documents] /\ r.id = n /\ r.owner = owner
      BY <3>1
    <3> HIDE DEF r
    <3>3. \E f \in [id : 1 .. n, owner : Documents] : f = r /\ f.id = n /\ f.owner = owner
      BY <3>2
    <3>4. QED
      BY <3>3 DEF r
  <2>4. /\ frameOrder' = Append(frameOrder, n) /\ frames' = frames \cup {f}
        /\ frameRun' = frameRun
    BY <2>1, <2>2, <2>3 DEF ScheduleAnimationFrame
  <2>5. 1 .. nextFrame \subseteq 1 .. n /\ n \in 1 .. n
    BY <1>4, <2>2
  <2>6. frameOrder \in Seq(1 .. n) /\ frameRun \in Seq(1 .. n)
    <3>1. PICK S, T : S = 1 .. nextFrame /\ T = 1 .. n
      OBVIOUS
    <3>2. S \subseteq T /\ frameOrder \in Seq(S) /\ frameRun \in Seq(S)
      BY <1>4, <2>5, <3>1
    <3>3. frameOrder \in Seq(T) /\ frameRun \in Seq(T)
      BY <3>2
    <3>4. QED
      BY <3>1, <3>3
  <2>7. frameOrder' \in Seq(1 .. n)
    BY <2>4, <2>5, <2>6
  <2>8. ToSet(frameOrder') = ToSet(frameOrder) \cup {n}
    <3>1. <<n>> \in Seq(1 .. n) /\ Append(frameOrder, n) = frameOrder \o <<n>>
      BY <2>5, <2>6
    <3>2. ToSet(<<n>>) = {n}
      BY DEF ToSet
    <3>3. ToSet(frameOrder \o <<n>>) = ToSet(frameOrder) \cup ToSet(<<n>>)
      BY <2>6, <3>1, ConcatOrder
    <3>4. QED
      BY <2>4, <3>1, <3>2, <3>3
  <2>9. frames' \in SUBSET [id : 1 .. n, owner : Documents]
    BY <1>4, <2>3, <2>4, <2>5
  <2>10. owner \notin retired
    BY <1>4 DEF Owners
  <2>11. /\ \A x \in frames' : x.id \in ToSet(frameOrder') \cup ToSet(frameRun')
         /\ \A d \in retired : \A x \in frames' : x.owner # d
    BY <1>4, <2>3, <2>4, <2>8, <2>10
  <2>12. QED
    BY <1>1, <2>2, <2>4, <2>6, <2>7, <2>9, <2>11 DEF histVars
<1>6. CASE \E id \in 1 .. nextFrame : CancelAnimationFrame(id)
  <2>1. /\ frames' \subseteq frames
        /\ UNCHANGED <<nextFrame, frameOrder, frameRun>>
    BY <1>6 DEF CancelAnimationFrame
  <2>2. QED
    BY <1>1, <1>4, <2>1 DEF histVars
<1>7. CASE BeginAnimationFrame
  <2>1. /\ frameRun = <<>> /\ frameRun' = frameOrder /\ frameOrder' = <<>>
        /\ nextFrame' = nextFrame /\ frames' = frames
    BY <1>7 DEF BeginAnimationFrame
  <2>2. ToSet(frameRun) = {}
    BY <2>1 DEF ToSet
  <2>3. frameOrder' \in Seq(1 .. nextFrame)
    BY <2>1
  <2>4. QED
    BY <1>1, <1>4, <2>1, <2>2, <2>3 DEF histVars
<1>8. CASE TakeAnimationFrameCallback
  <2>1. /\ frameRun # <<>> /\ frames' = {f \in frames : f.id # Head(frameRun)}
        /\ frameRun' = Tail(frameRun) /\ nextFrame' = nextFrame /\ frameOrder' = frameOrder
    BY <1>8 DEF TakeAnimationFrameCallback
  <2>2. frameRun' \in Seq(1 .. nextFrame)
        /\ ToSet(frameRun) = ToSet(frameRun') \cup {Head(frameRun)}
    BY <1>4, <2>1, TailOrder
  <2>3. QED
    BY <1>1, <1>4, <2>1, <2>2 DEF histVars
<1>9. QED
  BY <1>5, <1>6, <1>7, <1>8

-----------------------------------------------------------------------------
(***************************************************************************)
(* The clock.                                                              *)
(***************************************************************************)

\* What `advance` makes of the timers that are due: one task each, in fire order.
Promoted(due, ready, tasks) ==
    /\ ready \in Seq(due) /\ tasks \in Seq(Tasks) /\ Len(tasks) = Len(ready)
    /\ Len(ready) \in Nat /\ (ready = <<>> <=> due = {})
    /\ \A i \in 1 .. Len(ready) :
          /\ ready[i] \in due
          /\ tasks[i].kind = "timer" /\ tasks[i].owner = ready[i].owner
          /\ tasks[i].timer = ready[i].id /\ tasks[i].due = ready[i].next
    /\ \A i, j \in 1 .. Len(ready) : i < j => ready[i].next <= ready[j].next

LEMMA ReadyFacts ==
    ASSUME IInv, NEW due \in SUBSET timers
    PROVE  Promoted(due, Ready(due), TimerTasks(Ready(due)))
<1> DEFINE before == {p \in due \X due : Earlier(p[1], p[2])}
           ready == Ready(due)
           tasks == TimerTasks(ready)
<1>1. /\ IsFiniteSet(due) /\ \A t \in due : t \in Timers
      /\ \A t \in due : t.id \in Nat /\ t.next \in Nat
      /\ \A t, u \in due : t.id = u.id => t = u
  <2>1. IsFiniteSet(timers) /\ timers \subseteq Timers
    BY DEF IInv, TypeOK
  <2>2. IsFiniteSet(due)
    BY <2>1, FS_Subset
  <2>3. \A t, u \in due : t.id = u.id => t = u
    BY DEF IInv, TimerInv
  <2>4. QED
    BY <2>1, <2>2, <2>3 DEF Timers
<1>2. \A t, u \in due : <<t, u>> \in before <=> Earlier(t, u)
  OBVIOUS
<1>3. StrictOrder(due, before)
  <2>1. \A t \in due : ~Earlier(t, t)
    BY <1>1 DEF Earlier
  <2>2. \A t, u, v \in due : Earlier(t, u) /\ Earlier(u, v) => Earlier(t, v)
    BY <1>1 DEF Earlier
  <2>3. \A t, u \in due : t = u \/ Earlier(t, u) \/ Earlier(u, t)
    <3> TAKE t, u \in due
    <3>1. t.id \in Nat /\ u.id \in Nat /\ t.next \in Nat /\ u.next \in Nat
      BY <1>1
    <3>2. t.id = u.id \/ Earlier(t, u) \/ Earlier(u, t)
      BY <3>1 DEF Earlier
    <3>3. QED
      BY <1>1, <3>2
  <2>4. QED
    BY <1>2, <2>1, <2>2, <2>3 DEF StrictOrder
<1> HIDE DEF before, ready, tasks
<1>4. PICK n \in Nat :
          /\ n = Cardinality(due)
          /\ ready \in [1 .. n -> due] /\ ready \in Seq(due) /\ Len(ready) = n
          /\ \A x \in due : \E k \in 1 .. n : ready[k] = x
          /\ \A i, j \in 1 .. n : i < j => <<ready[i], ready[j]>> \in before
  <2> DEFINE m == Cardinality(due)
  <2>1. ready = Enumerate(due, before)
    BY DEF Ready, ready, before
  <2>2. /\ m \in Nat /\ ready \in [1 .. m -> due] /\ ready \in Seq(due) /\ Len(ready) = m
        /\ \A x \in due : \E k \in 1 .. m : ready[k] = x
        /\ \A i, j \in 1 .. m : i < j => <<ready[i], ready[j]>> \in before
    BY <1>1, <1>3, <2>1, EnumerateFacts
  <2> HIDE DEF m
  <2>3. QED
    BY <2>2, Zenon DEF m
<1>5. ready = <<>> <=> due = {}
  BY <1>4
<1>6. ASSUME NEW i \in 1 .. n
      PROVE  /\ ready[i] \in due /\ tasks[i] \in Tasks
             /\ tasks[i].kind = "timer" /\ tasks[i].owner = ready[i].owner
             /\ tasks[i].timer = ready[i].id /\ tasks[i].due = ready[i].next
  <2>1. ready[i] \in due /\ ready[i] \in Timers
    BY <1>1, <1>4
  <2>2. nextTask \in Nat /\ None \in Nodes /\ "timer" \in Kinds
    BY LoadFacts DEF IInv, TypeOK, Kinds
  <2>3. tasks[i] = Task("timer", ready[i].owner, None, ready[i].id, ready[i].next)
    BY <1>4 DEF tasks, TimerTasks
  <2>4. QED
    BY <2>1, <2>2, <2>3 DEF Task, Tasks, Timers
<1>7. tasks \in Seq(Tasks) /\ Len(tasks) = n
  <2>1. DOMAIN tasks = 1 .. n /\ tasks = [i \in 1 .. n |-> tasks[i]]
    BY <1>4 DEF tasks, TimerTasks
  <2>2. QED
    BY <1>6, <2>1
<1>8. \A i, j \in 1 .. n : i < j => ready[i].next <= ready[j].next
  <2> TAKE i, j \in 1 .. n
  <2>1. ready[i] \in due /\ ready[j] \in due
    BY <1>4
  <2>2. i < j => Earlier(ready[i], ready[j])
    BY <1>2, <1>4, <2>1
  <2>3. ready[i].next \in Nat /\ ready[j].next \in Nat
    BY <1>1, <2>1
  <2>4. QED
    BY <2>2, <2>3 DEF Earlier
<1>9. Promoted(due, ready, tasks)
  BY <1>4, <1>5, <1>6, <1>7, <1>8 DEF Promoted
<1>10. QED
  BY <1>9 DEF ready, tasks

LEMMA AdvanceStep ==
    ASSUME IInv, NEW elapsed \in load.delays, Advance(elapsed), load' = load
    PROVE  /\ IInv' /\ now <= now'
           /\ (order' = <<>> <=> order = <<>> /\ \A t \in timers : ~(t.next <= now'))
<1>1. /\ load \in Workloads /\ load.time \in Nat /\ elapsed \in Nat /\ load.tasks \in Nat
      /\ now \in 0 .. load.time /\ nextTask \in Nat
  BY LoadFacts DEF IInv, TypeOK
<1>2. PICK time \in 0 .. load.time : time = Saturate(now + elapsed) /\ now <= time
  BY <1>1, SaturateFacts
<1>3. PICK due \in SUBSET timers : due = {t \in timers : t.next <= time}
  OBVIOUS
<1>4. PICK ready, tasks : ready = Ready(due) /\ tasks = TimerTasks(ready)
  OBVIOUS
<1> DEFINE again == {[t EXCEPT !.next = Saturate(time + t.interval)] :
                       t \in {u \in due : u.repeat}}
<1>5. /\ nextTask + Len(ready) <= load.tasks + 1 /\ now' = time
      /\ timers' = (timers \ due) \cup again
      /\ EnqueueAll("Timer", tasks)
      /\ UNCHANGED <<nextTimer, frameVars, histVars>>
  BY <1>2, <1>3, <1>4 DEF Advance
<1>6. /\ ready \in Seq(due) /\ tasks \in Seq(Tasks) /\ Len(tasks) = Len(ready)
      /\ Len(ready) \in Nat /\ (ready = <<>> <=> due = {})
      /\ \A i \in 1 .. Len(ready) :
            /\ ready[i] \in due
            /\ tasks[i].kind = "timer" /\ tasks[i].owner = ready[i].owner
            /\ tasks[i].timer = ready[i].id /\ tasks[i].due = ready[i].next
      /\ \A i, j \in 1 .. Len(ready) : i < j => ready[i].next <= ready[j].next
  BY <1>4, ReadyFacts DEF Promoted
<1>7. PICK n \in Nat : n = Len(ready)
  BY <1>6
<1>8. /\ "Timer" \in Sources /\ SourceOf("timer") = "Timer"
      /\ \A i \in 1 .. Len(tasks) : SourceOf(tasks[i].kind) = "Timer"
      /\ nextTask + Len(tasks) <= load.tasks + 1 /\ UNCHANGED <<load, lastRun>>
  BY <1>5, <1>6, SourceFacts DEF histVars, SourceOf
<1>9. Queued' /\ (order' = <<>> <=> order = <<>> /\ tasks = <<>>)
  BY <1>1, <1>5, <1>6, <1>8, QueuedFacts, EnqueueKeeps
<1>10. PICK new \in Seq(Tasks) :
          /\ Len(new) = Len(tasks)
          /\ \A i \in 1 .. Len(tasks) :
                /\ new[i].kind = tasks[i].kind /\ new[i].owner = tasks[i].owner
                /\ new[i].timer = tasks[i].timer /\ new[i].due = tasks[i].due
          /\ queues'["Timer"] = queues["Timer"] \o new
          /\ ToSet(queues'["Timer"]) = ToSet(queues["Timer"]) \cup ToSet(new)
          /\ \A s \in Sources \ {"Timer"} : queues'[s] = queues[s]
  BY <1>1, <1>5, <1>6, <1>8, QueuedFacts, EnqueueKeeps
<1>11. /\ Len(new) = n /\ DOMAIN new = 1 .. n
       /\ \A i \in 1 .. n :
             /\ ready[i] \in due /\ new[i] \in Tasks
             /\ new[i].kind = "timer" /\ new[i].owner = ready[i].owner
             /\ new[i].timer = ready[i].id /\ new[i].due = ready[i].next
       /\ \A i, j \in 1 .. n : i < j => ready[i].next <= ready[j].next
  <2>1. n = Len(tasks) /\ Len(new) = n /\ DOMAIN new = 1 .. n
    BY <1>6, <1>7, <1>10
  <2>2. \A i \in 1 .. n : new[i] \in Tasks
    BY <2>1
  <2>3. \A i \in 1 .. n :
            /\ ready[i] \in due
            /\ new[i].kind = "timer" /\ new[i].owner = ready[i].owner
            /\ new[i].timer = ready[i].id /\ new[i].due = ready[i].next
    BY <1>6, <1>7, <1>10, <2>1
  <2>4. QED
    BY <1>6, <1>7, <2>1, <2>2, <2>3
<1>12. \A t \in timers : /\ t \in Timers /\ now <= t.next /\ t.id \in 1 .. (nextTimer - 1)
                         /\ t.next \in Nat /\ t.interval \in Nat /\ t.id \in Nat
  BY DEF IInv, TimerInv, TypeOK, Timers
<1>13. \A x \in ToSet(new) :
          /\ x \in Tasks /\ x.kind = "timer"
          /\ \E t \in due : x.owner = t.owner /\ x.timer = t.id /\ x.due = t.next
  <2> TAKE x \in ToSet(new)
  <2>1. PICK i \in 1 .. n : new[i] = x
    BY <1>11, InToSet
  <2>2. QED
    BY <1>11, <2>1
<1>14. QueuedTasks' = QueuedTasks \cup ToSet(new)
  <2>1. \A s \in Sources : ToSet(queues'[s]) =
            IF s = "Timer" THEN ToSet(queues[s]) \cup ToSet(new) ELSE ToSet(queues[s])
    BY <1>8, <1>10
  <2>2. \A x : x \in QueuedTasks' <=> x \in QueuedTasks \cup ToSet(new)
    BY <1>8, <2>1 DEF QueuedTasks
  <2>3. QED
    BY <2>2
<1>15. \A x \in again : \E t \in due :
          /\ t.repeat /\ x = [t EXCEPT !.next = Saturate(time + t.interval)]
  OBVIOUS
<1>16. ASSUME NEW x \in again
       PROVE  /\ x \in Timers /\ now' <= x.next /\ x.repeat
              /\ \E t \in due : x.id = t.id /\ x.owner = t.owner
  <2>1. PICK t \in due : t.repeat /\ x = [t EXCEPT !.next = Saturate(time + t.interval)]
    BY <1>15
  <2>2. t \in Timers /\ t.interval \in Nat
    BY <1>12
  <2>3. PICK later \in 0 .. load.time : later = Saturate(time + t.interval) /\ time <= later
    BY <1>1, <2>2, SaturateFacts
  <2>4. later \in Nat
    BY <1>1
  <2>5. /\ x \in Timers /\ x.next = later /\ x.repeat = t.repeat
        /\ x.id = t.id /\ x.owner = t.owner
    BY <2>1, <2>2, <2>3, <2>4 DEF Timers
  <2>6. QED
    BY <1>5, <2>1, <2>3, <2>5
<1>17. \A x, y \in again : x.id = y.id => x = y
  <2> TAKE x, y \in again
  <2>1. PICK t \in due : t.repeat /\ x = [t EXCEPT !.next = Saturate(time + t.interval)]
    BY <1>15
  <2>2. PICK u \in due : u.repeat /\ y = [u EXCEPT !.next = Saturate(time + u.interval)]
    BY <1>15
  <2>3. t \in Timers /\ u \in Timers
    BY <1>12
  <2>4. x.id = t.id /\ y.id = u.id
    BY <2>1, <2>2, <2>3 DEF Timers
  <2>5. t.id = u.id => t = u
    BY DEF IInv, TimerInv
  <2>6. QED
    BY <2>1, <2>2, <2>4, <2>5
<1>18. IsFiniteSet(timers')
  <2>1. IsFiniteSet(timers) /\ IsFiniteSet(timers \ due) /\ IsFiniteSet({u \in due : u.repeat})
    BY FS_Subset DEF IInv, TypeOK
  <2>2. IsFiniteSet(again)
    <3>1. PICK A : A = {u \in due : u.repeat} /\ IsFiniteSet(A)
      BY <2>1
    <3> DEFINE f == [t \in A |-> [t EXCEPT !.next = Saturate(time + t.interval)]]
    <3>2. f \in Surjection(A, again)
      BY <3>1 DEF Surjection
    <3>3. QED
      BY <3>1, <3>2, FS_Surjection
  <2>3. QED
    BY <1>5, <2>1, <2>2, FS_Union
<1> HIDE DEF again
<1>19. \A x \in timers' : \/ x \in timers /\ x \notin due
                          \/ x \in again
  BY <1>5
<1>20. TypeOK'
  <2>1. timers' \in SUBSET Timers
    BY <1>12, <1>16, <1>19
  <2>2. now' \in 0 .. load.time
    BY <1>5
  <2>3. QED
    BY <1>5, <1>9, <1>18, <2>1, <2>2 DEF IInv, TypeOK, Queued, frameVars, histVars
<1>21. NothingOfRetired'
  <2>1. /\ retired' = retired /\ frames' = frames /\ frameOrder' = frameOrder
        /\ frameRun' = frameRun
    BY <1>5 DEF frameVars, histVars
  <2>2. \A d \in retired : \A t \in timers : t.owner # d
    BY DEF IInv, NothingOfRetired
  <2>3. \A d \in retired : \A t \in timers' : t.owner # d
    BY <1>16, <1>19, <2>2
  <2>4. \A d \in retired : \A t \in QueuedTasks' : Owned(t.kind) => t.owner # d
    BY <1>13, <1>14, <2>2 DEF IInv, NothingOfRetired
  <2>5. QED
    BY <2>1, <2>3, <2>4 DEF IInv, NothingOfRetired, NoStrandedFrame
<1>22. now \in Nat /\ time \in Nat /\ lastDue \in Nat /\ lastDue <= now
  BY <1>1 DEF IInv, TypeOK, TimerInv
<1>23. \A t \in due : t \in timers /\ t.next <= time
  BY <1>3
<1>24. \A t \in timers : t \notin due => time < t.next
  BY <1>3, <1>12, <1>22
<1>25. \A x \in timers' : now' <= x.next /\ x.id \in 1 .. (nextTimer' - 1)
  BY <1>5, <1>12, <1>16, <1>19, <1>22, <1>24
<1>26. \A x, y \in timers' : x.id = y.id => x = y
  <2>1. \A t, u \in timers : t.id = u.id => t = u
    BY DEF IInv, TimerInv
  <2>2. \A x \in again : \E t \in due : x.id = t.id
    BY <1>16
  <2>3. QED
    BY <1>17, <1>19, <2>1, <2>2
<1>27. \A x \in ToSet(new) : now <= x.due /\ x.due <= time /\ x.due \in Nat
  BY <1>12, <1>13, <1>23
<1>28. \A x \in ToSet(queues["Timer"]) :
          x \in Tasks /\ x.due \in Nat /\ lastDue <= x.due /\ x.due <= now
  BY <1>8, QueuedFacts DEF IInv, TimerInv, Tasks
<1>29. \A x \in ToSet(queues'["Timer"]) : lastDue' <= x.due /\ x.due <= now'
  <2> TAKE x \in ToSet(queues'["Timer"])
  <2>1. lastDue' = lastDue /\ now' = time
    BY <1>5 DEF histVars
  <2>2. CASE x \in ToSet(queues["Timer"])
    BY <1>2, <1>22, <1>28, <2>1, <2>2
  <2>3. CASE x \in ToSet(new)
    BY <1>2, <1>22, <1>27, <2>1, <2>3
  <2>4. QED
    BY <1>10, <2>2, <2>3
<1>30. \A i, j \in DOMAIN queues'["Timer"] :
          i < j => <<queues'["Timer"][i], queues'["Timer"][j]>> \in ByDue
  <2>1. PICK q \in Seq(Tasks) : q = queues["Timer"]
    BY <1>8, QueuedFacts DEF Queued
  <2>2. \A i, j \in DOMAIN q : i < j => <<q[i], q[j]>> \in ByDue
    BY <2>1 DEF IInv, TimerInv
  <2>3. \A i, j \in DOMAIN new : i < j => <<new[i], new[j]>> \in ByDue
    BY <1>11 DEF ByDue
  <2>4. \A x \in ToSet(q), y \in ToSet(new) : <<x, y>> \in ByDue
    <3> TAKE x \in ToSet(q), y \in ToSet(new)
    <3>1. x \in Tasks /\ y \in Tasks /\ x.due \in Nat /\ x.due <= now
          /\ y.due \in Nat /\ now <= y.due
      BY <1>13, <1>27, <1>28, <2>1
    <3>2. x.due <= y.due
      BY <1>22, <3>1
    <3>3. QED
      BY <3>1, <3>2 DEF ByDue
  <2>5. \A i, j \in DOMAIN (q \o new) : i < j => <<(q \o new)[i], (q \o new)[j]>> \in ByDue
    BY <2>2, <2>3, <2>4, ConcatOrder
  <2>6. QED
    BY <1>10, <2>1, <2>5
<1>31. \A u \in QueuedTasks' : u.timer < nextTimer' /\ (u.timer # 0 => u.kind = "timer")
  <2>1. nextTimer' = nextTimer /\ nextTimer \in Nat
    BY <1>1, <1>5, LoadFacts DEF IInv, TypeOK
  <2>2. \A t \in timers : t.id < nextTimer
    BY <1>12, <2>1
  <2>3. \A u \in ToSet(new) : u.timer < nextTimer /\ u.kind = "timer"
    BY <1>13, <1>23, <2>2
  <2>4. QED
    BY <1>14, <2>1, <2>3 DEF IInv, TimerInv
<1>32. \A x \in timers' :
          ~x.repeat => x.id \notin fired' /\ \A u \in QueuedTasks' : u.timer # x.id
  <2> TAKE x \in timers'
  <2> HAVE ~x.repeat
  <2>1. x \in timers /\ x \notin due
    BY <1>16, <1>19
  <2>2. x.id \notin fired /\ \A u \in QueuedTasks : u.timer # x.id
    BY <2>1 DEF IInv, TimerInv
  <2>3. \A t \in due : t.id # x.id
    BY <1>23, <2>1 DEF IInv, TimerInv
  <2>4. \A u \in ToSet(new) : u.timer # x.id
    BY <1>13, <2>3
  <2>5. QED
    BY <1>5, <1>14, <2>2, <2>4 DEF histVars
<1>33. TimerInv'
  <2>1. lastDue' <= now' /\ \A id \in fired' : id < nextTimer'
    <3>1. lastDue' = lastDue /\ now' = time /\ fired' = fired /\ nextTimer' = nextTimer
      BY <1>5 DEF histVars
    <3>2. lastDue <= time
      BY <1>2, <1>22
    <3>3. QED
      BY <3>1, <3>2 DEF IInv, TimerInv
  <2>2. QED
    BY <1>25, <1>26, <1>29, <1>30, <1>31, <1>32, <2>1 DEF TimerInv
<1>34. tasks = <<>> <=> \A t \in timers : ~(t.next <= now')
  <2>1. tasks = <<>> <=> ready = <<>>
    BY <1>6
  <2>2. QED
    BY <1>3, <1>5, <1>6, <2>1
<1>35. QED
  BY <1>2, <1>5, <1>9, <1>20, <1>21, <1>33, <1>34 DEF IInv, Queued

-----------------------------------------------------------------------------
(***************************************************************************)
(* The invariant.                                                          *)
(***************************************************************************)
LEMMA IInvInit == Init => IInv
<1> SUFFICES ASSUME Init PROVE IInv
  OBVIOUS
<1>1. /\ load.tasks \in Nat /\ load.timers \in Nat /\ load.frames \in Nat /\ load.time \in Nat
  BY LoadFacts DEF Init
<1>2. \A s \in Sources : queues[s] = <<>>
  BY DEF Init
<1>3. ToSet(<<>>) = {}
  BY DEF ToSet
<1>4. QueuedTasks = {}
  BY <1>2, <1>3 DEF QueuedTasks
<1>5. TypeOK
  BY <1>1, FS_EmptySet DEF Init, TypeOK
<1>6. QueueInv
  BY <1>2, <1>3 DEF Init, QueueInv, QueueIds, OrderIds
<1>7. TimerInv
  BY <1>2, <1>3, <1>4, SourceFacts DEF Init, TimerInv
<1>8. NothingOfRetired
  BY <1>4 DEF Init, NothingOfRetired, NoStrandedFrame
<1>9. QED
  BY <1>5, <1>6, <1>7, <1>8 DEF IInv

LEMMA IInvStep == IInv /\ [Next]_vars => IInv'
<1> SUFFICES ASSUME IInv, [Next]_vars PROVE IInv'
  OBVIOUS
<1>1. CASE UNCHANGED vars
  <2>1. UNCHANGED <<load, taskVars, timerVars, frameVars, histVars>>
    BY <1>1 DEF vars
  <2>2. Queued' /\ QueueInv' /\ QueuedTasks' = QueuedTasks /\ queues' = queues
    BY <2>1, QueuedSame DEF histVars
  <2>3. TypeOK'
    BY <2>1, <2>2 DEF IInv, TypeOK, Queued, timerVars, frameVars, histVars
  <2>4. TimerInv'
    BY <2>1, <2>2 DEF IInv, TimerInv, timerVars, histVars
  <2>5. NothingOfRetired'
    BY <2>1, <2>2 DEF IInv, NothingOfRetired, NoStrandedFrame, timerVars, frameVars, histVars
  <2>6. QED
    BY <2>2, <2>3, <2>4, <2>5 DEF IInv
<1>2. CASE Step /\ load' = load
  <2>1. CASE \/ \E owner \in Owners, node \in load.nodes : EnqueueTimerPayload(owner, node)
             \/ \E kind \in load.kinds, d \in load.docs \ retired : EnqueueForDocument(kind, d)
             \/ \E kind \in load.kinds : EnqueueNavigation(kind)
             \/ EnqueueMessage
    BY <1>2, <2>1, EnqueueSteps
  <2>2. CASE PopTask
    BY <1>2, <2>2, PopTaskStep
  <2>3. CASE PopNavigationTask
    BY <1>2, <2>3, PopNavigationStep
  <2>4. CASE \E delay \in load.delays, repeat \in BOOLEAN, owner \in Owners :
                ScheduleTimer(delay, repeat, owner)
    BY <1>2, <2>4, ScheduleTimerStep
  <2>5. CASE \E id \in 1 .. (nextTimer - 1) : ClearTimer(id)
    BY <1>2, <2>5, ClearTimerStep
  <2>6. CASE \E elapsed \in load.delays : Advance(elapsed)
    BY <1>2, <2>6, AdvanceStep
  <2>7. CASE \/ \E owner \in Owners : ScheduleAnimationFrame(owner)
             \/ \E id \in 1 .. nextFrame : CancelAnimationFrame(id)
             \/ BeginAnimationFrame
             \/ TakeAnimationFrameCallback
    BY <1>2, <2>7, FrameSteps
  <2>8. CASE \E d \in load.docs : CancelTasksForDocument(d)
    BY <1>2, <2>8, CancelDocumentStep
  <2>9. CASE \E nodes \in (SUBSET load.nodes) \ {{}} : CancelResourceLoadsForNodes(nodes)
    BY <1>2, <2>9, CancelLoadsStep
  <2>10. QED
    BY <1>2, <2>1, <2>2, <2>3, <2>4, <2>5, <2>6, <2>7, <2>8, <2>9 DEF Step
<1>3. QED
  BY <1>1, <1>2 DEF Next

LEMMA IInvAlways == Spec => []IInv
  BY IInvInit, IInvStep, PTL DEF Spec

-----------------------------------------------------------------------------
(***************************************************************************)
(* What the invariant implies.                                             *)
(***************************************************************************)

\* Two increasing lists of the same ids are the same list.
LEMMA OrderAgrees == IInv => OrderMatchesQueues
<1> SUFFICES ASSUME IInv, NEW s \in Sources
             PROVE  LET ofSource == Keep(order, {e \in ToSet(order) : e.source = s})
                    IN  /\ Len(ofSource) = Len(queues[s])
                        /\ \A i \in DOMAIN ofSource : ofSource[i].id = queues[s][i].id
  BY DEF OrderMatchesQueues
<1>1. PICK S : S = {e \in ToSet(order) : e.source = s}
  OBVIOUS
<1>2. PICK o \in Seq(Entries) : o = order
  BY DEF IInv, TypeOK
<1>3. PICK k \in Seq(Entries) : k = Keep(o, S) /\ ToSet(k) = ToSet(o) \cap S
  BY KeepFacts
<1>4. \A i, j \in DOMAIN k : i < j => <<k[i], k[j]>> \in ByEntry
  <2>1. \A i, j \in DOMAIN o : i < j => <<o[i], o[j]>> \in ByEntry
    BY <1>2 DEF IInv, QueueInv
  <2>2. QED
    BY <1>3, <2>1, KeepOrder
<1>5. PICK q \in Seq(Tasks) : q = queues[s]
  BY DEF IInv, TypeOK
<1>6. \A i, j \in DOMAIN q : i < j => <<q[i], q[j]>> \in ById
  BY <1>5 DEF IInv, QueueInv
<1>7. PICK m \in Nat, n \in Nat : /\ m = Len(k) /\ n = Len(q)
                                  /\ DOMAIN k = 1 .. m /\ DOMAIN q = 1 .. n
  OBVIOUS
<1> DEFINE a == [i \in 1 .. m |-> k[i].id]
           b == [i \in 1 .. n |-> q[i].id]
<1>8. a \in [1 .. m -> Nat] /\ b \in [1 .. n -> Nat]
  <2>1. \A i \in 1 .. m : k[i] \in Entries
    BY <1>7
  <2>2. \A i \in 1 .. n : q[i] \in Tasks
    BY <1>7
  <2>3. QED
    BY <2>1, <2>2 DEF Entries, Tasks
<1>9. \A i, j \in 1 .. m : i < j => a[i] < a[j]
  BY <1>4, <1>7 DEF ByEntry
<1>10. \A i, j \in 1 .. n : i < j => b[i] < b[j]
  BY <1>6, <1>7 DEF ById
<1>11. {t.id : t \in ToSet(q)} = {e.id : e \in ToSet(k)}
  <2>1. QueueIds(s) = OrderIds(s)
    BY DEF IInv, QueueInv
  <2>2. ToSet(k) = {x \in ToSet(order) : x.source = s}
    BY <1>1, <1>2, <1>3
  <2>3. QED
    BY <1>5, <2>1, <2>2 DEF QueueIds, OrderIds
<1>12. ASSUME NEW i \in 1 .. m
       PROVE  \E j \in 1 .. n : a[i] = b[j]
  <2>1. k[i] \in ToSet(k)
    BY <1>7, InToSet
  <2>2. PICK t \in ToSet(q) : t.id = k[i].id
    BY <1>11, <2>1
  <2>3. PICK j \in 1 .. n : q[j] = t
    BY <1>7, InToSet
  <2>4. QED
    BY <2>2, <2>3
<1>13. ASSUME NEW j \in 1 .. n
       PROVE  \E i \in 1 .. m : a[i] = b[j]
  <2>1. q[j] \in ToSet(q)
    BY <1>7, InToSet
  <2>2. PICK e \in ToSet(k) : e.id = q[j].id
    BY <1>11, <2>1
  <2>3. PICK i \in 1 .. m : k[i] = e
    BY <1>7, InToSet
  <2>4. QED
    BY <2>2, <2>3
<1>14. \A i \in 1 .. m : a[i] = k[i].id
  OBVIOUS
<1>15. \A i \in 1 .. n : b[i] = q[i].id
  OBVIOUS
<1> HIDE DEF a, b
<1>16. m = n /\ \A i \in 1 .. m : a[i] = b[i]
  <2>1. Rising(a, m) /\ Rising(b, n)
    BY <1>8, <1>9, <1>10 DEF Rising
  <2>2. Occurs(a, m, b, n) /\ Occurs(b, n, a, m)
    BY <1>12, <1>13 DEF Occurs
  <2>3. QED
    BY <2>1, <2>2, RisingListsAgree
<1>17. Len(k) = Len(q) /\ \A i \in DOMAIN k : k[i].id = q[i].id
  BY <1>7, <1>14, <1>15, <1>16
<1>18. QED
  BY <1>1, <1>2, <1>3, <1>5, <1>17

\* The tasks run in the order in which they were enqueued, the order of the
\* event loop and its queues never disagree, and so the assertion in pop_task
\* never fails.
THEOREM TaskOrderAlways == Spec => []TaskOrder
<1>1. IInv => FifoAcrossSources
  <2> SUFFICES ASSUME IInv PROVE FifoAcrossSources
    OBVIOUS
  <2>1. \A i, j \in DOMAIN order : i < j => order[i].id < order[j].id
    BY DEF IInv, QueueInv, ByEntry
  <2>2. ASSUME NEW e \in ToSet(order) PROVE e.id > lastRun
    <3>1. lastRun < e.id /\ lastRun \in Nat
      BY DEF IInv, QueueInv, TypeOK
    <3>2. e \in Entries
      BY InToSet DEF IInv, TypeOK
    <3>3. QED
      BY <3>1, <3>2 DEF Entries
  <2>3. QED
    BY <2>1, <2>2 DEF FifoAcrossSources
<1>2. IInv => TaskOrder
  BY <1>1, OrderAgrees DEF IInv, TaskOrder
<1>3. QED
  BY <1>2, IInvAlways, PTL

\* Timers fire in the order of their times, over any number of advances, and a
\* timeout runs at most once.
THEOREM TimersInOrderAlways == Spec => []TimersInOrder
<1>1. ASSUME IInv PROVE FireTimeOrder
  <2>1. PICK S : S = {t \in QueuedTasks : t.timer # 0}
    OBVIOUS
  <2>2. PICK q \in Seq(Tasks) : q = queues["Timer"]
    BY <1>1, SourceFacts DEF IInv, TypeOK
  <2>3. PICK k \in Seq(Tasks) : k = Keep(q, S) /\ ToSet(k) = ToSet(q) \cap S
    BY KeepFacts
  <2>4. \A i, j \in DOMAIN k : i < j => <<k[i], k[j]>> \in ByDue
    <3>1. \A i, j \in DOMAIN q : i < j => <<q[i], q[j]>> \in ByDue
      BY <1>1, <2>2 DEF IInv, TimerInv
    <3>2. QED
      BY <2>3, <3>1, KeepOrder
  <2>5. \A i, j \in DOMAIN k : i < j => k[i].due <= k[j].due
    BY <2>4 DEF ByDue
  <2>6. \A t \in ToSet(k) : lastDue <= t.due /\ t.due <= now
    BY <1>1, <2>2, <2>3 DEF IInv, TimerInv
  <2>7. QED
    BY <2>1, <2>2, <2>3, <2>5, <2>6 DEF FireTimeOrder
<1>2. ASSUME IInv PROVE OneShotOnce
  <2> SUFFICES ASSUME NEW id \in 1 .. (nextTimer - 1), NEW t \in timers, t.id = id, ~t.repeat
               PROVE  /\ {u \in QueuedTasks : u.timer = id} = {} /\ id \notin fired
                      /\ Cardinality({u \in timers : u.id = id}) = 1
    BY DEF OneShotOnce
  <2>1. {u \in timers : u.id = id} = {t}
    BY <1>2 DEF IInv, TimerInv
  <2>2. Cardinality({t}) = 1
    BY FS_Singleton
  <2>3. QED
    BY <1>2, <2>1, <2>2 DEF IInv, TimerInv
<1>3. IInv => TimersInOrder
  BY <1>1, <1>2 DEF TimersInOrder
<1>4. QED
  BY <1>3, IInvAlways, PTL

\* After cancel_tasks_for_document nothing of the document is left, and no
\* animation frame callback of another is stranded.
THEOREM NothingOfRetiredAlways == Spec => []NothingOfRetired
<1>1. IInv => NothingOfRetired
  BY DEF IInv
<1>2. QED
  BY <1>1, IInvAlways, PTL

\* An embedder that sleeps for next_timer_delay_ms finds a task, and one that
\* sleeps less finds none.
THEOREM DelayIsExactAlways == Spec => DelayIsExact
<1> DEFINE Exact == (now' # now /\ order = <<>> /\ NextTimerDelay # None) =>
                        (order' # <<>> <=> now' >= now + NextTimerDelay)
<1>1. ASSUME IInv, [Next]_vars, now' # now, order = <<>>, NextTimerDelay # None
      PROVE  order' # <<>> <=> now' >= now + NextTimerDelay
  <2>1. PICK elapsed \in load.delays : Advance(elapsed) /\ load' = load
    <3>1. now' # now => \E elapsed \in load.delays : Advance(elapsed) /\ load' = load
      BY <1>1 DEF Next, Step, vars, timerVars, EnqueueTimerPayload, EnqueueForDocument,
         EnqueueNavigation, EnqueueMessage, PopTask, PopNavigationTask, ScheduleTimer,
         ClearTimer, ScheduleAnimationFrame, CancelAnimationFrame, BeginAnimationFrame,
         TakeAnimationFrameCallback, CancelTasksForDocument, CancelResourceLoadsForNodes
    <3>2. QED
      BY <1>1, <3>1
  <2>2. order' # <<>> <=> \E t \in timers : t.next <= now'
    BY <1>1, <2>1, AdvanceStep
  <2>3. timers # {}
    BY <1>1 DEF NextTimerDelay
  <2>4. \A t \in timers : t.next \in Nat /\ now <= t.next
    BY <1>1 DEF IInv, TypeOK, TimerInv, Timers
  <2>5. \E t \in timers : \A u \in timers : t.next <= u.next
    <3>1. {t.next : t \in timers} \in SUBSET Nat /\ {t.next : t \in timers} # {}
      BY <2>3, <2>4
    <3>2. PICK x \in {t.next : t \in timers} : \A y \in {t.next : t \in timers} : x <= y
      BY <3>1, LeastNumber
    <3>3. QED
      BY <3>2
  <2>6. PICK first \in timers :
            /\ \A u \in timers : first.next <= u.next
            /\ NextTimerDelay = IF first.next > now THEN first.next - now ELSE 0
    <3> DEFINE choice == CHOOSE t \in timers : \A u \in timers : t.next <= u.next
    <3>1. choice \in timers /\ \A u \in timers : choice.next <= u.next
      BY <2>5
    <3>2. NextTimerDelay = IF choice.next > now THEN choice.next - now ELSE 0
      BY <1>1, <2>3 DEF NextTimerDelay
    <3> HIDE DEF choice
    <3>3. QED
      BY <3>1, <3>2
  <2>7. now \in Nat /\ now' \in Nat
    <3>1. load.time \in Nat /\ TypeOK /\ TypeOK' /\ load' = load
      BY <1>1, <2>1, AdvanceStep, LoadFacts DEF IInv, TypeOK
    <3>2. QED
      BY <3>1 DEF TypeOK
  <2>8. now' >= now + NextTimerDelay <=> first.next <= now'
    BY <2>4, <2>6, <2>7
  <2>9. (\E t \in timers : t.next <= now') <=> first.next <= now'
    BY <2>4, <2>6, <2>7
  <2>10. QED
    BY <2>2, <2>8, <2>9
<1>2. IInv /\ [Next]_vars => [Exact]_vars
  BY <1>1
<1>3. QED
  BY <1>2, IInvAlways, PTL DEF Spec, DelayIsExact
=============================================================================
