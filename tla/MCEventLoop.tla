----------------------------- MODULE MCEventLoop -----------------------------
(***************************************************************************)
(* An instance of EventLoop for TLC with three workloads: the task queues, *)
(* the timers, and the end of a document.                                  *)
(***************************************************************************)
EXTENDS EventLoop

CONSTANTS d1, d2, n1

DocumentSymmetry == Permutations({d1, d2})

\* Four tasks over all sources, two documents, no timers.
QueueLoad ==
    [docs |-> {d1, d2}, nodes |-> {n1},
     kinds |-> {"resource", "lock", "violation", "navigation", "auxiliary",
                "message", "networking"},
     tasks |-> 4, timers |-> 0, frames |-> 0, time |-> 0, delays |-> {0}]

\* Two timers of three delays on a clock that saturates after three steps.
TimerLoad ==
    [docs |-> {}, nodes |-> {}, kinds |-> {"message"},
     tasks |-> 4, timers |-> 2, frames |-> 0, time |-> 3, delays |-> {0, 1, 2}]

\* Two documents with tasks, a timer and two animation frames to cancel.
RetireLoad ==
    [docs |-> {d1, d2}, nodes |-> {}, kinds |-> {"lock", "violation"},
     tasks |-> 2, timers |-> 1, frames |-> 2, time |-> 1, delays |-> {0, 1}]

\* Keep, Pick and Enumerate are the usual operators on sequences: Vec::retain,
\* VecDeque::remove and sort.
ASSUME OrderingsAgree ==
    /\ \A s \in BoundedSeq(1 .. 3, 4), S \in SUBSET (1 .. 3) :
          Keep(s, S) = SelectSeq(s, LAMBDA x : x \in S)
    /\ \A s \in BoundedSeq(1 .. 3, 4) : \A i \in DOMAIN s :
          Pick(s, DOMAIN s \ {i}) = RemoveAt(s, i)
    /\ \A S \in SUBSET (1 .. 5) :
          Enumerate(S, {p \in S \X S : p[1] > p[2]}) =
              SetToSortSeq(S, LAMBDA x, y : x > y)

AllLoads  == {QueueLoad, TimerLoad, RetireLoad}
TimerOnly == {TimerLoad}
=============================================================================
