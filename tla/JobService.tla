----------------------------- MODULE JobService -----------------------------
(***************************************************************************)
(* What a resource queue promises its callers, without threads or locks:   *)
(* an accepted job waits, the best waiting job takes one of `Limit` slots, *)
(* and every job is answered exactly once.  Once the service is closed it  *)
(* starts nothing new and refuses what waits.                              *)
(***************************************************************************)
EXTENDS Naturals, FiniteSets

CONSTANTS Limit, IdLimit, None, Priority, Scopes
VARIABLES queued, running, answer, closed, info

svars == <<queued, running, answer, closed, info>>

JobIds  == 0..(IdLimit - 1)
Answers == {"Complete", "Cancelled", "Panicked"}

Better(i, j) ==
    \/ info[i].priority > info[j].priority
    \/ info[i].priority = info[j].priority /\ i < j

Init ==
    /\ queued = {}
    /\ running = {}
    /\ answer = [id \in JobIds |-> None]
    /\ closed = FALSE
    /\ info \in [JobIds -> [priority : Priority, scope : Scopes, waker : BOOLEAN]]

\* Jobs are numbered in the order of their acceptance.
Accept(id) ==
    /\ ~closed
    /\ \A other \in JobIds :
          other < id <=> other \in queued \cup running \/ answer[other] # None
    /\ queued' = queued \cup {id}
    /\ \A other \in JobIds \ {id} : info'[other] = info[other]
    /\ UNCHANGED <<running, answer, closed>>

Start(id) ==
    /\ ~closed
    /\ id \in queued
    /\ \A other \in queued \ {id} : Better(id, other)
    /\ Cardinality(running) < Limit
    /\ queued' = queued \ {id}
    /\ running' = running \cup {id}
    /\ UNCHANGED <<answer, closed, info>>

Settle(id, a) ==
    /\ id \in running
    /\ running' = running \ {id}
    /\ answer' = [answer EXCEPT ![id] = a]
    /\ UNCHANGED <<queued, closed, info>>

Refuse(id) ==
    /\ closed
    /\ id \in queued
    /\ queued' = queued \ {id}
    /\ answer' = [answer EXCEPT ![id] = "Cancelled"]
    /\ UNCHANGED <<running, closed, info>>

Close ==
    /\ ~closed
    /\ closed' = TRUE
    /\ UNCHANGED <<queued, running, answer, info>>

Next ==
    \/ \E id \in JobIds : Accept(id) \/ Start(id) \/ Refuse(id)
    \/ \E id \in JobIds, a \in Answers : Settle(id, a)
    \/ Close

Spec == Init /\ [][Next]_svars

FairSpec ==
    /\ Spec
    /\ WF_svars(\E id \in JobIds : Start(id))
    /\ \A id \in JobIds :
          WF_svars(Refuse(id)) /\ WF_svars(\E a \in Answers : Settle(id, a))
=============================================================================
