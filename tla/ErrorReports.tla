---------------------------- MODULE ErrorReports ----------------------------
(***************************************************************************)
(* The error-report database of src/src/error_reporting/store.rs and the   *)
(* senders that share it: ManualSubmission (manual.rs), AutoSubmission     *)
(* (auto.rs) and the recording worker.  Each SQL statement is one atomic   *)
(* step; a sender's read of the report, its read of the submission state,  *)
(* its claim, the request to the backend and the bookkeeping afterwards    *)
(* are separate steps, so other processes come between them.               *)
(*                                                                         *)
(* A report is its counters; what it says is left out.  Time is a clock in *)
(* coarse units.  The configuration and approval checks are constant for a *)
(* run and assumed to permit submission.                                   *)
(***************************************************************************)
EXTENDS Naturals, Sequences, SequencesExt, FiniteSets, FiniteSetsExt, Orderings

CONSTANTS
    Scanners,        \* automatic senders (AutoSubmission)
    Operators,       \* senders of selected reports (ManualSubmission)
    Lease,           \* DELIVERY_LEASE
    Cooldown,        \* SubmissionPolicy.cooldown
    InitialBackoff, MaxBackoff, Hour, Day,
    MaxFailures,     \* SubmissionPolicy.max_failures
    MaxPerRun,       \* SubmissionPolicy.max_per_run
    FailureCap,      \* the 31 of record_submission_failure
    MaxTime,         \* bound on the clock
    Workloads,       \* the instances, one of which a behaviour follows
    None

AllFailures == {"transport", "rate_limited", "search_incomplete", "denied",
                "invalid_response"}

\* A workload: the reports (numbers, whose order breaks ties in the queries),
\* what the backend may answer, RetentionPolicy, and bounds on what happens.
ASSUME WorkloadsAssumption ==
    \A l \in Workloads :
        /\ l.reports \subseteq Nat
        /\ l.senders \subseteq Scanners \cup Operators
        /\ l.failures \subseteq AllFailures
        /\ {l.maxRows, l.maxAge, l.records, l.byteEvictions, l.faults, l.resets}
              \subseteq Nat
\* SubmissionPolicy::validate.
ASSUME PolicyAssumption ==
    /\ MaxPerRun \in Nat \ {0} /\ MaxFailures \in Nat \ {0}
    /\ Cooldown \in Nat \ {0}  /\ InitialBackoff \in Nat \ {0}
    /\ MaxBackoff \in Nat /\ MaxBackoff >= InitialBackoff
    /\ Lease \in Nat \ {0} /\ Hour \in Nat \ {0} /\ Day \in Nat \ {0}
    /\ FailureCap \in Nat /\ MaxTime \in Nat

VARIABLES
    load,        \* the workload of this behaviour
    clock,
    rows,        \* the table error_reports: fingerprint -> row or None
    recorder,    \* "idle", or "limit" while it enforces the byte limit
    sub,         \* submitter -> its progress
    attempted,   \* submitter -> ManualSubmission.attempted
    records, faults, resets, byteEvictions,
    accepted,    \* history: snapshots the backend has accepted
    deleted      \* history: the reports whose row retention has deleted

vars == <<load, clock, rows, recorder, sub, attempted, records, faults, resets,
          byteEvictions, accepted, deleted>>

Fingerprints == UNION {l.reports : l \in Workloads}
Submitters   == Scanners \cup Operators

\* What a row of the table and the copy a sender reads can hold.
Rows      == [status : {"pending", "submitted"}, occ : Nat, seen : Nat, failures : Nat,
              retry : Nat, sent : Nat \cup {None}, lease : Nat]
Snapshots == [fp : Fingerprints, occ : Nat, seen : Nat]

ASSUME TableAssumption ==
    IsFiniteSet(Fingerprints) /\ None \notin Nat \cup Rows \cup Snapshots \cup AllFailures

Idle == [pc |-> "idle", now |-> 0, todo |-> <<>>, snap |-> None,
         failures |-> 0, outcome |-> None]

\* A sender about to read the first report of its list.
Begun(now, todo) == [Idle EXCEPT !.pc = "preview", !.now = now, !.todo = todo]

Retained(db)  == {f \in Fingerprints : db[f] # None}
IsPending(f)  == rows[f] # None /\ rows[f].status = "pending"
LeaseOf(p)    == sub[p].now + Lease

\* The row still is the snapshot that p read.
SameSnapshot(p, f) ==
    rows[f].occ = sub[p].snap.occ /\ rows[f].seen = sub[p].snap.seen

Init ==
    /\ load \in Workloads
    /\ clock = 0
    /\ rows = [f \in Fingerprints |-> None]
    /\ recorder = "idle"
    /\ sub = [p \in Submitters |-> Idle]
    /\ attempted = [p \in Submitters |-> 0]
    /\ records = 0 /\ faults = 0 /\ resets = 0 /\ byteEvictions = 0
    /\ accepted = {}
    /\ deleted = {}

-----------------------------------------------------------------------------
(* The recording worker. *)

\* Deletion order of both retention queries.
EvictedBefore(db, f, g) ==
    LET rank(h) == IF db[h].status = "submitted" THEN 0 ELSE 1
    IN  \/ rank(f) < rank(g)
        \/ rank(f) = rank(g) /\ db[f].seen < db[g].seen
        \/ rank(f) = rank(g) /\ db[f].seen = db[g].seen /\ f < g

Evict(db, n) ==
    LET sorted == Enumerate(Retained(db), {p \in Retained(db) \X Retained(db) :
                                              EvictedBefore(db, p[1], p[2])})
        gone   == {sorted[i] : i \in 1 .. Min({n, Len(sorted)})}
    IN  [f \in Fingerprints |-> IF f \in gone THEN None ELSE db[f]]

NewRow ==
    [status |-> "pending", occ |-> 1, seen |-> clock, failures |-> 0,
     retry |-> 0, sent |-> None, lease |-> 0]

Upserted(f) ==
    IF rows[f] = None THEN NewRow
    ELSE [rows[f] EXCEPT !.occ = @ + 1,
                         !.seen = Max({@, clock}),
                         !.status = "pending"]

RecordAt(f) ==
    LET inserted == [rows EXCEPT ![f] = Upserted(f)]
        fresh    == [g \in Fingerprints |->
                        IF inserted[g] # None /\ inserted[g].seen + load.maxAge < clock
                        THEN None ELSE inserted[g]]
        count    == Cardinality(Retained(fresh))
    IN  /\ f \in load.reports
        /\ recorder = "idle"
        /\ records < load.records
        /\ rows' = Evict(fresh, IF count > load.maxRows THEN count - load.maxRows ELSE 0)
        /\ deleted' = deleted \cup (Retained(inserted) \ Retained(rows'))
        /\ records' = records + 1
        /\ recorder' = "limit"
        /\ UNCHANGED <<load, clock, sub, attempted, faults, resets, byteEvictions,
                       accepted>>

\* enforce_byte_limit deletes row after row while the files are too large,
\* which the file system decides; with no row left it gives up.
EvictForBytes ==
    /\ recorder = "limit"
    /\ Retained(rows) # {}
    /\ byteEvictions < load.byteEvictions
    /\ rows' = Evict(rows, 1)
    /\ deleted' = deleted \cup (Retained(rows) \ Retained(rows'))
    /\ byteEvictions' = byteEvictions + 1
    /\ UNCHANGED <<load, clock, recorder, sub, attempted, records, faults, resets,
                   accepted>>

ByteLimitDone ==
    /\ recorder = "limit"
    /\ recorder' = "idle"
    /\ UNCHANGED <<load, clock, rows, sub, attempted, records, faults, resets,
                   byteEvictions, accepted, deleted>>

\* An operator clears a row's retry block.
ResetSubmissionRetry(f) ==
    /\ resets < load.resets
    /\ IsPending(f)
    /\ rows' = [rows EXCEPT ![f].failures = 0, ![f].retry = 0]
    /\ resets' = resets + 1
    /\ UNCHANGED <<load, clock, recorder, sub, attempted, records, faults,
                   byteEvictions, accepted, deleted>>

-----------------------------------------------------------------------------
(* A sender: one scan of run_once_at, or one submit_selected call. *)

senderUnchanged == UNCHANGED <<load, clock, recorder, records, faults, resets, byteEvictions>>

\* The sender goes on with the next fingerprint of its list, or is done.
NextReport(p) ==
    LET rest == Tail(sub[p].todo)
    IN  sub' = [sub EXCEPT ![p] = IF rest = <<>> THEN Idle ELSE Begun(sub[p].now, rest)]

StopScan(p) == sub' = [sub EXCEPT ![p] = Idle]

\* list_pending: newest first.  The scan keeps this moment as its clock.
ListedBefore(f, g) ==
    rows[f].seen > rows[g].seen \/ (rows[f].seen = rows[g].seen /\ f < g)

PendingNewestFirst ==
    LET pending == {f \in Fingerprints : IsPending(f)}
    IN  Enumerate(pending, {p \in pending \X pending : ListedBefore(p[1], p[2])})

StartScan(p) ==
    /\ p \in load.senders
    /\ sub[p].pc = "idle"
    /\ PendingNewestFirst # <<>>
    /\ sub' = [sub EXCEPT ![p] = Begun(clock, PendingNewestFirst)]
    /\ senderUnchanged
    /\ UNCHANGED <<rows, attempted, accepted, deleted>>

SubmitSelected(p, f) ==
    /\ p \in load.senders
    /\ sub[p].pc = "idle"
    /\ sub' = [sub EXCEPT ![p] = Begun(clock, <<f>>)]
    /\ senderUnchanged
    /\ UNCHANGED <<rows, attempted, accepted, deleted>>

Preview(p) ==
    LET f == Head(sub[p].todo)
    IN  /\ sub[p].pc = "preview"
        /\ \/ attempted[p] >= MaxPerRun /\ StopScan(p)
           \/ attempted[p] < MaxPerRun /\ ~IsPending(f) /\ NextReport(p)
           \/ /\ attempted[p] < MaxPerRun /\ IsPending(f)
              /\ sub' = [sub EXCEPT ![p].pc = "state",
                                    ![p].snap = [fp |-> f, occ |-> rows[f].occ,
                                                 seen |-> rows[f].seen]]
        /\ senderUnchanged
        /\ UNCHANGED <<rows, attempted, accepted, deleted>>

\* Mutant: the cooldown is not tested.
GatesWithoutCooldown(p, row) ==
    row.failures < MaxFailures /\ row.retry <= sub[p].now

\* The gates of submit_selected_at, on the state as it is read here.
GatesOpen(p, row) ==
    /\ row.failures < MaxFailures
    /\ row.retry <= sub[p].now
    /\ row.sent # None => row.sent + Cooldown <= sub[p].now

SubmissionState(p) ==
    LET f == Head(sub[p].todo)
        open == rows[f] # None /\ GatesOpen(p, rows[f])
    IN  /\ sub[p].pc = "state"
        /\ \/ ~open /\ NextReport(p)
           \/ open /\ sub' = [sub EXCEPT ![p].pc = "claim",
                                         ![p].failures = rows[f].failures]
        /\ senderUnchanged
        /\ UNCHANGED <<rows, attempted, accepted, deleted>>

\* Mutant: an expired lease still blocks the row.
ClaimableUnleased(p, f) ==
    /\ IsPending(f)
    /\ SameSnapshot(p, f)
    /\ rows[f].lease = 0
    /\ rows[f].retry <= sub[p].now

\* The WHERE clause of claim_submission.
Claimable(p, f) ==
    /\ IsPending(f)
    /\ SameSnapshot(p, f)
    /\ rows[f].lease <= sub[p].now
    /\ rows[f].retry <= sub[p].now

ClaimSubmission(p) ==
    LET f == Head(sub[p].todo)
    IN  /\ sub[p].pc = "claim"
        /\ \/ /\ ~Claimable(p, f)             \* Busy
              /\ NextReport(p)
              /\ UNCHANGED <<rows, attempted>>
           \/ /\ Claimable(p, f)
              /\ rows' = [rows EXCEPT ![f].lease = LeaseOf(p)]
              /\ attempted' = [attempted EXCEPT ![p] = @ + 1]
              /\ sub' = [sub EXCEPT ![p].pc = "sending"]
        /\ senderUnchanged
        /\ UNCHANGED <<accepted, deleted>>

\* backend.submit returns: an issue now describes the snapshot, or it failed.
BackendAccepts(p) ==
    LET s == sub[p].snap
    IN  /\ sub[p].pc = "sending"
        /\ sub' = [sub EXCEPT ![p].pc = "accepted"]
        /\ accepted' = accepted \cup {[fp |-> s.fp, occ |-> s.occ, seen |-> s.seen]}
        /\ senderUnchanged
        /\ UNCHANGED <<rows, attempted, deleted>>

BackendFails(p, kind) ==
    /\ sub[p].pc = "sending"
    /\ sub' = [sub EXCEPT ![p].pc = "failed", ![p].outcome = kind]
    /\ senderUnchanged
    /\ UNCHANGED <<rows, attempted, accepted, deleted>>

\* defer_failure's delay; the multiplier's exponent is capped at 30 there.
RetryDelay(kind, failures) ==
    LET backoff == Min({InitialBackoff * 2 ^ failures, MaxBackoff})
    IN  CASE kind = "transport"                               -> backoff
          [] kind \in {"rate_limited", "search_incomplete"}   -> Max({Hour, backoff})
          [] kind = "denied"                                  -> Day
          [] kind = "invalid_response"                        -> Hour

\* Mutant: the lease on the row may be another sender's.
HoldsAnyLease(p, f) == rows[f] # None

\* Whether p's bookkeeping statements still find p's lease on the row.
HoldsLease(p, f) == rows[f] # None /\ rows[f].lease = LeaseOf(p)

\* record_submission_failure; serverRetry is the later time a rate limit names.
DeferFailure(p, serverRetry) ==
    LET f     == Head(sub[p].todo)
        retry == Max({sub[p].now + RetryDelay(sub[p].outcome, sub[p].failures),
                      serverRetry})
    IN  /\ sub[p].pc = "failed"
        /\ serverRetry # 0 => sub[p].outcome = "rate_limited"
        /\ rows' = IF IsPending(f) /\ HoldsLease(p, f)
                   THEN [rows EXCEPT ![f].failures = Min({@ + 1, FailureCap}),
                                     ![f].retry = Max({@, retry}),
                                     ![f].lease = 0]
                   ELSE rows
        /\ StopScan(p)
        /\ senderUnchanged
        /\ UNCHANGED <<attempted, accepted, deleted>>

\* Mutant: occurrences recorded since the snapshot are not noticed.
MarkableWhenLeased(p, f) == IsPending(f) /\ HoldsLease(p, f)

\* The WHERE clause of mark_submitted_snapshot.
Markable(p, f) ==
    IsPending(f) /\ SameSnapshot(p, f) /\ HoldsLease(p, f)

MarkSubmittedSnapshot(p) ==
    LET f == Head(sub[p].todo)
    IN  /\ sub[p].pc = "accepted"
        /\ \/ /\ Markable(p, f)
              /\ rows' = [rows EXCEPT ![f].status = "submitted", ![f].failures = 0,
                                      ![f].retry = 0, ![f].sent = sub[p].now,
                                      ![f].lease = 0]
              /\ NextReport(p)
           \/ /\ ~Markable(p, f)
              /\ sub' = [sub EXCEPT ![p].pc = "release"]
              /\ UNCHANGED rows
        /\ senderUnchanged
        /\ UNCHANGED <<attempted, accepted, deleted>>

ReleaseSubmissionLease(p) ==
    LET f == Head(sub[p].todo)
    IN  /\ sub[p].pc = "release"
        /\ rows' = IF HoldsLease(p, f) THEN [rows EXCEPT ![f].lease = 0] ELSE rows
        /\ NextReport(p)
        /\ senderUnchanged
        /\ UNCHANGED <<attempted, accepted, deleted>>

\* A statement fails with a StoreError: the call returns, the scan stops.
StoreFails(p) ==
    /\ sub[p].pc \notin {"idle", "sending"}
    /\ faults < load.faults
    /\ StopScan(p)
    /\ faults' = faults + 1
    /\ UNCHANGED <<load, clock, rows, recorder, attempted, records, resets,
                   byteEvictions, accepted, deleted>>

\* The process ends, the network call detached or lost; another is started.
Crash(p) ==
    /\ sub[p].pc # "idle"
    /\ faults < load.faults
    /\ StopScan(p)
    /\ attempted' = [attempted EXCEPT ![p] = 0]
    /\ faults' = faults + 1
    /\ UNCHANGED <<load, clock, rows, recorder, records, resets, byteEvictions,
                   accepted, deleted>>

Tick ==
    /\ clock < MaxTime
    /\ clock' = clock + 1
    /\ UNCHANGED <<load, rows, recorder, sub, attempted, records, faults, resets,
                   byteEvictions, accepted, deleted>>

SenderStep(p) ==
    \/ Preview(p) \/ SubmissionState(p) \/ ClaimSubmission(p)
    \/ BackendAccepts(p) \/ \E kind \in load.failures : BackendFails(p, kind)
    \/ \E t \in 0 .. MaxTime : DeferFailure(p, t)
    \/ MarkSubmittedSnapshot(p) \/ ReleaseSubmissionLease(p)

Next ==
    \/ \E f \in Fingerprints : RecordAt(f) \/ ResetSubmissionRetry(f)
    \/ EvictForBytes \/ ByteLimitDone
    \/ \E p \in Scanners : StartScan(p)
    \/ \E p \in Operators, f \in Fingerprints : SubmitSelected(p, f)
    \/ \E p \in Submitters : SenderStep(p) \/ StoreFails(p) \/ Crash(p)
    \/ Tick

Spec == Init /\ [][Next]_vars

\* The clock runs, requests end (the client has time-outs), and a scanner
\* scans again 60 seconds after its last scan.  Operators owe nothing.
FairSpec ==
    /\ Spec
    /\ WF_vars(Tick)
    /\ WF_vars(ByteLimitDone)
    /\ \A p \in Scanners : WF_vars(StartScan(p))
    /\ \A p \in Submitters : WF_vars(SenderStep(p))

-----------------------------------------------------------------------------
(* Properties. *)

\* A row counts recorded events, at times that have come, and at most FailureCap
\* failures.
RowOK(row) ==
    /\ row \in Rows
    /\ row.occ \in 1 .. records /\ row.seen <= clock /\ row.failures <= FailureCap
    /\ row.sent # None => row.sent <= clock

Progress == [pc : {"idle", "preview", "state", "claim", "sending", "accepted",
                   "failed", "release"},
             now : 0 .. clock, todo : Seq(Fingerprints), snap : Snapshots \cup {None},
             failures : 0 .. FailureCap, outcome : AllFailures \cup {None}]

\* The shapes of the table and of a sender's memory.
TypeOK ==
    /\ load \in Workloads
    /\ clock \in 0 .. MaxTime
    /\ records \in 0 .. load.records
    /\ DOMAIN rows = Fingerprints
    /\ \A f \in Fingerprints : rows[f] = None \/ RowOK(rows[f])
    /\ recorder \in {"idle", "limit"}
    /\ sub \in [Submitters -> Progress]
    /\ attempted \in [Submitters -> 0 .. MaxPerRun]

InDelivery(p) == sub[p].pc \in {"sending", "accepted", "failed", "release"}

SameReport(p, q) == sub[p].snap.fp = sub[q].snap.fp

\* Two senders never both hold an unexpired lease on one row, whatever expired
\* holder finishes late, whichever process crashes and whatever is recorded in
\* between (claim_submission, and the lease check of the three statements
\* that end a delivery).  A row that retention deletes while it is being sent,
\* and a new event inserts again, has lost its lease; such rows are excepted.
LeaseExclusive ==
    \A p, q \in Submitters :
        (/\ p # q /\ InDelivery(p) /\ InDelivery(q) /\ SameReport(p, q)
         /\ sub[p].snap.fp \notin deleted)
            => (LeaseOf(p) <= clock \/ LeaseOf(q) <= clock)

\* The state has its type, a row's failures stay under the cap and a sender's
\* attempts under max_per_run; and a row marked as submitted shows exactly the
\* occurrences that the backend accepted: one recorded while the request was
\* under way is never marked with it (mark_submitted_snapshot, "A concurrent new occurrence remains pending").
SubmittedWasAccepted ==
    /\ TypeOK
    /\ \A f \in Fingerprints :
        (rows[f] # None /\ rows[f].status = "submitted")
            => [fp |-> f, occ |-> rows[f].occ, seen |-> rows[f].seen] \in accepted

\* Two submissions that are recorded for one row are a cooldown apart, even when
\* the state was read before another process's submission and new events came
\* in between (submit_selected_at's gate with claim_submission's snapshot test).
\* A row that retention deletes and events insert again can count up to a
\* snapshot taken before; such rows are excepted.
RecordedCooldown ==
    [][\A f \in Fingerprints \ deleted :
          (rows[f] # None /\ rows'[f] # None
             /\ rows[f].sent # None /\ rows'[f].sent # rows[f].sent)
            => (rows'[f].sent # None /\ rows'[f].sent >= rows[f].sent + Cooldown)]_vars

\* The report could be sent at the end of the modelled time.
Deliverable(f) ==
    /\ IsPending(f)
    /\ rows[f].failures < MaxFailures
    /\ rows[f].retry <= MaxTime
    /\ rows[f].lease <= MaxTime
    /\ rows[f].sent # None => rows[f].sent + Cooldown <= MaxTime

\* A pending report whose retry time, lease and cooldown run out is tried again
\* (or evicted), whatever crashed while it was being sent, as long as some
\* scanner has not used up its run limit.
PendingIsTried ==
    \A f \in Fingerprints :
        Deliverable(f) ~> (\/ ~Deliverable(f)
                           \/ \A p \in Scanners \cap load.senders :
                                 attempted[p] >= MaxPerRun)
=============================================================================
