# A TLA+ model of omoikane's concurrent core

omoikane is a browser engine in Rust: an HTTP client, HTML, CSS, DOM, layout and
paint, a JavaScript runtime (a fork of boa with the web platform on top of it), a
developer protocol, a window and a C interface. Most of it is sequential
computation over large data. This project is about the part that is not: the
places where threads, processes, callbacks and documents that come and go share
state. There a wrong interleaving is hard to provoke in a test, and model
checking reaches it.

Paths below are relative to the root of the repository (`src/` here is its
crate's source directory); `PROJECT.json` maps every definition to its lines.

## 1. Inventory

### How the parts interact

    GUI thread ------ NativeScrollHandle (mutex) ------ page owner thread
       |  wheels, frames                  commands, scenes      |
       +--- ingress (command queue) --------------------------->|
                                                                |
    page owner: JsRuntime = event loop + DOM + loads + locks    |
       |  submit(job, scope, waker)        poll / try_recv      |
       v                                                        |
    ResourceQueue: N worker threads ---- one channel per job ---+
       |
       +-- http client (sessions, cookies, preflight cache snapshots)

    documents of one thread ---- WebLockManager + notification queue
    processes ---- error_reports (SQLite) ---- GitHub backend

The page owner is single threaded, but its callbacks call back into it, and
documents are destroyed in the middle of what it does. The workers, the GUI and
other processes are truly concurrent with it.

### Modelled components

| Component | State | Operations | What is hard | What makes it correct |
|---|---|---|---|---|
| **Resource worker pool** `resource_worker.rs` | heap of jobs, next id, started and stopped flags, condition variable, scope flags, one channel per job | submit, worker loop, cancel a scope, try_recv, drop of the pool | notification after unlock; cancellation, panics and drop racing workers; thread creation that fails half way | each job answered once, priority then submission order, no sleeper beside a queued job, the owner hears |
| **Event loop** `js/event_loop.rs` | a queue per task source, the global order, timers on a virtual clock, animation frames | enqueue, pop, pop_navigation, schedule and clear timers, advance, frames, cancel for a document or for nodes | operations between the promotion of a task and its turn; out-of-order removal; a saturating clock | order and queues agree, FIFO over all sources, fire-time order, nothing of a destroyed document remains |
| **Error reports** `error_reporting/{store,manual,auto,reporter}.rs` | rows of counters, status, failures, retry time, lease, last submission | record, evict, scan, submit, claim, mark, defer, release, reset | several processes on one database; a delivery that outlives its lease; crashes; rows deleted while in flight | one holder of a lease, an honest `submitted`, cooldown, retry after a crash |
| **Web locks** `js/storage.rs`, `js/web_locks.rs`, `js/dom_bootstrap.js`, `js/mod.rs` | requests, held and pending per name, client registry, notifications, page table | request, start, release, abort, steal, flush, destroy a document | a grant travels as notification and task while it can be stolen or aborted; busy runtimes | exclusion, no barging, no stuck grantable request, page and manager agree, grants arrive |
| **Fetch loading** `js/fetch_loading.rs`, `js/fetch_loading/*`, `http/cors.rs` | pending fetches, background requests, keepalive bytes, preflight cache, callbacks | begin, abort, poll, deliver, beacon, fetchLater, cancel, retire a document | results in any order, stale snapshots merged, quota kept by hand on many paths | exact quota, a deferred request handed over once, no approval lost, every fetch answered |
| **XMLHttpRequest** `js/dom_bootstrap.js` | request number, readyState, flags, the fetch it waits for, the timer, queued networking tasks | open, send, abort, timeout, promise reactions, the endings and their events | listeners call back into the object in the middle of an ending; answer, timeout and abort race as queued tasks | each send ends once, with its own response |
| **Script loading** `js/script_loading.rs`, `js/document_script_startup.rs`, `js/mod.rs` | the parser's position, a blocking fetch, the deferred queue; inserted loads, their order per document, their tasks | poll or block, start, resolve, defer, insert, poll loads, run a ready script, retire | fetches end in any order or fail; elements move and frames go between request and run | document order, insertion order, nothing for a gone document, an end |
| **HTTP client** `http/{client,connection,http2,response}.rs` | redirects left, a table of TLS sessions per protocol, stream numbers and windows per connection | send, use a session, connect, retry, fall back to HTTP/1.1, read, keep or drop, redirect | late answers on reused sessions; ambiguous framing; retries on three levels; flow control | the caller's own answer, clean sessions, bounded transmissions, no call without an end but by endless frames or header lines |
| **Native scrolling** `js/native_scroll.rs`, `js/input_bridge.rs`, `bin/omoikane/{page_worker,async_gui}.rs` | the GUI's offset, pending inputs, policy, epoch, scene; the owner's ledger and FIFO; the gate | accept a wheel, fall back, claim, materialize, script scroll, publish, install, judge, present, close | two threads that predict each other; late scenes; checks before a lock is taken | wheels performed once in order, the pixels show the truth, no acceptance past a blocking listener |

### Components that are not modelled

`PROJECT.json` lists each with its reason. In groups:

- *Sequential transformations of data* (URLs, encodings, HTML parser, CSS, layout,
  fonts, paint, canvas, SVG, XML, screenshots): their state is a position in a
  text or a tree; their correctness is the text of a standard, not an interleaving.
- *Key-value state behind one lock* (Web Storage, caches, cookie store), the DOM
  tree, and the bindings of the web platform: no concurrency of their own.
- *Adapters* (platform services, C interface, window toolbar, developer protocol).
- *Vendored code* (the script engine and the regular expressions).
- *Left for later*, see section 7: module graphs, image, font and style sheet
  loading, workers and broadcast channels, navigation and frames, realtime
  connections.

### Hazards

`PROJECT.json` lists 40, each at the line where it bites, with the properties
that would catch it. These are real and not covered by a property:

- `error_reporting/auto.rs:56`: a scan uses one time stamp, so the lease of a late
  claim in a slow scan may be over when it is taken. The code accepts duplicates
  after a lease.
- `error_reporting/manual.rs:239`: the failure limit is tested before the claim and
  not by it, so a race can exceed the limit by one attempt.
- `js/render_demand.rs:158`: an idle page is not woken for an `activateAfter`
  deadline. The model gives polls for background requests alone no fairness.

Outside the modelled parts, dropping a runtime (`js/mod.rs:15522`) drops its deferred
requests.

## 2. Modules

| Module | What it is |
|---|---|
| `ResourceQueue` | the worker pool, one action per critical section or observable step outside the mutex |
| `JobService` | the abstract promise of the pool: accept, start the best, settle, refuse after the close |
| `Orderings` | sorting a set and filtering a sequence by rank, in a form the prover can use |
| `EventLoop` | the event loop; callbacks are "any operation may come next" |
| `ErrorReports` | the table and its senders, one SQL statement per action |
| `WebLocks` | manager, registry, notifications, task queues and the page's table |
| `FetchLoads` | fetches, background requests, quota and preflight cache |
| `XmlHttpRequest` | one request object; EXTENDS `FetchLoads`, whose fetches it begins, drops and waits for |
| `ScriptLoads` | the parser's scripts and the inserted scripts of a page and its frames |
| `HttpPool` | the client's redirect loop, the session pool and the servers it talks to |
| `NativeScroll` | the GUI and owner sides around one handle |
| `…_proofs` | the theorems about a module and the lemmas they rest on; `Orderings_proofs` has the lemmas that several of them share |
| `MC…` | values of the constants for TLC: workloads and symmetry |

An operator marked `Mutant:` (for example `WaitUnchecked` before `Wait`) is
a plausible mistake in the definition that follows it. No specification uses it;
`PROJECT.json` pairs it with the property that detects it.

### ResourceQueue

`pc` of a worker follows the worker's loop: `unspawned`, `lock` (about to look at the heap),
`waiting` (in `Condvar::wait`), `claimed` (job popped, mutex released), `run`,
`send`, `wake`. `Submit` is the critical section of `submit`, with the first
submission's thread creation; `NotifyOne` comes after the unlock and is a step of
its own. `SpawnFails` starts an arbitrary subset of the threads before the error.
`Begin` reads the scope, `Finish` is the work (it may panic), `Send` commits the
outcome, `Wake` calls the waker (which may panic). `DropPool`, `NotifyAll`,
`DrainOne` and `DropDone` are `Pool::drop`. `SpuriousWake` is the condition
variable's. The u64 id counter ends at
`IdLimit`, with the error the code gives at its end. What a job computes is left out.

### EventLoop

Payloads are reduced to the kind of task, its document, node and timer, which is
all that the operations inspect. `Advance` promotes every due timer by fire time,
then id, and reschedules repeating ones from the new time; the clock saturates at
`load.time` as the code's does at `u64::MAX`. `BeginAnimationFrame` takes the ids,
`TakeAnimationFrameCallback` removes one callback per call. History variables
(`lastRun`, `lastDue`, `fired`, `cleared`) record what ran. Binding a queued worker
error to its late `Worker` object is left out: it changes one task's recipient.

### ErrorReports

A sender's `pc` runs through `preview` (read the report), `state` (read the
submission state and test the gates), `claim` (the conditional update), `sending`
(the backend), `accepted` or `failed` (the bookkeeping statement) and `release`.
Any other process comes between any two. `RecordAt` upserts and applies the row and
age limits; `EvictForBytes` and `ByteLimitDone` are the loop that keeps the byte
limit in the same worker. `Crash` drops a sender's memory and `StoreFails` is a
failed statement, with the continuation the code gives it. History variables hold
what the backend accepted and when. The text of reports, opening and migrating the
database, and the bounded channel before the recording worker are left out; the
configuration is assumed to permit submission.

### WebLocks

`Granted` is the prefix of a name's queue that the loop of `web_lock_advance` would
grant, and `Advance` grants it. A grant or theft becomes a note; `FlushNotifications(busy)` moves notes to the task queues of
registered clients, keeps those of borrowed runtimes and drops those of clients
that are not registered; `RunTask` is the page's side. `DestroyDocument` begins
the removal of a document's requests and each turn of the code's loop over its hash
map is a step `RemoveOwn`, in any order, each removal advancing its queue; `Next` lets
nothing else happen while requests are `closing`. `Settle` is the callback's promise, `Abort` the signal.
`Auxiliary` names the documents whose client id the code makes with the document.

### FetchLoads

A job carries the snapshot of the preflight cache it started with and brings back
its own; `Poll` collects what has finished (the table is a hash map, so in any order), merges the
snapshots, releases quota, hands over what is due and queues callbacks.
`Activate` includes the refusal of a stopped queue, and `HandOver` is its effect on `fate`. `Retire` is a document's end:
its fetches and callbacks go, its deferred requests are handed over. `fate` is a
history of each background request. `Bytes` names each byte of the bodies in the table by
its entry and its place, and `reserved` is compared with their number. The resource queue is reduced to "a job ends
once, in any order", which is what `JobService` promises. Preparation of requests,
CSP, response filtering and redirects are left out.

### XmlHttpRequest

`xhr` holds the fields of the object: its number (`_requestId`), `readyState`,
`_sendFlag`, `_terminal`, the fetch it waits for and the timer. `Open`, `Send`,
`AbortRequest` are the calls of the page and may come between any two steps, which
includes the listeners. `StartFetch` is the microtask that begins the fetch through
`Begin` of `FetchLoads`; `Settled` and `Refused` are the reactions of its promise;
`TimeoutFires` is the timer. Each queues a closure in `net`, and `FinishSuccess`,
`FinishError`, `FinishTimeout` and `FinishAbort` are those closures. `_finishSuccess`
fires `readystatechange` twice before it is done, so it is three steps
(`FinishSuccess`, `GoOn` twice) and then `FireEnding`. `OthersStep` is everything
else in `FetchLoads`: workers, polls, the retirement of documents. `told` is the
history of ending events; `torn` names the requests a listener opened or aborted
between those steps, which both properties except (section 6).

### ScriptLoads

`BeginPoll` picks the mode of a call of `poll_document_scripts`, and each turn of its
loop is an action: a blocking script that has its answer (`PendingScript`), the next
script of the parser (`SkipScript`, `RunInline`, `StartFetch`, `FetchBlocking`), the
deferred queue (`DeferredScript`), DOMContentLoaded (`FinishStartup`). `InsertScript`,
`RemoveScript`, `MoveScript` and `Retire` are what scripts do to the tree, with what
the code does to the tasks and loads of the nodes concerned. `RunLoadTask` prepares
and submits, `PollScriptLoads` collects the answers and queues the ready prefix of
each document's order, `RunReadyTask` takes, checks and runs. A script is its node;
`ran` and `failed` are histories. The effects of a script may come at any time, not
only while it runs, which gives more behaviours than the code has and none fewer.

### HttpPool

`pc` follows the client's one call: `route` (choose an attempt), `read`, `answered`,
`downgrade` (the HTTP/1.1 attempt after an HTTP/2 answer that could not be
interpreted), `idle`. `stage` says which of the attempts of `send_with_timeout` is
under way. `Fail` and `Succeed` are what each of them does to the tables. A
connection is a record of what travels up and down, the server's unfinished work, the
stream number and two windows, counted in units of body; the servers
(`AnswerHttp1`, `AnswerHttp2`, `SendData`, `SendOpaque`, `CloseServer`) are external
and answer only what they received. Bodies of requests count against `credit`, bodies
of responses against `window`. Pool keys differ in the host alone.

What completes nothing is `idle` on a connection: SETTINGS, an empty DATA frame, further
HEADERS, a frame of no known stream, a line of an HTTP/1.1 header. `SendIdle` lets a
server send any number of them, one unread at a time and where it has nothing else
unread (the client cannot tell whether they were sent before or after that was read),
and `SkipFrame` and `SkipLine` read them; `AcknowledgementFails` is a SETTINGS frame
whose acknowledgement finds the connection closed. `ReturnCredit` is the server's
WINDOW_UPDATE, sent before, during or after an answer.

### NativeScroll

Each method of the handle is atomic under its mutex. A wheel is two GUI steps:
the publication is checked, then the wheel is offered under the lock
(`LatchWheel`, `LatchedWheel`). The owner takes accepted inputs and commands in
the ingress order (`TakeAccepted`, `StartFallback`, `StartCanonical`),
materializes accepted inputs early when script reads geometry, scrolls from
script (`PrepareScroll`, `FinishScroll`, `SmoothEnd`), adds listeners, changes
layout, and publishes. Scenes are installed late or withdrawn. One handle, one
axis, integer offsets; a navigation, which makes another handle, is not modelled,
nor are the hit test, the gesture's timing and the pixels. `wheels` and `effects`
are histories of what the user turned and what the page performed. `failures` counts
the fallbacks whose dispatch failed and `failed` says that the owner rejected a
command: `OwnerAgrees` says that a rejection needs a failed dispatch (finding 3), and
`WheelOrder` is about the wheels up to the first rejection.

## 3. Runs

State counts are distinct states; each run ends within a few minutes on two
TLC workers. Deadlock is not reported: the inputs of every run are bounded, users
and pages may stop, and a dropped pool stops for good. Progress is stated by the
liveness properties instead.

| Run | Bounds | What it shows |
|---|---|---|
| `resource_queue` | 2 workers, 1 scope, 2 priorities, 2 jobs, fair; 124 k | `TypeOK`, `OnePlace`, `NoOvertaking`, `NoLostWakeup`, `NoSleeperAfterDrop`, `CancelledWaitingNeverRuns`, `OwnerHears`, and `ImplementsPromise`, the refinement of `JobService` with its fairness |
| `event_loop` | three workloads: 4 tasks of all sources and 2 documents; 2 timers with delays 0 to 2 on a clock to 3; 2 documents with tasks, a timer and 2 frames; 231 k | `TaskOrder` (queues and order agree, FIFO over the sources), `TimersInOrder`, `NothingOfRetired`, `DelayIsExact` |
| `event_loop_cleared` | the timer workload | *violated:* `ClearedTimerNeverFires` |
| `error_reports` | a scanner and an operator; workloads that share a row, evict rows and fail; fair; 223 k | `LeaseExclusive`, `SubmittedWasAccepted`, `RecordedCooldown`, `PendingIsTried` |
| `web_locks` | 2 documents, 1 name, 3 requests, fair; 32 k | `MutualExclusion`, `NothingGrantableWaits`, `PageAgrees`, `NoBarging`, `NotificationsArrive` |
| `web_locks_auxiliary` | the same, one document auxiliary | *violated:* `GrantReachesPage` |
| `fetch_loads` | 2 documents, quota 2, four workloads (2 fetches; a fetch beside a background request; 3 background requests; an XMLHttpRequest opened twice), fair; 244 k | `QuotaExact`, `DeferredFate`, `NothingForRetired`, `ApprovalKept`, `FetchAnswered`; `EndsOnce`, `SendSettles` |
| `native_scroll` | deltas 1, extents 1 and 2, targets 0 and 3, capacity 2, three workloads; 1.6 M | `OwnerAgrees`, `WheelOrder`, `VisualTruth`, `BlockedNeverAccepts` |
| `native_scroll_failing` | 1 accepted wheel, 2 fallbacks, 1 failure | *violated:* `FallbackRuns` |
| `http_pool` | 2 hosts, window 2, limit 3, three workloads (HTTP/1.1 with every framing; HTTP/2 with bodies around window and limit; redirects between hosts, protocols and to http), up to 2 faults, fair; 146 k | `AnswerIsOwn`, `PooledIsClean`, `AttemptsBounded`, `CallReturns` |
| `http_window` | one download within the limit, no faults | *violated:* `LargeBodyArrives` |
| `script_loads` | three workloads: 6 scripts of a parser; 4 inserted scripts of 2 documents; both; 1 move, retirement, removal or refusal; fair; 179 k | `ParserOrder`, `InsertionOrder`, `NothingForGone`, `ScriptsSettle` |

The type invariant of a component is the first conjunct of one of its invariants
where it is not listed by itself.

### Why the bounds are enough to be interesting

For the invariants of section 5 the theorems remove the bounds; there the runs show
that the statements are not empty (each has a mutant that violates it) and confirm the
inductive invariants before they are proved. For liveness the bounds count.

- *ResourceQueue.* A lost wakeup needs one worker between unlock and wait and one
  asleep; overtaking needs an older job and a later one that compete for a worker.
  Two workers and two jobs contain both.
- *EventLoop.* The order and the queues can only disagree after a removal from the
  middle: three tasks around it suffice and there are four. A repeating timer beside
  a timeout on a clock of three steps yields promotions in one step and across
  steps, and reaches saturation.
- *ErrorReports.* A lease expires, is taken by the other process, and the first
  finishes late, within three times. The row limit of one under two fingerprints
  makes every insertion evict. `LeaseExclusive` and `RecordedCooldown` except rows
  that retention has deleted: a row that is deleted and inserted again has lost its
  lease and the time of its submission.
- *WebLocks.* Three requests give a holder, a waiter and a third that may barge or
  steal; two documents give a destruction beside a survivor. Names are independent.
- *FetchLoads.* Two overlapping snapshots are what a bad merge needs; three
  requests against a quota of two units fill it, are refused, and use it again.
- *XmlHttpRequest.* Two opens give a late ending of the first request beside the
  second; aborts are not bounded, and each may come between any two steps.
- *ScriptLoads.* Two deferred scripts around an inline module, and two blocking ones,
  show every order of answers that could disturb the parser; three ordered scripts in
  two documents lose one in the middle to a move or to the frame's end.
- *HttpPool.* A stale answer needs a request that times out and a second one on the
  same session; the four calls to one host reuse a session after every framing. A
  limit of three units above a window of two separates the two bounds. Faults are
  bounded; frames and lines that complete nothing are not.
- *NativeScroll.* The workloads reach acceptance after a fallback and after a
  canonical wheel, a rebased scene after a script's scroll, and two accepted inputs
  at capacity two, each of which was confirmed to be reachable.

## 4. Fairness

- *ResourceQueue*: weak fairness of each worker's step, of a submitter's
  notification, of the drop once begun and of a woken owner's poll. Mutexes are held
  for a moment. That a job ends is an assumption: each read of its transport has a
  time-out, but see *HttpPool* below. Nothing has to be submitted, cancelled or
  dropped, and no wakeup is expected to be spurious.
- *ErrorReports*: the clock runs, the byte limit's loop ends, a scanner scans every
  minute, a sender's request ends (the same assumption). Operators, crashes and
  events owe nothing.
- *WebLocks*: one weak fairness condition on the pump, whose turns flush while no
  runtime is borrowed and run tasks and microtasks. A page's callback may never settle.
- *FetchLoads*: workers end fetches (the same assumption); a pending fetch or a queued
  task makes the embedder turn its loop (`js/render_demand.rs`). Not so a background request alone.
- *XmlHttpRequest*: microtasks and networking tasks of a live document run. The page's
  calls and the timer owe nothing.
- *ScriptLoads*: workers answer (the same assumption); an unfinished startup and a pending
  load keep the host's render demand up, so it polls and pumps. Nothing is inserted,
  moved or retired by fairness.
- *HttpPool*: the client's thread runs on and each of its reads ends by the socket's
  time-out when nothing comes. A server owes nothing, and may send for ever what
  completes nothing: `CallReturns` says that a call ends or is kept by `SkipFrame` and
  `SkipLine` infinitely often. Without this exception TLC finds a call that is.
  The components above, whose jobs make such calls, assume servers that do not.
- *EventLoop* and *NativeScroll* are checked for safety only: what drives the loop,
  and what makes a GUI compose, is outside the modelled code.

## 5. What is proved

TLAPS checks every theorem of the `…_proofs` modules to the last leaf. A theorem holds
for every value of the constants that satisfies the assumptions named in the module of
the component; the bounds of the runs are not among them.

| Component | Theorems | For every |
|---|---|---|
| worker pool | `TypeCorrect`, `OnePlaceAlways`, `NoOvertakingAlways`, `NoLostWakeupAlways`, `NoSleeperAfterDropAlways`, `CancelledWaitingNeverRunsAlways`, `PoolKeepsPromise` | finite set of workers, set of scopes, id limit |
| event loop | `TaskOrderAlways`, `TimersInOrderAlways`, `NothingOfRetiredAlways`, `DelayIsExactAlways` | workload: any number of tasks, timers, frames, documents, any clock |
| error reports | `SubmittedWasAcceptedAlways`, `LeaseExclusiveAlways`, `RecordedCooldownAlways` | number of senders, reports and events, retention limits and policy |
| web locks | `MutualExclusionAlways`, `NothingGrantableWaitsAlways`, `PageAgreesAlways`, `NoBargingAlways` | number of documents, names and requests |
| HTTP client | `AnswerIsOwnAlways`, `PooledIsCleanAlways`, `AttemptsBoundedAlways` | hosts, calls, framings, faults, window and body limit |
| fetch loading and XMLHttpRequest | `QuotaExactAlways`, `DeferredFateAlways`, `NothingForRetiredAlways`, `ApprovalKeptAlways`, `EndsOnceAlways` | number of documents, fetches, background requests and calls, sizes, ages and quota |
| native scrolling | `OwnerAgreesAlways`, `WheelOrderAlways`, `VisualTruthAlways`, `BlockedNeverAcceptsAlways` | deltas, extents of the layout, script targets, retained reach, capacities, counter limits, number of failed dispatches |

Each theorem proves the property of the same name that a run checks (`TypeCorrect` is `TypeOK`);
`PoolKeepsPromise` is the safety part of `ImplementsPromise`.

### Assumptions

They are the ASSUMEs of the component's module and TLC evaluates them on each run.
`ResourceQueue`: the workers are finite and not empty, the priorities are among the
three of the enum, the dropper is not a worker. `HttpPool`: the window is not zero, the
hosts are finite. `ErrorReports`: lease, cooldown, back-off and limits are positive, as
`SubmissionPolicy::validate` requires of the policy and as the other constants of the
code are. `FetchLoads`: sizes, delays, ages and the quota are numbers. `NativeScroll`: deltas are
integers, extents and targets numbers, there is an extent, and the capacities are not
zero. Every `WorkloadsAssumption` says that the workloads have their types. Every `NoneAssumption` (in `ErrorReports` a part of `TableAssumption`) says
that `None` is not one of the values it stands beside (`EndingAssumption` in
`XmlHttpRequest` too).

### The arguments

*ResourceQueue.* `OnePlace` is not inductive: a step of an executor could move a job it
does not have. `Bookkeeping` adds what the threads know: an executor has a job exactly
when its `pc` says so, and a result exactly when it is about to send one; an unstarted
pool has no spawned worker; while a handle exists the drop's list is empty.
`IInv == TypeOK /\ Bookkeeping /\ OnePlace` is inductive, one lemma per conjunct with
one step per action. `NoOvertaking` follows relative to `IInv`: only `Pop` and `DropPool`
take jobs from the heap; `Pop` takes the maximum of a total order, the drop takes all at
once. `NoLostWakeup` is the counting argument behind `notify_one` after the unlock:
each action changes the number of queued jobs by no more than it changes notifications
under way plus workers about to look. `NoSleeperAfterDrop` counts in the same way after
`notify_all`. For `PoolKeepsPromise` the initial states of the pool are mapped to those
of `JobService`, and each action to one of its steps or to a stutter.

*EventLoop.* The queues and the global order are tied together by `QueueInv`: the order
and the queue of a source hold the same ids, and both ascend. `TimerInv` bounds the due times of what is queued by
the last one that ran and by the clock, and says that a one-shot timer that is still
scheduled is neither fired nor queued. Removing from the middle keeps ascending lists
ascending, which is what the lemmas of `Orderings_proofs` on `Keep` are for; that an
ascending list is determined by its elements (`RisingListsAgree`) shows that order and
queues agree after it.

*ErrorReports.* The invariant relates each sender's memory to the row it works on:
`Memory` (the report at the head of its list is the one its snapshot was read from),
`Leased` (a sender in delivery whose row was not deleted holds the row's lease, or the
lease has run out) and `Gated` (a row never falls behind a sender's snapshot of it, and
while it equals the snapshot the cooldown the sender tested is still over). `LeaseExclusive` and `SubmittedWasAccepted`
are conjuncts of it. The first attempt at `RecordedCooldown` failed in `MarkSubmitted`,
and TLC confirmed the reason on a larger instance than the run's: section 6, the
observation on deleted rows. The property now says which rows it is about.

*WebLocks.* `Sound` says that the lists of each name hold exactly what the table says,
the queue in the order of the request numbers, and that the holders exclude each other;
`Idle` that no queue can advance. `Granted` is a prefix of the queue
(`GranteesArePrefix`), and granting it keeps exclusion and leaves nothing grantable
(`AdvanceStep`). `PageAgrees` needs `Notices`: a notice of theft that is still under way
is about a request that is stolen or gone, although numbers and tables have moved on.
`NoBarging` follows from what each step does to the table (`Moved`, `Accepted`).

*HttpPool.* `Ownership` says which connection each table and each attempt owns, so that no two
share one; `WireInv` that every session not in use is clean, and that the one in use
carries at most the exchange of the present hop. `ClientInv` counts the attempts of a
hop by the stage they are in, which gives the bound of three.

*FetchLoads and XmlHttpRequest.* The theorems are about the composition `XhrSpec`.
`LoadInv` gives each background request a `Position`: not started, waiting in the table,
sent and in the table, or out of it with one of sent, cancelled and refused to explain
why. `DeferredFate` alone is not inductive, because it does not say that an entry whose
request is still there was never handed over and belongs to an active document. The
quota is the number of `Bytes` of the table, as a set, so that releasing entries is a
set difference (`ReleaseFacts`) and inserting one a disjoint union (`InsertFacts`); that
`reserved_bytes` cannot fall below zero comes with it. `MergeFacts` says that the merge
of any finite set of snapshots keeps the longest valid approval. For the object,
`ToldOnce` says that a request the page was told of is over, `InProgress` that an ending
under way is of the open request until the object is terminal, and `AbortsPending` that
a queued closure of `abort()` is the only ending its request can still have. Each of the
three needs the other two, and all three except `torn`.

*NativeScroll.* `VisualTruth` is not inductive: it says nothing of the scenes that are
still on their way to the GUI. `IInv` says of every place where an input, a command or a
scene can be how it stands to the page. `Handle`: the GUI's pending list is numbered
from the acknowledgement of its scene and the FIFO from the last notified input, the
inputs performed early are a prefix of the FIFO, and the two lists agree beyond
`applied`. `Queue` and `Accounted`: the commands under way are the accepted inputs and,
behind them, fallbacks and canonical commands with ascending tickets; while no dispatch
failed, every ticket issued and not completed is among them. `Order`: the wheels are
what was performed, then what is accepted and not performed, then the rest of the
commands, so `WheelOrder` is a corollary. `Truth` (of scenes), `Painted`
(of what was painted last) and `Seen` (of the GUI's own offset): from every scene and every retained painting of the present policy, replaying
the inputs after its acknowledgement leads to the offset that the page reaches by
performing its own; a step either carries that on (`Carries`) or ends the policy
(`Lost`), after which the old scenes promise nothing. That replaying a concatenation is
replaying its parts (`PlayConcat`, `PlaySlice`) is proved from the defining equation
of the function in `Play`, by a least counterexample. `BlockedNeverAccepts` rests on the gate,
which a listener latches for good.

### What stays with the model checker

- All liveness properties, and with them the refinement's fairness: TLAPS does not
  prove ENABLED and fairness steps here.
- `ScriptLoads`: `ParserOrder`, `InsertionOrder` and `NothingForGone`, whose inductive
  invariant has to relate the order of a document's loads to nodes that move between
  documents and to the tasks already queued for them.
- The filters and sorts of the proved modules are written with `Keep`, `Pick` and
  `Enumerate` of `Orderings` instead of `SelectSeq` and `SetToSortSeq`: the latter are
  recursive, and what a recursive definition computes cannot be proved with the
  installed provers.

## 6. Findings

Four statements of the repository that the code does not keep, each shown by a run.

1. *A cleared timer can fire* (`js/event_loop.rs:809`). `clear_timer` does not reach a
   timer that `advance` has already promoted to a task, so a callback earlier in the
   same batch cannot stop it. The tests say "clearTimeout must cancel a pending
   function-callback timer" (`js/tests.rs:21939`).
2. *Grants to auxiliary documents are dropped* (`js/mod.rs:5626`). Their client ids
   are never registered, so the flush discards their notifications: a lock they waited
   for is taken and never used.
3. *A failed fallback ends wheel scrolling* (`bin/omoikane/page_worker.rs:969`). An
   error leaves before the ticket is completed; each later ticket is then a gap, and
   the later wheels become such fallbacks while the GUI has a publication (an update
   without one puts them back on the canonical path). The listener in question has to
   ask for a navigation that fails to commit.

4. *Large HTTP/2 bodies do not arrive* (`http/http2.rs:301`). `refresh_flow_control`
   adds to the client's own counters and no WINDOW_UPDATE is ever sent, so a server
   that honours the default window stops after 65,535 bytes of bodies on a connection
   and the client waits for its time-out. `README.md:229` promises that HTTP/2 bodies
   are buffered up to 64 MiB.

Observations met while modelling, without a run of their own:

- *Two endings of one XMLHttpRequest* (`js/dom_bootstrap.js:30062`). A
  `readystatechange` listener that calls `abort()` or `open()` while `_finishSuccess`
  is at state 2 or 3 gets `load` all the same, and `abort` too. A test is named
  `aborting_xhr_drops_its_background_request_and_suppresses_load`
  (`js/fetch_loading/async_fetch/tests.rs:169`); it aborts before the answer.
  `EndsOnce` without its exception for `torn` shows it.
- *`send()` that throws* (`js/dom_bootstrap.js:29928`) while it extracts the body leaves
  `_sendFlag` set: the object cannot be sent until it is opened again.
- *The submission interval after a concurrent event* (`error_reporting/manual.rs:283`):
  a success during which an event was recorded leaves no time stamp, so the fingerprint
  can be submitted again at once, although the policy is a "Minimum interval between
  successful submissions of one fingerprint." (`manual.rs:42`).
- *Deleted rows forget their submission* (`error_reporting/store.rs`, retention). A row
  that retention deletes while a sender has its report in hand, and that is recorded
  anew and counted up to the number in the sender's snapshot, takes the sender's
  bookkeeping for its own: two submissions of it can be recorded within a cooldown, and
  two senders can hold a lease on it. `LeaseExclusive` and `RecordedCooldown` except rows
  that were deleted.
- *Deferred scripts that are ready at once* (inline modules) are not asked again whether
  their document still owns them when they run; fetched ones are. `NothingForGone` is
  about fetched scripts.
- *Uploads over 65,535 bytes* (`http/http2.rs:222`) always fail over HTTP/2: the body is
  refused when it does not fit the window at once, on the pooled and on a new connection.
- *"Sends exactly one HTTP request"* (`http/client.rs:453`) is true of redirects;
  `AttemptsBounded` shows that it may transmit that request up to three times.
- *Calls without an overall limit* (`http/http2.rs:245`, `http/response.rs:202`): the
  loops over SETTINGS, WINDOW_UPDATE, empty and other streams' frames, and over header
  lines, have no count and only the time-out of each single read
  (`http/client.rs:460` says so of the time-out). A server that goes on sending them
  keeps the call and the worker that makes it; `CallReturns` names it as its exception.
- After a wheel fallback at the boundary that changes no pixels, native acceptance
  resumes only at the next paint.

## 7. Plan

Done, in the order of importance to the rest: the worker pool with its abstract
specification and proofs; the event loop; error reports; web locks; fetch loading and
the XMLHttpRequest on top of it; native scrolling; the HTTP client; script loading.

Next, modelling:

1. `NativeScroll` across navigations: replacement of the handle and stale keys.
2. Module graphs and their fetch pool (`js/module_fetch.rs`) below `ScriptLoads`.
3. Image, font and style sheet loading, users of the pool with the life cycle of
   `FetchLoads`.
4. Shared workers and broadcast channels; the reporter's bounded channel.

Next, proving, after its inductive strengthening has been model-checked: `ScriptLoads`
(`ParserOrder`, `InsertionOrder`, `NothingForGone`). The order of a document's loads and
the queued tasks have to be related to the nodes that moved.
