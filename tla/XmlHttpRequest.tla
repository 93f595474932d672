--------------------------- MODULE XmlHttpRequest ---------------------------
(***************************************************************************)
(* An asynchronous XMLHttpRequest (src/src/js/dom_bootstrap.js) over the   *)
(* fetches of FetchLoads.  The object numbers its requests; promise        *)
(* reactions, the timeout and the networking tasks of an earlier number    *)
(* are to be ignored.  Its events run listeners, which may call open(),    *)
(* send() and abort() again: the calls of the page are steps that may come *)
(* between any two others.  One object is modelled, on the host's          *)
(* non-blocking path; upload and progress events, headers and the decoding *)
(* of the body are left out.                                               *)
(***************************************************************************)
EXTENDS FetchLoads

CONSTANT Home   \* the document of the object

ASSUME HomeAssumption  == Home \in Documents
ASSUME OpensAssumption == \A w \in Workloads : w.opens \in 0 .. w.fetches \cup {0}

\* An ending in progress: its events are fired from readyState 2, 3 or 4 on.
Ending == [send : Nat, stage : 2 .. 4, event : {"load", "error", "timeout"}]

ASSUME EndingAssumption == None \notin Ending

VARIABLES
    xhr,      \* the object
    opens,    \* calls of open() so far
    starts,   \* sends whose fetch is still to be started by a microtask
    refused,  \* sends whose fetch could not be started
    owned,    \* fetch -> the send whose reaction its promise will run, or 0
    net,      \* queued networking closures
    fin,      \* the ending whose events are being fired, or None
    told,     \* history: the ending events fired
    torn      \* history: numbers of requests that were opened or aborted by a
              \* listener in the middle of _finishSuccess

xhrVars == <<xhr, opens, starts, refused, owned, net, fin, told, torn>>
allVars == <<vars, xhrVars>>

XhrInit ==
    /\ Init
    /\ xhr = [id |-> 0, readyState |-> 0, sendFlag |-> FALSE, terminal |-> FALSE,
              fetchId |-> None, timed |-> FALSE, timer |-> 0, response |-> 0,
              opened |-> 0, sent |-> 0]
    /\ opens = 0
    /\ starts = {} /\ refused = {}
    /\ owned = [i \in FetchIds |-> 0]
    /\ net = <<>>
    /\ fin = None
    /\ told = <<>> /\ torn = {}

-----------------------------------------------------------------------------
(* The calls of the page. *)

Running == Home \in active

\* _cancelFetch: the fetch is dropped and its promise is never settled.
CancelFetch ==
    LET i == xhr.fetchId
    IN  IF i = None THEN UNCHANGED <<fetches, jobs, page>>
        ELSE /\ fetches' = [fetches EXCEPT ![i] = None]
             /\ jobs' = [jobs EXCEPT ![<<"fetch", i>>] = None]
             /\ page' = [page EXCEPT ![i] = "aborted"]

outsideFetch == UNCHANGED <<clock, active, stopped, nextFetch, callbacks, loads, cache,
                            fate, load>>

\* A listener runs while _finishSuccess is at its readyState 2 or 3.
InSuccess == fin # None /\ fin.stage \in {2, 3}

Tear(id) == torn' = IF InSuccess THEN torn \cup {fin.send, id} ELSE torn

\* open, which has reset the object by the time a malformed URL makes it throw
\* and leave readyState as it was.
Open ==
    LET id == xhr.id + 1
    IN  /\ Running
        /\ opens < load.opens
        /\ opens' = opens + 1
        /\ CancelFetch
        /\ \E state \in {1, xhr.readyState} :
              xhr' = [xhr EXCEPT !.id = id, !.readyState = state, !.sendFlag = FALSE,
                          !.terminal = FALSE, !.fetchId = None, !.timer = 0,
                          !.response = 0, !.opened = id]
        /\ Tear(id)
        /\ outsideFetch
        /\ UNCHANGED <<starts, refused, owned, net, fin, told>>

\* send: the fetch starts in a microtask; the timeout is armed at once.
Send ==
    /\ Running
    /\ xhr.readyState = 1 /\ ~xhr.sendFlag
    /\ \E timed \in BOOLEAN :
          xhr' = [xhr EXCEPT !.sendFlag = TRUE, !.terminal = FALSE, !.timed = timed,
                             !.timer = IF timed THEN xhr.id ELSE 0, !.sent = xhr.id]
    /\ starts' = starts \cup {xhr.id}
    /\ outsideFetch
    /\ UNCHANGED <<fetches, jobs, page, opens, refused, owned, net, fin, told, torn>>

\* The body cannot be extracted: send throws with its flag already set.
SendThrows ==
    /\ Running
    /\ xhr.readyState = 1 /\ ~xhr.sendFlag
    /\ xhr' = [xhr EXCEPT !.sendFlag = TRUE, !.terminal = FALSE]
    /\ UNCHANGED <<vars, opens, starts, refused, owned, net, fin, told, torn>>

AbortRequest ==
    LET id == xhr.id + 1
    IN  /\ Running
        /\ CancelFetch
        /\ IF xhr.sendFlag /\ ~xhr.terminal
           THEN /\ xhr' = [xhr EXCEPT !.id = id, !.readyState = 0, !.sendFlag = FALSE,
                               !.terminal = TRUE, !.fetchId = None, !.timer = 0,
                               !.response = 0]
                /\ net' = Append(net, [kind |-> "abort", send |-> xhr.id])
                /\ Tear(id)
           ELSE /\ xhr' = [xhr EXCEPT !.fetchId = None, !.timer = 0]
                /\ UNCHANGED <<net, torn>>
        /\ outsideFetch
        /\ UNCHANGED <<opens, starts, refused, owned, fin, told>>

-----------------------------------------------------------------------------
(* Microtasks and the timeout. *)

Stale(send) == send # xhr.id \/ xhr.terminal

\* The microtask of send: a stale request is not submitted, and one that a
\* stopped queue refuses has a rejected promise.
StartFetch(send) ==
    /\ Running
    /\ send \in starts
    /\ starts' = starts \ {send}
    /\ \/ /\ Stale(send)
          /\ UNCHANGED <<fetches, nextFetch, page, jobs, xhr, refused, owned>>
       \/ /\ ~Stale(send) /\ stopped
          /\ refused' = refused \cup {send}
          /\ UNCHANGED <<fetches, nextFetch, page, jobs, xhr, owned>>
       \/ /\ ~Stale(send)
          /\ Begin(Home, None)
          /\ xhr' = [xhr EXCEPT !.fetchId = nextFetch']
          /\ owned' = [owned EXCEPT ![nextFetch'] = send]
          /\ UNCHANGED refused
    /\ UNCHANGED <<clock, active, stopped, callbacks, loads, cache, fate, load, opens, net,
                   fin, told, torn>>

\* The reactions of the payload's promise: what the transport says is queued
\* as a networking task, unless the object has moved on.
React(send, kind) ==
    /\ Running
    /\ xhr' = IF send = xhr.id THEN [xhr EXCEPT !.fetchId = None] ELSE xhr
    /\ IF Stale(send) THEN UNCHANGED net
       ELSE net' = Append(net, [kind |-> kind, send |-> send])
    /\ UNCHANGED <<vars, opens, starts, fin, told, torn>>

Settled(i) ==
    /\ owned[i] # 0
    /\ page[i] \in {"loaded", "failed"}
    /\ \E kind \in {IF page[i] = "loaded" THEN "success" ELSE "error", "timeout"} :
          /\ kind = "timeout" => xhr.timed
          /\ React(owned[i], kind)
    /\ owned' = [owned EXCEPT ![i] = 0]
    /\ UNCHANGED refused

Refused(send) ==
    /\ send \in refused
    /\ React(send, "error")
    /\ refused' = refused \ {send}
    /\ UNCHANGED owned

TimeoutFires ==
    /\ Running
    /\ xhr.timer # 0
    /\ net' = Append(net, [kind |-> "timeout", send |-> xhr.timer])
    /\ xhr' = [xhr EXCEPT !.timer = 0]
    /\ UNCHANGED <<vars, opens, starts, refused, owned, fin, told, torn>>

-----------------------------------------------------------------------------
(* The networking tasks. *)

AtClosure(kind) ==
    /\ Running
    /\ fin = None
    /\ net # <<>>
    /\ Head(net).kind = kind
    /\ net' = Tail(net)
    /\ UNCHANGED <<opens, starts, refused, owned, torn>>

\* Mutant: a late ending is not compared with the number of the request.
CurrentUnnumbered(send) == ~xhr.terminal

\* The early return of the three endings.
Current(send) == ~Stale(send)

\* _finishSuccess, up to the first event.
FinishSuccess ==
    /\ AtClosure("success")
    /\ LET send == Head(net).send
       IN  IF Current(send)
           THEN /\ xhr' = [xhr EXCEPT !.timer = 0, !.readyState = 2, !.response = send]
                /\ fin' = [send |-> send, stage |-> 2, event |-> "load"]
           ELSE UNCHANGED <<xhr, fin>>
    /\ UNCHANGED <<vars, told>>

\* _finishSuccess goes on after the listeners, without another look at the
\* number of the request.
GoOn ==
    /\ Running
    /\ InSuccess
    /\ \/ /\ fin.stage = 2
          /\ xhr' = [xhr EXCEPT !.readyState = 3]
          /\ fin' = [fin EXCEPT !.stage = 3]
       \/ /\ fin.stage = 3
          /\ xhr' = [xhr EXCEPT !.readyState = 4, !.sendFlag = FALSE, !.terminal = TRUE,
                                !.response = fin.send]
          /\ fin' = [fin EXCEPT !.stage = 4]
    /\ UNCHANGED <<vars, opens, starts, refused, owned, net, told, torn>>

FinishError ==
    /\ AtClosure("error")
    /\ LET send == Head(net).send
       IN  IF Current(send)
           THEN /\ xhr' = [xhr EXCEPT !.timer = 0, !.readyState = 4, !.response = 0,
                                      !.sendFlag = FALSE, !.terminal = TRUE]
                /\ fin' = [send |-> send, stage |-> 4, event |-> "error"]
           ELSE UNCHANGED <<xhr, fin>>
    /\ UNCHANGED <<vars, told>>

\* _finishTimeout also cancels the fetch and retires the number.
FinishTimeout ==
    /\ AtClosure("timeout")
    /\ LET send == Head(net).send
       IN  IF Current(send) /\ xhr.sendFlag
           THEN /\ CancelFetch
                /\ xhr' = [xhr EXCEPT !.id = @ + 1, !.fetchId = None, !.timer = 0,
                               !.readyState = 4, !.response = 0, !.sendFlag = FALSE,
                               !.terminal = TRUE]
                /\ fin' = [send |-> send, stage |-> 4, event |-> "timeout"]
           ELSE UNCHANGED <<fetches, jobs, page, xhr, fin>>
    /\ outsideFetch
    /\ UNCHANGED told

\* The last readystatechange has been fired: now the ending event.
FireEnding ==
    /\ Running
    /\ fin # None /\ fin.stage = 4
    /\ told' = Append(told, [send |-> fin.send, event |-> fin.event])
    /\ fin' = None
    /\ UNCHANGED <<vars, xhr, opens, starts, refused, owned, net, torn>>

\* Mutant: the closure compares with the number the request was sent under.
FinishAbortOldNumber ==
    /\ AtClosure("abort")
    /\ LET send == Head(net).send
       IN  told' = IF xhr.id = send
                   THEN Append(told, [send |-> send, event |-> "abort"]) ELSE told
    /\ UNCHANGED <<vars, xhr, fin>>

\* The closure of abort: silent when the object has been opened again.
FinishAbort ==
    /\ AtClosure("abort")
    /\ LET send == Head(net).send
       IN  told' = IF xhr.id = send + 1
                   THEN Append(told, [send |-> send, event |-> "abort"]) ELSE told
    /\ UNCHANGED <<vars, xhr, fin>>

-----------------------------------------------------------------------------
Sends == 1 .. xhr.id

Microtask == \/ \E s \in Sends : StartFetch(s) \/ Refused(s)
             \/ \E i \in FetchIds : Settled(i)

Networking == \/ FinishSuccess \/ FinishError \/ FinishTimeout \/ FinishAbort
              \/ GoOn \/ FireEnding

\* The fetches of the object are begun and dropped by it alone.
OthersStep ==
    /\ Step
    /\ load.opens > 0 => nextFetch' = nextFetch
    /\ \A i \in FetchIds : owned[i] # 0 => (page'[i] = "aborted") = (page[i] = "aborted")
    /\ UNCHANGED <<load, xhrVars>>

XhrNext ==
    \/ OthersStep
    \/ Open \/ Send \/ SendThrows \/ AbortRequest
    \/ Microtask \/ TimeoutFires \/ Networking

XhrSpec == XhrInit /\ [][XhrNext]_allVars

\* Microtasks and tasks of a live document run in the end.
XhrFairSpec ==
    /\ XhrSpec
    /\ Fairness
    /\ WF_allVars(Microtask)
    /\ WF_allVars(Networking)

-----------------------------------------------------------------------------
(* Properties. *)

Endings(send) == {n \in DOMAIN told : told[n].send = send}

\* A request ends with one of load, error, timeout and abort, once, and what
\* the object shows is the response to its own last send, whichever of the
\* answer, the timeout, abort() and a new open() comes first.  The exception:
\* requests that a listener opened or aborted in the middle of _finishSuccess.
EndsOnce ==
    /\ \A send \in Sends \ torn : Cardinality(Endings(send)) <= 1
    /\ xhr.response \in {0, xhr.id} \cup torn

\* A send comes to its ending event, unless the object is opened again, its
\* document goes, or a listener tears the success in progress.
SendSettles ==
    <>[](\/ xhr.sent = 0
         \/ Endings(xhr.sent) # {} \/ xhr.opened > xhr.sent
         \/ ~Running \/ xhr.sent \in torn)
=============================================================================
