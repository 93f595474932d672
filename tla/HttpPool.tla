------------------------------ MODULE HttpPool ------------------------------
(***************************************************************************)
(* The HTTP client of src/src/http: the redirect loop of Client::send      *)
(* (client.rs) over the ConnectionPool of TLS sessions (connection.rs) and *)
(* the HTTP/1.1 and HTTP/2 exchanges (http2.rs, response.rs).              *)
(*                                                                         *)
(* The client makes one call at a time; the servers run beside it and may  *)
(* answer late, in pieces, not at all, or close.  A request is the call    *)
(* and hop it belongs to, a body is a number of flow-control units.        *)
(* Cookies, header filtering and the parsing of headers are left out.  A   *)
(* server only sends answers to what it received, but frames and header    *)
(* lines that complete nothing as often as it likes.                       *)
(***************************************************************************)
EXTENDS Naturals, Sequences, FiniteSets

CONSTANTS
    Hosts,         \* authorities; the rest of the pool's key is fixed
    MaxRedirects,  \* Client.max_redirects
    Window,        \* DEFAULT_WINDOW_SIZE, in units
    BodyLimit,     \* response_body_limit(), in units
    Workloads,     \* the instances, one of which a behaviour follows
    None

ASSUME LimitsAssumption ==
    /\ MaxRedirects \in Nat /\ BodyLimit \in Nat /\ Window \in Nat \ {0}
ASSUME HostsAssumption == IsFiniteSet(Hosts)

\* How an HTTP/1.1 response shows its end, and the statuses without a body.
Framings == {"sized", "oversized", "untilEof", "close", "conflict", "switch", "empty"}

Requests  == [host : Hosts, tls : BOOLEAN, method : {"GET", "HEAD", "POST"},
              body : Nat, mode : {"follow", "observe", "once"}]
Redirects == [moved : BOOLEAN, host : Hosts, tls : BOOLEAN]

\* A workload: the calls the page makes, what the servers speak and answer,
\* and how often a server may close, upset the parser or leave a call waiting.
ASSUME WorkloadsAssumption ==
    \A l \in Workloads :
        /\ l.calls \in Seq(Requests)
        /\ l.protocols \subseteq {"h2", "h1"}
        /\ l.framings \subseteq Framings
        /\ l.bodies \subseteq Nat /\ l.faults \in Nat
        /\ l.redirects \subseteq Redirects

VARIABLES
    load,      \* the workload of this behaviour
    \* the client
    call,      \* number of the call under way or last made
    req,       \* the request of its current hop
    left,      \* redirects_remaining
    pc,        \* where the client stands
    stage,     \* which of send_with_timeout's attempts is under way
    cur,       \* the connection it waits on, or None
    http1,     \* host -> connection: ConnectionPool.http1
    http2,     \* host -> connection: ConnectionPool.http2
    got,       \* units of the body that the attempt has read
    resp,      \* the response returned by the pool
    outcome,   \* call -> "open", "response", "stopped", "error"
    sends,     \* history: transmissions of the current hop
    \* the wires and the servers at their far ends
    conn,      \* connection -> its state, or None
    faults     \* faults so far

clientVars == <<call, req, left, pc, stage, cur, http1, http2, got, resp,
                outcome, sends>>
vars == <<load, clientVars, conn, faults>>

\* A slot is free when neither the pool nor the attempt under way owns it.
Slots == 1 .. (Cardinality(Hosts) + 1)

CallNumbers == UNION {DOMAIN l.calls : l \in Workloads}

\* The hop under way, as a server can tell it from any other.
Hop == <<call, left>>

Init ==
    /\ load \in Workloads
    /\ call = 0
    /\ req = None
    /\ left = MaxRedirects
    /\ pc = "idle"
    /\ stage = "none"
    /\ cur = None
    /\ http1 = [h \in Hosts |-> None]
    /\ http2 = [h \in Hosts |-> None]
    /\ got = 0
    /\ resp = None
    /\ outcome = [i \in CallNumbers |-> "open"]
    /\ sends = 0
    /\ conn = [c \in Slots |-> None]
    /\ faults = 0

-----------------------------------------------------------------------------
(***************************************************************************)
(* Client::send: one call, its redirects and its end.                      *)
(***************************************************************************)
StartCall ==
    /\ pc = "idle"
    /\ call < Len(load.calls)
    /\ call' = call + 1
    /\ req' = load.calls[call']
    /\ left' = MaxRedirects
    /\ pc' = "route"
    /\ sends' = 0
    /\ UNCHANGED <<load, stage, cur, http1, http2, got, resp, outcome, conn, faults>>

Finish(result) ==
    /\ outcome' = [outcome EXCEPT ![call] = result]
    /\ pc' = "idle"
    /\ stage' = "none"
    /\ resp' = None
    /\ req' = None
    /\ left' = MaxRedirects
    /\ sends' = 0

\* redirect_method: a moved POST becomes a GET, which has no body.
Redirected(r) ==
    LET get == r.moved /\ req.method = "POST"
    IN  [host |-> r.host, tls |-> r.tls, mode |-> req.mode,
         method |-> IF get THEN "GET" ELSE req.method,
         body   |-> IF get THEN 0 ELSE req.body]

\* Mutant: redirects are not counted.
HandleResponseUncounted ==
    /\ pc = "answered"
    /\ \/ resp.to = None /\ Finish("response")
       \/ /\ resp.to # None
          /\ req' = Redirected(resp.to)
          /\ pc' = "route"
          /\ resp' = None
          /\ sends' = 0
          /\ UNCHANGED <<left, outcome, stage>>
    /\ UNCHANGED <<load, call, cur, http1, http2, got, conn, faults>>

\* What Client::send makes of a response: send_once_with_timeout returns it,
\* an observer of a navigation may stop the call, a redirect is followed.
HandleResponse ==
    /\ pc = "answered"
    /\ \/ /\ resp.to = None \/ req.mode = "once"
          /\ Finish("response")
       \/ req.mode = "observe" /\ Finish("stopped")
       \/ /\ resp.to # None /\ req.mode # "once"   \* none left, or a bad Location
          /\ Finish("error")
       \/ /\ resp.to # None /\ req.mode # "once" /\ left > 0
          /\ left' = left - 1
          /\ req' = Redirected(resp.to)
          /\ pc' = "route"
          /\ resp' = None
          /\ sends' = 0
          /\ UNCHANGED <<outcome, stage>>
    /\ UNCHANGED <<load, call, cur, http1, http2, got, conn, faults>>

-----------------------------------------------------------------------------
(***************************************************************************)
(* send_with_timeout: the pooled HTTP/2 session, then the pooled HTTP/1.1  *)
(* session, then a new connection, then a new HTTP/1.1 connection.         *)
(***************************************************************************)

\* A new TLS or TCP connection.  `credit` is what the client may send
\* (connection_window), `window` what the server may send.  `idle` says that
\* something that completes nothing is to be read before `down`.
Opened(protocol) ==
    [protocol |-> protocol, open |-> TRUE, up |-> <<>>, down |-> <<>>, idle |-> FALSE,
     work |-> None, stream |-> 0, credit |-> Window, window |-> Window]

FreeSlot == CHOOSE c \in Slots : conn[c] = None

\* The request is written: on HTTP/2 it opens the next stream.  Bytes that
\* reach a closed server are lost.
Write(state) ==
    LET sent == [of |-> Hop, stream |-> state.stream + 1,
                 head |-> req.method = "HEAD", body |-> req.body]
    IN  [state EXCEPT !.up = IF state.open THEN Append(@, sent) ELSE @,
                      !.stream = IF state.protocol = "h2" THEN @ + 1 ELSE @,
                      !.credit = IF state.protocol = "h2" THEN @ - req.body ELSE @]

\* write_data refuses a body that does not fit into the windows; the new
\* stream's own window is DEFAULT_WINDOW_SIZE.
Fits(state) ==
    state.protocol = "h2" => req.body <= state.credit /\ req.body <= Window

\* An attempt over connection c in state `state` begins.
Attempt(name, c, state) ==
    /\ Fits(state)
    /\ conn' = [conn EXCEPT ![c] = Write(state)]
    /\ cur' = c
    /\ stage' = name
    /\ pc' = "read"
    /\ got' = 0
    /\ sends' = sends + 1

RouteUnchanged == UNCHANGED <<load, call, req, left, http1, http2, resp, outcome, faults>>

Pooled2 == IF req.tls THEN http2[req.host] ELSE None
Pooled1 == IF req.tls THEN http1[req.host] ELSE None

UsePooledHttp2 ==
    /\ pc = "route"
    /\ Pooled2 # None
    /\ Attempt("pooled2", Pooled2, conn[Pooled2])
    /\ RouteUnchanged

\* The session is removed although nothing reached the server but HEADERS.
PooledHttp2DoesNotFit ==
    /\ pc = "route"
    /\ Pooled2 # None
    /\ ~Fits(conn[Pooled2])
    /\ http2' = [http2 EXCEPT ![req.host] = None]
    /\ conn' = [conn EXCEPT ![Pooled2] = None]
    /\ UNCHANGED <<load, call, req, left, pc, stage, cur, http1, got, resp,
                   outcome, sends, faults>>

UsePooledHttp1 ==
    /\ pc = "route"
    /\ Pooled2 = None
    /\ Pooled1 # None
    /\ Attempt("pooled1", Pooled1, conn[Pooled1])
    /\ RouteUnchanged

\* Resolving, connecting, the TLS handshake or set_timeout fails.
RouteFails ==
    /\ pc \in {"route", "downgrade"}
    /\ faults < load.faults
    /\ faults' = faults + 1
    /\ Finish("error")
    /\ UNCHANGED <<load, call, cur, http1, http2, got, conn>>

ConnectNew(protocol) ==
    /\ pc = "route"
    /\ Pooled2 = None /\ Pooled1 = None
    /\ req.tls => protocol \in load.protocols
    /\ ~req.tls => protocol = "h1"
    /\ LET name == IF ~req.tls THEN "plain"
                   ELSE IF protocol = "h2" THEN "new2" ELSE "new1"
       IN  Attempt(name, FreeSlot, Opened(protocol))
    /\ RouteUnchanged

\* A body that does not fit a new HTTP/2 connection fails with an I/O error.
NewHttp2DoesNotFit ==
    /\ pc = "route"
    /\ Pooled2 = None /\ Pooled1 = None
    /\ req.tls /\ "h2" \in load.protocols
    /\ ~Fits(Opened("h2"))
    /\ Finish("error")
    /\ UNCHANGED <<load, call, cur, http1, http2, got, conn, faults>>

SendNewHttp1 ==
    /\ pc = "downgrade"
    /\ Attempt("downgraded", FreeSlot, Opened("h1"))
    /\ RouteUnchanged

-----------------------------------------------------------------------------
(***************************************************************************)
(* The end of an attempt.                                                  *)
(***************************************************************************)

\* Mutant: responses with two lengths do not end the connection.
CanReuseConflict(framing) ==
    \/ req.method = "HEAD" /\ framing \notin {"close", "switch"}
    \/ framing \in {"sized", "empty", "conflict"}

\* can_reuse_http1_connection.
CanReuse(framing) ==
    /\ framing \notin {"close", "conflict", "switch"}
    /\ req.method = "HEAD" \/ framing \in {"sized", "empty"}

\* Mutant: the session of a failed HTTP/1.1 attempt stays in the pool.
FailKeepsSession(kind) ==
    /\ conn' = IF stage = "pooled1" THEN conn ELSE [conn EXCEPT ![cur] = None]
    /\ http2' = [http2 EXCEPT ![req.host] = IF stage = "pooled2" THEN None ELSE @]
    /\ cur' = None
    /\ Finish("error")
    /\ UNCHANGED http1

\* Mutant: an interpretation error is retried on any new connection.
FailAlwaysRetries(kind) ==
    /\ http1' = [http1 EXCEPT ![req.host] = IF stage = "pooled1" THEN None ELSE @]
    /\ http2' = [http2 EXCEPT ![req.host] = IF stage = "pooled2" THEN None ELSE @]
    /\ conn' = [conn EXCEPT ![cur] = None]
    /\ cur' = None
    /\ pc' = IF stage = "new2" THEN "downgrade" ELSE "route"
    /\ stage' = "none"
    /\ UNCHANGED <<req, left, resp, outcome, sends>>

\* The attempt fails and its session is dropped: a pooled one leaves the
\* pool and the next attempt follows; a new HTTP/2 connection whose answer
\* cannot be interpreted is followed by HTTP/1.1; else the call fails.
Fail(kind) ==
    /\ http1' = [http1 EXCEPT ![req.host] = IF stage = "pooled1" THEN None ELSE @]
    /\ http2' = [http2 EXCEPT ![req.host] = IF stage = "pooled2" THEN None ELSE @]
    /\ conn' = [conn EXCEPT ![cur] = None]
    /\ cur' = None
    /\ \/ /\ stage \in {"pooled2", "pooled1"}
          /\ pc' = "route"
          /\ stage' = "none"
          /\ UNCHANGED <<req, left, resp, outcome, sends>>
       \/ /\ stage = "new2" /\ kind = "invalidHeader"
          /\ pc' = "downgrade"
          /\ stage' = "none"
          /\ UNCHANGED <<req, left, resp, outcome, sends>>
       \/ /\ \/ stage \in {"new1", "downgraded", "plain"}
             \/ stage = "new2" /\ kind = "io"
          /\ Finish("error")

\* The attempt is answered by r; the session is kept or dropped.
Succeed(r, keep, state) ==
    LET slot == IF keep THEN cur ELSE None
    IN  /\ http2' = IF stage \in {"pooled2", "new2"}
                    THEN [http2 EXCEPT ![req.host] = slot] ELSE http2
        /\ http1' = IF stage \in {"pooled1", "new1", "downgraded"}
                    THEN [http1 EXCEPT ![req.host] = slot] ELSE http1
        /\ conn' = [conn EXCEPT ![cur] = IF keep THEN state ELSE None]
        /\ cur' = None
        /\ stage' = "none"
        /\ pc' = "answered"
        /\ resp' = r
        /\ UNCHANGED <<req, left, outcome, sends>>

Reading == pc = "read"
Arrived == Reading /\ ~conn[cur].idle /\ conn[cur].down # <<>>
Popped  == [conn[cur] EXCEPT !.down = Tail(@)]

\* parse_for_method: one response, whatever the bytes belong to.
ReadHttp1 ==
    /\ Arrived
    /\ conn[cur].protocol = "h1"
    /\ LET r == Head(conn[cur].down)
       IN  \/ r.framing = "oversized" /\ req.method # "HEAD" /\ Fail("io")
           \/ /\ r.framing # "oversized" \/ req.method = "HEAD"
              /\ Succeed(r, stage # "plain" /\ CanReuse(r.framing), Popped)
    /\ UNCHANGED <<load, call, got, faults>>

\* read_response: a frame of the awaited stream, and whether it completes it.
ReadStreamFrame ==
    /\ Arrived
    /\ conn[cur].protocol = "h2"
    /\ LET f == Head(conn[cur].down)
           body == got + (IF f.kind = "data" THEN 1 ELSE 0)
       IN  /\ f.kind \in {"headers", "data"}
           /\ f.stream = conn[cur].stream
           /\ \/ body > BodyLimit /\ Fail("io") /\ UNCHANGED got
              \/ /\ body <= BodyLimit /\ f.end
                 /\ Succeed(f, TRUE, Popped)
                 /\ UNCHANGED got
              \/ /\ body <= BodyLimit /\ ~f.end
                 /\ got' = body
                 /\ conn' = [conn EXCEPT ![cur] = Popped]
                 /\ UNCHANGED <<req, left, pc, stage, cur, http1, http2, resp,
                                outcome, sends>>
    /\ UNCHANGED <<load, call, faults>>

\* WINDOW_UPDATE gives credit; frames of other streams are skipped.
ReadOtherFrame ==
    /\ Arrived
    /\ conn[cur].protocol = "h2"
    /\ LET f == Head(conn[cur].down)
       IN  /\ \/ f.kind = "update"
              \/ f.kind \in {"headers", "data"} /\ f.stream # conn[cur].stream
           /\ conn' = [conn EXCEPT ![cur] =
                 [Popped EXCEPT !.credit = IF f.kind = "update" THEN @ + f.units ELSE @]]
    /\ UNCHANGED <<load, call, req, left, pc, stage, cur, http1, http2, got, resp,
                   outcome, sends, faults>>

\* A frame type the client does not know (PING, GOAWAY, RST_STREAM,
\* CONTINUATION) or a header block it cannot decode.
ReadOpaqueFrame ==
    /\ Arrived
    /\ conn[cur].protocol = "h2"
    /\ Head(conn[cur].down).kind = "opaque"
    /\ Fail("invalidHeader")
    /\ UNCHANGED <<load, call, got, faults>>

\* A frame that leaves the exchange where it was: SETTINGS, which the client
\* acknowledges, an empty DATA frame, further HEADERS, a frame of no stream the
\* client knows.  read_response has no limit on them but the time-out of each
\* single read.
SkipFrame ==
    /\ Reading
    /\ conn[cur].protocol = "h2" /\ conn[cur].idle
    /\ conn' = [conn EXCEPT ![cur].idle = FALSE]
    /\ UNCHANGED <<load, call, req, left, pc, stage, cur, http1, http2, got, resp,
                   outcome, sends, faults>>

\* The acknowledgement of SETTINGS does not reach a server that has closed.
AcknowledgementFails ==
    /\ Reading
    /\ conn[cur].protocol = "h2" /\ conn[cur].idle /\ ~conn[cur].open
    /\ Fail("io")
    /\ UNCHANGED <<load, call, got, faults>>

\* A further line of an HTTP/1.1 header, whose loop has no limit either.
SkipLine ==
    /\ Reading
    /\ conn[cur].protocol = "h1" /\ conn[cur].idle
    /\ conn' = [conn EXCEPT ![cur].idle = FALSE]
    /\ UNCHANGED <<load, call, req, left, pc, stage, cur, http1, http2, got, resp,
                   outcome, sends, faults>>

\* Nothing came within the socket's timeout, or the peer has closed.
ReadTimeout ==
    /\ Reading
    /\ ~conn[cur].idle /\ conn[cur].down = <<>>
    /\ Fail("io")
    /\ UNCHANGED <<load, call, got, faults>>

-----------------------------------------------------------------------------
(***************************************************************************)
(* The servers.                                                            *)
(***************************************************************************)
Live(c) == conn[c] # None /\ conn[c].open

Target == {None} \cup load.redirects

\* An HTTP/1.1 server answers the oldest request.  With two lengths, or
\* after a protocol switch, more bytes follow than the client takes; an
\* unframed body and `Connection: close` end the connection.
AnswerHttp1(c) ==
    /\ Live(c) /\ conn[c].protocol = "h1"
    /\ conn[c].up # <<>>
    /\ \E framing \in load.framings, to \in Target :
          LET asked == Head(conn[c].up)
              r     == [of |-> asked.of, framing |-> framing, to |-> to]
              rest  == IF framing \in {"conflict", "switch"}
                       THEN <<[of |-> None, framing |-> "sized", to |-> None]>>
                       ELSE <<>>
          IN  conn' = [conn EXCEPT
                ![c].up = Tail(@),
                ![c].down = @ \o <<r>> \o rest,
                ![c].open = framing # "close" /\ (framing # "untilEof" \/ asked.head)]
    /\ UNCHANGED <<load, clientVars, faults>>

\* An HTTP/2 server takes the next request and decides what to answer.
AnswerHttp2(c) ==
    /\ Live(c) /\ conn[c].protocol = "h2"
    /\ conn[c].up # <<>> /\ conn[c].work = None
    /\ \E size \in load.bodies, to \in Target :
          LET asked == Head(conn[c].up)
              units == IF asked.head THEN 0 ELSE size
              frame == [kind |-> "headers", of |-> asked.of, to |-> to,
                        stream |-> asked.stream, end |-> units = 0]
          IN  conn' = [conn EXCEPT
                ![c].up = Tail(@),
                ![c].work = IF units = 0 THEN None
                            ELSE [of |-> asked.of, to |-> to,
                                  stream |-> asked.stream, units |-> units],
                ![c].down = Append(@, frame)]
    /\ UNCHANGED <<load, clientVars, faults>>

\* WINDOW_UPDATE: when it likes, the server gives back the credit of the bodies
\* it has received; one is unread at a time.
ReturnCredit(c) ==
    /\ Live(c) /\ conn[c].protocol = "h2"
    /\ conn[c].up = <<>> /\ conn[c].credit < Window
    /\ \A i \in DOMAIN conn[c].down : conn[c].down[i].kind # "update"
    /\ conn' = [conn EXCEPT ![c].down =
                    Append(@, [kind |-> "update", units |-> Window - conn[c].credit])]
    /\ UNCHANGED <<load, clientVars, faults>>

\* A server may send what completes nothing as often as it likes: frames at any
\* time, header lines once its answer has begun.  What follows other messages
\* is sent when these were read, which the client cannot tell from earlier.
SendIdle(c) ==
    /\ Live(c)
    /\ conn[c].protocol = "h1" => conn[c].up # <<>>
    /\ ~conn[c].idle /\ conn[c].down = <<>>
    /\ conn' = [conn EXCEPT ![c].idle = TRUE]
    /\ UNCHANGED <<load, clientVars, faults>>

\* One unit of the body, as far as the window of the connection goes.  The
\* client never sends WINDOW_UPDATE: refresh_flow_control only counts.
SendData(c) ==
    /\ Live(c) /\ conn[c].protocol = "h2"
    /\ conn[c].work # None
    /\ conn[c].window > 0
    /\ LET w == conn[c].work
       IN  conn' = [conn EXCEPT
              ![c].window = @ - 1,
              ![c].down = Append(@, [kind |-> "data", of |-> w.of, to |-> w.to,
                                     stream |-> w.stream, end |-> w.units = 1]),
              ![c].work = IF w.units = 1 THEN None ELSE [w EXCEPT !.units = @ - 1]]
    /\ UNCHANGED <<load, clientVars, faults>>

SendOpaque(c) ==
    /\ Live(c) /\ conn[c].protocol = "h2"
    /\ faults < load.faults
    /\ faults' = faults + 1
    /\ conn' = [conn EXCEPT ![c].down = Append(@, [kind |-> "opaque"])]
    /\ UNCHANGED <<load, clientVars>>

CloseServer(c) ==
    /\ Live(c)
    /\ faults < load.faults
    /\ faults' = faults + 1
    /\ conn' = [conn EXCEPT ![c].open = FALSE, ![c].up = <<>>, ![c].work = None]
    /\ UNCHANGED <<load, clientVars>>

-----------------------------------------------------------------------------
Route ==
    \/ UsePooledHttp2 \/ PooledHttp2DoesNotFit \/ UsePooledHttp1
    \/ \E p \in {"h2", "h1"} : ConnectNew(p)
    \/ NewHttp2DoesNotFit \/ SendNewHttp1

Read ==
    \/ ReadHttp1 \/ ReadStreamFrame \/ ReadOtherFrame \/ ReadOpaqueFrame
    \/ SkipFrame \/ AcknowledgementFails \/ SkipLine \/ ReadTimeout

ClientStep == HandleResponse \/ Route \/ Read

ServerStep(c) ==
    \/ AnswerHttp1(c) \/ AnswerHttp2(c) \/ SendData(c)
    \/ ReturnCredit(c) \/ SendIdle(c)

Next ==
    \/ StartCall \/ ClientStep \/ RouteFails
    \/ \E c \in Slots : ServerStep(c) \/ SendOpaque(c) \/ CloseServer(c)

Spec == Init /\ [][Next]_vars

\* The client's thread runs on, and a read to which nothing comes ends by its
\* timeout.  A server owes nothing.
FairSpec == Spec /\ WF_vars(ClientStep)

-----------------------------------------------------------------------------
(* Properties. *)

(***************************************************************************)
(* What the wires carry.                                                   *)
(***************************************************************************)
Hops     == Nat \X Nat
Location == Redirects \cup {None}

Sent    == [of : Hops, stream : Nat, head : BOOLEAN, body : Nat]
Owed    == [of : Hops, to : Location, stream : Nat, units : Nat \ {0}]
Answers == [of : Hops \cup {None}, framing : Framings, to : Location]

Opaque  == [kind |-> "opaque"]
Message == [kind : {"headers", "data"}, of : Hops, to : Location, stream : Nat,
            end : BOOLEAN]
Link    == [kind : {"update"}, units : Nat] \cup {Opaque}
Frames  == Message \cup Link

Wire(protocol, down) ==
    [protocol : {protocol}, open : BOOLEAN, up : Seq(Sent), down : Seq(down),
     idle : BOOLEAN, work : Owed \cup {None}, stream : Nat, credit : Nat, window : Nat]
Wires == Wire("h1", Answers) \cup Wire("h2", Frames)

\* "No connection", "no work", "no redirect" are none of the things they stand
\* in for.
ASSUME NoneAssumption ==
    None \notin Nat \cup Wires \cup Redirects \cup Owed

SessionSlots(pool) == {pool[h] : h \in Hosts} \ {None}

\* The state has its shape, and no session is shared: the tables, and the
\* attempt on a new connection, own different connections.
TypeOK ==
    /\ load \in Workloads /\ call \in Nat /\ sends \in Nat
    /\ conn \in [Slots -> Wires \cup {None}]
    /\ pc \in {"idle", "route", "downgrade", "read", "answered"}
    /\ left \in 0 .. MaxRedirects
    /\ http1 \in [Hosts -> Slots \cup {None}]
    /\ http2 \in [Hosts -> Slots \cup {None}]
    /\ cur \in Slots \cup {None}
    /\ pc = "read" <=> cur # None
    /\ SessionSlots(http1) \cap SessionSlots(http2) = {}
    /\ stage \in {"new2", "new1", "downgraded", "plain"} =>
          cur \notin SessionSlots(http1) \cup SessionSlots(http2)

\* The response a caller gets is the answer to its own request: neither a
\* late answer to a request that timed out on the same connection, nor the
\* rest of an earlier response (removal of failed sessions, the stream ids,
\* can_reuse_http1_connection).
AnswerIsOwn == pc = "answered" => resp.of = Hop

\* A session waits in the pool only when the server owes nothing on it and
\* everything it sent was read, apart from connection-level frames: reuse can
\* fail because the server has closed, never because of leftovers.
PooledIsClean ==
    \A c \in (SessionSlots(http1) \cup SessionSlots(http2)) \ {cur} :
        /\ conn[c] # None
        /\ conn[c].up = <<>> /\ conn[c].work = None
        /\ \A i \in DOMAIN conn[c].down : conn[c].down[i] \in Link
        /\ conn[c].protocol = "h1" => ~conn[c].idle

\* One send of the client transmits a request at most three times: over the
\* pooled session, over a new HTTP/2 connection, and over the HTTP/1.1
\* connection that replaces it; a host never has a session of each protocol.
AttemptsBounded ==
    /\ TypeOK
    /\ sends <= 3
    /\ sends = 3 => stage \in {"downgraded", "none"}
    /\ \A h \in Hosts : http1[h] = None \/ http2[h] = None

InCall == call > 0 /\ outcome[call] = "open"

\* Every call returns, unless a server keeps it for ever with frames or header
\* lines that complete nothing: redirects, attempts and downgrades come to an
\* end, and no other wait of the client is without limit.
CallReturns ==
    \/ InCall ~> ~InCall
    \/ []<><<SkipFrame \/ SkipLine>>_vars

\* "HTTP/2 responses are buffered up to the limit": while a response within
\* the limit is under way on a healthy connection, the server may send.
\* Not kept once a connection has carried DEFAULT_WINDOW_SIZE.
LargeBodyArrives ==
    (pc = "read" /\ Live(cur) /\ conn[cur].down = <<>> /\ conn[cur].work # None)
        => \/ conn[cur].window > 0
           \/ got + conn[cur].work.units > BodyLimit
=============================================================================
