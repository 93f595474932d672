--------------------------- MODULE HttpPool_proofs ---------------------------
(***************************************************************************)
(* Proofs about the HTTP client, for any hosts, workloads, windows and     *)
(* limits: a response is always the answer to the request under way, a     *)
(* pooled session carries no leftovers, and a hop is sent three times at   *)
(* most.                                                                   *)
(***************************************************************************)
EXTENDS HttpPool, FiniteSetTheorems, TLAPS

Stages == {"pooled2", "pooled1", "new2", "new1", "downgraded", "plain"}

\* Where the attempt under way stands: what it may still find in the pool, and
\* how often its request was sent.
ClientInv ==
    /\ pc # "idle" => req \in Requests
    /\ pc = "read" => stage \in Stages
    /\ pc # "read" => stage = "none"
    /\ pc = "answered" => resp.to \in Location
    /\ sends <= 3
    /\ pc = "route" => \/ sends = 0
                       \/ sends = 1 /\ Pooled1 = None /\ Pooled2 = None
    /\ pc = "downgrade" => /\ sends <= 2
                           /\ http1[req.host] = None /\ http2[req.host] = None
    /\ stage = "pooled2" => sends = 1 /\ http2[req.host] = cur
    /\ stage = "pooled1" => sends = 1 /\ http1[req.host] = cur
    /\ stage \in {"new2", "new1", "downgraded"} =>
          http1[req.host] = None /\ http2[req.host] = None
    /\ stage \in {"new2", "new1", "plain"} => sends <= 2
    /\ sends = 3 => stage \in {"downgraded", "none"}

Sessions == SessionSlots(http1) \cup SessionSlots(http2)

\* Each connection has one owner: a place in one table, or the attempt.
Ownership ==
    /\ \A h \in Hosts : http1[h] = None \/ http2[h] = None
    /\ \A g, h \in Hosts : /\ http1[g] # None /\ http1[g] = http1[h] => g = h
                           /\ http2[g] # None /\ http2[g] = http2[h] => g = h
    /\ \A c \in Slots : conn[c] # None <=> c \in Sessions \/ c = cur
    /\ \A h \in Hosts : /\ http1[h] # None => conn[http1[h]].protocol = "h1"
                        /\ http2[h] # None => conn[http2[h]].protocol = "h2"
    /\ pc = "read" =>
          (conn[cur].protocol = "h2" <=> stage \in {"pooled2", "new2"})

\* Nothing of an earlier exchange is under way on wire s.
Clean(s) ==
    /\ s.up = <<>> /\ s.work = None
    /\ \A i \in DOMAIN s.down : s.down[i] \in Link
    /\ s.protocol = "h1" => s.down = <<>> /\ ~s.idle

\* On an HTTP/1.1 wire s is the request of the hop, or its answer, or neither;
\* more bytes follow only an answer that ends the connection.
Current1(hop, s) ==
    /\ s.work = None
    /\ s.up # <<>> => Len(s.up) = 1 /\ s.up[1].of = hop /\ s.down = <<>>
    /\ s.down # <<>> =>
          /\ s.down[1].of = hop
          /\ Len(s.down) = 1 \/ s.down[1].framing \in {"conflict", "switch"}

Final(f) == f \in Message /\ f.end

\* On an HTTP/2 wire s all messages are for the hop, and the last of them is
\* followed by connection-level frames only.
Current2(hop, s) ==
    /\ s.up # <<>> => /\ Len(s.up) = 1 /\ s.work = None
                      /\ s.up[1].of = hop /\ s.up[1].stream = s.stream
                      /\ \A i \in DOMAIN s.down : s.down[i] \in Link
    /\ s.work # None => /\ s.work.of = hop /\ s.work.stream = s.stream
                        /\ \A i \in DOMAIN s.down : ~Final(s.down[i])
    /\ \A i \in DOMAIN s.down :
          s.down[i] \in Message =>
              s.down[i].of = hop /\ s.down[i].stream = s.stream
    /\ \A i \in DOMAIN s.down :
          Final(s.down[i]) =>
              /\ s.up = <<>> /\ s.work = None
              /\ \A j \in DOMAIN s.down : j > i => s.down[j] \in Link

Current(hop, s) == /\ s.protocol = "h1" => Current1(hop, s)
                   /\ s.protocol = "h2" => Current2(hop, s)

WireInv ==
    /\ \A c \in Sessions \ {cur} : Clean(conn[c])
    /\ pc = "read" => Current(Hop, conn[cur])

IInv == TypeOK /\ ClientInv /\ Ownership /\ WireInv /\ AnswerIsOwn

-----------------------------------------------------------------------------
(***************************************************************************)
(* What one connection's change does to the invariant.                     *)
(***************************************************************************)

\* Frames of the connection are no part of an exchange.
LEMMA LinkFacts ==
    /\ Opaque \in Link
    /\ \A f \in Link : /\ f \in Frames /\ f \notin Message /\ ~Final(f)
                      /\ f.kind \in {"update", "opaque"}
  BY DEF Opaque, Link, Message, Frames, Final

\* A request written to a clean wire is the only exchange on it.
LEMMA WriteIsCurrent ==
    ASSUME NEW state \in Wires, Clean(state), Fits(state), req \in Requests,
           call \in Nat, left \in Nat
    PROVE  /\ Write(state) \in Wires
           /\ Write(state).protocol = state.protocol
           /\ Current(Hop, Write(state))
<1> DEFINE sent == [of |-> Hop, stream |-> state.stream + 1,
                    head |-> req.method = "HEAD", body |-> req.body]
           up == IF state.open THEN Append(state.up, sent) ELSE state.up
           w == Write(state)
<1>1. Hop \in Hops
  BY DEF Hop, Hops
<1>2. sent \in Sent
  <2>1. state.stream \in Nat
    BY DEF Wires, Wire
  <2>2. QED
    BY <1>1, <2>1 DEF Sent, Requests
<1>a. /\ up \in Seq(Sent)
      /\ up = IF state.open THEN <<sent>> ELSE <<>>
  <2>1. state.up = <<>>
    BY DEF Clean
  <2>2. QED
    BY <1>2, <2>1
<1> HIDE DEF sent
<1>b. w = [state EXCEPT !.up = up,
                        !.stream = IF state.protocol = "h2" THEN @ + 1 ELSE @,
                        !.credit = IF state.protocol = "h2" THEN @ - req.body ELSE @]
  BY DEF Write, sent
<1> HIDE DEF w, up
<1>3. CASE state \in Wire("h1", Answers)
  <2>1. /\ state.protocol = "h1" /\ state.up \in Seq(Sent)
        /\ state.down = <<>> /\ state.work = None /\ state.up = <<>>
    BY <1>3 DEF Wire, Clean
  <2>2. w = [state EXCEPT !.up = up]
    BY <1>3, <1>b, <2>1 DEF Wire
  <2>3. w \in Wire("h1", Answers) /\ w.protocol = "h1"
    BY <1>a, <1>3, <2>2 DEF Wire
  <2>4. w.up = IF state.open THEN <<sent>> ELSE <<>>
    BY <1>a, <1>3, <2>2 DEF Wire
  <2>5. w.down = <<>> /\ w.work = None
    BY <1>3, <2>1, <2>2 DEF Wire
  <2>6. Current1(Hop, w)
    BY <2>4, <2>5 DEF Current1, sent
  <2>7. QED
    BY <2>1, <2>3, <2>6 DEF Current, Wires, w
<1>4. CASE state \in Wire("h2", Frames)
  <2>1. /\ state.protocol = "h2" /\ state.up = <<>> /\ state.work = None
        /\ \A i \in DOMAIN state.down : state.down[i] \in Link
        /\ state.credit \in Nat /\ req.body \in Nat /\ req.body <= state.credit
        /\ state.stream \in Nat
    BY <1>4 DEF Wire, Clean, Fits, Requests
  <2>2. w = [state EXCEPT !.up = up, !.stream = @ + 1, !.credit = @ - req.body]
    BY <1>4, <1>b, <2>1 DEF Wire
  <2>3. w \in Wire("h2", Frames) /\ w.protocol = "h2"
    <3>1. PICK stream \in Nat, credit \in Nat :
              stream = state.stream + 1 /\ credit = state.credit - req.body
      BY <2>1
    <3>2. w = [state EXCEPT !.up = up, !.stream = stream, !.credit = credit]
      BY <2>2, <3>1
    <3>3. QED
      BY <1>a, <1>4, <3>2 DEF Wire
  <2>4. w.up = IF state.open THEN <<sent>> ELSE <<>>
    BY <1>a, <1>4, <2>2 DEF Wire
  <2>5. w.down = state.down /\ w.work = None /\ w.stream = state.stream + 1
    BY <1>4, <2>1, <2>2 DEF Wire
  <2>6. \A f \in Link : f \notin Message
    BY LinkFacts
  <2>7. Current2(Hop, w)
    BY <2>1, <2>4, <2>5, <2>6 DEF Current2, Final, sent
  <2>8. QED
    BY <2>1, <2>3, <2>7 DEF Current, Wires, w
<1>5. QED
  BY <1>3, <1>4 DEF Wires

\* A connection on which a request can be sent is always free: the pool has at
\* most one session for each host.
LEMMA FreeSlotExists ==
    ASSUME TypeOK, Ownership, cur = None
    PROVE  FreeSlot \in Slots /\ conn[FreeSlot] = None
<1> SUFFICES ASSUME \A c \in Slots : conn[c] # None
             PROVE  FALSE
  BY DEF FreeSlot
<1>1. \A c \in Slots : c \in Sessions
  BY NoneAssumption DEF Ownership, Slots
<1>2. \A c \in Slots : \E h \in Hosts : http1[h] = c \/ http2[h] = c
  BY <1>1 DEF Sessions, SessionSlots
<1> DEFINE host == [c \in Slots |-> CHOOSE h \in Hosts : http1[h] = c \/ http2[h] = c]
<1>3. \A c \in Slots : host[c] \in Hosts /\ (http1[host[c]] = c \/ http2[host[c]] = c)
  BY <1>2
<1>4. host \in [Slots -> Hosts]
  BY <1>3
<1> HIDE DEF host
<1>5. Cardinality(Hosts) \in Nat
  BY HostsAssumption, FS_CardinalityType
<1>6. IsFiniteSet(Slots) /\ Cardinality(Slots) = Cardinality(Hosts) + 1
  BY <1>5, FS_Interval DEF Slots
<1>7. \E x, y \in Slots : x # y /\ host[x] = host[y]
  BY <1>4, <1>5, <1>6, HostsAssumption, FS_PigeonHole
<1>8. PICK x \in Slots, y \in Slots : x # y /\ host[x] = host[y]
  BY <1>7
<1>9. x # None /\ y # None
  BY NoneAssumption, <1>5 DEF Slots
<1>10. QED
  BY <1>3, <1>8, <1>9 DEF Ownership

\* A step that only changes wire c, and leaves it clean if it is pooled and
\* current if it is in use, keeps the invariant.
LEMMA WireChange ==
    ASSUME IInv, NEW c \in Slots, conn[c] # None, NEW new \in Wires,
           conn' = [conn EXCEPT ![c] = new], new.protocol = conn[c].protocol,
           c # cur => Clean(new), c = cur => Current(Hop, new),
           UNCHANGED <<load, call, req, left, pc, stage, cur, http1, http2, resp,
                       sends>>
    PROVE  IInv'
<1> USE DEF IInv
<1>1. new # None
  BY NoneAssumption
<1>2. conn'[c] = new /\ \A d \in Slots \ {c} : conn'[d] = conn[d]
  BY DEF TypeOK
<1>3. conn' \in [Slots -> Wires \cup {None}]
  BY DEF TypeOK
<1>4. TypeOK'
  BY <1>3 DEF TypeOK, SessionSlots
<1>5. ClientInv'
  BY DEF ClientInv, Pooled1, Pooled2
<1>6. Sessions' = Sessions /\ Hop' = Hop
  BY DEF Sessions, SessionSlots, Hop
<1>7. \A d \in Slots : /\ conn'[d] # None <=> conn[d] # None
                       /\ conn'[d].protocol = conn[d].protocol
  BY <1>1, <1>2
<1>8. Ownership'
  <2>1. \A h \in Hosts : http1[h] \in Slots \cup {None} /\ http2[h] \in Slots \cup {None}
    BY DEF TypeOK
  <2>2. cur \in Slots \/ pc # "read"
    BY DEF TypeOK
  <2>3. QED
    BY <1>6, <1>7, <2>1, <2>2 DEF Ownership
<1>9. WireInv'
  <2>1. \A d \in Sessions \ {cur} : Clean(conn[d])
    BY DEF WireInv
  <2>2. Sessions \subseteq Slots
    BY DEF Sessions, SessionSlots, TypeOK
  <2>3. \A d \in Sessions \ {cur} : Clean(conn'[d])
    BY <1>2, <2>1, <2>2
  <2>4. pc = "read" => cur \in Slots /\ Current(Hop, conn[cur])
    BY DEF WireInv, TypeOK
  <2>5. pc = "read" => Current(Hop, conn'[cur])
    BY <1>2, <2>4
  <2>6. QED
    BY <1>6, <2>3, <2>5 DEF WireInv
<1>10. AnswerIsOwn'
  BY <1>6 DEF AnswerIsOwn
<1>11. QED
  BY <1>4, <1>5, <1>8, <1>9, <1>10

\* An attempt on a clean wire c keeps the invariant: c is pooled for the host,
\* or free.
LEMMA AttemptKeeps ==
    ASSUME IInv, pc \in {"route", "downgrade"},
           NEW name \in Stages, NEW c \in Slots, NEW state \in Wires,
           Attempt(name, c, state), RouteUnchanged, Clean(state),
           state.protocol = "h2" <=> name \in {"pooled2", "new2"},
           \/ /\ conn[c] # None /\ state.protocol = conn[c].protocol
              /\ \/ name = "pooled2" /\ http2[req.host] = c /\ sends = 0
                 \/ name = "pooled1" /\ http1[req.host] = c /\ sends = 0
           \/ /\ conn[c] = None
              /\ \/ name \in {"new2", "new1"} /\ sends <= 1
                    /\ http1[req.host] = None /\ http2[req.host] = None
                 \/ name = "downgraded" /\ sends <= 2
                    /\ http1[req.host] = None /\ http2[req.host] = None
                 \/ name = "plain" /\ sends <= 1
    PROVE  IInv'
<1> USE DEF IInv
<1>0. TypeOK /\ ClientInv /\ Ownership /\ WireInv
  OBVIOUS
<1>1. /\ Fits(state) /\ conn' = [conn EXCEPT ![c] = Write(state)]
      /\ cur' = c /\ stage' = name /\ pc' = "read" /\ sends' = sends + 1
      /\ UNCHANGED <<load, call, req, left, http1, http2, resp>>
  BY DEF Attempt, RouteUnchanged
<1>2. req \in Requests /\ call \in Nat /\ left \in Nat /\ cur = None
  BY <1>0, LimitsAssumption DEF ClientInv, TypeOK
<1> DEFINE w == Write(state)
<1>3. w \in Wires /\ w.protocol = state.protocol /\ Current(Hop, w)
  BY <1>1, <1>2, WriteIsCurrent
<1> HIDE DEF w
<1>4. w # None
  BY <1>3, NoneAssumption
<1>5. /\ conn'[c] = w /\ \A d \in Slots \ {c} : conn'[d] = conn[d]
      /\ conn' \in [Slots -> Wires \cup {None}]
  BY <1>0, <1>1, <1>3 DEF TypeOK, w
<1>6. Sessions' = Sessions /\ Hop' = Hop
  BY <1>1 DEF Sessions, SessionSlots, Hop
<1>7. c \in Sessions <=> name \in {"pooled2", "pooled1"}
  <2>1. req.host \in Hosts /\ c # None
    BY <1>2, NoneAssumption DEF Requests, Slots
  <2>2. c \in Sessions <=> conn[c] # None
    BY <1>0, <1>2, <2>1 DEF Ownership
  <2>3. QED
    BY <2>2
<1>8. sends \in Nat
  BY <1>0 DEF TypeOK
<1>9. TypeOK'
  <2>1. SessionSlots(http1)' = SessionSlots(http1) /\ SessionSlots(http2)' = SessionSlots(http2)
    BY <1>1 DEF SessionSlots
  <2>2. stage' \in {"new2", "new1", "downgraded", "plain"} =>
            cur' \notin SessionSlots(http1) \cup SessionSlots(http2)
    BY <1>1, <1>7 DEF Sessions
  <2>3. cur' # None
    BY <1>1, NoneAssumption DEF Slots
  <2>4. sends' \in Nat
    BY <1>1, <1>8
  <2>5. QED
    BY <1>0, <1>1, <1>5, <2>1, <2>2, <2>3, <2>4 DEF TypeOK
<1>10. ClientInv'
  BY <1>1, <1>2, <1>8 DEF ClientInv, Stages
<1>11. Ownership'
  <2>1. \A d \in Slots : conn'[d] # None <=> d \in Sessions \/ d = c
    BY <1>0, <1>2, <1>4, <1>5, NoneAssumption DEF Ownership, Slots
  <2>2. \A d \in Slots : conn[d] # None => conn'[d].protocol = conn[d].protocol
    BY <1>3, <1>5
  <2>3. \A h \in Hosts : /\ http1[h] # None => http1[h] \in Slots /\ conn[http1[h]] # None
                         /\ http2[h] # None => http2[h] \in Slots /\ conn[http2[h]] # None
    BY <1>0 DEF TypeOK, Ownership, Sessions, SessionSlots
  <2>4. \A h \in Hosts : /\ http1[h] # None => conn'[http1[h]].protocol = "h1"
                         /\ http2[h] # None => conn'[http2[h]].protocol = "h2"
    BY <1>0, <2>2, <2>3 DEF Ownership
  <2>5. conn'[cur'].protocol = "h2" <=> stage' \in {"pooled2", "new2"}
    BY <1>1, <1>3, <1>5
  <2>6. QED
    BY <1>0, <1>1, <1>6, <2>1, <2>4, <2>5 DEF Ownership
<1>12. WireInv'
  <2>1. Sessions \subseteq Slots
    BY <1>0 DEF Sessions, SessionSlots, TypeOK
  <2>2. \A d \in Sessions \ {c} : Clean(conn'[d])
    BY <1>0, <1>2, <1>5, <2>1, NoneAssumption DEF WireInv, Slots
  <2>3. QED
    BY <1>1, <1>3, <1>5, <1>6, <2>2 DEF WireInv
<1>13. AnswerIsOwn'
  BY <1>1 DEF AnswerIsOwn
<1>14. QED
  BY <1>9, <1>10, <1>11, <1>12, <1>13

\* The end of an attempt: its table holds `slot` for the host, which is the
\* connection, left clean, or nothing.
SettlesTo(slot, state) ==
    /\ http2' = IF stage \in {"pooled2", "new2"}
                THEN [http2 EXCEPT ![req.host] = slot] ELSE http2
    /\ http1' = IF stage \in {"pooled1", "new1", "downgraded"}
                THEN [http1 EXCEPT ![req.host] = slot] ELSE http1
    /\ conn' = [conn EXCEPT ![cur] = IF slot = None THEN None ELSE state]
    /\ cur' = None
    /\ stage' = "none"
    /\ UNCHANGED <<load, call>>

LEMMA SettledWires ==
    ASSUME IInv, pc = "read", NEW slot \in {cur, None}, NEW state,
           SettlesTo(slot, state),
           slot # None => /\ state \in Wires /\ Clean(state) /\ stage # "plain"
                          /\ state.protocol = conn[cur].protocol,
           pc' \in {"idle", "route", "downgrade", "answered"},
           left' \in 0 .. MaxRedirects, sends' \in Nat
    PROVE  /\ TypeOK' /\ Ownership' /\ WireInv'
           /\ slot = None /\ stage # "plain" =>
                 http1'[req.host] = None /\ http2'[req.host] = None
<1> USE DEF IInv
<1>0. TypeOK /\ ClientInv /\ Ownership /\ WireInv
  OBVIOUS
<1>1. /\ req.host \in Hosts /\ stage \in Stages
      /\ cur \in Slots /\ cur # None /\ slot \in Slots \cup {None}
  BY <1>0, NoneAssumption DEF ClientInv, TypeOK, Requests, Slots
<1>a. \A d \in Slots : d # None
  BY NoneAssumption DEF Slots
<1> DEFINE host == req.host
           kept == IF slot = None THEN None ELSE state
           in2  == stage \in {"pooled2", "new2"}
           in1  == stage \in {"pooled1", "new1", "downgraded"}
<1>2. kept \in Wires \cup {None} /\ (kept = None <=> slot = None)
  BY NoneAssumption
<1> HIDE DEF kept
<1>3. /\ conn'[cur] = kept /\ \A d \in Slots \ {cur} : conn'[d] = conn[d]
      /\ conn' \in [Slots -> Wires \cup {None}]
  BY <1>0, <1>1, <1>2 DEF SettlesTo, TypeOK, kept
<1>4. /\ http1' \in [Hosts -> Slots \cup {None}]
      /\ http2' \in [Hosts -> Slots \cup {None}]
      /\ http1'[host] = IF in1 THEN slot ELSE http1[host]
      /\ http2'[host] = IF in2 THEN slot ELSE http2[host]
      /\ \A g \in Hosts \ {host} : http1'[g] = http1[g] /\ http2'[g] = http2[g]
  BY <1>0, <1>1 DEF SettlesTo, TypeOK
<1>5. /\ in1 => http2[host] = None /\ http1[host] \in {cur, None}
      /\ in2 => http1[host] = None /\ http2[host] \in {cur, None}
      /\ in1 \/ in2 \/ stage = "plain"
      /\ stage = "plain" => slot = None
      /\ ~(in1 /\ in2)
  BY <1>0, <1>1 DEF ClientInv, Ownership, Stages
<1>6. \A g \in Hosts \ {host} : http1[g] # cur /\ http2[g] # cur
  <2>1. CASE stage \in {"pooled2", "pooled1"}
    <3>1. \/ stage = "pooled2" /\ http2[host] = cur
          \/ stage = "pooled1" /\ http1[host] = cur
      BY <1>0, <2>1 DEF ClientInv
    <3>2. SessionSlots(http1) \cap SessionSlots(http2) = {}
      BY <1>0 DEF TypeOK
    <3>3. \A g, h \in Hosts : http1[g] # None => http1[g] # http2[h]
      BY <3>2 DEF SessionSlots
    <3>4. QED
      BY <1>0, <1>1, <3>1, <3>3 DEF Ownership
  <2>2. CASE stage \in {"new2", "new1", "downgraded", "plain"}
    BY <1>0, <1>1, <2>2 DEF TypeOK, SessionSlots
  <2>3. QED
    BY <1>1, <2>1, <2>2 DEF Stages
<1>7. stage = "plain" => http1[host] # cur /\ http2[host] # cur
  BY <1>0, <1>1 DEF TypeOK, SessionSlots
<1>8. \A g, h \in Hosts : http1[g] # None => http1[g] # http2[h]
  BY <1>0 DEF TypeOK, SessionSlots
<1>9. \A d \in Slots : d \in Sessions' <=> (d \in Sessions /\ d # cur) \/ d = slot
  <2>1. \A d \in Slots : d \in Sessions <=> \E g \in Hosts : http1[g] = d \/ http2[g] = d
    BY NoneAssumption DEF Sessions, SessionSlots, Slots
  <2>2. \A d \in Slots : d \in Sessions' <=> \E g \in Hosts : http1'[g] = d \/ http2'[g] = d
    BY NoneAssumption DEF Sessions, SessionSlots, Slots
  <2>3. \A d \in Slots : d # None
    BY NoneAssumption DEF Slots
  <2> HIDE DEF in1, in2
  <2>4. ASSUME NEW d \in Slots, d # cur
        PROVE  \A g \in Hosts : http1'[g] = d \/ http2'[g] = d <=> http1[g] = d \/ http2[g] = d
    <3>1. \A g \in Hosts \ {host} : http1'[g] = http1[g] /\ http2'[g] = http2[g]
      BY <1>4
    <3>2. http1'[host] = d \/ http2'[host] = d <=> http1[host] = d \/ http2[host] = d
      BY <1>1, <1>4, <1>5, <2>3, <2>4
    <3>3. QED
      BY <3>1, <3>2
  <2>5. (\E g \in Hosts : http1'[g] = cur \/ http2'[g] = cur) <=> slot = cur
    BY <1>1, <1>4, <1>5, <1>6, <1>7
  <2>6. QED
    BY <1>1, <2>1, <2>2, <2>3, <2>4, <2>5
<1> HIDE DEF in1, in2, host
<1>10. TypeOK'
  <2>1. SessionSlots(http1)' \cap SessionSlots(http2)' = {}
    <3>1. SUFFICES ASSUME NEW g \in Hosts, NEW h \in Hosts, http1'[g] # None,
                          http1'[g] = http2'[h]
                   PROVE  FALSE
      BY DEF SessionSlots
    <3>2. g = host \/ h = host
      BY <1>4, <1>8, <3>1
    <3>3. QED
      BY <1>1, <1>4, <1>5, <1>6, <1>7, <1>8, <3>1, <3>2 DEF host
  <2>2. QED
    BY <1>0, <1>3, <1>4, <2>1 DEF TypeOK, SettlesTo
<1>11. Ownership'
  <2>1. \A h \in Hosts : http1'[h] = None \/ http2'[h] = None
    BY <1>0, <1>4, <1>5 DEF Ownership, host
  <2>2. \A g, h \in Hosts : /\ http1'[g] # None /\ http1'[g] = http1'[h] => g = h
                            /\ http2'[g] # None /\ http2'[g] = http2'[h] => g = h
    BY <1>0, <1>1, <1>4, <1>6 DEF Ownership
  <2>3. \A d \in Slots : conn'[d] # None <=> d \in Sessions'
    BY <1>0, <1>1, <1>2, <1>3, <1>9, <1>a DEF Ownership
  <2>4. \A d \in Slots : conn'[d] # None => conn'[d].protocol = conn[d].protocol
    BY <1>2, <1>3 DEF kept
  <2>5. \A h \in Hosts : /\ http1'[h] # None => conn'[http1'[h]] # None /\ http1'[h] \in Slots
                         /\ http2'[h] # None => conn'[http2'[h]] # None /\ http2'[h] \in Slots
    BY <1>4, <2>3 DEF Sessions, SessionSlots
  <2>6. conn[cur].protocol = "h2" <=> in2
    BY <1>0 DEF Ownership, in2
  <2>7. conn[cur].protocol \in {"h1", "h2"}
    BY <1>0, <1>1 DEF Ownership, TypeOK, Wires, Wire
  <2>8. \A h \in Hosts : /\ http1'[h] # None => conn'[http1'[h]].protocol = "h1"
                         /\ http2'[h] # None => conn'[http2'[h]].protocol = "h2"
    <3>1. ASSUME NEW h \in Hosts, http1'[h] # None
          PROVE  conn[http1'[h]].protocol = "h1"
      BY <1>0, <1>4, <1>5, <2>6, <2>7, <3>1 DEF Ownership
    <3>2. ASSUME NEW h \in Hosts, http2'[h] # None
          PROVE  conn[http2'[h]].protocol = "h2"
      BY <1>0, <1>4, <1>5, <2>6, <2>7, <3>2 DEF Ownership
    <3>3. QED
      BY <2>4, <2>5, <3>1, <3>2
  <2>9. cur' = None /\ pc' # "read"
    BY DEF SettlesTo
  <2>10. QED
    BY <1>a, <2>1, <2>2, <2>3, <2>8, <2>9 DEF Ownership
<1>12. WireInv'
  <2>1. Sessions' \subseteq Slots /\ Sessions \subseteq Slots
    BY <1>0, <1>4 DEF Sessions, SessionSlots, TypeOK
  <2>2. \A d \in Sessions' : Clean(conn'[d])
    BY <1>0, <1>1, <1>a, <1>3, <1>9, <2>1 DEF WireInv, kept
  <2>3. QED
    BY <2>2 DEF WireInv
<1>13. slot = None /\ stage # "plain" => http1'[req.host] = None /\ http2'[req.host] = None
  BY <1>4, <1>5 DEF host
<1>14. QED
  BY <1>10, <1>11, <1>12, <1>13

\* A failed attempt gives up its connection, and its host has no session left.
LEMMA FailKeeps ==
    ASSUME IInv, pc = "read", NEW kind, Fail(kind), UNCHANGED <<load, call>>
    PROVE  IInv'
<1> USE DEF IInv
<1>0. TypeOK /\ ClientInv /\ Ownership
  OBVIOUS
<1>1. /\ req \in Requests /\ req.host \in Hosts /\ stage \in Stages
      /\ left \in 0 .. MaxRedirects /\ MaxRedirects \in Nat /\ sends \in Nat
  BY <1>0, LimitsAssumption DEF ClientInv, TypeOK, Requests
<1>2. \/ /\ stage \in {"pooled2", "pooled1"} /\ pc' = "route" /\ stage' = "none"
         /\ UNCHANGED <<req, left, resp, sends>>
      \/ /\ stage = "new2" /\ pc' = "downgrade" /\ stage' = "none"
         /\ UNCHANGED <<req, left, resp, sends>>
      \/ pc' = "idle" /\ stage' = "none" /\ left' = MaxRedirects /\ sends' = 0
  BY DEF Fail, Finish
<1>3. SettlesTo(None, None)
  <2>1. \/ stage = "plain"
        \/ stage = "pooled2"
        \/ stage = "pooled1"
        \/ /\ stage \in {"new2", "new1", "downgraded"}
           /\ http1[req.host] = None /\ http2[req.host] = None
    BY <1>0, <1>1 DEF ClientInv, Stages
  <2>2. http1 \in [Hosts -> Slots \cup {None}] /\ http2 \in [Hosts -> Slots \cup {None}]
    BY <1>0 DEF TypeOK
  <2>3. /\ http1' = [http1 EXCEPT ![req.host] = IF stage = "pooled1" THEN None ELSE @]
        /\ http2' = [http2 EXCEPT ![req.host] = IF stage = "pooled2" THEN None ELSE @]
        /\ conn' = [conn EXCEPT ![cur] = None] /\ cur' = None
    BY DEF Fail
  <2>4. http2' = IF stage \in {"pooled2", "new2"}
                 THEN [http2 EXCEPT ![req.host] = None] ELSE http2
    BY <1>1, <2>1, <2>2, <2>3
  <2>5. http1' = IF stage \in {"pooled1", "new1", "downgraded"}
                 THEN [http1 EXCEPT ![req.host] = None] ELSE http1
    BY <1>1, <2>1, <2>2, <2>3
  <2>6. QED
    BY <1>2, <2>3, <2>4, <2>5 DEF SettlesTo
<1>4. /\ TypeOK' /\ Ownership' /\ WireInv'
      /\ stage # "plain" => http1'[req.host] = None /\ http2'[req.host] = None
  <2>1. left' \in 0 .. MaxRedirects /\ sends' \in Nat
    BY <1>1, <1>2
  <2>2. pc' \in {"idle", "route", "downgrade", "answered"}
    BY <1>2
  <2>3. QED
    BY <1>3, <2>1, <2>2, SettledWires
<1>5. ClientInv'
  BY <1>0, <1>1, <1>2, <1>4 DEF ClientInv, Pooled1, Pooled2
<1>6. AnswerIsOwn'
  BY <1>2 DEF AnswerIsOwn
<1>7. QED
  BY <1>4, <1>5, <1>6

\* An answered attempt keeps its connection only when it is clean.
LEMMA SucceedKeeps ==
    ASSUME IInv, pc = "read", NEW r, NEW keep \in BOOLEAN, NEW state,
           Succeed(r, keep, state), UNCHANGED <<load, call>>,
           r.of = Hop, r.to \in Location,
           keep => /\ state \in Wires /\ Clean(state) /\ stage # "plain"
                   /\ state.protocol = conn[cur].protocol
    PROVE  IInv'
<1> USE DEF IInv
<1>0. TypeOK /\ ClientInv
  OBVIOUS
<1>1. PICK slot \in {cur, None} : slot = IF keep THEN cur ELSE None
  OBVIOUS
<1>2. cur \in Slots /\ cur # None
  BY <1>0 DEF TypeOK
<1>3. SettlesTo(slot, state)
  BY <1>1, <1>2 DEF Succeed, SettlesTo
<1>4. /\ pc' = "answered" /\ stage' = "none" /\ resp' = r
      /\ UNCHANGED <<req, left, sends, call>>
  BY DEF Succeed
<1>5. TypeOK' /\ Ownership' /\ WireInv'
  <2>1. left' \in 0 .. MaxRedirects /\ sends' \in Nat
    BY <1>0, <1>4 DEF TypeOK
  <2>2. slot # None => keep
    BY <1>1
  <2>3. QED
    BY <1>3, <1>4, <2>1, <2>2, SettledWires
<1>6. ClientInv'
  BY <1>0, <1>4 DEF ClientInv
<1>7. AnswerIsOwn'
  BY <1>4 DEF AnswerIsOwn, Hop
<1>8. QED
  BY <1>5, <1>6, <1>7

\* Between attempts, the calls and redirects of the client touch no connection.
LEMMA ClientOnly ==
    ASSUME IInv, pc # "read", pc' \in {"idle", "route"}, stage' = "none",
           UNCHANGED <<load, cur, http1, http2, conn>>,
           call' \in Nat, left' \in 0 .. MaxRedirects, sends' = 0,
           pc' = "route" => req' \in Requests
    PROVE  IInv'
<1> USE DEF IInv
<1>1. TypeOK'
  BY DEF TypeOK, SessionSlots
<1>2. ClientInv'
  BY DEF ClientInv
<1>3. Ownership'
  BY DEF Ownership, Sessions, SessionSlots
<1>4. WireInv'
  BY DEF WireInv, Sessions, SessionSlots
<1>5. AnswerIsOwn'
  BY DEF AnswerIsOwn
<1>6. QED
  BY <1>1, <1>2, <1>3, <1>4, <1>5

LEMMA CallSteps ==
    ASSUME IInv, StartCall \/ HandleResponse \/ RouteFails \/ NewHttp2DoesNotFit
    PROVE  IInv'
<1> USE DEF IInv
<1>0. /\ pc \in {"idle", "route", "downgrade", "answered"} => stage = "none"
      /\ call \in Nat /\ left \in 0 .. MaxRedirects /\ MaxRedirects \in Nat
      /\ pc # "idle" => req \in Requests
  BY LimitsAssumption DEF TypeOK, ClientInv
<1>1. CASE StartCall
  <2>1. load.calls \in Seq(Requests)
    BY WorkloadsAssumption DEF TypeOK
  <2>2. call' \in 1 .. Len(load.calls) /\ req' = load.calls[call']
    BY <1>0, <1>1, <2>1 DEF StartCall
  <2>3. req' \in Requests
    BY <2>1, <2>2
  <2>4. QED
    BY <1>0, <1>1, <2>3, ClientOnly DEF StartCall
<1>2. CASE HandleResponse
  <2>1. pc = "answered" /\ UNCHANGED <<load, call, cur, http1, http2, conn>>
    BY <1>2 DEF HandleResponse
  <2>2. CASE Finish("response") \/ Finish("stopped") \/ Finish("error")
    BY <1>0, <2>1, <2>2, ClientOnly DEF Finish
  <2>3. CASE /\ resp.to # None /\ left > 0 /\ left' = left - 1
             /\ req' = Redirected(resp.to) /\ pc' = "route" /\ sends' = 0
             /\ UNCHANGED stage
    <3>1. resp.to \in Redirects
      BY <2>1, <2>3 DEF ClientInv, Location
    <3>2. req' \in Requests
      BY <1>0, <2>1, <2>3, <3>1 DEF Redirected, Requests, Redirects
    <3>3. QED
      BY <1>0, <2>1, <2>3, <3>2, ClientOnly
  <2>4. QED
    BY <1>2, <2>2, <2>3 DEF HandleResponse
<1>3. CASE RouteFails
  BY <1>0, <1>3, ClientOnly DEF RouteFails, Finish
<1>4. CASE NewHttp2DoesNotFit
  BY <1>0, <1>4, ClientOnly DEF NewHttp2DoesNotFit, Finish
<1>5. QED
  BY <1>1, <1>2, <1>3, <1>4

\* A pooled HTTP/2 session whose window is too small is given up unsent.
LEMMA GiveUpKeeps ==
    ASSUME IInv, PooledHttp2DoesNotFit
    PROVE  IInv'
<1> USE DEF IInv
<1>0. TypeOK /\ ClientInv /\ Ownership /\ WireInv
  OBVIOUS
<1> DEFINE host == req.host
           c == http2[host]
<1>1. /\ pc = "route" /\ req.tls /\ c # None /\ host \in Hosts
      /\ http2' = [http2 EXCEPT ![host] = None] /\ conn' = [conn EXCEPT ![c] = None]
      /\ sends = 0 /\ c \in Slots /\ cur = None
      /\ UNCHANGED <<load, call, req, left, pc, stage, cur, http1, sends, resp>>
  BY <1>0 DEF PooledHttp2DoesNotFit, Pooled2, ClientInv, TypeOK, Requests
<1>2. /\ \A d \in Slots \ {c} : conn'[d] = conn[d]
      /\ conn'[c] = None /\ conn' \in [Slots -> Wires \cup {None}]
  BY <1>0, <1>1 DEF TypeOK
<1>3. /\ http2' \in [Hosts -> Slots \cup {None}] /\ http2'[host] = None
      /\ \A g \in Hosts \ {host} : http2'[g] = http2[g] /\ http2[g] # c
      /\ \A g \in Hosts : http1[g] # c
  BY <1>0, <1>1 DEF TypeOK, Ownership, SessionSlots
<1> HIDE DEF c, host
<1>a. \A d \in Slots : d # None
  BY NoneAssumption DEF Slots
<1>4. Sessions' \subseteq Slots
  BY <1>0, <1>1, <1>3 DEF Sessions, SessionSlots, TypeOK
<1>5. \A d \in Slots : d \in Sessions' <=> d \in Sessions /\ d # c
  <2>1. \A d \in Slots : d \in Sessions <=> \E g \in Hosts : http1[g] = d \/ http2[g] = d
    BY <1>a DEF Sessions, SessionSlots
  <2>2. \A d \in Slots : d \in Sessions' <=> \E g \in Hosts : http1[g] = d \/ http2'[g] = d
    BY <1>a, <1>1 DEF Sessions, SessionSlots
  <2>3. QED
    BY <1>a, <1>1, <1>3, <2>1, <2>2 DEF c
<1>6. SessionSlots(http1)' \cap SessionSlots(http2)' = {}
  BY <1>0, <1>1, <1>3 DEF TypeOK, SessionSlots
<1>7. TypeOK'
  BY <1>0, <1>1, <1>2, <1>3, <1>6 DEF TypeOK, ClientInv
<1>8. ClientInv'
  BY <1>0, <1>1, <1>3 DEF ClientInv
<1>9. Ownership'
  <2>1. \A d \in Slots : conn'[d] # None <=> d \in Sessions'
    BY <1>0, <1>1, <1>2, <1>5, <1>a DEF Ownership
  <2>2. \A h \in Hosts : /\ http1'[h] # None => conn'[http1'[h]] = conn[http1[h]]
                         /\ http2'[h] # None => conn'[http2'[h]] = conn[http2[h]]
    BY <1>0, <1>1, <1>2, <1>3 DEF TypeOK
  <2>3. \A h \in Hosts : http2'[h] # None => http2'[h] = http2[h] /\ h # host
    BY <1>3
  <2>4. QED
    BY <1>0, <1>1, <1>a, <2>1, <2>2, <2>3 DEF Ownership
<1>10. WireInv'
  BY <1>0, <1>1, <1>2, <1>4, <1>5, <1>a DEF WireInv
<1>11. AnswerIsOwn'
  BY <1>1 DEF AnswerIsOwn
<1>12. QED
  BY <1>7, <1>8, <1>9, <1>10, <1>11

\* A new connection is clean.
LEMMA OpenedIsClean ==
    ASSUME NEW p \in {"h1", "h2"}
    PROVE  Opened(p) \in Wires /\ Clean(Opened(p)) /\ Opened(p).protocol = p
  BY LimitsAssumption DEF Opened, Wires, Wire, Clean

LEMMA RouteSteps ==
    ASSUME IInv,
           \/ UsePooledHttp2 \/ UsePooledHttp1 \/ SendNewHttp1
           \/ \E p \in {"h2", "h1"} : ConnectNew(p)
    PROVE  IInv'
<1> USE DEF IInv
<1>0. TypeOK /\ ClientInv /\ Ownership /\ WireInv
  OBVIOUS
<1>1. pc # "idle" => req.host \in Hosts /\ req.tls \in BOOLEAN
  BY <1>0 DEF ClientInv, Requests
<1>2. pc # "read" => cur = None
  BY <1>0 DEF TypeOK
<1>a. \A d \in Slots : d # None
  BY NoneAssumption DEF Slots
<1>b. \A h \in Hosts : /\ http1[h] # None => http1[h] \in Slots /\ http1[h] \in Sessions
                       /\ http2[h] # None => http2[h] \in Slots /\ http2[h] \in Sessions
  BY <1>0 DEF TypeOK, Sessions, SessionSlots
<1>c. \A d \in Slots : d \in Sessions => conn[d] \in Wires /\ conn[d] # None
  BY <1>0, NoneAssumption DEF TypeOK, Ownership
<1>3. CASE UsePooledHttp2
  <2>1. /\ pc = "route" /\ Pooled2 # None /\ Pooled2 = http2[req.host]
        /\ Attempt("pooled2", Pooled2, conn[Pooled2]) /\ RouteUnchanged
    BY <1>3 DEF UsePooledHttp2, Pooled2
  <2>2. PICK c \in Slots : c = Pooled2
    BY <1>1, <1>b, <2>1
  <2>3. conn[c] \in Wires /\ conn[c] # None /\ Clean(conn[c]) /\ conn[c].protocol = "h2"
    BY <1>0, <1>1, <1>2, <1>a, <1>b, <1>c, <2>1, <2>2 DEF WireInv, Ownership
  <2>4. sends = 0
    BY <1>0, <2>1 DEF ClientInv
  <2>5. Attempt("pooled2", c, conn[c])
    BY <2>1, <2>2
  <2>6. "pooled2" \in Stages
    BY DEF Stages
  <2>7. PICK state \in Wires : state = conn[c]
    BY <2>3
  <2>8. QED
    BY <2>1, <2>2, <2>3, <2>4, <2>5, <2>6, <2>7, AttemptKeeps
<1>4. CASE UsePooledHttp1
  <2>1. /\ pc = "route" /\ Pooled1 # None /\ Pooled1 = http1[req.host]
        /\ Attempt("pooled1", Pooled1, conn[Pooled1]) /\ RouteUnchanged
    BY <1>4 DEF UsePooledHttp1, Pooled1
  <2>2. PICK c \in Slots : c = Pooled1
    BY <1>1, <1>b, <2>1
  <2>3. conn[c] \in Wires /\ conn[c] # None /\ Clean(conn[c]) /\ conn[c].protocol = "h1"
    BY <1>0, <1>1, <1>2, <1>a, <1>b, <1>c, <2>1, <2>2 DEF WireInv, Ownership
  <2>4. sends = 0
    BY <1>0, <2>1 DEF ClientInv
  <2>5. Attempt("pooled1", c, conn[c])
    BY <2>1, <2>2
  <2>6. "pooled1" \in Stages
    BY DEF Stages
  <2>7. PICK state \in Wires : state = conn[c]
    BY <2>3
  <2>8. QED
    BY <2>1, <2>2, <2>3, <2>4, <2>5, <2>6, <2>7, AttemptKeeps
<1>5. CASE SendNewHttp1
  <2>1. /\ pc = "downgrade" /\ RouteUnchanged
        /\ Attempt("downgraded", FreeSlot, Opened("h1"))
    BY <1>5 DEF SendNewHttp1
  <2>2. PICK c \in Slots : c = FreeSlot /\ conn[c] = None
    BY <1>0, <1>2, <2>1, FreeSlotExists
  <2>3. PICK state \in Wires : state = Opened("h1") /\ Clean(state) /\ state.protocol = "h1"
    BY OpenedIsClean
  <2>4. Attempt("downgraded", c, state) /\ "downgraded" \in Stages
    BY <2>1, <2>2, <2>3 DEF Stages
  <2>5. sends <= 2 /\ http1[req.host] = None /\ http2[req.host] = None
    BY <1>0, <2>1 DEF ClientInv
  <2>6. QED
    BY <2>1, <2>2, <2>3, <2>4, <2>5, AttemptKeeps
<1>6. ASSUME NEW p \in {"h2", "h1"}, ConnectNew(p)
      PROVE  IInv'
  <2>1. PICK name \in Stages :
            name = IF ~req.tls THEN "plain" ELSE IF p = "h2" THEN "new2" ELSE "new1"
    BY DEF Stages
  <2>2. /\ pc = "route" /\ Pooled2 = None /\ Pooled1 = None /\ RouteUnchanged
        /\ Attempt(name, FreeSlot, Opened(p)) /\ (~req.tls => p = "h1")
    BY <1>6, <2>1 DEF ConnectNew
  <2>3. PICK c \in Slots : c = FreeSlot /\ conn[c] = None
    BY <1>0, <1>2, <2>2, FreeSlotExists
  <2>4. PICK state \in Wires : state = Opened(p) /\ Clean(state) /\ state.protocol = p
    BY OpenedIsClean
  <2>5. Attempt(name, c, state)
    BY <2>2, <2>3, <2>4
  <2>6. sends \in Nat /\ sends <= 1
    BY <1>0, <2>2 DEF ClientInv, TypeOK
  <2>7. req.tls => http1[req.host] = None /\ http2[req.host] = None
    BY <2>2 DEF Pooled1, Pooled2
  <2>8. QED
    BY <2>1, <2>2, <2>3, <2>4, <2>5, <2>6, <2>7, AttemptKeeps
<1>7. QED
  BY <1>3, <1>4, <1>5, <1>6

\* The wire an attempt reads from, by its protocol.
LEMMA ReadingWire ==
    ASSUME IInv, pc = "read"
    PROVE  /\ cur \in Slots /\ cur # None /\ conn[cur] # None
           /\ conn[cur] \in Wires /\ Current(Hop, conn[cur])
           /\ conn[cur].protocol = "h1" =>
                 conn[cur] \in Wire("h1", Answers) /\ Current1(Hop, conn[cur])
           /\ conn[cur].protocol = "h2" =>
                 conn[cur] \in Wire("h2", Frames) /\ Current2(Hop, conn[cur])
<1>1. cur \in Slots /\ cur # None
  BY DEF IInv, TypeOK
<1>2. conn[cur] # None /\ conn[cur] \in Wires
  BY <1>1 DEF IInv, TypeOK, Ownership
<1>3. Current(Hop, conn[cur])
  BY DEF IInv, WireInv
<1>4. QED
  BY <1>1, <1>2, <1>3 DEF Current, Wires, Wire

\* A message that was read is no longer on the wire; the rest moves up.
LEMMA PoppedWire ==
    ASSUME NEW set, NEW protocol, NEW s \in Wire(protocol, set), s.down # <<>>
    PROVE  LET t == [s EXCEPT !.down = Tail(@)]
           IN  /\ t \in Wire(protocol, set) /\ t.protocol = s.protocol
               /\ t.up = s.up /\ t.work = s.work /\ t.stream = s.stream
               /\ t.down \in Seq(set) /\ Len(t.down) = Len(s.down) - 1
               /\ DOMAIN t.down = 1 .. Len(t.down) /\ DOMAIN s.down = 1 .. Len(s.down)
               /\ \A i \in DOMAIN t.down : t.down[i] = s.down[i + 1] /\ i + 1 \in DOMAIN s.down
               /\ 1 \in DOMAIN s.down /\ Head(s.down) = s.down[1] /\ s.down[1] \in set
<1> DEFINE down == Tail(s.down)
           t == [s EXCEPT !.down = Tail(@)]
<1>1. s.down \in Seq(set)
  BY DEF Wire
<1>2. /\ down \in Seq(set) /\ Len(down) = Len(s.down) - 1
      /\ DOMAIN down = 1 .. Len(down) /\ DOMAIN s.down = 1 .. Len(s.down)
      /\ \A i \in DOMAIN down : down[i] = s.down[i + 1] /\ i + 1 \in DOMAIN s.down
      /\ 1 \in DOMAIN s.down /\ Head(s.down) = s.down[1] /\ s.down[1] \in set
  BY <1>1
<1>3. t = [s EXCEPT !.down = down]
  OBVIOUS
<1> HIDE DEF down
<1>4. /\ t \in Wire(protocol, set) /\ t.protocol = s.protocol
      /\ t.up = s.up /\ t.work = s.work /\ t.stream = s.stream /\ t.down = down
  BY <1>2, <1>3 DEF Wire
<1>5. QED
  BY <1>2, <1>4

LEMMA ReadHttp1Keeps ==
    ASSUME IInv, ReadHttp1
    PROVE  IInv'
<1> DEFINE s == conn[cur]
           r == Head(s.down)
<1>1. /\ pc = "read" /\ s.down # <<>> /\ ~s.idle /\ s.protocol = "h1"
      /\ UNCHANGED <<load, call>>
  BY DEF ReadHttp1, Arrived, Reading
<1>2. s \in Wire("h1", Answers) /\ Current1(Hop, s) /\ s.protocol = "h1"
  BY <1>1, ReadingWire
<1>3. CASE Fail("io")
  BY <1>1, <1>3, FailKeeps
<1>4. CASE Succeed(r, stage # "plain" /\ CanReuse(r.framing), Popped)
  <2>1. PICK keep \in BOOLEAN : keep = (stage # "plain" /\ CanReuse(r.framing))
    BY DEF CanReuse
  <2>2. PICK wire \in Wires : wire = s
    BY <1>2 DEF Wires
  <2>3. /\ wire \in Wire("h1", Answers) /\ wire.down # <<>>
        /\ Current1(Hop, wire) /\ wire.protocol = "h1"
    BY <1>1, <1>2, <2>2
  <2> DEFINE after == [wire EXCEPT !.down = Tail(@)]
  <2>4. /\ after \in Wire("h1", Answers) /\ after.protocol = "h1"
        /\ after.up = wire.up /\ after.work = wire.work
        /\ after.down \in Seq(Answers) /\ Len(after.down) = Len(wire.down) - 1
        /\ Head(wire.down) = wire.down[1] /\ wire.down[1] \in Answers
    BY <2>3, PoppedWire
  <2>5. Popped = after
    BY <2>2 DEF Popped
  <2>a. ~after.idle
    BY <1>1, <2>2, <2>3 DEF Wire, after
  <2> HIDE DEF after
  <2>6. wire.up = <<>> /\ wire.work = None /\ wire.down[1].of = Hop
    BY <2>3 DEF Current1
  <2>7. keep => Len(wire.down) = 1
    BY <2>1, <2>2, <2>3, <2>4 DEF CanReuse, Current1
  <2>8. ASSUME keep
        PROVE  after.down = <<>>
    <3>1. Len(after.down) = 0
      BY <2>4, <2>7, <2>8
    <3>2. QED
      BY <2>4, <3>1
  <2>9. keep => Clean(after)
    BY <2>a, <2>4, <2>6, <2>8 DEF Clean
  <2>10. r.of = Hop /\ r.to \in Location
    BY <2>2, <2>4, <2>6 DEF Answers
  <2>11. Succeed(r, keep, after)
    BY <1>4, <2>1, <2>5
  <2>12. after \in Wires /\ after.protocol = conn[cur].protocol
    BY <1>1, <2>4 DEF Wires
  <2>13. keep => stage # "plain"
    BY <2>1
  <2>14. QED
    BY <1>1, <2>9, <2>10, <2>11, <2>12, <2>13, SucceedKeeps
<1>5. QED
  BY <1>3, <1>4 DEF ReadHttp1

\* After one frame is read, what is left of the exchange is still the hop's.
LEMMA PoppedIsCurrent ==
    ASSUME NEW hop, NEW s \in Wire("h2", Frames), s.down # <<>>, Current2(hop, s)
    PROVE  LET t == [s EXCEPT !.down = Tail(@)]
           IN  /\ t \in Wire("h2", Frames) /\ Current2(hop, t)
               /\ Final(Head(s.down)) => Clean(t)
               /\ Head(s.down) \in Frames
               /\ Head(s.down) \in Message => Head(s.down).of = hop
<1> DEFINE t == [s EXCEPT !.down = Tail(@)]
<1>1. /\ t \in Wire("h2", Frames) /\ t.protocol = s.protocol
      /\ t.up = s.up /\ t.work = s.work /\ t.stream = s.stream
      /\ t.down \in Seq(Frames) /\ Len(t.down) = Len(s.down) - 1
      /\ DOMAIN t.down = 1 .. Len(t.down) /\ DOMAIN s.down = 1 .. Len(s.down)
      /\ \A i \in DOMAIN t.down : t.down[i] = s.down[i + 1] /\ i + 1 \in DOMAIN s.down
      /\ 1 \in DOMAIN s.down /\ Head(s.down) = s.down[1] /\ s.down[1] \in Frames
  BY PoppedWire
<1>2. s.protocol = "h2" /\ Len(t.down) \in Nat
  BY <1>1 DEF Wire
<1> HIDE DEF t
<1>3. Current2(hop, t)
  <2>1. t.up # <<>> => /\ Len(t.up) = 1 /\ t.work = None
                       /\ t.up[1].of = hop /\ t.up[1].stream = t.stream
                       /\ \A i \in DOMAIN t.down : t.down[i] \in Link
    BY <1>1 DEF Current2
  <2>2. t.work # None => /\ t.work.of = hop /\ t.work.stream = t.stream
                         /\ \A i \in DOMAIN t.down : ~Final(t.down[i])
    BY <1>1 DEF Current2
  <2>3. ASSUME NEW i \in DOMAIN t.down, t.down[i] \in Message
        PROVE  t.down[i].of = hop /\ t.down[i].stream = t.stream
    <3>1. t.down[i] = s.down[i + 1] /\ i + 1 \in DOMAIN s.down
      BY <1>1
    <3>2. s.down[i + 1].of = hop /\ s.down[i + 1].stream = s.stream
      BY <2>3, <3>1 DEF Current2
    <3>3. QED
      BY <1>1, <3>1, <3>2
  <2>4. ASSUME NEW i \in DOMAIN t.down, Final(t.down[i])
        PROVE  /\ t.up = <<>> /\ t.work = None
               /\ \A j \in DOMAIN t.down : j > i => t.down[j] \in Link
    <3>1. i \in Nat /\ i + 1 \in DOMAIN s.down /\ Final(s.down[i + 1])
      BY <1>1, <1>2, <2>4
    <3>2. /\ s.up = <<>> /\ s.work = None
          /\ \A j \in DOMAIN s.down : j > i + 1 => s.down[j] \in Link
      BY <3>1 DEF Current2
    <3>3. ASSUME NEW j \in DOMAIN t.down, j > i
          PROVE  t.down[j] \in Link
      <4>1. j \in Nat /\ t.down[j] = s.down[j + 1] /\ j + 1 \in DOMAIN s.down
        BY <1>1, <1>2
      <4>2. j + 1 > i + 1
        BY <3>1, <3>3, <4>1
      <4>3. QED
        BY <3>2, <4>1, <4>2
    <3>4. QED
      BY <1>1, <3>2, <3>3
  <2>5. QED
    BY <2>1, <2>2, <2>3, <2>4 DEF Current2
<1>4. ASSUME Final(Head(s.down))
      PROVE  Clean(t)
  <2>1. /\ s.up = <<>> /\ s.work = None
        /\ \A j \in DOMAIN s.down : j > 1 => s.down[j] \in Link
    BY <1>1, <1>4 DEF Current2
  <2>2. \A i \in DOMAIN t.down : t.down[i] \in Link
    BY <1>1, <1>2, <2>1
  <2>3. QED
    BY <1>1, <1>2, <2>1, <2>2 DEF Clean
<1>5. Head(s.down) \in Message => Head(s.down).of = hop
  BY <1>1 DEF Current2
<1>6. QED
  BY <1>1, <1>3, <1>4, <1>5 DEF t

LEMMA ReadHttp2Keeps ==
    ASSUME IInv, ReadStreamFrame \/ ReadOtherFrame
    PROVE  IInv'
<1>1. /\ pc = "read" /\ conn[cur].down # <<>> /\ conn[cur].protocol = "h2"
      /\ UNCHANGED <<load, call>>
  BY DEF ReadStreamFrame, ReadOtherFrame, Arrived, Reading
<1>2. PICK s \in Wires : s = conn[cur]
  BY <1>1, ReadingWire
<1>3. /\ s \in Wire("h2", Frames) /\ Current2(Hop, s) /\ s.down # <<>>
      /\ s.protocol = "h2"
  BY <1>1, <1>2, ReadingWire
<1> DEFINE t == [s EXCEPT !.down = Tail(@)]
           f == Head(s.down)
<1>4. /\ t \in Wire("h2", Frames) /\ Current2(Hop, t)
      /\ Final(f) => Clean(t)
      /\ f \in Frames
      /\ f \in Message => f.of = Hop
  BY <1>3, PoppedIsCurrent
<1>5. Popped = t /\ f = Head(conn[cur].down)
  BY <1>2 DEF Popped
<1> HIDE DEF t, f
<1>6. t \in Wires /\ t.protocol = "h2" /\ Current(Hop, t)
  BY <1>4 DEF Wires, Wire, Current
<1>7. cur \in Slots /\ conn[cur] # None
  BY <1>1, ReadingWire
<1>8. PICK c \in Slots : c = cur
  BY <1>7
<1>9. CASE ReadStreamFrame
  <2>1. f.kind \in {"headers", "data"} => f \in Message
    BY <1>4, LinkFacts DEF Frames, Message
  <2>2. f.kind \in {"headers", "data"}
    BY <1>5, <1>9 DEF ReadStreamFrame
  <2>3. CASE Fail("io")
    BY <1>1, <2>3, FailKeeps
  <2>4. CASE f.end /\ Succeed(f, TRUE, Popped)
    <3>1. Clean(t) /\ f.of = Hop /\ f.to \in Location
      BY <1>4, <2>1, <2>2, <2>4 DEF Final, Message
    <3>2. stage # "plain"
      BY <1>1 DEF IInv, Ownership
    <3>3. Succeed(f, TRUE, t)
      BY <1>5, <2>4
    <3>4. QED
      BY <1>1, <1>6, <3>1, <3>2, <3>3, SucceedKeeps
  <2>5. CASE /\ conn' = [conn EXCEPT ![cur] = Popped]
             /\ UNCHANGED <<req, left, pc, stage, cur, http1, http2, resp, sends>>
    <3>1. conn' = [conn EXCEPT ![c] = t]
      BY <1>5, <1>8, <2>5
    <3>2. QED
      BY <1>1, <1>6, <1>7, <1>8, <2>5, <3>1, WireChange
  <2>6. QED
    BY <1>5, <1>9, <2>3, <2>4, <2>5 DEF ReadStreamFrame
<1>10. CASE ReadOtherFrame
  <2> DEFINE credit == IF f.kind = "update" THEN t.credit + f.units ELSE t.credit
             u == [t EXCEPT !.credit = credit]
  <2>1. credit \in Nat
    <3>1. f.kind = "update" => f.units \in Nat
      BY <1>4, LinkFacts DEF Frames, Message, Link, Opaque
    <3>2. t.credit \in Nat
      BY <1>4 DEF Wire
    <3>3. QED
      BY <3>1, <3>2
  <2>2. conn' = [conn EXCEPT ![c] = u]
    BY <1>5, <1>8, <1>10 DEF ReadOtherFrame
  <2> HIDE DEF credit
  <2>3. /\ u \in Wire("h2", Frames) /\ u.protocol = "h2" /\ u.up = t.up
        /\ u.work = t.work /\ u.down = t.down /\ u.stream = t.stream
    BY <1>4, <2>1 DEF Wire
  <2> HIDE DEF u
  <2>4. u \in Wires /\ Current(Hop, u)
    BY <1>4, <2>3 DEF Wires, Current, Current2
  <2>5. UNCHANGED <<load, call, req, left, pc, stage, cur, http1, http2, resp, sends>>
    BY <1>10 DEF ReadOtherFrame
  <2>6. QED
    BY <1>1, <1>7, <1>8, <2>2, <2>3, <2>4, <2>5, WireChange
<1>11. QED
  BY <1>9, <1>10

\* To skip what completes nothing changes nothing else.
LEMMA SkipKeeps ==
    ASSUME IInv, SkipFrame \/ SkipLine
    PROVE  IInv'
<1>1. /\ pc = "read" /\ conn' = [conn EXCEPT ![cur].idle = FALSE]
      /\ UNCHANGED <<load, call, req, left, pc, stage, cur, http1, http2, resp, sends>>
  BY DEF SkipFrame, SkipLine, Reading
<1>2. PICK c \in Slots : c = cur /\ conn[c] # None /\ conn[c] \in Wires
  BY <1>1, ReadingWire
<1>3. Current(Hop, conn[c])
  BY <1>1, <1>2, ReadingWire
<1>4. PICK s \in Wires : s = conn[c]
  BY <1>2
<1> DEFINE new == [s EXCEPT !.idle = FALSE]
<1>5. conn' = [conn EXCEPT ![c] = new]
  <2>1. conn \in [Slots -> Wires \cup {None}]
    BY DEF IInv, TypeOK
  <2>2. QED
    BY <1>1, <1>2, <1>4, <2>1 DEF Wires, Wire
<1>6. /\ new \in Wires /\ new.protocol = s.protocol /\ new.down = s.down
      /\ new.up = s.up /\ new.work = s.work /\ new.stream = s.stream
  BY DEF Wires, Wire
<1> HIDE DEF new
<1>7. Current(Hop, new)
  BY <1>3, <1>4, <1>6 DEF Current, Current1, Current2
<1>8. QED
  BY <1>1, <1>2, <1>4, <1>5, <1>6, <1>7, WireChange

LEMMA ReadSteps ==
    ASSUME IInv, Read
    PROVE  IInv'
<1>1. CASE ReadOpaqueFrame
  BY <1>1, FailKeeps DEF ReadOpaqueFrame, Arrived, Reading
<1>2. CASE ReadTimeout
  BY <1>2, FailKeeps DEF ReadTimeout, Reading
<1>3. CASE AcknowledgementFails
  BY <1>3, FailKeeps DEF AcknowledgementFails, Reading
<1>4. QED
  BY <1>1, <1>2, <1>3, ReadHttp1Keeps, ReadHttp2Keeps, SkipKeeps DEF Read

-----------------------------------------------------------------------------
(***************************************************************************)
(* The servers.                                                            *)
(***************************************************************************)

\* A connection that lives is pooled and clean, or it is the one in use.
LEMMA LiveWire ==
    ASSUME IInv, NEW c \in Slots, conn[c] # None
    PROVE  /\ conn[c] \in Wires
           /\ c # cur => Clean(conn[c])
           /\ c = cur => pc = "read" /\ Current(Hop, conn[c])
<1>1. c # None
  BY NoneAssumption DEF Slots
<1>2. QED
  BY <1>1 DEF IInv, TypeOK, Ownership, WireInv

LEMMA OnlyElement ==
    ASSUME NEW S, NEW q \in Seq(S), Len(q) = 1
    PROVE  Head(q) = q[1] /\ q[1] \in S /\ Tail(q) = <<>> /\ Tail(q) \in Seq(S)
<1>1. q # <<>> /\ Head(q) = q[1] /\ q[1] \in S
  OBVIOUS
<1>2. Tail(q) \in Seq(S) /\ Len(Tail(q)) = 0
  OBVIOUS
<1>3. \A t \in Seq(S) : Len(t) = 0 => t = <<>>
  OBVIOUS
<1>4. QED
  BY <1>1, <1>2, <1>3

LEMMA AnswerHttp1Keeps ==
    ASSUME IInv, NEW c \in Slots, AnswerHttp1(c)
    PROVE  IInv'
<1>1. /\ conn[c] # None /\ conn[c].protocol = "h1" /\ conn[c].up # <<>>
      /\ UNCHANGED <<load, call, req, left, pc, stage, cur, http1, http2, resp, sends>>
  BY DEF AnswerHttp1, Live, clientVars
<1>2. c = cur /\ pc = "read" /\ Current1(Hop, conn[c]) /\ conn[c] \in Wire("h1", Answers)
  BY <1>1, LiveWire DEF Clean, Current, Wires, Wire
<1>3. PICK s \in Wire("h1", Answers) : s = conn[c]
  BY <1>2
<1>4. /\ Len(s.up) = 1 /\ s.up[1].of = Hop /\ s.down = <<>> /\ s.work = None
      /\ s.up \in Seq(Sent) /\ s.protocol = "h1"
  BY <1>1, <1>2, <1>3 DEF Current1, Wire
<1>5. PICK framing \in load.framings, to \in Target :
          LET asked == Head(s.up)
              r     == [of |-> asked.of, framing |-> framing, to |-> to]
              rest  == IF framing \in {"conflict", "switch"}
                       THEN <<[of |-> None, framing |-> "sized", to |-> None]>>
                       ELSE <<>>
          IN  conn' = [conn EXCEPT
                ![c].up = Tail(@),
                ![c].down = @ \o <<r>> \o rest,
                ![c].open = framing # "close" /\ (framing # "untilEof" \/ asked.head)]
  BY <1>3 DEF AnswerHttp1
<1> DEFINE asked == Head(s.up)
           r    == [of |-> asked.of, framing |-> framing, to |-> to]
           more == [of |-> None, framing |-> "sized", to |-> None]
           rest == IF framing \in {"conflict", "switch"} THEN <<more>> ELSE <<>>
           open == framing # "close" /\ (framing # "untilEof" \/ asked.head)
           up   == Tail(s.up)
           down == s.down \o <<r>> \o rest
           new  == [s EXCEPT !.up = up, !.down = down, !.open = open]
<1>6. conn' = [conn EXCEPT ![c] = new]
  <2>1. conn \in [Slots -> Wires \cup {None}]
    BY DEF IInv, TypeOK
  <2>2. QED
    BY <1>3, <1>5, <2>1 DEF Wire
<1>7. asked \in Sent /\ asked.of = Hop /\ up = <<>> /\ up \in Seq(Sent)
  BY <1>4, OnlyElement
<1>8. framing \in Framings /\ to \in Location
  BY WorkloadsAssumption DEF IInv, TypeOK, Target, Location
<1>9. r \in Answers /\ more \in Answers
  BY <1>7, <1>8 DEF Answers, Sent, Location, Framings
<1>10. open \in BOOLEAN
  BY <1>7 DEF Sent
<1> HIDE DEF r, more, open, up
<1>11. /\ down \in Seq(Answers) /\ down # <<>> /\ down[1] = r
       /\ framing \notin {"conflict", "switch"} => Len(down) = 1
  BY <1>4, <1>9
<1> HIDE DEF down
<1>12. /\ new \in Wire("h1", Answers) /\ new.up = <<>> /\ new.down = down
       /\ new.work = None /\ new.protocol = "h1"
  BY <1>4, <1>7, <1>10, <1>11 DEF Wire
<1> HIDE DEF new
<1>13. Current(Hop, new)
  BY <1>7, <1>11, <1>12 DEF Current, Current1, r
<1>14. QED
  BY <1>1, <1>2, <1>6, <1>12, <1>13, WireChange DEF Wires

LEMMA AnswerHttp2Keeps ==
    ASSUME IInv, NEW c \in Slots, AnswerHttp2(c)
    PROVE  IInv'
<1>1. /\ conn[c] # None /\ conn[c].protocol = "h2" /\ conn[c].up # <<>>
      /\ UNCHANGED <<load, call, req, left, pc, stage, cur, http1, http2, resp, sends>>
  BY DEF AnswerHttp2, Live, clientVars
<1>2. c = cur /\ pc = "read" /\ Current2(Hop, conn[c]) /\ conn[c] \in Wire("h2", Frames)
  BY <1>1, LiveWire DEF Clean, Current, Wires, Wire
<1>3. PICK s \in Wire("h2", Frames) : s = conn[c]
  BY <1>2
<1>4. /\ Len(s.up) = 1 /\ s.up[1].of = Hop /\ s.up[1].stream = s.stream
      /\ s.work = None /\ \A i \in DOMAIN s.down : s.down[i] \in Link
      /\ s.up \in Seq(Sent) /\ s.down \in Seq(Frames) /\ s.protocol = "h2"
  BY <1>1, <1>2, <1>3 DEF Current2, Wire
<1>5. PICK size \in load.bodies, to \in Target :
          LET asked == Head(s.up)
              units == IF asked.head THEN 0 ELSE size
              frame == [kind |-> "headers", of |-> asked.of, to |-> to,
                        stream |-> asked.stream, end |-> units = 0]
          IN  conn' = [conn EXCEPT
                ![c].up = Tail(@),
                ![c].work = IF units = 0 THEN None
                            ELSE [of |-> asked.of, to |-> to,
                                  stream |-> asked.stream, units |-> units],
                ![c].down = Append(@, frame)]
  BY <1>3 DEF AnswerHttp2
<1> DEFINE asked  == Head(s.up)
           units  == IF asked.head THEN 0 ELSE size
           frame  == [kind |-> "headers", of |-> asked.of, to |-> to,
                      stream |-> asked.stream, end |-> units = 0]
           owed   == [of |-> asked.of, to |-> to, stream |-> asked.stream,
                      units |-> units]
           work   == IF units = 0 THEN None ELSE owed
           up     == Tail(s.up)
           down   == Append(s.down, frame)
           new    == [s EXCEPT !.up = up, !.work = work, !.down = down]
<1>6. conn' = [conn EXCEPT ![c] = new]
  <2>1. conn \in [Slots -> Wires \cup {None}]
    BY DEF IInv, TypeOK
  <2>2. QED
    BY <1>3, <1>5, <2>1 DEF Wire
<1>7. /\ asked \in Sent /\ asked.of = Hop /\ asked.stream = s.stream
      /\ up = <<>> /\ up \in Seq(Sent)
  BY <1>4, OnlyElement
<1>8. size \in Nat /\ to \in Location
  BY WorkloadsAssumption DEF IInv, TypeOK, Target, Location
<1>9. units \in Nat
  BY <1>7, <1>8 DEF Sent
<1> HIDE DEF units
<1>10. /\ frame \in Message /\ frame.of = Hop /\ frame.stream = s.stream
       /\ Final(frame) <=> work = None
       /\ frame.kind = "headers"
       /\ units # 0 => owed \in Owed
       /\ owed.of = Hop /\ owed.stream = s.stream
  <2>1. asked.of \in Hops /\ asked.stream \in Nat
    BY <1>7 DEF Sent
  <2>2. frame \in Message /\ frame.of = Hop /\ frame.stream = s.stream
    BY <1>7, <1>8, <2>1 DEF Message
  <2>3. (units # 0 => owed \in Owed) /\ owed.of = Hop /\ owed.stream = s.stream
    BY <1>7, <1>8, <1>9, <2>1 DEF Owed
  <2>4. units # 0 => owed # None
    BY <2>3, NoneAssumption
  <2>5. Final(frame) <=> work = None
    BY <2>2, <2>4 DEF Final
  <2>6. QED
    BY <2>2, <2>3, <2>5
<1>12. work \in Owed \cup {None} /\ (work # None => work = owed)
  BY <1>10
<1> HIDE DEF frame, owed, work, up, asked
<1>13. /\ down \in Seq(Frames)
       /\ \A i \in DOMAIN down : \/ i \in 1 .. Len(down) - 1 /\ down[i] \in Link
                                 \/ i = Len(down) /\ down[i] = frame
       /\ DOMAIN down = 1 .. Len(down) /\ Len(down) \in Nat
  <2>1. frame \in Frames
    BY <1>10 DEF Frames
  <2>2. QED
    BY <1>4, <2>1
<1> HIDE DEF down
<1>14. /\ new \in Wire("h2", Frames) /\ new.up = <<>> /\ new.down = down
       /\ new.work = work /\ new.protocol = "h2" /\ new.stream = s.stream
  BY <1>4, <1>7, <1>12, <1>13 DEF Wire
<1> HIDE DEF new
<1>15. Current2(Hop, new)
  <2>1. \A f \in Link : ~Final(f) /\ f \notin Message
    BY LinkFacts
  <2>2. \A i \in DOMAIN down : Final(down[i]) => i = Len(down) /\ down[i] = frame
    BY <1>13, <2>1
  <2>3. \A i \in DOMAIN down : down[i] \in Message => down[i] = frame
    BY <1>13, <2>1
  <2>4. work # None => \A i \in DOMAIN down : ~Final(down[i])
    BY <1>10, <2>2
  <2>5. \A i, j \in DOMAIN down : Final(down[i]) => ~(j > i)
    BY <1>13, <2>2
  <2>6. QED
    BY <1>10, <1>12, <1>14, <2>2, <2>3, <2>4, <2>5 DEF Current2
<1>16. Current(Hop, new)
  BY <1>14, <1>15 DEF Current
<1>17. QED
  BY <1>1, <1>2, <1>6, <1>14, <1>16, WireChange DEF Wires

\* Wire s after the server has sent frame f, with what it still owes.
WithFrame(s, f, work, window) ==
    [s EXCEPT !.window = window, !.down = Append(@, f), !.work = work]

\* A frame may follow on the hop's wire: a connection-level one at any time, a
\* message while it is owed.
MayFollow(hop, s, f, work) ==
    \/ f \in Link /\ work = s.work
    \/ /\ s.work # None /\ f \in Message /\ f.of = hop /\ f.stream = s.stream
       /\ \/ f.end /\ work = None
          \/ ~f.end /\ work.of = hop /\ work.stream = s.stream

LEMMA AppendFrame ==
    ASSUME NEW hop, NEW s \in Wire("h2", Frames), Current2(hop, s),
           NEW f \in Frames, NEW work \in Owed \cup {None}, NEW window \in Nat,
           MayFollow(hop, s, f, work)
    PROVE  /\ WithFrame(s, f, work, window) \in Wire("h2", Frames)
           /\ WithFrame(s, f, work, window).protocol = "h2"
           /\ Current2(hop, WithFrame(s, f, work, window))
<1> DEFINE down == Append(s.down, f)
           t == WithFrame(s, f, work, window)
<1>1. s.down \in Seq(Frames) /\ s.up \in Seq(Sent)
  BY DEF Wire
<1>2. /\ down \in Seq(Frames) /\ Len(down) = Len(s.down) + 1 /\ Len(s.down) \in Nat
      /\ DOMAIN down = 1 .. Len(down) /\ DOMAIN s.down = 1 .. Len(s.down)
      /\ \A i \in DOMAIN s.down : down[i] = s.down[i]
      /\ down[Len(down)] = f
  BY <1>1
<1>3. t = [s EXCEPT !.window = window, !.down = down, !.work = work]
  BY DEF WithFrame
<1> HIDE DEF down
<1>4. /\ t \in Wire("h2", Frames) /\ t.protocol = "h2" /\ t.up = s.up
      /\ t.stream = s.stream /\ t.down = down /\ t.work = work
  BY <1>2, <1>3 DEF Wire
<1> HIDE DEF t
<1>5. \A i \in DOMAIN down :
          \/ i \in DOMAIN s.down /\ down[i] = s.down[i]
          \/ i = Len(down) /\ down[i] = f
  BY <1>2
<1>6. \A g \in Link : ~Final(g) /\ g \notin Message
  BY LinkFacts
<1>7. CASE f \in Link /\ work = s.work
  <2>1. \A i \in DOMAIN down : Final(down[i]) => i \in DOMAIN s.down /\ Final(s.down[i])
    BY <1>5, <1>6, <1>7
  <2>2. \A i \in DOMAIN down : down[i] \in Message => i \in DOMAIN s.down /\ down[i] = s.down[i]
    BY <1>5, <1>6, <1>7
  <2>3. \A i, j \in DOMAIN down : Final(down[i]) /\ j > i => down[j] \in Link
    BY <1>5, <1>7, <2>1 DEF Current2
  <2>4. s.up # <<>> => \A i \in DOMAIN down : down[i] \in Link
    BY <1>5, <1>7 DEF Current2
  <2>5. Current2(hop, t)
    BY <1>4, <1>7, <2>1, <2>2, <2>3, <2>4 DEF Current2
  <2>6. QED
    BY <1>4, <2>5 DEF t
<1>8. CASE /\ s.work # None /\ f \in Message /\ f.of = hop /\ f.stream = s.stream
           /\ \/ f.end /\ work = None
              \/ ~f.end /\ work.of = hop /\ work.stream = s.stream
  <2>1. /\ s.up = <<>>
        /\ \A i \in DOMAIN s.down : ~Final(s.down[i])
    BY <1>8 DEF Current2
  <2>2. \A i \in DOMAIN down : Final(down[i]) => i = Len(down) /\ f.end
    BY <1>5, <2>1 DEF Final
  <2>3. \A i \in DOMAIN down : down[i] \in Message => down[i].of = hop /\ down[i].stream = s.stream
    BY <1>5, <1>8 DEF Current2
  <2>4. \A i, j \in DOMAIN down : Final(down[i]) => ~(j > i)
    BY <1>2, <2>2
  <2>5. ~f.end => \A i \in DOMAIN down : ~Final(down[i])
    BY <2>2
  <2>6. Current2(hop, t)
    BY <1>4, <1>8, <2>1, <2>2, <2>3, <2>4, <2>5 DEF Current2
  <2>7. QED
    BY <1>4, <2>6 DEF t
<1>9. QED
  BY <1>7, <1>8 DEF MayFollow

LEMMA SendDataKeeps ==
    ASSUME IInv, NEW c \in Slots, SendData(c)
    PROVE  IInv'
<1>1. /\ conn[c] # None /\ conn[c].protocol = "h2" /\ conn[c].work # None
      /\ conn[c].window > 0
      /\ UNCHANGED <<load, call, req, left, pc, stage, cur, http1, http2, resp, sends>>
  BY DEF SendData, Live, clientVars
<1>2. c = cur /\ pc = "read" /\ Current2(Hop, conn[c]) /\ conn[c] \in Wire("h2", Frames)
  BY <1>1, LiveWire DEF Clean, Current, Wires, Wire
<1>3. PICK s \in Wire("h2", Frames) : s = conn[c]
  BY <1>2
<1>4. /\ s.window \in Nat /\ s.window > 0 /\ s.work \in Owed
      /\ s.work.of = Hop /\ s.work.stream = s.stream
  BY <1>1, <1>2, <1>3 DEF Wire, Current2
<1>5. PICK w \in Owed, window \in Nat : w = s.work /\ window = s.window - 1
  BY <1>4
<1> DEFINE f == [kind |-> "data", of |-> w.of, to |-> w.to,
                 stream |-> w.stream, end |-> w.units = 1]
<1>6. PICK work \in Owed \cup {None} :
          /\ work = IF w.units = 1 THEN None ELSE [w EXCEPT !.units = @ - 1]
          /\ w.units # 1 => work.of = w.of /\ work.stream = w.stream
  <2>1. CASE w.units = 1
    BY <2>1
  <2>2. CASE w.units # 1
    <3>1. w.units \in Nat \ {0}
      BY DEF Owed
    <3>2. PICK units \in Nat \ {0} : units = w.units - 1
      BY <2>2, <3>1
    <3>3. [w EXCEPT !.units = units] \in Owed
      BY DEF Owed
    <3>4. QED
      BY <2>2, <3>2, <3>3 DEF Owed
  <2>3. QED
    BY <2>1, <2>2
<1>7. f \in Message /\ f.of = Hop /\ f.stream = s.stream /\ (f.end <=> w.units = 1)
  BY <1>4, <1>5 DEF Owed, Message
<1> DEFINE new == WithFrame(s, f, work, window)
<1>8. conn' = [conn EXCEPT ![c] = new]
  <2>1. conn \in [Slots -> Wires \cup {None}]
    BY DEF IInv, TypeOK
  <2>2. conn' = [conn EXCEPT ![c].window = window, ![c].down = Append(@, f),
                             ![c].work = work]
    BY <1>3, <1>5, <1>6 DEF SendData
  <2>3. QED
    BY <1>3, <2>1, <2>2 DEF Wire, WithFrame
<1> HIDE DEF f
<1>9. new \in Wire("h2", Frames) /\ new.protocol = "h2" /\ Current2(Hop, new)
  <2>1. s.work # None /\ Current2(Hop, s) /\ f \in Frames
    BY <1>1, <1>2, <1>3, <1>7 DEF Frames
  <2>2. MayFollow(Hop, s, f, work)
    BY <1>4, <1>5, <1>6, <1>7, <2>1 DEF MayFollow
  <2>3. QED
    BY <2>1, <2>2, AppendFrame
<1> HIDE DEF new
<1>10. QED
  BY <1>1, <1>2, <1>8, <1>9, WireChange DEF Wires, Current

\* A frame of the connection may be sent on any HTTP/2 wire, pooled or not.
LEMMA LinkFrameKeeps ==
    ASSUME IInv, NEW c \in Slots, conn[c] # None, conn[c].protocol = "h2",
           NEW f \in Link, conn' = [conn EXCEPT ![c].down = Append(@, f)],
           UNCHANGED <<load, call, req, left, pc, stage, cur, http1, http2, resp, sends>>
    PROVE  IInv'
<1>1. conn[c] \in Wire("h2", Frames)
  BY LiveWire DEF Wires, Wire
<1>2. PICK s \in Wire("h2", Frames) : s = conn[c]
  BY <1>1
<1>3. /\ s.window \in Nat /\ s.work \in Owed \cup {None} /\ s.down \in Seq(Frames)
      /\ s.protocol = "h2" /\ f \in Frames
  BY LinkFacts DEF Wire
<1> DEFINE new == WithFrame(s, f, s.work, s.window)
<1>4. conn' = [conn EXCEPT ![c] = new]
  <2>1. conn \in [Slots -> Wires \cup {None}]
    BY DEF IInv, TypeOK
  <2>2. QED
    BY <1>2, <2>1 DEF Wire, WithFrame
<1>5. CASE c = cur
  <2>1. Current2(Hop, s)
    BY <1>2, <1>5, LiveWire DEF Current
  <2>2. new \in Wire("h2", Frames) /\ new.protocol = "h2" /\ Current2(Hop, new)
    BY <1>3, <2>1, AppendFrame DEF MayFollow
  <2> HIDE DEF new
  <2>3. QED
    BY <1>4, <1>5, <2>2, WireChange DEF Wires, Current
<1>6. CASE c # cur
  <2>1. Clean(s)
    BY <1>2, <1>6, LiveWire
  <2> DEFINE down == Append(s.down, f)
  <2>2. down \in Seq(Frames) /\ \A i \in DOMAIN down : down[i] \in Link
    BY <1>3, <2>1 DEF Clean
  <2> HIDE DEF down
  <2>3. new = [s EXCEPT !.down = down]
    BY DEF down, Wire, WithFrame
  <2>4. /\ new \in Wire("h2", Frames) /\ new.protocol = "h2" /\ new.down = down
        /\ new.up = s.up /\ new.work = s.work
    BY <2>2, <2>3 DEF Wire
  <2> HIDE DEF new
  <2>5. Clean(new)
    BY <2>1, <2>2, <2>4 DEF Clean
  <2>6. QED
    BY <1>4, <1>6, <2>4, <2>5, WireChange DEF Wires
<1>7. QED
  BY <1>5, <1>6

LEMMA SendOpaqueKeeps ==
    ASSUME IInv, NEW c \in Slots, SendOpaque(c)
    PROVE  IInv'
<1>1. /\ conn[c] # None /\ conn[c].protocol = "h2"
      /\ conn' = [conn EXCEPT ![c].down = Append(@, Opaque)]
      /\ UNCHANGED <<load, call, req, left, pc, stage, cur, http1, http2, resp, sends>>
  BY DEF SendOpaque, Live, clientVars, Opaque
<1>2. QED
  BY <1>1, LinkFacts, LinkFrameKeeps

LEMMA ReturnCreditKeeps ==
    ASSUME IInv, NEW c \in Slots, ReturnCredit(c)
    PROVE  IInv'
<1> DEFINE units == Window - conn[c].credit
           f == [kind |-> "update", units |-> units]
<1>1. /\ conn[c] # None /\ conn[c].protocol = "h2" /\ conn[c].credit < Window
      /\ conn' = [conn EXCEPT ![c].down = Append(@, f)]
      /\ UNCHANGED <<load, call, req, left, pc, stage, cur, http1, http2, resp, sends>>
  BY DEF ReturnCredit, Live, clientVars
<1>2. conn[c].credit \in Nat
  BY <1>1, LiveWire DEF Wires, Wire
<1>3. units \in Nat
  BY <1>1, <1>2, LimitsAssumption
<1> HIDE DEF units
<1>4. f \in Link
  BY <1>3 DEF Link
<1> HIDE DEF f
<1>5. QED
  BY <1>1, <1>4, LinkFrameKeeps

\* What completes nothing may come on every wire but a pooled HTTP/1.1 one.
LEMMA SendIdleKeeps ==
    ASSUME IInv, NEW c \in Slots, SendIdle(c)
    PROVE  IInv'
<1>1. /\ conn[c] # None /\ (conn[c].protocol = "h1" => conn[c].up # <<>>)
      /\ conn' = [conn EXCEPT ![c].idle = TRUE]
      /\ UNCHANGED <<load, call, req, left, pc, stage, cur, http1, http2, resp, sends>>
  BY DEF SendIdle, Live, clientVars
<1>2. PICK s \in Wires : s = conn[c]
  BY <1>1, LiveWire
<1> DEFINE new == [s EXCEPT !.idle = TRUE]
<1>3. conn' = [conn EXCEPT ![c] = new]
  <2>1. conn \in [Slots -> Wires \cup {None}]
    BY DEF IInv, TypeOK
  <2>2. QED
    BY <1>1, <1>2, <2>1 DEF Wires, Wire
<1>4. /\ new \in Wires /\ new.protocol = s.protocol /\ new.down = s.down
      /\ new.up = s.up /\ new.work = s.work /\ new.stream = s.stream
  BY DEF Wires, Wire
<1> HIDE DEF new
<1>5. c # cur => Clean(new)
  BY <1>1, <1>2, <1>4, LiveWire DEF Clean
<1>6. c = cur => Current(Hop, new)
  BY <1>1, <1>2, <1>4, LiveWire DEF Current, Current1, Current2
<1>7. QED
  BY <1>1, <1>2, <1>3, <1>4, <1>5, <1>6, WireChange

LEMMA CloseServerKeeps ==
    ASSUME IInv, NEW c \in Slots, CloseServer(c)
    PROVE  IInv'
<1>1. /\ conn[c] # None
      /\ UNCHANGED <<load, call, req, left, pc, stage, cur, http1, http2, resp, sends>>
  BY DEF CloseServer, Live, clientVars
<1>2. PICK s \in Wires : s = conn[c]
  BY <1>1, LiveWire
<1> DEFINE new == [s EXCEPT !.open = FALSE, !.up = <<>>, !.work = None]
<1>3. conn' = [conn EXCEPT ![c] = new]
  <2>1. conn \in [Slots -> Wires \cup {None}]
    BY DEF IInv, TypeOK
  <2>2. conn' = [conn EXCEPT ![c].open = FALSE, ![c].up = <<>>, ![c].work = None]
    BY DEF CloseServer
  <2>3. QED
    BY <1>2, <2>1, <2>2 DEF Wires, Wire
<1>4. /\ new \in Wires /\ new.protocol = s.protocol /\ new.down = s.down
      /\ new.up = <<>> /\ new.work = None /\ new.stream = s.stream
  <2>1. <<>> \in Seq(Sent)
    OBVIOUS
  <2>2. QED
    BY <2>1 DEF Wires, Wire
<1>a. ~s.idle => ~new.idle
  BY DEF Wires, Wire
<1> HIDE DEF new
<1>5. c # cur => Clean(new)
  BY <1>1, <1>2, <1>4, <1>a, LiveWire DEF Clean
<1>6. c = cur => Current(Hop, new)
  BY <1>1, <1>2, <1>4, LiveWire DEF Current, Current1, Current2
<1>7. QED
  BY <1>1, <1>2, <1>3, <1>4, <1>5, <1>6, WireChange

-----------------------------------------------------------------------------
(***************************************************************************)
(* The invariant and what follows from it.                                 *)
(***************************************************************************)
LEMMA IInvInit == Init => IInv
<1> SUFFICES ASSUME Init
             PROVE  IInv
  OBVIOUS
<1> USE DEF Init
<1>1. SessionSlots(http1) = {} /\ SessionSlots(http2) = {}
  BY DEF SessionSlots
<1>2. TypeOK
  BY <1>1, LimitsAssumption DEF TypeOK
<1>3. ClientInv
  BY DEF ClientInv
<1>4. Ownership
  BY <1>1, NoneAssumption DEF Ownership, Sessions, Slots
<1>5. WireInv /\ AnswerIsOwn
  BY <1>1 DEF WireInv, AnswerIsOwn, Sessions
<1>6. QED
  BY <1>2, <1>3, <1>4, <1>5 DEF IInv

LEMMA IInvStep == IInv /\ [Next]_vars => IInv'
<1> SUFFICES ASSUME IInv, [Next]_vars
             PROVE  IInv'
  OBVIOUS
<1>1. CASE StartCall \/ HandleResponse \/ RouteFails
  BY <1>1, CallSteps
<1>2. CASE Route
  BY <1>2, RouteSteps, GiveUpKeeps, CallSteps DEF Route
<1>3. CASE Read
  BY <1>3, ReadSteps
<1>4. ASSUME NEW c \in Slots, ServerStep(c) \/ SendOpaque(c) \/ CloseServer(c)
      PROVE  IInv'
  BY <1>4, AnswerHttp1Keeps, AnswerHttp2Keeps, SendDataKeeps, SendOpaqueKeeps,
     ReturnCreditKeeps, SendIdleKeeps, CloseServerKeeps DEF ServerStep
<1>5. CASE UNCHANGED vars
  BY <1>5 DEF vars, clientVars, IInv, TypeOK, ClientInv, Ownership, WireInv,
     AnswerIsOwn, Sessions, SessionSlots, Pooled1, Pooled2, Hop, Current, Clean
<1>6. QED
  BY <1>1, <1>2, <1>3, <1>4, <1>5 DEF Next, ClientStep

LEMMA IInvAlways == Spec => []IInv
  BY IInvInit, IInvStep, PTL DEF Spec

\* The response a caller gets is the answer to its own request, whatever the
\* servers delay, split, close or leave unread on a reused session: the
\* removal of failed sessions, the stream ids and can_reuse_http1_connection
\* are enough.
THEOREM AnswerIsOwnAlways == Spec => []AnswerIsOwn
<1>1. IInv => AnswerIsOwn
  BY DEF IInv
<1>2. QED
  BY <1>1, IInvAlways, PTL

\* A session is in the pool only when nothing of an earlier exchange can still
\* arrive on it.
THEOREM PooledIsCleanAlways == Spec => []PooledIsClean
<1>1. IInv => PooledIsClean
  <2> SUFFICES ASSUME IInv, NEW c \in Sessions \ {cur}
               PROVE  /\ conn[c] # None
                      /\ conn[c].up = <<>> /\ conn[c].work = None
                      /\ \A i \in DOMAIN conn[c].down : conn[c].down[i] \in Link
                      /\ conn[c].protocol = "h1" => ~conn[c].idle
    BY DEF PooledIsClean, Sessions
  <2>1. c \in Slots
    BY DEF IInv, TypeOK, Sessions, SessionSlots
  <2>2. conn[c] # None /\ Clean(conn[c])
    BY <2>1 DEF IInv, Ownership, WireInv
  <2>3. QED
    BY <2>2 DEF Clean
<1>2. QED
  BY <1>1, IInvAlways, PTL

\* A hop of a call is sent at most three times, the third time only over the
\* HTTP/1.1 connection that replaces an HTTP/2 one, and a host never has a
\* session of each protocol.
THEOREM AttemptsBoundedAlways == Spec => []AttemptsBounded
<1>1. IInv => AttemptsBounded
  BY DEF IInv, AttemptsBounded, ClientInv, Ownership
<1>2. QED
  BY <1>1, IInvAlways, PTL
=============================================================================
