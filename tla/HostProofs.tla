----------------------------- MODULE HostProofs -----------------------------
(***************************************************************************)
(* The Runtime host for every set of requests, streams and listeners.      *)
(*                                                                         *)
(* That commands overlap only after a timeout is not inductive: it rests   *)
(* on the request at the head of the queue being the only one that has     *)
(* begun (QueueInv) and on work going on without its request only after a  *)
(* timeout (RequestInv).  That a transaction is all or nothing although    *)
(* everybody writes on its connection rests on every row being written     *)
(* once, at the step its request or its work is at (RowInv); that rows are *)
(* lost only to an overlap, on whom the open transaction holds rows of     *)
(* (OverlapInv).                                                           *)
(***************************************************************************)
EXTENDS MCHost, FiniteSetTheorems, TLAPS

RowSet == Requests \X {"received", "first", "second", "closed"}

\* A request the queue has let through and not yet released.
Begun(r) == request[r] \in {"received", "waiting", "closing"}

\* The queue holds the requests in flight, each once, and only its head has begun.
QueueInv ==
  /\ queue \in Seq(Requests)
  /\ \A i, j \in 1 .. Len(queue) : queue[i] = queue[j] => i = j
  /\ \A i \in 1 .. Len(queue) : Queued(queue[i]) /\ InFlight(queue[i])
  /\ \A r \in Requests : Queued(r) /\ InFlight(r) => \E i \in 1 .. Len(queue) : queue[i] = r
  /\ \A r \in Requests : Queued(r) /\ Begun(r) => queue[1] = r

\* What a request, its work and its outcome say of each other.
RequestOK(r) ==
  /\ request[r] \in {"idle", "queued", "received"} => work[r] = "none" /\ outcome[r] = "none"
  /\ request[r] = "waiting" => work[r] # "none" /\ outcome[r] \in {"none", "refused"}
  /\ outcome[r] = "refused" => work[r] = "done"
  /\ Active(r) => request[r] = "waiting" \/ outcome[r] = "timeout"
  /\ work[r] = "intx" <=> tx = r
  /\ work[r] = "intx" => ShapeOf[r] # "plain"

\* Every row is written once, by the step its writer is at.
RowOK(r) ==
  /\ Row(r, "received") \in rows \cup inTx => request[r] \notin {"idle", "queued"}
  /\ Row(r, "closed") \in rows \cup inTx => request[r] = "answered"
  /\ Row(r, "second") \notin inTx
  /\ Row(r, "first") \in rows \/ Row(r, "second") \in rows => work[r] = "done"
  /\ Row(r, "first") \in inTx => work[r] \in {"intx", "done"}
  /\ work[r] = "intx" => Row(r, "first") \in inTx
  /\ ShapeOf[r] # "plain" /\ work[r] = "done" =>
       outcome[r] = "refused" \/ (Row(r, "first") \in rows /\ Row(r, "second") \in rows)

\* Two requests the queue does not keep apart.
Apart(r, q) ==
  "tick" \in {ShapeOf[r], ShapeOf[q]} \/ "timeout" \in {outcome[r], outcome[q]}

OverlapInv ==
  /\ \A row \in inTx : row = Row(tx, "first") \/ Apart(tx, row[1])
  /\ \A row \in lost : row \in RowSet /\ \E r \in Requests : work[r] = "failed" /\ Apart(r, row[1])

\* No work begins once the runtime drains, and what it awaits is all there is.
StopInv ==
  /\ phase \in {"draining", "closing", "stopped"} => \A r \in Requests : Active(r) => r \in awaited
  /\ phase \in {"closing", "stopped"} => \A r \in Requests : ~Active(r)
  /\ phase = "stopped" => \A r \in Requests : ~InFlight(r)

StreamInv ==
  /\ open \subseteq listeners /\ listeners \subseteq Streams
  /\ IsFiniteSet(listeners) /\ Cardinality(listeners) <= MaxSubscribers

TypesInv ==
  /\ phase \in {"serving", "stoppingQueue", "draining", "closing", "stopped"}
  /\ request \in [Requests -> {"idle", "queued", "received", "waiting", "closing", "answered"}]
  /\ outcome \in [Requests -> {"none", "invalid", "error", "refused", "ok", "failed", "timeout"}]
  /\ work \in [Requests -> {"none", "running", "intx", "done", "failed"}]
  /\ awaited \subseteq Requests /\ tx \in Requests \cup {NoRequest}

ConnectionInv ==
  /\ rows \subseteq RowSet /\ inTx \subseteq RowSet
  /\ tx = NoRequest => inTx = {}
  /\ rows \cap inTx = {} /\ untold \subseteq rows

\* The host's inductive invariant.
HostInv ==
  /\ TypesInv /\ QueueInv /\ ConnectionInv
  /\ \A r \in Requests : RequestOK(r) /\ RowOK(r)
  /\ OverlapInv /\ StopInv /\ StreamInv /\ ToldUnlessTimedOut

LEMMA HostInitInv == ASSUME HostInit PROVE HostInv
  <1> USE HostAssumption
  <1>1. TypesInv /\ ConnectionInv
    BY DEF HostInit, TypesInv, ConnectionInv
  <1>2. QueueInv
    BY DEF HostInit, QueueInv, InFlight, Begun
  <1>3. ASSUME NEW r \in Requests PROVE RequestOK(r) /\ RowOK(r)
    BY <1>3 DEF HostInit, RequestOK, RowOK, Active
  <1>4. OverlapInv /\ StopInv /\ ToldUnlessTimedOut
    BY DEF HostInit, OverlapInv, StopInv, ToldUnlessTimedOut
  <1>5. StreamInv
    BY FS_EmptySet DEF HostInit, StreamInv
  <1> QED BY <1>1, <1>2, <1>3, <1>4, <1>5 DEF HostInv

\* Whoever acts while another's transaction is open is not kept apart from it.
LEMMA ActsBeside ==
    ASSUME HostInv, NEW q \in Requests, tx # NoRequest,
           (request[q] = "queued" /\ mayRun(q)) \/ Begun(q) \/ Active(q),
           q # tx \/ request[q] = "closing"
    PROVE  Apart(tx, q)
  <1> DEFINE t == tx
  <1>1. t \in Requests /\ work[t] = "intx" /\ Active(t)
    BY DEF HostInv, TypesInv, RequestOK, Active
  <1>2. CASE q = t
    BY <1>1, <1>2 DEF HostInv, RequestOK, Apart
  <1>3. CASE q # t /\ Queued(q) /\ Queued(t) /\ outcome[q] # "timeout" /\ outcome[t] # "timeout"
    <2>1. request[t] = "waiting" /\ queue[1] = t
      BY <1>1, <1>3 DEF HostInv, RequestOK, QueueInv, Begun
    <2>2. CASE Begun(q) \/ Active(q)
      <3>1. Begun(q)
        BY <1>3, <2>2 DEF HostInv, RequestOK, Begun
      <3> QED BY <1>3, <2>1, <3>1 DEF HostInv, QueueInv
    <2>3. CASE request[q] = "queued" /\ mayRun(q)
      <3>1. \E i \in 1 .. Len(queue) : queue[i] = q
        BY <1>3, <2>3 DEF HostInv, QueueInv, InFlight
      <3>2. Head(queue) = queue[1]
        BY <3>1 DEF HostInv, QueueInv
      <3> QED BY <1>3, <2>1, <2>3, <3>2 DEF mayRun
    <2> QED BY <2>2, <2>3
  <1>4. ShapeOf[q] = "tick" <=> ~Queued(q)
    BY DEF Queued
  <1>5. ShapeOf[t] = "tick" <=> ~Queued(t)
    BY DEF Queued
  <1> QED BY <1>2, <1>3, <1>4, <1>5 DEF Apart

-----------------------------------------------------------------------------
(* The queue *)

LEMMA QueueStays ==
    ASSUME TypesInv, QueueInv, NEW r \in Requests, NEW v,
           v \in {"idle", "queued", "received", "waiting", "closing", "answered"},
           request' = [request EXCEPT ![r] = v], UNCHANGED queue,
           ~Queued(r) \/ (v \in {"idle", "answered"} <=> ~InFlight(r)),
           Queued(r) /\ v \in {"received", "waiting", "closing"} => queue[1] = r
    PROVE  QueueInv'
  <1>1. \A q \in Requests : request'[q] = IF q = r THEN v ELSE request[q]
    BY DEF TypesInv
  <1>2. \A q \in Requests : Queued(q) => (InFlight(q)' <=> InFlight(q))
    BY <1>1 DEF InFlight
  <1>3. \A q \in Requests : Queued(q) /\ Begun(q)' => queue[1] = q
    BY <1>1 DEF QueueInv, Begun
  <1>4. \A i \in 1 .. Len(queue) : queue[i] \in Requests
    BY DEF QueueInv
  <1> QED BY <1>2, <1>3, <1>4 DEF QueueInv, Queued

LEMMA QueueReleases ==
    ASSUME TypesInv, QueueInv, NEW r \in Requests, InFlight(r), Queued(r) => queue[1] = r,
           request' = [request EXCEPT ![r] = "answered"], dequeue(r)
    PROVE  QueueInv'
  <1>1. \A q \in Requests : request'[q] = IF q = r THEN "answered" ELSE request[q]
    BY DEF TypesInv
  <1>2. CASE ~Queued(r)
    BY <1>2, QueueStays DEF dequeue
  <1>3. CASE Queued(r)
    <2>1. queue # <<>> /\ Len(queue) \in Nat /\ Len(queue) >= 1 /\ queue \in Seq(Requests)
      BY <1>3 DEF QueueInv
    <2>2. /\ queue' = Tail(queue) /\ queue' \in Seq(Requests)
          /\ Len(queue') = Len(queue) - 1
          /\ \A i \in 1 .. Len(queue') : queue'[i] = queue[i + 1] /\ i + 1 \in 1 .. Len(queue)
      BY <1>3, <2>1 DEF dequeue
    <2>3. ASSUME NEW i \in 1 .. Len(queue')
          PROVE  queue'[i] \in Requests /\ queue'[i] # r /\ Queued(queue'[i]) /\ InFlight(queue'[i])
      <3>1. queue'[i] = queue[i + 1] /\ i + 1 \in 1 .. Len(queue) /\ i + 1 # 1 /\ 1 \in 1 .. Len(queue)
        BY <2>1, <2>2
      <3> QED BY <1>3, <3>1 DEF QueueInv
    <2>4. \A i, j \in 1 .. Len(queue') : queue'[i] = queue'[j] => i = j
      <3> SUFFICES ASSUME NEW i \in 1 .. Len(queue'), NEW j \in 1 .. Len(queue'), queue'[i] = queue'[j]
                   PROVE  i = j
        OBVIOUS
      <3>1. /\ queue[i + 1] = queue[j + 1] /\ i + 1 \in 1 .. Len(queue) /\ j + 1 \in 1 .. Len(queue)
        BY <2>2
      <3>2. i + 1 = j + 1
        BY <3>1 DEF QueueInv
      <3> QED BY <2>1, <2>2, <3>2
    <2>5. (\A i \in 1 .. Len(queue) : Queued(queue[i]) /\ InFlight(queue[i]))'
      BY <1>1, <2>3 DEF InFlight, Queued
    <2>6. ASSUME NEW q \in Requests, Queued(q), InFlight(q)'
          PROVE  \E i \in 1 .. Len(queue') : queue'[i] = q
      <3>1. q # r /\ InFlight(q)
        BY <1>1, <2>6 DEF InFlight
      <3>2. PICK i \in 1 .. Len(queue) : queue[i] = q
        BY <2>6, <3>1 DEF QueueInv
      <3>3. i - 1 \in 1 .. Len(queue') /\ (i - 1) + 1 = i
        BY <1>3, <2>1, <2>2, <3>1, <3>2
      <3> QED BY <2>2, <3>2, <3>3
    <2>7. ASSUME NEW q \in Requests, Queued(q), Begun(q)' PROVE FALSE
      <3>1. q # r /\ Begun(q)
        BY <1>1, <2>7 DEF Begun
      <3> QED BY <1>3, <2>7, <3>1 DEF QueueInv
    <2> QED BY <2>2, <2>4, <2>5, <2>6, <2>7 DEF QueueInv, Queued
  <1> QED BY <1>2, <1>3

LEMMA QueueAppends ==
    ASSUME TypesInv, QueueInv, NEW r \in Requests, Queued(r), request[r] = "idle",
           request' = [request EXCEPT ![r] = "queued"], queue' = Append(queue, r)
    PROVE  QueueInv'
  <1>1. \A q \in Requests : request'[q] = IF q = r THEN "queued" ELSE request[q]
    BY DEF TypesInv
  <1>2. /\ queue \in Seq(Requests) /\ Len(queue) \in Nat
        /\ \A i \in 1 .. Len(queue) : queue[i] \in Requests /\ queue[i] # r
    BY DEF QueueInv, InFlight
  <1>3. /\ queue' \in Seq(Requests) /\ Len(queue') = Len(queue) + 1
        /\ queue'[Len(queue) + 1] = r
        /\ \A i \in 1 .. Len(queue) : queue'[i] = queue[i]
    BY <1>2
  <1>4. ASSUME NEW i \in 1 .. Len(queue') PROVE i = Len(queue) + 1 \/ i \in 1 .. Len(queue)
    BY <1>2, <1>3
  <1>5. \A i, j \in 1 .. Len(queue') : queue'[i] = queue'[j] => i = j
    <2> SUFFICES ASSUME NEW i \in 1 .. Len(queue'), NEW j \in 1 .. Len(queue'), queue'[i] = queue'[j]
                 PROVE  i = j
      OBVIOUS
    <2> QED BY <1>2, <1>3, <1>4 DEF QueueInv
  <1>6. (\A i \in 1 .. Len(queue) : Queued(queue[i]) /\ InFlight(queue[i]))'
    <2> SUFFICES ASSUME NEW i \in 1 .. Len(queue') PROVE (Queued(queue[i]) /\ InFlight(queue[i]))'
      OBVIOUS
    <2>1. CASE i = Len(queue) + 1
      BY <1>1, <1>3, <2>1 DEF InFlight, Queued
    <2>2. CASE i \in 1 .. Len(queue)
      BY <1>1, <1>2, <1>3, <2>2 DEF InFlight, Queued, QueueInv
    <2> QED BY <1>4, <2>1, <2>2
  <1>7. ASSUME NEW q \in Requests, Queued(q), InFlight(q)'
        PROVE  \E i \in 1 .. Len(queue') : queue'[i] = q
    <2>1. CASE q = r
      BY <1>2, <1>3, <2>1
    <2>2. CASE q # r
      <3>1. PICK i \in 1 .. Len(queue) : queue[i] = q
        BY <1>1, <1>7, <2>2 DEF QueueInv, InFlight
      <3> QED BY <1>2, <1>3, <3>1
    <2> QED BY <2>1, <2>2
  <1>8. ASSUME NEW q \in Requests, Queued(q), Begun(q)' PROVE queue'[1] = q
    <2>1. q # r /\ Begun(q) /\ InFlight(q)
      BY <1>1, <1>8 DEF Begun, InFlight
    <2>2. queue[1] = q /\ 1 \in 1 .. Len(queue)
      BY <1>2, <1>8, <2>1 DEF QueueInv
    <2> QED BY <1>3, <2>2
  <1> QED BY <1>3, <1>5, <1>6, <1>7, <1>8 DEF QueueInv, Queued

-----------------------------------------------------------------------------
(* The connection *)

\* What is known of the open transaction stays known.
LEMMA OverlapStays ==
    ASSUME HostInv, UNCHANGED <<tx, lost>>, inTx' = inTx,
           \A q \in Requests : outcome[q] = "timeout" => outcome'[q] = "timeout",
           \A q \in Requests : work[q] = "failed" => work'[q] = "failed"
    PROVE  OverlapInv'
  <1>1. ASSUME NEW row \in inTx PROVE (row = Row(tx, "first") \/ Apart(tx, row[1]))'
    <2>1. tx \in Requests /\ row[1] \in Requests
      BY <1>1 DEF HostInv, ConnectionInv, TypesInv, RowSet
    <2> QED BY <1>1, <2>1 DEF HostInv, OverlapInv, Apart, Row
  <1>2. ASSUME NEW row \in lost
        PROVE  row \in RowSet /\ \E r \in Requests : work'[r] = "failed" /\ Apart(r, row[1])'
    <2>1. row \in RowSet
      BY <1>2 DEF HostInv, OverlapInv
    <2>2. PICK r \in Requests : work[r] = "failed" /\ Apart(r, row[1])
      BY <1>2 DEF HostInv, OverlapInv
    <2>3. row[1] \in Requests
      BY <2>1 DEF RowSet
    <2> QED BY <2>1, <2>2, <2>3 DEF Apart
  <1> QED BY <1>1, <1>2 DEF OverlapInv, RowSet

\* A row written for q: durable, or part of a transaction it is not kept apart
\* from.
LEMMA RowWritten ==
    ASSUME HostInv, NEW q \in Requests, NEW what \in {"received", "first", "closed"},
           Row(q, what) \notin rows \cup inTx,
           IF tx = NoRequest THEN rows' = rows \cup {Row(q, what)} /\ inTx' = inTx
                             ELSE inTx' = inTx \cup {Row(q, what)} /\ rows' = rows,
           UNCHANGED <<tx, lost>>, untold' \subseteq untold \cup (rows' \ rows),
           tx # NoRequest => Apart(tx, q),
           \A p \in Requests : outcome[p] = "timeout" => outcome'[p] = "timeout",
           \A p \in Requests : work[p] = "failed" => work'[p] = "failed"
    PROVE  ConnectionInv' /\ OverlapInv'
  <1>1. Row(q, what) \in RowSet
    BY DEF Row, RowSet
  <1>2. ConnectionInv'
    <2>1. CASE tx = NoRequest
      BY <1>1, <2>1 DEF HostInv, ConnectionInv, RowSet
    <2>2. CASE tx # NoRequest
      BY <1>1, <2>2 DEF HostInv, ConnectionInv, RowSet
    <2> QED BY <2>1, <2>2
  <1>3. CASE tx = NoRequest
    BY <1>2, <1>3, OverlapStays
  <1>4. CASE tx # NoRequest
    <2>1. ASSUME NEW row \in inTx PROVE (row = Row(tx, "first") \/ Apart(tx, row[1]))'
      <3>1. tx \in Requests /\ row[1] \in Requests
        BY <2>1 DEF HostInv, ConnectionInv, TypesInv, RowSet
      <3> QED BY <2>1, <3>1 DEF HostInv, OverlapInv, Apart, Row
    <2>2. Apart(tx, q)' /\ Row(q, what)[1] = q
      BY <1>4 DEF Apart, Row, HostInv, TypesInv
    <2>3. ASSUME NEW row \in lost
          PROVE  row \in RowSet /\ \E r \in Requests : work'[r] = "failed" /\ Apart(r, row[1])'
      <3>1. row \in RowSet
        BY <2>3 DEF HostInv, OverlapInv
      <3>2. PICK r \in Requests : work[r] = "failed" /\ Apart(r, row[1])
        BY <2>3 DEF HostInv, OverlapInv
      <3>3. row[1] \in Requests
        BY <3>1 DEF RowSet
      <3> QED BY <3>1, <3>2, <3>3 DEF Apart
    <2> QED BY <1>2, <1>4, <2>1, <2>2, <2>3 DEF OverlapInv, RowSet
  <1> QED BY <1>2, <1>3, <1>4

-----------------------------------------------------------------------------
(* The steps of a request *)

\* The work of requests goes on as before.
LEMMA RouteStep == ASSUME HostInv, NEW r \in Requests, Route(r) PROVE HostInv'
  <1> USE HostAssumption DEF HostInv
  <1>1. /\ phase \notin {"closing", "stopped"} /\ request[r] = "idle"
        /\ UNCHANGED <<phase, work, awaited, tx, inTx, rows, lost, untold, open, listeners>>
    BY DEF Route, connectionVars, streamVars
  <1>2. \/ /\ request' = [request EXCEPT ![r] = "queued"] /\ UNCHANGED outcome
           /\ queue' = IF Queued(r) THEN Append(queue, r) ELSE queue
        \/ /\ request' = [request EXCEPT ![r] = "answered"] /\ UNCHANGED queue
           /\ outcome' = [outcome EXCEPT ![r] = "invalid"]
    BY DEF Route
  <1>3. RequestOK(r) /\ work[r] = "none" /\ outcome[r] = "none" /\ ~InFlight(r) /\ ~Active(r)
    BY <1>1 DEF RequestOK, InFlight, Active
  <1>4. TypesInv' /\ ConnectionInv' /\ StreamInv'
    BY <1>1, <1>2 DEF TypesInv, ConnectionInv, StreamInv, RowSet
  <1>5. QueueInv'
    <2>1. CASE request' = [request EXCEPT ![r] = "queued"] /\ Queued(r) /\ queue' = Append(queue, r)
      BY <1>1, <2>1, QueueAppends
    <2>2. CASE request' = [request EXCEPT ![r] = "queued"] /\ ~Queued(r) /\ UNCHANGED queue
      BY <2>2, QueueStays
    <2>3. CASE request' = [request EXCEPT ![r] = "answered"] /\ UNCHANGED queue
      BY <1>3, <2>3, QueueStays
    <2> QED BY <1>2, <2>1, <2>2, <2>3
  <1>6. \A q \in Requests : q # r => request'[q] = request[q] /\ outcome'[q] = outcome[q]
    BY <1>2 DEF TypesInv
  <1>7. request'[r] \in {"queued", "answered"} /\ outcome'[r] \in {"none", "invalid"}
    BY <1>2, <1>3 DEF TypesInv
  <1>8. request'[r] = "queued" => outcome'[r] = "none"
    BY <1>2, <1>3 DEF TypesInv
  <1>9. ASSUME NEW q \in Requests PROVE RequestOK(q)' /\ RowOK(q)'
    <2>1. RequestOK(q) /\ RowOK(q)
      OBVIOUS
    <2>2. CASE q = r
      BY <1>1, <1>3, <1>7, <1>8, <2>1, <2>2 DEF RequestOK, RowOK, Active, Row
    <2>3. CASE q # r
      BY <1>1, <1>6, <2>1, <2>3 DEF RequestOK, RowOK, Active, Row
    <2> QED BY <2>2, <2>3
  <1>10. OverlapInv'
    BY <1>1, <1>3, <1>6, OverlapStays
  <1>11. StopInv'
    BY <1>1 DEF StopInv, Active
  <1>12. ToldUnlessTimedOut'
    BY <1>1, <1>3, <1>6, <1>7, <1>8 DEF ToldUnlessTimedOut, InFlight, Active
  <1> QED BY <1>4, <1>5, <1>9, <1>10, <1>11, <1>12

LEMMA ReceiveStep == ASSUME HostInv, NEW r \in Requests, Receive(r) PROVE HostInv'
  <1> USE HostAssumption DEF HostInv
  <1>1. /\ request[r] = "queued" /\ mayRun(r)
        /\ UNCHANGED <<phase, work, awaited, open, listeners, tx, lost>>
    BY DEF Receive, streamVars, statement, connectionVars
  <1>2. /\ RequestOK(r) /\ RowOK(r) /\ work[r] = "none" /\ outcome[r] = "none" /\ InFlight(r)
        /\ ~Active(r) /\ phase # "stopped"
    BY <1>1 DEF RequestOK, InFlight, Active, StopInv
  <1>3. Queued(r) => queue[1] = r
    <2> SUFFICES ASSUME Queued(r) PROVE queue[1] = r
      OBVIOUS
    <2>1. \E i \in 1 .. Len(queue) : queue[i] = r
      BY <1>2 DEF QueueInv
    <2>2. Head(queue) = queue[1]
      BY <2>1 DEF QueueInv
    <2> QED BY <1>1, <2>2 DEF mayRun
  <1>4. CASE /\ request' = [request EXCEPT ![r] = "received"]
             /\ statement({Row(r, "received")}) /\ UNCHANGED <<outcome, queue>>
    <2>1. request'[r] = "received" /\ \A q \in Requests : q # r => request'[q] = request[q]
      BY <1>4 DEF TypesInv
    <2>2. QueueInv'
      BY <1>2, <1>3, <1>4, QueueStays
    <2>3. Row(r, "received") \notin rows \cup inTx
      BY <1>1, <1>2 DEF RowOK
    <2>4. IF tx = NoRequest THEN rows' = rows \cup {Row(r, "received")} /\ inTx' = inTx
                            ELSE inTx' = inTx \cup {Row(r, "received")} /\ rows' = rows
      BY <1>4 DEF statement
    <2>5. untold' \subseteq untold \cup (rows' \ rows)
      BY <1>4, <2>3 DEF statement
    <2>6. tx # NoRequest => Apart(tx, r)
      <3>1. r # tx
        BY <1>2 DEF RequestOK
      <3> QED BY <1>1, <3>1, ActsBeside
    <2>7. ConnectionInv' /\ OverlapInv'
      BY <1>1, <1>4, <2>3, <2>4, <2>5, <2>6, RowWritten
    <2>8. TypesInv' /\ StreamInv' /\ StopInv'
      BY <1>1, <1>2, <1>4 DEF TypesInv, StreamInv, StopInv, Active
    <2>9. ASSUME NEW q \in Requests PROVE RequestOK(q)' /\ RowOK(q)'
      <3>1. RequestOK(q) /\ RowOK(q)
        OBVIOUS
      <3>2. \A what \in {"first", "second", "closed"} :
              /\ Row(q, what) \in rows' <=> Row(q, what) \in rows
              /\ Row(q, what) \in inTx' <=> Row(q, what) \in inTx
        BY <2>4 DEF Row
      <3>3. q # r => (Row(q, "received") \in rows' \cup inTx' => Row(q, "received") \in rows \cup inTx)
        BY <2>4 DEF Row
      <3> QED BY <1>1, <1>2, <1>4, <2>1, <3>1, <3>2, <3>3 DEF RequestOK, RowOK, Active
    <2>10. ToldUnlessTimedOut'
      BY <2>1 DEF ToldUnlessTimedOut, InFlight
    <2> QED BY <2>2, <2>7, <2>8, <2>9, <2>10
  <1>5. CASE /\ request' = [request EXCEPT ![r] = "answered"]
             /\ outcome' = [outcome EXCEPT ![r] = "error"] /\ dequeue(r)
             /\ UNCHANGED <<connectionVars, untold>>
    <2>1. /\ request'[r] = "answered" /\ outcome'[r] = "error"
          /\ \A q \in Requests : q # r => request'[q] = request[q] /\ outcome'[q] = outcome[q]
      BY <1>5 DEF TypesInv
    <2>2. QueueInv'
      BY <1>2, <1>3, <1>5, QueueReleases
    <2>3. UNCHANGED <<tx, inTx, rows, lost, untold>>
      BY <1>5 DEF connectionVars
    <2>4. TypesInv' /\ StreamInv' /\ StopInv' /\ ConnectionInv'
      BY <1>1, <1>2, <1>5, <2>3 DEF TypesInv, StreamInv, StopInv, Active, ConnectionInv, RowSet
    <2>5. OverlapInv'
      BY <1>1, <1>2, <2>1, <2>3, OverlapStays
    <2>6. ASSUME NEW q \in Requests PROVE RequestOK(q)' /\ RowOK(q)'
      <3>1. RequestOK(q) /\ RowOK(q)
        OBVIOUS
      <3> QED BY <1>1, <1>2, <2>1, <2>3, <3>1 DEF RequestOK, RowOK, Active, Row
    <2>7. ToldUnlessTimedOut'
      BY <2>1 DEF ToldUnlessTimedOut
    <2> QED BY <2>2, <2>4, <2>5, <2>6, <2>7
  <1> QED BY <1>4, <1>5 DEF Receive

LEMMA ExecuteStep == ASSUME HostInv, NEW r \in Requests, Execute(r) PROVE HostInv'
  <1> USE HostAssumption DEF HostInv
  <1>1. /\ request[r] = "received" /\ request' = [request EXCEPT ![r] = "waiting"]
        /\ UNCHANGED <<phase, queue, awaited, tx, inTx, rows, lost, untold, open, listeners>>
    BY DEF Execute, connectionVars, streamVars
  <1>2. /\ RequestOK(r) /\ RowOK(r) /\ work[r] = "none" /\ outcome[r] = "none" /\ InFlight(r)
        /\ Begun(r) /\ phase # "stopped"
    BY <1>1 DEF RequestOK, InFlight, Begun, StopInv
  <1>3. /\ request'[r] = "waiting"
        /\ work'[r] = (IF phase \in {"draining", "closing"} THEN "done" ELSE "running")
        /\ outcome'[r] = (IF phase \in {"draining", "closing"} THEN "refused" ELSE "none")
        /\ \A q \in Requests : q # r => /\ request'[q] = request[q] /\ outcome'[q] = outcome[q]
                                        /\ work'[q] = work[q]
    BY <1>1, <1>2 DEF Execute, TypesInv
  <1>4. TypesInv' /\ ConnectionInv' /\ StreamInv'
    BY <1>1 DEF Execute, TypesInv, ConnectionInv, StreamInv, RowSet
  <1>5. QueueInv'
    BY <1>1, <1>2, QueueStays DEF QueueInv
  <1>6. ASSUME NEW q \in Requests PROVE RequestOK(q)' /\ RowOK(q)'
    <2>1. RequestOK(q) /\ RowOK(q)
      OBVIOUS
    <2>2. CASE q = r
      BY <1>1, <1>2, <1>3, <2>1, <2>2 DEF RequestOK, RowOK, Active, Row
    <2>3. CASE q # r
      BY <1>1, <1>3, <2>1, <2>3 DEF RequestOK, RowOK, Active, Row
    <2> QED BY <2>2, <2>3
  <1>7. OverlapInv'
    BY <1>1, <1>2, <1>3, OverlapStays
  <1>8. StopInv'
    BY <1>1, <1>2, <1>3 DEF StopInv, Active, TypesInv
  <1>9. ToldUnlessTimedOut'
    BY <1>3 DEF ToldUnlessTimedOut, InFlight
  <1> QED BY <1>4, <1>5, <1>6, <1>7, <1>8, <1>9

LEMMA EndStep == ASSUME HostInv, NEW r \in Requests, Settle(r) \/ Timeout(r) PROVE HostInv'
  <1> USE HostAssumption DEF HostInv
  <1>1. /\ request[r] = "waiting" /\ request' = [request EXCEPT ![r] = "closing"]
        /\ UNCHANGED <<phase, queue, work, awaited, tx, inTx, rows, lost, untold, open, listeners>>
    BY DEF Settle, Timeout, connectionVars, streamVars
  <1>2. /\ RequestOK(r) /\ RowOK(r) /\ outcome[r] \in {"none", "refused"} /\ InFlight(r)
        /\ Begun(r) /\ phase # "stopped"
    BY <1>1 DEF RequestOK, InFlight, Begun, StopInv
  <1>3. /\ request'[r] = "closing"
        /\ \A q \in Requests : q # r => request'[q] = request[q] /\ outcome'[q] = outcome[q]
        /\ outcome'[r] = "refused" <=> outcome[r] = "refused"
        /\ Active(r) => outcome'[r] = "timeout"
        /\ outcome' \in [Requests -> {"none", "invalid", "error", "refused", "ok", "failed", "timeout"}]
    <2>1. CASE Settle(r)
      BY <1>1, <2>1 DEF Settle, TypesInv, Active
    <2>2. CASE Timeout(r)
      BY <1>1, <1>2, <2>2 DEF Timeout, TypesInv, Active, RequestOK
    <2> QED BY <2>1, <2>2
  <1>4. TypesInv' /\ ConnectionInv' /\ StreamInv'
    BY <1>1, <1>3 DEF TypesInv, ConnectionInv, StreamInv, RowSet
  <1>5. QueueInv'
    BY <1>1, <1>2, QueueStays DEF QueueInv
  <1>6. ASSUME NEW q \in Requests PROVE RequestOK(q)' /\ RowOK(q)'
    <2>1. RequestOK(q) /\ RowOK(q)
      OBVIOUS
    <2>2. CASE q = r
      BY <1>1, <1>2, <1>3, <2>1, <2>2 DEF RequestOK, RowOK, Active, Row
    <2>3. CASE q # r
      BY <1>1, <1>3, <2>1, <2>3 DEF RequestOK, RowOK, Active, Row
    <2> QED BY <2>2, <2>3
  <1>7. OverlapInv'
    BY <1>1, <1>2, <1>3, OverlapStays
  <1>8. StopInv'
    BY <1>1, <1>2, <1>3 DEF StopInv, Active
  <1>9. ToldUnlessTimedOut'
    BY <1>3 DEF ToldUnlessTimedOut, InFlight
  <1> QED BY <1>4, <1>5, <1>6, <1>7, <1>8, <1>9

LEMMA AnswerStep == ASSUME HostInv, NEW r \in Requests, Answer(r) PROVE HostInv'
  <1> USE HostAssumption DEF HostInv
  <1>1. /\ request[r] = "closing" /\ request' = [request EXCEPT ![r] = "answered"] /\ dequeue(r)
        /\ UNCHANGED <<phase, outcome, work, awaited, tx, lost, open, listeners>>
        /\ untold' = {}
    BY DEF Answer, streamVars
  <1>2. RequestOK(r) /\ RowOK(r) /\ InFlight(r) /\ Begun(r) /\ phase # "stopped"
    BY <1>1 DEF InFlight, Begun, StopInv
  <1>3. request'[r] = "answered" /\ \A q \in Requests : q # r => request'[q] = request[q]
    BY <1>1 DEF TypesInv
  <1>4. QueueInv'
    BY <1>1, <1>2, QueueReleases DEF QueueInv
  <1>5. Row(r, "closed") \notin rows \cup inTx
    BY <1>1, <1>2 DEF RowOK
  <1>6. IF tx = NoRequest THEN rows' = rows \cup {Row(r, "closed")} /\ inTx' = inTx
                          ELSE inTx' = inTx \cup {Row(r, "closed")} /\ rows' = rows
    BY DEF Answer
  <1>7. tx # NoRequest => Apart(tx, r)
    BY <1>1, <1>2, ActsBeside
  <1>8. ConnectionInv' /\ OverlapInv'
    BY <1>1, <1>5, <1>6, <1>7, RowWritten
  <1>9. TypesInv' /\ StreamInv' /\ StopInv'
    BY <1>1, <1>2 DEF TypesInv, StreamInv, StopInv, Active
  <1>10. ASSUME NEW q \in Requests PROVE RequestOK(q)' /\ RowOK(q)'
    <2>1. RequestOK(q) /\ RowOK(q)
      OBVIOUS
    <2>2. \A what \in {"first", "second", "received"} :
            /\ Row(q, what) \in rows' <=> Row(q, what) \in rows
            /\ Row(q, what) \in inTx' <=> Row(q, what) \in inTx
      BY <1>6 DEF Row
    <2>3. q # r => (Row(q, "closed") \in rows' \cup inTx' => Row(q, "closed") \in rows \cup inTx)
      BY <1>6 DEF Row
    <2> QED BY <1>1, <1>2, <1>3, <2>1, <2>2, <2>3 DEF RequestOK, RowOK, Active
  <1>11. ToldUnlessTimedOut'
    BY <1>1 DEF ToldUnlessTimedOut
  <1> QED BY <1>4, <1>8, <1>9, <1>10, <1>11

LEMMA WorkStepStep == ASSUME HostInv, NEW r \in Requests, WorkStep(r) PROVE HostInv'
  <1> USE HostAssumption DEF HostInv
  <1>1. UNCHANGED <<phase, request, outcome, queue, awaited, open, listeners>>
    BY DEF WorkStep, requestVars, streamVars
  <1>2. RequestOK(r) /\ RowOK(r) /\ Active(r) /\ outcome[r] # "refused" /\ ShapeOf[r] \in {"tick", "tx", "plain"}
    BY DEF RequestOK, Active, WorkStep, TypesInv
  <1>3. PICK w \in {"intx", "failed", "done"} : work' = [work EXCEPT ![r] = w]
    BY DEF WorkStep, beginTransaction, commit, rollback
  <1>4. work'[r] = w /\ \A q \in Requests : q # r => work'[q] = work[q]
    BY <1>3 DEF TypesInv
  <1>5. QueueInv'
    BY <1>1 DEF QueueInv, InFlight, Begun, Queued
  <1>6. StreamInv'
    BY <1>1 DEF StreamInv
  <1>7. StopInv'
    <2>1. \A q \in Requests : Active(q)' => Active(q)
      BY <1>2, <1>4 DEF Active
    <2>2. phase \notin {"closing", "stopped"}
      BY <1>2 DEF StopInv
    <2> QED BY <1>1, <2>1, <2>2 DEF StopInv
  <1>8. ToldUnlessTimedOut'
    BY <1>1, <1>2 DEF ToldUnlessTimedOut, RequestOK, InFlight
  <1>9. \A q \in Requests : work[q] = "failed" => work'[q] = "failed"
    BY <1>2, <1>4 DEF Active
  <1>10. \A q \in Requests : work[q] = "intx" <=> tx = q
    BY DEF RequestOK
  <1>11. CASE work[r] = "running" /\ ShapeOf[r] # "plain" /\ beginTransaction(r) /\ tx = NoRequest
    <2>1. tx' = r /\ inTx' = {Row(r, "first")} /\ w = "intx" /\ UNCHANGED <<rows, lost, untold>>
      BY <1>4, <1>11 DEF beginTransaction, TypesInv
    <2>2. inTx = {} /\ Row(r, "first") \notin rows /\ Row(r, "second") \notin rows
      BY <1>2, <1>11 DEF ConnectionInv, RowOK
    <2>3. TypesInv'
      BY <1>1, <1>3, <2>1 DEF TypesInv
    <2>4. ConnectionInv'
      BY <2>1, <2>2 DEF ConnectionInv, RowSet, Row
    <2>5. ASSUME NEW q \in Requests PROVE RequestOK(q)'
      <3>1. RequestOK(q)
        OBVIOUS
      <3> QED BY <1>1, <1>2, <1>4, <1>11, <2>1, <3>1 DEF RequestOK, Active
    <2>6. ASSUME NEW q \in Requests PROVE RowOK(q)'
      <3>1. RowOK(q)
        OBVIOUS
      <3>2. \A what : Row(q, what) \in inTx' <=> q = r /\ what = "first"
        BY <2>1 DEF Row
      <3>3. CASE q = r
        BY <1>1, <1>2, <1>4, <2>1, <2>2, <3>1, <3>2, <3>3 DEF RowOK
      <3>4. CASE q # r
        BY <1>1, <1>4, <2>1, <2>2, <3>1, <3>2, <3>4 DEF RowOK
      <3> QED BY <3>3, <3>4
    <2>7. OverlapInv'
      <3>1. ASSUME NEW row \in lost
            PROVE  row \in RowSet /\ \E q \in Requests : work'[q] = "failed" /\ Apart(q, row[1])'
        <4>1. row \in RowSet /\ row[1] \in Requests
          BY <3>1 DEF OverlapInv, RowSet
        <4>2. PICK q \in Requests : work[q] = "failed" /\ Apart(q, row[1])
          BY <3>1 DEF OverlapInv
        <4> QED BY <1>1, <1>9, <4>1, <4>2 DEF Apart
      <3> QED BY <2>1, <3>1 DEF OverlapInv, RowSet
    <2> QED BY <1>5, <1>6, <1>7, <1>8, <2>3, <2>4, <2>5, <2>6, <2>7
  <1>12. CASE work[r] = "running" /\ ShapeOf[r] # "plain" /\ beginTransaction(r) /\ tx # NoRequest
    <2>1. w = "failed" /\ UNCHANGED <<tx, inTx, rows, lost, untold>> /\ tx # r
      BY <1>4, <1>10, <1>12 DEF beginTransaction, TypesInv
    <2>2. TypesInv' /\ ConnectionInv'
      BY <1>1, <1>3, <2>1 DEF TypesInv, ConnectionInv, RowSet
    <2>3. ASSUME NEW q \in Requests PROVE RequestOK(q)' /\ RowOK(q)'
      <3>1. RequestOK(q) /\ RowOK(q)
        OBVIOUS
      <3>2. CASE q = r
        BY <1>1, <1>2, <1>4, <1>12, <2>1, <3>1, <3>2 DEF RequestOK, RowOK, Active
      <3>3. CASE q # r
        BY <1>1, <1>4, <2>1, <3>1, <3>3 DEF RequestOK, RowOK, Active
      <3> QED BY <3>2, <3>3
    <2>4. OverlapInv'
      BY <1>1, <1>9, <2>1, OverlapStays
    <2> QED BY <1>5, <1>6, <1>7, <1>8, <2>2, <2>3, <2>4
  <1>13. CASE work[r] = "intx" /\ commit(r)
    <2>1. /\ w = "done" /\ tx' = NoRequest /\ inTx' = {} /\ lost' = lost /\ tx = r
          /\ rows' = rows \cup inTx \cup {Row(r, "second")}
          /\ untold' = untold \cup inTx \cup {Row(r, "second")}
      BY <1>4, <1>10, <1>13 DEF commit, TypesInv
    <2>2. TypesInv' /\ ConnectionInv'
      BY <1>1, <1>3, <2>1 DEF TypesInv, ConnectionInv, RowSet, Row
    <2>3. ASSUME NEW q \in Requests PROVE RequestOK(q)'
      <3>1. RequestOK(q)
        OBVIOUS
      <3> QED BY <1>1, <1>2, <1>4, <1>13, <2>1, <3>1 DEF RequestOK, Active
    <2>4. ASSUME NEW q \in Requests PROVE RowOK(q)'
      <3>1. RowOK(q)
        OBVIOUS
      <3>2. \A what \in {"received", "first", "closed"} :
               Row(q, what) \in rows' <=> Row(q, what) \in rows \cup inTx
        BY <2>1 DEF Row
      <3>3. Row(q, "second") \in rows' <=> q = r \/ Row(q, "second") \in rows
        BY <2>1, <3>1 DEF Row, RowOK
      <3>4. \A what : Row(q, what) \notin inTx'
        BY <2>1
      <3>5. CASE q = r
        BY <1>1, <1>2, <1>4, <1>13, <2>1, <3>1, <3>2, <3>3, <3>4, <3>5 DEF RowOK
      <3>6. CASE q # r
        <4>1. work[q] # "intx"
          BY <1>10, <2>1, <3>6
        <4> QED BY <1>1, <1>4, <3>1, <3>2, <3>3, <3>4, <3>6, <4>1 DEF RowOK
      <3> QED BY <3>5, <3>6
    <2>5. OverlapInv'
      <3>1. ASSUME NEW row \in lost
            PROVE  row \in RowSet /\ \E q \in Requests : work'[q] = "failed" /\ Apart(q, row[1])'
        <4>1. row \in RowSet /\ row[1] \in Requests
          BY <3>1 DEF OverlapInv, RowSet
        <4>2. PICK q \in Requests : work[q] = "failed" /\ Apart(q, row[1])
          BY <3>1 DEF OverlapInv
        <4> QED BY <1>1, <1>9, <4>1, <4>2 DEF Apart
      <3> QED BY <2>1, <3>1 DEF OverlapInv, RowSet
    <2> QED BY <1>5, <1>6, <1>7, <1>8, <2>2, <2>3, <2>4, <2>5
  <1>14. CASE work[r] = "intx" /\ rollback(r)
    <2>1. /\ w = "failed" /\ tx' = NoRequest /\ inTx' = {} /\ tx = r /\ UNCHANGED <<rows, untold>>
          /\ lost' = lost \cup {row \in inTx : row[1] # r \/ row[2] \in {"received", "closed"}}
      BY <1>4, <1>10, <1>14 DEF rollback, TypesInv
    <2>2. TypesInv' /\ ConnectionInv'
      BY <1>1, <1>3, <2>1 DEF TypesInv, ConnectionInv, RowSet
    <2>3. ASSUME NEW q \in Requests PROVE RequestOK(q)' /\ RowOK(q)'
      <3>1. RequestOK(q) /\ RowOK(q)
        OBVIOUS
      <3>2. CASE q = r
        BY <1>1, <1>2, <1>4, <1>14, <2>1, <3>1, <3>2 DEF RequestOK, RowOK, Active
      <3>3. CASE q # r
        BY <1>1, <1>4, <2>1, <3>1, <3>3, <1>10 DEF RequestOK, RowOK, Active
      <3> QED BY <3>2, <3>3
    <2>4. OverlapInv'
      <3>1. ASSUME NEW row \in lost'
            PROVE  row \in RowSet /\ \E q \in Requests : work'[q] = "failed" /\ Apart(q, row[1])'
        <4>1. CASE row \in lost
          <5>1. row \in RowSet /\ row[1] \in Requests
            BY <4>1 DEF OverlapInv, RowSet
          <5>2. PICK q \in Requests : work[q] = "failed" /\ Apart(q, row[1])
            BY <4>1 DEF OverlapInv
          <5> QED BY <1>1, <1>9, <5>1, <5>2 DEF Apart
        <4>2. CASE row \in inTx /\ (row[1] # r \/ row[2] \in {"received", "closed"})
          <5>1. row \in RowSet /\ row[1] \in Requests
            BY <4>2 DEF ConnectionInv, RowSet
          <5>2. row # Row(r, "first")
            BY <4>2 DEF Row
          <5>3. Apart(r, row[1])
            BY <2>1, <4>2, <5>2 DEF OverlapInv
          <5> QED BY <1>1, <1>4, <2>1, <5>1, <5>3 DEF Apart
        <4> QED BY <2>1, <3>1, <4>1, <4>2
      <3> QED BY <2>1, <3>1 DEF OverlapInv, RowSet
    <2> QED BY <1>5, <1>6, <1>7, <1>8, <2>2, <2>3, <2>4
  <1>15. CASE /\ work[r] = "running" /\ ShapeOf[r] = "plain"
              /\ statement({Row(r, "first")}) /\ work' = [work EXCEPT ![r] = "done"]
    <2>1. w = "done" /\ UNCHANGED <<tx, lost>> /\ tx # r
      BY <1>4, <1>10, <1>15 DEF statement, TypesInv
    <2>2. Row(r, "first") \notin rows \cup inTx /\ Row(r, "second") \notin rows
      BY <1>2, <1>15 DEF RowOK
    <2>3. IF tx = NoRequest THEN rows' = rows \cup {Row(r, "first")} /\ inTx' = inTx
                            ELSE inTx' = inTx \cup {Row(r, "first")} /\ rows' = rows
      BY <1>15 DEF statement
    <2>4. untold' \subseteq untold \cup (rows' \ rows)
      BY <1>15, <2>2 DEF statement
    <2>5. tx # NoRequest => Apart(tx, r)
      BY <1>2, <2>1, ActsBeside
    <2>6. ConnectionInv' /\ OverlapInv'
      BY <1>1, <1>9, <2>1, <2>2, <2>3, <2>4, <2>5, RowWritten
    <2>7. TypesInv'
      BY <1>1, <1>3, <2>1 DEF TypesInv
    <2>8. ASSUME NEW q \in Requests PROVE RequestOK(q)'
      <3>1. RequestOK(q)
        OBVIOUS
      <3> QED BY <1>1, <1>2, <1>4, <1>15, <2>1, <3>1 DEF RequestOK, Active
    <2>9. ASSUME NEW q \in Requests PROVE RowOK(q)'
      <3>1. RowOK(q)
        OBVIOUS
      <3>2. \A what \in {"received", "second", "closed"} :
              /\ Row(q, what) \in rows' <=> Row(q, what) \in rows
              /\ Row(q, what) \in inTx' <=> Row(q, what) \in inTx
        BY <2>3 DEF Row
      <3>3. CASE q = r
        BY <1>1, <1>2, <1>4, <1>15, <2>1, <2>2, <3>1, <3>2, <3>3 DEF RowOK
      <3>4. CASE q # r
        <4>1. /\ Row(q, "first") \in rows' <=> Row(q, "first") \in rows
              /\ Row(q, "first") \in inTx' <=> Row(q, "first") \in inTx
          BY <2>3, <3>4 DEF Row
        <4> QED BY <1>1, <1>4, <3>1, <3>2, <3>4, <4>1 DEF RowOK
      <3> QED BY <3>3, <3>4
    <2> QED BY <1>5, <1>6, <1>7, <1>8, <2>6, <2>7, <2>8, <2>9
  <1> QED BY <1>11, <1>12, <1>13, <1>14, <1>15 DEF WorkStep

-----------------------------------------------------------------------------
(* Streams and shutdown *)

\* Steps that leave the requests and the connection alone.
LEMMA BesideStep ==
    ASSUME HostInv,
           UNCHANGED <<request, outcome, queue, work, tx, inTx, rows, lost, untold>>,
           phase' \in {"serving", "stoppingQueue", "draining", "closing", "stopped"},
           awaited' \subseteq Requests, StopInv', StreamInv'
    PROVE  HostInv'
  <1> USE DEF HostInv
  <1>1. TypesInv' /\ ConnectionInv'
    BY DEF TypesInv, ConnectionInv, RowSet
  <1>2. QueueInv'
    BY DEF QueueInv, InFlight, Begun, Queued
  <1>3. ASSUME NEW q \in Requests PROVE RequestOK(q)' /\ RowOK(q)'
    <2>1. RequestOK(q) /\ RowOK(q)
      OBVIOUS
    <2> QED BY <2>1 DEF RequestOK, RowOK, Active
  <1>4. OverlapInv'
    BY OverlapStays
  <1>5. ToldUnlessTimedOut'
    BY DEF ToldUnlessTimedOut, InFlight, Active
  <1> QED BY <1>1, <1>2, <1>3, <1>4, <1>5

LEMMA StreamStep ==
    ASSUME HostInv, NEW s \in Streams, OpenStream(s) \/ CancelStream(s)
    PROVE  HostInv'
  <1> USE HostAssumption DEF HostInv
  <1>1. UNCHANGED <<phase, request, outcome, queue, work, awaited, tx, inTx, rows, lost, untold>>
    BY DEF OpenStream, CancelStream, requestVars, connectionVars
  <1>2. StopInv'
    BY <1>1 DEF StopInv, Active, InFlight
  <1>3. CASE OpenStream(s)
    <2>1. /\ IsFiniteSet(listeners') /\ Cardinality(listeners) \in Nat
          /\ Cardinality(listeners') = Cardinality(listeners) \/ Cardinality(listeners') = Cardinality(listeners) + 1
      BY <1>3, FS_AddElement, FS_CardinalityType DEF OpenStream, StreamInv
    <2>2. StreamInv'
      BY <1>3, <2>1 DEF OpenStream, StreamInv
    <2> QED BY <1>1, <1>2, <2>2, BesideStep DEF TypesInv
  <1>4. CASE CancelStream(s)
    <2>1. /\ IsFiniteSet(listeners') /\ Cardinality(listeners) \in Nat
          /\ Cardinality(listeners') = Cardinality(listeners) \/ Cardinality(listeners') = Cardinality(listeners) - 1
      BY <1>4, FS_RemoveElement, FS_CardinalityType DEF CancelStream, StreamInv
    <2>2. StreamInv'
      BY <1>4, <2>1 DEF CancelStream, StreamInv
    <2> QED BY <1>1, <1>2, <2>2, BesideStep DEF TypesInv
  <1> QED BY <1>3, <1>4

LEMMA StopStep ==
    ASSUME HostInv, BeginStop \/ RuntimeStop \/ ServerStop \/ Stopped
    PROVE  HostInv'
  <1> USE HostAssumption DEF HostInv
  <1>1. UNCHANGED <<request, outcome, queue, work, tx, inTx, rows, lost, untold>>
    BY DEF BeginStop, RuntimeStop, ServerStop, Stopped, requestVars, connectionVars
  <1>2. \A r \in Requests : (Active(r)' <=> Active(r)) /\ (InFlight(r)' <=> InFlight(r))
    BY <1>1 DEF Active, InFlight
  <1>3. phase' \in {"serving", "stoppingQueue", "draining", "closing", "stopped"}
    BY DEF BeginStop, RuntimeStop, ServerStop, Stopped
  <1>4. awaited' \subseteq Requests
    BY DEF BeginStop, RuntimeStop, ServerStop, Stopped, TypesInv, pending
  <1>5. StreamInv'
    BY FS_EmptySet DEF BeginStop, RuntimeStop, ServerStop, Stopped, StreamInv, streamVars
  <1>6. StopInv'
    <2>1. CASE BeginStop
      BY <2>1 DEF BeginStop, StopInv
    <2>2. CASE RuntimeStop
      BY <1>2, <2>2 DEF RuntimeStop, StopInv, pending
    <2>3. CASE ServerStop
      BY <1>2, <2>3 DEF ServerStop, StopInv
    <2>4. CASE Stopped
      BY <1>2, <2>4 DEF Stopped, StopInv
    <2> QED BY <2>1, <2>2, <2>3, <2>4
  <1> QED BY <1>1, <1>3, <1>4, <1>5, <1>6, BesideStep

\* Every step of the host keeps its invariant.
LEMMA HostStep == ASSUME HostInv, [HostNext]_hostVars PROVE HostInv'
  <1>1. CASE UNCHANGED hostVars
    <2>1. StopInv' /\ StreamInv'
      BY <1>1 DEF HostInv, hostVars, StopInv, StreamInv, Active, InFlight
    <2> QED BY <1>1, <2>1, BesideStep DEF HostInv, TypesInv, hostVars
  <1>2. CASE HostNext
    BY <1>2, RouteStep, ReceiveStep, ExecuteStep, WorkStepStep, EndStep, AnswerStep, StreamStep,
       StopStep DEF HostNext
  <1> QED BY <1>1, <1>2

LEMMA HostInvSafe == ASSUME HostInv PROVE HostSafety
  <1> USE HostAssumption DEF HostInv
  <1>1. HostTypeOK
    BY DEF HostTypeOK, TypesInv, ConnectionInv, StreamInv, QueueInv, IsInjective
  <1>2. ClosedAfterWork
    <2> SUFFICES ASSUME phase = "stopped"
                 PROVE  pending = {} /\ tx = NoRequest /\ \A r \in Requests : ~InFlight(r)
      BY DEF ClosedAfterWork
    <2>1. \A r \in Requests : ~Active(r) /\ ~InFlight(r)
      BY DEF StopInv
    <2>2. tx = NoRequest
      BY <2>1 DEF TypesInv, RequestOK, Active
    <2> QED BY <2>1, <2>2 DEF pending
  <1>3. OverlapNeedsTimeout
    <2> SUFFICES ASSUME NEW r \in Requests, NEW s \in Requests, r # s, Queued(r), Queued(s),
                        Active(r), Active(s), outcome[r] # "timeout", outcome[s] # "timeout"
                 PROVE  FALSE
      BY DEF OverlapNeedsTimeout
    <2>1. Begun(r) /\ Begun(s)
      BY DEF RequestOK, Begun
    <2> QED BY <2>1 DEF QueueInv
  <1>4. OwnTransaction
    <2> SUFFICES ASSUME NEW r \in Requests, ShapeOf[r] \in {"tick", "tx"}
                 PROVE  /\ work[r] = "done" /\ outcome[r] # "refused"
                             => Row(r, "first") \in rows /\ Row(r, "second") \in rows
                        /\ work[r] = "failed" => Row(r, "first") \notin rows /\ Row(r, "second") \notin rows
      BY DEF OwnTransaction
    <2> QED BY DEF RowOK
  <1>5. RowsLostOnlyToOverlap
    BY DEF OverlapInv, RowsLostOnlyToOverlap, Apart
  <1> QED BY <1>1, <1>2, <1>3, <1>4, <1>5 DEF HostSafety

\* THEOREM: whatever the requests and the moment of the shutdown, commands of
\* the queue overlap only after a timeout, a transaction is all or nothing,
\* rows are lost only to an overlap, and the stores close last
\* (office-daemon.ts, command-queue.ts, application-runtime.ts).
THEOREM HostIsSafe == HostSpec => []HostSafety
  <1>1. HostInit => HostInv
    BY HostInitInv
  <1>2. HostInv /\ [HostNext]_hostVars => HostInv'
    BY HostStep
  <1>3. HostInv => HostSafety
    BY HostInvSafe
  <1> QED BY <1>1, <1>2, <1>3, PTL DEF HostSpec

\* THEOREM: the same of the processes of the run `host`.
THEOREM ProcessHostHolds == ProcessSpec => []HostHolds
  <1>1. ProcessInit => HostInv
    BY HostInitInv DEF ProcessInit
  <1>2. HostInv /\ [ProcessNext]_processVars => HostInv'
    <2> SUFFICES ASSUME HostInv, [ProcessNext]_processVars PROVE HostInv'
      OBVIOUS
    <2>1. [HostNext]_hostVars
      BY DEF ProcessNext, processVars
    <2> QED BY <2>1, HostStep
  <1>3. HostInv => HostHolds
    BY HostInvSafe DEF HostHolds
  <1> QED BY <1>1, <1>2, <1>3, PTL DEF ProcessSpec
=============================================================================
