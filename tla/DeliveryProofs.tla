--------------------------- MODULE DeliveryProofs ---------------------------
(***************************************************************************)
(* Delivery for every number of intents, batch size, fault bound and set   *)
(* of routes.                                                              *)
(*                                                                         *)
(* That a dispatched row was accepted is not inductive: what a dispatch    *)
(* round is about to mark must have been accepted too.  That a live        *)
(* dashboard is fresh rests on the tokens: one that was captured at an     *)
(* earlier connection or navigation can never become current again         *)
(* (TokensAge), so an adopted current token stands for a refresh that read *)
(* after the latest connection (ViewCurrent), and a refresh or a view that *)
(* is behind the host has a trigger still to come (FetchFresh, ViewFresh). *)
(***************************************************************************)
EXTENDS MCDelivery, TLAPS

\* Rows are marked on the queue's word.
OutboxInv == OutboxSafety /\ marking \subseteq accepted


LEMMA OutboxInit == ASSUME Init PROVE OutboxInv
  <1>1. redis \in BOOLEAN
    BY DEF Init
  <1>2. /\ work \in [Intents -> {"absent", "ready", "blocked", "settled"}]
        /\ row \in [Intents -> {"absent", "pending", "dispatched"}]
        /\ job \in [Intents -> {"none", "waiting", "active", "completed"}]
        /\ faults \in 0 .. MaxFaults
    BY OutboxAssumption DEF Init
  <1>3. TypeOK
    BY <1>1, <1>2 DEF Init, TypeOK
  <1>4. DispatchedWasAccepted /\ marking \subseteq accepted
    BY DEF Init, DispatchedWasAccepted
  <1> QED BY <1>3, <1>4 DEF OutboxInv, OutboxSafety

\* Two jobs share a queue or do not.
LEMMA Queues ==
    ASSUME NEW i \in Intents, NEW j \in Intents
    PROVE  i \in queueFor(i) /\ (j \in queueFor(i) <=> queueFor(j) = queueFor(i))
  BY OutboxAssumption DEF queueFor, Intents

LEMMA OutboxStep == ASSUME OutboxInv, [Next]_vars PROVE OutboxInv'
  <1> USE OutboxAssumption DEF OutboxInv, OutboxSafety
  <1>1. ASSUME NEW i \in Intents, append(i) \/ release(i) \/ settle(i) PROVE OutboxInv'
    <2>1. UNCHANGED <<job, accepted, publishing, marking, replaying, handling, host, redis, faults,
                      delayed>>
      BY <1>1 DEF append, release, settle, rounds
    <2>2. work' \in [Intents -> {"absent", "ready", "blocked", "settled"}]
      BY <1>1 DEF append, release, settle, TypeOK
    <2>3. /\ row' \in [Intents -> {"absent", "pending", "dispatched"}]
          /\ \A j \in Intents : row'[j] # row[j] => row'[j] = "pending"
      BY <1>1 DEF append, release, settle, TypeOK
    <2>4. TypeOK'
      BY <2>1, <2>2, <2>3 DEF TypeOK, queueFor
    <2> QED BY <2>1, <2>3, <2>4 DEF DispatchedWasAccepted
  <1>2. ASSUME dispatch \/ replay PROVE OutboxInv'
    <2>1. UNCHANGED <<work, row, delayed, job, accepted, marking, handling, host, redis, faults>>
      BY <1>2 DEF dispatch, replay
    <2>2. publishing' \subseteq Intents /\ replaying' \subseteq Intents
      BY <1>2 DEF dispatch, replay, oldest, pending, replayable, TypeOK
    <2> QED BY <2>1, <2>2 DEF TypeOK, queueFor, DispatchedWasAccepted
  <1>3. ASSUME NEW i \in Intents, publish(i) \/ replayPublish(i) PROVE OutboxInv'
    <2>1. /\ enqueue(i) /\ marking' \subseteq marking \cup {i}
          /\ publishing' \subseteq publishing /\ replaying' \subseteq replaying
          /\ UNCHANGED <<work, row, delayed, handling, host, redis, faults>>
      BY <1>3 DEF publish, replayPublish
    <2>2. job' \in [Intents -> {"none", "waiting", "active", "completed"}]
      BY <2>1 DEF enqueue, TypeOK
    <2>3. accepted' = accepted \cup {i}
      BY <2>1 DEF enqueue
    <2> QED BY <2>1, <2>2, <2>3 DEF TypeOK, queueFor, DispatchedWasAccepted
  <1>4. ASSUME NEW i \in Intents, markFailed(i) \/ retryAt(i) \/ replayFails(i) PROVE OutboxInv'
    <2>1. UNCHANGED <<work, row, job, accepted, marking, handling, host, redis, faults>>
      BY <1>4 DEF markFailed, retryAt, replayFails, rounds
    <2>2. /\ publishing' \subseteq publishing /\ replaying' \subseteq replaying
          /\ delayed' \subseteq {j \in Intents : row[j] = "pending"}
      BY <1>4 DEF markFailed, retryAt, replayFails, rounds, TypeOK
    <2> QED BY <2>1, <2>2 DEF TypeOK, queueFor, DispatchedWasAccepted
  <1>5. ASSUME NEW i \in Intents, markDispatched(i) PROVE OutboxInv'
    <2>1. /\ i \in marking /\ marking' = marking \ {i} /\ delayed' = delayed \ {i}
          /\ row' = [row EXCEPT ![i] = "dispatched"]
          /\ UNCHANGED <<work, job, accepted, publishing, replaying, handling, host, redis, faults>>
      BY <1>5 DEF markDispatched
    <2> QED BY <2>1 DEF TypeOK, queueFor, DispatchedWasAccepted
  <1>6. ASSUME NEW i \in Intents, take(i) PROVE OutboxInv'
    <2>1. /\ handling \cap queueFor(i) = {} /\ handling' = handling \cup {i}
          /\ job' = [job EXCEPT ![i] = "active"]
          /\ UNCHANGED <<work, row, delayed, accepted, publishing, marking, replaying, host, redis,
                         faults>>
      BY <1>6 DEF take, rounds
    <2>2. \A j \in handling' : handling' \cap queueFor(j) = {j}
      BY <2>1, Queues DEF TypeOK
    <2>3. \A j \in handling' : queueFor(j)' = queueFor(j)
      BY DEF queueFor
    <2>4. job' \in [Intents -> {"none", "waiting", "active", "completed"}] /\ handling' \subseteq Intents
      BY <2>1 DEF TypeOK
    <2> QED BY <2>1, <2>2, <2>3, <2>4 DEF TypeOK, DispatchedWasAccepted
  <1>7. ASSUME NEW i \in Intents, process(i) \/ processFails(i) PROVE OutboxInv'
    <2>1. /\ handling' = handling \ {i}
          /\ UNCHANGED <<row, delayed, accepted, publishing, marking, replaying, host, redis>>
      BY <1>7 DEF process, processFails, finished, rounds
    <2>2. job' \in [Intents -> {"none", "waiting", "active", "completed"}]
      BY <1>7 DEF process, processFails, finished, TypeOK
    <2>3. work' \in [Intents -> {"absent", "ready", "blocked", "settled"}]
      BY <1>7 DEF process, processFails, TypeOK
    <2>4. faults' \in 0 .. MaxFaults
      BY <1>7 DEF process, processFails, fault, TypeOK
    <2> QED BY <2>1, <2>2, <2>3, <2>4 DEF TypeOK, queueFor, DispatchedWasAccepted
  <1>8. ASSUME NEW i \in Intents, expire(i) \/ stalled(i) PROVE OutboxInv'
    <2>1. UNCHANGED <<work, row, delayed, accepted, publishing, marking, replaying, handling, host,
                      redis, faults>>
      BY <1>8 DEF expire, stalled, rounds
    <2>2. job' \in [Intents -> {"none", "waiting", "active", "completed"}]
      BY <1>8 DEF expire, stalled, TypeOK
    <2> QED BY <2>1, <2>2 DEF TypeOK, queueFor, DispatchedWasAccepted
  <1>9. ASSUME stop \/ stopped \/ start \/ crash PROVE OutboxInv'
    <2>1. /\ UNCHANGED <<work, row, delayed, job, accepted, redis>>
          /\ host' \in {"up", "stopping", "down"} /\ handling' \subseteq handling
          /\ publishing' \subseteq publishing /\ marking' \subseteq marking
          /\ replaying' \subseteq replaying
      BY <1>9 DEF stop, stopped, start, crash, rounds, TypeOK
    <2>2. faults' \in 0 .. MaxFaults
      BY <1>9 DEF stop, stopped, start, crash, fault, TypeOK
    <2> QED BY <2>1, <2>2 DEF TypeOK, queueFor, DispatchedWasAccepted
  <1>10. ASSUME outage \/ reconnect PROVE OutboxInv'
    <2>1. UNCHANGED <<work, row, delayed, accepted, publishing, marking, replaying, handling, host>>
      BY <1>10 DEF outage, reconnect, rounds
    <2>2. redis' \in BOOLEAN
      BY <1>10 DEF outage, reconnect
    <2>3. job' \in [Intents -> {"none", "waiting", "active", "completed"}]
      BY <1>10 DEF outage, reconnect, TypeOK
    <2>4. faults' \in 0 .. MaxFaults
      BY <1>10 DEF outage, reconnect, fault, TypeOK
    <2> QED BY <2>1, <2>2, <2>3, <2>4 DEF TypeOK, queueFor, DispatchedWasAccepted
  <1>11. CASE UNCHANGED vars
    BY <1>11 DEF vars, TypeOK, queueFor, DispatchedWasAccepted
  <1> QED
    BY <1>1, <1>2, <1>3, <1>4, <1>5, <1>6, <1>7, <1>8, <1>9, <1>10, <1>11 DEF Next

-----------------------------------------------------------------------------
Tokens == Nat \X Nat \X Routes

\* A token of the past stays in the past: its epoch or revision is an earlier
\* one, or its route is the one that is current until the next navigation.
Ages(token) ==
  /\ token \in Tokens
  /\ token[1] <= epoch /\ token[2] <= routeRevision
  /\ token[2] = routeRevision /\ ~navigating => token[3] = location

TokensAge ==
  /\ syncToken # <<>> => Ages(syncToken)
  /\ inFlight => Ages(fetch.token)
  /\ navigating => routeRevision < MaxRevision

\* A refresh reads after it captured its token.
FetchTyped ==
  inFlight => /\ fetch \in [token : Tokens, read : Nat, readEpoch : Nat]
              /\ fetch.read > 0 => fetch.token[1] <= fetch.readEpoch /\ fetch.readEpoch <= epoch

\* "open" and "ready" come first, in this order, and each raises the epoch.
EventsInOrder ==
  /\ events \in Seq({"open", "ready", "invalidate"})
  /\ \A i \in 1 .. Len(events) :
        /\ events[i] = "open" => i = 1 /\ Len(events) >= 2 /\ events[2] = "ready"
        /\ events[i] = "ready" => i = 1 \/ (i = 2 /\ events[1] = "open")
  /\ events # <<>> => /\ events[1] = "open" => epoch + 2 <= MaxEpoch
                      /\ events[1] = "ready" => epoch + 1 <= MaxEpoch

\* The badge says what computeState says, but for a navigation it has not seen.
ReportedInv ==
  ~navigating => reported = computeState(connected, everConnected, syncToken, currentToken)

\* Something that will start another refresh, or a stream that will not tell.
Pending == unpublished \/ events # <<>> \/ debounce \/ stream # "up"

ViewCurrent ==
  syncToken = currentToken =>
    view.failed \/ (view # Nothing /\ view.route = location /\ view.readEpoch = epoch)

ViewFresh ==
  syncToken = currentToken /\ ~view.failed /\ ~Pending /\ ~inFlight => view.version = version

FetchFresh ==
  inFlight /\ fetch.read > 0 /\ fetch.token = currentToken /\ ~queuedRun /\ ~Pending
    => fetch.read = version

\* The dashboard's inductive invariant.
SyncInv ==
  /\ SyncTypeOK /\ TokensAge /\ FetchTyped /\ EventsInOrder /\ ReportedInv
  /\ ViewCurrent /\ ViewFresh /\ FetchFresh

LEMMA SyncInitInv == ASSUME SyncInit PROVE SyncInv
  <1> USE DashboardAssumption
  <1>1. fetch \in [token : Tokens, read : Nat, readEpoch : Nat] /\ fetch.read = 0
        /\ fetch.token = <<0, 0, location>>
    BY DEF SyncInit, Tokens
  <1>2. inFlight
    BY DEF SyncInit, inFlight, NoFetch
  <1>3. SyncTypeOK
    BY <1>2 DEF SyncInit, SyncTypeOK
  <1>4. TokensAge /\ FetchTyped
    BY <1>1 DEF SyncInit, TokensAge, FetchTyped, Ages, Tokens
  <1>5. EventsInOrder /\ ReportedInv
    BY DEF SyncInit, EventsInOrder, ReportedInv, computeState
  <1>6. syncToken # currentToken
    BY DEF SyncInit, currentToken
  <1> QED BY <1>1, <1>3, <1>4, <1>5, <1>6 DEF SyncInv, ViewCurrent, ViewFresh, FetchFresh

\* A token is not the empty one, and a refresh that begins is in flight.
LEMMA Fetching ==
    ASSUME NEW token \in Tokens
    PROVE  /\ token # <<>>
           /\ [token |-> token, read |-> 0, readEpoch |-> 0] # NoFetch
  <1>1. PICK a \in Nat, b \in Nat, c \in Routes : token = <<a, b, c>>
    BY DEF Tokens
  <1>2. <<a, b, c>> # <<>>
    OBVIOUS
  <1> QED BY <1>1, <1>2 DEF NoFetch

\* The current token is a token, and ages well.
LEMMA CurrentAges ==
    ASSUME SyncTypeOK
    PROVE  /\ currentToken \in Tokens /\ Ages(currentToken)
           /\ currentToken[1] = epoch /\ currentToken[2] = routeRevision /\ currentToken[3] = location
  BY DashboardAssumption DEF SyncTypeOK, currentToken, Tokens, Ages

\* The host and the network change no token, and whatever they change is pending.
LEMMA ServerStep ==
    ASSUME SyncInv, Write \/ Publish \/ OpenEvents \/ BreakEvents PROVE SyncInv'
  <1> USE DashboardAssumption DEF SyncInv
  <1>1. UNCHANGED <<location, navigating, epoch, routeRevision, connected, everConnected, syncToken,
                    reported, queuedRun, debounce, fetch, view>>
    BY DEF Write, Publish, OpenEvents, BreakEvents, tokenVars
  <1>2. SyncTypeOK'
    BY <1>1 DEF Write, Publish, OpenEvents, BreakEvents, SyncTypeOK, inFlight
  <1>3. TokensAge' /\ FetchTyped' /\ ReportedInv' /\ ViewCurrent'
    BY <1>1 DEF TokensAge, Ages, FetchTyped, ReportedInv, ViewCurrent, inFlight, currentToken
  <1>4. EventsInOrder'
    <2>1. CASE Write
      BY <1>1, <2>1 DEF Write, EventsInOrder
    <2>2. CASE Publish
      <3>1. CASE events' = events
        BY <1>1, <3>1 DEF EventsInOrder
      <3>2. CASE events' = Append(events, "invalidate")
        <4>1. /\ events' \in Seq({"open", "ready", "invalidate"})
              /\ Len(events') = Len(events) + 1
              /\ events'[Len(events) + 1] = "invalidate"
              /\ \A i \in 1 .. Len(events) : events'[i] = events[i]
              /\ Len(events) \in Nat
          BY <3>2 DEF EventsInOrder
        <4>2. CASE events = <<>>
          BY <1>1, <4>1, <4>2 DEF EventsInOrder
        <4>3. CASE events # <<>>
          <5>1. Len(events) >= 1 /\ events'[1] = events[1]
            BY <4>1, <4>3 DEF EventsInOrder
          <5>2. ASSUME NEW i \in 1 .. Len(events')
                PROVE  /\ events'[i] = "open" => i = 1 /\ Len(events') >= 2 /\ events'[2] = "ready"
                       /\ events'[i] = "ready" => i = 1 \/ (i = 2 /\ events'[1] = "open")
            <6>1. CASE i = Len(events) + 1
              BY <4>1, <6>1
            <6>2. CASE i # Len(events) + 1
              <7>1. i \in 1 .. Len(events)
                BY <4>1, <6>2
              <7> QED BY <4>1, <5>1, <7>1 DEF EventsInOrder
            <6> QED BY <6>1, <6>2
          <5> QED BY <1>1, <4>1, <4>3, <5>1, <5>2 DEF EventsInOrder
        <4> QED BY <4>2, <4>3
      <3> QED BY <2>2, <3>1, <3>2 DEF Publish
    <2>3. CASE OpenEvents
      BY <1>1, <2>3 DEF OpenEvents, EventsInOrder, SyncTypeOK
    <2>4. CASE BreakEvents
      BY <1>1, <2>4 DEF BreakEvents, EventsInOrder
    <2> QED BY <2>1, <2>2, <2>3, <2>4
  <1>5. Pending'
    <2>1. CASE Write
      BY <2>1 DEF Write, Pending
    <2>2. CASE Publish
      <3>1. CASE stream = "up"
        BY <2>2, <3>1 DEF Publish, Pending, EventsInOrder
      <3>2. CASE stream # "up"
        BY <2>2, <3>2 DEF Publish, Pending
      <3> QED BY <3>1, <3>2
    <2>3. CASE OpenEvents
      BY <2>3 DEF OpenEvents, Pending
    <2>4. CASE BreakEvents
      BY <2>4 DEF BreakEvents, Pending
    <2> QED BY <2>1, <2>2, <2>3, <2>4
  <1> QED BY <1>2, <1>3, <1>4, <1>5 DEF ViewFresh, FetchFresh

\* A connection puts every captured token into the past; an invalidation leaves a
\* timer behind.
LEMMA DeliverStep == ASSUME SyncInv, Deliver PROVE SyncInv'
  <1> USE DashboardAssumption DEF SyncInv
  <1>1. /\ stream = "up" /\ events # <<>> /\ events' = Tail(events) /\ debounce' = TRUE
        /\ UNCHANGED <<version, unpublished, stream, navigating, queuedRun, fetch, view,
                       routeRevision, location, syncToken>>
    BY DEF Deliver, streamEstablished, serverVars, tokenVars
  <1>2. /\ Len(events) \in Nat /\ Len(events) >= 1 /\ Head(events) = events[1]
        /\ events' \in Seq({"open", "ready", "invalidate"})
        /\ Len(events') = Len(events) - 1
        /\ \A i \in 1 .. Len(events') : events'[i] = events[i + 1]
    BY <1>1 DEF EventsInOrder
  <1>3. CASE Head(events) = "invalidate"
    <2>1. UNCHANGED <<epoch, connected, everConnected, reported>>
      BY <1>3 DEF Deliver, tokenVars
    <2>2. ASSUME NEW i \in 1 .. Len(events') PROVE events'[i] = "invalidate"
      <3>1. i + 1 \in 1 .. Len(events) /\ events'[i] = events[i + 1]
        BY <1>2
      <3>2. events[i + 1] \in {"open", "ready", "invalidate"}
        BY <3>1 DEF EventsInOrder
      <3> QED BY <1>2, <1>3, <3>1, <3>2 DEF EventsInOrder
    <2>3. EventsInOrder'
      <3>1. events' # <<>> => events'[1] = "invalidate"
        BY <1>2, <2>2
      <3> QED BY <1>2, <2>2, <3>1 DEF EventsInOrder
    <2>4. SyncTypeOK' /\ TokensAge' /\ FetchTyped' /\ ReportedInv' /\ ViewCurrent'
      BY <1>1, <2>1 DEF SyncTypeOK, TokensAge, Ages, FetchTyped, ReportedInv, ViewCurrent, inFlight,
          currentToken
    <2> QED BY <1>1, <2>3, <2>4 DEF ViewFresh, FetchFresh, Pending
  <1>4. CASE Head(events) \in {"open", "ready"}
    <2>1. epoch' = epoch + 1 /\ connected' = TRUE /\ everConnected' = TRUE /\ emit
      BY <1>4 DEF Deliver, streamEstablished
    <2>2. epoch' \in 0 .. MaxEpoch
      BY <1>1, <1>2, <1>4, <2>1 DEF EventsInOrder, SyncTypeOK
    <2>3. EventsInOrder'
      <3>1. CASE events[1] = "open"
        <4>1. Len(events) >= 2 /\ events[2] = "ready" /\ epoch + 2 <= MaxEpoch
          BY <1>1, <1>2, <3>1 DEF EventsInOrder
        <4>2. events'[1] = "ready" /\ Len(events') >= 1
          BY <1>2, <4>1
        <4>3. ASSUME NEW i \in 1 .. Len(events'), i # 1 PROVE events'[i] = "invalidate"
          <5>1. i + 1 \in 1 .. Len(events) /\ i + 1 > 2 /\ events'[i] = events[i + 1]
            BY <1>2, <4>3
          <5>2. events[i + 1] \in {"open", "ready", "invalidate"}
            BY <5>1 DEF EventsInOrder
          <5> QED BY <5>1, <5>2 DEF EventsInOrder
        <4>4. epoch' + 1 <= MaxEpoch
          BY <2>1, <4>1 DEF SyncTypeOK
        <4> QED BY <1>2, <4>2, <4>3, <4>4 DEF EventsInOrder
      <3>2. CASE events[1] = "ready"
        <4>1. ASSUME NEW i \in 1 .. Len(events') PROVE events'[i] = "invalidate"
          <5>1. i + 1 \in 1 .. Len(events) /\ i + 1 >= 2 /\ events'[i] = events[i + 1]
            BY <1>2
          <5>2. events[i + 1] \in {"open", "ready", "invalidate"}
            BY <5>1 DEF EventsInOrder
          <5> QED BY <3>2, <5>1, <5>2 DEF EventsInOrder
        <4>2. events' # <<>> => events'[1] = "invalidate"
          BY <1>2, <4>1
        <4> QED BY <1>2, <4>1, <4>2 DEF EventsInOrder
      <3> QED BY <1>2, <1>4, <3>1, <3>2
    <2>4. /\ reported' = computeState(connected', everConnected', syncToken', currentToken')
          /\ currentToken' = <<epoch', routeRevision', location'>>
      BY <2>1 DEF emit, currentToken
    <2>5. reported' \in {"connecting", "syncing", "live", "reconnecting"}
      BY <2>4 DEF computeState
    <2>6. SyncTypeOK'
      BY <1>1, <2>1, <2>2, <2>5 DEF SyncTypeOK, inFlight
    <2>7. TokensAge' /\ FetchTyped'
      BY <1>1, <2>1 DEF TokensAge, Ages, FetchTyped, Tokens, SyncTypeOK, inFlight
    <2>8. syncToken' # currentToken'
      <3>1. CASE syncToken = <<>>
        BY <1>1, <2>4, <3>1
      <3>2. CASE syncToken # <<>>
        <4>1. syncToken[1] <= epoch /\ syncToken[1] \in Nat
          BY <3>2 DEF TokensAge, Ages, Tokens
        <4> QED BY <1>1, <2>1, <2>4, <4>1 DEF SyncTypeOK
      <3> QED BY <3>1, <3>2
    <2> QED
      BY <1>1, <2>3, <2>4, <2>6, <2>7, <2>8
      DEF ReportedInv, ViewCurrent, ViewFresh, FetchFresh, Pending, currentToken
  <1> QED BY <1>3, <1>4 DEF Deliver

\* A lost stream tells nothing.
LEMMA LostStep == ASSUME SyncInv, streamLost PROVE SyncInv'
  <1> USE DashboardAssumption DEF SyncInv
  <1>1. /\ stream' = "down" /\ connected' = FALSE
        /\ UNCHANGED <<epoch, routeRevision, everConnected, location, syncToken, version,
                       unpublished, events, navigating, queuedRun, debounce, fetch, view>>
        /\ reported' = computeState(connected', everConnected', syncToken', currentToken')
    BY DEF streamLost, emit
  <1>2. reported' \in {"connecting", "syncing", "live", "reconnecting"}
    BY <1>1 DEF computeState
  <1>3. SyncTypeOK' /\ TokensAge' /\ FetchTyped' /\ EventsInOrder' /\ ReportedInv' /\ ViewCurrent'
    BY <1>1, <1>2 DEF SyncTypeOK, TokensAge, Ages, FetchTyped, EventsInOrder, ReportedInv,
        ViewCurrent, inFlight, currentToken
  <1> QED BY <1>1, <1>3 DEF ViewFresh, FetchFresh, Pending

\* A trigger starts a refresh, or is queued behind the one in flight.
LEMMA TimerStep == ASSUME SyncInv, TimerFires PROVE SyncInv'
  <1> USE DashboardAssumption DEF SyncInv
  <1>1. UNCHANGED <<epoch, routeRevision, connected, everConnected, location, syncToken, version,
                    unpublished, stream, events, navigating, view>>
    BY DEF TimerFires, tokenVars, serverVars
  <1>2. currentToken' = currentToken
    BY <1>1 DEF currentToken
  <1>3. CASE inFlight
    <2>1. queuedRun' = TRUE /\ UNCHANGED <<fetch, reported>>
      BY <1>3 DEF TimerFires, run
    <2>2. SyncTypeOK' /\ TokensAge' /\ FetchTyped' /\ EventsInOrder' /\ ReportedInv' /\ ViewCurrent'
      BY <1>1, <1>2, <1>3, <2>1 DEF SyncTypeOK, TokensAge, Ages, FetchTyped, EventsInOrder,
          ReportedInv, ViewCurrent, inFlight
    <2> QED BY <1>3, <2>1, <2>2 DEF ViewFresh, FetchFresh, inFlight
  <1>4. CASE ~inFlight
    <2>1. /\ queuedRun' = FALSE
          /\ fetch' = [token |-> currentToken, read |-> 0, readEpoch |-> 0]
          /\ reported' = computeState(connected', everConnected', syncToken', currentToken')
      BY <1>2, <1>4 DEF TimerFires, run, beginFetch, emit
    <2>2. /\ fetch'.token = currentToken /\ fetch'.read = 0 /\ fetch' # NoFetch
          /\ fetch' \in [token : Tokens, read : Nat, readEpoch : Nat]
      BY <2>1, CurrentAges, Fetching
    <2>3. reported' \in {"connecting", "syncing", "live", "reconnecting"}
      BY <2>1 DEF computeState
    <2>4. SyncTypeOK' /\ EventsInOrder' /\ ReportedInv' /\ ViewCurrent'
      BY <1>1, <1>2, <2>1, <2>2, <2>3 DEF SyncTypeOK, EventsInOrder, ReportedInv, ViewCurrent
    <2>5. TokensAge' /\ FetchTyped'
      BY <1>1, <2>2, CurrentAges DEF TokensAge, Ages, FetchTyped
    <2> QED BY <2>2, <2>4, <2>5 DEF ViewFresh, FetchFresh, inFlight
  <1> QED BY <1>3, <1>4

\* A navigation before its effect: no captured token is of the new route.
LEMMA NavigateStep == ASSUME SyncInv, Navigate PROVE SyncInv'
  <1> USE DashboardAssumption DEF SyncInv
  <1>1. /\ ~navigating /\ navigating' = TRUE /\ location' \in Routes /\ location' # location
        /\ routeRevision < MaxRevision
        /\ UNCHANGED <<version, unpublished, stream, events, epoch, routeRevision, connected,
                       everConnected, syncToken, reported, queuedRun, debounce, fetch, view>>
    BY DEF Navigate, serverVars, tokenVars
  <1>2. ASSUME NEW token, Ages(token) PROVE token # currentToken' /\ Ages(token)'
    <2>1. CASE token[2] = routeRevision
      BY <1>1, <1>2, <2>1 DEF Ages, currentToken
    <2>2. CASE token[2] # routeRevision
      BY <1>1, <1>2, <2>2 DEF Ages, currentToken
    <2> QED BY <2>1, <2>2
  <1>3. SyncTypeOK' /\ FetchTyped' /\ EventsInOrder' /\ ReportedInv'
    BY <1>1 DEF SyncTypeOK, FetchTyped, EventsInOrder, ReportedInv, inFlight
  <1>4. TokensAge'
    BY <1>1, <1>2 DEF TokensAge, inFlight
  <1>5. syncToken' # currentToken' /\ (inFlight => fetch'.token # currentToken')
    <2>1. <<>> # currentToken'
      BY DEF currentToken
    <2> QED BY <1>1, <1>2, <2>1 DEF TokensAge
  <1> QED BY <1>1, <1>3, <1>4, <1>5 DEF ViewCurrent, ViewFresh, FetchFresh, inFlight

\* Its effect: every captured token is of an earlier revision.
LEMMA RouteStep == ASSUME SyncInv, routeChanged PROVE SyncInv'
  <1> USE DashboardAssumption DEF SyncInv
  <1>1. /\ navigating' = FALSE /\ routeRevision' = routeRevision + 1
        /\ UNCHANGED <<epoch, connected, everConnected, location, syncToken, version, unpublished,
                       stream, events, debounce, view>>
        /\ reported' = computeState(connected', everConnected', syncToken', currentToken')
        /\ currentToken' = <<epoch, routeRevision + 1, location>>
    BY DEF routeChanged, serverVars, emit, currentToken
  <1>2. ASSUME NEW token, Ages(token) PROVE token # currentToken' /\ Ages(token)'
    BY <1>1, <1>2 DEF Ages, Tokens, SyncTypeOK
  <1>3. routeRevision' \in 0 .. MaxRevision
    BY <1>1 DEF SyncTypeOK, TokensAge, routeChanged
  <1>4. reported' \in {"connecting", "syncing", "live", "reconnecting"}
    BY <1>1 DEF computeState
  <1>5. syncToken' # currentToken' /\ (syncToken' # <<>> => Ages(syncToken)')
    <2>1. <<>> # currentToken'
      BY <1>1
    <2> QED BY <1>1, <1>2, <2>1 DEF TokensAge
  <1>6. CASE inFlight
    <2>1. queuedRun' = TRUE /\ UNCHANGED fetch
      BY <1>6 DEF routeChanged, run
    <2>2. SyncTypeOK' /\ FetchTyped' /\ EventsInOrder' /\ ReportedInv'
      BY <1>1, <1>3, <1>4, <1>6, <2>1 DEF SyncTypeOK, FetchTyped, EventsInOrder, ReportedInv, inFlight
    <2>3. TokensAge'
      BY <1>1, <1>2, <1>5, <1>6, <2>1 DEF TokensAge, inFlight
    <2> QED BY <1>5, <2>1, <2>2, <2>3 DEF ViewCurrent, ViewFresh, FetchFresh
  <1>7. CASE ~inFlight
    <2>1. /\ queuedRun' = FALSE
          /\ fetch' = [token |-> currentToken', read |-> 0, readEpoch |-> 0]
      BY <1>7 DEF routeChanged, run, beginFetch
    <2>2. currentToken' \in Tokens
      BY <1>1 DEF Tokens, SyncTypeOK
    <2>3. /\ fetch'.token = currentToken' /\ fetch'.read = 0 /\ fetch' # NoFetch
          /\ fetch' \in [token : Tokens, read : Nat, readEpoch : Nat]
      BY <2>1, <2>2, Fetching
    <2>4. SyncTypeOK' /\ EventsInOrder' /\ ReportedInv'
      BY <1>1, <1>3, <1>4, <2>1, <2>3 DEF SyncTypeOK, EventsInOrder, ReportedInv, inFlight
    <2>5. TokensAge' /\ FetchTyped'
      BY <1>1, <1>5, <2>2, <2>3 DEF TokensAge, Ages, FetchTyped, SyncTypeOK
    <2> QED BY <1>5, <2>3, <2>4, <2>5 DEF ViewCurrent, ViewFresh, FetchFresh
  <1> QED BY <1>6, <1>7

\* The host answers with what it has and the epoch of that moment.
LEMMA ReadStep == ASSUME SyncInv, RefreshReads PROVE SyncInv'
  <1> USE DashboardAssumption DEF SyncInv
  <1>1. /\ inFlight /\ fetch.read = 0
        /\ UNCHANGED <<version, unpublished, stream, events, location, navigating, epoch,
                       routeRevision, connected, everConnected, syncToken, reported, queuedRun,
                       debounce, view>>
    BY DEF RefreshReads, serverVars, tokenVars
  <1>2. fetch \in [token : Tokens, read : Nat, readEpoch : Nat]
    BY <1>1 DEF FetchTyped
  <1>3. /\ fetch' = [fetch EXCEPT !.read = version, !.readEpoch = epoch]
        /\ version \in Nat /\ epoch \in Nat
    BY DEF RefreshReads, SyncTypeOK
  <1>4. /\ fetch' \in [token : Tokens, read : Nat, readEpoch : Nat]
        /\ fetch'.token = fetch.token /\ fetch'.read = version /\ fetch'.readEpoch = epoch
    BY <1>2, <1>3
  <1>5. fetch' # NoFetch
    BY <1>4, <1>2, Fetching DEF NoFetch
  <1>6. SyncTypeOK' /\ EventsInOrder' /\ ReportedInv' /\ ViewCurrent'
    BY <1>1, <1>5 DEF SyncTypeOK, EventsInOrder, ReportedInv, ViewCurrent, inFlight, currentToken
  <1>7. TokensAge' /\ FetchTyped'
    BY <1>1, <1>4 DEF TokensAge, Ages, FetchTyped
  <1> QED BY <1>1, <1>4, <1>5, <1>6, <1>7 DEF ViewFresh, FetchFresh, inFlight

\* A refresh ends.  Its token is adopted unless it failed while current.
LEMMA EndStep == ASSUME SyncInv, RefreshSucceeds \/ RefreshFails PROVE SyncInv'
  <1> USE DashboardAssumption DEF SyncInv
  <1>1. /\ inFlight /\ queuedRun' = FALSE
        /\ UNCHANGED <<version, unpublished, stream, events, location, navigating, epoch,
                       routeRevision, connected, everConnected, debounce>>
        /\ reported' = computeState(connected', everConnected', syncToken', currentToken')
        /\ (IF queuedRun THEN beginFetch ELSE fetch' = NoFetch)
    BY DEF RefreshSucceeds, RefreshFails, endFetch, emit, serverVars, tokenVars
  <1>2. currentToken' = currentToken
    BY <1>1 DEF currentToken
  <1>3. reported' \in {"connecting", "syncing", "live", "reconnecting"}
    BY <1>1 DEF computeState
  <1>4. /\ fetch' # NoFetch => queuedRun /\ fetch'.token = currentToken /\ fetch'.read = 0
                               /\ fetch' \in [token : Tokens, read : Nat, readEpoch : Nat]
        /\ queuedRun => fetch' # NoFetch
    <2>1. CASE queuedRun
      <3>1. fetch' = [token |-> currentToken, read |-> 0, readEpoch |-> 0]
        BY <1>1, <1>2, <2>1 DEF beginFetch
      <3> QED BY <2>1, <3>1, CurrentAges, Fetching
    <2>2. CASE ~queuedRun
      BY <1>1, <2>2
    <2> QED BY <2>1, <2>2
  <1>5. SyncTypeOK' /\ EventsInOrder' /\ ReportedInv'
    BY <1>1, <1>2, <1>3 DEF SyncTypeOK, EventsInOrder, ReportedInv
  <1>6. syncToken' \in {syncToken, fetch.token}
    BY DEF RefreshSucceeds, RefreshFails
  <1>7. Ages(fetch.token) /\ (syncToken' # <<>> => Ages(syncToken'))
    BY <1>1, <1>6 DEF TokensAge
  <1>8. ASSUME NEW token, Ages(token) PROVE Ages(token)'
    BY <1>1, <1>8 DEF Ages
  <1>9. TokensAge' /\ FetchTyped'
    <2>1. syncToken' # <<>> => Ages(syncToken)'
      BY <1>1, <1>7 DEF Ages
    <2>2. fetch' # NoFetch => Ages(fetch.token)'
      BY <1>1, <1>4, CurrentAges DEF Ages
    <2> QED BY <1>1, <1>4, <2>1, <2>2 DEF TokensAge, FetchTyped, inFlight
  <1>10. FetchFresh'
    BY <1>4 DEF FetchFresh, inFlight
  <1>11. ViewCurrent' /\ ViewFresh'
    <2>1. CASE fetch.token = currentToken /\ RefreshSucceeds
      <3>1. /\ view' = [failed |-> FALSE, route |-> fetch.token[3], version |-> fetch.read,
                        readEpoch |-> fetch.readEpoch]
            /\ fetch.read > 0
        BY <2>1 DEF RefreshSucceeds
      <3>2. /\ view'.failed = FALSE /\ view'.route = location /\ view'.version = fetch.read
            /\ view'.readEpoch = fetch.readEpoch
        BY <2>1, <3>1 DEF currentToken
      <3>3. fetch.readEpoch = epoch
        BY <1>1, <2>1, <3>1, CurrentAges DEF FetchTyped, SyncTypeOK
      <3>4. view' # Nothing
        BY <3>1 DEF Nothing
      <3>5. ViewFresh'
        BY <1>1, <1>2, <1>4, <2>1, <3>1, <3>2 DEF ViewFresh, FetchFresh, Pending, inFlight
      <3> QED BY <1>1, <3>2, <3>3, <3>4, <3>5 DEF ViewCurrent
    <2>2. CASE fetch.token = currentToken /\ RefreshFails
      <3>1. view'.failed = TRUE
        BY <2>2 DEF RefreshFails, Failed
      <3> QED BY <3>1 DEF ViewCurrent, ViewFresh
    <2>3. CASE fetch.token # currentToken
      <3>1. syncToken' = fetch.token
        BY <2>3 DEF RefreshSucceeds, RefreshFails
      <3> QED BY <1>2, <2>3, <3>1 DEF ViewCurrent, ViewFresh
    <2> QED BY <2>1, <2>2, <2>3
  <1> QED BY <1>5, <1>9, <1>10, <1>11

LEMMA SyncStep == ASSUME SyncInv, [SyncNext]_syncVars PROVE SyncInv'
  <1>1. CASE SyncNext
    BY <1>1, ServerStep, DeliverStep, LostStep, TimerStep, NavigateStep, RouteStep, ReadStep, EndStep
    DEF SyncNext
  <1>2. CASE UNCHANGED syncVars
    BY <1>2 DEF syncVars, SyncInv, SyncTypeOK, TokensAge, Ages, FetchTyped, EventsInOrder,
        ReportedInv, ViewCurrent, ViewFresh, FetchFresh, Pending, inFlight, currentToken
  <1> QED BY <1>1, <1>2

\* What is reported as live has adopted the current token.
LEMMA SyncImplies == ASSUME SyncInv PROVE SyncSafety
  <1>1. ASSUME reported = "live", ~navigating PROVE syncToken = currentToken
    BY <1>1 DEF SyncInv, ReportedInv, computeState
  <1> QED
    BY <1>1 DEF SyncInv, SyncSafety, LiveMeansRequeried, LiveMeansFresh, ViewCurrent, ViewFresh, Pending

-----------------------------------------------------------------------------
\* Both invariants hold whichever part is in focus: the other does not move.
LEMMA DeliveryInvariance == DeliverySpec => [](OutboxInv /\ SyncInv)
  <1>1. DeliveryInit => OutboxInv /\ SyncInv
    BY OutboxInit, SyncInitInv DEF DeliveryInit
  <1>2. OutboxInv /\ SyncInv /\ [DeliveryNext]_deliveryVars => (OutboxInv /\ SyncInv)'
    <2> SUFFICES ASSUME OutboxInv, SyncInv, [DeliveryNext]_deliveryVars PROVE (OutboxInv /\ SyncInv)'
      OBVIOUS
    <2>1. [Next]_vars /\ [SyncNext]_syncVars
      BY DEF DeliveryNext, deliveryVars
    <2> QED BY <2>1, OutboxStep, SyncStep
  <1> QED BY <1>1, <1>2, PTL DEF DeliverySpec

\* A job recorded as dispatched was accepted by the queue, and one queue never
\* handles two jobs at once, whatever crashes and outages come between the
\* enqueue and the mark (job-outbox-dispatcher.ts).
THEOREM OutboxIsSafe == DeliverySpec => []OutboxSafety
  <1>1. OutboxInv => OutboxSafety
    BY DEF OutboxInv
  <1> QED BY <1>1, DeliveryInvariance, PTL

\* A dashboard that reports live shows the route it is on, queried after its
\* latest stream connection, and what the host has once nothing is on its way
\* (sync-controller.ts).
THEOREM DashboardIsSafe == DeliverySpec => []SyncHolds
  <1>1. SyncInv => SyncHolds
    BY SyncImplies DEF SyncHolds
  <1> QED BY <1>1, DeliveryInvariance, PTL

\* The same for a dashboard on its own.
THEOREM LiveIsFresh == SyncSpec => []SyncSafety
  <1>1. SyncInit => SyncInv
    BY SyncInitInv
  <1>2. SyncInv /\ [SyncNext]_syncVars => SyncInv'
    BY SyncStep
  <1>3. SyncInv => SyncSafety
    BY SyncImplies
  <1> QED BY <1>1, <1>2, <1>3, PTL DEF SyncSpec
=============================================================================
