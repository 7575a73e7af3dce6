---------------------------- MODULE DashboardSync ----------------------------
(***************************************************************************)
(* A dashboard and the host it shows: the sync controller (connection      *)
(* epoch, navigation revision, single-flight refresh with a debounce), the *)
(* event stream without replay, and the data as a version number that a    *)
(* host commits first and publishes afterwards.                            *)
(***************************************************************************)
EXTENDS Naturals, Sequences

CONSTANTS Routes, MaxVersion, MaxEpoch, MaxRevision

ASSUME DashboardAssumption ==
  MaxVersion \in Nat \ {0} /\ MaxEpoch \in Nat /\ MaxRevision \in Nat /\ Routes # {}

VARIABLES
  version,      \* what a query answered now would read
  unpublished,  \* a committed write whose invalidation is still to come
  stream,       \* down, up, or broken: lost, and the browser has not noticed
  events,       \* on their way to the browser
  location,     \* window.location.hash
  navigating,   \* it changed and the effect has not run yet
  epoch, routeRevision, connected, everConnected, syncToken, reported,
  queuedRun, debounce,
  fetch,        \* the refresh in flight, or NoFetch
  view          \* the snapshot on screen

syncVars == <<version, unpublished, stream, events, location, navigating, epoch,
              routeRevision, connected, everConnected, syncToken, reported,
              queuedRun, debounce, fetch, view>>
serverVars == <<version, unpublished, stream>>
tokenVars == <<epoch, routeRevision, connected, everConnected>>

NoFetch == [token |-> <<>>]
Failed == [failed |-> TRUE]
Nothing == [failed |-> FALSE]
inFlight == fetch # NoFetch

(* epoch, revision and route key *)
currentToken == <<epoch, routeRevision, location>>

computeState(up, ever, adopted, token) ==
  IF ~up THEN IF ever THEN "reconnecting" ELSE "connecting"
  ELSE IF adopted = token THEN "live" ELSE "syncing"

(* emit, with the values the step leaves behind *)
emit == reported' = computeState(connected', everConnected', syncToken', currentToken')

(* One iteration of run's loop: route and token are captured together. *)
beginFetch == fetch' = [token |-> currentToken', read |-> 0, readEpoch |-> 0]

(* run: every trigger funnels through one refresh at a time. *)
run ==
  IF inFlight THEN queuedRun' = TRUE /\ UNCHANGED fetch
  ELSE queuedRun' = FALSE /\ beginFetch

SyncInit ==
  /\ version = 1 /\ unpublished = FALSE /\ stream = "down" /\ events = <<>>
  /\ location \in Routes /\ navigating = FALSE
  /\ epoch = 0 /\ routeRevision = 0 /\ connected = FALSE /\ everConnected = FALSE
  /\ syncToken = <<>> /\ reported = "connecting" /\ queuedRun = FALSE /\ debounce = FALSE
  /\ fetch = [token |-> <<0, 0, location>>, read |-> 0, readEpoch |-> 0]
  /\ view = Nothing

(***************************************************************************)
(* The host and the network.                                               *)
(***************************************************************************)
(* A command commits. *)
Write ==
  /\ version < MaxVersion /\ ~unpublished
  /\ version' = version + 1 /\ unpublished' = TRUE
  /\ UNCHANGED <<stream, events, location, navigating, tokenVars, syncToken, reported,
                 queuedRun, debounce, fetch, view>>

(* Its invalidation goes to the streams that are subscribed now. *)
Publish ==
  /\ unpublished /\ unpublished' = FALSE
  /\ events' = IF stream = "up" THEN Append(events, "invalidate") ELSE events
  /\ UNCHANGED <<version, stream, location, navigating, tokenVars, syncToken, reported,
                 queuedRun, debounce, fetch, view>>

(* EventSource opens: the browser sees "open", and "ready" is sent before   *)
(* the subscription in one synchronous start.                               *)
OpenEvents ==
  /\ stream = "down" /\ epoch + 2 <= MaxEpoch
  /\ stream' = "up" /\ events' = <<"open", "ready">>
  /\ UNCHANGED <<version, unpublished, location, navigating, tokenVars, syncToken, reported,
                 queuedRun, debounce, fetch, view>>

(* The stream breaks; what was on its way is gone. *)
BreakEvents ==
  /\ stream = "up" /\ stream' = "broken" /\ events' = <<>>
  /\ UNCHANGED <<version, unpublished, location, navigating, tokenVars, syncToken, reported,
                 queuedRun, debounce, fetch, view>>

(***************************************************************************)
(* The controller.                                                         *)
(***************************************************************************)
streamEstablished ==
  /\ epoch' = epoch + 1 /\ connected' = TRUE /\ everConnected' = TRUE
  /\ debounce' = TRUE
  /\ UNCHANGED <<routeRevision, location, syncToken>>
  /\ emit

(* The browser takes the next event of the stream. *)
Deliver ==
  /\ stream = "up" /\ events # <<>> /\ events' = Tail(events)
  /\ \/ Head(events) \in {"open", "ready"} /\ streamEstablished
     \/ /\ Head(events) = "invalidate" /\ debounce' = TRUE
        /\ UNCHANGED <<tokenVars, location, syncToken, reported>>
  /\ UNCHANGED <<serverVars, navigating, queuedRun, fetch, view>>

streamLost ==
  /\ stream = "broken" /\ stream' = "down"
  /\ connected' = FALSE
  /\ UNCHANGED <<epoch, routeRevision, everConnected, location, syncToken>>
  /\ emit
  /\ UNCHANGED <<version, unpublished, events, navigating, queuedRun, debounce, fetch, view>>

(* The debounce timer. *)
TimerFires ==
  /\ debounce /\ debounce' = FALSE
  /\ UNCHANGED <<tokenVars, location, syncToken>>
  /\ run
  /\ (IF inFlight THEN UNCHANGED reported ELSE emit)
  /\ UNCHANGED <<serverVars, events, navigating, view>>

(* The hash changes first; the effect that calls routeChanged comes later. *)
Navigate ==
  /\ ~navigating /\ routeRevision < MaxRevision
  /\ \E r \in Routes \ {location} : location' = r
  /\ navigating' = TRUE
  /\ UNCHANGED <<serverVars, events, tokenVars, syncToken, reported, queuedRun, debounce,
                 fetch, view>>

routeChanged ==
  /\ navigating /\ navigating' = FALSE
  /\ routeRevision' = routeRevision + 1
  /\ UNCHANGED <<epoch, connected, everConnected, location, syncToken>>
  /\ emit /\ run
  /\ UNCHANGED <<serverVars, events, debounce, view>>

(* queryRoute is answered by the host. *)
RefreshReads ==
  /\ inFlight /\ fetch.read = 0
  /\ fetch' = [fetch EXCEPT !.read = version, !.readEpoch = epoch]
  /\ UNCHANGED <<serverVars, events, location, navigating, tokenVars, syncToken, reported,
                 queuedRun, debounce, view>>

(* Fault: a trigger that arrived during the refresh is forgotten. *)
endFetch_DropsQueued ==
  /\ UNCHANGED <<tokenVars, location>>
  /\ emit
  /\ queuedRun' = FALSE
  /\ fetch' = NoFetch

(* The end of an iteration: a queued trigger starts the next one. *)
endFetch ==
  /\ UNCHANGED <<tokenVars, location>>
  /\ emit
  /\ queuedRun' = FALSE
  /\ IF queuedRun THEN beginFetch ELSE fetch' = NoFetch

(* Fault: what a refresh ends with counts as the current route and stream. *)
RefreshSucceeds_AdoptsCurrent ==
  /\ inFlight /\ fetch.read > 0
  /\ view' = IF fetch.token = currentToken
             THEN [failed |-> FALSE, route |-> fetch.token[3], version |-> fetch.read,
                   readEpoch |-> fetch.readEpoch]
             ELSE view
  /\ syncToken' = currentToken
  /\ endFetch
  /\ UNCHANGED <<serverVars, events, navigating, debounce>>

(* The refresh resolves: rendered only while it is current, and its token  *)
(* is adopted.                                                             *)
RefreshSucceeds ==
  /\ inFlight /\ fetch.read > 0
  /\ view' = IF fetch.token = currentToken
             THEN [failed |-> FALSE, route |-> fetch.token[3], version |-> fetch.read,
                   readEpoch |-> fetch.readEpoch]
             ELSE view
  /\ syncToken' = fetch.token
  /\ endFetch
  /\ UNCHANGED <<serverVars, events, navigating, debounce>>

(* It rejects: the shell shows the error and the token stays; an outdated   *)
(* one resolves instead, without rendering.                                 *)
RefreshFails ==
  /\ inFlight
  /\ IF fetch.token = currentToken THEN view' = Failed /\ UNCHANGED syncToken
                                   ELSE syncToken' = fetch.token /\ UNCHANGED view
  /\ endFetch
  /\ UNCHANGED <<serverVars, events, navigating, debounce>>

SyncNext ==
  \/ Write \/ Publish \/ OpenEvents \/ BreakEvents
  \/ Deliver \/ streamLost \/ TimerFires \/ Navigate \/ routeChanged
  \/ RefreshReads \/ RefreshSucceeds \/ RefreshFails

(* The browser's event loop delivers events and fires timers, the host      *)
(* publishes after each command, and a query is answered one way or other.  *)
SyncFairness ==
  /\ WF_syncVars(Publish) /\ WF_syncVars(Deliver) /\ WF_syncVars(TimerFires)
  /\ WF_syncVars(routeChanged) /\ WF_syncVars(RefreshReads)
  /\ WF_syncVars(RefreshSucceeds \/ RefreshFails)

SyncSpec == SyncInit /\ [][SyncNext]_syncVars /\ SyncFairness

SyncTypeOK ==
  /\ version \in 1 .. MaxVersion /\ stream \in {"down", "up", "broken"}
  /\ epoch \in 0 .. MaxEpoch /\ routeRevision \in 0 .. MaxRevision
  /\ reported \in {"connecting", "syncing", "live", "reconnecting"}
  /\ location \in Routes /\ (queuedRun => inFlight) /\ (connected => everConnected)

(* The header's invariant: once the dashboard reports live, the route on    *)
(* screen is the current one and was re-queried after the most recent       *)
(* stream connection (or its latest refresh failed, which the badge says).  *)
LiveMeansRequeried ==
  reported = "live" /\ ~navigating =>
    view.failed \/ (view # Nothing /\ view.route = location /\ view.readEpoch = epoch)

(* While the stream is up and nothing is on its way, what is shown as live  *)
(* is what the host has: no interleaving of commit, publish, connection,    *)
(* navigation and refresh loses an update.                                  *)
LiveMeansFresh ==
  /\ reported = "live" /\ stream = "up" /\ events = <<>>
  /\ ~unpublished /\ ~debounce /\ ~inFlight /\ ~navigating /\ ~view.failed
  => view.version = version

(* With a stream that stays up, the dashboard ends up live and fresh, or    *)
(* shows the failure of its last refresh.                                   *)
EventuallyFresh ==
  <>[](stream = "up") => <>[](view.failed \/ (reported = "live" /\ view.version = version))

(* What "live" means on the dashboard, whatever was lost or overtaken. *)
SyncSafety == SyncTypeOK /\ LiveMeansRequeried /\ LiveMeansFresh
=============================================================================
