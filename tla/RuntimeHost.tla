---------------------------- MODULE RuntimeHost ----------------------------
(***************************************************************************)
(* One persistent Runtime host while it serves and stops: the route of a   *)
(* socket command through the command queue, its audit rows, its work on   *)
(* the shared SQLite connection, the 30 s timeout that releases the queue  *)
(* while the work goes on, the invalidation published afterwards, the      *)
(* event streams, and the order of the shutdown.                           *)
(*                                                                         *)
(* Every statement of every command runs on one connection. A request's    *)
(* work is either a transaction of two writes ("tx", and "tick" for        *)
(* run:tick, which bypasses the queue) or one plain statement ("plain").   *)
(* Audit rows are always plain statements.                                 *)
(***************************************************************************)
EXTENDS Naturals, Sequences, FiniteSets, SequencesExt

CONSTANTS
  Requests,        \* the requests clients send
  Streams,         \* the event streams clients open
  MaxSubscribers,  \* the event bus refuses more listeners than this
  ShapeOf,         \* Requests -> {"tick", "tx", "plain"}
  NoRequest        \* nobody has a transaction open

ASSUME HostAssumption ==
  /\ ShapeOf \in [Requests -> {"tick", "tx", "plain"}]
  /\ NoRequest \notin Requests
  /\ MaxSubscribers \in Nat

VARIABLES
  phase,     \* of the host: serving, stoppingQueue, draining, closing, stopped
  request,   \* of each request: idle, queued, received, waiting, closing, answered
  outcome,   \* what the request was, or will be, answered with
  queue,     \* CommandQueue.tail: the requests chained on it, the first one runs
  work,      \* the application's work for it: none, running, intx, done, failed
  awaited,   \* the pending work ApplicationRuntime.stop waits for
  tx,        \* whose transaction is open on the shared connection
  inTx,      \* rows written since its BEGIN, by whomever
  rows,      \* durable rows
  lost,      \* rows that were written and rolled back
  untold,    \* durable rows no invalidation has been published after
  open,      \* QueryApi.streams
  listeners  \* OperationalEventBus.listeners

hostVars == <<phase, request, outcome, queue, work, awaited, tx, inTx, rows,
              lost, untold, open, listeners>>
requestVars == <<request, outcome, queue>>
connectionVars == <<tx, inTx, rows, lost>>
streamVars == <<open, listeners>>

Row(r, what) == <<r, what>>
Queued(r) == ShapeOf[r] # "tick"
Active(r) == work[r] \in {"running", "intx"}
InFlight(r) == request[r] \notin {"idle", "answered"}
(* what the runtime's pending set holds *)
pending == {r \in Requests : Active(r)}

HostInit ==
  /\ phase = "serving" /\ tx = NoRequest /\ queue = <<>>
  /\ request = [r \in Requests |-> "idle"]
  /\ outcome = [r \in Requests |-> "none"]
  /\ work = [r \in Requests |-> "none"]
  /\ awaited = {} /\ inTx = {} /\ rows = {} /\ lost = {} /\ untold = {}
  /\ open = {} /\ listeners = {}

(***************************************************************************)
(* The shared connection.                                                  *)
(***************************************************************************)
(* A statement outside of a transaction of its own is durable at once, or  *)
(* it is part of whatever transaction is open.                             *)
statement(new) ==
  IF tx = NoRequest
  THEN rows' = rows \cup new /\ untold' = untold \cup new /\ UNCHANGED <<inTx, tx, lost>>
  ELSE inTx' = inTx \cup new /\ UNCHANGED <<rows, untold, tx, lost>>

(* A second transaction is refused while one is open. *)
beginTransaction(r) ==
  IF tx = NoRequest
  THEN /\ tx' = r /\ inTx' = {Row(r, "first")} /\ work' = [work EXCEPT ![r] = "intx"]
       /\ UNCHANGED <<rows, lost, untold>>
  ELSE /\ work' = [work EXCEPT ![r] = "failed"]
       /\ UNCHANGED <<tx, inTx, rows, lost, untold>>

commit(r) ==
  /\ rows' = rows \cup inTx \cup {Row(r, "second")}
  /\ untold' = untold \cup inTx \cup {Row(r, "second")}
  /\ tx' = NoRequest /\ inTx' = {}
  /\ work' = [work EXCEPT ![r] = "done"]
  /\ UNCHANGED lost

rollback(r) ==
  /\ lost' = lost \cup {row \in inTx : row[1] # r \/ row[2] \in {"received", "closed"}}
  /\ tx' = NoRequest /\ inTx' = {}
  /\ work' = [work EXCEPT ![r] = "failed"]
  /\ UNCHANGED <<rows, untold>>

(***************************************************************************)
(* A request.                                                              *)
(***************************************************************************)
(* Validation answers a malformed request at once; run:tick starts at once *)
(* and every other command goes to the end of the queue.                   *)
Route(r) ==
  /\ phase \notin {"closing", "stopped"} /\ request[r] = "idle"
  /\ \/ /\ request' = [request EXCEPT ![r] = "queued"]
        /\ queue' = IF Queued(r) THEN Append(queue, r) ELSE queue
        /\ UNCHANGED outcome
     \/ /\ request' = [request EXCEPT ![r] = "answered"]
        /\ outcome' = [outcome EXCEPT ![r] = "invalid"]
        /\ UNCHANGED queue
  /\ UNCHANGED <<phase, work, awaited, connectionVars, untold, streamVars>>

(* The chain moves on when the work that runs settles. *)
dequeue(r) == queue' = IF Queued(r) THEN Tail(queue) ELSE queue

(* Fault: commands do not wait for one another. *)
mayRun_Any(r) == TRUE

(* CommandQueue.enqueue: the work chained first runs, the others wait. *)
mayRun(r) == Queued(r) => Head(queue) = r

(* execute: the command.received row; the command fails if it cannot be    *)
(* written.                                                                *)
Receive(r) ==
  /\ request[r] = "queued" /\ mayRun(r)
  /\ \/ /\ request' = [request EXCEPT ![r] = "received"]
        /\ statement({Row(r, "received")})
        /\ UNCHANGED <<outcome, queue>>
     \/ /\ request' = [request EXCEPT ![r] = "answered"]
        /\ outcome' = [outcome EXCEPT ![r] = "error"]
        /\ dequeue(r)
        /\ UNCHANGED <<connectionVars, untold>>
  /\ UNCHANGED <<phase, work, awaited, streamVars>>

(* LocalCommandHandler.execute and ApplicationRuntime.execute: refused once *)
(* the runtime is stopping, else the work is pending from here on.          *)
Execute(r) ==
  /\ request[r] = "received"
  /\ request' = [request EXCEPT ![r] = "waiting"]
  /\ work' = [work EXCEPT ![r] = IF phase \in {"draining", "closing"} THEN "done" ELSE "running"]
  /\ outcome' = [outcome EXCEPT ![r] = IF phase \in {"draining", "closing"} THEN "refused" ELSE @]
  /\ UNCHANGED <<phase, queue, awaited, connectionVars, untold, streamVars>>

(* One step of the application's work: BEGIN, COMMIT or ROLLBACK, or its   *)
(* plain statement.                                                        *)
WorkStep(r) ==
  /\ \/ /\ work[r] = "running" /\ ShapeOf[r] # "plain" /\ beginTransaction(r)
     \/ work[r] = "intx" /\ (commit(r) \/ rollback(r))
     \/ /\ work[r] = "running" /\ ShapeOf[r] = "plain"
        /\ statement({Row(r, "first")})
        /\ work' = [work EXCEPT ![r] = "done"]
  /\ UNCHANGED <<phase, requestVars, awaited, streamVars>>

(* The awaited work settles. *)
Settle(r) ==
  /\ request[r] = "waiting" /\ work[r] \in {"done", "failed"}
  /\ request' = [request EXCEPT ![r] = "closing"]
  /\ outcome' = [outcome EXCEPT ![r] =
       IF @ = "refused" THEN @ ELSE IF work[r] = "done" THEN "ok" ELSE "failed"]
  /\ UNCHANGED <<phase, queue, work, awaited, connectionVars, untold, streamVars>>

(* Fault: a command is awaited for as long as it takes. *)
Timeout_Never(r) == FALSE /\ UNCHANGED hostVars /\ r \in Requests

(* withCommandTimeout: the race is lost, the work goes on. *)
Timeout(r) ==
  /\ request[r] = "waiting" /\ Active(r) /\ ShapeOf[r] # "tick"
  /\ request' = [request EXCEPT ![r] = "closing"]
  /\ outcome' = [outcome EXCEPT ![r] = "timeout"]
  /\ UNCHANGED <<phase, queue, work, awaited, connectionVars, untold, streamVars>>

(* The command.completed or command.failed row, then the topics for every  *)
(* subscriber, then the answer, which releases the queue.                  *)
Answer(r) ==
  /\ request[r] = "closing"
  /\ request' = [request EXCEPT ![r] = "answered"]
  /\ dequeue(r)
  /\ IF tx = NoRequest
     THEN rows' = rows \cup {Row(r, "closed")} /\ untold' = {} /\ UNCHANGED inTx
     ELSE inTx' = inTx \cup {Row(r, "closed")} /\ untold' = {} /\ UNCHANGED rows
  /\ UNCHANGED <<phase, outcome, work, awaited, tx, lost, streamVars>>

(***************************************************************************)
(* Event streams.                                                          *)
(***************************************************************************)
(* GET /api/events: refused when the bus is full. *)
OpenStream(s) ==
  /\ phase \notin {"closing", "stopped"} /\ s \notin open
  /\ Cardinality(listeners) < MaxSubscribers
  /\ open' = open \cup {s} /\ listeners' = listeners \cup {s}
  /\ UNCHANGED <<phase, requestVars, work, awaited, connectionVars, untold>>

(* The client goes away: the subscription is disposed of. *)
CancelStream(s) ==
  /\ s \in open
  /\ open' = open \ {s} /\ listeners' = listeners \ {s}
  /\ UNCHANGED <<phase, requestVars, work, awaited, connectionVars, untold>>

(***************************************************************************)
(* Shutdown.                                                               *)
(***************************************************************************)
(* The abort signal: every stream is ended, then the queue runtime stops.  *)
BeginStop ==
  /\ phase = "serving" /\ phase' = "stoppingQueue"
  /\ open' = {} /\ listeners' = {}
  /\ UNCHANGED <<requestVars, work, awaited, connectionVars, untold>>

(* ApplicationRuntime.stop: no new work, and a snapshot of what is pending. *)
RuntimeStop ==
  /\ phase = "stoppingQueue" /\ phase' = "draining"
  /\ awaited' = pending
  /\ UNCHANGED <<requestVars, work, connectionVars, untold, streamVars>>

(* server.stop(false), external: no new connection from here on. *)
ServerStop ==
  /\ phase = "draining" /\ \A r \in awaited : ~Active(r)
  /\ phase' = "closing"
  /\ UNCHANGED <<requestVars, work, awaited, connectionVars, untold, streamVars>>

(* It resolves when nothing is in flight, an open stream included; then the *)
(* daemon.stopped row, queryEvents.clear, and onStopped closes the stores.  *)
Stopped ==
  /\ phase = "closing" /\ open = {} /\ \A r \in Requests : ~InFlight(r)
  /\ phase' = "stopped" /\ listeners' = {}
  /\ UNCHANGED <<requestVars, work, awaited, connectionVars, untold, open>>

HostNext ==
  \/ \E r \in Requests :
       \/ Route(r) \/ Receive(r) \/ Execute(r) \/ WorkStep(r)
       \/ Settle(r) \/ Timeout(r) \/ Answer(r)
  \/ \E s \in Streams : OpenStream(s) \/ CancelStream(s)
  \/ BeginStop \/ RuntimeStop \/ ServerStop \/ Stopped

(* The event loop runs every continuation that is ready and every timer. The *)
(* work of run:tick ends because workers have deadlines; nothing bounds the  *)
(* work of another command, so no fairness is assumed for it.                *)
HostFairness ==
  /\ \A r \in Requests :
       WF_hostVars(Receive(r)) /\ WF_hostVars(Execute(r)) /\ WF_hostVars(Settle(r))
       /\ WF_hostVars(Timeout(r)) /\ WF_hostVars(Answer(r))
       /\ (ShapeOf[r] = "tick" => WF_hostVars(WorkStep(r)))

HostSpec == HostInit /\ [][HostNext]_hostVars /\ HostFairness

(***************************************************************************)
(* Properties.                                                             *)
(***************************************************************************)
HostTypeOK ==
  /\ phase \in {"serving", "stoppingQueue", "draining", "closing", "stopped"}
  /\ request \in [Requests -> {"idle", "queued", "received", "waiting", "closing", "answered"}]
  /\ outcome \in [Requests -> {"none", "invalid", "error", "refused", "ok", "failed", "timeout"}]
  /\ work \in [Requests -> {"none", "running", "intx", "done", "failed"}]
  /\ awaited \subseteq Requests /\ tx \in Requests \cup {NoRequest}
  /\ (tx = NoRequest => inTx = {}) /\ rows \cap inTx = {} /\ untold \subseteq rows
  /\ open \subseteq listeners /\ listeners \subseteq Streams
  /\ Cardinality(listeners) <= MaxSubscribers /\ IsInjective(queue)

(* The stores are closed only after the last request has been answered and *)
(* the last work has ended, the work a timeout left behind included: stop  *)
(* waits for the pending set before it closes anything.                    *)
ClosedAfterWork ==
  phase = "stopped" => /\ pending = {} /\ tx = NoRequest
                       /\ \A r \in Requests : ~InFlight(r)

(* Two commands of the queue work at the same time only when the earlier   *)
(* one has been given up by the timeout: that is all the serialisation the *)
(* queue provides.                                                         *)
OverlapNeedsTimeout ==
  \A r, s \in Requests :
    r # s /\ Queued(r) /\ Queued(s) /\ Active(r) /\ Active(s)
      => "timeout" \in {outcome[r], outcome[s]}

(* A transaction is all or nothing although others share its connection: a *)
(* finished one has both of its writes, a failed one has neither, and no   *)
(* transaction is lost with somebody else's.                               *)
OwnTransaction ==
  \A r \in Requests :
    LET mine == {Row(r, "first"), Row(r, "second")} IN
    ShapeOf[r] \in {"tick", "tx"} =>
      /\ work[r] = "done" /\ outcome[r] # "refused" => mine \subseteq rows
      /\ work[r] = "failed" => mine \cap rows = {}

(* A plain row (an audit row above all) that was written and is gone was   *)
(* swallowed by a transaction that overlapped it: one of the two is a      *)
(* run:tick, or a command the timeout had given up, even the very command  *)
(* the row is about.                                                       *)
RowsLostOnlyToOverlap ==
  \A row \in lost : \E r \in Requests :
    /\ work[r] = "failed"
    /\ \/ "tick" \in {ShapeOf[r], ShapeOf[row[1]]}
       \/ "timeout" \in {outcome[r], outcome[row[1]]}

(* Once nothing is in progress, every durable row has been followed by an  *)
(* invalidation, unless a command timed out: the answer of a timed-out     *)
(* command publishes before its work has written.                          *)
ToldUnlessTimedOut ==
  (\A r \in Requests : ~InFlight(r) /\ ~Active(r) /\ outcome[r] \notin {"timeout", "error"})
    => untold = {}

(* Every accepted command is answered, however long the work of those      *)
(* before it takes.                                                        *)
EveryCommandAnswered == \A r \in Requests : request[r] = "queued" ~> request[r] = "answered"

(* What holds of the command queue, the shared connection and the shutdown. *)
HostSafety ==
  /\ HostTypeOK /\ ClosedAfterWork /\ OverlapNeedsTimeout /\ OwnTransaction
  /\ RowsLostOnlyToOverlap /\ ToldUnlessTimedOut
=============================================================================
