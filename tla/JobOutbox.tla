------------------------------ MODULE JobOutbox ------------------------------
(***************************************************************************)
(* Durable delivery: the job outbox in SQLite, its dispatcher and replay,  *)
(* the BullMQ queue and the worker that turns a job into a command.        *)
(*                                                                         *)
(* An intent is one outbox row; its job id is a function of the work it is *)
(* about, so intent and job share a number, and the numbers follow         *)
(* created_at.  work is what SQLite says of that work: the agent run or    *)
(* the pipeline stage is ready (the command would act on it), blocked (it  *)
(* waits, as a suspended stage does for a prerequisite) or settled.        *)
(*                                                                         *)
(* BullMQ and Redis are external.  What the code relies on: adding a job   *)
(* whose id is known, also as a completed job that is still retained, is   *)
(* accepted and does nothing; a job whose worker died or lost Redis stalls *)
(* and returns to the queue, or is removed when it stalls again; each of   *)
(* the two queues has one worker, which handles one job at a time.         *)
(***************************************************************************)
EXTENDS Naturals, FiniteSets

CONSTANTS NumIntents,
          AgentRunJobs, \* the execute_agent_run intents; the others orchestrate
          Batch,        \* maxDispatchBatch
          MaxFaults     \* bound on stops, crashes, outages, flushes and failed commands

ASSUME OutboxAssumption ==
    /\ NumIntents \in Nat \ {0} /\ Batch \in Nat \ {0} /\ MaxFaults \in Nat
    /\ AgentRunJobs \subseteq 1 .. NumIntents

Intents == 1 .. NumIntents

VARIABLES
    work,           \* the authoritative state behind each intent
    row,            \* job_outbox: "absent", "pending" or "dispatched"
    delayed,        \* pending rows whose available_at is to come
    job,            \* the queue: "none", "waiting", "active" or retained "completed"
    accepted,       \* intents the queue has accepted at least once
    publishing,     \* rows a dispatch round has read and not yet published
    marking,        \* rows it has published and not yet marked
    replaying,      \* rows a replay round has read and not yet published
    handling,       \* the jobs whose commands are executing
    host,           \* QueueRuntime: "up", "stopping" or "down"
    redis,          \* Redis is reachable
    faults

rounds == <<publishing, marking, replaying>>
vars == <<work, row, delayed, job, accepted, publishing, marking, replaying,
          handling, host, redis, faults>>

fault == faults < MaxFaults /\ faults' = faults + 1

\* ORDER BY created_at, id LIMIT
oldest(S) == {i \in S : Cardinality({j \in S : j < i}) < Batch}

\* The intents whose jobs share a queue with i's.
queueFor(i) == IF i \in AgentRunJobs THEN AgentRunJobs ELSE Intents \ AgentRunJobs

pending == {i \in Intents : row[i] = "pending" /\ i \notin delayed}

\* Dispatched rows whose run is still queued or whose stage is still active
\* without a run or with a completed one.
replayable == {i \in Intents : row[i] = "dispatched" /\ work[i] \in {"ready", "blocked"}}

-----------------------------------------------------------------------------
Init ==
    /\ work = [i \in Intents |-> "absent"]
    /\ row = [i \in Intents |-> "absent"]
    /\ delayed = {}
    /\ job = [i \in Intents |-> "none"]
    /\ accepted = {}
    /\ publishing = {}
    /\ marking = {}
    /\ replaying = {}
    /\ handling = {}
    /\ host = "up"
    /\ redis = TRUE
    /\ faults = 0

\* A mutation that asks for delivery appends the row in its own transaction.
append(i) ==
    /\ host = "up"
    /\ work[i] = "absent"
    /\ \A j \in Intents : j < i => work[j] # "absent"
    /\ \E w \in {"ready", "blocked"} : work' = [work EXCEPT ![i] = w]
    /\ row' = [row EXCEPT ![i] = "pending"]
    /\ UNCHANGED <<delayed, job, accepted, rounds, handling, host, redis, faults>>

\* What the work waited for happens, or it is settled without the queue.
release(i) ==
    /\ work[i] = "blocked"
    /\ work' = [work EXCEPT ![i] = "ready"]
    /\ UNCHANGED <<row, delayed, job, accepted, rounds, handling, host, redis, faults>>

settle(i) ==
    /\ work[i] \in {"ready", "blocked"}
    /\ work' = [work EXCEPT ![i] = "settled"]
    /\ UNCHANGED <<row, delayed, job, accepted, rounds, handling, host, redis, faults>>

-----------------------------------------------------------------------------
(* DispatchJobOutbox.  The timer starts rounds without waiting for those   *)
(* under way, so rounds overlap.                                           *)

dispatch ==
    /\ host = "up"
    /\ publishing' = publishing \cup oldest(pending)
    /\ publishing' # publishing
    /\ UNCHANGED <<work, row, delayed, job, accepted, marking, replaying, handling, host, redis, faults>>

\* queue.add: the id of a job the queue still knows is not added again.
enqueue(i) ==
    /\ redis
    /\ job' = [job EXCEPT ![i] = IF @ = "none" THEN "waiting" ELSE @]
    /\ accepted' = accepted \cup {i}

publish(i) ==
    /\ i \in publishing
    /\ enqueue(i)
    /\ publishing' = publishing \ {i}
    /\ marking' = marking \cup {i}
    /\ UNCHANGED <<work, row, delayed, replaying, handling, host, redis, faults>>

\* Fault: the row is marked whether or not the queue took the job.
markFailed_Dispatches(i) ==
    /\ i \in publishing
    /\ ~redis
    /\ publishing' = publishing \ {i}
    /\ row' = [row EXCEPT ![i] = "dispatched"]
    /\ UNCHANGED <<work, delayed, job, accepted, marking, replaying, handling, host, redis, faults>>

\* The queue is out of reach: the row becomes available again later.
markFailed(i) ==
    /\ i \in publishing
    /\ ~redis
    /\ publishing' = publishing \ {i}
    /\ delayed' = IF row[i] = "pending" THEN delayed \cup {i} ELSE delayed
    /\ UNCHANGED <<work, row, job, accepted, marking, replaying, handling, host, redis, faults>>

retryAt(i) ==
    /\ i \in delayed
    /\ delayed' = delayed \ {i}
    /\ UNCHANGED <<work, row, job, accepted, rounds, handling, host, redis, faults>>

markDispatched(i) ==
    /\ i \in marking
    /\ marking' = marking \ {i}
    /\ row' = [row EXCEPT ![i] = "dispatched"]
    /\ delayed' = delayed \ {i}
    /\ UNCHANGED <<work, job, accepted, publishing, replaying, handling, host, redis, faults>>

\* Fault: the timer dispatches and does not replay.
replay_Never == FALSE /\ UNCHANGED vars

replay ==
    /\ host = "up"
    /\ replaying' = replaying \cup oldest(replayable)
    /\ replaying' # replaying
    /\ UNCHANGED <<work, row, delayed, job, accepted, publishing, marking, handling, host, redis, faults>>

replayPublish(i) ==
    /\ i \in replaying
    /\ enqueue(i)
    /\ replaying' = replaying \ {i}
    /\ UNCHANGED <<work, row, delayed, publishing, marking, handling, host, redis, faults>>

replayFails(i) ==
    /\ i \in replaying
    /\ ~redis
    /\ replaying' = replaying \ {i}
    /\ UNCHANGED <<work, row, delayed, job, accepted, publishing, marking, handling, host, redis, faults>>

-----------------------------------------------------------------------------
(* The worker.  Neither "terminal" nor an exception makes BullMQ retry:    *)
(* whatever the command did, its job is completed and retained.            *)

take(i) ==
    /\ host # "down"
    /\ redis
    /\ handling \cap queueFor(i) = {}
    /\ job[i] = "waiting"
    /\ job' = [job EXCEPT ![i] = "active"]
    /\ handling' = handling \cup {i}
    /\ UNCHANGED <<work, row, delayed, accepted, rounds, host, redis, faults>>

finished(i) ==
    /\ job' = [job EXCEPT ![i] = IF redis /\ @ = "active" THEN "completed" ELSE @]
    /\ handling' = handling \ {i}

\* QueueRuntime.process: the command reloads the work and acts if it can; once
\* the host stops it is not even called, unless it was already under way.
process(i) ==
    /\ i \in handling
    /\ \/ work' = IF work[i] = "ready" THEN [work EXCEPT ![i] = "settled"] ELSE work
       \/ host = "stopping" /\ work' = work
    /\ finished(i)
    /\ UNCHANGED <<row, delayed, accepted, rounds, host, redis, faults>>

\* The command exits with an error (a transaction in progress, an agent gone).
processFails(i) ==
    /\ i \in handling
    /\ fault
    /\ finished(i)
    /\ UNCHANGED <<work, row, delayed, accepted, rounds, host, redis>>

\* removeOnComplete: by age (a day) or count (a thousand), as other jobs complete.
expire(i) ==
    /\ redis
    /\ job[i] = "completed"
    /\ job' = [job EXCEPT ![i] = "none"]
    /\ UNCHANGED <<work, row, delayed, accepted, rounds, handling, host, redis, faults>>

\* A job nobody holds any more: queued again, or failed and removed.
stalled(i) ==
    /\ redis
    /\ host # "down"
    /\ job[i] = "active"
    /\ i \notin handling
    /\ \E j \in {"waiting", "none"} : job' = [job EXCEPT ![i] = j]
    /\ UNCHANGED <<work, row, delayed, accepted, rounds, handling, host, redis, faults>>

-----------------------------------------------------------------------------
stop ==
    /\ host = "up"
    /\ fault
    /\ host' = "stopping"
    /\ UNCHANGED <<work, row, delayed, job, accepted, rounds, handling, redis>>

\* Closing the worker waits for the job in hand.
stopped ==
    /\ host = "stopping"
    /\ handling = {}
    /\ host' = "down"
    /\ publishing' = {}
    /\ marking' = {}
    /\ replaying' = {}
    /\ UNCHANGED <<work, row, delayed, job, accepted, handling, redis, faults>>

start ==
    /\ host = "down"
    /\ host' = "up"
    /\ UNCHANGED <<work, row, delayed, job, accepted, rounds, handling, redis, faults>>

crash ==
    /\ host # "down"
    /\ fault
    /\ host' = "down"
    /\ publishing' = {}
    /\ marking' = {}
    /\ replaying' = {}
    /\ handling' = {}
    /\ UNCHANGED <<work, row, delayed, job, accepted, redis>>

outage ==
    /\ redis
    /\ fault
    /\ redis' = FALSE
    /\ UNCHANGED <<work, row, delayed, job, accepted, rounds, handling, host>>

\* Redis is back, with its jobs or without.
reconnect ==
    /\ ~redis
    /\ redis' = TRUE
    /\ job' \in {job, [i \in Intents |-> "none"]}
    /\ UNCHANGED <<work, row, delayed, accepted, rounds, handling, host, faults>>

Next ==
    \/ \E i \in Intents :
        \/ append(i) \/ release(i) \/ settle(i)
        \/ publish(i) \/ markFailed(i) \/ retryAt(i) \/ markDispatched(i)
        \/ replayPublish(i) \/ replayFails(i)
        \/ take(i) \/ process(i) \/ processFails(i) \/ expire(i) \/ stalled(i)
    \/ dispatch \/ replay
    \/ stop \/ stopped \/ start \/ crash \/ outage \/ reconnect

Spec == Init /\ [][Next]_vars

\* The timer keeps firing, calls return, BullMQ serves its jobs in order,
\* retention ends, Redis comes back and a host that is down is started.
Fairness ==
    /\ WF_vars(dispatch) /\ WF_vars(replay)
    /\ WF_vars(stopped) /\ WF_vars(start) /\ WF_vars(reconnect)
    /\ \A i \in Intents :
        /\ WF_vars(publish(i) \/ markFailed(i))
        /\ WF_vars(replayPublish(i) \/ replayFails(i))
        /\ WF_vars(markDispatched(i)) /\ WF_vars(retryAt(i))
        /\ SF_vars(take(i)) /\ WF_vars(process(i) \/ processFails(i)) /\ WF_vars(expire(i))
        /\ WF_vars(stalled(i))

FairSpec == Spec /\ Fairness

-----------------------------------------------------------------------------
\* Rows, jobs and host state keep their types; one job of a queue is
\* handled at a time; only rows that wait for dispatch are delayed.
TypeOK ==
    /\ work \in [Intents -> {"absent", "ready", "blocked", "settled"}]
    /\ row \in [Intents -> {"absent", "pending", "dispatched"}]
    /\ delayed \subseteq {i \in Intents : row[i] = "pending"}
    /\ job \in [Intents -> {"none", "waiting", "active", "completed"}]
    /\ accepted \subseteq Intents
    /\ publishing \subseteq Intents /\ marking \subseteq Intents /\ replaying \subseteq Intents
    /\ handling \subseteq Intents /\ \A i \in handling : handling \cap queueFor(i) = {i}
    /\ host \in {"up", "stopping", "down"}
    /\ redis \in BOOLEAN
    /\ faults \in 0 .. MaxFaults

\* ADR-0020: rows are marked "dispatched only after the queue accepts them",
\* across overlapping rounds, outages and crashes between the two.
DispatchedWasAccepted ==
    \A i \in Intents : row[i] = "dispatched" => i \in accepted

\* Delivery is at least once, and again for as long as it takes: work that can
\* go on does not stay undone, whatever was lost or done in vain before
\* (dispatch, replay, the worker).
WorkDelivered == \A i \in Intents : []<>(work[i] # "ready")

\* ADR-0035: a suspended pipeline "resumes automatically within one dispatch
\* interval"; OrchestratePipelineStage: "the next replay after the last
\* prerequisite completes resumes the pipeline".  Publishing an intent again
\* leaves a job for work that can go on.
ReplayWakesWork ==
    [][\A i \in Intents :
        (i \in replaying /\ i \notin replaying' /\ redis /\ host = "up" /\ host' = "up"
            /\ work[i] = "ready") => job'[i] \in {"waiting", "active"}]_vars

\* What holds of rows and jobs at any time.
OutboxSafety == TypeOK /\ DispatchedWasAccepted

=============================================================================
