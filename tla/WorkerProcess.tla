--------------------------- MODULE WorkerProcess ---------------------------
(***************************************************************************)
(* The client-login workers (agent-runtime/src/codex-worker-runtime.ts and *)
(* claude-worker-runtime.ts): an agent run is executed by a child process  *)
(* of a coding client, in a private directory, under a deadline, an abort  *)
(* signal and an output limit.                                             *)
(*                                                                         *)
(* A job is one use of runWorkerProcess: a call of execute, or the         *)
(* inspection of the client that all calls of one host share.  A child may *)
(* ignore SIGTERM and may leave a descendant in its process group, one     *)
(* that keeps the output pipe open or one that does not; a descendant that *)
(* leaves the group is not modelled.                                       *)
(***************************************************************************)
EXTENDS Naturals, Sequences, SequencesExt

CONSTANTS
  Calls, Inspector,
  Selections,            \* the persisted model selections, NoSelection included
  NoSelection, NoModel,
  WorkerModels,          \* values of --worker-model, NoModel included
  auditedBoundedCodexModels,
  effortLevels,          \* per worker: the reasoning efforts its client applies
  WorkerOutputs,         \* what a finished child may have printed
  MaxLoginChanges

ASSUME WorkerAssumption ==
  /\ Inspector \notin Calls /\ NoSelection \in Selections /\ NoModel \in WorkerModels
  /\ NoModel \notin auditedBoundedCodexModels
  /\ MaxLoginChanges \in Nat

VARIABLES
  worker,          \* "codex" or "claude"
  workerModel,     \* the --worker-model option
  operatorLogin,   \* the operator's auth.json, as admission tells logins apart
  loginChanges,
  job

workerVars == <<worker, workerModel, operatorLogin, loginChanges, job>>
Jobs == Calls \cup {Inspector}

NewJob ==
    [pc |-> "new", probe |-> "version", selection |-> NoSelection, model |-> NoModel,
     aborted |-> FALSE, tree |-> FALSE, login |-> "none", isolated |-> FALSE,
     leader |-> "none", kin |-> "none", term |-> FALSE, kill |-> FALSE, killTimer |-> FALSE,
     closed |-> FALSE, exitOk |-> FALSE, failure |-> "none", output |-> <<>>, result |-> "none"]

WorkerInit ==
    /\ worker \in {"codex", "claude"} /\ workerModel \in WorkerModels
    /\ operatorLogin \in {"personal", "expiring", "managed"}
    /\ loginChanges = 0
    /\ job = [j \in Jobs |-> NewJob]

becomes(j, r) == job' = [job EXCEPT ![j] = r]
is(j, pc) == job[j].pc = pc
ends(j, result) == becomes(j, [job[j] EXCEPT !.pc = "ended", !.result = result])
\* The operation is over; the finally block removes its directory.
leaves(j, result) == becomes(j, [job[j] EXCEPT !.pc = "cleanup", !.result = result])
groupAlive(r) == r.leader = "up" \/ r.kin # "none"
unchangedHost == UNCHANGED <<worker, workerModel, operatorLogin, loginChanges>>

(****************************** Admission *********************************)
\* What each client can honour exactly: its provider's models, and efforts.
claudeSupports(s) == s.provider = "anthropic" /\ ~s.capped /\ s.effort \in effortLevels["claude"]
codexSupports(s) ==
    /\ s.provider = "openai" /\ s.model \in auditedBoundedCodexModels
    /\ ~s.capped /\ s.effort \in effortLevels["codex"]
supportsModel(s) ==
    IF ~(IF worker = "codex" THEN codexSupports(s) ELSE claudeSupports(s)) THEN "WORKER_MODEL_UNSUPPORTED"
    ELSE IF workerModel \notin {NoModel, s.model} THEN "WORKER_MODEL_CONFLICT"
    ELSE "supported"

\* execute, up to the inspection: the code it fails with, if any.
refusal(s) ==
    IF s # NoSelection /\ supportsModel(s) # "supported" THEN supportsModel(s)
    ELSE IF worker # "codex" \/ s # NoSelection THEN "none"
    ELSE IF workerModel = NoModel THEN "WORKER_MODEL_REQUIRED"
    ELSE IF workerModel \notin auditedBoundedCodexModels THEN "WORKER_MODEL_UNSUPPORTED"
    ELSE "none"

\* admitLogin: a personal plan whose token lasts until the given moment.
admitLogin(login, lasts) == login = "personal" \/ (login = "expiring" /\ ~lasts)

\* verifyCodexFeatureIsolation: every feature the worker disables is listed,
\* and only tolerated ones are on.
verifyCodexFeatureIsolation(listing) ==
    listing["disabled"] # "unlisted" /\ \A f \in DOMAIN listing : listing[f] = "on" => f = "tolerated"
Listings == [{"disabled", "tolerated", "unknown"} -> {"on", "off", "unlisted"}]

(****************************** The calls *********************************)
ExecuteRun(c, s) ==
    /\ is(c, "new")
    /\ LET model == IF s = NoSelection THEN workerModel ELSE s.model
       IN  IF refusal(s) # "none" THEN ends(c, refusal(s))
           ELSE becomes(c, [job[c] EXCEPT !.pc = "inspect", !.selection = s, !.model = model])
    /\ unchangedHost

\* The first call starts the inspection; the promise is kept, however it ends.
StartInspection(c) ==
    /\ is(c, "inspect") /\ is(Inspector, "new")
    /\ becomes(Inspector, [NewJob EXCEPT !.pc = IF worker = "codex" THEN "admit" ELSE "isolate"])
    /\ unchangedHost
AwaitInspection(c) ==
    /\ is(c, "inspect") /\ is(Inspector, "ended")
    /\ IF job[Inspector].result = "ok" THEN becomes(c, [job[c] EXCEPT !.pc = "isolate"])
       ELSE ends(c, job[Inspector].result)
    /\ unchangedHost

\* inspectAdmitted: the login is admitted before any process.
InspectLogin ==
    /\ is(Inspector, "admit")
    /\ IF admitLogin(operatorLogin, FALSE)
       THEN becomes(Inspector, [job[Inspector] EXCEPT !.pc = "isolate", !.login = operatorLogin])
       ELSE ends(Inspector, "WORKER_UNAVAILABLE")
    /\ unchangedHost

\* inIsolation, inDirectory: a fresh directory for the operation.
Isolate(j) ==
    /\ is(j, "isolate")
    /\ becomes(j, [job[j] EXCEPT !.tree = TRUE,
                     !.pc = IF worker = "codex" /\ j # Inspector THEN "copy" ELSE "spawn"])
    /\ unchangedHost

\* The bytes the child will use are read and admitted again.
CopyLogin(c) ==
    /\ is(c, "copy")
    /\ IF admitLogin(operatorLogin, TRUE)
       THEN becomes(c, [job[c] EXCEPT !.pc = "spawn", !.login = operatorLogin])
       ELSE leaves(c, "WORKER_UNAVAILABLE")
    /\ unchangedHost

(*************************** runWorkerProcess *****************************)
Spawn(j) ==
    /\ is(j, "spawn")
    /\ \/ job[j].aborted /\ becomes(j, [job[j] EXCEPT !.pc = "answered", !.failure = "cancelled"])
       \/ ~job[j].aborted /\ becomes(j, [job[j] EXCEPT !.pc = "answered", !.failure = "WORKER_UNAVAILABLE"])
       \/ ~job[j].aborted /\ becomes(j, [job[j] EXCEPT !.pc = "running", !.leader = "up"])
    /\ unchangedHost

\* stop: the first failure is kept, the group is asked to end, then killed.
stop(r, why) ==
    IF r.closed \/ r.failure # "none" THEN r
    ELSE [r EXCEPT !.failure = why, !.term = TRUE, !.killTimer = TRUE]
running(j) == is(j, "running")
Abort(c) ==
    /\ ~is(c, "new") /\ ~is(c, "ended") /\ ~job[c].aborted
    /\ LET r == [job[c] EXCEPT !.aborted = TRUE]
       IN  becomes(c, IF running(c) THEN stop(r, "cancelled") ELSE r)
    /\ unchangedHost
\* Fault: the deadline is cleared as soon as the leader exits.
Deadline_LeaderOnly(j) == running(j) /\ job[j].leader = "up" /\ becomes(j, stop(job[j], "WORKER_TIMEOUT")) /\ unchangedHost
Deadline(j) == running(j) /\ becomes(j, stop(job[j], "WORKER_TIMEOUT")) /\ unchangedHost
Consume(j) ==
    /\ running(j) /\ (job[j].leader = "up" \/ job[j].kin = "holding")
    /\ becomes(j, stop(job[j], "WORKER_OUTPUT_TOO_LARGE")) /\ unchangedHost
StdinFails(j) == running(j) /\ becomes(j, stop(job[j], "WORKER_FAILED")) /\ unchangedHost
KillTimer(j) ==
    /\ running(j) /\ job[j].killTimer
    /\ becomes(j, [job[j] EXCEPT !.killTimer = FALSE, !.kill = TRUE])
    /\ unchangedHost

\* Fault: a leader that succeeded ends the call, whoever it left behind.
finish_LeaderOnly(r) == [r EXCEPT !.pc = "answered", !.killTimer = FALSE]
\* finish: nothing returns while a member of the group runs.
finish(r) ==
    IF groupAlive(r) THEN [r EXCEPT !.kill = TRUE] ELSE [r EXCEPT !.pc = "answered", !.killTimer = FALSE]
Close(j) ==
    /\ running(j) /\ ~job[j].closed /\ job[j].leader = "gone" /\ job[j].kin # "holding"
    /\ LET r == job[j]
           failure == IF r.failure = "none" /\ ~r.exitOk THEN "WORKER_FAILED" ELSE r.failure
       IN  becomes(j, finish([r EXCEPT !.closed = TRUE, !.kill = TRUE, !.failure = failure]))
    /\ unchangedHost
PollGroup(j) == running(j) /\ job[j].closed /\ becomes(j, finish(job[j])) /\ unchangedHost

\* What the child and its group do.
ChildForks(j, how) ==
    /\ running(j) /\ job[j].leader = "up" /\ job[j].kin = "none"
    /\ becomes(j, [job[j] EXCEPT !.kin = how]) /\ unchangedHost
LeaderExits(j, ok) ==
    /\ running(j) /\ job[j].leader = "up"
    /\ becomes(j, [job[j] EXCEPT !.leader = "gone", !.exitOk = ok]) /\ unchangedHost
KinExits(j) == running(j) /\ job[j].kin # "none" /\ becomes(j, [job[j] EXCEPT !.kin = "none"]) /\ unchangedHost
GroupKilled(j) ==
    /\ running(j) /\ job[j].kill /\ groupAlive(job[j])
    /\ becomes(j, [job[j] EXCEPT !.kin = "none", !.leader = "gone",
                                 !.exitOk = @ /\ job[j].leader # "up"])
    /\ unchangedHost

(***************************** The answers ********************************)
NothingRead == [ok |-> TRUE, session |-> 0, message |-> 0, started |-> 0, completed |-> 0]
\* One event of the client's output.
readEvent(r, e) ==
    IF ~r.ok \/ r.completed > 0 THEN [r EXCEPT !.ok = FALSE]
    ELSE IF e = "thread" THEN [r EXCEPT !.session = 1, !.ok = r.session = 0]
    ELSE IF r.session = 0 THEN [r EXCEPT !.ok = FALSE]
    ELSE CASE e = "message" -> [r EXCEPT !.message = 1, !.ok = r.message = 0]
           [] e = "started" -> [r EXCEPT !.started = @ + 1]
           [] e = "completed" -> [r EXCEPT !.completed = @ + 1]
           [] e = "notice" -> r
           [] OTHER -> [r EXCEPT !.ok = FALSE]
parseCodexWorkerOutput(events) ==
    LET r == FoldLeft(readEvent, NothingRead, events)
    IN  r.ok /\ r.started = 1 /\ r.completed = 1 /\ r.message = 1
parseClaudeWorkerOutput(events) == events = <<"result">>
parses(events) == IF worker = "codex" THEN parseCodexWorkerOutput(events) ELSE parseClaudeWorkerOutput(events)

AnswerCall(c) ==
    /\ is(c, "answered")
    /\ IF job[c].failure # "none" THEN leaves(c, job[c].failure)
       ELSE \E out \in WorkerOutputs :
              becomes(c, [job[c] EXCEPT !.pc = "cleanup", !.output = out,
                            !.result = IF parses(out) THEN "output" ELSE "WORKER_OUTPUT_INVALID"])
    /\ unchangedHost

\* The inspection's probes: the version and, for Codex, its features.
probeAgain == becomes(Inspector, [job[Inspector] EXCEPT !.pc = "spawn", !.probe = "features",
                                    !.leader = "none", !.term = FALSE, !.kill = FALSE, !.closed = FALSE])
ProbeAnswer ==
    /\ is(Inspector, "answered")
    /\ IF job[Inspector].failure # "none"
       THEN leaves(Inspector, IF worker = "codex" THEN "WORKER_UNAVAILABLE" ELSE job[Inspector].failure)
       ELSE IF job[Inspector].probe = "features"
       THEN \E listing \in Listings :
              becomes(Inspector, [job[Inspector] EXCEPT !.pc = "cleanup",
                 !.isolated = listing["disabled"] = "off" /\ listing["unknown"] # "on",
                 !.result = IF verifyCodexFeatureIsolation(listing) THEN "ok" ELSE "WORKER_UNAVAILABLE"])
       ELSE \/ leaves(Inspector, "WORKER_UNAVAILABLE")
            \/ IF worker = "codex" THEN probeAgain ELSE leaves(Inspector, "ok")
    /\ unchangedHost

\* The directory is removed on every outcome; when that fails, so does the call.
Cleanup(j) ==
    /\ is(j, "cleanup")
    /\ \/ becomes(j, [job[j] EXCEPT !.pc = "ended", !.tree = FALSE, !.output = <<>>])
       \/ becomes(j, [job[j] EXCEPT !.pc = "ended", !.output = <<>>,
                        !.result = IF worker = "codex" THEN "WORKER_FAILED" ELSE "error"])
    /\ unchangedHost

\* The operator signs in again, with whatever account.
ChangeLogin(login) ==
    /\ loginChanges < MaxLoginChanges /\ login # operatorLogin
    /\ operatorLogin' = login /\ loginChanges' = loginChanges + 1
    /\ UNCHANGED <<worker, workerModel, job>>

Controlled(j) ==
    \/ Isolate(j) \/ Spawn(j) \/ Close(j) \/ PollGroup(j) \/ Cleanup(j)
    \/ j \in Calls /\ (StartInspection(j) \/ AwaitInspection(j) \/ CopyLogin(j) \/ AnswerCall(j))
    \/ j = Inspector /\ (InspectLogin \/ ProbeAnswer)
WorkerNext ==
    \/ \E c \in Calls : (\E s \in Selections : ExecuteRun(c, s)) \/ Abort(c)
    \/ \E j \in Jobs :
         \/ Controlled(j) \/ Deadline(j) \/ Consume(j) \/ StdinFails(j) \/ KillTimer(j)
         \/ \E how \in {"quiet", "holding"} : ChildForks(j, how)
         \/ \E ok \in BOOLEAN : LeaderExits(j, ok)
         \/ KinExits(j) \/ GroupKilled(j)
    \/ \E login \in {"personal", "expiring", "managed"} : ChangeLogin(login)

\* The host's event loop turns, its timers fire and the system delivers
\* SIGKILL; nothing is assumed of the child.
WorkerFairness ==
    \A j \in Jobs : /\ WF_workerVars(Controlled(j)) /\ WF_workerVars(Deadline(j))
                    /\ WF_workerVars(KillTimer(j)) /\ WF_workerVars(GroupKilled(j))
WorkerSpec == WorkerInit /\ [][WorkerNext]_workerVars /\ WorkerFairness

(******************************* Properties *******************************)
\* Types; a child runs in a directory of its own, a login copy lives in one.
WorkerTypeOK ==
    \A j \in Jobs :
        /\ job[j].leader = "up" => running(j) /\ job[j].tree
        /\ running(j) => job[j].leader # "none"
        /\ job[j].killTimer => job[j].failure # "none"

\* Whatever the child did, no answer is given while a process of its group
\* still runs (runWorkerProcess: finish).
NothingOutlivesItsAnswer ==
    \A j \in Jobs : job[j].pc \in {"answered", "cleanup", "ended"} => ~groupAlive(job[j])

\* A Codex process, probes included, runs only on an admitted login; a task's
\* only after a clean inspection, on a login that outlasts it, with the one
\* model the run was assigned (CodexWorkerRuntime).
CodexRunsAdmitted ==
    worker = "codex" =>
        /\ groupAlive(job[Inspector]) => job[Inspector].login \in {"personal", "expiring"}
        /\ \A c \in Calls : groupAlive(job[c]) =>
             /\ job[Inspector].result = "ok" /\ job[Inspector].isolated
             /\ job[c].login = "personal"
AssignedModelRuns ==
    \A c \in Calls : groupAlive(job[c]) =>
        /\ job[c].selection # NoSelection => job[c].model = job[c].selection.model
        /\ worker = "codex" => job[c].model \in auditedBoundedCodexModels

\* A call whose directory, and with it a login copy, could not be removed
\* says so (inIsolation).
LeftBehindIsReported ==
    \A j \in Jobs : is(j, "ended") /\ job[j].tree => job[j].result \in {"WORKER_FAILED", "error"}

\* Only one completed turn with one final message is a result
\* (parseCodexWorkerOutput).
oneTurn(events) ==
    LET count(e) == Len(SelectSeq(events, LAMBDA x : x = e))
    IN  /\ events # <<>> /\ Head(events) = "thread" /\ Last(events) = "completed"
        /\ \A e \in {"thread", "started", "message", "completed"} : count(e) = 1
        /\ count("tool") = 0
ResultIsOneTurn ==
    \A c \in Calls : worker = "codex" /\ is(c, "cleanup") /\ job[c].output # <<>> =>
        (job[c].result = "output" <=> oneTurn(job[c].output))

\* The first reason to stop is the one reported, and a stopped run never
\* delivers a result, even when its child exits well (stop, finish).
FirstFailureStands ==
    \A c \in Calls : job[c].failure # "none" =>
        /\ job'[c].failure = job[c].failure
        /\ is(c, "cleanup") => job[c].result = job[c].failure

\* What holds of every worker child and of the answer made of it.
WorkerSafety ==
    /\ WorkerTypeOK /\ NothingOutlivesItsAnswer /\ CodexRunsAdmitted /\ AssignedModelRuns
    /\ LeftBehindIsReported /\ ResultIsOneTurn

\* Every call ends, with the first reason it was stopped for: no child can hold
\* it longer than its deadline and the grace after it.
EveryCallEnds ==
    /\ [][FirstFailureStands]_workerVars
    /\ \A c \in Calls : job[c].pc # "new" ~> job[c].pc = "ended"
=============================================================================
