------------------------------- MODULE MCHost -------------------------------
(***************************************************************************)
(* The processes at run time: the host with its command queue and shared   *)
(* connection, and a worker child, each on an instance of its own.  A      *)
(* behaviour is about one of them, its focus, and the other keeps its      *)
(* initial state, in which no action with a fairness condition is enabled. *)
(***************************************************************************)
EXTENDS RuntimeHost, WorkerProcess

\* A tick of the runtime, a command in a transaction, and one without.
Shapes == [t |-> "tick", a |-> "tx", b |-> "plain"]

Selection(p, m, e) == [provider |-> p, model |-> m, effort |-> e, capped |-> FALSE]
SomeSelections ==
    {NoSelection, Selection("openai", "bounded", "none"), Selection("openai", "spawning", "none"),
     Selection("anthropic", "sonnet", "max")}
Efforts == [codex |-> {"none"}, claude |-> {"none", "max"}]
\* One turn with and without a notice; without a start, with a tool, with a
\* notice after the end, and with a second start.
SomeOutputs ==
    {<<"result">>, <<"thread", "started", "message", "completed">>,
     <<"thread", "started", "notice", "message", "completed">>,
     <<"thread", "message", "completed">>, <<"thread", "started", "tool", "message", "completed">>,
     <<"thread", "started", "message", "completed", "notice">>,
     <<"thread", "started", "message", "started", "completed">>}

VARIABLE focus

processVars == <<hostVars, workerVars, focus>>

ProcessInit ==
    /\ focus \in {"host", "worker"}
    /\ HostInit
    /\ WorkerInit
    /\ focus = "worker" \/ (worker = "codex" /\ workerModel = NoModel /\ operatorLogin = "personal")

ProcessNext ==
    \/ focus = "host" /\ HostNext /\ UNCHANGED <<workerVars, focus>>
    \/ focus = "worker" /\ WorkerNext /\ UNCHANGED <<hostVars, focus>>

ProcessSpec ==
    ProcessInit /\ [][ProcessNext]_processVars /\ HostFairness /\ WorkerFairness

\* The command queue serialises but for timeouts, transactions are all or
\* nothing, stores close last (office-daemon.ts, sqlite-transaction-runner.ts).
HostHolds == focus = "host" => HostSafety

\* No process outlives its answer, and an answer is what its process earned
\* (worker-process.ts, codex-worker-runtime.ts).
WorkerHolds == focus = "worker" => WorkerSafety
=============================================================================
