-------------------------- MODULE ControlledActions --------------------------
(***************************************************************************)
(* Controlled connector actions: a request is authorised by policy,        *)
(* invoked (a read, or the simulation of a mutation), approved by an       *)
(* operator, and a mutation is executed once under an execution lease.     *)
(*                                                                         *)
(* The authority a request was granted under is the set of grants that     *)
(* matched and the pipeline stage it belongs to; the payload hash and the  *)
(* effective constraints are functions of these and of the request.  Every *)
(* transaction is one step; connector calls and what is recorded of them   *)
(* are separate steps, between which everything else may happen.  Nothing  *)
(* edits a file between the connector's last check and its commit, the     *)
(* deployment constraint of M6C-lite.                                      *)
(***************************************************************************)
EXTENDS Naturals

CONSTANTS Requests,
          Action,       \* [Requests -> [op, path, to, content]]
          Paths, Contents, Absent,
          Grants,
          Covers,       \* [Grants -> SUBSET Requests]: principal, resource and operation match
          Permits,      \* [Grants -> SUBSET Requests]: its constraints admit the arguments
          Staged,       \* the requests bound to the pipeline run
          NumStages,
          Capable       \* [1 .. NumStages -> SUBSET Requests]: stage capabilities

Operations == {"read", "create", "write", "delete", "move"}

ASSUME ActionsAssumption ==
    /\ Absent \in Contents
    /\ Action \in [Requests -> [op : Operations, path : Paths, to : Paths, content : Contents]]
    /\ Covers \in [Grants -> SUBSET Requests] /\ Permits \in [Grants -> SUBSET Requests]
    /\ Staged \subseteq Requests
    /\ NumStages \in Nat
    /\ Capable \in [1 .. NumStages -> SUBSET Requests]

VARIABLES
    grant,          \* "none", "valid" or "ended" (revoked or expired)
    resourceActive, agentEnabled,
    stage,          \* the pipeline's current stage, NumStages + 1 once it ended
    stageOpen,      \* that stage is active and assigned to the agent
    status,         \* action_requests.status, "absent" before the request
    matched,        \* matched_grant_ids
    boundStage,     \* pipeline_stage_run_id, 0 for none
    simulation,     \* the contents a simulation saw, if there was one
    approval,       \* action_approvals.status
    execution,      \* action_executions.status
    phase,          \* where the caller that holds the request's lease is
    files,
    applied         \* how often a request's mutation took effect

authority == <<grant, resourceActive, agentEnabled, stage, stageOpen>>
rows == <<status, matched, boundStage, simulation, approval, execution>>
vars == <<authority, rows, phase, files, applied>>

mutation(r) == Action[r].op # "read"
touched(r) == IF Action[r].op = "move" THEN {Action[r].path, Action[r].to} ELSE {Action[r].path}

-----------------------------------------------------------------------------
(* Policy *)

matching(r) == {g \in Grants : grant[g] = "valid" /\ r \in Covers[g]}

\* EvaluatePipelineAuthorization
pipelineAllows(r) ==
    r \in Staged => stage <= NumStages /\ stageOpen /\ r \in Capable[stage]

currentStage(r) == IF r \in Staged /\ stage <= NumStages THEN stage ELSE 0

\* PolicyEngine: every matching grant must admit the arguments.
allowed(r) ==
    /\ resourceActive
    /\ matching(r) # {}
    /\ \A g \in matching(r) : r \in Permits[g]
    /\ pipelineAllows(r)

\* Fault: authority that allows the action now is taken for the one it was
\* approved under.
fresh_AnyAuthority(r) == agentEnabled /\ allowed(r)

\* requireFreshAuthorization
fresh(r) ==
    /\ agentEnabled
    /\ allowed(r)
    /\ matching(r) = matched[r]
    /\ currentStage(r) = boundStage[r]

-----------------------------------------------------------------------------
Init ==
    /\ grant = [g \in Grants |-> "none"]
    /\ resourceActive = TRUE
    /\ agentEnabled = TRUE
    /\ stage = 1
    /\ stageOpen = FALSE
    /\ status = [r \in Requests |-> "absent"]
    /\ matched = [r \in Requests |-> {}]
    /\ boundStage = [r \in Requests |-> 0]
    /\ files \in [Paths -> Contents]
    /\ simulation = [r \in Requests |-> [p \in Paths |-> Absent]]
    /\ approval = [r \in Requests |-> "none"]
    /\ execution = [r \in Requests |-> "none"]
    /\ phase = [r \in Requests |-> "none"]
    /\ applied = [r \in Requests |-> 0]

\* RequestControlledAction: an unknown or disabled agent is refused outright.
request(r) ==
    /\ status[r] = "absent"
    /\ agentEnabled
    /\ status' = [status EXCEPT ![r] = IF allowed(r) THEN "authorized" ELSE "denied"]
    /\ matched' = [matched EXCEPT ![r] = IF resourceActive THEN matching(r) ELSE {}]
    /\ boundStage' = [boundStage EXCEPT ![r] = currentStage(r)]
    /\ UNCHANGED <<authority, simulation, approval, execution, phase, files, applied>>

\* A read is executed at once, a mutation is simulated.
acquireAuthorizationLease(r) ==
    /\ status[r] = "authorized"
    /\ fresh(r)
    /\ status' = [status EXCEPT ![r] = IF mutation(r) THEN "simulating" ELSE "executing"]
    /\ phase' = [phase EXCEPT ![r] = "invoking"]
    /\ UNCHANGED <<authority, matched, boundStage, simulation, approval, execution, files, applied>>

\* The outcome of a read, or nothing when even the failure cannot be recorded.
invokeRead(r) ==
    /\ phase[r] = "invoking"
    /\ ~mutation(r)
    /\ \E s \in {"completed", "failed", "executing"} : status' = [status EXCEPT ![r] = s]
    /\ phase' = [phase EXCEPT ![r] = "none"]
    /\ UNCHANGED <<authority, matched, boundStage, simulation, approval, execution, files, applied>>

\* A create or the destination of a move must be absent, a source present.
simulable(r) ==
    /\ (files[Action[r].path] = Absent) <=> (Action[r].op = "create")
    /\ Action[r].op = "move" => files[Action[r].to] = Absent

simulate(r) ==
    /\ phase[r] = "invoking"
    /\ mutation(r)
    /\ simulable(r)
    /\ simulation' = [simulation EXCEPT ![r] = files]
    /\ phase' = [phase EXCEPT ![r] = "simulated"]
    /\ UNCHANGED <<authority, status, matched, boundStage, approval, execution, files, applied>>

\* The simulation and the pending approval are written together.
recordSimulation(r) ==
    /\ phase[r] = "simulated"
    /\ status' = [status EXCEPT ![r] = "approval_pending"]
    /\ approval' = [approval EXCEPT ![r] = "pending"]
    /\ phase' = [phase EXCEPT ![r] = "none"]
    /\ UNCHANGED <<authority, matched, boundStage, simulation, execution, files, applied>>

\* The connector or the write of its result failed; recording that may fail too.
simulationFails(r) ==
    /\ phase[r] \in {"invoking", "simulated"}
    /\ mutation(r)
    /\ \E s \in {"failed", "simulating"} : status' = [status EXCEPT ![r] = s]
    /\ phase' = [phase EXCEPT ![r] = "none"]
    /\ UNCHANGED <<authority, matched, boundStage, simulation, approval, execution, files, applied>>

\* DecideControlledAction
decide(r, d) ==
    /\ status[r] = "approval_pending"
    /\ approval[r] = "pending"
    /\ approval' = [approval EXCEPT ![r] = d]
    /\ status' = IF d = "rejected" THEN [status EXCEPT ![r] = "rejected"] ELSE status
    /\ UNCHANGED <<authority, matched, boundStage, simulation, execution, phase, files, applied>>

-----------------------------------------------------------------------------
(* ExecuteControlledAction *)

acquireLease(r) ==
    /\ status[r] = "approval_pending"
    /\ approval[r] = "approved"
    /\ fresh(r)
    /\ execution[r] = "none"
    /\ execution' = [execution EXCEPT ![r] = "executing"]
    /\ status' = [status EXCEPT ![r] = "executing"]
    /\ phase' = [phase EXCEPT ![r] = "leased"]
    /\ UNCHANGED <<authority, matched, boundStage, simulation, approval, files, applied>>

verifyPreconditions(r) == \A p \in touched(r) : files[p] = simulation[r][p]

\* What the link, rename or unlink does.
effect(r) ==
    [p \in Paths |->
        IF p = Action[r].path
        THEN IF Action[r].op \in {"create", "write"} THEN Action[r].content ELSE Absent
        ELSE IF Action[r].op = "move" /\ p = Action[r].to THEN files[Action[r].path]
        ELSE files[p]]

\* The mutation takes effect; what follows it (flushing the directory) may fail.
executeMutation(r) ==
    /\ phase[r] = "leased"
    /\ verifyPreconditions(r)
    /\ files' = effect(r)
    /\ applied' = [applied EXCEPT ![r] = @ + 1]
    /\ \E o \in {"completed", "execution_unknown"} : phase' = [phase EXCEPT ![r] = o]
    /\ UNCHANGED <<authority, rows>>

\* A precondition fails, or an error before the commit: definite_no_mutation.
\* An error of no known certainty counts as a possible mutation.
mutationRefused(r) ==
    /\ phase[r] = "leased"
    /\ \E o \in {"failed", "execution_unknown"} : phase' = [phase EXCEPT ![r] = o]
    /\ UNCHANGED <<authority, rows, files, applied>>

Outcomes == {"completed", "failed", "execution_unknown"}

\* finish: both rows in one transaction.
finish(r) ==
    /\ phase[r] \in Outcomes
    /\ status' = [status EXCEPT ![r] = phase[r]]
    /\ execution' = [execution EXCEPT ![r] = phase[r]]
    /\ phase' = [phase EXCEPT ![r] = "none"]
    /\ UNCHANGED <<authority, matched, boundStage, simulation, approval, files, applied>>

\* Fault: only the execution row falls back.
finishWithFallback_OneRow(r) ==
    /\ phase[r] \in Outcomes \ {"failed"}
    /\ execution' = [execution EXCEPT ![r] = "execution_unknown"]
    /\ phase' = [phase EXCEPT ![r] = "none"]
    /\ UNCHANGED <<authority, status, matched, boundStage, simulation, approval, files, applied>>

\* The outcome could not be written: what may have happened is recorded as unknown.
finishWithFallback(r) ==
    /\ phase[r] \in Outcomes \ {"failed"}
    /\ status' = [status EXCEPT ![r] = "execution_unknown"]
    /\ execution' = [execution EXCEPT ![r] = "execution_unknown"]
    /\ phase' = [phase EXCEPT ![r] = "none"]
    /\ UNCHANGED <<authority, matched, boundStage, simulation, approval, files, applied>>

\* Nothing could be written, or the host died: the rows stay as they are.
abandon(r) ==
    /\ phase[r] # "none"
    /\ phase' = [phase EXCEPT ![r] = "none"]
    /\ UNCHANGED <<authority, rows, files, applied>>

-----------------------------------------------------------------------------
(* Around the actions: grants, the resource, the agent, the pipeline, users. *)

createGrant(g) ==
    /\ grant[g] = "none"
    /\ grant' = [grant EXCEPT ![g] = "valid"]
    /\ UNCHANGED <<resourceActive, agentEnabled, stage, stageOpen, rows, phase, files, applied>>

\* A revocation, or its expiry.
endGrant(g) ==
    /\ grant[g] = "valid"
    /\ grant' = [grant EXCEPT ![g] = "ended"]
    /\ UNCHANGED <<resourceActive, agentEnabled, stage, stageOpen, rows, phase, files, applied>>

disableResource ==
    /\ resourceActive
    /\ resourceActive' = FALSE
    /\ UNCHANGED <<grant, agentEnabled, stage, stageOpen, rows, phase, files, applied>>

setAgentEnabled ==
    /\ agentEnabled' = ~agentEnabled
    /\ UNCHANGED <<grant, resourceActive, stage, stageOpen, rows, phase, files, applied>>

\* The stage is assigned, waits for approval, or gives way to the next.
movePipeline ==
    /\ stage <= NumStages
    /\ \/ stageOpen' = ~stageOpen /\ stage' = stage
       \/ stage' = stage + 1 /\ stageOpen' = FALSE
    /\ UNCHANGED <<grant, resourceActive, agentEnabled, rows, phase, files, applied>>

editFile(p) ==
    /\ \E c \in Contents \ {files[p]} : files' = [files EXCEPT ![p] = c]
    /\ UNCHANGED <<authority, rows, phase, applied>>

Next ==
    \/ \E r \in Requests :
        \/ request(r) \/ acquireAuthorizationLease(r) \/ invokeRead(r)
        \/ simulate(r) \/ recordSimulation(r) \/ simulationFails(r)
        \/ decide(r, "approved") \/ decide(r, "rejected")
        \/ acquireLease(r) \/ executeMutation(r) \/ mutationRefused(r)
        \/ finish(r) \/ finishWithFallback(r) \/ abandon(r)
    \/ \E g \in Grants : createGrant(g) \/ endGrant(g)
    \/ disableResource \/ setAgentEnabled \/ movePipeline
    \/ \E p \in Paths : editFile(p)

Spec == Init /\ [][Next]_vars

-----------------------------------------------------------------------------
(* Properties *)

Statuses == {"absent", "authorized", "denied", "simulating", "approval_pending", "rejected",
             "executing"} \cup Outcomes

\* The rows of the capability tables and the callers' phases keep their types.
TypeOK ==
    /\ grant \in [Grants -> {"none", "valid", "ended"}]
    /\ resourceActive \in BOOLEAN /\ agentEnabled \in BOOLEAN /\ stageOpen \in BOOLEAN
    /\ stage \in 1 .. NumStages + 1
    /\ status \in [Requests -> Statuses]
    /\ matched \in [Requests -> SUBSET Grants]
    /\ boundStage \in [Requests -> 0 .. NumStages]
    /\ simulation \in [Requests -> [Paths -> Contents]]
    /\ approval \in [Requests -> {"none", "pending", "approved", "rejected"}]
    /\ execution \in [Requests -> {"none", "executing"} \cup Outcomes]
    /\ phase \in [Requests -> {"none", "invoking", "simulated", "leased"} \cup Outcomes]
    /\ files \in [Paths -> Contents]
    /\ applied \in [Requests -> Nat]

\* M6C-lite: "at most one attempt", whatever fails and whoever asks again; and
\* only an approved mutation takes effect (acquireLease, executeMutation).
AppliedOnce ==
    \A r \in Requests :
        /\ applied[r] <= 1
        /\ applied[r] = 1 => approval[r] = "approved" /\ execution[r] # "none"

\* "`failed` means the connector attests that no target mutation committed", and
\* completed that it did; between the two the row must say that it does not know
\* (executeMutation, finish and its fallback).
OutcomeTruth ==
    \A r \in Requests :
        /\ execution[r] = "failed" => applied[r] = 0
        /\ execution[r] = "completed" => applied[r] = 1

\* The request, its approval and its execution tell one story, although the
\* transitions of the first are guarded only by its own status.
LedgersAgree ==
    \A r \in Requests :
        /\ execution[r] # "none" => status[r] = execution[r] /\ approval[r] = "approved"
        /\ status[r] = "rejected" <=> approval[r] = "rejected"
        /\ status[r] = "approval_pending" => approval[r] \in {"pending", "approved"}
        /\ mutation(r) /\ status[r] \in {"executing", "completed", "execution_unknown"} => execution[r] # "none"

\* A mutation takes effect only on the very contents its approver was shown, and
\* these never change once an approval is pending (verifyPreconditions).
AppliesAsApproved ==
    \A r \in Requests :
        /\ applied'[r] # applied[r] =>
            \A p \in Paths : files'[p] # files[p] => files[p] = simulation[r][p]
        /\ approval[r] # "none" => simulation'[r] = simulation[r]
AppliedAsApproved == [][AppliesAsApproved]_vars

\* A request is leased only under the authority it was granted under: since then
\* no grant that matched has ended, none that matches was added, and its stage
\* is still the current one (requireFreshAuthorization, twice).
LeasesUnderAuthority ==
    \A r \in Requests :
        phase[r] = "none" /\ phase'[r] \in {"invoking", "leased"} =>
            /\ resourceActive /\ agentEnabled
            /\ {g \in Grants : grant[g] = "valid" /\ r \in Covers[g]} = matched[r]
            /\ r \in Staged => stageOpen /\ stage = boundStage[r]
LeasedUnderItsAuthority == [][LeasesUnderAuthority]_vars

\* What holds of the three ledgers and the files at any time.
ActionSafety == TypeOK /\ AppliedOnce /\ OutcomeTruth /\ LedgersAgree

\* What no step may do: change other contents than were approved, or lease
\* without the authority of the request.
ActionSteps == [][AppliesAsApproved /\ LeasesUnderAuthority]_vars

=============================================================================
