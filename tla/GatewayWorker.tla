---------------------------- MODULE GatewayWorker ----------------------------
(***************************************************************************)
(* The gateway worker (llm-gateway/src/gateway-worker-runtime.ts): it      *)
(* turns the model selection of one agent run into one exact metered       *)
(* request, through the provider registry, the OpenAI and Anthropic        *)
(* adapters and ExactModelProvider.                                        *)
(*                                                                         *)
(* An execution awaits its provider, the budget rows and the vendor.       *)
(* Executions of the same run may overlap (a lost lease), the operator may *)
(* change the run's budget, cancel, or let the deadline pass at any await. *)
(* How reservations of several calls and scopes settle is CostBudget's     *)
(* subject: here a reservation is one number against the run's budget.     *)
(***************************************************************************)
EXTENDS Naturals, FiniteSets, FiniteSetsExt, Functions

CONSTANTS
  Executions,
  RoleLimitMicros,       \* the role's maxCostMicros
  WorstCase,             \* what the bounded request may cost at most
  RunLimits,             \* the limits an operator may set for the run
  MaxOperatorBudgets

ASSUME GatewayAssumption ==
  /\ {RoleLimitMicros, MaxOperatorBudgets} \cup RunLimits \subseteq Nat
  /\ WorstCase \in Nat \ {0} /\ IsFiniteSet(Executions)

VARIABLES
  selection,        \* the run's persisted selection, and what the host has for it
  executed,         \* each execution
  runBudget,        \* the agent_run budget row
  spent, reserved,  \* per execution
  operatorBudgets,
  overruled         \* an operator's budget made way for the role's, or came late

gatewayVars == <<selection, executed, runBudget, spent, reserved, operatorBudgets, overruled>>

NoLimit == RoleLimitMicros + 1000
Fresh == [step |-> "new", found |-> NoLimit, stale |-> FALSE, timedOut |-> FALSE, aborted |-> FALSE,
          sent |-> FALSE, reply |-> "none", outcome |-> "none"]

(******************************* Adapters *********************************)
Providers == {"openai", "anthropic", "other"}
\* The gateway support each descriptor declares.
gatewayExecution(provider) == provider \in {"openai", "anthropic"}
reasoningEfforts(provider) == IF provider = "openai" THEN {"high"} ELSE {}

\* supportsModel
supportsSelection(s) ==
    gatewayExecution(s.provider) /\ (s.effort = "none" \/ s.effort \in reasoningEfforts(s.provider))
\* A parameter the adapter cannot apply exactly is refused before any I/O.
adapterRefuses(s) == s.effort # "none" /\ s.effort \notin reasoningEfforts(s.provider)

\* What the vendor may do with a request; "rejected" is readable, but cut
\* short, over its cap or no artifact.
Replies == {"no answer", "unreadable", "other model", "rejected", "good"}
\* The vendor answered, so its work may have been billed (rejectedProviderResponse).
answered(reply) == reply \notin {"none", "no answer"}
\* The answers ExactModelProvider and validateModelResponse let through.
priced(reply) == reply \in {"rejected", "good"}

\* parseGatewayWorkerArtifact and classify.
judge(reply) ==
    CASE reply = "no answer" -> "WORKER_FAILED"
      [] reply \in {"unreadable", "rejected"} -> "WORKER_OUTPUT_INVALID"
      [] reply = "other model" -> "WORKER_MODEL_MISMATCH"
      [] reply = "good" -> "ok"

(******************************* Execution ********************************)
GatewayInit ==
    /\ selection \in [present : BOOLEAN, provider : Providers, effort : {"none", "high"}, credentials : BOOLEAN, priced : BOOLEAN]
    /\ executed = [e \in Executions |-> Fresh]
    /\ runBudget = NoLimit
    /\ spent = [e \in Executions |-> 0] /\ reserved = [e \in Executions |-> 0]
    /\ operatorBudgets = 0 /\ overruled = FALSE

at(e, step) == executed[e].step = step
goesOn(e, step) == executed' = [executed EXCEPT ![e].step = step]
endsWith(e, code) == executed' = [executed EXCEPT ![e].step = "ended", ![e].outcome = code]
\* A failure after the deadline or a cancellation is put down to it.
fails(e, code) ==
    endsWith(e, IF executed[e].timedOut THEN "WORKER_TIMEOUT" ELSE IF executed[e].aborted THEN "AbortError" ELSE code)

\* execute up to its first await.
refusesSelection(e) ==
    IF ~selection.present THEN "WORKER_MODEL_REQUIRED"
    ELSE IF ~supportsSelection(selection) THEN "WORKER_MODEL_UNSUPPORTED"
    ELSE IF ~selection.credentials THEN "WORKER_CREDENTIALS_MISSING"
    ELSE IF executed[e].aborted THEN "AbortError" ELSE "none"
StartExecution(e) ==
    /\ at(e, "new")
    /\ IF refusesSelection(e) = "none" THEN goesOn(e, "resolve") ELSE endsWith(e, refusesSelection(e))
    /\ UNCHANGED <<selection, runBudget, spent, reserved, operatorBudgets, overruled>>
\* The registry makes a provider of the selection's own credentials.
ResolveProvider(e) ==
    /\ at(e, "resolve")
    /\ IF ~gatewayExecution(selection.provider) THEN endsWith(e, "WORKER_MODEL_UNSUPPORTED")
       ELSE IF ~selection.credentials THEN endsWith(e, "WORKER_CREDENTIALS_MISSING") ELSE goesOn(e, "budget")
    /\ UNCHANGED <<selection, runBudget, spent, reserved, operatorBudgets, overruled>>

\* ensureRunBudget: read the row, ...
FindRunBudget(e) ==
    /\ at(e, "budget")
    /\ executed' = [executed EXCEPT ![e].step = "save", ![e].found = runBudget, ![e].stale = FALSE]
    /\ UNCHANGED <<selection, runBudget, spent, reserved, operatorBudgets, overruled>>
\* ... keep it when it is narrower, else lower it to the role's limit.
lowered(e) == IF executed[e].found <= RoleLimitMicros THEN runBudget ELSE RoleLimitMicros
SaveRunBudget(e) ==
    /\ at(e, "save")
    /\ runBudget' = lowered(e)
    /\ goesOn(e, "reserve")
    /\ UNCHANGED <<selection, spent, reserved, operatorBudgets, overruled>>

used == SumFunction(spent) + SumFunction(reserved)
\* Fault: an execution looks only at what it spent itself.
ReserveWorstCase_Own(e) ==
    /\ at(e, "reserve") /\ selection.priced /\ spent[e] + WorstCase <= runBudget
    /\ goesOn(e, "send") /\ reserved' = [reserved EXCEPT ![e] = WorstCase]
    /\ UNCHANGED <<selection, runBudget, spent, operatorBudgets, overruled>>
\* Pricing and the reservation of the worst case.
ReserveWorstCase(e) ==
    /\ at(e, "reserve")
    /\ IF ~selection.priced THEN fails(e, "WORKER_PRICING_UNAVAILABLE") /\ UNCHANGED reserved
       ELSE IF used + WorstCase > runBudget THEN fails(e, "WORKER_BUDGET_EXHAUSTED") /\ UNCHANGED reserved
       ELSE goesOn(e, "send") /\ reserved' = [reserved EXCEPT ![e] = WorstCase]
    /\ UNCHANGED <<selection, runBudget, spent, operatorBudgets, overruled>>

cancelled(e) == executed[e].timedOut \/ executed[e].aborted
releases(e) == reserved' = [reserved EXCEPT ![e] = 0]
\* The adapter's complete: cancelled or refused before I/O, or sent.
SendRequest(e) ==
    /\ at(e, "send")
    /\ IF cancelled(e) \/ adapterRefuses(selection)
       THEN fails(e, "WORKER_MODEL_UNSUPPORTED") /\ releases(e)
       ELSE executed' = [executed EXCEPT ![e].step = "wait", ![e].sent = TRUE] /\ UNCHANGED reserved
    /\ UNCHANGED <<selection, runBudget, spent, operatorBudgets, overruled>>
\* The vendor answers, or the request fails.
VendorReplies(e, reply) ==
    /\ at(e, "wait")
    /\ executed' = [executed EXCEPT ![e].step = "settle", ![e].reply = reply]
    /\ UNCHANGED <<selection, runBudget, spent, reserved, operatorBudgets, overruled>>
\* The signal ends the wait: before the answer, or while its body is read.
RequestAborted(e) ==
    /\ at(e, "wait") /\ cancelled(e)
    /\ \E reply \in {"no answer", "unreadable"} : executed' = [executed EXCEPT ![e].step = "settle", ![e].reply = reply]
    /\ UNCHANGED <<selection, runBudget, spent, reserved, operatorBudgets, overruled>>

\* An answer is charged, at what it reports or at the worst case; a charge
\* that cannot be written leaves the reservation.
Settle(e) ==
    LET reply == executed[e].reply
        done == IF judge(reply) = "ok" THEN endsWith(e, "ok") ELSE fails(e, judge(reply))
    IN  /\ at(e, "settle")
        /\ IF ~answered(reply)
           THEN releases(e) /\ done /\ UNCHANGED spent
           ELSE \/ /\ \E cost \in (IF priced(reply) THEN 1..WorstCase ELSE {WorstCase}) : spent' = [spent EXCEPT ![e] = cost]
                   /\ releases(e) /\ done
                \/ fails(e, "STORAGE") /\ UNCHANGED <<spent, reserved>>
        /\ UNCHANGED <<selection, runBudget, operatorBudgets, overruled>>

(****************************** Environment *******************************)
deadlineReaches(e) == [executed EXCEPT ![e].timedOut = TRUE]
\* The deadline is armed once the run has its budget.
DeadlinePasses(e) ==
    /\ executed[e].step \in {"reserve", "send", "wait", "settle"} /\ ~executed[e].timedOut
    /\ executed' = deadlineReaches(e)
    /\ UNCHANGED <<selection, runBudget, spent, reserved, operatorBudgets, overruled>>
CancelExecution(e) ==
    /\ executed[e].step # "ended" /\ ~executed[e].aborted
    /\ executed' = [executed EXCEPT ![e].aborted = TRUE]
    /\ UNCHANGED <<selection, runBudget, spent, reserved, operatorBudgets, overruled>>
OperatorSetsBudget(limit) ==
    /\ operatorBudgets < MaxOperatorBudgets
    /\ operatorBudgets' = operatorBudgets + 1
    /\ runBudget' = limit
    /\ executed' = [e \in Executions |-> [executed[e] EXCEPT !.stale = at(e, "save")]]
    /\ overruled' = (overruled \/ (limit > RoleLimitMicros /\ \E e \in Executions : executed[e].step \in {"save", "reserve"}))
    /\ UNCHANGED <<selection, spent, reserved>>

progress(e) ==
    \/ StartExecution(e) \/ ResolveProvider(e) \/ FindRunBudget(e) \/ SaveRunBudget(e) \/ ReserveWorstCase(e) \/ SendRequest(e)
    \/ RequestAborted(e) \/ Settle(e)
GatewayNext ==
    \/ \E e \in Executions :
         \/ progress(e) \/ DeadlinePasses(e) \/ CancelExecution(e)
         \/ \E reply \in Replies : VendorReplies(e, reply)
    \/ \E limit \in RunLimits : OperatorSetsBudget(limit)
GatewaySpec == GatewayInit /\ [][GatewayNext]_gatewayVars

(******************************* Properties *******************************)
\* Types; only an execution between reserving and settling, or one whose
\* charge could not be written, holds a reservation.
GatewayTypeOK ==
    /\ \A e \in Executions :
         /\ executed[e].step \in {"new", "resolve", "budget", "save", "reserve", "send", "wait", "settle", "ended"}
         /\ executed[e].reply \in Replies \cup {"none"}
         /\ reserved[e] > 0 => executed[e].step \in {"send", "wait", "settle", "ended"}
    /\ runBudget \in Nat /\ operatorBudgets \in 0..MaxOperatorBudgets

\* A run without a usable model, credential or price is refused before
\* anything is reserved or sent (the contract of GatewayWorkerRuntime).
RefusedBeforeSpending ==
    (~selection.present \/ ~supportsSelection(selection) \/ ~selection.credentials \/ ~selection.priced) =>
        \A e \in Executions : ~executed[e].sent /\ spent[e] = 0 /\ reserved[e] = 0

\* The executions of a run never use more than its role allows, however they
\* overlap, unless the operator raised the budget under one of them.
RunWithinRole == ~overruled => used <= RoleLimitMicros

\* An answered request is charged, or keeps its reservation: an unreadable,
\* truncated or substituted answer is never free.
AnswerIsPaid ==
    \A e \in Executions :
        (at(e, "ended") /\ executed[e].reply \notin {"none", "no answer"}) => spent[e] > 0 \/ reserved[e] > 0

\* A result is a completed answer of the very model that was asked, within
\* its cap, and its parameters were applied exactly.
ResultIsExact ==
    \A e \in Executions :
        executed[e].outcome = "ok" => executed[e].reply = "good" /\ supportsSelection(selection) /\ spent[e] > 0

\* No execution widens a narrower budget the operator had set, unless it was
\* set between the execution's read and its write (ensureRunBudget).
NarrowBudgetKept ==
    \A e \in Executions :
        at(e, "save") /\ executed'[e].step = "reserve" /\ ~executed[e].stale => runBudget' <= runBudget

\* What holds of the executions of a run through the metered gateway.
GatewaySafety ==
    GatewayTypeOK /\ RefusedBeforeSpending /\ RunWithinRole /\ AnswerIsPaid /\ ResultIsExact
=============================================================================
