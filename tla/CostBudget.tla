----------------------------- MODULE CostBudget -----------------------------
(***************************************************************************)
(* Metered model calls against the project budget: price the candidates,   *)
(* reserve the worst case, call the provider outside any transaction, then *)
(* record usage and cost and consume the reservation.                      *)
(*                                                                         *)
(* One currency and the budgets that commands can configure: the project's *)
(* (budget:set) and that of the one agent run a worker call belongs to     *)
(* (its role's limit, ensureRunBudget).  The reservation rows of a call    *)
(* are inserted, consumed and released together and expire together, so    *)
(* they have one status.                                                   *)
(***************************************************************************)
EXTENDS Integers, FiniteSetsExt, Functions

CONSTANTS Calls,
          Workers,      \* the calls that execute an agent run
          RoleLimit,    \* [Workers -> Nat]: maxCostMicros
          Prices,       \* [input, cached, output, reasoning : Nat], per Million tokens
          Candidates,   \* [Calls -> SUBSET Prices]: the provider and its fallbacks
          Bound,        \* [Calls -> [input, output : Nat]]
          Usages,       \* what a provider may report
          RequestIds,   \* provider request ids
          Limits, Unset, NoId,
          Million

TokenCounts == [input : Nat, cached : Nat, output : Nat, reasoning : Nat]

ASSUME CostAssumption ==
    /\ Workers \subseteq Calls
    /\ RoleLimit \in [Workers -> Nat]
    /\ Prices \subseteq TokenCounts
    /\ Candidates \in [Calls -> SUBSET Prices]
    /\ Bound \in [Calls -> [input : Nat, output : Nat]]
    /\ Usages \subseteq TokenCounts
    /\ Limits \subseteq Nat /\ Unset \notin Nat /\ NoId \notin RequestIds
    /\ Million \in Nat \ {0}

VARIABLES
    limit,      \* the project budget, or Unset
    phase,      \* where a call is
    governed,   \* the call found a project budget to reserve against
    hold,       \* status of its reservation rows
    late,       \* their expires_at has passed
    answer,     \* what the provider reported, once it has answered
    charge,     \* cost_event.actual_micros, 0 for none
    overage,    \* cost_event.overage_micros
    recorded,   \* the calls with a cost event
    ceiling     \* the highest limit so far (history)

vars == <<limit, phase, governed, hold, late, answer, charge, overage, recorded, ceiling>>

-----------------------------------------------------------------------------
(* Prices *)

larger(a, b) == IF a > b THEN a ELSE b

\* billableTokens: a detail larger than its total is refused.
validUsage(u) == u.cached <= u.input /\ u.reasoning <= u.output

calculateCost(u, p) ==
    ((u.input - u.cached) * p.input + u.cached * p.cached
        + (u.output - u.reasoning) * p.output + u.reasoning * p.reasoning) \div Million

calculateMaximumCost(b, p) ==
    (b.input * larger(p.input, p.cached) + b.output * larger(p.output, p.reasoning)) \div Million

\* The worst case of the dearest candidate.
envelope(c) == Max({calculateMaximumCost(Bound[c], p) : p \in Candidates[c]})

\* There are candidates, and finitely many: one is the dearest.
ASSUME DearestAssumption ==
    \A c \in Calls : \E p \in Candidates[c] : \A q \in Candidates[c] :
        calculateMaximumCost(Bound[c], q) <= calculateMaximumCost(Bound[c], p)

-----------------------------------------------------------------------------
(* The cost repository *)

\* What a provider may answer: ok if a candidate answered with valid usage.
Answers(c) ==
    [usage : Usages, price : Candidates[c], id : RequestIds \cup {NoId}, ok : BOOLEAN]

Live(c) == hold[c] = "active" /\ ~late[c]

spentMicros == SumFunctionOnSet(charge, recorded)

reservedMicros ==
    SumFunctionOnSet([c \in Calls |-> envelope(c)], {c \in Calls : governed[c] /\ Live(c)})

release(c) == hold' = [hold EXCEPT ![c] = IF @ = "active" THEN "released" ELSE @]

\* Fault: a reservation that has expired is consumed all the same.
settleable_Expired(c) == hold[c] \in {"none", "active"}

\* Every reservation row of the call is there, active and not expired.
settleable(c) == hold[c] = "none" \/ Live(c)

duplicate(c) == answer[c].id # NoId /\ \E d \in recorded : answer[d].id = answer[c].id

settle(c, micros) ==
    /\ charge' = [charge EXCEPT ![c] = micros]
    /\ overage' = [overage EXCEPT ![c] =
                    IF hold[c] # "none" /\ micros > envelope(c) THEN micros - envelope(c) ELSE 0]
    /\ recorded' = recorded \cup {c}
    /\ hold' = [hold EXCEPT ![c] = IF @ = "active" THEN "consumed" ELSE @]

-----------------------------------------------------------------------------
NoAnswer == [usage |-> [input |-> 0, cached |-> 0, output |-> 0, reasoning |-> 0],
             price |-> [input |-> 0, cached |-> 0, output |-> 0, reasoning |-> 0],
             id |-> NoId, ok |-> FALSE]

Init ==
    /\ limit = Unset
    /\ phase = [c \in Calls |-> "idle"]
    /\ governed = [c \in Calls |-> FALSE]
    /\ hold = [c \in Calls |-> "none"]
    /\ late = [c \in Calls |-> FALSE]
    /\ answer = [c \in Calls |-> NoAnswer]
    /\ charge = [c \in Calls |-> 0]
    /\ overage = [c \in Calls |-> 0]
    /\ recorded = {}
    /\ ceiling = 0

\* budget:set replaces the limit, whatever is spent or reserved.
saveBudget(l) ==
    /\ limit # l
    /\ limit' = l
    /\ ceiling' = larger(l, ceiling)
    /\ UNCHANGED <<phase, governed, hold, late, answer, charge, overage, recorded>>

\* A scope without a budget is not reserved against.
listBudgetCurrencies(c) ==
    /\ phase[c] = "idle"
    /\ governed' = [governed EXCEPT ![c] = limit # Unset]
    /\ phase' = [phase EXCEPT ![c] = "priced"]
    /\ UNCHANGED <<limit, hold, late, answer, charge, overage, recorded, ceiling>>

\* authorizeAndReserveMany: every budget has room, or nothing is reserved.
affordable(c) ==
    /\ governed[c] => spentMicros + reservedMicros + envelope(c) <= limit
    /\ c \in Workers => envelope(c) <= RoleLimit[c]

authorizeAndReserve(c) ==
    /\ phase[c] = "priced"
    /\ affordable(c)
    /\ phase' = [phase EXCEPT ![c] = "calling"]
    /\ hold' = [hold EXCEPT ![c] = IF governed[c] \/ c \in Workers THEN "active" ELSE "none"]
    /\ UNCHANGED <<limit, governed, late, answer, charge, overage, recorded, ceiling>>

budgetExceeded(c) ==
    /\ phase[c] = "priced"
    /\ ~affordable(c)
    /\ phase' = [phase EXCEPT ![c] = "done"]
    /\ UNCHANGED <<limit, governed, hold, late, answer, charge, overage, recorded, ceiling>>

\* No answer was received: nothing is known to have been billed.
providerFails(c) ==
    /\ phase[c] = "calling"
    /\ release(c)
    /\ phase' = [phase EXCEPT ![c] = "done"]
    /\ UNCHANGED <<limit, governed, late, answer, charge, overage, recorded, ceiling>>

respond(c) ==
    /\ phase[c] = "calling"
    /\ \E a \in Answers(c) :
        /\ a.ok => validUsage(a.usage)
        /\ answer' = [answer EXCEPT ![c] = a]
        /\ phase' = [phase EXCEPT ![c] = IF a.ok THEN "answered" ELSE "rejected"]
    /\ UNCHANGED <<limit, governed, hold, late, charge, overage, recorded, ceiling>>

\* A usage recorded before is not charged again.
releaseDuplicate(c) ==
    /\ phase[c] \in {"answered", "rejected"}
    /\ duplicate(c)
    /\ release(c)
    /\ phase' = [phase EXCEPT ![c] = "done"]
    /\ UNCHANGED <<limit, governed, late, answer, charge, overage, recorded, ceiling>>

recordUsageAndCost(c) ==
    /\ phase[c] = "answered"
    /\ ~duplicate(c)
    /\ settleable(c)
    /\ settle(c, calculateCost(answer[c].usage, answer[c].price))
    /\ phase' = [phase EXCEPT ![c] = "done"]
    /\ UNCHANGED <<limit, governed, late, answer, ceiling>>

\* The reservation expired, or the transaction failed: try to charge the envelope.
recordFails(c) ==
    /\ phase[c] = "answered"
    /\ phase' = [phase EXCEPT ![c] = "rejected"]
    /\ UNCHANGED <<limit, governed, hold, late, answer, charge, overage, recorded, ceiling>>

\* The provider may have billed its answer: the worst case is charged.
chargeRejectedResponse(c) ==
    /\ phase[c] = "rejected"
    /\ ~duplicate(c)
    /\ settleable(c)
    /\ settle(c, envelope(c))
    /\ phase' = [phase EXCEPT ![c] = "done"]
    /\ UNCHANGED <<limit, governed, late, answer, ceiling>>

\* Fault: capacity that could not be charged is given back.
chargeFails_Releases(c) ==
    /\ phase[c] = "rejected"
    /\ release(c)
    /\ phase' = [phase EXCEPT ![c] = "done"]
    /\ UNCHANGED <<limit, governed, late, answer, charge, overage, recorded, ceiling>>

\* Not even that could be written: the reservation stays until it expires.
chargeFails(c) ==
    /\ phase[c] = "rejected"
    /\ phase' = [phase EXCEPT ![c] = "done"]
    /\ UNCHANGED <<limit, governed, hold, late, answer, charge, overage, recorded, ceiling>>

expire(c) ==
    /\ Live(c)
    /\ late' = [late EXCEPT ![c] = TRUE]
    /\ UNCHANGED <<limit, phase, governed, hold, answer, charge, overage, recorded, ceiling>>

releaseExpiredReservations ==
    /\ \E c \in Calls : hold[c] = "active" /\ late[c]
    /\ hold' = [c \in Calls |-> IF hold[c] = "active" /\ late[c] THEN "released" ELSE hold[c]]
    /\ UNCHANGED <<limit, phase, governed, late, answer, charge, overage, recorded, ceiling>>

\* The host dies with its calls; the rows stay.
crash ==
    /\ \E c \in Calls : phase[c] \notin {"idle", "done"}
    /\ phase' = [c \in Calls |-> IF phase[c] = "idle" THEN "idle" ELSE "done"]
    /\ UNCHANGED <<limit, governed, hold, late, answer, charge, overage, recorded, ceiling>>

Next ==
    \/ \E l \in Limits : saveBudget(l)
    \/ \E c \in Calls :
        \/ listBudgetCurrencies(c) \/ authorizeAndReserve(c) \/ budgetExceeded(c)
        \/ providerFails(c) \/ respond(c) \/ releaseDuplicate(c)
        \/ recordUsageAndCost(c) \/ recordFails(c)
        \/ chargeRejectedResponse(c) \/ chargeFails(c) \/ expire(c)
    \/ releaseExpiredReservations
    \/ crash

Spec == Init /\ [][Next]_vars

-----------------------------------------------------------------------------
(* Properties *)

\* Rows and callers keep their types; in particular no amount is negative.
TypeOK ==
    /\ limit \in Limits \cup {Unset}
    /\ phase \in [Calls -> {"idle", "priced", "calling", "answered", "rejected", "done"}]
    /\ governed \in [Calls -> BOOLEAN]
    /\ hold \in [Calls -> {"none", "active", "consumed", "released"}]
    /\ late \in [Calls -> BOOLEAN]
    /\ answer \in [Calls -> [usage : TokenCounts, price : TokenCounts,
                            id : RequestIds \cup {NoId}, ok : BOOLEAN]]
    /\ charge \in [Calls -> Nat]
    /\ overage \in [Calls -> Nat]
    /\ recorded \subseteq Calls
    /\ ceiling \in Nat

\* "Budget checks account for active reservations, not only historical
\* spending": what governed calls have spent, overage aside, and still hold is
\* never more than the project budget allowed at some time, although holds
\* expire under calls that are still being answered (authorizeAndReserve,
\* recordUsageAndCost).
BudgetHolds ==
    SumFunctionOnSet([c \in Calls |-> charge[c] - overage[c]], {c \in recorded : governed[c]})
        + reservedMicros <= ceiling

\* "The call is not treated as free": capacity reserved for a call the provider
\* answered comes back only when the usage was recorded before or the
\* reservation expired (completeMetered's error paths).
AnswersAreNotFree ==
    \A c \in Calls :
        answer[c] # NoAnswer /\ hold[c] = "released" /\ c \notin recorded =>
            late[c] \/ duplicate(c)

\* "Provider usage is idempotent by provider plus provider request ID": one
\* cost event for each, whichever path writes it.
ChargedOnce ==
    \A c, d \in recorded : c # d => answer[c].id = NoId \/ answer[c].id # answer[d].id

\* "The reservation is the highest cost any valid usage within the request's
\* bounds can have": overage means the provider exceeded the bounds.
OverageMeansExcess ==
    \A c \in Calls :
        overage[c] > 0 =>
            answer[c].usage.input > Bound[c].input \/ answer[c].usage.output > Bound[c].output

\* What holds of each call's charge: answers are paid for, once, and within the
\* worst case unless the provider exceeded its bounds.
CostSafety == TypeOK /\ AnswersAreNotFree /\ ChargedOnce /\ OverageMeansExcess

=============================================================================
