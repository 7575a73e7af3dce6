-------------------------- MODULE OperationsProofs --------------------------
(***************************************************************************)
(* What holds of the operations of MCOperations for every set of calls,    *)
(* price list, host, caller, plan and publisher.                           *)
(*                                                                         *)
(* CostBudget: the arithmetic is that of calculateCost and                 *)
(* calculateMaximumCost; what the phase of a call says of its rows         *)
(* (CallsMatchRows) makes the invariant inductive.  BudgetHolds is about   *)
(* sums over calls: what a call is charged within its reservation replaces *)
(* that reservation (SettleKeepsBudget), and every governed call that may  *)
(* be charged has one (RowsOfCalls).                                       *)
(*                                                                         *)
(* HostStartup: that a host serves alone rests on the hosts that serve     *)
(* listening at the path (ServingListens); that none leaves the knowledge  *)
(* store open rests on what a host owns at each stage of its bootstrap.    *)
(*                                                                         *)
(* KnowledgeAdmission: what a caller is about to persist is approved, and  *)
(* what it reports true, because of the step it is at (CallsAgree).        *)
(*                                                                         *)
(* CheckpointStore: unless a cleanup or retention got in the way, every    *)
(* checkpoint is there or superseded (Unraced), whatever a call has read   *)
(* was published (RecordsAgree), and a publisher without competition is    *)
(* ahead of everything there is (Alone).                                   *)
(*                                                                         *)
(* RuntimePurge, DistributionUpdate, OfficeServices: what a command has    *)
(* established by the step it is at (PurgeOK, InvocationOK, InstallOK,     *)
(* UninstallOK), whatever it is that others do in between.                 *)
(***************************************************************************)
EXTENDS MCOperations, TLAPS, FiniteSetTheorems, WellFoundedInduction

-----------------------------------------------------------------------------
(* CostBudget *)

\* What the phase of a call says of its answer and of its reservation.
CallsMatchRows ==
    \A c \in Calls :
        /\ phase[c] \in {"idle", "priced", "calling"} => answer[c] = NoAnswer
        /\ phase[c] # "done" => c \notin recorded
        /\ c \notin recorded => overage[c] = 0
        /\ phase[c] \in {"calling", "answered", "rejected"} /\ hold[c] = "released" => late[c]
        /\ phase[c] = "answered" => validUsage(answer[c].usage) /\ answer[c].price \in Candidates[c]

\* The inductive invariant.
IInv == TypeOK /\ CallsMatchRows /\ AnswersAreNotFree /\ ChargedOnce /\ OverageMeansExcess

-----------------------------------------------------------------------------
(* Arithmetic *)

LEMMA DivNat == ASSUME NEW a \in Nat, NEW m \in Nat \ {0} PROVE a \div m \in Nat
  BY SMT

LEMMA DivMonotonic ==
    ASSUME NEW a \in Nat, NEW b \in Nat, NEW m \in Nat \ {0}, a <= b
    PROVE a \div m <= b \div m
  BY SMT

LEMMA ProductNat == ASSUME NEW a \in Nat, NEW b \in Nat PROVE a * b \in Nat
  BY SMT

\* Split at any point, a total priced at two rates costs at most the total at
\* the dearer one.
LEMMA DearerRate ==
    ASSUME NEW total \in Nat, NEW part \in Nat, NEW bound \in Nat, NEW p \in Nat, NEW q \in Nat,
           part <= total, total <= bound
    PROVE /\ (total - part) * p + part * q \in Nat
          /\ (total - part) * p + part * q <= bound * larger(p, q)
  <1> DEFINE m == larger(p, q)
  <1>1. m \in Nat /\ p <= m /\ q <= m
    BY DEF larger
  <1> HIDE DEF m
  <1>2. total - part \in Nat
    OBVIOUS
  <1>3. (total - part) * p <= (total - part) * m
    BY <1>1, <1>2, SMT
  <1>4. part * q <= part * m
    BY <1>1, SMT
  <1>5. (total - part) * m + part * m = total * m
    BY <1>1, <1>2, SMT
  <1>6. total * m <= bound * m
    BY <1>1, SMT
  <1>7. (total - part) * p \in Nat /\ part * q \in Nat /\ (total - part) * m \in Nat
        /\ part * m \in Nat /\ total * m \in Nat /\ bound * m \in Nat
    BY <1>1, <1>2, ProductNat
  <1> QED BY <1>3, <1>4, <1>5, <1>6, <1>7 DEF m

\* No valid usage within the bound costs more than calculateMaximumCost says,
\* whatever its composition and the rates.
THEOREM MaximumCostIsMaximal ==
    ASSUME NEW u \in TokenCounts, NEW p \in TokenCounts, NEW b \in [input : Nat, output : Nat],
           validUsage(u), u.input <= b.input, u.output <= b.output
    PROVE calculateCost(u, p) <= calculateMaximumCost(b, p)
  <1> DEFINE i == (u.input - u.cached) * p.input + u.cached * p.cached
             o == (u.output - u.reasoning) * p.output + u.reasoning * p.reasoning
             bi == b.input * larger(p.input, p.cached)
             bo == b.output * larger(p.output, p.reasoning)
             x == (u.output - u.reasoning) * p.output
             y == u.reasoning * p.reasoning
  <1> USE CostAssumption DEF TokenCounts
  <1>1. i \in Nat /\ i <= bi
    BY DearerRate DEF validUsage
  <1>2. o \in Nat /\ o <= bo
    BY DearerRate DEF validUsage
  <1>3. bi \in Nat /\ bo \in Nat
    BY ProductNat DEF larger
  <1>4. x \in Nat /\ y \in Nat
    BY ProductNat DEF validUsage
  <1>5. calculateCost(u, p) = (i + x + y) \div Million
    BY DEF calculateCost
  <1>6. i + x + y = i + o
    BY <1>1, <1>4
  <1>7. calculateMaximumCost(b, p) = (bi + bo) \div Million
    BY DEF calculateMaximumCost
  <1>8. i + o \in Nat /\ bi + bo \in Nat /\ i + o <= bi + bo
    BY <1>1, <1>2, <1>3
  <1> HIDE DEF i, o, bi, bo, x, y
  <1> QED BY <1>5, <1>6, <1>7, <1>8, DivMonotonic

LEMMA CostNat ==
    ASSUME NEW u \in TokenCounts, NEW p \in TokenCounts, validUsage(u)
    PROVE calculateCost(u, p) \in Nat
  <1> DEFINE w == (u.input - u.cached) * p.input
             x == u.cached * p.cached
             y == (u.output - u.reasoning) * p.output
             z == u.reasoning * p.reasoning
  <1>1. w \in Nat /\ x \in Nat /\ y \in Nat /\ z \in Nat
    BY ProductNat DEF validUsage, TokenCounts
  <1>2. calculateCost(u, p) = (w + x + y + z) \div Million
    BY DEF calculateCost
  <1> HIDE DEF w, x, y, z
  <1>3. w + x + y + z \in Nat /\ Million \in Nat \ {0}
    BY <1>1, CostAssumption
  <1> QED BY <1>2, <1>3, DivNat

LEMMA MaximumCostNat ==
    ASSUME NEW p \in TokenCounts, NEW b \in [input : Nat, output : Nat]
    PROVE calculateMaximumCost(b, p) \in Nat
  <1> DEFINE x == b.input * larger(p.input, p.cached)
             y == b.output * larger(p.output, p.reasoning)
  <1>1. x \in Nat /\ y \in Nat
    BY ProductNat DEF larger, TokenCounts
  <1>2. calculateMaximumCost(b, p) = (x + y) \div Million
    BY DEF calculateMaximumCost
  <1> HIDE DEF x, y
  <1>3. x + y \in Nat /\ Million \in Nat \ {0}
    BY <1>1, CostAssumption
  <1> QED BY <1>2, <1>3, DivNat

\* The envelope is the worst case of some candidate, and of none less.
LEMMA EnvelopeIsDearest ==
    ASSUME NEW c \in Calls
    PROVE /\ envelope(c) \in Nat
          /\ \A p \in Candidates[c] : calculateMaximumCost(Bound[c], p) <= envelope(c)
  <1> DEFINE S == {calculateMaximumCost(Bound[c], p) : p \in Candidates[c]}
  <1>1. S \subseteq Nat
    BY MaximumCostNat, CostAssumption
  <1>2. \E x \in S : \A y \in S : x >= y
    BY DearestAssumption, <1>1
  <1>3. envelope(c) \in S /\ \A y \in S : envelope(c) >= y
    BY <1>2 DEF envelope, Max
  <1> QED BY <1>1, <1>3

-----------------------------------------------------------------------------
(* The invariant *)

LEMMA InvariantInit == ASSUME Init PROVE IInv
  <1>1. TypeOK
    <2>1. NoAnswer \in [usage : TokenCounts, price : TokenCounts,
                        id : RequestIds \cup {NoId}, ok : BOOLEAN]
      BY DEF NoAnswer, TokenCounts
    <2>2. governed \in [Calls -> BOOLEAN] /\ late \in [Calls -> BOOLEAN]
      BY DEF Init
    <2>3. answer \in [Calls -> [usage : TokenCounts, price : TokenCounts,
                                id : RequestIds \cup {NoId}, ok : BOOLEAN]]
      BY <2>1 DEF Init
    <2> QED BY <2>2, <2>3 DEF Init, TypeOK
  <1>2. CallsMatchRows /\ AnswersAreNotFree /\ ChargedOnce /\ OverageMeansExcess
    BY DEF Init, CallsMatchRows, AnswersAreNotFree, ChargedOnce, OverageMeansExcess
  <1> QED BY <1>1, <1>2 DEF IInv

\* Every step preserves the invariant.
LEMMA InvariantStep == ASSUME IInv, [Next]_vars PROVE IInv'
  <1> USE DEF IInv
  <1>1. ASSUME NEW c \in Calls, listBudgetCurrencies(c) PROVE IInv'
    <2>1. TypeOK'
      <3>1. governed' \in [Calls -> BOOLEAN]
        BY <1>1 DEF listBudgetCurrencies, TypeOK
      <3> QED BY <1>1, <3>1 DEF listBudgetCurrencies, TypeOK
    <2>2. CallsMatchRows'
      BY <1>1 DEF listBudgetCurrencies, TypeOK, CallsMatchRows
    <2>3. AnswersAreNotFree'
      BY <1>1 DEF listBudgetCurrencies, TypeOK, AnswersAreNotFree, duplicate,
          CallsMatchRows
    <2>4. ChargedOnce'
      BY <1>1 DEF listBudgetCurrencies, TypeOK, ChargedOnce, CallsMatchRows
    <2>5. OverageMeansExcess'
      BY <1>1 DEF listBudgetCurrencies, TypeOK, OverageMeansExcess
    <2> QED BY <2>1, <2>2, <2>3, <2>4, <2>5
  <1>2. ASSUME NEW c \in Calls, authorizeAndReserve(c) PROVE IInv'
    <2>1. TypeOK'
      BY <1>2 DEF authorizeAndReserve, TypeOK
    <2>2. CallsMatchRows'
      BY <1>2 DEF authorizeAndReserve, TypeOK, CallsMatchRows
    <2>3. AnswersAreNotFree'
      BY <1>2 DEF authorizeAndReserve, TypeOK, AnswersAreNotFree, duplicate,
          CallsMatchRows
    <2>4. ChargedOnce'
      BY <1>2 DEF authorizeAndReserve, TypeOK, ChargedOnce, CallsMatchRows
    <2>5. OverageMeansExcess'
      BY <1>2 DEF authorizeAndReserve, TypeOK, OverageMeansExcess
    <2> QED BY <2>1, <2>2, <2>3, <2>4, <2>5
  <1>3. ASSUME NEW c \in Calls, budgetExceeded(c) PROVE IInv'
    <2>1. TypeOK'
      BY <1>3 DEF budgetExceeded, TypeOK
    <2>2. CallsMatchRows'
      BY <1>3 DEF budgetExceeded, TypeOK, CallsMatchRows
    <2>3. AnswersAreNotFree'
      BY <1>3 DEF budgetExceeded, TypeOK, AnswersAreNotFree, duplicate, CallsMatchRows
    <2>4. ChargedOnce'
      BY <1>3 DEF budgetExceeded, TypeOK, ChargedOnce, CallsMatchRows
    <2>5. OverageMeansExcess'
      BY <1>3 DEF budgetExceeded, TypeOK, OverageMeansExcess
    <2> QED BY <2>1, <2>2, <2>3, <2>4, <2>5
  <1>4. ASSUME NEW c \in Calls, providerFails(c) PROVE IInv'
    <2>1. TypeOK'
      BY <1>4 DEF providerFails, release, TypeOK
    <2>2. CallsMatchRows'
      BY <1>4 DEF providerFails, release, TypeOK, CallsMatchRows
    <2>3. AnswersAreNotFree'
      BY <1>4 DEF providerFails, release, TypeOK, AnswersAreNotFree, duplicate,
          CallsMatchRows
    <2>4. ChargedOnce'
      BY <1>4 DEF providerFails, release, TypeOK, ChargedOnce, CallsMatchRows
    <2>5. OverageMeansExcess'
      BY <1>4 DEF providerFails, release, TypeOK, OverageMeansExcess
    <2> QED BY <2>1, <2>2, <2>3, <2>4, <2>5
  <1>5. ASSUME NEW c \in Calls, respond(c) PROVE IInv'
    <2>1. TypeOK'
      <3>1. PICK a \in Answers(c) : answer' = [answer EXCEPT ![c] = a]
        BY <1>5 DEF respond
      <3>2. a \in [usage : TokenCounts, price : TokenCounts, id : RequestIds \cup {NoId}, ok : BOOLEAN]
        BY CostAssumption DEF Answers
      <3>3. answer' \in [Calls -> [usage : TokenCounts, price : TokenCounts,
                                  id : RequestIds \cup {NoId}, ok : BOOLEAN]]
        BY <3>1, <3>2 DEF TypeOK
      <3>4. phase' \in [Calls -> {"idle", "priced", "calling", "answered", "rejected", "done"}]
        BY <1>5 DEF respond, TypeOK
      <3> QED BY <1>5, <3>3, <3>4 DEF respond, TypeOK
    <2>2. CallsMatchRows'
      BY <1>5 DEF respond, TypeOK, CallsMatchRows, Answers
    <2>3. AnswersAreNotFree'
      BY <1>5 DEF respond, TypeOK, AnswersAreNotFree, duplicate, CallsMatchRows
    <2>4. ChargedOnce'
      BY <1>5 DEF respond, TypeOK, ChargedOnce, CallsMatchRows
    <2>5. OverageMeansExcess'
      BY <1>5 DEF respond, TypeOK, OverageMeansExcess, CallsMatchRows
    <2> QED BY <2>1, <2>2, <2>3, <2>4, <2>5
  <1>6. ASSUME NEW c \in Calls, releaseDuplicate(c) PROVE IInv'
    <2>1. TypeOK'
      BY <1>6 DEF releaseDuplicate, release, TypeOK
    <2>2. CallsMatchRows'
      BY <1>6 DEF releaseDuplicate, release, TypeOK, CallsMatchRows
    <2>3. AnswersAreNotFree'
      BY <1>6 DEF releaseDuplicate, release, TypeOK, AnswersAreNotFree, duplicate,
          CallsMatchRows
    <2>4. ChargedOnce'
      BY <1>6 DEF releaseDuplicate, release, TypeOK, ChargedOnce, CallsMatchRows
    <2>5. OverageMeansExcess'
      BY <1>6 DEF releaseDuplicate, release, TypeOK, OverageMeansExcess
    <2> QED BY <2>1, <2>2, <2>3, <2>4, <2>5
  <1>7. ASSUME NEW c \in Calls, recordUsageAndCost(c) PROVE IInv'
    <2>1. TypeOK'
      <3>1. calculateCost(answer[c].usage, answer[c].price) \in Nat
        BY <1>7, CostNat DEF recordUsageAndCost, TypeOK, CallsMatchRows
      <3>2. charge' \in [Calls -> Nat] /\ overage' \in [Calls -> Nat]
        BY <1>7, <3>1, EnvelopeIsDearest DEF recordUsageAndCost, settle, TypeOK
      <3> QED BY <1>7, <3>2 DEF recordUsageAndCost, settle, TypeOK
    <2>2. CallsMatchRows'
      BY <1>7 DEF recordUsageAndCost, settle, TypeOK, CallsMatchRows
    <2>3. AnswersAreNotFree'
      BY <1>7 DEF recordUsageAndCost, settle, TypeOK, AnswersAreNotFree, duplicate,
          CallsMatchRows
    <2>4. ChargedOnce'
      BY <1>7 DEF recordUsageAndCost, settle, TypeOK, ChargedOnce, CallsMatchRows,
          duplicate
    <2>5. OverageMeansExcess'
      <3>1. ASSUME calculateCost(answer[c].usage, answer[c].price) > envelope(c)
            PROVE ~(answer[c].usage.input <= Bound[c].input /\ answer[c].usage.output <= Bound[c].output)
        <4>1. calculateMaximumCost(Bound[c], answer[c].price) <= envelope(c)
          BY <1>7, EnvelopeIsDearest DEF recordUsageAndCost, CallsMatchRows
        <4>2. calculateMaximumCost(Bound[c], answer[c].price) \in Nat
          BY CostAssumption, MaximumCostNat DEF TypeOK
        <4>3. calculateCost(answer[c].usage, answer[c].price) \in Nat /\ envelope(c) \in Nat
          BY <1>7, CostNat, EnvelopeIsDearest DEF recordUsageAndCost, TypeOK, CallsMatchRows
        <4>4. /\ answer[c].usage \in TokenCounts /\ answer[c].price \in TokenCounts
              /\ Bound[c] \in [input : Nat, output : Nat] /\ validUsage(answer[c].usage)
          BY <1>7, CostAssumption DEF recordUsageAndCost, TypeOK, CallsMatchRows
        <4>5. ASSUME answer[c].usage.input <= Bound[c].input, answer[c].usage.output <= Bound[c].output
              PROVE calculateCost(answer[c].usage, answer[c].price)
                        <= calculateMaximumCost(Bound[c], answer[c].price)
          BY <4>4, <4>5, MaximumCostIsMaximal
        <4> QED BY <3>1, <4>1, <4>2, <4>3, <4>5
      <3>2. calculateCost(answer[c].usage, answer[c].price) \in Nat /\ envelope(c) \in Nat
        BY <1>7, CostNat, EnvelopeIsDearest DEF recordUsageAndCost, TypeOK, CallsMatchRows
      <3>3. ASSUME overage'[c] > 0
            PROVE calculateCost(answer[c].usage, answer[c].price) > envelope(c)
        BY <1>7, <3>2, <3>3 DEF recordUsageAndCost, settle, TypeOK
      <3>4. answer[c].usage.input \in Nat /\ answer[c].usage.output \in Nat
            /\ Bound[c].input \in Nat /\ Bound[c].output \in Nat
        BY CostAssumption DEF TypeOK, TokenCounts
      <3> QED BY <1>7, <3>1, <3>3, <3>4
              DEF recordUsageAndCost, settle, TypeOK, OverageMeansExcess
    <2> QED BY <2>1, <2>2, <2>3, <2>4, <2>5
  <1>8. ASSUME NEW c \in Calls, recordFails(c) PROVE IInv'
    <2>1. TypeOK'
      BY <1>8 DEF recordFails, TypeOK
    <2>2. CallsMatchRows'
      BY <1>8 DEF recordFails, TypeOK, CallsMatchRows
    <2>3. AnswersAreNotFree'
      BY <1>8 DEF recordFails, TypeOK, AnswersAreNotFree, duplicate, CallsMatchRows
    <2>4. ChargedOnce'
      BY <1>8 DEF recordFails, TypeOK, ChargedOnce, CallsMatchRows
    <2>5. OverageMeansExcess'
      BY <1>8 DEF recordFails, TypeOK, OverageMeansExcess
    <2> QED BY <2>1, <2>2, <2>3, <2>4, <2>5
  <1>9. ASSUME NEW c \in Calls, chargeRejectedResponse(c) PROVE IInv'
    <2>1. TypeOK'
      <3>1. envelope(c) \in Nat
        BY EnvelopeIsDearest
      <3>2. charge' \in [Calls -> Nat] /\ overage' \in [Calls -> Nat]
        BY <1>9, <3>1, EnvelopeIsDearest DEF chargeRejectedResponse, settle, TypeOK
      <3> QED BY <1>9, <3>2 DEF chargeRejectedResponse, settle, TypeOK
    <2>2. CallsMatchRows'
      BY <1>9 DEF chargeRejectedResponse, settle, TypeOK, CallsMatchRows
    <2>3. AnswersAreNotFree'
      BY <1>9 DEF chargeRejectedResponse, settle, TypeOK, AnswersAreNotFree, duplicate,
          CallsMatchRows
    <2>4. ChargedOnce'
      BY <1>9 DEF chargeRejectedResponse, settle, TypeOK, ChargedOnce, CallsMatchRows,
          duplicate
    <2>5. OverageMeansExcess'
      <3>1. overage'[c] = 0
        BY <1>9, EnvelopeIsDearest DEF chargeRejectedResponse, settle, TypeOK
      <3> QED BY <1>9, <3>1 DEF chargeRejectedResponse, settle, TypeOK, OverageMeansExcess
    <2> QED BY <2>1, <2>2, <2>3, <2>4, <2>5
  <1>10. ASSUME NEW c \in Calls, chargeFails(c) PROVE IInv'
    <2>1. TypeOK'
      BY <1>10 DEF chargeFails, TypeOK
    <2>2. CallsMatchRows'
      BY <1>10 DEF chargeFails, TypeOK, CallsMatchRows
    <2>3. AnswersAreNotFree'
      BY <1>10 DEF chargeFails, TypeOK, AnswersAreNotFree, duplicate, CallsMatchRows
    <2>4. ChargedOnce'
      BY <1>10 DEF chargeFails, TypeOK, ChargedOnce, CallsMatchRows
    <2>5. OverageMeansExcess'
      BY <1>10 DEF chargeFails, TypeOK, OverageMeansExcess
    <2> QED BY <2>1, <2>2, <2>3, <2>4, <2>5
  <1>11. ASSUME NEW c \in Calls, expire(c) PROVE IInv'
    <2>1. TypeOK'
      <3>1. late' \in [Calls -> BOOLEAN]
        BY <1>11 DEF expire, TypeOK
      <3> QED BY <1>11, <3>1 DEF expire, TypeOK
    <2>2. CallsMatchRows'
      BY <1>11 DEF expire, Live, TypeOK, CallsMatchRows
    <2>3. AnswersAreNotFree'
      BY <1>11 DEF expire, Live, TypeOK, AnswersAreNotFree, duplicate, CallsMatchRows
    <2>4. ChargedOnce'
      BY <1>11 DEF expire, Live, TypeOK, ChargedOnce, CallsMatchRows
    <2>5. OverageMeansExcess'
      BY <1>11 DEF expire, Live, TypeOK, OverageMeansExcess
    <2> QED BY <2>1, <2>2, <2>3, <2>4, <2>5
  <1>12. ASSUME NEW l \in Limits, saveBudget(l) PROVE IInv'
    <2>1. TypeOK'
      BY <1>12, CostAssumption DEF saveBudget, larger, TypeOK
    <2>2. CallsMatchRows'
      BY <1>12 DEF saveBudget, TypeOK, CallsMatchRows
    <2>3. AnswersAreNotFree'
      BY <1>12 DEF saveBudget, TypeOK, AnswersAreNotFree, duplicate, CallsMatchRows
    <2>4. ChargedOnce'
      BY <1>12 DEF saveBudget, TypeOK, ChargedOnce, CallsMatchRows
    <2>5. OverageMeansExcess'
      BY <1>12 DEF saveBudget, TypeOK, OverageMeansExcess
    <2> QED BY <2>1, <2>2, <2>3, <2>4, <2>5
  <1>13. ASSUME releaseExpiredReservations PROVE IInv'
    <2>1. TypeOK'
      BY <1>13 DEF releaseExpiredReservations, TypeOK
    <2>2. CallsMatchRows'
      BY <1>13 DEF releaseExpiredReservations, TypeOK, CallsMatchRows
    <2>3. AnswersAreNotFree'
      BY <1>13 DEF releaseExpiredReservations, TypeOK, AnswersAreNotFree, duplicate,
          CallsMatchRows
    <2>4. ChargedOnce'
      BY <1>13 DEF releaseExpiredReservations, TypeOK, ChargedOnce, CallsMatchRows
    <2>5. OverageMeansExcess'
      BY <1>13 DEF releaseExpiredReservations, TypeOK, OverageMeansExcess
    <2> QED BY <2>1, <2>2, <2>3, <2>4, <2>5
  <1>14. ASSUME crash PROVE IInv'
    <2>1. TypeOK'
      BY <1>14 DEF crash, TypeOK
    <2>2. CallsMatchRows'
      BY <1>14 DEF crash, TypeOK, CallsMatchRows
    <2>3. AnswersAreNotFree'
      BY <1>14 DEF crash, TypeOK, AnswersAreNotFree, duplicate, CallsMatchRows
    <2>4. ChargedOnce'
      BY <1>14 DEF crash, TypeOK, ChargedOnce, CallsMatchRows
    <2>5. OverageMeansExcess'
      BY <1>14 DEF crash, TypeOK, OverageMeansExcess
    <2> QED BY <2>1, <2>2, <2>3, <2>4, <2>5
  <1>15. ASSUME UNCHANGED vars PROVE IInv'
    BY <1>15 DEF vars, TypeOK, CallsMatchRows, AnswersAreNotFree, ChargedOnce, OverageMeansExcess,
          duplicate
  <1> QED
    BY <1>1, <1>2, <1>3, <1>4, <1>5, <1>6, <1>7, <1>8, <1>9, <1>10,
       <1>11, <1>12, <1>13, <1>14, <1>15
    DEF Next

\* The invariant holds in every reachable state.
THEOREM Invariance == Spec => []IInv
  BY InvariantInit, InvariantStep, PTL DEF Spec

\* Rows and callers keep their types; no amount is negative.
THEOREM TypeCorrect == Spec => []TypeOK
  BY Invariance, PTL DEF IInv

\* Reserved capacity of an answered call is not given back for nothing.
THEOREM NoFreeAnswers == Spec => []AnswersAreNotFree
  BY Invariance, PTL DEF IInv

\* No provider request is charged twice.
THEOREM OneChargePerRequest == Spec => []ChargedOnce
  BY Invariance, PTL DEF IInv

\* Overage is recorded only for usage beyond the bounds of its request.
THEOREM OverageIsExcess == Spec => []OverageMeansExcess
  BY Invariance, PTL DEF IInv

\* Charges are sound in every reachable state.
THEOREM ChargesAreSafe == Spec => []CostSafety
  BY TypeCorrect, NoFreeAnswers, OneChargePerRequest, OverageIsExcess, PTL DEF CostSafety

-----------------------------------------------------------------------------
(* Sums over finite sets *)

Pick(s) == CHOOSE x \in s : TRUE

\* One step of the fold that SumFunctionOnSet is.
FoldStep(f, it, s) == IF s = {} THEN 0 ELSE f[Pick(s)] + it[s \ {Pick(s)}]
Fold(f, S, it) == it = [s \in SUBSET S |-> FoldStep(f, it, s)]

LEMMA SumIsFold ==
    ASSUME NEW f, NEW S
    PROVE SumFunctionOnSet(f, S) = (CHOOSE it : Fold(f, S, it))[S]
  BY DEF SumFunctionOnSet, FoldFunctionOnSet, MapThenFoldSet, Fold, FoldStep, Pick

\* Induction for a set of numbers.
LEMMA AllNumbers ==
    ASSUME NEW T, 0 \in T, \A n \in Nat : n \in T => n + 1 \in T
    PROVE Nat \subseteq T
  <1> SUFFICES ASSUME Nat \ T # {} PROVE FALSE
    OBVIOUS
  <1>1. PICK n \in Nat \ T : \A m \in Nat \ T : ~(<<m, n>> \in OpToRel(<, Nat))
    <2>1. Nat \ T \subseteq Nat
      OBVIOUS
    <2> QED BY <2>1, NatLessThanWellFounded, WFMin
  <1>2. n \in Nat /\ n \notin T
    OBVIOUS
  <1>3. n # 0
    BY <1>2
  <1>4. n - 1 \in Nat /\ (n - 1) + 1 = n
    BY <1>2, <1>3
  <1>5. n - 1 \notin T
    BY <1>2, <1>4
  <1>6. <<n - 1, n>> \in OpToRel(<, Nat)
    BY <1>2, <1>4 DEF OpToRel
  <1> QED BY <1>1, <1>4, <1>5, <1>6

\* What is left of a set without one element.
LEMMA OneLess ==
    ASSUME NEW s, IsFiniteSet(s), NEW x \in s
    PROVE  /\ IsFiniteSet(s \ {x}) /\ Cardinality(s) \in Nat
           /\ Cardinality(s) # 0 /\ Cardinality(s \ {x}) = Cardinality(s) - 1
  BY FS_RemoveElement, FS_CardinalityType, FS_EmptySet

LEMMA PickLeaves ==
    ASSUME NEW s, s # {}, IsFiniteSet(s)
    PROVE  /\ Pick(s) \in s /\ IsFiniteSet(s \ {Pick(s)})
           /\ Cardinality(s) \in Nat /\ Cardinality(s) # 0
           /\ Cardinality(s \ {Pick(s)}) = Cardinality(s) - 1
  BY OneLess DEF Pick

\* The fold of a finite set exists ...
LEMMA FoldExists ==
    ASSUME NEW f, NEW S, IsFiniteSet(S)
    PROVE  \E it : Fold(f, S, it)
  <1> DEFINE Upto(n, it) == \A s \in SUBSET S : Cardinality(s) <= n => it[s] = FoldStep(f, it, s)
             More(it) == [s \in SUBSET S |-> FoldStep(f, it, s)]
             T == {n \in Nat : \E it : Upto(n, it)}
  <1>1. \A s \in SUBSET S : IsFiniteSet(s) /\ Cardinality(s) \in Nat /\ Cardinality(s) <= Cardinality(S)
    BY FS_Subset, FS_CardinalityType
  <1>2. ASSUME NEW n \in Nat, NEW it,
               \A s \in SUBSET S : Cardinality(s) < n => it[s] = FoldStep(f, it, s)
        PROVE  Upto(n, More(it))
    <2> SUFFICES ASSUME NEW s \in SUBSET S, Cardinality(s) <= n PROVE More(it)[s] = FoldStep(f, More(it), s)
      OBVIOUS
    <2>1. CASE s = {}
      BY <2>1 DEF FoldStep
    <2>2. CASE s # {}
      <3> DEFINE r == s \ {Pick(s)}
      <3>1. r \in SUBSET S /\ Cardinality(r) < n
        BY <1>1, <2>2, PickLeaves
      <3>2. it[r] = FoldStep(f, it, r)
        BY <1>2, <3>1
      <3>3. More(it)[r] = it[r]
        BY <3>1, <3>2
      <3> QED BY <3>3, <2>2 DEF FoldStep
    <2> QED BY <2>1, <2>2
  <1>3. 0 \in T
    <2>1. \A s \in SUBSET S : Cardinality(s) < 0 => 0[s] = FoldStep(f, 0, s)
      BY <1>1
    <2>2. Upto(0, More(0))
      <3> HIDE DEF Upto, More
      <3> QED BY <2>1, <1>2
    <2> QED BY <2>2
  <1>4. ASSUME NEW n \in Nat, n \in T PROVE n + 1 \in T
    <2>1. PICK it : Upto(n, it)
      BY <1>4
    <2>2. Upto(n + 1, More(it))
      <3>1. \A s \in SUBSET S : Cardinality(s) < n + 1 => it[s] = FoldStep(f, it, s)
        BY <1>1, <2>1
      <3> DEFINE m == n + 1
      <3>2. m \in Nat /\ \A s \in SUBSET S : Cardinality(s) < m => it[s] = FoldStep(f, it, s)
        BY <3>1
      <3> HIDE DEF Upto, More, m
      <3>3. Upto(m, More(it))
        BY <3>2, <1>2
      <3> QED BY <3>3 DEF m
    <2>3. \E jt : Upto(n + 1, jt)
      <3> HIDE DEF Upto, More
      <3> QED BY <2>2
    <2> QED BY <2>3
  <1>5. PICK it : Upto(Cardinality(S), it)
    <2>1. Nat \subseteq T
      <3> HIDE DEF T
      <3> QED BY <1>3, <1>4, AllNumbers
    <2> QED BY <2>1, <1>1
  <1>6. \A s \in SUBSET S : it[s] = FoldStep(f, it, s)
    BY <1>1, <1>5
  <1>7. \A s \in SUBSET S : FoldStep(f, More(it), s) = FoldStep(f, it, s)
    <2> SUFFICES ASSUME NEW s \in SUBSET S, s # {} PROVE FoldStep(f, More(it), s) = FoldStep(f, it, s)
      BY DEF FoldStep
    <2>1. s \ {Pick(s)} \in SUBSET S
      OBVIOUS
    <2>2. More(it)[s \ {Pick(s)}] = it[s \ {Pick(s)}]
      BY <1>6, <2>1
    <2> QED BY <2>2 DEF FoldStep
  <1>8. Fold(f, S, More(it))
    BY <1>7 DEF Fold
  <1> QED BY <1>8

\* ... and is determined by the values it sums.
LEMMA FoldIsUnique ==
    ASSUME NEW f, NEW g, NEW S, IsFiniteSet(S), NEW R \in SUBSET S, \A x \in R : f[x] = g[x],
           NEW it, NEW jt, Fold(f, S, it), Fold(g, R, jt)
    PROVE  it[R] = jt[R]
  <1> DEFINE T == {n \in Nat : \A s \in SUBSET R : Cardinality(s) = n => it[s] = jt[s]}
  <1>1. \A s \in SUBSET R : IsFiniteSet(s) /\ Cardinality(s) \in Nat
    BY FS_Subset, FS_CardinalityType
  <1>2. \A s \in SUBSET R : it[s] = FoldStep(f, it, s) /\ jt[s] = FoldStep(g, jt, s)
    BY DEF Fold
  <1>3. 0 \in T
    BY <1>1, <1>2, FS_EmptySet DEF FoldStep
  <1>4. ASSUME NEW n \in Nat, n \in T PROVE n + 1 \in T
    <2> SUFFICES ASSUME NEW s \in SUBSET R, Cardinality(s) = n + 1 PROVE it[s] = jt[s]
      OBVIOUS
    <2>1. s # {}
      BY FS_EmptySet
    <2>2. Pick(s) \in R /\ s \ {Pick(s)} \in SUBSET R /\ Cardinality(s \ {Pick(s)}) = n
      BY <1>1, <2>1, PickLeaves
    <2>3. it[s \ {Pick(s)}] = jt[s \ {Pick(s)}]
      BY <1>4, <2>2
    <2> QED BY <1>2, <2>1, <2>2, <2>3 DEF FoldStep
  <1>5. Nat \subseteq T
    <2> HIDE DEF T
    <2> QED BY <1>3, <1>4, AllNumbers
  <1> QED BY <1>1, <1>5

LEMMA SumOfEqual ==
    ASSUME NEW f, NEW g, NEW S, IsFiniteSet(S), \A x \in S : f[x] = g[x]
    PROVE  SumFunctionOnSet(f, S) = SumFunctionOnSet(g, S)
  <1> DEFINE it == CHOOSE t : Fold(f, S, t)
             jt == CHOOSE t : Fold(g, S, t)
  <1>1. Fold(f, S, it) /\ Fold(g, S, jt)
    BY FoldExists
  <1>2. SumFunctionOnSet(f, S) = it[S] /\ SumFunctionOnSet(g, S) = jt[S]
    BY SumIsFold
  <1>3. S \in SUBSET S
    OBVIOUS
  <1> HIDE DEF it, jt
  <1>4. it[S] = jt[S]
    BY <1>1, <1>3, FoldIsUnique
  <1> QED BY <1>2, <1>4

LEMMA SumPicks ==
    ASSUME NEW f, NEW S, IsFiniteSet(S)
    PROVE  SumFunctionOnSet(f, S) =
             IF S = {} THEN 0 ELSE f[Pick(S)] + SumFunctionOnSet(f, S \ {Pick(S)})
  <1> DEFINE it == CHOOSE t : Fold(f, S, t)
             R == S \ {Pick(S)}
             jt == CHOOSE t : Fold(f, R, t)
  <1>1. IsFiniteSet(R) /\ R \in SUBSET S
    BY FS_Subset
  <1>2. Fold(f, S, it) /\ Fold(f, R, jt)
    BY <1>1, FoldExists
  <1>3. it[R] = jt[R]
    <2> HIDE DEF R, it, jt
    <2> QED BY <1>1, <1>2, FoldIsUnique
  <1>4. it[S] = FoldStep(f, it, S)
    BY <1>2 DEF Fold
  <1> HIDE DEF it, jt
  <1>5. SumFunctionOnSet(f, S) = it[S] /\ SumFunctionOnSet(f, R) = jt[R]
    BY SumIsFold DEF it, jt
  <1> QED BY <1>3, <1>4, <1>5 DEF FoldStep

LEMMA SumIsNatural ==
    ASSUME NEW f, NEW S, IsFiniteSet(S), \A x \in S : f[x] \in Nat
    PROVE  SumFunctionOnSet(f, S) \in Nat
  <1> DEFINE T == {n \in Nat : \A s \in SUBSET S : Cardinality(s) = n => SumFunctionOnSet(f, s) \in Nat}
  <1>1. \A s \in SUBSET S : IsFiniteSet(s) /\ Cardinality(s) \in Nat
    BY FS_Subset, FS_CardinalityType
  <1>2. 0 \in T
    <2>1. SumFunctionOnSet(f, {}) = 0
      BY FS_EmptySet, SumPicks
    <2> QED BY <1>1, <2>1, FS_EmptySet
  <1>3. ASSUME NEW n \in Nat, n \in T PROVE n + 1 \in T
    <2> SUFFICES ASSUME NEW s \in SUBSET S, Cardinality(s) = n + 1 PROVE SumFunctionOnSet(f, s) \in Nat
      OBVIOUS
    <2>1. s # {}
      BY FS_EmptySet
    <2>2. Pick(s) \in S /\ s \ {Pick(s)} \in SUBSET S /\ Cardinality(s \ {Pick(s)}) = n
      BY <1>1, <2>1, PickLeaves
    <2>3. SumFunctionOnSet(f, s \ {Pick(s)}) \in Nat /\ f[Pick(s)] \in Nat
      BY <1>3, <2>2
    <2>4. SumFunctionOnSet(f, s) = f[Pick(s)] + SumFunctionOnSet(f, s \ {Pick(s)})
      BY <1>1, <2>1, SumPicks
    <2> QED BY <2>3, <2>4
  <1>4. Nat \subseteq T
    <2> HIDE DEF T
    <2> QED BY <1>2, <1>3, AllNumbers
  <1> QED BY <1>1, <1>4

\* The sum of a set is that of the set without any one element, and that element.
LEMMA SumRemoves ==
    ASSUME NEW f, NEW S, IsFiniteSet(S), \A x \in S : f[x] \in Nat, NEW e0 \in S
    PROVE  SumFunctionOnSet(f, S) = f[e0] + SumFunctionOnSet(f, S \ {e0})
  <1> DEFINE Good(s) == \A e \in s : SumFunctionOnSet(f, s) = f[e] + SumFunctionOnSet(f, s \ {e})
             T == {n \in Nat : \A s \in SUBSET S : Cardinality(s) = n => Good(s)}
  <1>1. \A s \in SUBSET S : IsFiniteSet(s) /\ Cardinality(s) \in Nat
    BY FS_Subset, FS_CardinalityType
  <1>2. \A s \in SUBSET S : SumFunctionOnSet(f, s) \in Nat
    BY <1>1, SumIsNatural
  <1>3. 0 \in T
    BY <1>1, FS_EmptySet
  <1>4. ASSUME NEW n \in Nat, n \in T PROVE n + 1 \in T
    <2> SUFFICES ASSUME NEW s \in SUBSET S, Cardinality(s) = n + 1, NEW e \in s,
                        Pick(s) # e
                 PROVE  SumFunctionOnSet(f, s) = f[e] + SumFunctionOnSet(f, s \ {e})
      <3>1. ASSUME NEW s \in SUBSET S, NEW e \in s, Pick(s) = e
            PROVE  SumFunctionOnSet(f, s) = f[e] + SumFunctionOnSet(f, s \ {e})
        BY <1>1, <3>1, SumPicks
      <3> QED BY <3>1
    <2> DEFINE y == Pick(s)
               r == s \ {y}
               q == s \ {e}
    <2>1. y \in S /\ y \in s /\ Cardinality(r) = n
      BY <1>1, PickLeaves
    <2>2. SumFunctionOnSet(f, s) = f[y] + SumFunctionOnSet(f, r)
      BY <1>1, SumPicks
    <2>3. SumFunctionOnSet(f, r) = f[e] + SumFunctionOnSet(f, r \ {e})
      BY <1>4, <2>1
    <2>4. SumFunctionOnSet(f, q) = f[y] + SumFunctionOnSet(f, q \ {y})
      <3>1. y \in q /\ q \in SUBSET S
        BY <2>1
      <3>2. IsFiniteSet(s)
        BY <1>1
      <3>3. Cardinality(q) = n
        BY <3>2, OneLess
      <3> QED BY <3>1, <3>3, <1>4
    <2>5. r \ {e} = q \ {y}
      OBVIOUS
    <2>6. f[e] \in Nat /\ f[y] \in Nat /\ SumFunctionOnSet(f, r \ {e}) \in Nat
      BY <1>2, <2>1
    <2> HIDE DEF y, r, q
    <2>7. SumFunctionOnSet(f, s) = f[e] + SumFunctionOnSet(f, q)
      BY <2>2, <2>3, <2>4, <2>5, <2>6
    <2> QED BY <2>7 DEF q
  <1>5. Nat \subseteq T
    <2> HIDE DEF T
    <2> QED BY <1>3, <1>4, AllNumbers
  <1> QED BY <1>1, <1>5

\* More elements, or greater ones, do not make a sum less.
LEMMA SumGrows ==
    ASSUME NEW f, NEW g, NEW S, NEW R \in SUBSET S, IsFiniteSet(S),
           \A x \in S : f[x] \in Nat /\ g[x] \in Nat,
           \A x \in R : f[x] <= g[x]
    PROVE  SumFunctionOnSet(f, R) <= SumFunctionOnSet(g, S)
  <1> DEFINE Good(s) == SumFunctionOnSet(f, s \cap R) <= SumFunctionOnSet(g, s)
             T == {n \in Nat : \A s \in SUBSET S : Cardinality(s) = n => Good(s)}
  <1>1. \A s \in SUBSET S : IsFiniteSet(s) /\ IsFiniteSet(s \cap R) /\ Cardinality(s) \in Nat
    BY FS_Subset, FS_CardinalityType
  <1>2. \A s \in SUBSET S : SumFunctionOnSet(f, s \cap R) \in Nat /\ SumFunctionOnSet(g, s) \in Nat
    BY <1>1, SumIsNatural
  <1>3. 0 \in T
    <2>1. SumFunctionOnSet(f, {}) = 0 /\ SumFunctionOnSet(g, {}) = 0
      BY FS_EmptySet, SumPicks
    <2>2. {} \cap R = {}
      OBVIOUS
    <2> QED BY <1>1, <2>1, <2>2, FS_EmptySet
  <1>4. ASSUME NEW n \in Nat, n \in T PROVE n + 1 \in T
    <2> SUFFICES ASSUME NEW s \in SUBSET S, Cardinality(s) = n + 1 PROVE Good(s)
      OBVIOUS
    <2>1. PICK e \in s : TRUE
      BY FS_EmptySet
    <2> DEFINE q == s \ {e}
    <2>2. IsFiniteSet(s)
      BY <1>1
    <2>3. Cardinality(q) = n /\ q \in SUBSET S
      BY <2>1, <2>2, OneLess
    <2>4. Good(q)
      BY <1>4, <2>3
    <2>5. SumFunctionOnSet(g, s) = g[e] + SumFunctionOnSet(g, q)
      BY <2>1, <2>2, SumRemoves
    <2>6. f[e] \in Nat /\ g[e] \in Nat /\ SumFunctionOnSet(g, q) \in Nat /\ SumFunctionOnSet(f, q \cap R) \in Nat
      BY <1>2, <2>1, <2>3
    <2>7. CASE e \in R
      <3>1. (s \cap R) \ {e} = q \cap R /\ e \in s \cap R /\ IsFiniteSet(s \cap R)
        BY <1>1, <2>1, <2>7
      <3>2. SumFunctionOnSet(f, s \cap R) = f[e] + SumFunctionOnSet(f, q \cap R)
        BY <3>1, SumRemoves
      <3>3. f[e] <= g[e]
        BY <2>7
      <3> QED BY <2>4, <2>5, <2>6, <3>2, <3>3
    <2>8. CASE e \notin R
      <3>1. s \cap R = q \cap R
        BY <2>8
      <3>2. SumFunctionOnSet(f, s \cap R) <= SumFunctionOnSet(g, q)
        BY <2>4, <3>1
      <3>3. SumFunctionOnSet(f, s \cap R) \in Nat
        BY <2>6, <3>1
      <3> HIDE DEF q
      <3> QED BY <2>5, <2>6, <3>2, <3>3
    <2> QED BY <2>7, <2>8
  <1>5. Nat \subseteq T
    <2> HIDE DEF T
    <2> QED BY <1>3, <1>4, AllNumbers
  <1>6. Good(S)
    BY <1>1, <1>5
  <1>7. S \cap R = R
    OBVIOUS
  <1> QED BY <1>6, <1>7
-----------------------------------------------------------------------------
(* The project budget *)

\* What governed calls have spent, overage aside, and who holds a reservation.
net == [c \in Calls |-> charge[c] - overage[c]]
envelopes == [c \in Calls |-> envelope(c)]
paying == {c \in recorded : governed[c]}
holding == {c \in Calls : governed[c] /\ Live(c)}
withRows == {c \in Calls : hold[c] # "none"}

\* A governed call holds rows from its reservation to its end, calls without a
\* budget do not appear before there is one, and the history of limits is one.
RowsOfCalls ==
    /\ IsFiniteSet(recorded) /\ IsFiniteSet(withRows)
    /\ \A c \in Calls :
        /\ phase[c] \in {"idle", "priced"} => hold[c] = "none"
        /\ governed[c] /\ phase[c] \in {"calling", "answered", "rejected"} => hold[c] # "none"
        /\ governed[c] => limit # Unset
        /\ overage[c] <= charge[c]
    /\ limit # Unset => limit <= ceiling

BudgetInv == IInv /\ RowsOfCalls /\ BudgetHolds

\* The sums are sums of natural numbers over finite sets.
SumsOK ==
    /\ IsFiniteSet(paying) /\ IsFiniteSet(holding)
    /\ \A c \in Calls : net[c] \in Nat /\ envelopes[c] \in Nat /\ net[c] <= charge[c] /\ charge[c] \in Nat
    /\ SumFunctionOnSet(net, paying) \in Nat /\ SumFunctionOnSet(envelopes, holding) \in Nat
    /\ BudgetHolds <=> SumFunctionOnSet(net, paying) + SumFunctionOnSet(envelopes, holding) <= ceiling
    /\ reservedMicros = SumFunctionOnSet(envelopes, holding)
    /\ ceiling \in Nat /\ spentMicros \in Nat /\ SumFunctionOnSet(net, paying) <= spentMicros

LEMMA BudgetSums == ASSUME IInv, RowsOfCalls PROVE SumsOK
  <1>1. holding \subseteq withRows /\ paying \in SUBSET recorded /\ recorded \subseteq Calls
    BY DEF holding, withRows, Live, paying, IInv, TypeOK
  <1>2. IsFiniteSet(paying) /\ IsFiniteSet(holding) /\ IsFiniteSet(recorded)
    BY <1>1, FS_Subset DEF RowsOfCalls
  <1>3. \A c \in Calls : net[c] \in Nat /\ envelopes[c] \in Nat /\ net[c] <= charge[c] /\ charge[c] \in Nat
    <2> SUFFICES ASSUME NEW c \in Calls
                 PROVE  net[c] \in Nat /\ envelopes[c] \in Nat /\ net[c] <= charge[c] /\ charge[c] \in Nat
      OBVIOUS
    <2>1. charge[c] \in Nat /\ overage[c] \in Nat /\ overage[c] <= charge[c]
      BY DEF RowsOfCalls, IInv, TypeOK
    <2>2. envelope(c) \in Nat
      BY EnvelopeIsDearest
    <2> QED BY <2>1, <2>2 DEF net, envelopes
  <1>4. holding \subseteq Calls
    BY DEF holding
  <1>5. SumFunctionOnSet(net, paying) \in Nat /\ SumFunctionOnSet(envelopes, holding) \in Nat
    BY <1>1, <1>2, <1>3, <1>4, SumIsNatural
  <1>6. spentMicros \in Nat
    BY <1>1, <1>2, <1>3, SumIsNatural DEF spentMicros
  <1>7. SumFunctionOnSet(net, paying) <= spentMicros
    <2>1. \A c \in recorded : net[c] \in Nat /\ charge[c] \in Nat
      BY <1>1, <1>3
    <2>2. \A c \in paying : net[c] <= charge[c]
      BY <1>1, <1>3
    <2> QED BY <1>1, <1>2, <2>1, <2>2, SumGrows DEF spentMicros
  <1>8. reservedMicros = SumFunctionOnSet(envelopes, holding)
    BY DEF reservedMicros, envelopes, holding
  <1>9. BudgetHolds <=> SumFunctionOnSet(net, paying) + SumFunctionOnSet(envelopes, holding) <= ceiling
    BY <1>8 DEF BudgetHolds, net, paying
  <1>10. ceiling \in Nat
    BY DEF IInv, TypeOK
  <1> QED BY <1>2, <1>3, <1>5, <1>6, <1>7, <1>8, <1>9, <1>10 DEF SumsOK

\* A step that records nothing and reserves nothing keeps within the budget.
LEMMA BudgetRelaxes ==
    ASSUME BudgetInv, IInv', RowsOfCalls', UNCHANGED <<charge, overage, recorded>>,
           paying' = paying, holding' \subseteq holding, ceiling <= ceiling'
    PROVE  BudgetInv'
  <1>1. net' = net /\ envelopes' = envelopes
    BY DEF net, envelopes, envelope
  <1>2. SumFunctionOnSet(envelopes, holding') <= SumFunctionOnSet(envelopes, holding)
    <2>1. \A c \in holding : envelopes[c] \in Nat
      BY BudgetSums DEF BudgetInv, SumsOK, holding
    <2>2. IsFiniteSet(holding) /\ holding' \in SUBSET holding
      BY BudgetSums DEF BudgetInv, SumsOK
    <2>3. \A c \in holding' : envelopes[c] <= envelopes[c]
      BY <2>1
    <2> QED BY <2>1, <2>2, <2>3, SumGrows
  <1>3. SumFunctionOnSet(net, paying) + SumFunctionOnSet(envelopes, holding) <= ceiling
    BY BudgetSums DEF BudgetInv, SumsOK
  <1> DEFINE n == SumFunctionOnSet(net, paying)
             h == SumFunctionOnSet(envelopes, holding)
             hp == SumFunctionOnSet(envelopes, holding')
  <1>4. n \in Nat /\ h \in Nat /\ ceiling \in Nat
    BY BudgetSums DEF BudgetInv, SumsOK
  <1>5. SumFunctionOnSet(net, paying)' = n /\ SumFunctionOnSet(envelopes, holding)' = hp
    BY <1>1
  <1>6. SumsOK'
    BY BudgetSums, PTL
  <1> HIDE DEF n, h, hp
  <1>7. n + h <= ceiling /\ hp <= h
    BY <1>2, <1>3 DEF n, h, hp
  <1>8. hp \in Nat /\ ceiling' \in Nat /\ (BudgetHolds' <=> n + hp <= ceiling')
    BY <1>5, <1>6 DEF SumsOK
  <1>9. BudgetHolds'
    BY <1>4, <1>7, <1>8
  <1> QED BY <1>9 DEF BudgetInv

LEMMA RowsStep == ASSUME IInv, IInv', RowsOfCalls, [Next]_vars PROVE RowsOfCalls'
  <1> DEFINE Calm == \A c \in Calls :
                 /\ phase[c] \in {"idle", "priced"} => hold[c] = "none"
                 /\ governed[c] /\ phase[c] \in {"calling", "answered", "rejected"} => hold[c] # "none"
                 /\ governed[c] => limit # Unset
             Rows == IsFiniteSet(recorded) /\ IsFiniteSet(withRows)
             Less == \A c \in Calls : overage[c] <= charge[c]
             Past == limit # Unset => limit <= ceiling
  <1>0. TypeOK /\ TypeOK' /\ Calm /\ Rows /\ Less /\ Past
    BY DEF IInv, RowsOfCalls
  <1> SUFFICES Calm' /\ Rows' /\ Less' /\ Past'
    BY DEF RowsOfCalls
  <1>q. ASSUME UNCHANGED <<charge, overage, recorded, limit, ceiling>>, withRows' \subseteq withRows
        PROVE  Rows' /\ Less' /\ Past'
    BY <1>0, <1>q, FS_Subset
  <1>s. ASSUME NEW c \in Calls, NEW micros \in Nat, settle(c, micros),
               UNCHANGED <<limit, governed, ceiling>>, phase' = [phase EXCEPT ![c] = "done"]
        PROVE  Calm' /\ Rows' /\ Less' /\ Past'
    <2>1. Calm' /\ Past'
      BY <1>0, <1>s DEF settle, TypeOK
    <2>2. withRows' = withRows
      BY <1>0, <1>s DEF settle, TypeOK, withRows
    <2>3. Rows'
      BY <1>0, <1>s, <2>2, FS_AddElement DEF settle
    <2>4. Less'
      <3> SUFFICES ASSUME NEW d \in Calls PROVE overage'[d] <= charge'[d]
        OBVIOUS
      <3>1. CASE d = c
        <4>1. charge'[c] = micros /\ overage'[c] \in {0, micros - envelope(c)}
          BY <1>0, <1>s DEF settle, TypeOK
        <4>2. envelope(c) \in Nat
          BY EnvelopeIsDearest
        <4> QED BY <3>1, <4>1, <4>2
      <3>2. CASE d # c
        <4>1. charge'[d] = charge[d] /\ overage'[d] = overage[d]
          BY <1>0, <1>s, <3>2 DEF settle, TypeOK
        <4> QED BY <1>0, <4>1
      <3> QED BY <3>1, <3>2
    <2> QED BY <2>1, <2>3, <2>4
  <1>1. ASSUME NEW l \in Limits, saveBudget(l) PROVE Calm' /\ Rows' /\ Less' /\ Past'
    <2>1. l \in Nat /\ l # Unset /\ ceiling \in Nat
      BY <1>0, CostAssumption DEF TypeOK
    <2> QED BY <1>0, <1>1, <2>1 DEF saveBudget, larger, withRows
  <1>2. ASSUME NEW c \in Calls, listBudgetCurrencies(c) PROVE Calm' /\ Rows' /\ Less' /\ Past'
    <2>1. Calm'
      BY <1>0, <1>2 DEF listBudgetCurrencies, TypeOK
    <2>2. withRows' = withRows
      BY <1>2 DEF listBudgetCurrencies, withRows
    <2> QED BY <1>2, <2>1, <2>2, <1>q DEF listBudgetCurrencies
  <1>3. ASSUME NEW c \in Calls, authorizeAndReserve(c) PROVE Calm' /\ Rows' /\ Less' /\ Past'
    <2>1. Calm'
      BY <1>0, <1>3 DEF authorizeAndReserve, TypeOK
    <2>2. withRows' \subseteq withRows \cup {c}
      BY <1>0, <1>3 DEF authorizeAndReserve, TypeOK, withRows
    <2>3. IsFiniteSet(withRows')
      BY <1>0, <2>2, FS_AddElement, FS_Subset
    <2> QED BY <1>0, <1>3, <2>1, <2>3 DEF authorizeAndReserve
  <1>4. ASSUME NEW c \in Calls, budgetExceeded(c) \/ recordFails(c) \/ chargeFails(c) \/ respond(c)
        PROVE  Calm' /\ Rows' /\ Less' /\ Past'
    <2>1. /\ UNCHANGED <<limit, governed, hold, charge, overage, recorded, ceiling>>
          /\ phase[c] # "idle" /\ \/ phase' = [phase EXCEPT ![c] = "done"]
                                  \/ phase[c] \in {"calling", "answered"} /\ \E p \in {"answered", "rejected"} : phase' = [phase EXCEPT ![c] = p]
      BY <1>4 DEF budgetExceeded, recordFails, chargeFails, respond
    <2>2. Calm'
      <3>1. CASE phase' = [phase EXCEPT ![c] = "done"]
        BY <1>0, <2>1, <3>1 DEF TypeOK
      <3>2. CASE phase[c] \in {"calling", "answered"} /\ \E p \in {"answered", "rejected"} : phase' = [phase EXCEPT ![c] = p]
        BY <1>0, <2>1, <3>2 DEF TypeOK
      <3> QED BY <2>1, <3>1, <3>2
    <2>3. withRows' = withRows
      BY <2>1 DEF withRows
    <2> QED BY <2>1, <2>2, <2>3, <1>q
  <1>5. ASSUME NEW c \in Calls, providerFails(c) \/ releaseDuplicate(c) PROVE Calm' /\ Rows' /\ Less' /\ Past'
    <2>1. /\ UNCHANGED <<limit, governed, charge, overage, recorded, ceiling>>
          /\ phase[c] # "idle" /\ phase' = [phase EXCEPT ![c] = "done"] /\ release(c)
      BY <1>5 DEF providerFails, releaseDuplicate
    <2>2. Calm'
      BY <1>0, <2>1 DEF TypeOK, release
    <2>3. withRows' = withRows
      BY <1>0, <2>1 DEF withRows, release, TypeOK
    <2> QED BY <2>1, <2>2, <2>3, <1>q
  <1>6. ASSUME NEW c \in Calls, recordUsageAndCost(c) PROVE Calm' /\ Rows' /\ Less' /\ Past'
    <2> DEFINE micros == calculateCost(answer[c].usage, answer[c].price)
    <2>1. charge'[c] = micros
      BY <1>0, <1>6 DEF recordUsageAndCost, settle, TypeOK
    <2>2. micros \in Nat
      <3> HIDE DEF micros
      <3> QED BY <1>0, <2>1 DEF TypeOK
    <2>3. /\ settle(c, micros) /\ UNCHANGED <<limit, governed, ceiling>> /\ phase' = [phase EXCEPT ![c] = "done"]
      BY <1>6 DEF recordUsageAndCost
    <2> HIDE DEF micros
    <2> QED BY <2>2, <2>3, <1>s
  <1>7. ASSUME NEW c \in Calls, chargeRejectedResponse(c) PROVE Calm' /\ Rows' /\ Less' /\ Past'
    BY <1>7, <1>s, EnvelopeIsDearest DEF chargeRejectedResponse
  <1>8. ASSUME NEW c \in Calls, expire(c) PROVE Calm' /\ Rows' /\ Less' /\ Past'
    <2>1. UNCHANGED <<limit, phase, governed, hold, charge, overage, recorded, ceiling>>
      BY <1>8 DEF expire
    <2> QED BY <1>0, <2>1 DEF withRows
  <1>9. CASE releaseExpiredReservations
    <2>1. \A c \in Calls : hold'[c] = "none" <=> hold[c] = "none"
      BY <1>0, <1>9 DEF releaseExpiredReservations, TypeOK
    <2>2. withRows' = withRows
      BY <2>1 DEF withRows
    <2>3. Calm'
      BY <1>0, <1>9, <2>1 DEF releaseExpiredReservations
    <2> QED BY <1>9, <2>2, <2>3, <1>q DEF releaseExpiredReservations
  <1>10. CASE crash
    <2>1. Calm'
      BY <1>0, <1>10 DEF crash, TypeOK
    <2>2. withRows' = withRows
      BY <1>10 DEF crash, withRows
    <2> QED BY <1>10, <2>1, <2>2, <1>q DEF crash
  <1>11. CASE UNCHANGED vars
    BY <1>0, <1>11 DEF vars, withRows
  <1> QED BY <1>1, <1>2, <1>3, <1>4, <1>5, <1>6, <1>7, <1>8, <1>9, <1>10, <1>11 DEF Next

\* What a call is charged within its reservation replaces the reservation.
LEMMA SettleKeepsBudget ==
    ASSUME BudgetInv, IInv', RowsOfCalls', NEW c \in Calls, NEW micros \in Nat, settleable(c),
           settle(c, micros), phase[c] \in {"answered", "rejected"},
           UNCHANGED <<governed, late, ceiling>>
    PROVE  BudgetInv'
  <1>0. TypeOK /\ c \notin recorded /\ IInv /\ RowsOfCalls
    BY DEF BudgetInv, IInv, CallsMatchRows
  <1>1. \A d \in Calls : d # c => net'[d] = net[d]
    BY <1>0 DEF settle, TypeOK, net
  <1>2. envelopes' = envelopes
    BY DEF envelopes, envelope
  <1>3. /\ SumFunctionOnSet(net, paying) \in Nat /\ SumFunctionOnSet(envelopes, holding) \in Nat
        /\ IsFiniteSet(paying) /\ IsFiniteSet(holding) /\ ceiling \in Nat
        /\ \A d \in Calls : net[d] \in Nat /\ envelopes[d] \in Nat
        /\ SumFunctionOnSet(net, paying) + SumFunctionOnSet(envelopes, holding) <= ceiling
    BY <1>0, BudgetSums DEF BudgetInv, SumsOK
  <1>4. /\ IsFiniteSet(paying')
        /\ \A d \in Calls : net'[d] \in Nat
        /\ BudgetHolds' <=> SumFunctionOnSet(net', paying') + SumFunctionOnSet(envelopes', holding') <= ceiling'
    <2>1. SumsOK'
      BY BudgetSums, PTL
    <2> QED BY <2>1 DEF SumsOK
  <1>5. paying \subseteq Calls /\ c \notin paying
    BY <1>0 DEF paying, TypeOK
  <1>6. SumFunctionOnSet(net', paying) = SumFunctionOnSet(net, paying)
    BY <1>1, <1>3, <1>5, SumOfEqual
  <1>7. CASE ~governed[c]
    <2>1. paying' = paying
      BY <1>0, <1>7 DEF paying, settle
    <2>2. holding' = holding
      BY <1>0, <1>7 DEF holding, settle, Live, TypeOK
    <2>3. BudgetHolds'
      BY <1>2, <1>3, <1>4, <1>6, <2>1, <2>2
    <2> QED BY <2>3 DEF BudgetInv
  <1>8. CASE governed[c]
    <2>1. hold[c] # "none" /\ Live(c)
      BY <1>0, <1>8 DEF settleable, RowsOfCalls
    <2>2. c \in holding /\ holding' = holding \ {c}
      BY <1>0, <1>8, <2>1 DEF holding, settle, Live, TypeOK
    <2>3. c \in paying' /\ paying' \ {c} = paying
      BY <1>0, <1>5, <1>8 DEF paying, settle
    <2>4. net'[c] <= envelopes[c] /\ net'[c] \in Nat
      <3>1. envelope(c) \in Nat
        BY EnvelopeIsDearest
      <3>2. charge'[c] = micros /\ overage'[c] = IF micros > envelope(c) THEN micros - envelope(c) ELSE 0
        BY <1>0, <2>1 DEF settle, TypeOK
      <3>3. net'[c] = charge'[c] - overage'[c] /\ envelopes[c] = envelope(c)
        BY DEF net, envelopes
      <3> QED BY <3>1, <3>2, <3>3
    <2>5. SumFunctionOnSet(envelopes, holding) = envelopes[c] + SumFunctionOnSet(envelopes, holding')
      <3>1. \A d \in holding : envelopes[d] \in Nat
        BY <1>3 DEF holding
      <3> QED BY <1>3, <2>2, <3>1, SumRemoves
    <2>6. SumFunctionOnSet(net', paying') = net'[c] + SumFunctionOnSet(net', paying)
      <3>1. \A d \in paying' : net'[d] \in Nat
        BY <1>4, <1>5, <2>3
      <3>2. IsFiniteSet(paying')
        BY <1>4
      <3> QED BY <2>3, <3>1, <3>2, SumRemoves
    <2>7. SumFunctionOnSet(envelopes, holding') \in Nat
      <3>1. IsFiniteSet(holding') /\ \A d \in holding' : envelopes[d] \in Nat
        BY <1>3, <2>2, FS_Subset DEF holding
      <3> QED BY <3>1, SumIsNatural
    <2>8. ceiling' = ceiling /\ envelopes[c] \in Nat
      BY <1>3
    <2> DEFINE n == SumFunctionOnSet(net, paying)
               h == SumFunctionOnSet(envelopes, holding')
               m == net'[c]
               e == envelopes[c]
    <2>9. SumFunctionOnSet(net', paying') = m + n /\ n \in Nat /\ h \in Nat /\ m \in Nat /\ e \in Nat
          /\ m <= e /\ n + (e + h) <= ceiling /\ ceiling \in Nat
      BY <1>3, <1>6, <2>4, <2>5, <2>6, <2>7, <2>8
    <2>10. BudgetHolds' <=> SumFunctionOnSet(net', paying') + h <= ceiling
      BY <1>2, <1>4, <2>8
    <2> HIDE DEF n, h, m, e
    <2>11. (m + n) + h <= ceiling
      BY <2>9
    <2> QED BY <2>9, <2>10, <2>11 DEF BudgetInv
  <1> QED BY <1>7, <1>8

\* What is reserved had room under the limit of its time.
LEMMA ReserveKeepsBudget ==
    ASSUME BudgetInv, IInv', RowsOfCalls', NEW c \in Calls, authorizeAndReserve(c) PROVE BudgetInv'
  <1>0. TypeOK /\ IInv /\ RowsOfCalls
    BY DEF BudgetInv, IInv
  <1>1. paying' = paying /\ net' = net /\ envelopes' = envelopes /\ ceiling' = ceiling
    BY DEF authorizeAndReserve, paying, net, envelopes, envelope
  <1>2. /\ SumFunctionOnSet(net, paying) \in Nat /\ SumFunctionOnSet(envelopes, holding) \in Nat
        /\ IsFiniteSet(holding) /\ ceiling \in Nat /\ spentMicros \in Nat
        /\ \A d \in Calls : envelopes[d] \in Nat
        /\ SumFunctionOnSet(net, paying) <= spentMicros
        /\ reservedMicros = SumFunctionOnSet(envelopes, holding)
    BY <1>0, BudgetSums DEF SumsOK
  <1>3. CASE ~governed[c]
    <2>1. holding' = holding
      BY <1>0, <1>3 DEF authorizeAndReserve, holding, Live, TypeOK
    <2>2. UNCHANGED <<charge, overage, recorded>> /\ ceiling <= ceiling'
      BY <1>1, <1>2 DEF authorizeAndReserve
    <2> QED BY <1>1, <2>1, <2>2, BudgetRelaxes
  <1>4. CASE governed[c]
    <2>1. hold[c] = "none"
      BY <1>0 DEF RowsOfCalls, authorizeAndReserve
    <2>2. c \notin holding
      BY <2>1 DEF holding, Live
    <2>3. holding' \subseteq holding \cup {c}
      BY <1>0, <1>4, <2>1 DEF authorizeAndReserve, holding, Live, TypeOK
    <2> DEFINE more == holding \cup {c}
    <2>4. IsFiniteSet(more) /\ more \subseteq Calls /\ more \ {c} = holding /\ c \in more
      BY <1>2, <2>2, FS_AddElement DEF holding
    <2>5. SumFunctionOnSet(envelopes, more) = envelopes[c] + SumFunctionOnSet(envelopes, holding)
      <3>1. \A d \in more : envelopes[d] \in Nat
        BY <1>2, <2>4
      <3> HIDE DEF more
      <3> QED BY <2>4, <3>1, SumRemoves
    <2>6. SumFunctionOnSet(envelopes, holding') <= SumFunctionOnSet(envelopes, more)
      <3>1. \A d \in more : envelopes[d] \in Nat
        BY <1>2, <2>4
      <3>2. \A d \in holding' : envelopes[d] <= envelopes[d]
        BY <2>3, <3>1
      <3> HIDE DEF more
      <3>3. holding' \in SUBSET more
        BY <2>3 DEF more
      <3> QED BY <2>4, <3>1, <3>2, <3>3, SumGrows
    <2>7. spentMicros + reservedMicros + envelopes[c] <= limit /\ limit <= ceiling /\ limit \in Nat
      <3>1. limit # Unset /\ limit <= ceiling
        BY <1>0, <1>4 DEF RowsOfCalls
      <3>2. limit \in Nat
        BY <1>0, <3>1, CostAssumption DEF TypeOK
      <3>3. spentMicros + reservedMicros + envelope(c) <= limit
        BY <1>4 DEF authorizeAndReserve, affordable
      <3> QED BY <3>1, <3>2, <3>3 DEF envelopes
    <2>8. /\ BudgetHolds' <=> SumFunctionOnSet(net', paying') + SumFunctionOnSet(envelopes', holding') <= ceiling'
          /\ SumFunctionOnSet(envelopes', holding') \in Nat
      <3>1. SumsOK'
        BY BudgetSums, PTL
      <3> QED BY <3>1 DEF SumsOK
    <2> DEFINE n == SumFunctionOnSet(net, paying)
               h == SumFunctionOnSet(envelopes, holding)
               hp == SumFunctionOnSet(envelopes, holding')
               e == envelopes[c]
               sp == spentMicros
    <2>9. /\ n \in Nat /\ h \in Nat /\ hp \in Nat /\ e \in Nat /\ sp \in Nat /\ ceiling \in Nat /\ limit \in Nat
          /\ n <= sp /\ hp <= e + h /\ sp + h + e <= limit /\ limit <= ceiling
      BY <1>1, <1>2, <2>5, <2>6, <2>7, <2>8
    <2>10. BudgetHolds' <=> n + hp <= ceiling
      BY <1>1, <2>8
    <2> HIDE DEF n, h, hp, e, sp
    <2>11. n + hp <= ceiling
      BY <2>9
    <2> QED BY <2>10, <2>11 DEF BudgetInv
  <1> QED BY <1>3, <1>4

LEMMA BudgetStep == BudgetInv /\ [Next]_vars => BudgetInv'
  <1> SUFFICES ASSUME BudgetInv, [Next]_vars PROVE BudgetInv'
    OBVIOUS
  <1>0. IInv' /\ RowsOfCalls' /\ TypeOK /\ IInv
    <2>1. IInv
      BY DEF BudgetInv
    <2>2. IInv'
      BY <2>1, InvariantStep
    <2> QED BY <2>1, <2>2, RowsStep DEF BudgetInv, IInv
  <1>q. ASSUME UNCHANGED <<charge, overage, recorded, governed, ceiling>>,
               \A c \in Calls : Live(c)' => Live(c)
        PROVE  BudgetInv'
    <2>1. paying' = paying /\ holding' \subseteq holding
      BY <1>q DEF paying, holding
    <2>2. ceiling <= ceiling'
      BY <1>0, <1>q DEF TypeOK
    <2> QED BY <1>0, <1>q, <2>1, <2>2, BudgetRelaxes
  <1>1. ASSUME NEW l \in Limits, saveBudget(l) PROVE BudgetInv'
    <2>1. paying' = paying /\ holding' = holding /\ UNCHANGED <<charge, overage, recorded>>
      BY <1>1 DEF saveBudget, paying, holding, Live
    <2>2. ceiling <= ceiling'
      <3>1. l \in Nat /\ ceiling \in Nat
        BY <1>0, CostAssumption DEF TypeOK
      <3> QED BY <1>1, <3>1 DEF saveBudget, larger
    <2> QED BY <1>0, <2>1, <2>2, BudgetRelaxes
  <1>2. ASSUME NEW c \in Calls, listBudgetCurrencies(c) PROVE BudgetInv'
    <2>1. c \notin recorded /\ hold[c] = "none"
      BY <1>0, <1>2 DEF listBudgetCurrencies, BudgetInv, IInv, RowsOfCalls, CallsMatchRows
    <2>2. paying' = paying
      BY <1>0, <1>2, <2>1 DEF listBudgetCurrencies, paying, TypeOK
    <2>3. holding' = holding
      BY <1>0, <1>2, <2>1 DEF listBudgetCurrencies, holding, Live, TypeOK
    <2>4. UNCHANGED <<charge, overage, recorded>> /\ ceiling <= ceiling'
      BY <1>0, <1>2 DEF listBudgetCurrencies, TypeOK
    <2> QED BY <1>0, <2>2, <2>3, <2>4, BudgetRelaxes
  <1>3. ASSUME NEW c \in Calls, authorizeAndReserve(c) PROVE BudgetInv'
    BY <1>0, <1>3, ReserveKeepsBudget
  <1>4. ASSUME NEW c \in Calls, budgetExceeded(c) \/ recordFails(c) \/ chargeFails(c) \/ respond(c)
        PROVE  BudgetInv'
    <2>1. UNCHANGED <<hold, late, charge, overage, recorded, governed, ceiling>>
      BY <1>4 DEF budgetExceeded, recordFails, chargeFails, respond
    <2> QED BY <2>1, <1>q DEF Live
  <1>5. ASSUME NEW c \in Calls, providerFails(c) \/ releaseDuplicate(c) PROVE BudgetInv'
    <2>1. UNCHANGED <<late, charge, overage, recorded, governed, ceiling>> /\ release(c)
      BY <1>5 DEF providerFails, releaseDuplicate
    <2>2. \A d \in Calls : Live(d)' => Live(d)
      BY <1>0, <2>1 DEF Live, release, TypeOK
    <2> QED BY <2>1, <2>2, <1>q
  <1>6. ASSUME NEW c \in Calls, recordUsageAndCost(c) PROVE BudgetInv'
    <2> DEFINE micros == calculateCost(answer[c].usage, answer[c].price)
    <2>1. charge'[c] = micros
      BY <1>0, <1>6 DEF recordUsageAndCost, settle, TypeOK
    <2>2. micros \in Nat
      <3> HIDE DEF micros
      <3> QED BY <1>0, <2>1 DEF TypeOK, IInv
    <2>3. /\ settle(c, micros) /\ settleable(c) /\ UNCHANGED <<governed, late, ceiling>>
          /\ phase[c] \in {"answered", "rejected"}
      BY <1>6 DEF recordUsageAndCost
    <2> HIDE DEF micros
    <2> QED BY <1>0, <2>2, <2>3, SettleKeepsBudget
  <1>7. ASSUME NEW c \in Calls, chargeRejectedResponse(c) PROVE BudgetInv'
    BY <1>0, <1>7, SettleKeepsBudget, EnvelopeIsDearest DEF chargeRejectedResponse
  <1>8. ASSUME NEW c \in Calls, expire(c) PROVE BudgetInv'
    <2>1. \A d \in Calls : Live(d)' => Live(d)
      BY <1>0, <1>8 DEF expire, Live, TypeOK
    <2> QED BY <1>8, <2>1, <1>q DEF expire
  <1>9. CASE releaseExpiredReservations
    <2>1. \A d \in Calls : Live(d)' => Live(d)
      BY <1>0, <1>9 DEF releaseExpiredReservations, Live, TypeOK
    <2> QED BY <1>9, <2>1, <1>q DEF releaseExpiredReservations
  <1>10. CASE crash
    BY <1>10, <1>q DEF crash, Live
  <1>11. CASE UNCHANGED vars
    BY <1>11, <1>q DEF vars, Live
  <1> QED BY <1>1, <1>2, <1>3, <1>4, <1>5, <1>6, <1>7, <1>8, <1>9, <1>10, <1>11 DEF Next

LEMMA BudgetInitInv == Init => BudgetInv
  <1> SUFFICES ASSUME Init PROVE BudgetInv
    OBVIOUS
  <1>1. IInv
    BY InvariantInit
  <1>2. withRows = {} /\ recorded = {} /\ holding = {} /\ paying = {}
    BY DEF Init, withRows, holding, Live, paying
  <1>3. RowsOfCalls
    BY <1>2, FS_EmptySet, CostAssumption DEF Init, RowsOfCalls
  <1>4. SumFunctionOnSet(net, {}) = 0 /\ SumFunctionOnSet(envelopes, {}) = 0
    BY FS_EmptySet, SumPicks
  <1>5. BudgetHolds
    BY <1>1, <1>2, <1>3, <1>4, BudgetSums DEF SumsOK
  <1> QED BY <1>1, <1>3, <1>5 DEF BudgetInv

\* THEOREM: what governed calls spent, overage aside, and still hold never
\* exceeds the highest project budget there was (authorizeAndReserveMany).
THEOREM BudgetIsKept == Spec => []BudgetHolds
  <1>1. BudgetInv => BudgetHolds
    BY DEF BudgetInv
  <1> QED BY <1>1, BudgetInitInv, BudgetStep, PTL DEF Spec

-----------------------------------------------------------------------------
(* HostStartup *)

\* What a host may own at each stage, and when its late connector exists.
StoresByStage ==
    \A h \in Hosts :
        /\ stage[h] \in {"off", "resolved", "project", "global"} => "knowledge" \notin held[h]
        /\ connecting[h] = "pending" => stage[h] = "global"

\* A host that serves listens at the path until some host removes its socket.
ServingListens == ~stolen => \A h \in Hosts : Serving(h) => socket = h

\* A host that is down, or was only configured, owns nothing; a connection is open while it is owned.
HandlesOwned ==
    \A h \in Hosts :
        /\ stage[h] \in {"off", "resolved"} => held[h] = {}
        /\ "knowledge" \in held[h] => handles[h] = 1
        /\ "knowledge" \notin held[h] => handles[h] = 0

\* The inductive invariant of hosts that start and stop.
StartupInv ==
    /\ StartupTypeOK /\ handles \in [Hosts -> {0, 1}]
    /\ HandlesOwned /\ StoresByStage /\ ServingListens

\* A host owns one connection to the knowledge store or none.
LEMMA OneHandle ==
    ASSUME NEW S
    PROVE  /\ "knowledge" \in S => Cardinality(S \cap {"knowledge"}) = 1
           /\ "knowledge" \notin S => Cardinality(S \cap {"knowledge"}) = 0
  <1>1. CASE "knowledge" \in S
    <2>1. S \cap {"knowledge"} = {"knowledge"}
      BY <1>1
    <2> QED BY <1>1, <2>1, FS_Singleton
  <1>2. CASE "knowledge" \notin S
    <2>1. S \cap {"knowledge"} = {}
      BY <1>2
    <2> QED BY <1>2, <2>1, FS_EmptySet
  <1> QED BY <1>1, <1>2

LEMMA StartupInitInv == StartupInit => StartupInv
  BY StartupAssumption
  DEF StartupInit, StartupInv, StartupTypeOK, HandlesOwned, StoresByStage, ServingListens, Serving

\* What releaseAll leaves of a host.
LEMMA Released ==
    ASSUME StartupInv, NEW h \in Hosts, releaseAll(h)
    PROVE  held' = [held EXCEPT ![h] = {}] /\ handles' = [handles EXCEPT ![h] = 0]
  <1>1. handles[h] = Cardinality(held[h] \cap {"knowledge"})
    BY OneHandle DEF StartupInv, HandlesOwned
  <1>2. handles[h] - handles[h] = 0
    BY DEF StartupInv
  <1> QED BY <1>1, <1>2 DEF releaseAll

\* The steps of bootstrap.
LEMMA BootstrapStep ==
    ASSUME StartupInv, NEW h \in Hosts, Resolve(h) \/ OpenProject(h) \/ OpenGlobal(h) \/ Connect(h) \/ ConnectSettles(h)
           \/ LateSettles(h) \/ Compose(h) \/ Probe(h)
    PROVE StartupInv'
  <1> USE StartupAssumption
  <1>1. CASE Resolve(h)
    <2>1. StartupTypeOK' /\ handles' \in [Hosts -> {0, 1}]
      BY <1>1 DEF Resolve, StartupInv, StartupTypeOK, HandlesOwned, StoresByStage, Serving
    <2>2. HandlesOwned' /\ StoresByStage'
      BY <1>1 DEF Resolve, StartupInv, StartupTypeOK, HandlesOwned, StoresByStage
    <2>3. ServingListens'
      BY <1>1 DEF Resolve, StartupInv, StartupTypeOK, ServingListens, Serving
    <2> QED BY <2>1, <2>2, <2>3 DEF StartupInv
  <1>2. CASE OpenProject(h)
    <2>1. StartupTypeOK' /\ handles' \in [Hosts -> {0, 1}]
      BY <1>2 DEF OpenProject, goto, StartupInv, StartupTypeOK, HandlesOwned, StoresByStage, Serving
    <2>2. HandlesOwned' /\ StoresByStage'
      <3>1. "knowledge" \notin held[h] /\ "knowledge" \notin held'[h]
        BY <1>2 DEF OpenProject, StartupInv, StartupTypeOK, StoresByStage
      <3>2. StoresByStage'
        BY <1>2, <3>1 DEF OpenProject, goto, StartupInv, StartupTypeOK, StoresByStage
      <3>3. HandlesOwned'
        BY <1>2, <3>1 DEF OpenProject, goto, StartupInv, StartupTypeOK, HandlesOwned
      <3> QED BY <3>2, <3>3
    <2>3. ServingListens'
      BY <1>2 DEF OpenProject, goto, StartupInv, StartupTypeOK, ServingListens, Serving
    <2> QED BY <2>1, <2>2, <2>3 DEF StartupInv
  <1>3. CASE OpenGlobal(h)
    <2>1. StartupTypeOK' /\ handles' \in [Hosts -> {0, 1}]
      BY Released, <1>3 DEF OpenGlobal, goto, StartupInv, StartupTypeOK, HandlesOwned, StoresByStage, Serving
    <2>2. HandlesOwned' /\ StoresByStage'
      BY Released, <1>3 DEF OpenGlobal, goto, StartupInv, StartupTypeOK, HandlesOwned, StoresByStage
    <2>3. ServingListens'
      BY <1>3 DEF OpenGlobal, goto, StartupInv, StartupTypeOK, ServingListens, Serving
    <2> QED BY <2>1, <2>2, <2>3 DEF StartupInv
  <1>4. CASE Connect(h)
    <2>1. StartupTypeOK' /\ handles' \in [Hosts -> {0, 1}]
      BY <1>4 DEF Connect, goto, StartupInv, StartupTypeOK, HandlesOwned, StoresByStage, Serving
    <2>2. HandlesOwned' /\ StoresByStage'
      BY <1>4 DEF Connect, goto, StartupInv, StartupTypeOK, HandlesOwned, StoresByStage
    <2>3. ServingListens'
      BY <1>4 DEF Connect, goto, StartupInv, StartupTypeOK, ServingListens, Serving
    <2> QED BY <2>1, <2>2, <2>3 DEF StartupInv
  <1>5. CASE ConnectSettles(h)
    <2>1. StartupTypeOK' /\ handles' \in [Hosts -> {0, 1}]
      BY <1>5 DEF ConnectSettles, goto, StartupInv, StartupTypeOK, HandlesOwned, StoresByStage, Serving
    <2>2. HandlesOwned' /\ StoresByStage'
      BY <1>5 DEF ConnectSettles, goto, StartupInv, StartupTypeOK, HandlesOwned, StoresByStage
    <2>3. ServingListens'
      BY <1>5 DEF ConnectSettles, goto, StartupInv, StartupTypeOK, ServingListens, Serving
    <2> QED BY <2>1, <2>2, <2>3 DEF StartupInv
  <1>6. CASE LateSettles(h)
    <2>1. StartupTypeOK' /\ handles' \in [Hosts -> {0, 1}]
      BY <1>6 DEF LateSettles, StartupInv, StartupTypeOK, HandlesOwned, StoresByStage, Serving
    <2>2. HandlesOwned' /\ StoresByStage'
      BY <1>6 DEF LateSettles, StartupInv, StartupTypeOK, HandlesOwned, StoresByStage
    <2>3. ServingListens'
      BY <1>6 DEF LateSettles, StartupInv, StartupTypeOK, ServingListens, Serving
    <2> QED BY <2>1, <2>2, <2>3 DEF StartupInv
  <1>7. CASE Compose(h)
    <2>1. StartupTypeOK' /\ handles' \in [Hosts -> {0, 1}]
      BY Released, <1>7 DEF Compose, goto, StartupInv, StartupTypeOK, HandlesOwned, StoresByStage, Serving
    <2>2. HandlesOwned' /\ StoresByStage'
      BY Released, <1>7 DEF Compose, goto, StartupInv, StartupTypeOK, HandlesOwned, StoresByStage
    <2>3. ServingListens'
      BY <1>7 DEF Compose, goto, StartupInv, StartupTypeOK, ServingListens, Serving
    <2> QED BY <2>1, <2>2, <2>3 DEF StartupInv
  <1>8. CASE Probe(h)
    <2>1. StartupTypeOK' /\ handles' \in [Hosts -> {0, 1}]
      BY Released, <1>8 DEF Probe, goto, StartupInv, StartupTypeOK, HandlesOwned, StoresByStage, Serving
    <2>2. HandlesOwned' /\ StoresByStage'
      BY Released, <1>8 DEF Probe, goto, StartupInv, StartupTypeOK, HandlesOwned, StoresByStage
    <2>3. ServingListens'
      BY <1>8 DEF Probe, goto, StartupInv, StartupTypeOK, ServingListens, Serving
    <2> QED BY <2>1, <2>2, <2>3 DEF StartupInv
  <1> QED BY <1>1, <1>2, <1>3, <1>4, <1>5, <1>6, <1>7, <1>8

\* The steps at the socket path.
LEMMA SocketStep ==
    ASSUME StartupInv, NEW h \in Hosts, Unlink(h) \/ Bind(h) \/ BeginHostStop(h) \/ EndHostStop(h) \/ Kill(h)
    PROVE StartupInv'
  <1> USE StartupAssumption
  <1>1. CASE Unlink(h)
    <2>1. StartupTypeOK' /\ handles' \in [Hosts -> {0, 1}]
      BY <1>1 DEF Unlink, goto, removeSocket, StartupInv, StartupTypeOK, HandlesOwned, StoresByStage, Serving
    <2>2. HandlesOwned' /\ StoresByStage'
      BY <1>1 DEF Unlink, goto, StartupInv, StartupTypeOK, HandlesOwned, StoresByStage
    <2>3. ServingListens'
      BY <1>1 DEF Unlink, goto, removeSocket, StartupInv, StartupTypeOK, ServingListens, Serving
    <2> QED BY <2>1, <2>2, <2>3 DEF StartupInv
  <1>2. CASE Bind(h)
    <2>1. StartupTypeOK' /\ handles' \in [Hosts -> {0, 1}]
      BY Released, <1>2 DEF Bind, goto, StartupInv, StartupTypeOK, HandlesOwned, StoresByStage, Serving
    <2>2. HandlesOwned' /\ StoresByStage'
      BY Released, <1>2 DEF Bind, goto, StartupInv, StartupTypeOK, HandlesOwned, StoresByStage
    <2>3. ServingListens'
      BY <1>2 DEF Bind, goto, StartupInv, StartupTypeOK, ServingListens, Serving
    <2> QED BY <2>1, <2>2, <2>3 DEF StartupInv
  <1>3. CASE BeginHostStop(h)
    <2>1. StartupTypeOK' /\ handles' \in [Hosts -> {0, 1}]
      BY <1>3 DEF BeginHostStop, goto, StartupInv, StartupTypeOK, HandlesOwned, StoresByStage, Serving
    <2>2. HandlesOwned' /\ StoresByStage'
      BY <1>3 DEF BeginHostStop, goto, StartupInv, StartupTypeOK, HandlesOwned, StoresByStage
    <2>3. ServingListens'
      BY <1>3 DEF BeginHostStop, goto, StartupInv, StartupTypeOK, ServingListens, Serving
    <2> QED BY <2>1, <2>2, <2>3 DEF StartupInv
  <1>4. CASE EndHostStop(h)
    <2>1. StartupTypeOK' /\ handles' \in [Hosts -> {0, 1}]
      BY Released, <1>4 DEF EndHostStop, goto, removeSocket, StartupInv, StartupTypeOK, HandlesOwned, StoresByStage, Serving
    <2>2. HandlesOwned' /\ StoresByStage'
      BY Released, <1>4 DEF EndHostStop, goto, StartupInv, StartupTypeOK, HandlesOwned, StoresByStage
    <2>3. ServingListens'
      BY <1>4 DEF EndHostStop, goto, removeSocket, StartupInv, StartupTypeOK, ServingListens, Serving
    <2> QED BY <2>1, <2>2, <2>3 DEF StartupInv
  <1>5. CASE Kill(h)
    <2>1. StartupTypeOK' /\ handles' \in [Hosts -> {0, 1}]
      BY <1>5 DEF Kill, goto, StartupInv, StartupTypeOK, HandlesOwned, StoresByStage, Serving
    <2>2. HandlesOwned' /\ StoresByStage'
      BY <1>5 DEF Kill, goto, StartupInv, StartupTypeOK, HandlesOwned, StoresByStage
    <2>3. ServingListens'
      BY <1>5 DEF Kill, goto, StartupInv, StartupTypeOK, ServingListens, Serving
    <2> QED BY <2>1, <2>2, <2>3 DEF StartupInv
  <1> QED BY <1>1, <1>2, <1>3, <1>4, <1>5

LEMMA StartupStep == StartupInv /\ [StartupNext]_startupVars => StartupInv'
  <1> SUFFICES ASSUME StartupInv, [StartupNext]_startupVars PROVE StartupInv'
    OBVIOUS
  <1>1. CASE StartupNext
    BY <1>1, BootstrapStep, SocketStep DEF StartupNext
  <1>2. CASE UNCHANGED startupVars
    BY <1>2 DEF startupVars, StartupInv, StartupTypeOK, HandlesOwned, StoresByStage,
        ServingListens, Serving
  <1> QED BY <1>1, <1>2

LEMMA StartupImplies == StartupInv => StartupSafety
  <1> SUFFICES ASSUME StartupInv PROVE StartupSafety
    OBVIOUS
  <1>1. NothingLeftOpen
    BY OneHandle DEF StartupInv, HandlesOwned, NothingLeftOpen
  <1>2. ExclusiveUnlessStolen
    BY DEF StartupInv, ServingListens, ExclusiveUnlessStolen
  <1> QED BY <1>1, <1>2 DEF StartupInv, StartupSafety

-----------------------------------------------------------------------------
(* KnowledgeAdmission *)

\* Everything plan can derive.
RunPlans ==
    [source : {"agent_run"}, ref : {"run"}, by : {"none"}, locator : {"result"}, createdAt : {0}]
HandoverPlans ==
    [source : {"handover"}, ref : {1, 2}, by : {"none"}, locator : {1, 2}, createdAt : {0}]
ConfirmedPlans ==
    [source : {"operator_confirmed"}, ref : {"evidence"}, by : Operators, locator : {"evidence"}]
AdmissionPlans == RunPlans \cup HandoverPlans \cup ConfirmedPlans

\* A call that was shown a plan; one whose plan was derived again.
PlannedCalls ==
    [at : {"planned", "finished"}, result : {"none", "refused"}, input : Inputs,
     approval : AdmissionPlans]
AdmittedCalls ==
    [at : {"approving", "tracing", "recording", "verifying", "outcome", "finished"},
     result : {"none", "approval_audit_failed", "failed", "unknown", "recorded", "reconciled",
               "reconciliation_required"},
     input : Inputs, approval : AdmissionPlans, reviewer : Operators,
     admittedAt : 0 .. MaxAdmits]

AdmissionTypes ==
    /\ authority \in [run : {"running", "completed"}, confirmation : {1, 2}, reviewed : {1, 2},
                      facts : {1, 2}, evidence : {"standing", "withdrawn"}]
    /\ admits \in 0 .. MaxAdmits
    /\ store \subseteq [plan : AdmissionPlans, createdAt : 0 .. MaxAdmits]
    /\ audit \subseteq [event : {"approved", "failed", "recorded"}, plan : AdmissionPlans,
                        by : Operators]
    /\ admission \in [Callers -> {NoAdmitCall} \cup PlannedCalls \cup AdmittedCalls]

\* The store has one record of a plan, with the plan's date if it has one.
StoreAgrees ==
    /\ \A r, s \in store : r.plan = s.plan => r = s
    /\ \A r \in store : r.plan.source # "operator_confirmed" => r.createdAt = r.plan.createdAt

\* Past its approval a call has an audit row to show for it, by the operator its
\* plan names; past its write, or its trace, the store has its record.
CallAgrees(a) ==
    /\ a.at \in {"approving", "tracing", "recording", "verifying", "outcome"}
         => a \in AdmittedCalls /\ (a.approval.source = "operator_confirmed" => a.approval.by = a.reviewer)
    /\ a.at \in {"tracing", "recording", "verifying", "outcome"}
         => [event |-> "approved", plan |-> a.approval, by |-> a.reviewer] \in audit
    /\ a.at = "verifying" \/ a.at = "outcome" \/ a.result \in {"recorded", "reconciled"}
         => traceOf(a.approval) # {}
CallsAgree == \A c \in Callers : CallAgrees(admission[c])

\* An audited success has its record.
SuccessesPersisted == \A x \in audit : x.event = "recorded" => traceOf(x.plan) # {}

\* The inductive invariant of admissions.
AdmissionInv ==
    AdmissionTypes /\ StoreAgrees /\ CallsAgree /\ EveryRecordApproved /\ SuccessesPersisted

\* A plan is never the absence of one.
LEMMA PlansAreReal ==
    ASSUME AdmissionTypes, NEW i \in Inputs, plan(i) # NoAdmission
    PROVE plan(i) \in AdmissionPlans
  <1> USE DEF AdmissionTypes, AdmissionPlans, RunPlans, HandoverPlans, ConfirmedPlans
  <1>1. CASE i \in [source : {"agent_run"}, ref : {"run"}, by : {"none"}]
    BY <1>1 DEF plan, planFromRun
  <1>2. CASE i \in [source : {"handover"}, ref : {1, 2}, by : {"none"}]
    BY <1>2 DEF plan, confirmedHandover
  <1>3. CASE i \in [source : {"operator_confirmed"}, ref : {"evidence"}, by : Operators]
    BY <1>3 DEF plan, evidence
  <1> QED BY <1>1, <1>2, <1>3 DEF Inputs

LEMMA RealPlans == ASSUME NEW p \in AdmissionPlans PROVE p # NoAdmission
  BY DEF AdmissionPlans, RunPlans, HandoverPlans, ConfirmedPlans, NoAdmission

Call(a) == a \in {NoAdmitCall} \cup PlannedCalls \cup AdmittedCalls

\* What a step of one call has to establish: the store and the audit only grow,
\* and what they gain is approved and true.
LEMMA CallStep ==
    ASSUME AdmissionInv, NEW c \in Callers, NEW a, Call(a), CallAgrees(a)',
           admission' = [admission EXCEPT ![c] = a],
           authority' = authority, admits' \in 0 .. MaxAdmits,
           store \subseteq store', StoreAgrees', EveryRecordApproved',
           store' \subseteq [plan : AdmissionPlans, createdAt : 0 .. MaxAdmits],
           audit \subseteq audit', SuccessesPersisted',
           audit' \subseteq [event : {"approved", "failed", "recorded"}, plan : AdmissionPlans,
                            by : Operators]
    PROVE AdmissionInv'
  <1>1. AdmissionTypes'
    BY DEF AdmissionInv, AdmissionTypes, Call
  <1>2. CallsAgree'
    <2> SUFFICES ASSUME NEW d \in Callers PROVE CallAgrees(admission[d])'
      BY DEF CallsAgree
    <2>1. CASE d = c
      <3>1. admission'[d] = a
        BY <2>1 DEF AdmissionInv, AdmissionTypes
      <3> QED BY <3>1 DEF CallAgrees, traceOf
    <2>2. CASE d # c
      <3>1. admission'[d] = admission[d]
        BY <2>2 DEF AdmissionInv, AdmissionTypes
      <3>2. CallAgrees(admission[d])
        BY DEF AdmissionInv, CallsAgree
      <3> QED BY <3>1, <3>2 DEF CallAgrees, traceOf
    <2> QED BY <2>1, <2>2
  <1> QED BY <1>1, <1>2 DEF AdmissionInv

\* What was recorded stays recorded while the store keeps its records.
LEMMA TracesStay ==
    ASSUME store \subseteq store', NEW p
    PROVE traceOf(p) # {} => traceOf(p)' # {}
  BY DEF traceOf

\* The store stays, or gains the record of a call whose approval was audited.
Grows(c) ==
    /\ store \subseteq store' /\ StoreAgrees'
    /\ store' \subseteq [plan : AdmissionPlans, createdAt : 0 .. MaxAdmits]
    /\ \A r \in store' : r \in store \/ (r.plan = admission[c].approval /\ admission[c].at = "recording")

LEMMA Stays == ASSUME AdmissionInv, NEW c \in Callers, UNCHANGED store PROVE Grows(c)
  BY DEF AdmissionInv, AdmissionTypes, StoreAgrees, Grows

\* One transaction of the store: a record it has stays, a new one is dated like
\* its plan.
LEMMA UpsertGrows ==
    ASSUME AdmissionInv, NEW c \in Callers, admission[c].at = "recording",
           accepts(admission[c].approval, dateOf(admission[c].approval, admission[c].admittedAt)),
           store' = upsert(admission[c].approval, dateOf(admission[c].approval, admission[c].admittedAt))
    PROVE Grows(c) /\ [plan |-> admission[c].approval,
                          createdAt |-> dateOf(admission[c].approval, admission[c].admittedAt)] \in store'
  <1> DEFINE p == admission[c].approval  d == dateOf(p, admission[c].admittedAt)
  <1>1. admission[c] \in AdmittedCalls /\ p \in AdmissionPlans /\ admission[c].admittedAt \in 0 .. MaxAdmits
    BY DEF AdmissionInv, CallsAgree, CallAgrees, AdmittedCalls
  <1>2. d \in 0 .. MaxAdmits /\ (p.source # "operator_confirmed" => d = p.createdAt)
    BY <1>1, KnowledgeAssumption DEF dateOf, AdmissionPlans, RunPlans, HandoverPlans, ConfirmedPlans
  <1>3. store' = (store \ traceOf(p)) \cup {[plan |-> p, createdAt |-> d]}
    BY DEF upsert
  <1>4. \A r \in traceOf(p) : r = [plan |-> p, createdAt |-> d]
    BY DEF accepts, traceOf, AdmissionInv, AdmissionTypes
  <1> HIDE DEF p, d
  <1>5. store' = store \cup {[plan |-> p, createdAt |-> d]}
    BY <1>3, <1>4
  <1>6. StoreAgrees'
    <2>1. \A r \in store : r.plan = p => r = [plan |-> p, createdAt |-> d]
      BY <1>4 DEF traceOf
    <2> QED BY <1>2, <1>5, <2>1 DEF StoreAgrees, AdmissionInv
  <1>7. store' \subseteq [plan : AdmissionPlans, createdAt : 0 .. MaxAdmits]
    BY <1>1, <1>2, <1>5 DEF AdmissionInv, AdmissionTypes
  <1>8. Grows(c)
    BY <1>5, <1>6, <1>7 DEF Grows, p
  <1> QED BY <1>5, <1>8 DEF p, d

\* A step of one call that adds to the audit at most a row of its own, a success
\* only with its record.
LEMMA AuditStep ==
    ASSUME AdmissionInv, NEW c \in Callers, NEW a, Call(a), CallAgrees(a)',
           admission[c] \in AdmittedCalls, Grows(c),
           admission' = [admission EXCEPT ![c] = a],
           UNCHANGED authority, admits' \in 0 .. MaxAdmits,
           NEW event \in {"approved", "failed", "recorded"},
           audit' \in {audit, audit \cup {auditRow(c, event)}},
           event = "recorded" => traceOf(admission[c].approval) # {}
    PROVE AdmissionInv'
  <1>1. store \subseteq store' /\ StoreAgrees'
        /\ store' \subseteq [plan : AdmissionPlans, createdAt : 0 .. MaxAdmits]
    BY DEF Grows
  <1>2. /\ auditRow(c, event) \in [event : {"approved", "failed", "recorded"}, plan : AdmissionPlans,
                                  by : Operators]
        /\ auditRow(c, event).event = event /\ auditRow(c, event).plan = admission[c].approval
    BY DEF auditRow, AdmittedCalls
  <1>3. audit \subseteq audit' /\
        audit' \subseteq [event : {"approved", "failed", "recorded"}, plan : AdmissionPlans,
                          by : Operators]
    BY <1>2 DEF AdmissionInv, AdmissionTypes
  <1>4. SuccessesPersisted'
    BY <1>1, <1>2 DEF AdmissionInv, SuccessesPersisted, traceOf
  <1>5. EveryRecordApproved'
    <2> SUFFICES ASSUME NEW r \in store'
                 PROVE \E x \in audit' : /\ x.plan = r.plan /\ x.event = "approved"
                                         /\ r.plan.source = "operator_confirmed" => x.by = r.plan.by
      BY DEF EveryRecordApproved, explain
    <2>1. CASE r \in store
      BY <1>3, <2>1 DEF AdmissionInv, EveryRecordApproved, explain
    <2>2. CASE r.plan = admission[c].approval /\ admission[c].at = "recording"
      BY <1>3, <2>2 DEF AdmissionInv, CallsAgree, CallAgrees
    <2> QED BY <2>1, <2>2 DEF Grows
  <1> QED BY <1>1, <1>3, <1>4, <1>5, CallStep

\* A step of one call that leaves store and audit alone.
LEMMA QuietStep ==
    ASSUME AdmissionInv, NEW c \in Callers, NEW a, Call(a), CallAgrees(a),
           admission' = [admission EXCEPT ![c] = a],
           UNCHANGED <<authority, store, audit>>, admits' \in 0 .. MaxAdmits
    PROVE AdmissionInv'
  <1>1. /\ StoreAgrees' /\ EveryRecordApproved' /\ SuccessesPersisted' /\ CallAgrees(a)'
        /\ store' \subseteq [plan : AdmissionPlans, createdAt : 0 .. MaxAdmits]
        /\ audit' \subseteq [event : {"approved", "failed", "recorded"}, plan : AdmissionPlans,
                            by : Operators]
    BY DEF AdmissionInv, AdmissionTypes, StoreAgrees, EveryRecordApproved, explain,
        SuccessesPersisted, traceOf, CallAgrees
  <1> QED BY <1>1, CallStep

\* The answer of a call.
LEMMA Settled ==
    ASSUME AdmissionTypes, NEW c \in Callers, NEW res, settleCall(c, res)
    PROVE admission' = [admission EXCEPT ![c] =
                          [[admission[c] EXCEPT !.at = "finished"] EXCEPT !.result = res]]
  BY DEF settleCall, AdmissionTypes

\* A call that fails, at any of its steps.
LEMMA FailStep ==
    ASSUME AdmissionInv, NEW c \in Callers, admission[c] \in AdmittedCalls,
           NEW res \in {"failed", "unknown"}, fail(c, res), Grows(c), UNCHANGED <<authority, admits>>
    PROVE AdmissionInv'
  <1>0. PICK a : a = [[admission[c] EXCEPT !.at = "finished"] EXCEPT !.result = res]
    OBVIOUS
  <1>1. admission' = [admission EXCEPT ![c] = a]
    BY <1>0, Settled DEF AdmissionInv, fail
  <1>2. a \in AdmittedCalls /\ a.at = "finished" /\ a.result = res
    BY <1>0 DEF AdmittedCalls
  <1>3. CallAgrees(a)' /\ Call(a)
    BY <1>2 DEF CallAgrees, Call
  <1>4. audit' \in {audit, audit \cup {auditRow(c, "failed")}} /\ admits' \in 0 .. MaxAdmits
    BY DEF fail, AdmissionInv, AdmissionTypes
  <1>5. /\ UNCHANGED authority /\ "failed" \in {"approved", "failed", "recorded"}
        /\ "failed" = "recorded" => traceOf(admission[c].approval) # {}
    OBVIOUS
  <1> QED BY <1>1, <1>3, <1>4, <1>5, AuditStep

LEMMA PlanStep == ASSUME AdmissionInv, NEW c \in Callers, NEW i \in Inputs, Plan(c, i) PROVE AdmissionInv'
  <1> DEFINE a == [at |-> "planned", result |-> "none", input |-> i, approval |-> plan(i)]
  <1>1. Call(a) /\ CallAgrees(a)
    BY PlansAreReal DEF Plan, AdmissionInv, Call, CallAgrees, PlannedCalls
  <1>2. admission' = [admission EXCEPT ![c] = a] /\ UNCHANGED <<authority, store, audit>>
        /\ admits' \in 0 .. MaxAdmits
    BY DEF Plan, AdmissionInv, AdmissionTypes
  <1> HIDE DEF a
  <1> QED BY <1>1, <1>2, QuietStep

LEMMA AdmitStep ==
    ASSUME AdmissionInv, NEW c \in Callers, NEW o \in Operators, Admit(c, o) PROVE AdmissionInv'
  <1> DEFINE p == plan(admission[c].input)
             a == [at |-> "approving", result |-> "none", input |-> admission[c].input,
                   approval |-> p, reviewer |-> o, admittedAt |-> admits + 1]
             b == [[admission[c] EXCEPT !.at = "finished"] EXCEPT !.result = "refused"]
  <1>1. admission[c] \in PlannedCalls /\ admission[c].input \in Inputs
    BY DEF Admit, AdmissionInv, AdmissionTypes, NoAdmitCall, PlannedCalls, AdmittedCalls
  <1>2. UNCHANGED <<authority, store, audit>>
    BY DEF Admit
  <1>3. CASE p = NoAdmission \/ p # admission[c].approval
             \/ (p.source = "operator_confirmed" /\ p.by # o)
    <2>1. settleCall(c, "refused") /\ admits' \in 0 .. MaxAdmits
      BY <1>3 DEF Admit, AdmissionInv, AdmissionTypes
    <2>2. admission' = [admission EXCEPT ![c] = b]
      BY <2>1, Settled DEF AdmissionInv
    <2>3. b \in PlannedCalls /\ b.at = "finished" /\ b.result = "refused"
      BY <1>1 DEF PlannedCalls
    <2>4. Call(b) /\ CallAgrees(b)
      BY <2>3 DEF Call, CallAgrees
    <2> HIDE DEF b
    <2> QED BY <1>2, <2>1, <2>2, <2>4, QuietStep
  <1>4. CASE ~(p = NoAdmission \/ p # admission[c].approval
               \/ (p.source = "operator_confirmed" /\ p.by # o))
    <2>1. p \in AdmissionPlans
      BY <1>1, <1>4, PlansAreReal DEF AdmissionInv
    <2>2. admission' = [admission EXCEPT ![c] = a] /\ admits + 1 \in 0 .. MaxAdmits
          /\ admits' \in 0 .. MaxAdmits
      BY <1>4, KnowledgeAssumption DEF Admit, AdmissionInv, AdmissionTypes
    <2>3. a \in AdmittedCalls /\ a.at = "approving" /\ a.result = "none" /\ a.approval = p /\ a.reviewer = o
      BY <1>1, <2>1, <2>2 DEF AdmittedCalls
    <2>4. Call(a) /\ CallAgrees(a)
      BY <1>4, <2>3 DEF Call, CallAgrees
    <2> HIDE DEF a
    <2> QED BY <1>2, <2>2, <2>4, QuietStep
  <1> QED BY <1>3, <1>4

LEMMA ApproveStep == ASSUME AdmissionInv, NEW c \in Callers, Approve(c) PROVE AdmissionInv'
  <1>1. admission[c] \in AdmittedCalls /\ CallAgrees(admission[c])
    BY DEF Approve, AdmissionInv, CallsAgree, CallAgrees
  <1>2. UNCHANGED <<authority, store>> /\ admits' \in 0 .. MaxAdmits
    BY DEF Approve, AdmissionInv, AdmissionTypes
  <1>3. CASE /\ audit' = audit \cup {auditRow(c, "approved")}
             /\ admission' = [admission EXCEPT ![c].at = "tracing"]
    <2>0. PICK a : a = [admission[c] EXCEPT !.at = "tracing"]
      OBVIOUS
    <2>1. admission' = [admission EXCEPT ![c] = a]
      BY <1>3, <2>0 DEF AdmissionInv, AdmissionTypes
    <2>2. /\ a \in AdmittedCalls /\ a.at = "tracing" /\ a.result = admission[c].result
          /\ a.approval = admission[c].approval /\ a.reviewer = admission[c].reviewer
      BY <1>1, <2>0 DEF AdmittedCalls
    <2>3. Call(a) /\ CallAgrees(a)'
      BY <1>1, <1>2, <1>3, <2>2 DEF Approve, Call, CallAgrees, auditRow, traceOf
    <2>4. "approved" = "recorded" => traceOf(admission[c].approval) # {}
      OBVIOUS
    <2> QED BY <1>1, <1>2, <1>3, <2>1, <2>3, <2>4, Stays, AuditStep
  <1>4. CASE settleCall(c, "approval_audit_failed") /\ UNCHANGED audit
    <2>0. PICK a : a = [[admission[c] EXCEPT !.at = "finished"] EXCEPT !.result = "approval_audit_failed"]
      OBVIOUS
    <2>1. admission' = [admission EXCEPT ![c] = a]
      BY <1>4, <2>0, Settled DEF AdmissionInv
    <2>2. a \in AdmittedCalls /\ a.at = "finished" /\ a.result = "approval_audit_failed"
      BY <1>1, <2>0 DEF AdmittedCalls
    <2>3. Call(a) /\ CallAgrees(a)
      BY <2>2 DEF Call, CallAgrees
    <2> QED BY <1>2, <1>4, <2>1, <2>3, QuietStep
  <1> QED BY <1>3, <1>4 DEF Approve

\* A record that is found never disagrees with its own plan.
LEMMA TracesAgree ==
    ASSUME AdmissionInv, NEW c \in Callers, NEW r \in traceOf(admission[c].approval)
    PROVE assertTrace(r, admission[c].approval, admission[c].admittedAt)
  BY DEF AdmissionInv, StoreAgrees, traceOf, assertTrace

\* A call that goes on to its next step, with a result or without.
LEMMA MoveOn ==
    ASSUME AdmissionInv, NEW c \in Callers,
           admission[c].at \in {"tracing", "recording", "verifying"},
           NEW to \in {"recording", "outcome"}, NEW res \in {admission[c].result, "recorded", "reconciled"},
           admission' = [admission EXCEPT ![c] =
                           [[admission[c] EXCEPT !.at = to] EXCEPT !.result = res]],
           to = "outcome" \/ res # admission[c].result => traceOf(admission[c].approval) # {},
           UNCHANGED <<authority, store, audit, admits>>
    PROVE AdmissionInv'
  <1>1. admission[c] \in AdmittedCalls /\ CallAgrees(admission[c])
    BY DEF AdmissionInv, CallsAgree, CallAgrees
  <1>2. PICK a : a = [[admission[c] EXCEPT !.at = to] EXCEPT !.result = res]
    OBVIOUS
  <1>3. /\ a \in AdmittedCalls /\ a.at = to /\ a.result = res
        /\ a.approval = admission[c].approval /\ a.reviewer = admission[c].reviewer
        /\ admission[c].result \in {"none", "approval_audit_failed", "failed", "unknown", "recorded",
                                   "reconciled", "reconciliation_required"}
    BY <1>1, <1>2 DEF AdmittedCalls
  <1>4. Call(a) /\ CallAgrees(a)
    BY <1>1, <1>3 DEF Call, CallAgrees
  <1>5. admits' \in 0 .. MaxAdmits /\ UNCHANGED <<authority, store, audit>>
    BY DEF AdmissionInv, AdmissionTypes
  <1> QED BY <1>2, <1>4, <1>5, QuietStep

LEMMA TraceFirstStep == ASSUME AdmissionInv, NEW c \in Callers, TraceFirst(c) PROVE AdmissionInv'
  <1> DEFINE p == admission[c].approval
  <1>1. admission[c] \in AdmittedCalls /\ admission[c].at = "tracing"
    BY DEF TraceFirst, AdmissionInv, CallsAgree, CallAgrees
  <1>2. UNCHANGED <<authority, store, admits>> /\ Grows(c)
    BY Stays DEF TraceFirst
  <1>3. CASE fail(c, "failed")
    BY <1>1, <1>2, <1>3, FailStep
  <1>4. CASE admission' = [admission EXCEPT ![c].at = "recording"] /\ UNCHANGED audit
    <2>1. admission' = [admission EXCEPT ![c] =
                          [[admission[c] EXCEPT !.at = "recording"] EXCEPT !.result = admission[c].result]]
      BY <1>1, <1>4 DEF AdmissionInv, AdmissionTypes, AdmittedCalls
    <2> QED BY <1>1, <1>2, <1>4, <2>1, MoveOn
  <1>5. ASSUME NEW r \in traceOf(p),
               IF assertTrace(r, p, admission[c].admittedAt)
               THEN /\ admission' = [admission EXCEPT ![c].at = "outcome", ![c].result = "reconciled"]
                    /\ UNCHANGED audit
               ELSE fail(c, "conflict")
        PROVE AdmissionInv'
    <2>1. /\ admission' = [admission EXCEPT ![c].at = "outcome", ![c].result = "reconciled"]
          /\ UNCHANGED audit
      BY <1>5, TracesAgree
    <2>2. admission' = [admission EXCEPT ![c] =
                          [[admission[c] EXCEPT !.at = "outcome"] EXCEPT !.result = "reconciled"]]
      BY <1>1, <2>1 DEF AdmissionInv, AdmissionTypes
    <2> QED BY <1>1, <1>2, <1>5, <2>1, <2>2, MoveOn
  <1> QED BY <1>3, <1>4, <1>5 DEF TraceFirst

LEMMA RecordStep == ASSUME AdmissionInv, NEW c \in Callers, Record(c) PROVE AdmissionInv'
  <1> DEFINE p == admission[c].approval
             d == dateOf(p, admission[c].admittedAt)
  <1>1. admission[c] \in AdmittedCalls /\ CallAgrees(admission[c]) /\ admission[c].at = "recording"
    BY DEF Record, AdmissionInv, CallsAgree, CallAgrees
  <1>2. UNCHANGED <<authority, admits>> /\ admits' \in 0 .. MaxAdmits
    BY DEF Record, AdmissionInv, AdmissionTypes
  <1>3. CASE fail(c, "unknown") /\ UNCHANGED store
    BY <1>1, <1>2, <1>3, Stays, FailStep
  <1>4. CASE accepts(p, d) /\ store' = upsert(p, d) /\ fail(c, "unknown")
    BY <1>1, <1>2, <1>4, UpsertGrows, FailStep
  <1>5. CASE /\ accepts(p, d) /\ store' = upsert(p, d)
             /\ admission' = [admission EXCEPT ![c].at = "verifying"] /\ UNCHANGED audit
    <2>0. PICK a : a = [admission[c] EXCEPT !.at = "verifying"]
      OBVIOUS
    <2>1. admission' = [admission EXCEPT ![c] = a]
      BY <1>5, <2>0 DEF AdmissionInv, AdmissionTypes
    <2>2. /\ a \in AdmittedCalls /\ a.at = "verifying" /\ a.result = admission[c].result
          /\ a.approval = p /\ a.reviewer = admission[c].reviewer
      BY <1>1, <2>0 DEF AdmittedCalls
    <2>3. Grows(c) /\ [plan |-> p, createdAt |-> d] \in store'
      BY <1>1, <1>5, UpsertGrows
    <2>4. traceOf(a.approval)' # {}
      BY <2>2, <2>3 DEF traceOf
    <2>5. Call(a) /\ CallAgrees(a)'
      BY <1>1, <1>5, <2>2, <2>4 DEF Call, CallAgrees
    <2>6. audit' \in {audit, audit \cup {auditRow(c, "failed")}}
      BY <1>5
    <2>7. "failed" = "recorded" => traceOf(admission[c].approval) # {}
      OBVIOUS
    <2> QED BY <1>1, <1>2, <2>1, <2>3, <2>5, <2>6, <2>7, AuditStep
  <1> QED BY <1>3, <1>4, <1>5 DEF Record

LEMMA VerifyStep == ASSUME AdmissionInv, NEW c \in Callers, Verify(c) PROVE AdmissionInv'
  <1> DEFINE p == admission[c].approval
  <1>1. admission[c] \in AdmittedCalls /\ admission[c].at = "verifying"
    BY DEF Verify, AdmissionInv, CallsAgree, CallAgrees
  <1>2. UNCHANGED <<authority, store, admits>> /\ Grows(c)
    BY Stays DEF Verify
  <1>3. CASE fail(c, "unknown")
    BY <1>1, <1>2, <1>3, FailStep
  <1>4. ASSUME NEW r \in traceOf(p),
               IF assertTrace(r, p, admission[c].admittedAt)
               THEN /\ admission' = [admission EXCEPT ![c].at = "outcome", ![c].result = "recorded"]
                    /\ UNCHANGED audit
               ELSE fail(c, "conflict")
        PROVE AdmissionInv'
    <2>1. /\ admission' = [admission EXCEPT ![c].at = "outcome", ![c].result = "recorded"]
          /\ UNCHANGED audit
      BY <1>4, TracesAgree
    <2>2. admission' = [admission EXCEPT ![c] =
                          [[admission[c] EXCEPT !.at = "outcome"] EXCEPT !.result = "recorded"]]
      BY <1>1, <2>1 DEF AdmissionInv, AdmissionTypes
    <2> QED BY <1>1, <1>2, <1>4, <2>1, <2>2, MoveOn
  <1> QED BY <1>3, <1>4 DEF Verify

LEMMA OutcomeStep == ASSUME AdmissionInv, NEW c \in Callers, RecordOutcome(c) PROVE AdmissionInv'
  <1>1. admission[c] \in AdmittedCalls /\ CallAgrees(admission[c]) /\ admission[c].at = "outcome"
    BY DEF RecordOutcome, AdmissionInv, CallsAgree, CallAgrees
  <1>2. UNCHANGED <<authority, store>> /\ admits' \in 0 .. MaxAdmits /\ Grows(c)
    BY Stays DEF RecordOutcome, AdmissionInv, AdmissionTypes
  <1>3. traceOf(admission[c].approval) # {}
    BY <1>1 DEF CallAgrees
  <1>4. CASE /\ audit' = audit \cup {auditRow(c, "recorded")}
             /\ admission' = [admission EXCEPT ![c].at = "finished"]
    <2>0. PICK a : a = [admission[c] EXCEPT !.at = "finished"]
      OBVIOUS
    <2>1. admission' = [admission EXCEPT ![c] = a]
      BY <1>4, <2>0 DEF AdmissionInv, AdmissionTypes
    <2>2. a \in AdmittedCalls /\ a.at = "finished" /\ a.approval = admission[c].approval
      BY <1>1, <2>0 DEF AdmittedCalls
    <2>3. Call(a) /\ CallAgrees(a)'
      BY <1>2, <1>3, <2>2 DEF Call, CallAgrees, traceOf
    <2> QED BY <1>1, <1>2, <1>3, <1>4, <2>1, <2>3, AuditStep
  <1>5. CASE settleCall(c, "reconciliation_required") /\ UNCHANGED audit
    <2>0. PICK a : a = [[admission[c] EXCEPT !.at = "finished"] EXCEPT !.result = "reconciliation_required"]
      OBVIOUS
    <2>1. admission' = [admission EXCEPT ![c] = a]
      BY <1>5, <2>0, Settled DEF AdmissionInv
    <2>2. a \in AdmittedCalls /\ a.at = "finished" /\ a.result = "reconciliation_required"
      BY <1>1, <2>0 DEF AdmittedCalls
    <2>3. Call(a) /\ CallAgrees(a)
      BY <2>2 DEF Call, CallAgrees
    <2> QED BY <1>2, <1>5, <2>1, <2>3, QuietStep
  <1> QED BY <1>4, <1>5 DEF RecordOutcome

LEMMA LeaveStep == ASSUME AdmissionInv, NEW c \in Callers, Leave(c) PROVE AdmissionInv'
  <1>1. Call(NoAdmitCall) /\ CallAgrees(NoAdmitCall)
    BY DEF Call, CallAgrees, NoAdmitCall
  <1> QED BY <1>1, QuietStep DEF Leave, AdmissionInv, AdmissionTypes

LEMMA AuthorityStep == ASSUME AdmissionInv, AuthorityChanges PROVE AdmissionInv'
  <1>1. UNCHANGED <<store, audit, admission, admits>>
    BY DEF AuthorityChanges
  <1>2. AdmissionTypes'
    BY <1>1 DEF AdmissionInv, AdmissionTypes, AuthorityChanges
  <1>3. (StoreAgrees /\ CallsAgree /\ EveryRecordApproved /\ SuccessesPersisted)'
    BY <1>1 DEF AdmissionInv, StoreAgrees, CallsAgree, CallAgrees, EveryRecordApproved, explain,
        SuccessesPersisted, traceOf
  <1> QED BY <1>2, <1>3 DEF AdmissionInv

LEMMA KnowledgeInitInv == KnowledgeInit => AdmissionInv
  <1> SUFFICES ASSUME KnowledgeInit PROVE AdmissionInv
    OBVIOUS
  <1>1. AdmissionTypes
    BY KnowledgeAssumption DEF KnowledgeInit, AdmissionTypes
  <1>2. StoreAgrees /\ EveryRecordApproved /\ SuccessesPersisted
    BY DEF KnowledgeInit, StoreAgrees, EveryRecordApproved, SuccessesPersisted
  <1>3. CallsAgree
    BY DEF KnowledgeInit, CallsAgree, CallAgrees, NoAdmitCall
  <1> QED BY <1>1, <1>2, <1>3 DEF AdmissionInv

LEMMA KnowledgeStep == AdmissionInv /\ [KnowledgeNext]_knowledgeVars => AdmissionInv'
  <1> SUFFICES ASSUME AdmissionInv, [KnowledgeNext]_knowledgeVars PROVE AdmissionInv'
    OBVIOUS
  <1>1. CASE KnowledgeNext
    BY <1>1, AuthorityStep, PlanStep, AdmitStep, ApproveStep, TraceFirstStep, RecordStep, VerifyStep,
       OutcomeStep, LeaveStep DEF KnowledgeNext
  <1>2. CASE UNCHANGED knowledgeVars
    BY <1>2 DEF knowledgeVars, AdmissionInv, AdmissionTypes, StoreAgrees, CallsAgree, CallAgrees,
        EveryRecordApproved, explain, SuccessesPersisted, traceOf
  <1> QED BY <1>1, <1>2

\* The invariant leaves no call in conflict: its record can only agree with it.
LEMMA KnowledgeImplies == AdmissionInv => AdmissionSafety
  <1> SUFFICES ASSUME AdmissionInv PROVE AdmissionSafety
    OBVIOUS
  <1>1. KnowledgeTypeOK
    <2>1. ASSUME NEW r \in store PROVE Cardinality(traceOf(r.plan)) = 1
      <3>1. traceOf(r.plan) = {r}
        BY DEF AdmissionInv, StoreAgrees, traceOf
      <3> QED BY <3>1, FS_Singleton
    <2>2. \A p \in {r.plan : r \in store} : Cardinality(traceOf(p)) = 1
      BY <2>1
    <2>3. \A r \in store : r.plan # NoAdmission /\ r.createdAt \in 0 .. MaxAdmits
      BY RealPlans DEF AdmissionInv, AdmissionTypes
    <2>4. \A a \in audit : a.event \in {"approved", "failed", "recorded"} /\ a.by \in Operators
      BY DEF AdmissionInv, AdmissionTypes
    <2> QED BY <2>2, <2>3, <2>4 DEF KnowledgeTypeOK, AdmissionInv, AdmissionTypes
  <1>2. RecordedIsPersisted
    BY DEF AdmissionInv, SuccessesPersisted, CallsAgree, CallAgrees, RecordedIsPersisted
  <1>3. NeverConflict
    BY DEF AdmissionInv, AdmissionTypes, NeverConflict, NoAdmitCall, PlannedCalls, AdmittedCalls
  <1> QED BY <1>1, <1>2, <1>3 DEF AdmissionInv, AdmissionSafety

\* A step of an admission keeps the records the store has.
LEMMA KnowledgeKeepsRecords == AdmissionInv /\ [KnowledgeNext]_knowledgeVars => RecordsKept
  <1> SUFFICES ASSUME AdmissionInv, [KnowledgeNext]_knowledgeVars PROVE RecordsKept
    OBVIOUS
  <1>1. ASSUME NEW c \in Callers, Record(c) PROVE store \subseteq store'
    BY <1>1, UpsertGrows DEF Record, Grows
  <1>2. ASSUME ~(\E c \in Callers : Record(c)) PROVE UNCHANGED store
    BY <1>2 DEF KnowledgeNext, knowledgeVars, AuthorityChanges, Plan, Admit, Approve, TraceFirst,
        Verify, RecordOutcome, Leave
  <1> QED BY <1>1, <1>2 DEF RecordsKept

-----------------------------------------------------------------------------
(* CheckpointStore *)

PublishSteps == {"clean", "unlink", "load", "scan", "reserve", "collided", "inspect", "evict"}
AfterReserve == {"rename", "index", "prune", "pruning"}
IndexEntries == [seq : 0 .. MaxSeq, id : 0 .. MaxCheckpoints]
PublishCalls ==
    [pc : {"idle"} \cup PublishSteps \cup AfterReserve, id : 0 .. MaxCheckpoints, attempt : Nat,
     at : 0 .. MaxSeq, indexed : IndexEntries, previous : IndexEntries, victims : SUBSET Seqs,
     contended : BOOLEAN, result : {"none", "error", "collision", "published"}]
StoredFiles ==
    [kind : {"absent"}]
      \cup [kind : {"reserved"}, by : Publishers \cup {NoPublisher}, aged : BOOLEAN]
      \cup [kind : {"checkpoint"}, id : 1 .. MaxCheckpoints, supersedes : 0 .. MaxCheckpoints]

CheckpointTypes ==
    /\ files \in [Seqs -> StoredFiles] /\ index \in IndexEntries
    /\ call \in [Publishers -> PublishCalls] /\ issued \in 0 .. MaxCheckpoints
    /\ published \subseteq [seq : Seqs, id : 1 .. MaxCheckpoints, supersedes : 0 .. MaxCheckpoints]
    /\ acked \in 0 .. MaxSeq

\* An entry names nothing or something that was published.
EntryOK(e) == e = NoEntry \/ \E c \in published : c.seq = e.seq /\ c.id = e.id

\* What a call has read was published; what it has renamed is its own.
CallOK(c) ==
    /\ EntryOK(c.indexed) /\ EntryOK(c.previous)
    /\ c.pc \in {"reserve", "collided", "inspect", "evict"} \cup AfterReserve => c.at = c.previous.seq + 1
    /\ c.pc \in {"unlink", "reserve", "collided", "inspect", "evict"} \cup AfterReserve => c.at \in Seqs
    /\ c.pc \in {"index", "prune", "pruning"} => \E d \in published : d.seq = c.at /\ d.id = c.id
    /\ c.pc # "idle" => c.id \in 1 .. issued
    /\ c.pc \in {"idle", "clean", "unlink"} => c.attempt = 0
    /\ c.result = "collision" => c.contended /\ c.pc = "idle"

\* Files, index and acknowledgements are of what was published; a reservation
\* with an owner is the one its owner is about to rename over.
RecordsAgree ==
    /\ \A s \in Seqs : isPublished(s) =>
         \E c \in published : c.seq = s /\ c.id = files[s].id /\ c.supersedes = files[s].supersedes
    /\ \A c \in published : c.id \in 1 .. issued
    /\ EntryOK(index)
    /\ \A p \in Publishers : CallOK(call[p])
    /\ acked = 0 \/ \E c \in published : c.seq = acked
    /\ \A s \in Seqs : files[s].kind = "reserved" /\ files[s].by # NoPublisher =>
         call[files[s].by].pc = "rename" /\ call[files[s].by].at = s

\* What a publisher is about to delete has been superseded.
VictimsPassed(victims) ==
    \A v \in victims : \E c, d \in published : c.seq = v /\ d.seq > v

\* Unless a cleanup or retention got in the way: a publisher at its rename owns
\* its number, which is new; what was published is there, or something newer
\* is; what is cited is there, and nobody is about to delete it.
Unraced ==
    /\ \A p \in Publishers : call[p].pc = "rename" =>
         files[call[p].at].kind = "reserved" /\ files[call[p].at].by = p
    /\ \A s \in Seqs, c \in published : files[s].kind = "reserved" => c.seq # s
    /\ \A c, d \in published : c.seq = d.seq => c = d
    /\ \A c \in published :
         IF c.seq = 1 THEN c.supersedes = 0
         ELSE \E d \in published : d.seq = c.seq - 1 /\ d.id = c.supersedes
    /\ \A c \in published :
         \/ files[c.seq] = Checkpoint(c.id, c.supersedes)
         \/ files[c.seq] = Absent /\ \E d \in published : d.seq > c.seq
    /\ \A p \in Publishers : VictimsPassed(call[p].victims)
    /\ \A i \in handoff : \E s \in Seqs :
         isPublished(s) /\ files[s].id = i /\ \A p \in Publishers : s \notin call[p].victims

\* A call whose reads still hold: the number it has chosen is above everything
\* there is, and free when it tries it again.
SeesAll(c) ==
    /\ \/ c.pc \in {"scan", "reserve", "collided", "inspect", "evict"}
       \/ c.pc = "load" /\ c.attempt > 0
       => readIndexed.ok
    /\ c.pc = "scan" => c.indexed = readIndexed.entry
    /\ \/ c.pc \in {"reserve", "collided", "inspect", "evict"}
       \/ c.attempt > 0 /\ c.pc \in {"load", "scan"}
       => c.at = newerOf(readIndexed.entry, scanLatest).seq + 1
    /\ c.attempt > 0 =>
         /\ c.pc \notin {"collided", "inspect", "evict"}
         /\ c.pc \in {"load", "scan", "reserve"} => c.at \in Seqs /\ files[c.at] = Absent

\* A publisher without competition: nobody else is past its reservation or
\* about to remove a checkpoint, so what it has read is what is there.
Alone(p) ==
    call[p].pc # "idle" /\ ~call[p].contended =>
      /\ \A q \in Publishers \ {p} : call[q].pc \notin AfterReserve
      /\ call[p].pc \in PublishSteps =>
           \A q \in Publishers \ {p} : call[q].pc \in {"unlink", "evict"} => ~isPublished(call[q].at)
      /\ SeesAll(call[p])

\* The inductive invariant of the checkpoints.
CheckpointInv ==
    /\ CheckpointTypes /\ RecordsAgree
    /\ raced = {} => Unraced
    /\ \A p \in Publishers : Alone(p)

\* A set of numbers up to a bound has a greatest one.
LEMMA GreatestOfSome ==
    ASSUME NEW n \in Nat, NEW S \in SUBSET (1 .. n), S # {}
    PROVE  Max(S) \in S /\ \A s \in S : s <= Max(S)
  <1> DEFINE T == {n - s : s \in S}
  <1>1. T \subseteq Nat /\ T # {}
    <2>1. \A s \in S : s \in 1 .. n
      OBVIOUS
    <2>2. \A s \in S : n - s \in Nat
      BY <2>1
    <2>3. T \subseteq Nat
      BY <2>2
    <2>4. PICK s \in S : TRUE
      OBVIOUS
    <2>5. n - s \in T
      BY <2>4
    <2> QED BY <2>3, <2>5
  <1>2. PICK x \in T : \A y \in T : ~(<<y, x>> \in OpToRel(<, Nat))
    BY <1>1, NatLessThanWellFounded, WFMin
  <1>3. PICK m \in S : x = n - m
    BY DEF T
  <1>4. ASSUME NEW s \in S PROVE s <= m
    <2>1. n - s \in T
      BY DEF T
    <2>2. ~(n - s < x)
      BY <1>1, <1>2, <2>1 DEF OpToRel
    <2> QED BY <1>3, <2>2
  <1>5. m \in S /\ \A s \in S : m >= s
    BY <1>4
  <1>6. Max(S) \in S /\ \A s \in S : Max(S) >= s
    BY <1>5 DEF Max
  <1> QED BY <1>6

\* The scan finds the newest checkpoint there is.
LEMMA ScanIsLatest ==
    ASSUME CheckpointTypes
    PROVE  /\ \/ scanLatest = NoEntry /\ \A s \in Seqs : ~isPublished(s)
              \/ /\ scanLatest.seq \in Seqs /\ isPublished(scanLatest.seq)
                 /\ scanLatest.id = files[scanLatest.seq].id
                 /\ \A s \in Seqs : isPublished(s) => s <= scanLatest.seq
           /\ scanLatest \in IndexEntries
           /\ \A t \in Seqs : isPublished(t) /\ (\A s \in Seqs : isPublished(s) => s <= t)
                => scanLatest = [seq |-> t, id |-> files[t].id]
  <1> USE CheckpointAssumption
  <1> DEFINE valid == {s \in Seqs : isPublished(s)}
  <1>1. valid \in SUBSET (1 .. MaxSeq) /\ MaxSeq \in Nat
    BY DEF Seqs
  <1>2. CASE valid = {}
    BY <1>2 DEF scanLatest, NoEntry, IndexEntries
  <1>3. CASE valid # {}
    <2>1. Max(valid) \in valid /\ \A s \in valid : s <= Max(valid)
      BY <1>1, <1>3, GreatestOfSome
    <2>2. scanLatest = [seq |-> Max(valid), id |-> files[Max(valid)].id]
      BY <1>3 DEF scanLatest
    <2>3. scanLatest.seq = Max(valid) /\ scanLatest.id = files[Max(valid)].id
      BY <2>2
    <2>4. files[Max(valid)].id \in 1 .. MaxCheckpoints
      BY <2>1 DEF CheckpointTypes, StoredFiles, isPublished
    <2>5. scanLatest \in IndexEntries
      BY <2>1, <2>2, <2>4 DEF IndexEntries, Seqs
    <2>6. ASSUME NEW t \in Seqs, isPublished(t), \A s \in Seqs : isPublished(s) => s <= t
          PROVE  t = Max(valid)
      BY <2>1, <2>6 DEF Seqs
    <2> QED BY <2>1, <2>2, <2>3, <2>5, <2>6
  <1> QED BY <1>2, <1>3

\* What the index says is an entry, and a readable one is there or gone.
LEMMA IndexIsEntry ==
    ASSUME CheckpointTypes, RecordsAgree
    PROVE  /\ readIndexed.entry \in IndexEntries /\ EntryOK(readIndexed.entry) /\ EntryOK(scanLatest)
           /\ readIndexed.ok => readIndexed.entry.seq <= scanLatest.seq
           /\ readIndexed.ok /\ readIndexed.entry = NoEntry => index = NoEntry \/ scanLatest # NoEntry
           /\ readIndexed.entry \in {NoEntry, index}
           /\ index # NoEntry => index.seq \in Seqs
  <1> USE CheckpointAssumption
  <1>1. NoEntry \in IndexEntries
    BY DEF NoEntry, IndexEntries
  <1>2. index # NoEntry => index.seq \in Seqs
    BY DEF RecordsAgree, EntryOK, CheckpointTypes
  <1>3. readIndexed.entry \in {NoEntry, index}
    BY DEF readIndexed
  <1>4. EntryOK(scanLatest)
    BY ScanIsLatest DEF RecordsAgree, EntryOK
  <1>5. readIndexed.ok => readIndexed.entry.seq <= scanLatest.seq
    <2>1. CASE readIndexed.entry = NoEntry
      BY <2>1, ScanIsLatest DEF NoEntry, IndexEntries
    <2>2. CASE readIndexed.entry # NoEntry /\ readIndexed.ok
      <3>1. index # NoEntry /\ readIndexed.entry = index /\ isPublished(index.seq)
        BY <2>2 DEF readIndexed
      <3> QED BY <3>1, <1>2, ScanIsLatest
    <2> QED BY <2>1, <2>2
  <1>6. readIndexed.ok /\ readIndexed.entry = NoEntry => index = NoEntry \/ scanLatest # NoEntry
    BY DEF readIndexed
  <1> QED BY <1>1, <1>2, <1>3, <1>4, <1>5, <1>6 DEF CheckpointTypes, EntryOK, RecordsAgree

\* As long as checkpoints stay and absent names stay absent, a publisher that
\* could read the index reads the same again.
LEMMA ViewStays ==
    ASSUME CheckpointTypes, CheckpointTypes', RecordsAgree, index' = index,
           \A s \in Seqs : isPublished(s) => files'[s] = files[s],
           \A s \in Seqs : ~isPublished(s) => ~isPublished(s)',
           \A s \in Seqs : files[s] = Absent => files'[s] = Absent
    PROVE  /\ scanLatest' = scanLatest
           /\ readIndexed.ok => readIndexed' = readIndexed
  <1>1. \A s \in Seqs : isPublished(s)' <=> isPublished(s)
    BY DEF isPublished
  <1>2. scanLatest' = scanLatest
    <2>1. CASE \A s \in Seqs : ~isPublished(s)
      <3>1. scanLatest = NoEntry
        BY <2>1, ScanIsLatest
      <3>2. \A s \in Seqs : ~isPublished(s)'
        BY <2>1, <1>1
      <3>3. {s \in Seqs : isPublished(s)}' = {}
        BY <3>2
      <3> QED BY <3>1, <3>3 DEF scanLatest, NoEntry
    <2>2. CASE \E s \in Seqs : isPublished(s)
      <3> DEFINE t == scanLatest.seq
      <3>1. /\ t \in Seqs /\ isPublished(t) /\ (\A s \in Seqs : isPublished(s) => s <= t)
            /\ scanLatest = [seq |-> t, id |-> files[t].id]
        BY <2>2, ScanIsLatest
      <3>2. {s \in Seqs : isPublished(s)}' = {s \in Seqs : isPublished(s)} /\ files'[t] = files[t]
        BY <1>1, <3>1
      <3>3. scanLatest = [seq |-> Max({s \in Seqs : isPublished(s)}),
                          id |-> files[Max({s \in Seqs : isPublished(s)})].id]
        BY <2>2 DEF scanLatest
      <3>4. t = Max({s \in Seqs : isPublished(s)})
        BY <3>3
      <3>5. scanLatest' = [seq |-> Max({s \in Seqs : isPublished(s)}),
                           id |-> files'[Max({s \in Seqs : isPublished(s)})].id]
        BY <2>2, <3>2 DEF scanLatest
      <3> QED BY <3>1, <3>2, <3>3, <3>4, <3>5
    <2> QED BY <2>1, <2>2
  <1>3. ASSUME readIndexed.ok PROVE readIndexed' = readIndexed
    <2>1. CASE index = NoEntry
      BY <2>1 DEF readIndexed, NoEntry
    <2>2. CASE index # NoEntry
      <3>1. index.seq \in Seqs
        BY <2>2, IndexIsEntry
      <3>2. CASE files[index.seq] = Absent
        BY <2>2, <3>1, <3>2, <1>2 DEF readIndexed, NoEntry
      <3>3. CASE files[index.seq] # Absent
        <4>1. isPublished(index.seq)
          BY <1>3, <2>2, <3>3 DEF readIndexed
        <4>2. files'[index.seq] = files[index.seq]
          BY <3>1, <4>1
        <4> QED BY <2>2, <3>3, <4>1, <4>2 DEF readIndexed, NoEntry, isPublished
      <3> QED BY <3>2, <3>3
    <2> QED BY <2>1, <2>2
  <1> QED BY <1>2, <1>3

\* A set of numbers has a least one.
LEMMA LeastOfSome ==
    ASSUME NEW S \in SUBSET Nat, S # {}
    PROVE  Min(S) \in S /\ \A s \in S : Min(S) <= s
  <1>1. PICK m \in S : \A s \in S : ~(<<s, m>> \in OpToRel(<, Nat))
    BY NatLessThanWellFounded, WFMin
  <1>2. ASSUME NEW s \in S PROVE m <= s
    <2>1. s \in Nat /\ m \in Nat
      OBVIOUS
    <2>2. ~(s < m)
      BY <1>1, <2>1 DEF OpToRel
    <2> QED BY <2>1, <2>2
  <1>3. \E x \in S : \A y \in S : x <= y
    BY <1>2
  <1> QED BY <1>3 DEF Min

LEMMA SeesAllStays ==
    ASSUME NEW c, SeesAll(c), scanLatest' = scanLatest, readIndexed.ok => readIndexed' = readIndexed,
           \A t \in Seqs : files[t] = Absent => files'[t] = Absent
    PROVE  SeesAll(c)'
  <1>1. \/ readIndexed' = readIndexed
        \/ /\ c.pc \notin {"scan", "reserve", "collided", "inspect", "evict"}
           /\ ~(c.pc = "load" /\ c.attempt > 0)
    BY DEF SeesAll
  <1>2. c.attempt > 0 /\ c.pc \in {"load", "scan", "reserve"} => c.at \in Seqs /\ files'[c.at] = Absent
    BY DEF SeesAll
  <1>3. newerOf(readIndexed.entry, scanLatest)' = newerOf(readIndexed'.entry, scanLatest')
    BY DEF newerOf
  <1>4. CASE readIndexed' = readIndexed
    BY <1>2, <1>3, <1>4 DEF SeesAll, newerOf
  <1>5. CASE /\ c.pc \notin {"scan", "reserve", "collided", "inspect", "evict"}
             /\ ~(c.pc = "load" /\ c.attempt > 0)
    BY <1>2, <1>5 DEF SeesAll
  <1> QED BY <1>1, <1>4, <1>5

LEMMA PastReserve == ASSUME NEW c, c.pc \in AfterReserve \cup {"clean", "unlink"}, c.attempt \in Nat PROVE SeesAll(c)
  BY DEF SeesAll, AfterReserve

\* A publisher goes on, or ends, without touching the directory.
LEMMA QuietCallStep ==
    ASSUME CheckpointInv, NEW p \in Publishers, NEW c \in PublishCalls,
           call' = [call EXCEPT ![p] = c],
           UNCHANGED <<files, index, handoff, published, raced>>,
           issued' \in issued .. MaxCheckpoints, acked' \in 0 .. MaxSeq,
           acked' = 0 \/ \E d \in published : d.seq = acked',
           CallOK(c)', Alone(p)',
           call[p].pc # "rename", c.pc # "rename",
           c.pc \in AfterReserve => call[p].pc \in AfterReserve,
           c.pc \in {"unlink", "evict"} => ~isPublished(c.at),
           raced = {} => VictimsPassed(c.victims)
                         /\ \A v \in c.victims \ call[p].victims : files[v].id \notin handoff
    PROVE  CheckpointInv'
  <1> USE CheckpointAssumption
  <1>1. CheckpointTypes'
    BY DEF CheckpointInv, CheckpointTypes
  <1>2. RecordsAgree'
    <2>1. ASSUME NEW q \in Publishers PROVE CallOK(call[q])'
      <3>1. CASE q = p
        BY <3>1 DEF CheckpointInv, CheckpointTypes
      <3>2. CASE q # p
        <4>1. call'[q] = call[q] /\ CallOK(call[q])
          BY <3>2 DEF CheckpointInv, CheckpointTypes, RecordsAgree
        <4>2. call[q].id \in 1 .. issued => call[q].id \in 1 .. issued'
          BY DEF CheckpointInv, CheckpointTypes, PublishCalls
        <4> QED BY <4>1, <4>2 DEF CallOK, EntryOK
      <3> QED BY <3>1, <3>2
    <2>2. ASSUME NEW d \in published PROVE d.id \in 1 .. issued'
      BY DEF CheckpointInv, CheckpointTypes, RecordsAgree
    <2>3. ASSUME NEW s \in Seqs, files[s].kind = "reserved", files[s].by # NoPublisher
          PROVE  call'[files[s].by].pc = "rename" /\ call'[files[s].by].at = s
      BY <2>3 DEF CheckpointInv, CheckpointTypes, RecordsAgree
    <2> QED BY <2>1, <2>2, <2>3 DEF CheckpointInv, RecordsAgree, isPublished, EntryOK
  <1>3. raced' = {} => Unraced'
    <2> SUFFICES ASSUME raced = {} PROVE Unraced'
      OBVIOUS
    <2>1. Unraced
      BY DEF CheckpointInv
    <2>2. \A q \in Publishers : call'[q] = IF q = p THEN c ELSE call[q]
      BY DEF CheckpointInv, CheckpointTypes
    <2>3. ASSUME NEW q \in Publishers, call'[q].pc = "rename"
          PROVE  files'[call'[q].at].kind = "reserved" /\ files'[call'[q].at].by = q
      BY <2>1, <2>2, <2>3 DEF Unraced
    <2>4. ASSUME NEW q \in Publishers PROVE VictimsPassed(call[q].victims)'
      BY <2>1, <2>2 DEF Unraced, VictimsPassed
    <2>5. ASSUME NEW i \in handoff
          PROVE  \E s \in Seqs : /\ isPublished(s)' /\ files'[s].id = i
                                 /\ \A q \in Publishers : s \notin call'[q].victims
      <3>1. PICK s \in Seqs : isPublished(s) /\ files[s].id = i /\ \A q \in Publishers : s \notin call[q].victims
        BY <2>1 DEF Unraced
      <3>2. s \notin c.victims
        BY <3>1
      <3> QED BY <2>2, <3>1, <3>2 DEF isPublished
    <2> QED BY <2>1, <2>3, <2>4, <2>5 DEF Unraced
  <1>4. ASSUME NEW q \in Publishers PROVE Alone(q)'
    <2>1. CASE q = p
      BY <2>1
    <2>2. CASE q # p
      <3>1. call'[q] = call[q] /\ (\A r \in Publishers : call'[r] = IF r = p THEN c ELSE call[r]) /\ Alone(q)
        BY <2>2 DEF CheckpointInv, CheckpointTypes
      <3>2. readIndexed' = readIndexed /\ scanLatest' = scanLatest
        BY DEF readIndexed, scanLatest, isPublished
      <3>3. \A s \in Seqs : isPublished(s)' <=> isPublished(s)
        BY DEF isPublished
      <3>4. ASSUME call[q].pc # "idle", ~call[q].contended
            PROVE  /\ \A r \in Publishers \ {q} : call'[r].pc \notin AfterReserve
                   /\ call[q].pc \in PublishSteps =>
                        \A r \in Publishers \ {q} : call'[r].pc \in {"unlink", "evict"} => ~isPublished(call[r].at)'
        BY <2>2, <3>1, <3>4 DEF Alone, isPublished
      <3>5. SeesAll(call[q]) => SeesAll(call[q])'
        <4>1. ASSUME NEW d, SeesAll(d) PROVE SeesAll(d)'
          BY <3>2, <4>1, SeesAllStays
        <4>2. PICK d : d = call[q]
          OBVIOUS
        <4> QED BY <3>1, <4>1, <4>2 DEF SeesAll
      <3> QED BY <3>1, <3>4, <3>5 DEF Alone
    <2> QED BY <2>1, <2>2
  <1> QED BY <1>1, <1>2, <1>3, <1>4 DEF CheckpointInv

\* A publisher without competition that is past its read is at a number above
\* everything there is.
LEMMA AloneIsAhead ==
    ASSUME CheckpointInv, NEW p \in Publishers, ~call[p].contended,
           call[p].pc \in {"reserve", "collided", "inspect", "evict"}
    PROVE  /\ readIndexed.ok /\ call[p].at \in Seqs /\ ~isPublished(call[p].at)
           /\ call[p].at = newerOf(readIndexed.entry, scanLatest).seq + 1
  <1> USE CheckpointAssumption
  <1>1. /\ readIndexed.ok /\ call[p].at \in Seqs
        /\ call[p].at = newerOf(readIndexed.entry, scanLatest).seq + 1
    BY DEF CheckpointInv, Alone, SeesAll, RecordsAgree, CallOK
  <1>2. readIndexed.entry.seq <= scanLatest.seq /\ scanLatest \in IndexEntries /\ readIndexed.entry \in IndexEntries
    BY <1>1, IndexIsEntry, ScanIsLatest DEF CheckpointInv
  <1>3. newerOf(readIndexed.entry, scanLatest).seq = scanLatest.seq
    BY <1>2 DEF newerOf, IndexEntries
  <1>4. isPublished(call[p].at) => call[p].at <= scanLatest.seq
    BY <1>1, ScanIsLatest DEF CheckpointInv
  <1> QED BY <1>1, <1>2, <1>3, <1>4 DEF IndexEntries, Seqs

\* A name that is removed is not the scan's, unless it was a checkpoint.
LEMMA RemovalKeepsView ==
    ASSUME CheckpointTypes, CheckpointTypes', RecordsAgree, NEW s \in Seqs, ~isPublished(s),
           files' = [files EXCEPT ![s] = Absent], index' = index
    PROVE  scanLatest' = scanLatest /\ (readIndexed.ok => readIndexed' = readIndexed)
  <1>1. \A t \in Seqs : files'[t] = IF t = s THEN Absent ELSE files[t]
    BY DEF CheckpointTypes
  <1>2. ~isPublished(s)'
    BY <1>1 DEF isPublished, Absent
  <1>3. /\ \A t \in Seqs : isPublished(t) => files'[t] = files[t]
        /\ \A t \in Seqs : ~isPublished(t) => ~isPublished(t)'
        /\ \A t \in Seqs : files[t] = Absent => files'[t] = Absent
    BY <1>1, <1>2 DEF isPublished
  <1> QED BY <1>3, ViewStays

\* A publisher unlinks what it saw as a crashed reservation.
LEMMA RemovalStep ==
    ASSUME CheckpointInv, NEW p \in Publishers, NEW c \in PublishCalls,
           call[p].pc \in {"unlink", "evict"}, unlinkArtifact(call[p].at),
           call' = [call EXCEPT ![p] = c],
           UNCHANGED <<index, handoff, issued, crashes, published, acked>>,
           CallOK(c)', Alone(p)',
           c.pc \in {"clean", "load", "idle"}, c.victims \subseteq call[p].victims
    PROVE  CheckpointInv'
  <1> USE CheckpointAssumption
  <1> DEFINE s == call[p].at
  <1>1. s \in Seqs /\ CheckpointTypes /\ RecordsAgree
    BY DEF CheckpointInv, RecordsAgree, CallOK
  <1>2. /\ \A t \in Seqs : files'[t] = IF t = s THEN Absent ELSE files[t]
        /\ \A r \in Publishers : call'[r] = IF r = p THEN c ELSE call[r]
    BY <1>1 DEF CheckpointTypes, unlinkArtifact
  <1>3. CheckpointTypes'
    <2>1. Absent \in StoredFiles
      BY DEF Absent, StoredFiles
    <2> QED BY <1>1, <2>1 DEF CheckpointTypes, unlinkArtifact
  <1>4. files'[s].kind = "absent"
    BY <1>1, <1>2 DEF Absent
  <1>5. RecordsAgree'
    <2>1. ASSUME NEW q \in Publishers PROVE CallOK(call[q])'
      <3>1. CASE q = p
        BY <3>1, <1>2
      <3>2. CASE q # p
        <4>1. call'[q] = call[q] /\ CallOK(call[q])
          BY <3>2, <1>1, <1>2 DEF RecordsAgree
        <4> QED BY <4>1 DEF CallOK, EntryOK
      <3> QED BY <3>1, <3>2
    <2>2. ASSUME NEW t \in Seqs, isPublished(t)'
          PROVE  \E d \in published : d.seq = t /\ d.id = files'[t].id /\ d.supersedes = files'[t].supersedes
      <3>1. t # s
        BY <2>2, <1>4 DEF isPublished
      <3> QED BY <3>1, <2>2, <1>1, <1>2 DEF RecordsAgree, isPublished
    <2>3. ASSUME NEW t \in Seqs, files'[t].kind = "reserved", files'[t].by # NoPublisher
          PROVE  call'[files'[t].by].pc = "rename" /\ call'[files'[t].by].at = t
      <3>1. t # s
        BY <2>3, <1>4
      <3>2. files'[t] = files[t] /\ files[t].by \in Publishers
        BY <3>1, <2>3, <1>1, <1>2 DEF CheckpointTypes, StoredFiles
      <3> QED BY <3>2, <2>3, <1>1, <1>2 DEF RecordsAgree
    <2> QED BY <2>1, <2>2, <2>3, <1>1 DEF RecordsAgree, EntryOK
  <1>6. raced' = {} => Unraced'
    <2> SUFFICES ASSUME raced' = {} PROVE Unraced'
      OBVIOUS
    <2>1. raced = {} /\ (files[s] = Absent \/ (files[s].kind = "reserved" /\ files[s].by = NoPublisher))
      BY <1>1 DEF unlinkArtifact, abandoned, agedReservation
    <2>2. Unraced
      BY <2>1 DEF CheckpointInv
    <2>3. ASSUME NEW q \in Publishers, call'[q].pc = "rename"
          PROVE  files'[call'[q].at].kind = "reserved" /\ files'[call'[q].at].by = q
      <3>1. q # p /\ call'[q] = call[q]
        BY <2>3, <1>2
      <3>2. files[call[q].at].kind = "reserved" /\ files[call[q].at].by = q /\ call[q].at \in Seqs
        BY <3>1, <2>2, <2>3, <1>1 DEF Unraced, RecordsAgree, CallOK, AfterReserve
      <3>3. call[q].at # s
        BY <3>2, <2>1 DEF Absent
      <3> QED BY <3>1, <3>2, <3>3, <1>2
    <2>4. ASSUME NEW t \in Seqs, NEW d \in published, files'[t].kind = "reserved" PROVE d.seq # t
      BY <2>4, <2>2, <1>2, <1>4 DEF Unraced
    <2>5. ASSUME NEW d \in published
          PROVE  \/ files'[d.seq] = Checkpoint(d.id, d.supersedes)
                 \/ files'[d.seq] = Absent /\ \E e \in published : e.seq > d.seq
      <3>1. d.seq \in Seqs
        BY <1>1 DEF CheckpointTypes
      <3>2. CASE d.seq # s
        BY <3>1, <3>2, <2>2, <1>2 DEF Unraced
      <3>3. CASE d.seq = s
        <4>1. files[s] # Checkpoint(d.id, d.supersedes)
          BY <2>1 DEF Absent, Checkpoint
        <4> QED BY <4>1, <3>1, <3>3, <2>2, <1>2 DEF Unraced
      <3> QED BY <3>2, <3>3
    <2>6. ASSUME NEW q \in Publishers PROVE VictimsPassed(call[q].victims)'
      BY <2>2, <1>2 DEF Unraced, VictimsPassed
    <2>7. ASSUME NEW i \in handoff
          PROVE  \E t \in Seqs : /\ isPublished(t)' /\ files'[t].id = i
                                 /\ \A q \in Publishers : t \notin call'[q].victims
      <3>1. PICK t \in Seqs : isPublished(t) /\ files[t].id = i /\ \A q \in Publishers : t \notin call[q].victims
        BY <2>2 DEF Unraced
      <3>2. t # s
        BY <3>1, <2>1 DEF isPublished, Absent
      <3> QED BY <1>2, <3>1, <3>2 DEF isPublished
    <2> QED BY <2>2, <2>3, <2>4, <2>5, <2>6, <2>7 DEF Unraced
  <1>7. ASSUME NEW q \in Publishers PROVE Alone(q)'
    <2>1. CASE q = p
      BY <2>1
    <2>2. CASE q # p
      <3> SUFFICES ASSUME call[q].pc # "idle", ~call[q].contended PROVE Alone(q)'
        BY <2>2, <1>2 DEF Alone
      <3>1. call'[q] = call[q] /\ Alone(q)
        BY <2>2, <1>2 DEF CheckpointInv
      <3>2. \A r \in Publishers \ {q} : call'[r].pc \notin AfterReserve
        BY <3>1, <1>2 DEF Alone, AfterReserve
      <3>3. \A t \in Seqs : isPublished(t)' => isPublished(t)
        BY <1>2, <1>4 DEF isPublished
      <3>4. CASE call[q].pc \in PublishSteps
        <4>1. ~isPublished(s)
          BY <2>2, <3>1, <3>4 DEF Alone
        <4>2. scanLatest' = scanLatest /\ (readIndexed.ok => readIndexed' = readIndexed)
          BY <4>1, <1>1, <1>3, RemovalKeepsView DEF unlinkArtifact
        <4>3. \A r \in Publishers \ {q} : call'[r].pc \in {"unlink", "evict"} => files'[call'[r].at].kind # "checkpoint"
          <5> SUFFICES ASSUME NEW r \in Publishers \ {q}, call'[r].pc \in {"unlink", "evict"}
                       PROVE  files'[call'[r].at].kind # "checkpoint"
            OBVIOUS
          <5>1. r # p /\ call'[r] = call[r]
            BY <1>2
          <5>2. ~isPublished(call[r].at) /\ call[r].at \in Seqs
            BY <5>1, <3>1, <3>4, <1>1 DEF Alone, RecordsAgree, CallOK
          <5> QED BY <5>1, <5>2, <3>3 DEF isPublished
        <4>4. \A t \in Seqs : files[t] = Absent => files'[t] = Absent
          BY <1>2
        <4>5. SeesAll(call[q])'
          <5>1. PICK d : d = call[q]
            OBVIOUS
          <5>2. SeesAll(d)
            BY <3>1, <5>1 DEF Alone, SeesAll
          <5>3. SeesAll(d)'
            BY <4>2, <4>4, <5>2, SeesAllStays
          <5> QED BY <3>1, <5>1, <5>3 DEF SeesAll
        <4> QED BY <3>1, <3>2, <4>3, <4>5 DEF Alone, isPublished
      <3>5. CASE call[q].pc \notin PublishSteps
        <4>1. call'[q].pc \in AfterReserve /\ call'[q].attempt \in Nat
          BY <3>1, <3>5, <1>1 DEF CheckpointTypes, PublishCalls
        <4>2. SeesAll(call[q])'
          BY <4>1 DEF SeesAll, AfterReserve
        <4> QED BY <3>1, <3>2, <3>5, <4>2 DEF Alone
      <3> QED BY <3>4, <3>5
    <2> QED BY <2>1, <2>2
  <1> QED BY <1>3, <1>5, <1>6, <1>7 DEF CheckpointInv

\* What a publisher does to a name while it is past its reservation, or as it
\* reserves, nobody without competition sees.
LEMMA OnlyMineMatters ==
    ASSUME CheckpointInv, NEW p \in Publishers, NEW c \in PublishCalls,
           c.pc \in AfterReserve \cup {"idle"},
           c.pc \in AfterReserve => (~c.contended => ~call[p].contended) /\ call[p].pc # "idle",
           \A q \in Publishers \ {p} :
             /\ call[q].pc # "idle" => call'[q].pc = call[q].pc
             /\ call[q].pc = "idle" => call'[q].pc = "idle"
             /\ call'[q].pc = "idle" \/ call'[q].contended,
           call'[p] = c,
           ~c.contended /\ c.pc \in AfterReserve => Alone(p)
    PROVE  \A q \in Publishers : Alone(q)'
  <1>1. ASSUME NEW q \in Publishers \ {p} PROVE Alone(q)'
    BY DEF Alone
  <1>2. Alone(p)'
    <2> SUFFICES ASSUME c.pc \in AfterReserve, ~c.contended PROVE Alone(p)'
      BY DEF Alone
    <2>1. \A q \in Publishers \ {p} : call[q].pc \notin AfterReserve
      BY DEF Alone
    <2>2. \A q \in Publishers \ {p} : call'[q].pc \notin AfterReserve
      BY <2>1 DEF AfterReserve
    <2>3. call'[p].attempt \in Nat
      BY DEF PublishCalls
    <2>4. SeesAll(call[p])'
      BY <2>3 DEF SeesAll, AfterReserve
    <2> QED BY <2>2, <2>4 DEF Alone, AfterReserve, PublishSteps
  <1> QED BY <1>1, <1>2

\* When somebody is past its reservation, everyone else has company.
LEMMA OthersHaveCompany ==
    ASSUME CheckpointInv, NEW p \in Publishers, call[p].pc \in AfterReserve
    PROVE  \A q \in Publishers \ {p} : call[q].pc = "idle" \/ call[q].contended
  BY DEF CheckpointInv, Alone

LEMMA NoCallIsCall == NoCall \in PublishCalls /\ NoEntry \in IndexEntries
  BY CheckpointAssumption DEF NoCall, NoEntry, PublishCalls, IndexEntries

LEMMA BeginStep == ASSUME CheckpointInv, NEW p \in Publishers, BeginPublish(p) PROVE CheckpointInv'
  <1> USE CheckpointAssumption
  <1>1. CheckpointTypes /\ call[p].pc = "idle" /\ issued \in Nat /\ issued < MaxCheckpoints /\ issued' = issued + 1
    BY DEF CheckpointInv, CheckpointTypes, BeginPublish, at
  <1> DEFINE busy == \E q \in Publishers : call[q].pc # "idle"
  <1>2. PICK c : c = [[[NoCall EXCEPT !.pc = "clean"] EXCEPT !.id = issued + 1] EXCEPT !.contended = busy]
    OBVIOUS
  <1>3. call' = [call EXCEPT ![p] = c]
    BY <1>2 DEF BeginPublish
  <1>4. busy \in BOOLEAN
    OBVIOUS
  <1>5. /\ c.pc = "clean" /\ c.id = issued + 1 /\ c.contended = busy /\ c.attempt = 0 /\ c.at = 0
        /\ c.indexed = NoEntry /\ c.previous = NoEntry /\ c.victims = {} /\ c.result = "none"
    BY <1>2 DEF NoCall
  <1>6. c \in PublishCalls
    <2>1. issued + 1 \in 0 .. MaxCheckpoints
      BY <1>1
    <2> QED BY <1>2, <1>4, <2>1, NoCallIsCall DEF PublishCalls, PublishSteps
  <1>7. CallOK(c)'
    BY <1>1, <1>5 DEF CallOK, EntryOK, AfterReserve
  <1>8. \A q \in Publishers : call'[q] = IF q = p THEN c ELSE call[q]
    BY <1>1, <1>3 DEF CheckpointTypes
  <1>9. Alone(p)'
    <2>1. CASE busy
      BY <2>1, <1>5, <1>8 DEF Alone
    <2>2. CASE ~busy
      <3>1. \A q \in Publishers \ {p} : call'[q].pc = "idle"
        BY <2>2, <1>8
      <3> QED BY <3>1, <1>5, <1>8 DEF Alone, AfterReserve, SeesAll
    <2> QED BY <2>1, <2>2
  <1>10. UNCHANGED <<files, index, handoff, published, raced>> /\ acked' = acked
    BY DEF BeginPublish, ghosts
  <1>11. acked \in 0 .. MaxSeq /\ (acked = 0 \/ \E d \in published : d.seq = acked)
    BY DEF CheckpointInv, CheckpointTypes, RecordsAgree
  <1>12. VictimsPassed(c.victims)
    BY <1>5 DEF VictimsPassed
  <1>13. issued' \in issued .. MaxCheckpoints
    BY <1>1
  <1> QED BY <1>1, <1>3, <1>5, <1>6, <1>7, <1>9, <1>10, <1>11, <1>12, <1>13, QuietCallStep DEF AfterReserve

\* The same for a step within a call, which issues and acknowledges nothing.
LEMMA WithinCall ==
    ASSUME CheckpointInv, NEW p \in Publishers, NEW c \in PublishCalls,
           call' = [call EXCEPT ![p] = c],
           UNCHANGED <<files, index, handoff, issued, crashes, ghosts>>,
           CallOK(c), c.victims = call[p].victims \/ c.victims = {},
           ~c.contended /\ c.pc # "idle" => ~call[p].contended,
           call[p].pc \in PublishSteps, c.pc \in PublishSteps \cup {"idle"},
           c.pc \in {"unlink", "evict"} => ~isPublished(c.at),
           ~c.contended /\ c.pc # "idle" => SeesAll(c)
    PROVE  CheckpointInv'
  <1> USE CheckpointAssumption
  <1>1. /\ CheckpointTypes /\ UNCHANGED <<files, index, handoff, issued, published, acked, raced>>
        /\ acked \in 0 .. MaxSeq /\ (acked = 0 \/ \E d \in published : d.seq = acked)
        /\ issued \in issued .. MaxCheckpoints
    BY DEF CheckpointInv, CheckpointTypes, RecordsAgree, ghosts
  <1>2. CallOK(c)'
    BY <1>1 DEF CallOK, EntryOK
  <1>3. \A q \in Publishers : call'[q] = IF q = p THEN c ELSE call[q]
    BY <1>1 DEF CheckpointTypes
  <1>4. Alone(p)'
    <2> SUFFICES ASSUME c.pc # "idle", ~c.contended PROVE Alone(p)'
      BY <1>3 DEF Alone
    <2>1. Alone(p) /\ call[p].pc # "idle" /\ ~call[p].contended
      BY DEF CheckpointInv, PublishSteps
    <2>2. /\ \A q \in Publishers \ {p} : call'[q].pc \notin AfterReserve
          /\ \A q \in Publishers \ {p} : call'[q].pc \in {"unlink", "evict"} => files'[call'[q].at].kind # "checkpoint"
      BY <2>1, <1>1, <1>3 DEF Alone, isPublished
    <2>3. readIndexed' = readIndexed /\ scanLatest' = scanLatest
      BY <1>1 DEF readIndexed, scanLatest, isPublished
    <2>4. SeesAll(c)'
      BY <2>3, <1>1, SeesAllStays
    <2>5. SeesAll(call[p])'
      BY <2>4, <1>3 DEF SeesAll
    <2> QED BY <2>2, <2>5, <1>3 DEF Alone, isPublished
  <1>5. c.pc \notin AfterReserve /\ c.pc # "rename" /\ call[p].pc # "rename"
    BY DEF AfterReserve, PublishSteps
  <1>6. raced = {} => VictimsPassed(c.victims) /\ c.victims \ call[p].victims = {}
    BY DEF CheckpointInv, Unraced, VictimsPassed
  <1> QED BY <1>1, <1>2, <1>4, <1>5, <1>6, QuietCallStep

LEMMA CleanStatStep == ASSUME CheckpointInv, NEW p \in Publishers, CleanStat(p) PROVE CheckpointInv'
  <1> USE CheckpointAssumption
  <1> DEFINE later == {s \in Seqs : s > call[p].at /\ crashedReservation(s)}
  <1>1. /\ CheckpointTypes /\ call[p].pc = "clean" /\ CallOK(call[p]) /\ call[p] \in PublishCalls
        /\ UNCHANGED <<files, index, handoff, issued, crashes, ghosts>>
    BY DEF CheckpointInv, CheckpointTypes, RecordsAgree, CleanStat, at
  <1>2. CASE later = {}
    <2>1. PICK c : c = [[call[p] EXCEPT !.pc = "load"] EXCEPT !.at = 0]
      OBVIOUS
    <2>2. call' = [call EXCEPT ![p] = c]
      BY <1>1, <1>2, <2>1 DEF CleanStat, CheckpointTypes
    <2>3. c \in PublishCalls
      <3>1. 0 \in 0 .. MaxSeq
        OBVIOUS
      <3> QED BY <1>1, <2>1, <3>1 DEF PublishCalls, PublishSteps
    <2>4. /\ c.pc = "load" /\ c.attempt = call[p].attempt /\ c.contended = call[p].contended
          /\ c.victims = call[p].victims /\ c.indexed = call[p].indexed /\ c.previous = call[p].previous
          /\ c.id = call[p].id /\ c.result = call[p].result
      BY <1>1, <2>1 DEF PublishCalls
    <2>5. c.attempt = 0
      BY <1>1, <2>4 DEF CallOK
    <2>6. CallOK(c)
      BY <1>1, <2>4, <2>5 DEF CallOK, AfterReserve
    <2>7. SeesAll(c)
      BY <2>4, <2>5 DEF SeesAll
    <2> QED BY <1>1, <2>2, <2>3, <2>4, <2>6, <2>7, WithinCall DEF PublishSteps
  <1>3. CASE later # {}
    <2>1. Min(later) \in later
      <3>1. later \in SUBSET Nat
        BY DEF Seqs
      <3> QED BY <3>1, <1>3, LeastOfSome
    <2>2. PICK c : c = [[call[p] EXCEPT !.pc = "unlink"] EXCEPT !.at = Min(later)]
      OBVIOUS
    <2>3. call' = [call EXCEPT ![p] = c]
      BY <1>1, <1>3, <2>2 DEF CleanStat, CheckpointTypes
    <2>4. c \in PublishCalls
      <3>1. Min(later) \in 0 .. MaxSeq
        BY <2>1 DEF Seqs
      <3> HIDE DEF later
      <3> QED BY <1>1, <2>2, <3>1 DEF PublishCalls, PublishSteps
    <2>5. /\ c.pc = "unlink" /\ c.attempt = call[p].attempt /\ c.contended = call[p].contended
          /\ c.victims = call[p].victims /\ c.indexed = call[p].indexed /\ c.previous = call[p].previous
          /\ c.id = call[p].id /\ c.at = Min(later) /\ c.result = call[p].result
      BY <1>1, <2>2 DEF PublishCalls
    <2>6. c.attempt = 0 /\ c.at \in Seqs /\ ~isPublished(c.at)
      BY <1>1, <2>1, <2>5 DEF CallOK, crashedReservation, agedReservation, isPublished
    <2>7. CallOK(c)
      BY <1>1, <2>5, <2>6 DEF CallOK, AfterReserve
    <2>8. SeesAll(c)
      BY <2>5, <2>6 DEF SeesAll
    <2> QED BY <1>1, <2>3, <2>4, <2>5, <2>6, <2>7, <2>8, WithinCall DEF PublishSteps
  <1> QED BY <1>2, <1>3

LEMMA LoadIndexStep == ASSUME CheckpointInv, NEW p \in Publishers, LoadIndex(p) PROVE CheckpointInv'
  <1> USE CheckpointAssumption
  <1>1. /\ CheckpointTypes /\ call[p].pc = "load" /\ CallOK(call[p]) /\ call[p] \in PublishCalls /\ Alone(p)
        /\ RecordsAgree /\ UNCHANGED <<files, index, handoff, issued, crashes, ghosts>>
    BY DEF CheckpointInv, CheckpointTypes, RecordsAgree, LoadIndex, at
  <1>2. CASE readIndexed.ok
    <2>1. PICK c : c = [[call[p] EXCEPT !.pc = "scan"] EXCEPT !.indexed = readIndexed.entry]
      OBVIOUS
    <2>2. call' = [call EXCEPT ![p] = c]
      BY <1>1, <1>2, <2>1 DEF LoadIndex, CheckpointTypes
    <2>3. readIndexed.entry \in IndexEntries /\ EntryOK(readIndexed.entry)
      BY <1>1, IndexIsEntry
    <2>4. c \in PublishCalls
      BY <1>1, <2>1, <2>3 DEF PublishCalls, PublishSteps
    <2>5. /\ c.pc = "scan" /\ c.attempt = call[p].attempt /\ c.contended = call[p].contended
          /\ c.victims = call[p].victims /\ c.indexed = readIndexed.entry /\ c.previous = call[p].previous
          /\ c.id = call[p].id /\ c.at = call[p].at /\ c.result = call[p].result
      BY <1>1, <2>1 DEF PublishCalls
    <2>6. CallOK(c)
      BY <1>1, <2>3, <2>5 DEF CallOK, AfterReserve
    <2>7. ~c.contended => ~call[p].contended /\ SeesAll(call[p])
      BY <1>1, <2>5 DEF Alone
    <2>8. ~c.contended => SeesAll(c)
      BY <1>1, <1>2, <2>5, <2>7 DEF SeesAll
    <2> QED BY <1>1, <2>2, <2>4, <2>5, <2>6, <2>8, WithinCall DEF PublishSteps
  <1>3. CASE ~readIndexed.ok
    <2>1. PICK c : c = [[NoCall EXCEPT !.result = "error"] EXCEPT !.contended = call[p].contended]
      OBVIOUS
    <2>2. call' = [call EXCEPT ![p] = c]
      BY <1>1, <1>3, <2>1 DEF LoadIndex, ends
    <2>3. c \in PublishCalls
      BY <1>1, <2>1, NoCallIsCall DEF PublishCalls
    <2>4. /\ c.pc = "idle" /\ c.attempt = 0 /\ c.victims = {} /\ c.indexed = NoEntry /\ c.previous = NoEntry
          /\ c.id = 0 /\ c.result = "error"
      BY <2>1 DEF NoCall
    <2>5. CallOK(c)
      BY <2>4 DEF CallOK, AfterReserve, EntryOK
    <2> QED BY <1>1, <2>2, <2>3, <2>4, <2>5, WithinCall DEF PublishSteps
  <1> QED BY <1>2, <1>3

LEMMA LoadScanStep == ASSUME CheckpointInv, NEW p \in Publishers, LoadScan(p) PROVE CheckpointInv'
  <1> USE CheckpointAssumption
  <1> DEFINE latest == newerOf(call[p].indexed, scanLatest)
  <1>1. /\ CheckpointTypes /\ call[p].pc = "scan" /\ CallOK(call[p]) /\ call[p] \in PublishCalls /\ Alone(p)
        /\ RecordsAgree /\ UNCHANGED <<files, index, handoff, issued, crashes, ghosts>> /\ latest.seq < MaxSeq
    BY DEF CheckpointInv, CheckpointTypes, RecordsAgree, LoadScan, at
  <1>2. PICK c : c = [[[call[p] EXCEPT !.pc = "reserve"] EXCEPT !.previous = latest] EXCEPT !.at = latest.seq + 1]
    OBVIOUS
  <1>3. call' = [call EXCEPT ![p] = c]
    BY <1>1, <1>2 DEF LoadScan, CheckpointTypes
  <1>4. latest \in IndexEntries /\ EntryOK(latest)
    <2>1. scanLatest \in IndexEntries /\ EntryOK(scanLatest) /\ call[p].indexed \in IndexEntries /\ EntryOK(call[p].indexed)
      BY <1>1, IndexIsEntry, ScanIsLatest DEF PublishCalls, CallOK
    <2> QED BY <2>1 DEF newerOf
  <1>5. latest.seq + 1 \in Seqs
    BY <1>1, <1>4 DEF IndexEntries, Seqs
  <1>6. c \in PublishCalls
    <2>1. latest.seq + 1 \in 0 .. MaxSeq
      BY <1>5 DEF Seqs
    <2> HIDE DEF latest
    <2> QED BY <1>1, <1>2, <1>4, <2>1 DEF PublishCalls, PublishSteps
  <1>7. /\ c.pc = "reserve" /\ c.attempt = call[p].attempt /\ c.contended = call[p].contended
        /\ c.victims = call[p].victims /\ c.indexed = call[p].indexed /\ c.previous = latest
        /\ c.id = call[p].id /\ c.at = latest.seq + 1 /\ c.result = call[p].result
    BY <1>1, <1>2 DEF PublishCalls
  <1>8. CallOK(c)
    BY <1>1, <1>4, <1>5, <1>7 DEF CallOK, AfterReserve
  <1>9. ~call[p].contended =>
          /\ readIndexed.ok /\ latest = newerOf(readIndexed.entry, scanLatest)
          /\ call[p].attempt > 0 => call[p].at = latest.seq + 1 /\ files[call[p].at] = Absent
    BY <1>1 DEF Alone, SeesAll
  <1>10. ~c.contended => SeesAll(c)
    BY <1>5, <1>7, <1>9 DEF SeesAll
  <1> QED BY <1>1, <1>3, <1>6, <1>7, <1>8, <1>10, WithinCall DEF PublishSteps

\* The call that a collision leaves.
AfterCollision(p, company) ==
    IF call[p].attempt + 1 = maximumPublishAttempts
    THEN [[NoCall EXCEPT !.result = "collision"] EXCEPT !.contended = call[p].contended \/ company]
    ELSE [[[call[p] EXCEPT !.pc = "load"] EXCEPT !.attempt = call[p].attempt + 1]
            EXCEPT !.contended = call[p].contended \/ company]

\* A new attempt after a collision, or giving up, by a publisher that found its
\* number free again or has company.
LEMMA NextAttempt ==
    ASSUME CheckpointInv, NEW p \in Publishers, NEW company \in BOOLEAN,
           call[p].pc \in {"collided", "inspect", "evict"}
    PROVE  LET c == AfterCollision(p, company)
           IN  /\ c \in PublishCalls /\ CallOK(c)
               /\ ~c.contended => ~call[p].contended /\ ~company
               /\ c.pc \in {"idle", "load"} /\ c.victims \in {{}, call[p].victims}
               /\ c.pc = "load" => c.at = call[p].at /\ c.attempt = call[p].attempt + 1
  <1> USE CheckpointAssumption
  <1>1. call[p] \in PublishCalls /\ CallOK(call[p]) /\ Alone(p) /\ call[p].contended \in BOOLEAN
        /\ call[p].attempt \in Nat
    BY DEF CheckpointInv, CheckpointTypes, RecordsAgree, PublishCalls
  <1>2. ~call[p].contended => call[p].attempt = 0
    BY <1>1 DEF Alone, SeesAll
  <1>3. PICK b \in BOOLEAN : b = (call[p].contended \/ company)
    BY <1>1
  <1>4. ~b => ~call[p].contended /\ ~company
    BY <1>3
  <1>5. CASE call[p].attempt + 1 = maximumPublishAttempts
    <2>1. PICK c : c = [[NoCall EXCEPT !.result = "collision"] EXCEPT !.contended = b]
      OBVIOUS
    <2>2. c = AfterCollision(p, company)
      BY <1>3, <1>5, <2>1 DEF AfterCollision
    <2>3. c \in PublishCalls
      BY <1>1, <2>1, NoCallIsCall DEF PublishCalls
    <2>4. /\ c.pc = "idle" /\ c.attempt = 0 /\ c.victims = {} /\ c.indexed = NoEntry /\ c.previous = NoEntry
          /\ c.id = 0 /\ c.result = "collision" /\ c.contended = b
      BY <2>1 DEF NoCall
    <2>5. b
      BY <1>1, <1>2, <1>4, <1>5
    <2>6. CallOK(c)
      BY <2>4, <2>5 DEF CallOK, AfterReserve, EntryOK
    <2> QED BY <2>2, <2>3, <2>4, <2>5, <2>6
  <1>6. CASE call[p].attempt + 1 # maximumPublishAttempts
    <2>1. PICK c : c = [[[call[p] EXCEPT !.pc = "load"] EXCEPT !.attempt = call[p].attempt + 1]
                          EXCEPT !.contended = b]
      OBVIOUS
    <2>2. c = AfterCollision(p, company)
      BY <1>3, <1>6, <2>1 DEF AfterCollision
    <2>3. c \in PublishCalls
      <3>1. call[p].attempt + 1 \in Nat
        BY <1>1
      <3> QED BY <1>1, <1>3, <2>1, <3>1 DEF PublishCalls, PublishSteps
    <2>4. /\ c.pc = "load" /\ c.attempt = call[p].attempt + 1 /\ c.contended = b
          /\ c.victims = call[p].victims /\ c.indexed = call[p].indexed /\ c.previous = call[p].previous
          /\ c.id = call[p].id /\ c.at = call[p].at /\ c.result = call[p].result
      BY <1>1, <2>1 DEF PublishCalls
    <2>5. CallOK(c)
      BY <1>1, <2>4 DEF CallOK, AfterReserve
    <2> QED BY <1>4, <2>2, <2>3, <2>4, <2>5
  <1> QED BY <1>5, <1>6

LEMMA CollideStep == ASSUME CheckpointInv, NEW p \in Publishers, Collide(p) PROVE CheckpointInv'
  <1> USE CheckpointAssumption
  <1>1. /\ CheckpointTypes /\ call[p].pc = "collided" /\ CallOK(call[p]) /\ call[p] \in PublishCalls /\ Alone(p)
        /\ RecordsAgree /\ UNCHANGED <<files, index, handoff, issued, crashes, ghosts>>
    BY DEF CheckpointInv, CheckpointTypes, RecordsAgree, Collide, at
  <1>2. ~call[p].contended =>
          /\ readIndexed.ok /\ call[p].at \in Seqs /\ ~isPublished(call[p].at) /\ call[p].attempt = 0
          /\ call[p].at = newerOf(readIndexed.entry, scanLatest).seq + 1
    BY <1>1, AloneIsAhead DEF Alone, SeesAll, PublishCalls
  <1>3. CASE agedReservation(call[p].at)
    <2>1. PICK c : c = [call[p] EXCEPT !.pc = "inspect"]
      OBVIOUS
    <2>2. call' = [call EXCEPT ![p] = c]
      BY <1>1, <1>3, <2>1 DEF Collide, goes, CheckpointTypes
    <2>3. c \in PublishCalls
      BY <1>1, <2>1 DEF PublishCalls, PublishSteps
    <2>4. /\ c.pc = "inspect" /\ c.attempt = call[p].attempt /\ c.contended = call[p].contended
          /\ c.victims = call[p].victims /\ c.indexed = call[p].indexed /\ c.previous = call[p].previous
          /\ c.id = call[p].id /\ c.at = call[p].at /\ c.result = call[p].result
      BY <1>1, <2>1 DEF PublishCalls
    <2>5. CallOK(c)
      BY <1>1, <2>4 DEF CallOK, AfterReserve
    <2>6. ~c.contended => SeesAll(c)
      BY <1>2, <2>4 DEF SeesAll
    <2> QED BY <1>1, <2>2, <2>3, <2>4, <2>5, <2>6, WithinCall DEF PublishSteps
  <1>4. CASE ~agedReservation(call[p].at)
    <2> DEFINE company == files[call[p].at].kind = "reserved"
    <2>1. PICK c : c = AfterCollision(p, company)
      OBVIOUS
    <2>2. call' = [call EXCEPT ![p] = c]
      BY <1>1, <1>4, <2>1 DEF Collide, nextAttempt, AfterCollision, CheckpointTypes
    <2>3. /\ c \in PublishCalls /\ CallOK(c) /\ (~c.contended => ~call[p].contended /\ ~company)
          /\ c.pc \in {"idle", "load"} /\ c.victims \in {{}, call[p].victims}
          /\ c.pc = "load" => c.at = call[p].at /\ c.attempt = call[p].attempt + 1
      <3>1. company \in BOOLEAN
        OBVIOUS
      <3> HIDE DEF company
      <3> QED BY <1>1, <2>1, <3>1, NextAttempt
    <2>4. ~c.contended => files[call[p].at] = Absent
      <3>1. call[p].at \in Seqs
        BY <1>1 DEF CallOK
      <3>2. files[call[p].at] \in StoredFiles
        BY <1>1, <3>1 DEF CheckpointTypes
      <3> QED BY <1>2, <2>3, <3>2 DEF StoredFiles, isPublished, Absent
    <2>5. ~c.contended /\ c.pc # "idle" => SeesAll(c)
      BY <1>2, <2>3, <2>4 DEF SeesAll
    <2> QED BY <1>1, <2>2, <2>3, <2>5, WithinCall DEF PublishSteps
  <1> QED BY <1>3, <1>4

LEMMA InspectStep == ASSUME CheckpointInv, NEW p \in Publishers, InspectCollision(p) PROVE CheckpointInv'
  <1> USE CheckpointAssumption
  <1>1. /\ CheckpointTypes /\ call[p].pc = "inspect" /\ CallOK(call[p]) /\ call[p] \in PublishCalls /\ Alone(p)
        /\ RecordsAgree /\ UNCHANGED <<files, index, handoff, issued, crashes, ghosts>>
    BY DEF CheckpointInv, CheckpointTypes, RecordsAgree, InspectCollision, at
  <1>2. ~call[p].contended =>
          /\ readIndexed.ok /\ call[p].at \in Seqs /\ ~isPublished(call[p].at) /\ call[p].attempt = 0
          /\ call[p].at = newerOf(readIndexed.entry, scanLatest).seq + 1
    BY <1>1, AloneIsAhead DEF Alone, SeesAll, PublishCalls
  <1>3. CASE ~isPublished(call[p].at)
    <2>1. PICK c : c = [call[p] EXCEPT !.pc = "evict"]
      OBVIOUS
    <2>2. call' = [call EXCEPT ![p] = c]
      BY <1>1, <1>3, <2>1 DEF InspectCollision, goes, CheckpointTypes
    <2>3. c \in PublishCalls
      BY <1>1, <2>1 DEF PublishCalls, PublishSteps
    <2>4. /\ c.pc = "evict" /\ c.attempt = call[p].attempt /\ c.contended = call[p].contended
          /\ c.victims = call[p].victims /\ c.indexed = call[p].indexed /\ c.previous = call[p].previous
          /\ c.id = call[p].id /\ c.at = call[p].at /\ c.result = call[p].result
      BY <1>1, <2>1 DEF PublishCalls
    <2>5. CallOK(c)
      BY <1>1, <2>4 DEF CallOK, AfterReserve
    <2>6. ~c.contended => SeesAll(c)
      BY <1>2, <2>4 DEF SeesAll
    <2> QED BY <1>1, <1>3, <2>2, <2>3, <2>4, <2>5, <2>6, WithinCall DEF PublishSteps
  <1>4. CASE isPublished(call[p].at)
    <2>1. PICK c : c = AfterCollision(p, FALSE)
      OBVIOUS
    <2>2. call' = [call EXCEPT ![p] = c]
      BY <1>1, <1>4, <2>1 DEF InspectCollision, nextAttempt, AfterCollision, CheckpointTypes
    <2>3. /\ c \in PublishCalls /\ CallOK(c) /\ (~c.contended => ~call[p].contended)
          /\ c.pc \in {"idle", "load"} /\ c.victims \in {{}, call[p].victims}
      BY <1>1, <2>1, NextAttempt
    <2>4. c.contended
      BY <1>2, <1>4, <2>3
    <2> QED BY <1>1, <2>2, <2>3, <2>4, WithinCall DEF PublishSteps
  <1> QED BY <1>3, <1>4

LEMMA CleanUnlinkStep == ASSUME CheckpointInv, NEW p \in Publishers, CleanUnlink(p) PROVE CheckpointInv'
  <1> USE CheckpointAssumption
  <1>1. /\ CheckpointTypes /\ call[p].pc = "unlink" /\ CallOK(call[p]) /\ call[p] \in PublishCalls /\ Alone(p)
        /\ RecordsAgree /\ UNCHANGED <<index, handoff, issued, crashes, published, acked>> /\ call[p].at \in Seqs
    BY DEF CheckpointInv, CheckpointTypes, RecordsAgree, CleanUnlink, at, CallOK
  <1>2. PICK c : c = [call[p] EXCEPT !.pc = "clean"]
    OBVIOUS
  <1>3. call' = [call EXCEPT ![p] = c]
    BY <1>1, <1>2 DEF CleanUnlink, goes, CheckpointTypes
  <1>4. c \in PublishCalls
    BY <1>1, <1>2 DEF PublishCalls, PublishSteps
  <1>5. /\ c.pc = "clean" /\ c.attempt = call[p].attempt /\ c.contended = call[p].contended
        /\ c.victims = call[p].victims /\ c.indexed = call[p].indexed /\ c.previous = call[p].previous
        /\ c.id = call[p].id /\ c.at = call[p].at /\ c.result = call[p].result
    BY <1>1, <1>2 DEF PublishCalls
  <1>6. CallOK(c)'
    BY <1>1, <1>5 DEF CallOK, AfterReserve, EntryOK
  <1>7. \A q \in Publishers : call'[q] = IF q = p THEN c ELSE call[q]
    BY <1>1, <1>3 DEF CheckpointTypes
  <1>8. \A t \in Seqs : isPublished(t)' => isPublished(t)
    BY <1>1 DEF CleanUnlink, unlinkArtifact, CheckpointTypes, isPublished, Absent
  <1>9. Alone(p)'
    <2> SUFFICES ASSUME ~call[p].contended PROVE Alone(p)'
      BY <1>5, <1>7 DEF Alone
    <2>1. \A q \in Publishers \ {p} :
            call[q].pc \notin AfterReserve /\ (call[q].pc \in {"unlink", "evict"} => ~isPublished(call[q].at))
      BY <1>1 DEF Alone, PublishSteps
    <2>2. \A q \in Publishers \ {p} : call[q].pc \in {"unlink", "evict"} => call[q].at \in Seqs
      BY <1>1 DEF RecordsAgree, CallOK
    <2>3. \A q \in Publishers \ {p} : call'[q].pc \in {"unlink", "evict"} => files'[call'[q].at].kind # "checkpoint"
      <3> TAKE q \in Publishers \ {p}
      <3>1. call'[q] = call[q]
        BY <1>7
      <3> QED BY <3>1, <2>1, <2>2, <1>8 DEF isPublished
    <2>4. c.attempt = 0
      BY <1>1, <1>5 DEF CallOK
    <2>5. SeesAll(call[p])'
      BY <2>4, <1>5, <1>7 DEF SeesAll
    <2> QED BY <2>1, <2>3, <2>5, <1>5, <1>7 DEF Alone, isPublished
  <1>10. unlinkArtifact(call[p].at)
    BY DEF CleanUnlink
  <1> QED BY <1>1, <1>3, <1>4, <1>5, <1>6, <1>9, <1>10, RemovalStep

LEMMA EvictStep == ASSUME CheckpointInv, NEW p \in Publishers, Evict(p) PROVE CheckpointInv'
  <1> USE CheckpointAssumption
  <1>1. /\ CheckpointTypes /\ call[p].pc = "evict" /\ CallOK(call[p]) /\ call[p] \in PublishCalls /\ Alone(p)
        /\ RecordsAgree /\ UNCHANGED <<index, handoff, issued, crashes, published, acked>> /\ call[p].at \in Seqs
    BY DEF CheckpointInv, CheckpointTypes, RecordsAgree, Evict, at, CallOK
  <1>2. PICK c : c = AfterCollision(p, FALSE)
    OBVIOUS
  <1>3. call' = [call EXCEPT ![p] = c]
    BY <1>1, <1>2 DEF Evict, nextAttempt, AfterCollision, CheckpointTypes
  <1>4. /\ c \in PublishCalls /\ CallOK(c) /\ (~c.contended => ~call[p].contended)
        /\ c.pc \in {"idle", "load"} /\ c.victims \in {{}, call[p].victims}
        /\ c.pc = "load" => c.at = call[p].at /\ c.attempt = call[p].attempt + 1
    BY <1>1, <1>2, NextAttempt
  <1>5. CallOK(c)'
    BY <1>1, <1>4 DEF CallOK, EntryOK
  <1>6. \A q \in Publishers : call'[q] = IF q = p THEN c ELSE call[q]
    BY <1>1, <1>3 DEF CheckpointTypes
  <1>7. files' = [files EXCEPT ![call[p].at] = Absent]
    BY DEF Evict, unlinkArtifact
  <1>8. \A t \in Seqs : files'[t] = IF t = call[p].at THEN Absent ELSE files[t]
    BY <1>1, <1>7 DEF CheckpointTypes
  <1>9. Alone(p)'
    <2> SUFFICES ASSUME c.pc = "load", ~c.contended PROVE Alone(p)'
      BY <1>4, <1>6 DEF Alone
    <2>1. ~call[p].contended
      BY <1>4
    <2>2. /\ readIndexed.ok /\ ~isPublished(call[p].at)
          /\ call[p].at = newerOf(readIndexed.entry, scanLatest).seq + 1
      BY <1>1, <2>1, AloneIsAhead
    <2>3. CheckpointTypes'
      <3>1. Absent \in StoredFiles
        BY DEF Absent, StoredFiles
      <3> QED BY <1>1, <1>3, <1>4, <1>7, <3>1 DEF CheckpointTypes
    <2>4. scanLatest' = scanLatest /\ readIndexed' = readIndexed
      BY <1>1, <1>7, <2>2, <2>3, RemovalKeepsView
    <2>5. \A q \in Publishers \ {p} :
            call[q].pc \notin AfterReserve /\ (call[q].pc \in {"unlink", "evict"} => ~isPublished(call[q].at))
      BY <1>1, <2>1 DEF Alone, PublishSteps
    <2>6. \A q \in Publishers \ {p} : call[q].pc \in {"unlink", "evict"} => call[q].at \in Seqs
      BY <1>1 DEF RecordsAgree, CallOK
    <2>7. \A q \in Publishers \ {p} : call'[q].pc \in {"unlink", "evict"} => files'[call'[q].at].kind # "checkpoint"
      <3> TAKE q \in Publishers \ {p}
      <3>1. call'[q] = call[q]
        BY <1>6
      <3> QED BY <3>1, <2>5, <2>6, <1>8 DEF isPublished, Absent
    <2>8. SeesAll(call[p])'
      <3>1. c.at \in Seqs /\ files'[c.at] = Absent /\ c.at = call[p].at
        BY <1>1, <1>4, <1>8
      <3>2. call'[p] = c
        BY <1>6
      <3>3. newerOf(readIndexed.entry, scanLatest)' = newerOf(readIndexed.entry, scanLatest)
        BY <2>4 DEF newerOf
      <3> QED BY <2>2, <2>4, <3>1, <3>2, <3>3 DEF SeesAll
    <2> QED BY <1>6, <2>5, <2>7, <2>8 DEF Alone, isPublished
  <1>10. unlinkArtifact(call[p].at)
    BY DEF Evict
  <1> QED BY <1>1, <1>3, <1>4, <1>5, <1>9, <1>10, RemovalStep

\* What a call keeps when somebody else's step gives it company.
LEMMA CompanyKeeps ==
    ASSUME NEW c \in PublishCalls, CallOK(c),
           published \subseteq published', issued' = issued
    PROVE  [c EXCEPT !.contended = TRUE] \in PublishCalls /\ CallOK([c EXCEPT !.contended = TRUE])'
  <1> DEFINE d == [c EXCEPT !.contended = TRUE]
  <1>1. d \in PublishCalls
    BY DEF PublishCalls
  <1>2. /\ d.pc = c.pc /\ d.attempt = c.attempt /\ d.contended = TRUE
        /\ d.victims = c.victims /\ d.indexed = c.indexed /\ d.previous = c.previous
        /\ d.id = c.id /\ d.at = c.at /\ d.result = c.result
    BY DEF PublishCalls
  <1> HIDE DEF d
  <1>3. CallOK(d)'
    BY <1>2 DEF CallOK, EntryOK
  <1> QED BY <1>1, <1>3 DEF d

\* What touches leaves of the calls.
LEMMA Touched ==
    ASSUME CheckpointTypes, RecordsAgree, NEW p \in Publishers, NEW pc \in AfterReserve, touches(p, pc),
           published \subseteq published', issued' = issued
    PROVE  /\ call' \in [Publishers -> PublishCalls]
           /\ call'[p] = [call[p] EXCEPT !.pc = pc]
           /\ \A q \in Publishers \ {p} :
                /\ CallOK(call[q])' /\ call'[q].pc = call[q].pc /\ call'[q].at = call[q].at
                /\ call'[q].victims = call[q].victims
                /\ call'[q].pc = "idle" \/ call'[q].contended
  <1>1. \A q \in Publishers : call'[q] = IF q = p THEN [call[p] EXCEPT !.pc = pc]
                                         ELSE IF call[q].pc # "idle" THEN [call[q] EXCEPT !.contended = TRUE] ELSE call[q]
    BY DEF touches
  <1>2. call'[p] \in PublishCalls
    BY <1>1 DEF CheckpointTypes, PublishCalls
  <1>3. ASSUME NEW q \in Publishers \ {p}
        PROVE  /\ call'[q] \in PublishCalls
               /\ CallOK(call[q])' /\ call'[q].pc = call[q].pc /\ call'[q].at = call[q].at
               /\ call'[q].victims = call[q].victims
               /\ call'[q].pc = "idle" \/ call'[q].contended
    <2>1. call[q] \in PublishCalls /\ CallOK(call[q])
      BY DEF CheckpointTypes, RecordsAgree
    <2>2. CASE call[q].pc # "idle"
      <3>1. call'[q] = [call[q] EXCEPT !.contended = TRUE]
        BY <1>1, <2>2
      <3>2. call'[q] \in PublishCalls /\ CallOK(call[q])'
        BY <2>1, <3>1, CompanyKeeps
      <3> QED BY <2>1, <3>1, <3>2 DEF PublishCalls
    <2>3. CASE call[q].pc = "idle"
      <3>1. call'[q] = call[q]
        BY <1>1, <2>3
      <3>2. CallOK(call[q])'
        BY <2>1, <3>1 DEF CallOK, EntryOK
      <3> QED BY <2>1, <2>3, <3>1, <3>2
    <2> QED BY <2>2, <2>3
  <1>4. call' \in [Publishers -> PublishCalls]
    <2>1. \A q \in Publishers : call'[q] \in PublishCalls
      BY <1>2, <1>3
    <2> QED BY <2>1 DEF touches
  <1> QED BY <1>1, <1>3, <1>4

LEMMA ReserveStep == ASSUME CheckpointInv, NEW p \in Publishers, Reserve(p) PROVE CheckpointInv'
  <1> USE CheckpointAssumption
  <1> DEFINE s == call[p].at
  <1>1. /\ CheckpointTypes /\ call[p].pc = "reserve" /\ CallOK(call[p]) /\ call[p] \in PublishCalls /\ Alone(p)
        /\ RecordsAgree /\ UNCHANGED <<index, handoff, issued, crashes, published, acked>> /\ s \in Seqs
    BY DEF CheckpointInv, CheckpointTypes, RecordsAgree, Reserve, at, CallOK
  <1>2. CASE files[s] # Absent
    <2>1. PICK c : c = [call[p] EXCEPT !.pc = "collided"]
      OBVIOUS
    <2>2. call' = [call EXCEPT ![p] = c] /\ UNCHANGED <<files, index, handoff, issued, crashes, ghosts>>
      BY <1>1, <1>2, <2>1 DEF Reserve, goes, CheckpointTypes, ghosts
    <2>3. c \in PublishCalls
      BY <1>1, <2>1 DEF PublishCalls, PublishSteps
    <2>4. /\ c.pc = "collided" /\ c.attempt = call[p].attempt /\ c.contended = call[p].contended
          /\ c.victims = call[p].victims /\ c.indexed = call[p].indexed /\ c.previous = call[p].previous
          /\ c.id = call[p].id /\ c.at = call[p].at /\ c.result = call[p].result
      BY <1>1, <2>1 DEF PublishCalls
    <2>5. CallOK(c)
      BY <1>1, <2>4 DEF CallOK, AfterReserve
    <2>6. ~call[p].contended =>
            /\ readIndexed.ok /\ call[p].at = newerOf(readIndexed.entry, scanLatest).seq + 1
            /\ ~(call[p].attempt > 0)
      BY <1>1, <1>2 DEF Alone, SeesAll
    <2>7. ~c.contended => SeesAll(c)
      BY <2>4, <2>6 DEF SeesAll
    <2> QED BY <1>1, <2>2, <2>3, <2>4, <2>5, <2>7, WithinCall DEF PublishSteps
  <1>3. CASE files[s] = Absent
    <2>1. /\ files' = [files EXCEPT ![s] = Reserved(p, FALSE)] /\ touches(p, "rename")
          /\ raced' = raced \cup IF \E c \in published : c.seq = s THEN {"reused"} ELSE {}
      BY <1>3 DEF Reserve
    <2>2. \A t \in Seqs : files'[t] = IF t = s THEN Reserved(p, FALSE) ELSE files[t]
      BY <1>1, <2>1 DEF CheckpointTypes
    <2>3. /\ call' \in [Publishers -> PublishCalls]
          /\ call'[p] = [call[p] EXCEPT !.pc = "rename"]
          /\ \A q \in Publishers \ {p} :
               /\ CallOK(call[q])' /\ call'[q].pc = call[q].pc /\ call'[q].at = call[q].at
               /\ call'[q].victims = call[q].victims
               /\ call'[q].pc = "idle" \/ call'[q].contended
      BY <1>1, <2>1, Touched DEF AfterReserve
    <2>4. PICK c : c = [call[p] EXCEPT !.pc = "rename"]
      OBVIOUS
    <2>5. /\ c \in PublishCalls /\ call'[p] = c
          /\ c.pc = "rename" /\ c.attempt = call[p].attempt /\ c.contended = call[p].contended
          /\ c.victims = call[p].victims /\ c.indexed = call[p].indexed /\ c.previous = call[p].previous
          /\ c.id = call[p].id /\ c.at = s /\ c.result = call[p].result
      BY <1>1, <2>3, <2>4 DEF PublishCalls, AfterReserve
    <2>6. CallOK(c)'
      BY <1>1, <2>5 DEF CallOK, AfterReserve, EntryOK
    <2>7. CheckpointTypes'
      <3>1. Reserved(p, FALSE) \in StoredFiles
        BY DEF Reserved, StoredFiles
      <3>2. files' \in [Seqs -> StoredFiles]
        BY <1>1, <2>1, <3>1 DEF CheckpointTypes
      <3> QED BY <1>1, <2>3, <3>2 DEF CheckpointTypes
    <2>8. ~isPublished(s) /\ files'[s].kind = "reserved" /\ files'[s].by = p
      BY <1>1, <1>3, <2>2 DEF isPublished, Absent, Reserved
    <2>9. RecordsAgree'
      <3>1. ASSUME NEW t \in Seqs, isPublished(t)'
            PROVE  \E d \in published : d.seq = t /\ d.id = files'[t].id /\ d.supersedes = files'[t].supersedes
        <4>1. t # s
          BY <3>1, <2>8 DEF isPublished
        <4>2. files'[t] = files[t] /\ isPublished(t)
          BY <4>1, <3>1, <2>2 DEF isPublished
        <4> QED BY <4>2, <1>1 DEF RecordsAgree
      <3>2. ASSUME NEW t \in Seqs, files'[t].kind = "reserved", files'[t].by # NoPublisher
            PROVE  call'[files'[t].by].pc = "rename" /\ call'[files'[t].by].at = t
        <4>1. CASE t = s
          BY <4>1, <2>5, <2>8
        <4>2. CASE t # s
          <5>1. files'[t] = files[t] /\ files[t].by \in Publishers
            BY <4>2, <3>2, <1>1, <2>2 DEF CheckpointTypes, StoredFiles
          <5>2. call[files[t].by].pc = "rename" /\ call[files[t].by].at = t
            BY <3>2, <5>1, <1>1 DEF RecordsAgree
          <5>3. files[t].by # p
            BY <5>2, <1>1
          <5> QED BY <5>1, <5>2, <5>3, <2>3
        <4> QED BY <4>1, <4>2
      <3>3. \A q \in Publishers : CallOK(call[q])'
        BY <2>3, <2>5, <2>6
      <3> QED BY <3>1, <3>2, <3>3, <1>1 DEF RecordsAgree, EntryOK
    <2>10. raced' = {} => Unraced'
      <3> SUFFICES ASSUME raced' = {} PROVE Unraced'
        OBVIOUS
      <3>1. raced = {} /\ \A d \in published : d.seq # s
        BY <2>1
      <3>2. Unraced
        BY <3>1 DEF CheckpointInv
      <3>3. ASSUME NEW q \in Publishers, call'[q].pc = "rename"
            PROVE  files'[call'[q].at].kind = "reserved" /\ files'[call'[q].at].by = q
        <4>1. CASE q = p
          BY <4>1, <2>5, <2>8
        <4>2. CASE q # p
          <5>1. call[q].pc = "rename" /\ call'[q].at = call[q].at
            BY <4>2, <3>3, <2>3
          <5>2. files[call[q].at].kind = "reserved" /\ files[call[q].at].by = q /\ call[q].at \in Seqs
            BY <5>1, <3>2, <1>1 DEF Unraced, RecordsAgree, CallOK, AfterReserve
          <5>3. call[q].at # s
            BY <5>2, <1>3 DEF Absent
          <5> QED BY <5>1, <5>2, <5>3, <2>2
        <4> QED BY <4>1, <4>2
      <3>4. ASSUME NEW t \in Seqs, NEW d \in published, files'[t].kind = "reserved" PROVE d.seq # t
        BY <3>4, <3>1, <3>2, <2>2 DEF Unraced
      <3>5. ASSUME NEW d \in published
            PROVE  \/ files'[d.seq] = Checkpoint(d.id, d.supersedes)
                   \/ files'[d.seq] = Absent /\ \E e \in published : e.seq > d.seq
        <4>1. d.seq \in Seqs /\ d.seq # s
          BY <1>1, <3>1 DEF CheckpointTypes
        <4> QED BY <4>1, <3>2, <2>2 DEF Unraced
      <3>6. \A q \in Publishers : call'[q].victims = call[q].victims
        BY <2>3, <2>5
      <3>7. ASSUME NEW q \in Publishers PROVE VictimsPassed(call[q].victims)'
        BY <1>1, <3>2, <3>6 DEF Unraced, VictimsPassed
      <3>8. ASSUME NEW i \in handoff
            PROVE  \E t \in Seqs : /\ isPublished(t)' /\ files'[t].id = i
                                   /\ \A q \in Publishers : t \notin call'[q].victims
        <4>1. PICK t \in Seqs : isPublished(t) /\ files[t].id = i /\ \A q \in Publishers : t \notin call[q].victims
          BY <3>2 DEF Unraced
        <4>2. t # s
          BY <4>1, <2>8
        <4> QED BY <2>2, <3>6, <4>1, <4>2 DEF isPublished
      <3> QED BY <1>1, <3>2, <3>3, <3>4, <3>5, <3>7, <3>8 DEF Unraced
    <2>11. \A q \in Publishers : Alone(q)'
      BY <1>1, <2>3, <2>5, OnlyMineMatters DEF AfterReserve
    <2> QED BY <2>7, <2>9, <2>10, <2>11 DEF CheckpointInv
  <1> QED BY <1>2, <1>3

LEMMA RenameStep == ASSUME CheckpointInv, NEW p \in Publishers, Rename(p) PROVE CheckpointInv'
  <1> USE CheckpointAssumption
  <1> DEFINE s == call[p].at
  <1>1. /\ CheckpointTypes /\ call[p].pc = "rename" /\ CallOK(call[p]) /\ call[p] \in PublishCalls /\ Alone(p)
        /\ RecordsAgree /\ UNCHANGED <<index, handoff, issued, crashes, acked, raced>> /\ s \in Seqs
        /\ touches(p, "index")
    BY DEF CheckpointInv, CheckpointTypes, RecordsAgree, Rename, at, CallOK, AfterReserve
  <1>2. PICK new : new = [seq |-> s, id |-> call[p].id, supersedes |-> call[p].previous.id]
    OBVIOUS
  <1>3. /\ files' = [files EXCEPT ![s] = Checkpoint(new.id, new.supersedes)] /\ published' = published \cup {new}
        /\ new.seq = s /\ new.id = call[p].id /\ new.supersedes = call[p].previous.id
    BY <1>2 DEF Rename
  <1>4. \A t \in Seqs : files'[t] = IF t = s THEN Checkpoint(new.id, new.supersedes) ELSE files[t]
    BY <1>1, <1>3 DEF CheckpointTypes
  <1>5. /\ new \in [seq : Seqs, id : 1 .. MaxCheckpoints, supersedes : 0 .. MaxCheckpoints] /\ new.id \in 1 .. issued
        /\ s = call[p].previous.seq + 1 /\ EntryOK(call[p].previous)
    <2>1. call[p].id \in 1 .. issued /\ issued \in 0 .. MaxCheckpoints /\ call[p].previous.id \in 0 .. MaxCheckpoints
      BY <1>1 DEF CallOK, CheckpointTypes, PublishCalls, IndexEntries
    <2>2. call[p].id \in 1 .. MaxCheckpoints
      BY <2>1
    <2> QED BY <1>1, <1>2, <1>3, <2>1, <2>2 DEF CallOK, AfterReserve
  <1>6. /\ call' \in [Publishers -> PublishCalls]
        /\ call'[p] = [call[p] EXCEPT !.pc = "index"]
        /\ \A q \in Publishers \ {p} :
             /\ CallOK(call[q])' /\ call'[q].pc = call[q].pc /\ call'[q].at = call[q].at
             /\ call'[q].victims = call[q].victims
             /\ call'[q].pc = "idle" \/ call'[q].contended
    BY <1>1, <1>3, Touched DEF AfterReserve
  <1>7. PICK c : c = [call[p] EXCEPT !.pc = "index"]
    OBVIOUS
  <1>8. /\ c \in PublishCalls /\ call'[p] = c
        /\ c.pc = "index" /\ c.attempt = call[p].attempt /\ c.contended = call[p].contended
        /\ c.victims = call[p].victims /\ c.indexed = call[p].indexed /\ c.previous = call[p].previous
        /\ c.id = call[p].id /\ c.at = s /\ c.result = call[p].result
    BY <1>1, <1>6, <1>7 DEF PublishCalls, AfterReserve
  <1>9. CallOK(c)'
    <2>1. EntryOK(c.indexed)' /\ EntryOK(c.previous)'
      BY <1>1, <1>3, <1>8 DEF CallOK, EntryOK
    <2>2. \E d \in published' : d.seq = c.at /\ d.id = c.id
      BY <1>3, <1>8
    <2> QED BY <1>1, <1>8, <2>1, <2>2 DEF CallOK, AfterReserve
  <1>10. CheckpointTypes'
    <2>1. Checkpoint(new.id, new.supersedes) \in StoredFiles
      BY <1>5 DEF Checkpoint, StoredFiles
    <2>2. files' \in [Seqs -> StoredFiles]
      BY <1>1, <1>3, <2>1 DEF CheckpointTypes
    <2> QED BY <1>1, <1>3, <1>5, <1>6, <2>2 DEF CheckpointTypes
  <1>11. files'[s].kind = "checkpoint" /\ files'[s].id = new.id /\ files'[s].supersedes = new.supersedes
    BY <1>1, <1>4 DEF isPublished, Checkpoint
  <1>12. RecordsAgree'
    <2>1. ASSUME NEW t \in Seqs, isPublished(t)'
          PROVE  \E d \in published' : d.seq = t /\ d.id = files'[t].id /\ d.supersedes = files'[t].supersedes
      <3>1. CASE t = s
        BY <3>1, <1>3, <1>11
      <3>2. CASE t # s
        <4>1. files'[t] = files[t] /\ isPublished(t)
          BY <3>2, <2>1, <1>4 DEF isPublished
        <4> QED BY <4>1, <1>1, <1>3 DEF RecordsAgree
      <3> QED BY <3>1, <3>2
    <2>2. ASSUME NEW t \in Seqs, files'[t].kind = "reserved", files'[t].by # NoPublisher
          PROVE  call'[files'[t].by].pc = "rename" /\ call'[files'[t].by].at = t
      <3>1. t # s
        BY <2>2, <1>11
      <3>2. files'[t] = files[t] /\ files[t].by \in Publishers
        BY <3>1, <2>2, <1>1, <1>4 DEF CheckpointTypes, StoredFiles
      <3>3. call[files[t].by].pc = "rename" /\ call[files[t].by].at = t
        BY <2>2, <3>2, <1>1 DEF RecordsAgree
      <3>4. files[t].by # p
        BY <3>1, <3>3
      <3> QED BY <3>2, <3>3, <3>4, <1>6
    <2>3. \A q \in Publishers : CallOK(call[q])'
      BY <1>6, <1>8, <1>9
    <2>4. \A d \in published' : d.id \in 1 .. issued
      BY <1>1, <1>3, <1>5 DEF RecordsAgree
    <2>5. EntryOK(index)' /\ (acked = 0 \/ \E d \in published' : d.seq = acked)
      BY <1>1, <1>3 DEF RecordsAgree, EntryOK
    <2> QED BY <1>1, <2>1, <2>2, <2>3, <2>4, <2>5 DEF RecordsAgree
  <1>13. raced' = {} => Unraced'
    <2> SUFFICES ASSUME raced = {} PROVE Unraced'
      BY <1>1
    <2>1. Unraced
      BY DEF CheckpointInv
    <2>2. files[s].kind = "reserved" /\ files[s].by = p /\ \A d \in published : d.seq # s
      BY <1>1, <2>1 DEF Unraced
    <2>3. ASSUME NEW q \in Publishers, call'[q].pc = "rename"
          PROVE  files'[call'[q].at].kind = "reserved" /\ files'[call'[q].at].by = q
      <3>1. q # p /\ call[q].pc = "rename" /\ call'[q].at = call[q].at
        BY <2>3, <1>6, <1>8
      <3>2. files[call[q].at].kind = "reserved" /\ files[call[q].at].by = q /\ call[q].at \in Seqs
        BY <3>1, <2>1, <1>1 DEF Unraced, RecordsAgree, CallOK, AfterReserve
      <3> QED BY <3>1, <3>2, <2>2, <1>4
    <2>4. ASSUME NEW t \in Seqs, NEW d \in published', files'[t].kind = "reserved" PROVE d.seq # t
      <3>1. t # s /\ files[t].kind = "reserved"
        BY <2>4, <1>4, <1>11
      <3> QED BY <3>1, <2>1, <1>3 DEF Unraced
    <2>5. \A d, e \in published' : d.seq = e.seq => d = e
      BY <2>1, <2>2, <1>3 DEF Unraced
    <2>6. ASSUME NEW d \in published'
          PROVE  IF d.seq = 1 THEN d.supersedes = 0
                 ELSE \E e \in published' : e.seq = d.seq - 1 /\ e.id = d.supersedes
      <3>1. CASE d \in published
        BY <3>1, <2>1, <1>3 DEF Unraced
      <3>2. CASE d = new
        <4>1. CASE call[p].previous = NoEntry
          BY <4>1, <3>2, <1>3, <1>5 DEF NoEntry
        <4>2. CASE call[p].previous # NoEntry
          <5>1. PICK e \in published : e.seq = call[p].previous.seq /\ e.id = call[p].previous.id
            BY <4>2, <1>5 DEF EntryOK
          <5>2. e.seq \in Seqs
            BY <1>1 DEF CheckpointTypes
          <5>3. s # 1 /\ e.seq = s - 1
            BY <5>1, <5>2, <1>5 DEF Seqs
          <5> QED BY <3>2, <5>1, <5>3, <1>3
        <4> QED BY <4>1, <4>2
      <3> QED BY <3>1, <3>2, <1>3
    <2>7. ASSUME NEW d \in published'
          PROVE  \/ files'[d.seq] = Checkpoint(d.id, d.supersedes)
                 \/ files'[d.seq] = Absent /\ \E e \in published' : e.seq > d.seq
      <3>1. CASE d = new
        BY <3>1, <1>1, <1>3, <1>4
      <3>2. CASE d \in published
        <4>1. d.seq \in Seqs /\ d.seq # s
          BY <3>2, <1>1, <2>2 DEF CheckpointTypes
        <4> QED BY <3>2, <4>1, <2>1, <1>3, <1>4 DEF Unraced
      <3> QED BY <3>1, <3>2, <1>3
    <2>8. \A q \in Publishers : call'[q].victims = call[q].victims
      BY <1>6, <1>8
    <2>9. ASSUME NEW q \in Publishers PROVE VictimsPassed(call[q].victims)'
      <3>1. VictimsPassed(call[q].victims) /\ call'[q].victims = call[q].victims
        BY <2>1, <2>8 DEF Unraced
      <3> QED BY <3>1, <1>3 DEF VictimsPassed
    <2>10. ASSUME NEW i \in handoff
           PROVE  \E t \in Seqs : /\ isPublished(t)' /\ files'[t].id = i
                                  /\ \A q \in Publishers : t \notin call'[q].victims
      <3>1. PICK t \in Seqs : isPublished(t) /\ files[t].id = i /\ \A q \in Publishers : t \notin call[q].victims
        BY <2>1 DEF Unraced
      <3>2. t # s
        BY <3>1, <2>2 DEF isPublished
      <3> QED BY <1>4, <2>8, <3>1, <3>2 DEF isPublished
    <2> QED BY <1>1, <2>3, <2>4, <2>5, <2>6, <2>7, <2>9, <2>10 DEF Unraced
  <1>14. \A q \in Publishers : Alone(q)'
    BY <1>1, <1>6, <1>8, OnlyMineMatters DEF AfterReserve
  <1> QED BY <1>10, <1>12, <1>13, <1>14 DEF CheckpointInv

LEMMA WriteIndexStep == ASSUME CheckpointInv, NEW p \in Publishers, WriteIndex(p) PROVE CheckpointInv'
  <1> USE CheckpointAssumption
  <1>1. /\ CheckpointTypes /\ call[p].pc = "index" /\ CallOK(call[p]) /\ call[p] \in PublishCalls
        /\ RecordsAgree /\ UNCHANGED <<files, handoff, issued, crashes, published, acked, raced>>
    BY DEF CheckpointInv, CheckpointTypes, RecordsAgree, WriteIndex, at, ghosts
  <1>2. PICK c : c = [call[p] EXCEPT !.pc = "prune"]
    OBVIOUS
  <1>3. call' = [call EXCEPT ![p] = c]
    BY <1>1, <1>2 DEF WriteIndex, goes, CheckpointTypes
  <1>4. /\ c \in PublishCalls
        /\ c.pc = "prune" /\ c.attempt = call[p].attempt /\ c.contended = call[p].contended
        /\ c.victims = call[p].victims /\ c.indexed = call[p].indexed /\ c.previous = call[p].previous
        /\ c.id = call[p].id /\ c.at = call[p].at /\ c.result = call[p].result
    BY <1>1, <1>2 DEF PublishCalls, AfterReserve
  <1>5. \A q \in Publishers : call'[q] = IF q = p THEN c ELSE call[q]
    BY <1>1, <1>3 DEF CheckpointTypes
  <1>6. CallOK(c)
    BY <1>1, <1>4 DEF CallOK, AfterReserve
  <1>7. CheckpointTypes'
    <2>1. index' = [seq |-> call[p].at, id |-> call[p].id]
      BY DEF WriteIndex
    <2>2. index' \in IndexEntries
      BY <1>1, <2>1 DEF IndexEntries, PublishCalls
    <2> QED BY <1>1, <1>3, <1>4, <2>2 DEF CheckpointTypes
  <1>8. RecordsAgree'
    <2>1. EntryOK(index)'
      <3>1. index'.seq = call[p].at /\ index'.id = call[p].id
        BY DEF WriteIndex
      <3>2. \E d \in published : d.seq = call[p].at /\ d.id = call[p].id
        BY <1>1 DEF CallOK
      <3> QED BY <1>1, <3>1, <3>2 DEF EntryOK
    <2>2. ASSUME NEW q \in Publishers PROVE CallOK(call[q])'
      <3>1. CASE q = p
        BY <3>1, <1>1, <1>5, <1>6 DEF CallOK, EntryOK
      <3>2. CASE q # p
        <4>1. call'[q] = call[q] /\ CallOK(call[q])
          BY <3>2, <1>1, <1>5 DEF RecordsAgree
        <4> QED BY <1>1, <4>1 DEF CallOK, EntryOK
      <3> QED BY <3>1, <3>2
    <2>3. ASSUME NEW t \in Seqs, files[t].kind = "reserved", files[t].by # NoPublisher
          PROVE  call'[files[t].by].pc = "rename" /\ call'[files[t].by].at = t
      <3>1. files[t].by \in Publishers
        BY <2>3, <1>1 DEF CheckpointTypes, StoredFiles
      <3>2. call[files[t].by].pc = "rename" /\ call[files[t].by].at = t
        BY <2>3, <1>1 DEF RecordsAgree
      <3> QED BY <3>1, <3>2, <1>1, <1>5
    <2> QED BY <1>1, <2>1, <2>2, <2>3 DEF RecordsAgree, isPublished
  <1>9. raced' = {} => Unraced'
    <2> SUFFICES ASSUME raced = {} PROVE Unraced'
      BY <1>1
    <2>1. Unraced
      BY DEF CheckpointInv
    <2>2. ASSUME NEW q \in Publishers, call'[q].pc = "rename"
          PROVE  files'[call'[q].at].kind = "reserved" /\ files'[call'[q].at].by = q
      <3>1. call'[q] = call[q]
        BY <2>2, <1>4, <1>5
      <3> QED BY <3>1, <2>1, <2>2, <1>1 DEF Unraced
    <2>3. \A q \in Publishers : call'[q].victims = call[q].victims
      BY <1>4, <1>5
    <2>4. ASSUME NEW q \in Publishers PROVE VictimsPassed(call[q].victims)'
      BY <2>1, <2>3, <1>1 DEF Unraced, VictimsPassed
    <2> QED BY <1>1, <2>1, <2>2, <2>3, <2>4 DEF Unraced, isPublished
  <1>10. \A q \in Publishers : Alone(q)'
    <2>1. \A q \in Publishers \ {p} : call[q].pc = "idle" \/ call[q].contended
      BY <1>1, OthersHaveCompany DEF AfterReserve
    <2> QED BY <1>1, <1>4, <1>5, <2>1, OnlyMineMatters DEF CheckpointInv, AfterReserve
  <1> QED BY <1>7, <1>8, <1>9, <1>10 DEF CheckpointInv

LEMMA PruneReadStep == ASSUME CheckpointInv, NEW p \in Publishers, PruneRead(p) PROVE CheckpointInv'
  <1> USE CheckpointAssumption
  <1>1. /\ CheckpointTypes /\ call[p].pc = "prune" /\ CallOK(call[p]) /\ call[p] \in PublishCalls /\ Alone(p)
        /\ RecordsAgree /\ UNCHANGED <<files, index, handoff, issued, crashes, published, acked, raced>>
    BY DEF CheckpointInv, CheckpointTypes, RecordsAgree, PruneRead, at, ghosts
  <1> DEFINE count == Cardinality({s \in Seqs : isPublished(s)})
             chosen == IF count <= RetentionCap THEN {} ELSE firstOf(deletable, count - RetentionCap)
  <1>2. chosen \subseteq deletable
    BY DEF firstOf
  <1>3. deletable \subseteq Seqs
    BY DEF deletable
  <1>4. PICK c : c = [[call[p] EXCEPT !.pc = "pruning"] EXCEPT !.victims = chosen]
    OBVIOUS
  <1>5. call' = [call EXCEPT ![p] = c]
    BY <1>1, <1>4 DEF PruneRead, CheckpointTypes
  <1> HIDE DEF chosen
  <1>6. chosen \in SUBSET Seqs
    BY <1>2, <1>3
  <1>7. /\ c \in PublishCalls
        /\ c.pc = "pruning" /\ c.attempt = call[p].attempt /\ c.contended = call[p].contended
        /\ c.victims = chosen /\ c.indexed = call[p].indexed /\ c.previous = call[p].previous
        /\ c.id = call[p].id /\ c.at = call[p].at /\ c.result = call[p].result
    BY <1>1, <1>4, <1>6 DEF PublishCalls, AfterReserve
  <1>8. CallOK(c)'
    BY <1>1, <1>7 DEF CallOK, AfterReserve, EntryOK
  <1>9. \A q \in Publishers : call'[q] = IF q = p THEN c ELSE call[q]
    BY <1>1, <1>5 DEF CheckpointTypes
  <1>10. Alone(p)'
    <2>1. \A q \in Publishers \ {p} : call[q].pc = "idle" \/ call[q].contended
      BY <1>1, OthersHaveCompany DEF AfterReserve
    <2> QED BY <1>1, <1>7, <1>9, <2>1, OnlyMineMatters DEF CheckpointInv, AfterReserve
  <1>11. ASSUME NEW v \in chosen
         PROVE  files[v].id \notin handoff /\ \E c1, d1 \in published : c1.seq = v /\ d1.seq > v
    <2>1. v \in Seqs /\ isPublished(v) /\ files[v].id # scanLatest.id /\ files[v].id \notin handoff
      BY <1>2 DEF deletable
    <2>2. /\ scanLatest.seq \in Seqs /\ isPublished(scanLatest.seq)
          /\ scanLatest.id = files[scanLatest.seq].id /\ v <= scanLatest.seq
      BY <1>1, <2>1, ScanIsLatest
    <2>3. v < scanLatest.seq
      BY <2>1, <2>2 DEF Seqs
    <2>4. (\E c1 \in published : c1.seq = v) /\ (\E d1 \in published : d1.seq = scanLatest.seq)
      BY <1>1, <2>1, <2>2 DEF RecordsAgree
    <2> QED BY <2>1, <2>3, <2>4
  <1>12. acked \in 0 .. MaxSeq /\ (acked = 0 \/ \E d \in published : d.seq = acked) /\ issued \in issued .. MaxCheckpoints
    BY <1>1 DEF CheckpointTypes, RecordsAgree
  <1>13. VictimsPassed(c.victims) /\ \A v \in c.victims \ call[p].victims : files[v].id \notin handoff
    BY <1>7, <1>11 DEF VictimsPassed
  <1> QED BY <1>1, <1>5, <1>7, <1>8, <1>10, <1>12, <1>13, QuietCallStep DEF AfterReserve

LEMMA ReturnStep == ASSUME CheckpointInv, NEW p \in Publishers, ReturnPublished(p) PROVE CheckpointInv'
  <1> USE CheckpointAssumption
  <1>1. /\ CheckpointTypes /\ call[p].pc = "pruning" /\ CallOK(call[p]) /\ call[p] \in PublishCalls
        /\ RecordsAgree /\ UNCHANGED <<files, index, handoff, issued, crashes, published, raced>>
    BY DEF CheckpointInv, CheckpointTypes, RecordsAgree, ReturnPublished, at
  <1>2. PICK c : c = [[NoCall EXCEPT !.result = "published"] EXCEPT !.contended = call[p].contended]
    OBVIOUS
  <1>3. call' = [call EXCEPT ![p] = c]
    BY <1>2 DEF ReturnPublished, ends
  <1>4. c \in PublishCalls
    BY <1>1, <1>2, NoCallIsCall DEF PublishCalls
  <1>5. /\ c.pc = "idle" /\ c.attempt = 0 /\ c.victims = {} /\ c.indexed = NoEntry /\ c.previous = NoEntry
        /\ c.id = 0 /\ c.result = "published"
    BY <1>2 DEF NoCall
  <1>6. CallOK(c)'
    BY <1>5 DEF CallOK, AfterReserve, EntryOK
  <1>7. Alone(p)'
    <2>1. call'[p] = c
      BY <1>1, <1>3 DEF CheckpointTypes
    <2> QED BY <1>5, <2>1 DEF Alone
  <1>8. acked' \in 0 .. MaxSeq /\ (acked' = 0 \/ \E d \in published : d.seq = acked')
    <2>1. acked' \in {acked, call[p].at}
      <3>1. acked' = Max({acked, call[p].at}) /\ acked \in Nat /\ call[p].at \in Nat
        BY <1>1 DEF ReturnPublished, CheckpointTypes, PublishCalls
      <3>2. \E x \in {acked, call[p].at} : \A y \in {acked, call[p].at} : x >= y
        BY <3>1
      <3> QED BY <3>1, <3>2 DEF Max
    <2>2. (acked = 0 \/ \E d \in published : d.seq = acked) /\ \E d \in published : d.seq = call[p].at
      BY <1>1 DEF RecordsAgree, CallOK
    <2>3. acked \in 0 .. MaxSeq /\ call[p].at \in 0 .. MaxSeq
      BY <1>1 DEF CheckpointTypes, PublishCalls
    <2> QED BY <2>1, <2>2, <2>3
  <1>9. VictimsPassed(c.victims) /\ c.victims = {} /\ issued' \in issued .. MaxCheckpoints
    BY <1>1, <1>5 DEF VictimsPassed, CheckpointTypes
  <1> QED BY <1>1, <1>3, <1>4, <1>5, <1>6, <1>7, <1>8, <1>9, QuietCallStep DEF AfterReserve

LEMMA PruneUnlinkStep == ASSUME CheckpointInv, NEW p \in Publishers, PruneUnlink(p) PROVE CheckpointInv'
  <1> USE CheckpointAssumption
  <1>1. /\ CheckpointTypes /\ call[p].pc = "pruning" /\ CallOK(call[p]) /\ call[p] \in PublishCalls
        /\ RecordsAgree /\ UNCHANGED <<index, handoff, issued, crashes, published, acked, raced>>
        /\ call[p].victims # {} /\ call[p].victims \subseteq Seqs
    BY DEF CheckpointInv, CheckpointTypes, RecordsAgree, PruneUnlink, at, ghosts, PublishCalls
  <1>2. PICK s : s = Min(call[p].victims)
    OBVIOUS
  <1>3. s \in call[p].victims /\ s \in Seqs
    <2>1. call[p].victims \in SUBSET Nat
      BY <1>1 DEF Seqs
    <2> QED BY <1>1, <1>2, <2>1, LeastOfSome
  <1>4. PICK rest : rest = IF files[s] = Absent THEN {} ELSE call[p].victims \ {s}
    OBVIOUS
  <1>5. PICK c : c = [call[p] EXCEPT !.victims = rest]
    OBVIOUS
  <1>6. files' = [files EXCEPT ![s] = Absent] /\ call' = [call EXCEPT ![p] = c]
    BY <1>1, <1>2, <1>4, <1>5 DEF PruneUnlink, CheckpointTypes
  <1>7. rest \subseteq call[p].victims
    BY <1>4
  <1>8. rest \in SUBSET Seqs
    BY <1>1, <1>7
  <1>9. /\ c \in PublishCalls
        /\ c.pc = "pruning" /\ c.attempt = call[p].attempt /\ c.contended = call[p].contended
        /\ c.victims = rest /\ c.indexed = call[p].indexed /\ c.previous = call[p].previous
        /\ c.id = call[p].id /\ c.at = call[p].at /\ c.result = call[p].result
    BY <1>1, <1>5, <1>8 DEF PublishCalls, AfterReserve
  <1>10. /\ \A q \in Publishers : call'[q] = IF q = p THEN c ELSE call[q]
         /\ \A t \in Seqs : files'[t] = IF t = s THEN Absent ELSE files[t]
    BY <1>1, <1>6 DEF CheckpointTypes
  <1>11. files'[s].kind = "absent"
    BY <1>3, <1>10 DEF Absent
  <1>12. CheckpointTypes'
    <2>1. Absent \in StoredFiles
      BY DEF Absent, StoredFiles
    <2> QED BY <1>1, <1>6, <1>9, <2>1 DEF CheckpointTypes
  <1>13. RecordsAgree'
    <2>1. ASSUME NEW q \in Publishers PROVE CallOK(call[q])'
      <3>1. CASE q = p
        BY <3>1, <1>1, <1>9, <1>10 DEF CallOK, EntryOK
      <3>2. CASE q # p
        <4>1. call'[q] = call[q] /\ CallOK(call[q])
          BY <3>2, <1>1, <1>10 DEF RecordsAgree
        <4> QED BY <1>1, <4>1 DEF CallOK, EntryOK
      <3> QED BY <3>1, <3>2
    <2>2. ASSUME NEW t \in Seqs, isPublished(t)'
          PROVE  \E d \in published : d.seq = t /\ d.id = files'[t].id /\ d.supersedes = files'[t].supersedes
      <3>1. files'[t] = files[t] /\ isPublished(t)
        BY <2>2, <1>10, <1>11 DEF isPublished
      <3> QED BY <3>1, <1>1 DEF RecordsAgree
    <2>3. ASSUME NEW t \in Seqs, files'[t].kind = "reserved", files'[t].by # NoPublisher
          PROVE  call'[files'[t].by].pc = "rename" /\ call'[files'[t].by].at = t
      <3>1. files'[t] = files[t] /\ files[t].by \in Publishers
        BY <2>3, <1>1, <1>10, <1>11 DEF CheckpointTypes, StoredFiles
      <3>2. call[files[t].by].pc = "rename" /\ call[files[t].by].at = t
        BY <2>3, <3>1, <1>1 DEF RecordsAgree
      <3>3. files[t].by # p
        BY <3>2, <1>1
      <3> QED BY <3>1, <3>2, <3>3, <1>10
    <2> QED BY <1>1, <2>1, <2>2, <2>3 DEF RecordsAgree, EntryOK
  <1>14. raced' = {} => Unraced'
    <2> SUFFICES ASSUME raced = {} PROVE Unraced'
      BY <1>1
    <2>1. Unraced
      BY DEF CheckpointInv
    <2>2. PICK older, newer \in published : older.seq = s /\ newer.seq > s
      BY <1>3, <2>1 DEF Unraced, VictimsPassed
    <2>3. ASSUME NEW q \in Publishers, call'[q].pc = "rename"
          PROVE  files'[call'[q].at].kind = "reserved" /\ files'[call'[q].at].by = q
      <3>1. call'[q] = call[q]
        BY <2>3, <1>9, <1>10
      <3>2. files[call[q].at].kind = "reserved" /\ files[call[q].at].by = q /\ call[q].at \in Seqs
        BY <3>1, <2>1, <2>3, <1>1 DEF Unraced, RecordsAgree, CallOK, AfterReserve
      <3>3. call[q].at # s
        BY <3>2, <2>1, <2>2 DEF Unraced
      <3> QED BY <3>1, <3>2, <3>3, <1>10
    <2>4. ASSUME NEW t \in Seqs, NEW d \in published, files'[t].kind = "reserved" PROVE d.seq # t
      BY <2>4, <2>1, <1>10, <1>11 DEF Unraced
    <2>5. ASSUME NEW d \in published
          PROVE  \/ files'[d.seq] = Checkpoint(d.id, d.supersedes)
                 \/ files'[d.seq] = Absent /\ \E e \in published : e.seq > d.seq
      <3>1. d.seq \in Seqs
        BY <1>1 DEF CheckpointTypes
      <3>2. CASE d.seq # s
        BY <3>1, <3>2, <2>1, <1>10 DEF Unraced
      <3>3. CASE d.seq = s
        BY <3>1, <3>3, <2>2, <1>10
      <3> QED BY <3>2, <3>3
    <2>6. ASSUME NEW q \in Publishers PROVE VictimsPassed(call[q].victims)'
      <3>1. VictimsPassed(call[q].victims) /\ call'[q].victims \subseteq call[q].victims
        BY <2>1, <1>7, <1>9, <1>10 DEF Unraced
      <3> QED BY <3>1, <1>1 DEF VictimsPassed
    <2>7. ASSUME NEW i \in handoff
          PROVE  \E t \in Seqs : /\ isPublished(t)' /\ files'[t].id = i
                                 /\ \A q \in Publishers : t \notin call'[q].victims
      <3>1. PICK t \in Seqs : isPublished(t) /\ files[t].id = i /\ \A q \in Publishers : t \notin call[q].victims
        BY <2>1 DEF Unraced
      <3>2. t # s
        BY <1>3, <3>1
      <3>3. \A q \in Publishers : t \notin call'[q].victims
        BY <3>1, <1>7, <1>9, <1>10
      <3> QED BY <1>10, <3>1, <3>2, <3>3 DEF isPublished
    <2> QED BY <1>1, <2>1, <2>3, <2>4, <2>5, <2>6, <2>7 DEF Unraced
  <1>15. \A q \in Publishers : Alone(q)'
    <2>1. \A q \in Publishers \ {p} : call[q].pc = "idle" \/ call[q].contended
      BY <1>1, OthersHaveCompany DEF AfterReserve
    <2> QED BY <1>1, <1>9, <1>10, <2>1, OnlyMineMatters DEF CheckpointInv, AfterReserve
  <1> QED BY <1>12, <1>13, <1>14, <1>15 DEF CheckpointInv

\* A publisher without competition sees no change when reservations change hands
\* or grow old, and nobody goes past its reservation.
LEMMA AloneStays ==
    ASSUME CheckpointInv, CheckpointTypes', index' = index, NEW q \in Publishers, call'[q] = call[q],
           \A r \in Publishers : call'[r] = call[r] \/ call'[r].pc = "idle",
           \A t \in Seqs : files[t].kind # "reserved" => files'[t] = files[t],
           \A t \in Seqs : files[t].kind = "reserved" => files'[t].kind = "reserved"
    PROVE  Alone(q)'
  <1>1. CheckpointTypes /\ RecordsAgree /\ Alone(q)
    BY DEF CheckpointInv
  <1>2. /\ \A t \in Seqs : isPublished(t)' <=> isPublished(t)
        /\ \A t \in Seqs : isPublished(t) => files'[t] = files[t]
        /\ \A t \in Seqs : files[t] = Absent => files'[t] = Absent
    BY DEF isPublished, Absent
  <1>3. scanLatest' = scanLatest /\ (readIndexed.ok => readIndexed' = readIndexed)
    BY <1>1, <1>2, ViewStays
  <1> SUFFICES ASSUME call[q].pc # "idle", ~call[q].contended PROVE Alone(q)'
    BY DEF Alone
  <1>4. SeesAll(call[q])'
    <2>1. PICK c : c = call[q]
      OBVIOUS
    <2>2. SeesAll(c)
      BY <1>1, <2>1 DEF Alone, SeesAll
    <2>3. SeesAll(c)'
      BY <1>2, <1>3, <2>2, SeesAllStays
    <2> QED BY <2>1, <2>3 DEF SeesAll
  <1>5. \A r \in Publishers \ {q} : call'[r].pc \notin AfterReserve
    BY <1>1 DEF Alone, AfterReserve
  <1>6. ASSUME call[q].pc \in PublishSteps, NEW r \in Publishers \ {q}, call'[r].pc \in {"unlink", "evict"}
        PROVE  files'[call'[r].at].kind # "checkpoint"
    <2>1. call'[r] = call[r]
      BY <1>6
    <2>2. call[r].at \in Seqs /\ ~isPublished(call[r].at)
      BY <1>1, <1>6, <2>1 DEF RecordsAgree, CallOK, Alone
    <2> QED BY <1>2, <2>1, <2>2 DEF isPublished
  <1> QED BY <1>4, <1>5, <1>6 DEF Alone, isPublished

\* Reservations change hands, or grow old.
LEMMA ReservationStep ==
    ASSUME CheckpointInv, UNCHANGED <<index, handoff, issued, published, acked, raced>>,
           files' \in [Seqs -> StoredFiles], call' \in [Publishers -> PublishCalls],
           \A r \in Publishers : call'[r] = call[r] \/ call'[r] = NoCall,
           \A t \in Seqs : files[t].kind # "reserved" => files'[t] = files[t],
           \A t \in Seqs : files[t].kind = "reserved" =>
             /\ files'[t].kind = "reserved"
             /\ \/ files'[t].by = files[t].by /\ (files[t].by # NoPublisher => call'[files[t].by] = call[files[t].by])
                \/ files'[t].by = NoPublisher /\ files[t].by \in Publishers /\ call'[files[t].by] = NoCall
    PROVE  CheckpointInv'
  <1> USE CheckpointAssumption
  <1>1. CheckpointTypes /\ RecordsAgree
    BY DEF CheckpointInv
  <1>2. CheckpointTypes'
    BY <1>1 DEF CheckpointTypes
  <1>3. \A t \in Seqs : (isPublished(t)' <=> isPublished(t)) /\ (isPublished(t) => files'[t] = files[t])
    BY DEF isPublished
  <1>4. NoCall.pc = "idle" /\ NoCall.victims = {}
    BY DEF NoCall
  <1>5. RecordsAgree'
    <2>1. ASSUME NEW q \in Publishers PROVE CallOK(call[q])'
      <3>1. CASE call'[q] = call[q]
        <4>1. CallOK(call[q])
          BY <1>1 DEF RecordsAgree
        <4> QED BY <3>1, <4>1 DEF CallOK, EntryOK
      <3>2. CASE call'[q] = NoCall
        BY <3>2 DEF CallOK, EntryOK, NoCall, AfterReserve
      <3> QED BY <3>1, <3>2
    <2>2. ASSUME NEW t \in Seqs, isPublished(t)'
          PROVE  \E d \in published : d.seq = t /\ d.id = files'[t].id /\ d.supersedes = files'[t].supersedes
      BY <2>2, <1>1, <1>3 DEF RecordsAgree
    <2>3. ASSUME NEW t \in Seqs, files'[t].kind = "reserved", files'[t].by # NoPublisher
          PROVE  call'[files'[t].by].pc = "rename" /\ call'[files'[t].by].at = t
      <3>1. files[t].kind = "reserved"
        BY <2>3
      <3> QED BY <3>1, <2>3, <1>1 DEF RecordsAgree
    <2> QED BY <1>1, <2>1, <2>2, <2>3 DEF RecordsAgree, EntryOK
  <1>6. raced' = {} => Unraced'
    <2> SUFFICES ASSUME raced = {} PROVE Unraced'
      OBVIOUS
    <2>1. Unraced
      BY DEF CheckpointInv
    <2>2. ASSUME NEW q \in Publishers, call'[q].pc = "rename"
          PROVE  files'[call'[q].at].kind = "reserved" /\ files'[call'[q].at].by = q
      <3>1. call'[q] = call[q]
        BY <2>2, <1>4
      <3>2. files[call[q].at].kind = "reserved" /\ files[call[q].at].by = q /\ call[q].at \in Seqs
        BY <3>1, <2>1, <2>2, <1>1 DEF Unraced, RecordsAgree, CallOK, AfterReserve
      <3>3. call'[q] # NoCall
        BY <2>2, <1>4
      <3> QED BY <3>1, <3>2, <3>3
    <2>3. ASSUME NEW t \in Seqs, NEW d \in published, files'[t].kind = "reserved" PROVE d.seq # t
      BY <2>3, <2>1 DEF Unraced
    <2>4. ASSUME NEW d \in published
          PROVE  \/ files'[d.seq] = Checkpoint(d.id, d.supersedes)
                 \/ files'[d.seq] = Absent /\ \E e \in published : e.seq > d.seq
      <3>1. d.seq \in Seqs
        BY <1>1 DEF CheckpointTypes
      <3> QED BY <3>1, <2>1 DEF Unraced, Absent, Checkpoint
    <2>5. \A q \in Publishers : call'[q].victims \subseteq call[q].victims
      BY <1>4
    <2>6. ASSUME NEW q \in Publishers PROVE VictimsPassed(call[q].victims)'
      BY <2>1, <2>5 DEF Unraced, VictimsPassed
    <2>7. ASSUME NEW i \in handoff
          PROVE  \E t \in Seqs : /\ isPublished(t)' /\ files'[t].id = i
                                 /\ \A q \in Publishers : t \notin call'[q].victims
      <3>1. PICK t \in Seqs : isPublished(t) /\ files[t].id = i /\ \A q \in Publishers : t \notin call[q].victims
        BY <2>1 DEF Unraced
      <3> QED BY <1>3, <2>5, <3>1
    <2> QED BY <2>1, <2>2, <2>3, <2>4, <2>6, <2>7 DEF Unraced
  <1>7. ASSUME NEW q \in Publishers PROVE Alone(q)'
    <2>1. CASE call'[q] = call[q]
      BY <1>2, <1>4, <2>1, AloneStays
    <2>2. CASE call'[q] = NoCall
      BY <1>4, <2>2 DEF Alone
    <2> QED BY <2>1, <2>2
  <1> QED BY <1>2, <1>5, <1>6, <1>7 DEF CheckpointInv

LEMMA CrashStep == ASSUME CheckpointInv, NEW p \in Publishers, Crash(p) PROVE CheckpointInv'
  <1> USE CheckpointAssumption
  <1>1. CheckpointTypes /\ RecordsAgree /\ UNCHANGED <<index, handoff, issued, published, acked, raced>>
    BY DEF CheckpointInv, Crash, ghosts
  <1>2. call' = [call EXCEPT ![p] = NoCall] /\ NoCall \in PublishCalls
    BY NoCallIsCall DEF Crash
  <1>3. \A r \in Publishers : call'[r] = IF r = p THEN NoCall ELSE call[r]
    BY <1>1, <1>2 DEF CheckpointTypes
  <1>4. call' \in [Publishers -> PublishCalls]
    BY <1>1, <1>2 DEF CheckpointTypes
  <1>5. \A t \in Seqs : files'[t] = IF files[t].kind = "reserved" /\ files[t].by = p
                                   THEN Reserved(NoPublisher, files[t].aged) ELSE files[t]
    BY DEF Crash
  <1>6. ASSUME NEW t \in Seqs, files[t].kind = "reserved"
        PROVE  files[t].aged \in BOOLEAN /\ files[t].by \in Publishers \cup {NoPublisher}
    BY <1>1, <1>6 DEF CheckpointTypes, StoredFiles
  <1>7. \A t \in Seqs : files'[t] \in StoredFiles
    <2> TAKE t \in Seqs
    <2>1. files[t] \in StoredFiles
      BY <1>1 DEF CheckpointTypes
    <2>2. \A b \in BOOLEAN : Reserved(NoPublisher, b) \in StoredFiles
      BY DEF Reserved, StoredFiles
    <2> QED BY <1>5, <1>6, <2>1, <2>2
  <1>8. files' \in [Seqs -> StoredFiles]
    BY <1>7 DEF Crash
  <1>9. ASSUME NEW t \in Seqs, files[t].kind = "reserved"
        PROVE  /\ files'[t].kind = "reserved"
               /\ \/ files'[t].by = files[t].by /\ (files[t].by # NoPublisher => call'[files[t].by] = call[files[t].by])
                  \/ files'[t].by = NoPublisher /\ files[t].by \in Publishers /\ call'[files[t].by] = NoCall
    <2>1. CASE files[t].by = p
      <3>1. files'[t] = Reserved(NoPublisher, files[t].aged)
        BY <1>5, <1>9, <2>1
      <3> QED BY <3>1, <2>1, <1>3 DEF Reserved
    <2>2. CASE files[t].by # p
      <3>1. files'[t] = files[t]
        BY <1>5, <2>2
      <3>2. files[t].by # NoPublisher => call'[files[t].by] = call[files[t].by]
        BY <1>3, <1>6, <1>9, <2>2
      <3> QED BY <3>1, <3>2, <1>9
    <2> QED BY <2>1, <2>2
  <1>10. \A t \in Seqs : files[t].kind # "reserved" => files'[t] = files[t]
    BY <1>5
  <1>11. \A r \in Publishers : call'[r] = call[r] \/ call'[r] = NoCall
    BY <1>3
  <1> QED BY <1>1, <1>4, <1>8, <1>9, <1>10, <1>11, ReservationStep

LEMMA AgeStep == ASSUME CheckpointInv, NEW s \in Seqs, Age(s) PROVE CheckpointInv'
  <1>1. CheckpointTypes /\ UNCHANGED <<index, call, handoff, issued, published, acked, raced>>
    BY DEF CheckpointInv, Age, ghosts
  <1>2. files[s].kind = "reserved" /\ files[s] \in StoredFiles /\ files' = [files EXCEPT ![s].aged = TRUE]
    BY <1>1 DEF Age, CheckpointTypes
  <1>3. PICK old : old = [files[s] EXCEPT !.aged = TRUE]
    OBVIOUS
  <1>4. old \in StoredFiles /\ old.kind = "reserved" /\ old.by = files[s].by
    BY <1>2, <1>3 DEF StoredFiles
  <1>5. \A t \in Seqs : files'[t] = IF t = s THEN old ELSE files[t]
    BY <1>1, <1>2, <1>3 DEF CheckpointTypes
  <1>6. files' \in [Seqs -> StoredFiles]
    BY <1>1, <1>2, <1>3, <1>4 DEF CheckpointTypes
  <1>7. call' \in [Publishers -> PublishCalls]
    BY <1>1 DEF CheckpointTypes
  <1> QED BY <1>1, <1>2, <1>4, <1>5, <1>6, <1>7, ReservationStep

\* Without interference the newest checkpoint ever published is still there.
LEMMA NewestIsThere ==
    ASSUME CheckpointInv, raced = {}, NEW c \in published
    PROVE  /\ scanLatest.seq \in Seqs /\ isPublished(scanLatest.seq) /\ scanLatest # NoEntry
           /\ c.seq <= scanLatest.seq
  <1> USE CheckpointAssumption
  <1>1. CheckpointTypes /\ RecordsAgree /\ Unraced
    BY DEF CheckpointInv
  <1> DEFINE numbers == {d.seq : d \in published}
  <1>2. numbers \in SUBSET (1 .. MaxSeq) /\ numbers # {} /\ MaxSeq \in Nat /\ c.seq \in numbers
    BY <1>1 DEF CheckpointTypes, Seqs
  <1>3. Max(numbers) \in numbers /\ \A n \in numbers : n <= Max(numbers)
    BY <1>2, GreatestOfSome
  <1>4. PICK d \in published : d.seq = Max(numbers)
    BY <1>3
  <1>5. \A e \in published : ~(e.seq > d.seq)
    <2> TAKE e \in published
    <2>1. e.seq \in numbers /\ e.seq \in 1 .. MaxSeq /\ d.seq \in 1 .. MaxSeq
      BY <1>1 DEF CheckpointTypes, Seqs
    <2>2. e.seq <= d.seq
      BY <1>3, <1>4, <2>1
    <2> QED BY <2>1, <2>2
  <1>6. files[d.seq] = Checkpoint(d.id, d.supersedes) /\ d.seq \in Seqs
    BY <1>1, <1>5 DEF Unraced, CheckpointTypes
  <1>7. isPublished(d.seq)
    BY <1>6 DEF isPublished, Checkpoint
  <1>8. scanLatest.seq \in Seqs /\ isPublished(scanLatest.seq) /\ d.seq <= scanLatest.seq
    BY <1>1, <1>6, <1>7, ScanIsLatest
  <1>9. c.seq <= d.seq
    BY <1>2, <1>3, <1>4
  <1>10. c.seq \in Nat /\ d.seq \in Nat /\ scanLatest.seq \in Nat /\ scanLatest # NoEntry
    BY <1>1, <1>8 DEF CheckpointTypes, Seqs, NoEntry
  <1> QED BY <1>8, <1>9, <1>10

\* A fresh context resumes from the newest checkpoint there is.
LEMMA ResumesFromLatest ==
    ASSUME CheckpointTypes, RecordsAgree, assessResume.usable
    PROVE  /\ assessResume.seq = scanLatest.seq /\ scanLatest.seq \in Seqs /\ isPublished(scanLatest.seq)
  <1>1. readIndexed.ok /\ newerOf(readIndexed.entry, scanLatest) # NoEntry
    BY DEF assessResume, loadLatestCheckpoint
  <1>2. /\ readIndexed.entry \in IndexEntries /\ EntryOK(readIndexed.entry) /\ scanLatest \in IndexEntries
        /\ readIndexed.entry.seq <= scanLatest.seq
    BY <1>1, IndexIsEntry, ScanIsLatest
  <1>3. newerOf(readIndexed.entry, scanLatest).seq = scanLatest.seq
    BY <1>2 DEF newerOf, IndexEntries
  <1>4. scanLatest # NoEntry
    <2> SUFFICES ASSUME scanLatest = NoEntry PROVE FALSE
      OBVIOUS
    <2>1. readIndexed.entry.seq = 0 /\ newerOf(readIndexed.entry, scanLatest) = readIndexed.entry
      BY <1>2 DEF NoEntry, newerOf, IndexEntries
    <2>2. PICK c \in published : c.seq = 0
      BY <1>1, <1>2, <2>1 DEF EntryOK
    <2> QED BY <2>2 DEF CheckpointTypes, Seqs
  <1>5. assessResume.seq = newerOf(readIndexed.entry, scanLatest).seq
    BY DEF assessResume, loadLatestCheckpoint
  <1> QED BY <1>3, <1>4, <1>5, ScanIsLatest

LEMMA CiteStep == ASSUME CheckpointInv, Cite PROVE CheckpointInv'
  <1> USE CheckpointAssumption
  <1>1. /\ CheckpointTypes /\ RecordsAgree /\ assessResume.usable
        /\ UNCHANGED <<files, index, call, issued, published, acked, raced>>
        /\ handoff' = {files[assessResume.seq].id}
    BY DEF CheckpointInv, Cite, ghosts
  <1>2. assessResume.seq = scanLatest.seq /\ scanLatest.seq \in Seqs /\ isPublished(scanLatest.seq)
    BY <1>1, ResumesFromLatest
  <1>3. CheckpointTypes'
    BY <1>1 DEF CheckpointTypes
  <1>4. RecordsAgree'
    <2>1. ASSUME NEW q \in Publishers PROVE CallOK(call[q])'
      <3>1. CallOK(call[q])
        BY <1>1 DEF RecordsAgree
      <3> QED BY <1>1, <3>1 DEF CallOK, EntryOK
    <2> QED BY <1>1, <2>1 DEF RecordsAgree, EntryOK, isPublished
  <1>5. raced' = {} => Unraced'
    <2> SUFFICES ASSUME raced = {} PROVE Unraced'
      BY <1>1
    <2>1. Unraced
      BY DEF CheckpointInv
    <2>2. ASSUME NEW q \in Publishers PROVE scanLatest.seq \notin call[q].victims
      <3> SUFFICES ASSUME scanLatest.seq \in call[q].victims PROVE FALSE
        OBVIOUS
      <3>1. PICK d \in published : d.seq > scanLatest.seq
        BY <2>1 DEF Unraced, VictimsPassed
      <3>2. d.seq <= scanLatest.seq /\ d.seq \in Nat /\ scanLatest.seq \in Nat
        BY <1>1, <1>2, NewestIsThere DEF CheckpointTypes, Seqs
      <3> QED BY <3>1, <3>2
    <2>3. ASSUME NEW i \in handoff'
          PROVE  \E t \in Seqs : /\ isPublished(t)' /\ files'[t].id = i
                                 /\ \A q \in Publishers : t \notin call'[q].victims
      <3>1. i = files[scanLatest.seq].id
        BY <1>1, <1>2
      <3>2. PICK t \in Seqs : t = scanLatest.seq
        BY <1>2
      <3> QED BY <1>1, <1>2, <2>2, <3>1, <3>2 DEF isPublished
    <2>4. \A q \in Publishers : VictimsPassed(call[q].victims)'
      BY <1>1, <2>1 DEF Unraced, VictimsPassed
    <2> QED BY <1>1, <2>1, <2>3, <2>4 DEF Unraced
  <1>6. ASSUME NEW q \in Publishers PROVE Alone(q)'
    <2>1. call'[q] = call[q] /\ \A t \in Seqs : files'[t] = files[t]
      BY <1>1
    <2> QED BY <1>1, <1>3, <2>1, AloneStays
  <1> QED BY <1>3, <1>4, <1>5, <1>6 DEF CheckpointInv

LEMMA CheckpointInitInv == CheckpointInit => CheckpointInv
  <1> USE CheckpointAssumption
  <1> SUFFICES ASSUME CheckpointInit PROVE CheckpointInv
    OBVIOUS
  <1>1. \A q \in Publishers : call[q] = NoCall
    BY DEF CheckpointInit
  <1>2. /\ NoCall.pc = "idle" /\ NoCall.indexed = NoEntry /\ NoCall.previous = NoEntry /\ NoCall.attempt = 0
        /\ NoCall.result = "none" /\ NoCall.victims = {}
    BY DEF NoCall
  <1>3. \A t \in Seqs : files[t].kind = "absent"
    BY DEF CheckpointInit, Absent
  <1>4. CheckpointTypes
    <2>1. Absent \in StoredFiles
      BY DEF Absent, StoredFiles
    <2> QED BY <2>1, NoCallIsCall DEF CheckpointInit, CheckpointTypes
  <1>5. RecordsAgree
    <2>1. \A q \in Publishers : CallOK(call[q])
      BY <1>1, <1>2 DEF CallOK, EntryOK, AfterReserve
    <2> QED BY <1>3, <2>1 DEF CheckpointInit, RecordsAgree, EntryOK, isPublished
  <1>6. Unraced
    <2>1. \A q \in Publishers : VictimsPassed(call[q].victims)
      BY <1>1, <1>2 DEF VictimsPassed
    <2> QED BY <1>1, <1>2, <1>3, <2>1 DEF CheckpointInit, Unraced
  <1>7. \A q \in Publishers : Alone(q)
    BY <1>1, <1>2 DEF Alone
  <1> QED BY <1>4, <1>5, <1>6, <1>7 DEF CheckpointInv

LEMMA CheckpointStep == CheckpointInv /\ [CheckpointNext]_checkpointVars => CheckpointInv'
  <1> SUFFICES ASSUME CheckpointInv, [CheckpointNext]_checkpointVars PROVE CheckpointInv'
    OBVIOUS
  <1>1. CASE UNCHANGED checkpointVars
    <2>1. /\ CheckpointTypes /\ RecordsAgree
          /\ UNCHANGED <<files, index, call, handoff, issued, published, acked, raced>>
      BY <1>1 DEF CheckpointInv, checkpointVars
    <2>2. files' \in [Seqs -> StoredFiles] /\ call' \in [Publishers -> PublishCalls]
      BY <2>1 DEF CheckpointTypes
    <2> QED BY <2>1, <2>2, ReservationStep
  <1>2. ASSUME NEW p \in Publishers,
               \/ BeginPublish(p) \/ CleanStat(p) \/ CleanUnlink(p) \/ LoadIndex(p) \/ LoadScan(p)
               \/ Reserve(p) \/ Rename(p) \/ Collide(p) \/ InspectCollision(p) \/ Evict(p)
               \/ WriteIndex(p) \/ PruneRead(p) \/ PruneUnlink(p) \/ ReturnPublished(p) \/ Crash(p)
        PROVE  CheckpointInv'
    BY <1>2, BeginStep, CleanStatStep, CleanUnlinkStep, LoadIndexStep, LoadScanStep, ReserveStep,
       RenameStep, CollideStep, InspectStep, EvictStep, WriteIndexStep, PruneReadStep, PruneUnlinkStep,
       ReturnStep, CrashStep
  <1>3. ASSUME NEW s \in Seqs, Age(s) PROVE CheckpointInv'
    BY <1>3, AgeStep
  <1>4. CASE Cite
    BY <1>4, CiteStep
  <1> QED BY <1>1, <1>2, <1>3, <1>4 DEF CheckpointNext

LEMMA CheckpointImplies == CheckpointInv => CheckpointSafety
  <1> USE CheckpointAssumption
  <1> SUFFICES ASSUME CheckpointInv PROVE CheckpointSafety
    OBVIOUS
  <1>1. CheckpointTypes /\ RecordsAgree /\ (raced = {} => Unraced)
    BY DEF CheckpointInv
  <1>2. CheckpointTypeOK
    <2>1. index.seq \in 0 .. MaxSeq
      BY <1>1 DEF CheckpointTypes, IndexEntries
    <2>2. \A s \in Seqs : isPublished(s) => files[s].id \in 1 .. issued
      BY <1>1 DEF RecordsAgree
    <2> QED BY <1>1, <2>1, <2>2 DEF CheckpointTypeOK, CheckpointTypes, RecordsAgree
  <1>3. SequenceNeverForks
    BY <1>1 DEF SequenceNeverForks, Unraced
  <1>4. ResumeSeesPublished
    <2> SUFFICES ASSUME raced = {}, acked > 0 PROVE assessResume.usable /\ assessResume.seq >= acked
      BY DEF ResumeSeesPublished
    <2>1. PICK c \in published : c.seq = acked
      BY <1>1 DEF RecordsAgree, CheckpointTypes
    <2>2. /\ scanLatest.seq \in Seqs /\ isPublished(scanLatest.seq) /\ scanLatest # NoEntry
          /\ acked <= scanLatest.seq
      BY <2>1, NewestIsThere
    <2>3. readIndexed.ok
      <3>1. CASE index = NoEntry
        BY <3>1 DEF readIndexed
      <3>2. CASE index # NoEntry
        <4>1. PICK d \in published : d.seq = index.seq /\ d.id = index.id
          BY <1>1, <3>2 DEF RecordsAgree, EntryOK
        <4>2. files[index.seq] = Checkpoint(d.id, d.supersedes) \/ files[index.seq] = Absent
          BY <1>1, <4>1 DEF Unraced
        <4>3. CASE files[index.seq] = Absent
          BY <3>2, <4>3, <2>2 DEF readIndexed
        <4>4. CASE files[index.seq] = Checkpoint(d.id, d.supersedes)
          <5>1. isPublished(index.seq) /\ files[index.seq].id = index.id /\ files[index.seq] # Absent
            BY <4>1, <4>4 DEF isPublished, Checkpoint, Absent
          <5> QED BY <3>2, <5>1 DEF readIndexed
        <4> QED BY <4>2, <4>3, <4>4
      <3> QED BY <3>1, <3>2
    <2>4. newerOf(readIndexed.entry, scanLatest) # NoEntry
      <3>1. readIndexed.entry \in IndexEntries /\ readIndexed.entry.seq <= scanLatest.seq
        BY <1>1, <2>3, IndexIsEntry
      <3>2. newerOf(readIndexed.entry, scanLatest).seq = scanLatest.seq
        BY <3>1, <2>2 DEF newerOf, IndexEntries, Seqs
      <3> QED BY <3>2, <2>2 DEF NoEntry, Seqs
    <2>5. assessResume.usable
      BY <2>3, <2>4 DEF assessResume, loadLatestCheckpoint
    <2>6. assessResume.seq = scanLatest.seq
      BY <1>1, <2>5, ResumesFromLatest
    <2>7. scanLatest.seq \in Nat /\ acked \in Nat
      BY <1>1, <2>2 DEF Seqs, CheckpointTypes
    <2> QED BY <2>2, <2>5, <2>6, <2>7
  <1>5. CitedIsKept
    BY <1>1 DEF CitedIsKept, Unraced
  <1>6. GivesUpOnlyUnderContention
    BY <1>1 DEF GivesUpOnlyUnderContention, RecordsAgree, CallOK
  <1> QED BY <1>2, <1>3, <1>4, <1>5, <1>6 DEF CheckpointSafety

-----------------------------------------------------------------------------
(* RuntimePurge *)

\* A purge in progress works on the plan that was approved; what is left of it
\* was planned, and what is there besides, unless somebody interfered, is kept.
PurgeOK(u) ==
    /\ u.draft = approvedPlan
    /\ u.todo \subseteq {p \in Known \ oddKind : u.draft[p] # 0}
    /\ changed = 0 => \A p \in Paths : entry[p] # 0 => p \in u.preserved \cup u.todo

\* The inductive invariant.
PurgeInv ==
    /\ entry \in [Paths -> 0 .. (MaxChanges + 1)] /\ changed \in Nat /\ homeExists \in BOOLEAN
    /\ purge \in [step : {"none", "revalidate", "remove"}, todo : SUBSET Known, draft : [Known -> 0 .. (MaxChanges + 1)],
                  preserved : SUBSET Paths]
    /\ PurgeTypeOK
    /\ purge.step # "none" => PurgeOK(purge)

\* What artifactOrder picks is still to be removed; the database, only when nothing else is.
LEMMA NextArtifact ==
    ASSUME NEW todo \in SUBSET Known, todo # {}
    PROVE  /\ artifactOrder(todo) \in todo
           /\ artifactOrder(todo) = "project.sqlite" => todo = {"project.sqlite"}
  <1> DEFINE R == removalOrder
             isNext(i) == R[i] \in todo /\ \A j \in 1 .. (i - 1) : R[j] \notin todo
             i == CHOOSE n \in DOMAIN R : isNext(n)
  <1>1. /\ DOMAIN R = {1, 2, 3, 4, 5, 6}
        /\ R[1] = "daemon.sock" /\ R[2] = "drafts/note" /\ R[3] = "drafts" /\ R[4] = "index.sqlite"
        /\ R[5] = "project.sqlite-wal" /\ R[6] = "project.sqlite"
    BY DEF removalOrder
  <1>2. \A p \in todo : \E n \in DOMAIN R : R[n] = p
    BY DEF Known, Range
  <1> HIDE DEF R
  <1>3. \E n \in DOMAIN R : isNext(n)
    <2>1. PICK n \in DOMAIN R : R[n] \in todo
      BY <1>2
    <2> QED BY <2>1, <1>1
  <1>4. i \in DOMAIN R /\ isNext(i)
    BY <1>3
  <1>5. artifactOrder(todo) = R[i]
    BY DEF artifactOrder, R
  <1>6. R[i] = "project.sqlite" => todo = {"project.sqlite"}
    <2> HIDE DEF i
    <2> SUFFICES ASSUME R[i] = "project.sqlite" PROVE todo = {"project.sqlite"}
      OBVIOUS
    <2>1. i = 6
      BY <1>1, <1>4
    <2>2. \A n \in {1, 2, 3, 4, 5} : R[n] \notin todo
      BY <2>1, <1>4
    <2> QED BY <1>1, <1>2, <1>4, <2>2
  <1> QED BY <1>4, <1>5, <1>6

LEMMA PurgeInitInv == PurgeInit => PurgeInv
  BY PurgeBounds DEF PurgeInit, PurgeInv, PurgeTypeOK, NoPurge

LEMMA PathsAreKnown == Known \subseteq Paths /\ "drafts" \in Paths /\ \A p \in Paths : inside(p) \subseteq Paths
  BY DEF Known, Paths, Range, removalOrder, inside

\* The steps of the operator's two invocations.
LEMMA PurgeBeginStep == ASSUME PurgeInv, PlanPurge \/ ApplyPurge PROVE PurgeInv'
  <1>1. plannedArtifacts \in [Known -> 0 .. (MaxChanges + 1)]
    BY PathsAreKnown, PurgeBounds DEF plannedArtifacts, PurgeInv
  <1>2. CASE PlanPurge
    BY <1>2 DEF PlanPurge, PurgeInv, PurgeTypeOK
  <1>3. CASE ApplyPurge
    <2>1. plannedArtifacts' = plannedArtifacts
      BY <1>3 DEF ApplyPurge, plannedArtifacts
    <2>2. approvedPlan = plannedArtifacts
      BY <1>3 DEF ApplyPurge, approves
    <2> DEFINE todo == {p \in Known : plannedArtifacts[p] # 0}
    <2>3. /\ purge'.step = "revalidate" /\ purge'.todo = todo /\ purge'.draft = plannedArtifacts
          /\ purge'.preserved = preservedPaths
          /\ purge' \in [step : {"none", "revalidate", "remove"}, todo : SUBSET Known,
                         draft : [Known -> 0 .. (MaxChanges + 1)], preserved : SUBSET Paths]
      BY <1>1, <1>3 DEF ApplyPurge, preservedPaths
    <2>4. UNCHANGED <<entry, oddKind, homeExists, approvedPlan, changed>>
      BY <1>3 DEF ApplyPurge
    <2>5. \A p \in Paths : entry[p] # 0 => p \in preservedPaths \cup todo
      BY DEF preservedPaths, plannedArtifacts, Paths
    <2>6. todo \subseteq {p \in Known \ oddKind : plannedArtifacts[p] # 0}
      BY DEF plannedArtifacts
    <2>7. PurgeOK(purge)'
      BY <2>2, <2>3, <2>4, <2>5, <2>6 DEF PurgeOK
    <2> QED BY <2>3, <2>4, <2>7 DEF PurgeInv, PurgeTypeOK
  <1> QED BY <1>2, <1>3

\* The steps of a removal.
LEMMA PurgeRemovalStep == ASSUME PurgeInv, RevalidateArtifact \/ RemoveArtifact \/ RemoveHome \/ PurgeDies PROVE PurgeInv'
  <1> USE PurgeBounds, PathsAreKnown
  <1>0. NoPurge \in [step : {"none", "revalidate", "remove"}, todo : SUBSET Known,
                     draft : [Known -> 0 .. (MaxChanges + 1)], preserved : SUBSET Paths]
        /\ NoPurge.step = "none"
    BY DEF NoPurge
  <1>1. CASE RevalidateArtifact
    BY <1>0, <1>1 DEF RevalidateArtifact, PurgeInv, PurgeTypeOK, PurgeOK
  <1>2. CASE RemoveArtifact
    <2> DEFINE p == artifactOrder(purge.todo)
    <2>1. p \in purge.todo /\ purge.todo \subseteq Known
      BY <1>2, NextArtifact DEF RemoveArtifact, PurgeInv, PurgeTypeOK
    <2> HIDE DEF p
    <2>2. CASE removable(p) /\ entry' = [entry EXCEPT ![p] = 0]
               /\ purge' = [purge EXCEPT !.step = "revalidate", !.todo = @ \ {p}]
      <3>1. UNCHANGED <<oddKind, homeExists, approvedPlan, changed>> /\ purge.step = "remove"
        BY <1>2 DEF RemoveArtifact
      <3>2. \A q \in Paths : entry'[q] # 0 => entry[q] # 0 /\ q # p
        BY <2>1, <2>2 DEF PurgeInv
      <3>3. /\ purge' \in [step : {"none", "revalidate", "remove"}, todo : SUBSET Known,
                           draft : [Known -> 0 .. (MaxChanges + 1)], preserved : SUBSET Paths]
            /\ purge'.step = "revalidate" /\ purge'.todo = purge.todo \ {p}
            /\ purge'.draft = purge.draft /\ purge'.preserved = purge.preserved
        BY <2>2 DEF PurgeInv
      <3>4. PurgeOK(purge)'
        BY <3>1, <3>2, <3>3 DEF PurgeInv, PurgeOK
      <3>5. entry' \in [Paths -> 0 .. (MaxChanges + 1)]
        <4> DEFINE V == 0 .. (MaxChanges + 1)
        <4>1. 0 \in V
          BY DEF PurgeBounds
        <4>2. entry \in [Paths -> V]
          BY DEF PurgeInv
        <4> HIDE DEF V
        <4>3. entry' \in [Paths -> V]
          BY <2>2, <4>1, <4>2
        <4> QED BY <4>3 DEF V
      <3> QED BY <3>1, <3>2, <3>3, <3>4, <3>5 DEF PurgeInv, PurgeTypeOK
    <2>3. CASE purge' = NoPurge /\ UNCHANGED entry
      BY <1>0, <1>2, <2>3 DEF RemoveArtifact, PurgeInv, PurgeTypeOK
    <2> QED BY <1>2, <2>2, <2>3 DEF RemoveArtifact, p
  <1>3. CASE RemoveHome
    BY <1>0, <1>3 DEF RemoveHome, homeKept, PurgeInv, PurgeTypeOK
  <1>4. CASE PurgeDies
    BY <1>0, <1>4 DEF PurgeDies, PurgeInv, PurgeTypeOK
  <1> QED BY <1>1, <1>2, <1>3, <1>4

\* The steps of everybody else.
LEMMA PurgeOthersStep ==
    ASSUME PurgeInv, HostStarts \/ \E p \in Paths : SomethingWrites(p) \/ SomethingRemoves(p)
    PROVE  PurgeInv'
  <1>1. CASE HostStarts
    BY <1>1 DEF HostStarts, PurgeInv, PurgeTypeOK, PurgeOK
  <1>2. CASE \E p \in Paths : SomethingWrites(p)
    <2>1. PICK p \in Paths : SomethingWrites(p)
      BY <1>2
    <2>2. /\ entry' \in [Paths -> 0 .. (MaxChanges + 1)] /\ changed' \in Nat /\ changed' # 0
          /\ homeExists /\ UNCHANGED <<oddKind, homeExists, purge, approvedPlan>>
      BY <2>1, PurgeBounds DEF SomethingWrites, PurgeInv
    <2> QED BY <2>2 DEF PurgeInv, PurgeTypeOK, PurgeOK
  <1>3. CASE \E p \in Paths : SomethingRemoves(p)
    <2>1. PICK p \in Paths : SomethingRemoves(p)
      BY <1>3
    <2>2. /\ entry' \in [Paths -> 0 .. (MaxChanges + 1)] /\ changed' \in Nat /\ changed' # 0
          /\ \A q \in Paths : entry[q] = 0 => entry'[q] = 0
          /\ UNCHANGED <<oddKind, homeExists, purge, approvedPlan>>
      BY <2>1, PurgeBounds DEF SomethingRemoves, PurgeInv
    <2> QED BY <2>2 DEF PurgeInv, PurgeTypeOK, PurgeOK
  <1> QED BY <1>1, <1>2, <1>3

LEMMA PurgeStep == PurgeInv /\ [PurgeNext]_purgeVars => PurgeInv'
  <1> SUFFICES ASSUME PurgeInv, [PurgeNext]_purgeVars PROVE PurgeInv'
    OBVIOUS
  <1>1. CASE PurgeNext
    BY <1>1, PurgeBeginStep, PurgeRemovalStep, PurgeOthersStep DEF PurgeNext
  <1>2. CASE UNCHANGED purgeVars
    BY <1>2 DEF purgeVars, PurgeInv, PurgeTypeOK, PurgeOK
  <1> QED BY <1>1, <1>2

\* What a purge removes was approved, in order, and what it leaves was not.
LEMMA PurgeKeepsToPlan ==
    PurgeInv => RemovesOnlyThePlan /\ DatabaseLast /\ CompletePurgeLeavesOnlyPreserved
  <1> SUFFICES ASSUME PurgeInv PROVE RemovesOnlyThePlan /\ DatabaseLast /\ CompletePurgeLeavesOnlyPreserved
    OBVIOUS
  <1>1. ASSUME NEW p \in Paths, removedBy(p)
        PROVE  purge.todo \in SUBSET Known /\ purge.todo # {} /\ PurgeOK(purge) /\ p = artifactOrder(purge.todo)
    <2>1. purge.todo \in SUBSET Known /\ purge.todo # {} /\ PurgeOK(purge)
      BY <1>1 DEF removedBy, RemoveArtifact, PurgeInv, PurgeTypeOK
    <2>2. PICK q : q = artifactOrder(purge.todo) /\ (entry' = [entry EXCEPT ![q] = 0] \/ UNCHANGED entry)
      BY <1>1 DEF removedBy, RemoveArtifact
    <2>3. p = q
      BY <1>1, <2>2 DEF removedBy, PurgeInv
    <2> QED BY <2>1, <2>2, <2>3
  <1>2. RemovesOnlyThePlan
    BY <1>1, NextArtifact DEF RemovesOnlyThePlan, PurgeOK
  <1>3. DatabaseLast
    <2>1. "project.sqlite" \in Paths
      BY DEF Paths, Known, Range, removalOrder
    <2> QED BY <1>1, <2>1, NextArtifact DEF DatabaseLast
  <1>4. CompletePurgeLeavesOnlyPreserved
    BY DEF CompletePurgeLeavesOnlyPreserved, RemoveHome, PurgeInv, PurgeOK
  <1> QED BY <1>2, <1>3, <1>4

-----------------------------------------------------------------------------
(* DistributionUpdate *)

OptionalRevisions == Revisions \cup {NoRevision}
Drafts == [current : OptionalRevisions, target : OptionalRevisions, selection : 0 .. 2]
\* The steps once the target's object is at hand, once the plan is approved,
\* and once it is known to be a fast-forward.
mergeSteps == {"merge", "merged", "install", "link"}
applySteps == {"fetch", "verify", "revalidate"} \cup mergeSteps
heldSteps == {"recheck", "planned"} \cup applySteps
Invocations ==
    [op : {"none", "plan", "apply"}, step : {"none", "inspect", "advertised", "acquire", "cleanup"} \cup heldSteps,
     draft : Drafts, merged : BOOLEAN, fetched : OptionalRevisions, failed : BOOLEAN]
UpdateResults == [status : Statuses, from : OptionalRevisions, to : OptionalRevisions, merged : BOOLEAN]

UpdateShape ==
    /\ upstream \in UpstreamTips
    /\ head \in objects /\ objects \subseteq Revisions /\ dependencies \in objects
    /\ dirty \in BOOLEAN /\ hostUp \in BOOLEAN /\ planningRef \in BOOLEAN
    /\ selection \in 1 .. 2
    /\ upd \in Invocations /\ result \in UpdateResults
    /\ approval \in Drafts /\ approval.target \in objects \cup {NoRevision}

AtOrAfter(r, target) == r = target \/ target \in Ancestors[r]

\* What an invocation has established by the step it is at, of the commits at
\* hand, the plan, the checkout and the dependencies.
InvocationOK(u, present, agreed, revision, installed) ==
    /\ u.op = "none" <=> u.step = "none"
    /\ u.step \in heldSteps \/ (u.step = "cleanup" /\ ~u.failed) => u.draft.target \in present
    /\ u.step \in applySteps => u.draft = agreed
    /\ u.step \in mergeSteps => u.draft.current \in Ancestors[u.draft.target]
    /\ u.merged => u.step \in mergeSteps \ {"merge"} /\ AtOrAfter(revision, u.draft.target)
    /\ u.step \in {"install", "link"} => u.merged
    /\ u.step = "link" => AtOrAfter(installed, u.draft.target)

\* The planning ref is there while its commit is being checked; later only
\* with a word about it.
RefAccounted ==
    planningRef => upd.step = "cleanup" \/ (upd.op = "none" /\ result.status \in {"ref left", "died"})

\* The inductive invariant.
UpdateInv ==
    /\ UpdateShape /\ InvocationOK(upd, objects, approval, head, dependencies)
    /\ RefAccounted /\ FailedMeansUntouched


\* Where a commit may be seen to be.
LEMMA CommitsAreRevisions ==
    /\ Revisions \subseteq OptionalRevisions /\ NoRevision \in OptionalRevisions /\ NoRevision \notin Revisions
    /\ UpstreamTips \subseteq Revisions /\ FirstRevision \in Revisions /\ LocalCommit \in Revisions
    /\ \A r \in Revisions : Ancestors[r] \subseteq Revisions
  BY UpdateBounds DEF OptionalRevisions

LEMMA NoUpdateIsIdle ==
    /\ NoUpdate \in Invocations /\ NoUpdate.op = "none" /\ NoUpdate.step = "none" /\ ~NoUpdate.merged
    /\ NoDraft \in Drafts /\ NoDraft.target = NoRevision /\ NoResult \in UpdateResults
    /\ NoResult.status = "none" /\ ~NoResult.merged
  BY UpdateBounds DEF NoUpdate, NoDraft, NoResult, Invocations, Drafts, UpdateResults, OptionalRevisions, Statuses

LEMMA IdleIsOK == ASSUME NEW S, NEW d, NEW r, NEW i PROVE InvocationOK(NoUpdate, S, d, r, i)
  BY NoUpdateIsIdle DEF InvocationOK, heldSteps, applySteps, mergeSteps

LEMMA UpdateInitInv == UpdateInit => UpdateInv
  <1> SUFFICES ASSUME UpdateInit PROVE UpdateInv
    OBVIOUS
  <1>1. UpdateShape
    <2>1. upstream \in UpstreamTips /\ dirty = FALSE /\ hostUp = FALSE /\ planningRef = FALSE /\ selection = 1
      BY DEF UpdateInit
    <2>2. head \in objects /\ objects \subseteq Revisions /\ dependencies \in objects
      BY CommitsAreRevisions DEF UpdateInit
    <2>3. upd \in Invocations /\ result \in UpdateResults /\ approval \in Drafts /\ approval.target = NoRevision
      BY NoUpdateIsIdle DEF UpdateInit
    <2>4. dirty \in BOOLEAN /\ hostUp \in BOOLEAN /\ planningRef \in BOOLEAN
      BY <2>1, Zenon
    <2>6. selection \in 1 .. 2
      BY <2>1
    <2>5. approval.target \in objects \cup {NoRevision}
      BY <2>3
    <2> QED BY <2>1, <2>2, <2>3, <2>4, <2>5, <2>6, Zenon DEF UpdateShape
  <1> QED BY <1>1, NoUpdateIsIdle, IdleIsOK DEF UpdateInit, UpdateInv, RefAccounted, FailedMeansUntouched

\* History is a strict order.
LEMMA AncestryIsOrder ==
    /\ \A r \in Revisions : r \notin Ancestors[r]
    /\ \A r \in Revisions : \A s \in Ancestors[r] : \A t \in Ancestors[s] : t \in Ancestors[r]
  BY UpdateBounds

\* An invocation that ends with a word on what it did.
LEMMA UpdateEnds ==
    ASSUME UpdateInv, NEW r \in UpdateResults, finishUpdate(r), r.status = "failed" => ~r.merged,
           planningRef' \in BOOLEAN, planningRef' => r.status \in {"ref left", "died"},
           UNCHANGED <<upstream, checkout, objects, hostUp>>, dependencies' \in objects,
           approval' \in Drafts, approval'.target \in objects \cup {NoRevision}
    PROVE  UpdateInv'
  <1>1. upd' = NoUpdate /\ result' = r
    BY DEF finishUpdate
  <1>2. UpdateShape'
    BY <1>1, NoUpdateIsIdle DEF UpdateInv, UpdateShape, checkout
  <1>3. InvocationOK(NoUpdate, objects', approval', head', dependencies')
    BY IdleIsOK
  <1> QED BY <1>1, <1>2, <1>3, NoUpdateIsIdle DEF UpdateInv, RefAccounted, FailedMeansUntouched

\* A refusal, when the planning ref is gone or its commit was just being checked.
LEMMA UpdateRefused ==
    ASSUME UpdateInv, refuse, planningRef' = FALSE, UNCHANGED <<upstream, checkout, objects, hostUp, dependencies, approval>>
    PROVE  UpdateInv'
  <1> DEFINE r == [NoResult EXCEPT !.status = "refused"]
  <1>1. r \in UpdateResults /\ r.status = "refused"
    BY NoUpdateIsIdle DEF UpdateResults, Statuses
  <1>2. finishUpdate(r)
    BY DEF refuse
  <1> HIDE DEF r
  <1> QED BY <1>1, <1>2, UpdateEnds DEF UpdateInv, UpdateShape

\* The planning ref is of no concern to the other steps.
LEMMA RefGone == UpdateInv /\ upd.op # "none" /\ upd.step # "cleanup" => planningRef = FALSE
  BY DEF UpdateInv, UpdateShape, RefAccounted

\* An invocation at a step has an operation.
LEMMA AtStep == UpdateInv /\ upd.step # "none" => upd.op # "none"
  BY DEF UpdateInv, InvocationOK

\* An invocation goes on, and nothing but its own record changes.
LEMMA UpdateGoesOn ==
    ASSUME UpdateInv, NEW u \in Invocations, upd' = u, u.op # "none",
           InvocationOK(u, objects, approval, head, dependencies), planningRef' = FALSE, result' = result,
           UNCHANGED <<upstream, checkout, objects, hostUp, dependencies, approval>>
    PROVE  UpdateInv'
  BY DEF UpdateInv, UpdateShape, RefAccounted, FailedMeansUntouched, checkout

LEMMA BecomeIs ==
    ASSUME UpdateInv, NEW step \in {"recheck", "planned"} \cup applySteps, become(step)
    PROVE  /\ upd' \in Invocations /\ upd'.step = step /\ upd'.op = upd.op /\ upd'.draft = upd.draft
           /\ upd'.merged = upd.merged /\ upd'.fetched = upd.fetched /\ upd'.failed = upd.failed
  BY DEF UpdateInv, UpdateShape, Invocations, become, heldSteps

LEMMA BeginUpdateStep == ASSUME UpdateInv, NEW op \in {"plan", "apply"}, BeginUpdate(op) PROVE UpdateInv'
  <1>1. planningRef' = FALSE /\ UNCHANGED <<upstream, checkout, objects, hostUp, dependencies, approval>>
    BY DEF BeginUpdate
  <1>2. CASE refuse
    BY <1>1, <1>2, UpdateRefused
  <1>3. CASE upd' = [NoUpdate EXCEPT !.op = op, !.step = "inspect"] /\ result' = NoResult
    <2> DEFINE u == [NoUpdate EXCEPT !.op = op, !.step = "inspect"]
    <2>1. u \in Invocations /\ u.op = op /\ u.step = "inspect" /\ ~u.merged
      BY NoUpdateIsIdle DEF Invocations
    <2>2. upd' = u
      BY <1>3
    <2> HIDE DEF u
    <2>3. InvocationOK(u, objects, approval, head, dependencies)
      BY <2>1 DEF InvocationOK, heldSteps, applySteps, mergeSteps
    <2> QED BY <1>1, <1>3, <2>1, <2>2, <2>3, NoUpdateIsIdle
            DEF UpdateInv, UpdateShape, RefAccounted, FailedMeansUntouched, checkout
  <1> QED BY <1>2, <1>3 DEF BeginUpdate

LEMMA InspectCheckoutStep == ASSUME UpdateInv, InspectCheckout PROVE UpdateInv'
  <1>1. planningRef' = FALSE /\ upd.step = "inspect" /\ upd.op # "none"
    BY RefGone, AtStep DEF InspectCheckout, stepIs
  <1>2. UNCHANGED <<upstream, checkout, objects, hostUp, dependencies, approval>>
    BY DEF InspectCheckout
  <1>3. CASE refuse
    BY <1>1, <1>2, <1>3, UpdateRefused
  <1>4. CASE result' = result /\ upd' = [upd EXCEPT !.step = "advertised",
                     !.draft = [current |-> head, target |-> NoRevision, selection |-> selection]]
    <2>1. [current |-> head, target |-> NoRevision, selection |-> selection] \in Drafts
      BY CommitsAreRevisions DEF UpdateInv, UpdateShape, Drafts
    <2>2. upd' \in Invocations /\ upd'.op = upd.op /\ upd'.step = "advertised" /\ upd'.merged = upd.merged
      BY <1>4, <2>1 DEF UpdateInv, UpdateShape, Invocations
    <2>3. InvocationOK(upd', objects, approval, head, dependencies)
      BY <1>1, <2>2 DEF UpdateInv, InvocationOK, heldSteps, applySteps, mergeSteps
    <2> QED BY <1>1, <1>2, <1>4, <2>2, <2>3, UpdateGoesOn
  <1> QED BY <1>3, <1>4 DEF InspectCheckout

LEMMA LsRemoteStep == ASSUME UpdateInv, lsRemote PROVE UpdateInv'
  <1>1. planningRef' = FALSE /\ upd.step = "advertised" /\ upd.op # "none"
    BY RefGone, AtStep DEF lsRemote, stepIs
  <1>2. UNCHANGED <<upstream, checkout, objects, hostUp, dependencies, approval>>
    BY DEF lsRemote
  <1>3. CASE refuse
    BY <1>1, <1>2, <1>3, UpdateRefused
  <1>4. CASE result' = result /\ upd' = [upd EXCEPT !.step = IF upstream \in objects THEN "recheck" ELSE "acquire",
                                                    !.draft.target = upstream]
    <2>0. upstream \in OptionalRevisions /\ upd \in Invocations
      BY CommitsAreRevisions DEF UpdateInv, UpdateShape
    <2>1. [upd.draft EXCEPT !.target = upstream] \in Drafts /\ [upd.draft EXCEPT !.target = upstream].target = upstream
      BY <2>0 DEF Drafts, Invocations
    <2>2. /\ upd' \in Invocations /\ upd'.op = upd.op /\ upd'.merged = upd.merged /\ upd'.draft.target = upstream
          /\ (upd'.step = "recheck" /\ upstream \in objects) \/ upd'.step = "acquire"
      BY <1>4, <2>0, <2>1 DEF Invocations, heldSteps
    <2>3. InvocationOK(upd', objects, approval, head, dependencies)
      BY <1>1, <2>2 DEF UpdateInv, InvocationOK, heldSteps, applySteps, mergeSteps
    <2> QED BY <1>1, <1>2, <1>4, <2>2, <2>3, UpdateGoesOn
  <1> QED BY <1>3, <1>4 DEF lsRemote

LEMMA AcquireStep == ASSUME UpdateInv, acquireTargetObject PROVE UpdateInv'
  <1>1. /\ upd.step = "acquire" /\ upd.op # "none" /\ ~upd.merged
        /\ UNCHANGED <<upstream, checkout, dependencies, hostUp, approval, result>>
    BY AtStep DEF acquireTargetObject, stepIs, UpdateInv, InvocationOK, mergeSteps
  <1>2. /\ objects \subseteq objects' /\ objects' \subseteq Revisions /\ planningRef' \in BOOLEAN
        /\ upd' \in Invocations /\ upd'.op = upd.op /\ upd'.step = "cleanup" /\ upd'.merged = upd.merged
        /\ upd'.draft = upd.draft
        /\ upd'.failed \/ upd.draft.target \in objects'
    <2>1. CASE objects' = objects \cup {upstream} /\ planningRef' = TRUE
               /\ \E verified \in BOOLEAN :
                    upd' = [upd EXCEPT !.step = "cleanup", !.failed = ~verified \/ upstream # upd.draft.target]
      <3>1. PICK verified \in BOOLEAN :
                   upd' = [upd EXCEPT !.step = "cleanup", !.failed = ~verified \/ upstream # upd.draft.target]
        BY <2>1
      <3>2. PICK failed \in BOOLEAN : failed = (~verified \/ upstream # upd.draft.target)
        OBVIOUS
      <3>3. upd' = [upd EXCEPT !.step = "cleanup", !.failed = failed]
        BY <3>1, <3>2
      <3>4. /\ upd' \in Invocations /\ upd'.op = upd.op /\ upd'.step = "cleanup" /\ upd'.merged = upd.merged
            /\ upd'.draft = upd.draft /\ upd'.failed = failed
        BY <3>3 DEF UpdateInv, UpdateShape, Invocations
      <3> QED BY <2>1, <3>2, <3>4, CommitsAreRevisions DEF UpdateInv, UpdateShape
    <2>2. CASE UNCHANGED <<objects, planningRef>> /\ upd' = [upd EXCEPT !.step = "cleanup", !.failed = TRUE]
      BY <2>2 DEF UpdateInv, UpdateShape, Invocations
    <2> QED BY <2>1, <2>2 DEF acquireTargetObject
  <1>3. InvocationOK(upd', objects', approval, head, dependencies)
    BY <1>1, <1>2 DEF UpdateInv, InvocationOK, heldSteps, applySteps, mergeSteps
  <1> QED BY <1>1, <1>2, <1>3 DEF UpdateInv, UpdateShape, RefAccounted, FailedMeansUntouched, checkout

LEMMA CleanupStep == ASSUME UpdateInv, removePlanningRef PROVE UpdateInv'
  <1>1. /\ upd.step = "cleanup" /\ upd.op # "none" /\ ~upd.merged
        /\ UNCHANGED <<upstream, checkout, objects, dependencies, hostUp, approval>>
    BY AtStep DEF removePlanningRef, stepIs, UpdateInv, InvocationOK, mergeSteps
  <1>2. CASE planningRef' = FALSE /\ upd.failed /\ refuse
    BY <1>1, <1>2, UpdateRefused
  <1>3. CASE planningRef' = FALSE /\ ~upd.failed /\ become("recheck") /\ result' = result
    <2>1. /\ upd' \in Invocations /\ upd'.step = "recheck" /\ upd'.op = upd.op /\ upd'.draft = upd.draft
          /\ upd'.merged = upd.merged
      BY <1>3, BecomeIs
    <2>2. InvocationOK(upd', objects, approval, head, dependencies)
      BY <1>1, <1>3, <2>1 DEF UpdateInv, InvocationOK, heldSteps, applySteps, mergeSteps
    <2> QED BY <1>1, <1>3, <2>1, <2>2, UpdateGoesOn
  <1>4. CASE planningRef' = planningRef /\ finishUpdate([NoResult EXCEPT !.status = "ref left"])
    <2> DEFINE r == [NoResult EXCEPT !.status = "ref left"]
    <2>1. r \in UpdateResults /\ r.status = "ref left"
      BY NoUpdateIsIdle DEF UpdateResults, Statuses
    <2>2. finishUpdate(r)
      BY <1>4
    <2> HIDE DEF r
    <2> QED BY <1>1, <1>4, <2>1, <2>2, UpdateEnds DEF UpdateInv, UpdateShape
  <1> QED BY <1>2, <1>3, <1>4 DEF removePlanningRef

LEMMA RecheckStep == ASSUME UpdateInv, RecheckPlan PROVE UpdateInv'
  <1>1. /\ upd.step = "recheck" /\ upd.op # "none" /\ planningRef' = FALSE
        /\ UNCHANGED <<upstream, checkout, objects, dependencies, hostUp, approval>>
    BY AtStep, RefGone DEF RecheckPlan, stepIs
  <1>2. CASE refuse
    BY <1>1, <1>2, UpdateRefused
  <1>3. CASE become("planned") /\ result' = result
    <2>1. /\ upd' \in Invocations /\ upd'.step = "planned" /\ upd'.op = upd.op /\ upd'.draft = upd.draft
          /\ upd'.merged = upd.merged
      BY <1>3, BecomeIs
    <2>2. InvocationOK(upd', objects, approval, head, dependencies)
      BY <1>1, <2>1 DEF UpdateInv, InvocationOK, heldSteps, applySteps, mergeSteps
    <2> QED BY <1>1, <1>3, <2>1, <2>2, UpdateGoesOn
  <1> QED BY <1>2, <1>3 DEF RecheckPlan

LEMMA ReturnPlanStep == ASSUME UpdateInv, ReturnPlan PROVE UpdateInv'
  <1>1. /\ upd.step = "planned" /\ upd.op # "none" /\ planningRef' = FALSE /\ approval' = upd.draft
        /\ UNCHANGED <<upstream, checkout, objects, dependencies, hostUp>>
        /\ finishUpdate([NoResult EXCEPT !.status = "plan"])
    BY AtStep, RefGone DEF ReturnPlan, stepIs
  <1>2. upd.draft \in Drafts /\ upd.draft.target \in objects
    BY <1>1 DEF UpdateInv, UpdateShape, Invocations, InvocationOK, heldSteps
  <1> DEFINE r == [NoResult EXCEPT !.status = "plan"]
  <1>3. r \in UpdateResults /\ r.status = "plan"
    BY NoUpdateIsIdle DEF UpdateResults, Statuses
  <1>4. finishUpdate(r)
    BY <1>1
  <1> HIDE DEF r
  <1> QED BY <1>1, <1>2, <1>3, <1>4, UpdateEnds DEF UpdateInv, UpdateShape

LEMMA ApprovalStep == ASSUME UpdateInv, CheckApproval PROVE UpdateInv'
  <1>1. /\ upd.step = "planned" /\ upd.op = "apply" /\ planningRef' = FALSE /\ ~upd.merged
        /\ UNCHANGED <<upstream, checkout, objects, dependencies, hostUp, approval>>
    BY RefGone DEF CheckApproval, stepIs, UpdateInv, InvocationOK, mergeSteps
  <1>2. CASE refuse
    BY <1>1, <1>2, UpdateRefused
  <1>3. CASE finishUpdate([status |-> "already_current", from |-> upd.draft.current,
                           to |-> upd.draft.current, merged |-> FALSE])
    <2> DEFINE r == [status |-> "already_current", from |-> upd.draft.current,
                     to |-> upd.draft.current, merged |-> FALSE]
    <2>1. r \in UpdateResults /\ r.status = "already_current"
      BY DEF UpdateInv, UpdateShape, Invocations, Drafts, UpdateResults, Statuses
    <2>2. finishUpdate(r)
      BY <1>3
    <2> HIDE DEF r
    <2> QED BY <1>1, <2>1, <2>2, UpdateEnds DEF UpdateInv, UpdateShape
  <1>4. CASE approved /\ become("fetch") /\ result' = result
    <2>1. /\ upd' \in Invocations /\ upd'.step = "fetch" /\ upd'.op = upd.op /\ upd'.draft = upd.draft
          /\ upd'.merged = upd.merged
      BY <1>4, BecomeIs DEF applySteps
    <2>2. InvocationOK(upd', objects, approval, head, dependencies)
      BY <1>1, <1>4, <2>1 DEF UpdateInv, InvocationOK, heldSteps, applySteps, mergeSteps, approved
    <2> QED BY <1>1, <1>4, <2>1, <2>2, UpdateGoesOn
  <1> QED BY <1>2, <1>3, <1>4 DEF CheckApproval

\* A step that fails before the fast-forward leaves the checkout as it was.
LEMMA FailsUntouched ==
    ASSUME UpdateInv, failure(FALSE), ~upd.merged, planningRef' = FALSE,
           UNCHANGED <<upstream, checkout, objects, dependencies, hostUp, approval>>
    PROVE  UpdateInv'
  <1>1. PICK to \in observedHead :
               finishUpdate([status |-> failureStatus(to, FALSE), from |-> upd.draft.current, to |-> to,
                             merged |-> upd.merged])
    BY DEF failure
  <1> DEFINE r == [status |-> failureStatus(to, FALSE), from |-> upd.draft.current, to |-> to, merged |-> upd.merged]
  <1>2. to \in OptionalRevisions /\ failureStatus(to, FALSE) \in Statuses
    BY CommitsAreRevisions DEF observedHead, failureStatus, Statuses, UpdateInv, UpdateShape
  <1>3. r \in UpdateResults /\ ~r.merged
    BY <1>2 DEF UpdateInv, UpdateShape, Invocations, Drafts, UpdateResults
  <1>4. finishUpdate(r)
    BY <1>1
  <1> HIDE DEF r
  <1> QED BY <1>3, <1>4, UpdateEnds DEF UpdateInv, UpdateShape

LEMMA FetchStep == ASSUME UpdateInv, Fetch PROVE UpdateInv'
  <1>1. /\ upd.step = "fetch" /\ upd.op # "none" /\ planningRef' = FALSE /\ ~upd.merged
        /\ UNCHANGED <<upstream, checkout, dependencies, hostUp, approval>>
    BY AtStep, RefGone DEF Fetch, stepIs, UpdateInv, InvocationOK, mergeSteps
  <1>2. CASE objects' = objects /\ failure(FALSE)
    BY <1>1, <1>2, FailsUntouched
  <1>3. CASE /\ objects' = objects \cup {upstream} /\ result' = result
             /\ upd' = [upd EXCEPT !.step = "verify", !.fetched = upstream]
    <2>1. upstream \in Revisions /\ upstream \in OptionalRevisions
      BY CommitsAreRevisions DEF UpdateInv, UpdateShape
    <2>2. /\ upd' \in Invocations /\ upd'.step = "verify" /\ upd'.op = upd.op /\ upd'.draft = upd.draft
          /\ upd'.merged = upd.merged
      BY <1>3, <2>1 DEF UpdateInv, UpdateShape, Invocations, heldSteps, applySteps
    <2>3. InvocationOK(upd', objects', approval, head, dependencies)
      BY <1>1, <1>3, <2>2 DEF UpdateInv, InvocationOK, heldSteps, applySteps, mergeSteps
    <2> QED BY <1>1, <1>3, <2>1, <2>2, <2>3 DEF UpdateInv, UpdateShape, RefAccounted, FailedMeansUntouched, checkout
  <1> QED BY <1>2, <1>3 DEF Fetch

LEMMA VerifyStep_Fetched == ASSUME UpdateInv, VerifyFetched PROVE UpdateInv'
  <1>1. /\ upd.step = "verify" /\ upd.op # "none" /\ planningRef' = FALSE /\ ~upd.merged
        /\ UNCHANGED <<upstream, checkout, objects, dependencies, hostUp, approval>>
    BY AtStep, RefGone DEF VerifyFetched, stepIs, UpdateInv, InvocationOK, mergeSteps
  <1>2. CASE failure(FALSE)
    BY <1>1, <1>2, FailsUntouched
  <1>3. CASE become("revalidate") /\ result' = result
    <2>1. /\ upd' \in Invocations /\ upd'.step = "revalidate" /\ upd'.op = upd.op /\ upd'.draft = upd.draft
          /\ upd'.merged = upd.merged
      BY <1>3, BecomeIs DEF applySteps
    <2>2. InvocationOK(upd', objects, approval, head, dependencies)
      BY <1>1, <2>1 DEF UpdateInv, InvocationOK, heldSteps, applySteps, mergeSteps
    <2> QED BY <1>1, <1>3, <2>1, <2>2, UpdateGoesOn
  <1> QED BY <1>2, <1>3 DEF VerifyFetched

LEMMA RevalidateStep == ASSUME UpdateInv, RevalidateCheckout PROVE UpdateInv'
  <1>1. /\ upd.step = "revalidate" /\ upd.op # "none" /\ planningRef' = FALSE /\ ~upd.merged
        /\ UNCHANGED <<upstream, checkout, objects, dependencies, hostUp, approval>>
    BY AtStep, RefGone DEF RevalidateCheckout, stepIs, UpdateInv, InvocationOK, mergeSteps
  <1>2. CASE failure(FALSE)
    BY <1>1, <1>2, FailsUntouched
  <1>3. CASE upd.draft.current \in Ancestors[upd.draft.target] /\ become("merge") /\ result' = result
    <2>1. /\ upd' \in Invocations /\ upd'.step = "merge" /\ upd'.op = upd.op /\ upd'.draft = upd.draft
          /\ upd'.merged = upd.merged
      BY <1>3, BecomeIs DEF applySteps, mergeSteps
    <2>2. InvocationOK(upd', objects, approval, head, dependencies)
      BY <1>1, <1>3, <2>1 DEF UpdateInv, InvocationOK, heldSteps, applySteps, mergeSteps
    <2> QED BY <1>1, <1>3, <2>1, <2>2, UpdateGoesOn
  <1> QED BY <1>2, <1>3 DEF RevalidateCheckout

LEMMA FastForwardStep == ASSUME UpdateInv, FastForward PROVE UpdateInv'
  <1>1. /\ upd.step = "merge" /\ upd.op # "none" /\ planningRef' = FALSE /\ ~upd.merged
        /\ UNCHANGED <<upstream, dirty, selection, objects, dependencies, hostUp, approval, result>>
    BY AtStep, RefGone DEF FastForward, stepIs, UpdateInv, InvocationOK, mergeSteps
  <1>2. /\ upd.draft.target \in objects /\ upd.draft = approval /\ upd.draft.current \in Ancestors[upd.draft.target]
    BY <1>1 DEF UpdateInv, InvocationOK, heldSteps, applySteps, mergeSteps
  <1>3. /\ upd' \in Invocations /\ upd'.step = "merged" /\ upd'.op = upd.op /\ upd'.draft = upd.draft
        /\ head' \in objects /\ (upd'.merged => head' = upd.draft.target)
    <2>1. CASE head' = upd.draft.target /\ upd' = [upd EXCEPT !.step = "merged", !.merged = TRUE]
      BY <1>2, <2>1 DEF UpdateInv, UpdateShape, Invocations, heldSteps, applySteps, mergeSteps
    <2>2. CASE head' = head /\ upd' = [upd EXCEPT !.step = "merged"]
      BY <1>1, <2>2 DEF UpdateInv, UpdateShape, Invocations, heldSteps, applySteps, mergeSteps
    <2> QED BY <2>1, <2>2 DEF FastForward
  <1>4. InvocationOK(upd', objects, approval, head', dependencies)
    BY <1>1, <1>2, <1>3 DEF InvocationOK, heldSteps, applySteps, mergeSteps, AtOrAfter
  <1> QED BY <1>1, <1>3, <1>4 DEF UpdateInv, UpdateShape, RefAccounted, FailedMeansUntouched

\* Once merged, the checkout is past what it was planned from.
LEMMA MergedIsPast ==
    ASSUME UpdateInv, upd.merged
    PROVE  head # upd.draft.current /\ NoRevision # upd.draft.current
  <1>1. /\ upd.draft.target \in Revisions /\ upd.draft.current \in Ancestors[upd.draft.target]
        /\ head = upd.draft.target \/ upd.draft.target \in Ancestors[head]
        /\ head \in Revisions
    BY DEF UpdateInv, UpdateShape, InvocationOK, AtOrAfter, heldSteps, applySteps, mergeSteps
  <1> QED BY <1>1, CommitsAreRevisions, AncestryIsOrder

LEMMA MergedStep == ASSUME UpdateInv, CheckMerged PROVE UpdateInv'
  <1>1. /\ upd.step = "merged" /\ upd.op # "none" /\ planningRef' = FALSE
        /\ UNCHANGED <<upstream, checkout, objects, dependencies, hostUp, approval>>
    BY AtStep, RefGone DEF CheckMerged, stepIs
  <1>2. PICK exitOk \in BOOLEAN, after \in observedHead :
               /\ exitOk => upd.merged
               /\ IF exitOk /\ after = upd.draft.target
                  THEN become("install") /\ UNCHANGED result
                  ELSE finishUpdate([status |-> failureStatus(after, FALSE), from |-> upd.draft.current,
                                     to |-> after, merged |-> upd.merged])
    BY DEF CheckMerged
  <1>3. CASE upd.merged /\ become("install") /\ result' = result
    <2>1. /\ upd' \in Invocations /\ upd'.step = "install" /\ upd'.op = upd.op /\ upd'.draft = upd.draft
          /\ upd'.merged = upd.merged
      BY <1>3, BecomeIs DEF applySteps, mergeSteps
    <2>2. InvocationOK(upd', objects, approval, head, dependencies)
      BY <1>1, <1>3, <2>1 DEF UpdateInv, InvocationOK, heldSteps, applySteps, mergeSteps
    <2> QED BY <1>1, <1>3, <2>1, <2>2, UpdateGoesOn
  <1>4. CASE finishUpdate([status |-> failureStatus(after, FALSE), from |-> upd.draft.current,
                           to |-> after, merged |-> upd.merged])
    <2> DEFINE r == [status |-> failureStatus(after, FALSE), from |-> upd.draft.current,
                     to |-> after, merged |-> upd.merged]
    <2>1. after \in OptionalRevisions /\ failureStatus(after, FALSE) \in Statuses
      BY CommitsAreRevisions DEF observedHead, failureStatus, Statuses, UpdateInv, UpdateShape
    <2>2. failureStatus(after, FALSE) = "failed" => ~upd.merged
      BY MergedIsPast DEF observedHead, failureStatus
    <2>3. r \in UpdateResults /\ (r.status = "failed" => ~r.merged)
      BY <2>1, <2>2 DEF UpdateInv, UpdateShape, Invocations, Drafts, UpdateResults
    <2>4. finishUpdate(r)
      BY <1>4
    <2> HIDE DEF r
    <2> QED BY <1>1, <2>3, <2>4, UpdateEnds DEF UpdateInv, UpdateShape
  <1> QED BY <1>2, <1>3, <1>4

LEMMA InstallStep == ASSUME UpdateInv, InstallDependencies PROVE UpdateInv'
  <1>1. /\ upd.step = "install" /\ upd.op # "none" /\ planningRef' = FALSE /\ upd.merged
        /\ UNCHANGED <<upstream, checkout, objects, hostUp, approval>>
    BY AtStep, RefGone DEF InstallDependencies, stepIs, UpdateInv, InvocationOK
  <1>2. /\ upd.draft.target \in objects /\ upd.draft = approval /\ upd.draft.current \in Ancestors[upd.draft.target]
        /\ AtOrAfter(head, upd.draft.target)
    BY <1>1 DEF UpdateInv, InvocationOK, heldSteps, applySteps, mergeSteps
  <1>3. CASE dependencies' = head /\ become("link") /\ result' = result
    <2>1. /\ upd' \in Invocations /\ upd'.step = "link" /\ upd'.op = upd.op /\ upd'.draft = upd.draft
          /\ upd'.merged = upd.merged
      BY <1>3, BecomeIs DEF applySteps, mergeSteps
    <2>2. InvocationOK(upd', objects, approval, head, dependencies')
      BY <1>1, <1>2, <1>3, <2>1 DEF InvocationOK, heldSteps, applySteps, mergeSteps
    <2> QED BY <1>1, <1>3, <2>1, <2>2 DEF UpdateInv, UpdateShape, RefAccounted, FailedMeansUntouched, checkout
  <1>4. CASE /\ dependencies' \in {dependencies, head}
             /\ finishUpdate([status |-> failureStatus(upd.draft.target, TRUE), from |-> upd.draft.current,
                              to |-> upd.draft.target, merged |-> TRUE])
    <2> DEFINE r == [status |-> failureStatus(upd.draft.target, TRUE), from |-> upd.draft.current,
                     to |-> upd.draft.target, merged |-> TRUE]
    <2>1. r \in UpdateResults /\ r.status = "partial"
      BY DEF failureStatus, Statuses, UpdateInv, UpdateShape, Invocations, Drafts, UpdateResults
    <2>2. finishUpdate(r)
      BY <1>4
    <2> HIDE DEF r
    <2> QED BY <1>1, <1>4, <2>1, <2>2, UpdateEnds DEF UpdateInv, UpdateShape
  <1> QED BY <1>3, <1>4 DEF InstallDependencies

LEMMA RegisterStep == ASSUME UpdateInv, RegisterLink PROVE UpdateInv'
  <1>1. /\ upd.step = "link" /\ upd.op # "none" /\ planningRef' = FALSE
        /\ UNCHANGED <<upstream, checkout, objects, dependencies, hostUp, approval>>
    BY AtStep, RefGone DEF RegisterLink, stepIs
  <1>2. PICK registered \in BOOLEAN :
               finishUpdate([status |-> IF registered THEN "updated" ELSE failureStatus(upd.draft.target, TRUE),
                             from |-> upd.draft.current, to |-> upd.draft.target, merged |-> TRUE])
    BY DEF RegisterLink
  <1> DEFINE r == [status |-> IF registered THEN "updated" ELSE failureStatus(upd.draft.target, TRUE),
                   from |-> upd.draft.current, to |-> upd.draft.target, merged |-> TRUE]
  <1>3. r \in UpdateResults /\ r.status \in {"updated", "partial"}
    BY DEF failureStatus, Statuses, UpdateInv, UpdateShape, Invocations, Drafts, UpdateResults
  <1>4. finishUpdate(r)
    BY <1>2
  <1> HIDE DEF r
  <1> QED BY <1>1, <1>3, <1>4, UpdateEnds DEF UpdateInv, UpdateShape

\* What happens around an update.
LEMMA AroundStep ==
    ASSUME UpdateInv, UpstreamMoves \/ UserCommits \/ UserEdits \/ UserSelects \/ HostToggles \/ UserRepairs
    PROVE  UpdateInv'
  <1>1. CASE UpstreamMoves
    BY <1>1 DEF UpstreamMoves, checkout, UpdateInv, UpdateShape, RefAccounted, FailedMeansUntouched
  <1>2. CASE UserCommits
    <2>1. /\ head = FirstRevision /\ head' = LocalCommit /\ objects' = objects \cup {LocalCommit}
          /\ UNCHANGED <<upstream, dirty, selection, planningRef, dependencies, hostUp, upd, approval, result>>
      BY <1>2 DEF UserCommits
    <2>2. upd.merged => AtOrAfter(LocalCommit, upd.draft.target)
      <3>1. FirstRevision \in Ancestors[LocalCommit]
        BY UpdateBounds
      <3>2. upd.merged => AtOrAfter(FirstRevision, upd.draft.target)
        BY <2>1 DEF UpdateInv, InvocationOK
      <3> QED BY <3>1, <3>2, CommitsAreRevisions, AncestryIsOrder DEF AtOrAfter
    <2>3. InvocationOK(upd, objects', approval, LocalCommit, dependencies)
      BY <2>1, <2>2 DEF UpdateInv, InvocationOK
    <2>4. UpdateShape'
      BY <2>1, CommitsAreRevisions DEF UpdateInv, UpdateShape
    <2> QED BY <2>1, <2>3, <2>4 DEF UpdateInv, RefAccounted, FailedMeansUntouched
  <1>3. CASE UserEdits
    <2>1. dirty' \in BOOLEAN
      BY <1>3 DEF UserEdits, UpdateInv, UpdateShape
    <2> QED BY <1>3, <2>1 DEF UserEdits, UpdateInv, UpdateShape, RefAccounted, FailedMeansUntouched
  <1>4. CASE UserSelects
    <2>1. selection' \in 1 .. 2
      BY <1>4 DEF UserSelects, UpdateInv, UpdateShape
    <2> QED BY <1>4, <2>1 DEF UserSelects, UpdateInv, UpdateShape, RefAccounted, FailedMeansUntouched
  <1>5. CASE HostToggles
    <2>1. hostUp' \in BOOLEAN
      BY <1>5 DEF HostToggles, UpdateInv, UpdateShape
    <2> QED BY <1>5, <2>1 DEF HostToggles, checkout, UpdateInv, UpdateShape, RefAccounted, FailedMeansUntouched
  <1>6. CASE UserRepairs
    <2>1. AtOrAfter(head, upd.draft.target) \/ ~upd.merged
      BY DEF UpdateInv, InvocationOK
    <2>2. InvocationOK(upd, objects, approval, head, head)
      BY <2>1 DEF UpdateInv, InvocationOK
    <2> QED BY <1>6, <2>2 DEF UserRepairs, checkout, UpdateInv, UpdateShape, RefAccounted, FailedMeansUntouched
  <1> QED BY <1>1, <1>2, <1>3, <1>4, <1>5, <1>6

LEMMA DiesStep == ASSUME UpdateInv, UpdateDies PROVE UpdateInv'
  <1>1. UNCHANGED <<upstream, checkout, objects, planningRef, dependencies, hostUp, approval>>
    BY DEF UpdateDies
  <1> DEFINE r == [NoResult EXCEPT !.status = "died"]
  <1>2. r \in UpdateResults /\ r.status = "died"
    BY NoUpdateIsIdle DEF UpdateResults, Statuses
  <1>3. finishUpdate(r)
    BY DEF UpdateDies
  <1> HIDE DEF r
  <1> QED BY <1>1, <1>2, <1>3, UpdateEnds DEF UpdateInv, UpdateShape

LEMMA UpdateStep == UpdateInv /\ [UpdateNext]_updateVars => UpdateInv'
  <1> SUFFICES ASSUME UpdateInv, [UpdateNext]_updateVars PROVE UpdateInv'
    OBVIOUS
  <1>1. CASE UpdateNext
    BY <1>1, BeginUpdateStep, InspectCheckoutStep, LsRemoteStep, AcquireStep, CleanupStep, RecheckStep,
       ReturnPlanStep, ApprovalStep, FetchStep, VerifyStep_Fetched, RevalidateStep, FastForwardStep, MergedStep,
       InstallStep, RegisterStep, AroundStep, DiesStep DEF UpdateNext
  <1>2. CASE UNCHANGED updateVars
    BY <1>2 DEF updateVars, checkout, UpdateInv, UpdateShape, InvocationOK, RefAccounted, FailedMeansUntouched
  <1> QED BY <1>1, <1>2

LEMMA UpdateImplies == UpdateInv => UpdateSafety
  <1> SUFFICES ASSUME UpdateInv PROVE UpdateSafety
    OBVIOUS
  <1>1. UpdateTypeOK
    BY DEF UpdateInv, UpdateShape, UpdateTypeOK, UpdateResults
  <1>2. NoPlanningRefLeft
    BY DEF UpdateInv, RefAccounted, NoPlanningRefLeft, InvocationOK
  <1> QED BY <1>1, <1>2 DEF UpdateInv, UpdateSafety

\* Only the step that registers the link says "updated".
LEMMA OnlyRegisteredIsUpdated ==
    ASSUME [UpdateNext]_updateVars, result' # result, result'.status = "updated"
    PROVE  RegisterLink
  <1>1. ~refuse
    BY DEF refuse, finishUpdate, NoResult
  <1>2. ~failure(FALSE)
    BY DEF failure, finishUpdate, failureStatus
  <1>3. ~(\E op \in {"plan", "apply"} : BeginUpdate(op))
    BY <1>1 DEF BeginUpdate, NoResult
  <1>4. ~InspectCheckout /\ ~lsRemote /\ ~RecheckPlan
    BY <1>1 DEF InspectCheckout, lsRemote, RecheckPlan
  <1>5. ~acquireTargetObject /\ ~FastForward
    BY DEF acquireTargetObject, FastForward
  <1>6. ~removePlanningRef /\ ~ReturnPlan /\ ~UpdateDies
    BY <1>1 DEF removePlanningRef, ReturnPlan, UpdateDies, finishUpdate, NoResult
  <1>7. ~CheckApproval
    BY <1>1 DEF CheckApproval, finishUpdate
  <1>8. ~Fetch /\ ~VerifyFetched /\ ~RevalidateCheckout
    BY <1>2 DEF Fetch, VerifyFetched, RevalidateCheckout
  <1>9. ~CheckMerged
    BY DEF CheckMerged, finishUpdate, failureStatus
  <1>10. ~InstallDependencies
    BY DEF InstallDependencies, finishUpdate, failureStatus
  <1>11. ~UpstreamMoves /\ ~UserCommits /\ ~UserEdits /\ ~UserSelects /\ ~HostToggles /\ ~UserRepairs
    BY DEF UpstreamMoves, UserCommits, UserEdits, UserSelects, HostToggles, UserRepairs
  <1>12. UpdateNext
    BY DEF updateVars
  <1> QED BY <1>3, <1>4, <1>5, <1>6, <1>7, <1>8, <1>9, <1>10, <1>11, <1>12 DEF UpdateNext

\* The checkout moves only to what was approved, and an update is complete when it says so.
LEMMA UpdateMovesForward ==
    ASSUME UpdateInv, UpdateInv', [UpdateNext]_updateVars
    PROVE  OnlyApprovedFastForward /\ UpdatedIsComplete
  <1>1. OnlyApprovedFastForward
    <2> SUFFICES ASSUME FastForward, head' # head PROVE head' = approval.target /\ head \in Ancestors[head'] /\ ~dirty
      BY DEF OnlyApprovedFastForward
    <2>1. upd.step = "merge" /\ mergeMoves(upd.draft.target) /\ head' = upd.draft.target
      BY DEF FastForward, stepIs
    <2>2. upd.draft = approval
      BY <2>1 DEF UpdateInv, InvocationOK, applySteps, mergeSteps
    <2> QED BY <2>1, <2>2 DEF mergeMoves
  <1>2. UpdatedIsComplete
    <2> SUFFICES ASSUME result' # result, result'.status = "updated"
                 PROVE  /\ result'.merged
                        /\ dependencies = approval.target \/ approval.target \in Ancestors[dependencies]
      BY DEF UpdatedIsComplete
    <2>1. RegisterLink
      BY OnlyRegisteredIsUpdated
    <2>2. upd.step = "link" /\ result'.merged
      BY <2>1 DEF RegisterLink, stepIs, finishUpdate
    <2>3. upd.draft = approval /\ AtOrAfter(dependencies, upd.draft.target)
      BY <2>2 DEF UpdateInv, InvocationOK, applySteps, mergeSteps
    <2> QED BY <2>2, <2>3 DEF AtOrAfter
  <1> QED BY <1>1, <1>2

-----------------------------------------------------------------------------
(* OfficeServices *)

\* The services a loop of a command has yet to visit.
ahead(todo) == {todo[i] : i \in DOMAIN todo}

TodoLists == {<<"runtime", "dashboard">>, <<"dashboard">>, <<"dashboard", "runtime">>, <<"runtime">>}
installSteps == {"write", "reload", "enable", "converge", "status"}
uninstallSteps == {"remove", "disable", "inspect", "settle"}
Findings == {"yes", "no", "unknown"}
StatusEntries ==
    [service : Services, definition : {"missing", "unmanaged_collision", "managed_current", "managed_outdated"},
     registered : Findings, enabled : Findings,
     state : {"running", "unknown", "installed_inactive", "failed", "not_installed"}]
Commands ==
    [op : {"none", "install", "status", "uninstall"}, step : {"none"} \cup installSteps \cup uninstallSteps,
     todo : TodoLists \cup {<<>>}, unconverged : SUBSET Services, enableFailures : SUBSET Services,
     issues : BOOLEAN, removed : SUBSET Services, preserved : SUBSET Services,
     found : [Services -> Definitions], entries : SUBSET StatusEntries, told : BOOLEAN]
Verdicts ==
    [outcome : {"none", "refused", "error", "installed", "partial", "healthy", "unhealthy", "uninstalled", "failed"},
     before : [Services -> Definitions]]

MachineShape ==
    /\ manager \in {"systemd", "launchd"} /\ planned \in 1 .. MaxPlan
    /\ defn \in [Services -> Definitions] /\ loaded \in [Services -> Definitions]
    /\ proc \in [Services -> Definitions] /\ enabled \in [Services -> BOOLEAN]
    /\ leaving \subseteq {s \in Services : loaded[s] # Nothing}

ServicesShape == MachineShape /\ svc \in Commands /\ verdict \in Verdicts

\* A command tells its verdict when it ends, and its step is one of its own.
StepsOfCommands ==
    /\ svc.op = "none" => svc = Idle
    /\ svc.op # "none" => svc.todo \in TodoLists /\ verdict = NoVerdict
    /\ svc.op = "install" => svc.step \in installSteps
    /\ svc.op = "status" => svc.step = "status"
    /\ svc.op = "uninstall" => svc.step \in uninstallSteps
    /\ svc.step = "reload" => manager = "systemd"
    /\ svc.step # "status" => svc.entries = {}

\* Only launchd takes its time to unload a job, and it runs only what it has loaded.
ManagerKeeps ==
    /\ manager = "systemd" => leaving = {}
    /\ manager = "launchd" => \A s \in Services : loaded[s] = Nothing => proc[s] = Nothing

\* Neither the manager nor a process has anything but the plan.
Converged(s) == loaded[s] \in {Nothing, planned} /\ proc[s] \in {Nothing, planned}

\* What an install has established by the step it is at.
InstallOK(c) ==
    /\ \A s \in Services : defn[s] # Foreign /\ (c.step # "write" \/ s \notin ahead(c.todo) => defn[s] = planned)
    /\ manager = "systemd" /\ c.step \in {"enable", "converge"} =>
         \A s \in Services : loaded[s] \in {Nothing, planned}
    /\ \A s \in Services \ c.unconverged :
         c.step = "status" \/ (c.step = "converge" /\ s \notin ahead(c.todo)) => Converged(s)
    /\ \A e \in c.entries : officeServiceHealthy(e) => enabled[e.service] /\ Converged(e.service)

\* What an uninstall without an issue has established.
UninstallOK(c) ==
    ~c.issues /\ c.preserved = {} =>
      \A s \in Services : c.step = "settle" \/ s \notin ahead(c.todo) => defn[s] = Nothing

\* The inductive invariant.
ServicesInv ==
    /\ ServicesShape /\ StepsOfCommands /\ ManagerKeeps
    /\ svc.op = "install" => InstallOK(svc)
    /\ svc.op = "uninstall" => UninstallOK(svc)
    /\ InstalledMeansConverged /\ NothingOrphaned /\ RefusalWritesNothing /\ CleanUninstall

\* The visits of a loop: one service, then the next, then none.
LEMMA TodoIs ==
    /\ \A t \in TodoLists :
         /\ Head(t) \in ahead(t) /\ ahead(t) \subseteq Services /\ t \in Seq(Services) /\ t # <<>>
         /\ Tail(t) # <<>> => Tail(t) \in TodoLists /\ ahead(Tail(t)) = ahead(t) \ {Head(t)}
         /\ Tail(t) = <<>> => ahead(t) = {Head(t)}
    /\ officeServiceNames \in TodoLists /\ ahead(officeServiceNames) = Services
    /\ uninstallOrder \in TodoLists /\ ahead(uninstallOrder) = Services
  <1>1. \A a, b \in Services : a # b => ahead(<<a, b>>) = {a, b} /\ ahead(<<a>>) = {a}
    BY DEF ahead
  <1>2. \A a, b \in Services : /\ Head(<<a, b>>) = a /\ Tail(<<a, b>>) = <<b>> /\ Head(<<a>>) = a /\ Tail(<<a>>) = <<>>
                              /\ <<b>> # <<>> /\ <<a, b>> # <<>> /\ <<a, b>> \in Seq(Services) /\ <<a>> \in Seq(Services)
    OBVIOUS
  <1>3. \A t \in TodoLists : \E a, b \in Services : a # b /\ {a, b} = Services /\ (t = <<a, b>> \/ t = <<a>>)
    BY DEF TodoLists, Services
  <1>4. \A a \in Services : <<a>> \in TodoLists
    BY DEF TodoLists, Services
  <1>5. ASSUME NEW t \in TodoLists
        PROVE  /\ Head(t) \in ahead(t) /\ ahead(t) \subseteq Services /\ t \in Seq(Services) /\ t # <<>>
               /\ Tail(t) # <<>> => Tail(t) \in TodoLists /\ ahead(Tail(t)) = ahead(t) \ {Head(t)}
               /\ Tail(t) = <<>> => ahead(t) = {Head(t)}
    <2>1. PICK a, b \in Services : a # b /\ (t = <<a, b>> \/ t = <<a>>)
      BY <1>3
    <2>2. CASE t = <<a, b>>
      <3>1. ahead(t) = {a, b} /\ ahead(<<b>>) = {b}
        BY <1>1, <2>1, <2>2
      <3>2. Head(t) = a /\ Tail(t) = <<b>> /\ <<b>> # <<>> /\ <<b>> \in TodoLists /\ t \in Seq(Services) /\ t # <<>>
        BY <1>2, <1>4, <2>2
      <3>3. ahead(t) \ {a} = {b} /\ a \in ahead(t) /\ ahead(t) \subseteq Services
        BY <2>1, <3>1
      <3>4. Tail(t) # <<>> /\ Tail(t) \in TodoLists /\ ahead(Tail(t)) = ahead(t) \ {Head(t)}
        BY <3>1, <3>2, <3>3
      <3> QED BY <3>2, <3>3, <3>4
    <2>3. CASE t = <<a>>
      <3>1. ahead(t) = {a}
        BY <1>1, <2>1, <2>3
      <3>2. Head(t) = a /\ Tail(t) = <<>> /\ t \in Seq(Services) /\ t # <<>>
        BY <1>2, <2>3
      <3> QED BY <2>1, <3>1, <3>2
    <2> QED BY <2>1, <2>2, <2>3
  <1>6. officeServiceNames \in TodoLists /\ uninstallOrder \in TodoLists
    BY DEF officeServiceNames, uninstallOrder, TodoLists
  <1>7. ahead(officeServiceNames) = Services /\ ahead(uninstallOrder) = Services
    BY <1>1 DEF officeServiceNames, uninstallOrder, Services
  <1> QED BY <1>5, <1>6, <1>7

\* A loop moves on: to its next visit, or past its last to the next step.
LEMMA MovesOn ==
    ASSUME NEW c \in Commands, c.todo \in TodoLists, NEW next \in installSteps \cup uninstallSteps,
           NEW order \in TodoLists, NEW m, m = moveOn(c, next, order)
    PROVE  /\ m \in Commands /\ m.todo \in TodoLists /\ m.op = c.op /\ m.unconverged = c.unconverged
           /\ m.issues = c.issues /\ m.preserved = c.preserved /\ m.removed = c.removed
           /\ m.entries = c.entries /\ m.found = c.found
           /\ \/ m.step = c.step /\ ahead(m.todo) = ahead(c.todo) \ {Head(c.todo)}
              \/ m.step = next /\ m.todo = order /\ ahead(c.todo) = {Head(c.todo)}
  <1>1. CASE Tail(c.todo) # <<>>
    <2> DEFINE t == Tail(c.todo)
    <2>1. t \in TodoLists /\ ahead(t) = ahead(c.todo) \ {Head(c.todo)}
      BY <1>1, TodoIs
    <2>2. m = [c EXCEPT !.todo = t]
      BY <1>1 DEF moveOn
    <2> HIDE DEF t
    <2> QED BY <2>1, <2>2 DEF Commands
  <1>2. CASE Tail(c.todo) = <<>>
    <2>1. ahead(c.todo) = {Head(c.todo)}
      BY <1>2, TodoIs
    <2>2. m = [c EXCEPT !.step = next, !.todo = order]
      BY <1>2 DEF moveOn
    <2> QED BY <2>1, <2>2 DEF Commands
  <1> QED BY <1>1, <1>2

\* What a file may be, and what of the manager and the plan it says.
LEMMA ClassifyIs ==
    ASSUME MachineShape, NEW s \in Services
    PROVE  /\ classify(s) \in {"missing", "unmanaged_collision", "managed_current", "managed_outdated"}
           /\ classify(s) = "missing" <=> defn[s] = Nothing
           /\ classify(s) = "unmanaged_collision" <=> defn[s] = Foreign
           /\ classify(s) = "managed_current" <=> defn[s] = planned
           /\ planned \in Definitions /\ planned # Nothing /\ planned # Foreign
  <1>1. planned \in Definitions /\ planned # Nothing /\ planned # Foreign /\ Nothing # Foreign
    BY ServiceBounds DEF MachineShape, Definitions, Nothing, Foreign
  <1>2. CASE defn[s] = Nothing
    BY <1>1, <1>2 DEF classify, classifyManagedDefinition
  <1>3. CASE defn[s] = Foreign
    BY <1>1, <1>3 DEF classify, classifyManagedDefinition
  <1>4. CASE defn[s] = planned
    BY <1>1, <1>4 DEF classify, classifyManagedDefinition
  <1>5. CASE defn[s] # Nothing /\ defn[s] # Foreign /\ defn[s] # planned
    BY <1>1, <1>5 DEF classify, classifyManagedDefinition
  <1> QED BY <1>2, <1>3, <1>4, <1>5, <1>1

\* An entry of the status says of its service what there is to say.
LEMMA EntryIs ==
    ASSUME ServicesShape, NEW s \in Services, NEW e \in buildStatus(s)
    PROVE  /\ e \in StatusEntries /\ e.service = s
           /\ officeServiceHealthy(e) => enabled[s] /\ s \notin svc.unconverged
  <1>0. classify(s) \in {"missing", "unmanaged_collision", "managed_current", "managed_outdated"} /\ enabled[s] \in BOOLEAN
    BY ClassifyIs DEF ServicesShape, MachineShape
  <1>1. ASSUME NEW r \in Findings, NEW a \in Findings, NEW n \in {"running", "unknown", "installed_inactive", "failed", "not_installed"},
               a = "yes" => enabled[s], e = entryOf(s, r, a, n)
        PROVE  /\ e \in StatusEntries /\ e.service = s
               /\ officeServiceHealthy(e) => enabled[s] /\ s \notin svc.unconverged
    BY <1>0, <1>1 DEF entryOf, StatusEntries, officeServiceHealthy
  <1>2. ASSUME NEW a \in Findings, e = unknownEntry(s, a)
        PROVE  e \in StatusEntries /\ e.service = s /\ ~officeServiceHealthy(e)
    BY <1>0, <1>2 DEF unknownEntry, StatusEntries, officeServiceHealthy, Findings
  <1>3. \A b \in BOOLEAN : yesNo(b) \in Findings /\ (yesNo(b) = "yes" => b)
    BY DEF yesNo, Findings
  <1>4. CASE e \in systemdStatus(s)
    <2>1. PICK i \in inspect(s) :
                 e \in IF ~i.known THEN {unknownEntry(s, "unknown")}
                       ELSE {entryOf(s, yesNo(i.registered), yesNo(i.enabled),
                                     IF ~i.registered THEN "not_installed" ELSE normalized) :
                               normalized \in stateFromActiveState(i.active)}
      BY <1>4 DEF systemdStatus
    <2>2. i.registered \in BOOLEAN /\ (i.known => i.enabled = enabled[s]) /\ i.known \in BOOLEAN
      <3> DEFINE reg == loaded[s] # Nothing \/ defn[s] # Nothing
                 act == proc[s] # Nothing
                 en == enabled[s]
      <3>1. \/ i = [known |-> FALSE, registered |-> FALSE, enabled |-> FALSE, active |-> FALSE]
            \/ i = [known |-> TRUE, registered |-> reg, enabled |-> en, active |-> act]
        BY DEF inspect
      <3>2. reg \in BOOLEAN
        OBVIOUS
      <3> HIDE DEF reg, act, en
      <3>3. i.registered \in BOOLEAN /\ (i.known => i.enabled = en) /\ i.known \in BOOLEAN
        <4>1. CASE i = [known |-> FALSE, registered |-> FALSE, enabled |-> FALSE, active |-> FALSE]
          <5>1. i.known = FALSE /\ i.registered = FALSE
            BY <4>1
          <5> QED BY <5>1, Zenon
        <4>2. CASE i = [known |-> TRUE, registered |-> reg, enabled |-> en, active |-> act]
          <5>1. i.known = TRUE
            BY <4>2
          <5>2. i.registered = reg
            BY <4>2, Zenon
          <5>3. i.enabled = en
            BY <4>2, Zenon
          <5> QED BY <3>2, <5>1, <5>2, <5>3, Zenon
        <4> QED BY <3>1, <4>1, <4>2, Zenon
      <3> QED BY <3>3 DEF en
    <2>3. CASE ~i.known
      BY <1>2, <2>1, <2>3 DEF Findings
    <2>4. CASE i.known
      <3>1. PICK n \in stateFromActiveState(i.active) :
                   e = entryOf(s, yesNo(i.registered), yesNo(i.enabled), IF ~i.registered THEN "not_installed" ELSE n)
        BY <2>1, <2>4
      <3> DEFINE k == IF ~i.registered THEN "not_installed" ELSE n
      <3>2. k \in {"running", "unknown", "installed_inactive", "failed", "not_installed"}
        BY DEF stateFromActiveState
      <3>3. yesNo(i.registered) \in Findings /\ yesNo(i.enabled) \in Findings /\ (yesNo(i.enabled) = "yes" => enabled[s])
        BY <1>0, <1>3, <2>2, <2>4
      <3>4. e = entryOf(s, yesNo(i.registered), yesNo(i.enabled), k)
        BY <3>1
      <3> HIDE DEF k
      <3> QED BY <1>1, <3>2, <3>3, <3>4
    <2> QED BY <2>2, <2>3, <2>4
  <1>5. CASE e \in launchdStatus(s)
    <2>1. \A read \in BOOLEAN : /\ launchdEnablement(s, read) \in Findings
                                /\ launchdEnablement(s, read) = "yes" => enabled[s]
      BY <1>0, <1>3 DEF launchdEnablement, Findings
    <2>2. CASE \E read \in BOOLEAN : e = unknownEntry(s, launchdEnablement(s, read))
      BY <1>2, <2>1, <2>2
    <2>3. CASE \E read \in BOOLEAN, n \in stateFromRegistration(s) :
                 e = entryOf(s, yesNo(loaded[s] # Nothing), launchdEnablement(s, read), n)
      <3>1. PICK read \in BOOLEAN, n \in stateFromRegistration(s) :
                 e = entryOf(s, yesNo(loaded[s] # Nothing), launchdEnablement(s, read), n)
        BY <2>3
      <3>2. n \in {"running", "unknown", "installed_inactive", "failed", "not_installed"}
        BY DEF stateFromRegistration
      <3>3. yesNo(loaded[s] # Nothing) \in Findings
        BY DEF yesNo, Findings
      <3> QED BY <1>1, <2>1, <3>1, <3>2, <3>3
    <2> QED BY <1>5, <2>2, <2>3 DEF launchdStatus
  <1> QED BY <1>4, <1>5 DEF buildStatus

LEMMA IdleIs ==
    /\ Idle \in Commands /\ Idle.op = "none" /\ Idle.step = "none" /\ Idle.entries = {} /\ ~Idle.issues /\ Idle.preserved = {}
    /\ NoVerdict \in Verdicts /\ NoVerdict.outcome = "none"
  <1>1. [s \in Services |-> Nothing] \in [Services -> Definitions]
    BY DEF Definitions
  <1> QED BY <1>1 DEF Idle, NoVerdict, Commands, Verdicts

LEMMA ServicesInitInv == ServicesInit => ServicesInv
  <1> SUFFICES ASSUME ServicesInit PROVE ServicesInv
    OBVIOUS
  <1>1. \A f : f = [s \in Services |-> Nothing] => f \in [Services -> Definitions] /\ \A s \in Services : f[s] = Nothing
    BY DEF Definitions
  <1>2. MachineShape
    <2>1. enabled \in [Services -> BOOLEAN]
      BY DEF ServicesInit
    <2>2. planned \in 1 .. MaxPlan
      BY ServiceBounds DEF ServicesInit
    <2> QED BY <1>1, <2>1, <2>2 DEF ServicesInit, MachineShape
  <1>3. NothingOrphaned
    BY <1>1 DEF ServicesInit, NothingOrphaned
  <1>4. ManagerKeeps
    BY <1>1 DEF ServicesInit, ManagerKeeps
  <1> QED BY <1>2, <1>3, <1>4, IdleIs DEF ServicesInit, ServicesInv, ServicesShape, StepsOfCommands,
          InstalledMeansConverged, RefusalWritesNothing, CleanUninstall

LEMMA QuietMachine ==
    ASSUME ServicesInv, UNCHANGED <<manager, planned, defn, loaded, leaving, proc, enabled, tampered>>
    PROVE  MachineShape' /\ ManagerKeeps' /\ NothingOrphaned'
  BY DEF ServicesInv, ServicesShape, MachineShape, ManagerKeeps, NothingOrphaned

\* A command goes on without a verdict.
LEMMA CommandGoesOn ==
    ASSUME ServicesInv, svc.op # "none", svc' \in Commands, svc'.op = svc.op, svc'.todo \in TodoLists, verdict' = verdict,
           MachineShape', ManagerKeeps', NothingOrphaned',
           svc.op = "install" => svc'.step \in installSteps /\ InstallOK(svc)',
           svc.op = "status" => svc'.step = "status",
           svc.op = "uninstall" => svc'.step \in uninstallSteps /\ UninstallOK(svc)',
           svc'.step = "reload" => manager' = "systemd", svc'.step # "status" => svc'.entries = {}
    PROVE  ServicesInv'
  <1>1. verdict = NoVerdict /\ verdict.outcome = "none"
    BY IdleIs DEF ServicesInv, StepsOfCommands
  <1>2. ServicesShape' /\ StepsOfCommands'
    BY <1>1 DEF ServicesInv, ServicesShape, StepsOfCommands
  <1>3. InstalledMeansConverged' /\ RefusalWritesNothing' /\ CleanUninstall'
    BY <1>1 DEF InstalledMeansConverged, RefusalWritesNothing, CleanUninstall
  <1> QED BY <1>2, <1>3 DEF ServicesInv

\* A command ends with its verdict.
LEMMA CommandEnds ==
    ASSUME ServicesInv, NEW o \in {"error", "installed", "partial", "healthy", "unhealthy", "uninstalled", "failed"}, finish(o),
           MachineShape', ManagerKeeps', NothingOrphaned',
           o = "installed" => \A s \in Services : defn'[s] = planned' /\ Converged(s)' /\ enabled'[s],
           o = "uninstalled" => \A s \in Services : defn'[s] = Nothing
    PROVE  ServicesInv'
  <1> DEFINE v == [outcome |-> o, before |-> svc.found]
  <1>1. svc' = Idle /\ verdict' = v
    BY DEF finish
  <1>2. v \in Verdicts /\ v.outcome = o
    BY DEF ServicesInv, ServicesShape, Commands, Verdicts
  <1> HIDE DEF v
  <1>3. ServicesShape' /\ StepsOfCommands'
    BY <1>1, <1>2, IdleIs DEF ServicesShape, StepsOfCommands
  <1>4. InstalledMeansConverged'
    BY <1>1, <1>2 DEF InstalledMeansConverged, Converged
  <1>5. RefusalWritesNothing'
    BY <1>1, <1>2 DEF RefusalWritesNothing
  <1>6. CleanUninstall'
    BY <1>1, <1>2 DEF CleanUninstall, NothingOrphaned
  <1> QED BY <1>1, <1>3, <1>4, <1>5, <1>6, IdleIs DEF ServicesInv

\* A command begins, and the last verdict is forgotten.
LEMMA CommandBegins ==
    ASSUME ServicesInv, svc.op = "none", verdict' = NoVerdict,
           NEW op, NEW step, NEW order \in TodoLists, beginCommand(op, step, order), ahead(order) = Services,
           \/ op = "install" /\ step = "write" /\ \A s \in Services : defn[s] # Foreign
           \/ op = "status" /\ step = "status"
           \/ op = "uninstall" /\ step = "remove",
           UNCHANGED <<manager, planned, tampered, defn, loaded, leaving, proc, enabled>>
    PROVE  ServicesInv'
  <1> DEFINE c == [Idle EXCEPT !.op = op, !.step = step, !.todo = order, !.found = defn]
  <1>1. svc' = c
    BY DEF beginCommand
  <1>2. c \in Commands /\ c.op = op /\ c.step = step /\ c.todo = order /\ c.entries = {}
    <2>1. defn \in [Services -> Definitions]
      BY DEF ServicesInv, ServicesShape, MachineShape
    <2>2. op \in {"none", "install", "status", "uninstall"} /\ step \in {"none"} \cup installSteps \cup uninstallSteps
      BY DEF installSteps, uninstallSteps
    <2> QED BY <2>1, <2>2, IdleIs DEF Commands
  <1> HIDE DEF c
  <1>3. MachineShape' /\ ManagerKeeps' /\ NothingOrphaned'
    BY QuietMachine
  <1>4. ServicesShape' /\ StepsOfCommands'
    BY <1>1, <1>2, <1>3, IdleIs DEF ServicesShape, StepsOfCommands, installSteps, uninstallSteps
  <1>5. svc'.op = "install" => InstallOK(svc)'
    BY <1>1, <1>2 DEF InstallOK
  <1>6. svc'.op = "uninstall" => UninstallOK(svc)'
    BY <1>1, <1>2 DEF UninstallOK
  <1>7. InstalledMeansConverged' /\ RefusalWritesNothing' /\ CleanUninstall'
    BY IdleIs DEF InstalledMeansConverged, RefusalWritesNothing, CleanUninstall
  <1> QED BY <1>3, <1>4, <1>5, <1>6, <1>7 DEF ServicesInv

\* A command is refused at once.
LEMMA CommandRefused ==
    ASSUME ServicesInv, svc.op = "none", NEW o \in {"refused", "partial"}, verdict' = [outcome |-> o, before |-> defn],
           UNCHANGED <<manager, planned, tampered, defn, loaded, leaving, proc, enabled, svc>>
    PROVE  ServicesInv'
  <1> DEFINE v == [outcome |-> o, before |-> defn]
  <1>1. v \in Verdicts /\ v.outcome = o /\ v.before = defn /\ verdict' = v
    BY DEF Verdicts, ServicesInv, ServicesShape, MachineShape
  <1> HIDE DEF v
  <1>2. MachineShape' /\ ManagerKeeps' /\ NothingOrphaned'
    BY QuietMachine
  <1>3. ServicesShape' /\ StepsOfCommands'
    BY <1>1, <1>2, IdleIs DEF ServicesInv, ServicesShape, StepsOfCommands
  <1>4. InstalledMeansConverged' /\ RefusalWritesNothing' /\ CleanUninstall'
    BY <1>1 DEF InstalledMeansConverged, RefusalWritesNothing, CleanUninstall
  <1> QED BY <1>2, <1>3, <1>4 DEF ServicesInv

LEMMA BeginCommandStep == ASSUME ServicesInv, PlanRejected \/ Install \/ Status \/ Uninstall PROVE ServicesInv'
  <1>1. svc.op = "none"
    BY DEF PlanRejected, Install, Status, Uninstall, running
  <1>2. CASE PlanRejected
    BY <1>1, <1>2, CommandRefused DEF PlanRejected
  <1>3. CASE Install
    <2>1. CASE /\ \A s \in Services : classify(s) # "unmanaged_collision"
               /\ beginCommand("install", "write", officeServiceNames) /\ verdict' = NoVerdict
      <3>1. \A s \in Services : defn[s] # Foreign
        BY <2>1, ClassifyIs DEF ServicesInv, ServicesShape
      <3> QED BY <1>1, <1>3, <2>1, <3>1, CommandBegins, TodoIs DEF Install
    <2>2. CASE verdict' = [outcome |-> "refused", before |-> defn] /\ UNCHANGED svc
      BY <1>1, <1>3, <2>2, CommandRefused DEF Install
    <2> QED BY <1>3, <2>1, <2>2 DEF Install
  <1>4. CASE Status
    BY <1>1, <1>4, CommandBegins, TodoIs DEF Status
  <1>5. CASE Uninstall
    <2>1. CASE beginCommand("uninstall", "remove", uninstallOrder) /\ verdict' = NoVerdict
      BY <1>1, <1>5, <2>1, CommandBegins, TodoIs DEF Uninstall
    <2>2. CASE verdict' = [outcome |-> "partial", before |-> defn] /\ UNCHANGED svc
      BY <1>1, <1>5, <2>2, CommandRefused DEF Uninstall
    <2> QED BY <1>5, <2>1, <2>2 DEF Uninstall
  <1> QED BY <1>2, <1>3, <1>4, <1>5

\* What is known of a command that is running.
LEMMA Running ==
    ASSUME ServicesInv, svc.op # "none"
    PROVE  /\ svc \in Commands /\ svc.todo \in TodoLists /\ Head(svc.todo) \in Services /\ Head(svc.todo) \in ahead(svc.todo)
           /\ ahead(svc.todo) \subseteq Services /\ verdict = NoVerdict /\ MachineShape
           /\ svc.op = "install" => InstallOK(svc) /\ svc.step \in installSteps
           /\ svc.op = "uninstall" => UninstallOK(svc) /\ svc.step \in uninstallSteps
  BY TodoIs DEF ServicesInv, ServicesShape, StepsOfCommands

LEMMA InstallWriteStep == ASSUME ServicesInv, InstallWrite PROVE ServicesInv'
  <1> DEFINE s == Head(svc.todo)
             after == IF manager = "systemd" THEN "reload" ELSE "enable"
  <1>1. svc.op = "install" /\ svc.step = "write" /\ UNCHANGED <<machine, loaded, leaving, proc, enabled>>
    BY DEF InstallWrite
  <1>2. /\ svc \in Commands /\ svc.todo \in TodoLists /\ s \in Services /\ s \in ahead(svc.todo) /\ InstallOK(svc)
        /\ MachineShape
    BY <1>1, Running
  <1>3. planned \in Definitions /\ planned # Nothing /\ planned # Foreign
    BY <1>2, ClassifyIs
  <1>4. ASSUME svc' = moveOn(svc, after, officeServiceNames), verdict' = verdict, defn' \in [Services -> Definitions],
               defn'[s] = planned, \A t \in Services \ {s} : defn'[t] = defn[t]
        PROVE  ServicesInv'
    <2>1. after \in installSteps \cup uninstallSteps /\ after # "write" /\ after # "status" /\ after # "converge"
          /\ after \in installSteps /\ (after = "reload" <=> manager = "systemd")
          /\ (manager = "systemd" => after # "enable")
      BY DEF installSteps
    <2> HIDE DEF after
    <2>2. /\ svc' \in Commands /\ svc'.todo \in TodoLists /\ svc'.op = svc.op /\ svc'.entries = svc.entries
          /\ \/ svc'.step = "write" /\ ahead(svc'.todo) = ahead(svc.todo) \ {s}
             \/ svc'.step = after /\ ahead(svc.todo) = {s}
      <3>1. /\ svc' \in Commands /\ svc'.todo \in TodoLists /\ svc'.op = svc.op /\ svc'.entries = svc.entries
            /\ \/ svc'.step = svc.step /\ ahead(svc'.todo) = ahead(svc.todo) \ {Head(svc.todo)}
               \/ svc'.step = after /\ ahead(svc.todo) = {Head(svc.todo)}
        <4>1. officeServiceNames \in TodoLists
          BY TodoIs
        <4> QED BY <1>2, <1>4, <2>1, <4>1, MovesOn
      <3> QED BY <1>1, <3>1
    <2>3. svc'.entries = {}
      BY <1>1, <2>2 DEF ServicesInv, StepsOfCommands
    <2> HIDE DEF s
    <2>4. InstallOK(svc)'
      <3>1. \A t \in Services : defn'[t] # Foreign /\ (svc'.step # "write" \/ t \notin ahead(svc'.todo) => defn'[t] = planned)
        BY <1>1, <1>2, <1>3, <1>4, <2>2 DEF InstallOK
      <3> QED BY <1>1, <2>1, <2>2, <2>3, <3>1 DEF InstallOK, machine
    <2>5. MachineShape' /\ ManagerKeeps' /\ NothingOrphaned'
      BY <1>1, <1>2, <1>3, <1>4 DEF ServicesInv, MachineShape, ManagerKeeps, NothingOrphaned, machine
    <2>6. svc'.step \in installSteps /\ (svc'.step = "reload" => manager' = "systemd")
      BY <1>1, <2>1, <2>2 DEF machine, installSteps
    <2> QED BY <1>1, <1>4, <2>2, <2>3, <2>4, <2>5, <2>6, CommandGoesOn
  <1>5. CASE classify(s) = "unmanaged_collision"
    BY <1>2, <1>5, ClassifyIs DEF InstallOK
  <1>6. CASE classify(s) = "managed_current" /\ svc' = moveOn(svc, after, officeServiceNames) /\ UNCHANGED <<defn, verdict>>
    <2>1. defn' \in [Services -> Definitions] /\ defn'[s] = planned /\ \A t \in Services \ {s} : defn'[t] = defn[t]
      BY <1>2, <1>6, ClassifyIs DEF MachineShape
    <2> QED BY <1>4, <1>6, <2>1
  <1>7. CASE defn' = [defn EXCEPT ![s] = renderDefinition(s)] /\ svc' = moveOn(svc, after, officeServiceNames)
             /\ UNCHANGED verdict
    <2>1. defn' \in [Services -> Definitions] /\ defn'[s] = planned /\ \A t \in Services \ {s} : defn'[t] = defn[t]
      <3> HIDE DEF s
      <3> QED BY <1>2, <1>3, <1>7 DEF MachineShape, renderDefinition
    <2> QED BY <1>4, <1>7, <2>1
  <1>8. CASE UNCHANGED defn /\ finish("error")
    BY <1>1, <1>8, QuietMachine, CommandEnds DEF machine
  <1> QED BY <1>5, <1>6, <1>7, <1>8 DEF InstallWrite

LEMMA InstallReloadStep == ASSUME ServicesInv, InstallReload PROVE ServicesInv'
  <1>1. /\ svc.op = "install" /\ svc.step = "reload" /\ manager = "systemd"
        /\ UNCHANGED <<machine, defn, leaving, proc, enabled, verdict>>
    BY DEF InstallReload, ServicesInv, StepsOfCommands
  <1>2. svc \in Commands /\ InstallOK(svc) /\ MachineShape /\ leaving = {} /\ svc.entries = {}
    BY <1>1, Running DEF ServicesInv, ManagerKeeps, StepsOfCommands
  <1>3. \A s \in Services : defn[s] = planned /\ planned # Foreign /\ planned # Nothing
    BY <1>1, <1>2, ClassifyIs DEF InstallOK
  <1>4. PICK works, answered \in BOOLEAN :
               /\ answered => works
               /\ loaded' = IF works THEN defn ELSE loaded
               /\ svc' = IF answered
                         THEN [svc EXCEPT !.step = "enable", !.todo = officeServiceNames]
                         ELSE [svc EXCEPT !.step = "status", !.todo = officeServiceNames,
                                          !.issues = TRUE, !.unconverged = Services]
    BY DEF InstallReload
  <1>5. MachineShape' /\ ManagerKeeps' /\ NothingOrphaned'
    BY <1>1, <1>2, <1>4 DEF ServicesInv, MachineShape, ManagerKeeps, NothingOrphaned, machine
  <1>6. CASE answered
    <2>1. svc' = [svc EXCEPT !.step = "enable", !.todo = officeServiceNames] /\ loaded' = defn
      BY <1>4, <1>6
    <2>2. /\ svc' \in Commands /\ svc'.op = "install" /\ svc'.step = "enable" /\ svc'.todo = officeServiceNames
          /\ svc'.entries = {}
      BY <1>1, <1>2, <2>1, TodoIs DEF Commands, installSteps
    <2>3. InstallOK(svc)'
      BY <1>1, <1>3, <2>1, <2>2 DEF InstallOK, machine
    <2> QED BY <1>1, <1>5, <2>2, <2>3, CommandGoesOn, TodoIs DEF installSteps
  <1>7. CASE ~answered
    <2>1. svc' = [svc EXCEPT !.step = "status", !.todo = officeServiceNames, !.issues = TRUE, !.unconverged = Services]
      BY <1>4, <1>7
    <2>2. /\ svc' \in Commands /\ svc'.op = "install" /\ svc'.step = "status" /\ svc'.todo = officeServiceNames
          /\ svc'.entries = {} /\ svc'.unconverged = Services
      BY <1>1, <1>2, <2>1, TodoIs DEF Commands, installSteps
    <2>3. InstallOK(svc)'
      BY <1>1, <1>3, <2>2 DEF InstallOK, machine
    <2> QED BY <1>1, <1>5, <2>2, <2>3, CommandGoesOn, TodoIs DEF installSteps
  <1> QED BY <1>6, <1>7

LEMMA InstallEnableStep == ASSUME ServicesInv, InstallEnable PROVE ServicesInv'
  <1> DEFINE s == Head(svc.todo)
  <1>1. svc.op = "install" /\ svc.step = "enable" /\ UNCHANGED <<machine, defn, loaded, leaving, proc, verdict>>
    BY DEF InstallEnable
  <1>2. svc \in Commands /\ svc.todo \in TodoLists /\ s \in Services /\ InstallOK(svc) /\ MachineShape /\ svc.entries = {}
    BY <1>1, Running DEF ServicesInv, StepsOfCommands
  <1>3. \A t \in Services : defn[t] = planned /\ planned # Foreign /\ planned # Nothing
    BY <1>1, <1>2, ClassifyIs DEF InstallOK
  <1>4. PICK works, answered \in BOOLEAN :
               /\ enabled' = IF works THEN [enabled EXCEPT ![s] = TRUE] ELSE enabled
               /\ svc' = moveOn(IF answered THEN svc
                                ELSE [svc EXCEPT !.issues = TRUE, !.enableFailures = @ \cup {s}],
                                "converge", officeServiceNames)
    BY DEF InstallEnable
  <1> DEFINE c == IF answered THEN svc ELSE [svc EXCEPT !.issues = TRUE, !.enableFailures = @ \cup {s}]
  <1> HIDE DEF s
  <1>5. c \in Commands /\ c.todo = svc.todo /\ c.op = svc.op /\ c.step = svc.step /\ c.entries = {}
    BY <1>2 DEF Commands
  <1>6. svc' = moveOn(c, "converge", officeServiceNames)
    BY <1>4
  <1> HIDE DEF c
  <1>7. /\ svc' \in Commands /\ svc'.todo \in TodoLists /\ svc'.op = svc.op /\ svc'.entries = {}
        /\ svc'.step = "enable" \/ (svc'.step = "converge" /\ ahead(svc'.todo) = Services)
    BY <1>1, <1>2, <1>5, <1>6, MovesOn, TodoIs DEF installSteps
  <1>8. InstallOK(svc)'
    BY <1>1, <1>2, <1>3, <1>7 DEF InstallOK, machine
  <1>9. MachineShape' /\ ManagerKeeps' /\ NothingOrphaned'
    BY <1>1, <1>2, <1>3, <1>4 DEF ServicesInv, MachineShape, ManagerKeeps, NothingOrphaned, machine
  <1> QED BY <1>1, <1>7, <1>8, <1>9, CommandGoesOn DEF installSteps

\* A service has been brought to the plan, or is noted as not converged.
LEMMA ConvergeMoves ==
    ASSUME ServicesInv, svc.op = "install", svc.step = "converge", NEW s \in Services, s = Head(svc.todo), NEW converged \in BOOLEAN,
           svc' = moveOn(unconvergedAfter(svc, s, converged), "status", officeServiceNames),
           UNCHANGED <<machine, defn, enabled, verdict>>, MachineShape', ManagerKeeps',
           \A t \in Services \ {s} : loaded'[t] = loaded[t] /\ proc'[t] = proc[t],
           manager = "systemd" => loaded' = loaded, converged => Converged(s)'
    PROVE  ServicesInv'
  <1>1. svc \in Commands /\ svc.todo \in TodoLists /\ InstallOK(svc) /\ MachineShape /\ svc.entries = {}
    BY Running DEF ServicesInv, StepsOfCommands
  <1>2. \A t \in Services : defn[t] = planned /\ planned # Foreign /\ planned # Nothing
    BY <1>1, ClassifyIs DEF InstallOK
  <1> DEFINE c == unconvergedAfter(svc, s, converged)
  <1>3. /\ c \in Commands /\ c.todo = svc.todo /\ c.op = svc.op /\ c.step = svc.step /\ c.entries = {}
        /\ svc.unconverged \subseteq c.unconverged /\ (s \in c.unconverged \/ converged)
    BY <1>1 DEF Commands, unconvergedAfter
  <1> HIDE DEF c
  <1>4. svc' = moveOn(c, "status", officeServiceNames)
    BY DEF c
  <1>5. /\ svc' \in Commands /\ svc'.todo \in TodoLists /\ svc'.op = svc.op /\ svc'.entries = {}
        /\ svc'.unconverged = c.unconverged
        /\ \/ svc'.step = "converge" /\ ahead(svc'.todo) = ahead(svc.todo) \ {s}
           \/ svc'.step = "status" /\ ahead(svc.todo) = {s}
    <2>1. /\ svc' \in Commands /\ svc'.todo \in TodoLists /\ svc'.op = c.op /\ svc'.entries = c.entries
          /\ svc'.unconverged = c.unconverged
          /\ \/ svc'.step = c.step /\ ahead(svc'.todo) = ahead(c.todo) \ {Head(c.todo)}
             \/ svc'.step = "status" /\ ahead(c.todo) = {Head(c.todo)}
      <3>1. officeServiceNames \in TodoLists /\ "status" \in installSteps \cup uninstallSteps
        BY TodoIs DEF installSteps
      <3>2. c.todo \in TodoLists
        BY <1>1, <1>3
      <3> QED BY <1>3, <1>4, <3>1, <3>2, MovesOn
    <2> QED BY <1>3, <2>1
  <1>6. InstallOK(svc)'
    <2>1. ASSUME NEW t \in Services \ svc'.unconverged, svc'.step = "status" \/ (svc'.step = "converge" /\ t \notin ahead(svc'.todo))
          PROVE  Converged(t)'
      <3>1. CASE t = s
        BY <1>3, <1>5, <2>1, <3>1
      <3>2. CASE t # s
        <4>1. t \notin svc.unconverged /\ t \notin ahead(svc.todo)
          BY <1>3, <1>5, <2>1, <3>2
        <4>2. Converged(t)
          BY <1>1, <4>1 DEF InstallOK
        <4> QED BY <3>2, <4>2 DEF Converged, machine
      <3> QED BY <3>1, <3>2
    <2>2. \A t \in Services : defn'[t] = planned' /\ defn'[t] # Foreign
      BY <1>2 DEF machine
    <2>3. manager' = "systemd" /\ svc'.step \in {"enable", "converge"} => \A t \in Services : loaded'[t] \in {Nothing, planned'}
      BY <1>1 DEF InstallOK, machine
    <2> QED BY <1>5, <2>1, <2>2, <2>3 DEF InstallOK
  <1>7. NothingOrphaned'
    BY <1>2 DEF NothingOrphaned, machine
  <1> QED BY <1>5, <1>6, <1>7, CommandGoesOn DEF installSteps

LEMMA InstallRestartStep == ASSUME ServicesInv, InstallRestart PROVE ServicesInv'
  <1>0. PICK s : s = Head(svc.todo)
    OBVIOUS
  <1>1. /\ svc.op = "install" /\ svc.step = "converge" /\ manager = "systemd"
        /\ UNCHANGED <<machine, defn, loaded, leaving, enabled, verdict>>
    BY DEF InstallRestart
  <1>2. svc \in Commands /\ s \in Services /\ InstallOK(svc) /\ MachineShape
    BY <1>0, <1>1, Running
  <1>3. PICK started \in {proc[s]} \cup restart(s), answered \in BOOLEAN :
               /\ answered => started \in restart(s)
               /\ proc' = [proc EXCEPT ![s] = started]
               /\ svc' = moveOn(unconvergedAfter(svc, s, answered), "status", officeServiceNames)
    BY <1>0 DEF InstallRestart
  <1>4. started \in Definitions
    BY <1>2, <1>3 DEF restart, MachineShape, Definitions
  <1>5. proc' \in [Services -> Definitions] /\ proc'[s] = started /\ \A t \in Services \ {s} : proc'[t] = proc[t]
    BY <1>2, <1>3, <1>4 DEF MachineShape
  <1>6. MachineShape' /\ ManagerKeeps'
    BY <1>1, <1>5 DEF ServicesInv, ServicesShape, MachineShape, ManagerKeeps, machine
  <1>7. answered => Converged(s)'
    <2>1. loaded[s] \in {Nothing, planned}
      BY <1>1, <1>2 DEF InstallOK
    <2> QED BY <1>1, <1>3, <1>5, <2>1 DEF restart, Converged, machine
  <1> QED BY <1>0, <1>1, <1>2, <1>3, <1>5, <1>6, <1>7, ConvergeMoves

\* What launchd says of a label is true when it says anything.
LEMMA RegistrationIs ==
    /\ \A b \in BOOLEAN : \A r \in waitUntilUnregistered(b) :
         r \in {"registered", "absent", "unknown"} /\ (r = "registered" => b) /\ (r = "absent" => ~b)
    /\ \A s : \A r \in registration(s) : /\ r \in {"registered", "absent", "unknown"}
                                         /\ r = "registered" => loaded[s] # Nothing
                                         /\ r = "absent" => loaded[s] = Nothing
  BY DEF waitUntilUnregistered, registration, launchctlPrint, registrationOf, launchdPrintIndicatesAbsence

\* A bootout takes effect at once, later or never.
BootedOut(s, effect) ==
    /\ leaving' = IF effect = "leaving" THEN leaving \cup {s} ELSE leaving \ (IF effect = "left" THEN {s} ELSE {})
    /\ loaded' = IF effect = "left" THEN [loaded EXCEPT ![s] = Nothing] ELSE loaded
    /\ proc' = IF effect = "left" THEN [proc EXCEPT ![s] = Nothing] ELSE proc

LEMMA BootoutKeeps ==
    ASSUME MachineShape, ManagerKeeps, manager = "launchd", NEW s \in Services, loaded[s] # Nothing,
           NEW effect \in {"left", "leaving", "ignored"}, BootedOut(s, effect)
    PROVE  /\ leaving' \subseteq {t \in Services : loaded'[t] # Nothing}
           /\ loaded' \in [Services -> Definitions] /\ proc' \in [Services -> Definitions]
           /\ \A t \in Services \ {s} : loaded'[t] = loaded[t] /\ proc'[t] = proc[t]
           /\ \A t \in Services : loaded'[t] = Nothing => proc'[t] = Nothing
           /\ effect = "left" => loaded'[s] = Nothing /\ proc'[s] = Nothing
           /\ \A t \in Services : proc'[t] \in {proc[t], Nothing} /\ loaded'[t] \in {loaded[t], Nothing}
  <1>1. Nothing \in Definitions
    BY DEF Definitions
  <1>2. CASE effect = "left"
    BY <1>1, <1>2 DEF BootedOut, MachineShape, ManagerKeeps
  <1>3. CASE effect = "leaving"
    BY <1>3 DEF BootedOut, MachineShape, ManagerKeeps
  <1>4. CASE effect = "ignored"
    BY <1>4 DEF BootedOut, MachineShape, ManagerKeeps
  <1> QED BY <1>2, <1>3, <1>4

LEMMA InstallBootstrapStep == ASSUME ServicesInv, InstallBootstrap PROVE ServicesInv'
  <1>0. PICK s : s = Head(svc.todo)
    OBVIOUS
  <1>1. /\ svc.op = "install" /\ svc.step = "converge" /\ manager = "launchd"
        /\ UNCHANGED <<machine, defn, enabled, verdict>>
    BY DEF InstallBootstrap
  <1>2. s \in Services /\ InstallOK(svc) /\ MachineShape /\ ManagerKeeps
    BY <1>0, <1>1, Running DEF ServicesInv
  <1>3. defn[s] = planned
    BY <1>1, <1>2 DEF InstallOK
  <1> DEFINE next(converged) == moveOn(unconvergedAfter(svc, s, converged), "status", officeServiceNames)
  <1>4. CASE svc' = next(FALSE) /\ UNCHANGED <<loaded, leaving, proc>>
    <2>1. MachineShape' /\ ManagerKeeps'
      BY <1>1, <1>2, <1>4 DEF MachineShape, ManagerKeeps, machine
    <2> QED BY <1>0, <1>1, <1>2, <1>4, <2>1, ConvergeMoves
  <1>5. ASSUME "registered" \in registration(s), NEW effect \in {"left", "leaving", "ignored"}, BootedOut(s, effect),
               svc' = next(FALSE)
        PROVE  ServicesInv'
    <2>1. loaded[s] # Nothing
      BY <1>5, RegistrationIs
    <2>2. /\ leaving' \subseteq {t \in Services : loaded'[t] # Nothing}
          /\ loaded' \in [Services -> Definitions] /\ proc' \in [Services -> Definitions]
          /\ \A t \in Services \ {s} : loaded'[t] = loaded[t] /\ proc'[t] = proc[t]
          /\ \A t \in Services : loaded'[t] = Nothing => proc'[t] = Nothing
      BY <1>1, <1>2, <1>5, <2>1, BootoutKeeps
    <2>3. MachineShape' /\ ManagerKeeps'
      BY <1>1, <1>2, <2>2 DEF MachineShape, ManagerKeeps, machine
    <2> QED BY <1>0, <1>1, <1>2, <1>5, <2>2, <2>3, ConvergeMoves
  <1>6. ASSUME NEW bootstrapped \in BOOLEAN, NEW converged \in BOOLEAN, NEW up \in {Nothing} \cup (IF bootstrapped THEN {defn[s]} ELSE {}),
               leaving' = leaving \ {s}, loaded' = [loaded EXCEPT ![s] = IF bootstrapped THEN defn[s] ELSE Nothing],
               proc' = [proc EXCEPT ![s] = up], svc' = next(converged)
        PROVE  ServicesInv'
    <2>1. planned \in Definitions /\ planned # Nothing /\ Nothing \in Definitions
      BY <1>2, ClassifyIs DEF Definitions
    <2>2. /\ loaded' \in [Services -> Definitions] /\ proc' \in [Services -> Definitions]
          /\ \A t \in Services \ {s} : loaded'[t] = loaded[t] /\ proc'[t] = proc[t]
          /\ loaded'[s] = (IF bootstrapped THEN planned ELSE Nothing) /\ proc'[s] \in {Nothing, loaded'[s]}
      BY <1>2, <1>3, <1>6, <2>1 DEF MachineShape
    <2>3. MachineShape' /\ ManagerKeeps'
      BY <1>1, <1>2, <1>6, <2>2 DEF MachineShape, ManagerKeeps, machine
    <2>4. Converged(s)'
      BY <1>1, <2>2 DEF Converged, machine
    <2> QED BY <1>0, <1>1, <1>2, <1>6, <2>2, <2>3, <2>4, ConvergeMoves
  <1>7. PICK before \in registration(s) :
          \/ /\ before = "unknown"
             /\ svc' = next(FALSE)
             /\ UNCHANGED <<loaded, leaving, proc>>
          \/ /\ before = "registered"
             /\ \E effect \in {"left", "leaving", "ignored"} : svc' = next(FALSE) /\ BootedOut(s, effect)
          \/ /\ leaving' = leaving \ {s}
             /\ \E bootstrapped, answered, seen \in BOOLEAN :
                  /\ loaded' = [loaded EXCEPT ![s] = IF bootstrapped THEN defn[s] ELSE Nothing]
                  /\ \E up \in {Nothing} \cup (IF bootstrapped THEN {defn[s]} ELSE {}) : proc' = [proc EXCEPT ![s] = up]
                  /\ svc' = next(answered /\ seen)
    BY <1>0 DEF InstallBootstrap, BootedOut
  <1>8. CASE \E effect \in {"left", "leaving", "ignored"} : before = "registered" /\ svc' = next(FALSE) /\ BootedOut(s, effect)
    <2> HIDE DEF next
    <2> QED BY <1>5, <1>7, <1>8
  <1>9. CASE /\ leaving' = leaving \ {s}
             /\ \E bootstrapped, answered, seen \in BOOLEAN :
                  /\ loaded' = [loaded EXCEPT ![s] = IF bootstrapped THEN defn[s] ELSE Nothing]
                  /\ \E up \in {Nothing} \cup (IF bootstrapped THEN {defn[s]} ELSE {}) : proc' = [proc EXCEPT ![s] = up]
                  /\ svc' = next(answered /\ seen)
    <2>1. PICK bootstrapped, answered, seen \in BOOLEAN :
                  /\ loaded' = [loaded EXCEPT ![s] = IF bootstrapped THEN defn[s] ELSE Nothing]
                  /\ \E up \in {Nothing} \cup (IF bootstrapped THEN {defn[s]} ELSE {}) : proc' = [proc EXCEPT ![s] = up]
                  /\ svc' = next(answered /\ seen)
      BY <1>9
    <2>2. PICK up \in {Nothing} \cup (IF bootstrapped THEN {defn[s]} ELSE {}) : proc' = [proc EXCEPT ![s] = up]
      BY <2>1
    <2>3. PICK converged \in BOOLEAN : converged = (answered /\ seen)
      OBVIOUS
    <2>4. svc' = next(converged)
      BY <2>1, <2>3
    <2> HIDE DEF next
    <2> QED BY <1>6, <1>9, <2>1, <2>2, <2>4
  <1> HIDE DEF next
  <1> QED BY <1>4, <1>7, <1>8, <1>9

LEMMA StatusEntryStep == ASSUME ServicesInv, StatusEntry PROVE ServicesInv'
  <1> DEFINE s == Head(svc.todo)
  <1>1. /\ svc.op \in {"install", "status"} /\ svc.step = "status"
        /\ UNCHANGED <<machine, defn, loaded, leaving, proc, enabled>>
    BY DEF StatusEntry
  <1>2. svc \in Commands /\ svc.todo \in TodoLists /\ s \in Services /\ (svc.op = "install" => InstallOK(svc)) /\ ServicesShape
    BY <1>1, Running DEF ServicesInv
  <1>3. PICK e \in buildStatus(s) :
          LET entries == svc.entries \cup {e}
              issues == svc.issues \/ entryIssue(e)
          IN IF Tail(svc.todo) # <<>>
             THEN /\ svc' = [svc EXCEPT !.entries = entries, !.issues = issues, !.todo = Tail(@)]
                  /\ UNCHANGED verdict
             ELSE finish(IF svc.op = "install" THEN installOutcome(entries, issues)
                         ELSE statusExitCode(entries, issues))
    BY DEF StatusEntry
  <1>4. /\ e \in StatusEntries /\ e.service = s
        /\ officeServiceHealthy(e) => enabled[s] /\ s \notin svc.unconverged
    <2> HIDE DEF s
    <2> QED BY <1>2, EntryIs
  <1> DEFINE entries == svc.entries \cup {e}
  <1>5. ASSUME svc.op = "install"
        PROVE  /\ \A t \in Services : defn[t] = planned /\ defn[t] # Foreign
               /\ \A d \in entries : officeServiceHealthy(d) => enabled[d.service] /\ Converged(d.service)
    BY <1>1, <1>2, <1>4, <1>5 DEF InstallOK
  <1>6. MachineShape' /\ ManagerKeeps' /\ NothingOrphaned'
    BY <1>1, QuietMachine DEF machine
  <1>7. CASE Tail(svc.todo) # <<>>
    <2> DEFINE t == Tail(svc.todo)
    <2>1. t \in TodoLists
      BY <1>2, <1>7, TodoIs
    <2>2. PICK issues \in BOOLEAN : issues = (svc.issues \/ entryIssue(e))
      OBVIOUS
    <2>3. svc' = [svc EXCEPT !.entries = entries, !.issues = issues, !.todo = t] /\ verdict' = verdict
      BY <1>3, <1>7, <2>2
    <2>4. entries \in SUBSET StatusEntries
      BY <1>2, <1>4 DEF Commands
    <2> HIDE DEF entries, t, s
    <2>5. /\ svc' \in Commands /\ svc'.op = svc.op /\ svc'.step = svc.step /\ svc'.todo = t /\ svc'.entries = entries
          /\ svc'.unconverged = svc.unconverged
      BY <1>2, <2>1, <2>3, <2>4 DEF Commands
    <2>6. svc.op = "install" => InstallOK(svc)'
      <3> SUFFICES ASSUME svc.op = "install" PROVE InstallOK(svc)'
        OBVIOUS
      <3>1. \A d \in entries : officeServiceHealthy(d)' <=> officeServiceHealthy(d)
        BY DEF officeServiceHealthy
      <3>2. \A d \in entries : officeServiceHealthy(d) => enabled'[d.service] /\ Converged(d.service)'
        BY <1>1, <1>5 DEF Converged, machine
      <3>3. \A u \in Services \ svc.unconverged : Converged(u)'
        BY <1>1, <1>2 DEF InstallOK, Converged, machine
      <3> QED BY <1>1, <1>5, <2>5, <3>1, <3>2, <3>3 DEF InstallOK, machine
    <2> QED BY <1>1, <1>6, <2>1, <2>3, <2>5, <2>6, CommandGoesOn DEF installSteps
  <1>8. CASE Tail(svc.todo) = <<>>
    <2>1. PICK o : /\ o = IF svc.op = "install" THEN installOutcome(entries, svc.issues \/ entryIssue(e))
                          ELSE statusExitCode(entries, svc.issues \/ entryIssue(e))
                   /\ finish(o)
      BY <1>3, <1>8
    <2>2. o \in {"installed", "partial", "healthy", "unhealthy"}
      BY <2>1 DEF installOutcome, statusExitCode
    <2>3. o = "installed" => svc.op = "install" /\ officeServicesHealthy(entries)
      BY <2>1 DEF installOutcome, statusExitCode
    <2> HIDE DEF entries
    <2>4. o = "installed" => \A t \in Services : defn'[t] = planned' /\ Converged(t)' /\ enabled'[t]
      BY <1>1, <1>5, <2>3 DEF officeServicesHealthy, Converged, machine
    <2> QED BY <1>6, <2>1, <2>2, <2>4, CommandEnds
  <1> QED BY <1>7, <1>8

\* An uninstall is done with a service, and moves on.
LEMMA UninstallMoves ==
    ASSUME ServicesInv, svc.op = "uninstall", NEW s \in Services, s = Head(svc.todo),
           NEW c \in Commands, c.op = "uninstall", c.todo = svc.todo, c.entries = {}, c.step = "remove", uninstalled(c),
           ~c.issues /\ c.preserved = {} => ~svc.issues /\ svc.preserved = {} /\ defn'[s] = Nothing,
           \A t \in Services \ {s} : defn'[t] = defn[t],
           verdict' = verdict, MachineShape', ManagerKeeps', NothingOrphaned'
    PROVE  ServicesInv'
  <1>1. svc.todo \in TodoLists /\ UninstallOK(svc) /\ svc.entries = {}
    BY Running DEF ServicesInv, StepsOfCommands, uninstallSteps
  <1>2. svc' = moveOn(c, "settle", uninstallOrder)
    BY DEF uninstalled
  <1>3. /\ svc' \in Commands /\ svc'.todo \in TodoLists /\ svc'.op = c.op /\ svc'.entries = c.entries
        /\ svc'.issues = c.issues /\ svc'.preserved = c.preserved
        /\ \/ svc'.step = c.step /\ ahead(svc'.todo) = ahead(c.todo) \ {Head(c.todo)}
           \/ svc'.step = "settle" /\ ahead(c.todo) = {Head(c.todo)}
    <2>1. uninstallOrder \in TodoLists /\ "settle" \in installSteps \cup uninstallSteps
      BY TodoIs DEF uninstallSteps
    <2>2. c.todo \in TodoLists
      BY <1>1
    <2> QED BY <1>2, <2>1, <2>2, MovesOn
  <1>4. UninstallOK(svc)'
    <2> SUFFICES ASSUME ~svc'.issues, svc'.preserved = {}, NEW t \in Services, svc'.step = "settle" \/ t \notin ahead(svc'.todo)
                 PROVE  defn'[t] = Nothing
      BY DEF UninstallOK
    <2>1. ~svc.issues /\ svc.preserved = {} /\ defn'[s] = Nothing
      BY <1>3
    <2>2. t = s \/ t \notin ahead(svc.todo)
      BY <1>3
    <2> QED BY <1>1, <2>1, <2>2 DEF UninstallOK
  <1> QED BY <1>3, <1>4, CommandGoesOn DEF uninstallSteps

LEMMA KeepsAndDrops ==
    ASSUME NEW c \in Commands, NEW s \in Services
    PROVE  /\ keep(c, s) \in Commands /\ keep(c, s).op = c.op /\ keep(c, s).step = c.step /\ keep(c, s).todo = c.todo
           /\ keep(c, s).entries = c.entries /\ keep(c, s).issues
           /\ drop(c, s) \in Commands /\ drop(c, s).op = c.op /\ drop(c, s).step = c.step /\ drop(c, s).todo = c.todo
           /\ drop(c, s).entries = c.entries /\ drop(c, s).issues = c.issues /\ drop(c, s).preserved = c.preserved
  BY DEF keep, drop, Commands

LEMMA UninstallUnownedStep == ASSUME ServicesInv, UninstallForeign \/ UninstallMissing PROVE ServicesInv'
  <1>0. PICK s : s = Head(svc.todo)
    OBVIOUS
  <1>1. /\ svc.op = "uninstall" /\ svc.step = "remove"
        /\ UNCHANGED <<machine, defn, loaded, leaving, proc, enabled, verdict>>
    BY DEF UninstallForeign, UninstallMissing
  <1>2. svc \in Commands /\ s \in Services /\ MachineShape /\ svc.entries = {}
    BY <1>0, <1>1, Running DEF ServicesInv, StepsOfCommands
  <1>3. MachineShape' /\ ManagerKeeps' /\ NothingOrphaned'
    BY <1>1, QuietMachine DEF machine
  <1>4. CASE UninstallForeign
    <2>1. uninstalled(keep(svc, s))
      BY <1>0, <1>4 DEF UninstallForeign
    <2> QED BY <1>0, <1>1, <1>2, <1>3, <2>1, KeepsAndDrops, UninstallMoves
  <1>5. CASE UninstallMissing
    <2>1. classify(s) = "missing" /\ \E x : uninstalled([svc EXCEPT !.issues = @ \/ x])
      BY <1>0, <1>5 DEF UninstallMissing
    <2>2. defn[s] = Nothing
      BY <1>2, <2>1, ClassifyIs
    <2>3. PICK x : uninstalled([svc EXCEPT !.issues = @ \/ x])
      BY <2>1
    <2>4. PICK issues \in BOOLEAN : issues = (svc.issues \/ x)
      OBVIOUS
    <2> DEFINE c == [svc EXCEPT !.issues = issues]
    <2>5. uninstalled(c)
      BY <2>3, <2>4
    <2>6. /\ c \in Commands /\ c.op = svc.op /\ c.step = svc.step /\ c.todo = svc.todo /\ c.entries = svc.entries
          /\ c.issues = issues /\ c.preserved = svc.preserved
      BY <1>2 DEF Commands
    <2>7. ~issues => ~svc.issues
      BY <2>4
    <2> HIDE DEF c
    <2> QED BY <1>0, <1>1, <1>2, <1>3, <2>2, <2>5, <2>6, <2>7, UninstallMoves
  <1> QED BY <1>4, <1>5

LEMMA UninstallDisableStep == ASSUME ServicesInv, UninstallDisable \/ UninstallManaged PROVE ServicesInv'
  <1>0. PICK s : s = Head(svc.todo)
    OBVIOUS
  <1>1. /\ svc.op = "uninstall" /\ manager = "systemd" /\ svc.step # "settle"
        /\ UNCHANGED <<machine, defn, loaded, leaving, verdict>>
    BY DEF UninstallDisable, UninstallManaged
  <1>2. svc \in Commands /\ svc.todo \in TodoLists /\ s \in Services /\ MachineShape /\ svc.entries = {} /\ UninstallOK(svc)
    BY <1>0, <1>1, Running DEF ServicesInv, StepsOfCommands, uninstallSteps
  <1>3. CASE UninstallManaged
    <2>1. svc' = [svc EXCEPT !.step = "disable"]
      BY <1>3 DEF UninstallManaged
    <2>2. /\ svc' \in Commands /\ svc'.op = svc.op /\ svc'.step = "disable" /\ svc'.todo = svc.todo /\ svc'.entries = {}
          /\ svc'.issues = svc.issues /\ svc'.preserved = svc.preserved
      BY <1>2, <2>1 DEF Commands, uninstallSteps
    <2>3. MachineShape' /\ ManagerKeeps' /\ NothingOrphaned'
      BY <1>1, <1>3, QuietMachine DEF UninstallManaged, machine
    <2>4. UninstallOK(svc)'
      BY <1>1, <1>2, <2>2 DEF UninstallOK
    <2> QED BY <1>1, <1>2, <2>2, <2>3, <2>4, CommandGoesOn DEF uninstallSteps
  <1>4. CASE UninstallDisable
    <2>1. PICK disabled, stopped, answered \in BOOLEAN :
               /\ enabled' = IF disabled THEN [enabled EXCEPT ![s] = FALSE] ELSE enabled
               /\ proc' = IF stopped THEN [proc EXCEPT ![s] = Nothing] ELSE proc
               /\ svc' = [svc EXCEPT !.step = "inspect", !.told = answered, !.issues = @ \/ ~answered]
      BY <1>0, <1>4 DEF UninstallDisable
    <2>2. /\ enabled' \in [Services -> BOOLEAN] /\ proc' \in [Services -> Definitions]
          /\ \A t \in Services : (enabled'[t] => enabled[t]) /\ proc'[t] \in {proc[t], Nothing}
      BY <1>2, <2>1 DEF MachineShape, Definitions
    <2>3. MachineShape' /\ ManagerKeeps' /\ NothingOrphaned'
      BY <1>1, <1>2, <2>2 DEF ServicesInv, MachineShape, ManagerKeeps, NothingOrphaned, machine
    <2>4. PICK issues \in BOOLEAN : issues = (svc.issues \/ ~answered)
      OBVIOUS
    <2>5. svc' = [svc EXCEPT !.step = "inspect", !.told = answered, !.issues = issues]
      BY <2>1, <2>4
    <2>6. /\ svc' \in Commands /\ svc'.op = svc.op /\ svc'.step = "inspect" /\ svc'.todo = svc.todo /\ svc'.entries = {}
          /\ svc'.issues = issues /\ svc'.preserved = svc.preserved
      BY <1>2, <2>5 DEF Commands, uninstallSteps
    <2>7. UninstallOK(svc)'
      BY <1>1, <1>2, <2>4, <2>6 DEF UninstallOK
    <2> QED BY <1>1, <1>2, <2>3, <2>6, <2>7, CommandGoesOn DEF uninstallSteps
  <1> QED BY <1>3, <1>4

\* What a file of a stopped service is removed for.
LEMMA RemovalKeepsOrphans ==
    ASSUME ServicesInv, NEW s \in Services, defn' = [defn EXCEPT ![s] = Nothing], UNCHANGED <<manager, planned, tampered, enabled>>,
           leaving' \subseteq {t \in Services : loaded'[t] # Nothing}, manager = "systemd" => leaving' = leaving,
           loaded' \in [Services -> Definitions], proc' \in [Services -> Definitions],
           \A t \in Services : proc'[t] \in {proc[t], Nothing} /\ loaded'[t] \in {loaded[t], Nothing},
           manager = "launchd" => \A t \in Services : loaded'[t] = Nothing => proc'[t] = Nothing,
           proc'[s] = Nothing, manager = "launchd" => loaded'[s] = Nothing, manager = "systemd" => ~enabled[s]
    PROVE  /\ MachineShape' /\ ManagerKeeps' /\ NothingOrphaned' /\ defn'[s] = Nothing
           /\ \A t \in Services \ {s} : defn'[t] = defn[t]
  <1>1. defn' \in [Services -> Definitions] /\ defn'[s] = Nothing /\ \A t \in Services \ {s} : defn'[t] = defn[t]
    BY DEF ServicesInv, ServicesShape, MachineShape, Definitions
  <1>2. MachineShape'
    BY <1>1 DEF ServicesInv, ServicesShape, MachineShape
  <1>3. ManagerKeeps'
    BY DEF ServicesInv, ManagerKeeps
  <1>4. NothingOrphaned'
    <2> SUFFICES ASSUME NEW t \in Services \ tampered', defn'[t] = Nothing
                 PROVE  proc'[t] = Nothing /\ (manager' = "launchd" => loaded'[t] = Nothing) /\ (manager' = "systemd" => ~enabled'[t])
      BY DEF NothingOrphaned
    <2>1. CASE t = s
      BY <2>1
    <2>2. CASE t # s
      <3>1. defn[t] = Nothing
        BY <1>1, <2>2
      <3>2. proc[t] = Nothing /\ (manager = "launchd" => loaded[t] = Nothing) /\ (manager = "systemd" => ~enabled[t])
        BY <3>1 DEF ServicesInv, NothingOrphaned
      <3> QED BY <3>2
    <2> QED BY <2>1, <2>2
  <1> QED BY <1>1, <1>2, <1>3, <1>4

LEMMA UninstallInspectStep == ASSUME ServicesInv, UninstallInspect PROVE ServicesInv'
  <1>0. PICK s : s = Head(svc.todo)
    OBVIOUS
  <1>1. /\ svc.op = "uninstall" /\ manager = "systemd" /\ svc.step = "inspect"
        /\ UNCHANGED <<machine, loaded, leaving, proc, enabled, verdict>>
    BY DEF UninstallInspect
  <1>2. svc \in Commands /\ s \in Services /\ MachineShape /\ svc.entries = {} /\ UninstallOK(svc)
    BY <1>0, <1>1, Running DEF ServicesInv, StepsOfCommands
  <1> DEFINE onward == [svc EXCEPT !.step = "remove"]
  <1>3. PICK after \in inspect(s) :
          \/ /\ mayRemove(svc.told, after)
             /\ defn' = [defn EXCEPT ![s] = Nothing]
             /\ uninstalled(drop(onward, s))
          \/ /\ ~mayRemove(svc.told, after)
             /\ uninstalled(keep(onward, s))
             /\ UNCHANGED defn
    BY <1>0 DEF UninstallInspect
  <1>4. /\ onward \in Commands /\ onward.op = svc.op /\ onward.step = "remove" /\ onward.todo = svc.todo /\ onward.entries = {}
        /\ onward.issues = svc.issues /\ onward.preserved = svc.preserved
    BY <1>2 DEF Commands, uninstallSteps
  <1> HIDE DEF onward
  <1>5. CASE mayRemove(svc.told, after) /\ defn' = [defn EXCEPT ![s] = Nothing] /\ uninstalled(drop(onward, s))
    <2>1. proc[s] = Nothing /\ ~enabled[s]
      <3> DEFINE reg == loaded[s] # Nothing \/ defn[s] # Nothing
                 act == proc[s] # Nothing
                 en == enabled[s]
      <3>1. \/ after = [known |-> FALSE, registered |-> FALSE, enabled |-> FALSE, active |-> FALSE]
            \/ after = [known |-> TRUE, registered |-> reg, enabled |-> en, active |-> act]
        BY DEF inspect
      <3> HIDE DEF reg, act, en
      <3>2. after.known /\ ~after.active /\ ~after.enabled
        BY <1>5 DEF mayRemove, provablyNotRunning
      <3>3. after = [known |-> TRUE, registered |-> reg, enabled |-> en, active |-> act]
        <4>1. after # [known |-> FALSE, registered |-> FALSE, enabled |-> FALSE, active |-> FALSE]
          BY <3>2
        <4> QED BY <3>1, <4>1, Zenon
      <3>4. after.active = act /\ after.enabled = en
        BY <3>3, Zenon
      <3>5. ~act /\ ~en
        BY <3>2, <3>4, Zenon
      <3> QED BY <3>5 DEF act, en
    <2>2. /\ MachineShape' /\ ManagerKeeps' /\ NothingOrphaned' /\ defn'[s] = Nothing
          /\ \A t \in Services \ {s} : defn'[t] = defn[t]
      BY <1>1, <1>2, <1>5, <2>1, RemovalKeepsOrphans DEF MachineShape, machine
    <2> QED BY <1>0, <1>1, <1>2, <1>4, <1>5, <2>2, KeepsAndDrops, UninstallMoves
  <1>6. CASE uninstalled(keep(onward, s)) /\ UNCHANGED defn
    <2>1. MachineShape' /\ ManagerKeeps' /\ NothingOrphaned'
      BY <1>1, <1>6, QuietMachine DEF machine
    <2> QED BY <1>0, <1>1, <1>2, <1>4, <1>6, <2>1, KeepsAndDrops, UninstallMoves
  <1> QED BY <1>3, <1>5, <1>6

LEMMA UninstallBootoutStep == ASSUME ServicesInv, UninstallBootout PROVE ServicesInv'
  <1>0. PICK s : s = Head(svc.todo)
    OBVIOUS
  <1>1. /\ svc.op = "uninstall" /\ manager = "launchd" /\ svc.step = "remove"
        /\ UNCHANGED <<machine, enabled, verdict>>
    BY DEF UninstallBootout
  <1>2. svc \in Commands /\ s \in Services /\ MachineShape /\ ManagerKeeps /\ svc.entries = {} /\ UninstallOK(svc)
    BY <1>0, <1>1, Running DEF ServicesInv, StepsOfCommands
  <1>3. ASSUME UNCHANGED defn, uninstalled(keep(svc, s)), MachineShape', ManagerKeeps', NothingOrphaned'
        PROVE  ServicesInv'
    BY <1>0, <1>1, <1>2, <1>3, KeepsAndDrops, UninstallMoves
  <1>4. ASSUME defn' = [defn EXCEPT ![s] = Nothing], uninstalled(drop(svc, s)), MachineShape', ManagerKeeps', NothingOrphaned',
               defn'[s] = Nothing, \A t \in Services \ {s} : defn'[t] = defn[t]
        PROVE  ServicesInv'
    BY <1>0, <1>1, <1>2, <1>4, KeepsAndDrops, UninstallMoves
  <1>5. PICK before \in registration(s) :
          \/ /\ before # "registered"
             /\ UNCHANGED <<loaded, leaving, proc>>
             /\ IF gone(before)
                THEN /\ defn' = [defn EXCEPT ![s] = Nothing]
                     /\ uninstalled(drop(svc, s))
                ELSE UNCHANGED defn /\ uninstalled(keep(svc, s))
          \/ /\ before = "registered"
             /\ \E effect \in {"left", "leaving", "ignored"} :
                  \E settled \in waitUntilUnregistered(effect # "left") :
                    /\ BootedOut(s, effect)
                    /\ IF gone(settled)
                       THEN /\ defn' = [defn EXCEPT ![s] = Nothing]
                            /\ uninstalled(drop(svc, s))
                       ELSE UNCHANGED defn /\ uninstalled(keep(svc, s))
    BY <1>0 DEF UninstallBootout, BootedOut
  <1>6. CASE /\ before # "registered" /\ UNCHANGED <<loaded, leaving, proc>>
             /\ gone(before) /\ defn' = [defn EXCEPT ![s] = Nothing] /\ uninstalled(drop(svc, s))
    <2>1. loaded[s] = Nothing
      BY <1>6, RegistrationIs DEF gone
    <2>2. proc[s] = Nothing
      BY <1>1, <1>2, <2>1 DEF ManagerKeeps
    <2>3. /\ leaving' \subseteq {t \in Services : loaded'[t] # Nothing} /\ loaded' \in [Services -> Definitions]
          /\ proc' \in [Services -> Definitions] /\ proc'[s] = Nothing /\ loaded'[s] = Nothing
          /\ \A t \in Services : proc'[t] \in {proc[t], Nothing} /\ loaded'[t] \in {loaded[t], Nothing}
          /\ \A t \in Services : loaded'[t] = Nothing => proc'[t] = Nothing
          /\ UNCHANGED <<manager, planned, tampered, enabled>> /\ manager # "systemd"
      BY <1>1, <1>2, <1>6, <2>1, <2>2 DEF MachineShape, ManagerKeeps, machine
    <2>4. /\ MachineShape' /\ ManagerKeeps' /\ NothingOrphaned' /\ defn'[s] = Nothing
          /\ \A t \in Services \ {s} : defn'[t] = defn[t]
      BY <1>2, <1>6, <2>3, RemovalKeepsOrphans
    <2> QED BY <1>4, <1>6, <2>4
  <1>7. CASE UNCHANGED <<loaded, leaving, proc, defn>> /\ uninstalled(keep(svc, s))
    <2>1. MachineShape' /\ ManagerKeeps' /\ NothingOrphaned'
      BY <1>1, <1>7, QuietMachine DEF machine
    <2> QED BY <1>3, <1>7, <2>1
  <1>8. ASSUME before = "registered", NEW effect \in {"left", "leaving", "ignored"},
               NEW settled \in waitUntilUnregistered(effect # "left"), BootedOut(s, effect),
               \/ gone(settled) /\ defn' = [defn EXCEPT ![s] = Nothing] /\ uninstalled(drop(svc, s))
               \/ UNCHANGED defn /\ uninstalled(keep(svc, s))
        PROVE  ServicesInv'
    <2>1. loaded[s] # Nothing
      BY <1>8, RegistrationIs
    <2>2. /\ leaving' \subseteq {t \in Services : loaded'[t] # Nothing}
          /\ loaded' \in [Services -> Definitions] /\ proc' \in [Services -> Definitions]
          /\ \A t \in Services : loaded'[t] = Nothing => proc'[t] = Nothing
          /\ effect = "left" => loaded'[s] = Nothing /\ proc'[s] = Nothing
          /\ \A t \in Services : proc'[t] \in {proc[t], Nothing} /\ loaded'[t] \in {loaded[t], Nothing}
      BY <1>1, <1>2, <1>8, <2>1, BootoutKeeps
    <2>3. CASE gone(settled) /\ defn' = [defn EXCEPT ![s] = Nothing] /\ uninstalled(drop(svc, s))
      <3>1. effect = "left"
        <4>1. PICK b \in BOOLEAN : b = (effect # "left")
          OBVIOUS
        <4>2. settled \in waitUntilUnregistered(b)
          BY <4>1
        <4>3. ~b
          BY <2>3, <4>2, RegistrationIs DEF gone
        <4> QED BY <4>1, <4>3
      <3>2. UNCHANGED <<manager, planned, tampered, enabled>> /\ manager # "systemd"
        BY <1>1 DEF machine
      <3>3. /\ MachineShape' /\ ManagerKeeps' /\ NothingOrphaned' /\ defn'[s] = Nothing
            /\ \A t \in Services \ {s} : defn'[t] = defn[t]
        BY <1>2, <2>2, <2>3, <3>1, <3>2, RemovalKeepsOrphans
      <3> QED BY <1>4, <2>3, <3>3
    <2>4. CASE UNCHANGED defn /\ uninstalled(keep(svc, s))
      <3>1. MachineShape' /\ ManagerKeeps'
        BY <1>1, <1>2, <2>2, <2>4 DEF MachineShape, ManagerKeeps, machine
      <3>2. NothingOrphaned'
        BY <1>1, <2>2, <2>4 DEF ServicesInv, NothingOrphaned, machine
      <3> QED BY <1>3, <2>4, <3>1, <3>2
    <2> QED BY <1>8, <2>3, <2>4
  <1> QED BY <1>5, <1>6, <1>7, <1>8

LEMMA UninstallSettleStep == ASSUME ServicesInv, UninstallSettle PROVE ServicesInv'
  <1>1. /\ svc.op = "uninstall" /\ svc.step = "settle" /\ UNCHANGED <<machine, defn, leaving, proc, enabled>>
    BY DEF UninstallSettle
  <1>2. svc \in Commands /\ MachineShape /\ UninstallOK(svc)
    BY <1>1, Running
  <1>3. ASSUME NEW c, c.preserved = svc.preserved, ~c.issues => ~svc.issues
        PROVE  /\ uninstallOutcome(c) \in {"uninstalled", "partial", "failed"}
               /\ uninstallOutcome(c) = "uninstalled" => \A t \in Services : defn'[t] = Nothing
    BY <1>1, <1>2, <1>3 DEF uninstallOutcome, UninstallOK
  <1>4. CASE loaded' = loaded /\ finish(uninstallOutcome(svc))
    <2>1. MachineShape' /\ ManagerKeeps' /\ NothingOrphaned'
      BY <1>1, <1>4, QuietMachine DEF machine
    <2> QED BY <1>3, <1>4, <2>1, CommandEnds
  <1>5. CASE /\ manager = "systemd"
             /\ \E works, answered \in BOOLEAN :
                  /\ loaded' = IF works THEN defn ELSE loaded
                  /\ finish(uninstallOutcome([svc EXCEPT !.issues = @ \/ ~answered]))
    <2>1. PICK works, answered \in BOOLEAN :
                  /\ loaded' = IF works THEN defn ELSE loaded
                  /\ finish(uninstallOutcome([svc EXCEPT !.issues = @ \/ ~answered]))
      BY <1>5
    <2>2. MachineShape' /\ ManagerKeeps' /\ NothingOrphaned'
      BY <1>1, <1>2, <1>5, <2>1 DEF ServicesInv, MachineShape, ManagerKeeps, NothingOrphaned, machine
    <2>3. PICK issues \in BOOLEAN : issues = (svc.issues \/ ~answered)
      OBVIOUS
    <2> DEFINE c == [svc EXCEPT !.issues = issues]
    <2>4. finish(uninstallOutcome(c))
      BY <2>1, <2>3
    <2>5. c.preserved = svc.preserved /\ c.issues = issues
      BY <1>2 DEF Commands
    <2> HIDE DEF c
    <2>6. ~c.issues => ~svc.issues
      BY <2>3, <2>5
    <2> QED BY <1>3, <2>2, <2>4, <2>5, <2>6, CommandEnds
  <1> QED BY <1>4, <1>5 DEF UninstallSettle

\* A process dies, or a job leaves late: something less is loaded or runs.
LEMMA LessRuns ==
    ASSUME ServicesInv, UNCHANGED <<manager, planned, tampered, defn, enabled, svc, verdict>>,
           loaded' \in [Services -> Definitions], proc' \in [Services -> Definitions],
           \A t \in Services : proc'[t] \in {proc[t], Nothing} /\ loaded'[t] \in {loaded[t], Nothing},
           leaving' \subseteq leaving, leaving' \subseteq {t \in Services : loaded'[t] # Nothing},
           manager = "launchd" => \A t \in Services : loaded'[t] = Nothing => proc'[t] = Nothing
    PROVE  ServicesInv'
  <1>1. ServicesShape' /\ StepsOfCommands' /\ ManagerKeeps'
    BY DEF ServicesInv, ServicesShape, MachineShape, StepsOfCommands, ManagerKeeps
  <1>2. \A t \in Services : Converged(t) => Converged(t)'
    BY DEF Converged
  <1>3. svc'.op = "install" => InstallOK(svc)'
    <2> SUFFICES ASSUME svc.op = "install" PROVE InstallOK(svc)'
      OBVIOUS
    <2>1. InstallOK(svc) /\ svc.entries \subseteq StatusEntries /\ \A t \in Services : loaded'[t] \in {loaded[t], Nothing}
      BY DEF ServicesInv, ServicesShape, Commands
    <2>2. \A e \in svc.entries : /\ officeServiceHealthy(e)' <=> officeServiceHealthy(e)
                                 /\ Converged(e.service) => Converged(e.service)'
      BY <1>2, <2>1 DEF officeServiceHealthy, StatusEntries
    <2>3. \A t \in Services \ svc.unconverged :
            svc.step = "status" \/ (svc.step = "converge" /\ t \notin ahead(svc.todo)) => Converged(t)'
      BY <1>2, <2>1 DEF InstallOK
    <2> QED BY <2>1, <2>2, <2>3 DEF InstallOK
  <1>4. svc'.op = "uninstall" => UninstallOK(svc)'
    BY DEF ServicesInv, UninstallOK
  <1>5. InstalledMeansConverged'
    BY DEF ServicesInv, InstalledMeansConverged
  <1>6. NothingOrphaned'
    BY DEF ServicesInv, NothingOrphaned
  <1>7. RefusalWritesNothing' /\ CleanUninstall'
    BY DEF ServicesInv, RefusalWritesNothing, CleanUninstall
  <1> QED BY <1>1, <1>3, <1>4, <1>5, <1>6, <1>7 DEF ServicesInv

\* No command runs: the state outside of it is all there is to keep.
LEMMA BetweenCommands ==
    ASSUME ServicesInv, svc.op = "none", svc' = svc, MachineShape', verdict' \in Verdicts, ManagerKeeps', NothingOrphaned',
           verdict' = NoVerdict \/ (InstalledMeansConverged' /\ RefusalWritesNothing' /\ CleanUninstall')
    PROVE  ServicesInv'
  <1>1. svc = Idle
    BY DEF ServicesInv, StepsOfCommands
  <1>2. ServicesShape' /\ StepsOfCommands'
    BY <1>1, IdleIs DEF ServicesInv, ServicesShape, StepsOfCommands
  <1>3. InstalledMeansConverged' /\ RefusalWritesNothing' /\ CleanUninstall'
    BY IdleIs DEF InstalledMeansConverged, RefusalWritesNothing, CleanUninstall
  <1> QED BY <1>2, <1>3 DEF ServicesInv

LEMMA AroundServicesStep ==
    ASSUME ServicesInv,
           CliDies \/ UpdateProgram \/ \E s \in Services : ProcessDies(s) \/ ManagerRestarts(s) \/ LateUnload(s) \/ Tamper(s)
    PROVE  ServicesInv'
  <1>0. MachineShape /\ ManagerKeeps /\ NothingOrphaned /\ svc \in Commands /\ verdict \in Verdicts /\ Nothing \in Definitions
        /\ Foreign \in Definitions
    BY DEF ServicesInv, ServicesShape, Definitions
  <1>1. CASE CliDies
    BY <1>1, QuietMachine, CommandEnds DEF CliDies, machine
  <1>2. CASE UpdateProgram
    <2>1. svc.op = "none" /\ verdict' = NoVerdict
          /\ UNCHANGED <<manager, defn, loaded, leaving, proc, enabled, svc, tampered>> /\ planned' \in 1 .. MaxPlan
      BY <1>0, <1>2, ServiceBounds DEF UpdateProgram, running, MachineShape
    <2> QED BY <1>0, <2>1, BetweenCommands, IdleIs DEF MachineShape, ManagerKeeps, NothingOrphaned
  <1>3. ASSUME NEW s \in Services, ProcessDies(s) PROVE ServicesInv'
    <2>1. proc' \in [Services -> Definitions] /\ \A t \in Services : proc'[t] \in {proc[t], Nothing}
      BY <1>0, <1>3 DEF ProcessDies, MachineShape
    <2>2. /\ UNCHANGED <<manager, planned, tampered, defn, enabled, svc, verdict, loaded, leaving>>
          /\ leaving \subseteq {t \in Services : loaded[t] # Nothing} /\ loaded \in [Services -> Definitions]
          /\ manager = "launchd" => \A t \in Services : loaded[t] = Nothing => proc[t] = Nothing
      BY <1>0, <1>3 DEF ProcessDies, machine, MachineShape, ManagerKeeps
    <2>3. manager = "launchd" => \A t \in Services : loaded[t] = Nothing => proc'[t] = Nothing
      BY <2>1, <2>2
    <2> QED BY <2>1, <2>2, <2>3, LessRuns
  <1>4. ASSUME NEW s \in Services, LateUnload(s) PROVE ServicesInv'
    <2>1. /\ proc' \in [Services -> Definitions] /\ \A t \in Services : proc'[t] = IF t = s THEN Nothing ELSE proc[t]
          /\ loaded' \in [Services -> Definitions] /\ \A t \in Services : loaded'[t] = IF t = s THEN Nothing ELSE loaded[t]
          /\ leaving' = leaving \ {s}
      BY <1>0, <1>4 DEF LateUnload, MachineShape
    <2>2. /\ UNCHANGED <<manager, planned, tampered, defn, enabled, svc, verdict>>
          /\ leaving \subseteq {t \in Services : loaded[t] # Nothing}
          /\ manager = "launchd" => \A t \in Services : loaded[t] = Nothing => proc[t] = Nothing
      BY <1>0, <1>4 DEF LateUnload, machine, MachineShape, ManagerKeeps
    <2>3. leaving' \subseteq leaving /\ leaving' \subseteq {t \in Services : loaded'[t] # Nothing}
      BY <2>1, <2>2
    <2>4. manager = "launchd" => \A t \in Services : loaded'[t] = Nothing => proc'[t] = Nothing
      BY <2>1, <2>2
    <2> QED BY <2>1, <2>2, <2>3, <2>4, LessRuns
  <1>5. ASSUME NEW s \in Services, ManagerRestarts(s) PROVE ServicesInv'
    <2>1. /\ svc.op = "none" /\ loaded[s] # Nothing /\ enabled[s]
          /\ UNCHANGED <<manager, planned, tampered, defn, loaded, leaving, enabled, svc, verdict>>
      BY <1>5 DEF ManagerRestarts, running, machine
    <2>2. proc' \in [Services -> Definitions] /\ \A t \in Services : proc'[t] = IF t = s THEN loaded[s] ELSE proc[t]
      BY <1>0, <1>5 DEF ManagerRestarts, MachineShape
    <2>3. MachineShape' /\ ManagerKeeps'
      BY <1>0, <2>1, <2>2 DEF MachineShape, ManagerKeeps
    <2>4. s \notin tampered => defn[s] # Nothing
      BY <1>0, <2>1 DEF NothingOrphaned, MachineShape
    <2>5. NothingOrphaned'
      BY <1>0, <2>1, <2>2, <2>4 DEF NothingOrphaned
    <2>6. InstalledMeansConverged'
      BY <2>1, <2>2 DEF ServicesInv, InstalledMeansConverged
    <2>7. RefusalWritesNothing' /\ CleanUninstall'
      BY <2>1, <2>2, <2>4 DEF ServicesInv, RefusalWritesNothing, CleanUninstall
    <2> QED BY <1>0, <2>1, <2>3, <2>5, <2>6, <2>7, BetweenCommands
  <1>6. ASSUME NEW s \in Services, Tamper(s) PROVE ServicesInv'
    <2>1. svc.op = "none" /\ verdict' = NoVerdict /\ UNCHANGED <<manager, planned, loaded, leaving, proc, svc>>
      BY <1>6 DEF Tamper, running
    <2>2. /\ defn' \in [Services -> Definitions] /\ enabled' \in [Services -> BOOLEAN] /\ tampered \subseteq tampered'
          /\ \A t \in Services \ tampered' : defn'[t] = defn[t] /\ (enabled'[t] => enabled[t])
      <3>1. CASE defn' = [defn EXCEPT ![s] = Nothing] /\ tampered' = tampered \cup {s} /\ UNCHANGED enabled
        BY <1>0, <3>1 DEF MachineShape
      <3>2. CASE defn' = [defn EXCEPT ![s] = Foreign] /\ tampered' = tampered \cup {s} /\ UNCHANGED enabled
        BY <1>0, <3>2 DEF MachineShape
      <3>3. CASE enabled' = [enabled EXCEPT ![s] = FALSE] /\ UNCHANGED <<defn, tampered>>
        BY <1>0, <3>3 DEF MachineShape
      <3> QED BY <1>6, <3>1, <3>2, <3>3 DEF Tamper
    <2>3. MachineShape' /\ ManagerKeeps'
      BY <1>0, <2>1, <2>2 DEF MachineShape, ManagerKeeps
    <2>4. NothingOrphaned'
      BY <1>0, <2>1, <2>2 DEF NothingOrphaned
    <2> QED BY <2>1, <2>3, <2>4, BetweenCommands, IdleIs
  <1> QED BY <1>1, <1>2, <1>3, <1>4, <1>5, <1>6

LEMMA ServicesStep == ServicesInv /\ [ServicesNext]_serviceVars => ServicesInv'
  <1> SUFFICES ASSUME ServicesInv, [ServicesNext]_serviceVars PROVE ServicesInv'
    OBVIOUS
  <1>1. CASE ServicesNext
    BY <1>1, BeginCommandStep, InstallWriteStep, InstallReloadStep, InstallEnableStep, InstallRestartStep,
       InstallBootstrapStep, StatusEntryStep, UninstallUnownedStep, UninstallDisableStep, UninstallInspectStep,
       UninstallBootoutStep, UninstallSettleStep, AroundServicesStep DEF ServicesNext
  <1>2. CASE UNCHANGED serviceVars
    <2>1. UNCHANGED <<manager, planned, defn, loaded, leaving, proc, enabled, svc, verdict, tampered>>
      BY <1>2 DEF serviceVars
    <2>2. ServicesShape' /\ StepsOfCommands' /\ ManagerKeeps'
      BY <2>1 DEF ServicesInv, ServicesShape, MachineShape, StepsOfCommands, ManagerKeeps
    <2>3. (svc'.op = "install" => InstallOK(svc)') /\ (svc'.op = "uninstall" => UninstallOK(svc)')
      BY <2>1 DEF ServicesInv, InstallOK, UninstallOK, Converged, officeServiceHealthy
    <2>4. InstalledMeansConverged' /\ NothingOrphaned' /\ RefusalWritesNothing' /\ CleanUninstall'
      BY <2>1 DEF ServicesInv, InstalledMeansConverged, NothingOrphaned, RefusalWritesNothing, CleanUninstall
    <2> QED BY <2>2, <2>3, <2>4 DEF ServicesInv
  <1> QED BY <1>1, <1>2

LEMMA ServicesImplies == ServicesInv => ServicesSafety
  <1> SUFFICES ASSUME ServicesInv PROVE ServicesSafety
    OBVIOUS
  <1>1. svc.todo \in Seq(Services)
    <2>1. svc.todo \in TodoLists \/ svc.todo = <<>>
      BY DEF ServicesInv, ServicesShape, Commands
    <2>2. svc.todo \in TodoLists => svc.todo \in Seq(Services)
      BY TodoIs
    <2>3. <<>> \in Seq(Services)
      OBVIOUS
    <2>4. CASE svc.todo = <<>>
      BY <2>3, <2>4, Zenon
    <2> QED BY <2>1, <2>2, <2>4, Zenon
  <1>2. svc.op # "none" => svc.todo # <<>>
    BY TodoIs DEF ServicesInv, StepsOfCommands
  <1>3. ServicesTypeOK
    BY <1>1, <1>2 DEF ServicesInv, ServicesShape, MachineShape, ServicesTypeOK, Verdicts
  <1> QED BY <1>3 DEF ServicesInv, ServicesSafety

-----------------------------------------------------------------------------
(* The operations of one Runtime, of which a behaviour is about one *)

\* THEOREM: whatever the budget, prices and answers of the run `operations`,
\* charges are sound (cost-accounting.service.ts).
THEOREM OperationsCharge == OperationsSpec => []CostSafety
  <1>1. OperationsInit => IInv
    BY InvariantInit DEF OperationsInit
  <1>2. IInv /\ [OperationsNext /\ UNCHANGED focus]_operationVars => IInv'
    <2> SUFFICES ASSUME IInv, [OperationsNext /\ UNCHANGED focus]_operationVars PROVE IInv'
      OBVIOUS
    <2>1. [Next]_vars
      BY DEF OperationsNext, operationVars
    <2> QED BY <2>1, InvariantStep
  <1>3. IInv => CostSafety
    BY DEF IInv, CostSafety
  <1> QED BY <1>1, <1>2, <1>3, PTL DEF OperationsSpec

\* THEOREM: the same of the run `operations`: however calls interleave, fail
\* and expire, the project budget is kept (cost-accounting.service.ts).
THEOREM OperationsKeepBudget == OperationsSpec => []BudgetHolds
  <1>1. OperationsInit => BudgetInv
    BY BudgetInitInv DEF OperationsInit
  <1>2. BudgetInv /\ [OperationsNext /\ UNCHANGED focus]_operationVars => BudgetInv'
    <2> SUFFICES ASSUME BudgetInv, [OperationsNext /\ UNCHANGED focus]_operationVars PROVE BudgetInv'
      OBVIOUS
    <2>1. [Next]_vars
      BY DEF OperationsNext, operationVars
    <2> QED BY <2>1, BudgetStep
  <1>3. BudgetInv => BudgetHolds
    BY DEF BudgetInv
  <1> QED BY <1>1, <1>2, <1>3, PTL DEF OperationsSpec

\* THEOREM: whatever the order in which hosts start, lose their socket and
\* stop, no host leaves the knowledge store open, and two serve only after the
\* socket of a live one was removed (bootstrap.ts, office-daemon.ts).
THEOREM HostsStartAndStop == OperationsSpec => []StartupHolds
  <1>1. OperationsInit => StartupInv
    BY StartupInitInv DEF OperationsInit
  <1>2. StartupInv /\ [OperationsNext /\ UNCHANGED focus]_operationVars => StartupInv'
    <2> SUFFICES ASSUME StartupInv, [OperationsNext /\ UNCHANGED focus]_operationVars
                 PROVE  StartupInv'
      OBVIOUS
    <2>1. [StartupNext]_startupVars
      BY DEF OperationsNext, operationVars
    <2> QED BY <2>1, StartupStep
  <1>3. StartupInv => StartupHolds
    BY StartupImplies DEF StartupHolds
  <1> QED BY <1>1, <1>2, <1>3, PTL DEF OperationsSpec

\* THEOREM: whatever callers admit at once and wherever a step of one fails,
\* every record was approved, every report is true, and no retry conflicts with
\* its own record (manage-knowledge-admission.ts).
THEOREM AdmissionIsSafe == OperationsSpec => []AdmissionHolds
  <1>1. OperationsInit => AdmissionInv
    BY KnowledgeInitInv DEF OperationsInit
  <1>2. AdmissionInv /\ [OperationsNext /\ UNCHANGED focus]_operationVars => AdmissionInv'
    <2> SUFFICES ASSUME AdmissionInv, [OperationsNext /\ UNCHANGED focus]_operationVars
                 PROVE  AdmissionInv'
      OBVIOUS
    <2>1. [KnowledgeNext]_knowledgeVars
      BY DEF OperationsNext, operationVars
    <2> QED BY <2>1, KnowledgeStep
  <1>3. AdmissionInv => AdmissionHolds
    BY KnowledgeImplies DEF AdmissionHolds
  <1> QED BY <1>1, <1>2, <1>3, PTL DEF OperationsSpec

\* No step of a Runtime takes a knowledge record back or rewrites it, the part
\* of MaintenanceSteps about admission (manage-knowledge-admission.ts).
THEOREM RecordsAreKept == OperationsSpec => [][RecordsKept]_knowledgeVars
  <1>1. OperationsInit => AdmissionInv
    BY KnowledgeInitInv DEF OperationsInit
  <1>2. [OperationsNext /\ UNCHANGED focus]_operationVars => [KnowledgeNext]_knowledgeVars
    BY DEF OperationsNext, operationVars
  <1>3. AdmissionInv /\ [KnowledgeNext]_knowledgeVars => AdmissionInv'
    BY KnowledgeStep
  <1>4. AdmissionInv /\ [KnowledgeNext]_knowledgeVars => [RecordsKept]_knowledgeVars
    BY KnowledgeKeepsRecords
  <1> QED BY <1>1, <1>2, <1>3, <1>4, PTL DEF OperationsSpec

\* THEOREM: whatever publishers of checkpoints crash, stall or race, no number
\* is published twice and nothing acknowledged or cited is lost, unless a
\* cleanup hit a live reservation or a pruned number was used again, and nobody
\* gives up without competition (checkpoint-store.ts).
THEOREM CheckpointsAreSafe == OperationsSpec => []CheckpointsHold
  <1>1. OperationsInit => CheckpointInv
    BY CheckpointInitInv DEF OperationsInit
  <1>2. CheckpointInv /\ [OperationsNext /\ UNCHANGED focus]_operationVars => CheckpointInv'
    <2> SUFFICES ASSUME CheckpointInv, [OperationsNext /\ UNCHANGED focus]_operationVars
                 PROVE  CheckpointInv'
      OBVIOUS
    <2>1. [CheckpointNext]_checkpointVars
      BY DEF OperationsNext, operationVars
    <2> QED BY <2>1, CheckpointStep
  <1>3. CheckpointInv => CheckpointsHold
    BY CheckpointImplies DEF CheckpointsHold
  <1> QED BY <1>1, <1>2, <1>3, PTL DEF OperationsSpec

\* THEOREM: wherever an update, a purge or a service command is interrupted, and
\* whatever upstream, user, manager and disk do meanwhile, what it reports is
\* true of the checkout, of the runtime home, of files, manager and processes
\* (local-distribution-update-adapter.ts, local-runtime-purge-adapter.ts,
\* systemd-service-manager.ts, launchd-service-manager.ts).
THEOREM ReportsAreTrue == OperationsSpec => []ReportsHold
  <1> DEFINE Inv == UpdateInv /\ PurgeInv /\ ServicesInv
  <1>1. OperationsInit => Inv
    BY UpdateInitInv, PurgeInitInv, ServicesInitInv DEF OperationsInit
  <1>2. Inv /\ [OperationsNext /\ UNCHANGED focus]_operationVars => Inv'
    <2> SUFFICES ASSUME Inv, [OperationsNext /\ UNCHANGED focus]_operationVars PROVE Inv'
      OBVIOUS
    <2>1. [UpdateNext]_updateVars /\ [PurgeNext]_purgeVars /\ [ServicesNext]_serviceVars
      BY DEF OperationsNext, operationVars
    <2> QED BY <2>1, UpdateStep, PurgeStep, ServicesStep
  <1>3. Inv => ReportsHold
    BY UpdateImplies, ServicesImplies DEF ReportsHold, PurgeInv
  <1> QED BY <1>1, <1>2, <1>3, PTL DEF OperationsSpec

\* THEOREM: no maintenance step moves the checkout but forward to the approved
\* revision, calls an update complete without its dependencies, removes what
\* was not in the approved plan, the database before the rest, or a knowledge
\* record (the same files; manage-knowledge-admission.ts).
THEOREM MaintenanceIsSafe == OperationsSpec => MaintenanceSteps
  <1> DEFINE Inv == UpdateInv /\ PurgeInv /\ AdmissionInv
  <1>1. OperationsInit => Inv
    BY UpdateInitInv, PurgeInitInv, KnowledgeInitInv DEF OperationsInit
  <1>2. [OperationsNext /\ UNCHANGED focus]_operationVars =>
          [UpdateNext]_updateVars /\ [PurgeNext]_purgeVars /\ [KnowledgeNext]_knowledgeVars
    BY DEF OperationsNext, operationVars
  <1>3. Inv /\ [OperationsNext /\ UNCHANGED focus]_operationVars => Inv'
    BY <1>2, UpdateStep, PurgeStep, KnowledgeStep
  <1>4. Inv /\ Inv' /\ [OperationsNext /\ UNCHANGED focus]_operationVars =>
          [/\ focus = "update" => OnlyApprovedFastForward /\ UpdatedIsComplete
           /\ focus = "purge" => RemovesOnlyThePlan /\ DatabaseLast /\ CompletePurgeLeavesOnlyPreserved
           /\ focus = "knowledge" => RecordsKept]_operationVars
    BY <1>2, UpdateMovesForward, PurgeKeepsToPlan, KnowledgeKeepsRecords
  <1> QED BY <1>1, <1>3, <1>4, PTL DEF OperationsSpec, MaintenanceSteps
=============================================================================
