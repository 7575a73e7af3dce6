-------------------------- MODULE ConnectorsProofs --------------------------
(***************************************************************************)
(* What holds of the connectors of MCConnectors for every set of requests, *)
(* files, grants, stages, credential names, secrets and commands.          *)
(*                                                                         *)
(* ControlledActions: none of the safety properties is inductive: what a   *)
(* caller holding a lease is about to write is right only because its      *)
(* phase says what has happened to the rows and the files since            *)
(* (CallersMatchRows).                                                     *)
(*                                                                         *)
(* ProviderCredentials: what is loaded was set by somebody because every   *)
(* readable file holds a value given for its name (FilesAreGiven), which   *)
(* rests on the temporary file of a command being its own, whatever the    *)
(* other commands do and whenever power is lost (CommandsOwnTheirs).       *)
(*                                                                         *)
(* ModelRouting: an acknowledged override stays in the file because what a *)
(* command alone in flight would restore is as good as the file itself     *)
(* (AloneRestores), and a route is sound because every snapshot is, from   *)
(* whichever file it was loaded (SoundSnapshot).                           *)
(*                                                                         *)
(* GatewayWorker: what an execution has spent and holds follows from its   *)
(* step (PaysAsItGoes); the run keeps the role's limit because an          *)
(* execution about to reserve stands under it (LowersOnly).                *)
(***************************************************************************)
EXTENDS MCConnectors, TLAPS, FiniteSetTheorems, WellFoundedInduction

-----------------------------------------------------------------------------
(* ControlledActions *)

\* What the phase of a lease holder says of the rows and of the files.
CallersMatchRows ==
    \A r \in Requests :
        /\ phase[r] \in {"invoking", "simulated"} => approval[r] = "none"
        /\ phase[r] = "invoking" => status[r] = IF mutation(r) THEN "simulating" ELSE "executing"
        /\ phase[r] = "simulated" => mutation(r) /\ status[r] = "simulating"
        /\ phase[r] \in {"leased"} \cup Outcomes => execution[r] = "executing"
        /\ phase[r] \in {"leased", "failed"} => applied[r] = 0
        /\ phase[r] = "completed" => applied[r] = 1
        /\ approval[r] = "none" => execution[r] = "none"
        /\ execution[r] = "none" => applied[r] = 0
        /\ approval[r] # "none" => mutation(r)
        /\ approval[r] = "approved" => status[r] = "approval_pending" \/ status[r] = execution[r]
        /\ approval[r] = "pending" => status[r] = "approval_pending"
        /\ status[r] = "approval_pending" => execution[r] = "none" /\ phase[r] = "none"
        /\ execution[r] \in Outcomes => phase[r] = "none"
        /\ status[r] \in {"absent", "authorized", "denied"} => phase[r] = "none"

\* The inductive invariant.
IInv == TypeOK /\ CallersMatchRows /\ LedgersAgree /\ AppliedOnce /\ OutcomeTruth

\* A mutation turns files into files.
LEMMA EffectTyped ==
    ASSUME NEW r \in Requests, files \in [Paths -> Contents]
    PROVE effect(r) \in [Paths -> Contents]
  BY ActionsAssumption DEF effect

\* A mutation changes no file but those it was asked to touch.
LEMMA EffectTouches ==
    ASSUME NEW r \in Requests, NEW p \in Paths, files \in [Paths -> Contents],
           effect(r)[p] # files[p]
    PROVE p \in touched(r)
  BY ActionsAssumption DEF effect, touched

LEMMA InvariantInit == ASSUME Init PROVE IInv
  <1> USE ActionsAssumption
  <1>1. TypeOK
    <2>1. resourceActive \in BOOLEAN /\ agentEnabled \in BOOLEAN /\ stageOpen \in BOOLEAN
      BY DEF Init
    <2> QED BY <2>1 DEF Init, TypeOK, Statuses, Outcomes
  <1>2. CallersMatchRows /\ LedgersAgree /\ AppliedOnce /\ OutcomeTruth
    BY DEF Init, CallersMatchRows, LedgersAgree, AppliedOnce, OutcomeTruth, Outcomes
  <1> QED BY <1>1, <1>2 DEF IInv

\* Every step preserves the invariant.
LEMMA InvariantStep == ASSUME IInv, [Next]_vars PROVE IInv'
  <1> USE ActionsAssumption DEF IInv, Outcomes, Statuses
  <1>1. ASSUME NEW r \in Requests, request(r) PROVE IInv'
    <2>1. TypeOK'
      BY <1>1 DEF request, matching, currentStage, TypeOK, authority, rows
    <2>2. CallersMatchRows'
      BY <1>1 DEF request, matching, currentStage, TypeOK, CallersMatchRows, mutation,
          LedgersAgree, AppliedOnce, authority, rows
    <2>3. LedgersAgree'
      <3>1. PICK s \in {"authorized", "denied"} : status' = [status EXCEPT ![r] = s]
        BY <1>1 DEF request
      <3>2. status[r] = "absent" /\ execution' = execution /\ approval' = approval
        BY <1>1 DEF request
      <3>3. execution[r] = "none" /\ approval[r] \notin {"approved", "rejected"}
        BY <3>2 DEF TypeOK, LedgersAgree, CallersMatchRows
      <3> QED BY <3>1, <3>2, <3>3 DEF TypeOK, LedgersAgree, mutation
    <2>4. AppliedOnce'
      BY <1>1 DEF request, matching, currentStage, TypeOK, AppliedOnce, mutation,
          CallersMatchRows, LedgersAgree, authority, rows
    <2>5. OutcomeTruth'
      BY <1>1 DEF request, matching, currentStage, TypeOK, OutcomeTruth, mutation,
          CallersMatchRows, LedgersAgree, AppliedOnce, authority, rows
    <2> QED BY <2>1, <2>2, <2>3, <2>4, <2>5
  <1>2. ASSUME NEW r \in Requests, acquireAuthorizationLease(r) PROVE IInv'
    <2>1. TypeOK'
      BY <1>2 DEF acquireAuthorizationLease, TypeOK, authority, rows
    <2>2. CallersMatchRows'
      BY <1>2 DEF acquireAuthorizationLease, TypeOK, CallersMatchRows, mutation,
          LedgersAgree, AppliedOnce, authority, rows
    <2>3. LedgersAgree'
      <3>1. PICK s \in {"simulating", "executing"} :
              status' = [status EXCEPT ![r] = s] /\ (s = "executing" => ~mutation(r))
        BY <1>2 DEF acquireAuthorizationLease
      <3>2. status[r] = "authorized" /\ execution' = execution /\ approval' = approval
        BY <1>2 DEF acquireAuthorizationLease
      <3>3. execution[r] = "none" /\ approval[r] \notin {"approved", "rejected"}
        BY <3>2 DEF TypeOK, LedgersAgree, CallersMatchRows
      <3> QED BY <3>1, <3>2, <3>3 DEF TypeOK, LedgersAgree, mutation
    <2>4. AppliedOnce'
      BY <1>2 DEF acquireAuthorizationLease, TypeOK, AppliedOnce, mutation,
          CallersMatchRows, LedgersAgree, authority, rows
    <2>5. OutcomeTruth'
      BY <1>2 DEF acquireAuthorizationLease, TypeOK, OutcomeTruth, mutation,
          CallersMatchRows, LedgersAgree, AppliedOnce, authority, rows
    <2> QED BY <2>1, <2>2, <2>3, <2>4, <2>5
  <1>3. ASSUME NEW r \in Requests, invokeRead(r) PROVE IInv'
    <2>1. TypeOK'
      BY <1>3 DEF invokeRead, TypeOK, authority, rows
    <2>2. CallersMatchRows'
      BY <1>3 DEF invokeRead, TypeOK, CallersMatchRows, mutation, LedgersAgree,
          AppliedOnce, authority, rows
    <2>3. LedgersAgree'
      BY <1>3 DEF invokeRead, TypeOK, LedgersAgree, mutation, CallersMatchRows,
          AppliedOnce, authority, rows
    <2>4. AppliedOnce'
      BY <1>3 DEF invokeRead, TypeOK, AppliedOnce, mutation, CallersMatchRows,
          LedgersAgree, authority, rows
    <2>5. OutcomeTruth'
      BY <1>3 DEF invokeRead, TypeOK, OutcomeTruth, mutation, CallersMatchRows,
          LedgersAgree, AppliedOnce, authority, rows
    <2> QED BY <2>1, <2>2, <2>3, <2>4, <2>5
  <1>4. ASSUME NEW r \in Requests, simulate(r) PROVE IInv'
    <2>1. TypeOK'
      BY <1>4 DEF simulate, TypeOK, authority, rows
    <2>2. CallersMatchRows'
      BY <1>4 DEF simulate, TypeOK, CallersMatchRows, mutation, LedgersAgree, AppliedOnce,
          authority, rows
    <2>3. LedgersAgree'
      BY <1>4 DEF simulate, TypeOK, LedgersAgree, mutation, CallersMatchRows, AppliedOnce,
          authority, rows
    <2>4. AppliedOnce'
      BY <1>4 DEF simulate, TypeOK, AppliedOnce, mutation, CallersMatchRows, LedgersAgree,
          authority, rows
    <2>5. OutcomeTruth'
      BY <1>4 DEF simulate, TypeOK, OutcomeTruth, mutation, CallersMatchRows,
          LedgersAgree, AppliedOnce, authority, rows
    <2> QED BY <2>1, <2>2, <2>3, <2>4, <2>5
  <1>5. ASSUME NEW r \in Requests, recordSimulation(r) PROVE IInv'
    <2>1. TypeOK'
      BY <1>5 DEF recordSimulation, TypeOK, authority, rows
    <2>2. CallersMatchRows'
      BY <1>5 DEF recordSimulation, TypeOK, CallersMatchRows, mutation, LedgersAgree,
          AppliedOnce, authority, rows
    <2>3. LedgersAgree'
      BY <1>5 DEF recordSimulation, TypeOK, LedgersAgree, mutation, CallersMatchRows,
          AppliedOnce, authority, rows
    <2>4. AppliedOnce'
      BY <1>5 DEF recordSimulation, TypeOK, AppliedOnce, mutation, CallersMatchRows,
          LedgersAgree, authority, rows
    <2>5. OutcomeTruth'
      BY <1>5 DEF recordSimulation, TypeOK, OutcomeTruth, mutation, CallersMatchRows,
          LedgersAgree, AppliedOnce, authority, rows
    <2> QED BY <2>1, <2>2, <2>3, <2>4, <2>5
  <1>6. ASSUME NEW r \in Requests, simulationFails(r) PROVE IInv'
    <2>1. TypeOK'
      BY <1>6 DEF simulationFails, TypeOK, authority, rows
    <2>2. CallersMatchRows'
      BY <1>6 DEF simulationFails, TypeOK, CallersMatchRows, mutation, LedgersAgree,
          AppliedOnce, authority, rows
    <2>3. LedgersAgree'
      BY <1>6 DEF simulationFails, TypeOK, LedgersAgree, mutation, CallersMatchRows,
          AppliedOnce, authority, rows
    <2>4. AppliedOnce'
      BY <1>6 DEF simulationFails, TypeOK, AppliedOnce, mutation, CallersMatchRows,
          LedgersAgree, authority, rows
    <2>5. OutcomeTruth'
      BY <1>6 DEF simulationFails, TypeOK, OutcomeTruth, mutation, CallersMatchRows,
          LedgersAgree, AppliedOnce, authority, rows
    <2> QED BY <2>1, <2>2, <2>3, <2>4, <2>5
  <1>7. ASSUME NEW r \in Requests, NEW d \in {"approved", "rejected"}, decide(r, d) PROVE IInv'
    <2>1. TypeOK'
      BY <1>7 DEF decide, TypeOK, authority, rows
    <2>2. CallersMatchRows'
      BY <1>7 DEF decide, TypeOK, CallersMatchRows, mutation, LedgersAgree, AppliedOnce,
          authority, rows
    <2>3. LedgersAgree'
      BY <1>7 DEF decide, TypeOK, LedgersAgree, mutation, CallersMatchRows, AppliedOnce,
          authority, rows
    <2>4. AppliedOnce'
      BY <1>7 DEF decide, TypeOK, AppliedOnce, mutation, CallersMatchRows, LedgersAgree,
          authority, rows
    <2>5. OutcomeTruth'
      BY <1>7 DEF decide, TypeOK, OutcomeTruth, mutation, CallersMatchRows, LedgersAgree,
          AppliedOnce, authority, rows
    <2> QED BY <2>1, <2>2, <2>3, <2>4, <2>5
  <1>8. ASSUME NEW r \in Requests, acquireLease(r) PROVE IInv'
    <2>1. TypeOK'
      BY <1>8 DEF acquireLease, TypeOK, authority, rows
    <2>2. CallersMatchRows'
      BY <1>8 DEF acquireLease, TypeOK, CallersMatchRows, mutation, LedgersAgree,
          AppliedOnce, authority, rows
    <2>3. LedgersAgree'
      BY <1>8 DEF acquireLease, TypeOK, LedgersAgree, mutation, CallersMatchRows,
          AppliedOnce, authority, rows
    <2>4. AppliedOnce'
      BY <1>8 DEF acquireLease, TypeOK, AppliedOnce, mutation, CallersMatchRows,
          LedgersAgree, authority, rows
    <2>5. OutcomeTruth'
      BY <1>8 DEF acquireLease, TypeOK, OutcomeTruth, mutation, CallersMatchRows,
          LedgersAgree, AppliedOnce, authority, rows
    <2> QED BY <2>1, <2>2, <2>3, <2>4, <2>5
  <1>9. ASSUME NEW r \in Requests, executeMutation(r) PROVE IInv'
    <2>1. TypeOK'
      <3>1. files' \in [Paths -> Contents]
        BY <1>9, EffectTyped DEF executeMutation, TypeOK
      <3> QED BY <1>9, <3>1 DEF executeMutation, TypeOK, authority, rows
    <2>2. CallersMatchRows'
      BY <1>9 DEF executeMutation, effect, TypeOK, CallersMatchRows, mutation,
          LedgersAgree, AppliedOnce, authority, rows
    <2>3. LedgersAgree'
      BY <1>9 DEF executeMutation, effect, TypeOK, LedgersAgree, mutation,
          CallersMatchRows, AppliedOnce, authority, rows
    <2>4. AppliedOnce'
      BY <1>9 DEF executeMutation, effect, TypeOK, AppliedOnce, mutation,
          CallersMatchRows, LedgersAgree, authority, rows
    <2>5. OutcomeTruth'
      BY <1>9 DEF executeMutation, effect, TypeOK, OutcomeTruth, mutation,
          CallersMatchRows, LedgersAgree, AppliedOnce, authority, rows
    <2> QED BY <2>1, <2>2, <2>3, <2>4, <2>5
  <1>10. ASSUME NEW r \in Requests, mutationRefused(r) PROVE IInv'
    <2>1. TypeOK'
      BY <1>10 DEF mutationRefused, TypeOK, authority, rows
    <2>2. CallersMatchRows'
      BY <1>10 DEF mutationRefused, TypeOK, CallersMatchRows, mutation, LedgersAgree,
          AppliedOnce, authority, rows
    <2>3. LedgersAgree'
      BY <1>10 DEF mutationRefused, TypeOK, LedgersAgree, mutation, CallersMatchRows,
          AppliedOnce, authority, rows
    <2>4. AppliedOnce'
      BY <1>10 DEF mutationRefused, TypeOK, AppliedOnce, mutation, CallersMatchRows,
          LedgersAgree, authority, rows
    <2>5. OutcomeTruth'
      BY <1>10 DEF mutationRefused, TypeOK, OutcomeTruth, mutation, CallersMatchRows,
          LedgersAgree, AppliedOnce, authority, rows
    <2> QED BY <2>1, <2>2, <2>3, <2>4, <2>5
  <1>11. ASSUME NEW r \in Requests, finish(r) PROVE IInv'
    <2>1. TypeOK'
      BY <1>11 DEF finish, TypeOK, authority, rows
    <2>2. CallersMatchRows'
      BY <1>11 DEF finish, TypeOK, CallersMatchRows, mutation, LedgersAgree, AppliedOnce,
          authority, rows
    <2>3. LedgersAgree'
      BY <1>11 DEF finish, TypeOK, LedgersAgree, mutation, CallersMatchRows, AppliedOnce,
          authority, rows
    <2>4. AppliedOnce'
      BY <1>11 DEF finish, TypeOK, AppliedOnce, mutation, CallersMatchRows, LedgersAgree,
          authority, rows
    <2>5. OutcomeTruth'
      BY <1>11 DEF finish, TypeOK, OutcomeTruth, mutation, CallersMatchRows, LedgersAgree,
          AppliedOnce, authority, rows
    <2> QED BY <2>1, <2>2, <2>3, <2>4, <2>5
  <1>12. ASSUME NEW r \in Requests, finishWithFallback(r) PROVE IInv'
    <2>1. TypeOK'
      BY <1>12 DEF finishWithFallback, TypeOK, authority, rows
    <2>2. CallersMatchRows'
      BY <1>12 DEF finishWithFallback, TypeOK, CallersMatchRows, mutation, LedgersAgree,
          AppliedOnce, authority, rows
    <2>3. LedgersAgree'
      BY <1>12 DEF finishWithFallback, TypeOK, LedgersAgree, mutation, CallersMatchRows,
          AppliedOnce, authority, rows
    <2>4. AppliedOnce'
      BY <1>12 DEF finishWithFallback, TypeOK, AppliedOnce, mutation, CallersMatchRows,
          LedgersAgree, authority, rows
    <2>5. OutcomeTruth'
      BY <1>12 DEF finishWithFallback, TypeOK, OutcomeTruth, mutation, CallersMatchRows,
          LedgersAgree, AppliedOnce, authority, rows
    <2> QED BY <2>1, <2>2, <2>3, <2>4, <2>5
  <1>13. ASSUME NEW r \in Requests, abandon(r) PROVE IInv'
    <2>1. TypeOK'
      BY <1>13 DEF abandon, TypeOK, authority, rows
    <2>2. CallersMatchRows'
      BY <1>13 DEF abandon, TypeOK, CallersMatchRows, mutation, LedgersAgree, AppliedOnce,
          authority, rows
    <2>3. LedgersAgree'
      BY <1>13 DEF abandon, TypeOK, LedgersAgree, mutation, CallersMatchRows, AppliedOnce,
          authority, rows
    <2>4. AppliedOnce'
      BY <1>13 DEF abandon, TypeOK, AppliedOnce, mutation, CallersMatchRows, LedgersAgree,
          authority, rows
    <2>5. OutcomeTruth'
      BY <1>13 DEF abandon, TypeOK, OutcomeTruth, mutation, CallersMatchRows, LedgersAgree,
          AppliedOnce, authority, rows
    <2> QED BY <2>1, <2>2, <2>3, <2>4, <2>5
  <1>14. ASSUME NEW g \in Grants, createGrant(g) PROVE IInv'
    <2>1. TypeOK'
      BY <1>14 DEF createGrant, TypeOK, authority, rows
    <2>2. CallersMatchRows'
      BY <1>14 DEF createGrant, TypeOK, CallersMatchRows, mutation, authority, rows
    <2>3. LedgersAgree'
      BY <1>14 DEF createGrant, TypeOK, LedgersAgree, mutation, authority, rows
    <2>4. AppliedOnce'
      BY <1>14 DEF createGrant, TypeOK, AppliedOnce, mutation, authority, rows
    <2>5. OutcomeTruth'
      BY <1>14 DEF createGrant, TypeOK, OutcomeTruth, mutation, authority, rows
    <2> QED BY <2>1, <2>2, <2>3, <2>4, <2>5
  <1>15. ASSUME NEW g \in Grants, endGrant(g) PROVE IInv'
    <2>1. TypeOK'
      BY <1>15 DEF endGrant, TypeOK, authority, rows
    <2>2. CallersMatchRows'
      BY <1>15 DEF endGrant, TypeOK, CallersMatchRows, mutation, authority, rows
    <2>3. LedgersAgree'
      BY <1>15 DEF endGrant, TypeOK, LedgersAgree, mutation, authority, rows
    <2>4. AppliedOnce'
      BY <1>15 DEF endGrant, TypeOK, AppliedOnce, mutation, authority, rows
    <2>5. OutcomeTruth'
      BY <1>15 DEF endGrant, TypeOK, OutcomeTruth, mutation, authority, rows
    <2> QED BY <2>1, <2>2, <2>3, <2>4, <2>5
  <1>16. ASSUME disableResource PROVE IInv'
    <2>1. TypeOK'
      <3>1. resourceActive' \in BOOLEAN
        BY <1>16 DEF disableResource, TypeOK
      <3> QED BY <1>16, <3>1 DEF disableResource, TypeOK, authority, rows
    <2>2. CallersMatchRows'
      BY <1>16 DEF disableResource, TypeOK, CallersMatchRows, mutation, authority, rows
    <2>3. LedgersAgree'
      BY <1>16 DEF disableResource, TypeOK, LedgersAgree, mutation, authority, rows
    <2>4. AppliedOnce'
      BY <1>16 DEF disableResource, TypeOK, AppliedOnce, mutation, authority, rows
    <2>5. OutcomeTruth'
      BY <1>16 DEF disableResource, TypeOK, OutcomeTruth, mutation, authority, rows
    <2> QED BY <2>1, <2>2, <2>3, <2>4, <2>5
  <1>17. ASSUME setAgentEnabled PROVE IInv'
    <2>1. TypeOK'
      <3>1. agentEnabled' \in BOOLEAN
        BY <1>17 DEF setAgentEnabled, TypeOK
      <3> QED BY <1>17, <3>1 DEF setAgentEnabled, TypeOK, authority, rows
    <2>2. CallersMatchRows'
      BY <1>17 DEF setAgentEnabled, TypeOK, CallersMatchRows, mutation, authority, rows
    <2>3. LedgersAgree'
      BY <1>17 DEF setAgentEnabled, TypeOK, LedgersAgree, mutation, authority, rows
    <2>4. AppliedOnce'
      BY <1>17 DEF setAgentEnabled, TypeOK, AppliedOnce, mutation, authority, rows
    <2>5. OutcomeTruth'
      BY <1>17 DEF setAgentEnabled, TypeOK, OutcomeTruth, mutation, authority, rows
    <2> QED BY <2>1, <2>2, <2>3, <2>4, <2>5
  <1>18. ASSUME movePipeline PROVE IInv'
    <2>1. TypeOK'
      <3>1. stageOpen' \in BOOLEAN
        BY <1>18 DEF movePipeline, TypeOK
      <3> QED BY <1>18, <3>1 DEF movePipeline, TypeOK, authority, rows
    <2>2. CallersMatchRows'
      BY <1>18 DEF movePipeline, TypeOK, CallersMatchRows, mutation, authority, rows
    <2>3. LedgersAgree'
      BY <1>18 DEF movePipeline, TypeOK, LedgersAgree, mutation, authority, rows
    <2>4. AppliedOnce'
      BY <1>18 DEF movePipeline, TypeOK, AppliedOnce, mutation, authority, rows
    <2>5. OutcomeTruth'
      BY <1>18 DEF movePipeline, TypeOK, OutcomeTruth, mutation, authority, rows
    <2> QED BY <2>1, <2>2, <2>3, <2>4, <2>5
  <1>19. ASSUME NEW p \in Paths, editFile(p) PROVE IInv'
    <2>1. TypeOK'
      BY <1>19 DEF editFile, TypeOK, authority, rows
    <2>2. CallersMatchRows'
      BY <1>19 DEF editFile, TypeOK, CallersMatchRows, mutation, authority, rows
    <2>3. LedgersAgree'
      BY <1>19 DEF editFile, TypeOK, LedgersAgree, mutation, authority, rows
    <2>4. AppliedOnce'
      BY <1>19 DEF editFile, TypeOK, AppliedOnce, mutation, authority, rows
    <2>5. OutcomeTruth'
      BY <1>19 DEF editFile, TypeOK, OutcomeTruth, mutation, authority, rows
    <2> QED BY <2>1, <2>2, <2>3, <2>4, <2>5
  <1>20. ASSUME UNCHANGED vars PROVE IInv'
    BY <1>20 DEF vars, TypeOK, CallersMatchRows, LedgersAgree, AppliedOnce, OutcomeTruth,
          mutation, authority, rows
  <1> QED
    BY <1>1, <1>2, <1>3, <1>4, <1>5, <1>6, <1>7, <1>8, <1>9, <1>10,
       <1>11, <1>12, <1>13, <1>14, <1>15, <1>16, <1>17, <1>18, <1>19, <1>20
    DEF Next

\* The invariant holds in every reachable state.
THEOREM Invariance == Spec => []IInv
  BY InvariantInit, InvariantStep, PTL DEF Spec

\* Every variable keeps its type, for every set of requests, files and grants.
THEOREM TypeCorrect == Spec => []TypeOK
  BY Invariance, PTL DEF IInv

\* A mutation takes effect at most once, and only when approved.
THEOREM AtMostOneAttempt == Spec => []AppliedOnce
  BY Invariance, PTL DEF IInv

\* A recorded outcome is true of the files.
THEOREM OutcomesAreTrue == Spec => []OutcomeTruth
  BY Invariance, PTL DEF IInv

\* Request, approval and execution rows agree.
THEOREM LedgersConsistent == Spec => []LedgersAgree
  BY Invariance, PTL DEF IInv

\* Mutations take effect on the contents their approver was shown.
THEOREM ApprovedContents == Spec => AppliedAsApproved
  <1> DEFINE P == \A r \in Requests :
        /\ applied'[r] # applied[r] =>
            \A p \in Paths : files'[p] # files[p] => files[p] = simulation[r][p]
        /\ approval[r] # "none" => simulation'[r] = simulation[r]
  <1>1. ASSUME IInv, Next PROVE P
    <2>1. ASSUME NEW r \in Requests, executeMutation(r) PROVE P
      <3>1. ASSUME NEW p \in Paths, files'[p] # files[p] PROVE files[p] = simulation[r][p]
        BY <1>1, <2>1, <3>1, EffectTouches
        DEF executeMutation, verifyPreconditions, IInv, TypeOK
      <3>2. ASSUME NEW q \in Requests, applied'[q] # applied[q] PROVE q = r
        BY <1>1, <2>1, <3>2 DEF executeMutation, IInv, TypeOK
      <3> QED BY <2>1, <3>1, <3>2 DEF executeMutation, rows
    <2>2. ASSUME NEW r \in Requests, simulate(r) PROVE P
      BY <1>1, <2>2 DEF simulate, IInv, TypeOK, CallersMatchRows
    <2>3. CASE simulation' = simulation /\ applied' = applied
      BY <2>3
    <2> QED
      BY <1>1, <2>1, <2>2, <2>3
      DEF Next, request, acquireAuthorizationLease, invokeRead, recordSimulation,
          simulationFails, decide, acquireLease, mutationRefused, finish,
          finishWithFallback, abandon, createGrant, endGrant, disableResource,
          setAgentEnabled, movePipeline, editFile, rows
  <1>2. ASSUME IInv, Next PROVE AppliesAsApproved
    BY <1>1, <1>2 DEF AppliesAsApproved
  <1>3. ASSUME IInv, [Next]_vars PROVE [AppliesAsApproved]_vars
    BY <1>2, <1>3
  <1> QED BY Invariance, <1>3, PTL DEF Spec, AppliedAsApproved

\* Leases are given only under the authority the request was granted under.
THEOREM LeasesAreAuthorised == Spec => LeasedUnderItsAuthority
  <1> DEFINE P == \A r \in Requests :
        phase[r] = "none" /\ phase'[r] \in {"invoking", "leased"} =>
            /\ resourceActive /\ agentEnabled
            /\ {g \in Grants : grant[g] = "valid" /\ r \in Covers[g]} = matched[r]
            /\ r \in Staged => stageOpen /\ stage = boundStage[r]
  <1>1. ASSUME IInv, Next PROVE P
    <2>1. ASSUME NEW r \in Requests, phase[r] = "none", phase'[r] \in {"invoking", "leased"}
          PROVE acquireAuthorizationLease(r) \/ acquireLease(r)
      BY <1>1, <2>1
      DEF Next, request, acquireAuthorizationLease, invokeRead, simulate,
          recordSimulation, simulationFails, decide, acquireLease, executeMutation,
          mutationRefused, finish, finishWithFallback, abandon, createGrant,
          endGrant, disableResource, setAgentEnabled, movePipeline, editFile,
          IInv, TypeOK, Outcomes
    <2>2. ASSUME NEW r \in Requests, fresh(r)
          PROVE /\ resourceActive /\ agentEnabled
                /\ {g \in Grants : grant[g] = "valid" /\ r \in Covers[g]} = matched[r]
                /\ r \in Staged => stageOpen /\ stage = boundStage[r]
      BY <2>2 DEF fresh, allowed, matching, pipelineAllows, currentStage
    <2> QED BY <2>1, <2>2 DEF acquireAuthorizationLease, acquireLease
  <1>2. ASSUME IInv, Next PROVE LeasesUnderAuthority
    BY <1>1, <1>2 DEF LeasesUnderAuthority
  <1>3. ASSUME IInv, [Next]_vars PROVE [LeasesUnderAuthority]_vars
    BY <1>2, <1>3
  <1> QED BY Invariance, <1>3, PTL DEF Spec, LeasedUnderItsAuthority

\* The ledgers and the files agree in every reachable state.
THEOREM ActionsAreSafe == Spec => []ActionSafety
  BY TypeCorrect, AtMostOneAttempt, OutcomesAreTrue, LedgersConsistent, PTL DEF ActionSafety

\* No step changes unapproved contents or leases without authority.
THEOREM ActionStepsHold == Spec => ActionSteps
  BY ApprovedContents, LeasesAreAuthorised, PTL
  DEF ActionSteps, AppliedAsApproved, LeasedUnderItsAuthority

-----------------------------------------------------------------------------
(* ProviderCredentials *)

Entries ==
    [kind : {"none", "file", "exposed", "link", "directory"},
     holds : Secrets \cup {"none", "planted", "malformed", "partial"}, flushed : BOOLEAN]

\* A readable file at a name holds a value that was given for it.
GivenThere(e, n) == e.kind = "file" /\ e.holds \in Secrets => e.holds \in given[n]

CredentialTypes ==
    /\ credentialDirectory \in {"missing", "private", "insecure"}
    /\ entry \in [CredentialNames -> Entries] /\ durable \in [CredentialNames -> Entries]
    /\ temporaries \subseteq [by : CredentialCommands \cup {"nobody"}, name : CredentialNames, content : Entries]
    /\ process \in [CredentialCommands ->
                      [step : {"idle", "ensure", "replaceable", "create", "write", "rename", "sync",
                               "inspect", "unlink"},
                       verb : {"none", "set", "remove"}, name : CredentialNames \cup {"none"},
                       secret : Secrets \cup {"none"}]]
    /\ given \in [CredentialNames -> SUBSET Secrets]
    /\ stored \in [CredentialNames -> Secrets \cup {"unknown"}]
    /\ ran \in 0 .. MaxCredentialCommands /\ mishaps \in 0 .. MaxMishaps

\* What is, or may come back, at a name was given for it or cannot be read.
FilesAreGiven == \A n \in CredentialNames : GivenThere(entry[n], n) /\ GivenThere(durable[n], n)

\* A command under way is about a name; what it is about to write was given for
\* it; and between its creation and its rename it has one temporary file.
CommandsOwnTheirs ==
    \A p \in CredentialCommands :
        /\ process[p].step # "idle" => process[p].name \in CredentialNames
        /\ process[p].step \in {"ensure", "replaceable", "create", "write", "rename"}
             => process[p].secret \in given[process[p].name]
        /\ process[p].step = "write" => \E t \in temporaries : mine(p) = {t}
        /\ process[p].step = "rename"
             => mine(p) = {[by |-> p, name |-> process[p].name, content |-> written(p)]}
        /\ process[p].step \notin {"write", "rename"} => mine(p) = {}

\* While a value counts as stored, it is there and nobody is removing it.
StoredIsKept ==
    \A n \in CredentialNames :
        stored[n] # "unknown" =>
            /\ entry[n].kind = "file" /\ entry[n].holds = stored[n]
            /\ \A p \in CredentialCommands : process[p].name = n => process[p].step \notin {"inspect", "unlink"}

\* The inductive invariant of credentials.
CredentialInv ==
    /\ CredentialTypes /\ FilesAreGiven /\ CommandsOwnTheirs /\ StoredIsKept
    /\ LoadedIsWhole /\ SourcesNeverMix

\* What a managed Runtime loads is whole and given for the name.
LEMMA LoadsWhatWasGiven ==
    ASSUME CredentialTypes, FilesAreGiven, NEW n \in CredentialNames,
           withRuntimeHomeCredentialBytes(n).state = "present"
    PROVE /\ withRuntimeHomeCredentialBytes(n).value \in given[n]
          /\ withRuntimeHomeCredentialBytes(n).value \in Secrets
  <1>1. credentialDirectory = "private" /\ entry[n].kind = "file" /\ entry[n].holds \in Secrets
    BY DEF CredentialTypes, Entries, withRuntimeHomeCredentialBytes, MissingCredential, Unusable,
        Present, wellFormed
  <1>2. withRuntimeHomeCredentialBytes(n) = Present(entry[n].holds)
    BY <1>1 DEF withRuntimeHomeCredentialBytes, wellFormed
  <1> QED BY <1>1, <1>2 DEF Present, FilesAreGiven, GivenThere

\* A Runtime that starts mixes no sources, whatever the directory holds.
LEMMA LoadingIsSound ==
    ASSUME CredentialTypes, FilesAreGiven,
           NEW environment \in [source : {"none", "runtime_home", "other"}, ambient : BOOLEAN],
           snapshot' = loadProviderCredentials(environment), UNCHANGED given
    PROVE LoadedIsWhole' /\ SourcesNeverMix'
  <1> SUFFICES ASSUME NEW n \in CredentialNames, snapshot'.credentials[n].state = "present"
               PROVE /\ snapshot'.source = "runtime_home" => snapshot'.credentials[n].value \in given'[n]
                     /\ \/ snapshot'.source = "none" /\ snapshot'.credentials[n].value = "ambient"
                             /\ snapshot'.ambient
                        \/ snapshot'.source = "runtime_home" /\ snapshot'.credentials[n].value # "ambient"
    BY DEF LoadedIsWhole, SourcesNeverMix
  <1>1. /\ snapshot'.source = environment.source /\ snapshot'.ambient = environment.ambient
        /\ snapshot'.credentials[n] = loadCredential(environment, n)
    BY DEF loadProviderCredentials
  <1>2. CASE environment.source = "other"
    BY <1>1, <1>2 DEF loadCredential, Unusable
  <1>3. CASE environment.source = "none"
    BY <1>1, <1>3 DEF loadCredential, ambientCredential, Present, MissingCredential
  <1>4. CASE environment.source = "runtime_home"
    BY <1>1, <1>4, LoadsWhatWasGiven, CredentialAssumption DEF loadCredential
  <1> QED BY <1>2, <1>3, <1>4

\* What the Runtime holds stays sound while values are only ever added.
LEMMA LoadedStays ==
    ASSUME LoadedIsWhole, SourcesNeverMix, UNCHANGED snapshot,
           \A n \in CredentialNames : given[n] \subseteq given'[n]
    PROVE LoadedIsWhole' /\ SourcesNeverMix'
  BY DEF LoadedIsWhole, SourcesNeverMix

LEMMA CredentialInitInv == CredentialInit => CredentialInv
  <1> SUFFICES ASSUME CredentialInit PROVE CredentialInv
    OBVIOUS
  <1>1. CredentialTypes
    BY CredentialAssumption DEF CredentialInit, CredentialTypes, Entries, NoEntry, Resting
  <1>2. FilesAreGiven
    BY DEF CredentialInit, FilesAreGiven, GivenThere, NoEntry
  <1>3. CommandsOwnTheirs
    BY DEF CredentialInit, CommandsOwnTheirs, Resting, mine
  <1>4. StoredIsKept
    BY DEF CredentialInit, StoredIsKept
  <1>5. LoadedIsWhole /\ SourcesNeverMix
    <2> SUFFICES ASSUME NEW n \in CredentialNames, snapshot.credentials[n].state = "present"
                 PROVE snapshot.source = "none" /\ snapshot.credentials[n].value = "ambient" /\ snapshot.ambient
      BY DEF LoadedIsWhole, SourcesNeverMix
    <2>1. withRuntimeHomeCredentialBytes(n).state # "present"
      BY DEF CredentialInit, withRuntimeHomeCredentialBytes, NoEntry, MissingCredential, Unusable
    <2>2. /\ snapshot.source = hostEnvironment.source /\ snapshot.ambient = hostEnvironment.ambient
          /\ snapshot.credentials[n] = loadCredential(hostEnvironment, n)
      BY DEF CredentialInit, loadProviderCredentials
    <2> QED BY <2>1, <2>2 DEF CredentialInit, loadCredential, ambientCredential, Present, Unusable,
          MissingCredential
  <1> QED BY <1>1, <1>2, <1>3, <1>4, <1>5 DEF CredentialInv

\* A step of one command that leaves the files and what was stored alone.
LEMMA FilesStay ==
    ASSUME CredentialInv, UNCHANGED <<entry, durable, stored, snapshot>>,
           \A n \in CredentialNames : given[n] \subseteq given'[n],
           \A p \in CredentialCommands, n \in CredentialNames :
               process'[p].step \in {"inspect", "unlink"} /\ process'[p].name = n
                 => process[p].step \in {"inspect", "unlink"} /\ process[p].name = n
    PROVE FilesAreGiven' /\ StoredIsKept' /\ LoadedIsWhole' /\ SourcesNeverMix'
  <1>1. FilesAreGiven'
    BY DEF CredentialInv, FilesAreGiven, GivenThere
  <1>2. StoredIsKept'
    BY DEF CredentialInv, StoredIsKept
  <1> QED BY <1>1, <1>2, LoadedStays DEF CredentialInv

LEMMA BeginSetStep ==
    ASSUME CredentialInv, NEW p \in CredentialCommands, NEW n \in CredentialNames, NEW v \in Secrets,
           BeginSet(p, n, v)
    PROVE CredentialInv'
  <1>1. CredentialTypes'
    BY CredentialAssumption DEF BeginSet, others, CredentialInv, CredentialTypes
  <1>2. \A m \in CredentialNames : given[m] \subseteq given'[m]
    BY DEF BeginSet, CredentialInv, CredentialTypes
  <1>3. /\ process'[p] = [step |-> "ensure", verb |-> "set", name |-> n, secret |-> v]
        /\ \A q \in CredentialCommands \ {p} : process'[q] = process[q]
        /\ v \in given'[n]
    BY DEF BeginSet, CredentialInv, CredentialTypes
  <1>4. CommandsOwnTheirs'
    <2>1. process[p].step = "idle" /\ temporaries' = temporaries
      BY DEF BeginSet, Resting
    <2>2. ASSUME NEW q \in CredentialCommands PROVE mine(q)' = mine(q)
      BY <2>1 DEF mine
    <2>3. ASSUME NEW q \in CredentialCommands \ {p} PROVE written(q)' = written(q)
      BY <1>3 DEF written
    <2> QED BY <1>2, <1>3, <2>1, <2>2, <2>3 DEF CredentialInv, CommandsOwnTheirs, CredentialTypes
  <1>5. FilesAreGiven'
    BY <1>2 DEF BeginSet, CredentialInv, FilesAreGiven, GivenThere
  <1>6. StoredIsKept'
    BY <1>3 DEF BeginSet, CredentialInv, CredentialTypes, StoredIsKept
  <1>7. LoadedIsWhole' /\ SourcesNeverMix'
    BY <1>2, LoadedStays DEF BeginSet, others, CredentialInv
  <1> QED BY <1>1, <1>4, <1>5, <1>6, <1>7 DEF CredentialInv

LEMMA BeginRemoveStep ==
    ASSUME CredentialInv, NEW p \in CredentialCommands, NEW n \in CredentialNames, BeginRemove(p, n)
    PROVE CredentialInv'
  <1>1. CredentialTypes'
    BY CredentialAssumption DEF BeginRemove, others, CredentialInv, CredentialTypes
  <1>2. /\ process'[p] = [step |-> "inspect", verb |-> "remove", name |-> n, secret |-> "none"]
        /\ \A q \in CredentialCommands \ {p} : process'[q] = process[q]
        /\ process[p].step = "idle"
    BY DEF BeginRemove, CredentialInv, CredentialTypes, Resting
  <1>3. CommandsOwnTheirs'
    BY <1>2 DEF BeginRemove, CredentialInv, CommandsOwnTheirs, CredentialTypes, mine, written
  <1>4. FilesAreGiven'
    BY DEF BeginRemove, CredentialInv, FilesAreGiven, GivenThere
  <1>5. StoredIsKept'
    BY <1>2 DEF BeginRemove, CredentialInv, CredentialTypes, StoredIsKept
  <1>6. LoadedIsWhole' /\ SourcesNeverMix'
    BY LoadedStays DEF BeginRemove, others, CredentialInv
  <1> QED BY <1>1, <1>3, <1>4, <1>5, <1>6 DEF CredentialInv

\* A command goes on without touching files, or is refused.
LEMMA GoesOn ==
    ASSUME CredentialInv, NEW p \in CredentialCommands,
           UNCHANGED <<entry, durable, temporaries, given, stored, ran, mishaps, hostEnvironment, snapshot>>,
           credentialDirectory' \in {"missing", "private", "insecure"},
           \/ refuses(p)
           \/ \E from \in {"ensure", "replaceable"} :
                process[p].step = from /\ goesTo(p, IF from = "ensure" THEN "replaceable" ELSE "create")
           \/ process[p].step = "inspect" /\ goesTo(p, "unlink"),
           process[p].step \notin {"write", "rename"}
    PROVE CredentialInv'
  <1>1. CredentialTypes'
    BY DEF refuses, goesTo, Resting, CredentialInv, CredentialTypes
  <1>2. /\ \A q \in CredentialCommands \ {p} : process'[q] = process[q]
        /\ \/ process'[p] = Resting
           \/ process[p].step = "ensure" /\ process'[p] = [process[p] EXCEPT !.step = "replaceable"]
           \/ process[p].step = "replaceable" /\ process'[p] = [process[p] EXCEPT !.step = "create"]
           \/ process[p].step = "inspect" /\ process'[p] = [process[p] EXCEPT !.step = "unlink"]
    BY DEF refuses, goesTo, CredentialInv, CredentialTypes
  <1>3. CommandsOwnTheirs'
    <2> SUFFICES ASSUME NEW q \in CredentialCommands
          PROVE /\ process'[q].step # "idle" => process'[q].name \in CredentialNames
                /\ process'[q].step \in {"ensure", "replaceable", "create", "write", "rename"}
                     => process'[q].secret \in given'[process'[q].name]
                /\ process'[q].step = "write" => \E t \in temporaries' : mine(q)' = {t}
                /\ process'[q].step = "rename"
                     => mine(q)' = {[by |-> q, name |-> process'[q].name, content |-> written(q)']}
                /\ process'[q].step \notin {"write", "rename"} => mine(q)' = {}
      BY DEF CommandsOwnTheirs
    <2>1. mine(q)' = mine(q)
      BY DEF mine
    <2>2. CASE q = p
      BY <1>2, <2>1, <2>2 DEF CredentialInv, CommandsOwnTheirs, CredentialTypes, Resting
    <2>3. CASE q # p
      BY <1>2, <2>1, <2>3 DEF CredentialInv, CommandsOwnTheirs, written
    <2> QED BY <2>2, <2>3
  <1>4. \A q \in CredentialCommands, n \in CredentialNames :
            process'[q].step \in {"inspect", "unlink"} /\ process'[q].name = n
              => process[q].step \in {"inspect", "unlink"} /\ process[q].name = n
    BY <1>2 DEF Resting, CredentialInv, CredentialTypes
  <1>5. FilesAreGiven' /\ StoredIsKept' /\ LoadedIsWhole' /\ SourcesNeverMix'
    BY <1>4, FilesStay
  <1> QED BY <1>1, <1>3, <1>5 DEF CredentialInv

LEMMA CreateStep == ASSUME CredentialInv, NEW p \in CredentialCommands, CreateTemporary(p) PROVE CredentialInv'
  <1> DEFINE n == process[p].name
  <1>t. PICK t : t = [by |-> p, name |-> n, content |-> File("partial", FALSE)]
    OBVIOUS
  <1>0. /\ process[p].step = "create" /\ n \in CredentialNames /\ mine(p) = {}
        /\ UNCHANGED <<credentialDirectory, entry, durable, given, stored, ran, mishaps, hostEnvironment, snapshot>>
    BY DEF CreateTemporary, CredentialInv, CommandsOwnTheirs, others
  <1>1. CASE refuses(p) /\ UNCHANGED temporaries
    BY <1>0, <1>1, GoesOn DEF CredentialInv, CredentialTypes
  <1>2. CASE temporaries' = temporaries \cup {t} /\ goesTo(p, "write")
    <2>1. t \in [by : CredentialCommands \cup {"nobody"}, name : CredentialNames, content : Entries]
      BY <1>0, <1>t DEF File, Entries
    <2>2. CredentialTypes'
      BY <1>0, <1>2, <2>1 DEF goesTo, CredentialInv, CredentialTypes
    <2>3. /\ \A q \in CredentialCommands \ {p} : process'[q] = process[q]
          /\ process'[p] = [process[p] EXCEPT !.step = "write"]
          /\ process'[p].step = "write" /\ process'[p].name = n /\ process'[p].secret = process[p].secret
      BY <1>2 DEF goesTo, CredentialInv, CredentialTypes
    <2>4. mine(p)' = {t} /\ \A q \in CredentialCommands \ {p} : mine(q)' = mine(q)
      <3>1. t.by = p
        BY <1>t
      <3>2. \A u \in temporaries : u.by # p
        BY <1>0 DEF mine
      <3>3. mine(p)' = {u \in temporaries \cup {t} : u.by = p}
        BY <1>2 DEF mine
      <3>4. mine(p)' = {t}
        BY <3>1, <3>2, <3>3
      <3> QED BY <1>2, <3>1, <3>4 DEF mine
    <2>5. CommandsOwnTheirs'
      <3>1. t \in temporaries'
        BY <1>2
      <3>2. ASSUME NEW q \in CredentialCommands \ {p} PROVE written(q)' = written(q)
        BY <2>3 DEF written
      <3>3. ASSUME NEW q \in CredentialCommands \ {p}, process[q].step = "write"
            PROVE \E u \in temporaries' : mine(q)' = {u}
        BY <1>2, <2>4, <3>3 DEF CredentialInv, CommandsOwnTheirs
      <3>4. ASSUME NEW q \in CredentialCommands \ {p}, process'[q].step = "rename"
            PROVE mine(q)' = {[by |-> q, name |-> process'[q].name, content |-> written(q)']}
        BY <2>3, <2>4, <3>2, <3>4 DEF CredentialInv, CommandsOwnTheirs
      <3> QED BY <1>0, <2>3, <2>4, <3>1, <3>3, <3>4 DEF CredentialInv, CommandsOwnTheirs
    <2>6. \A q \in CredentialCommands, m \in CredentialNames :
              process'[q].step \in {"inspect", "unlink"} /\ process'[q].name = m
                => process[q].step \in {"inspect", "unlink"} /\ process[q].name = m
      BY <2>3
    <2>7. FilesAreGiven' /\ StoredIsKept' /\ LoadedIsWhole' /\ SourcesNeverMix'
      BY <1>0, <2>6, FilesStay
    <2> QED BY <2>2, <2>5, <2>7 DEF CredentialInv
  <1> QED BY <1>1, <1>2, <1>t DEF CreateTemporary

\* A command that ends removes its temporary file.
LEMMA EndsClean ==
    ASSUME CredentialInv, NEW p \in CredentialCommands, refuses(p), temporaries' = temporaries \ mine(p),
           UNCHANGED <<credentialDirectory, entry, durable, given, stored, ran, mishaps, hostEnvironment, snapshot>>
    PROVE CredentialInv'
  <1>1. CredentialTypes'
    BY DEF refuses, Resting, CredentialInv, CredentialTypes
  <1>2. /\ \A q \in CredentialCommands \ {p} : process'[q] = process[q]
        /\ process'[p] = Resting
    BY DEF refuses, CredentialInv, CredentialTypes
  <1>3. mine(p)' = {} /\ \A q \in CredentialCommands \ {p} : mine(q)' = mine(q) /\ written(q)' = written(q)
    BY <1>2 DEF mine, written
  <1>4. CommandsOwnTheirs'
    <2>1. ASSUME NEW q \in CredentialCommands \ {p}, process[q].step = "write"
          PROVE \E u \in temporaries' : mine(q)' = {u}
      <3>1. PICK u \in temporaries : mine(q) = {u}
        BY <2>1 DEF CredentialInv, CommandsOwnTheirs
      <3>2. u \notin mine(p)
        BY <3>1 DEF mine
      <3> QED BY <1>3, <3>1, <3>2
    <2> QED BY <1>2, <1>3, <2>1 DEF Resting, CredentialInv, CommandsOwnTheirs
  <1>5. \A q \in CredentialCommands, m \in CredentialNames :
            process'[q].step \in {"inspect", "unlink"} /\ process'[q].name = m
              => process[q].step \in {"inspect", "unlink"} /\ process[q].name = m
    BY <1>2 DEF Resting
  <1>6. FilesAreGiven' /\ StoredIsKept' /\ LoadedIsWhole' /\ SourcesNeverMix'
    BY <1>5, FilesStay
  <1> QED BY <1>1, <1>4, <1>6 DEF CredentialInv

LEMMA WriteStep == ASSUME CredentialInv, NEW p \in CredentialCommands, WriteTemporary(p) PROVE CredentialInv'
  <1> DEFINE n == process[p].name
  <1>t. PICK t : t = [by |-> p, name |-> n, content |-> written(p)]
    OBVIOUS
  <1>0. /\ process[p].step = "write" /\ n \in CredentialNames
        /\ process[p].secret \in given[n] /\ process[p].secret \in Secrets
        /\ UNCHANGED <<credentialDirectory, entry, durable, given, stored, ran, mishaps, hostEnvironment, snapshot>>
    BY DEF WriteTemporary, CredentialInv, CommandsOwnTheirs, CredentialTypes, others
  <1>1. CASE cleanUp(p) /\ refuses(p)
    BY <1>0, <1>1, EndsClean DEF cleanUp
  <1>2. CASE temporaries' = (temporaries \ mine(p)) \cup {t} /\ goesTo(p, "rename")
    <2>1. t \in [by : CredentialCommands \cup {"nobody"}, name : CredentialNames, content : Entries]
      BY <1>0, <1>t DEF written, File, Entries
    <2>2. CredentialTypes'
      BY <1>0, <1>2, <2>1 DEF goesTo, CredentialInv, CredentialTypes
    <2>3. /\ \A q \in CredentialCommands \ {p} : process'[q] = process[q]
          /\ process'[p].step = "rename" /\ process'[p].name = n /\ process'[p].secret = process[p].secret
      BY <1>2 DEF goesTo, CredentialInv, CredentialTypes
    <2>4. mine(p)' = {t} /\ \A q \in CredentialCommands \ {p} : mine(q)' = mine(q)
      <3>1. t.by = p
        BY <1>t
      <3> QED BY <1>2, <3>1 DEF mine
    <2>5. \A q \in CredentialCommands : written(q)' = written(q)
      BY <2>3 DEF written
    <2>6. CommandsOwnTheirs'
      <3>1. ASSUME NEW q \in CredentialCommands \ {p}, process[q].step = "write"
            PROVE \E u \in temporaries' : mine(q)' = {u}
        <4>1. PICK u \in temporaries : mine(q) = {u}
          BY <3>1 DEF CredentialInv, CommandsOwnTheirs
        <4>2. u \notin mine(p)
          BY <4>1 DEF mine
        <4> QED BY <1>2, <2>4, <4>1, <4>2
      <3>2. ASSUME NEW q \in CredentialCommands \ {p}, process'[q].step = "rename"
            PROVE mine(q)' = {[by |-> q, name |-> process'[q].name, content |-> written(q)']}
        BY <2>3, <2>4, <2>5, <3>2 DEF CredentialInv, CommandsOwnTheirs
      <3>3. mine(p)' = {[by |-> p, name |-> process'[p].name, content |-> written(p)']}
        BY <1>t, <2>3, <2>4, <2>5
      <3> QED BY <1>0, <2>3, <2>4, <3>1, <3>2, <3>3 DEF CredentialInv, CommandsOwnTheirs
    <2>7. \A q \in CredentialCommands, m \in CredentialNames :
              process'[q].step \in {"inspect", "unlink"} /\ process'[q].name = m
                => process[q].step \in {"inspect", "unlink"} /\ process[q].name = m
      BY <2>3
    <2>8. FilesAreGiven' /\ StoredIsKept' /\ LoadedIsWhole' /\ SourcesNeverMix'
      BY <1>0, <2>7, FilesStay
    <2> QED BY <2>2, <2>6, <2>8 DEF CredentialInv
  <1> QED BY <1>1, <1>2, <1>t DEF WriteTemporary

LEMMA RenameStep == ASSUME CredentialInv, NEW p \in CredentialCommands, RenameTemporary(p) PROVE CredentialInv'
  <1> DEFINE n == process[p].name
             content == (CHOOSE t \in mine(p) : TRUE).content
  <1>1. /\ process[p].step = "rename" /\ n \in CredentialNames
        /\ process[p].secret \in given[n] /\ process[p].secret \in Secrets
        /\ temporaries' = temporaries \ mine(p)
        /\ UNCHANGED <<credentialDirectory, durable, given, ran, mishaps, hostEnvironment, snapshot>>
    BY DEF RenameTemporary, cleanUp, others, CredentialInv, CommandsOwnTheirs, CredentialTypes
  <1>2. content = File(process[p].secret, TRUE)
    <2>1. mine(p) = {[by |-> p, name |-> n, content |-> written(p)]}
      BY <1>1 DEF CredentialInv, CommandsOwnTheirs
    <2>2. \A t \in mine(p) : t.content = written(p)
      BY <2>1
    <2>3. (CHOOSE t \in mine(p) : TRUE) \in mine(p)
      BY <2>1
    <2> QED BY <2>2, <2>3 DEF written
  <1>3. CASE refuses(p) /\ UNCHANGED <<entry, stored>>
    BY <1>1, <1>3, EndsClean
  <1>4. CASE /\ replaces(n, content)
             /\ stored' = [stored EXCEPT ![n] = IF \E q \in CredentialCommands \ {p} : process[q].name = n
                                                THEN "unknown" ELSE process[p].secret]
             /\ goesTo(p, "sync")
    <2>1. entry' = [entry EXCEPT ![n] = File(process[p].secret, TRUE)]
      BY <1>2, <1>4 DEF replaces
    <2> HIDE DEF content
    <2>2. File(process[p].secret, TRUE) \in Entries
      BY <1>1 DEF File, Entries
    <2>3. CredentialTypes'
      BY <1>1, <1>4, <2>1, <2>2 DEF goesTo, CredentialInv, CredentialTypes
    <2>4. /\ \A q \in CredentialCommands \ {p} : process'[q] = process[q]
          /\ process'[p].step = "sync" /\ process'[p].name = n
      BY <1>4 DEF goesTo, CredentialInv, CredentialTypes
    <2>5. mine(p)' = {} /\ \A q \in CredentialCommands \ {p} : mine(q)' = mine(q) /\ written(q)' = written(q)
      BY <1>1, <2>4 DEF mine, written
    <2>6. CommandsOwnTheirs'
      <3>1. ASSUME NEW q \in CredentialCommands \ {p}, process[q].step = "write"
            PROVE \E u \in temporaries' : mine(q)' = {u}
        <4>1. PICK u \in temporaries : mine(q) = {u}
          BY <3>1 DEF CredentialInv, CommandsOwnTheirs
        <4>2. u \notin mine(p)
          BY <4>1 DEF mine
        <4> QED BY <1>1, <2>5, <4>1, <4>2
      <3> QED BY <1>1, <2>4, <2>5, <3>1 DEF CredentialInv, CommandsOwnTheirs
    <2>7. FilesAreGiven'
      <3> SUFFICES ASSUME NEW m \in CredentialNames
                   PROVE GivenThere(entry[m], m)' /\ GivenThere(durable[m], m)'
        BY DEF FilesAreGiven
      <3>1. GivenThere(durable[m], m)'
        BY <1>1 DEF CredentialInv, FilesAreGiven, GivenThere
      <3>2. CASE m = n
        BY <1>1, <2>1, <3>1, <3>2 DEF GivenThere, File, CredentialInv, CredentialTypes
      <3>3. CASE m # n
        BY <1>1, <2>1, <3>1, <3>3 DEF GivenThere, CredentialInv, FilesAreGiven, CredentialTypes
      <3> QED BY <3>2, <3>3
    <2>8. StoredIsKept'
      <3> SUFFICES ASSUME NEW m \in CredentialNames, stored'[m] # "unknown"
                   PROVE /\ entry'[m].kind = "file" /\ entry'[m].holds = stored'[m]
                         /\ \A q \in CredentialCommands :
                              process'[q].name = m => process'[q].step \notin {"inspect", "unlink"}
        BY DEF StoredIsKept
      <3>1. CASE m = n
        <4>1. ~\E q \in CredentialCommands \ {p} : process[q].name = n
          BY <1>4, <3>1 DEF CredentialInv, CredentialTypes
        <4>2. stored'[m] = process[p].secret /\ entry'[m] = File(process[p].secret, TRUE)
          BY <1>4, <2>1, <3>1, <4>1 DEF CredentialInv, CredentialTypes
        <4> QED BY <2>4, <3>1, <4>1, <4>2 DEF File
      <3>2. CASE m # n
        BY <1>4, <2>1, <2>4, <3>2 DEF CredentialInv, CredentialTypes, StoredIsKept
      <3> QED BY <3>1, <3>2
    <2>9. LoadedIsWhole' /\ SourcesNeverMix'
      BY <1>1, LoadedStays DEF CredentialInv
    <2> QED BY <2>3, <2>6, <2>7, <2>8, <2>9 DEF CredentialInv
  <1> QED BY <1>3, <1>4 DEF RenameTemporary

LEMMA SyncStep == ASSUME CredentialInv, NEW p \in CredentialCommands, SyncDirectory(p) PROVE CredentialInv'
  <1>1. /\ process[p].step = "sync" /\ mine(p) = {} /\ refuses(p) /\ durable' \in {durable, entry}
        /\ UNCHANGED <<credentialDirectory, entry, temporaries, given, stored, ran, mishaps,
                       hostEnvironment, snapshot>>
    BY DEF SyncDirectory, others, CredentialInv, CommandsOwnTheirs
  <1>2. CredentialTypes'
    BY <1>1 DEF refuses, Resting, CredentialInv, CredentialTypes
  <1>3. /\ \A q \in CredentialCommands \ {p} : process'[q] = process[q]
        /\ process'[p] = Resting
    BY <1>1 DEF refuses, CredentialInv, CredentialTypes
  <1>4. CommandsOwnTheirs'
    <2>1. \A q \in CredentialCommands : mine(q)' = mine(q)
      BY <1>1 DEF mine
    <2>2. \A q \in CredentialCommands \ {p} : written(q)' = written(q)
      BY <1>3 DEF written
    <2> QED BY <1>1, <1>3, <2>1, <2>2 DEF CredentialInv, CommandsOwnTheirs, Resting
  <1>5. FilesAreGiven' /\ StoredIsKept'
    BY <1>1, <1>3 DEF CredentialInv, FilesAreGiven, GivenThere, StoredIsKept, Resting
  <1>6. LoadedIsWhole' /\ SourcesNeverMix'
    BY <1>1, LoadedStays DEF CredentialInv
  <1> QED BY <1>2, <1>4, <1>5, <1>6 DEF CredentialInv

LEMMA UnlinkStep == ASSUME CredentialInv, NEW p \in CredentialCommands, Unlink(p) PROVE CredentialInv'
  <1> DEFINE n == process[p].name
  <1>1. /\ process[p].step = "unlink" /\ mine(p) = {} /\ n \in CredentialNames
        /\ UNCHANGED <<credentialDirectory, durable, temporaries, given, stored, ran, mishaps,
                       hostEnvironment, snapshot>>
    BY DEF Unlink, others, CredentialInv, CommandsOwnTheirs
  <1>2. CASE refuses(p) /\ UNCHANGED entry
    BY <1>1, <1>2, GoesOn DEF CredentialInv, CredentialTypes
  <1>3. CASE entry' = [entry EXCEPT ![n] = NoEntry] /\ goesTo(p, "sync")
    <2>0. NoEntry \in Entries
      BY DEF NoEntry, Entries
    <2>1. CredentialTypes'
      BY <1>1, <1>3, <2>0 DEF goesTo, CredentialInv, CredentialTypes
    <2>2. /\ \A q \in CredentialCommands \ {p} : process'[q] = process[q]
          /\ process'[p].step = "sync" /\ process'[p].name = n
      BY <1>3 DEF goesTo, CredentialInv, CredentialTypes
    <2>3. CommandsOwnTheirs'
      BY <1>1, <2>2 DEF CredentialInv, CommandsOwnTheirs, mine, written
    <2>4. FilesAreGiven'
      BY <1>1, <1>3 DEF CredentialInv, CredentialTypes, FilesAreGiven, GivenThere, NoEntry
    <2>5. stored[n] = "unknown"
      BY <1>1 DEF CredentialInv, StoredIsKept
    <2>6. StoredIsKept'
      BY <1>1, <1>3, <2>2, <2>5 DEF CredentialInv, CredentialTypes, StoredIsKept
    <2>7. LoadedIsWhole' /\ SourcesNeverMix'
      BY <1>1, LoadedStays DEF CredentialInv
    <2> QED BY <2>1, <2>3, <2>4, <2>6, <2>7 DEF CredentialInv
  <1> QED BY <1>2, <1>3 DEF Unlink

\* A command that is killed leaves its temporary file to nobody.
LEMMA KillStep == ASSUME CredentialInv, NEW p \in CredentialCommands, KillCommand(p) PROVE CredentialInv'
  <1>1. /\ UNCHANGED <<credentialDirectory, entry, durable, given, stored, ran, hostEnvironment, snapshot>>
        /\ process' = [process EXCEPT ![p] = Resting] /\ mishaps' \in 0 .. MaxMishaps
        /\ temporaries' = (temporaries \ mine(p)) \cup {orphaned(t) : t \in mine(p)}
    BY CredentialAssumption DEF KillCommand, happens, others, CredentialInv, CredentialTypes
  <1>2. \A t \in temporaries :
          /\ orphaned(t) \in [by : CredentialCommands \cup {"nobody"}, name : CredentialNames, content : Entries]
          /\ orphaned(t).by = "nobody"
    BY DEF orphaned, CredentialInv, CredentialTypes
  <1>3. CredentialTypes'
    <2>1. mine(p) \subseteq temporaries
      BY DEF mine
    <2>2. temporaries' \subseteq [by : CredentialCommands \cup {"nobody"}, name : CredentialNames, content : Entries]
      BY <1>1, <1>2, <2>1 DEF CredentialInv, CredentialTypes
    <2> QED BY <1>1, <2>2 DEF Resting, CredentialInv, CredentialTypes
  <1>4. /\ \A q \in CredentialCommands \ {p} : process'[q] = process[q]
        /\ process'[p] = Resting
    BY <1>1 DEF CredentialInv, CredentialTypes
  <1>5. /\ mine(p)' = {}
        /\ \A q \in CredentialCommands \ {p} : mine(q)' = mine(q) /\ written(q)' = written(q)
    <2>1. \A q \in CredentialCommands : q # "nobody"
      BY CredentialAssumption
    <2>2. ASSUME NEW q \in CredentialCommands PROVE mine(q)' = {t \in temporaries \ mine(p) : t.by = q}
      <3>1. \A t \in {orphaned(u) : u \in mine(p)} : t.by = "nobody"
        BY <1>2 DEF mine
      <3> QED BY <1>1, <2>1, <3>1 DEF mine
    <2>3. \A q \in CredentialCommands \ {p} : written(q)' = written(q)
      BY <1>4 DEF written
    <2> QED BY <2>2, <2>3 DEF mine
  <1>6. CommandsOwnTheirs'
    <2>1. ASSUME NEW q \in CredentialCommands \ {p}, process[q].step = "write"
          PROVE \E u \in temporaries' : mine(q)' = {u}
      <3>1. PICK u \in temporaries : mine(q) = {u}
        BY <2>1 DEF CredentialInv, CommandsOwnTheirs
      <3>2. u \notin mine(p)
        BY <3>1 DEF mine
      <3> QED BY <1>1, <1>5, <3>1, <3>2
    <2> QED BY <1>1, <1>4, <1>5, <2>1 DEF CredentialInv, CommandsOwnTheirs, Resting
  <1>7. \A q \in CredentialCommands, m \in CredentialNames :
            process'[q].step \in {"inspect", "unlink"} /\ process'[q].name = m
              => process[q].step \in {"inspect", "unlink"} /\ process[q].name = m
    BY <1>4 DEF Resting
  <1>8. FilesAreGiven' /\ StoredIsKept' /\ LoadedIsWhole' /\ SourcesNeverMix'
    BY <1>1, <1>7, FilesStay
  <1> QED BY <1>3, <1>6, <1>8 DEF CredentialInv

\* Power comes back to old or short files, never to somebody else's.
LEMMA PowerStep == ASSUME CredentialInv, LosePower PROVE CredentialInv'
  <1>1. PICK e \in [CredentialNames -> UNION {afterPowerLoss(entry[n]) \cup {durable[n]} : n \in CredentialNames}] :
          /\ \A n \in CredentialNames : e[n] \in afterPowerLoss(entry[n]) \cup {durable[n]}
          /\ entry' = e /\ durable' = e
    BY DEF LosePower
  <1>2. /\ UNCHANGED <<credentialDirectory, given, ran, hostEnvironment, snapshot>>
        /\ process' = [p \in CredentialCommands |-> Resting] /\ mishaps' \in 0 .. MaxMishaps
        /\ temporaries' = {orphaned(t) : t \in temporaries}
        /\ stored' = [n \in CredentialNames |-> "unknown"]
    BY CredentialAssumption DEF LosePower, happens, others, CredentialInv, CredentialTypes
  <1>3. ASSUME NEW n \in CredentialNames PROVE entry'[n] \in Entries /\ GivenThere(entry[n], n)'
    <2>1. /\ entry[n] \in Entries /\ durable[n] \in Entries
          /\ GivenThere(entry[n], n) /\ GivenThere(durable[n], n)
      BY DEF CredentialInv, CredentialTypes, FilesAreGiven
    <2>2. [entry[n] EXCEPT !.holds = IF entry[n].flushed THEN @ ELSE "partial"] \in Entries
      BY <2>1 DEF Entries
    <2>3. GivenThere([entry[n] EXCEPT !.holds = IF entry[n].flushed THEN @ ELSE "partial"], n)
      BY <2>1, CredentialAssumption DEF Entries, GivenThere
    <2>4. entry'[n] \in {entry[n], [entry[n] EXCEPT !.holds = IF entry[n].flushed THEN @ ELSE "partial"], durable[n]}
      BY <1>1 DEF afterPowerLoss
    <2> QED BY <1>2, <2>1, <2>2, <2>3, <2>4 DEF GivenThere
  <1>4. \A t \in temporaries :
          /\ orphaned(t) \in [by : CredentialCommands \cup {"nobody"}, name : CredentialNames, content : Entries]
          /\ orphaned(t).by = "nobody"
    BY DEF orphaned, CredentialInv, CredentialTypes
  <1>5. CredentialTypes'
    <2>1. entry' \in [CredentialNames -> Entries] /\ durable' = entry'
      BY <1>1, <1>3
    <2>2. temporaries' \subseteq [by : CredentialCommands \cup {"nobody"}, name : CredentialNames, content : Entries]
      BY <1>2, <1>4
    <2> QED BY <1>2, <2>1, <2>2 DEF Resting, CredentialInv, CredentialTypes
  <1>6. CommandsOwnTheirs'
    <2>1. \A q \in CredentialCommands : process'[q] = Resting /\ q # "nobody"
      BY <1>2, CredentialAssumption
    <2>2. \A q \in CredentialCommands : mine(q)' = {}
      BY <1>2, <1>4, <2>1 DEF mine
    <2> QED BY <2>1, <2>2 DEF CommandsOwnTheirs, Resting
  <1>7. FilesAreGiven' /\ StoredIsKept'
    BY <1>1, <1>2, <1>3 DEF FilesAreGiven, StoredIsKept
  <1>8. LoadedIsWhole' /\ SourcesNeverMix'
    BY <1>2, LoadedStays DEF CredentialInv
  <1> QED BY <1>5, <1>6, <1>7, <1>8 DEF CredentialInv

\* What a hand leaves at a name was given to nobody.
LEMMA TamperStep ==
    ASSUME CredentialInv, NEW n \in CredentialNames, NEW e \in Tampered, Tamper(n, e) PROVE CredentialInv'
  <1>1. /\ UNCHANGED <<credentialDirectory, temporaries, process, given, ran, hostEnvironment, snapshot>>
        /\ entry' = [entry EXCEPT ![n] = e] /\ durable' = [durable EXCEPT ![n] = e]
        /\ stored' = [stored EXCEPT ![n] = "unknown"] /\ mishaps' \in 0 .. MaxMishaps
    BY CredentialAssumption DEF Tamper, happens, others, CredentialInv, CredentialTypes
  <1>2. e \in Entries /\ ~(e.kind = "file" /\ e.holds \in Secrets)
    <2>1. CASE e = NoEntry
      BY <2>1 DEF NoEntry, Entries
    <2>2. CASE e = File("malformed", TRUE)
      BY <2>2, CredentialAssumption DEF File, Entries
    <2>3. CASE e \in {[kind |-> k, holds |-> "planted", flushed |-> TRUE] : k \in {"exposed", "link", "directory"}}
      <3>1. PICK k \in {"exposed", "link", "directory"} :
              e = [kind |-> k, holds |-> "planted", flushed |-> TRUE]
        BY <2>3
      <3> QED BY <3>1 DEF Entries
    <2> QED BY <2>1, <2>2, <2>3 DEF Tampered
  <1>3. CredentialTypes'
    BY <1>1, <1>2 DEF CredentialInv, CredentialTypes
  <1>4. CommandsOwnTheirs'
    BY <1>1 DEF CredentialInv, CommandsOwnTheirs, mine, written
  <1>5. FilesAreGiven' /\ StoredIsKept'
    BY <1>1, <1>2 DEF CredentialInv, CredentialTypes, FilesAreGiven, GivenThere, StoredIsKept
  <1>6. LoadedIsWhole' /\ SourcesNeverMix'
    BY <1>1, LoadedStays DEF CredentialInv
  <1> QED BY <1>3, <1>4, <1>5, <1>6 DEF CredentialInv

LEMMA CredentialStep == CredentialInv /\ [CredentialNext]_credentialVars => CredentialInv'
  <1> SUFFICES ASSUME CredentialInv, [CredentialNext]_credentialVars PROVE CredentialInv'
    OBVIOUS
  <1>1. ASSUME NEW p \in CredentialCommands, EnsureDirectory(p) PROVE CredentialInv'
    <2>1. /\ process[p].step = "ensure" /\ (refuses(p) \/ goesTo(p, "replaceable"))
          /\ credentialDirectory' \in {"missing", "private", "insecure"}
          /\ UNCHANGED <<entry, durable, temporaries, given, stored, ran, mishaps, hostEnvironment, snapshot>>
      BY <1>1 DEF EnsureDirectory, others, CredentialInv, CredentialTypes
    <2> QED BY <2>1, GoesOn
  <1>2. ASSUME NEW p \in CredentialCommands, AssertReplaceable(p) PROVE CredentialInv'
    BY <1>2, GoesOn DEF AssertReplaceable, others, CredentialInv, CredentialTypes
  <1>3. ASSUME NEW p \in CredentialCommands, InspectForRemoval(p) PROVE CredentialInv'
    BY <1>3, GoesOn DEF InspectForRemoval, others, CredentialInv, CredentialTypes
  <1>4. CASE ChangeDirectoryMode
    <2>1. /\ UNCHANGED <<entry, durable, temporaries, process, given, stored, ran, hostEnvironment, snapshot>>
          /\ credentialDirectory' \in {"private", "insecure"} /\ mishaps' \in 0 .. MaxMishaps
      BY <1>4, CredentialAssumption DEF ChangeDirectoryMode, happens, others, CredentialInv, CredentialTypes
    <2>2. CredentialTypes' /\ CommandsOwnTheirs'
      BY <2>1 DEF CredentialInv, CredentialTypes, CommandsOwnTheirs, mine, written
    <2> QED BY <2>1, <2>2, FilesStay DEF CredentialInv
  <1>5. ASSUME NEW environment \in [source : {"none", "runtime_home", "other"}, ambient : BOOLEAN],
               StartRuntime(environment)
        PROVE CredentialInv'
    <2>1. (CredentialTypes /\ FilesAreGiven /\ CommandsOwnTheirs /\ StoredIsKept)'
      BY <1>5 DEF StartRuntime, CredentialInv, CredentialTypes, FilesAreGiven, GivenThere,
          CommandsOwnTheirs, mine, written, StoredIsKept
    <2>2. LoadedIsWhole' /\ SourcesNeverMix'
      BY <1>5, LoadingIsSound DEF StartRuntime, CredentialInv
    <2> QED BY <2>1, <2>2 DEF CredentialInv
  <1>6. CASE UNCHANGED credentialVars
    BY <1>6 DEF credentialVars, CredentialInv, CredentialTypes, FilesAreGiven, GivenThere,
        CommandsOwnTheirs, mine, written, StoredIsKept, LoadedIsWhole, SourcesNeverMix
  <1>7. CASE CredentialNext
    BY <1>1, <1>2, <1>3, <1>4, <1>5, <1>7, BeginSetStep, BeginRemoveStep, CreateStep, WriteStep,
       RenameStep, SyncStep, UnlinkStep, KillStep, PowerStep, TamperStep
    DEF CredentialNext
  <1> QED BY <1>6, <1>7

LEMMA CredentialImplies == CredentialInv => CredentialSafety
  <1> SUFFICES ASSUME CredentialInv PROVE CredentialSafety
    OBVIOUS
  <1>1. CredentialTypeOK
    <2>1. ASSUME NEW p \in CredentialCommands, process[p].step \in {"write", "rename"}
          PROVE Cardinality(mine(p)) = 1
      <3>1. \E t : mine(p) = {t}
        BY <2>1 DEF CredentialInv, CommandsOwnTheirs
      <3> QED BY <3>1, FS_Singleton
    <2> QED BY <2>1 DEF CredentialTypeOK, CredentialInv, CredentialTypes, Entries
  <1>2. NoTemporaryLeft
    <2> SUFFICES ASSUME NEW t \in temporaries, t.by # "nobody"
                 PROVE process[t.by].step \in {"write", "rename"}
      BY DEF NoTemporaryLeft
    <2>1. t.by \in CredentialCommands /\ t \in mine(t.by)
      BY DEF mine, CredentialInv, CredentialTypes
    <2> QED BY <2>1 DEF CredentialInv, CommandsOwnTheirs
  <1>3. StoredIsLoaded
    BY DEF CredentialInv, StoredIsKept, StoredIsLoaded
  <1> QED BY <1>1, <1>2, <1>3 DEF CredentialInv, CredentialSafety

-----------------------------------------------------------------------------
(* ModelRouting *)

\* Only a file that can be read has a document.
RoutingFileSet ==
    {f \in [kind : {"missing", "unreadable", "document"}, doc : RoutingDocument] :
        f.kind # "document" => f.doc = EmptyDocument}
FileNames == {"home", "variable"}

\* What any loaded snapshot is: only a sound document is routed by.
SoundSnapshot(r) ==
    /\ r.doc \in RoutingDocument
    /\ r.status \in {"unconfigured", "configured", "misconfigured"}
    /\ r.status = "misconfigured" <=> r.issues # {}
    /\ r.status # "misconfigured" =>
         parseDocument(r.doc) = {} /\ r.legacy \in SupportedModels \cup {"none"}

\* What a document says of an override's subject.
TargetIn(doc, o) == IF o.scope = "host" THEN doc.agents[o.agent] ELSE doc.projects[o.project][o.agent]

\* Types, of which that a loaded snapshot is sound is the part that matters.
RoutingShape ==
    /\ setting.legacy \in LegacyModels
    /\ routingFiles \in [FileNames -> RoutingFileSet]
    /\ SoundSnapshot(routing)
    /\ command = [c \in RoutingCommands |-> command[c]]
    /\ \A c \in RoutingCommands :
         /\ command[c].kind \in {"idle", "override", "reload"}
         /\ command[c].kind # "idle" =>
              /\ command[c].file \in RoutingFileSet /\ SoundSnapshot(command[c].routing)
              /\ command[c].stale \in BOOLEAN
         /\ command[c].kind = "override" => command[c].override \in Overrides
    /\ edited \in BOOLEAN /\ overlapped \in BOOLEAN
    /\ issuedCommands \in 0 .. MaxRoutingCommands /\ handEdits \in 0 .. MaxHandEdits
    /\ acked \subseteq Overrides

\* A command alone in flight would restore the file and the snapshot that every
\* acknowledged override stands in; until a hand edit, its own stands in the file.
RestoresTo(m, fs, ack, ed) ==
    /\ m.kind = "override" =>
         /\ \A o \in ack : TargetIn(m.file.doc, o) = o.target
         /\ ed => ack = {}
         /\ ~ed => TargetIn(fs[readFrom].doc, m.override) = m.override.target
         /\ ~m.stale => m.routing = loadModelRoutingState([fs EXCEPT ![readFrom] = m.file])
    /\ m.kind = "reload" /\ ~m.stale /\ ~ed => m.routing = loadModelRoutingState(fs)
Restorable(c) == RestoresTo(command[c], routingFiles, acked, edited)

AloneRestores ==
    ~overlapped =>
        /\ \A c, d \in inFlight : c = d
        /\ \A c \in inFlight : Restorable(c)

\* The inductive invariant.
RoutingInv == RoutingShape /\ AloneRestores /\ AppliedOverridesStand /\ SnapshotFollowsFile

LEMMA EmptyIsClean == EmptyDocument \in RoutingDocument /\ parseDocument(EmptyDocument) = {}
  <1>1. NoTarget \in RoutingTarget
    BY DEF RoutingTarget
  <1>2. EmptyDocument \in RoutingDocument
    BY <1>1 DEF EmptyDocument, RoutingDocument
  <1>3. /\ \A k \in ProfileKeys : EmptyDocument.profiles[k] = "none"
        /\ \A p \in PolicyNames : EmptyDocument.policies[p] = "none"
        /\ EmptyDocument.default = "none"
        /\ \A a \in RoutedAgents : EmptyDocument.agents[a] = NoTarget
        /\ \A p \in RoutedProjects, a \in RoutedAgents : EmptyDocument.projects[p][a] = NoTarget
    BY DEF EmptyDocument
  <1>4. NoTarget.kind = "none"
    BY DEF NoTarget
  <1> HIDE DEF EmptyDocument
  <1>5. UNION {profileIssues(EmptyDocument.profiles[k]) : k \in ProfileKeys} = {}
    BY <1>3 DEF profileIssues
  <1>6. \A declared : overrideIssues(NoTarget, declared) = {}
    BY <1>4 DEF overrideIssues
  <1>7. \A declared : UNION {overrideIssues(EmptyDocument.agents[a], declared) : a \in RoutedAgents} = {}
    BY <1>3, <1>6
  <1>8. \A declared : UNION {overrideIssues(EmptyDocument.projects[p][a], declared) : p \in RoutedProjects, a \in RoutedAgents} = {}
    BY <1>3, <1>6
  <1>9. {"PROFILE_UNDEFINED" : p \in {q \in PolicyNames : EmptyDocument.policies[q] \notin declaredProfiles(EmptyDocument) \cup {"none"}}} = {}
    BY <1>3
  <1> QED BY <1>2, <1>3, <1>5, <1>7, <1>8, <1>9 DEF parseDocument

\* A document without issues can be routed by.
LEMMA CleanDocument ==
    ASSUME NEW doc \in RoutingDocument, parseDocument(doc) = {}
    PROVE  /\ usableDocument(doc)
           /\ \A k \in declaredProfiles(doc) : doc.profiles[k] \in SupportedModels
           /\ \A p \in PolicyNames : doc.policies[p] \in declaredProfiles(doc) \cup {"none"}
           /\ doc.default \in declaredProfiles(doc) \cup {"none"}
  <1> DEFINE declared == declaredProfiles(doc)
  <1>0. /\ doc.profiles \in [ProfileKeys -> RoutingModels \cup {"none", "bad parameters"}]
        /\ doc.agents \in [RoutedAgents -> RoutingTarget]
        /\ doc.projects \in [RoutedProjects -> [RoutedAgents -> RoutingTarget]]
    BY DEF RoutingDocument
  <1>1. /\ UNION {profileIssues(doc.profiles[k]) : k \in ProfileKeys} = {}
        /\ {"PROFILE_UNDEFINED" : p \in {q \in PolicyNames : doc.policies[q] \notin declared \cup {"none"}}} = {}
        /\ (IF doc.default \in declared \cup {"none"} THEN {} ELSE {"DEFAULT_UNRESOLVED"}) = {}
        /\ UNION {overrideIssues(doc.agents[a], declared) : a \in RoutedAgents} = {}
        /\ UNION {overrideIssues(doc.projects[p][a], declared) : p \in RoutedProjects, a \in RoutedAgents} = {}
    <2>1. UNION {profileIssues(doc.profiles[k]) : k \in ProfileKeys} \subseteq parseDocument(doc)
      BY DEF parseDocument
    <2>2. {"PROFILE_UNDEFINED" : p \in {q \in PolicyNames : doc.policies[q] \notin declared \cup {"none"}}} \subseteq parseDocument(doc)
      BY DEF parseDocument
    <2>3. (IF doc.default \in declared \cup {"none"} THEN {} ELSE {"DEFAULT_UNRESOLVED"}) \subseteq parseDocument(doc)
      BY DEF parseDocument
    <2>4. UNION {overrideIssues(doc.agents[a], declared) : a \in RoutedAgents} \subseteq parseDocument(doc)
      BY DEF parseDocument
    <2>5. UNION {overrideIssues(doc.projects[p][a], declared) : p \in RoutedProjects, a \in RoutedAgents} \subseteq parseDocument(doc)
      BY DEF parseDocument
    <2> HIDE DEF declared
    <2> QED BY <2>1, <2>2, <2>3, <2>4, <2>5
  <1>2. \A k \in ProfileKeys : profileIssues(doc.profiles[k]) = {}
    BY <1>1
  <1>3. \A a \in RoutedAgents : overrideIssues(doc.agents[a], declared) = {}
    BY <1>1
  <1>4. \A p \in RoutedProjects, a \in RoutedAgents : overrideIssues(doc.projects[p][a], declared) = {}
    BY <1>1
  <1>5. \A p \in PolicyNames : doc.policies[p] \in declared \cup {"none"}
    BY <1>1
  <1>6. doc.default \in declared \cup {"none"}
    BY <1>1
  <1>7. \A m : concreteModel(m) = {} => m \in SupportedModels
    BY DEF concreteModel
  <1>8. \A k \in ProfileKeys : doc.profiles[k] \in SupportedModels \cup {"none"}
    BY <1>2, <1>7 DEF profileIssues
  <1>9. \A k \in declared : k \in ProfileKeys /\ doc.profiles[k] \in SupportedModels
    BY <1>8 DEF declaredProfiles
  <1>10. ASSUME NEW t \in RoutingTarget, overrideIssues(t, declared) = {} PROVE usableTarget(doc, t)
    <2>1. CASE t = NoTarget
      BY <2>1 DEF usableTarget
    <2>2. CASE t \in [kind : {"profile"}, of : ProfileKeys]
      <3>1. t.of \in declared
        BY <1>10, <2>2 DEF overrideIssues
      <3> QED BY <1>9, <2>2, <3>1 DEF usableTarget
    <2>3. CASE t \in [kind : {"model"}, of : RoutingModels]
      <3>1. t.of \in SupportedModels
        BY <1>7, <1>10, <2>3 DEF overrideIssues
      <3> QED BY <2>3, <3>1 DEF usableTarget
    <2> QED BY <2>1, <2>2, <2>3 DEF RoutingTarget
  <1>11. usableDocument(doc)
    <2> HIDE DEF declared
    <2>1. \A a \in RoutedAgents : usableTarget(doc, doc.agents[a])
      BY <1>0, <1>3, <1>10
    <2>2. \A p \in RoutedProjects, a \in RoutedAgents : usableTarget(doc, doc.projects[p][a])
      BY <1>0, <1>4, <1>10
    <2> QED BY <1>8, <2>1, <2>2 DEF usableDocument
  <1> QED BY <1>5, <1>6, <1>9, <1>11

\* What is loaded depends on the one file that is read.
LEMMA LoadedFromOne ==
    ASSUME NEW fs, NEW gs, fs[readFrom] = gs[readFrom]
    PROVE  loadModelRoutingState(fs) = loadModelRoutingState(gs)
  <1> QED BY DEF loadModelRoutingState

LEMMA LoadedIsSound ==
    ASSUME NEW f \in RoutingFileSet, NEW fs, fs[readFrom] = f, setting.legacy \in LegacyModels
    PROVE  SoundSnapshot(loadModelRoutingState(fs))
  <1> DEFINE r == loadModelRoutingState(fs)
             legacy == IF setting.managed THEN "none" ELSE setting.legacy
             own == IF legacy = "none" THEN {} ELSE concreteModel(legacy)
             issues == fileIssues(readFrom, f) \cup own
             condition == IF issues # {} THEN "misconfigured"
                       ELSE IF f.kind # "document" /\ legacy = "none" THEN "unconfigured" ELSE "configured"
  <1>1. r = [status |-> condition, doc |-> f.doc, legacy |-> legacy, issues |-> issues]
    BY DEF loadModelRoutingState
  <1>2. f.doc \in RoutingDocument /\ (f.kind # "document" => f.doc = EmptyDocument)
    BY DEF RoutingFileSet
  <1>3. fileIssues(readFrom, f) = {} => parseDocument(f.doc) = {}
    <2>1. CASE f.kind = "document"
      BY <2>1 DEF fileIssues
    <2>2. CASE f.kind # "document"
      BY <1>2, <2>2, EmptyIsClean
    <2> QED BY <2>1, <2>2
  <1>4. own = {} => legacy \in SupportedModels \cup {"none"}
    BY DEF concreteModel
  <1> HIDE DEF own, legacy
  <1>5. /\ condition \in {"unconfigured", "configured", "misconfigured"}
        /\ condition = "misconfigured" <=> issues # {}
        /\ issues = {} => fileIssues(readFrom, f) = {} /\ own = {}
    OBVIOUS
  <1>6. r.status = condition /\ r.doc = f.doc /\ r.legacy = legacy /\ r.issues = issues
    BY <1>1
  <1> HIDE DEF r, condition, issues
  <1>7. SoundSnapshot(r)
    BY <1>2, <1>3, <1>4, <1>5, <1>6 DEF SoundSnapshot
  <1> QED BY <1>7 DEF r

\* An override is found where it was written, and nowhere else.
LEMMA OverrideWritten ==
    ASSUME NEW doc \in RoutingDocument, NEW o \in Overrides
    PROVE  LET after == routingOverrideDocument(doc, o)
           IN  /\ after \in RoutingDocument
               /\ TargetIn(after, o) = o.target
               /\ \A a \in Overrides : ~sameSubject(a, o) => TargetIn(after, a) = TargetIn(doc, a)
  <1>0. /\ \A a \in Overrides : /\ a.scope \in {"host", "project"} /\ a.agent \in RoutedAgents
                                /\ a.target \in RoutingTarget
                                /\ a.scope = "project" => a.project \in RoutedProjects
    BY DocumentAssumption
  <1>1. /\ doc = [profiles |-> doc.profiles, policies |-> doc.policies, default |-> doc.default,
                  agents |-> doc.agents, projects |-> doc.projects]
        /\ doc.agents \in [RoutedAgents -> RoutingTarget]
        /\ doc.projects \in [RoutedProjects -> [RoutedAgents -> RoutingTarget]]
        /\ doc.profiles \in [ProfileKeys -> RoutingModels \cup {"none", "bad parameters"}]
        /\ doc.policies \in [PolicyNames -> ProfileKeys \cup {"none"}] /\ doc.default \in ProfileKeys \cup {"none"}
    BY DEF RoutingDocument
  <1> DEFINE after == routingOverrideDocument(doc, o)
  <1>2. CASE o.scope = "host"
    <2> DEFINE agents == [doc.agents EXCEPT ![o.agent] = o.target]
    <2>1. after = [profiles |-> doc.profiles, policies |-> doc.policies, default |-> doc.default,
                   agents |-> agents, projects |-> doc.projects]
      BY <1>1, <1>2 DEF routingOverrideDocument
    <2>2. /\ agents \in [RoutedAgents -> RoutingTarget] /\ agents[o.agent] = o.target
          /\ \A x \in RoutedAgents : x # o.agent => agents[x] = doc.agents[x]
      BY <1>0, <1>1
    <2> HIDE DEF agents
    <2>3. after.agents = agents /\ after.projects = doc.projects
      BY <2>1
    <2> HIDE DEF after
    <2>4. after \in RoutingDocument
      BY <1>1, <2>1, <2>2 DEF RoutingDocument
    <2>5. TargetIn(after, o) = o.target
      BY <1>2, <2>2, <2>3 DEF TargetIn
    <2>6. \A a \in Overrides : ~sameSubject(a, o) => TargetIn(after, a) = TargetIn(doc, a)
      BY <1>0, <1>2, <2>2, <2>3 DEF TargetIn, sameSubject
    <2> QED BY <2>4, <2>5, <2>6 DEF after
  <1>3. CASE o.scope # "host"
    <2> DEFINE own == [doc.projects[o.project] EXCEPT ![o.agent] = o.target]
               projects == [doc.projects EXCEPT ![o.project] = own]
    <2>0. o.project \in RoutedProjects /\ o.agent \in RoutedAgents /\ o.target \in RoutingTarget
      BY <1>0, <1>3
    <2>1. after = [profiles |-> doc.profiles, policies |-> doc.policies, default |-> doc.default,
                   agents |-> doc.agents, projects |-> projects]
      BY <1>1, <1>3 DEF routingOverrideDocument
    <2>2. /\ own \in [RoutedAgents -> RoutingTarget] /\ own[o.agent] = o.target
          /\ \A x \in RoutedAgents : x # o.agent => own[x] = doc.projects[o.project][x]
      BY <1>1, <2>0
    <2> HIDE DEF own
    <2>3. /\ projects \in [RoutedProjects -> [RoutedAgents -> RoutingTarget]] /\ projects[o.project] = own
          /\ \A x \in RoutedProjects : x # o.project => projects[x] = doc.projects[x]
      BY <1>1, <2>0, <2>2
    <2> HIDE DEF projects
    <2>4. after.agents = doc.agents /\ after.projects = projects
      BY <2>1
    <2> HIDE DEF after
    <2>5. after \in RoutingDocument
      BY <1>1, <2>1, <2>3 DEF RoutingDocument
    <2>6. TargetIn(after, o) = o.target
      BY <1>3, <2>2, <2>3, <2>4 DEF TargetIn
    <2>7. ASSUME NEW a \in Overrides, ~sameSubject(a, o) PROVE TargetIn(after, a) = TargetIn(doc, a)
      <3>1. CASE a.scope = "host"
        BY <2>4, <3>1 DEF TargetIn
      <3>2. CASE a.scope # "host" /\ a.project # o.project
        BY <1>0, <2>3, <2>4, <3>2 DEF TargetIn
      <3>3. CASE a.scope # "host" /\ a.agent # o.agent /\ a.project = o.project
        BY <1>0, <2>2, <2>3, <2>4, <3>3 DEF TargetIn
      <3>4. a.scope # "host" => a.project # o.project \/ a.agent # o.agent
        BY <1>0, <1>3, <2>7 DEF sameSubject
      <3> QED BY <3>1, <3>2, <3>3, <3>4
    <2> QED BY <2>5, <2>6, <2>7 DEF after
  <1> QED BY <1>2, <1>3

LEMMA UsableResolves ==
    ASSUME NEW r, NEW source, NEW t \in RoutingTarget, t # NoTarget, usableTarget(r.doc, t)
    PROVE  /\ fromOverride(r, t, source).status = "resolved"
           /\ fromOverride(r, t, source).source = source
           /\ fromOverride(r, t, source).model \in SupportedModels
  <1>1. \/ t.kind = "model" /\ t.of \in SupportedModels
        \/ t.kind = "profile" /\ r.doc.profiles[t.of] \in SupportedModels
    BY DEF usableTarget
  <1> QED BY <1>1 DEF fromOverride, fromProfile, concrete

\* The first rule there is decides, and it decides for a model that can be used.
LEMMA FirstRuleDecides ==
    ASSUME NEW r, SoundSnapshot(r), NEW p \in RoutedProjects, NEW a \in RoutedAgents
    PROVE  LET route == resolveAgentRunModel(r, p, a)
               mapped == mappedProfile(r, PolicyOf[a])
               source == IF r.doc.projects[p][a] # NoTarget THEN "project_agent_override"
                         ELSE IF r.doc.agents[a] # NoTarget THEN "agent_override"
                         ELSE IF mapped # "none" THEN "role_policy"
                         ELSE IF r.doc.default # "none" THEN "default"
                         ELSE IF r.legacy # "none" THEN "legacy_default" ELSE "MODEL_POLICY_UNRESOLVED"
           IN  /\ r.status = "configured" =>
                    /\ route.source = source
                    /\ route.status = IF source = "MODEL_POLICY_UNRESOLVED" THEN "refused" ELSE "resolved"
                    /\ route.status = "resolved" => route.model \in SupportedModels
               /\ r.status = "unconfigured" => route.status = "unrouted"
               /\ r.status = "misconfigured" => route.status = "refused" /\ route.source = "MODEL_ROUTING_MISCONFIGURED"
  <1> DEFINE route == resolveAgentRunModel(r, p, a)
             own == r.doc.projects[p][a]
             hosts == r.doc.agents[a]
             mapped == mappedProfile(r, PolicyOf[a])
             source == IF own # NoTarget THEN "project_agent_override"
                       ELSE IF hosts # NoTarget THEN "agent_override"
                       ELSE IF mapped # "none" THEN "role_policy"
                       ELSE IF r.doc.default # "none" THEN "default"
                       ELSE IF r.legacy # "none" THEN "legacy_default" ELSE "MODEL_POLICY_UNRESOLVED"
  <1>1. r.status = "unconfigured" => route.status = "unrouted"
    BY DEF resolveAgentRunModel
  <1>2. r.status = "misconfigured" => route.status = "refused" /\ route.source = "MODEL_ROUTING_MISCONFIGURED"
    BY DEF resolveAgentRunModel, Refused
  <1>3. ASSUME r.status = "configured"
        PROVE  /\ route.source = source
               /\ route.status = IF source = "MODEL_POLICY_UNRESOLVED" THEN "refused" ELSE "resolved"
               /\ route.status = "resolved" => route.model \in SupportedModels
    <2>1. /\ r.doc \in RoutingDocument /\ parseDocument(r.doc) = {} /\ r.legacy \in SupportedModels \cup {"none"}
      BY <1>3 DEF SoundSnapshot
    <2>2. /\ usableDocument(r.doc)
          /\ \A k \in declaredProfiles(r.doc) : r.doc.profiles[k] \in SupportedModels
          /\ \A x \in PolicyNames : r.doc.policies[x] \in declaredProfiles(r.doc) \cup {"none"}
          /\ r.doc.default \in declaredProfiles(r.doc) \cup {"none"}
      BY <2>1, CleanDocument
    <2>3. own \in RoutingTarget /\ hosts \in RoutingTarget /\ usableTarget(r.doc, own) /\ usableTarget(r.doc, hosts)
      BY <2>1, <2>2 DEF RoutingDocument, usableDocument
    <2>4. mapped # "none" => mapped \in declaredProfiles(r.doc)
      BY <2>2 DEF mappedProfile
    <2>5. \A k, s : k \in declaredProfiles(r.doc) =>
            /\ fromProfile(r, k, s).status = "resolved" /\ fromProfile(r, k, s).source = s
            /\ fromProfile(r, k, s).model \in SupportedModels
      BY <2>2 DEF fromProfile
    <2>6. route = IF own # NoTarget THEN fromOverride(r, own, "project_agent_override")
                  ELSE IF hosts # NoTarget THEN fromOverride(r, hosts, "agent_override")
                  ELSE IF mapped # "none" THEN fromProfile(r, mapped, "role_policy")
                  ELSE IF r.doc.default # "none" THEN fromProfile(r, r.doc.default, "default")
                  ELSE IF r.legacy # "none" THEN concrete(r.legacy, "legacy_default")
                  ELSE Refused("MODEL_POLICY_UNRESOLVED")
      BY <1>3 DEF resolveAgentRunModel
    <2> HIDE DEF route, own, hosts, mapped
    <2>7. CASE own # NoTarget
      BY <2>3, <2>6, <2>7, UsableResolves
    <2>8. CASE own = NoTarget /\ hosts # NoTarget
      BY <2>3, <2>6, <2>8, UsableResolves
    <2>9. CASE own = NoTarget /\ hosts = NoTarget /\ mapped # "none"
      BY <2>4, <2>5, <2>6, <2>9
    <2>10. CASE own = NoTarget /\ hosts = NoTarget /\ mapped = "none" /\ r.doc.default # "none"
      BY <2>2, <2>5, <2>6, <2>10
    <2>11. CASE own = NoTarget /\ hosts = NoTarget /\ mapped = "none" /\ r.doc.default = "none"
      BY <2>1, <2>6, <2>11 DEF concrete, Refused
    <2> QED BY <2>7, <2>8, <2>9, <2>10, <2>11
  <1> QED BY <1>1, <1>2, <1>3

LEMMA SmallestOfFive ==
    ASSUME NEW S \in SUBSET (1 .. 5), S # {}
    PROVE  Min(S) \in S /\ \A x \in S : Min(S) <= x
  <1>1. \E x \in S : \A y \in S : x <= y
    <2>1. CASE 1 \in S
      BY <2>1
    <2>2. CASE 1 \notin S /\ 2 \in S
      BY <2>2
    <2>3. CASE 1 \notin S /\ 2 \notin S /\ 3 \in S
      BY <2>3
    <2>4. CASE 1 \notin S /\ 2 \notin S /\ 3 \notin S /\ 4 \in S
      BY <2>4
    <2>5. CASE 1 \notin S /\ 2 \notin S /\ 3 \notin S /\ 4 \notin S
      <3>1. \A x \in S : x \in 1 .. 5 /\ x # 1 /\ x # 2 /\ x # 3 /\ x # 4
        BY <2>5
      <3>2. \A x \in S : x = 5
        BY <3>1
      <3>3. 5 \in S
        BY <3>2
      <3> QED BY <3>2, <3>3
    <2> QED BY <2>1, <2>2, <2>3, <2>4, <2>5
  <1> QED BY <1>1 DEF Min

LEMMA SoundRoutes ==
    ASSUME SoundSnapshot(routing)
    PROVE  BrokenNeverRoutes /\ PrecedenceHolds /\ CheckPredictsScheduling
  <1>1. BrokenNeverRoutes
    <2> SUFFICES ASSUME NEW p \in RoutedProjects, NEW a \in RoutedAgents,
                        resolveAgentRunModel(routing, p, a).status = "resolved"
                 PROVE  usableDocument(routing.doc) /\ resolveAgentRunModel(routing, p, a).model \in SupportedModels
      BY DEF BrokenNeverRoutes
    <2> DEFINE route == resolveAgentRunModel(routing, p, a)
    <2>1. /\ routing.status = "configured" => (route.status = "resolved" => route.model \in SupportedModels)
          /\ routing.status = "unconfigured" => route.status = "unrouted"
          /\ routing.status = "misconfigured" => route.status = "refused"
      BY FirstRuleDecides
    <2>2. routing.status = "configured"
      BY <2>1 DEF SoundSnapshot
    <2>3. usableDocument(routing.doc)
      BY <2>2, CleanDocument DEF SoundSnapshot
    <2> QED BY <2>1, <2>2, <2>3
  <1>2. PrecedenceHolds
    <2> SUFFICES ASSUME routing.status = "configured", NEW p \in RoutedProjects, NEW a \in RoutedAgents
                 PROVE  LET rules == {i \in 1..5 : hasRule(routing, p, a)[i]}
                            route == resolveAgentRunModel(routing, p, a)
                        IN  route.source = IF rules = {} THEN "MODEL_POLICY_UNRESOLVED" ELSE ruleSource[Min(rules)]
      BY DEF PrecedenceHolds
    <2> DEFINE route == resolveAgentRunModel(routing, p, a)
               mapped == mappedProfile(routing, PolicyOf[a])
               has == hasRule(routing, p, a)
               rules == {i \in 1 .. 5 : has[i]}
               first == Min(rules)
    <2>1. route.source = IF routing.doc.projects[p][a] # NoTarget THEN "project_agent_override"
                         ELSE IF routing.doc.agents[a] # NoTarget THEN "agent_override"
                         ELSE IF mapped # "none" THEN "role_policy"
                         ELSE IF routing.doc.default # "none" THEN "default"
                         ELSE IF routing.legacy # "none" THEN "legacy_default" ELSE "MODEL_POLICY_UNRESOLVED"
      BY FirstRuleDecides
    <2>2. /\ has[1] <=> routing.doc.projects[p][a] # NoTarget
          /\ has[2] <=> routing.doc.agents[a] # NoTarget
          /\ has[3] <=> mapped # "none"
          /\ has[4] <=> routing.doc.default # "none"
          /\ has[5] <=> routing.legacy # "none"
      BY DEF hasRule
    <2> HIDE DEF has, mapped, route
    <2>3. /\ 1 \in rules <=> has[1]
          /\ 2 \in rules <=> has[2]
          /\ 3 \in rules <=> has[3]
          /\ 4 \in rules <=> has[4]
          /\ 5 \in rules <=> has[5]
          /\ rules \in SUBSET (1 .. 5)
      OBVIOUS
    <2> HIDE DEF rules
    <2>4. rules # {} => first \in rules /\ \A x \in rules : first <= x
      BY <2>3, SmallestOfFive
    <2> HIDE DEF first
    <2>5. /\ ruleSource[1] = "project_agent_override" /\ ruleSource[2] = "agent_override"
          /\ ruleSource[3] = "role_policy" /\ ruleSource[4] = "default" /\ ruleSource[5] = "legacy_default"
      BY DEF ruleSource
    <2>6. CASE rules = {}
      BY <2>1, <2>2, <2>3, <2>6 DEF rules, route, has
    <2>7. CASE rules # {}
      <3>1. first \in {1, 2, 3, 4, 5} /\ first \in rules /\ \A x \in rules : first <= x
        <4>1. \A i \in 1 .. 5 : i \in {1, 2, 3, 4, 5}
          OBVIOUS
        <4>2. first \in rules /\ (\A x \in rules : first <= x) /\ rules \subseteq 1 .. 5
          BY <2>3, <2>4, <2>7
        <4> QED BY <4>1, <4>2
      <3>2. route.source = ruleSource[first]
        <4>1. CASE first = 1
          BY <2>1, <2>2, <2>3, <2>5, <3>1, <4>1
        <4>2. CASE first = 2
          BY <2>1, <2>2, <2>3, <2>5, <3>1, <4>2
        <4>3. CASE first = 3
          BY <2>1, <2>2, <2>3, <2>5, <3>1, <4>3
        <4>4. CASE first = 4
          BY <2>1, <2>2, <2>3, <2>5, <3>1, <4>4
        <4>5. CASE first = 5
          BY <2>1, <2>2, <2>3, <2>5, <3>1, <4>5
        <4> QED BY <3>1, <4>1, <4>2, <4>3, <4>4, <4>5
      <3> QED BY <2>7, <3>2 DEF rules, route, has, first
    <2> QED BY <2>6, <2>7
  <1>3. CheckPredictsScheduling
    <2> SUFFICES ASSUME NEW p \in RoutedProjects, AgentsOf[p] # {}
                 PROVE  checkIsValid(p) <=> \A a \in AgentsOf[p] : resolveAgentRunModel(routing, p, a).status # "refused"
      BY DEF CheckPredictsScheduling
    <2>0. AgentsOf[p] \subseteq RoutedAgents
      BY RoutingAssumption
    <2>1. CASE routing.status = "misconfigured"
      <3>1. \A a \in AgentsOf[p] : resolveAgentRunModel(routing, p, a).status = "refused"
        BY <2>0, <2>1, FirstRuleDecides
      <3>2. errorFindings(p) # {}
        BY <2>1 DEF errorFindings, SoundSnapshot
      <3> QED BY <3>1, <3>2 DEF checkIsValid
    <2>2. CASE routing.status # "misconfigured"
      <3>1. \A a \in AgentsOf[p] : resolveAgentRunModel(routing, p, a).status = "refused" =>
              resolveAgentRunModel(routing, p, a).source = "MODEL_POLICY_UNRESOLVED"
        <4> TAKE a \in AgentsOf[p]
        <4> DEFINE route == resolveAgentRunModel(routing, p, a)
                   mapped == mappedProfile(routing, PolicyOf[a])
                   source == IF routing.doc.projects[p][a] # NoTarget THEN "project_agent_override"
                             ELSE IF routing.doc.agents[a] # NoTarget THEN "agent_override"
                             ELSE IF mapped # "none" THEN "role_policy"
                             ELSE IF routing.doc.default # "none" THEN "default"
                             ELSE IF routing.legacy # "none" THEN "legacy_default" ELSE "MODEL_POLICY_UNRESOLVED"
        <4>1. /\ routing.status = "configured" =>
                   /\ route.source = source
                   /\ route.status = IF source = "MODEL_POLICY_UNRESOLVED" THEN "refused" ELSE "resolved"
              /\ routing.status = "unconfigured" => route.status = "unrouted"
          BY <2>0, FirstRuleDecides
        <4> HIDE DEF source, route
        <4>2. route.status = "refused" => route.source = "MODEL_POLICY_UNRESOLVED"
          BY <2>2, <4>1 DEF SoundSnapshot
        <4> QED BY <4>2 DEF route
      <3>2. errorFindings(p) = UNION {routeError(p, a) : a \in AgentsOf[p]}
        BY <2>2 DEF errorFindings
      <3>3. \A a \in AgentsOf[p] : routeError(p, a) = {} <=> resolveAgentRunModel(routing, p, a).status # "refused"
        BY <3>1 DEF routeError
      <3>4. errorFindings(p) = {} <=> \A a \in AgentsOf[p] : routeError(p, a) = {}
        BY <3>2
      <3> QED BY <3>3, <3>4 DEF checkIsValid
    <2> QED BY <2>1, <2>2
  <1> QED BY <1>1, <1>2, <1>3

LEMMA ReadWhatIsEffective == effectiveFile = readFrom /\ readFrom \in FileNames
  BY DEF effectiveFile, readFrom, FileNames

LEMMA FilesThereAre ==
    /\ FileMissing \in RoutingFileSet /\ FileUnreadable \in RoutingFileSet
    /\ \A d \in RoutingDocument : RoutingFile(d) \in RoutingFileSet /\ RoutingFile(d).doc = d
  BY EmptyIsClean DEF RoutingFileSet, FileMissing, FileUnreadable, RoutingFile

\* What is to be shown of a step, with the setting of the host, which stays.
StandsIn(fs, ack, commands) ==
    \A o \in ack :
        \/ TargetIn(fs[readFrom].doc, o) = o.target
        \/ \E c \in RoutingCommands : commands[c].kind = "override" /\ sameSubject(commands[c].override, o)

LEMMA RoutingStays ==
    ASSUME setting' = setting, RoutingShape',
           ~overlapped' =>
              /\ \A c, d \in RoutingCommands : command'[c].kind # "idle" /\ command'[d].kind # "idle" => c = d
              /\ \A c \in RoutingCommands : command'[c].kind # "idle" => RestoresTo(command'[c], routingFiles', acked', edited')
              /\ StandsIn(routingFiles', acked', command')
              /\ ~edited' => routing' = loadModelRoutingState(routingFiles')
    PROVE  RoutingInv'
  <1>1. /\ readFrom' = readFrom
        /\ \A fs : loadModelRoutingState(fs)' = loadModelRoutingState(fs)
    BY DEF readFrom, loadModelRoutingState
  <1>2. loadModelRoutingState(routingFiles)' = loadModelRoutingState(routingFiles')
    BY DEF readFrom, loadModelRoutingState
  <1>3. ASSUME NEW c \in RoutingCommands, RestoresTo(command'[c], routingFiles', acked', edited')
        PROVE  Restorable(c)'
    <2>1. loadModelRoutingState([routingFiles EXCEPT ![readFrom] = command[c].file])'
            = loadModelRoutingState([routingFiles' EXCEPT ![readFrom] = command'[c].file])
      BY DEF readFrom, loadModelRoutingState
    <2> QED BY <1>1, <1>2, <1>3, <2>1 DEF Restorable, RestoresTo, TargetIn
  <1>4. AloneRestores'
    BY <1>3 DEF AloneRestores, inFlight
  <1>5. AppliedOverridesStand'
    BY <1>1 DEF AppliedOverridesStand, StandsIn, TargetIn, inFlight
  <1>6. SnapshotFollowsFile'
    BY <1>2 DEF SnapshotFollowsFile
  <1> QED BY <1>4, <1>5, <1>6 DEF RoutingInv

LEMMA RoutingInitInv == RoutingInit => RoutingInv
  <1> SUFFICES ASSUME RoutingInit PROVE RoutingInv
    OBVIOUS
  <1>1. PICK f \in {FileMissing, FileUnreadable} \cup {RoutingFile(d) : d \in Documents} :
          routingFiles = [n \in {"home", "variable"} |-> IF n = readFrom THEN f ELSE FileMissing]
    BY DEF RoutingInit
  <1>2. f \in RoutingFileSet /\ FileMissing \in RoutingFileSet
    BY <1>1, FilesThereAre, DocumentAssumption
  <1>3. routingFiles \in [FileNames -> RoutingFileSet] /\ routingFiles[readFrom] = f /\ setting.legacy \in LegacyModels
    BY <1>1, <1>2, ReadWhatIsEffective DEF FileNames, RoutingInit
  <1>4. SoundSnapshot(routing)
    BY <1>2, <1>3, LoadedIsSound DEF RoutingInit
  <1>5. RoutingShape
    <2>1. command = [c \in RoutingCommands |-> command[c]] /\ \A c \in RoutingCommands : command[c].kind = "idle"
      BY DEF RoutingInit, IdleCommand
    <2>2. issuedCommands \in 0 .. MaxRoutingCommands /\ handEdits \in 0 .. MaxHandEdits
      BY RoutingAssumption DEF RoutingInit
    <2>3. edited \in BOOLEAN /\ overlapped \in BOOLEAN /\ acked \subseteq Overrides
      BY DEF RoutingInit
    <2> QED BY <1>3, <1>4, <2>1, <2>2, <2>3 DEF RoutingShape
  <1>6. AloneRestores /\ AppliedOverridesStand /\ SnapshotFollowsFile
    BY DEF RoutingInit, AloneRestores, AppliedOverridesStand, SnapshotFollowsFile, inFlight, IdleCommand
  <1> QED BY <1>5, <1>6 DEF RoutingInv

LEMMA RoutingStep ==
    ASSUME RoutingInv, [RoutingNext]_routingVars
    PROVE  RoutingInv'
  <1>0. /\ RoutingShape /\ AloneRestores /\ AppliedOverridesStand /\ SnapshotFollowsFile
        /\ setting.legacy \in LegacyModels /\ routingFiles \in [FileNames -> RoutingFileSet]
        /\ SoundSnapshot(routing) /\ edited \in BOOLEAN /\ overlapped \in BOOLEAN /\ acked \subseteq Overrides
        /\ issuedCommands \in 0 .. MaxRoutingCommands /\ handEdits \in 0 .. MaxHandEdits
        /\ command = [c \in RoutingCommands |-> command[c]]
        /\ effectiveFile = readFrom /\ readFrom \in FileNames
    BY ReadWhatIsEffective DEF RoutingInv, RoutingShape
  <1>r. \A fs : fs[readFrom] \in RoutingFileSet => SoundSnapshot(loadModelRoutingState(fs))
    BY <1>0, LoadedIsSound
  \* What is known of a command that is alone in flight, and of none.
  <1>s. ASSUME ~overlapped
        PROVE  /\ \A c, d \in RoutingCommands : command[c].kind # "idle" /\ command[d].kind # "idle" => c = d
               /\ \A c \in RoutingCommands : command[c].kind # "idle" => RestoresTo(command[c], routingFiles, acked, edited)
               /\ StandsIn(routingFiles, acked, command)
               /\ ~edited => routing = loadModelRoutingState(routingFiles)
    BY <1>0, <1>s DEF AloneRestores, AppliedOverridesStand, SnapshotFollowsFile, StandsIn, TargetIn, inFlight, Restorable
  <1>t. \A a, b : sameSubject(a, b) <=> sameSubject(b, a)
    BY DEF sameSubject
  \* A command that begins.
  <1>1. ASSUME NEW c \in RoutingCommands, NEW m, command[c].kind = "idle", issuedCommands < MaxRoutingCommands,
               begins(c, m), m.kind \in {"override", "reload"}, m.file \in RoutingFileSet, m.routing = routing,
               m.stale = edited, m.kind = "override" => m.override \in Overrides,
               UNCHANGED <<setting, handEdits, acked>>, edited' = FALSE,
               routing' = loadModelRoutingState(routingFiles'),
               routingFiles' \in [FileNames -> RoutingFileSet],
               ~overlapped /\ inFlight = {} => /\ RestoresTo(m, routingFiles', acked, FALSE)
                                               /\ StandsIn(routingFiles', acked, command')
        PROVE  RoutingInv'
    <2>1. /\ command' = [command EXCEPT ![c] = m] /\ issuedCommands' = issuedCommands + 1
          /\ overlapped' = (overlapped \/ inFlight # {})
      BY <1>1 DEF begins
    <2>2. command'[c] = m /\ \A d \in RoutingCommands : d # c => command'[d] = command[d]
      BY <1>0, <2>1
    <2>3. RoutingShape'
      <3>1. SoundSnapshot(routing')
        BY <1>0, <1>1, <1>r
      <3>2. command' = [d \in RoutingCommands |-> command'[d]]
        BY <1>0, <2>1
      <3>3. issuedCommands' \in 0 .. MaxRoutingCommands
        BY <1>0, <1>1, <2>1, RoutingAssumption
      <3> QED BY <1>0, <1>1, <2>1, <2>2, <3>1, <3>2, <3>3 DEF RoutingShape
    <2>4. ASSUME ~overlapped'
          PROVE  /\ \A d, e \in RoutingCommands : command'[d].kind # "idle" /\ command'[e].kind # "idle" => d = e
                 /\ \A d \in RoutingCommands : command'[d].kind # "idle" => RestoresTo(command'[d], routingFiles', acked', edited')
                 /\ StandsIn(routingFiles', acked', command')
                 /\ ~edited' => routing' = loadModelRoutingState(routingFiles')
      <3>1. ~overlapped /\ inFlight = {}
        BY <1>0, <2>1, <2>4
      <3>2. \A d \in RoutingCommands : d # c => command'[d].kind = "idle"
        BY <2>2, <3>1 DEF inFlight
      <3> QED BY <1>1, <2>2, <3>1, <3>2
    <2> QED BY <1>1, <2>3, <2>4, RoutingStays
  <1>2. ASSUME NEW c \in RoutingCommands, NEW o \in Overrides, OverrideModel(c, o) PROVE RoutingInv'
    <2> DEFINE f == routingFiles[readFrom] doc == routingOverrideDocument(f.doc, o) after == [routingFiles EXCEPT ![readFrom] = RoutingFile(doc)]
               m == [kind |-> "override", file |-> f, routing |-> routing, stale |-> edited, override |-> o]
    <2>1. /\ command[c].kind = "idle" /\ issuedCommands < MaxRoutingCommands
          /\ routingFiles' = after /\ routing' = loadModelRoutingState(after) /\ begins(c, m)
          /\ edited' = FALSE /\ UNCHANGED <<setting, handEdits, acked>>
      BY <1>0, <1>2 DEF OverrideModel
    <2>2. f \in RoutingFileSet /\ f.doc \in RoutingDocument
      BY <1>0 DEF RoutingFileSet
    <2>3. /\ doc \in RoutingDocument /\ TargetIn(doc, o) = o.target
          /\ \A a \in Overrides : ~sameSubject(a, o) => TargetIn(doc, a) = TargetIn(f.doc, a)
      BY <2>2, OverrideWritten
    <2>4. after \in [FileNames -> RoutingFileSet] /\ after[readFrom].doc = doc
      <3> HIDE DEF doc
      <3> QED BY <1>0, <2>3, FilesThereAre
    <2>5. m.kind = "override" /\ m.file = f /\ m.routing = routing /\ m.stale = edited /\ m.override = o
      OBVIOUS
    <2>6. command'[c] = m
      BY <1>0, <2>1 DEF begins
    <2> HIDE DEF m, doc
    <2>7. ASSUME ~overlapped, inFlight = {}
          PROVE  RestoresTo(m, after, acked, FALSE) /\ StandsIn(after, acked, command')
      <3>1. \A a \in acked : TargetIn(f.doc, a) = a.target
        BY <1>s, <2>7 DEF StandsIn, inFlight
      <3>2. ~edited => routing = loadModelRoutingState([after EXCEPT ![readFrom] = f])
        <4>1. [after EXCEPT ![readFrom] = f][readFrom] = f
          BY <1>0, <2>4
        <4>2. loadModelRoutingState([after EXCEPT ![readFrom] = f]) = loadModelRoutingState(routingFiles)
          BY <4>1, LoadedFromOne
        <4> QED BY <1>s, <2>7, <4>2
      <3>3. RestoresTo(m, after, acked, FALSE)
        BY <2>3, <2>4, <2>5, <3>1, <3>2 DEF RestoresTo
      <3>4. StandsIn(after, acked, command')
        BY <1>0, <1>t, <2>3, <2>4, <2>5, <2>6, <3>1 DEF StandsIn
      <3> QED BY <3>3, <3>4
    <2> HIDE DEF after, f
    <2> QED BY <1>1, <2>1, <2>2, <2>4, <2>5, <2>7
  <1>3. ASSUME NEW c \in RoutingCommands, ReloadModel(c) PROVE RoutingInv'
    <2> DEFINE m == [kind |-> "reload", file |-> FileMissing, routing |-> routing, stale |-> edited, override |-> "none"]
    <2>1. /\ command[c].kind = "idle" /\ issuedCommands < MaxRoutingCommands
          /\ routingFiles' = routingFiles /\ routing' = loadModelRoutingState(routingFiles') /\ begins(c, m)
          /\ edited' = FALSE /\ UNCHANGED <<setting, handEdits, acked>>
      BY <1>3 DEF ReloadModel
    <2>5. m.kind = "reload" /\ m.file = FileMissing /\ m.routing = routing /\ m.stale = edited
      OBVIOUS
    <2>6. command'[c] = m /\ \A d \in RoutingCommands : d # c => command'[d] = command[d]
      BY <1>0, <2>1 DEF begins
    <2> HIDE DEF m
    <2>7. ASSUME ~overlapped, inFlight = {}
          PROVE  RestoresTo(m, routingFiles', acked, FALSE) /\ StandsIn(routingFiles', acked, command')
      <3>1. RestoresTo(m, routingFiles', acked, FALSE)
        BY <1>s, <2>1, <2>5, <2>7 DEF RestoresTo
      <3>2. StandsIn(routingFiles', acked, command')
        BY <1>s, <2>1, <2>7 DEF StandsIn, inFlight
      <3> QED BY <3>1, <3>2
    <2> QED BY <1>0, <1>1, <2>1, <2>5, <2>7, FilesThereAre
  \* A command that ends.
  <1>4. ASSUME NEW c \in inFlight, ends(c), routingFiles' \in [FileNames -> RoutingFileSet], SoundSnapshot(routing'),
               edited' \in BOOLEAN, acked' \subseteq Overrides,
               ~overlapped => /\ \A o \in acked' : TargetIn(routingFiles'[readFrom].doc, o) = o.target
                              /\ ~edited' => routing' = loadModelRoutingState(routingFiles')
        PROVE  RoutingInv'
    <2>1. /\ command' = [command EXCEPT ![c] = IdleCommand] /\ UNCHANGED <<setting, issuedCommands, handEdits, overlapped>>
          /\ c \in RoutingCommands /\ command[c].kind # "idle"
      BY <1>4 DEF ends, inFlight
    <2>2. command'[c] = IdleCommand /\ \A d \in RoutingCommands : d # c => command'[d] = command[d]
      BY <1>0, <2>1
    <2>3. RoutingShape'
      <3>1. command' = [d \in RoutingCommands |-> command'[d]]
        BY <1>0, <2>1
      <3> QED BY <1>0, <1>4, <2>1, <2>2, <3>1 DEF RoutingShape, IdleCommand
    <2>4. ASSUME ~overlapped'
          PROVE  /\ \A d, e \in RoutingCommands : command'[d].kind # "idle" /\ command'[e].kind # "idle" => d = e
                 /\ \A d \in RoutingCommands : command'[d].kind # "idle" => RestoresTo(command'[d], routingFiles', acked', edited')
                 /\ StandsIn(routingFiles', acked', command')
                 /\ ~edited' => routing' = loadModelRoutingState(routingFiles')
      <3>1. \A d \in RoutingCommands : command'[d].kind = "idle"
        BY <1>s, <2>1, <2>2, <2>4 DEF IdleCommand
      <3> QED BY <1>4, <2>1, <2>4, <3>1 DEF StandsIn
    <2> QED BY <2>1, <2>3, <2>4, RoutingStays
  <1>a. ASSUME NEW c \in inFlight, ~overlapped
        PROVE  /\ RestoresTo(command[c], routingFiles, acked, edited)
               /\ \A o \in acked : \/ TargetIn(routingFiles[readFrom].doc, o) = o.target
                                   \/ command[c].kind = "override" /\ sameSubject(o, command[c].override)
               /\ ~edited => routing = loadModelRoutingState(routingFiles)
    BY <1>s, <1>t, <1>a DEF inFlight, StandsIn
  <1>b. ASSUME NEW c \in inFlight
        PROVE  /\ command[c].file \in RoutingFileSet /\ SoundSnapshot(command[c].routing) /\ command[c].stale \in BOOLEAN
               /\ command[c].kind \in {"override", "reload"}
               /\ command[c].kind = "override" => command[c].override \in Overrides
    BY <1>0, <1>b DEF RoutingShape, inFlight
  <1>5. ASSUME NEW c \in RoutingCommands, AuditSucceeds(c) PROVE RoutingInv'
    <2>1. /\ c \in inFlight /\ ends(c) /\ UNCHANGED <<routingFiles, routing, edited>>
          /\ acked' = IF command[c].kind = "reload" \/ edited THEN acked
                      ELSE unless({c}) \cup {command[c].override}
      BY <1>5 DEF AuditSucceeds
    <2>2. acked' \subseteq Overrides
      BY <1>0, <1>b, <2>1 DEF unless
    <2>3. ASSUME ~overlapped PROVE \A o \in acked' : TargetIn(routingFiles'[readFrom].doc, o) = o.target
      <3>1. CASE command[c].kind = "reload"
        BY <1>a, <2>1, <2>3, <3>1
      <3>2. CASE command[c].kind = "override" /\ edited
        <4>1. acked = {}
          BY <1>a, <2>1, <2>3, <3>2 DEF RestoresTo
        <4> QED BY <2>1, <3>2, <4>1
      <3>3. CASE command[c].kind = "override" /\ ~edited
        <4>1. TargetIn(routingFiles[readFrom].doc, command[c].override) = command[c].override.target
          BY <1>a, <2>1, <2>3, <3>3 DEF RestoresTo
        <4>2. \A o \in unless({c}) : TargetIn(routingFiles[readFrom].doc, o) = o.target
          BY <1>a, <2>1, <2>3, <3>3 DEF unless
        <4> QED BY <2>1, <3>3, <4>1, <4>2
      <3> QED BY <1>b, <2>1, <3>1, <3>2, <3>3
    <2>4. ~overlapped => (~edited' => routing' = loadModelRoutingState(routingFiles'))
      BY <1>a, <2>1
    <2> QED BY <1>0, <1>4, <2>1, <2>2, <2>3, <2>4
  <1>6. ASSUME NEW c \in RoutingCommands, AuditFails(c) PROVE RoutingInv'
    <2>1. /\ c \in inFlight /\ ends(c) /\ acked' = acked /\ routing' = command[c].routing
          /\ routingFiles' = IF command[c].kind = "reload" THEN routingFiles
                             ELSE [routingFiles EXCEPT ![readFrom] = command[c].file]
          /\ edited' = (edited \/ command[c].stale)
      BY <1>0, <1>6 DEF AuditFails
    <2>2. /\ routingFiles' \in [FileNames -> RoutingFileSet] /\ SoundSnapshot(routing') /\ edited' \in BOOLEAN
          /\ command[c].kind = "override" => routingFiles'[readFrom] = command[c].file
      BY <1>0, <1>b, <2>1
    <2>3. ASSUME ~overlapped
          PROVE  /\ \A o \in acked' : TargetIn(routingFiles'[readFrom].doc, o) = o.target
                 /\ ~edited' => routing' = loadModelRoutingState(routingFiles')
      <3>1. RestoresTo(command[c], routingFiles, acked, edited)
        BY <1>a, <2>1, <2>3
      <3>2. CASE command[c].kind = "reload"
        BY <1>a, <2>1, <2>3, <3>1, <3>2 DEF RestoresTo
      <3>3. CASE command[c].kind = "override"
        BY <2>1, <2>2, <3>1, <3>3 DEF RestoresTo
      <3> QED BY <1>b, <2>1, <3>2, <3>3
    <2> QED BY <1>0, <1>4, <2>1, <2>2, <2>3
  <1>7. ASSUME NEW c \in RoutingCommands, RollbackFails(c) PROVE RoutingInv'
    <2>1. /\ c \in inFlight /\ ends(c) /\ command[c].kind = "override" /\ acked' = unless({c})
          /\ UNCHANGED <<routingFiles, routing, edited>>
      BY <1>7 DEF RollbackFails
    <2>2. acked' \subseteq Overrides
      BY <1>0, <2>1 DEF unless
    <2>3. ASSUME ~overlapped
          PROVE  /\ \A o \in acked' : TargetIn(routingFiles'[readFrom].doc, o) = o.target
                 /\ ~edited' => routing' = loadModelRoutingState(routingFiles')
      <3>1. \A o \in unless({c}) : TargetIn(routingFiles[readFrom].doc, o) = o.target
        BY <1>a, <2>1, <2>3 DEF unless
      <3> QED BY <1>a, <2>1, <2>3, <3>1
    <2> QED BY <1>0, <1>4, <2>1, <2>2, <2>3
  <1>8. ASSUME NEW name \in {"home", "variable"}, NEW f \in {FileMissing} \cup {RoutingFile(d) : d \in Documents}, EditFile(name, f)
        PROVE  RoutingInv'
    <2>1. /\ handEdits < MaxHandEdits /\ handEdits' = handEdits + 1 /\ routingFiles' = [routingFiles EXCEPT ![name] = f]
          /\ name = readFrom => edited' = TRUE /\ acked' = {}
          /\ name # readFrom => UNCHANGED <<edited, acked>>
          /\ UNCHANGED <<setting, routing, command, issuedCommands, overlapped>>
      BY <1>0, <1>8 DEF EditFile
    <2>2. /\ f \in RoutingFileSet /\ routingFiles' \in [FileNames -> RoutingFileSet]
          /\ name # readFrom => routingFiles'[readFrom] = routingFiles[readFrom]
      <3>1. f \in RoutingFileSet /\ name \in FileNames
        BY FilesThereAre, DocumentAssumption DEF FileNames
      <3> QED BY <1>0, <2>1, <3>1
    <2>3. RoutingShape'
      <3>1. handEdits' \in 0 .. MaxHandEdits
        BY <1>0, <2>1, RoutingAssumption
      <3> QED BY <1>0, <2>1, <2>2, <3>1 DEF RoutingShape
    <2>4. \A g : loadModelRoutingState([routingFiles' EXCEPT ![readFrom] = g])
                   = loadModelRoutingState([routingFiles EXCEPT ![readFrom] = g])
      <3> TAKE g
      <3>1. [routingFiles' EXCEPT ![readFrom] = g][readFrom] = [routingFiles EXCEPT ![readFrom] = g][readFrom]
        BY <1>0, <2>2
      <3> QED BY <3>1, LoadedFromOne
    <2>5. ASSUME ~overlapped'
          PROVE  /\ \A d, e \in RoutingCommands : command'[d].kind # "idle" /\ command'[e].kind # "idle" => d = e
                 /\ \A d \in RoutingCommands : command'[d].kind # "idle" => RestoresTo(command'[d], routingFiles', acked', edited')
                 /\ StandsIn(routingFiles', acked', command')
                 /\ ~edited' => routing' = loadModelRoutingState(routingFiles')
      <3>0. ~overlapped /\ command' = command /\ routing' = routing
        BY <2>1, <2>5
      <3>1. CASE name = readFrom
        BY <1>s, <2>1, <2>4, <3>0, <3>1 DEF RestoresTo, StandsIn
      <3>2. CASE name # readFrom
        <4>1. loadModelRoutingState(routingFiles') = loadModelRoutingState(routingFiles)
          BY <2>2, <3>2, LoadedFromOne
        <4>2. edited' = edited /\ acked' = acked /\ routingFiles'[readFrom] = routingFiles[readFrom]
          BY <2>1, <2>2, <3>2
        <4> QED BY <1>s, <2>4, <3>0, <4>1, <4>2 DEF RestoresTo, StandsIn
      <3> QED BY <3>1, <3>2
    <2> QED BY <2>1, <2>3, <2>5, RoutingStays
  <1>9. ASSUME RestartHost PROVE RoutingInv'
    <2>1. /\ routing' = loadModelRoutingState(routingFiles) /\ command' = [c \in RoutingCommands |-> IdleCommand]
          /\ edited' = FALSE /\ acked' = unless(inFlight)
          /\ UNCHANGED <<setting, routingFiles, issuedCommands, handEdits, overlapped>>
      BY <1>9 DEF RestartHost
    <2>2. \A d \in RoutingCommands : command'[d].kind = "idle"
      BY <2>1 DEF IdleCommand
    <2>3. RoutingShape'
      <3>1. SoundSnapshot(routing')
        BY <1>0, <1>r, <2>1
      <3>2. acked' \subseteq Overrides /\ command' = [d \in RoutingCommands |-> command'[d]]
        BY <1>0, <2>1 DEF unless
      <3> QED BY <1>0, <2>1, <2>2, <3>1, <3>2 DEF RoutingShape
    <2>4. ASSUME ~overlapped' PROVE StandsIn(routingFiles', acked', command')
      <3>1. StandsIn(routingFiles, acked, command)
        BY <1>s, <2>1, <2>4
      <3> QED BY <1>t, <2>1, <3>1 DEF StandsIn, unless, inFlight
    <2> QED BY <2>1, <2>2, <2>3, <2>4, RoutingStays
  <1>10. CASE UNCHANGED routingVars
    <2>1. UNCHANGED <<setting, routingFiles, routing, command, issuedCommands, handEdits, edited, overlapped, acked>>
      BY <1>10 DEF routingVars
    <2>2. RoutingShape'
      BY <1>0, <2>1 DEF RoutingShape
    <2> QED BY <1>s, <2>1, <2>2, RoutingStays
  <1> QED BY <1>2, <1>3, <1>5, <1>6, <1>7, <1>8, <1>9, <1>10 DEF RoutingNext

LEMMA RoutingInvSafe == RoutingInv => RoutingSafety
  <1> SUFFICES ASSUME RoutingInv PROVE RoutingSafety
    OBVIOUS
  <1>1. RoutingTypeOK
    BY DEF RoutingInv, RoutingShape, RoutingTypeOK, SoundSnapshot
  <1> QED BY <1>1, SoundRoutes DEF RoutingInv, RoutingShape, RoutingSafety

-----------------------------------------------------------------------------
(* Sums over finite sets, as in OperationsProofs: the two modules speak of   *)
(* different systems and cannot extend one another.                         *)

Pick(s) == CHOOSE x \in s : TRUE

\* One step of the fold that SumFunctionOnSet is.
FoldStep(f, it, s) == IF s = {} THEN 0 ELSE f[Pick(s)] + it[s \ {Pick(s)}]
Fold(f, S, it) == it = [s \in SUBSET S |-> FoldStep(f, it, s)]

LEMMA SumIsFold ==
    ASSUME NEW f, NEW S
    PROVE SumFunctionOnSet(f, S) = (CHOOSE it : Fold(f, S, it))[S]
  BY DEF SumFunctionOnSet, FoldFunctionOnSet, MapThenFoldSet, Fold, FoldStep, Pick

\* Induction for a set of numbers.
LEMMA AllNumbers ==
    ASSUME NEW T, 0 \in T, \A n \in Nat : n \in T => n + 1 \in T
    PROVE Nat \subseteq T
  <1> SUFFICES ASSUME Nat \ T # {} PROVE FALSE
    OBVIOUS
  <1>1. PICK n \in Nat \ T : \A m \in Nat \ T : ~(<<m, n>> \in OpToRel(<, Nat))
    <2>1. Nat \ T \subseteq Nat
      OBVIOUS
    <2> QED BY <2>1, NatLessThanWellFounded, WFMin
  <1>2. n \in Nat /\ n \notin T
    OBVIOUS
  <1>3. n # 0
    BY <1>2
  <1>4. n - 1 \in Nat /\ (n - 1) + 1 = n
    BY <1>2, <1>3
  <1>5. n - 1 \notin T
    BY <1>2, <1>4
  <1>6. <<n - 1, n>> \in OpToRel(<, Nat)
    BY <1>2, <1>4 DEF OpToRel
  <1> QED BY <1>1, <1>4, <1>5, <1>6

\* What is left of a set without one element.
LEMMA OneLess ==
    ASSUME NEW s, IsFiniteSet(s), NEW x \in s
    PROVE  /\ IsFiniteSet(s \ {x}) /\ Cardinality(s) \in Nat
           /\ Cardinality(s) # 0 /\ Cardinality(s \ {x}) = Cardinality(s) - 1
  BY FS_RemoveElement, FS_CardinalityType, FS_EmptySet

LEMMA PickLeaves ==
    ASSUME NEW s, s # {}, IsFiniteSet(s)
    PROVE  /\ Pick(s) \in s /\ IsFiniteSet(s \ {Pick(s)})
           /\ Cardinality(s) \in Nat /\ Cardinality(s) # 0
           /\ Cardinality(s \ {Pick(s)}) = Cardinality(s) - 1
  BY OneLess DEF Pick

\* The fold of a finite set exists ...
LEMMA FoldExists ==
    ASSUME NEW f, NEW S, IsFiniteSet(S)
    PROVE  \E it : Fold(f, S, it)
  <1> DEFINE Upto(n, it) == \A s \in SUBSET S : Cardinality(s) <= n => it[s] = FoldStep(f, it, s)
             More(it) == [s \in SUBSET S |-> FoldStep(f, it, s)]
             T == {n \in Nat : \E it : Upto(n, it)}
  <1>1. \A s \in SUBSET S : IsFiniteSet(s) /\ Cardinality(s) \in Nat /\ Cardinality(s) <= Cardinality(S)
    BY FS_Subset, FS_CardinalityType
  <1>2. ASSUME NEW n \in Nat, NEW it,
               \A s \in SUBSET S : Cardinality(s) < n => it[s] = FoldStep(f, it, s)
        PROVE  Upto(n, More(it))
    <2> SUFFICES ASSUME NEW s \in SUBSET S, Cardinality(s) <= n PROVE More(it)[s] = FoldStep(f, More(it), s)
      OBVIOUS
    <2>1. CASE s = {}
      BY <2>1 DEF FoldStep
    <2>2. CASE s # {}
      <3> DEFINE r == s \ {Pick(s)}
      <3>1. r \in SUBSET S /\ Cardinality(r) < n
        BY <1>1, <2>2, PickLeaves
      <3>2. it[r] = FoldStep(f, it, r)
        BY <1>2, <3>1
      <3>3. More(it)[r] = it[r]
        BY <3>1, <3>2
      <3> QED BY <3>3, <2>2 DEF FoldStep
    <2> QED BY <2>1, <2>2
  <1>3. 0 \in T
    <2>1. \A s \in SUBSET S : Cardinality(s) < 0 => 0[s] = FoldStep(f, 0, s)
      BY <1>1
    <2>2. Upto(0, More(0))
      <3> HIDE DEF Upto, More
      <3> QED BY <2>1, <1>2
    <2> QED BY <2>2
  <1>4. ASSUME NEW n \in Nat, n \in T PROVE n + 1 \in T
    <2>1. PICK it : Upto(n, it)
      BY <1>4
    <2>2. Upto(n + 1, More(it))
      <3>1. \A s \in SUBSET S : Cardinality(s) < n + 1 => it[s] = FoldStep(f, it, s)
        BY <1>1, <2>1
      <3> DEFINE m == n + 1
      <3>2. m \in Nat /\ \A s \in SUBSET S : Cardinality(s) < m => it[s] = FoldStep(f, it, s)
        BY <3>1
      <3> HIDE DEF Upto, More, m
      <3>3. Upto(m, More(it))
        BY <3>2, <1>2
      <3> QED BY <3>3 DEF m
    <2>3. \E jt : Upto(n + 1, jt)
      <3> HIDE DEF Upto, More
      <3> QED BY <2>2
    <2> QED BY <2>3
  <1>5. PICK it : Upto(Cardinality(S), it)
    <2>1. Nat \subseteq T
      <3> HIDE DEF T
      <3> QED BY <1>3, <1>4, AllNumbers
    <2> QED BY <2>1, <1>1
  <1>6. \A s \in SUBSET S : it[s] = FoldStep(f, it, s)
    BY <1>1, <1>5
  <1>7. \A s \in SUBSET S : FoldStep(f, More(it), s) = FoldStep(f, it, s)
    <2> SUFFICES ASSUME NEW s \in SUBSET S, s # {} PROVE FoldStep(f, More(it), s) = FoldStep(f, it, s)
      BY DEF FoldStep
    <2>1. s \ {Pick(s)} \in SUBSET S
      OBVIOUS
    <2>2. More(it)[s \ {Pick(s)}] = it[s \ {Pick(s)}]
      BY <1>6, <2>1
    <2> QED BY <2>2 DEF FoldStep
  <1>8. Fold(f, S, More(it))
    BY <1>7 DEF Fold
  <1> QED BY <1>8

\* ... and is determined by the values it sums.
LEMMA FoldIsUnique ==
    ASSUME NEW f, NEW g, NEW S, IsFiniteSet(S), NEW R \in SUBSET S, \A x \in R : f[x] = g[x],
           NEW it, NEW jt, Fold(f, S, it), Fold(g, R, jt)
    PROVE  it[R] = jt[R]
  <1> DEFINE T == {n \in Nat : \A s \in SUBSET R : Cardinality(s) = n => it[s] = jt[s]}
  <1>1. \A s \in SUBSET R : IsFiniteSet(s) /\ Cardinality(s) \in Nat
    BY FS_Subset, FS_CardinalityType
  <1>2. \A s \in SUBSET R : it[s] = FoldStep(f, it, s) /\ jt[s] = FoldStep(g, jt, s)
    BY DEF Fold
  <1>3. 0 \in T
    BY <1>1, <1>2, FS_EmptySet DEF FoldStep
  <1>4. ASSUME NEW n \in Nat, n \in T PROVE n + 1 \in T
    <2> SUFFICES ASSUME NEW s \in SUBSET R, Cardinality(s) = n + 1 PROVE it[s] = jt[s]
      OBVIOUS
    <2>1. s # {}
      BY FS_EmptySet
    <2>2. Pick(s) \in R /\ s \ {Pick(s)} \in SUBSET R /\ Cardinality(s \ {Pick(s)}) = n
      BY <1>1, <2>1, PickLeaves
    <2>3. it[s \ {Pick(s)}] = jt[s \ {Pick(s)}]
      BY <1>4, <2>2
    <2> QED BY <1>2, <2>1, <2>2, <2>3 DEF FoldStep
  <1>5. Nat \subseteq T
    <2> HIDE DEF T
    <2> QED BY <1>3, <1>4, AllNumbers
  <1> QED BY <1>1, <1>5

LEMMA SumOfEqual ==
    ASSUME NEW f, NEW g, NEW S, IsFiniteSet(S), \A x \in S : f[x] = g[x]
    PROVE  SumFunctionOnSet(f, S) = SumFunctionOnSet(g, S)
  <1> DEFINE it == CHOOSE t : Fold(f, S, t)
             jt == CHOOSE t : Fold(g, S, t)
  <1>1. Fold(f, S, it) /\ Fold(g, S, jt)
    BY FoldExists
  <1>2. SumFunctionOnSet(f, S) = it[S] /\ SumFunctionOnSet(g, S) = jt[S]
    BY SumIsFold
  <1>3. S \in SUBSET S
    OBVIOUS
  <1> HIDE DEF it, jt
  <1>4. it[S] = jt[S]
    BY <1>1, <1>3, FoldIsUnique
  <1> QED BY <1>2, <1>4

LEMMA SumPicks ==
    ASSUME NEW f, NEW S, IsFiniteSet(S)
    PROVE  SumFunctionOnSet(f, S) =
             IF S = {} THEN 0 ELSE f[Pick(S)] + SumFunctionOnSet(f, S \ {Pick(S)})
  <1> DEFINE it == CHOOSE t : Fold(f, S, t)
             R == S \ {Pick(S)}
             jt == CHOOSE t : Fold(f, R, t)
  <1>1. IsFiniteSet(R) /\ R \in SUBSET S
    BY FS_Subset
  <1>2. Fold(f, S, it) /\ Fold(f, R, jt)
    BY <1>1, FoldExists
  <1>3. it[R] = jt[R]
    <2> HIDE DEF R, it, jt
    <2> QED BY <1>1, <1>2, FoldIsUnique
  <1>4. it[S] = FoldStep(f, it, S)
    BY <1>2 DEF Fold
  <1> HIDE DEF it, jt
  <1>5. SumFunctionOnSet(f, S) = it[S] /\ SumFunctionOnSet(f, R) = jt[R]
    BY SumIsFold DEF it, jt
  <1> QED BY <1>3, <1>4, <1>5 DEF FoldStep

LEMMA SumIsNatural ==
    ASSUME NEW f, NEW S, IsFiniteSet(S), \A x \in S : f[x] \in Nat
    PROVE  SumFunctionOnSet(f, S) \in Nat
  <1> DEFINE T == {n \in Nat : \A s \in SUBSET S : Cardinality(s) = n => SumFunctionOnSet(f, s) \in Nat}
  <1>1. \A s \in SUBSET S : IsFiniteSet(s) /\ Cardinality(s) \in Nat
    BY FS_Subset, FS_CardinalityType
  <1>2. 0 \in T
    <2>1. SumFunctionOnSet(f, {}) = 0
      BY FS_EmptySet, SumPicks
    <2> QED BY <1>1, <2>1, FS_EmptySet
  <1>3. ASSUME NEW n \in Nat, n \in T PROVE n + 1 \in T
    <2> SUFFICES ASSUME NEW s \in SUBSET S, Cardinality(s) = n + 1 PROVE SumFunctionOnSet(f, s) \in Nat
      OBVIOUS
    <2>1. s # {}
      BY FS_EmptySet
    <2>2. Pick(s) \in S /\ s \ {Pick(s)} \in SUBSET S /\ Cardinality(s \ {Pick(s)}) = n
      BY <1>1, <2>1, PickLeaves
    <2>3. SumFunctionOnSet(f, s \ {Pick(s)}) \in Nat /\ f[Pick(s)] \in Nat
      BY <1>3, <2>2
    <2>4. SumFunctionOnSet(f, s) = f[Pick(s)] + SumFunctionOnSet(f, s \ {Pick(s)})
      BY <1>1, <2>1, SumPicks
    <2> QED BY <2>3, <2>4
  <1>4. Nat \subseteq T
    <2> HIDE DEF T
    <2> QED BY <1>2, <1>3, AllNumbers
  <1> QED BY <1>1, <1>4

\* The sum of a set is that of the set without any one element, and that element.
LEMMA SumRemoves ==
    ASSUME NEW f, NEW S, IsFiniteSet(S), \A x \in S : f[x] \in Nat, NEW e0 \in S
    PROVE  SumFunctionOnSet(f, S) = f[e0] + SumFunctionOnSet(f, S \ {e0})
  <1> DEFINE Good(s) == \A e \in s : SumFunctionOnSet(f, s) = f[e] + SumFunctionOnSet(f, s \ {e})
             T == {n \in Nat : \A s \in SUBSET S : Cardinality(s) = n => Good(s)}
  <1>1. \A s \in SUBSET S : IsFiniteSet(s) /\ Cardinality(s) \in Nat
    BY FS_Subset, FS_CardinalityType
  <1>2. \A s \in SUBSET S : SumFunctionOnSet(f, s) \in Nat
    BY <1>1, SumIsNatural
  <1>3. 0 \in T
    BY <1>1, FS_EmptySet
  <1>4. ASSUME NEW n \in Nat, n \in T PROVE n + 1 \in T
    <2> SUFFICES ASSUME NEW s \in SUBSET S, Cardinality(s) = n + 1, NEW e \in s,
                        Pick(s) # e
                 PROVE  SumFunctionOnSet(f, s) = f[e] + SumFunctionOnSet(f, s \ {e})
      <3>1. ASSUME NEW s \in SUBSET S, NEW e \in s, Pick(s) = e
            PROVE  SumFunctionOnSet(f, s) = f[e] + SumFunctionOnSet(f, s \ {e})
        BY <1>1, <3>1, SumPicks
      <3> QED BY <3>1
    <2> DEFINE y == Pick(s)
               r == s \ {y}
               q == s \ {e}
    <2>1. y \in S /\ y \in s /\ Cardinality(r) = n
      BY <1>1, PickLeaves
    <2>2. SumFunctionOnSet(f, s) = f[y] + SumFunctionOnSet(f, r)
      BY <1>1, SumPicks
    <2>3. SumFunctionOnSet(f, r) = f[e] + SumFunctionOnSet(f, r \ {e})
      BY <1>4, <2>1
    <2>4. SumFunctionOnSet(f, q) = f[y] + SumFunctionOnSet(f, q \ {y})
      <3>1. y \in q /\ q \in SUBSET S
        BY <2>1
      <3>2. IsFiniteSet(s)
        BY <1>1
      <3>3. Cardinality(q) = n
        BY <3>2, OneLess
      <3> QED BY <3>1, <3>3, <1>4
    <2>5. r \ {e} = q \ {y}
      OBVIOUS
    <2>6. f[e] \in Nat /\ f[y] \in Nat /\ SumFunctionOnSet(f, r \ {e}) \in Nat
      BY <1>2, <2>1
    <2> HIDE DEF y, r, q
    <2>7. SumFunctionOnSet(f, s) = f[e] + SumFunctionOnSet(f, q)
      BY <2>2, <2>3, <2>4, <2>5, <2>6
    <2> QED BY <2>7 DEF q
  <1>5. Nat \subseteq T
    <2> HIDE DEF T
    <2> QED BY <1>3, <1>4, AllNumbers
  <1> QED BY <1>1, <1>5

\* What changing one of the summed numbers does to the sum.
LEMMA SumReplaces ==
    ASSUME NEW S, IsFiniteSet(S), NEW f, NEW g, NEW e \in S,
           \A x \in S : f[x] \in Nat /\ g[x] \in Nat,
           \A x \in S : x # e => g[x] = f[x]
    PROVE  /\ SumFunctionOnSet(f, S) \in Nat /\ SumFunctionOnSet(g, S) \in Nat
           /\ SumFunctionOnSet(g, S) + f[e] = SumFunctionOnSet(f, S) + g[e]
  <1> DEFINE R == S \ {e}
  <1>1. IsFiniteSet(R) /\ \A x \in R : g[x] = f[x]
    BY FS_Subset
  <1> HIDE DEF R
  <1>2. SumFunctionOnSet(f, R) = SumFunctionOnSet(g, R)
    BY <1>1, SumOfEqual
  <1>3. SumFunctionOnSet(f, S) = f[e] + SumFunctionOnSet(f, R)
    BY SumRemoves DEF R
  <1>4. SumFunctionOnSet(g, S) = g[e] + SumFunctionOnSet(g, R)
    BY SumRemoves DEF R
  <1>5. SumFunctionOnSet(f, R) \in Nat /\ f[e] \in Nat /\ g[e] \in Nat
    BY <1>1, SumIsNatural DEF R
  <1> QED BY <1>2, <1>3, <1>4, <1>5

LEMMA SumOfNone ==
    ASSUME NEW S, IsFiniteSet(S) PROVE SumFunctionOnSet([x \in S |-> 0], S) = 0
  <1> DEFINE f == [x \in S |-> 0]
             T == {n \in Nat : \A s \in SUBSET S : Cardinality(s) = n => SumFunctionOnSet(f, s) = 0}
  <1>1. \A s \in SUBSET S : IsFiniteSet(s) /\ Cardinality(s) \in Nat
    BY FS_Subset, FS_CardinalityType
  <1>2. \A x \in S : f[x] = 0
    OBVIOUS
  <1> HIDE DEF f
  <1>3. 0 \in T
    BY <1>1, FS_EmptySet, SumPicks
  <1>4. ASSUME NEW n \in Nat, n \in T PROVE n + 1 \in T
    <2> SUFFICES ASSUME NEW s \in SUBSET S, Cardinality(s) = n + 1 PROVE SumFunctionOnSet(f, s) = 0
      OBVIOUS
    <2>1. s # {}
      BY FS_EmptySet
    <2>2. Pick(s) \in S /\ s \ {Pick(s)} \in SUBSET S /\ Cardinality(s \ {Pick(s)}) = n
      BY <1>1, <2>1, PickLeaves
    <2>3. SumFunctionOnSet(f, s \ {Pick(s)}) = 0 /\ f[Pick(s)] = 0
      BY <1>2, <1>4, <2>2
    <2>4. SumFunctionOnSet(f, s) = f[Pick(s)] + SumFunctionOnSet(f, s \ {Pick(s)})
      BY <1>1, <2>1, SumPicks
    <2> QED BY <2>3, <2>4
  <1>5. Nat \subseteq T
    <2> HIDE DEF T
    <2> QED BY <1>3, <1>4, AllNumbers
  <1>6. SumFunctionOnSet(f, S) = 0
    BY <1>1, <1>5
  <1> QED BY <1>6 DEF f

-----------------------------------------------------------------------------
(* GatewayWorker *)

ExecutionSteps == {"new", "resolve", "budget", "save", "reserve", "send", "wait", "settle", "ended"}
ExecutionCodes ==
    {"none", "ok", "WORKER_MODEL_REQUIRED", "WORKER_MODEL_UNSUPPORTED", "WORKER_CREDENTIALS_MISSING", "AbortError",
     "WORKER_TIMEOUT", "WORKER_PRICING_UNAVAILABLE", "WORKER_BUDGET_EXHAUSTED", "WORKER_FAILED", "WORKER_OUTPUT_INVALID",
     "WORKER_MODEL_MISMATCH", "STORAGE"}
\* The steps of an execution whose request is paid for in advance.
paidSteps == {"send", "wait", "settle"}
chosen == selection.present /\ supportsSelection(selection) /\ selection.credentials

ExecutionRecords ==
    [step : ExecutionSteps, found : Nat, stale : BOOLEAN, timedOut : BOOLEAN, aborted : BOOLEAN, sent : BOOLEAN,
     reply : Replies \cup {"none"}, outcome : ExecutionCodes]
GatewayShape ==
    /\ executed \in [Executions -> ExecutionRecords]
    /\ spent \in [Executions -> Nat] /\ reserved \in [Executions -> Nat]
    /\ runBudget \in Nat /\ operatorBudgets \in 0 .. MaxOperatorBudgets /\ overruled \in BOOLEAN

\* What an execution has spent and holds, by the step it is at: nothing before
\* it is chosen and priced, the worst case while it may be billed, and not
\* nothing once it was answered.
PaysAsItGoes(x, s, r) ==
    /\ x.step \notin {"new", "ended"} => chosen
    /\ x.step \in paidSteps \/ x.sent \/ s # 0 \/ r # 0 => chosen /\ selection.priced
    /\ x.step # "ended" =>
         s = 0 /\ x.outcome # "ok" /\ r = IF x.step \in paidSteps THEN WorstCase ELSE 0
    /\ x.reply # "none" => x.step \in {"settle", "ended"}
    /\ x.step = "settle" => x.reply # "none"
    /\ x.step = "ended" /\ x.reply \notin {"none", "no answer"} => s > 0 \/ r > 0
    /\ x.outcome = "ok" => x.reply = "good" /\ chosen /\ s > 0

\* An execution about to reserve, or to leave a narrow limit as it is, is under
\* the role's limit; until an operator writes, one that is about to lower the
\* limit finds none below the role's.
LowersOnly(x) ==
    /\ ~overruled /\ (x.step = "reserve" \/ (x.step = "save" /\ x.found <= RoleLimitMicros)) => runBudget <= RoleLimitMicros
    /\ x.step = "save" /\ ~x.stale /\ x.found > RoleLimitMicros => runBudget >= RoleLimitMicros

\* The inductive invariant.
GatewayInv ==
    /\ GatewayShape
    /\ \A e \in Executions : PaysAsItGoes(executed[e], spent[e], reserved[e]) /\ LowersOnly(executed[e])
    /\ RunWithinRole

LEMMA UsedIsSum ==
    ASSUME spent \in [Executions -> Nat], reserved \in [Executions -> Nat]
    PROVE  used = SumFunctionOnSet(spent, Executions) + SumFunctionOnSet(reserved, Executions)
  BY DEF used, SumFunction

LEMMA GatewayInitInv == GatewayInit => GatewayInv
  <1> SUFFICES ASSUME GatewayInit PROVE GatewayInv
    OBVIOUS
  <1> USE GatewayAssumption
  <1>1. NoLimit \in Nat /\ Fresh \in ExecutionRecords
    <2>1. RoleLimitMicros \in Nat
      OBVIOUS
    <2>2. NoLimit \in Nat
      BY <2>1 DEF NoLimit
    <2> QED BY <2>2 DEF Fresh, ExecutionRecords, ExecutionSteps, ExecutionCodes
  <1>2. /\ executed \in [Executions -> ExecutionRecords] /\ \A e \in Executions : executed[e] = Fresh
        /\ spent \in [Executions -> Nat] /\ reserved \in [Executions -> Nat]
        /\ \A e \in Executions : spent[e] = 0 /\ reserved[e] = 0
    BY <1>1 DEF GatewayInit
  <1>3. runBudget \in Nat /\ operatorBudgets \in 0 .. MaxOperatorBudgets /\ overruled \in BOOLEAN
    <2>1. MaxOperatorBudgets \in Nat
      OBVIOUS
    <2>2. operatorBudgets = 0 /\ runBudget = NoLimit /\ overruled = FALSE
      BY DEF GatewayInit
    <2>3. operatorBudgets \in 0 .. MaxOperatorBudgets
      BY <2>1, <2>2
    <2>4. overruled \in BOOLEAN
      BY <2>2
    <2> QED BY <1>1, <2>2, <2>3, <2>4
  <1>4. \A e \in Executions : PaysAsItGoes(executed[e], spent[e], reserved[e]) /\ LowersOnly(executed[e])
    <2>1. Fresh.step = "new" /\ Fresh.sent = FALSE /\ Fresh.reply = "none" /\ Fresh.outcome = "none"
      BY DEF Fresh
    <2> QED BY <1>2, <2>1 DEF PaysAsItGoes, LowersOnly, paidSteps
  <1>5. used <= RoleLimitMicros
    <2>1. SumFunctionOnSet([e \in Executions |-> 0], Executions) = 0
      BY SumOfNone
    <2>2. spent = [e \in Executions |-> 0] /\ reserved = [e \in Executions |-> 0]
      BY DEF GatewayInit
    <2>3. used = 0
      BY <1>2, <2>1, <2>2, UsedIsSum
    <2> QED BY <2>3
  <1> QED BY <1>2, <1>3, <1>4, <1>5 DEF GatewayInv, GatewayShape, RunWithinRole

\* What a step of one execution does to what the run uses.
LEMMA UsedReplaces ==
    ASSUME GatewayShape, NEW e \in Executions, NEW s \in Nat, NEW r \in Nat,
           spent' = [spent EXCEPT ![e] = s], reserved' = [reserved EXCEPT ![e] = r]
    PROVE  /\ used \in Nat /\ used' \in Nat
           /\ used' + spent[e] + reserved[e] = used + s + r
  <1>1. /\ spent \in [Executions -> Nat] /\ spent' \in [Executions -> Nat]
        /\ spent'[e] = s /\ \A d \in Executions : d # e => spent'[d] = spent[d]
    BY DEF GatewayShape
  <1>2. /\ reserved \in [Executions -> Nat] /\ reserved' \in [Executions -> Nat]
        /\ reserved'[e] = r /\ \A d \in Executions : d # e => reserved'[d] = reserved[d]
    BY DEF GatewayShape
  <1>0. IsFiniteSet(Executions)
    BY GatewayAssumption
  <1>3. /\ SumFunctionOnSet(spent, Executions) \in Nat /\ SumFunctionOnSet(spent', Executions) \in Nat
        /\ SumFunctionOnSet(spent', Executions) + spent[e] = SumFunctionOnSet(spent, Executions) + s
    <2> DEFINE f == spent g == spent'
    <2>1. \A d \in Executions : f[d] \in Nat /\ g[d] \in Nat
      BY <1>1
    <2>2. \A d \in Executions : d # e => g[d] = f[d]
      BY <1>1
    <2> HIDE DEF f, g
    <2>3. /\ SumFunctionOnSet(f, Executions) \in Nat /\ SumFunctionOnSet(g, Executions) \in Nat
          /\ SumFunctionOnSet(g, Executions) + f[e] = SumFunctionOnSet(f, Executions) + g[e]
      BY <1>0, <2>1, <2>2, SumReplaces
    <2> QED BY <1>1, <2>3 DEF f, g
  <1>4. /\ SumFunctionOnSet(reserved, Executions) \in Nat /\ SumFunctionOnSet(reserved', Executions) \in Nat
        /\ SumFunctionOnSet(reserved', Executions) + reserved[e] = SumFunctionOnSet(reserved, Executions) + r
    <2> DEFINE f == reserved g == reserved'
    <2>1. \A d \in Executions : f[d] \in Nat /\ g[d] \in Nat
      BY <1>2
    <2>2. \A d \in Executions : d # e => g[d] = f[d]
      BY <1>2
    <2> HIDE DEF f, g
    <2>3. /\ SumFunctionOnSet(f, Executions) \in Nat /\ SumFunctionOnSet(g, Executions) \in Nat
          /\ SumFunctionOnSet(g, Executions) + f[e] = SumFunctionOnSet(f, Executions) + g[e]
      BY <1>0, <2>1, <2>2, SumReplaces
    <2> QED BY <1>2, <2>3 DEF f, g
  <1>5. /\ used = SumFunctionOnSet(spent, Executions) + SumFunctionOnSet(reserved, Executions)
        /\ used' = SumFunctionOnSet(spent', Executions) + SumFunctionOnSet(reserved', Executions)
    BY <1>1, <1>2 DEF used, SumFunction
  <1>6. spent[e] \in Nat /\ reserved[e] \in Nat
    BY <1>1, <1>2
  <1> HIDE DEF used
  <1> QED BY <1>3, <1>4, <1>5, <1>6

\* A step of one execution that leaves the run's limit.
LEMMA ExecutionStep ==
    ASSUME GatewayInv, NEW e \in Executions, NEW x \in ExecutionRecords, NEW s \in Nat, NEW r \in Nat,
           executed' = [executed EXCEPT ![e] = x],
           spent' = [spent EXCEPT ![e] = s], reserved' = [reserved EXCEPT ![e] = r],
           UNCHANGED <<selection, runBudget, operatorBudgets, overruled>>,
           PaysAsItGoes(x, s, r), LowersOnly(x),
           \/ s + r <= spent[e] + reserved[e]
           \/ ~overruled => used + s + r <= RoleLimitMicros
    PROVE  GatewayInv'
  <1> USE GatewayAssumption
  <1>1. GatewayShape'
    BY DEF GatewayInv, GatewayShape
  <1>2. ASSUME NEW d \in Executions
        PROVE  (PaysAsItGoes(executed[d], spent[d], reserved[d]) /\ LowersOnly(executed[d]))'
    <2>1. chosen' = chosen /\ selection' = selection
      BY DEF chosen, supportsSelection
    <2>2. CASE d = e
      <3>1. executed'[d] = x /\ spent'[d] = s /\ reserved'[d] = r
        BY <2>2 DEF GatewayInv, GatewayShape
      <3> QED BY <2>1, <3>1 DEF PaysAsItGoes, LowersOnly
    <2>3. CASE d # e
      <3>1. executed'[d] = executed[d] /\ spent'[d] = spent[d] /\ reserved'[d] = reserved[d]
        BY <2>3 DEF GatewayInv, GatewayShape
      <3>2. PaysAsItGoes(executed[d], spent[d], reserved[d]) /\ LowersOnly(executed[d])
        BY DEF GatewayInv
      <3> QED BY <2>1, <3>1, <3>2 DEF PaysAsItGoes, LowersOnly
    <2> QED BY <2>2, <2>3
  <1>3. RunWithinRole'
    <2>1. /\ used \in Nat /\ used' \in Nat /\ used' + spent[e] + reserved[e] = used + s + r
      BY UsedReplaces DEF GatewayInv
    <2>2. spent[e] \in Nat /\ reserved[e] \in Nat /\ RoleLimitMicros \in Nat
      BY DEF GatewayInv, GatewayShape
    <2>3. ~overruled => used <= RoleLimitMicros
      BY DEF GatewayInv, RunWithinRole
    <2>4. ~overruled => used' <= RoleLimitMicros
      <3> HIDE DEF used
      <3>1. CASE s + r <= spent[e] + reserved[e]
        BY <2>1, <2>2, <2>3, <3>1
      <3>2. CASE ~overruled => used + s + r <= RoleLimitMicros
        BY <2>1, <2>2, <3>2
      <3> QED BY <3>1, <3>2
    <2> QED BY <2>4 DEF RunWithinRole
  <1> QED BY <1>1, <1>2, <1>3 DEF GatewayInv

\* An execution that ends without an answer holds and has spent nothing.
LEMMA EndsUnpaid ==
    ASSUME GatewayInv, NEW e \in Executions, NEW code \in ExecutionCodes \ {"ok"},
           executed[e].step \notin {"settle", "ended"}, endsWith(e, code),
           spent' = spent, \/ reserved' = reserved /\ executed[e].step \notin paidSteps
                           \/ releases(e),
           UNCHANGED <<selection, runBudget, operatorBudgets, overruled>>
    PROVE  GatewayInv'
  <1> DEFINE y == executed[e] x == [y EXCEPT !.step = "ended", !.outcome = code]
  <1>1. y \in ExecutionRecords /\ spent[e] \in Nat /\ reserved[e] \in Nat
    BY DEF GatewayInv, GatewayShape
  <1>2. PaysAsItGoes(y, spent[e], reserved[e])
    BY DEF GatewayInv
  <1>3. executed' = [executed EXCEPT ![e] = x]
    BY DEF endsWith, GatewayInv, GatewayShape
  <1>4. /\ x \in ExecutionRecords /\ x.step = "ended" /\ x.outcome = code
        /\ x.sent = y.sent /\ x.reply = y.reply
    BY <1>1 DEF ExecutionRecords, ExecutionSteps
  <1>5. y.step \notin {"settle", "ended"}
    OBVIOUS
  <1>6. spent' = [spent EXCEPT ![e] = 0] /\ reserved' = [reserved EXCEPT ![e] = 0] /\ spent[e] = 0
    <2>1. spent[e] = 0 /\ (y.step \notin paidSteps => reserved[e] = 0)
      BY <1>2, <1>5 DEF PaysAsItGoes
    <2> QED BY <2>1 DEF releases, GatewayInv, GatewayShape
  <1> HIDE DEF y, x
  <1>7. PaysAsItGoes(x, 0, 0)
    BY <1>2, <1>4, <1>5 DEF PaysAsItGoes, paidSteps
  <1>8. LowersOnly(x)
    BY <1>4 DEF LowersOnly
  <1>9. x \in ExecutionRecords
    BY <1>4
  <1> DEFINE n == 0
  <1>10. n \in Nat /\ n + n <= spent[e] + reserved[e]
    BY <1>1
  <1>11. spent' = [spent EXCEPT ![e] = n] /\ reserved' = [reserved EXCEPT ![e] = n] /\ PaysAsItGoes(x, n, n)
    BY <1>6, <1>7
  <1> HIDE DEF n
  <1> QED BY <1>3, <1>8, <1>9, <1>10, <1>11, ExecutionStep

\* An execution that goes on to a step, with what it reserves there.
LEMMA ExecutionGoesOn ==
    ASSUME GatewayInv, NEW e \in Executions, NEW x \in ExecutionRecords, NEW r \in Nat,
           executed' = [executed EXCEPT ![e] = x],
           spent' = spent, reserved' = [reserved EXCEPT ![e] = r],
           UNCHANGED <<selection, runBudget, operatorBudgets, overruled>>,
           executed[e].step # "ended", x.step # "ended", x.outcome = executed[e].outcome, chosen,
           x.sent => x.sent = executed[e].sent \/ selection.priced,
           x.step \in paidSteps \/ executed[e].step \in paidSteps => selection.priced,
           r = (IF x.step \in paidSteps THEN WorstCase ELSE 0),
           x.reply # "none" <=> x.step = "settle",
           LowersOnly(x),
           r <= reserved[e] \/ (~overruled => used + r <= RoleLimitMicros)
    PROVE  GatewayInv'
  <1> DEFINE y == executed[e]
  <1>1. y \in ExecutionRecords /\ spent[e] \in Nat /\ reserved[e] \in Nat
    BY DEF GatewayInv, GatewayShape
  <1>2. PaysAsItGoes(y, spent[e], reserved[e])
    BY DEF GatewayInv
  <1>3. spent[e] = 0 /\ y.outcome # "ok" /\ (y.sent => selection.priced)
    BY <1>2 DEF PaysAsItGoes
  <1>4. spent' = [spent EXCEPT ![e] = 0]
    BY <1>3 DEF GatewayInv, GatewayShape
  <1>5. WorstCase # 0
    BY GatewayAssumption
  <1>6. PaysAsItGoes(x, 0, r)
    BY <1>3, <1>5 DEF PaysAsItGoes, paidSteps
  <1>7. \/ 0 + r <= spent[e] + reserved[e]
        \/ ~overruled => used + 0 + r <= RoleLimitMicros
    <2>1. used \in Nat
      <3>1. spent' = [spent EXCEPT ![e] = 0] /\ reserved' = [reserved EXCEPT ![e] = r] /\ 0 \in Nat
        BY <1>4
      <3> QED BY <3>1, UsedReplaces DEF GatewayInv
    <2> HIDE DEF used
    <2> QED BY <1>1, <1>3, <2>1
  <1> QED BY <1>4, <1>6, <1>7, ExecutionStep

\* What is known of an execution at its step.
LEMMA AtStep ==
    ASSUME GatewayInv, NEW e \in Executions
    PROVE  /\ executed[e] \in ExecutionRecords /\ LowersOnly(executed[e])
           /\ spent[e] \in Nat /\ reserved[e] \in Nat
           /\ reserved' = reserved => reserved' = [reserved EXCEPT ![e] = reserved[e]]
           /\ executed[e].step \notin {"new", "ended"} => chosen
           /\ executed[e].step \in paidSteps => selection.priced
           /\ executed[e].step # "ended" =>
                /\ spent[e] = 0 /\ reserved[e] = (IF executed[e].step \in paidSteps THEN WorstCase ELSE 0)
                /\ executed[e].outcome # "ok"
                /\ executed[e].reply # "none" <=> executed[e].step = "settle"
  <1> DEFINE y == executed[e]
  <1>1. /\ y \in ExecutionRecords /\ spent[e] \in Nat /\ reserved[e] \in Nat
        /\ reserved' = reserved => reserved' = [reserved EXCEPT ![e] = reserved[e]]
    BY DEF GatewayInv, GatewayShape
  <1>2. PaysAsItGoes(y, spent[e], reserved[e]) /\ LowersOnly(y)
    BY DEF GatewayInv
  <1> HIDE DEF y
  <1>3. /\ y.step \notin {"new", "ended"} => chosen
        /\ y.step \in paidSteps => selection.priced
        /\ y.step # "ended" =>
             /\ spent[e] = 0 /\ reserved[e] = (IF y.step \in paidSteps THEN WorstCase ELSE 0)
             /\ y.outcome # "ok"
             /\ y.reply # "none" <=> y.step = "settle"
    BY <1>2 DEF PaysAsItGoes
  <1> QED BY <1>1, <1>2, <1>3 DEF y

LEMMA StepsTo ==
    ASSUME GatewayInv, NEW e \in Executions, NEW to \in {"resolve", "budget", "send"}, NEW r \in Nat,
           goesOn(e, to), executed[e].step \in {"new", "resolve", "reserve"},
           spent' = spent, reserved' = [reserved EXCEPT ![e] = r],
           UNCHANGED <<selection, runBudget, operatorBudgets, overruled>>,
           chosen, to = "send" => selection.priced,
           r = (IF to = "send" THEN WorstCase ELSE 0),
           r = 0 \/ (~overruled => used + r <= RoleLimitMicros)
    PROVE  GatewayInv'
  <1> DEFINE y == executed[e] x == [y EXCEPT !.step = to]
  <1>1. /\ y \in ExecutionRecords /\ reserved[e] \in Nat /\ y.reply = "none"
        /\ (y.sent => selection.priced)
    <2>1. PaysAsItGoes(y, spent[e], reserved[e])
      BY DEF GatewayInv
    <2> QED BY <2>1, AtStep DEF PaysAsItGoes
  <1>2. executed' = [executed EXCEPT ![e] = x]
    BY DEF goesOn, GatewayInv, GatewayShape
  <1>3. /\ x \in ExecutionRecords /\ x.step = to /\ x.outcome = y.outcome
        /\ x.sent = y.sent /\ x.reply = y.reply
    BY <1>1 DEF ExecutionRecords, ExecutionSteps
  <1>4. y.step \in {"new", "resolve", "reserve"}
    OBVIOUS
  <1> HIDE DEF x
  <1>5. LowersOnly(x)
    BY <1>3 DEF LowersOnly
  <1>6. /\ x.reply # "none" <=> x.step = "settle"
        /\ y.step # "ended" /\ x.step # "ended" /\ y.step \notin paidSteps
        /\ x.step \in paidSteps <=> to = "send"
    BY <1>1, <1>3, <1>4 DEF paidSteps
  <1>7. r <= reserved[e] \/ (~overruled => used + r <= RoleLimitMicros)
    <2> HIDE DEF y
    <2> QED BY <1>1
  <1> QED BY <1>2, <1>3, <1>5, <1>6, <1>7, ExecutionGoesOn

LEMMA ChoosingStep ==
    ASSUME GatewayInv, NEW e \in Executions, StartExecution(e) \/ ResolveProvider(e)
    PROVE  GatewayInv'
  <1>u. spent' = spent /\ reserved' = reserved /\ UNCHANGED <<selection, runBudget, operatorBudgets, overruled>>
    BY DEF StartExecution, ResolveProvider
  <1>1. executed[e].step \in {"new", "resolve"}
    BY DEF StartExecution, ResolveProvider, at
  <1>2. reserved' = [reserved EXCEPT ![e] = 0]
    BY <1>u, <1>1, AtStep DEF paidSteps
  <1>3. CASE StartExecution(e) /\ refusesSelection(e) = "none"
    <2>1. goesOn(e, "resolve")
      BY <1>3 DEF StartExecution
    <2>2. chosen
      BY <1>3 DEF refusesSelection, chosen
    <2> QED BY <1>u, <1>1, <1>2, <2>1, <2>2, StepsTo
  <1>4. CASE StartExecution(e) /\ refusesSelection(e) # "none"
    <2> DEFINE code == refusesSelection(e)
    <2>1. code \in ExecutionCodes \ {"ok"}
      BY <1>4 DEF refusesSelection, ExecutionCodes
    <2>2. endsWith(e, code)
      BY <1>4 DEF StartExecution
    <2> HIDE DEF code
    <2>3. executed[e].step \notin {"settle", "ended"} /\ executed[e].step \notin paidSteps
      BY <1>1 DEF paidSteps
    <2> QED BY <1>u, <2>1, <2>2, <2>3, EndsUnpaid
  <1>5. CASE ResolveProvider(e) /\ goesOn(e, "budget")
    <2>1. chosen
      BY <1>5, AtStep DEF ResolveProvider, at
    <2> QED BY <1>u, <1>1, <1>2, <1>5, <2>1, StepsTo
  <1>6. CASE ResolveProvider(e) /\ ~goesOn(e, "budget")
    <2>1. PICK code \in {"WORKER_MODEL_UNSUPPORTED", "WORKER_CREDENTIALS_MISSING"} : endsWith(e, code)
      BY <1>6 DEF ResolveProvider
    <2>2. code \in ExecutionCodes \ {"ok"}
      BY DEF ExecutionCodes
    <2>3. executed[e].step \notin {"settle", "ended"} /\ executed[e].step \notin paidSteps
      BY <1>1 DEF paidSteps
    <2> QED BY <1>u, <2>1, <2>2, <2>3, EndsUnpaid
  <1> QED BY <1>3, <1>4, <1>5, <1>6

LEMMA FindStep == ASSUME GatewayInv, NEW e \in Executions, FindRunBudget(e) PROVE GatewayInv'
  <1> DEFINE y == executed[e] x == [y EXCEPT !.step = "save", !.found = runBudget, !.stale = FALSE]
  <1>u. spent' = spent /\ reserved' = reserved /\ UNCHANGED <<selection, runBudget, operatorBudgets, overruled>>
    BY DEF FindRunBudget
  <1>1. y.step = "budget" /\ y \in ExecutionRecords
    BY AtStep DEF FindRunBudget, at
  <1>2. /\ y.reply = "none" /\ chosen /\ reserved[e] = 0
        /\ reserved' = [reserved EXCEPT ![e] = 0]
    BY <1>u, <1>1, AtStep DEF paidSteps
  <1>3. runBudget \in Nat /\ RoleLimitMicros \in Nat
    BY GatewayAssumption DEF GatewayInv, GatewayShape
  <1>4. executed' = [executed EXCEPT ![e] = x]
    BY DEF FindRunBudget, GatewayInv, GatewayShape
  <1>5. /\ x \in ExecutionRecords /\ x.step = "save" /\ x.outcome = y.outcome /\ x.found = runBudget
        /\ x.sent = y.sent /\ x.reply = y.reply
    BY <1>1, <1>3 DEF ExecutionRecords, ExecutionSteps
  <1> HIDE DEF x
  <1>6. LowersOnly(x)
    BY <1>3, <1>5 DEF LowersOnly
  <1> DEFINE r == 0
  <1>7. /\ r \in Nat /\ r <= reserved[e]
    BY <1>2
  <1>8. /\ reserved' = [reserved EXCEPT ![e] = r] /\ r = (IF x.step \in paidSteps THEN WorstCase ELSE 0)
        /\ executed[e].step # "ended" /\ x.step # "ended" /\ ~(x.step \in paidSteps) /\ ~(executed[e].step \in paidSteps)
        /\ x.reply # "none" <=> x.step = "settle"
    BY <1>1, <1>2, <1>5 DEF paidSteps
  <1> HIDE DEF r
  <1> QED BY <1>u, <1>2, <1>4, <1>5, <1>6, <1>7, <1>8, ExecutionGoesOn

\* The limit is as it was, or the role's; nobody's view of it gets worse.
LEMMA SaveStep ==
    ASSUME GatewayInv, NEW e \in Executions, SaveRunBudget(e)
    PROVE  GatewayInv' /\ (~executed[e].stale => runBudget' <= runBudget)
  <1> DEFINE y == executed[e] x == [y EXCEPT !.step = "reserve"]
  <1>u. UNCHANGED <<selection, spent, reserved, operatorBudgets, overruled>>
    BY DEF SaveRunBudget
  <1>1. y.step = "save" /\ y \in ExecutionRecords /\ LowersOnly(y)
    BY AtStep DEF SaveRunBudget, at
  <1>2. runBudget \in Nat /\ RoleLimitMicros \in Nat /\ y.found \in Nat
    BY <1>1, GatewayAssumption DEF GatewayInv, GatewayShape, ExecutionRecords
  <1>3. runBudget' = IF y.found <= RoleLimitMicros THEN runBudget ELSE RoleLimitMicros
    BY DEF SaveRunBudget, lowered
  <1>4. executed' = [executed EXCEPT ![e] = x]
    BY DEF SaveRunBudget, goesOn, GatewayInv, GatewayShape
  <1>5. /\ x \in ExecutionRecords /\ x.step = "reserve" /\ x.outcome = y.outcome
        /\ x.sent = y.sent /\ x.reply = y.reply
    BY <1>1 DEF ExecutionRecords, ExecutionSteps
  <1>6. PaysAsItGoes(y, spent[e], reserved[e])
    BY DEF GatewayInv
  <1> HIDE DEF x, y
  <1>7. PaysAsItGoes(x, spent[e], reserved[e])
    BY <1>1, <1>5, <1>6 DEF PaysAsItGoes, paidSteps
  <1>8. /\ ~y.stale => runBudget' <= runBudget
        /\ ~overruled => runBudget' <= RoleLimitMicros
        /\ runBudget' \in Nat
        /\ runBudget' = runBudget \/ runBudget' = RoleLimitMicros
    BY <1>1, <1>2, <1>3 DEF LowersOnly
  <1>9. GatewayShape'
    <2>1. executed' \in [Executions -> ExecutionRecords]
      BY <1>4, <1>5 DEF GatewayInv, GatewayShape
    <2> QED BY <1>u, <1>8, <2>1 DEF GatewayInv, GatewayShape
  <1>10. ASSUME NEW d \in Executions
         PROVE  (PaysAsItGoes(executed[d], spent[d], reserved[d]) /\ LowersOnly(executed[d]))'
    <2>1. chosen' = chosen /\ selection' = selection
      BY <1>u DEF chosen, supportsSelection
    <2>2. CASE d = e
      <3>1. executed'[d] = x /\ spent'[d] = spent[e] /\ reserved'[d] = reserved[e]
        BY <1>u, <1>4, <2>2 DEF GatewayInv, GatewayShape
      <3>2. PaysAsItGoes(executed[d], spent[d], reserved[d])'
        BY <1>7, <2>1, <3>1 DEF PaysAsItGoes
      <3>3. LowersOnly(executed[d])'
        BY <1>u, <1>5, <1>8, <3>1 DEF LowersOnly
      <3> QED BY <3>2, <3>3
    <2>3. CASE d # e
      <3>1. executed'[d] = executed[d] /\ spent'[d] = spent[d] /\ reserved'[d] = reserved[d]
        BY <1>u, <1>4, <2>3 DEF GatewayInv, GatewayShape
      <3>2. PaysAsItGoes(executed[d], spent[d], reserved[d]) /\ LowersOnly(executed[d])
        BY DEF GatewayInv
      <3>3. PaysAsItGoes(executed[d], spent[d], reserved[d])'
        BY <2>1, <3>1, <3>2 DEF PaysAsItGoes
      <3>4. LowersOnly(executed[d])'
        BY <1>u, <1>2, <1>8, <3>1, <3>2 DEF LowersOnly
      <3> QED BY <3>3, <3>4
    <2> QED BY <2>2, <2>3
  <1>11. RunWithinRole'
    BY <1>u DEF GatewayInv, RunWithinRole, used
  <1> QED BY <1>8, <1>9, <1>10, <1>11 DEF GatewayInv, y

LEMMA ReserveStep == ASSUME GatewayInv, NEW e \in Executions, ReserveWorstCase(e) PROVE GatewayInv'
  <1>u. spent' = spent /\ UNCHANGED <<selection, runBudget, operatorBudgets, overruled>>
    BY DEF ReserveWorstCase
  <1>1. executed[e].step = "reserve" /\ chosen /\ LowersOnly(executed[e])
    BY AtStep DEF ReserveWorstCase, at
  <1>2. CASE \E code \in {"WORKER_PRICING_UNAVAILABLE", "WORKER_BUDGET_EXHAUSTED"} : fails(e, code) /\ UNCHANGED reserved
    <2>1. PICK code \in ExecutionCodes \ {"ok"} : endsWith(e, code)
      BY <1>2 DEF fails, ExecutionCodes
    <2>2. executed[e].step \notin {"settle", "ended"} /\ executed[e].step \notin paidSteps
      BY <1>1 DEF paidSteps
    <2>3. reserved' = reserved
      BY <1>2
    <2> QED BY <1>u, <2>1, <2>2, <2>3, EndsUnpaid
  <1>3. CASE selection.priced /\ ~(used + WorstCase > runBudget) /\ goesOn(e, "send")
             /\ reserved' = [reserved EXCEPT ![e] = WorstCase]
    <2>1. RoleLimitMicros \in Nat /\ WorstCase \in Nat /\ runBudget \in Nat
      BY GatewayAssumption DEF GatewayInv, GatewayShape
    <2>2. used \in Nat
      <3> DEFINE s == spent[e]
      <3>1. spent' = [spent EXCEPT ![e] = s] /\ s \in Nat
        BY <1>u DEF GatewayInv, GatewayShape
      <3> HIDE DEF s
      <3> QED BY <1>3, <2>1, <3>1, UsedReplaces DEF GatewayInv
    <2>3. ~overruled => runBudget <= RoleLimitMicros
      BY <1>1 DEF LowersOnly
    <2>4. ~overruled => used + WorstCase <= RoleLimitMicros
      <3> HIDE DEF used
      <3> QED BY <1>3, <2>1, <2>2, <2>3
    <2> QED BY <1>u, <1>1, <1>3, <2>1, <2>4, StepsTo
  <1> QED BY <1>2, <1>3 DEF ReserveWorstCase

LEMMA SendStep == ASSUME GatewayInv, NEW e \in Executions, SendRequest(e) PROVE GatewayInv'
  <1> DEFINE y == executed[e] x == [y EXCEPT !.step = "wait", !.sent = TRUE]
  <1>u. spent' = spent /\ UNCHANGED <<selection, runBudget, operatorBudgets, overruled>>
    BY DEF SendRequest
  <1>1. y.step = "send" /\ y \in ExecutionRecords
    BY AtStep DEF SendRequest, at
  <1>2. y.reply = "none" /\ chosen /\ selection.priced /\ reserved[e] = WorstCase
    BY <1>1, AtStep DEF paidSteps
  <1>3. CASE fails(e, "WORKER_MODEL_UNSUPPORTED") /\ releases(e)
    <2>1. PICK code \in ExecutionCodes \ {"ok"} : endsWith(e, code)
      BY <1>3 DEF fails, ExecutionCodes
    <2>2. executed[e].step \notin {"settle", "ended"}
      BY <1>1
    <2> QED BY <1>u, <1>3, <2>1, <2>2, EndsUnpaid
  <1>4. CASE executed' = [executed EXCEPT ![e].step = "wait", ![e].sent = TRUE] /\ UNCHANGED reserved
    <2> DEFINE r == WorstCase
    <2>1. executed' = [executed EXCEPT ![e] = x] /\ reserved' = [reserved EXCEPT ![e] = r]
      BY <1>2, <1>4 DEF GatewayInv, GatewayShape
    <2>2. /\ x \in ExecutionRecords /\ x.step = "wait" /\ x.outcome = y.outcome
          /\ x.sent = TRUE /\ x.reply = y.reply
      BY <1>1 DEF ExecutionRecords, ExecutionSteps
    <2> HIDE DEF x
    <2>3. LowersOnly(x)
      BY <2>2 DEF LowersOnly
    <2>4. r \in Nat /\ r <= reserved[e]
      BY <1>2, GatewayAssumption
    <2>5. /\ r = (IF x.step \in paidSteps THEN WorstCase ELSE 0)
          /\ executed[e].step # "ended" /\ x.step # "ended"
          /\ x.reply # "none" <=> x.step = "settle"
      BY <1>1, <1>2, <2>2 DEF paidSteps
    <2> HIDE DEF r
    <2> QED BY <1>u, <1>2, <2>1, <2>2, <2>3, <2>4, <2>5, ExecutionGoesOn
  <1> QED BY <1>3, <1>4 DEF SendRequest

LEMMA ReplyStep ==
    ASSUME GatewayInv, NEW e \in Executions, RequestAborted(e) \/ \E reply \in Replies : VendorReplies(e, reply)
    PROVE  GatewayInv'
  <1>u. spent' = spent /\ reserved' = reserved /\ UNCHANGED <<selection, runBudget, operatorBudgets, overruled>>
    BY DEF RequestAborted, VendorReplies
  <1>1. PICK reply \in Replies : executed' = [executed EXCEPT ![e].step = "settle", ![e].reply = reply]
    <2>1. "no answer" \in Replies /\ "unreadable" \in Replies
      BY DEF Replies
    <2> QED BY <2>1 DEF RequestAborted, VendorReplies
  <1> DEFINE y == executed[e] x == [y EXCEPT !.step = "settle", !.reply = reply]
  <1>2. y.step = "wait" /\ y \in ExecutionRecords
    BY AtStep DEF RequestAborted, VendorReplies, at
  <1>3. chosen /\ selection.priced /\ reserved[e] = WorstCase
    BY <1>2, AtStep DEF paidSteps
  <1> DEFINE r == WorstCase
  <1>4. executed' = [executed EXCEPT ![e] = x] /\ reserved' = [reserved EXCEPT ![e] = r]
    BY <1>u, <1>1, <1>3 DEF GatewayInv, GatewayShape
  <1>5. /\ x \in ExecutionRecords /\ x.step = "settle" /\ x.outcome = y.outcome
        /\ x.sent = y.sent /\ x.reply = reply
    BY <1>2 DEF ExecutionRecords, ExecutionSteps
  <1> HIDE DEF x
  <1>6. LowersOnly(x)
    BY <1>5 DEF LowersOnly
  <1>7. r \in Nat /\ r <= reserved[e]
    BY <1>3, GatewayAssumption
  <1>8. /\ r = (IF x.step \in paidSteps THEN WorstCase ELSE 0)
        /\ executed[e].step # "ended" /\ x.step # "ended"
        /\ x.reply # "none" <=> x.step = "settle"
    <2>1. reply # "none"
      BY DEF Replies
    <2> QED BY <1>2, <1>5, <2>1 DEF paidSteps
  <1> HIDE DEF r
  <1> QED BY <1>u, <1>3, <1>4, <1>5, <1>6, <1>7, <1>8, ExecutionGoesOn

\* What an answered execution is left with.
LEMMA SettledStep ==
    ASSUME GatewayInv, NEW e \in Executions, executed[e].step = "settle",
           NEW code \in ExecutionCodes, endsWith(e, code),
           NEW s \in Nat, NEW r \in Nat, s + r <= WorstCase,
           spent' = [spent EXCEPT ![e] = s], reserved' = [reserved EXCEPT ![e] = r],
           UNCHANGED <<selection, runBudget, operatorBudgets, overruled>>,
           answered(executed[e].reply) => s > 0 \/ r > 0,
           code = "ok" => executed[e].reply = "good" /\ s > 0
    PROVE  GatewayInv'
  <1> DEFINE y == executed[e] x == [y EXCEPT !.step = "ended", !.outcome = code]
  <1>1. /\ y \in ExecutionRecords /\ chosen /\ selection.priced
        /\ spent[e] = 0 /\ reserved[e] = WorstCase
    BY AtStep DEF paidSteps
  <1>2. executed' = [executed EXCEPT ![e] = x]
    BY DEF endsWith, GatewayInv, GatewayShape
  <1>3. x \in ExecutionRecords /\ x.step = "ended" /\ x.outcome = code /\ x.reply = y.reply
    BY <1>1 DEF ExecutionRecords, ExecutionSteps
  <1> HIDE DEF x
  <1>4. LowersOnly(x)
    BY <1>3 DEF LowersOnly
  <1>5. PaysAsItGoes(x, s, r)
    BY <1>1, <1>3 DEF PaysAsItGoes, answered, paidSteps
  <1>6. s + r <= spent[e] + reserved[e]
    BY <1>1, GatewayAssumption
  <1> QED BY <1>2, <1>3, <1>4, <1>5, <1>6, ExecutionStep

LEMMA SettleStep == ASSUME GatewayInv, NEW e \in Executions, Settle(e) PROVE GatewayInv'
  <1>u. UNCHANGED <<selection, runBudget, operatorBudgets, overruled>>
    BY DEF Settle
  <1> DEFINE reply == executed[e].reply
             done == IF judge(reply) = "ok" THEN endsWith(e, "ok") ELSE fails(e, judge(reply))
  <1>1. /\ executed[e].step = "settle" /\ reply \in Replies
        /\ spent[e] = 0 /\ reserved[e] = WorstCase
    <2>1. executed[e].step = "settle"
      BY DEF Settle, at
    <2>2. reply \in Replies \cup {"none"} /\ reply # "none"
      BY <2>1, AtStep DEF ExecutionRecords
    <2> QED BY <2>1, <2>2, AtStep DEF paidSteps
  <1>2. WorstCase \in Nat /\ WorstCase # 0
    BY GatewayAssumption
  <1>3. judge(reply) \in ExecutionCodes /\ (judge(reply) = "ok" <=> reply = "good")
    <2> HIDE DEF reply
    <2> QED BY <1>1 DEF judge, Replies, ExecutionCodes
  <1>4. done => \E code \in ExecutionCodes : endsWith(e, code) /\ (code = "ok" => reply = "good")
    <2> HIDE DEF reply
    <2>1. "ok" \in ExecutionCodes /\ "WORKER_TIMEOUT" \in ExecutionCodes /\ "AbortError" \in ExecutionCodes
      BY DEF ExecutionCodes
    <2> QED BY <1>3, <2>1 DEF fails
  <1>5. CASE ~answered(reply) /\ releases(e) /\ done /\ UNCHANGED spent
    <2>1. PICK code \in ExecutionCodes : endsWith(e, code) /\ (code = "ok" => reply = "good")
      BY <1>4, <1>5
    <2>2. code # "ok"
      BY <1>5, <2>1 DEF answered
    <2> DEFINE n == 0
    <2>3. spent' = [spent EXCEPT ![e] = n] /\ reserved' = [reserved EXCEPT ![e] = n]
      BY <1>1, <1>5 DEF releases, GatewayInv, GatewayShape
    <2>4. n \in Nat /\ n + n <= WorstCase
      BY <1>2
    <2> HIDE DEF n
    <2> QED BY <1>u, <1>1, <1>5, <2>1, <2>2, <2>3, <2>4, SettledStep
  <1>6. CASE answered(reply) /\ releases(e) /\ done
             /\ \E cost \in (IF priced(reply) THEN 1 .. WorstCase ELSE {WorstCase}) : spent' = [spent EXCEPT ![e] = cost]
    <2>1. PICK code \in ExecutionCodes : endsWith(e, code) /\ (code = "ok" => reply = "good")
      BY <1>4, <1>6
    <2>2. PICK cost \in Nat : cost > 0 /\ cost <= WorstCase /\ spent' = [spent EXCEPT ![e] = cost]
      <3>1. PICK c \in (IF priced(reply) THEN 1 .. WorstCase ELSE {WorstCase}) : spent' = [spent EXCEPT ![e] = c]
        BY <1>6
      <3>2. c \in Nat /\ c > 0 /\ c <= WorstCase
        BY <1>2, <3>1
      <3> QED BY <3>1, <3>2
    <2> DEFINE n == 0
    <2>3. reserved' = [reserved EXCEPT ![e] = n]
      BY <1>6 DEF releases
    <2>4. n \in Nat /\ cost + n <= WorstCase
      BY <1>2, <2>2
    <2> HIDE DEF n
    <2> QED BY <1>u, <1>1, <2>1, <2>2, <2>3, <2>4, SettledStep
  <1>7. CASE answered(reply) /\ fails(e, "STORAGE") /\ UNCHANGED <<spent, reserved>>
    <2>1. PICK code \in ExecutionCodes \ {"ok"} : endsWith(e, code)
      BY <1>7 DEF fails, ExecutionCodes
    <2> DEFINE n == 0
    <2>2. spent' = [spent EXCEPT ![e] = n] /\ reserved' = [reserved EXCEPT ![e] = WorstCase]
      BY <1>1, <1>7 DEF GatewayInv, GatewayShape
    <2>3. n \in Nat /\ n + WorstCase <= WorstCase /\ WorstCase > 0
      BY <1>2
    <2>4. code # "ok" /\ code \in ExecutionCodes
      OBVIOUS
    <2> HIDE DEF n
    <2> QED BY <1>u, <1>1, <1>2, <2>1, <2>2, <2>3, <2>4, SettledStep
  <1> QED BY <1>5, <1>6, <1>7 DEF Settle

LEMMA SignalStep == ASSUME GatewayInv, NEW e \in Executions, DeadlinePasses(e) \/ CancelExecution(e) PROVE GatewayInv'
  <1> DEFINE y == executed[e]
  <1>u. spent' = spent /\ reserved' = reserved /\ UNCHANGED <<selection, runBudget, operatorBudgets, overruled>>
    BY DEF DeadlinePasses, CancelExecution
  <1>1. y \in ExecutionRecords /\ LowersOnly(y) /\ spent[e] \in Nat /\ reserved[e] \in Nat
    BY AtStep
  <1>2. PICK x \in ExecutionRecords :
            /\ executed' = [executed EXCEPT ![e] = x]
            /\ x.step = y.step /\ x.found = y.found /\ x.stale = y.stale /\ x.sent = y.sent
            /\ x.reply = y.reply /\ x.outcome = y.outcome
    <2> DEFINE late == [y EXCEPT !.timedOut = TRUE] stopped == [y EXCEPT !.aborted = TRUE]
    <2>1. /\ late \in ExecutionRecords /\ late.step = y.step /\ late.found = y.found /\ late.stale = y.stale
          /\ late.sent = y.sent /\ late.reply = y.reply /\ late.outcome = y.outcome
      BY <1>1 DEF ExecutionRecords
    <2>2. /\ stopped \in ExecutionRecords /\ stopped.step = y.step /\ stopped.found = y.found /\ stopped.stale = y.stale
          /\ stopped.sent = y.sent /\ stopped.reply = y.reply /\ stopped.outcome = y.outcome
      BY <1>1 DEF ExecutionRecords
    <2>3. executed' = [executed EXCEPT ![e] = late] \/ executed' = [executed EXCEPT ![e] = stopped]
      BY DEF DeadlinePasses, CancelExecution, deadlineReaches, GatewayInv, GatewayShape
    <2> HIDE DEF late, stopped, y
    <2> QED BY <2>1, <2>2, <2>3
  <1>3. PaysAsItGoes(y, spent[e], reserved[e])
    BY DEF GatewayInv
  <1>4. spent' = [spent EXCEPT ![e] = spent[e]] /\ reserved' = [reserved EXCEPT ![e] = reserved[e]]
    BY <1>u DEF GatewayInv, GatewayShape
  <1> HIDE DEF y
  <1>5. PaysAsItGoes(x, spent[e], reserved[e])
    BY <1>2, <1>3 DEF PaysAsItGoes
  <1>6. LowersOnly(x)
    BY <1>1, <1>2 DEF LowersOnly
  <1> DEFINE s == spent[e] r == reserved[e]
  <1>7. s \in Nat /\ r \in Nat /\ s + r <= spent[e] + reserved[e]
    BY <1>1
  <1>8. spent' = [spent EXCEPT ![e] = s] /\ reserved' = [reserved EXCEPT ![e] = r] /\ PaysAsItGoes(x, s, r)
    BY <1>4, <1>5
  <1> HIDE DEF s, r
  <1> QED BY <1>u, <1>2, <1>6, <1>7, <1>8, ExecutionStep

LEMMA OperatorStep == ASSUME GatewayInv, NEW limit \in RunLimits, OperatorSetsBudget(limit) PROVE GatewayInv'
  <1>u. UNCHANGED <<selection, spent, reserved>>
    BY DEF OperatorSetsBudget
  <1>1. limit \in Nat /\ RoleLimitMicros \in Nat /\ MaxOperatorBudgets \in Nat
    BY GatewayAssumption
  <1>2. /\ runBudget' = limit /\ operatorBudgets' = operatorBudgets + 1 /\ operatorBudgets < MaxOperatorBudgets
        /\ overruled' = (overruled \/ (limit > RoleLimitMicros /\ \E e \in Executions : executed[e].step \in {"save", "reserve"}))
    BY DEF OperatorSetsBudget
  <1>3. ASSUME NEW d \in Executions
        PROVE  /\ executed'[d] \in ExecutionRecords
               /\ executed'[d].step = executed[d].step /\ executed'[d].found = executed[d].found
               /\ executed'[d].sent = executed[d].sent /\ executed'[d].reply = executed[d].reply
               /\ executed'[d].outcome = executed[d].outcome
               /\ executed'[d].stale <=> executed[d].step = "save"
    <2> DEFINE y == executed[d] x == [y EXCEPT !.stale = at(d, "save")]
    <2>1. y \in ExecutionRecords /\ at(d, "save") \in BOOLEAN
      BY AtStep DEF at
    <2>2. executed'[d] = x
      BY DEF OperatorSetsBudget
    <2>3. /\ x \in ExecutionRecords
          /\ x.step = y.step /\ x.found = y.found /\ x.sent = y.sent /\ x.reply = y.reply /\ x.outcome = y.outcome
          /\ x.stale = at(d, "save")
      BY <2>1 DEF ExecutionRecords
    <2> HIDE DEF x
    <2> QED BY <2>2, <2>3 DEF at
  <1>4. GatewayShape'
    <2>1. executed' \in [Executions -> ExecutionRecords]
      <3>1. executed' = [d \in Executions |-> executed'[d]]
        BY DEF OperatorSetsBudget
      <3> QED BY <1>3, <3>1
    <2>2. operatorBudgets' \in 0 .. MaxOperatorBudgets
      BY <1>1, <1>2 DEF GatewayInv, GatewayShape
    <2>3. overruled' \in BOOLEAN
      BY <1>2 DEF GatewayInv, GatewayShape
    <2>4. runBudget' \in Nat /\ spent' \in [Executions -> Nat] /\ reserved' \in [Executions -> Nat]
      BY <1>u, <1>1, <1>2 DEF GatewayInv, GatewayShape
    <2> QED BY <2>1, <2>2, <2>3, <2>4 DEF GatewayShape
  <1>5. overruled => overruled'
    BY <1>2
  <1>6. ASSUME NEW d \in Executions
        PROVE  (PaysAsItGoes(executed[d], spent[d], reserved[d]) /\ LowersOnly(executed[d]))'
    <2>1. chosen' = chosen /\ selection' = selection
      BY <1>u DEF chosen, supportsSelection
    <2>2. PaysAsItGoes(executed[d], spent[d], reserved[d])
      BY DEF GatewayInv
    <2>3. PaysAsItGoes(executed[d], spent[d], reserved[d])'
      BY <1>u, <1>3, <2>1, <2>2 DEF PaysAsItGoes
    <2>4. ~overruled' /\ executed[d].step \in {"save", "reserve"} => runBudget' <= RoleLimitMicros
      <3> SUFFICES ASSUME ~overruled', executed[d].step \in {"save", "reserve"} PROVE runBudget' <= RoleLimitMicros
        OBVIOUS
      <3>1. ~(limit > RoleLimitMicros)
        BY <1>2, Zenon
      <3> QED BY <1>1, <1>2, <3>1
    <2>5. LowersOnly(executed[d])'
      BY <1>3, <2>4 DEF LowersOnly
    <2> QED BY <2>3, <2>5
  <1>7. RunWithinRole'
    BY <1>u, <1>5 DEF GatewayInv, RunWithinRole, used
  <1> QED BY <1>4, <1>6, <1>7 DEF GatewayInv

LEMMA GatewayStep ==
    ASSUME GatewayInv, [GatewayNext]_gatewayVars PROVE GatewayInv' /\ (NarrowBudgetKept \/ UNCHANGED gatewayVars)
  <1>1. CASE UNCHANGED gatewayVars
    <2>1. UNCHANGED <<selection, executed, runBudget, spent, reserved, operatorBudgets, overruled>>
      BY <1>1 DEF gatewayVars
    <2>2. GatewayShape' /\ RunWithinRole'
      BY <2>1 DEF GatewayInv, GatewayShape, RunWithinRole, used
    <2>3. \A d \in Executions : (PaysAsItGoes(executed[d], spent[d], reserved[d]) /\ LowersOnly(executed[d]))'
      BY <2>1 DEF GatewayInv, PaysAsItGoes, LowersOnly, chosen, supportsSelection
    <2> QED BY <1>1, <2>2, <2>3 DEF GatewayInv
  <1>2. ASSUME NEW limit \in RunLimits, OperatorSetsBudget(limit)
        PROVE  GatewayInv' /\ NarrowBudgetKept
    <2>1. \A d \in Executions : executed'[d].step = executed[d].step
      <3> SUFFICES ASSUME NEW d \in Executions PROVE executed'[d].step = executed[d].step
        OBVIOUS
      <3>1. executed[d] \in ExecutionRecords
        BY AtStep
      <3> QED BY <1>2, <3>1 DEF OperatorSetsBudget, ExecutionRecords
    <2>2. NarrowBudgetKept
      BY <2>1 DEF NarrowBudgetKept, at
    <2> QED BY <1>2, <2>2, OperatorStep
  <1>3. ASSUME NEW e \in Executions, SaveRunBudget(e)
        PROVE  GatewayInv' /\ NarrowBudgetKept
    <2>1. GatewayInv' /\ (~executed[e].stale => runBudget' <= runBudget)
      BY <1>3, SaveStep
    <2>2. \A d \in Executions : d # e => executed'[d] = executed[d]
      BY <1>3 DEF SaveRunBudget, goesOn, GatewayInv, GatewayShape
    <2>3. NarrowBudgetKept
      BY <2>1, <2>2 DEF NarrowBudgetKept, at
    <2> QED BY <2>1, <2>3
  <1>4. ASSUME NEW e \in Executions, ~SaveRunBudget(e),
               \/ progress(e) \/ DeadlinePasses(e) \/ CancelExecution(e)
               \/ \E reply \in Replies : VendorReplies(e, reply)
        PROVE  GatewayInv' /\ NarrowBudgetKept
    <2>1. GatewayInv'
      BY <1>4, ChoosingStep, FindStep, ReserveStep, SendStep, ReplyStep, SettleStep, SignalStep DEF progress
    <2>2. runBudget' = runBudget
      BY <1>4 DEF progress, StartExecution, ResolveProvider, FindRunBudget, ReserveWorstCase, SendRequest, RequestAborted,
                  Settle, DeadlinePasses, CancelExecution, VendorReplies
    <2>3. runBudget \in Nat
      BY DEF GatewayInv, GatewayShape
    <2>4. NarrowBudgetKept
      BY <2>2, <2>3 DEF NarrowBudgetKept
    <2> QED BY <2>1, <2>4
  <1> QED BY <1>1, <1>2, <1>3, <1>4 DEF GatewayNext, progress

LEMMA GatewayInvSafe == GatewayInv => GatewaySafety
  <1> SUFFICES ASSUME GatewayInv PROVE GatewaySafety
    OBVIOUS
  <1>1. ASSUME NEW e \in Executions
        PROVE  /\ executed[e].step \in ExecutionSteps /\ executed[e].reply \in Replies \cup {"none"}
               /\ PaysAsItGoes(executed[e], spent[e], reserved[e])
               /\ spent[e] \in Nat /\ reserved[e] \in Nat
    <2>1. executed[e] \in ExecutionRecords /\ spent[e] \in Nat /\ reserved[e] \in Nat
      BY AtStep
    <2>2. executed[e].step \in ExecutionSteps /\ executed[e].reply \in Replies \cup {"none"}
      BY <2>1 DEF ExecutionRecords
    <2> QED BY <2>1, <2>2 DEF GatewayInv
  <1>2. GatewayTypeOK
    <2>1. ASSUME NEW e \in Executions, reserved[e] > 0 PROVE executed[e].step \in {"send", "wait", "settle", "ended"}
      <3>1. reserved[e] # 0
        BY <1>1, <2>1
      <3> QED BY <1>1, <3>1 DEF PaysAsItGoes, paidSteps
    <2> QED BY <1>1, <2>1 DEF GatewayTypeOK, GatewayInv, GatewayShape, ExecutionSteps
  <1>3. RefusedBeforeSpending
    BY <1>1 DEF RefusedBeforeSpending, PaysAsItGoes, chosen
  <1>4. AnswerIsPaid
    BY <1>1 DEF AnswerIsPaid, PaysAsItGoes, at
  <1>5. ResultIsExact
    BY <1>1 DEF ResultIsExact, PaysAsItGoes, chosen
  <1> QED BY <1>2, <1>3, <1>4, <1>5 DEF GatewaySafety, GatewayInv

-----------------------------------------------------------------------------
(* The connectors of one Runtime, of which a behaviour is about one *)

\* THEOREM: whatever agents ask for and operators decide, change or revoke in
\* the run `connectors`, the ledgers and the files agree (controlled actions).
THEOREM ConnectorsAct == ConnectorsSpec => []ActionSafety
  <1>1. ConnectorsInit => IInv
    BY InvariantInit DEF ConnectorsInit
  <1>2. IInv /\ [ConnectorsNext /\ UNCHANGED focus]_connectorVars => IInv'
    <2> SUFFICES ASSUME IInv, [ConnectorsNext /\ UNCHANGED focus]_connectorVars PROVE IInv'
      OBVIOUS
    <2>1. [Next]_vars
      BY DEF ConnectorsNext, connectorVars
    <2> QED BY <2>1, InvariantStep
  <1>3. IInv => ActionSafety
    BY DEF IInv, ActionSafety
  <1> QED BY <1>1, <1>2, <1>3, PTL DEF ConnectorsSpec

\* THEOREM: whatever commands set, rotate and remove at once, and wherever one
\* is killed, fails or loses power, a secret is loaded whole, for the name it
\* was given for, and never mixed with the environment
\* (runtime-home-credentials.ts).
THEOREM CredentialsAreWhole == ConnectorsSpec => []CredentialsHold
  <1>1. ConnectorsInit => CredentialInv
    BY CredentialInitInv DEF ConnectorsInit
  <1>2. CredentialInv /\ [ConnectorsNext /\ UNCHANGED focus]_connectorVars => CredentialInv'
    <2> SUFFICES ASSUME CredentialInv, [ConnectorsNext /\ UNCHANGED focus]_connectorVars
                 PROVE  CredentialInv'
      OBVIOUS
    <2>1. [CredentialNext]_credentialVars
      BY DEF ConnectorsNext, connectorVars
    <2> QED BY <2>1, CredentialStep
  <1>3. CredentialInv => CredentialsHold
    BY CredentialImplies DEF CredentialsHold
  <1> QED BY <1>1, <1>2, <1>3, PTL DEF ConnectorsSpec

\* THEOREM: however the commands for two overrides interleave with each other,
\* with an edit by hand and with writes that fail half way, a run is routed only
\* by a document that was sound when it was loaded, to a model that is supported;
\* and a command that was alone never leaves the file without what an
\* acknowledged command wrote (model-routing-configuration.ts,
\* runtime-model-routing.ts).
THEOREM RoutesAreSound == ConnectorsSpec => []RoutingHolds
  <1>1. ConnectorsInit => RoutingInv
    BY RoutingInitInv DEF ConnectorsInit
  <1>2. RoutingInv /\ [ConnectorsNext /\ UNCHANGED focus]_connectorVars => RoutingInv'
    <2> SUFFICES ASSUME RoutingInv, [ConnectorsNext /\ UNCHANGED focus]_connectorVars
                 PROVE  RoutingInv'
      OBVIOUS
    <2>1. [RoutingNext]_routingVars
      BY DEF ConnectorsNext, connectorVars
    <2> QED BY <2>1, RoutingStep
  <1>3. RoutingInv => RoutingHolds
    BY RoutingInvSafe DEF RoutingHolds
  <1> QED BY <1>1, <1>2, <1>3, PTL DEF ConnectorsSpec

\* THEOREM: however the executions of a run overlap, are cancelled or time out,
\* and whenever the operator changes its budget, they never use more than the
\* role allows unless the operator raised the limit under one of them, an
\* answered request is paid for, and none widens a narrower budget it has seen
\* (gateway-worker-runtime.ts).
THEOREM GatewayKeepsBudgets == ConnectorsSpec => GatewayHolds
  <1>1. ConnectorsInit => GatewayInv
    BY GatewayInitInv DEF ConnectorsInit
  <1>2. GatewayInv /\ [ConnectorsNext /\ UNCHANGED focus]_connectorVars =>
          GatewayInv' /\ [focus = "gateway" => NarrowBudgetKept]_connectorVars
    <2> SUFFICES ASSUME GatewayInv, [ConnectorsNext /\ UNCHANGED focus]_connectorVars
                 PROVE  GatewayInv' /\ [focus = "gateway" => NarrowBudgetKept]_connectorVars
      OBVIOUS
    <2>1. [GatewayNext]_gatewayVars
      BY DEF ConnectorsNext, connectorVars
    <2>2. GatewayInv' /\ (NarrowBudgetKept \/ UNCHANGED gatewayVars)
      BY <2>1, GatewayStep
    <2>3. ASSUME UNCHANGED gatewayVars PROVE NarrowBudgetKept
      <3>1. runBudget' = runBudget /\ executed' = executed
        BY <2>3 DEF gatewayVars
      <3> QED BY <3>1 DEF NarrowBudgetKept, at
    <2> QED BY <2>2, <2>3
  <1>3. GatewayInv => (focus = "gateway" => GatewaySafety)
    BY GatewayInvSafe
  <1> QED BY <1>1, <1>2, <1>3, PTL DEF ConnectorsSpec, GatewayHolds
=============================================================================
