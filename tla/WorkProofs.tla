----------------------------- MODULE WorkProofs -----------------------------
(***************************************************************************)
(* What holds of the work of MCWork for every set of tasks, records,       *)
(* editors and reviews.                                                    *)
(*                                                                         *)
(* TaskBoard: the gate on completion needs the fact that executing a task  *)
(* leaves a trace (ExecutionLeavesHistory); acyclicity needs none but      *)
(* types, because a refused edge is one whose search met its end.          *)
(*                                                                         *)
(* Governance: that events replay and identifiers never collide rests on   *)
(* lifecycles that only go on (Age): the events of a record are one path   *)
(* to its present status (EventsChain), and what comes next is none of     *)
(* the statuses on it.                                                     *)
(***************************************************************************)
EXTENDS MCWork, TLAPS, FiniteSetTheorems

-----------------------------------------------------------------------------
(* TaskBoard *)

\* Executing a task leaves a trace, and so does completing it normally.
ExecutionLeavesHistory ==
    \A t \in Tasks :
        \/ status[t] \in {"running", "waiting_review"}
        \/ status[t] = "completed" /\ t \notin recorded
        => t \in history

\* The inductive invariant.
BoardInv ==
    /\ TypeOK
    /\ ExecutionLeavesHistory
    /\ CompletedAfterPrerequisites
    /\ ReviewExitEvidence

\* What the lifecycle table promises: moves stay inside it and leave no
\* terminal status.
LEMMA TransitionTable ==
    ASSUME NEW from \in TaskStatuses, NEW to, isTaskTransitionAllowed(from, to)
    PROVE  /\ to \in TaskStatuses
           /\ from \notin terminalTaskStatuses
           /\ to = "completed" => from \in {"running", "waiting_review"}
           /\ to = "waiting_review" => from = "running"
  BY DEF isTaskTransitionAllowed, taskTransitions, TaskStatuses, terminalTaskStatuses

\* One lifecycle transition preserves the invariant, given the prerequisite
\* check that start and complete make before it.
LEMMA MovePreservesInv ==
    ASSUME BoardInv, NEW t \in Tasks, NEW to, moveTo(t, to),
           to = "running" => prerequisitesComplete(t, "start"),
           to = "completed" => prerequisitesComplete(t, "completion")
    PROVE  BoardInv'
  <1> USE DEF BoardInv
  <1>1. status[t] \in TaskStatuses
    BY DEF TypeOK, moveTo, Exists
  <1>2. /\ to \in TaskStatuses
        /\ status[t] \notin terminalTaskStatuses
        /\ to = "completed" => status[t] \in {"running", "waiting_review"}
        /\ to = "waiting_review" => status[t] = "running"
    BY <1>1, TransitionTable DEF moveTo
  <1>3. /\ \A x \in Tasks : status'[x] = IF x = t THEN to ELSE status[x]
        /\ history \subseteq history'
        /\ to \in {"running", "waiting_review"} => t \in history'
        /\ UNCHANGED <<deps, recorded, approved>>
    BY DEF TypeOK, moveTo
  <1>4. \A x \in Tasks : Prerequisites(x)' = Prerequisites(x)
    BY <1>3 DEF Prerequisites
  <1>5. \A p \in Tasks : status[p] = "completed" => status'[p] = "completed"
    BY <1>2, <1>3 DEF terminalTaskStatuses
  <1>6. TypeOK'
    <2>1. {x \in Tasks : Exists(x)} \subseteq {x \in Tasks : Exists(x)}'
      BY <1>2, <1>3 DEF Exists, TaskStatuses
    <2>2. t \in {x \in Tasks : Exists(x)}
      BY DEF moveTo
    <2>3. status' \in [Tasks -> TaskStatuses \cup {"absent"}]
      BY <1>2 DEF TypeOK, moveTo
    <2>4. history' \subseteq {x \in Tasks : Exists(x)}'
      BY <2>1, <2>2 DEF TypeOK, moveTo
    <2> QED
      BY <1>3, <2>1, <2>3, <2>4 DEF TypeOK
  <1>7. ExecutionLeavesHistory'
    BY <1>2, <1>3 DEF ExecutionLeavesHistory
  <1>8. CompletedAfterPrerequisites'
    <2> SUFFICES ASSUME NEW x \in Tasks, status'[x] = "completed", x \notin recorded,
                        NEW p \in Prerequisites(x)
                 PROVE  status'[p] = "completed"
      BY <1>3, <1>4 DEF CompletedAfterPrerequisites
    <2>1. CASE x = t
      BY <2>1, <1>3, <1>5 DEF prerequisitesComplete, satisfying, Prerequisites
    <2>2. CASE x # t
      BY <2>2, <1>3, <1>5 DEF CompletedAfterPrerequisites, Prerequisites
    <2> QED BY <2>1, <2>2
  <1>9. ReviewExitEvidence'
    <2> SUFFICES ASSUME NEW x \in Tasks, status'[x] \in {"running", "waiting_review"},
                        NEW p \in Prerequisites(x)
                 PROVE  status'[p] = "completed" \/ p \in history'
      BY <1>4 DEF ReviewExitEvidence
    <2> p \in Tasks
      BY DEF Prerequisites
    <2>1. CASE x = t /\ to = "running"
      <3>1. status[p] \in {"completed", "waiting_review"}
        BY <2>1 DEF prerequisitesComplete, satisfying
      <3> QED
        BY <3>1, <1>3, <1>5 DEF ExecutionLeavesHistory
    <2>2. CASE x = t /\ to # "running"
      <3>1. status[x] = "running"
        BY <2>2, <1>2, <1>3
      <3> QED
        BY <3>1, <1>3, <1>5 DEF ReviewExitEvidence
    <2>3. CASE x # t
      BY <2>3, <1>3, <1>5 DEF ReviewExitEvidence
    <2> QED BY <2>1, <2>2, <2>3
  <1> QED BY <1>6, <1>7, <1>8, <1>9

LEMMA LinkPreservesInv ==
    ASSUME BoardInv, NEW t \in Tasks, NEW p \in Tasks, link(t, p)
    PROVE  BoardInv'
  <1> USE DEF BoardInv
  <1>1. /\ status[t] \in {"pending", "blocked"}
        /\ \A x \in Tasks : x # t => Prerequisites(x)' = Prerequisites(x)
        /\ UNCHANGED <<status, history, recorded, approved>>
    BY DEF link, assertEditable, Prerequisites
  <1>2. TypeOK'
    BY DEF link, assertEditable, requireTask, TypeOK, Exists
  <1>3. ExecutionLeavesHistory'
    BY <1>1 DEF ExecutionLeavesHistory
  <1>4. CompletedAfterPrerequisites' /\ ReviewExitEvidence'
    BY <1>1 DEF CompletedAfterPrerequisites, ReviewExitEvidence
  <1> QED BY <1>2, <1>3, <1>4

LEMMA UnlinkPreservesInv ==
    ASSUME BoardInv, NEW t \in Tasks, NEW p \in Tasks, unlink(t, p)
    PROVE  BoardInv'
  <1> USE DEF BoardInv
  <1>1. /\ \A x \in Tasks : Prerequisites(x)' \subseteq Prerequisites(x)
        /\ UNCHANGED <<status, history, recorded, approved>>
    BY DEF unlink, Prerequisites
  <1>2. TypeOK'
    BY DEF unlink, TypeOK, Exists
  <1>3. ExecutionLeavesHistory'
    BY <1>1 DEF ExecutionLeavesHistory
  <1>4. CompletedAfterPrerequisites' /\ ReviewExitEvidence'
    BY <1>1 DEF CompletedAfterPrerequisites, ReviewExitEvidence
  <1> QED BY <1>2, <1>3, <1>4

\* Recording a completion can only complete an open task.
LEMMA RecordPreservesInv ==
    ASSUME BoardInv, NEW t \in Tasks, recordCompletion(t)
    PROVE  BoardInv'
  <1> USE DEF BoardInv
  <1>1. /\ \A x \in Tasks : status'[x] = IF x = t THEN "completed" ELSE status[x]
        /\ \A x \in Tasks : Prerequisites(x)' = Prerequisites(x)
        /\ recorded' = recorded \cup {t}
        /\ UNCHANGED <<deps, history>>
    BY DEF TypeOK, recordCompletion, Prerequisites
  <1>2. TypeOK'
    <2>1. {x \in Tasks : Exists(x)} \subseteq {x \in Tasks : Exists(x)}'
      BY <1>1 DEF Exists
    <2> QED
      BY <1>1, <2>1 DEF TypeOK, recordCompletion, TaskStatuses
  <1>3. ExecutionLeavesHistory'
    BY <1>1 DEF ExecutionLeavesHistory
  <1>4. CompletedAfterPrerequisites'
    BY <1>1 DEF CompletedAfterPrerequisites, Prerequisites
  <1>5. ReviewExitEvidence'
    BY <1>1 DEF ReviewExitEvidence, Prerequisites
  <1> QED BY <1>2, <1>3, <1>4, <1>5

LEMMA CreatePreservesInv ==
    ASSUME BoardInv, NEW t \in Tasks, CreateTask(t)
    PROVE  BoardInv'
  <1> USE DEF BoardInv
  <1>1. /\ status[t] = "absent"
        /\ \A x \in Tasks : status'[x] = IF x = t THEN "pending" ELSE status[x]
        /\ \A x \in Tasks : Prerequisites(x)' = Prerequisites(x)
        /\ UNCHANGED <<deps, history, recorded, approved>>
    BY DEF TypeOK, CreateTask, Prerequisites
  <1>2. TypeOK'
    <2>1. {x \in Tasks : Exists(x)} \subseteq {x \in Tasks : Exists(x)}'
      BY <1>1 DEF Exists
    <2> QED
      BY <1>1, <2>1 DEF TypeOK, CreateTask, TaskStatuses
  <1>3. ExecutionLeavesHistory'
    BY <1>1 DEF ExecutionLeavesHistory
  <1>4. CompletedAfterPrerequisites'
    BY <1>1 DEF CompletedAfterPrerequisites, Prerequisites
  <1>5. ReviewExitEvidence'
    BY <1>1 DEF ReviewExitEvidence, Prerequisites
  <1> QED BY <1>2, <1>3, <1>4, <1>5

LEMMA OtherStepsPreserveInv ==
    ASSUME BoardInv,
           \/ \E t \in Tasks : insertAgentRun(t) \/ planCompletion(t)
           \/ UNCHANGED vars
    PROVE  BoardInv'
  <1> USE DEF BoardInv
  <1>1. /\ UNCHANGED <<status, deps, recorded>>
        /\ history \subseteq history'
    BY DEF insertAgentRun, planCompletion, vars
  <1>2. TypeOK'
    <2>1. CASE \E t \in Tasks : insertAgentRun(t)
      BY <2>1 DEF TypeOK, insertAgentRun, Exists
    <2>2. CASE \E t \in Tasks : planCompletion(t)
      BY <2>2 DEF TypeOK, planCompletion, planHash, Exists
    <2>3. CASE UNCHANGED vars
      BY <2>3 DEF TypeOK, vars, Exists
    <2> QED BY <2>1, <2>2, <2>3
  <1>3. ExecutionLeavesHistory'
    BY <1>1 DEF ExecutionLeavesHistory
  <1>4. CompletedAfterPrerequisites' /\ ReviewExitEvidence'
    BY <1>1 DEF CompletedAfterPrerequisites, ReviewExitEvidence, Prerequisites
  <1> QED BY <1>2, <1>3, <1>4

LEMMA InitInv == Init => BoardInv
  BY DEF Init, BoardInv, TypeOK, ExecutionLeavesHistory, CompletedAfterPrerequisites,
         ReviewExitEvidence, Prerequisites, Exists

LEMMA NextInv == BoardInv /\ [Next]_vars => BoardInv'
  <1> SUFFICES ASSUME BoardInv, [Next]_vars PROVE BoardInv'
    OBVIOUS
  <1>1. ASSUME NEW t \in Tasks, start(t) PROVE BoardInv'
    BY <1>1, MovePreservesInv DEF start
  <1>2. ASSUME NEW t \in Tasks, complete(t) PROVE BoardInv'
    BY <1>2, MovePreservesInv DEF complete
  <1>3. ASSUME NEW t \in Tasks,
               submitForReview(t) \/ block(t) \/ unblock(t) \/ fail(t) \/ cancel(t)
        PROVE  BoardInv'
    BY <1>3, MovePreservesInv DEF submitForReview, block, unblock, fail, cancel
  <1> QED
    BY <1>1, <1>2, <1>3, CreatePreservesInv, RecordPreservesInv, LinkPreservesInv,
       UnlinkPreservesInv, OtherStepsPreserveInv DEF Next

\* Every reachable board satisfies the inductive invariant.
THEOREM BoardInvariant == Spec => []BoardInv
  BY InitInv, NextInv, PTL DEF Spec

\* Every variable keeps its type, edges and history rows keep naming tasks that
\* exist: link's and insertAgentRun's row checks are enough.
THEOREM TypeCorrect == Spec => []TypeOK
  BY BoardInvariant, PTL DEF BoardInv

\* A lifecycle completion is never ahead of a prerequisite, whatever happens
\* to the board later.
THEOREM CompletionGate == Spec => []CompletedAfterPrerequisites
  BY BoardInvariant, PTL DEF BoardInv

\* The evidence ReconcileTasks.inspect relies on when it names a review exit.
THEOREM ReviewExitsAreReal == Spec => []ReviewExitEvidence
  BY BoardInvariant, PTL DEF BoardInv

-----------------------------------------------------------------------------
(* Acyclicity.  If the search from t does not meet p there is a set S that *)
(* contains t and every dependent of its members, but not p.  A set C in   *)
(* which every task depends on another one would, after the new edge       *)
(* <<t, p>>, already exist before it: C \ S if that is not empty, and      *)
(* otherwise C itself, which then cannot contain p.                        *)

LEMMA LinkKeepsAcyclic ==
    ASSUME TypeOK, DependenciesAcyclic, NEW t \in Tasks, NEW p \in Tasks, link(t, p)
    PROVE  DependenciesAcyclic'
  <1>1. PICK S \in SUBSET Tasks : t \in S /\ closedUnderDependents(S) /\ p \notin S
    BY DEF link, assertAcyclicDependency, reachedFrom
  <1>2. SUFFICES ASSUME NEW C \in (SUBSET Tasks) \ {{}}
                 PROVE  \E x \in C : Prerequisites(x)' \cap C = {}
    BY DEF DependenciesAcyclic
  <1>3. \A x \in Tasks : Prerequisites(x)' = IF x = t THEN Prerequisites(t) \cup {p}
                                            ELSE Prerequisites(x)
    BY DEF link, Prerequisites
  <1>4. CASE C \ S # {}
    <2>1. PICK x \in C \ S : Prerequisites(x) \cap (C \ S) = {}
      BY <1>4 DEF DependenciesAcyclic
    <2>2. Prerequisites(x) \cap S = {}
      BY <1>1, <2>1 DEF closedUnderDependents, Prerequisites
    <2>3. x # t
      BY <1>1, <2>1
    <2> QED
      BY <1>3, <2>1, <2>2, <2>3
  <1>5. CASE C \ S = {}
    <2>1. PICK x \in C : Prerequisites(x) \cap C = {}
      BY DEF DependenciesAcyclic
    <2>2. p \notin C
      BY <1>1, <1>5
    <2> QED
      BY <1>3, <2>1, <2>2
  <1> QED BY <1>4, <1>5

\* No sequence of link and unlink commands closes a cycle of prerequisites.
THEOREM NeverCyclic == Spec => []DependenciesAcyclic
  <1>1. Init => DependenciesAcyclic
    BY DEF Init, DependenciesAcyclic, Prerequisites
  <1>2. TypeOK /\ DependenciesAcyclic /\ [Next]_vars => DependenciesAcyclic'
    <2> SUFFICES ASSUME TypeOK, DependenciesAcyclic, [Next]_vars
                 PROVE  DependenciesAcyclic'
      OBVIOUS
    <2>1. ASSUME NEW t \in Tasks, NEW p \in Tasks, unlink(t, p)
          PROVE  DependenciesAcyclic'
      <3>1. \A x \in Tasks : Prerequisites(x)' \subseteq Prerequisites(x)
        BY <2>1 DEF unlink, Prerequisites
      <3> QED
        BY <3>1 DEF DependenciesAcyclic
    <2>2. ASSUME UNCHANGED deps PROVE DependenciesAcyclic'
      BY <2>2 DEF DependenciesAcyclic, Prerequisites
    <2>3. CASE \E t, p \in Tasks : link(t, p) \/ unlink(t, p)
      BY <2>1, <2>3, LinkKeepsAcyclic
    <2>4. CASE ~\E t, p \in Tasks : link(t, p) \/ unlink(t, p)
      BY <2>2, <2>4 DEF Next, vars, CreateTask, start, submitForReview, complete, block,
         unblock, fail, cancel, moveTo, insertAgentRun, planCompletion, recordCompletion
    <2> QED BY <2>3, <2>4
  <1> QED
    BY <1>1, <1>2, TypeCorrect, PTL DEF Spec

-----------------------------------------------------------------------------
\* Executed tasks keep exactly the prerequisites they were admitted with.
THEOREM FrozenEdges == Spec => PrerequisitesFrozen
  <1>1. [Next]_vars => [KeepsPrerequisites]_vars
    <2> SUFFICES ASSUME Next, NEW t \in history
                 PROVE  Prerequisites(t)' = Prerequisites(t)
      BY DEF vars, KeepsPrerequisites
    <2>1. CASE \E x, p \in Tasks : link(x, p) \/ unlink(x, p)
      BY <2>1 DEF link, unlink, assertEditable, Prerequisites
    <2>2. CASE ~\E x, p \in Tasks : link(x, p) \/ unlink(x, p)
      BY <2>2 DEF Next, Prerequisites, CreateTask, start, submitForReview, complete, block,
         unblock, fail, cancel, moveTo, insertAgentRun, planCompletion, recordCompletion
    <2> QED BY <2>1, <2>2
  <1> QED
    BY <1>1, PTL DEF Spec, PrerequisitesFrozen

\* No command, and no stale attestation, rewrites a terminal status.
THEOREM TerminalStatusesAreFinal == Spec => TerminalIsFinal
  <1>1. TypeOK /\ [Next]_vars => [KeepsTerminal]_vars
    <2> SUFFICES ASSUME TypeOK, Next, NEW t \in Tasks, status[t] \in terminalTaskStatuses
                 PROVE  status'[t] = status[t]
      BY DEF vars, KeepsTerminal
    <2>1. ASSUME NEW x \in Tasks, NEW to, moveTo(x, to)
          PROVE  status'[t] = status[t]
      <3>1. status[x] \in TaskStatuses
        BY <2>1 DEF moveTo, Exists, TypeOK
      <3>2. status[x] \notin terminalTaskStatuses
        BY <2>1, <3>1, TransitionTable DEF moveTo
      <3> QED
        BY <2>1, <3>2 DEF moveTo, TypeOK
    <2>2. ASSUME NEW x \in Tasks,
                 start(x) \/ submitForReview(x) \/ complete(x) \/ block(x) \/ unblock(x)
                   \/ fail(x) \/ cancel(x)
          PROVE  status'[t] = status[t]
      BY <2>1, <2>2 DEF start, submitForReview, complete, block, unblock, fail, cancel
    <2>3. ASSUME NEW x \in Tasks,
                 CreateTask(x) \/ insertAgentRun(x) \/ planCompletion(x) \/ recordCompletion(x)
          PROVE  status'[t] = status[t]
      BY <2>3 DEF CreateTask, insertAgentRun, planCompletion, recordCompletion, TypeOK,
         terminalTaskStatuses, isHistoricalCompletionApplicable
    <2>4. ASSUME NEW x \in Tasks, NEW p \in Tasks, link(x, p) \/ unlink(x, p)
          PROVE  status'[t] = status[t]
      BY <2>4 DEF link, unlink
    <2> QED BY <2>2, <2>3, <2>4 DEF Next
  <1> QED
    BY <1>1, TypeCorrect, PTL DEF Spec, TerminalIsFinal

-----------------------------------------------------------------------------
\* The board is safe in every reachable state, for every set of tasks.
THEOREM BoardIsSafe == Spec => []BoardSafety
  BY TypeCorrect, NeverCyclic, CompletionGate, ReviewExitsAreReal, PTL DEF BoardSafety

\* No command rewires an executed task or reopens a finished one.
THEOREM BoardStepsHold == Spec => BoardSteps
  BY FrozenEdges, TerminalStatusesAreFinal, PTL DEF BoardSteps, PrerequisitesFrozen, TerminalIsFinal

-----------------------------------------------------------------------------
(* Governance *)

\* How far along its lifecycle a status is: no transition leads back.
Age(s) ==
    CASE s \in {"planned", "proposed"} -> 0
      [] s \in {"active", "accepted"} -> 1
      [] s \in {"completed", "cancelled", "implemented", "rejected", "deprecated", "superseded"} -> 2
      [] OTHER -> 3

StatusesOf(x) == DOMAIN governanceTransitions[KindOf[x]]

\* What a command may be about to write.
StatusEdits ==
    [op : {"status"}, record : Records, expected : UNION {StatusesOf(x) : x \in Records},
     to : UNION {StatusesOf(x) : x \in Records}]
TextEdits == [op : {"text"}, record : Records, expected : Texts, to : Texts]
AssignEdits == [op : {"assign"}, record : OfKind("requirement"), to : OfKind("milestone")]

GovernanceTypes ==
    /\ state \in [Records -> {"absent"} \cup UNION {StatusesOf(x) : x \in Records}]
    /\ \A x \in Records : state[x] = "absent" \/ state[x] \in StatusesOf(x)
    /\ text \in [Records -> Texts]
    /\ belongsTo \in [OfKind("requirement") -> OfKind("milestone") \cup {NoRecord}]
    /\ \A r \in OfKind("requirement") : state[r] = "absent" => belongsTo[r] = NoRecord
    /\ reviews \in [ReviewIds -> {"absent", "pending", "approved", "rejected"}]
    /\ linkAudit \in [LinkTasks \X OfKind("requirement") -> {0, 1}]
    /\ \A p \in LinkTasks \X OfKind("requirement") : linkAudit[p] = IF p \in taskLinks THEN 1 ELSE 0
    /\ edit \in [Editors -> {NoEdit} \cup StatusEdits \cup TextEdits \cup AssignEdits]

\* A status write waits to make a transition the lifecycle has.
EditsAllowed ==
    \A e \in Editors : edit[e].op = "status" =>
        /\ edit[e].expected \in StatusesOf(edit[e].record)
        /\ isGovernanceTransitionAllowed(KindOf[edit[e].record], edit[e].expected, edit[e].to)

\* An event is a transition of its record's lifecycle, from a status the record
\* has left, to one not later than the present.
EventsAllowed ==
    \A v \in govEvents :
        /\ v \in [record : Records, from : UNION {StatusesOf(x) : x \in Records},
                  to : UNION {StatusesOf(x) : x \in Records}]
        /\ v.from \in StatusesOf(v.record) /\ state[v.record] # "absent"
        /\ isGovernanceTransitionAllowed(KindOf[v.record], v.from, v.to)
        /\ Age(v.to) <= Age(state[v.record])

\* The events of a record are one path from its initial to its present status.
EventsChain ==
    /\ \A v, w \in govEvents : v.record = w.record /\ v.from = w.from => v = w
    /\ \A v \in govEvents :
         /\ v.from = initialStatus(v.record) \/ \E w \in govEvents : w.record = v.record /\ w.to = v.from
         /\ v.to = state[v.record] \/ \E w \in govEvents : w.record = v.record /\ w.from = v.to
    /\ \A x \in Records : state[x] \notin {"absent", initialStatus(x)} =>
         /\ \E w \in govEvents : w.record = x /\ w.to = state[x]
         /\ \E w \in govEvents : w.record = x /\ w.from = initialStatus(x)

\* A review's status is its decision.
DecisionsAgree ==
    /\ \A d \in decisions : d.review \in ReviewIds /\ reviews[d.review] = d.decision
                              /\ d.decision \in {"approved", "rejected"}
    /\ \A v \in ReviewIds : reviews[v] \in {"approved", "rejected"} =>
         \E d \in decisions : d.review = v /\ d.decision = reviews[v]

\* The inductive invariant of governance.
GovernanceInv ==
    GovernanceTypes /\ EditsAllowed /\ EventsAllowed /\ EventsChain /\ DecisionsAgree

\* Lifecycles only go on: a transition leads to a later status of the same kind.
LEMMA LifecyclesGoOn ==
    ASSUME NEW x \in Records, NEW s \in StatusesOf(x), NEW t,
           isGovernanceTransitionAllowed(KindOf[x], s, t)
    PROVE  t \in StatusesOf(x) /\ Age(s) < Age(t)
  <1>1. KindOf[x] \in {"milestone", "requirement", "adr"}
    BY GovernanceAssumption
  <1>2. CASE KindOf[x] = "milestone"
    BY <1>2 DEF StatusesOf, isGovernanceTransitionAllowed, governanceTransitions, Age
  <1>3. CASE KindOf[x] = "requirement"
    BY <1>3 DEF StatusesOf, isGovernanceTransitionAllowed, governanceTransitions, Age
  <1>4. CASE KindOf[x] = "adr"
    BY <1>4 DEF StatusesOf, isGovernanceTransitionAllowed, governanceTransitions, Age
  <1> QED BY <1>1, <1>2, <1>3, <1>4

\* Records begin with a status of their lifecycle, the only one of age 0.
LEMMA LifecyclesBegin ==
    ASSUME NEW x \in Records
    PROVE  /\ initialStatus(x) \in StatusesOf(x) /\ Age(initialStatus(x)) = 0
           /\ \A s \in StatusesOf(x) : Age(s) \in 0 .. 3 /\ s # "absent"
           /\ \A s \in StatusesOf(x) : Age(s) = 0 => s = initialStatus(x)
  <1>1. KindOf[x] \in {"milestone", "requirement", "adr"}
    BY GovernanceAssumption
  <1>2. CASE KindOf[x] = "milestone"
    BY <1>2 DEF StatusesOf, governanceTransitions, Age, initialStatus
  <1>3. CASE KindOf[x] = "requirement"
    BY <1>3 DEF StatusesOf, governanceTransitions, Age, initialStatus
  <1>4. CASE KindOf[x] = "adr"
    BY <1>4 DEF StatusesOf, governanceTransitions, Age, initialStatus
  <1> QED BY <1>1, <1>2, <1>3, <1>4

\* No event of a record enters what comes after its present status, and none
\* leaves its present status.
LEMMA NextIsNew ==
    ASSUME GovernanceInv, NEW x \in Records, NEW t, state[x] # "absent",
           isGovernanceTransitionAllowed(KindOf[x], state[x], t), NEW v \in govEvents, v.record = x
    PROVE  v.to # t /\ v.from # t /\ v.from # state[x]
  <1>1. state[x] \in StatusesOf(x)
    BY DEF GovernanceInv, GovernanceTypes
  <1>2. t \in StatusesOf(x) /\ Age(state[x]) < Age(t)
    BY <1>1, LifecyclesGoOn
  <1>3. v.from \in StatusesOf(x) /\ isGovernanceTransitionAllowed(KindOf[x], v.from, v.to)
          /\ Age(v.to) <= Age(state[x])
    BY DEF GovernanceInv, EventsAllowed
  <1>4. v.to \in StatusesOf(x) /\ Age(v.from) < Age(v.to)
    BY <1>3, LifecyclesGoOn
  <1>5. Age(v.from) \in Int /\ Age(v.to) \in Int /\ Age(t) \in Int /\ Age(state[x]) \in Int
    BY <1>1, <1>2, <1>3, <1>4, LifecyclesBegin
  <1> QED BY <1>2, <1>3, <1>4, <1>5

LEMMA GovernanceInitInv == GovernanceInit => GovernanceInv
  <1> SUFFICES ASSUME GovernanceInit PROVE GovernanceInv
    OBVIOUS
  <1>1. GovernanceTypes
    BY GovernanceAssumption DEF GovernanceInit, GovernanceTypes
  <1>2. EditsAllowed
    BY DEF GovernanceInit, EditsAllowed, NoEdit
  <1>3. EventsAllowed /\ EventsChain /\ DecisionsAgree
    BY DEF GovernanceInit, EventsAllowed, EventsChain, DecisionsAgree
  <1> QED BY <1>1, <1>2, <1>3 DEF GovernanceInv

\* A new record has no events yet.
LEMMA InsertStep ==
    ASSUME GovernanceInv, NEW x \in Records, NEW t \in Texts, inserted(x, t),
           belongsTo' \in [OfKind("requirement") -> OfKind("milestone") \cup {NoRecord}],
           \A r \in OfKind("requirement") : r # x => belongsTo'[r] = belongsTo[r]
    PROVE  GovernanceInv'
  <1>1. /\ state[x] = "absent" /\ state' = [state EXCEPT ![x] = initialStatus(x)]
        /\ text' = [text EXCEPT ![x] = t]
        /\ UNCHANGED <<reviews, decisions, govEvents, taskLinks, linkAudit, edit>>
    BY DEF inserted
  <1>2. initialStatus(x) \in StatusesOf(x) /\ initialStatus(x) # "absent"
    BY LifecyclesBegin
  <1>3. \A y \in Records : state'[y] = IF y = x THEN initialStatus(x) ELSE state[y]
    BY <1>1 DEF GovernanceInv, GovernanceTypes
  <1>4. GovernanceTypes'
    BY <1>1, <1>2, <1>3 DEF GovernanceInv, GovernanceTypes, OfKind
  <1>5. EditsAllowed' /\ DecisionsAgree'
    BY <1>1 DEF GovernanceInv, EditsAllowed, DecisionsAgree
  <1>6. \A v \in govEvents : v.record # x /\ v.record \in Records
    BY <1>1 DEF GovernanceInv, EventsAllowed
  <1>7. EventsAllowed'
    BY <1>1, <1>3, <1>6 DEF GovernanceInv, EventsAllowed
  <1>8. EventsChain'
    BY <1>1, <1>3, <1>6 DEF GovernanceInv, EventsChain, initialStatus
  <1> QED BY <1>4, <1>5, <1>7, <1>8 DEF GovernanceInv

\* A status write that matches appends the next event of its record.
LEMMA StatusStep == ASSUME GovernanceInv, NEW e \in Editors, updateStatus(e) PROVE GovernanceInv'
  <1> DEFINE w == edit[e]
             x == w.record
             ev == [record |-> w.record, from |-> w.expected, to |-> w.to]
  <1>1. /\ w.op = "status" /\ edit' = [edit EXCEPT ![e] = NoEdit]
        /\ UNCHANGED <<text, belongsTo, reviews, decisions, taskLinks, linkAudit, commands>>
        /\ \/ state[x] = w.expected /\ state' = [state EXCEPT ![x] = w.to] /\ govEvents' = govEvents \cup {ev}
           \/ UNCHANGED <<state, govEvents>>
    BY DEF updateStatus, statusMatches
  <1>2. w \in StatusEdits
    BY <1>1 DEF GovernanceInv, GovernanceTypes, NoEdit, TextEdits, AssignEdits
  <1>3. /\ x \in Records /\ w.expected \in StatusesOf(x)
        /\ isGovernanceTransitionAllowed(KindOf[x], w.expected, w.to)
    BY <1>1, <1>2 DEF GovernanceInv, EditsAllowed, StatusEdits
  <1>4. w.to \in StatusesOf(x) /\ Age(w.expected) < Age(w.to) /\ w.expected # "absent" /\ w.to # "absent"
    BY <1>3, LifecyclesGoOn, LifecyclesBegin
  <1>5. edit' \in [Editors -> {NoEdit} \cup StatusEdits \cup TextEdits \cup AssignEdits] /\ EditsAllowed'
    BY <1>1 DEF GovernanceInv, GovernanceTypes, EditsAllowed, NoEdit
  <1>6. DecisionsAgree'
    BY <1>1 DEF GovernanceInv, DecisionsAgree
  <1>7. CASE UNCHANGED <<state, govEvents>>
    <2>1. GovernanceTypes' /\ EventsAllowed' /\ EventsChain'
      BY <1>1, <1>5, <1>7 DEF GovernanceInv, GovernanceTypes, EventsAllowed, EventsChain
    <2> QED BY <2>1, <1>5, <1>6 DEF GovernanceInv
  <1>8. CASE state[x] = w.expected /\ state' = [state EXCEPT ![x] = w.to] /\ govEvents' = govEvents \cup {ev}
    <2>1. \A y \in Records : state'[y] = IF y = x THEN w.to ELSE state[y]
      BY <1>8, <1>3 DEF GovernanceInv, GovernanceTypes
    <2>2. GovernanceTypes'
      BY <1>1, <1>3, <1>4, <1>5, <1>8, <2>1 DEF GovernanceInv, GovernanceTypes, OfKind
    <2>3. \A v \in govEvents : v.record = x => v.to # w.to /\ v.from # w.to /\ v.from # state[x]
      BY <1>3, <1>4, <1>8, NextIsNew
    <2>4. EventsAllowed'
      <3> SUFFICES ASSUME NEW v \in govEvents'
                   PROVE  /\ v \in [record : Records, from : UNION {StatusesOf(y) : y \in Records},
                                    to : UNION {StatusesOf(y) : y \in Records}]
                          /\ v.from \in StatusesOf(v.record) /\ state'[v.record] # "absent"
                          /\ isGovernanceTransitionAllowed(KindOf[v.record], v.from, v.to)
                          /\ Age(v.to) <= Age(state'[v.record])
        BY DEF EventsAllowed
      <3>1. CASE v = ev
        <4>1. Age(w.to) \in Int
          BY <1>3, <1>4, LifecyclesBegin
        <4> QED BY <3>1, <4>1, <1>3, <1>4, <2>1
      <3>2. CASE v \in govEvents /\ v.record # x
        BY <3>2, <2>1 DEF GovernanceInv, EventsAllowed
      <3>3. CASE v \in govEvents /\ v.record = x
        <4>1. /\ v \in [record : Records, from : UNION {StatusesOf(y) : y \in Records},
                        to : UNION {StatusesOf(y) : y \in Records}]
              /\ v.from \in StatusesOf(x)
              /\ isGovernanceTransitionAllowed(KindOf[x], v.from, v.to) /\ Age(v.to) <= Age(w.expected)
          BY <3>3, <1>8 DEF GovernanceInv, EventsAllowed
        <4>2. v.to \in StatusesOf(x)
          BY <4>1, <1>3, LifecyclesGoOn
        <4>3. Age(v.to) \in Int /\ Age(w.expected) \in Int /\ Age(w.to) \in Int
          BY <4>2, <1>3, <1>4, LifecyclesBegin
        <4> QED BY <4>1, <4>3, <3>3, <1>4, <1>3, <2>1
      <3> QED BY <3>1, <3>2, <3>3, <1>8
    <2>5. EventsChain'
      <3>1. \A v, z \in govEvents' : v.record = z.record /\ v.from = z.from => v = z
        BY <1>8, <2>3 DEF GovernanceInv, EventsChain
      <3>2. state[x] = initialStatus(x) \/ \E z \in govEvents : z.record = x /\ z.to = state[x]
        BY <1>3, <1>4, <1>8 DEF GovernanceInv, EventsChain
      <3>3. ASSUME NEW v \in govEvents'
            PROVE  v.from = initialStatus(v.record) \/ \E z \in govEvents' : z.record = v.record /\ z.to = v.from
        BY <3>2, <1>8 DEF GovernanceInv, EventsChain
      <3>4. ASSUME NEW v \in govEvents'
            PROVE  v.to = state'[v.record] \/ \E z \in govEvents' : z.record = v.record /\ z.from = v.to
        <4>1. CASE v = ev
          BY <4>1, <2>1, <1>3
        <4>2. CASE v \in govEvents
          <5>1. v.record \in Records
            BY <4>2 DEF GovernanceInv, EventsAllowed
          <5>2. v.to = state[v.record] \/ \E z \in govEvents : z.record = v.record /\ z.from = v.to
            BY <4>2 DEF GovernanceInv, EventsChain
          <5>3. ev \in govEvents' /\ ev.record = x /\ ev.from = state[x]
            BY <1>8
          <5> QED BY <5>1, <5>2, <5>3, <1>8, <2>1
        <4> QED BY <4>1, <4>2, <1>8
      <3>5. ASSUME NEW y \in Records, state'[y] \notin {"absent", initialStatus(y)}
            PROVE  /\ \E z \in govEvents' : z.record = y /\ z.to = state'[y]
                   /\ \E z \in govEvents' : z.record = y /\ z.from = initialStatus(y)
        <4>1. CASE y # x
          BY <4>1, <3>5, <2>1, <1>8 DEF GovernanceInv, EventsChain
        <4>2. CASE y = x
          <5>1. ev \in govEvents' /\ ev.record = x /\ ev.from = state[x] /\ ev.to = state'[x]
            BY <1>8, <2>1, <1>3
          <5>2. state[x] = initialStatus(x) \/ \E z \in govEvents : z.record = x /\ z.from = initialStatus(x)
            BY <1>3, <1>4, <1>8 DEF GovernanceInv, EventsChain
          <5> QED BY <5>1, <5>2, <4>2, <1>8
        <4> QED BY <4>1, <4>2
      <3>6. \A y : initialStatus(y)' = initialStatus(y)
        BY DEF initialStatus
      <3> QED BY <3>1, <3>3, <3>4, <3>5 DEF EventsChain, initialStatus
    <2> QED BY <2>2, <2>4, <2>5, <1>5, <1>6 DEF GovernanceInv
  <1> QED BY <1>1, <1>7, <1>8

\* A command that begins knows what its write expects.
LEMMA BeginStep ==
    ASSUME GovernanceInv, NEW e \in Editors, NEW what, begins(e, what),
           what \in StatusEdits \cup TextEdits \cup AssignEdits,
           what.op = "status" => /\ what.expected \in StatusesOf(what.record)
                                 /\ isGovernanceTransitionAllowed(KindOf[what.record], what.expected, what.to)
    PROVE  GovernanceInv'
  <1>1. /\ edit' = [edit EXCEPT ![e] = what]
        /\ UNCHANGED <<state, text, belongsTo, reviews, decisions, govEvents, taskLinks, linkAudit>>
    BY DEF begins
  <1>2. GovernanceTypes' /\ EditsAllowed'
    BY <1>1 DEF GovernanceInv, GovernanceTypes, EditsAllowed
  <1>3. EventsAllowed' /\ EventsChain' /\ DecisionsAgree'
    BY <1>1 DEF GovernanceInv, EventsAllowed, EventsChain, DecisionsAgree
  <1> QED BY <1>2, <1>3 DEF GovernanceInv

\* The other steps of an editor write a text or a milestone.
LEMMA EditStep ==
    ASSUME GovernanceInv, NEW e \in Editors, updateText(e) \/ assignMilestone(e)
    PROVE  GovernanceInv'
  <1>1. /\ edit' = [edit EXCEPT ![e] = NoEdit]
        /\ UNCHANGED <<state, reviews, decisions, govEvents, taskLinks, linkAudit>>
    BY DEF updateText, assignMilestone
  <1>2. /\ text' \in [Records -> Texts]
        /\ belongsTo' \in [OfKind("requirement") -> OfKind("milestone") \cup {NoRecord}]
        /\ \A r \in OfKind("requirement") : state[r] = "absent" => belongsTo'[r] = NoRecord
    <2>1. CASE updateText(e)
      <3>1. edit[e] \in TextEdits
        BY <2>1 DEF updateText, GovernanceInv, GovernanceTypes, NoEdit, StatusEdits, AssignEdits
      <3> QED BY <2>1, <3>1 DEF updateText, GovernanceInv, GovernanceTypes, TextEdits
    <2>2. CASE assignMilestone(e)
      <3>1. edit[e] \in AssignEdits
        BY <2>2 DEF assignMilestone, GovernanceInv, GovernanceTypes, NoEdit, StatusEdits, TextEdits
      <3> QED BY <2>2, <3>1 DEF assignMilestone, assignmentMatches, GovernanceInv, GovernanceTypes, AssignEdits
    <2> QED BY <2>1, <2>2
  <1>3. GovernanceTypes' /\ EditsAllowed'
    BY <1>1, <1>2 DEF GovernanceInv, GovernanceTypes, EditsAllowed, NoEdit
  <1>4. EventsAllowed' /\ EventsChain' /\ DecisionsAgree'
    BY <1>1 DEF GovernanceInv, EventsAllowed, EventsChain, DecisionsAgree
  <1> QED BY <1>3, <1>4 DEF GovernanceInv

\* A review is created, or decided once.
LEMMA ReviewStep ==
    ASSUME GovernanceInv, NEW v \in ReviewIds, NEW d \in {"approved", "rejected"},
           saveReview(v) \/ decideReview(v, d)
    PROVE  GovernanceInv'
  <1>1. UNCHANGED <<state, text, belongsTo, govEvents, taskLinks, linkAudit, edit>>
    BY DEF saveReview, decideReview
  <1>2. /\ reviews' \in [ReviewIds -> {"absent", "pending", "approved", "rejected"}]
        /\ DecisionsAgree'
    <2>1. CASE saveReview(v)
      BY <2>1 DEF saveReview, GovernanceInv, GovernanceTypes, DecisionsAgree
    <2>2. CASE decideReview(v, d)
      <3>1. /\ reviews[v] = "pending" /\ reviews' = [reviews EXCEPT ![v] = d]
            /\ decisions' = decisions \cup {[review |-> v, decision |-> d]}
        BY <2>2 DEF decideReview
      <3>2. \A u \in ReviewIds : reviews'[u] = IF u = v THEN d ELSE reviews[u]
        BY <3>1 DEF GovernanceInv, GovernanceTypes
      <3>3. \A a \in decisions : a.review # v
        BY <3>1 DEF GovernanceInv, DecisionsAgree
      <3>4. DecisionsAgree'
        <4>1. \A a \in decisions' :
                a.review \in ReviewIds /\ reviews'[a.review] = a.decision /\ a.decision \in {"approved", "rejected"}
          BY <3>1, <3>2, <3>3 DEF GovernanceInv, DecisionsAgree
        <4>2. ASSUME NEW u \in ReviewIds, reviews'[u] \in {"approved", "rejected"}
              PROVE  \E a \in decisions' : a.review = u /\ a.decision = reviews'[u]
          <5>1. CASE u = v
            <6> DEFINE a == [review |-> v, decision |-> d]
            <6>1. a \in decisions' /\ a.review = v /\ a.decision = d
              BY <3>1
            <6> QED BY <6>1, <5>1, <3>2
          <5>2. CASE u # v
            BY <5>2, <4>2, <3>1, <3>2 DEF GovernanceInv, DecisionsAgree
          <5> QED BY <5>1, <5>2
        <4> QED BY <4>1, <4>2 DEF DecisionsAgree
      <3> QED BY <3>1, <3>4 DEF GovernanceInv, GovernanceTypes
    <2> QED BY <2>1, <2>2
  <1>3. GovernanceTypes' /\ EditsAllowed' /\ EventsAllowed' /\ EventsChain'
    BY <1>1, <1>2 DEF GovernanceInv, GovernanceTypes, EditsAllowed, EventsAllowed, EventsChain
  <1> QED BY <1>2, <1>3 DEF GovernanceInv

\* Linking and unlinking may be repeated: only what changed a link is audited.
LEMMA LinkStep ==
    ASSUME GovernanceInv, NEW t \in LinkTasks, NEW x \in OfKind("requirement"),
           linkRequirement(t, x) \/ unlinkRequirement(t, x)
    PROVE  GovernanceInv'
  <1>1. UNCHANGED <<state, text, belongsTo, reviews, decisions, govEvents, edit>>
    BY DEF linkRequirement, unlinkRequirement
  <1>2. /\ linkAudit' \in [LinkTasks \X OfKind("requirement") -> {0, 1}]
        /\ \A p \in LinkTasks \X OfKind("requirement") : linkAudit'[p] = IF p \in taskLinks' THEN 1 ELSE 0
    <2>1. CASE linkRequirement(t, x)
      BY <2>1 DEF linkRequirement, linkAudited, GovernanceInv, GovernanceTypes
    <2>2. CASE unlinkRequirement(t, x)
      BY <2>2 DEF unlinkRequirement, unlinkAudited, GovernanceInv, GovernanceTypes
    <2> QED BY <2>1, <2>2
  <1>3. GovernanceTypes' /\ EditsAllowed'
    BY <1>1, <1>2 DEF GovernanceInv, GovernanceTypes, EditsAllowed
  <1>4. EventsAllowed' /\ EventsChain' /\ DecisionsAgree'
    BY <1>1 DEF GovernanceInv, EventsAllowed, EventsChain, DecisionsAgree
  <1> QED BY <1>3, <1>4 DEF GovernanceInv

LEMMA GovernanceStep == GovernanceInv /\ [GovernanceNext]_governanceVars => GovernanceInv'
  <1> SUFFICES ASSUME GovernanceInv, [GovernanceNext]_governanceVars PROVE GovernanceInv'
    OBVIOUS
  <1>1. ASSUME NEW x \in Records, NEW t \in Texts, createMilestone(x, t) \/ createAdr(x, t)
        PROVE GovernanceInv'
    BY <1>1, InsertStep DEF createMilestone, createAdr, saveMilestone, saveAdr, GovernanceInv, GovernanceTypes
  <1>2. ASSUME NEW x \in Records, NEW t \in Texts, NEW m \in OfKind("milestone") \cup {NoRecord},
               createRequirement(x, t, m)
        PROVE GovernanceInv'
    <2>1. belongsTo' = [belongsTo EXCEPT ![x] = m] /\ inserted(x, t)
      BY <1>2 DEF createRequirement, saveRequirement
    <2>2. /\ belongsTo' \in [OfKind("requirement") -> OfKind("milestone") \cup {NoRecord}]
          /\ \A r \in OfKind("requirement") : r # x => belongsTo'[r] = belongsTo[r]
      BY <2>1 DEF GovernanceInv, GovernanceTypes
    <2> QED BY <2>1, <2>2, InsertStep
  <1>3. ASSUME NEW v \in ReviewIds, NEW x \in Records, createReview(v, x) PROVE GovernanceInv'
    BY <1>3, ReviewStep DEF createReview
  <1>4. ASSUME NEW v \in ReviewIds, NEW d \in {"approved", "rejected"}, approve(v, d) PROVE GovernanceInv'
    BY <1>4, ReviewStep DEF approve
  <1>5. ASSUME NEW e \in Editors, NEW x \in Records, NEW to, setStatus(e, x, to) PROVE GovernanceInv'
    <2> DEFINE what == [op |-> "status", record |-> x, expected |-> state[x], to |-> to]
    <2>1. /\ state[x] \in StatusesOf(x) /\ isGovernanceTransitionAllowed(KindOf[x], state[x], to)
          /\ begins(e, what)
      BY <1>5 DEF setStatus, findStatus, GovernanceInv, GovernanceTypes
    <2>2. to \in StatusesOf(x)
      BY <2>1, LifecyclesGoOn
    <2>3. what \in StatusEdits
      BY <2>1, <2>2 DEF StatusEdits
    <2> QED BY <2>1, <2>3, BeginStep
  <1>6. ASSUME NEW e \in Editors, NEW x \in Records, NEW t \in Texts,
               updateMilestoneText(e, x, t) \/ updateRequirement(e, x, t)
        PROVE GovernanceInv'
    <2> DEFINE what == [op |-> "text", record |-> x, expected |-> text[x], to |-> t]
    <2>1. begins(e, what)
      BY <1>6 DEF updateMilestoneText, updateRequirement, getSnapshot
    <2>2. what \in TextEdits
      BY DEF TextEdits, GovernanceInv, GovernanceTypes
    <2>3. what.op = "text"
      OBVIOUS
    <2> HIDE DEF what
    <2> QED BY <2>1, <2>2, <2>3, BeginStep
  <1>7. ASSUME NEW e \in Editors, NEW x \in Records, NEW m \in OfKind("milestone"),
               assignRequirementMilestone(e, x, m)
        PROVE GovernanceInv'
    <2> DEFINE what == [op |-> "assign", record |-> x, to |-> m]
    <2>1. begins(e, what) /\ what \in AssignEdits
      BY <1>7 DEF assignRequirementMilestone, AssignEdits, OfKind
    <2>2. what.op = "assign"
      OBVIOUS
    <2> HIDE DEF what
    <2> QED BY <2>1, <2>2, BeginStep
  <1>8. ASSUME NEW e \in Editors, updateStatus(e) \/ updateText(e) \/ assignMilestone(e) PROVE GovernanceInv'
    BY <1>8, StatusStep, EditStep
  <1>9. ASSUME NEW t \in LinkTasks, NEW x \in OfKind("requirement"),
               linkRequirement(t, x) \/ unlinkRequirement(t, x)
        PROVE GovernanceInv'
    BY <1>9, LinkStep
  <1>10. CASE UNCHANGED governanceVars
    BY <1>10 DEF governanceVars, GovernanceInv, GovernanceTypes, EditsAllowed, EventsAllowed, EventsChain,
        DecisionsAgree
  <1>11. CASE GovernanceNext
    BY <1>1, <1>2, <1>3, <1>4, <1>5, <1>6, <1>7, <1>8, <1>9, <1>11 DEF GovernanceNext
  <1> QED BY <1>10, <1>11

\* On a chain, an event is known by the status it left.
LEMMA OneEventPerStatus ==
    ASSUME GovernanceInv, NEW x \in Records
    PROVE  LET evs == {ev \in govEvents : ev.record = x}
           IN  Cardinality({ev.from : ev \in evs}) = Cardinality(evs)
  <1> DEFINE evs == {ev \in govEvents : ev.record = x}
             froms == {ev.from : ev \in evs}
             f == [ev \in evs |-> ev.from]
  <1>1. IsFiniteSet(froms)
    <2>1. froms \subseteq StatusesOf(x)
      BY DEF GovernanceInv, EventsAllowed
    <2>2. IsFiniteSet(StatusesOf(x))
      <3>1. StatusesOf(x) \subseteq {"planned", "active", "completed", "cancelled", "archived"}
              \cup {"proposed", "accepted", "implemented", "verified", "rejected"}
              \cup {"deprecated", "superseded"}
        BY GovernanceAssumption DEF StatusesOf, governanceTransitions
      <3>2. \A a, b, c, d, g : IsFiniteSet({a, b, c, d, g})
        <4> SUFFICES ASSUME NEW a, NEW b, NEW c, NEW d, NEW g PROVE IsFiniteSet({a, b, c, d, g})
          OBVIOUS
        <4>1. {a, b, c, d, g} = ({a} \cup {b}) \cup ({c} \cup {d}) \cup {g}
          OBVIOUS
        <4>2. \A y : IsFiniteSet({y})
          BY FS_Singleton
        <4>3. \A Y, Z : IsFiniteSet(Y) /\ IsFiniteSet(Z) => IsFiniteSet(Y \cup Z)
          BY FS_Union
        <4>4. IsFiniteSet({a} \cup {b}) /\ IsFiniteSet({c} \cup {d})
          BY <4>2, <4>3
        <4>5. IsFiniteSet(({a} \cup {b}) \cup ({c} \cup {d}))
          BY <4>3, <4>4
        <4>6. IsFiniteSet(({a} \cup {b}) \cup ({c} \cup {d}) \cup {g})
          BY <4>2, <4>3, <4>5
        <4> QED BY <4>1, <4>6, Zenon
      <3>3. IsFiniteSet({"deprecated", "superseded"})
        <4>1. {"deprecated", "superseded"} = {"deprecated", "superseded", "superseded", "superseded", "superseded"}
          OBVIOUS
        <4> QED BY <4>1, <3>2
      <3>4. IsFiniteSet({"planned", "active", "completed", "cancelled", "archived"}
              \cup {"proposed", "accepted", "implemented", "verified", "rejected"}
              \cup {"deprecated", "superseded"})
        BY <3>2, <3>3, FS_Union
      <3> QED BY <3>1, <3>4, FS_Subset
    <2> QED BY <2>1, <2>2, FS_Subset
  <1>2. f \in Injection(evs, froms)
    BY DEF Injection, IsInjective, GovernanceInv, EventsChain
  <1>3. f \in Surjection(evs, froms)
    BY DEF Surjection
  <1> QED BY <1>1, <1>2, <1>3, FS_Injection

LEMMA GovernanceImplies == GovernanceInv => GovernanceSafety
  <1> SUFFICES ASSUME GovernanceInv PROVE GovernanceSafety
    OBVIOUS
  <1>1. GovernanceTypeOK
    BY DEF GovernanceTypeOK, GovernanceInv, GovernanceTypes, StatusesOf
  <1>2. EventsReplay
    <2> SUFFICES ASSUME NEW x \in Records, state[x] # "absent"
                 PROVE  LET evs == {ev \in govEvents : ev.record = x}
                        IN  /\ ({initialStatus(x)} \cup {ev.to : ev \in evs}) \ {ev.from : ev \in evs} = {state[x]}
                            /\ Cardinality({ev.from : ev \in evs}) = Cardinality(evs)
      BY DEF EventsReplay
    <2> DEFINE evs == {ev \in govEvents : ev.record = x}
    <2>1. \A v \in evs : v.from # state[x]
      <3> SUFFICES ASSUME NEW v \in evs PROVE v.from # state[x]
        OBVIOUS
      <3>1. v.from \in StatusesOf(x) /\ isGovernanceTransitionAllowed(KindOf[x], v.from, v.to)
              /\ Age(v.to) <= Age(state[x])
        BY DEF GovernanceInv, EventsAllowed
      <3>2. v.to \in StatusesOf(x) /\ Age(v.from) < Age(v.to)
        BY <3>1, LifecyclesGoOn
      <3>3. Age(v.from) \in Int /\ Age(v.to) \in Int
        BY <3>1, <3>2, LifecyclesBegin
      <3> QED BY <3>1, <3>2, <3>3
    <2>2. state[x] = initialStatus(x) \/ \E w \in evs : w.to = state[x]
      BY DEF GovernanceInv, EventsChain
    <2>3. state[x] = initialStatus(x) \/ \E w \in evs : w.from = initialStatus(x)
      BY DEF GovernanceInv, EventsChain
    <2>4. \A v \in evs : v.to = state[x] \/ \E w \in evs : w.from = v.to
      BY DEF GovernanceInv, EventsChain
    <2>5. ({initialStatus(x)} \cup {ev.to : ev \in evs}) \ {ev.from : ev \in evs} = {state[x]}
      BY <2>1, <2>2, <2>3, <2>4
    <2> QED BY <2>5, OneEventPerStatus
  <1>3. EventIdsNeverCollide
    <2> SUFFICES ASSUME NEW e \in Editors, edit[e].op = "status",
                        statusMatches(edit[e].record, edit[e].expected), NEW o \in govEvents
                 PROVE  eventId(o) # <<edit[e].record, edit[e].to>>
      BY DEF EventIdsNeverCollide
    <2>1. edit[e] \in StatusEdits
      BY DEF GovernanceInv, GovernanceTypes, NoEdit, TextEdits, AssignEdits
    <2>2. /\ edit[e].record \in Records /\ edit[e].expected \in StatusesOf(edit[e].record)
          /\ isGovernanceTransitionAllowed(KindOf[edit[e].record], state[edit[e].record], edit[e].to)
          /\ edit[e].expected = state[edit[e].record]
      BY <2>1 DEF GovernanceInv, EditsAllowed, StatusEdits, statusMatches
    <2>3. state[edit[e].record] # "absent"
      BY <2>2, LifecyclesBegin
    <2>4. o.record = edit[e].record => o.to # edit[e].to
      BY <2>2, <2>3, NextIsNew
    <2> QED BY <2>4 DEF eventId
  <1>4. OneDecision
    BY DEF OneDecision, GovernanceInv, DecisionsAgree
  <1> QED BY <1>1, <1>2, <1>3, <1>4 DEF GovernanceSafety

\* The wording and the milestone of a requirement are written only while it is
\* proposed, whatever the write was decided on.
LEMMA GovernanceKeeps ==
    GovernanceInv /\ [GovernanceNext]_governanceVars => BaselineFrozen /\ MilestoneAssignedOnce
  <1> SUFFICES ASSUME GovernanceInv, [GovernanceNext]_governanceVars, NEW r \in OfKind("requirement")
               PROVE  /\ state[r] \notin {"absent", "proposed"} => text'[r] = text[r] /\ belongsTo'[r] = belongsTo[r]
                      /\ belongsTo[r] # NoRecord => belongsTo'[r] = belongsTo[r]
    BY DEF BaselineFrozen, MilestoneAssignedOnce
  <1>1. r \in Records /\ KindOf[r] = "requirement" /\ (state[r] = "absent" => belongsTo[r] = NoRecord)
    BY DEF OfKind, GovernanceInv, GovernanceTypes
  <1>2. ASSUME NEW x \in Records, NEW t \in Texts, inserted(x, t)
        PROVE  r = x => state[r] = "absent"
    BY <1>2 DEF inserted
  <1>3. ASSUME NEW x \in Records, NEW t \in Texts, inserted(x, t)
        PROVE  r # x => text'[r] = text[r]
    BY <1>1, <1>3 DEF inserted, GovernanceInv, GovernanceTypes
  <1>4. ASSUME NEW x \in Records, NEW t \in Texts, createMilestone(x, t) \/ createAdr(x, t)
        PROVE  belongsTo'[r] = belongsTo[r] /\ (state[r] # "absent" => text'[r] = text[r])
    BY <1>2, <1>3, <1>4 DEF createMilestone, createAdr, saveMilestone, saveAdr
  <1>5. ASSUME NEW x \in Records, NEW t \in Texts, NEW m, createRequirement(x, t, m)
        PROVE  state[r] # "absent" => belongsTo'[r] = belongsTo[r] /\ text'[r] = text[r]
    <2>1. belongsTo' = [belongsTo EXCEPT ![x] = m] /\ inserted(x, t)
      BY <1>5 DEF createRequirement, saveRequirement
    <2> QED BY <2>1, <1>2, <1>3 DEF GovernanceInv, GovernanceTypes
  <1>6. ASSUME NEW e \in Editors, updateText(e)
        PROVE  belongsTo'[r] = belongsTo[r] /\ (state[r] # "proposed" => text'[r] = text[r])
    <2>1. edit[e] \in TextEdits
      BY <1>6 DEF updateText, GovernanceInv, GovernanceTypes, NoEdit, StatusEdits, AssignEdits
    <2> QED BY <2>1, <1>1, <1>6
        DEF updateText, requirementTextMatches, TextEdits, GovernanceInv, GovernanceTypes
  <1>7. ASSUME NEW e \in Editors, assignMilestone(e)
        PROVE  /\ text' = text
               /\ state[r] # "proposed" \/ belongsTo[r] # NoRecord => belongsTo'[r] = belongsTo[r]
    <2>1. edit[e] \in AssignEdits
      BY <1>7 DEF assignMilestone, GovernanceInv, GovernanceTypes, NoEdit, StatusEdits, TextEdits
    <2> QED BY <2>1, <1>7 DEF assignMilestone, assignmentMatches, AssignEdits, GovernanceInv, GovernanceTypes
  <1>8. CASE UNCHANGED <<text, belongsTo>>
    BY <1>8
  <1> QED
    BY <1>1, <1>4, <1>5, <1>6, <1>7, <1>8
    DEF GovernanceNext, governanceVars, createReview, saveReview, approve, decideReview, setStatus,
        updateMilestoneText, updateRequirement, assignRequirementMilestone, begins, updateStatus,
        linkRequirement, unlinkRequirement

-----------------------------------------------------------------------------
(* The work of one project, of which a behaviour is about one part *)

\* The composition does with each part what its own specification allows.
THEOREM PartsBehave == WorkSpec => Spec /\ ReconcileSpec /\ GovernanceSpec /\ GraphSpec
  <1>1. WorkInit => Init /\ ReconcileInit /\ GovernanceInit /\ GraphInit
    BY DEF WorkInit
  <1>2. [WorkNext]_WorkVars => /\ [Next]_vars /\ [ReconcileNext]_reconcileVars
                               /\ [GovernanceNext]_governanceVars /\ [GraphNext]_graphVars
    BY DEF WorkNext, WorkVars
  <1> QED BY <1>1, <1>2, PTL DEF WorkSpec, Spec, ReconcileSpec, GovernanceSpec, GraphSpec

\* THEOREM: in the run `work` as on its own, the board has an acyclic graph and
\* completions gated by prerequisites (task lifecycle service).
THEOREM WorkKeepsBoard == WorkSpec => []BoardSafety /\ BoardSteps
  BY PartsBehave, BoardIsSafe, BoardStepsHold, PTL

\* THEOREM: whatever editors decide, edit, assign and link at once, the events
\* of a record replay to its status, identifiers never collide, and a review
\* has one decision (SqliteGovernanceRepository).
THEOREM GovernanceIsSafe == WorkSpec => []GovernanceHolds
  <1>1. GovernanceInit => GovernanceInv
    BY GovernanceInitInv
  <1>2. GovernanceInv /\ [GovernanceNext]_governanceVars => GovernanceInv'
    BY GovernanceStep
  <1>3. GovernanceInv => GovernanceHolds
    BY GovernanceImplies DEF GovernanceHolds
  <1> QED BY <1>1, <1>2, <1>3, PartsBehave, PTL DEF GovernanceSpec

\* THEOREM: the baseline of a requirement and its milestone are not rewritten,
\* not by an edit that began before they were fixed (SqliteGovernanceRepository).
THEOREM BaselinesAreKept == WorkSpec => [][BaselineFrozen /\ MilestoneAssignedOnce]_governanceVars
  <1>1. GovernanceInit => GovernanceInv
    BY GovernanceInitInv
  <1>2. GovernanceInv /\ [GovernanceNext]_governanceVars => GovernanceInv'
    BY GovernanceStep
  <1>3. GovernanceInv /\ [GovernanceNext]_governanceVars
          => [BaselineFrozen /\ MilestoneAssignedOnce]_governanceVars
    BY GovernanceKeeps
  <1> QED BY <1>1, <1>2, <1>3, PartsBehave, PTL DEF GovernanceSpec
=============================================================================
