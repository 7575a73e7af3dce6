------------------------- MODULE KnowledgeAdmission -------------------------
(***************************************************************************)
(* The admission of agent knowledge: a plan derived from authoritative     *)
(* project records, an approval of exactly that plan, and its record in a  *)
(* secondary store that may reject a call before or after it committed.    *)
(*                                                                         *)
(* A plan hash is injective, so a plan stands for its own hash and id.     *)
(***************************************************************************)
EXTENDS Naturals, FiniteSets

CONSTANTS
  Callers,      \* commands in progress at the same time
  Operators,    \* reviewers
  MaxAdmits     \* a bound on the admissions, and on the clock

ASSUME KnowledgeAssumption == MaxAdmits \in Nat /\ Operators # {}

VARIABLES
  authority,  \* the project's records the sources are verified against
  store,      \* the secondary store: [plan, createdAt]
  audit,      \* the admission's audit rows: [event, plan, by]
  admission,  \* each caller's admission in progress
  admits      \* the clock: one tick per admission

knowledgeVars == <<authority, store, audit, admission, admits>>

(* KnowledgeAdmissionSourceInput, one explicit source of one kind *)
Inputs == [source : {"agent_run"}, ref : {"run"}, by : {"none"}]
          \cup [source : {"handover"}, ref : {1, 2}, by : {"none"}]
          \cup [source : {"operator_confirmed"}, ref : {"evidence"}, by : Operators]

NoAdmission == [source |-> "none"]
NoAdmitCall == [at |-> "idle", result |-> "none"]

KnowledgeInit ==
  /\ authority = [run |-> "running", confirmation |-> 1, reviewed |-> 1, facts |-> 1,
                  evidence |-> "standing"]
  /\ store = {} /\ audit = {} /\ admission = [c \in Callers |-> NoAdmitCall] /\ admits = 0

(***************************************************************************)
(* plan                                                                    *)
(***************************************************************************)
(* Only a completed worker run; dated by its completion. *)
planFromRun(i) ==
  IF authority.run = "completed"
  THEN [source |-> i.source, ref |-> i.ref, by |-> i.by, locator |-> "result", createdAt |-> 0]
  ELSE NoAdmission

(* The active confirmation, with facts that have not changed since. *)
confirmedHandover(i) ==
  IF i.ref = authority.confirmation /\ authority.reviewed = authority.facts
  THEN [source |-> i.source, ref |-> i.ref, by |-> i.by, locator |-> authority.reviewed,
        createdAt |-> 0]
  ELSE NoAdmission

(* Requirements not rejected, accepted ADRs, approved reviews, own tasks;   *)
(* the record has no date before its admission.                             *)
evidence(i) ==
  IF authority.evidence = "standing"
  THEN [source |-> i.source, ref |-> i.ref, by |-> i.by, locator |-> i.ref]
  ELSE NoAdmission

plan(i) ==
  CASE i.source = "agent_run" -> planFromRun(i)
    [] i.source = "handover" -> confirmedHandover(i)
    [] i.source = "operator_confirmed" -> evidence(i)

(* An operator's confirmation is dated at its admission. *)
dateOf(p, admittedAt) == IF p.source = "operator_confirmed" THEN admittedAt ELSE p.createdAt

(* knowledge:plan shows the operator a plan and its hash. *)
Plan(c, i) ==
  /\ admission[c].at = "idle" /\ plan(i) # NoAdmission
  /\ admission' = [admission EXCEPT ![c] = [at |-> "planned", result |-> "none", input |-> i,
                                  approval |-> plan(i)]]
  /\ UNCHANGED <<authority, store, audit, admits>>

(***************************************************************************)
(* admit                                                                   *)
(***************************************************************************)
settleCall(c, result) == admission' = [admission EXCEPT ![c].at = "finished", ![c].result = result]

(* The plan is derived again: it has to be the approved one, and only the   *)
(* operator it names can confirm it.                                        *)
Admit(c, reviewer) ==
  /\ admission[c].at = "planned" /\ admits < MaxAdmits
  /\ LET p == plan(admission[c].input) IN
     IF \/ p = NoAdmission \/ p # admission[c].approval
        \/ (p.source = "operator_confirmed" /\ p.by # reviewer)
     THEN settleCall(c, "refused") /\ UNCHANGED admits
     ELSE /\ admits' = admits + 1
          /\ admission' = [admission EXCEPT ![c] = [at |-> "approving", result |-> "none",
                        input |-> admission[c].input, approval |-> p, reviewer |-> reviewer,
                        admittedAt |-> admits + 1]]
  /\ UNCHANGED <<authority, store, audit>>

auditRow(c, event) == [event |-> event, plan |-> admission[c].approval, by |-> admission[c].reviewer]

(* Fault: the store is written although the approval was not recorded. *)
Approve_KeepsGoing(c) ==
  /\ admission[c].at = "approving"
  /\ \/ /\ audit' = audit \cup {auditRow(c, "approved")}
        /\ admission' = [admission EXCEPT ![c].at = "tracing"]
     \/ admission' = [admission EXCEPT ![c].at = "tracing"] /\ UNCHANGED audit
  /\ UNCHANGED <<authority, store, admits>>

(* The approval is persisted before the store is touched. *)
Approve(c) ==
  /\ admission[c].at = "approving"
  /\ \/ /\ audit' = audit \cup {auditRow(c, "approved")}
        /\ admission' = [admission EXCEPT ![c].at = "tracing"]
     \/ settleCall(c, "approval_audit_failed") /\ UNCHANGED audit
  /\ UNCHANGED <<authority, store, admits>>

(* fail: the outcome is audited if it can be. *)
fail(c, result) ==
  /\ settleCall(c, result)
  /\ audit' \in {audit, audit \cup {auditRow(c, "failed")}}

(* traceMemoryProvenance, traceDecisionProvenance: the record with this id. *)
traceOf(p) == {r \in store : r.plan = p}

(* assertTrace: the record says what the plan says; a plan without a date   *)
(* takes the record's.                                                      *)
assertTrace(r, p, admittedAt) ==
  r.plan = p /\ (p.source # "operator_confirmed" => r.createdAt = p.createdAt)

(* The trace before the write: a record that is already there is reconciled. *)
TraceFirst(c) ==
  /\ admission[c].at = "tracing"
  /\ LET p == admission[c].approval  found == traceOf(p) IN
     \/ fail(c, "failed")
     \/ /\ found = {} /\ admission' = [admission EXCEPT ![c].at = "recording"] /\ UNCHANGED audit
     \/ \E r \in found :
          IF assertTrace(r, p, admission[c].admittedAt)
          THEN admission' = [admission EXCEPT ![c].at = "outcome", ![c].result = "reconciled"]
               /\ UNCHANGED audit
          ELSE fail(c, "conflict")
  /\ UNCHANGED <<authority, store, admits>>

(* recordMemory, recordDecision, recordNonRunKnowledge: one transaction of  *)
(* the store that throws when the id is taken by different content.         *)
accepts(p, createdAt) == \A r \in traceOf(p) : r.createdAt = createdAt

upsert(p, createdAt) == (store \ traceOf(p)) \cup {[plan |-> p, createdAt |-> createdAt]}

(* The call commits and answers, commits and is rejected, or does neither.  *)
Record(c) ==
  /\ admission[c].at = "recording"
  /\ LET p == admission[c].approval  d == dateOf(p, admission[c].admittedAt) IN
     \/ /\ accepts(p, d) /\ store' = upsert(p, d)
        /\ \/ admission' = [admission EXCEPT ![c].at = "verifying"] /\ UNCHANGED audit
           \/ fail(c, "unknown")
     \/ fail(c, "unknown") /\ UNCHANGED store
  /\ UNCHANGED <<authority, admits>>

(* The trace after the write. *)
Verify(c) ==
  /\ admission[c].at = "verifying"
  /\ LET p == admission[c].approval  found == traceOf(p) IN
     \/ fail(c, "unknown")
     \/ \E r \in found :
          IF assertTrace(r, p, admission[c].admittedAt)
          THEN admission' = [admission EXCEPT ![c].at = "outcome", ![c].result = "recorded"]
               /\ UNCHANGED audit
          ELSE fail(c, "conflict")
  /\ UNCHANGED <<authority, store, admits>>

(* recordOutcome: without its audit row the outcome has to be reconciled.   *)
RecordOutcome(c) ==
  /\ admission[c].at = "outcome"
  /\ \/ /\ audit' = audit \cup {auditRow(c, "recorded")}
        /\ admission' = [admission EXCEPT ![c].at = "finished"]
     \/ settleCall(c, "reconciliation_required") /\ UNCHANGED audit
  /\ UNCHANGED <<authority, store, admits>>

(* A command ends, or its process does: nothing is kept but store and audit. *)
Leave(c) ==
  /\ admission[c].at # "idle"
  /\ admission' = [admission EXCEPT ![c] = NoAdmitCall]
  /\ UNCHANGED <<authority, store, audit, admits>>

(***************************************************************************)
(* The authoritative records change under the admissions.                  *)
(***************************************************************************)
AuthorityChanges ==
  /\ \/ authority.run = "running" /\ authority' = [authority EXCEPT !.run = "completed"]
     \/ authority.facts = 1 /\ authority' = [authority EXCEPT !.facts = 2]
     \/ /\ authority.confirmation = 1
        /\ authority' = [authority EXCEPT !.confirmation = 2, !.reviewed = authority.facts]
     \/ authority.evidence = "standing" /\ authority' = [authority EXCEPT !.evidence = "withdrawn"]
  /\ UNCHANGED <<store, audit, admission, admits>>

KnowledgeNext ==
  \/ AuthorityChanges
  \/ \E c \in Callers :
       \/ \E i \in Inputs : Plan(c, i)
       \/ \E o \in Operators : Admit(c, o)
       \/ Approve(c) \/ TraceFirst(c) \/ Record(c) \/ Verify(c) \/ RecordOutcome(c) \/ Leave(c)

KnowledgeSpec == KnowledgeInit /\ [][KnowledgeNext]_knowledgeVars

KnowledgeTypeOK ==
  /\ admits \in 0 .. MaxAdmits
  /\ \A r \in store : r.plan # NoAdmission /\ r.createdAt \in 0 .. MaxAdmits
  /\ \A p \in {r.plan : r \in store} : Cardinality(traceOf(p)) = 1
  /\ \A a \in audit : a.event \in {"approved", "failed", "recorded"} /\ a.by \in Operators

(* What explain tells of a record: the approvals of its admission. *)
explain(r) == {a \in audit : a.plan = r.plan /\ a.event = "approved"}

(* Every record in the store can be explained by an approval that was       *)
(* audited before it, given by the very operator an operator's confirmation *)
(* names, whatever was rejected, retried or abandoned on the way.           *)
EveryRecordApproved ==
  \A r \in store :
    \E a \in explain(r) : r.plan.source = "operator_confirmed" => a.by = r.plan.by

(* An admission is reported, and audited, as recorded or reconciled only    *)
(* for a record the store has.                                              *)
RecordedIsPersisted ==
  /\ \A a \in audit : a.event = "recorded" => traceOf(a.plan) # {}
  /\ \A c \in Callers : admission[c].result \in {"recorded", "reconciled"}
                          => traceOf(admission[c].approval) # {}

(* A retry after an unknown outcome, or one that races another admission of *)
(* the same plan, never ends in a conflict with its own record.             *)
NeverConflict == \A c \in Callers : admission[c].result # "conflict"

(* A record never changes, also when two admissions of one plan race.       *)
RecordsKept == store \subseteq store'

(* What holds of the store and its audit: every record is approved, every   *)
(* report of one is true, and no retry conflicts with its own record.       *)
AdmissionSafety == KnowledgeTypeOK /\ EveryRecordApproved /\ RecordedIsPersisted /\ NeverConflict
=============================================================================
