----------------------------- MODULE Governance -----------------------------
(***************************************************************************)
(* Milestones, requirements, ADRs, reviews with their decisions, and the   *)
(* links between tasks and requirements.                                   *)
(*                                                                         *)
(* An edit or a status change reads the record, awaits, and writes with a  *)
(* predicate on what it read; in between, another command may have written *)
(* (a command that timed out goes on beside its successor).  The write and *)
(* its append-only event are one immediate transaction, which an event     *)
(* identifier that is taken already rolls back.  Creations, decisions and  *)
(* links depend on nothing another command can change between their read   *)
(* and their write - no record is ever deleted - so each is one step.      *)
(*                                                                         *)
(* Abstracted: wording is a member of Texts, one per record; actors,       *)
(* rationales, dates; other projects, whose records read as absent.        *)
(***************************************************************************)
EXTENDS TaskDomain, Naturals, FiniteSets

CONSTANTS Editors,       \* commands in progress
          Records,       \* identifiers of milestones, requirements and ADRs
          KindOf,        \* [Records -> "milestone", "requirement" or "adr"]
          ReviewIds, LinkTasks, Texts,
          NoRecord,
          MaxCommands    \* commands ever issued

ASSUME GovernanceAssumption ==
    /\ KindOf \in [Records -> {"milestone", "requirement", "adr"}]
    /\ NoRecord \notin Records /\ MaxCommands \in Nat /\ Texts # {}

OfKind(k) == {x \in Records : KindOf[x] = k}

VARIABLES
    state,      \* [Records -> status as findStatus reports it, or "absent"]
    text,       \* [Records -> Texts]
    belongsTo,  \* [requirements -> milestone or NoRecord]
    reviews,    \* [ReviewIds -> "absent", "pending", "approved" or "rejected"]
    decisions,  \* approval rows: [review, decision]
    govEvents,  \* governance_event status rows: [record, from, to]
    taskLinks,  \* task_requirement rows
    linkAudit,  \* [LinkTasks \X requirements -> audited links less unlinks]
    edit,       \* [Editors -> the write a command is about to make]
    commands

governanceVars ==
    <<state, text, belongsTo, reviews, decisions, govEvents, taskLinks, linkAudit, edit, commands>>

NoEdit == [op |-> "none"]

initialStatus(x) == IF KindOf[x] = "milestone" THEN "planned" ELSE "proposed"

GovernanceInit ==
    /\ state = [x \in Records |-> "absent"]
    /\ text = [x \in Records |-> CHOOSE t \in Texts : TRUE]
    /\ belongsTo = [r \in OfKind("requirement") |-> NoRecord]
    /\ reviews = [v \in ReviewIds |-> "absent"]
    /\ decisions = {} /\ govEvents = {} /\ taskLinks = {}
    /\ linkAudit = [p \in LinkTasks \X OfKind("requirement") |-> 0]
    /\ edit = [e \in Editors |-> NoEdit]
    /\ commands = 0

Commanded == commands < MaxCommands /\ commands' = commands + 1

findStatus(x) == state[x]

\* A row and its creation event, in one transaction.
inserted(x, t) ==
    /\ state[x] = "absent"
    /\ state' = [state EXCEPT ![x] = initialStatus(x)]
    /\ text' = [text EXCEPT ![x] = t]
    /\ UNCHANGED <<reviews, decisions, govEvents, taskLinks, linkAudit, edit>>

saveMilestone(x, t) == inserted(x, t) /\ UNCHANGED belongsTo

saveAdr(x, t) == inserted(x, t) /\ UNCHANGED belongsTo

saveRequirement(x, t, m) == inserted(x, t) /\ belongsTo' = [belongsTo EXCEPT ![x] = m]

saveReview(v) ==
    /\ reviews[v] = "absent"
    /\ reviews' = [reviews EXCEPT ![v] = "pending"]
    /\ UNCHANGED <<state, text, belongsTo, decisions, govEvents, taskLinks, linkAudit, edit>>

findMilestoneProject(m) == state[m] # "absent"

findSubjectProject(x) == state[x] # "absent"

createMilestone(x, t) == Commanded /\ KindOf[x] = "milestone" /\ saveMilestone(x, t)

createAdr(x, t) == Commanded /\ KindOf[x] = "adr" /\ saveAdr(x, t)

\* The milestone, if one is named, must exist in the project.
createRequirement(x, t, m) ==
    /\ Commanded /\ KindOf[x] = "requirement"
    /\ m # NoRecord => findMilestoneProject(m)
    /\ saveRequirement(x, t, m)

createReview(v, subject) == Commanded /\ findSubjectProject(subject) /\ saveReview(v)

\* One approval row; the approval_finalize_review trigger moves the review.
decideReview(v, decision) ==
    /\ reviews[v] = "pending"
    /\ decisions' = decisions \cup {[review |-> v, decision |-> decision]}
    /\ reviews' = [reviews EXCEPT ![v] = decision]
    /\ UNCHANGED <<state, text, belongsTo, govEvents, taskLinks, linkAudit, edit>>

approve(v, decision) == Commanded /\ decideReview(v, decision)

-----------------------------------------------------------------------------
(* Edits: what the command read becomes the predicate of its write.        *)

begins(e, what) ==
    /\ Commanded /\ edit[e] = NoEdit
    /\ edit' = [edit EXCEPT ![e] = what]
    /\ UNCHANGED <<state, text, belongsTo, reviews, decisions, govEvents, taskLinks, linkAudit>>

setStatus(e, x, to) ==
    /\ state[x] # "absent"
    /\ isGovernanceTransitionAllowed(KindOf[x], findStatus(x), to)
    /\ begins(e, [op |-> "status", record |-> x, expected |-> state[x], to |-> to])

getSnapshot(x) == [status |-> state[x], text |-> text[x]]

\* An edit that changes nothing returns at once.  Title and description of a
\* milestone are edited by two commands that differ in nothing else.
updateMilestoneText(e, x, t) ==
    LET read == getSnapshot(x)
    IN /\ KindOf[x] = "milestone" /\ read.status # "absent" /\ read.text # t
       /\ begins(e, [op |-> "text", record |-> x, expected |-> read.text, to |-> t])

updateRequirement(e, x, t) ==
    LET read == getSnapshot(x)
    IN /\ KindOf[x] = "requirement" /\ read.status # "absent" /\ read.text # t
       /\ isRequirementEditable(read.status)
       /\ begins(e, [op |-> "text", record |-> x, expected |-> read.text, to |-> t])

assignRequirementMilestone(e, x, m) ==
    /\ KindOf[x] = "requirement" /\ state[x] # "absent"
    /\ findStatus(m) \notin {"absent", "cancelled", "archived"}
    /\ isRequirementEditable(state[x]) /\ belongsTo[x] = NoRecord
    /\ begins(e, [op |-> "assign", record |-> x, to |-> m])

eventId(ev) == <<ev.record, ev.to>>

\* Fault: the write does not compare the status with the one it read.
statusMatches_Always(x, expected) == TRUE

statusMatches(x, expected) == state[x] = expected

\* The row changes and its event is inserted, or neither.
updateStatus(e) ==
    LET w == edit[e]
        ev == [record |-> w.record, from |-> w.expected, to |-> w.to]
    IN /\ w.op = "status"
       /\ IF statusMatches(w.record, w.expected) /\ \A o \in govEvents : eventId(o) # eventId(ev)
          THEN state' = [state EXCEPT ![w.record] = w.to] /\ govEvents' = govEvents \cup {ev}
          ELSE UNCHANGED <<state, govEvents>>
       /\ edit' = [edit EXCEPT ![e] = NoEdit]
       /\ UNCHANGED <<text, belongsTo, reviews, decisions, taskLinks, linkAudit, commands>>

milestoneTextMatches(w) == text[w.record] = w.expected

requirementTextMatches(w) == text[w.record] = w.expected /\ state[w.record] = "proposed"

updateText(e) ==
    LET w == edit[e]
        matches == IF KindOf[w.record] = "milestone" THEN milestoneTextMatches(w)
                   ELSE requirementTextMatches(w)
    IN /\ w.op = "text"
       /\ text' = IF matches THEN [text EXCEPT ![w.record] = w.to] ELSE text
       /\ edit' = [edit EXCEPT ![e] = NoEdit]
       /\ UNCHANGED <<state, belongsTo, reviews, decisions, govEvents, taskLinks, linkAudit, commands>>

\* The requirement's slot and the milestone's status are checked in the write.
assignmentMatches(w) ==
    /\ state[w.record] = "proposed" /\ belongsTo[w.record] = NoRecord
    /\ state[w.to] \notin {"cancelled", "archived"}

assignMilestone(e) ==
    LET w == edit[e]
    IN /\ w.op = "assign"
       /\ belongsTo' = IF assignmentMatches(w) THEN [belongsTo EXCEPT ![w.record] = w.to] ELSE belongsTo
       /\ edit' = [edit EXCEPT ![e] = NoEdit]
       /\ UNCHANGED <<state, text, reviews, decisions, govEvents, taskLinks, linkAudit, commands>>

-----------------------------------------------------------------------------
(* ManageTaskRequirements: idempotent, audited when something changed.     *)

requireBothEnds(x) == findStatus(x) # "absent"

\* The insert reports whether it created the row.
linkAudited(pair) == pair \notin taskLinks

linkRequirement(t, x) ==
    /\ Commanded /\ requireBothEnds(x)
    /\ taskLinks' = taskLinks \cup {<<t, x>>}
    /\ linkAudit' = IF linkAudited(<<t, x>>) THEN [linkAudit EXCEPT ![<<t, x>>] = @ + 1] ELSE linkAudit
    /\ UNCHANGED <<state, text, belongsTo, reviews, decisions, govEvents, edit>>

unlinkAudited(pair) == pair \in taskLinks

unlinkRequirement(t, x) ==
    /\ Commanded /\ requireBothEnds(x)
    /\ taskLinks' = taskLinks \ {<<t, x>>}
    /\ linkAudit' = IF unlinkAudited(<<t, x>>) THEN [linkAudit EXCEPT ![<<t, x>>] = @ - 1] ELSE linkAudit
    /\ UNCHANGED <<state, text, belongsTo, reviews, decisions, govEvents, edit>>

GovernanceNext ==
    \/ \E x \in Records, t \in Texts :
         \/ createMilestone(x, t) \/ createAdr(x, t)
         \/ \E m \in OfKind("milestone") \cup {NoRecord} : createRequirement(x, t, m)
    \/ \E v \in ReviewIds :
         \/ \E x \in Records : createReview(v, x)
         \/ \E d \in {"approved", "rejected"} : approve(v, d)
    \/ \E e \in Editors :
         \/ \E x \in Records :
              \/ \E to \in DOMAIN governanceTransitions[KindOf[x]] : setStatus(e, x, to)
              \/ \E t \in Texts : updateMilestoneText(e, x, t) \/ updateRequirement(e, x, t)
              \/ \E m \in OfKind("milestone") : assignRequirementMilestone(e, x, m)
         \/ updateStatus(e) \/ updateText(e) \/ assignMilestone(e)
    \/ \E t \in LinkTasks, x \in OfKind("requirement") :
         linkRequirement(t, x) \/ unlinkRequirement(t, x)

GovernanceSpec == GovernanceInit /\ [][GovernanceNext]_governanceVars

-----------------------------------------------------------------------------
\* Types, and what each link count stands for: the audit trail of a link says
\* whether it exists, although linking is idempotent and may be repeated.
GovernanceTypeOK ==
    /\ \A x \in Records : state[x] = "absent" \/ state[x] \in DOMAIN governanceTransitions[KindOf[x]]
    /\ text \in [Records -> Texts]
    /\ belongsTo \in [OfKind("requirement") -> OfKind("milestone") \cup {NoRecord}]
    /\ \A p \in DOMAIN linkAudit : linkAudit[p] = IF p \in taskLinks THEN 1 ELSE 0

\* The status events of a record are one chain from its initial status to the
\* present one: no lost update, no transition from a status the record had
\* already left, and no event without its change (updateStatus's predicate).
EventsReplay ==
    \A x \in Records :
        LET evs == {ev \in govEvents : ev.record = x}
        IN state[x] # "absent" =>
             /\ ({initialStatus(x)} \cup {ev.to : ev \in evs}) \ {ev.from : ev \in evs} = {state[x]}
             /\ Cardinality({ev.from : ev \in evs}) = Cardinality(evs)

\* The identifier of a status event names only the record and the status
\* entered.  It never collides, so no legitimate change is rolled back: no
\* status is ever entered twice.
EventIdsNeverCollide ==
    \A e \in Editors : edit[e].op = "status" /\ statusMatches(edit[e].record, edit[e].expected) =>
        \A o \in govEvents : eventId(o) # <<edit[e].record, edit[e].to>>

\* A review has at most one decision, and its status is that decision.
OneDecision ==
    \A v \in ReviewIds : {d.decision : d \in {a \in decisions : a.review = v}} =
        IF reviews[v] \in {"approved", "rejected"} THEN {reviews[v]} ELSE {}

\* The wording and the milestone of a requirement are the baseline once it is
\* no longer proposed, also for edits that began while it was.
BaselineFrozen ==
    \A r \in OfKind("requirement") : state[r] \notin {"absent", "proposed"} =>
        text'[r] = text[r] /\ belongsTo'[r] = belongsTo[r]

\* A requirement's milestone is assigned once, whichever of two assignments
\* that both found it empty writes first.
MilestoneAssignedOnce ==
    \A r \in OfKind("requirement") : belongsTo[r] # NoRecord => belongsTo'[r] = belongsTo[r]

\* What holds of the records at any time: their events replay, no event can
\* collide with another, and a review is decided once.
GovernanceSafety == GovernanceTypeOK /\ EventsReplay /\ EventIdsNeverCollide /\ OneDecision

=============================================================================
