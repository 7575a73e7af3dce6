---------------------------- MODULE RuntimePurge ----------------------------
(***************************************************************************)
(* `ai-office runtime:purge`: a plan lists the known artifacts of the      *)
(* runtime home with a fingerprint each; approving its hash plans again,   *)
(* compares, and removes them one by one, each checked against its         *)
(* fingerprint first, the authoritative database last.                     *)
(*                                                                         *)
(* Another process (a host that starts anyway, an editor) may create,      *)
(* change or remove entries between any two of those steps, and the purge  *)
(* may die.  An entry is a version number; two versions have different     *)
(* fingerprints.  Directories are fingerprinted by identity, not content.  *)
(***************************************************************************)
EXTENDS Naturals, Sequences, FiniteSets, SequencesExt

CONSTANT MaxChanges,     \* changes other processes make
         MaxPurges       \* invocations

ASSUME PurgeBounds == MaxChanges \in Nat /\ MaxPurges \in Nat

VARIABLES entry,        \* what is at each path: 0 nothing, n its version
          oddKind,      \* known names that hold something of another kind
          homeExists,   \* the state directory itself
          hostAnswers,  \* a host answers the health probe
          purge,        \* the running invocation
          approvedPlan, \* the draft whose hash the operator holds
          changed, purges

purgeVars == <<entry, oddKind, homeExists, hostAnswers, purge, approvedPlan,
               changed, purges>>

(* removalOrder, deepest path first within a directory.  The sidecars of   *)
(* one database stand for the WAL, SHM and journal files.                  *)
removalOrder == <<"daemon.sock", "drafts/note", "drafts", "index.sqlite",
                  "project.sqlite-wal", "project.sqlite">>
Known == Range(removalOrder)
Unknown == {"global.sqlite"}
Paths == Known \cup Unknown
inside(p) == IF p = "drafts" THEN {"drafts/note"} ELSE {}

NoPurge == [step |-> "none", todo |-> {}, draft |-> [p \in Known |-> 0],
            preserved |-> {}]

PurgeInit ==
  /\ entry \in {[p \in Paths |-> 1],
                [p \in Paths |-> IF p = "global.sqlite" THEN 0 ELSE 1]}
  /\ oddKind \in {{}, {"index.sqlite"}}
  /\ homeExists = TRUE
  /\ hostAnswers = FALSE
  /\ purge = NoPurge
  /\ approvedPlan = [p \in Known |-> 0]
  /\ changed = 0
  /\ purges = 0

(* Known names of the expected kind, with their fingerprints; everything   *)
(* else in the directory is preserved.                                     *)
plannedArtifacts == [p \in Known |-> IF p \in oddKind THEN 0 ELSE entry[p]]
preservedPaths == {p \in Paths : entry[p] # 0 /\ (p \in Unknown \/ p \in oddKind)}

(* The artifacts of a plan are visited in removal order.                   *)
artifactOrder(todo) ==
  removalOrder[CHOOSE i \in DOMAIN removalOrder :
                 /\ removalOrder[i] \in todo
                 /\ \A j \in 1..(i - 1) : removalOrder[j] \notin todo]

(* The command line refuses while a host answers its health probe.         *)
daemonStopped == ~hostAnswers

PlanPurge ==
  /\ purge.step = "none" /\ purges < MaxPurges
  /\ daemonStopped /\ homeExists
  /\ purges' = purges + 1
  /\ approvedPlan' = plannedArtifacts
  /\ UNCHANGED <<entry, oddKind, homeExists, hostAnswers, purge, changed>>

(* The plan is computed again and must have the approved hash.             *)
approves_Unchecked(draft) == TRUE
approves(draft) == draft = approvedPlan

ApplyPurge ==
  /\ purge.step = "none" /\ purges < MaxPurges
  /\ daemonStopped /\ homeExists
  /\ purges' = purges + 1
  /\ approves(plannedArtifacts)
  /\ purge' = [step |-> "revalidate", todo |-> {p \in Known : plannedArtifacts[p] # 0},
               draft |-> plannedArtifacts, preserved |-> preservedPaths]
  /\ UNCHANGED <<entry, oddKind, homeExists, hostAnswers, approvedPlan, changed>>

(* The fingerprint again, just before the removal; a change stops it all.  *)
sameArtifact(p) == entry[p] = purge.draft[p]

RevalidateArtifact ==
  /\ purge.step = "revalidate" /\ purge.todo # {}
  /\ purge' = IF sameArtifact(artifactOrder(purge.todo)) THEN [purge EXCEPT !.step = "remove"]
              ELSE NoPurge
  /\ UNCHANGED <<entry, oddKind, homeExists, hostAnswers, approvedPlan, changed, purges>>

(* unlink, or rmdir, which a directory that is not empty refuses.          *)
removable(p) == entry[p] # 0 /\ \A q \in inside(p) : entry[q] = 0

RemoveArtifact ==
  /\ purge.step = "remove"
  /\ LET p == artifactOrder(purge.todo)
     IN \/ /\ removable(p)
           /\ entry' = [entry EXCEPT ![p] = 0]
           /\ purge' = [purge EXCEPT !.step = "revalidate", !.todo = @ \ {p}]
        \/ /\ purge' = NoPurge
           /\ UNCHANGED entry
  /\ UNCHANGED <<oddKind, homeExists, hostAnswers, approvedPlan, changed, purges>>

(* The home goes only when nothing is left in it.                          *)
homeKept == \E p \in Paths : entry[p] # 0

RemoveHome ==
  /\ purge.step = "revalidate" /\ purge.todo = {}
  /\ homeExists' = homeKept
  /\ purge' = NoPurge
  /\ UNCHANGED <<entry, oddKind, hostAnswers, approvedPlan, changed, purges>>

(***************************************************************************)
(* Everybody else                                                          *)
(***************************************************************************)

SomethingWrites(p) ==
  /\ changed < MaxChanges /\ homeExists
  /\ p = "drafts/note" => entry["drafts"] # 0
  /\ changed' = changed + 1
  /\ entry' = [entry EXCEPT ![p] = changed + 2]
  /\ UNCHANGED <<oddKind, homeExists, hostAnswers, purge, approvedPlan, purges>>

SomethingRemoves(p) ==
  /\ changed < MaxChanges
  /\ entry[p] # 0 /\ \A q \in inside(p) : entry[q] = 0
  /\ changed' = changed + 1
  /\ entry' = [entry EXCEPT ![p] = 0]
  /\ UNCHANGED <<oddKind, homeExists, hostAnswers, purge, approvedPlan, purges>>

HostStarts ==
  /\ hostAnswers' = ~hostAnswers
  /\ UNCHANGED <<entry, oddKind, homeExists, purge, approvedPlan, changed, purges>>

PurgeDies ==
  /\ purge.step # "none"
  /\ purge' = NoPurge
  /\ UNCHANGED <<entry, oddKind, homeExists, hostAnswers, approvedPlan, changed, purges>>

PurgeNext ==
  \/ PlanPurge \/ ApplyPurge \/ RevalidateArtifact \/ RemoveArtifact
  \/ RemoveHome \/ PurgeDies \/ HostStarts
  \/ \E p \in Paths : SomethingWrites(p) \/ SomethingRemoves(p)

PurgeSpec == PurgeInit /\ [][PurgeNext]_purgeVars

(***************************************************************************)
(* Properties                                                              *)
(***************************************************************************)

(* The shape of the state; the home exists as long as anything is in it.   *)
PurgeTypeOK ==
  /\ entry \in [Paths -> 0..(MaxChanges + 1)]
  /\ homeExists \/ \A p \in Paths : entry[p] = 0
  /\ purge.step \in {"none", "revalidate", "remove"}
  /\ purge.step = "remove" => purge.todo # {}

removedBy(p) == RemoveArtifact /\ entry[p] # 0 /\ entry'[p] = 0

(* Nothing the operator did not see in the plan is removed: not an unknown *)
(* entry, not something of another kind under a known name, not a file     *)
(* that appeared in a directory after it was planned, and not a file that  *)
(* changed between the plan and its own revalidation.                      *)
RemovesOnlyThePlan ==
  \A p \in Paths : removedBy(p) =>
    /\ p \in Known \ oddKind
    /\ purge.draft[p] # 0
    /\ approvedPlan[p] = purge.draft[p]
    /\ p = artifactOrder(purge.todo)

(* The authoritative database is the last artifact to go: whenever a purge *)
(* stops early, whatever is left of the plan can still be read with it.    *)
DatabaseLast ==
  removedBy("project.sqlite") => purge.todo = {"project.sqlite"}

(* Once nobody else interferes, an approved plan is carried out or the     *)
(* purge stops; what it leaves was not in the plan.                        *)
CompletePurgeLeavesOnlyPreserved ==
  RemoveHome /\ changed = 0 => \A p \in Paths : entry[p] # 0 => p \in purge.preserved

=============================================================================
