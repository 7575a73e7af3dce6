------------------------- MODULE DistributionUpdate -------------------------
(***************************************************************************)
(* `ai-office update`: a source-linked installation is moved to the        *)
(* upstream's revision in two invocations.  The first proves a plan and    *)
(* prints its hash; the second proves it again, compares the hash, and     *)
(* fetches, fast-forwards, installs dependencies and registers the link.   *)
(*                                                                         *)
(* Between any two git commands the upstream may move, the user may        *)
(* commit, edit tracked files or switch branch, a Runtime host may start,  *)
(* and the CLI may die.  A command that reports failure may have taken     *)
(* effect.  The user does not rewind the branch while an update runs.      *)
(***************************************************************************)
EXTENDS Naturals, FiniteSets

CONSTANTS Revisions,       \* commits
          Ancestors,       \* [Revisions -> SUBSET Revisions], proper ancestors
          FirstRevision,   \* what is installed at the start
          UpstreamTips,    \* what the upstream branch may point at
          LocalCommit,     \* a commit the user may make on top of FirstRevision
          NoRevision,
          MaxUpdates       \* invocations of the command

ASSUME UpdateBounds ==
  /\ Ancestors \in [Revisions -> SUBSET Revisions]
  /\ \A r \in Revisions : r \notin Ancestors[r]
  /\ \A r \in Revisions : \A s \in Ancestors[r] : Ancestors[s] \subseteq Ancestors[r]
  /\ FirstRevision \in UpstreamTips
  /\ UpstreamTips \subseteq Revisions
  /\ LocalCommit \in Revisions \ UpstreamTips
  /\ FirstRevision \in Ancestors[LocalCommit]
  /\ NoRevision \notin Revisions
  /\ MaxUpdates \in Nat

VARIABLES upstream,      \* the advertised revision of the upstream branch
          head,          \* the checked-out revision
          dirty,         \* tracked files differ from head
          selection,     \* branch, remote and upstream configuration
          objects,       \* commits in the local object database
          planningRef,   \* this invocation's temporary planning ref exists
          dependencies,  \* the revision whose dependencies are installed
          hostUp,        \* a Runtime host answers
          upd,           \* the running invocation
          approval,      \* the plan whose hash the user holds
          result, updates

updateVars == <<upstream, head, dirty, selection, objects, planningRef,
                dependencies, hostUp, upd, approval, result, updates>>

checkout == <<head, dirty, selection>>

NoDraft == [current |-> NoRevision, target |-> NoRevision, selection |-> 0]
NoUpdate == [op |-> "none", step |-> "none", draft |-> NoDraft, merged |-> FALSE,
             fetched |-> NoRevision, failed |-> FALSE]
NoResult == [status |-> "none", from |-> NoRevision, to |-> NoRevision,
             merged |-> FALSE]

UpdateInit ==
  /\ upstream \in UpstreamTips
  /\ head = FirstRevision
  /\ dirty = FALSE
  /\ selection = 1
  /\ objects = {FirstRevision}
  /\ planningRef = FALSE
  /\ dependencies = FirstRevision
  /\ hostUp = FALSE
  /\ upd = NoUpdate
  /\ approval = NoDraft
  /\ result = NoResult
  /\ updates = 0

stepIs(step) == upd.step = step
become(step) == upd' = [upd EXCEPT !.step = step]

finishUpdate(r) == result' = r /\ upd' = NoUpdate
refuse == finishUpdate([NoResult EXCEPT !.status = "refused"])

(***************************************************************************)
(* Planning (both invocations)                                             *)
(***************************************************************************)

(* Only a refused or missing socket proves absence; anything else fails    *)
(* closed.                                                                 *)
assertStopped == ~hostUp

BeginUpdate(op) ==
  /\ upd.op = "none" /\ updates < MaxUpdates
  /\ op = "apply" => approval # NoDraft
  /\ updates' = updates + 1
  /\ \/ /\ assertStopped
        /\ upd' = [NoUpdate EXCEPT !.op = op, !.step = "inspect"]
        /\ result' = NoResult
     \/ refuse
  /\ planningRef' = FALSE
  /\ UNCHANGED <<upstream, checkout, objects, dependencies, hostUp, approval>>

(* The package, the checkout root, tracked cleanliness, the branch with    *)
(* its remote and upstream, and HEAD.                                      *)
InspectCheckout ==
  /\ stepIs("inspect")
  /\ \/ /\ ~dirty
        /\ upd' = [upd EXCEPT !.step = "advertised",
                     !.draft = [current |-> head, target |-> NoRevision,
                                selection |-> selection]]
        /\ UNCHANGED result
     \/ refuse
  /\ UNCHANGED <<upstream, checkout, objects, planningRef, dependencies,
                 hostUp, approval, updates>>

lsRemote ==
  /\ stepIs("advertised")
  /\ \/ /\ upd' = [upd EXCEPT !.step = IF upstream \in objects THEN "recheck"
                                       ELSE "acquire",
                              !.draft.target = upstream]
        /\ UNCHANGED result
     \/ refuse
  /\ UNCHANGED <<upstream, checkout, objects, planningRef, dependencies,
                 hostUp, approval, updates>>

(* The advertised commit is fetched under a temporary ref, compared with   *)
(* what was advertised, and the ref is removed whatever happened.          *)
acquireTargetObject ==
  /\ stepIs("acquire")
  /\ \/ /\ objects' = objects \cup {upstream}
        /\ planningRef' = TRUE
        /\ \E verified \in BOOLEAN :
             upd' = [upd EXCEPT !.step = "cleanup",
                       !.failed = ~verified \/ upstream # upd.draft.target]
     \/ /\ UNCHANGED <<objects, planningRef>>
        /\ upd' = [upd EXCEPT !.step = "cleanup", !.failed = TRUE]
  /\ UNCHANGED <<upstream, checkout, dependencies, hostUp, approval, result, updates>>

(* A ref that cannot be removed is named in the error.                     *)
removePlanningRef ==
  /\ stepIs("cleanup")
  /\ \/ /\ planningRef' = FALSE
        /\ IF upd.failed THEN refuse ELSE become("recheck") /\ UNCHANGED result
     \/ /\ UNCHANGED planningRef
        /\ finishUpdate([NoResult EXCEPT !.status = "ref left"])
  /\ UNCHANGED <<upstream, checkout, objects, dependencies, hostUp, approval, updates>>

(* HEAD, selection and cleanliness again, now that time has passed.        *)
requireSelection == selection = upd.draft.selection
requireCleanTrackedWorktree == ~dirty
requireFastForward(current, target) ==
  current = target \/ current \in Ancestors[target]

RecheckPlan ==
  /\ stepIs("recheck")
  /\ \/ /\ head = upd.draft.current
        /\ requireSelection
        /\ requireCleanTrackedWorktree
        /\ requireFastForward(upd.draft.current, upd.draft.target)
        /\ become("planned")
        /\ UNCHANGED result
     \/ refuse
  /\ UNCHANGED <<upstream, checkout, objects, planningRef, dependencies,
                 hostUp, approval, updates>>

ReturnPlan ==
  /\ stepIs("planned") /\ upd.op = "plan"
  /\ approval' = upd.draft
  /\ finishUpdate([NoResult EXCEPT !.status = "plan"])
  /\ UNCHANGED <<upstream, checkout, objects, planningRef, dependencies,
                 hostUp, updates>>

(***************************************************************************)
(* Applying an approved plan                                               *)
(***************************************************************************)

approved == upd.draft = approval

CheckApproval ==
  /\ stepIs("planned") /\ upd.op = "apply"
  /\ \/ /\ ~approved
        /\ refuse
     \/ /\ approved
        /\ upd.draft.current = upd.draft.target
        /\ finishUpdate([status |-> "already_current", from |-> upd.draft.current,
                         to |-> upd.draft.current, merged |-> FALSE])
     \/ /\ approved
        /\ upd.draft.current # upd.draft.target
        /\ \/ assertStopped /\ become("fetch") /\ UNCHANGED result
           \/ refuse
  /\ UNCHANGED <<upstream, checkout, objects, planningRef, dependencies,
                 hostUp, approval, updates>>

(* HEAD as it can be read after a step; unreadable is null.                *)
observedHead == {head, NoRevision}

(* A failed step is "failed" only when HEAD is seen where it was and the   *)
(* fast-forward was not completed; anything else is "partial".             *)
failureStatus_ByStep(to, forwarded) == IF forwarded THEN "partial" ELSE "failed"
failureStatus(to, forwarded) ==
  IF to = upd.draft.current /\ ~forwarded THEN "failed" ELSE "partial"

failure(forwarded) ==
  \E to \in observedHead :
    finishUpdate([status |-> failureStatus(to, forwarded),
                  from |-> upd.draft.current, to |-> to, merged |-> upd.merged])

(* The tracking ref and FETCH_HEAD move; the program files do not.         *)
Fetch ==
  /\ stepIs("fetch")
  /\ \/ /\ objects' = objects \cup {upstream}
        /\ upd' = [upd EXCEPT !.step = "verify", !.fetched = upstream]
        /\ UNCHANGED result
     \/ /\ UNCHANGED objects
        /\ failure(FALSE)
  /\ UNCHANGED <<upstream, checkout, planningRef, dependencies, hostUp,
                 approval, updates>>

VerifyFetched ==
  /\ stepIs("verify")
  /\ \/ upd.fetched = upd.draft.target /\ become("revalidate") /\ UNCHANGED result
     \/ failure(FALSE)
  /\ UNCHANGED <<upstream, checkout, objects, planningRef, dependencies,
                 hostUp, approval, updates>>

RevalidateCheckout ==
  /\ stepIs("revalidate")
  /\ \/ /\ requireSelection
        /\ requireCleanTrackedWorktree
        /\ head = upd.draft.current
        /\ upd.draft.current \in Ancestors[upd.draft.target]
        /\ become("merge")
        /\ UNCHANGED result
     \/ failure(FALSE)
  /\ UNCHANGED <<upstream, checkout, objects, planningRef, dependencies,
                 hostUp, approval, updates>>

(* `merge --ff-only`: git itself refuses a head that is not an ancestor    *)
(* and tracked changes in the way.                                         *)
mergeMoves(target) == head \in Ancestors[target] /\ ~dirty

FastForward ==
  /\ stepIs("merge")
  /\ \/ /\ mergeMoves(upd.draft.target)
        /\ head' = upd.draft.target
        /\ upd' = [upd EXCEPT !.step = "merged", !.merged = TRUE]
     \/ /\ UNCHANGED head
        /\ upd' = [upd EXCEPT !.step = "merged"]
  /\ UNCHANGED <<upstream, dirty, selection, objects, planningRef,
                 dependencies, hostUp, approval, result, updates>>

(* The exit code and HEAD afterwards must both say so.                     *)
CheckMerged ==
  /\ stepIs("merged")
  /\ \E exitOk \in BOOLEAN, after \in observedHead :
       /\ exitOk => upd.merged
       /\ IF exitOk /\ after = upd.draft.target
          THEN become("install") /\ UNCHANGED result
          ELSE finishUpdate([status |-> failureStatus(after, FALSE),
                             from |-> upd.draft.current, to |-> after,
                             merged |-> upd.merged])
  /\ UNCHANGED <<upstream, checkout, objects, planningRef, dependencies,
                 hostUp, approval, updates>>

(* `bun install --frozen-lockfile`, for what is checked out.               *)
InstallDependencies ==
  /\ stepIs("install")
  /\ \/ /\ dependencies' = head
        /\ become("link")
        /\ UNCHANGED result
     \/ /\ dependencies' \in {dependencies, head}
        /\ finishUpdate([status |-> failureStatus(upd.draft.target, TRUE),
                         from |-> upd.draft.current, to |-> upd.draft.target,
                         merged |-> TRUE])
  /\ UNCHANGED <<upstream, checkout, objects, planningRef, hostUp, approval,
                 updates>>

RegisterLink ==
  /\ stepIs("link")
  /\ \E registered \in BOOLEAN :
       finishUpdate([status |-> IF registered THEN "updated"
                                ELSE failureStatus(upd.draft.target, TRUE),
                     from |-> upd.draft.current, to |-> upd.draft.target,
                     merged |-> TRUE])
  /\ UNCHANGED <<upstream, checkout, objects, planningRef, dependencies,
                 hostUp, approval, updates>>

(***************************************************************************)
(* What happens around it                                                  *)
(***************************************************************************)

UpstreamMoves ==
  /\ \E r \in UpstreamTips \ {upstream} : upstream' = r
  /\ UNCHANGED <<checkout, objects, planningRef, dependencies, hostUp, upd,
                 approval, result, updates>>

UserCommits ==
  /\ head = FirstRevision
  /\ head' = LocalCommit
  /\ objects' = objects \cup {LocalCommit}
  /\ UNCHANGED <<upstream, dirty, selection, planningRef, dependencies,
                 hostUp, upd, approval, result, updates>>

UserEdits ==
  /\ dirty' = ~dirty
  /\ UNCHANGED <<upstream, head, selection, objects, planningRef,
                 dependencies, hostUp, upd, approval, result, updates>>

UserSelects ==
  /\ selection' = 3 - selection
  /\ UNCHANGED <<upstream, head, dirty, objects, planningRef, dependencies,
                 hostUp, upd, approval, result, updates>>

HostToggles ==
  /\ hostUp' = ~hostUp
  /\ UNCHANGED <<upstream, checkout, objects, planningRef, dependencies, upd,
                 approval, result, updates>>

UpdateDies ==
  /\ upd.op # "none"
  /\ finishUpdate([NoResult EXCEPT !.status = "died"])
  /\ UNCHANGED <<upstream, checkout, objects, planningRef, dependencies,
                 hostUp, approval, updates>>

(* The user follows the advice of a partial result: bun install, bun link. *)
UserRepairs ==
  /\ result.status = "partial" /\ result.to = head
  /\ dependencies' = head
  /\ UNCHANGED <<upstream, checkout, objects, planningRef, hostUp, upd,
                 approval, result, updates>>

UpdateNext ==
  \/ \E op \in {"plan", "apply"} : BeginUpdate(op)
  \/ InspectCheckout \/ lsRemote \/ acquireTargetObject \/ removePlanningRef
  \/ RecheckPlan \/ ReturnPlan \/ CheckApproval \/ Fetch \/ VerifyFetched
  \/ RevalidateCheckout \/ FastForward \/ CheckMerged \/ InstallDependencies
  \/ RegisterLink
  \/ UpstreamMoves \/ UserCommits \/ UserEdits \/ UserSelects \/ HostToggles
  \/ UpdateDies \/ UserRepairs

UpdateSpec == UpdateInit /\ [][UpdateNext]_updateVars

(***************************************************************************)
(* Properties                                                              *)
(***************************************************************************)

Statuses == {"none", "refused", "ref left", "died", "plan", "already_current",
             "failed", "partial", "updated"}

(* The shape of the state; a checkout only ever holds commits it has.      *)
UpdateTypeOK ==
  /\ upstream \in UpstreamTips
  /\ head \in objects /\ objects \subseteq Revisions
  /\ dirty \in BOOLEAN /\ hostUp \in BOOLEAN /\ planningRef \in BOOLEAN
  /\ selection \in 1..2
  /\ dependencies \in objects
  /\ result.status \in Statuses
  /\ approval.target \in objects \cup {NoRevision}

(* Whatever the upstream or the user does meanwhile, the updater only ever *)
(* moves the checkout forward, to the revision the user approved: no local *)
(* commit and no tracked edit is lost.                                     *)
OnlyApprovedFastForward ==
  FastForward /\ head' # head =>
    /\ head' = approval.target
    /\ head \in Ancestors[head']
    /\ ~dirty

(* "failed" promises that no program file was updated by this invocation.  *)
FailedMeansUntouched == result.status = "failed" => ~result.merged

(* "updated" means that the approved revision was merged and that the      *)
(* dependencies installed are those of a revision at or after it.          *)
UpdatedIsComplete ==
  result' # result /\ result'.status = "updated" =>
    /\ result'.merged
    /\ dependencies = approval.target \/ approval.target \in Ancestors[dependencies]

(* A planning ref outlives its command only when the command said so or    *)
(* was killed.                                                             *)
NoPlanningRefLeft ==
  planningRef /\ upd.op = "none" => result.status \in {"ref left", "died"}

(* What an update command says is true of the checkout it leaves.          *)
UpdateSafety == UpdateTypeOK /\ FailedMeansUntouched /\ NoPlanningRefLeft

=============================================================================
