--------------------------- MODULE ProjectsProofs ---------------------------
(***************************************************************************)
(* What is proved of the projects, for every catalogue, selection,         *)
(* mutation, host, archive, checkout and bound.                            *)
(*                                                                         *)
(* Packs and definitions: both streams are revisioned (a refinement of     *)
(* RevisionedState), PacksHold, an upgrade that commits leaves a           *)
(* configuration that resolves, and what two selections share changes only *)
(* through a reviewed upgrade.  A command judges outside its transaction,  *)
(* so the invariant says what a judgement is still worth when the command  *)
(* commits: as long as the revision it read is the current one, the value  *)
(* it read is (PlansSeen, BindsSeen, BindsJudged); the packs on the host   *)
(* do not change under it (UpgradesOK); and without a timeout no other     *)
(* command commits between its two steps (OneAtATime), which is all that   *)
(* keeps a definition whose collision was judged early from colliding      *)
(* (PutsFree).                                                             *)
(*                                                                         *)
(* Portability: an archive outlives the copies it was made of, so the      *)
(* invariant says of the archives there are, wherever they are held, what  *)
(* PortabilityHolds says of copies (ArchiveOK), that a restore under way   *)
(* goes by what it has verified (JobsOK), and that nothing is told twice   *)
(* of one revision (ClaimsAgree).                                          *)
(*                                                                         *)
(* Checkouts: an install writes its rows one after the other and nothing   *)
(* is rolled back, so the invariant says what each of its steps rests on   *)
(* (WorkOK) and that rows name projects there are (RowsNameProjects).      *)
(*                                                                         *)
(* Client files: the user edits beside a command, so the invariant says    *)
(* what a plan is still worth when a file is written (OpsKeep, LookedAt),  *)
(* and of a command nobody has disturbed that every file is as it is to be *)
(* left, or in the plan, or its client still waits (SetupGoesOn,           *)
(* RemovalGoesOn).                                                         *)
(***************************************************************************)
EXTENDS MCProjects, TLAPS

-----------------------------------------------------------------------------
(* Shapes *)

OwnedEntry(d) ==
    /\ d = [kind |-> d.kind, id |-> d.id, revision |-> d.revision, enabled |-> d.enabled,
            payload |-> d.payload]
    /\ d.revision \in Nat \ {0}
    /\ d.kind \in projectOwnedKinds
    /\ d.kind = "agents" => d.payload.typed = {}

OverrideEntry(o) ==
    /\ o = [source |-> o.source, kind |-> o.kind, localId |-> o.localId,
            operation |-> o.operation, payload |-> o.payload, revision |-> o.revision]
    /\ o.source \in Identities
    /\ o.revision \in Nat
    /\ o.kind \in projectOwnedKinds

OwnedOnce(owned) == \A d, e \in owned : d.kind = e.kind /\ d.id = e.id => d = e
OverriddenOnce(overrides) ==
    \A o, p \in overrides : SamePlace(o, p) /\ o.source = p.source => o = p

\* Definitions that a commit may install.
GoodDefinitions(d) ==
    /\ d = [revision |-> d.revision, overrides |-> d.overrides, owned |-> d.owned]
    /\ \A x \in d.owned : OwnedEntry(x)
    /\ \A x \in d.overrides : OverrideEntry(x)
    /\ OwnedOnce(d.owned)
    /\ OverriddenOnce(d.overrides)

GoodBinding(b) ==
    /\ b = [revision |-> b.revision, packs |-> b.packs]
    /\ b.packs \subseteq Identities
    /\ normalizePackSelection(b.packs)

GoodSelection(desired) == desired \subseteq Identities /\ normalizePackSelection(desired)

BindJobs == [op : {"bind"}, late : BOOLEAN, desired : SUBSET Identities, expected : Nat,
             changed : BOOLEAN]
DefineJobs == [op : {"define"}, late : BOOLEAN, mutation : Mutations, expected : Nat]

GoodPlan(p) ==
    /\ p.bindingRevision \in Nat /\ p.bindingRevision < MaxRevision
    /\ p.definitionRevision \in Nat /\ p.definitionRevision < MaxRevision
    /\ GoodSelection(p.desired)

GoodJob(j) ==
    \/ j = Idle
    \/ /\ j \in BindJobs
       /\ j.expected < MaxRevision /\ GoodSelection(j.desired)
    \/ /\ j \in DefineJobs
       /\ j.expected < MaxRevision /\ parseDefinitionMutation(j.mutation)
    \/ /\ j = [op |-> "approved", plan |-> j.plan, seen |-> j.seen]
       /\ GoodPlan(j.plan)
    \/ /\ j = [op |-> "upgrade", late |-> j.late, plan |-> j.plan, seen |-> j.seen,
               result |-> j.result]
       /\ j.late \in BOOLEAN
       /\ GoodPlan(j.plan)
       /\ GoodDefinitions(j.result)

-----------------------------------------------------------------------------
(* The inductive invariant *)

Shapes ==
    /\ catalog \subseteq Manifests
    /\ GoodBinding(binding) /\ binding.revision \in 0 .. MaxRevision
    /\ GoodDefinitions(defs) /\ defs.revision \in 0 .. MaxRevision
    /\ job = [c \in Clients |-> job[c]]
    /\ \A c \in Clients : GoodJob(job[c])
    /\ lates \in 0 .. MaxLate /\ restarts \in 0 .. MaxRestarts
    /\ upgraded = [count |-> upgraded.count, asSeen |-> TRUE]

\* A selection that was judged unchanged is, while the revision is.
BindsSeen ==
    \A c \in Clients : job[c].op = "bind" =>
        /\ job[c].expected <= binding.revision
        /\ job[c].expected = binding.revision => (job[c].changed <=> binding.packs # job[c].desired)

\* What the reviewer saw is what there is, while both revisions are.
PlansSeen ==
    \A c \in Clients : job[c].op \in {"approved", "upgrade"} =>
        LET b == job[c].seen[1]
            d == job[c].seen[2]
        IN  /\ job[c].seen = <<b, d>>
            /\ job[c].plan.bindingRevision <= binding.revision
            /\ job[c].plan.bindingRevision = binding.revision => b = binding
            /\ job[c].plan.definitionRevision <= defs.revision
            /\ job[c].plan.definitionRevision = defs.revision => d = defs

UpgradesOK ==
    \A c \in Clients : job[c].op = "upgrade" =>
        resolveProjectConfiguration(catalog, job[c].plan.desired, job[c].result)

Working(c) == job[c].op \in {"bind", "define", "upgrade"}

OneAtATime ==
    lates = 0 => \A c, e \in Clients : Working(c) /\ Working(e) => c = e /\ ~job[c].late

PutsFree ==
    lates = 0 /\ restarts = 0 =>
        \A c \in Clients : job[c].op = "define" /\ job[c].mutation.action = "put_owned" =>
            ~ownedCollisionIssues(job[c].mutation)

PackInv == Shapes /\ BindsSeen /\ PlansSeen /\ UpgradesOK /\ OneAtATime /\ PutsFree /\ NoCollision

-----------------------------------------------------------------------------
(* Data *)

\* An identity is three numbers.
LEMMA IdentityParts ==
    ASSUME NEW i \in Identities
    PROVE  /\ i = [id |-> i.id, version |-> i.version, digest |-> i.digest]
           /\ i.id \in Nat /\ i.version \in Nat /\ i.digest \in Nat
  <1>1. PICK m \in Manifests : i = Identity(m)
    BY DEF Identities
  <1>2. m.id \in Nat /\ m.version \in Nat /\ m.digest \in Nat
    BY ManifestsAssumption
  <1> QED BY <1>1, <1>2 DEF Identity

\* compareExactSources orders sources totally, so among replacements that
\* could each stand alone exactly one is the first.
LEMMA SoonerTotal ==
    ASSUME NEW o, NEW p, o.source \in Identities, p.source \in Identities,
           ~Sooner(o, p), ~Sooner(p, o)
    PROVE  o.source = p.source
  <1>1. /\ o.source = [id |-> o.source.id, version |-> o.source.version, digest |-> o.source.digest]
        /\ o.source.id \in Nat /\ o.source.version \in Nat /\ o.source.digest \in Nat
    BY IdentityParts
  <1>2. /\ p.source = [id |-> p.source.id, version |-> p.source.version, digest |-> p.source.digest]
        /\ p.source.id \in Nat /\ p.source.version \in Nat /\ p.source.digest \in Nat
    BY IdentityParts
  <1>3. o.source.id = p.source.id
    BY <1>1, <1>2 DEF Sooner
  <1>4. o.source.version = p.source.version
    BY <1>1, <1>2, <1>3 DEF Sooner
  <1>5. o.source.digest = p.source.digest
    BY <1>1, <1>2, <1>3, <1>4 DEF Sooner
  <1> QED BY <1>1, <1>2, <1>3, <1>4, <1>5

\* The host registers only what it was offered.
LEMMA RegisteredAreManifests ==
    ASSUME NEW offered \in Catalogs PROVE register(offered) \subseteq Manifests
  BY PackBounds DEF register

\* The form of a job, by its step.
LEMMA JobForms ==
    ASSUME NEW j, GoodJob(j)
    PROVE  /\ j.op \in {"idle", "bind", "define", "approved", "upgrade"}
           /\ j.op = "bind" => j \in BindJobs /\ j.expected < MaxRevision /\ GoodSelection(j.desired)
           /\ j.op = "define" => /\ j \in DefineJobs /\ j.expected < MaxRevision
                                 /\ parseDefinitionMutation(j.mutation)
           /\ j.op = "approved" =>
                /\ j = [op |-> "approved", plan |-> j.plan, seen |-> j.seen]
                /\ GoodPlan(j.plan)
           /\ j.op = "upgrade" =>
                /\ j = [op |-> "upgrade", late |-> j.late, plan |-> j.plan, seen |-> j.seen,
                        result |-> j.result]
                /\ j.late \in BOOLEAN
                /\ GoodPlan(j.plan)
                /\ GoodDefinitions(j.result)
  <1>1. CASE j = Idle
    BY <1>1 DEF Idle
  <1>2. CASE j \in BindJobs /\ j.expected < MaxRevision /\ GoodSelection(j.desired)
    BY <1>2 DEF BindJobs
  <1>3. CASE j \in DefineJobs /\ j.expected < MaxRevision /\ parseDefinitionMutation(j.mutation)
    BY <1>3 DEF DefineJobs
  <1>4. CASE /\ j = [op |-> "approved", plan |-> j.plan, seen |-> j.seen]
             /\ GoodPlan(j.plan)
    <2>1. j.op = "approved"
      BY <1>4
    <2> QED BY <1>4, <2>1
  <1>5. CASE /\ j = [op |-> "upgrade", late |-> j.late, plan |-> j.plan, seen |-> j.seen,
                     result |-> j.result]
             /\ j.late \in BOOLEAN
             /\ GoodPlan(j.plan)
             /\ GoodDefinitions(j.result)
    <2>1. j.op = "upgrade"
      BY <1>5
    <2> QED BY <1>5, <2>1
  <1> QED BY <1>1, <1>2, <1>3, <1>4, <1>5 DEF GoodJob

-----------------------------------------------------------------------------
(* What a mutation and a reconciliation make of the definitions *)

LEMMA RevisionsAreNumbers ==
    ASSUME GoodDefinitions(defs), NEW mu
    PROVE  RevisionOf(Affected(mu)) \in Nat
  <1>1. CASE Affected(mu) = {}
    BY <1>1 DEF RevisionOf
  <1>2. CASE Affected(mu) # {}
    <2>1. PICK x \in Affected(mu) : x = CHOOSE y \in Affected(mu) : TRUE
      BY <1>2
    <2>2. x \in defs.owned \/ x \in defs.overrides
      BY <2>1 DEF Affected, OwnedAt, OverrideAt
    <2>3. x.revision \in Nat
      BY <2>2 DEF GoodDefinitions, OwnedEntry, OverrideEntry
    <2> QED BY <1>2, <2>1, <2>3 DEF RevisionOf
  <1> QED BY <1>1, <1>2

\* A mutation that parses, and whose source is selected, leaves good definitions.
LEMMA MutatedGood ==
    ASSUME GoodDefinitions(defs), GoodBinding(binding), NEW mu,
           parseDefinitionMutation(mu), previewParsed(mu, FALSE)
    PROVE  GoodDefinitions(Mutated(mu))
  <1> DEFINE next == RevisionOf(Affected(mu)) + 1
  <1>0. next \in Nat \ {0}
    BY RevisionsAreNumbers
  <1> HIDE DEF next
  <1>1. CASE mu.action = "put_owned"
    <2> DEFINE new == [kind |-> mu.kind, id |-> mu.id, revision |-> next, enabled |-> mu.enabled,
                       payload |-> mu.payload]
    <2>1. Mutated(mu) = [defs EXCEPT !.owned = (@ \ Affected(mu)) \cup {new}]
      BY <1>1 DEF Mutated, next
    <2>2. OwnedEntry(new)
      <3>1. mu.kind \in projectOwnedKinds
        BY <1>1 DEF parseDefinitionMutation
      <3>2. mu.kind = "agents" => mu.payload.typed = {}
        BY <1>1 DEF parseDefinitionMutation, parseAgentPayload
      <3> QED BY <3>1, <3>2, <1>0 DEF OwnedEntry
    <2>3. Affected(mu) = OwnedAt(mu.kind, mu.id)
      BY <1>1 DEF Affected
    <2>4. OwnedOnce((defs.owned \ Affected(mu)) \cup {new})
      BY <2>3 DEF GoodDefinitions, OwnedOnce, OwnedAt
    <2> HIDE DEF new
    <2>5. Mutated(mu) = [revision |-> defs.revision, overrides |-> defs.overrides,
                         owned |-> (defs.owned \ Affected(mu)) \cup {new}]
      BY <2>1 DEF GoodDefinitions
    <2> QED BY <2>2, <2>4, <2>5 DEF GoodDefinitions
  <1>2. CASE mu.action = "remove_owned"
    <2>1. Mutated(mu) = [revision |-> defs.revision, overrides |-> defs.overrides,
                         owned |-> defs.owned \ Affected(mu)]
      BY <1>2 DEF Mutated, GoodDefinitions
    <2> QED BY <2>1 DEF GoodDefinitions, OwnedOnce
  <1>3. CASE mu.action = "put_override"
    <2> DEFINE new == [source |-> mu.source, kind |-> mu.kind, localId |-> mu.localId,
                       operation |-> mu.operation, payload |-> mu.payload, revision |-> next]
    <2>1. Mutated(mu) = [defs EXCEPT !.overrides = (@ \ Affected(mu)) \cup {new}]
      BY <1>3 DEF Mutated, next
    <2>2. OverrideEntry(new)
      <3>1. mu.kind \in projectOwnedKinds
        BY <1>3 DEF parseDefinitionMutation, projectOwnedKinds, overridableKinds
      <3>2. mu.source \in Identities
        BY <1>3 DEF previewParsed, sourceBindingIssues, GoodBinding
      <3> QED BY <3>1, <3>2, <1>0 DEF OverrideEntry
    <2>3. Affected(mu) = OverrideAt(mu)
      BY <1>3 DEF Affected
    <2>4. OverriddenOnce((defs.overrides \ Affected(mu)) \cup {new})
      BY <2>3 DEF GoodDefinitions, OverriddenOnce, OverrideAt, SamePlace
    <2> HIDE DEF new
    <2>5. Mutated(mu) = [revision |-> defs.revision, owned |-> defs.owned,
                         overrides |-> (defs.overrides \ Affected(mu)) \cup {new}]
      BY <2>1 DEF GoodDefinitions
    <2> QED BY <2>2, <2>4, <2>5 DEF GoodDefinitions
  <1>4. CASE mu.action \notin {"put_owned", "remove_owned", "put_override"}
    <2>1. Mutated(mu) = [revision |-> defs.revision, owned |-> defs.owned,
                         overrides |-> defs.overrides \ Affected(mu)]
      BY <1>4 DEF Mutated, GoodDefinitions
    <2> QED BY <2>1 DEF GoodDefinitions, OverriddenOnce
  <1> QED BY <1>1, <1>2, <1>3, <1>4

\* An override that is kept is as it was, or moved to a selected source of its
\* pack where no other override is, or comes.
Moves(desired, o) ==
    /\ ~Stays(desired, o)
    /\ ByPack(desired, o.source.id) # {}
    /\ ~TargetTaken(desired, o)
Target(desired, o) == CHOOSE i \in ByPack(desired, o.source.id) : TRUE

LEMMA KeptOrMoved ==
    ASSUME NEW desired, NEW res, GoodDefinitions(defs), GoodSelection(desired),
           NEW o \in defs.overrides \ Dropped(desired, res),
           OutcomeOf(desired, res, o) \notin {"conflict", "invalid"}
    PROVE  \/ /\ Stays(desired, o)
              /\ Reconciled(desired, res, o) = o
           \/ /\ Moves(desired, o)
              /\ OverrideEntry(Reconciled(desired, res, o))
              /\ SamePlace(Reconciled(desired, res, o), o)
              /\ Reconciled(desired, res, o).source = Target(desired, o)
              /\ Target(desired, o) \in ByPack(desired, o.source.id)
  <1> DEFINE out == OutcomeOf(desired, res, o)
             at == Target(desired, o)
  <1>1. out \notin {"removed", "retained_as_project_owned", "conflict", "invalid"}
    BY DEF Dropped, Retained
  <1>2. CASE Stays(desired, o)
    <2>1. out = "unchanged"
      BY <1>2 DEF OutcomeOf
    <2>2. Reconciled(desired, res, o) = o
      BY <2>1 DEF Reconciled
    <2> QED BY <1>2, <2>2
  <1>3. CASE ~Stays(desired, o)
    <2>1. out \in {"retargeted", "converted_to_replace"}
      BY <1>1, <1>3 DEF OutcomeOf
    <2>2. ConflictOf(desired, o) \in {"", "extend_conflict"}
      BY <1>1, <1>3 DEF OutcomeOf
    <2>3. Moves(desired, o)
      BY <1>3, <2>2 DEF Moves, ConflictOf
    <2>4. at \in ByPack(desired, o.source.id)
      BY <2>3 DEF Moves, Target
    <2>5. at \in Identities /\ at.id = o.source.id
      BY <2>4 DEF ByPack, GoodSelection
    <2>6. OverrideEntry(o)
      BY DEF GoodDefinitions
    <2> HIDE DEF out, at
    <2>7. CASE out = "retargeted"
      <3>1. Reconciled(desired, res, o) = [o EXCEPT !.source = at]
        BY <2>7 DEF Reconciled, out, at, Target
      <3>2. Reconciled(desired, res, o) =
              [source |-> at, kind |-> o.kind, localId |-> o.localId,
               operation |-> o.operation, payload |-> o.payload, revision |-> o.revision]
        BY <2>6, <3>1 DEF OverrideEntry
      <3>3. OverrideEntry(Reconciled(desired, res, o)) /\ SamePlace(Reconciled(desired, res, o), o)
        BY <2>5, <2>6, <3>2 DEF OverrideEntry, SamePlace
      <3> QED BY <2>3, <2>4, <3>2, <3>3 DEF at
    <2>8. CASE out = "converted_to_replace"
      <3>1. Reconciled(desired, res, o) =
              [o EXCEPT !.source = at, !.operation = "replace", !.revision = @ + 1,
                        !.payload = Converted(desired, o)]
        BY <2>8 DEF Reconciled, out, at, Target
      <3>2. Reconciled(desired, res, o) =
              [source |-> at, kind |-> o.kind, localId |-> o.localId, operation |-> "replace",
               payload |-> Converted(desired, o), revision |-> o.revision + 1]
        BY <2>6, <3>1 DEF OverrideEntry
      <3>3. OverrideEntry(Reconciled(desired, res, o)) /\ SamePlace(Reconciled(desired, res, o), o)
        BY <2>5, <2>6, <3>2 DEF OverrideEntry, SamePlace
      <3> QED BY <2>3, <2>4, <3>2, <3>3 DEF at
    <2> QED BY <2>1, <2>7, <2>8 DEF out
  <1> QED BY <1>2, <1>3

\* Overrides that follow their packs never meet, and what is retained is
\* retained once: the definitions a plan without conflicts leads to are good.
LEMMA ReconciledGood ==
    ASSUME NEW desired, NEW res, GoodDefinitions(defs), GoodSelection(desired),
           \A o \in defs.overrides : OutcomeOf(desired, res, o) \notin {"conflict", "invalid"}
    PROVE  GoodDefinitions(reconciledDefinitions(desired, res))
  <1> DEFINE Kept == defs.overrides \ Dropped(desired, res)
             r(o) == Reconciled(desired, res, o)
             overrides == {r(o) : o \in Kept}
             owned == defs.owned \cup {RetainedAs(o) : o \in Retained(desired, res)}
  <1>1. \A o \in Kept :
           \/ Stays(desired, o) /\ r(o) = o
           \/ /\ Moves(desired, o) /\ OverrideEntry(r(o)) /\ SamePlace(r(o), o)
              /\ r(o).source = Target(desired, o) /\ Target(desired, o) \in ByPack(desired, o.source.id)
    BY KeptOrMoved
  <1>2. \A o \in defs.overrides : OverrideEntry(o)
    BY DEF GoodDefinitions
  <1>3. \A x \in overrides : OverrideEntry(x)
    BY <1>1, <1>2
  <1>4. ASSUME NEW o \in Kept, NEW p \in Kept, SamePlace(r(o), r(p)), r(o).source = r(p).source
        PROVE  o = p
    <2>1. SamePlace(o, p)
      BY <1>1, <1>4 DEF SamePlace
    <2>2. CASE Stays(desired, o) /\ r(o) = o /\ Stays(desired, p) /\ r(p) = p
      BY <1>4, <2>2 DEF GoodDefinitions, OverriddenOnce
    <2>3. CASE Moves(desired, o)
      <3>1. ~Stays(desired, p)
        BY <2>1, <2>3 DEF Moves, TargetTaken, SamePlace
      <3>2. p \in Claimants(desired, o)
        BY <2>1, <3>1 DEF Claimants, SamePlace
      <3> QED BY <2>3, <3>2 DEF Moves, TargetTaken
    <2>4. CASE Moves(desired, p)
      <3>1. ~Stays(desired, o)
        BY <2>1, <2>4 DEF Moves, TargetTaken, SamePlace
      <3>2. o \in Claimants(desired, p)
        BY <2>1, <3>1 DEF Claimants, SamePlace
      <3> QED BY <2>4, <3>2 DEF Moves, TargetTaken
    <2> QED BY <1>1, <2>2, <2>3, <2>4
  <1>5. OverriddenOnce(overrides)
    BY <1>4 DEF OverriddenOnce
  <1>6. \A o \in Retained(desired, res) :
           o \in defs.overrides /\ ~Stays(desired, o) /\ Retainable(desired, o)
    BY DEF Retained, OutcomeOf
  <1>7. \A o \in Retained(desired, res) : OwnedEntry(RetainedAs(o))
    BY <1>2, <1>6 DEF RetainedAs, OwnedEntry, OverrideEntry, Retainable, StandsAlone
  <1>8. \A o \in Retained(desired, res) : \A d \in defs.owned :
           ~(d.kind = RetainedAs(o).kind /\ d.id = RetainedAs(o).id)
    BY <1>6 DEF RetainedAs, Retainable, StandsAlone, OwnedAt
  <1>9. ASSUME NEW o \in Retained(desired, res), NEW p \in Retained(desired, res),
               o.kind = p.kind, o.localId = p.localId
        PROVE  o = p
    <2>1. o \in defs.overrides /\ p \in defs.overrides
      BY <1>6
    <2>2. ~Sooner(o, p) /\ ~Sooner(p, o)
      BY <1>6, <1>9, <2>1 DEF Retainable
    <2>3. o.source = p.source
      BY <1>2, <2>1, <2>2, SoonerTotal DEF OverrideEntry
    <2> QED BY <1>9, <2>1, <2>3 DEF GoodDefinitions, OverriddenOnce, SamePlace
  <1>10. \A o, p \in Retained(desired, res) :
            RetainedAs(o).kind = RetainedAs(p).kind /\ RetainedAs(o).id = RetainedAs(p).id => o = p
    BY <1>9 DEF RetainedAs
  <1>11. OwnedOnce(owned)
    <2> SUFFICES ASSUME NEW d \in owned, NEW e \in owned, d.kind = e.kind, d.id = e.id
                 PROVE  d = e
      BY DEF OwnedOnce
    <2>1. CASE d \in defs.owned /\ e \in defs.owned
      BY <2>1 DEF GoodDefinitions, OwnedOnce
    <2>2. CASE d \notin defs.owned
      <3>1. PICK o \in Retained(desired, res) : d = RetainedAs(o)
        BY <2>2
      <3>2. e \notin defs.owned
        BY <1>8, <3>1
      <3>3. PICK p \in Retained(desired, res) : e = RetainedAs(p)
        BY <3>2
      <3> QED BY <1>10, <3>1, <3>3
    <2>3. CASE e \notin defs.owned
      <3>1. PICK p \in Retained(desired, res) : e = RetainedAs(p)
        BY <2>3
      <3>2. d \notin defs.owned
        BY <1>8, <3>1
      <3>3. PICK o \in Retained(desired, res) : d = RetainedAs(o)
        BY <3>2
      <3> QED BY <1>10, <3>1, <3>3
    <2> QED BY <2>1, <2>2, <2>3
  <1>12. \A x \in owned : OwnedEntry(x)
    BY <1>7 DEF GoodDefinitions
  <1> HIDE DEF overrides, owned
  <1>13. reconciledDefinitions(desired, res) =
            [revision |-> defs.revision, overrides |-> overrides, owned |-> owned]
    BY DEF reconciledDefinitions, overrides, owned
  <1> QED BY <1>3, <1>5, <1>11, <1>12, <1>13 DEF GoodDefinitions

\* What an acceptable plan says, and that its definitions are good.
LEMMA PlanGood ==
    ASSUME NEW desired, NEW res, GoodDefinitions(defs), GoodSelection(desired),
           NEW plan, plan = reconcileProjectPackUpgrade(desired, res), plan.ok, ~plan.noop
    PROVE  /\ plan.bindingRevision = binding.revision /\ plan.definitionRevision = defs.revision
           /\ plan.desired = desired /\ plan.resolution = res
           /\ resolveProjectConfiguration(catalog, desired, reconciledDefinitions(desired, res))
           /\ GoodDefinitions(reconciledDefinitions(desired, res))
  <1> DEFINE noop == binding.packs = desired /\ \A o \in defs.overrides : Stays(desired, o)
             resolved == resolveInstalledPacks(catalog, desired)
             outcomes == IF noop \/ ~resolved THEN {}
                         ELSE {[override |-> o, outcome |-> OutcomeOf(desired, res, o)]
                                 : o \in defs.overrides}
             ok == /\ resolved
                   /\ \A x \in outcomes : x.outcome \notin {"conflict", "invalid"}
                   /\ resolveProjectConfiguration(catalog, desired, reconciledDefinitions(desired, res))
             target == IF ok THEN {Identity(m) : m \in resolveInstalledPackManifests(catalog, desired)}
                       ELSE {}
  <1>1. plan = [noop |-> noop, ok |-> noop \/ ok, outcomes |-> outcomes,
                bindingRevision |-> binding.revision, definitionRevision |-> defs.revision,
                desired |-> desired, resolution |-> res, target |-> target]
    BY DEF reconcileProjectPackUpgrade
  <1> DEFINE either == noop \/ ok
  <1> HIDE DEF noop, ok, outcomes, target
  <1>2. plan = [noop |-> noop, ok |-> either, outcomes |-> outcomes,
                bindingRevision |-> binding.revision, definitionRevision |-> defs.revision,
                desired |-> desired, resolution |-> res, target |-> target]
    BY <1>1
  <1> HIDE DEF either
  <1>3. /\ plan.bindingRevision = binding.revision /\ plan.definitionRevision = defs.revision
        /\ plan.desired = desired /\ plan.resolution = res
        /\ plan.noop = noop /\ plan.ok = either
    BY <1>2
  <1>4. ~noop /\ either
    BY <1>3, Zenon
  <1>5. ~noop /\ ok
    BY <1>4 DEF either
  <1>6. /\ resolveProjectConfiguration(catalog, desired, reconciledDefinitions(desired, res))
        /\ \A x \in outcomes : x.outcome \notin {"conflict", "invalid"}
        /\ resolved
    BY <1>5 DEF ok
  <1>7. outcomes = {[override |-> o, outcome |-> OutcomeOf(desired, res, o)] : o \in defs.overrides}
    BY <1>5, <1>6 DEF outcomes
  <1>8. \A o \in defs.overrides : OutcomeOf(desired, res, o) \notin {"conflict", "invalid"}
    <2> TAKE o \in defs.overrides
    <2>1. [override |-> o, outcome |-> OutcomeOf(desired, res, o)] \in outcomes
      BY <1>7
    <2> QED BY <1>6, <2>1
  <1> QED BY <1>3, <1>6, <1>8, ReconciledGood

\* A configuration resolves by its entries, whatever its revision.
LEMMA ResolvesByEntries ==
    ASSUME NEW packs, NEW d, NEW e, d.owned = e.owned, d.overrides = e.overrides,
           resolveProjectConfiguration(catalog, packs, d)
    PROVE  resolveProjectConfiguration(catalog, packs, e)
  BY DEF resolveProjectConfiguration, OverridesApply, Effective

-----------------------------------------------------------------------------
(* Steps: a command judges (its job changes), or commits (its job ends) *)

PlanSeen(j) ==
    LET b == j.seen[1]
        d == j.seen[2]
    IN  /\ j.seen = <<b, d>>
        /\ j.plan.bindingRevision <= binding.revision
        /\ j.plan.bindingRevision = binding.revision => b = binding
        /\ j.plan.definitionRevision <= defs.revision
        /\ j.plan.definitionRevision = defs.revision => d = defs

BindSeen(j) ==
    /\ j.expected <= binding.revision
    /\ j.expected = binding.revision => (j.changed <=> binding.packs # j.desired)

LEMMA JudgementPreserves ==
    ASSUME PackInv, NEW c \in Clients, NEW j, GoodJob(j),
           job' = [job EXCEPT ![c] = j],
           UNCHANGED <<catalog, binding, defs, lates, restarts, upgraded>>,
           j.op \in {"bind", "define", "upgrade"} => QueueFree /\ ~j.late,
           j.op = "bind" => BindSeen(j),
           j.op \in {"approved", "upgrade"} => PlanSeen(j),
           j.op = "upgrade" => resolveProjectConfiguration(catalog, j.plan.desired, j.result),
           j.op = "define" /\ j.mutation.action = "put_owned" => ~ownedCollisionIssues(j.mutation)
    PROVE  PackInv'
  <1>1. \A e \in Clients : job'[e] = IF e = c THEN j ELSE job[e]
    BY DEF PackInv, Shapes
  <1>2. job' = [e \in Clients |-> job'[e]]
    BY DEF PackInv, Shapes
  <1>3. Shapes'
    BY <1>1, <1>2 DEF PackInv, Shapes
  <1>4. BindsSeen'
    BY <1>1 DEF PackInv, BindsSeen, BindSeen
  <1>5. PlansSeen'
    BY <1>1 DEF PackInv, PlansSeen, PlanSeen
  <1>6. UpgradesOK'
    BY <1>1 DEF PackInv, UpgradesOK
  <1>7. OneAtATime'
    BY <1>1 DEF PackInv, OneAtATime, Working, QueueFree, InFlight
  <1>8. PutsFree'
    BY <1>1 DEF PackInv, PutsFree, ownedCollisionIssues
  <1>9. NoCollision'
    BY DEF PackInv, NoCollision, Resolves, Closure
  <1> QED BY <1>3, <1>4, <1>5, <1>6, <1>7, <1>8, <1>9 DEF PackInv

LEMMA StopIsJudgement ==
    ASSUME PackInv, NEW c \in Clients, Stop(c),
           UNCHANGED <<catalog, binding, defs, lates, restarts, upgraded>>
    PROVE  PackInv'
  <1>1. GoodJob(Idle) /\ Idle.op = "idle"
    BY DEF GoodJob, Idle
  <1> QED BY <1>1, JudgementPreserves DEF Stop

LEMMA CommitPreserves ==
    ASSUME PackInv, NEW c \in Clients, Working(c), Stop(c),
           UNCHANGED <<catalog, lates, restarts>>,
           \/ binding' = binding
           \/ /\ GoodBinding(binding') /\ binding.revision < MaxRevision
              /\ binding'.revision = binding.revision + 1,
           \/ defs' = defs
           \/ /\ GoodDefinitions(defs') /\ defs.revision < MaxRevision
              /\ defs'.revision = defs.revision + 1,
           upgraded' = [count |-> upgraded'.count, asSeen |-> TRUE],
           NoCollision'
    PROVE  PackInv'
  <1>1. \A e \in Clients : job'[e] = IF e = c THEN Idle ELSE job[e]
    BY DEF PackInv, Shapes, Stop
  <1>2. Idle.op = "idle" /\ GoodJob(Idle)
    BY DEF Idle, GoodJob
  <1>3. job' = [e \in Clients |-> job'[e]]
    BY DEF PackInv, Shapes, Stop
  <1>4. MaxRevision \in Nat /\ binding.revision \in Nat /\ defs.revision \in Nat
    BY PackBounds DEF PackInv, Shapes
  <1>5. GoodBinding(binding') /\ binding'.revision \in 0 .. MaxRevision
    BY <1>4 DEF PackInv, Shapes
  <1>6. GoodDefinitions(defs') /\ defs'.revision \in 0 .. MaxRevision
    BY <1>4 DEF PackInv, Shapes
  <1>7. Shapes'
    <2>1. \A e \in Clients : GoodJob(job'[e])
      BY <1>1, <1>2 DEF PackInv, Shapes
    <2> QED BY <1>3, <1>5, <1>6, <2>1 DEF PackInv, Shapes
  <1>8. \A e \in Clients : job[e].op = "bind" => job[e].expected \in Nat
    BY JobForms DEF PackInv, Shapes, BindJobs
  <1>9. BindsSeen'
    BY <1>1, <1>2, <1>4, <1>8 DEF PackInv, BindsSeen
  <1>10. PlansSeen'
    <2> SUFFICES ASSUME NEW e \in Clients, job'[e].op \in {"approved", "upgrade"}
                 PROVE  PlanSeen(job[e])'
      BY DEF PlansSeen, PlanSeen
    <2>1. e # c /\ job'[e] = job[e]
      BY <1>1, <1>2
    <2>2. PlanSeen(job[e]) /\ GoodPlan(job[e].plan)
      BY <2>1, JobForms DEF PackInv, Shapes, PlansSeen, PlanSeen
    <2> QED BY <1>4, <2>1, <2>2 DEF PlanSeen, GoodPlan
  <1>11. UpgradesOK'
    BY <1>1, <1>2 DEF PackInv, UpgradesOK
  <1>12. OneAtATime'
    BY <1>1, <1>2 DEF PackInv, OneAtATime, Working
  <1>13. PutsFree'
    BY <1>1, <1>2 DEF PackInv, PutsFree, OneAtATime, Working
  <1> QED BY <1>7, <1>9, <1>10, <1>11, <1>12, <1>13 DEF PackInv

-----------------------------------------------------------------------------
(* The steps, one by one *)

\* A stream that is written is raised by one.
Revisioned ==
    /\ binding' = binding \/ binding'.revision = binding.revision + 1
    /\ defs' = defs \/ defs'.revision = defs.revision + 1

LEMMA InitPreserves == PackInit => PackInv
  <1> SUFFICES ASSUME PackInit PROVE PackInv
    OBVIOUS
  <1>1. Idle.op = "idle" /\ GoodJob(Idle)
    BY DEF Idle, GoodJob
  <1>2. \A c \in Clients : job[c] = Idle
    BY DEF PackInit
  <1>3. Shapes
    <2>1. catalog \subseteq Manifests
      BY RegisteredAreManifests DEF PackInit
    <2>2. GoodBinding(binding) /\ binding.revision \in 0 .. MaxRevision
      BY PackBounds DEF PackInit, GoodBinding, normalizePackSelection
    <2>3. GoodDefinitions(defs) /\ defs.revision \in 0 .. MaxRevision
      BY PackBounds DEF PackInit, GoodDefinitions, OwnedOnce, OverriddenOnce
    <2>4. lates \in 0 .. MaxLate /\ restarts \in 0 .. MaxRestarts
      BY PackBounds DEF PackInit
    <2> QED BY <1>1, <1>2, <2>1, <2>2, <2>3, <2>4 DEF Shapes, PackInit
  <1>4. BindsSeen /\ PlansSeen /\ UpgradesOK /\ OneAtATime /\ PutsFree
    BY <1>1, <1>2 DEF BindsSeen, PlansSeen, UpgradesOK, OneAtATime, PutsFree, Working
  <1>5. NoCollision
    BY DEF PackInit, NoCollision, packDefinitionCollisions
  <1> QED BY <1>3, <1>4, <1>5 DEF PackInv

LEMMA RestartPreserves == ASSUME PackInv, PackRestart PROVE PackInv'
  <1>1. \A c \in Clients : job'[c] = IF job[c].op = "approved" THEN job[c] ELSE Idle
    BY DEF PackRestart
  <1>2. Idle.op = "idle" /\ GoodJob(Idle)
    BY DEF Idle, GoodJob
  <1>3. restarts' \in 0 .. MaxRestarts /\ restarts' # 0
    BY PackBounds DEF PackRestart, PackInv, Shapes
  <1>4. catalog' \subseteq Manifests
    BY RegisteredAreManifests DEF PackRestart
  <1>5. Shapes'
    <2>1. job' = [c \in Clients |-> job'[c]]
      BY DEF PackRestart
    <2>2. \A c \in Clients : GoodJob(job'[c])
      BY <1>1, <1>2 DEF PackInv, Shapes
    <2> QED BY <1>3, <1>4, <2>1, <2>2 DEF PackRestart, PackInv, Shapes
  <1>6. BindsSeen' /\ UpgradesOK' /\ OneAtATime'
    BY <1>1, <1>2 DEF BindsSeen, UpgradesOK, OneAtATime, Working
  <1>7. PlansSeen'
    BY <1>1, <1>2 DEF PackRestart, PackInv, PlansSeen
  <1>8. PutsFree' /\ NoCollision'
    BY <1>3 DEF PutsFree, NoCollision
  <1> QED BY <1>5, <1>6, <1>7, <1>8 DEF PackInv

LEMMA TimeoutPreserves == ASSUME PackInv, NEW c \in Clients, PackTimeout(c) PROVE PackInv'
  <1> DEFINE j == [job[c] EXCEPT !.late = TRUE]
  <1>1. job' = [job EXCEPT ![c] = j]
    BY DEF PackTimeout
  <1>2. \A e \in Clients : job'[e] = IF e = c THEN j ELSE job[e]
    BY <1>1 DEF PackInv, Shapes
  <1>3. job[c].op \in {"bind", "define", "upgrade"} /\ GoodJob(job[c])
    BY DEF PackTimeout, InFlight, PackInv, Shapes
  <1>4. /\ GoodJob(j) /\ j.op = job[c].op
        /\ job[c].op = "bind" => /\ j.expected = job[c].expected /\ j.desired = job[c].desired
                                 /\ j.changed = job[c].changed
        /\ job[c].op = "upgrade" => /\ j.plan = job[c].plan /\ j.seen = job[c].seen
                                    /\ j.result = job[c].result
    <2>1. CASE job[c].op = "bind"
      <3>1. job[c] \in BindJobs /\ job[c].expected < MaxRevision /\ GoodSelection(job[c].desired)
        BY <1>3, <2>1, JobForms
      <3>2. /\ j \in BindJobs /\ j.op = job[c].op /\ j.expected = job[c].expected
            /\ j.desired = job[c].desired /\ j.changed = job[c].changed
        BY <3>1 DEF BindJobs
      <3> QED BY <2>1, <3>1, <3>2 DEF GoodJob
    <2>2. CASE job[c].op = "define"
      <3>1. job[c] \in DefineJobs /\ job[c].expected < MaxRevision
            /\ parseDefinitionMutation(job[c].mutation)
        BY <1>3, <2>2, JobForms
      <3>2. /\ j \in DefineJobs /\ j.op = job[c].op /\ j.expected = job[c].expected
            /\ j.mutation = job[c].mutation
        BY <3>1 DEF DefineJobs
      <3> QED BY <2>2, <3>1, <3>2 DEF GoodJob
    <2>3. CASE job[c].op = "upgrade"
      <3> DEFINE p == job[c].plan
                 s == job[c].seen
                 r == job[c].result
                 l == job[c].late
      <3>1. /\ job[c] = [op |-> "upgrade", late |-> l, plan |-> p, seen |-> s, result |-> r]
            /\ GoodPlan(p) /\ GoodDefinitions(r)
        BY <1>3, <2>3, JobForms
      <3> HIDE DEF p, s, r, l
      <3> DEFINE yes == TRUE
      <3>2. j = [job[c] EXCEPT !.late = yes] /\ yes \in BOOLEAN
        OBVIOUS
      <3> HIDE DEF j, yes
      <3>3. j = [op |-> "upgrade", late |-> yes, plan |-> p, seen |-> s, result |-> r]
        BY <3>1, <3>2
      <3>4. j.op = "upgrade" /\ j.late = yes /\ j.plan = p /\ j.seen = s /\ j.result = r
        BY <3>3
      <3>5. GoodJob(j)
        BY <3>1, <3>2, <3>3, <3>4 DEF GoodJob
      <3> QED BY <2>3, <3>4, <3>5 DEF p, s, r
    <2> QED BY <1>3, <2>1, <2>2, <2>3
  <1> HIDE DEF j
  <1>5. lates' \in 0 .. MaxLate /\ lates' # 0
    BY PackBounds DEF PackTimeout, PackInv, Shapes
  <1>6. Shapes'
    <2>1. job' = [e \in Clients |-> job'[e]]
      BY <1>1 DEF PackInv, Shapes
    <2>2. \A e \in Clients : GoodJob(job'[e])
      BY <1>2, <1>4 DEF PackInv, Shapes
    <2> QED BY <1>5, <2>1, <2>2 DEF PackTimeout, PackInv, Shapes
  <1>7. BindsSeen'
    BY <1>2, <1>4 DEF PackTimeout, PackInv, BindsSeen
  <1>8. PlansSeen'
    BY <1>2, <1>3, <1>4 DEF PackTimeout, PackInv, PlansSeen
  <1>9. UpgradesOK'
    BY <1>2, <1>4 DEF PackTimeout, PackInv, UpgradesOK
  <1>10. OneAtATime' /\ PutsFree' /\ NoCollision'
    BY <1>5 DEF OneAtATime, PutsFree, NoCollision
  <1> QED BY <1>6, <1>7, <1>8, <1>9, <1>10 DEF PackInv

LEMMA BindExaminePreserves == ASSUME PackInv, NEW c \in Clients, BindExamine(c) PROVE PackInv'
  <1>1. PICK desired \in Selections :
           /\ normalizePackSelection(desired)
           /\ job' = [job EXCEPT ![c] =
                [op |-> "bind", late |-> FALSE, desired |-> desired, expected |-> binding.revision,
                 changed |-> binding.packs # desired]]
    BY DEF BindExamine
  <1> DEFINE changed == binding.packs # desired
             j == [op |-> "bind", late |-> FALSE, desired |-> desired, expected |-> binding.revision,
                   changed |-> changed]
  <1>2. GoodSelection(desired)
    BY <1>1, PackBounds DEF GoodSelection
  <1>3. binding.revision \in Nat /\ binding.revision < MaxRevision
    BY PackBounds DEF BindExamine, PackInv, Shapes
  <1>4. changed \in BOOLEAN
    OBVIOUS
  <1> HIDE DEF changed
  <1>5. j \in BindJobs /\ j.op = "bind" /\ ~j.late /\ j.expected = binding.revision /\ j.desired = desired
    BY <1>2, <1>3, <1>4 DEF BindJobs, GoodSelection
  <1>6. j.changed = changed
    OBVIOUS
  <1>7. GoodJob(j)
    BY <1>2, <1>3, <1>5 DEF GoodJob
  <1>8. job' = [job EXCEPT ![c] = j]
    BY <1>1 DEF changed
  <1> HIDE DEF j
  <1>9. BindSeen(j)
    <2>1. j.changed <=> binding.packs # j.desired
      BY <1>5, <1>6, Zenon DEF changed
    <2> QED BY <1>3, <1>5, <2>1 DEF BindSeen
  <1> QED BY <1>5, <1>7, <1>8, <1>9, JudgementPreserves DEF BindExamine

LEMMA DefinePreviewPreserves == ASSUME PackInv, NEW c \in Clients, DefinePreview(c) PROVE PackInv'
  <1>1. PICK mu \in Mutations :
           /\ parseDefinitionMutation(mu) /\ previewParsed(mu, TRUE)
           /\ job' = [job EXCEPT ![c] =
                [op |-> "define", late |-> FALSE, mutation |-> mu, expected |-> defs.revision]]
    BY DEF DefinePreview
  <1> DEFINE j == [op |-> "define", late |-> FALSE, mutation |-> mu, expected |-> defs.revision]
  <1>2. defs.revision \in Nat /\ defs.revision < MaxRevision
    BY PackBounds DEF DefinePreview, PackInv, Shapes
  <1>3. j \in DefineJobs /\ j.op = "define" /\ ~j.late /\ j.mutation = mu /\ j.expected = defs.revision
    BY <1>2 DEF DefineJobs
  <1>4. GoodJob(j)
    BY <1>1, <1>2, <1>3 DEF GoodJob
  <1>5. mu.action = "put_owned" => ~ownedCollisionIssues(mu)
    BY <1>1 DEF previewParsed
  <1> HIDE DEF j
  <1> QED BY <1>1, <1>3, <1>4, <1>5, JudgementPreserves DEF DefinePreview, j

\* The definitions that were reviewed, as they are while the revision is.
LEMMA UpgradePreviewPreserves == ASSUME PackInv, NEW c \in Clients, UpgradePreview(c) PROVE PackInv'
  <1>1. PICK desired \in Selections, res \in Resolutions :
           /\ normalizePackSelection(desired)
           /\ reconcileProjectPackUpgrade(desired, res).ok
           /\ ~reconcileProjectPackUpgrade(desired, res).noop
           /\ job' = [job EXCEPT ![c] =
                [op |-> "approved", plan |-> reconcileProjectPackUpgrade(desired, res),
                 seen |-> <<binding, defs>>]]
    BY DEF UpgradePreview
  <1> DEFINE plan == reconcileProjectPackUpgrade(desired, res)
             j == [op |-> "approved", plan |-> plan, seen |-> <<binding, defs>>]
  <1>2. GoodSelection(desired) /\ GoodDefinitions(defs)
    BY <1>1, PackBounds DEF GoodSelection, PackInv, Shapes
  <1>3. /\ plan.bindingRevision = binding.revision /\ plan.definitionRevision = defs.revision
        /\ plan.desired = desired
    BY <1>1, <1>2, PlanGood
  <1>4. /\ binding.revision \in Nat /\ binding.revision < MaxRevision
        /\ defs.revision \in Nat /\ defs.revision < MaxRevision
    BY PackBounds DEF UpgradePreview, PackInv, Shapes
  <1>5. job' = [job EXCEPT ![c] = j]
    BY <1>1
  <1> HIDE DEF plan
  <1>6. GoodPlan(plan)
    BY <1>2, <1>3, <1>4 DEF GoodPlan
  <1>7. j.op = "approved" /\ j.plan = plan /\ j.seen = <<binding, defs>>
    OBVIOUS
  <1>8. GoodJob(j)
    BY <1>6, <1>7 DEF GoodJob
  <1>9. PlanSeen(j)
    BY <1>3, <1>4, <1>7 DEF PlanSeen
  <1> HIDE DEF j
  <1> QED BY <1>5, <1>7, <1>8, <1>9, JudgementPreserves DEF UpgradePreview

\* The plan is derived again before the transaction: only the approved one
\* becomes a job that commits.
LEMMA UpgradeReconcilePreserves ==
    ASSUME PackInv, NEW c \in Clients, UpgradeReconcile(c) PROVE PackInv'
  <1> DEFINE desired == job[c].plan.desired
             res == job[c].plan.resolution
             plan == reconcileProjectPackUpgrade(desired, res)
             result == reconciledDefinitions(plan.desired, plan.resolution)
             seen == job[c].seen
             j == [op |-> "upgrade", late |-> FALSE, plan |-> plan, seen |-> seen, result |-> result]
  <1>1. CASE Stop(c)
    BY <1>1, StopIsJudgement DEF UpgradeReconcile
  <1>2. CASE ~plan.noop /\ plan.ok /\ plan = job[c].plan /\ job' = [job EXCEPT ![c] = j]
    <2>1. job[c].op = "approved" /\ QueueFree
      BY DEF UpgradeReconcile
    <2>2. GoodPlan(job[c].plan) /\ PlanSeen(job[c])
      BY <2>1, JobForms DEF PackInv, Shapes, PlansSeen, PlanSeen
    <2>3. GoodDefinitions(defs) /\ GoodSelection(desired)
      BY <2>2 DEF GoodPlan, PackInv, Shapes
    <2>4. /\ plan.desired = desired /\ plan.resolution = res
          /\ resolveProjectConfiguration(catalog, desired, reconciledDefinitions(desired, res))
          /\ GoodDefinitions(reconciledDefinitions(desired, res))
      BY <1>2, <2>3, PlanGood
    <2>5. resolveProjectConfiguration(catalog, plan.desired, result) /\ GoodDefinitions(result)
      BY <2>4
    <2>6. GoodPlan(plan)
      BY <1>2, <2>2
    <2>7. seen = job[c].seen /\ plan = job[c].plan
      BY <1>2
    <2>8. /\ j.op = "upgrade" /\ j.late = FALSE /\ j.plan = plan /\ j.seen = seen
          /\ j.result = result
      <3> HIDE DEF plan, seen, result
      <3> QED OBVIOUS
    <2>9. j = [op |-> "upgrade", late |-> j.late, plan |-> j.plan, seen |-> j.seen,
               result |-> j.result]
      BY <2>8
    <2> HIDE DEF j, plan, seen, result
    <2>10. GoodJob(j)
      BY <2>5, <2>6, <2>8, <2>9 DEF GoodJob
    <2>11. PlanSeen(j)
      BY <2>2, <2>7, <2>8 DEF PlanSeen
    <2>12. resolveProjectConfiguration(catalog, j.plan.desired, j.result)
      BY <2>5, <2>8
    <2> QED BY <1>2, <2>1, <2>8, <2>10, <2>11, <2>12, JudgementPreserves DEF UpgradeReconcile
  <1> QED BY <1>1, <1>2 DEF UpgradeReconcile

\* A selection is judged against the definitions again when it commits.
LEMMA BindCommitPreserves ==
    ASSUME PackInv, NEW c \in Clients, BindCommit(c) PROVE PackInv' /\ Revisioned
  <1>1. job[c].op = "bind" /\ Working(c)
    BY DEF BindCommit, Working
  <1>2. /\ job[c] \in BindJobs /\ job[c].expected < MaxRevision /\ GoodSelection(job[c].desired)
        /\ BindSeen(job[c])
    BY <1>1, JobForms DEF PackInv, Shapes, BindsSeen, BindSeen
  <1>3. upgraded' = [count |-> upgraded'.count, asSeen |-> TRUE]
    BY DEF BindCommit, PackInv, Shapes
  <1>4. CASE binding' = binding
    <2>1. NoCollision'
      BY <1>4 DEF BindCommit, PackInv, NoCollision, Resolves, Closure
    <2> QED BY <1>1, <1>3, <1>4, <2>1, CommitPreserves DEF BindCommit, Revisioned
  <1>5. CASE binding' # binding
    <2> DEFINE desired == job[c].desired
    <2>1. /\ binding.revision = job[c].expected
          /\ job[c].changed => packDefinitionCollisions(
                 resolveInstalledPackManifests(catalog, desired), defs.owned) = {}
          /\ binding.packs # desired
          /\ binding' = [revision |-> binding.revision + 1, packs |-> desired]
      BY <1>5 DEF BindCommit, replaceBinding
    <2>2. packDefinitionCollisions(resolveInstalledPackManifests(catalog, desired), defs.owned) = {}
      BY <1>2, <2>1 DEF BindSeen
    <2>3. binding'.packs = desired /\ binding'.revision = binding.revision + 1
      BY <2>1
    <2>4. GoodBinding(binding')
      BY <1>2, <2>1 DEF GoodBinding, GoodSelection
    <2>5. NoCollision'
      BY <2>2, <2>3 DEF BindCommit, NoCollision, Closure
    <2> QED BY <1>1, <1>2, <1>3, <2>1, <2>3, <2>4, <2>5, CommitPreserves DEF BindCommit, Revisioned
  <1> QED BY <1>4, <1>5

LEMMA Stamped ==
    ASSUME NEW d, NEW n, GoodDefinitions(d)
    PROVE  LET e == [d EXCEPT !.revision = n]
           IN  /\ GoodDefinitions(e) /\ e.revision = n
               /\ e.owned = d.owned /\ e.overrides = d.overrides
  <1> DEFINE e == [d EXCEPT !.revision = n]
  <1>1. e = [revision |-> n, overrides |-> d.overrides, owned |-> d.owned]
    BY DEF GoodDefinitions
  <1> HIDE DEF e
  <1>2. e.revision = n /\ e.owned = d.owned /\ e.overrides = d.overrides
    BY <1>1
  <1>3. GoodDefinitions(e)
    BY <1>1, <1>2 DEF GoodDefinitions
  <1> QED BY <1>2, <1>3 DEF e

\* What a mutation adds to the project's own definitions is what it names.
LEMMA MutatedOwned ==
    ASSUME GoodDefinitions(defs), NEW mu
    PROVE  \A d \in Mutated(mu).owned :
              d \in defs.owned \/ (mu.action = "put_owned" /\ d.kind = mu.kind /\ d.id = mu.id)
  <1> DEFINE new == [kind |-> mu.kind, id |-> mu.id, revision |-> RevisionOf(Affected(mu)) + 1,
                     enabled |-> mu.enabled, payload |-> mu.payload]
  <1>1. CASE mu.action = "put_owned"
    <2>1. Mutated(mu) = [defs EXCEPT !.owned = (@ \ Affected(mu)) \cup {new}]
      BY <1>1 DEF Mutated
    <2>2. new.kind = mu.kind /\ new.id = mu.id
      OBVIOUS
    <2> HIDE DEF new
    <2>3. Mutated(mu).owned = (defs.owned \ Affected(mu)) \cup {new}
      BY <2>1 DEF GoodDefinitions
    <2> QED BY <1>1, <2>2, <2>3
  <1>2. CASE mu.action = "remove_owned"
    <2>1. Mutated(mu).owned = defs.owned \ Affected(mu)
      BY <1>2 DEF Mutated, GoodDefinitions
    <2> QED BY <2>1
  <1>3. CASE mu.action = "put_override"
    <2>1. Mutated(mu).owned = defs.owned
      BY <1>3 DEF Mutated, GoodDefinitions
    <2> QED BY <2>1
  <1>4. CASE mu.action \notin {"put_owned", "remove_owned", "put_override"}
    <2>1. Mutated(mu).owned = defs.owned
      BY <1>4 DEF Mutated, GoodDefinitions
    <2> QED BY <2>1
  <1> QED BY <1>1, <1>2, <1>3, <1>4

\* The collision of a new definition is judged only in the preview.
LEMMA DefineCommitPreserves ==
    ASSUME PackInv, NEW c \in Clients, DefineCommit(c) PROVE PackInv' /\ Revisioned
  <1> DEFINE mu == job[c].mutation
  <1>1. job[c].op = "define" /\ Working(c)
    BY DEF DefineCommit, Working
  <1>2. /\ job[c] \in DefineJobs /\ job[c].expected < MaxRevision /\ parseDefinitionMutation(mu)
        /\ GoodDefinitions(defs) /\ GoodBinding(binding)
    BY <1>1, JobForms DEF PackInv, Shapes
  <1>3. upgraded' = [count |-> upgraded'.count, asSeen |-> TRUE]
    BY DEF DefineCommit, PackInv, Shapes
  <1>4. CASE defs' = defs
    <2>1. NoCollision'
      BY <1>4 DEF DefineCommit, PackInv, NoCollision, Resolves, Closure
    <2> QED BY <1>1, <1>3, <1>4, <2>1, CommitPreserves DEF DefineCommit, Revisioned
  <1>5. CASE defs' # defs
    <2>1. /\ defs.revision = job[c].expected /\ previewParsed(mu, FALSE)
          /\ defs' = [Mutated(mu) EXCEPT !.revision = defs.revision + 1]
      BY <1>5 DEF DefineCommit, replaceDefinitions
    <2>2. GoodDefinitions(Mutated(mu))
      BY <1>2, <2>1, MutatedGood
    <2>3. /\ GoodDefinitions(defs') /\ defs'.revision = defs.revision + 1
          /\ defs'.owned = Mutated(mu).owned
      BY <2>1, <2>2, Stamped
    <2>4. NoCollision'
      <3> SUFFICES ASSUME lates = 0, restarts = 0, Resolves, NEW d \in defs'.owned,
                          NEW m \in Closure, Declares(m.entries, d.kind, d.id)
                   PROVE  FALSE
        BY DEF DefineCommit, NoCollision, Resolves, Closure, packDefinitionCollisions
      <3>1. d \in defs.owned \/ (mu.action = "put_owned" /\ d.kind = mu.kind /\ d.id = mu.id)
        BY <1>2, <2>3, MutatedOwned
      <3>2. CASE d \in defs.owned
        BY <3>2 DEF PackInv, NoCollision, packDefinitionCollisions
      <3>3. CASE mu.action = "put_owned" /\ d.kind = mu.kind /\ d.id = mu.id
        <4>1. ~ownedCollisionIssues(mu)
          BY <1>1, <3>3 DEF PackInv, PutsFree
        <4>2. packDefinitionCollisions(Closure, {[kind |-> mu.kind, id |-> mu.id]}) = {}
          BY <4>1 DEF ownedCollisionIssues, Resolves, Closure
        <4> DEFINE new == [kind |-> mu.kind, id |-> mu.id]
        <4>3. new.kind = mu.kind /\ new.id = mu.id
          OBVIOUS
        <4>4. Declares(m.entries, new.kind, new.id)
          BY <3>3, <4>3
        <4> HIDE DEF new
        <4>5. packDefinitionCollisions(Closure, {new}) = {}
          BY <4>2 DEF new
        <4> QED BY <4>4, <4>5 DEF packDefinitionCollisions
      <3> QED BY <3>1, <3>2, <3>3
    <2> QED BY <1>1, <1>2, <1>3, <2>1, <2>3, <2>4, CommitPreserves DEF DefineCommit, Revisioned
  <1> QED BY <1>4, <1>5

\* An upgrade commits on what its reviewer saw, and what it installs resolves.
LEMMA UpgradeCommitPreserves ==
    ASSUME PackInv, NEW c \in Clients, UpgradeCommit(c)
    PROVE  PackInv' /\ UpgradeResolves /\ Revisioned
  <1> DEFINE plan == job[c].plan
             result == job[c].result
  <1>1. job[c].op = "upgrade" /\ Working(c)
    BY DEF UpgradeCommit, Working
  <1>2. /\ GoodPlan(plan) /\ GoodDefinitions(result) /\ PlanSeen(job[c])
        /\ resolveProjectConfiguration(catalog, plan.desired, result)
    BY <1>1, JobForms DEF PackInv, Shapes, PlansSeen, PlanSeen, UpgradesOK
  <1>3. CASE UNCHANGED <<binding, defs, upgraded>>
    <2>1. NoCollision'
      BY <1>3 DEF UpgradeCommit, PackInv, NoCollision, Resolves, Closure
    <2>2. upgraded' = [count |-> upgraded'.count, asSeen |-> TRUE]
      BY <1>3 DEF PackInv, Shapes
    <2> QED BY <1>1, <1>3, <2>1, <2>2, CommitPreserves DEF UpgradeCommit, UpgradeResolves, Revisioned
  <1>4. CASE ~UNCHANGED <<binding, defs, upgraded>>
    <2>1. /\ binding.revision = plan.bindingRevision /\ defs.revision = plan.definitionRevision
          /\ replaceBinding(plan.desired)
          /\ defs' = [result EXCEPT !.revision = defs.revision + 1]
          /\ upgraded' = [count |-> upgraded.count + 1,
                          asSeen |-> upgraded.asSeen /\ job[c].seen = <<binding, defs>>]
      BY <1>4 DEF UpgradeCommit, replaceDefinitions
    <2>2. job[c].seen = <<binding, defs>>
      BY <1>2, <2>1 DEF PlanSeen
    <2>3. upgraded.asSeen = TRUE
      BY DEF PackInv, Shapes
    <2>4. upgraded' = [count |-> upgraded'.count, asSeen |-> TRUE]
      BY <2>1, <2>2, <2>3
    <2>5. /\ GoodDefinitions(defs') /\ defs'.revision = defs.revision + 1
          /\ defs'.owned = result.owned /\ defs'.overrides = result.overrides
      BY <1>2, <2>1, Stamped
    <2>6. binding'.packs = plan.desired
      BY <2>1 DEF replaceBinding
    <2>7. \/ binding' = binding
          \/ GoodBinding(binding') /\ binding'.revision = binding.revision + 1
      BY <1>2, <2>1 DEF replaceBinding, GoodBinding, GoodPlan, GoodSelection
    <2>8. resolveProjectConfiguration(catalog, binding'.packs, defs')
      BY <1>2, <2>5, <2>6, ResolvesByEntries
    <2>9. NoCollision'
      BY <2>8 DEF UpgradeCommit, NoCollision, Closure, resolveProjectConfiguration
    <2>10. UpgradeResolves
      BY <2>8 DEF UpgradeCommit, UpgradeResolves
    <2>11. binding.revision < MaxRevision /\ defs.revision < MaxRevision
      BY <1>2, <2>1 DEF GoodPlan
    <2> QED BY <1>1, <2>4, <2>5, <2>7, <2>9, <2>10, <2>11, CommitPreserves DEF UpgradeCommit, Revisioned
  <1> QED BY <1>3, <1>4

-----------------------------------------------------------------------------
(* The invariant, and the theorems *)

LEMMA PackStep ==
    ASSUME PackInv, [PackNext]_packVars
    PROVE  PackInv' /\ UpgradeResolves /\ Revisioned
  <1>1. CASE PackRestart
    BY <1>1, RestartPreserves DEF PackRestart, UpgradeResolves, Revisioned
  <1>2. ASSUME NEW c \in Clients, PackTimeout(c)
        PROVE  PackInv' /\ UpgradeResolves /\ Revisioned
    BY <1>2, TimeoutPreserves DEF PackTimeout, UpgradeResolves, Revisioned
  <1>3. ASSUME NEW c \in Clients, BindExamine(c)
        PROVE  PackInv' /\ UpgradeResolves /\ Revisioned
    BY <1>3, BindExaminePreserves DEF BindExamine, UpgradeResolves, Revisioned
  <1>4. ASSUME NEW c \in Clients, BindCommit(c)
        PROVE  PackInv' /\ UpgradeResolves /\ Revisioned
    BY <1>4, BindCommitPreserves DEF BindCommit, UpgradeResolves, Revisioned
  <1>5. ASSUME NEW c \in Clients, DefinePreview(c)
        PROVE  PackInv' /\ UpgradeResolves /\ Revisioned
    BY <1>5, DefinePreviewPreserves DEF DefinePreview, UpgradeResolves, Revisioned
  <1>6. ASSUME NEW c \in Clients, DefineCommit(c)
        PROVE  PackInv' /\ UpgradeResolves /\ Revisioned
    BY <1>6, DefineCommitPreserves DEF DefineCommit, UpgradeResolves, Revisioned
  <1>7. ASSUME NEW c \in Clients, UpgradePreview(c)
        PROVE  PackInv' /\ UpgradeResolves /\ Revisioned
    BY <1>7, UpgradePreviewPreserves DEF UpgradePreview, UpgradeResolves, Revisioned
  <1>8. ASSUME NEW c \in Clients, UpgradeReconcile(c)
        PROVE  PackInv' /\ UpgradeResolves /\ Revisioned
    BY <1>8, UpgradeReconcilePreserves DEF UpgradeReconcile, UpgradeResolves, Revisioned
  <1>9. ASSUME NEW c \in Clients, UpgradeCommit(c)
        PROVE  PackInv' /\ UpgradeResolves /\ Revisioned
    BY <1>9, UpgradeCommitPreserves
  <1>10. CASE UNCHANGED packVars
    BY <1>10 DEF packVars, PackInv, Shapes, BindsSeen, PlansSeen, UpgradesOK, OneAtATime,
                 Working, PutsFree, ownedCollisionIssues, NoCollision, Resolves, Closure,
                 UpgradeResolves, Revisioned
  <1> QED BY <1>1, <1>2, <1>3, <1>4, <1>5, <1>6, <1>7, <1>8, <1>9, <1>10 DEF PackNext

LEMMA PackInvSafe == PackInv => PackSafety
  <1> SUFFICES ASSUME PackInv PROVE PackSafety
    OBVIOUS
  <1>1. \A d \in defs.owned : /\ OwnedAt(d.kind, d.id) = {d} /\ d.revision >= 1
                               /\ d.kind \in projectOwnedKinds
                               /\ d.kind = "agents" => d.payload.typed = {}
    <2> TAKE d \in defs.owned
    <2>1. OwnedEntry(d) /\ OwnedOnce(defs.owned)
      BY DEF PackInv, Shapes, GoodDefinitions
    <2>2. OwnedAt(d.kind, d.id) = {d}
      BY <2>1 DEF OwnedOnce, OwnedAt
    <2> QED BY <2>1, <2>2 DEF OwnedEntry
  <1>2. PackTypeOK
    BY <1>1 DEF PackInv, Shapes, GoodBinding, GoodDefinitions, OverriddenOnce, PackTypeOK
  <1>3. ApprovedStateOnly
    BY DEF PackInv, Shapes, ApprovedStateOnly
  <1> QED BY <1>2, <1>3 DEF PackInv, PackSafety

LEMMA ProjectsStep ==
    ASSUME PackInv, [ProjectsNext]_projectVars
    PROVE  [PackNext]_packVars
  BY DEF ProjectsNext, projectVars, packVars

\* THEOREM: for every catalogue, selection, mutation and bound: a selection
\* names a pack once, no entry is kept twice, the project owns nothing with a
\* typed security contract, an upgrade applies to what its reviewer saw, and
\* definitions and packs do not collide (manage-project-pack-binding.ts,
\* manage-project-definitions.ts, reconcile-project-pack-upgrade.ts).
THEOREM PacksAreSafe == ProjectsSpec => []PacksHold
  <1>1. ProjectsInit => PackInv
    BY InitPreserves DEF ProjectsInit
  <1>2. PackInv /\ [ProjectsNext]_projectVars => PackInv'
    BY ProjectsStep, PackStep
  <1>3. PackInv => PacksHold
    BY PackInvSafe DEF PacksHold
  <1> QED BY <1>1, <1>2, <1>3, PTL DEF ProjectsSpec

\* THEOREM: an upgrade that commits leaves a configuration that resolves on
\* this host, although it was judged before its transaction.
THEOREM UpgradesResolve == ProjectsSpec => [][UpgradeResolves]_packVars
  <1>1. ProjectsInit => PackInv
    BY InitPreserves DEF ProjectsInit
  <1>2. PackInv /\ [ProjectsNext]_projectVars => PackInv' /\ [UpgradeResolves]_packVars
    BY ProjectsStep, PackStep
  <1> QED BY <1>1, <1>2, PTL DEF ProjectsSpec

\* THEOREM: the selection and the definitions are revisioned streams: the value
\* of either never changes without its revision (replaceBinding and
\* replaceDefinitions are the only writers).
THEOREM ConfigurationIsRevisioned == ProjectsSpec => ConfigurationRevisioned
  <1> DEFINE raised == [selection |-> binding.revision, definitions |-> defs.revision]
             written == [selection |-> binding.packs,
                         definitions |-> <<defs.owned, defs.overrides>>]
  <1>1. ProjectsInit => PackInv /\ Configuration!Init
    <2> SUFFICES ASSUME ProjectsInit PROVE PackInv /\ Configuration!Init
      OBVIOUS
    <2>1. PackInv
      BY InitPreserves DEF ProjectsInit
    <2>2. binding.revision = 0 /\ defs.revision = 0
      BY DEF ProjectsInit, PackInit
    <2> QED BY <2>1, <2>2 DEF Configuration!Init
  <1>2. PackInv /\ [ProjectsNext]_projectVars => PackInv'
    BY ProjectsStep, PackStep
  <1>3. PackInv /\ [ProjectsNext]_projectVars => [Configuration!Write]_<<raised, written>>
    <2> SUFFICES ASSUME PackInv, Revisioned PROVE Configuration!Write
      BY ProjectsStep, PackStep
    <2> QED BY DEF Revisioned, Configuration!Write
  <1> QED BY <1>1, <1>2, <1>3, PTL DEF ProjectsSpec, ConfigurationRevisioned, Configuration!Spec

-----------------------------------------------------------------------------
(* What a selection may change without a review *)

\* A closure that resolved has one manifest for an id, and it was verified.
Resolved(closure) ==
    /\ closure \subseteq VerifiedManifests
    /\ \A m, n \in closure : m.id = n.id => m = n

LEMMA ClosureResolved ==
    ASSUME catalog \subseteq Manifests, NEW roots, resolveInstalledPacks(catalog, roots)
    PROVE  Resolved(resolveInstalledPackManifests(catalog, roots))
  <1> DEFINE all == Reachable(catalog, roots) closure == resolveInstalledPackManifests(catalog, roots)
  <1> HIDE DEF all
  <1>1. /\ \A i, j \in all : i.id = j.id => i = j
        /\ \A i \in all : read(catalog, i) \subseteq VerifiedManifests
        /\ closure = {m \in catalog : Identity(m) \in all}
    BY DEF resolveInstalledPacks, resolveVerifiedPackClosure, resolveInstalledPackManifests, all
  <1> HIDE DEF closure
  <1>2. ASSUME NEW m \in closure PROVE m \in VerifiedManifests
    BY <1>1 DEF read, Identity
  <1>3. ASSUME NEW m \in closure, NEW n \in closure, m.id = n.id PROVE m = n
    <2>1. Identity(m) \in all /\ Identity(n) \in all /\ Identity(m).id = m.id /\ Identity(n).id = n.id
      BY <1>1 DEF Identity
    <2>2. Identity(m) = Identity(n)
      BY <1>1, <1>3, <2>1
    <2>3. m.digest = n.digest
      BY <2>2 DEF Identity
    <2>4. m.sealed /\ n.sealed /\ m \in Manifests /\ n \in Manifests
      BY <1>2 DEF VerifiedManifests, verifyDomainPackManifest
    <2> QED BY <2>3, <2>4, ManifestsAssumption
  <1> QED BY <1>2, <1>3 DEF Resolved, closure

\* An entry and its counterpart.
Counterparts(before, after, m, n, e, f) ==
    /\ m \in before /\ n \in after /\ m.id = n.id
    /\ e \in m.entries /\ f \in n.entries /\ e.kind = f.kind /\ e.id = f.id

LEMMA TypedIsUnique ==
    ASSUME NEW closure, Resolved(closure), NEW m \in closure, NEW e \in m.entries
    PROVE  TypedOf(closure, e.kind, <<m.id, e.id>>) = {<<e.typed, e.required>>}
  <1>1. \A x, y \in m.entries : x.kind = y.kind /\ x.id = y.id => x = y
    BY DEF Resolved, VerifiedManifests, verifyDomainPackManifest, validateDomainPackManifest
  <1>2. {n \in closure : n.id = <<m.id, e.id>>[1]} = {m}
    BY DEF Resolved
  <1>3. {f \in Of(m.entries, e.kind) : f.id = <<m.id, e.id>>[2]} = {e}
    BY <1>1 DEF Of
  <1>4. TypedOf(closure, e.kind, <<m.id, e.id>>)
          = UNION {{<<x.typed, x.required>> : x \in {f \in Of(n.entries, e.kind) : f.id = <<m.id, e.id>>[2]}} : n \in {m}}
    BY <1>2 DEF TypedOf
  <1>5. TypedOf(closure, e.kind, <<m.id, e.id>>)
          = {<<x.typed, x.required>> : x \in {f \in Of(m.entries, e.kind) : f.id = <<m.id, e.id>>[2]}}
    BY <1>4
  <1> QED BY <1>3, <1>5

LEMMA ContractKept ==
    ASSUME NEW before, NEW after, Resolved(before), Resolved(after), NEW m, NEW n, NEW e, NEW f,
           Counterparts(before, after, m, n, e, f),
           Differences(before, after, e.kind) \cap InBoth(before, after, e.kind) = {}
    PROVE  e.typed = f.typed
  <1> DEFINE k == e.kind sid == <<m.id, e.id>>
  <1>1. TypedOf(before, k, sid) = {<<e.typed, e.required>>} /\ TypedOf(after, k, sid) = {<<f.typed, f.required>>}
    BY TypedIsUnique DEF Counterparts
  <1>2. sid \in StableIds(before, k) /\ sid \in StableIds(after, k)
    BY DEF Counterparts, StableIds, Of
  <1>3. Contract(before, k, sid) = Contract(after, k, sid)
    <2> HIDE DEF sid, k
    <2>1. sid \in InBoth(before, after, k)
      BY <1>2 DEF InBoth
    <2>2. sid \notin Differences(before, after, k)
      BY <2>1 DEF k
    <2> QED BY <1>2, <2>2 DEF Differences
  <1> HIDE DEF sid, k
  <1>4. /\ Contract(before, k, sid) = {t \in {<<e.typed, e.required>>} : t[1] # {}}
        /\ Contract(after, k, sid) = {t \in {<<f.typed, f.required>>} : t[1] # {}}
    BY <1>1 DEF Contract
  <1>5. CASE e.typed # {}
    <2>1. <<e.typed, e.required>> \in Contract(after, k, sid)
      BY <1>3, <1>4, <1>5
    <2>2. <<e.typed, e.required>> = <<f.typed, f.required>>
      BY <1>4, <2>1
    <2> QED BY <2>2
  <1>6. CASE f.typed # {}
    <2>1. <<f.typed, f.required>> \in Contract(before, k, sid)
      BY <1>3, <1>4, <1>6
    <2>2. <<f.typed, f.required>> = <<e.typed, e.required>>
      BY <1>4, <2>1
    <2> QED BY <2>2
  <1> QED BY <1>5, <1>6

LEMMA PolicyKept ==
    ASSUME NEW before, NEW after, Resolved(before), Resolved(after), NEW m, NEW n, NEW e, NEW f,
           Counterparts(before, after, m, n, e, f), e.kind = "policies", e.target = f.target,
           ~policyChangeGuard(before, after)
    PROVE  e.typed = f.typed
  <1> DEFINE w == e.target wid == <<m.id, w>>
  <1>0. m \in VerifiedManifests /\ n \in VerifiedManifests
    BY DEF Counterparts, Resolved
  <1>1. CASE w = ""
    <2>1. policyContribution(e) /\ policyContribution(f)
      BY <1>0 DEF Counterparts, VerifiedManifests, verifyDomainPackManifest, validateDomainPackManifest, contribution
    <2> QED BY <1>1, <2>1 DEF policyContribution
  <1>2. CASE w # ""
    <2>1. (\E x \in m.entries : x.kind = "workflows" /\ x.id = w) /\ (\E x \in n.entries : x.kind = "workflows" /\ x.id = w)
      <3>1. PoliciesGovernOwnWorkflows(m.entries) /\ PoliciesGovernOwnWorkflows(n.entries)
        BY <1>0 DEF VerifiedManifests, verifyDomainPackManifest, validateDomainPackManifest
      <3>2. \A k \in {m, n} : \A p \in Of(k.entries, "policies") : p.target # "" =>
               \E x \in Of(k.entries, "workflows") : x.id = p.target
        BY <3>1 DEF PoliciesGovernOwnWorkflows
      <3>3. e \in Of(m.entries, "policies") /\ f \in Of(n.entries, "policies")
        BY DEF Counterparts, Of
      <3> QED BY <1>2, <3>2, <3>3 DEF Of
    <2>2. wid \in StableIds(before, "workflows") /\ wid \in StableIds(after, "workflows")
      BY <2>1 DEF Counterparts, StableIds, Of
    <2>3. closureWorkflowPolicies(before, wid) = closureWorkflowPolicies(after, wid)
      <3> HIDE DEF wid
      <3> QED BY <2>2 DEF policyChangeGuard, workflowPolicyDifferences, InBoth
    <2>4. <<e.id, e.typed, e.required>> \in closureWorkflowPolicies(before, wid)
      <3>1. e \in {q \in Of(m.entries, "policies") : q.target = wid[2]} /\ m \in {x \in before : x.id = wid[1]}
        BY DEF Counterparts, Of
      <3> QED BY <3>1 DEF closureWorkflowPolicies
    <2>5. PICK x \in after : \E q \in Of(x.entries, "policies") :
             x.id = m.id /\ q.target = w /\ <<q.id, q.typed, q.required>> = <<e.id, e.typed, e.required>>
      <3>1. <<e.id, e.typed, e.required>> \in closureWorkflowPolicies(after, wid) /\ wid[1] = m.id /\ wid[2] = w
        BY <2>3, <2>4
      <3> HIDE DEF wid
      <3> QED BY <3>1 DEF closureWorkflowPolicies
    <2>6. PICK q \in Of(x.entries, "policies") :
             x.id = m.id /\ q.target = w /\ <<q.id, q.typed, q.required>> = <<e.id, e.typed, e.required>>
      BY <2>5
    <2>7. x = n /\ q \in n.entries /\ q.kind = f.kind /\ q.id = f.id /\ q.typed = e.typed
      BY <2>6 DEF Counterparts, Resolved, Of
    <2>8. q = f
      BY <1>0, <2>7 DEF Counterparts, VerifiedManifests, verifyDomainPackManifest, validateDomainPackManifest
    <2> QED BY <2>7, <2>8
  <1> QED BY <1>1, <1>2

\* What the guards of a bind leave.
Judged(before, after) ==
    /\ Resolved(before) /\ Resolved(after)
    /\ ~roleCapabilityGuard(before, after) /\ ~policyChangeGuard(before, after)
    /\ ~knowledgeChangeGuard(before, after) /\ ~evidenceContractGuard(before, after)

LEMMA JudgedKeeps ==
    ASSUME NEW before, NEW after, Judged(before, after), NEW m, NEW n, NEW e, NEW f,
           Counterparts(before, after, m, n, e, f), e.kind \notin {"agents", "workflows"},
           e.kind = "policies" => e.target = f.target
    PROVE  e.typed = f.typed
  <1>0. m \in Manifests /\ n \in Manifests /\ e.kind \in contributionKinds /\ Resolved(before) /\ Resolved(after)
    BY DEF Judged, Resolved, Counterparts, VerifiedManifests, verifyDomainPackManifest, validateDomainPackManifest, contribution
  <1>1. CASE e.kind = "policies"
    BY <1>0, <1>1, PolicyKept DEF Judged
  <1>2. CASE e.kind \in {"taskTypes", "prompts"}
    BY <1>0, <1>2, ManifestsAssumption DEF Counterparts
  <1>3. CASE e.kind \in {"roles", "capabilities", "knowledge"}
    <2>1. Differences(before, after, e.kind) \cap InBoth(before, after, e.kind) = {}
      BY <1>3 DEF Judged, roleCapabilityGuard, knowledgeChangeGuard, roleCapabilityDifferences,
                  capabilityContractDifferences, knowledgeGuidanceDifferences
    <2> QED BY <1>0, <2>1, ContractKept
  <1>4. CASE e.kind \in evidenceContractKinds
    <2>1. Differences(before, after, e.kind) \cap InBoth(before, after, e.kind) = {}
      <3> SUFFICES ASSUME NEW sid \in Differences(before, after, e.kind), sid \in InBoth(before, after, e.kind) PROVE FALSE
        OBVIOUS
      <3>1. <<sid[1], e.kind, sid[2]>> \in evidenceContractDifferences(before, after)
        BY <1>4 DEF evidenceContractDifferences
      <3> QED BY <1>4, <3>1 DEF Judged, evidenceContractGuard
    <2> QED BY <1>0, <2>1, ContractKept
  <1> QED BY <1>0, <1>1, <1>2, <1>3, <1>4 DEF contributionKinds, overridableKinds, descriptiveKinds, evidenceContractKinds

\* A bind under way was judged against the closure there is, while the
\* revision is the one it read.
BindsJudged ==
    /\ \A c \in Clients : job[c].op = "bind" /\ job[c].changed /\ job[c].expected = binding.revision =>
         Judged(Closure, resolveInstalledPackManifests(catalog, job[c].desired))
    /\ upgraded.count \in Nat

LEMMA JudgedStep ==
    ASSUME PackInv, BindsJudged, [PackNext]_packVars
    PROVE  BindsJudged' /\ [ReviewedContentOnly]_packVars
  <1>0. /\ job = [c \in Clients |-> job[c]] /\ catalog \subseteq Manifests /\ GoodBinding(binding)
        /\ binding.revision \in Nat /\ upgraded = [count |-> upgraded.count, asSeen |-> TRUE]
        /\ \A c \in Clients : GoodJob(job[c])
    BY PackBounds DEF PackInv, Shapes
  <1>1. ASSUME UNCHANGED <<catalog, binding, upgraded>>,
               \A c \in Clients : job'[c].op = "bind" => job'[c].expected = job[c].expected /\ job'[c].changed = job[c].changed
                  /\ job'[c].desired = job[c].desired /\ job[c].op = "bind"
        PROVE  BindsJudged' /\ ReviewedContentOnly
    BY <1>1 DEF BindsJudged, ReviewedContentOnly, Closure
  <1>2. CASE PackRestart
    <2>1. \A c \in Clients : job'[c] = IF job[c].op = "approved" THEN job[c] ELSE Idle
      BY <1>2 DEF PackRestart
    <2>2. \A c \in Clients : job'[c].op # "bind"
      BY <2>1 DEF Idle
    <2>3. UNCHANGED <<binding, upgraded>>
      BY <1>2 DEF PackRestart
    <2> QED BY <2>2, <2>3 DEF BindsJudged, ReviewedContentOnly
  <1>3. ASSUME NEW c \in Clients, PackTimeout(c) PROVE BindsJudged' /\ ReviewedContentOnly
    <2>1. job' = [job EXCEPT ![c].late = TRUE] /\ UNCHANGED <<catalog, binding, upgraded>>
      BY <1>3 DEF PackTimeout
    <2>2. \A x \in Clients : job'[x] = IF x = c THEN [job[c] EXCEPT !.late = TRUE] ELSE job[x]
      BY <1>0, <2>1
    <2>3. ASSUME job'[c].op = "bind" PROVE /\ job'[c].expected = job[c].expected /\ job'[c].changed = job[c].changed
                                           /\ job'[c].desired = job[c].desired /\ job[c].op = "bind"
      <3>1. job[c].op \in {"bind", "define", "upgrade"}
        BY <1>3 DEF PackTimeout, InFlight
      <3> DEFINE j == job[c]
      <3>2. j \in BindJobs \/ j \in DefineJobs \/ j = [op |-> "upgrade", late |-> j.late, plan |-> j.plan, seen |-> j.seen,
                                                      result |-> j.result]
        BY <1>0, <3>1 DEF GoodJob, Idle
      <3>3. job'[c] = [j EXCEPT !.late = TRUE]
        BY <2>2
      <3> HIDE DEF j
      <3>4. CASE j \in BindJobs
        BY <3>3, <3>4 DEF BindJobs, j
      <3>5. CASE j \in DefineJobs
        BY <2>3, <3>3, <3>5 DEF DefineJobs
      <3>6. CASE j = [op |-> "upgrade", late |-> j.late, plan |-> j.plan, seen |-> j.seen, result |-> j.result]
        BY <2>3, <3>3, <3>6
      <3> QED BY <3>2, <3>4, <3>5, <3>6
    <2> QED BY <1>1, <2>1, <2>2, <2>3
  <1>4. ASSUME NEW c \in Clients, BindExamine(c) PROVE BindsJudged' /\ ReviewedContentOnly
    <2>1. UNCHANGED <<catalog, binding, upgraded>>
      BY <1>4 DEF BindExamine
    <2>2. PICK desired \in Selections :
            /\ binding.packs = desired \/ examine(desired)
            /\ job' = [job EXCEPT ![c] = [op |-> "bind", late |-> FALSE, desired |-> desired,
                                          expected |-> binding.revision, changed |-> binding.packs # desired]]
      BY <1>4 DEF BindExamine
    <2>3. /\ job'[c].desired = desired /\ job'[c].changed = (binding.packs # desired)
          /\ \A x \in Clients : x # c => job'[x] = job[x]
      BY <1>0, <2>2
    <2>4. job'[c].changed => Judged(Closure, resolveInstalledPackManifests(catalog, desired))
      <3> SUFFICES ASSUME job'[c].changed PROVE Judged(Closure, resolveInstalledPackManifests(catalog, desired))
        OBVIOUS
      <3>1. examine(desired)
        BY <2>2, <2>3
      <3>2. Resolved(Closure) /\ Resolved(resolveInstalledPackManifests(catalog, desired))
        BY <1>0, <3>1, ClosureResolved DEF examine, Closure
      <3> QED BY <3>1, <3>2 DEF Judged, examine, Closure
    <2>5. BindsJudged'
      BY <2>1, <2>3, <2>4 DEF BindsJudged, Closure
    <2> QED BY <2>1, <2>5 DEF ReviewedContentOnly
  <1>5. ASSUME NEW c \in Clients, BindCommit(c) PROVE BindsJudged' /\ ReviewedContentOnly
    <2>1. job[c].op = "bind" /\ job' = [job EXCEPT ![c] = Idle] /\ UNCHANGED <<catalog, upgraded>>
      BY <1>5 DEF BindCommit, Stop
    <2>2. \A x \in Clients : job'[x].op = "bind" => x # c /\ job'[x] = job[x]
      BY <1>0, <2>1 DEF Idle
    <2>3. CASE binding' = binding
      <3>1. \A x \in Clients : job'[x].op = "bind" => /\ job'[x].expected = job[x].expected /\ job'[x].changed = job[x].changed
                                                      /\ job'[x].desired = job[x].desired /\ job[x].op = "bind"
        BY <2>2
      <3> QED BY <1>1, <2>1, <2>3, <3>1
    <2>4. CASE binding' # binding
      <3>1. binding.revision = job[c].expected /\ binding.packs # job[c].desired
            /\ binding' = [revision |-> binding.revision + 1, packs |-> job[c].desired]
        BY <1>5, <2>4 DEF BindCommit, replaceBinding
      <3>2. job[c].changed
        BY <2>1, <3>1 DEF PackInv, BindsSeen
      <3>3. Judged(Closure, Closure')
        BY <2>1, <3>1, <3>2 DEF BindsJudged, Closure
      <3>4. ReviewedContentOnly
        <4> SUFFICES ASSUME NEW m \in Closure, NEW n \in Closure', m.id = n.id, NEW e \in m.entries, NEW f \in n.entries,
                            e.kind = f.kind, e.id = f.id, e.kind \notin {"agents", "workflows"},
                            e.kind = "policies" => e.target = f.target
                     PROVE  e.typed = f.typed
          BY DEF ReviewedContentOnly
        <4>1. Counterparts(Closure, Closure', m, n, e, f)
          BY DEF Counterparts
        <4> DEFINE after == Closure'
        <4> HIDE DEF after
        <4> QED BY <3>3, <4>1, JudgedKeeps DEF after
      <3>5. \A x \in Clients : job'[x].op = "bind" => job'[x].expected # binding'.revision
        BY <1>0, <2>2, <3>1 DEF PackInv, BindsSeen
      <3> QED BY <2>1, <3>4, <3>5 DEF BindsJudged
    <2> QED BY <2>3, <2>4
  <1>6. ASSUME NEW c \in Clients, DefinePreview(c) \/ DefineCommit(c) \/ UpgradePreview(c) \/ UpgradeReconcile(c)
        PROVE  BindsJudged' /\ ReviewedContentOnly
    <2>1. UNCHANGED <<catalog, binding, upgraded>>
      BY <1>6 DEF DefinePreview, DefineCommit, UpgradePreview, UpgradeReconcile
    <2>2. \E j : j.op # "bind" /\ job' = [job EXCEPT ![c] = j]
      <3>1. CASE DefinePreview(c)
        <4> PICK mu \in Mutations : job' = [job EXCEPT ![c] = [op |-> "define", late |-> FALSE, mutation |-> mu, expected |-> defs.revision]]
          BY <3>1 DEF DefinePreview
        <4> DEFINE j == [op |-> "define", late |-> FALSE, mutation |-> mu, expected |-> defs.revision]
        <4>1. j.op # "bind" /\ job' = [job EXCEPT ![c] = j]
          OBVIOUS
        <4> QED BY <4>1
      <3>2. CASE UpgradePreview(c)
        <4> PICK desired \in Selections, res \in Resolutions :
              job' = [job EXCEPT ![c] = [op |-> "approved", plan |-> reconcileProjectPackUpgrade(desired, res), seen |-> <<binding, defs>>]]
          BY <3>2 DEF UpgradePreview
        <4> DEFINE j == [op |-> "approved", plan |-> reconcileProjectPackUpgrade(desired, res), seen |-> <<binding, defs>>]
        <4>1. j.op # "bind" /\ job' = [job EXCEPT ![c] = j]
          OBVIOUS
        <4> QED BY <4>1
      <3>3. CASE DefineCommit(c) \/ (UpgradeReconcile(c) /\ job' = [job EXCEPT ![c] = Idle])
        <4>1. Idle.op # "bind" /\ job' = [job EXCEPT ![c] = Idle]
          BY <3>3 DEF DefineCommit, Stop, Idle
        <4> QED BY <4>1
      <3>4. CASE UpgradeReconcile(c) /\ job' # [job EXCEPT ![c] = Idle]
        <4> DEFINE plan == reconcileProjectPackUpgrade(job[c].plan.desired, job[c].plan.resolution)
                   j == [op |-> "upgrade", late |-> FALSE, plan |-> plan, seen |-> job[c].seen,
                         result |-> reconciledDefinitions(plan.desired, plan.resolution)]
        <4>1. j.op # "bind" /\ job' = [job EXCEPT ![c] = j]
          BY <3>4 DEF UpgradeReconcile, Stop
        <4> QED BY <4>1
      <3> QED BY <1>6, <3>1, <3>2, <3>3, <3>4
    <2>3. \A x \in Clients : job'[x].op = "bind" => job'[x] = job[x]
      BY <1>0, <2>2
    <2> QED BY <1>1, <2>1, <2>3
  <1>7. ASSUME NEW c \in Clients, UpgradeCommit(c) PROVE BindsJudged' /\ ReviewedContentOnly
    <2>1. job[c].op = "upgrade" /\ job' = [job EXCEPT ![c] = Idle] /\ UNCHANGED catalog
      BY <1>7 DEF UpgradeCommit, Stop
    <2>2. \A x \in Clients : job'[x].op = "bind" => x # c /\ job'[x] = job[x]
      BY <1>0, <2>1 DEF Idle
    <2>3. CASE UNCHANGED <<binding, upgraded>>
      <3>1. \A x \in Clients : job'[x].op = "bind" => /\ job'[x].expected = job[x].expected /\ job'[x].changed = job[x].changed
                                                      /\ job'[x].desired = job[x].desired /\ job[x].op = "bind"
        BY <2>2
      <3> QED BY <1>1, <2>1, <2>3, <3>1
    <2>4. CASE ~UNCHANGED <<binding, upgraded>>
      <3>1. /\ replaceBinding(job[c].plan.desired)
            /\ upgraded' = [count |-> upgraded.count + 1, asSeen |-> upgraded.asSeen /\ job[c].seen = <<binding, defs>>]
        BY <1>7, <2>4 DEF UpgradeCommit
      <3>2. upgraded'.count = upgraded.count + 1 /\ upgraded.count \in Nat
        BY <3>1 DEF BindsJudged
      <3>3. upgraded'.count \in Nat /\ upgraded' # upgraded
        BY <3>2
      <3>4. ASSUME NEW x \in Clients, job'[x].op = "bind", job'[x].changed, job'[x].expected = binding'.revision
            PROVE  Judged(Closure', resolveInstalledPackManifests(catalog', job'[x].desired))
        <4>1. job[x].op = "bind" /\ job'[x] = job[x]
          BY <2>2, <3>4
        <4>2. CASE binding' = binding
          BY <2>1, <3>4, <4>1, <4>2 DEF BindsJudged, Closure
        <4>3. CASE binding' # binding
          <5>1. binding'.revision = binding.revision + 1
            BY <3>1, <4>3 DEF replaceBinding
          <5>2. job[x].expected <= binding.revision /\ job[x].expected = binding.revision + 1
            BY <3>4, <4>1, <5>1 DEF PackInv, BindsSeen
          <5> QED BY <1>0, <5>2
        <4> QED BY <4>2, <4>3
      <3> QED BY <3>3, <3>4 DEF BindsJudged, ReviewedContentOnly
    <2> QED BY <2>3, <2>4
  <1>8. CASE UNCHANGED packVars
    BY <1>8 DEF packVars, BindsJudged, Closure
  <1> QED BY <1>2, <1>3, <1>4, <1>5, <1>6, <1>7, <1>8 DEF PackNext

LEMMA InitJudged == PackInit => BindsJudged
  <1> SUFFICES ASSUME PackInit PROVE BindsJudged
    OBVIOUS
  <1>1. \A c \in Clients : job[c] = Idle
    BY DEF PackInit
  <1>2. upgraded.count = 0
    BY DEF PackInit
  <1> QED BY <1>1, <1>2 DEF BindsJudged, Idle

\* THEOREM: what two selections share keeps its capabilities, contracts,
\* guidance, evidence and policy unless a reviewed upgrade changes it, although
\* a bind is judged before its transaction (the four guards of
\* manage-project-pack-binding.ts).
THEOREM SharedContentIsReviewed == ProjectsSpec => [][ReviewedContentOnly]_packVars
  <1>1. ProjectsInit => PackInv /\ BindsJudged
    BY InitPreserves, InitJudged DEF ProjectsInit
  <1>2. PackInv /\ BindsJudged /\ [ProjectsNext]_projectVars
          => PackInv' /\ BindsJudged' /\ [ReviewedContentOnly]_packVars
    <2> SUFFICES ASSUME PackInv, BindsJudged, [ProjectsNext]_projectVars
                 PROVE  PackInv' /\ BindsJudged' /\ [ReviewedContentOnly]_packVars
      OBVIOUS
    <2>1. [PackNext]_packVars
      BY ProjectsStep
    <2>2. PackInv'
      BY <2>1, PackStep
    <2> HIDE DEF PackInv
    <2> QED BY <2>1, <2>2, JudgedStep
  <1> QED BY <1>1, <1>2, PTL DEF ProjectsSpec

-----------------------------------------------------------------------------
(* Portability *)

\* Rows that a project may have: what a task did agrees with what is said of it.
RowsOK(p) ==
    /\ p \in ProjectRows
    /\ \A t \in PTasks :
         /\ t \in p.runs \/ p.status[t] = "running" => p.history[t] = "executed"
         /\ t \notin p.runs => p.reviews[t] = NoReview
         /\ p.reviews[t].approval <=> p.reviews[t].status = "decided"

\* A record is the record of its fields.
LEMMA RowsAreRecords ==
  ASSUME NEW p, p \in ProjectRows \/ p \in PortableStates
  PROVE  p = [status |-> p.status, runs |-> p.runs, reviews |-> p.reviews, archived |-> p.archived,
              links |-> p.links, edges |-> p.edges, history |-> p.history, packs |-> p.packs, defs |-> p.defs]
  <1>1. CASE p \in ProjectRows
    BY <1>1 DEF ProjectRows
  <1>2. CASE p \in PortableStates
    BY <1>2 DEF PortableStates
  <1> QED BY <1>1, <1>2

LEMMA NothingIsAbsent ==
  ASSUME NEW p \in ProjectRows
  PROVE  p.links # Absent /\ p.edges # Absent /\ p.history # Absent /\ p.packs # Absent /\ p.defs # Absent
  BY AbsentAssumption DEF ProjectRows

\* Reviews are of ended runs only, so that nothing is left out of a snapshot.
LEMMA LoadedIsRows ==
  ASSUME NEW p, RowsOK(p)
  PROVE  loadPortableState(p) = p
  <1>1. p.reviews \in [PTasks -> ReviewStates]
    BY DEF RowsOK, ProjectRows
  <1>2. portableReviews(p) = p.reviews
    BY <1>1 DEF RowsOK, portableReviews
  <1>3. [p EXCEPT !.reviews = p.reviews] = p
    BY RowsAreRecords DEF RowsOK
  <1> QED BY <1>2, <1>3 DEF loadPortableState

LEMMA VersionContents ==
  ASSUME NEW v \in FormatVersions
  PROVE  /\ \A section \in {"links", "edges", "history", "packs", "defs"} :
              section \in portableProjectContents(v) <=> SectionSince[section] <= v
         /\ DOMAIN SectionSince = {"links", "edges", "history", "packs", "defs"}
         /\ SectionSince["links"] = 2 /\ SectionSince["edges"] = 3 /\ SectionSince["history"] = 4
         /\ SectionSince["packs"] = 5 /\ SectionSince["defs"] = 6
  BY DEF portableProjectContents, SectionSince

\* A state as an archive of a version shows it, section by section.
LEMMA StateAtVersion ==
  ASSUME NEW v \in FormatVersions, NEW p \in ProjectRows
  PROVE  portableStateAtFormatVersion(p, v) =
           [status |-> p.status, runs |-> p.runs, reviews |-> p.reviews, archived |-> p.archived,
            links |-> IF v < 2 THEN Absent ELSE p.links,
            edges |-> IF v < 3 THEN Absent ELSE p.edges,
            history |-> IF v < 4 THEN Absent ELSE p.history,
            packs |-> IF v < 5 THEN Absent ELSE p.packs,
            defs |-> IF v < 6 THEN Absent ELSE p.defs]
  <1> DEFINE names == {"status", "runs", "reviews", "archived", "links", "edges", "history", "packs", "defs"}
             at == portableStateAtFormatVersion(p, v)
             shown == [status |-> p.status, runs |-> p.runs, reviews |-> p.reviews, archived |-> p.archived,
            links |-> IF v < 2 THEN Absent ELSE p.links,
            edges |-> IF v < 3 THEN Absent ELSE p.edges,
            history |-> IF v < 4 THEN Absent ELSE p.history,
            packs |-> IF v < 5 THEN Absent ELSE p.packs,
            defs |-> IF v < 6 THEN Absent ELSE p.defs]
  <1>1. DOMAIN p = names
    BY DEF ProjectRows
  <1>2. at = [f \in names |-> at[f]]
    BY <1>1 DEF portableStateAtFormatVersion
  <1>3. shown = [f \in names |-> shown[f]]
    OBVIOUS
  <1>4. v \in Nat
    BY DEF FormatVersions
  <1>5. ASSUME NEW f \in names PROVE at[f] = shown[f]
    <2>1. at[f] = IF f \in DOMAIN SectionSince \ portableProjectContents(v) THEN Absent ELSE p[f]
      BY <1>1 DEF portableStateAtFormatVersion
    <2>2. CASE f \in {"status", "runs", "reviews", "archived"}
      <3>1. f \notin DOMAIN SectionSince
        BY <2>2, VersionContents
      <3>2. shown[f] = p[f]
        BY <2>2
      <3> QED BY <2>1, <3>1, <3>2
    <2>3. CASE f \in {"links", "edges", "history", "packs", "defs"}
      <3>1. f \in DOMAIN SectionSince \ portableProjectContents(v) <=> ~(SectionSince[f] <= v)
        BY <2>3, VersionContents
      <3>2. SectionSince[f] \in Nat
        BY <2>3, VersionContents
      <3>3. shown[f] = IF v < SectionSince[f] THEN Absent ELSE p[f]
        <4> HIDE DEF at
        <4>1. CASE f = "links"
          BY <4>1, VersionContents
        <4>2. CASE f = "edges"
          BY <4>2, VersionContents
        <4>3. CASE f = "history"
          BY <4>3, VersionContents
        <4>4. CASE f = "packs"
          BY <4>4, VersionContents
        <4>5. CASE f = "defs"
          BY <4>5, VersionContents
        <4> QED BY <2>3, <4>1, <4>2, <4>3, <4>4, <4>5
      <3> QED BY <1>4, <2>1, <3>1, <3>2, <3>3
    <2> QED BY <2>2, <2>3
  <1> HIDE DEF at, shown, names
  <1>6. at = shown
    BY <1>2, <1>3, <1>5
  <1> QED BY <1>6 DEF at, shown

\* A project's state needs the sixth format at least: there the sections begin
\* that every project has.
LEMMA VersionFits ==
  ASSUME NEW p \in ProjectRows
  PROVE  LET v == portableProjectFormatVersionFor(p)
         IN  /\ v \in 6 .. 11 /\ portableProjectStateShape(v, p)
             /\ \A w \in 1 .. (v - 1) : ~portableProjectStateShape(w, p)
  <1> DEFINE words == p.defs \cap {"vocabulary"} # {}
             flows == p.defs \cap {"workflow override"} # {}
             agents == p.defs \cap {"agent disable", "agent references"} # {}
             roles == p.defs \cap {"role omission"} # {}
             level == IF p.archived THEN 11 ELSE IF words THEN 10 ELSE IF flows THEN 9
                      ELSE IF agents THEN 8 ELSE IF roles THEN 7 ELSE 6
             v == portableProjectFormatVersionFor(p)
  <1>1. p.defs \subseteq DefinitionFeatures /\ p.defs # Absent /\ p.archived \in BOOLEAN
    BY NothingIsAbsent DEF ProjectRows
  <1>2. ASSUME NEW w \in 1 .. 11
        PROVE  portableProjectStateShape(w, p) <=>
                  w >= 6 /\ p.defs \subseteq portableDefinitionFeatures(w) /\ (p.archived => w = 11)
    <2>1. w \in FormatVersions
      BY DEF FormatVersions
    <2>2. \A section \in DOMAIN SectionSince : p[section] # Absent
      BY NothingIsAbsent, VersionContents, <2>1
    <2>3. (\A section \in DOMAIN SectionSince : p[section] # Absent <=> section \in portableProjectContents(w))
            <=> w >= 6
      BY <2>1, <2>2, VersionContents
    <2> QED BY <1>1, <2>3 DEF portableProjectStateShape
  <1>3. \A w \in 1 .. 11 : p.defs \subseteq portableDefinitionFeatures(w) <=>
          /\ words => w >= 10
          /\ flows => w >= 9
          /\ agents => w >= 8
          /\ roles => w >= 7
    BY <1>1 DEF portableDefinitionFeatures, DefinitionFeatures
  <1>4. /\ p.defs \cap {"vocabulary", "workflow override"} # {} <=> words \/ flows
        /\ p.defs \cap (DefinitionFeatures \ {"owned", "role omission"}) # {} <=> words \/ flows \/ agents
        /\ p.defs \subseteq {"owned"} <=> ~(words \/ flows \/ agents \/ roles)
    BY <1>1 DEF DefinitionFeatures
  <1>5. v = level
    BY <1>1, <1>4 DEF portableProjectFormatVersionFor
  <1>0. level \in 6 .. 11 /\ level \in 1 .. 11
    <2> HIDE DEF words, flows, agents, roles
    <2> QED OBVIOUS
  <1>6. (p.archived => level = 11) /\ (words => level >= 10)
        /\ (flows => level >= 9) /\ (agents => level >= 8) /\ (roles => level >= 7)
    <2> HIDE DEF words, flows, agents, roles
    <2> QED BY <1>1
  <1> HIDE DEF v, level
  <1>7. v \in 6 .. 11 /\ v \in 1 .. 11 /\ portableProjectStateShape(v, p)
    <2>1. v \in 6 .. 11 /\ v \in 1 .. 11
      BY <1>0, <1>5
    <2>2. p.defs \subseteq portableDefinitionFeatures(v)
      <3> HIDE DEF words, flows, agents, roles
      <3> QED BY <1>3, <1>5, <1>6, <2>1
    <2>3. p.archived => v = 11
      <3> HIDE DEF words, flows, agents, roles
      <3> QED BY <1>5, <1>6
    <2>4. v >= 6
      BY <2>1
    <2> QED BY <1>2, <2>1, <2>2, <2>3, <2>4
  <1>8. \A w \in 1 .. (v - 1) : ~portableProjectStateShape(w, p)
    <2> SUFFICES ASSUME NEW w \in 1 .. (v - 1), portableProjectStateShape(w, p) PROVE FALSE
      OBVIOUS
    <2>1. w \in 1 .. 11 /\ w < v
      BY <1>7
    <2>2. w >= 6 /\ p.defs \subseteq portableDefinitionFeatures(w) /\ (p.archived => w = 11)
      BY <1>2, <2>1
    <2>3. (words => w >= 10) /\ (flows => w >= 9) /\ (agents => w >= 8) /\ (roles => w >= 7)
      BY <1>3, <2>1, <2>2
    <2>4. w < level
      BY <1>5, <2>1
    <2> USE DEF level
    <2> HIDE DEF words, flows, agents, roles
    <2>5. w \in Nat
      BY <2>1
    <2> QED BY <1>1, <2>2, <2>3, <2>4, <2>5
  <1> QED BY <1>7, <1>8 DEF v

\* Rows that a project may have come back as they are.
LEMMA RestoredAreRows ==
  ASSUME NEW p, RowsOK(p)
  PROVE  restoredRows(p) = p /\ restorePortableState(p) /\ referentialClosure(p)
  <1>1. p \in ProjectRows /\ p.history \in [PTasks -> HistoryStates] /\ p.reviews \in [PTasks -> ReviewStates]
    BY DEF RowsOK, ProjectRows
  <1>2. restoredHistory(p) = p.history
    BY <1>1, NothingIsAbsent DEF RowsOK, restoredHistory
  <1>3. ASSUME NEW t \in PTasks
        PROVE  p.reviews[t] = IF p.reviews[t].status = "none" THEN NoReview
                 ELSE [p.reviews[t] EXCEPT !.status = IF p.reviews[t].approval THEN "decided" ELSE "pending"]
    <2>1. p.reviews[t] = [status |-> p.reviews[t].status, approval |-> p.reviews[t].approval]
      BY <1>1 DEF ReviewStates
    <2>2. /\ p.reviews[t].status \in {"none", "pending", "decided"} /\ p.reviews[t].approval \in BOOLEAN
          /\ p.reviews[t].approval <=> p.reviews[t].status = "decided"
      BY <1>1 DEF RowsOK, ReviewStates
    <2>3. CASE p.reviews[t].status = "none"
      BY <2>1, <2>2, <2>3 DEF NoReview
    <2>4. CASE p.reviews[t].status = "pending"
      BY <2>1, <2>2, <2>4
    <2>5. CASE p.reviews[t].status = "decided"
      BY <2>1, <2>2, <2>5
    <2> QED BY <2>2, <2>3, <2>4, <2>5
  <1>4. restoredReviews(p) = p.reviews
    BY <1>1, <1>3 DEF restoredReviews
  <1>5. restoredRows(p) = p
    BY <1>1, <1>2, <1>4, NothingIsAbsent, RowsAreRecords DEF restoredRows
  <1>6. comparisonVersion(p) = 6 /\ 6 \in FormatVersions
    BY <1>1, NothingIsAbsent DEF comparisonVersion, FormatVersions
  <1>7. portableStateAtFormatVersion(p, 6) = p
    BY <1>1, <1>6, StateAtVersion, RowsAreRecords
  <1>8. restorePortableState(p)
    BY <1>5, <1>6, <1>7, LoadedIsRows DEF restorePortableState
  <1>9. referentialClosure(p)
    <2>1. historyCloses(p)
      BY DEF RowsOK, historyCloses
    <2>2. reviewsClose(p)
      BY DEF RowsOK, reviewsClose, NoReview
    <2>3. edgesClose(p)
      BY <1>1 DEF edgesClose, ProjectRows
    <2> QED BY <2>1, <2>2, <2>3 DEF referentialClosure
  <1> QED BY <1>5, <1>8, <1>9

\* What a file of any version restores, when its parser accepts it.
LEMMA RestoreMakesRows ==
  ASSUME NEW s \in PortableStates, referentialClosure(s)
  PROVE  RowsOK(restoredRows(s))
  <1>1. /\ s.history \in {Absent} \union [PTasks -> HistoryStates] /\ s.reviews \in [PTasks -> ReviewStates]
        /\ s.status \in [PTasks -> {"pending", "running", "completed"}] /\ s.runs \in SUBSET PTasks
    BY DEF PortableStates
  <1>2. restoredHistory(s) \in [PTasks -> HistoryStates]
    BY <1>1 DEF restoredHistory, HistoryStates
  <1>3. restoredReviews(s) \in [PTasks -> ReviewStates]
    BY <1>1 DEF restoredReviews, ReviewStates, NoReview
  <1> DEFINE links == IF s.links = Absent THEN {} ELSE s.links
             edges == IF s.edges = Absent THEN {} ELSE s.edges
             packs == IF s.packs = Absent THEN FALSE ELSE s.packs
             decls == IF s.defs = Absent THEN {} ELSE s.defs
             hist == restoredHistory(s)
             revs == restoredReviews(s)
  <1>4. restoredRows(s) = [status |-> s.status, runs |-> s.runs, reviews |-> revs, archived |-> s.archived,
              links |-> links, edges |-> edges, history |-> hist, packs |-> packs, defs |-> decls]
    <2>1. restoredRows(s) = [s EXCEPT !.links = links, !.edges = edges, !.history = hist, !.reviews = revs,
                                      !.packs = packs, !.defs = decls]
      BY DEF restoredRows
    <2>2. s = [status |-> s.status, runs |-> s.runs, reviews |-> s.reviews, archived |-> s.archived,
              links |-> s.links, edges |-> s.edges, history |-> s.history, packs |-> s.packs, defs |-> s.defs]
      BY RowsAreRecords
    <2> HIDE DEF links, edges, packs, decls, hist, revs
    <2> QED BY <2>1, <2>2
  <1>5. restoredRows(s) \in ProjectRows
    <2>1. /\ links \in SUBSET PTasks /\ edges \in SUBSET {<<"t2", "t1">>}
          /\ packs \in BOOLEAN /\ decls \in SUBSET DefinitionFeatures
          /\ s.archived \in BOOLEAN
      BY DEF PortableStates
    <2> HIDE DEF links, edges, packs, decls
    <2> QED BY <1>1, <1>2, <1>3, <1>4, <2>1 DEF ProjectRows
  <1>6. ASSUME NEW t \in PTasks
        PROVE  /\ t \in s.runs \/ s.status[t] = "running" => restoredHistory(s)[t] = "executed"
               /\ t \notin s.runs => restoredReviews(s)[t] = NoReview
               /\ restoredReviews(s)[t].approval <=> restoredReviews(s)[t].status = "decided"
    <2>1. historyCloses(s) /\ reviewsClose(s)
      BY DEF referentialClosure
    <2>2. t \in s.runs \/ s.status[t] = "running" => restoredHistory(s)[t] = "executed"
      BY <1>1, <2>1 DEF historyCloses, restoredHistory
    <2>3. t \notin s.runs => restoredReviews(s)[t] = NoReview
      BY <1>1, <2>1 DEF reviewsClose, restoredReviews
    <2>4. restoredReviews(s)[t].approval <=> restoredReviews(s)[t].status = "decided"
      BY <1>1, <2>1 DEF reviewsClose, restoredReviews, ReviewStates, NoReview
    <2> QED BY <2>2, <2>3, <2>4
  <1> HIDE DEF restoredRows
  <1> QED BY <1>4, <1>5, <1>6 DEF RowsOK

\* The comparison a restore makes speaks for the version of the file.
LEMMA RestoredAtVersion ==
  ASSUME NEW s \in PortableStates, NEW v \in FormatVersions, referentialClosure(s),
         portableProjectStateShape(v, s), restorePortableState(s)
  PROVE  portableStateAtFormatVersion(loadPortableState(restoredRows(s)), v) = s
  <1> DEFINE p == restoredRows(s) c == comparisonVersion(s)
  <1>1. RowsOK(p) /\ p \in ProjectRows /\ loadPortableState(p) = p
    BY RestoreMakesRows, LoadedIsRows DEF RowsOK
  <1> HIDE DEF p
  <1>2. v \in Nat /\ v \in 1 .. 11
    BY DEF FormatVersions
  <1>3. /\ s.links # Absent <=> v >= 2
        /\ s.edges # Absent <=> v >= 3
        /\ s.history # Absent <=> v >= 4
        /\ s.packs # Absent <=> v >= 5
        /\ s.defs # Absent <=> v >= 6
    <2>1. \A section \in {"links", "edges", "history", "packs", "defs"} :
            s[section] # Absent <=> SectionSince[section] <= v
      BY VersionContents DEF portableProjectStateShape
    <2> QED BY <1>2, <2>1, VersionContents
  <1>4. c = IF v >= 6 THEN 6 ELSE v
    BY <1>2, <1>3 DEF comparisonVersion
  <1>5. c \in FormatVersions
    BY <1>2, <1>4 DEF FormatVersions
  <1> HIDE DEF c
  <1>6. portableStateAtFormatVersion(p, c) = portableStateAtFormatVersion(p, v)
    <2>1. \A k \in 2 .. 6 : c < k <=> v < k
      BY <1>2, <1>4
    <2> QED BY <1>1, <1>5, <2>1, StateAtVersion
  <1>7. portableStateAtFormatVersion(p, c) = s
    BY <1>1 DEF restorePortableState, p, c
  <1> QED BY <1>1, <1>6, <1>7 DEF p

\* The archives there are: published, being written, being restored, or the
\* source of an unedited copy.
ArchivesHeld ==
    {files[f] : f \in {x \in Files : files[x] # NoFile}}
      \union {publishing[h].archive : h \in {x \in Hosts : publishing[x] # NoJob}}
      \union {restoring[r].archive : r \in {x \in Roots : restoring[x] # NoJob}}
      \union {imported[h] : h \in {x \in Hosts : imported[x] # NoFile}}

\* What is said of revisions, by their rows and by archives.
Claims ==
    {<<x.id, x.parent, x.checksum>> : x \in UNION {revisions[h] : h \in Hosts}}
      \union {<<a.id, a.parent, a.state>> : a \in ArchivesHeld}

ClaimsAgree ==
    /\ nextRevision \in Nat
    /\ \A c \in Claims : c[1] \in Nat /\ c[1] < nextRevision
    /\ \A c, d \in Claims : c[1] = d[1] => c = d

\* An archive says of no task that ever ran that it did not.
ArchiveOK(a) ==
    /\ a.version \in FormatVersions /\ a.state \in PortableStates
    /\ \A t \in PTasks : restoredHistory(a.state)[t] = "never" => t \notin a.ran

\* The copy on a host: rows that agree with what ran, a head among the
\* revisions, and nothing at all where the project is unknown.
CopyOK(h) ==
    /\ rows[h] # NoProject =>
         /\ RowsOK(rows[h])
         /\ \A t \in PTasks : /\ t \in running[h] => rows[h].history[t] = "executed"
                              /\ rows[h].history[t] = "never" => t \notin ran[h]
    /\ rows[h] = NoProject =>
         /\ head[h] = 0 /\ revisions[h] = {} /\ running[h] = {}
         /\ \A r \in Roots : HostOf[r] = h => registered[r] # Ours
    /\ head[h] # 0 => \E x \in revisions[h] : x.id = head[h]
    /\ running[h] \subseteq PTasks

CopiesOK ==
    /\ rows = [h \in Hosts |-> rows[h]] /\ running = [h \in Hosts |-> running[h]]
    /\ revisions = [h \in Hosts |-> revisions[h]] /\ head = [h \in Hosts |-> head[h]]
    /\ ran = [h \in Hosts |-> ran[h]] /\ registered = [r \in Roots |-> registered[r]]
    /\ \A h \in Hosts : CopyOK(h)

\* What is under way, and what an unedited copy still says.
JobsOK ==
    /\ files = [f \in Files |-> files[f]] /\ publishing = [h \in Hosts |-> publishing[h]]
    /\ restoring = [r \in Roots |-> restoring[r]] /\ imported = [h \in Hosts |-> imported[h]]
    /\ \A a \in ArchivesHeld : ArchiveOK(a)
    /\ \A r \in Roots : restoring[r] # NoJob =>
         /\ restoring[r] = [archive |-> restoring[r].archive, known |-> restoring[r].known, step |-> restoring[r].step]
         /\ parsePortableProjectArchive(restoring[r].archive)
         /\ restoring[r].known => rows[HostOf[r]] # NoProject
    /\ \A h \in Hosts : imported[h] # NoFile =>
         /\ rows[h] # NoProject
         /\ portableStateAtFormatVersion(loadPortableState(rows[h]), imported[h].version) = imported[h].state

PortabilityInv == CopiesOK /\ JobsOK /\ ClaimsAgree

\* What no step does to a copy, a head or an archive.
LineageStays == NoRestoreOverwrites /\ HeadExtends /\ ArchivesStay

-----------------------------------------------------------------------------
LEMMA ClaimsStay ==
  ASSUME ClaimsAgree, nextRevision' = nextRevision, Claims' \subseteq Claims
  PROVE  ClaimsAgree'
  BY DEF ClaimsAgree

LEMMA ClaimsGrow ==
  ASSUME ClaimsAgree, nextRevision' = nextRevision + 1, NEW parent, NEW state,
         Claims' \subseteq Claims \union {<<nextRevision, parent, state>>}
  PROVE  ClaimsAgree'
  <1> DEFINE new == <<nextRevision, parent, state>>
  <1>1. new[1] = nextRevision /\ nextRevision \in Nat
    BY DEF ClaimsAgree
  <1> HIDE DEF new
  <1>2. \A c \in Claims' : c \in Claims \/ c = new
    BY DEF new
  <1>3. \A c \in Claims' : c[1] \in Nat /\ c[1] < nextRevision'
    BY <1>1, <1>2 DEF ClaimsAgree
  <1>4. ASSUME NEW c \in Claims', NEW d \in Claims', c[1] = d[1] PROVE c = d
    <2>1. CASE c \in Claims /\ d \in Claims
      BY <1>4, <2>1 DEF ClaimsAgree
    <2>2. CASE c = new /\ d = new
      BY <2>2
    <2>3. CASE c = new /\ d \in Claims
      BY <1>1, <1>4, <2>3 DEF ClaimsAgree
    <2>4. CASE d = new /\ c \in Claims
      BY <1>1, <1>4, <2>4 DEF ClaimsAgree
    <2> QED BY <1>2, <2>1, <2>2, <2>3, <2>4
  <1> QED BY <1>1, <1>3, <1>4 DEF ClaimsAgree

\* An archive that is there claims its revision.
LEMMA HeldClaims ==
  ASSUME NEW a \in ArchivesHeld
  PROVE  <<a.id, a.parent, a.state>> \in Claims
  BY DEF Claims

LEMMA RowClaims ==
  ASSUME NEW h \in Hosts, NEW x \in revisions[h]
  PROVE  <<x.id, x.parent, x.checksum>> \in Claims
  BY DEF Claims

\* When no archive appears and every revision was claimed before.
LEMMA ClaimsFrom ==
  ASSUME ArchivesHeld' \subseteq ArchivesHeld,
         \A h \in Hosts : \A x \in revisions'[h] : <<x.id, x.parent, x.checksum>> \in Claims
  PROVE  Claims' \subseteq Claims
  <1> SUFFICES ASSUME NEW c \in Claims' PROVE c \in Claims
    OBVIOUS
  <1>1. CASE \E h \in Hosts : \E x \in revisions'[h] : c = <<x.id, x.parent, x.checksum>>
    BY <1>1
  <1>2. CASE \E a \in ArchivesHeld' : c = <<a.id, a.parent, a.state>>
    BY <1>2, HeldClaims
  <1> QED BY <1>1, <1>2 DEF Claims

LEMMA HeadIsKnown ==
  ASSUME CopiesOK, NEW h \in Hosts, head[h] # 0
  PROVE  headRevision(h) \in revisions[h] /\ headRevision(h).id = head[h]
  BY DEF CopiesOK, CopyOK, headRevision

\* The heads, checkouts and archives that an edit leaves alone.
EditFrame(h) ==
    /\ imported' = [imported EXCEPT ![h] = NoFile]
    /\ UNCHANGED <<revisions, head, registered, files, publishing, restoring, nextRevision>>

LEMMA EditKeeps ==
  ASSUME PortabilityInv, NEW h \in Hosts, rows[h] # NoProject, EditFrame(h),
         NEW p, rows' = [rows EXCEPT ![h] = p], RowsOK(p),
         running' = [running EXCEPT ![h] = running'[h]], ran' = [ran EXCEPT ![h] = ran'[h]],
         running'[h] \subseteq PTasks,
         \A t \in PTasks : /\ t \in running'[h] => p.history[t] = "executed"
                           /\ p.history[t] = "never" => t \notin ran'[h]
  PROVE  PortabilityInv' /\ HeadExtends /\ ArchivesStay
  <1>1. p # NoProject
    BY PortabilityAssumption DEF RowsOK
  <1>2. /\ rows' = [x \in Hosts |-> rows'[x]] /\ rows'[h] = p /\ \A x \in Hosts : x # h => rows'[x] = rows[x]
        /\ running' = [x \in Hosts |-> running'[x]] /\ \A x \in Hosts : x # h => running'[x] = running[x]
        /\ ran' = [x \in Hosts |-> ran'[x]] /\ \A x \in Hosts : x # h => ran'[x] = ran[x]
        /\ imported' = [x \in Hosts |-> imported'[x]] /\ imported'[h] = NoFile
        /\ \A x \in Hosts : x # h => imported'[x] = imported[x]
    BY DEF PortabilityInv, CopiesOK, JobsOK, EditFrame
  <1>3. UNCHANGED <<revisions, head, registered, files, publishing, restoring, nextRevision>>
    BY DEF EditFrame
  <1>4. CopiesOK'
    <2> SUFFICES ASSUME NEW x \in Hosts PROVE CopyOK(x)'
      BY <1>2, <1>3 DEF PortabilityInv, CopiesOK
    <2>1. CASE x = h
      BY <1>1, <1>2, <1>3, <2>1 DEF PortabilityInv, CopiesOK, CopyOK, RowsOK
    <2>2. CASE x # h
      <3>1. CopyOK(x)
        BY DEF PortabilityInv, CopiesOK
      <3>2. rows'[x] = rows[x] /\ running'[x] = running[x] /\ ran'[x] = ran[x]
        BY <1>2, <2>2
      <3> QED BY <1>3, <3>1, <3>2 DEF CopyOK
    <2> QED BY <2>1, <2>2
  <1>5. ArchivesHeld' \subseteq ArchivesHeld
    BY <1>2, <1>3 DEF ArchivesHeld
  <1>6. JobsOK'
    <2>1. \A a \in ArchivesHeld' : ArchiveOK(a)
      BY <1>5 DEF PortabilityInv, JobsOK
    <2>2. \A x \in Hosts : rows[x] # NoProject => rows'[x] # NoProject
      BY <1>1, <1>2
    <2>3. \A r \in Roots : HostOf[r] \in Hosts
      BY PortabilityAssumption
    <2> QED BY <1>2, <1>3, <2>1, <2>2, <2>3 DEF PortabilityInv, JobsOK, ArchiveOK, parsePortableProjectArchive
  <1>7. ClaimsAgree'
    BY <1>3, <1>5, RowClaims, ClaimsFrom, ClaimsStay DEF PortabilityInv
  <1>8. HeadExtends /\ ArchivesStay
    BY <1>3 DEF HeadExtends, ArchivesStay
  <1> QED BY <1>4, <1>6, <1>7, <1>8 DEF PortabilityInv

\* The edits and runs of a host.
LEMMA EditsPreserve ==
  ASSUME PortabilityInv, NEW h \in Hosts,
         \/ AddDependency(h) \/ BindPacks(h) \/ ArchiveMilestone(h)
         \/ \E f \in EditFeatures : EditDefinitions(h, f)
         \/ \E t \in PTasks : StartRun(h, t)
         \/ \E t \in PTasks, v \in {"none", "pending", "decided"} : EndRun(h, t, v)
  PROVE  PortabilityInv' /\ LineageStays
  <1> DEFINE p == rows[h]
  <1>0. /\ rows = [x \in Hosts |-> rows[x]] /\ running = [x \in Hosts |-> running[x]] /\ ran = [x \in Hosts |-> ran[x]]
        /\ CopyOK(h) /\ running[h] \subseteq PTasks
    BY DEF PortabilityInv, CopiesOK, CopyOK
  <1>1. ASSUME rows[h] # NoProject
        PROVE  /\ p = [status |-> p.status, runs |-> p.runs, reviews |-> p.reviews, archived |-> p.archived,
                       links |-> p.links, edges |-> p.edges, history |-> p.history, packs |-> p.packs, defs |-> p.defs]
               /\ p.status \in [PTasks -> {"pending", "running", "completed"}] /\ p.runs \subseteq PTasks
               /\ p.reviews \in [PTasks -> ReviewStates] /\ p.archived \in BOOLEAN /\ p.links \subseteq PTasks
               /\ p.edges \subseteq {<<"t2", "t1">>} /\ p.history \in [PTasks -> HistoryStates]
               /\ p.packs \in BOOLEAN /\ p.defs \subseteq DefinitionFeatures
               /\ RowsOK(p)
               /\ \A t \in PTasks : /\ t \in running[h] => p.history[t] = "executed"
                                    /\ p.history[t] = "never" => t \notin ran[h]
    <2>1. RowsOK(p) /\ p \in ProjectRows
      BY <1>0, <1>1 DEF CopyOK, RowsOK
    <2>2. \A t \in PTasks : /\ t \in running[h] => p.history[t] = "executed"
                            /\ p.history[t] = "never" => t \notin ran[h]
      BY <1>0, <1>1 DEF CopyOK
    <2> HIDE DEF p
    <2> QED BY <2>1, <2>2, RowsAreRecords DEF ProjectRows
  \* Edits of the configuration and of governance leave what ran.
  <1>2. ASSUME rows[h] # NoProject, Edited(h), NEW q, rows' = [rows EXCEPT ![h] = q], UNCHANGED <<running, ran>>,
               q \in ProjectRows, q.status = p.status, q.runs = p.runs, q.reviews = p.reviews, q.history = p.history
        PROVE  PortabilityInv' /\ LineageStays
    <2>1. RowsOK(q)
      BY <1>1, <1>2 DEF RowsOK
    <2>2. EditFrame(h) /\ edits' = edits + 1
      BY <1>2 DEF Edited, EditFrame
    <2>3. /\ running' = [running EXCEPT ![h] = running'[h]] /\ ran' = [ran EXCEPT ![h] = ran'[h]]
          /\ running'[h] \subseteq PTasks
          /\ \A t \in PTasks : /\ t \in running'[h] => q.history[t] = "executed"
                               /\ q.history[t] = "never" => t \notin ran'[h]
      BY <1>0, <1>1, <1>2
    <2>4. PortabilityInv' /\ HeadExtends /\ ArchivesStay
      BY <1>2, <2>1, <2>2, <2>3, EditKeeps
    <2> QED BY <2>2, <2>4 DEF LineageStays, NoRestoreOverwrites
  <1>3. CASE AddDependency(h)
    <2> DEFINE q == [p EXCEPT !.edges = {<<"t2", "t1">>}]
    <2>1. rows[h] # NoProject /\ Edited(h) /\ rows' = [rows EXCEPT ![h] = q] /\ UNCHANGED <<running, ran>>
      BY <1>0, <1>3 DEF AddDependency, Edited
    <2>2. q \in ProjectRows /\ q.status = p.status /\ q.runs = p.runs /\ q.reviews = p.reviews /\ q.history = p.history
      BY <1>1, <2>1 DEF ProjectRows
    <2> HIDE DEF q
    <2> QED BY <1>2, <2>1, <2>2
  <1>4. CASE BindPacks(h)
    <2> DEFINE q == [p EXCEPT !.packs = TRUE]
    <2>1. rows[h] # NoProject /\ Edited(h) /\ rows' = [rows EXCEPT ![h] = q] /\ UNCHANGED <<running, ran>>
      BY <1>0, <1>4 DEF BindPacks, Edited
    <2>2. q \in ProjectRows /\ q.status = p.status /\ q.runs = p.runs /\ q.reviews = p.reviews /\ q.history = p.history
      BY <1>1, <2>1 DEF ProjectRows
    <2> HIDE DEF q
    <2> QED BY <1>2, <2>1, <2>2
  <1>5. CASE ArchiveMilestone(h)
    <2> DEFINE q == [p EXCEPT !.archived = TRUE, !.links = {"t1"}]
    <2>1. rows[h] # NoProject /\ Edited(h) /\ rows' = [rows EXCEPT ![h] = q] /\ UNCHANGED <<running, ran>>
      BY <1>0, <1>5 DEF ArchiveMilestone, Edited
    <2>2. q \in ProjectRows /\ q.status = p.status /\ q.runs = p.runs /\ q.reviews = p.reviews /\ q.history = p.history
      BY <1>1, <2>1 DEF ProjectRows, PTasks
    <2> HIDE DEF q
    <2> QED BY <1>2, <2>1, <2>2
  <1>6. ASSUME NEW f \in EditFeatures, EditDefinitions(h, f) PROVE PortabilityInv' /\ LineageStays
    <2> DEFINE q == [p EXCEPT !.defs = p.defs \union {f}]
    <2>1. rows[h] # NoProject /\ Edited(h) /\ rows' = [rows EXCEPT ![h] = q] /\ UNCHANGED <<running, ran>>
      BY <1>0, <1>6 DEF EditDefinitions, Edited
    <2>2. f \in DefinitionFeatures
      BY PortabilityAssumption
    <2>3. q \in ProjectRows /\ q.status = p.status /\ q.runs = p.runs /\ q.reviews = p.reviews /\ q.history = p.history
      BY <1>1, <2>1, <2>2 DEF ProjectRows
    <2> HIDE DEF q
    <2> QED BY <1>2, <2>1, <2>3
  <1>7. ASSUME NEW t \in PTasks, StartRun(h, t) PROVE PortabilityInv' /\ LineageStays
    <2> DEFINE status == [p.status EXCEPT ![t] = "running"]
               hist == [p.history EXCEPT ![t] = "executed"]
               q == [p EXCEPT !.status = status, !.history = hist]
    <2>1. rows[h] # NoProject /\ Edited(h) /\ t \notin running[h] /\ t \notin p.runs
      BY <1>7 DEF StartRun, Edited
    <2>2. rows' = [rows EXCEPT ![h] = q]
      BY <1>0, <1>7 DEF StartRun
    <2>3. /\ running' = [running EXCEPT ![h] = running[h] \union {t}]
          /\ ran' = [ran EXCEPT ![h] = ran[h] \union {t}]
      BY <1>7 DEF StartRun
    <2>4. status \in [PTasks -> {"pending", "running", "completed"}] /\ hist \in [PTasks -> HistoryStates]
      BY <1>1, <2>1 DEF HistoryStates
    <2>5. \A u \in PTasks : /\ hist[u] = IF u = t THEN "executed" ELSE p.history[u]
                            /\ status[u] = IF u = t THEN "running" ELSE p.status[u]
      BY <1>1, <2>1
    <2> HIDE DEF status, hist
    <2>6. q \in ProjectRows /\ q.status = status /\ q.runs = p.runs /\ q.reviews = p.reviews /\ q.history = hist
      BY <1>1, <2>1, <2>4 DEF ProjectRows
    <2> HIDE DEF q
    <2>7. RowsOK(q)
      BY <1>1, <2>1, <2>5, <2>6 DEF RowsOK
    <2>8. EditFrame(h) /\ edits' = edits + 1
      BY <2>1 DEF Edited, EditFrame
    <2>9. /\ running' = [running EXCEPT ![h] = running'[h]] /\ ran' = [ran EXCEPT ![h] = ran'[h]]
          /\ running'[h] = running[h] \union {t} /\ ran'[h] = ran[h] \union {t}
      BY <1>0, <2>3
    <2>10. /\ running'[h] \subseteq PTasks
           /\ \A u \in PTasks : /\ u \in running'[h] => q.history[u] = "executed"
                                /\ q.history[u] = "never" => u \notin ran'[h]
      BY <1>0, <1>1, <2>1, <2>5, <2>6, <2>9
    <2>11. PortabilityInv' /\ HeadExtends /\ ArchivesStay
      BY <2>1, <2>2, <2>7, <2>8, <2>9, <2>10, EditKeeps
    <2> QED BY <2>8, <2>11 DEF LineageStays, NoRestoreOverwrites
  <1>8. ASSUME NEW t \in PTasks, NEW v \in {"none", "pending", "decided"}, EndRun(h, t, v)
        PROVE  PortabilityInv' /\ LineageStays
    <2> DEFINE status == [p.status EXCEPT ![t] = "completed"]
               review == [status |-> v, approval |-> v = "decided"]
               revs == [p.reviews EXCEPT ![t] = review]
               q == [p EXCEPT !.status = status, !.runs = p.runs \union {t}, !.reviews = revs]
    <2>1. rows[h] # NoProject /\ t \in running[h] /\ EditFrame(h)
      BY <1>8 DEF EndRun, EditFrame
    <2>2. rows' = [rows EXCEPT ![h] = q]
      <3>1. rows' = [rows EXCEPT ![h].status[t] = "completed", ![h].runs = @ \union {t},
                                 ![h].reviews[t] = review]
        BY <1>8 DEF EndRun
      <3> HIDE DEF review
      <3>2. rows' = [rows EXCEPT ![h] = [[[p EXCEPT !.status[t] = "completed"] EXCEPT !.runs = @ \union {t}]
                                           EXCEPT !.reviews[t] = review]]
        BY <1>0, <3>1
      <3> QED BY <1>1, <2>1, <3>2
    <2>3. running' = [running EXCEPT ![h] = running[h] \ {t}] /\ ran' = ran
      BY <1>8 DEF EndRun
    <2>4. status \in [PTasks -> {"pending", "running", "completed"}] /\ revs \in [PTasks -> ReviewStates]
      BY <1>1, <2>1 DEF ReviewStates
    <2>5. \A u \in PTasks : /\ revs[u] = IF u = t THEN [status |-> v, approval |-> v = "decided"] ELSE p.reviews[u]
                            /\ status[u] = IF u = t THEN "completed" ELSE p.status[u]
      BY <1>1, <2>1
    <2> HIDE DEF status, revs
    <2>6. q \in ProjectRows /\ q.status = status /\ q.runs = p.runs \union {t} /\ q.reviews = revs /\ q.history = p.history
      BY <1>1, <2>1, <2>4 DEF ProjectRows
    <2> HIDE DEF q
    <2>7. RowsOK(q)
      <3> SUFFICES ASSUME NEW u \in PTasks
                   PROVE  /\ u \in q.runs \/ q.status[u] = "running" => q.history[u] = "executed"
                          /\ u \notin q.runs => q.reviews[u] = NoReview
                          /\ q.reviews[u].approval <=> q.reviews[u].status = "decided"
        BY <2>6 DEF RowsOK
      <3>1. CASE u = t
        <4>1. q.reviews[u] = [status |-> v, approval |-> v = "decided"]
          BY <2>5, <2>6, <3>1
        <4>2. q.reviews[u].status = v /\ q.reviews[u].approval = (v = "decided")
          BY <4>1
        <4>3. u \in q.runs /\ q.history[u] = "executed"
          BY <1>1, <2>1, <2>6, <3>1
        <4> QED BY <4>2, <4>3
      <3>2. CASE u # t
        BY <1>1, <2>1, <2>5, <2>6, <3>2 DEF RowsOK
      <3> QED BY <3>1, <3>2
    <2>8. /\ running' = [running EXCEPT ![h] = running'[h]] /\ ran' = [ran EXCEPT ![h] = ran'[h]]
          /\ running'[h] = running[h] \ {t} /\ ran'[h] = ran[h]
          /\ \A x \in Hosts : x # h => running'[x] = running[x]
      BY <1>0, <2>3
    <2>9. /\ running'[h] \subseteq PTasks
          /\ \A u \in PTasks : /\ u \in running'[h] => q.history[u] = "executed"
                               /\ q.history[u] = "never" => u \notin ran'[h]
      BY <1>0, <1>1, <2>1, <2>6, <2>8
    <2>10. PortabilityInv' /\ HeadExtends /\ ArchivesStay
      BY <2>1, <2>2, <2>7, <2>8, <2>9, EditKeeps
    <2>11. NoRestoreOverwrites
      BY <1>0, <2>1, <2>2, <2>8 DEF NoRestoreOverwrites
    <2> QED BY <2>10, <2>11 DEF LineageStays
  <1> QED BY <1>3, <1>4, <1>5, <1>6, <1>7, <1>8

LEMMA RowsAreStates ==
  ASSUME NEW p \in ProjectRows
  PROVE  p \in PortableStates
  BY DEF ProjectRows, PortableStates

\* When the copies stay, and nothing is held that was not.
LEMMA JobsKeep ==
  ASSUME PortabilityInv, UNCHANGED <<rows, revisions, imported, nextRevision>>,
         UNCHANGED <<head, running, ran, registered>>, ArchivesHeld' \subseteq ArchivesHeld,
         files' = [f \in Files |-> files'[f]], publishing' = [h \in Hosts |-> publishing'[h]],
         restoring' = [r \in Roots |-> restoring'[r]],
         \A r \in Roots : restoring'[r] # NoJob => restoring'[r] = restoring[r]
  PROVE  PortabilityInv' /\ NoRestoreOverwrites /\ HeadExtends
  <1>1. CopiesOK'
    BY DEF PortabilityInv, CopiesOK, CopyOK
  <1>2. \A a \in ArchivesHeld' : ArchiveOK(a)
    BY DEF PortabilityInv, JobsOK
  <1>3. JobsOK'
    BY <1>2 DEF PortabilityInv, JobsOK, ArchiveOK, parsePortableProjectArchive
  <1>4. ClaimsAgree'
    BY RowClaims, ClaimsFrom, ClaimsStay DEF PortabilityInv
  <1> QED BY <1>1, <1>3, <1>4 DEF PortabilityInv, NoRestoreOverwrites, HeadExtends

LEMMA PublishPreserves ==
  ASSUME PortabilityInv, NEW h \in Hosts, Publish(h) \/ PublishFails(h)
  PROVE  PortabilityInv' /\ LineageStays
  <1>1. /\ publishing[h] # NoJob /\ publishing' = [publishing EXCEPT ![h] = NoJob]
        /\ UNCHANGED <<rows, running, revisions, head, registered, restoring, nextRevision, ran, imported>>
        /\ \/ files' = files
           \/ files' = [files EXCEPT ![publishing[h].path] = IF @ = NoFile THEN publishing[h].archive ELSE @]
    BY DEF Publish, PublishFails
  <1>2. /\ files = [f \in Files |-> files[f]] /\ publishing = [x \in Hosts |-> publishing[x]]
        /\ restoring = [r \in Roots |-> restoring[r]]
    BY DEF PortabilityInv, JobsOK
  <1>3. /\ files' = [f \in Files |-> files'[f]]
        /\ \A f \in Files : files'[f] = files[f] \/ (files[f] = NoFile /\ files'[f] = publishing[h].archive)
    BY <1>1, <1>2
  <1>4. /\ publishing' = [x \in Hosts |-> publishing'[x]] /\ publishing'[h] = NoJob
        /\ \A x \in Hosts : publishing'[x] # NoJob => publishing'[x] = publishing[x]
    BY <1>1, <1>2
  <1>5. ArchivesHeld' \subseteq ArchivesHeld
    <2> SUFFICES ASSUME NEW a \in ArchivesHeld' PROVE a \in ArchivesHeld
      OBVIOUS
    <2>1. CASE \E f \in Files : files'[f] # NoFile /\ a = files'[f]
      BY <1>1, <1>3, <2>1 DEF ArchivesHeld
    <2>2. CASE \E x \in Hosts : publishing'[x] # NoJob /\ a = publishing'[x].archive
      BY <1>4, <2>2 DEF ArchivesHeld
    <2>3. CASE \E r \in Roots : restoring'[r] # NoJob /\ a = restoring'[r].archive
      BY <1>1, <2>3 DEF ArchivesHeld
    <2>4. CASE \E x \in Hosts : imported'[x] # NoFile /\ a = imported'[x]
      BY <1>1, <2>4 DEF ArchivesHeld
    <2> QED BY <2>1, <2>2, <2>3, <2>4 DEF ArchivesHeld
  <1>6. PortabilityInv' /\ NoRestoreOverwrites /\ HeadExtends
    BY <1>1, <1>2, <1>3, <1>4, <1>5, JobsKeep
  <1>7. ArchivesStay
    BY <1>3 DEF ArchivesStay
  <1> QED BY <1>6, <1>7 DEF LineageStays

\* A restore begins, is refused, or ends.
LEMMA RestoreGoesOn ==
  ASSUME PortabilityInv, NEW r \in Roots,
         (\E f \in Files : StartRestore(r, f)) \/ RefuseRestore(r) \/ WriteBinding(r) \/ BindingFails(r)
  PROVE  PortabilityInv' /\ LineageStays
  <1>0. /\ files = [f \in Files |-> files[f]] /\ publishing = [h \in Hosts |-> publishing[h]]
        /\ restoring = [x \in Roots |-> restoring[x]]
    BY DEF PortabilityInv, JobsOK
  <1>1. ASSUME NEW f \in Files, StartRestore(r, f) PROVE PortabilityInv' /\ LineageStays
    <2> DEFINE h == HostOf[r] a == files[f]
               entry == [archive |-> a, known |-> rows[h] # NoProject, step |-> "checked"]
    <2>1. /\ a # NoFile /\ parsePortableProjectArchive(a)
          /\ restoring' = [restoring EXCEPT ![r] = entry]
          /\ UNCHANGED <<rows, running, revisions, head, registered, files, publishing, nextRevision, ran, imported>>
      BY <1>1 DEF StartRestore
    <2>2. a \in ArchivesHeld
      BY <2>1 DEF ArchivesHeld
    <2>3. /\ restoring' = [x \in Roots |-> restoring'[x]] /\ restoring'[r] = entry
          /\ \A x \in Roots : x # r => restoring'[x] = restoring[x]
      BY <1>0, <2>1
    <2>4. entry.archive = a /\ entry.known = (rows[h] # NoProject)
          /\ entry = [archive |-> entry.archive, known |-> entry.known, step |-> entry.step]
      OBVIOUS
    <2> HIDE DEF entry, a
    <2>5. ArchivesHeld' \subseteq ArchivesHeld
      <3> SUFFICES ASSUME NEW b \in ArchivesHeld' PROVE b \in ArchivesHeld
        OBVIOUS
      <3>1. CASE \E x \in Roots : restoring'[x] # NoJob /\ b = restoring'[x].archive
        <4> PICK x \in Roots : restoring'[x] # NoJob /\ b = restoring'[x].archive
          BY <3>1
        <4>1. CASE x = r
          BY <2>2, <2>3, <2>4, <4>1
        <4>2. CASE x # r
          BY <2>3, <4>2 DEF ArchivesHeld
        <4> QED BY <4>1, <4>2
      <3>2. CASE b \in {files[g] : g \in {x \in Files : files[x] # NoFile}}
                  \union {publishing[y].archive : y \in {x \in Hosts : publishing[x] # NoJob}}
                  \union {imported[y] : y \in {x \in Hosts : imported[x] # NoFile}}
        BY <3>2 DEF ArchivesHeld
      <3> QED BY <2>1, <3>1, <3>2 DEF ArchivesHeld
    <2>6. CopiesOK'
      BY <2>1 DEF PortabilityInv, CopiesOK, CopyOK
    <2>7. JobsOK'
      <3>1. \A b \in ArchivesHeld' : ArchiveOK(b)
        BY <2>5 DEF PortabilityInv, JobsOK
      <3>2. ASSUME NEW x \in Roots, restoring'[x] # NoJob
            PROVE  /\ restoring'[x] = [archive |-> restoring'[x].archive, known |-> restoring'[x].known,
                                       step |-> restoring'[x].step]
                   /\ parsePortableProjectArchive(restoring'[x].archive)
                   /\ restoring'[x].known => rows[HostOf[x]] # NoProject
        <4>1. CASE x = r
          BY <2>1, <2>3, <2>4, <4>1
        <4>2. CASE x # r
          BY <2>3, <3>2, <4>2 DEF PortabilityInv, JobsOK
        <4> QED BY <4>1, <4>2
      <3> QED BY <2>1, <2>3, <3>1, <3>2 DEF PortabilityInv, JobsOK, ArchiveOK, parsePortableProjectArchive
    <2>8. ClaimsAgree'
      BY <2>1, <2>5, RowClaims, ClaimsFrom, ClaimsStay DEF PortabilityInv
    <2>9. LineageStays
      BY <2>1 DEF LineageStays, NoRestoreOverwrites, HeadExtends, ArchivesStay
    <2> QED BY <2>6, <2>7, <2>8, <2>9 DEF PortabilityInv
  <1>2. CASE RefuseRestore(r) \/ WriteBinding(r) \/ BindingFails(r)
    <2>1. /\ restoring' = [restoring EXCEPT ![r] = NoJob]
          /\ UNCHANGED <<rows, running, revisions, head, registered, files, publishing, nextRevision, ran, imported>>
      BY <1>2 DEF RefuseRestore, WriteBinding, BindingFails
    <2>2. /\ restoring' = [x \in Roots |-> restoring'[x]]
          /\ \A x \in Roots : restoring'[x] # NoJob => restoring'[x] = restoring[x]
      BY <1>0, <2>1
    <2>3. ArchivesHeld' \subseteq ArchivesHeld
      BY <2>1, <2>2 DEF ArchivesHeld
    <2>4. ArchivesStay
      BY <2>1 DEF ArchivesStay
    <2>5. PortabilityInv' /\ NoRestoreOverwrites /\ HeadExtends
      BY <1>0, <2>1, <2>2, <2>3, JobsKeep
    <2> QED BY <2>4, <2>5 DEF LineageStays
  <1> QED BY <1>1, <1>2

\* A backup reuses the head for the state it was taken of, or makes a child.
LEMMA BackupPreserves ==
  ASSUME PortabilityInv, NEW h \in Hosts, NEW f \in Files, Backup(h, f)
  PROVE  PortabilityInv' /\ LineageStays
  <1> DEFINE state == loadPortableState(rows[h])
             same == head[h] # 0 /\ headRevision(h).checksum = state
             rev == IF same THEN headRevision(h)
                    ELSE revision(nextRevision, head[h], state, "local_snapshot")
             version == portableProjectFormatVersionFor(state)
             made == archive(version, rev, selectPortableGitProvenance(h), state, ran[h])
             entry == [path |-> f, archive |-> made]
  <1>1. /\ rows[h] # NoProject /\ publishing' = [publishing EXCEPT ![h] = entry]
        /\ IF same THEN UNCHANGED <<revisions, head, nextRevision>>
           ELSE revisions' = savedRevisions(h, rev) /\ head' = [head EXCEPT ![h] = rev.id]
                  /\ nextRevision' = nextRevision + 1
        /\ UNCHANGED <<rows, running, registered, files, restoring, ran, imported>>
    BY DEF Backup
  <1>2. /\ RowsOK(rows[h]) /\ state = rows[h] /\ state \in ProjectRows /\ CopyOK(h)
        /\ publishing = [x \in Hosts |-> publishing[x]] /\ head = [x \in Hosts |-> head[x]]
        /\ revisions = [x \in Hosts |-> revisions[x]] /\ nextRevision \in Nat
    BY <1>1, LoadedIsRows DEF PortabilityInv, CopiesOK, CopyOK, JobsOK, ClaimsAgree, RowsOK
  <1>3. /\ made.id = rev.id /\ made.parent = rev.parent /\ made.state = state /\ made.ran = ran[h]
        /\ made.version = version /\ entry.archive = made
    BY DEF archive
  <1> HIDE DEF made
  <1>4. ArchiveOK(made)
    <2>1. version \in FormatVersions
      BY <1>2, VersionFits DEF FormatVersions
    <2>2. restoredHistory(state) = state.history
      <3>1. restoredRows(state) = state
        BY <1>2, RestoredAreRows
      <3>2. restoredRows(state).history = restoredHistory(state)
        <4>1. DOMAIN state = {"status", "runs", "reviews", "archived", "links", "edges", "history", "packs", "defs"}
          BY <1>2 DEF ProjectRows
        <4> HIDE DEF state
        <4> QED BY <4>1 DEF restoredRows
      <3> QED BY <3>1, <3>2
    <2>3. \A t \in PTasks : state.history[t] = "never" => t \notin ran[h]
      BY <1>1, <1>2 DEF CopyOK
    <2> HIDE DEF state, version
    <2> QED BY <1>2, <1>3, <2>1, <2>2, <2>3, RowsAreStates DEF ArchiveOK
  <1>5. /\ publishing' = [x \in Hosts |-> publishing'[x]] /\ publishing'[h] = entry
        /\ \A x \in Hosts : x # h => publishing'[x] = publishing[x]
    BY <1>1, <1>2
  <1> HIDE DEF entry
  <1>6. \A a \in ArchivesHeld' : a \in ArchivesHeld \/ a = made
    <2> SUFFICES ASSUME NEW a \in ArchivesHeld' PROVE a \in ArchivesHeld \/ a = made
      OBVIOUS
    <2>1. CASE \E x \in Hosts : publishing'[x] # NoJob /\ a = publishing'[x].archive
      <3> PICK x \in Hosts : publishing'[x] # NoJob /\ a = publishing'[x].archive
        BY <2>1
      <3>1. CASE x = h
        BY <1>3, <1>5, <3>1
      <3>2. CASE x # h
        BY <1>5, <3>2 DEF ArchivesHeld
      <3> QED BY <3>1, <3>2
    <2>2. CASE a \in {files[g] : g \in {x \in Files : files[x] # NoFile}}
                  \union {restoring[y].archive : y \in {x \in Roots : restoring[x] # NoJob}}
                  \union {imported[y] : y \in {x \in Hosts : imported[x] # NoFile}}
      BY <2>2 DEF ArchivesHeld
    <2> QED BY <1>1, <2>1, <2>2 DEF ArchivesHeld
  <1>7. JobsOK'
    <2>1. \A a \in ArchivesHeld' : ArchiveOK(a)
      BY <1>4, <1>6 DEF PortabilityInv, JobsOK
    <2> HIDE DEF state, version, rev, same
    <2> QED BY <1>1, <1>5, <2>1 DEF PortabilityInv, JobsOK, ArchiveOK, parsePortableProjectArchive
  <1>8. NoRestoreOverwrites /\ ArchivesStay
    BY <1>1 DEF NoRestoreOverwrites, ArchivesStay
  <1>9. CASE same
    <2>1. UNCHANGED <<revisions, head, nextRevision>> /\ rev = headRevision(h)
      BY <1>1, <1>9
    <2>2. rev \in revisions[h] /\ rev.checksum = state
      BY <1>9, <2>1, HeadIsKnown DEF PortabilityInv
    <2> HIDE DEF rev, state, same
    <2>3. CopiesOK'
      BY <1>1, <2>1 DEF PortabilityInv, CopiesOK, CopyOK
    <2>4. <<made.id, made.parent, made.state>> \in Claims
      BY <1>3, <2>2, RowClaims
    <2>5. Claims' \subseteq Claims
      BY <1>6, <2>1, <2>4, HeldClaims DEF Claims
    <2>6. ClaimsAgree'
      BY <2>1, <2>5, ClaimsStay DEF PortabilityInv
    <2> QED BY <1>7, <1>8, <2>1, <2>3, <2>6 DEF PortabilityInv, LineageStays, HeadExtends
  <1>10. CASE ~same
    <2>1. /\ rev = revision(nextRevision, head[h], state, "local_snapshot")
          /\ revisions' = savedRevisions(h, rev) /\ head' = [head EXCEPT ![h] = rev.id]
          /\ nextRevision' = nextRevision + 1
      BY <1>1, <1>10
    <2>2. rev.id = nextRevision /\ rev.parent = head[h] /\ rev.checksum = state
      BY <2>1 DEF revision
    <2> HIDE DEF rev, state, same
    <2>3. \A x \in revisions[h] : x.id # nextRevision
      <3> SUFFICES ASSUME NEW x \in revisions[h] PROVE x.id # nextRevision
        OBVIOUS
      <3> DEFINE c == <<x.id, x.parent, x.checksum>>
      <3>1. c \in Claims /\ c[1] = x.id
        BY RowClaims
      <3> HIDE DEF c
      <3>2. c[1] \in Nat /\ c[1] < nextRevision
        BY <3>1 DEF PortabilityInv, ClaimsAgree
      <3> QED BY <1>2, <3>1, <3>2
    <2>4. /\ revisions' = [x \in Hosts |-> revisions'[x]] /\ revisions'[h] = revisions[h] \union {rev}
          /\ \A x \in Hosts : x # h => revisions'[x] = revisions[x]
      BY <1>2, <2>1, <2>2, <2>3 DEF savedRevisions
    <2>5. /\ head' = [x \in Hosts |-> head'[x]] /\ head'[h] = nextRevision
          /\ \A x \in Hosts : x # h => head'[x] = head[x]
      BY <1>2, <2>1, <2>2
    <2>6. CopiesOK'
      <3> SUFFICES ASSUME NEW x \in Hosts PROVE CopyOK(x)'
        BY <1>1, <2>4, <2>5 DEF PortabilityInv, CopiesOK
      <3>1. CopyOK(x)
        BY DEF PortabilityInv, CopiesOK
      <3>2. CASE x = h
        BY <1>1, <2>2, <2>4, <2>5, <3>1, <3>2 DEF CopyOK
      <3>3. CASE x # h
        <4>1. revisions'[x] = revisions[x] /\ head'[x] = head[x]
          BY <2>4, <2>5, <3>3
        <4> QED BY <1>1, <3>1, <4>1 DEF CopyOK
      <3> QED BY <3>2, <3>3
    <2> DEFINE new == <<nextRevision, head[h], state>>
    <2>7. Claims' \subseteq Claims \union {new}
      <3> SUFFICES ASSUME NEW c \in Claims' PROVE c \in Claims \/ c = new
        OBVIOUS
      <3>1. ASSUME NEW x \in Hosts, NEW y \in revisions'[x], c = <<y.id, y.parent, y.checksum>>
            PROVE  c \in Claims \/ c = new
        <4>1. CASE y \in revisions[x]
          BY <3>1, <4>1, RowClaims
        <4>2. CASE y = rev
          BY <2>2, <3>1, <4>2
        <4> QED BY <2>4, <4>1, <4>2
      <3>2. ASSUME NEW a \in ArchivesHeld', c = <<a.id, a.parent, a.state>>
            PROVE  c \in Claims \/ c = new
        <4>1. CASE a \in ArchivesHeld
          BY <3>2, <4>1, HeldClaims
        <4>2. CASE a = made
          BY <1>3, <2>2, <3>2, <4>2
        <4> QED BY <1>6, <4>1, <4>2
      <3> QED BY <3>1, <3>2 DEF Claims
    <2>8. ClaimsAgree'
      BY <2>1, <2>7, ClaimsGrow DEF PortabilityInv
    <2>9. HeadExtends
      BY <2>2, <2>4, <2>5 DEF HeadExtends
    <2> QED BY <1>7, <1>8, <2>6, <2>8, <2>9 DEF PortabilityInv, LineageStays
  <1> QED BY <1>9, <1>10

\* The transaction of a restore.
LEMMA CommitPreservesCopies ==
  ASSUME PortabilityInv, NEW r \in Roots, CommitRestore(r)
  PROVE  PortabilityInv' /\ LineageStays
  <1> DEFINE h == HostOf[r] entry == restoring[r] a == entry.archive
             done == [archive |-> a, known |-> entry.known, step |-> "committed"]
             saved == savedRevisions(h, importedRevision(a))
  <1>1. /\ entry # NoJob
        /\ IF entry.known THEN restoreAttaches(h, a) ELSE restoreCreates(h, a)
        /\ registered' = [registered EXCEPT ![r] = Ours]
        /\ restoring' = [restoring EXCEPT ![r].step = "committed"]
        /\ UNCHANGED <<running, files, publishing, nextRevision>>
    BY DEF CommitRestore
  <1>2. /\ h \in Hosts /\ CopyOK(h) /\ a \in ArchivesHeld /\ ArchiveOK(a) /\ parsePortableProjectArchive(a)
        /\ entry = [archive |-> a, known |-> entry.known, step |-> entry.step]
        /\ entry.known => rows[h] # NoProject
    BY <1>1, PortabilityAssumption DEF PortabilityInv, CopiesOK, JobsOK, ArchivesHeld
  <1>3. /\ rows = [x \in Hosts |-> rows[x]] /\ revisions = [x \in Hosts |-> revisions[x]]
        /\ head = [x \in Hosts |-> head[x]] /\ ran = [x \in Hosts |-> ran[x]]
        /\ registered = [x \in Roots |-> registered[x]] /\ restoring = [x \in Roots |-> restoring[x]]
        /\ imported = [x \in Hosts |-> imported[x]] /\ running = [x \in Hosts |-> running[x]]
    BY DEF PortabilityInv, CopiesOK, JobsOK
  <1>4. /\ restoring' = [x \in Roots |-> restoring'[x]] /\ restoring'[r] = done
        /\ \A x \in Roots : x # r => restoring'[x] = restoring[x]
    <2> HIDE DEF a
    <2>1. [entry EXCEPT !.step = "committed"] = done
      <3> HIDE DEF entry
      <3> QED BY <1>2
    <2>2. restoring'[r] = [entry EXCEPT !.step = "committed"]
      BY <1>1, <1>3
    <2>3. \A x \in Roots : x # r => restoring'[x] = restoring[x]
      BY <1>1, <1>3
    <2>4. restoring' = [x \in Roots |-> restoring'[x]]
      BY <1>1, <1>3
    <2> QED BY <2>1, <2>2, <2>3, <2>4
  <1>5. /\ registered' = [x \in Roots |-> registered'[x]]
        /\ \A x \in Roots : HostOf[x] # h => registered'[x] = registered[x]
    BY <1>1, <1>3
  <1>6. /\ importedRevision(a).id = a.id /\ importedRevision(a).parent = a.parent
        /\ importedRevision(a).checksum = a.state
    BY DEF importedRevision, revision
  <1>7. done.archive = a /\ done.known = entry.known
        /\ done = [archive |-> done.archive, known |-> done.known, step |-> done.step]
    OBVIOUS
  <1> HIDE DEF done, a, entry, h
  <1>8. /\ saved = [x \in Hosts |-> saved[x]] /\ \A x \in Hosts : x # h => saved[x] = revisions[x]
        /\ saved[h] = revisions[h] \/ saved[h] = revisions[h] \union {importedRevision(a)}
        /\ \E x \in saved[h] : x.id = a.id
        /\ \A x \in Hosts : \A y \in saved[x] : <<y.id, y.parent, y.checksum>> \in Claims
    <2>1. /\ saved = [x \in Hosts |-> saved[x]] /\ \A x \in Hosts : x # h => saved[x] = revisions[x]
          /\ saved[h] = IF \E x \in revisions[h] : x.id = importedRevision(a).id THEN revisions[h]
                        ELSE revisions[h] \union {importedRevision(a)}
      BY <1>2, <1>3 DEF savedRevisions
    <2>2. saved[h] = revisions[h] \/ saved[h] = revisions[h] \union {importedRevision(a)}
      BY <2>1
    <2>3. \E x \in saved[h] : x.id = a.id
      BY <1>6, <2>1
    <2>4. ASSUME NEW x \in Hosts, NEW y \in saved[x] PROVE <<y.id, y.parent, y.checksum>> \in Claims
      <3>1. y \in revisions[x] \/ y = importedRevision(a)
        BY <2>1, <2>2
      <3>2. CASE y \in revisions[x]
        BY <3>2, RowClaims
      <3>3. CASE y = importedRevision(a)
        BY <1>2, <1>6, <3>3, HeldClaims
      <3> QED BY <3>1, <3>2, <3>3
    <2> QED BY <2>1, <2>2, <2>3, <2>4
  <1> HIDE DEF saved
  \* No archive appears: the copy's source is the one that was being restored.
  <1>9. ASSUME imported' = imported \/ imported' = [imported EXCEPT ![h] = a] PROVE ArchivesHeld' \subseteq ArchivesHeld
    <2> SUFFICES ASSUME NEW b \in ArchivesHeld' PROVE b \in ArchivesHeld
      OBVIOUS
    <2>1. CASE \E x \in Roots : restoring'[x] # NoJob /\ b = restoring'[x].archive
      <3> PICK x \in Roots : restoring'[x] # NoJob /\ b = restoring'[x].archive
        BY <2>1
      <3>1. CASE x = r
        BY <1>2, <1>4, <1>7, <3>1
      <3>2. CASE x # r
        BY <1>4, <3>2 DEF ArchivesHeld
      <3> QED BY <3>1, <3>2
    <2>2. CASE \E x \in Hosts : imported'[x] # NoFile /\ b = imported'[x]
      <3> PICK x \in Hosts : imported'[x] # NoFile /\ b = imported'[x]
        BY <2>2
      <3>1. imported'[x] = imported[x] \/ imported'[x] = a
        BY <1>3, <1>9
      <3> QED BY <1>2, <3>1 DEF ArchivesHeld
    <2>3. CASE b \in {files[g] : g \in {x \in Files : files[x] # NoFile}}
                  \union {publishing[y].archive : y \in {x \in Hosts : publishing[x] # NoJob}}
      BY <2>3 DEF ArchivesHeld
    <2> QED BY <1>1, <2>1, <2>2, <2>3 DEF ArchivesHeld
  <1>10. ArchivesStay
    BY <1>1 DEF ArchivesStay
  <1>11. ASSUME NEW x \in Roots, restoring'[x] # NoJob, \A y \in Hosts : rows[y] # NoProject => rows'[y] # NoProject
         PROVE  /\ restoring'[x] = [archive |-> restoring'[x].archive, known |-> restoring'[x].known,
                                    step |-> restoring'[x].step]
                /\ parsePortableProjectArchive(restoring'[x].archive)
                /\ restoring'[x].known => rows'[HostOf[x]] # NoProject
    <2>1. HostOf[x] \in Hosts
      BY PortabilityAssumption
    <2>2. CASE x = r
      BY <1>2, <1>4, <1>7, <1>11, <2>2 DEF h
    <2>3. CASE x # r
      BY <1>4, <1>11, <2>1, <2>3 DEF PortabilityInv, JobsOK
    <2> QED BY <2>2, <2>3
  <1>12. CASE entry.known
    <2>1. /\ UNCHANGED <<rows, ran, imported>> /\ rows[h] # NoProject
          /\ \/ UNCHANGED <<revisions, head>>
             \/ head[h] = 0 /\ revisions' = saved /\ head' = [head EXCEPT ![h] = a.id]
      BY <1>1, <1>2, <1>12 DEF restoreAttaches, saved
    <2>2. /\ revisions' = [x \in Hosts |-> revisions'[x]] /\ head' = [x \in Hosts |-> head'[x]]
          /\ \A x \in Hosts : x # h => revisions'[x] = revisions[x] /\ head'[x] = head[x]
          /\ head'[h] # 0 => \E x \in revisions'[h] : x.id = head'[h]
          /\ head[h] # 0 => head'[h] = head[h]
          /\ \A x \in Hosts : \A y \in revisions'[x] : <<y.id, y.parent, y.checksum>> \in Claims
      <3>1. CASE UNCHANGED <<revisions, head>>
        BY <1>2, <1>3, <3>1, RowClaims DEF CopyOK
      <3>2. CASE head[h] = 0 /\ revisions' = saved /\ head' = [head EXCEPT ![h] = a.id]
        <4>1. head' = [x \in Hosts |-> head'[x]] /\ head'[h] = a.id /\ \A x \in Hosts : x # h => head'[x] = head[x]
          BY <1>2, <1>3, <3>2
        <4> QED BY <1>8, <3>2, <4>1
      <3> QED BY <2>1, <3>1, <3>2
    <2>3. CopiesOK'
      <3> SUFFICES ASSUME NEW x \in Hosts PROVE CopyOK(x)'
        BY <1>1, <1>3, <1>5, <2>1, <2>2 DEF CopiesOK
      <3>1. CopyOK(x)
        BY DEF PortabilityInv, CopiesOK
      <3>2. CASE x = h
        BY <1>1, <2>1, <2>2, <3>1, <3>2 DEF CopyOK
      <3>3. CASE x # h
        <4>1. revisions'[x] = revisions[x] /\ head'[x] = head[x]
          BY <2>2, <3>3
        <4> QED BY <1>1, <1>5, <2>1, <3>1, <3>3, <4>1 DEF CopyOK
      <3> QED BY <3>2, <3>3
    <2>4. ArchivesHeld' \subseteq ArchivesHeld
      BY <1>9, <2>1
    <2>5. JobsOK'
      <3>1. \A b \in ArchivesHeld' : ArchiveOK(b)
        BY <2>4 DEF PortabilityInv, JobsOK
      <3> QED BY <1>1, <1>4, <1>11, <2>1, <3>1 DEF PortabilityInv, JobsOK, ArchiveOK, parsePortableProjectArchive
    <2>6. ClaimsAgree'
      BY <1>1, <2>2, <2>4, ClaimsFrom, ClaimsStay DEF PortabilityInv
    <2>7. NoRestoreOverwrites /\ HeadExtends
      BY <2>1, <2>2 DEF NoRestoreOverwrites, HeadExtends
    <2> QED BY <1>10, <2>3, <2>5, <2>6, <2>7 DEF PortabilityInv, LineageStays
  <1>13. CASE ~entry.known
    <2> DEFINE p == restoredRows(a.state)
    <2>1. /\ rows[h] = NoProject /\ restorePortableState(a.state)
          /\ rows' = [rows EXCEPT ![h] = p] /\ ran' = [ran EXCEPT ![h] = a.ran]
          /\ imported' = [imported EXCEPT ![h] = a] /\ revisions' = saved /\ head' = [head EXCEPT ![h] = a.id]
      BY <1>1, <1>13 DEF restoreCreates, saved
    <2>2. RowsOK(p) /\ p # NoProject /\ p.history = restoredHistory(a.state)
          /\ portableStateAtFormatVersion(loadPortableState(p), a.version) = a.state
      <3>1. a.state \in PortableStates /\ a.version \in FormatVersions
        BY <1>2 DEF ArchiveOK
      <3>2. portableProjectStateShape(a.version, a.state) /\ referentialClosure(a.state)
        BY <1>2 DEF parsePortableProjectArchive
      <3>3. RowsOK(p) /\ portableStateAtFormatVersion(loadPortableState(p), a.version) = a.state
        BY <2>1, <3>1, <3>2, RestoreMakesRows, RestoredAtVersion
      <3>4. p # NoProject
        BY <3>3, PortabilityAssumption DEF RowsOK
      <3>5. p.history = restoredHistory(a.state)
        <4>1. DOMAIN a.state = {"status", "runs", "reviews", "archived", "links", "edges", "history", "packs", "defs"}
          BY <3>1 DEF PortableStates
        <4> QED BY <4>1 DEF restoredRows
      <3> QED BY <3>3, <3>4, <3>5
    <2> HIDE DEF p
    <2>3. /\ rows' = [x \in Hosts |-> rows'[x]] /\ rows'[h] = p /\ \A x \in Hosts : x # h => rows'[x] = rows[x]
          /\ ran' = [x \in Hosts |-> ran'[x]] /\ ran'[h] = a.ran /\ \A x \in Hosts : x # h => ran'[x] = ran[x]
          /\ imported' = [x \in Hosts |-> imported'[x]] /\ imported'[h] = a
          /\ \A x \in Hosts : x # h => imported'[x] = imported[x]
          /\ head' = [x \in Hosts |-> head'[x]] /\ head'[h] = a.id /\ \A x \in Hosts : x # h => head'[x] = head[x]
      BY <1>2, <1>3, <2>1
    <2>4. CopiesOK'
      <3> SUFFICES ASSUME NEW x \in Hosts PROVE CopyOK(x)'
        BY <1>1, <1>3, <1>5, <1>8, <2>1, <2>3 DEF CopiesOK
      <3>1. CopyOK(x)
        BY DEF PortabilityInv, CopiesOK
      <3>2. CASE x = h
        <4>1. running[h] = {} /\ rows'[h] = p /\ ran'[h] = a.ran /\ head'[h] = a.id
          BY <1>2, <2>1, <2>3 DEF CopyOK
        <4>2. \A t \in PTasks : p.history[t] = "never" => t \notin a.ran
          BY <1>2, <2>2 DEF ArchiveOK
        <4>3. \E y \in revisions'[h] : y.id = head'[h]
          BY <1>8, <2>1, <4>1
        <4> QED BY <1>1, <2>2, <3>2, <4>1, <4>2, <4>3 DEF CopyOK
      <3>3. CASE x # h
        <4>1. /\ rows'[x] = rows[x] /\ ran'[x] = ran[x] /\ head'[x] = head[x] /\ revisions'[x] = revisions[x]
              /\ running'[x] = running[x]
          BY <1>1, <1>8, <2>1, <2>3, <3>3
        <4> QED BY <1>5, <3>1, <3>3, <4>1 DEF CopyOK
      <3> QED BY <3>2, <3>3
    <2>5. ArchivesHeld' \subseteq ArchivesHeld
      BY <1>9, <2>1
    <2>6. JobsOK'
      <3>1. \A b \in ArchivesHeld' : ArchiveOK(b)
        BY <2>5 DEF PortabilityInv, JobsOK
      <3>2. \A y \in Hosts : rows[y] # NoProject => rows'[y] # NoProject
        BY <2>1, <2>3
      <3>3. ASSUME NEW x \in Hosts, imported'[x] # NoFile
            PROVE  /\ rows'[x] # NoProject
                   /\ portableStateAtFormatVersion(loadPortableState(rows'[x]), imported'[x].version) = imported'[x].state
        <4>1. CASE x = h
          BY <2>2, <2>3, <4>1
        <4>2. CASE x # h
          <5>1. rows'[x] = rows[x] /\ imported'[x] = imported[x]
            BY <2>3, <4>2
          <5> QED BY <3>3, <5>1 DEF PortabilityInv, JobsOK
        <4> QED BY <4>1, <4>2
      <3>4. files' = [g \in Files |-> files'[g]] /\ publishing' = [x \in Hosts |-> publishing'[x]]
        BY <1>1 DEF PortabilityInv, JobsOK
      <3>5. \A x \in Roots : restoring'[x] # NoJob =>
              /\ restoring'[x] = [archive |-> restoring'[x].archive, known |-> restoring'[x].known,
                                  step |-> restoring'[x].step]
              /\ parsePortableProjectArchive(restoring'[x].archive)
              /\ restoring'[x].known => rows'[HostOf[x]] # NoProject
        BY <1>11, <3>2
      <3> QED BY <1>4, <2>3, <3>1, <3>3, <3>4, <3>5 DEF JobsOK, ArchiveOK, parsePortableProjectArchive
    <2>7. ClaimsAgree'
      BY <1>1, <1>8, <2>1, <2>5, ClaimsFrom, ClaimsStay DEF PortabilityInv
    <2>8. NoRestoreOverwrites
      BY <2>1, <2>3 DEF NoRestoreOverwrites
    <2>9. HeadExtends
      <3>1. head[h] = 0
        BY <1>2, <2>1 DEF CopyOK
      <3> QED BY <2>3, <3>1 DEF HeadExtends
    <2> QED BY <1>10, <2>4, <2>6, <2>7, <2>8, <2>9 DEF PortabilityInv, LineageStays
  <1> QED BY <1>12, <1>13

LEMMA PortabilityInitInv == PortabilityInit => PortabilityInv
  <1> SUFFICES ASSUME PortabilityInit PROVE PortabilityInv
    OBVIOUS
  <1>1. HostOf[FirstRoot] \in Hosts /\ \A r \in Roots : HostOf[r] \in Hosts
    BY PortabilityAssumption
  <1>2. PICK bound \in BOOLEAN :
          rows = [h \in Hosts |-> IF h = HostOf[FirstRoot] THEN [NewRows EXCEPT !.packs = bound] ELSE NoProject]
    BY DEF PortabilityInit
  <1> DEFINE p == [NewRows EXCEPT !.packs = bound]
  <1>3. NewRows \in ProjectRows
    BY DEF NewRows, NoReview, ReviewStates, ProjectRows, HistoryStates
  <1>4. RowsOK(p) /\ p.history = [t \in PTasks |-> "never"]
    <2>1. p \in ProjectRows /\ p.status = NewRows.status /\ p.runs = NewRows.runs /\ p.reviews = NewRows.reviews
          /\ p.history = NewRows.history
      BY <1>3 DEF ProjectRows
    <2> HIDE DEF p
    <2>2. ~NoReview.approval /\ NoReview.status = "none"
      BY DEF NoReview
    <2>3. /\ NewRows.status = [t \in PTasks |-> "pending"] /\ NewRows.runs = {}
          /\ NewRows.reviews = [t \in PTasks |-> NoReview] /\ NewRows.history = [t \in PTasks |-> "never"]
      BY DEF NewRows
    <2> QED BY <2>1, <2>2, <2>3 DEF RowsOK
  <1> HIDE DEF p
  <1>5. /\ running = [h \in Hosts |-> {}] /\ revisions = [h \in Hosts |-> {}] /\ head = [h \in Hosts |-> 0]
        /\ publishing = [h \in Hosts |-> NoJob] /\ restoring = [r \in Roots |-> NoJob] /\ nextRevision = 2
        /\ ran = [h \in Hosts |-> {}] /\ imported = [h \in Hosts |-> NoFile]
        /\ registered = [r \in Roots |-> IF r = FirstRoot THEN Ours
                        ELSE IF anchor[r] = Other THEN Other ELSE Nothing]
    BY DEF PortabilityInit
  <1>6. CopiesOK
    <2>1. /\ rows = [h \in Hosts |-> rows[h]] /\ running = [h \in Hosts |-> running[h]]
          /\ revisions = [h \in Hosts |-> revisions[h]] /\ head = [h \in Hosts |-> head[h]]
          /\ ran = [h \in Hosts |-> ran[h]] /\ registered = [r \in Roots |-> registered[r]]
      BY <1>2, <1>5
    <2>2. ASSUME NEW h \in Hosts PROVE CopyOK(h)
      <3>1. CASE h = HostOf[FirstRoot]
        <4>1. rows[h] = p /\ p # NoProject
          BY <1>2, <1>4, <3>1, PortabilityAssumption DEF RowsOK, p
        <4> QED BY <1>4, <1>5, <4>1 DEF CopyOK
      <3>2. CASE h # HostOf[FirstRoot]
        <4>1. \A r \in Roots : HostOf[r] = h => registered[r] # Ours
          BY <1>5, <3>2 DEF Ours, Other, Nothing
        <4>2. rows[h] = NoProject
          BY <1>2, <3>2
        <4> QED BY <1>5, <4>1, <4>2 DEF CopyOK
      <3> QED BY <3>1, <3>2
    <2> QED BY <2>1, <2>2 DEF CopiesOK
  <1>7. PICK f \in Files, a \in LegacyArchives \union {NoFile} : files = [x \in Files |-> IF x = f THEN a ELSE NoFile]
    BY DEF PortabilityInit
  <1>8. \A b \in ArchivesHeld : b = a /\ a \in LegacyArchives
    BY <1>5, <1>7 DEF ArchivesHeld
  <1>9. JobsOK
    <2>1. ASSUME NEW b \in ArchivesHeld PROVE ArchiveOK(b)
      BY <1>8, LegacyAssumption DEF ArchiveOK, restoredHistory
    <2> QED BY <1>5, <1>7, <2>1 DEF JobsOK
  <1>10. ClaimsAgree
    <2>1. \A c \in Claims : c = <<a.id, a.parent, a.state>> /\ a.id = 1
      BY <1>5, <1>8, LegacyAssumption DEF Claims
    <2> QED BY <1>5, <2>1 DEF ClaimsAgree
  <1> QED BY <1>6, <1>9, <1>10 DEF PortabilityInv

LEMMA PortabilityStep ==
  PortabilityInv /\ [PortabilityNext]_portabilityVars => PortabilityInv' /\ [LineageStays]_portabilityVars
  <1> SUFFICES ASSUME PortabilityInv, [PortabilityNext]_portabilityVars
               PROVE  PortabilityInv' /\ [LineageStays]_portabilityVars
    OBVIOUS
  <1>1. CASE UNCHANGED portabilityVars
    <2>1. CopiesOK'
      BY <1>1 DEF portabilityVars, PortabilityInv, CopiesOK, CopyOK
    <2>2. ArchivesHeld' = ArchivesHeld
      BY <1>1 DEF portabilityVars, ArchivesHeld
    <2>3. JobsOK'
      <3>1. \A a \in ArchivesHeld' : ArchiveOK(a)
        BY <2>2 DEF PortabilityInv, JobsOK
      <3> QED BY <1>1, <3>1 DEF portabilityVars, PortabilityInv, JobsOK, ArchiveOK, parsePortableProjectArchive
    <2>4. ClaimsAgree'
      BY <1>1, <2>2, RowClaims, ClaimsFrom, ClaimsStay DEF PortabilityInv, portabilityVars
    <2> QED BY <1>1, <2>1, <2>3, <2>4 DEF PortabilityInv
  <1>2. CASE PortabilityNext
    BY <1>2, EditsPreserve, BackupPreserves, PublishPreserves, RestoreGoesOn, CommitPreservesCopies
       DEF PortabilityNext
  <1> QED BY <1>1, <1>2

LEMMA PortabilityImplies == PortabilityInv => PortabilitySafety
  <1> SUFFICES ASSUME PortabilityInv PROVE PortabilitySafety
    OBVIOUS
  <1>1. PortabilityTypeOK
    BY DEF PortabilityTypeOK, PortabilityInv, CopiesOK, CopyOK, RowsOK
  <1>2. RevisionsAgree
    <2> DEFINE known == (UNION {revisions[h] : h \in Hosts})
                   \union {importedRevision(files[f]) : f \in {g \in Files : files[g] # NoFile}}
    <2>1. ASSUME NEW x \in known PROVE <<x.id, x.parent, x.checksum>> \in Claims
      <3>0. (\E h \in Hosts : x \in revisions[h])
              \/ (\E f \in Files : files[f] # NoFile /\ x = importedRevision(files[f]))
        <4>1. x \in UNION {revisions[h] : h \in Hosts}
                \/ x \in {importedRevision(files[f]) : f \in {g \in Files : files[g] # NoFile}}
          BY <2>1
        <4>2. CASE x \in {importedRevision(files[f]) : f \in {g \in Files : files[g] # NoFile}}
          BY <4>2
        <4>3. CASE x \in UNION {revisions[h] : h \in Hosts}
          BY <4>3
        <4> QED BY <4>1, <4>2, <4>3
      <3>1. CASE \E h \in Hosts : x \in revisions[h]
        BY <3>1, RowClaims
      <3>2. CASE \E f \in Files : files[f] # NoFile /\ x = importedRevision(files[f])
        <4> PICK f \in Files : files[f] # NoFile /\ x = importedRevision(files[f])
          BY <3>2
        <4>1. files[f] \in ArchivesHeld
          BY DEF ArchivesHeld
        <4>2. x.id = files[f].id /\ x.parent = files[f].parent /\ x.checksum = files[f].state
          BY DEF importedRevision, revision
        <4>3. <<x.id, x.parent, x.checksum>> = <<files[f].id, files[f].parent, files[f].state>>
          BY <4>2
        <4> QED BY <4>1, <4>3, HeldClaims
      <3> QED BY <3>0, <3>1, <3>2
    <2>2. ASSUME NEW x \in known, NEW y \in known, x.id = y.id PROVE x.parent = y.parent /\ x.checksum = y.checksum
      <3> DEFINE c == <<x.id, x.parent, x.checksum>> d == <<y.id, y.parent, y.checksum>>
      <3>1. c = d
        <4>1. c \in Claims /\ d \in Claims /\ c[1] = d[1]
          BY <2>1, <2>2
        <4> HIDE DEF c, d
        <4> QED BY <4>1 DEF PortabilityInv, ClaimsAgree
      <3> QED BY <3>1
    <2> QED BY <2>2 DEF RevisionsAgree
  <1>3. SnapshotsTravel
    <2> SUFFICES ASSUME NEW h \in Hosts, rows[h] # NoProject
                 PROVE  LET state == loadPortableState(rows[h])
                            version == portableProjectFormatVersionFor(state)
                        IN  /\ createPortableProjectArchive(version, state)
                            /\ \A v \in 1..(version - 1) : ~portableProjectStateShape(v, state)
                            /\ restorePortableState(state)
                            /\ restoredRows(state) = rows[h]
      BY DEF SnapshotsTravel
    <2> DEFINE p == rows[h] version == portableProjectFormatVersionFor(p)
    <2>1. RowsOK(p) /\ p \in ProjectRows
      BY DEF PortabilityInv, CopiesOK, CopyOK, RowsOK
    <2> HIDE DEF p
    <2>2. loadPortableState(p) = p /\ restoredRows(p) = p /\ restorePortableState(p) /\ referentialClosure(p)
      BY <2>1, LoadedIsRows, RestoredAreRows
    <2>3. /\ version \in 6 .. 11 /\ portableProjectStateShape(version, p)
          /\ \A w \in 1 .. (version - 1) : ~portableProjectStateShape(w, p)
      BY <2>1, VersionFits
    <2>4. createPortableProjectArchive(version, p)
      <3> HIDE DEF version
      <3>1. version >= version
        BY <2>3
      <3> QED BY <2>2, <2>3, <3>1 DEF createPortableProjectArchive, version
    <2> QED BY <2>2, <2>3, <2>4 DEF p
  <1>4. NeverMeansNever
    BY DEF NeverMeansNever, PortabilityInv, CopiesOK, CopyOK
  <1>5. RestoreRepeats
    <2> SUFFICES ASSUME NEW h \in Hosts, imported[h] # NoFile
                 PROVE  /\ portableStateAtFormatVersion(loadPortableState(rows[h]), imported[h].version) = imported[h].state
                        /\ head[h] = imported[h].id => localMatches(h, imported[h])
      BY DEF RestoreRepeats
    <2>1. portableStateAtFormatVersion(loadPortableState(rows[h]), imported[h].version) = imported[h].state
      BY DEF PortabilityInv, JobsOK
    <2>2. ASSUME head[h] = imported[h].id, head[h] # 0 PROVE headRevision(h).parent = imported[h].parent
      <3> DEFINE a == imported[h] x == headRevision(h)
                 c == <<a.id, a.parent, a.state>> d == <<x.id, x.parent, x.checksum>>
      <3>1. x \in revisions[h] /\ x.id = head[h] /\ a \in ArchivesHeld
        BY <2>2, HeadIsKnown DEF PortabilityInv, ArchivesHeld
      <3>2. c = d
        <4>1. c \in Claims /\ d \in Claims /\ c[1] = d[1]
          BY <2>2, <3>1, RowClaims, HeldClaims
        <4> HIDE DEF c, d
        <4> QED BY <4>1 DEF PortabilityInv, ClaimsAgree
      <3> QED BY <3>2
    <2> QED BY <2>1, <2>2 DEF localMatches
  <1> QED BY <1>1, <1>2, <1>3, <1>4, <1>5 DEF PortabilitySafety

\* THEOREM: for every set of hosts, roots, files, tasks and definitions, and
\* whatever edits, backups and restores came before: a snapshot of any copy
\* restores to its rows in the oldest format that can say them, a task that an
\* archive calls never run did not run anywhere in its lineage, a copy restored
\* and not edited is recognised, and revisions are told alike everywhere
\* (portable-project-snapshot.ts, portable-project-archive.ts).
THEOREM PortabilityIsSafe == ProjectsSpec => []PortabilityHolds
  <1>1. ProjectsInit => PortabilityInv
    BY PortabilityInitInv DEF ProjectsInit
  <1>2. PortabilityInv /\ [ProjectsNext]_projectVars => PortabilityInv'
    <2> SUFFICES ASSUME PortabilityInv, [ProjectsNext]_projectVars PROVE PortabilityInv'
      OBVIOUS
    <2>1. [PortabilityNext]_portabilityVars
      BY DEF ProjectsNext, projectVars
    <2> QED BY <2>1, PortabilityStep
  <1>3. PortabilityInv => PortabilityHolds
    BY PortabilityImplies DEF PortabilityHolds
  <1> QED BY <1>1, <1>2, <1>3, PTL DEF ProjectsSpec

\* THEOREM: a restore overwrites no work that is in no revision, a head moves
\* to a revision that extends it, and an archive once published stays what it
\* is (restore's lineage and match checks, publish's exclusive create).
THEOREM LineagesStay == ProjectsSpec => [][LineageStays]_portabilityVars
  <1>1. ProjectsInit => PortabilityInv
    BY PortabilityInitInv DEF ProjectsInit
  <1>2. PortabilityInv /\ [ProjectsNext]_projectVars => PortabilityInv' /\ [LineageStays]_portabilityVars
    <2> SUFFICES ASSUME PortabilityInv, [ProjectsNext]_projectVars
                 PROVE  PortabilityInv' /\ [LineageStays]_portabilityVars
      OBVIOUS
    <2>1. [PortabilityNext]_portabilityVars
      BY DEF ProjectsNext, projectVars
    <2> QED BY <2>1, PortabilityStep
  <1> QED BY <1>1, <1>2, PTL DEF ProjectsSpec

-----------------------------------------------------------------------------
(* RepositoryIdentity *)

\* A binding of the first layout names a project there is.
FileOK(b) ==
    /\ b.status \in {"missing", "valid", "legacy", "invalid"}
    /\ b.status = "legacy" => b.project \in 1 .. projects

\* The rows name projects there are; a detached path has no source row; an
\* identity has one project and a project one identity.
RowsNameProjects ==
    /\ identityFile = [r \in Checkouts |-> identityFile[r]]
    /\ \A r \in Checkouts : FileOK(identityFile[r])
    /\ sources = [r \in Checkouts |-> sources[r]]
    /\ projects \in 0 .. MaxProjects
    /\ \A r \in Checkouts : sources[r] \in 0 .. projects /\ rootEntry[r] \in 0 .. projects
    /\ detached \subseteq Checkouts /\ offices \subseteq 1 .. projects
    /\ \A r \in detached : sources[r] = None
    /\ \A x \in identity : x = <<x[1], x[2]>> /\ x[2] \in 1 .. projects
    /\ \A x, y \in identity : x[1] = y[1] \/ x[2] = y[2] => x = y

\* An install under way has the path at its project, and what its steps wrote.
WorkOK ==
    /\ work = [pc |-> work.pc, root |-> work.root, id |-> work.id, project |-> work.project, seen |-> work.seen]
    /\ work.pc \in {"idle", "associate", "office", "write", "done"}
    /\ work.pc # "idle" =>
         /\ work.root \in Checkouts /\ work.project \in 1 .. projects
         /\ findProjectIdByLocalPath(work.root) = work.project
    /\ work.pc \in {"office", "write", "done"} => <<work.id, work.project>> \in identity
    /\ work.pc \in {"write", "done"} => work.project \in offices
    /\ work.pc = "done" => work.seen = V2(work.id)

IdentityInv == RowsNameProjects /\ WorkOK /\ CopiesStayApart

LEMMA IdentityInitInv == IdentityInit => IdentityInv
  <1> SUFFICES ASSUME IdentityInit PROVE IdentityInv
    OBVIOUS
  <1> USE IdentityAssumption
  <1>1. PICK old \in BOOLEAN, r0 \in Checkouts :
          /\ projects = IF old THEN 1 ELSE 0
          /\ rootEntry = [r \in Checkouts |-> IF old /\ r = r0 THEN 1 ELSE None]
          /\ \E v1 \in BOOLEAN :
               identityFile = [r \in Checkouts |-> IF old /\ v1 /\ r = r0 THEN V1(1) ELSE NoBinding]
    BY DEF IdentityInit
  <1>2. PICK v1 \in BOOLEAN :
          identityFile = [r \in Checkouts |-> IF old /\ v1 /\ r = r0 THEN V1(1) ELSE NoBinding]
    BY <1>1
  <1>3. \A r \in Checkouts : FileOK(identityFile[r])
    BY <1>1, <1>2 DEF FileOK, V1, NoBinding
  <1>4. RowsNameProjects
    BY <1>1, <1>2, <1>3 DEF RowsNameProjects, IdentityInit, None
  <1>5. WorkOK
    BY DEF IdentityInit, WorkOK, NoWork
  <1>6. CopiesStayApart
    BY DEF IdentityInit, CopiesStayApart
  <1> QED BY <1>4, <1>5, <1>6 DEF IdentityInv

\* A project found by its identity is there.
LEMMA FoundProject ==
    ASSUME RowsNameProjects, NEW id
    PROVE  findProjectId(id) \in 0 .. projects
  BY DEF RowsNameProjects, findProjectId, None

LEMMA FoundAtPath ==
    ASSUME RowsNameProjects, NEW r \in Checkouts
    PROVE  findProjectIdByLocalPath(r) \in 0 .. projects
  BY DEF RowsNameProjects, findProjectIdByLocalPath, None

\* A path is saved for a project that has no other, or to which it belongs.
Joins(r, p) ==
    /\ findProjectIdByLocalPath(r) \in {None, p}
    /\ sources[r] = None /\ rootEntry[r] # p => checkoutVerified(r, p)

LEMMA SaveKeepsApart ==
    ASSUME RowsNameProjects, CopiesStayApart, NEW r \in Checkouts, NEW p \in Nat \ {None},
           Joins(r, p), saveSource(r, p), UNCHANGED rootEntry
    PROVE  /\ CopiesStayApart' /\ findProjectIdByLocalPath(r)' = p
           /\ \A t \in Checkouts : t # r => sources'[t] = sources[t]
           /\ sources'[r] = p /\ sources' = [t \in Checkouts |-> sources'[t]] /\ detached' = detached \ {r}
  <1>1. sources[r] \in {None, p}
    BY DEF Joins, findProjectIdByLocalPath, RowsNameProjects
  <1>2. /\ sources'[r] = p /\ sources' = [t \in Checkouts |-> sources'[t]] /\ detached' = detached \ {r}
        /\ \A t \in Checkouts : t # r => sources'[t] = sources[t]
    BY <1>1 DEF saveSource, RowsNameProjects, None
  <1>3. findProjectIdByLocalPath(r)' = p
    BY <1>2 DEF findProjectIdByLocalPath
  <1>4. ASSUME NEW t \in Checkouts, t # r, sources[t] = p, \A q \in Checkouts : rootEntry[q] # p
        PROVE  CheckoutRemote[r] = CheckoutRemote[t] /\ CheckoutRemote[r] # NoRemote
    <2>1. CASE sources[r] = p
      BY <1>4, <2>1 DEF CopiesStayApart
    <2>2. CASE sources[r] = None
      <3>1. checkoutVerified(r, p) /\ t \in sourcesOf(p)
        BY <1>4, <2>2 DEF Joins, sourcesOf
      <3>2. PICK s \in sourcesOf(p) : CheckoutRemote[s] = CheckoutRemote[r] /\ CheckoutRemote[r] # NoRemote
        BY <3>1 DEF checkoutVerified
      <3>3. CASE s = t
        BY <3>2, <3>3
      <3>4. CASE s # t
        <4>1. s \in Checkouts /\ sources[s] = p /\ sources[s] # None
          BY <3>2 DEF sourcesOf
        <4>2. CheckoutRemote[s] = CheckoutRemote[t]
          BY <1>4, <3>4, <4>1 DEF CopiesStayApart
        <4> QED BY <3>2, <4>2
      <3> QED BY <3>3, <3>4
    <2> QED BY <1>1, <2>1, <2>2
  <1>5. CopiesStayApart'
    <2> SUFFICES ASSUME NEW t \in Checkouts, NEW s \in Checkouts, t # s, sources'[t] # None, sources'[t] = sources'[s],
                        \A q \in Checkouts : rootEntry[q] # sources'[t]
                 PROVE  CheckoutRemote[t] = CheckoutRemote[s] /\ CheckoutRemote[t] # NoRemote
      BY DEF CopiesStayApart
    <2>1. CASE t = r
      BY <1>2, <1>4, <2>1
    <2>2. CASE s = r
      BY <1>2, <1>4, <2>2
    <2>3. CASE t # r /\ s # r
      BY <1>2, <2>3 DEF CopiesStayApart
    <2> QED BY <2>1, <2>2, <2>3
  <1> QED BY <1>2, <1>3, <1>5

\* A mapping is added only when neither side has one.
LEMMA AssociateKeeps ==
    ASSUME RowsNameProjects, NEW id, NEW p \in 1 .. projects', projects' \in Nat, projects <= projects',
           identity' = associate(id, p).rows
    PROVE  /\ \A x \in identity' : x = <<x[1], x[2]>> /\ x[2] \in 1 .. projects'
           /\ \A x, y \in identity' : x[1] = y[1] \/ x[2] = y[2] => x = y
           /\ identity \subseteq identity'
           /\ associate(id, p).result # "conflict" => <<id, p>> \in identity'
  <1>0. projects \in Nat
    BY IdentityAssumption DEF RowsNameProjects
  <1>1. CASE \A x \in identity : x[1] # id /\ x[2] # p
    <2>1. identity' = identity \cup {<<id, p>>}
      BY <1>1 DEF associate
    <2> QED BY <1>0, <1>1, <2>1 DEF RowsNameProjects
  <1>2. CASE ~(\A x \in identity : x[1] # id /\ x[2] # p)
    <2>1. identity' = identity /\ (associate(id, p).result # "conflict" => <<id, p>> \in identity)
      BY <1>2 DEF associate
    <2> QED BY <1>0, <2>1 DEF RowsNameProjects
  <1> QED BY <1>1, <1>2

\* What Import leaves, whether the project is known or new.
LEMMA ImportStep ==
    ASSUME RowsNameProjects, CopiesStayApart, NEW r \in Checkouts, NEW p \in 0 .. projects, NEW id, Import(r, p, id),
           p = None => projects < MaxProjects /\ findProjectIdByLocalPath(r) = None,
           p # None => Joins(r, p),
           UNCHANGED <<identityFile, rootEntry, offices>>
    PROVE  /\ RowsNameProjects' /\ CopiesStayApart' /\ identity \subseteq identity'
           /\ LET q == IF p = None THEN projects + 1 ELSE p
              IN  q \in 1 .. projects' /\ findProjectIdByLocalPath(r)' = q
  <1> DEFINE q == IF p = None THEN projects + 1 ELSE p
  <1>0. projects \in Nat /\ MaxProjects \in Nat
    BY IdentityAssumption DEF RowsNameProjects
  <1>1. q \in Nat \ {None} /\ q \in 1 .. projects' /\ projects' \in 0 .. MaxProjects /\ projects <= projects' /\ saveSource(r, q)
    BY <1>0 DEF Import, None, RowsNameProjects
  <1>2. Joins(r, q)
    <2>1. CASE p # None
      BY <2>1
    <2>2. CASE p = None
      <3>1. sourcesOf(q) = {}
        BY <1>0, <2>2 DEF sourcesOf, RowsNameProjects
      <3> QED BY <2>2, <3>1 DEF Joins, checkoutVerified
    <2> QED BY <2>1, <2>2
  <1>3. /\ CopiesStayApart' /\ findProjectIdByLocalPath(r)' = q
        /\ \A t \in Checkouts : t # r => sources'[t] = sources[t]
        /\ sources'[r] = q /\ sources' = [t \in Checkouts |-> sources'[t]] /\ detached' = detached \ {r}
    BY <1>1, <1>2, SaveKeepsApart
  <1>4. /\ \A x \in identity' : x = <<x[1], x[2]>> /\ x[2] \in 1 .. projects'
        /\ \A x, y \in identity' : x[1] = y[1] \/ x[2] = y[2] => x = y
        /\ identity \subseteq identity'
    <2>1. CASE p # None
      BY <2>1, <1>0, <1>1 DEF Import, RowsNameProjects
    <2>2. CASE p = None
      <3>1. identity' = associate(id, projects + 1).rows /\ projects + 1 \in 1 .. projects' /\ projects' \in Nat
        BY <2>2, <1>0 DEF Import
      <3> QED BY <1>1, <3>1, AssociateKeeps
    <2> QED BY <2>1, <2>2
  <1>5. \A t \in Checkouts : sources'[t] \in 0 .. projects' /\ rootEntry'[t] \in 0 .. projects' /\ FileOK(identityFile[t])'
    <2> SUFFICES ASSUME NEW t \in Checkouts
                 PROVE  sources'[t] \in 0 .. projects' /\ rootEntry'[t] \in 0 .. projects' /\ FileOK(identityFile[t])'
      OBVIOUS
    <2>1. sources[t] \in 0 .. projects /\ rootEntry[t] \in 0 .. projects /\ FileOK(identityFile[t])
      BY DEF RowsNameProjects
    <2>2. sources'[t] \in 0 .. projects' /\ rootEntry'[t] \in 0 .. projects'
      BY <1>0, <1>1, <1>3, <2>1
    <2>3. FileOK(identityFile[t])'
      BY <1>0, <1>1, <2>1 DEF FileOK
    <2> QED BY <2>2, <2>3
  <1>6. detached' \subseteq Checkouts /\ (\A t \in detached' : sources'[t] = None) /\ offices' \subseteq 1 .. projects'
    BY <1>0, <1>1, <1>3 DEF RowsNameProjects
  <1>7. RowsNameProjects'
    BY <1>1, <1>3, <1>4, <1>5, <1>6 DEF RowsNameProjects
  <1> QED BY <1>1, <1>3, <1>4, <1>7

LEMMA ResolveStep ==
    ASSUME IdentityInv, NEW r \in Checkouts, NEW rebind \in BOOLEAN, InstallResolve(r, rebind)
    PROVE  IdentityInv' /\ NoHijack
  <1> DEFINE id == repositoryIdFor(r, rebind)
             atPath == findProjectIdByLocalPath(r)
             byIdentity == findProjectId(id)
             legacy == IF ~rebind /\ identityFile[r].status = "legacy" /\ identityFile[r].project <= projects
                       THEN identityFile[r].project ELSE None
             project == IF byIdentity # None THEN byIdentity ELSE IF atPath # None THEN atPath ELSE legacy
  <1>1. /\ ~(atPath # None /\ byIdentity # None /\ atPath # byIdentity)
        /\ atPath = None /\ project # None => checkoutVerified(r, project)
        /\ project = None => projects < MaxProjects
        /\ IF atPath = None THEN Import(r, project, id) ELSE UNCHANGED <<projects, sources, detached, identity>>
        /\ work' = [pc |-> "associate", root |-> r, id |-> id,
                    project |-> IF project = None THEN projects + 1 ELSE project, seen |-> identityFile[r]]
        /\ UNCHANGED <<identityFile, rootEntry, offices>>
    BY DEF InstallResolve
  <1>2. byIdentity \in 0 .. projects /\ atPath \in 0 .. projects
    BY FoundProject, FoundAtPath DEF IdentityInv
  <1>3. legacy \in 0 .. projects
    BY DEF IdentityInv, RowsNameProjects, FileOK, None
  <1> DEFINE q == IF project = None THEN projects + 1 ELSE project
  <1> HIDE DEF id, atPath, byIdentity, legacy
  <1>4. project \in 0 .. projects
    BY <1>2, <1>3
  <1>5. atPath # None => project = atPath
    BY <1>1, <1>2
  <1> HIDE DEF project
  <1>6. RowsNameProjects' /\ CopiesStayApart' /\ q \in 1 .. projects' /\ findProjectIdByLocalPath(r)' = q
    <2>1. CASE atPath = None
      <3>1. Import(r, project, id)
        BY <1>1, <2>1
      <3>2. project # None => Joins(r, project)
        BY <1>1, <2>1 DEF Joins, atPath
      <3>3. project = None => projects < MaxProjects /\ findProjectIdByLocalPath(r) = None
        BY <1>1, <2>1 DEF atPath
      <3> QED BY <1>1, <1>4, <3>1, <3>2, <3>3, ImportStep DEF IdentityInv
    <2>2. CASE atPath # None
      <3>1. UNCHANGED <<projects, sources, detached, identity, identityFile, rootEntry, offices>>
        BY <1>1, <2>2
      <3>2. RowsNameProjects' /\ CopiesStayApart'
        BY <3>1 DEF IdentityInv, RowsNameProjects, FileOK, CopiesStayApart
      <3>3. findProjectIdByLocalPath(r)' = atPath
        BY <3>1 DEF findProjectIdByLocalPath, atPath
      <3>4. q = atPath /\ q \in 1 .. projects
        BY <1>2, <1>5, <2>2 DEF None
      <3> QED BY <3>1, <3>2, <3>3, <3>4
    <2> QED BY <2>1, <2>2
  <1>7. WorkOK'
    <2> HIDE DEF q
    <2>1. work' = [pc |-> "associate", root |-> r, id |-> id, project |-> q, seen |-> identityFile[r]]
      BY <1>1 DEF q
    <2>2. work'.root = r /\ work'.project = q /\ work'.pc = "associate"
      BY <2>1
    <2>3. findProjectIdByLocalPath(work.root)' = q
      BY <1>6, <2>2 DEF findProjectIdByLocalPath
    <2> QED BY <1>6, <2>1, <2>2, <2>3 DEF WorkOK
  <1>8. NoHijack
    <2>1. CASE atPath = None
      BY <1>1, <2>1 DEF Import, saveSource, NoHijack, IdentityInv, RowsNameProjects
    <2>2. CASE atPath # None
      BY <1>1, <2>2 DEF NoHijack
    <2> QED BY <2>1, <2>2
  <1> QED BY <1>6, <1>7, <1>8 DEF IdentityInv

\* The later steps of an install write nothing that the rows rest on.
LEMMA InstallGoesOn ==
    ASSUME IdentityInv, InstallAssociate \/ InstallOffice \/ InstallWrite \/ InstallFails \/ InstallDone
    PROVE  IdentityInv' /\ NoHijack
  <1>0. UNCHANGED <<projects, sources, detached, rootEntry>>
    BY DEF InstallAssociate, InstallOffice, InstallWrite, InstallFails, InstallDone
  <1>1. CopiesStayApart' /\ NoHijack
    BY <1>0 DEF CopiesStayApart, IdentityInv, NoHijack
  <1>2. \A t : findProjectIdByLocalPath(t)' = findProjectIdByLocalPath(t)
    BY <1>0 DEF findProjectIdByLocalPath
  <1>3. ASSUME UNCHANGED <<identityFile, identity, offices>> PROVE RowsNameProjects'
    BY <1>0, <1>3 DEF IdentityInv, RowsNameProjects, FileOK
  <1>4. ASSUME work' = NoWork PROVE WorkOK'
    BY <1>4 DEF WorkOK, NoWork
  <1>5. projects \in Nat
    BY IdentityAssumption DEF IdentityInv, RowsNameProjects
  <1>6. CASE InstallAssociate
    <2>1. work.project \in 1 .. projects /\ work.root \in Checkouts /\ findProjectIdByLocalPath(work.root) = work.project
      BY <1>6 DEF IdentityInv, WorkOK, InstallAssociate
    <2>2. /\ \A x \in identity' : x = <<x[1], x[2]>> /\ x[2] \in 1 .. projects'
          /\ \A x, y \in identity' : x[1] = y[1] \/ x[2] = y[2] => x = y
          /\ associate(work.id, work.project).result # "conflict" => <<work.id, work.project>> \in identity'
      <3>1. identity' = associate(work.id, work.project).rows /\ work.project \in 1 .. projects' /\ projects' \in Nat /\ projects <= projects'
        BY <1>0, <1>5, <1>6, <2>1 DEF InstallAssociate
      <3> QED BY <3>1, AssociateKeeps DEF IdentityInv
    <2>3. RowsNameProjects'
      BY <1>0, <1>6, <2>2 DEF IdentityInv, RowsNameProjects, FileOK, InstallAssociate
    <2>4. CASE associate(work.id, work.project).result = "conflict"
      BY <1>1, <1>4, <1>6, <2>3, <2>4 DEF InstallAssociate, IdentityInv
    <2>5. CASE associate(work.id, work.project).result # "conflict"
      <3>1. work' = [work EXCEPT !.pc = "office"]
        BY <1>6, <2>5 DEF InstallAssociate
      <3>2. work' = [pc |-> "office", root |-> work.root, id |-> work.id, project |-> work.project, seen |-> work.seen]
        BY <3>1 DEF IdentityInv, WorkOK
      <3>3. findProjectIdByLocalPath(work.root)' = work.project
        BY <1>0, <2>1, <3>2 DEF findProjectIdByLocalPath
      <3>4. WorkOK'
        BY <1>0, <2>1, <2>2, <2>5, <3>2, <3>3 DEF WorkOK
      <3> QED BY <1>1, <2>3, <3>4 DEF IdentityInv
    <2> QED BY <2>4, <2>5
  <1>7. CASE InstallOffice
    <2>1. /\ work.project \in 1 .. projects /\ work.root \in Checkouts /\ findProjectIdByLocalPath(work.root) = work.project
          /\ <<work.id, work.project>> \in identity
      BY <1>7 DEF IdentityInv, WorkOK, InstallOffice
    <2>2. RowsNameProjects'
      BY <1>0, <1>7, <2>1 DEF IdentityInv, RowsNameProjects, FileOK, InstallOffice
    <2>3. work' = [pc |-> "write", root |-> work.root, id |-> work.id, project |-> work.project, seen |-> work.seen]
      BY <1>7 DEF IdentityInv, WorkOK, InstallOffice
    <2>4. findProjectIdByLocalPath(work.root)' = work.project
      BY <1>0, <2>1, <2>3 DEF findProjectIdByLocalPath
    <2>5. WorkOK'
      BY <1>0, <1>7, <2>1, <2>3, <2>4 DEF WorkOK, InstallOffice
    <2> QED BY <1>1, <2>2, <2>5 DEF IdentityInv
  <1>8. CASE InstallWrite
    <2>1. /\ work.project \in 1 .. projects /\ work.root \in Checkouts /\ findProjectIdByLocalPath(work.root) = work.project
          /\ <<work.id, work.project>> \in identity /\ work.project \in offices
      BY <1>8 DEF IdentityInv, WorkOK, InstallWrite
    <2>2. CASE identityFile[work.root].status = "invalid"
      <3>1. UNCHANGED <<identityFile, identity, offices>> /\ work' = NoWork
        BY <1>8, <2>2 DEF InstallWrite
      <3> QED BY <1>1, <1>3, <1>4, <3>1 DEF IdentityInv
    <2>3. CASE identityFile[work.root].status # "invalid"
      <3>1. /\ identityFile' = [identityFile EXCEPT ![work.root] = V2(work.id)] /\ UNCHANGED <<identity, offices>>
            /\ work' = [work EXCEPT !.pc = "done", !.seen = V2(work.id)]
        BY <1>8, <2>3 DEF InstallWrite
      <3>2. \A t \in Checkouts : FileOK(identityFile[t])'
        BY <1>0, <2>1, <3>1 DEF IdentityInv, RowsNameProjects, FileOK, V2
      <3>3. RowsNameProjects'
        BY <1>0, <3>1, <3>2 DEF IdentityInv, RowsNameProjects
      <3>4. work' = [pc |-> "done", root |-> work.root, id |-> work.id, project |-> work.project, seen |-> V2(work.id)]
        BY <3>1 DEF IdentityInv, WorkOK
      <3>5. findProjectIdByLocalPath(work.root)' = work.project
        BY <1>0, <2>1, <3>4 DEF findProjectIdByLocalPath
      <3>6. WorkOK'
        BY <1>0, <2>1, <3>1, <3>4, <3>5 DEF WorkOK
      <3> QED BY <1>1, <3>3, <3>6 DEF IdentityInv
    <2> QED BY <2>2, <2>3
  <1>9. CASE InstallFails \/ InstallDone
    <2>1. UNCHANGED <<identityFile, identity, offices>> /\ work' = NoWork
      BY <1>9 DEF InstallFails, InstallDone
    <2> QED BY <1>1, <1>3, <1>4, <2>1 DEF IdentityInv
  <1> QED BY <1>6, <1>7, <1>8, <1>9

LEMMA IdentityStep == IdentityInv /\ [IdentityNext]_identityVars => IdentityInv' /\ [NoHijack]_identityVars
  <1> SUFFICES ASSUME IdentityInv, [IdentityNext]_identityVars PROVE IdentityInv' /\ [NoHijack]_identityVars
    OBVIOUS
  <1>1. ASSUME NEW r \in Checkouts, ProjectImport(r) PROVE IdentityInv' /\ NoHijack
    <2> DEFINE p == findProjectIdByLocalPath(r)
    <2>1. p \in 0 .. projects
      BY FoundAtPath DEF IdentityInv
    <2>2. /\ p = None => projects < MaxProjects
          /\ Import(r, p, ImportedId(projects + 1)) /\ work.pc = "idle"
          /\ UNCHANGED <<identityFile, rootEntry, offices, work>>
      BY <1>1 DEF ProjectImport
    <2>3. p # None => Joins(r, p)
      BY DEF Joins, findProjectIdByLocalPath, IdentityInv, RowsNameProjects
    <2>4. RowsNameProjects' /\ CopiesStayApart'
      <3>1. p = None => projects < MaxProjects /\ findProjectIdByLocalPath(r) = None
        BY <2>2
      <3> HIDE DEF p
      <3> QED BY <2>1, <2>2, <2>3, <3>1, ImportStep DEF IdentityInv
    <2>5. WorkOK'
      BY <2>2 DEF IdentityInv, WorkOK
    <2>6. NoHijack
      <3>1. ASSUME NEW t \in Checkouts, sources[t] # None PROVE sources'[t] = sources[t]
        BY <2>2, <3>1 DEF Import, saveSource, IdentityInv, RowsNameProjects
      <3> QED BY <3>1 DEF NoHijack
    <2> QED BY <2>4, <2>5, <2>6 DEF IdentityInv
  <1>2. ASSUME NEW r \in Checkouts, RemoveSource(r) PROVE IdentityInv' /\ NoHijack
    <2>1. /\ sources' = [sources EXCEPT ![r] = None] /\ detached' = detached \cup {r} /\ work.pc = "idle"
          /\ UNCHANGED <<identityFile, projects, rootEntry, identity, offices, work>>
      BY <1>2 DEF RemoveSource
    <2>2. RowsNameProjects'
      <3>1. /\ sources' = [t \in Checkouts |-> sources'[t]] /\ sources'[r] = None
            /\ \A t \in Checkouts : sources'[t] \in {sources[t], None}
        BY <2>1 DEF IdentityInv, RowsNameProjects
      <3>2. projects \in Nat /\ \A t \in Checkouts : sources'[t] \in 0 .. projects
        BY <3>1, IdentityAssumption DEF IdentityInv, RowsNameProjects, None
      <3>3. \A t \in detached' : sources'[t] = None
        BY <2>1, <3>1 DEF IdentityInv, RowsNameProjects
      <3> QED BY <2>1, <3>1, <3>2, <3>3 DEF IdentityInv, RowsNameProjects, FileOK
    <2>3. \A t \in Checkouts : sources'[t] # None => sources'[t] = sources[t]
      BY <2>1 DEF IdentityInv, RowsNameProjects
    <2>4. CopiesStayApart'
      BY <2>1, <2>3 DEF IdentityInv, CopiesStayApart
    <2>5. WorkOK'
      BY <2>1 DEF IdentityInv, WorkOK
    <2>6. NoHijack
      BY <2>1 DEF NoHijack, IdentityInv, RowsNameProjects
    <2> QED BY <2>2, <2>4, <2>5, <2>6 DEF IdentityInv
  <1>3. ASSUME NEW r \in Checkouts, NEW b \in Range(identityFile) \cup {NoBinding, Broken, V2(Foreign)}, Change(r, b)
        PROVE  IdentityInv' /\ NoHijack
    <2>1. /\ identityFile' = [identityFile EXCEPT ![r] = b]
          /\ UNCHANGED <<projects, sources, detached, rootEntry, identity, offices, work>>
      BY <1>3 DEF Change
    <2>2. FileOK(b)
      <3>1. CASE b \in Range(identityFile)
        BY <3>1 DEF Range, IdentityInv, RowsNameProjects
      <3>2. CASE b \in {NoBinding, Broken, V2(Foreign)}
        BY <3>2 DEF FileOK, NoBinding, Broken, V2
      <3> QED BY <3>1, <3>2
    <2>3. RowsNameProjects'
      BY <2>1, <2>2 DEF IdentityInv, RowsNameProjects, FileOK
    <2>4. CopiesStayApart' /\ NoHijack
      BY <2>1 DEF IdentityInv, CopiesStayApart, NoHijack
    <2>5. WorkOK'
      BY <2>1 DEF IdentityInv, WorkOK, findProjectIdByLocalPath
    <2> QED BY <2>3, <2>4, <2>5 DEF IdentityInv
  <1>4. CASE UNCHANGED identityVars
    <2>1. IdentityInv'
      BY <1>4 DEF identityVars, IdentityInv, RowsNameProjects, FileOK, WorkOK, findProjectIdByLocalPath, CopiesStayApart
    <2> QED BY <1>4, <2>1
  <1> QED BY <1>1, <1>2, <1>3, <1>4, ResolveStep, InstallGoesOn DEF IdentityNext

LEMMA IdentityImplies == IdentityInv => IdentitySafety
  <1> SUFFICES ASSUME IdentityInv PROVE IdentitySafety
    OBVIOUS
  <1>0. projects \in Nat /\ MaxProjects \in Nat
    BY IdentityAssumption DEF IdentityInv, RowsNameProjects
  <1>1. IdentityTypeOK
    <2>1. \A r \in Checkouts : sources[r] \in ProjectIds \cup {None}
      BY <1>0 DEF IdentityInv, RowsNameProjects, ProjectIds, None
    <2>2. sources \in [Checkouts -> ProjectIds \cup {None}]
      BY <2>1 DEF IdentityInv, RowsNameProjects
    <2> QED BY <2>2 DEF IdentityTypeOK, IdentityInv, RowsNameProjects, FileOK, WorkOK
  <1>2. InstalledIsValid
    <2> SUFFICES ASSUME work.pc = "done", identityFile[work.root] = work.seen
                 PROVE  associationState(work.root) = "valid" /\ work.project \in offices
      BY DEF InstalledIsValid
    <2>1. /\ work.project \in 1 .. projects /\ work.root \in Checkouts /\ findProjectIdByLocalPath(work.root) = work.project
          /\ <<work.id, work.project>> \in identity /\ work.project \in offices
          /\ identityFile[work.root] = V2(work.id)
      BY DEF IdentityInv, WorkOK
    <2>2. findProjectId(work.id) = work.project
      <3>1. \A x \in identity : x[1] = work.id => x = <<work.id, work.project>>
        BY <2>1 DEF IdentityInv, RowsNameProjects
      <3>2. <<work.id, work.project>>[1] = work.id /\ <<work.id, work.project>>[2] = work.project
        OBVIOUS
      <3> QED BY <2>1, <3>1, <3>2 DEF findProjectId
    <2>3. work.project # None /\ ~(work.project > projects)
      BY <1>0, <2>1 DEF None
    <2> QED BY <2>1, <2>2, <2>3 DEF associationState, V2
  <1> QED BY <1>1, <1>2 DEF IdentitySafety, IdentityInv

\* THEOREM: for every set of checkouts, and whatever partial installs, copies,
\* imports and detachments came before: an install that ended is a valid
\* association, and copies stay apart (import-project.ts).
THEOREM IdentityIsSafe == ProjectsSpec => []IdentityHolds
  <1>1. ProjectsInit => IdentityInv
    BY IdentityInitInv DEF ProjectsInit
  <1>2. IdentityInv /\ [ProjectsNext]_projectVars => IdentityInv'
    <2> SUFFICES ASSUME IdentityInv, [ProjectsNext]_projectVars PROVE IdentityInv'
      OBVIOUS
    <2>1. [IdentityNext]_identityVars
      BY DEF ProjectsNext, projectVars
    <2> QED BY <2>1, IdentityStep
  <1>3. IdentityInv => IdentityHolds
    BY IdentityImplies DEF IdentityHolds
  <1> QED BY <1>1, <1>2, <1>3, PTL DEF ProjectsSpec

\* THEOREM: only a detachment takes a checkout from its project
\* (install's conflict check, saveSource).
THEOREM CheckoutsKeepProjects == ProjectsSpec => [][NoHijack]_identityVars
  <1>1. ProjectsInit => IdentityInv
    BY IdentityInitInv DEF ProjectsInit
  <1>2. IdentityInv /\ [ProjectsNext]_projectVars => IdentityInv' /\ [NoHijack]_identityVars
    <2> SUFFICES ASSUME IdentityInv, [ProjectsNext]_projectVars PROVE IdentityInv' /\ [NoHijack]_identityVars
      OBVIOUS
    <2>1. [IdentityNext]_identityVars
      BY DEF ProjectsNext, projectVars
    <2> QED BY <2>1, IdentityStep
  <1> QED BY <1>1, <1>2, PTL DEF ProjectsSpec

\* A path that counts again was saved by this step, and for the project that
\* its identity names.
LEMMA SavedReturns ==
    ASSUME IdentityInv, NEW r \in Checkouts, NEW p \in 0 .. projects, NEW id, Import(r, p, id),
           identity \subseteq identity',
           work'.pc = "associate" /\ work'.id = identityFile[r].id /\ findProjectId(identityFile[r].id) # None =>
              p = findProjectId(identityFile[r].id)
    PROVE  DetachedReturns
  <1> DEFINE q == IF p = None THEN projects + 1 ELSE p
  <1>1. saveSource(r, q) /\ q # None
    BY IdentityAssumption DEF Import, IdentityInv, RowsNameProjects, None
  <1>2. /\ detached' = detached \ {r}
        /\ r \in detached => sources'[r] = q
    BY <1>1 DEF saveSource, IdentityInv, RowsNameProjects
  <1>3. ASSUME NEW t \in detached \ detached' PROVE t = r /\ sources'[t] = q
    BY <1>2
  <1> QED BY <1>1, <1>3 DEF DetachedReturns

LEMMA ReturnStep ==
    ASSUME IdentityInv, [IdentityNext]_identityVars
    PROVE  [DetachedReturns]_identityVars
  <1> SUFFICES ASSUME IdentityNext PROVE DetachedReturns
    OBVIOUS
  <1>1. ASSUME NEW r \in Checkouts, ProjectImport(r) PROVE DetachedReturns
    <2> DEFINE p == findProjectIdByLocalPath(r)
    <2>1. p \in 0 .. projects
      BY FoundAtPath DEF IdentityInv
    <2>2. Import(r, p, ImportedId(projects + 1)) /\ work.pc = "idle" /\ UNCHANGED <<identityFile, rootEntry, offices, work>>
          /\ (p = None => projects < MaxProjects)
      BY <1>1 DEF ProjectImport
    <2>3. p # None => Joins(r, p)
      BY DEF Joins, findProjectIdByLocalPath, IdentityInv, RowsNameProjects
    <2>4. identity \subseteq identity'
      <3>1. p = None => projects < MaxProjects /\ findProjectIdByLocalPath(r) = None
        BY <2>2
      <3> HIDE DEF p
      <3> QED BY <2>1, <2>2, <2>3, <3>1, ImportStep DEF IdentityInv
    <2>5. work'.pc # "associate"
      BY <2>2
    <2> HIDE DEF p
    <2> QED BY <2>1, <2>2, <2>4, <2>5, SavedReturns
  <1>2. ASSUME NEW r \in Checkouts, NEW rebind \in BOOLEAN, InstallResolve(r, rebind) PROVE DetachedReturns
    <2> DEFINE id == repositoryIdFor(r, rebind)
               atPath == findProjectIdByLocalPath(r)
               byIdentity == findProjectId(id)
               legacy == IF ~rebind /\ identityFile[r].status = "legacy" /\ identityFile[r].project <= projects
                         THEN identityFile[r].project ELSE None
               project == IF byIdentity # None THEN byIdentity ELSE IF atPath # None THEN atPath ELSE legacy
    <2>1. /\ ~(atPath # None /\ byIdentity # None /\ atPath # byIdentity)
          /\ atPath = None /\ project # None => checkoutVerified(r, project)
          /\ project = None => projects < MaxProjects
          /\ IF atPath = None THEN Import(r, project, id) ELSE UNCHANGED <<projects, sources, detached, identity>>
          /\ work' = [pc |-> "associate", root |-> r, id |-> id,
                      project |-> IF project = None THEN projects + 1 ELSE project, seen |-> identityFile[r]]
          /\ UNCHANGED <<identityFile, rootEntry, offices>>
      BY <1>2 DEF InstallResolve
    <2>2. byIdentity \in 0 .. projects /\ atPath \in 0 .. projects /\ legacy \in 0 .. projects
      BY FoundProject, FoundAtPath DEF IdentityInv, RowsNameProjects, FileOK, None
    <2>3. project \in 0 .. projects
      BY <2>2
    <2>4. work'.id = identityFile[r].id /\ findProjectId(identityFile[r].id) # None => project = findProjectId(identityFile[r].id)
      <3>1. work'.id = id
        BY <2>1
      <3>2. ASSUME id = identityFile[r].id PROVE byIdentity = findProjectId(identityFile[r].id)
        BY <3>2
      <3> HIDE DEF id, byIdentity, atPath, legacy
      <3>3. byIdentity # None => project = byIdentity
        BY <2>1
      <3> QED BY <3>1, <3>2, <3>3
    <2>5. CASE atPath = None
      <3>1. Import(r, project, id)
        BY <2>1, <2>5
      <3>2. (project # None => Joins(r, project)) /\ (project = None => projects < MaxProjects /\ findProjectIdByLocalPath(r) = None)
        BY <2>1, <2>5 DEF Joins
      <3> HIDE DEF project, id
      <3>3. identity \subseteq identity'
        BY <2>1, <2>3, <3>1, <3>2, ImportStep DEF IdentityInv
      <3> QED BY <2>3, <2>4, <3>1, <3>3, SavedReturns
    <2>6. CASE atPath # None
      <3>1. UNCHANGED <<detached, identity>>
        BY <2>1, <2>6
      <3> QED BY <3>1 DEF DetachedReturns
    <2> QED BY <2>5, <2>6
  <1>3. ASSUME InstallAssociate PROVE DetachedReturns
    <2>1. identity' = associate(work.id, work.project).rows /\ detached' = detached
      BY <1>3 DEF InstallAssociate
    <2>2. identity \subseteq identity'
      BY <2>1 DEF associate
    <2> QED BY <2>1, <2>2 DEF DetachedReturns
  <1>4. ASSUME identity' = identity, detached \subseteq detached' PROVE DetachedReturns
    BY <1>4 DEF DetachedReturns
  <1>5. ASSUME InstallOffice \/ InstallWrite \/ InstallFails \/ InstallDone PROVE DetachedReturns
    BY <1>4, <1>5 DEF InstallOffice, InstallWrite, InstallFails, InstallDone
  <1>6. ASSUME NEW r \in Checkouts, RemoveSource(r) PROVE DetachedReturns
    BY <1>4, <1>6 DEF RemoveSource
  <1>7. ASSUME NEW r \in Checkouts, NEW b \in Range(identityFile) \cup {NoBinding, Broken, V2(Foreign)}, Change(r, b)
        PROVE  DetachedReturns
    BY <1>4, <1>7 DEF Change
  <1> QED BY <1>1, <1>2, <1>3, <1>5, <1>6, <1>7 DEF IdentityNext

\* THEOREM: no mapping of an identity is forgotten, a detached path counts again
\* only with a source row of its own, and an install that goes by its identity
\* file finds the project it had (install, import-project.ts, migration 0019).
THEOREM DetachedCheckoutsReturn == ProjectsSpec => [][DetachedReturns]_identityVars
  <1>1. ProjectsInit => IdentityInv
    BY IdentityInitInv DEF ProjectsInit
  <1>2. IdentityInv /\ [ProjectsNext]_projectVars => IdentityInv' /\ [DetachedReturns]_identityVars
    <2> SUFFICES ASSUME IdentityInv, [ProjectsNext]_projectVars PROVE IdentityInv' /\ [DetachedReturns]_identityVars
      OBVIOUS
    <2>1. [IdentityNext]_identityVars
      BY DEF ProjectsNext, projectVars
    <2> QED BY <2>1, IdentityStep, ReturnStep
  <1> QED BY <1>1, <1>2, PTL DEF ProjectsSpec

-----------------------------------------------------------------------------
(* ClientArtifacts *)

\* Only a user's file and a merged one hold words of the user's.
WordlessClasses == {"absent", "current", "stale", "legacy", "special"}
KeptFiles == {f \in File : f.class \in WordlessClasses => f.text = 0}

\* A managed block is only in CLAUDE.md, and only AGENTS.md has a first layout.
InPlace(p, class) ==
    /\ class \in {"merged", "mergedStale"} => p = "bridge"
    /\ class = "legacy" => p = "pointer"

\* A file operation keeps the words of the file it expects; only a deletion
\* leaves none, and a new file has none.
KeepingOps ==
    {o \in [kind : {"create", "update", "delete"}, path : Paths, expected : KeptFiles, next : KeptFiles] :
        /\ o.next.text = o.expected.text
        /\ o.kind = "create" => o.next.text = 0
        /\ o.kind # "delete" => exists(o.next)
        /\ o.next.class \in {"absent", "current", "merged", "user"}
        /\ o.next.class \in {"merged", "user"} => o.path = "bridge"}
\* An install deletes nothing, an uninstall leaves nothing of AI Office's.
WritingOps  == {o \in KeepingOps : o.kind # "delete" /\ o.next.class \in {"current", "merged"}}
RemovingOps == {o \in KeepingOps : o.next.class \in {"absent", "user"}}

\* What the host does next keeps words; an install deletes nothing.
OpsKeep ==
    /\ op = [cmd |-> op.cmd, pc |-> op.pc, todo |-> op.todo, shared |-> op.shared,
             plan |-> op.plan, ops |-> op.ops, racy |-> op.racy]
    /\ op.racy \in BOOLEAN
    /\ op.cmd = "none" <=> op.pc = "idle"
    /\ op.cmd \in {"none", "install", "uninstall"}
    /\ op.pc \in {"idle", "shared", "plan", "hash", "check", "commit", "detach", "done", "failed"}
    /\ op.ops \in Seq(KeepingOps)
    /\ op.cmd = "install" => op.ops \in Seq(WritingOps)
    /\ op.cmd = "uninstall" => op.ops \in Seq(RemovingOps)
    /\ op.pc = "commit" => op.ops # <<>>

\* Unless an edit came between, the file about to be written is as last seen,
\* and no file refers to a shared one that is about to go.
LookedAt ==
    op.pc = "commit" /\ ~op.racy =>
        /\ artifacts[Head(op.ops).path] = Head(op.ops).expected
        /\ op.cmd = "uninstall" /\ Head(op.ops).kind = "delete" /\ Head(op.ops).path \in Shared =>
             ~stillRequired(Head(op.todo), artifacts)

\* What the files of a checkout and a command over them can be.
ShapeOK ==
    /\ artifacts \in [Paths -> KeptFiles] /\ userEdits \in 0 .. MaxUserEdits
    /\ \A p \in Paths : InPlace(p, artifacts[p].class)
    /\ detected \subseteq AgentClients
    /\ attached \in BOOLEAN /\ quiet \in BOOLEAN
    /\ approved = NoApproval \/ approved.files \in [Paths -> KeptFiles]
WordsInv == ShapeOK /\ OpsKeep /\ LookedAt

\* The paths of a plan.
Pending(ops) == {ops[i].path : i \in DOMAIN ops}

LEMMA PendingOne ==
    /\ Pending(<<>>) = {}
    /\ \A o : Pending(<<o>>) = {o.path}
  <1>1. \A o : DOMAIN <<o>> = {1} /\ <<o>>[1] = o
    OBVIOUS
  <1>2. DOMAIN <<>> = {}
    OBVIOUS
  <1> QED BY <1>1, <1>2 DEF Pending

LEMMA PendingCat ==
    ASSUME NEW S, NEW s \in Seq(S), NEW t \in Seq(S)
    PROVE  s \o t \in Seq(S) /\ Pending(s \o t) = Pending(s) \cup Pending(t)
  <1>1. /\ DOMAIN s = 1 .. Len(s) /\ DOMAIN t = 1 .. Len(t) /\ Len(s) \in Nat /\ Len(t) \in Nat
        /\ s \o t \in Seq(S) /\ Len(s \o t) = Len(s) + Len(t) /\ DOMAIN (s \o t) = 1 .. Len(s) + Len(t)
    OBVIOUS
  <1>2. /\ \A i \in 1 .. Len(s) : (s \o t)[i] = s[i]
        /\ \A i \in 1 .. Len(t) : (s \o t)[Len(s) + i] = t[i]
    OBVIOUS
  <1>3. ASSUME NEW i \in 1 .. Len(s) + Len(t) PROVE (s \o t)[i].path \in Pending(s) \cup Pending(t)
    <2>1. CASE i <= Len(s)
      BY <1>1, <1>2, <2>1 DEF Pending
    <2>2. CASE ~(i <= Len(s))
      <3>1. i - Len(s) \in 1 .. Len(t) /\ Len(s) + (i - Len(s)) = i
        BY <1>1, <2>2
      <3>2. (s \o t)[i] = t[i - Len(s)]
        BY <1>2, <3>1
      <3> QED BY <1>1, <3>1, <3>2 DEF Pending
    <2> QED BY <2>1, <2>2
  <1>4. ASSUME NEW i \in 1 .. Len(s) PROVE s[i].path \in Pending(s \o t)
    <2>1. i \in DOMAIN (s \o t) /\ (s \o t)[i] = s[i]
      BY <1>1, <1>2
    <2> QED BY <2>1 DEF Pending
  <1>5. ASSUME NEW i \in 1 .. Len(t) PROVE t[i].path \in Pending(s \o t)
    <2>1. Len(s) + i \in DOMAIN (s \o t) /\ (s \o t)[Len(s) + i] = t[i]
      BY <1>1, <1>2
    <2> QED BY <2>1 DEF Pending
  <1>6. Pending(s \o t) \subseteq Pending(s) \cup Pending(t)
    <2>1. \A x \in Pending(s \o t) : \E i \in 1 .. Len(s) + Len(t) : x = (s \o t)[i].path
      BY <1>1 DEF Pending
    <2> QED BY <1>3, <2>1
  <1>7. Pending(s) \cup Pending(t) \subseteq Pending(s \o t)
    <2>1. \A x \in Pending(s) : \E i \in 1 .. Len(s) : x = s[i].path
      BY <1>1 DEF Pending
    <2>2. \A x \in Pending(t) : \E i \in 1 .. Len(t) : x = t[i].path
      BY <1>1 DEF Pending
    <2> QED BY <1>4, <1>5, <2>1, <2>2
  <1> QED BY <1>1, <1>6, <1>7

LEMMA PendingTail ==
    ASSUME NEW S, NEW s \in Seq(S), s # <<>>
    PROVE  /\ Head(s) \in S /\ Tail(s) \in Seq(S) /\ Head(s).path \in Pending(s)
           /\ Pending(s) = {Head(s).path} \cup Pending(Tail(s))
  <1>1. /\ Head(s) \in S /\ Tail(s) \in Seq(S) /\ Len(s) \in Nat \ {0} /\ DOMAIN s = 1 .. Len(s)
        /\ Len(Tail(s)) = Len(s) - 1 /\ DOMAIN Tail(s) = 1 .. Len(s) - 1 /\ Head(s) = s[1]
    OBVIOUS
  <1>2. \A i \in 1 .. Len(s) - 1 : Tail(s)[i] = s[i + 1]
    OBVIOUS
  <1>3. ASSUME NEW i \in 1 .. Len(s) PROVE s[i].path \in {Head(s).path} \cup Pending(Tail(s))
    <2>1. CASE i = 1
      BY <1>1, <2>1
    <2>2. CASE i # 1
      <3>1. i - 1 \in 1 .. Len(s) - 1 /\ (i - 1) + 1 = i
        BY <1>1, <2>2
      <3>2. i - 1 \in DOMAIN Tail(s) /\ Tail(s)[i - 1] = s[i]
        BY <1>1, <1>2, <3>1
      <3> QED BY <3>2 DEF Pending
    <2> QED BY <2>1, <2>2
  <1>4. ASSUME NEW i \in 1 .. Len(s) - 1 PROVE Tail(s)[i].path \in Pending(s)
    <2>1. i + 1 \in DOMAIN s /\ Tail(s)[i] = s[i + 1]
      BY <1>1, <1>2
    <2> QED BY <2>1 DEF Pending
  <1>5. Head(s).path \in Pending(s)
    <2>1. 1 \in DOMAIN s /\ Head(s) = s[1]
      BY <1>1
    <2> QED BY <2>1 DEF Pending
  <1>6. Pending(s) \subseteq {Head(s).path} \cup Pending(Tail(s))
    <2>1. \A x \in Pending(s) : \E i \in 1 .. Len(s) : x = s[i].path
      BY <1>1 DEF Pending
    <2> QED BY <1>3, <2>1
  <1>7. Pending(Tail(s)) \subseteq Pending(s)
    <2>1. \A x \in Pending(Tail(s)) : \E i \in 1 .. Len(s) - 1 : x = Tail(s)[i].path
      BY <1>1 DEF Pending
    <2> QED BY <1>4, <2>1
  <1> QED BY <1>1, <1>5, <1>6, <1>7

LEMMA OpKeeps ==
    ASSUME NEW fs \in [Paths -> KeptFiles], NEW p \in Paths, NEW next \in KeptFiles,
           NEW kind \in {"create", "update", "delete"}, next.text = fs[p].text,
           kind = "create" => next.text = 0, kind # "delete" => exists(next),
           next.class \in {"absent", "current", "merged", "user"},
           next.class \in {"merged", "user"} => p = "bridge"
    PROVE  /\ Op(kind, p, fs, next) \in KeepingOps
           /\ kind # "delete" /\ next.class \in {"current", "merged"} => Op(kind, p, fs, next) \in WritingOps
           /\ next.class \in {"absent", "user"} => Op(kind, p, fs, next) \in RemovingOps
  BY DEF Op, WritingOps, RemovingOps, KeepingOps

LEMMA OneOp == ASSUME NEW S, NEW o \in S PROVE <<o>> \in Seq(S)
  OBVIOUS

LEMMA PlainFiles ==
    /\ Fresh \in KeptFiles /\ exists(Fresh) /\ Fresh.text = 0 /\ Fresh.class = "current"
    /\ NoArtifact \in KeptFiles /\ NoArtifact.text = 0 /\ NoArtifact.class = "absent"
  BY ClientAssumption DEF KeptFiles, File, Fresh, NoArtifact, Classes, WordlessClasses, exists

LEMMA FreshOnly ==
    ASSUME NEW fs \in [Paths -> KeptFiles], NEW p \in Paths
    PROVE  fs[p] = Fresh <=> fs[p].class = "current"
  <1>1. fs[p] \in KeptFiles
    OBVIOUS
  <1> QED BY <1>1 DEF KeptFiles, File, Fresh, WordlessClasses

\* The plans for one file, with the classes that are AI Office's own.
PlanToWrite(p, fs, own) ==
    IF ~exists(fs[p]) THEN <<Op("create", p, fs, Fresh)>>
    ELSE IF fs[p].class \in own /\ fs[p] # Fresh THEN <<Op("update", p, fs, Fresh)>> ELSE <<>>
PlanToRemove(p, fs, own) == IF fs[p].class \in own THEN <<Op("delete", p, fs, NoArtifact)>> ELSE <<>>

LEMMA SmallPlans ==
    ASSUME NEW fs \in [Paths -> KeptFiles], NEW p \in Paths, NEW own \in SUBSET {"current", "stale", "legacy"}
    PROVE  /\ PlanToWrite(p, fs, own) \in Seq(WritingOps) /\ Pending(PlanToWrite(p, fs, own)) \subseteq {p}
           /\ p \in Pending(PlanToWrite(p, fs, own)) <=> (exists(fs[p]) => fs[p].class \in own /\ fs[p] # Fresh)
           /\ PlanToRemove(p, fs, own) \in Seq(RemovingOps)
           /\ Pending(PlanToRemove(p, fs, own)) \subseteq {p}
           /\ p \in Pending(PlanToRemove(p, fs, own)) <=> fs[p].class \in own
  <1> DEFINE plan == PlanToWrite(p, fs, own) removal == PlanToRemove(p, fs, own)
  <1>0. /\ ~exists(fs[p]) => plan = <<Op("create", p, fs, Fresh)>>
        /\ exists(fs[p]) /\ fs[p].class \in own /\ fs[p] # Fresh => plan = <<Op("update", p, fs, Fresh)>>
        /\ exists(fs[p]) /\ ~(fs[p].class \in own /\ fs[p] # Fresh) => plan = <<>>
        /\ fs[p].class \in own => removal = <<Op("delete", p, fs, NoArtifact)>> /\ exists(fs[p])
        /\ fs[p].class \notin own => removal = <<>>
    BY DEF PlanToWrite, PlanToRemove, exists
  <1> SUFFICES /\ plan \in Seq(WritingOps) /\ Pending(plan) \subseteq {p}
               /\ p \in Pending(plan) <=> (exists(fs[p]) => fs[p].class \in own /\ fs[p] # Fresh)
               /\ removal \in Seq(RemovingOps)
               /\ Pending(removal) = {x \in {p} : fs[p].class \in own}
    BY DEF plan, removal
  <1> HIDE DEF plan, removal
  <1>1. fs[p] \in KeptFiles /\ own \subseteq WordlessClasses /\ <<>> \in Seq(RemovingOps) /\ <<>> \in Seq(WritingOps)
    BY DEF WordlessClasses
  <1>2. ASSUME ~exists(fs[p]) PROVE Op("create", p, fs, Fresh) \in WritingOps
    <2>1. fs[p].text = 0
      BY <1>1, <1>2 DEF exists, KeptFiles, WordlessClasses
    <2> QED BY <2>1, PlainFiles, OpKeeps
  <1>3. ASSUME fs[p].class \in own
        PROVE  Op("update", p, fs, Fresh) \in WritingOps /\ Op("delete", p, fs, NoArtifact) \in RemovingOps
    <2>1. fs[p].text = 0
      BY <1>1, <1>3 DEF KeptFiles
    <2> QED BY <2>1, PlainFiles, OpKeeps
  <1> DEFINE create == Op("create", p, fs, Fresh) update == Op("update", p, fs, Fresh)
             delete == Op("delete", p, fs, NoArtifact)
  <1>4. create.path = p /\ update.path = p /\ delete.path = p
    BY DEF Op
  <1>5. ~exists(fs[p]) => create \in WritingOps
    BY <1>2
  <1>6. fs[p].class \in own => update \in WritingOps /\ delete \in RemovingOps
    BY <1>3
  <1> HIDE DEF create, update, delete
  <1>8. CASE ~exists(fs[p])
    <2>1. fs[p].class \notin own
      BY <1>8 DEF exists
    <2>2. plan = <<create>> /\ removal = <<>>
      BY <1>0, <1>8, <2>1 DEF create
    <2>3. plan \in Seq(WritingOps)
      BY <1>5, <1>8, <2>2, OneOp
    <2>4. Pending(plan) = {p} /\ Pending(removal) = {} /\ removal \in Seq(RemovingOps)
      BY <1>1, <1>4, <2>2, PendingOne
    <2> QED BY <1>8, <2>1, <2>3, <2>4
  <1>9. CASE fs[p].class \in own /\ fs[p] # Fresh
    <2>1. plan = <<update>> /\ removal = <<delete>>
      BY <1>0, <1>9 DEF update, delete
    <2>2. plan \in Seq(WritingOps) /\ removal \in Seq(RemovingOps)
      BY <1>6, <1>9, <2>1, OneOp
    <2>3. Pending(plan) = {p} /\ Pending(removal) = {p}
      BY <1>4, <2>1, PendingOne
    <2> QED BY <1>9, <2>2, <2>3
  <1>10. CASE exists(fs[p]) /\ fs[p].class \in own /\ fs[p] = Fresh
    <2>1. plan = <<>> /\ removal = <<delete>>
      BY <1>0, <1>10 DEF delete
    <2>2. plan \in Seq(WritingOps) /\ removal \in Seq(RemovingOps)
      BY <1>1, <1>6, <1>10, <2>1, OneOp
    <2>3. Pending(plan) = {} /\ Pending(removal) = {p}
      BY <1>4, <2>1, PendingOne
    <2> QED BY <1>10, <2>2, <2>3
  <1>11. CASE exists(fs[p]) /\ fs[p].class \notin own
    <2>1. plan = <<>> /\ removal = <<>>
      BY <1>0, <1>11
    <2>2. Pending(plan) = {} /\ Pending(removal) = {} /\ plan \in Seq(WritingOps) /\ removal \in Seq(RemovingOps)
      BY <1>1, <2>1, PendingOne
    <2> QED BY <1>11, <2>2
  <1>12. exists(fs[p]) \/ fs[p].class \notin own
    BY <1>0
  <1> QED BY <1>8, <1>9, <1>10, <1>11, <1>12

LEMMA OwnPlans ==
    ASSUME NEW fs \in [Paths -> KeptFiles], NEW p \in Paths
    PROVE  LET plan == reconcileManagedFile(p, fs, isManaged(fs[p]))
               removal == deleteIfManaged(p, fs, isManaged(fs[p]))
           IN  /\ plan \in Seq(WritingOps) /\ Pending(plan) \subseteq {p}
               /\ p \in Pending(plan) <=> fs[p].class \in {"absent", "stale"}
               /\ removal \in Seq(RemovingOps)
               /\ Pending(removal) = {x \in {p} : isManaged(fs[p])}
  <1> DEFINE plan == reconcileManagedFile(p, fs, isManaged(fs[p]))
             removal == deleteIfManaged(p, fs, isManaged(fs[p]))
             own == {"current", "stale"}
  <1>1. plan = PlanToWrite(p, fs, own) /\ removal = PlanToRemove(p, fs, own)
    BY DEF PlanToWrite, PlanToRemove, reconcileManagedFile, deleteIfManaged, isManaged, exists
  <1>2. own \in SUBSET {"current", "stale", "legacy"}
    OBVIOUS
  <1> HIDE DEF plan, removal, own
  <1>3. /\ plan \in Seq(WritingOps) /\ Pending(plan) \subseteq {p}
        /\ p \in Pending(plan) <=> (exists(fs[p]) => fs[p].class \in own /\ fs[p] # Fresh)
        /\ removal \in Seq(RemovingOps)
        /\ Pending(removal) = {x \in {p} : fs[p].class \in own}
    <2>1. /\ PlanToWrite(p, fs, own) \in Seq(WritingOps) /\ Pending(PlanToWrite(p, fs, own)) \subseteq {p}
          /\ p \in Pending(PlanToWrite(p, fs, own)) <=> (exists(fs[p]) => fs[p].class \in own /\ fs[p] # Fresh)
          /\ PlanToRemove(p, fs, own) \in Seq(RemovingOps)
          /\ Pending(PlanToRemove(p, fs, own)) \subseteq {p}
          /\ p \in Pending(PlanToRemove(p, fs, own)) <=> fs[p].class \in own
      BY <1>2, SmallPlans
    <2> QED BY <1>1, <2>1
  <1>4. p \in Pending(plan) <=> fs[p].class \in {"absent", "stale"}
    BY <1>3, FreshOnly DEF own, exists
  <1>5. Pending(removal) = {x \in {p} : isManaged(fs[p])}
    BY <1>3 DEF own, isManaged
  <1> QED BY <1>3, <1>4, <1>5 DEF plan, removal

LEMMA PointerPlans ==
    ASSUME NEW fs \in [Paths -> KeptFiles]
    PROVE  LET p == "pointer"
               plan == reconcileManagedFile(p, fs, isCodexPointerManaged(fs[p]))
               removal == deleteIfManaged(p, fs, isCodexPointerManaged(fs[p]))
           IN  /\ plan \in Seq(WritingOps) /\ Pending(plan) \subseteq {p}
               /\ p \in Pending(plan) <=> fs[p].class \in {"absent", "stale", "legacy"}
               /\ removal \in Seq(RemovingOps)
               /\ Pending(removal) = {x \in {p} : isCodexPointerManaged(fs[p])}
  <1> DEFINE p == "pointer"
             plan == reconcileManagedFile(p, fs, isCodexPointerManaged(fs[p]))
             removal == deleteIfManaged(p, fs, isCodexPointerManaged(fs[p]))
             own == {"current", "stale", "legacy"}
  <1>1. plan = PlanToWrite(p, fs, own) /\ removal = PlanToRemove(p, fs, own)
    BY DEF PlanToWrite, PlanToRemove, reconcileManagedFile, deleteIfManaged, isManaged, isCodexPointerManaged, exists
  <1>2. own \in SUBSET {"current", "stale", "legacy"} /\ p \in Paths
    BY DEF Paths
  <1> HIDE DEF plan, removal, own, p
  <1>3. /\ plan \in Seq(WritingOps) /\ Pending(plan) \subseteq {p}
        /\ p \in Pending(plan) <=> (exists(fs[p]) => fs[p].class \in own /\ fs[p] # Fresh)
        /\ removal \in Seq(RemovingOps)
        /\ Pending(removal) = {x \in {p} : fs[p].class \in own}
    <2>1. /\ PlanToWrite(p, fs, own) \in Seq(WritingOps) /\ Pending(PlanToWrite(p, fs, own)) \subseteq {p}
          /\ p \in Pending(PlanToWrite(p, fs, own)) <=> (exists(fs[p]) => fs[p].class \in own /\ fs[p] # Fresh)
          /\ PlanToRemove(p, fs, own) \in Seq(RemovingOps)
          /\ Pending(PlanToRemove(p, fs, own)) \subseteq {p}
          /\ p \in Pending(PlanToRemove(p, fs, own)) <=> fs[p].class \in own
      BY <1>2, SmallPlans
    <2> QED BY <1>1, <2>1
  <1>4. p \in Pending(plan) <=> fs[p].class \in {"absent", "stale", "legacy"}
    BY <1>2, <1>3, FreshOnly DEF own, exists
  <1>5. Pending(removal) = {x \in {p} : isCodexPointerManaged(fs[p])}
    BY <1>3 DEF own, isManaged, isCodexPointerManaged
  <1> QED BY <1>3, <1>4, <1>5 DEF plan, removal, p

\* What an install wants of a file: its own as it would write it, or a user's.
UpToDate(p, f) ==
    IF p = "bridge" THEN f.class \in {"current", "merged", "import"}
    ELSE f.class \notin {"absent", "stale"} /\ (p = "pointer" => f.class # "legacy")
\* What an uninstall takes for its own.
OurFile(f) == isManaged(f) \/ f.class \in {"merged", "mergedStale", "legacy"}

LEMMA SharedPlans ==
    ASSUME NEW fs \in [Paths -> KeptFiles]
    PROVE  /\ sharedOperations(fs) \in Seq(WritingOps) /\ Pending(sharedOperations(fs)) \subseteq Shared
           /\ \A p \in Shared : p \in Pending(sharedOperations(fs)) <=> ~UpToDate(p, fs[p])
           /\ deleteShared(fs) \in Seq(RemovingOps)
           /\ Pending(deleteShared(fs)) = {p \in Shared : isManaged(fs[p])}
  <1>1. "canonical" \in Paths \ {"bridge"} /\ "skill" \in Paths \ {"bridge"} /\ Shared = {"canonical", "skill"}
    BY DEF Paths, Shared
  <1> DEFINE r(p) == reconcileManagedFile(p, fs, isManaged(fs[p])) d(p) == deleteIfManaged(p, fs, isManaged(fs[p]))
  <1>2. ASSUME NEW p \in Paths
        PROVE  /\ r(p) \in Seq(WritingOps) /\ Pending(r(p)) \subseteq {p}
               /\ p \in Pending(r(p)) <=> fs[p].class \in {"absent", "stale"}
               /\ d(p) \in Seq(RemovingOps) /\ Pending(d(p)) = {x \in {p} : isManaged(fs[p])}
    BY OwnPlans
  <1>3. ASSUME NEW p \in Shared PROVE p \in Pending(r(p)) <=> ~UpToDate(p, fs[p])
    <2>1. p \in Paths /\ p # "bridge" /\ p # "pointer"
      BY <1>1
    <2> QED BY <1>2, <2>1 DEF UpToDate
  <1> DEFINE r1 == r("canonical") r2 == r("skill") d1 == d("skill") d2 == d("canonical")
  <1>4. sharedOperations(fs) = r1 \o r2 /\ deleteShared(fs) = d1 \o d2
    BY DEF sharedOperations, deleteShared
  <1>5. /\ r1 \in Seq(WritingOps) /\ Pending(r1) \subseteq {"canonical"} /\ r2 \in Seq(WritingOps) /\ Pending(r2) \subseteq {"skill"}
        /\ "canonical" \in Pending(r1) <=> ~UpToDate("canonical", fs["canonical"])
        /\ "skill" \in Pending(r2) <=> ~UpToDate("skill", fs["skill"])
    BY <1>1, <1>2, <1>3
  <1>6. /\ d1 \in Seq(RemovingOps) /\ Pending(d1) = {x \in {"skill"} : isManaged(fs["skill"])}
        /\ d2 \in Seq(RemovingOps) /\ Pending(d2) = {x \in {"canonical"} : isManaged(fs["canonical"])}
    BY <1>1, <1>2
  <1> HIDE DEF r1, r2, d1, d2
  <1>7. /\ r1 \o r2 \in Seq(WritingOps) /\ Pending(r1 \o r2) = Pending(r1) \cup Pending(r2)
    BY <1>5, PendingCat
  <1>8. /\ d1 \o d2 \in Seq(RemovingOps) /\ Pending(d1 \o d2) = Pending(d1) \cup Pending(d2)
    BY <1>6, PendingCat
  <1> QED BY <1>1, <1>4, <1>5, <1>6, <1>7, <1>8

\* What CLAUDE.md is, by its class.
LEMMA BridgeKinds ==
    ASSUME NEW b, b.class \in Classes
    PROVE  LET k == analyzeClaudeBridge(b)
           IN  /\ k.kind = "absent" <=> b.class = "absent"
               /\ k.kind = "managed" <=> b.class \in {"current", "stale", "merged", "mergedStale"}
               /\ k.kind = "unmanaged" <=> b.class \in {"user", "special", "legacy"}
               /\ k.owner = "ai_office_owned" <=> b.class \in {"current", "stale"}
               /\ k.owner = "merged" <=> b.class \in {"malformed", "merged", "mergedStale"}
               /\ k.owner = "user_owned" <=> b.class \in {"import", "user", "special", "legacy"}
               /\ k.kind = "direct_import" <=> b.class = "import"
               /\ k.kind = "conflict" <=> b.class = "malformed"
               /\ k.status = "integrated" <=> b.class \in {"import", "current", "merged"}
  <1> DEFINE k == analyzeClaudeBridge(b)
  <1>1. CASE b.class = "absent"
    <2>1. k = [kind |-> "absent", owner |-> "absent", status |-> "missing"]
      BY <1>1 DEF analyzeClaudeBridge
    <2> QED BY <1>1, <2>1
  <1>2. CASE b.class = "import"
    <2>1. k = [kind |-> "direct_import", owner |-> "user_owned", status |-> "integrated"]
      BY <1>2 DEF analyzeClaudeBridge
    <2> QED BY <1>2, <2>1
  <1>3. CASE b.class = "malformed"
    <2>1. k = [kind |-> "conflict", owner |-> "merged", status |-> "conflict"]
      BY <1>3 DEF analyzeClaudeBridge
    <2> QED BY <1>3, <2>1
  <1>4. CASE b.class = "current"
    <2>1. k = [kind |-> "managed", owner |-> "ai_office_owned", status |-> "integrated"]
      BY <1>4 DEF analyzeClaudeBridge
    <2> QED BY <1>4, <2>1
  <1>5. CASE b.class = "stale"
    <2>1. k = [kind |-> "managed", owner |-> "ai_office_owned", status |-> "drifted"]
      BY <1>5 DEF analyzeClaudeBridge
    <2> QED BY <1>5, <2>1
  <1>6. CASE b.class = "merged"
    <2>1. k = [kind |-> "managed", owner |-> "merged", status |-> "integrated"]
      BY <1>6 DEF analyzeClaudeBridge
    <2> QED BY <1>6, <2>1
  <1>7. CASE b.class = "mergedStale"
    <2>1. k = [kind |-> "managed", owner |-> "merged", status |-> "drifted"]
      BY <1>7 DEF analyzeClaudeBridge
    <2> QED BY <1>7, <2>1
  <1>8. CASE b.class \in {"user", "special", "legacy"}
    <2>1. k = [kind |-> "unmanaged", owner |-> "user_owned", status |-> "unmanaged"]
      BY <1>8 DEF analyzeClaudeBridge
    <2> QED BY <1>8, <2>1
  <1> QED BY <1>1, <1>2, <1>3, <1>4, <1>5, <1>6, <1>7, <1>8 DEF Classes

\* What a plan does to CLAUDE.md keeps the words of its class.
LEMMA BridgeOpsKeep ==
    ASSUME NEW fs \in [Paths -> KeptFiles], NEW class \in {"current", "merged", "user"},
           class = "current" => fs["bridge"].text = 0
    PROVE  LET o == Op("update", "bridge", fs, [fs["bridge"] EXCEPT !.class = class])
           IN  /\ o.path = "bridge"
               /\ class # "user" => o \in WritingOps
               /\ class = "user" => o \in RemovingOps
  <1> DEFINE b == fs["bridge"] next == [class |-> class, text |-> b.text]
  <1>1. b \in KeptFiles /\ "bridge" \in Paths
    BY DEF Paths
  <1>2. next \in KeptFiles /\ exists(next) /\ next.text = b.text /\ next.class = class
    BY <1>1 DEF KeptFiles, File, exists, Classes, WordlessClasses
  <1>3. [b EXCEPT !.class = class] = next
    BY <1>1 DEF KeptFiles, File
  <1>4. Op("update", "bridge", fs, next).path = "bridge"
    BY DEF Op
  <1> HIDE DEF next
  <1> QED BY <1>1, <1>2, <1>3, <1>4, OpKeeps

\* The files a client's plan is about.
PathsOf(client) == Shared \cup (IF client = "codex" THEN {"pointer"} ELSE {"bridge", "claudeSkill"})

\* A plan to install writes, and what it leaves alone is up to date.
LEMMA InstallPlans ==
    ASSUME NEW fs \in [Paths -> KeptFiles], NEW client, fs["bridge"].class # "malformed" \/ client = "codex"
    PROVE  LET ops == clientPlan("install", client, fs).ops
           IN  /\ ops \in Seq(WritingOps) /\ Pending(ops) \subseteq PathsOf(client)
               /\ \A p \in PathsOf(client) : p \in Pending(ops) <=> ~UpToDate(p, fs[p])
  <1> DEFINE b == fs["bridge"] k == analyzeClaudeBridge(b) shared == sharedOperations(fs)
  <1>0. "pointer" \in Paths \ {"bridge"} /\ "bridge" \in Paths /\ "claudeSkill" \in Paths \ {"bridge"}
    BY DEF Paths
  <1>1. /\ shared \in Seq(WritingOps) /\ Pending(shared) \subseteq Shared
        /\ \A p \in Shared : p \in Pending(shared) <=> ~UpToDate(p, fs[p])
    BY SharedPlans
  <1> HIDE DEF shared
  <1>2. CASE client = "codex"
    <2> DEFINE pointer == reconcileManagedFile("pointer", fs, isCodexPointerManaged(fs["pointer"]))
    <2>1. pointer \in Seq(WritingOps) /\ Pending(pointer) \subseteq {"pointer"}
      BY PointerPlans
    <2>2. "pointer" \in Pending(pointer) <=> ~UpToDate("pointer", fs["pointer"])
      BY PointerPlans DEF UpToDate
    <2>3. clientPlan("install", client, fs).ops = shared \o pointer
      BY <1>2 DEF clientPlan, planCodex, shared
    <2> HIDE DEF pointer
    <2>4. shared \o pointer \in Seq(WritingOps) /\ Pending(shared \o pointer) = Pending(shared) \cup Pending(pointer)
      BY <1>1, <2>1, PendingCat
    <2>5. PathsOf(client) = Shared \cup {"pointer"}
      BY <1>2 DEF PathsOf
    <2> QED BY <1>1, <2>1, <2>2, <2>3, <2>4, <2>5
  <1>3. CASE client # "codex"
    <2>1. b \in KeptFiles /\ b.class \in Classes /\ (b.class \in WordlessClasses => b.text = 0)
      BY <1>0 DEF KeptFiles, File
    <2>2. /\ k.kind = "absent" <=> b.class = "absent"
          /\ k.kind = "managed" <=> b.class \in {"current", "stale", "merged", "mergedStale"}
          /\ k.kind = "unmanaged" <=> b.class \in {"user", "special", "legacy"}
          /\ k.owner = "merged" <=> b.class \in {"malformed", "merged", "mergedStale"}
          /\ k.status = "integrated" <=> b.class \in {"import", "current", "merged"}
      BY <2>1, BridgeKinds
    <2> DEFINE append == Op("update", "bridge", fs, [b EXCEPT !.class = "merged"])
               create == Op("create", "bridge", fs, Fresh)
               renew == Op("update", "bridge", fs, [b EXCEPT !.class = IF k.owner = "merged" THEN "merged" ELSE "current"])
               bridge == CASE k.kind = "absent"    -> <<create>>
                           [] k.kind = "unmanaged" -> <<append>>
                           [] k.kind = "managed" /\ k.status # "integrated" -> <<renew>>
                           [] OTHER -> <<>>
               skill == reconcileManagedFile("claudeSkill", fs, isManaged(fs["claudeSkill"]))
    <2>3. clientPlan("install", client, fs).ops = (shared \o bridge) \o skill
      BY <1>3 DEF clientPlan, planClaude, shared
    <2>4. append \in WritingOps /\ append.path = "bridge"
      BY BridgeOpsKeep
    <2>5. k.kind = "absent" => create \in WritingOps /\ create.path = "bridge"
      <3>1. k.kind = "absent" => b.text = 0
        BY <2>1, <2>2 DEF WordlessClasses
      <3>2. create.path = "bridge"
        BY DEF Op
      <3> QED BY <1>0, <3>1, <3>2, PlainFiles, OpKeeps
    <2>6. k.kind = "managed" => renew \in WritingOps /\ renew.path = "bridge"
      <3> SUFFICES ASSUME k.kind = "managed" PROVE renew \in WritingOps /\ renew.path = "bridge"
        OBVIOUS
      <3> DEFINE class == IF k.owner = "merged" THEN "merged" ELSE "current"
      <3>1. class \in {"current", "merged", "user"} /\ class # "user" /\ (class = "current" => b.text = 0)
        BY <2>1, <2>2 DEF WordlessClasses
      <3> HIDE DEF class
      <3>2. Op("update", "bridge", fs, [b EXCEPT !.class = class]) \in WritingOps
            /\ Op("update", "bridge", fs, [b EXCEPT !.class = class]).path = "bridge"
        BY <3>1, BridgeOpsKeep
      <3> QED BY <3>2 DEF class
    <2>7. /\ skill \in Seq(WritingOps) /\ Pending(skill) \subseteq {"claudeSkill"}
          /\ "claudeSkill" \in Pending(skill) <=> ~UpToDate("claudeSkill", fs["claudeSkill"])
      <3>1. /\ skill \in Seq(WritingOps) /\ Pending(skill) \subseteq {"claudeSkill"}
            /\ "claudeSkill" \in Pending(skill) <=> fs["claudeSkill"].class \in {"absent", "stale"}
        BY <1>0, OwnPlans
      <3> QED BY <3>1 DEF UpToDate
    <2> HIDE DEF append, create, renew, k, skill
    <2>8. /\ bridge \in Seq(WritingOps) /\ Pending(bridge) \subseteq {"bridge"}
          /\ "bridge" \in Pending(bridge) <=> ~UpToDate("bridge", b)
      <3>1. CASE k.kind = "absent"
        <4>1. bridge = <<create>>
          BY <3>1
        <4> QED BY <2>2, <2>5, <3>1, <4>1, OneOp, PendingOne DEF UpToDate
      <3>2. CASE k.kind = "unmanaged"
        <4>1. bridge = <<append>>
          BY <3>2
        <4> QED BY <2>2, <2>4, <4>1, <3>2, OneOp, PendingOne DEF UpToDate
      <3>3. CASE k.kind = "managed" /\ k.status # "integrated"
        <4>1. bridge = <<renew>>
          BY <3>3
        <4> QED BY <2>2, <2>6, <3>3, <4>1, OneOp, PendingOne DEF UpToDate
      <3>4. CASE k.kind \notin {"absent", "unmanaged"} /\ ~(k.kind = "managed" /\ k.status # "integrated")
        <4>1. bridge = <<>>
          BY <3>4
        <4>2. b.class \in {"current", "merged", "import"}
          BY <1>3, <2>1, <2>2, <3>4 DEF Classes
        <4> QED BY <4>1, <4>2, PendingOne DEF UpToDate
      <3> QED BY <3>1, <3>2, <3>3, <3>4
    <2> HIDE DEF bridge
    <2>9. shared \o bridge \in Seq(WritingOps) /\ Pending(shared \o bridge) = Pending(shared) \cup Pending(bridge)
      BY <1>1, <2>8, PendingCat
    <2>10. /\ (shared \o bridge) \o skill \in Seq(WritingOps)
           /\ Pending((shared \o bridge) \o skill) = Pending(shared) \cup Pending(bridge) \cup Pending(skill)
      <3> DEFINE first == shared \o bridge
      <3>1. first \in Seq(WritingOps) /\ Pending(first) = Pending(shared) \cup Pending(bridge)
        BY <2>9
      <3> HIDE DEF first
      <3>2. first \o skill \in Seq(WritingOps) /\ Pending(first \o skill) = Pending(first) \cup Pending(skill)
        BY <2>7, <3>1, PendingCat
      <3> QED BY <3>1, <3>2 DEF first
    <2>11. PathsOf(client) = Shared \cup {"bridge", "claudeSkill"}
      BY <1>3 DEF PathsOf
    <2> QED BY <1>1, <2>3, <2>7, <2>8, <2>10, <2>11
  <1> QED BY <1>2, <1>3

\* The files that make an uninstall leave the shared ones.
ReferTo(fs) == importsShared(fs) \/ isUserOwnedCodexHost(fs["pointer"])

\* A plan to uninstall Claude takes its skill and its part of CLAUDE.md.
LEMMA ClaudeRemoval ==
    ASSUME NEW fs \in [Paths -> KeptFiles], \A p \in Paths : InPlace(p, fs[p].class)
    PROVE  LET ops == planUninstallClaude(fs).ops
           IN  /\ ops \in Seq(RemovingOps)
               /\ \A p \in {"bridge", "claudeSkill"} : OurFile(fs[p]) => p \in Pending(ops)
  <1> DEFINE b == fs["bridge"] k == analyzeClaudeBridge(b)
  <1>0. "bridge" \in Paths /\ "claudeSkill" \in Paths
    BY DEF Paths
  <1>1. b \in KeptFiles /\ b.class \in Classes /\ (b.class \in WordlessClasses => b.text = 0)
    BY <1>0 DEF KeptFiles, File
  <1>2. /\ k.kind = "managed" <=> b.class \in {"current", "stale", "merged", "mergedStale"}
        /\ k.owner = "ai_office_owned" <=> b.class \in {"current", "stale"}
    BY <1>1, BridgeKinds
  <1> DEFINE skill == deleteIfManaged("claudeSkill", fs, isManaged(fs["claudeSkill"]))
             delete == Op("delete", "bridge", fs, NoArtifact)
             unblock == Op("update", "bridge", fs, [b EXCEPT !.class = "user"])
             bridge == CASE k.kind = "managed" /\ k.owner = "ai_office_owned" -> <<delete>>
                         [] k.kind = "managed" /\ k.owner # "ai_office_owned" -> <<unblock>>
                         [] OTHER -> <<>>
             rest == IF exists(fs["pointer"]) \/ k.kind \in {"direct_import", "conflict"} THEN <<>> ELSE deleteShared(fs)
  <1>3. planUninstallClaude(fs).ops = (skill \o bridge) \o rest
    BY DEF planUninstallClaude
  <1>4. k.owner = "ai_office_owned" => delete \in RemovingOps /\ delete.path = "bridge"
    <2>1. k.owner = "ai_office_owned" => b.text = 0
      BY <1>1, <1>2 DEF WordlessClasses
    <2>2. delete.path = "bridge"
      BY DEF Op
    <2> QED BY <1>0, <2>1, <2>2, PlainFiles, OpKeeps
  <1>5. unblock \in RemovingOps /\ unblock.path = "bridge"
    BY BridgeOpsKeep
  <1>6. skill \in Seq(RemovingOps) /\ Pending(skill) = {x \in {"claudeSkill"} : isManaged(fs["claudeSkill"])}
    BY <1>0, OwnPlans
  <1>7. rest \in Seq(RemovingOps)
    <2>1. deleteShared(fs) \in Seq(RemovingOps) /\ <<>> \in Seq(RemovingOps)
      BY SharedPlans
    <2>2. rest = <<>> \/ rest = deleteShared(fs)
      OBVIOUS
    <2> HIDE DEF rest
    <2> QED BY <2>1, <2>2
  <1> HIDE DEF skill, delete, unblock, k, rest
  <1>8. bridge \in Seq(RemovingOps) /\ (OurFile(b) => "bridge" \in Pending(bridge))
    <2>1. CASE k.kind = "managed" /\ k.owner = "ai_office_owned"
      <3>1. bridge = <<delete>>
        BY <2>1
      <3> QED BY <1>4, <2>1, <3>1, PendingOne
    <2>2. CASE k.kind = "managed" /\ k.owner # "ai_office_owned"
      <3>1. bridge = <<unblock>>
        BY <2>2
      <3> QED BY <1>5, <3>1, PendingOne
    <2>3. CASE k.kind # "managed"
      <3>1. bridge = <<>>
        BY <2>3
      <3>2. ~OurFile(b)
        BY <1>0, <1>2, <2>3 DEF OurFile, isManaged, InPlace
      <3> QED BY <3>1, <3>2
    <2> QED BY <2>1, <2>2, <2>3
  <1> HIDE DEF bridge
  <1>9. skill \o bridge \in Seq(RemovingOps) /\ Pending(skill \o bridge) = Pending(skill) \cup Pending(bridge)
    BY <1>6, <1>8, PendingCat
  <1>10. /\ (skill \o bridge) \o rest \in Seq(RemovingOps)
         /\ Pending((skill \o bridge) \o rest) = Pending(skill) \cup Pending(bridge) \cup Pending(rest)
    <2> DEFINE first == skill \o bridge
    <2>1. first \in Seq(RemovingOps) /\ Pending(first) = Pending(skill) \cup Pending(bridge)
      BY <1>9
    <2> HIDE DEF first
    <2>2. first \o rest \in Seq(RemovingOps) /\ Pending(first \o rest) = Pending(first) \cup Pending(rest)
      BY <1>7, <2>1, PendingCat
    <2> QED BY <2>1, <2>2 DEF first
  <1>11. OurFile(fs["claudeSkill"]) => isManaged(fs["claudeSkill"])
    BY <1>0 DEF OurFile, InPlace
  <1> QED BY <1>3, <1>6, <1>8, <1>10, <1>11

\* A plan to uninstall Codex takes AGENTS.md if it is AI Office's, and the
\* shared files nobody refers to.
LEMMA CodexRemoval ==
    ASSUME NEW fs \in [Paths -> KeptFiles], \A p \in Paths : InPlace(p, fs[p].class)
    PROVE  LET ops == planUninstallCodex(fs).ops
           IN  /\ ops \in Seq(RemovingOps) /\ Pending(ops) \subseteq Shared \cup {"pointer"}
               /\ "pointer" \in Pending(ops) => ~isUserOwnedCodexHost(fs["pointer"])
               /\ OurFile(fs["pointer"]) => "pointer" \in Pending(ops)
               /\ \A p \in Shared : OurFile(fs[p]) => p \in Pending(ops) \/ ReferTo(fs)
  <1>0. "pointer" \in Paths /\ Shared \subseteq Paths \ {"pointer", "bridge"}
    BY DEF Paths, Shared
  <1> DEFINE pointer == deleteIfManaged("pointer", fs, isCodexPointerManaged(fs["pointer"]))
             rest == IF ReferTo(fs) THEN <<>> ELSE deleteShared(fs)
  <1>1. planUninstallCodex(fs).ops = pointer \o rest
    BY DEF planUninstallCodex, ReferTo
  <1>2. pointer \in Seq(RemovingOps) /\ Pending(pointer) = {x \in {"pointer"} : isCodexPointerManaged(fs["pointer"])}
    BY PointerPlans
  <1>3. rest \in Seq(RemovingOps) /\ Pending(rest) = {p \in Shared : isManaged(fs[p]) /\ ~ReferTo(fs)}
    <2>1. deleteShared(fs) \in Seq(RemovingOps) /\ Pending(deleteShared(fs)) = {p \in Shared : isManaged(fs[p])}
      BY SharedPlans
    <2>2. CASE ReferTo(fs)
      <3>1. rest = <<>>
        BY <2>2
      <3> QED BY <2>2, <3>1, PendingOne
    <2>3. CASE ~ReferTo(fs)
      <3>1. rest = deleteShared(fs)
        BY <2>3
      <3> QED BY <2>1, <2>3, <3>1
    <2> QED BY <2>2, <2>3
  <1> HIDE DEF pointer, rest
  <1>4. pointer \o rest \in Seq(RemovingOps) /\ Pending(pointer \o rest) = Pending(pointer) \cup Pending(rest)
    BY <1>2, <1>3, PendingCat
  <1>5. OurFile(fs["pointer"]) => isCodexPointerManaged(fs["pointer"])
    BY <1>0 DEF OurFile, InPlace, isCodexPointerManaged
  <1>6. \A p \in Shared : OurFile(fs[p]) => isManaged(fs[p])
    BY <1>0 DEF OurFile, InPlace
  <1>7. "pointer" \notin Shared
    BY <1>0
  <1> QED BY <1>1, <1>2, <1>3, <1>4, <1>5, <1>6, <1>7 DEF isUserOwnedCodexHost

\* The entries of a list of things to do.
Waiting(todo) == {todo[i] : i \in DOMAIN todo}

\* What an uninstall may not leave behind: files of AI Office's, but for the
\* shared ones that a user's file refers to.
Clean == \A p \in Paths : OurFile(artifacts[p]) => p \in Shared /\ ReferTo(artifacts)

\* An install that nobody disturbs: a client is still waiting, or has what it
\* wants, or was not to be configured; and what is wrong with the files of the
\* client at hand is in the plan.
SetupGoesOn ==
    op.cmd = "install" /\ quiet /\ op.pc # "failed" =>
        /\ attached /\ artifacts["bridge"].class # "malformed"
        /\ op.todo \in Seq(AgentClients \cup {"shared"})
        /\ \A c \in AgentClients :
             \/ c \in Waiting(op.todo)
             \/ \A p \in PathsOf(c) : UpToDate(p, artifacts[p])
             \/ c \notin detected /\ ~hasManagedClientState(c, artifacts)
        /\ op.pc # "detach"
        /\ op.pc = "done" => op.todo = <<>>
        /\ op.pc # "done" => op.todo # <<>> /\ Tail(op.todo) \in Seq(AgentClients)
        /\ op.pc \in {"plan", "hash"} => Head(op.todo) \in AgentClients
        /\ op.pc \in {"check", "commit"} =>
             IF Head(op.todo) = "shared" THEN Pending(op.ops) \subseteq Shared
             ELSE /\ Pending(op.ops) \subseteq PathsOf(Head(op.todo))
                  /\ \A p \in PathsOf(Head(op.todo)) : p \in Pending(op.ops) \/ UpToDate(p, artifacts[p])

\* An uninstall that nobody disturbs: first Claude's files, then Codex's and
\* the shared ones; what is left of AI Office's is still in the plan.
RemovalGoesOn ==
    op.cmd = "uninstall" /\ quiet =>
        /\ op.pc = "done" => ~attached /\ (approved.installed => Clean)
        /\ op.pc = "detach" => Clean
        /\ op.pc \in {"plan", "hash", "check", "commit"} =>
             /\ op.todo \in {<<"claude", "codex">>, <<"codex">>}
             /\ op.todo = <<"codex">> => ~OurFile(artifacts["bridge"]) /\ ~OurFile(artifacts["claudeSkill"])
        /\ op.pc \in {"check", "commit"} /\ op.todo = <<"claude", "codex">> =>
             \A p \in {"bridge", "claudeSkill"} : OurFile(artifacts[p]) => p \in Pending(op.ops)
        /\ op.pc \in {"check", "commit"} /\ op.todo = <<"codex">> =>
             /\ Pending(op.ops) \subseteq Shared \cup {"pointer"}
             /\ "pointer" \in Pending(op.ops) => ~isUserOwnedCodexHost(artifacts["pointer"])
             /\ OurFile(artifacts["pointer"]) => "pointer" \in Pending(op.ops)
             /\ \A p \in Shared : OurFile(artifacts[p]) => p \in Pending(op.ops) \/ ReferTo(artifacts)

LEMMA StatusOfUpToDate ==
    ASSUME NEW fs \in [Paths -> KeptFiles], NEW c \in AgentClients, NEW found \in BOOLEAN,
           fs["bridge"].class # "malformed", \A p \in PathsOf(c) : UpToDate(p, fs[p]),
           found \/ hasManagedClientState(c, fs)
    PROVE  clientStatus(c, fs, found) \in {"configured", "unmanaged"}
  <1> DEFINE k == analyzeClaudeBridge(fs["bridge"])
             conflict == (k.kind = "conflict" /\ c = "claude") \/ (found /\ ~validate(c, fs))
             none == ~found /\ ~hasManagedClientState(c, fs)
             whole == validate(c, fs) /\ clientPlan("install", c, fs).ops = <<>>
  <1>1. "bridge" \in Paths /\ fs["bridge"] \in KeptFiles /\ fs["bridge"].class \in Classes
    BY DEF Paths, KeptFiles, File
  <1>2. /\ k.kind = "conflict" <=> fs["bridge"].class = "malformed"
        /\ k.status = "integrated" <=> fs["bridge"].class \in {"import", "current", "merged"}
    BY <1>1, BridgeKinds
  <1>3. validate(c, fs)
    <2>1. exists(fs["canonical"]) /\ exists(fs["skill"])
      BY DEF PathsOf, UpToDate, Shared, exists
    <2>2. c = "codex" => exists(fs["pointer"])
      BY DEF PathsOf, UpToDate, Shared, exists
    <2>3. c # "codex" => k.status = "integrated" /\ exists(fs["claudeSkill"])
      BY <1>2 DEF PathsOf, UpToDate, Shared, exists
    <2> QED BY <2>1, <2>2, <2>3 DEF validate
  <1>4. clientPlan("install", c, fs).ops = <<>>
    <2> DEFINE ops == clientPlan("install", c, fs).ops
    <2>1. /\ ops \in Seq(WritingOps) /\ Pending(ops) \subseteq PathsOf(c)
          /\ \A p \in PathsOf(c) : p \in Pending(ops) <=> ~UpToDate(p, fs[p])
      BY InstallPlans
    <2> HIDE DEF ops
    <2>2. ops # <<>> => Head(ops).path \in Pending(ops)
      BY <2>1, PendingTail
    <2> QED BY <2>1, <2>2 DEF ops
  <1>5. clientStatus(c, fs, found) \in
          {"unmanaged", IF none THEN "not_configured" ELSE IF whole THEN "configured"
                        ELSE IF hasManagedClientState(c, fs) THEN "drifted" ELSE "missing"}
    <2>1. ~conflict
      BY <1>2, <1>3
    <2> QED BY <2>1 DEF clientStatus
  <1>6. ~none /\ whole
    BY <1>3, <1>4
  <1> HIDE DEF none, whole
  <1> QED BY <1>5, <1>6

LEMMA WaitingOn ==
    /\ Waiting(<<>>) = {}
    /\ \A x : Waiting(<<x>>) = {x}
    /\ \A x, y : Waiting(<<x, y>>) = {x, y}
  <1>1. \A x : DOMAIN <<x>> = {1} /\ <<x>>[1] = x
    OBVIOUS
  <1>2. DOMAIN <<>> = {}
    OBVIOUS
  <1>3. \A x, y : DOMAIN <<x, y>> = {1, 2} /\ <<x, y>>[1] = x /\ <<x, y>>[2] = y
    OBVIOUS
  <1> QED BY <1>1, <1>2, <1>3 DEF Waiting

LEMMA WaitingTail ==
    ASSUME NEW S, NEW s \in Seq(S), s # <<>>
    PROVE  Waiting(s) = {Head(s)} \cup Waiting(Tail(s))
  <1>1. /\ Tail(s) \in Seq(S) /\ Len(s) \in Nat \ {0} /\ DOMAIN s = 1 .. Len(s)
        /\ DOMAIN Tail(s) = 1 .. Len(s) - 1 /\ Head(s) = s[1]
    OBVIOUS
  <1>2. \A i \in 1 .. Len(s) - 1 : Tail(s)[i] = s[i + 1]
    OBVIOUS
  <1>3. ASSUME NEW i \in 1 .. Len(s) PROVE s[i] \in {Head(s)} \cup Waiting(Tail(s))
    <2>1. CASE i = 1
      BY <1>1, <2>1
    <2>2. CASE i # 1
      <3>1. i - 1 \in 1 .. Len(s) - 1 /\ (i - 1) + 1 = i
        BY <1>1, <2>2
      <3>2. i - 1 \in DOMAIN Tail(s) /\ Tail(s)[i - 1] = s[i]
        BY <1>1, <1>2, <3>1
      <3> QED BY <3>2 DEF Waiting
    <2> QED BY <2>1, <2>2
  <1>4. ASSUME NEW i \in 1 .. Len(s) - 1 PROVE Tail(s)[i] \in Waiting(s)
    <2>1. i + 1 \in DOMAIN s /\ Tail(s)[i] = s[i + 1]
      BY <1>1, <1>2
    <2> QED BY <2>1 DEF Waiting
  <1>5. 1 \in DOMAIN s
    BY <1>1
  <1>6. Head(s) \in Waiting(s)
    BY <1>1, <1>5 DEF Waiting
  <1>7. Waiting(s) \subseteq {Head(s)} \cup Waiting(Tail(s))
    <2>1. \A x \in Waiting(s) : \E i \in 1 .. Len(s) : x = s[i]
      BY <1>1 DEF Waiting
    <2> QED BY <1>3, <2>1
  <1>8. Waiting(Tail(s)) \subseteq Waiting(s)
    <2>1. \A x \in Waiting(Tail(s)) : \E i \in 1 .. Len(s) - 1 : x = Tail(s)[i]
      BY <1>1 DEF Waiting
    <2> QED BY <1>4, <2>1
  <1> QED BY <1>6, <1>7, <1>8

\* Two lists of one entry each.
LEMMA TwoInARow ==
    ASSUME NEW S, NEW s \in Seq(S), NEW t \in Seq(S), Len(s) = 1, Len(t) = 1
    PROVE  s \o t = <<s[1], t[1]>>
  <1> DEFINE r == s \o t
  <1>1. r \in Seq(S) /\ Len(r) = 2 /\ Len(s) \in Nat /\ Len(t) \in Nat
    OBVIOUS
  <1>2. /\ \A i \in 1 .. Len(s) : r[i] = s[i]
        /\ \A i \in 1 .. Len(t) : r[Len(s) + i] = t[i]
    OBVIOUS
  <1>3. r[1] = s[1] /\ r[2] = t[1]
    BY <1>1, <1>2
  <1> HIDE DEF r
  <1>4. r = <<s[1], t[1]>>
    BY <1>1, <1>3
  <1> QED BY <1>4 DEF r

\* Who an install is for: the clients on the host and those with files here.
LEMMA CandidatesWait ==
    ASSUME NEW fs, NEW found
    PROVE  /\ candidates(fs, found) \in Seq(AgentClients)
           /\ Waiting(candidates(fs, found)) = {c \in AgentClients : c \in found \/ hasManagedClientState(c, fs)}
  <1> DEFINE own(c) == IF c \in found \/ hasManagedClientState(c, fs) THEN <<c>> ELSE <<>>
             wanted(c) == c \in found \/ hasManagedClientState(c, fs)
             todo == candidates(fs, found)
  <1>1. todo = own("codex") \o own("claude")
    BY DEF candidates
  <1>2. AgentClients = {"codex", "claude"}
    BY DEF AgentClients
  <1>3. CASE wanted("codex") /\ wanted("claude")
    <2>0. own("codex") = <<"codex">> /\ own("claude") = <<"claude">>
      BY <1>3
    <2>1. todo = <<"codex", "claude">>
      <3> DEFINE s == <<"codex">> t == <<"claude">>
      <3>1. /\ s \in Seq(AgentClients) /\ t \in Seq(AgentClients)
            /\ Len(s) = 1 /\ Len(t) = 1 /\ s[1] = "codex" /\ t[1] = "claude"
        BY <1>2
      <3>2. own("codex") = s /\ own("claude") = t
        BY <2>0
      <3> HIDE DEF own, s, t
      <3>3. todo = s \o t
        BY <1>1, <3>2
      <3>4. s \o t = <<s[1], t[1]>>
        BY <3>1, TwoInARow
      <3> QED BY <3>1, <3>3, <3>4
    <2>2. todo \in Seq(AgentClients)
      BY <1>2, <2>1
    <2>3. Waiting(todo) = {"codex", "claude"}
      BY <2>1, WaitingOn
    <2> QED BY <1>2, <1>3, <2>2, <2>3
  <1>4. CASE wanted("codex") /\ ~wanted("claude")
    <2>1. todo = <<"codex">>
      BY <1>1, <1>4
    <2>2. todo \in Seq(AgentClients)
      BY <1>2, <2>1
    <2>3. Waiting(todo) = {"codex"}
      BY <2>1, WaitingOn
    <2> QED BY <1>2, <1>4, <2>2, <2>3
  <1>5. CASE ~wanted("codex") /\ wanted("claude")
    <2>1. todo = <<"claude">>
      BY <1>1, <1>5
    <2>2. todo \in Seq(AgentClients)
      BY <1>2, <2>1
    <2>3. Waiting(todo) = {"claude"}
      BY <2>1, WaitingOn
    <2> QED BY <1>2, <1>5, <2>2, <2>3
  <1>6. CASE ~wanted("codex") /\ ~wanted("claude")
    <2>1. todo = <<>>
      BY <1>1, <1>6
    <2>2. todo \in Seq(AgentClients)
      BY <2>1
    <2>3. Waiting(todo) = {}
      BY <2>1, WaitingOn
    <2> QED BY <1>2, <1>6, <2>2, <2>3
  <1> QED BY <1>3, <1>4, <1>5, <1>6

\* A write of an install spoils nothing that is up to date.
LEMMA WritesStayUpToDate ==
    ASSUME NEW fs, NEW o \in WritingOps, NEW p \in Paths, UpToDate(p, fs[p]) \/ p = o.path
    PROVE  UpToDate(p, IF p = o.path THEN o.next ELSE fs[p])
  BY DEF WritingOps, KeepingOps, UpToDate

LEMMA WiderPlans ==
    /\ \A ops \in Seq(WritingOps) : ops \in Seq(KeepingOps)
    /\ \A ops \in Seq(RemovingOps) : ops \in Seq(KeepingOps)
  <1>1. WritingOps \subseteq KeepingOps /\ RemovingOps \subseteq KeepingOps
    BY DEF WritingOps, RemovingOps
  <1> HIDE DEF WritingOps, RemovingOps, KeepingOps
  <1> QED BY <1>1

\* A plan for a client, whichever command it is made for.
LEMMA PlansKeep ==
    ASSUME NEW fs \in [Paths -> KeptFiles], \A p \in Paths : InPlace(p, fs[p].class),
           NEW cmd \in {"install", "uninstall"}, NEW client, ~clientPlan(cmd, client, fs).conflict
    PROVE  LET ops == clientPlan(cmd, client, fs).ops
           IN  /\ ops \in Seq(KeepingOps)
               /\ cmd = "install" => ops \in Seq(WritingOps)
               /\ cmd = "uninstall" => ops \in Seq(RemovingOps)
  <1> DEFINE ops == clientPlan(cmd, client, fs).ops
  <1>1. CASE cmd = "install"
    <2>1. fs["bridge"].class # "malformed" \/ client = "codex"
      <3> SUFFICES ASSUME fs["bridge"].class = "malformed", client # "codex" PROVE FALSE
        OBVIOUS
      <3>1. clientPlan(cmd, client, fs) = planClaude(fs)
        BY <1>1 DEF clientPlan
      <3>2. analyzeClaudeBridge(fs["bridge"]).kind = "conflict"
        BY BridgeKinds DEF Classes
      <3>3. planClaude(fs).conflict
        BY <3>2 DEF planClaude
      <3> QED BY <3>1, <3>3
    <2>2. clientPlan("install", client, fs).ops \in Seq(WritingOps)
      BY <2>1, InstallPlans
    <2> QED BY <1>1, <2>2, WiderPlans
  <1>2. CASE cmd = "uninstall"
    <2>1. CASE client = "codex"
      <3>1. clientPlan(cmd, client, fs) = planUninstallCodex(fs)
        BY <1>2, <2>1 DEF clientPlan
      <3>2. planUninstallCodex(fs).ops \in Seq(RemovingOps)
        BY CodexRemoval
      <3> QED BY <1>2, <3>1, <3>2, WiderPlans
    <2>2. CASE client # "codex"
      <3>1. clientPlan(cmd, client, fs) = planUninstallClaude(fs)
        BY <1>2, <2>2 DEF clientPlan
      <3>2. planUninstallClaude(fs).ops \in Seq(RemovingOps)
        BY ClaudeRemoval
      <3> QED BY <1>2, <3>1, <3>2, WiderPlans
    <2> QED BY <2>1, <2>2
  <1> QED BY <1>1, <1>2

LEMMA FormsKept ==
    ASSUME NEW p \in Paths, NEW f \in KeptFiles, InPlace(p, f.class),
           userEdits \in 0 .. MaxUserEdits, userEdits < MaxUserEdits, NEW g \in userForms(p, f)
    PROVE  g \in KeptFiles /\ InPlace(p, g.class)
  <1>0. userEdits + 2 \in 0 .. MaxUserEdits + 1 /\ 0 \in 0 .. MaxUserEdits + 1
    BY ClientAssumption
  <1>1. CASE g \in {NoArtifact, [class |-> "user", text |-> userEdits + 2], [class |-> "special", text |-> 0]}
    BY <1>0, <1>1 DEF KeptFiles, File, NoArtifact, Classes, WordlessClasses, InPlace
  <1>2. CASE f.class = "current" /\ g = [f EXCEPT !.class = "stale"]
    <2>1. g = [class |-> "stale", text |-> f.text] /\ f.text = 0
      BY <1>2 DEF KeptFiles, File, WordlessClasses
    <2> QED BY <1>0, <2>1 DEF KeptFiles, File, Classes, InPlace
  <1>3. CASE f.class = "merged" /\ g = [f EXCEPT !.class = "mergedStale"]
    <2>1. g = [class |-> "mergedStale", text |-> f.text] /\ f.text \in 0 .. MaxUserEdits + 1
      BY <1>3 DEF KeptFiles, File
    <2> QED BY <1>3, <2>1 DEF KeptFiles, File, Classes, WordlessClasses, InPlace
  <1>4. CASE \E c \in {"import", "malformed", "merged"} : p = "bridge" /\ g = [class |-> c, text |-> userEdits + 2]
    BY <1>0, <1>4 DEF KeptFiles, File, Classes, WordlessClasses, InPlace
  <1> QED BY <1>1, <1>2, <1>3, <1>4 DEF userForms

LEMMA ClientInitWords == ClientInit => WordsInv
  <1> SUFFICES ASSUME ClientInit PROVE WordsInv
    OBVIOUS
  <1>1. PICK p \in {"absent", "user", "legacy"}, b \in {"absent", "user", "import"} :
          artifacts = [x \in Paths |->
                   CASE x = "pointer" /\ p # "absent" -> [class |-> p, text |-> IF p = "user" THEN 1 ELSE 0]
                     [] x = "bridge" /\ b # "absent"  -> [class |-> b, text |-> 1]
                     [] OTHER -> NoArtifact]
    BY DEF ClientInit
  <1>2. ASSUME NEW x \in Paths PROVE artifacts[x] \in KeptFiles /\ InPlace(x, artifacts[x].class)
    <2>0. 0 \in 0 .. MaxUserEdits + 1 /\ 1 \in 0 .. MaxUserEdits + 1
      BY ClientAssumption
    <2>1. NoArtifact \in KeptFiles /\ [class |-> b, text |-> 1] \in KeptFiles \cup {[class |-> "absent", text |-> 1]}
          /\ [class |-> p, text |-> IF p = "user" THEN 1 ELSE 0] \in KeptFiles
      BY <2>0 DEF KeptFiles, File, NoArtifact, Classes, WordlessClasses
    <2>2. CASE x = "pointer" /\ p # "absent"
      <3>1. artifacts[x] = [class |-> p, text |-> IF p = "user" THEN 1 ELSE 0]
        BY <1>1, <2>2
      <3> QED BY <2>1, <2>2, <3>1 DEF InPlace
    <2>3. CASE x = "bridge" /\ b # "absent"
      <3>1. artifacts[x] = [class |-> b, text |-> 1]
        BY <1>1, <2>3
      <3> QED BY <2>0, <2>3, <3>1 DEF KeptFiles, File, Classes, WordlessClasses, InPlace
    <2>4. CASE ~(x = "pointer" /\ p # "absent") /\ ~(x = "bridge" /\ b # "absent")
      <3>1. artifacts[x] = NoArtifact
        BY <1>1, <2>4
      <3> QED BY <2>1, <3>1 DEF NoArtifact, InPlace
    <2> QED BY <2>2, <2>3, <2>4
  <1>3. ShapeOK
    <2>1. artifacts \in [Paths -> KeptFiles] /\ \A x \in Paths : InPlace(x, artifacts[x].class)
      BY <1>1, <1>2
    <2>2. userEdits \in 0 .. MaxUserEdits
      BY ClientAssumption DEF ClientInit
    <2>3. detected \subseteq AgentClients /\ attached \in BOOLEAN /\ quiet \in BOOLEAN /\ approved = NoApproval
      BY DEF ClientInit
    <2> QED BY <2>1, <2>2, <2>3 DEF ShapeOK
  <1>4. OpsKeep /\ LookedAt
    BY DEF ClientInit, OpsKeep, LookedAt, NoCommand
  <1> QED BY <1>3, <1>4 DEF WordsInv

\* What no step of AI Office does to a checkout's files.
WordsStay == UserTextKept /\ SharedOutlivesHosts

\* A command that was left, or goes on with nothing to write.
LEMMA OpsEnd ==
    ASSUME OpsKeep, op' = NoCommand \/ (op.pc # "idle" /\ \E outcome \in {"failed", "done"} : Finish(outcome))
    PROVE  (OpsKeep /\ LookedAt)'
  <1>1. CASE op' = NoCommand
    BY <1>1 DEF OpsKeep, LookedAt, NoCommand
  <1>2. ASSUME op.pc # "idle", NEW outcome \in {"failed", "done"}, Finish(outcome) PROVE (OpsKeep /\ LookedAt)'
    <2>1. op' = [cmd |-> op.cmd, pc |-> outcome, todo |-> <<>>, shared |-> op.shared, plan |-> op.plan,
                 ops |-> <<>>, racy |-> op.racy]
      BY <1>2 DEF Finish, OpsKeep
    <2> QED BY <1>2, <2>1 DEF OpsKeep, LookedAt
  <1> QED BY <1>1, <1>2

LEMMA WordsStep ==
    ASSUME WordsInv, [ClientNext]_clientVars
    PROVE  WordsInv' /\ [WordsStay]_clientVars
  <1>0. /\ artifacts \in [Paths -> KeptFiles] /\ userEdits \in 0 .. MaxUserEdits /\ ShapeOK /\ OpsKeep /\ LookedAt
        /\ \A p \in Paths : InPlace(p, artifacts[p].class)
        /\ op = [cmd |-> op.cmd, pc |-> op.pc, todo |-> op.todo, shared |-> op.shared,
                 plan |-> op.plan, ops |-> op.ops, racy |-> op.racy]
    BY DEF WordsInv, ShapeOK, OpsKeep
  <1>1. ASSUME artifacts' = artifacts PROVE WordsStay
    BY <1>1 DEF WordsStay, UserTextKept, SharedOutlivesHosts
  <1>2. ASSUME userEdits' = userEdits + 1 PROVE WordsStay
    <2>1. userEdits' # userEdits
      BY <1>0, <1>2, ClientAssumption
    <2> QED BY <2>1 DEF WordsStay, UserTextKept, SharedOutlivesHosts
  <1>same. ASSUME UNCHANGED <<artifacts, userEdits, detected>>, attached' \in BOOLEAN, quiet' \in BOOLEAN,
                  approved' = NoApproval \/ approved' = approved \/ approved'.files = artifacts
           PROVE  ShapeOK'
    BY <1>0, <1>same DEF ShapeOK
  <1>3. ASSUME UNCHANGED <<artifacts, userEdits, detected>>, attached' \in BOOLEAN, quiet' \in BOOLEAN,
               approved' = NoApproval \/ approved' = approved \/ approved'.files = artifacts,
               op' = NoCommand \/ (op.pc # "idle" /\ \E outcome \in {"failed", "done"} : Finish(outcome))
        PROVE  WordsInv' /\ WordsStay
    BY <1>0, <1>1, <1>3, <1>same, OpsEnd DEF WordsInv
  <1>4. ASSUME NEW p \in Paths, NEW f \in userForms(p, artifacts[p]), Edit(p, f) PROVE WordsInv' /\ WordsStay
    <2>1. /\ artifacts' = [artifacts EXCEPT ![p] = f] /\ userEdits' = userEdits + 1 /\ userEdits < MaxUserEdits
          /\ quiet' = FALSE /\ UNCHANGED <<detected, attached, approved>>
          /\ op' = [op EXCEPT !.racy = @ \/ op.pc = "commit"]
      BY <1>4 DEF Edit
    <2>0. f \in KeptFiles /\ InPlace(p, f.class)
      BY <1>0, <2>1, FormsKept
    <2>2. ShapeOK'
      <3>1. artifacts' \in [Paths -> KeptFiles] /\ \A x \in Paths : InPlace(x, artifacts'[x].class)
        BY <1>0, <2>0, <2>1
      <3>2. userEdits' \in 0 .. MaxUserEdits
        BY <1>0, <2>1, ClientAssumption
      <3> QED BY <1>0, <2>1, <3>1, <3>2 DEF ShapeOK
    <2> DEFINE racy == op.racy \/ op.pc = "commit"
    <2>3. op' = [cmd |-> op.cmd, pc |-> op.pc, todo |-> op.todo, shared |-> op.shared,
                 plan |-> op.plan, ops |-> op.ops, racy |-> racy]
      BY <1>0, <2>1
    <2>4. op'.racy = racy /\ racy \in BOOLEAN
      BY <2>3
    <2>5. /\ op'.cmd = op.cmd /\ op'.pc = op.pc /\ op'.todo = op.todo /\ op'.shared = op.shared
          /\ op'.plan = op.plan /\ op'.ops = op.ops
      BY <2>3
    <2>6. OpsKeep'
      <3>1. op' = [cmd |-> op'.cmd, pc |-> op'.pc, todo |-> op'.todo, shared |-> op'.shared,
                   plan |-> op'.plan, ops |-> op'.ops, racy |-> op'.racy]
        <4> HIDE DEF racy
        <4> QED BY <2>3, <2>4, <2>5
      <3> HIDE DEF racy
      <3> QED BY <1>0, <2>4, <2>5, <3>1 DEF OpsKeep
    <2>7. LookedAt'
      BY <2>4, <2>5 DEF LookedAt
    <2> QED BY <1>0, <1>2, <2>1, <2>2, <2>6, <2>7 DEF WordsInv
  <1>5. ASSUME OfficeChanges PROVE WordsInv' /\ WordsStay
    <2>1. /\ op' = op /\ op.pc = "idle" /\ userEdits' = userEdits + 1 /\ userEdits < MaxUserEdits
          /\ quiet' = FALSE /\ UNCHANGED <<detected, attached, approved>>
          /\ artifacts' = [p \in Paths |-> IF p \in Shared /\ artifacts[p].class = "current"
                               THEN [artifacts[p] EXCEPT !.class = "stale"] ELSE artifacts[p]]
      BY <1>5 DEF OfficeChanges
    <2>2. ASSUME NEW p \in Paths PROVE artifacts'[p] \in KeptFiles /\ InPlace(p, artifacts'[p].class)
      <3>1. CASE p \in Shared /\ artifacts[p].class = "current"
        <4>1. artifacts[p] \in KeptFiles /\ artifacts'[p] = [artifacts[p] EXCEPT !.class = "stale"]
          BY <1>0, <2>1, <3>1
        <4>2. artifacts'[p] = [class |-> "stale", text |-> artifacts[p].text] /\ artifacts[p].text = 0
          BY <3>1, <4>1 DEF KeptFiles, File, WordlessClasses
        <4> QED BY <4>1, <4>2 DEF KeptFiles, File, Classes, InPlace
      <3>2. CASE ~(p \in Shared /\ artifacts[p].class = "current")
        BY <1>0, <2>1, <3>2
      <3> QED BY <3>1, <3>2
    <2>3. ShapeOK'
      <3>1. artifacts' \in [Paths -> KeptFiles] /\ \A x \in Paths : InPlace(x, artifacts'[x].class)
        BY <2>1, <2>2
      <3>2. userEdits' \in 0 .. MaxUserEdits
        BY <1>0, <2>1, ClientAssumption
      <3> QED BY <1>0, <2>1, <3>1, <3>2 DEF ShapeOK
    <2>4. (OpsKeep /\ LookedAt)'
      BY <1>0, <2>1 DEF OpsKeep, LookedAt
    <2> QED BY <1>0, <1>2, <2>1, <2>3, <2>4 DEF WordsInv
  <1>6. ASSUME InstallBegin PROVE WordsInv' /\ WordsStay
    <2> DEFINE todo == candidates(artifacts, detected)
    <2>1. /\ UNCHANGED <<artifacts, userEdits, detected, approved>> /\ attached' \in {attached, TRUE} /\ quiet' = TRUE
          /\ \/ op' = [NoCommand EXCEPT !.cmd = "install", !.pc = "failed"]
             \/ op' = [NoCommand EXCEPT !.cmd = "install", !.pc = "check", !.todo = <<"shared">> \o todo,
                                   !.ops = sharedOperations(artifacts)]
      BY <1>6 DEF InstallBegin
    <2> HIDE DEF todo
    <2>2. sharedOperations(artifacts) \in Seq(WritingOps) /\ sharedOperations(artifacts) \in Seq(KeepingOps)
      BY <1>0, SharedPlans, WiderPlans
    <2>3. (OpsKeep /\ LookedAt)'
      <3>1. CASE op' = [NoCommand EXCEPT !.cmd = "install", !.pc = "failed"]
        <4>1. op' = [cmd |-> "install", pc |-> "failed", todo |-> <<>>, shared |-> <<>>,
                     plan |-> <<>>, ops |-> <<>>, racy |-> FALSE]
          BY <3>1 DEF NoCommand
        <4> QED BY <4>1 DEF OpsKeep, LookedAt
      <3>2. CASE op' = [NoCommand EXCEPT !.cmd = "install", !.pc = "check", !.todo = <<"shared">> \o todo,
                                   !.ops = sharedOperations(artifacts)]
        <4>1. op' = [cmd |-> "install", pc |-> "check", todo |-> <<"shared">> \o todo, shared |-> <<>>,
                     plan |-> <<>>, ops |-> sharedOperations(artifacts), racy |-> FALSE]
          BY <3>2 DEF NoCommand
        <4> QED BY <2>2, <4>1 DEF OpsKeep, LookedAt
      <3> QED BY <2>1, <3>1, <3>2
    <2>4. attached' \in BOOLEAN /\ quiet' \in BOOLEAN
      BY <1>0, <2>1 DEF ShapeOK
    <2> QED BY <1>0, <1>1, <1>same, <2>1, <2>3, <2>4 DEF WordsInv
  <1>7. ASSUME UninstallPlan PROVE WordsInv' /\ WordsStay
    <2>1. /\ UNCHANGED <<artifacts, userEdits, detected, op>> /\ approved'.files = artifacts
          /\ attached' \in BOOLEAN /\ quiet' \in BOOLEAN
      BY <1>0, <1>7 DEF UninstallPlan, ShapeOK
    <2>2. (OpsKeep /\ LookedAt)'
      BY <1>0, <2>1 DEF OpsKeep, LookedAt
    <2> QED BY <1>0, <1>1, <1>same, <2>1, <2>2 DEF WordsInv
  <1>8. ASSUME UninstallBegin PROVE WordsInv' /\ WordsStay
    <2>0. PICK pc \in {"failed", "done", "plan"} : \E todo :
            op' = [NoCommand EXCEPT !.cmd = "uninstall", !.pc = pc, !.todo = todo] 
            /\ UNCHANGED <<artifacts, userEdits, detected, attached, approved, quiet>>
      BY <1>8 DEF UninstallBegin
    <2>1. PICK todo :
            op' = [NoCommand EXCEPT !.cmd = "uninstall", !.pc = pc, !.todo = todo]
            /\ UNCHANGED <<artifacts, userEdits, detected, attached, approved, quiet>>
      BY <2>0
    <2>2. (OpsKeep /\ LookedAt)'
      <3>1. op' = [cmd |-> "uninstall", pc |-> pc, todo |-> todo, shared |-> <<>>,
                   plan |-> <<>>, ops |-> <<>>, racy |-> FALSE]
        BY <2>1 DEF NoCommand
      <3> QED BY <3>1 DEF OpsKeep, LookedAt
    <2>3. attached' \in BOOLEAN /\ quiet' \in BOOLEAN
      BY <1>0, <2>1 DEF ShapeOK
    <2> QED BY <1>0, <1>1, <1>same, <2>1, <2>2, <2>3 DEF WordsInv
  <1>9. ASSUME PlanClient PROVE WordsInv' /\ WordsStay
    <2>1. /\ UNCHANGED <<artifacts, userEdits, detected, attached, approved, quiet>> /\ attached' \in BOOLEAN /\ quiet' \in BOOLEAN
          /\ op.pc = "plan"
          /\ Finish("failed") \/ \E plan : op' = [op EXCEPT !.pc = "hash", !.plan = plan]
      BY <1>0, <1>9 DEF PlanClient, ShapeOK
    <2>2. ASSUME NEW plan, op' = [op EXCEPT !.pc = "hash", !.plan = plan] PROVE (OpsKeep /\ LookedAt)'
      <3>1. op' = [cmd |-> op.cmd, pc |-> "hash", todo |-> op.todo, shared |-> op.shared,
                   plan |-> plan, ops |-> op.ops, racy |-> op.racy]
        BY <1>0, <2>2
      <3> QED BY <1>0, <2>1, <3>1 DEF OpsKeep, LookedAt
    <2> QED BY <1>0, <1>1, <1>3, <1>same, <2>1, <2>2 DEF WordsInv
  <1>10. ASSUME ApplyClient PROVE WordsInv' /\ WordsStay
    <2> DEFINE ops == clientPlan(op.cmd, Head(op.todo), artifacts).ops
    <2>1. /\ UNCHANGED <<artifacts, userEdits, detected, attached, approved, quiet>> /\ attached' \in BOOLEAN /\ quiet' \in BOOLEAN
          /\ op.pc = "hash"
          /\ \/ Finish("failed")
             \/ /\ ~clientPlan(op.cmd, Head(op.todo), artifacts).conflict
                /\ op' = [op EXCEPT !.pc = "check", !.ops = ops, !.plan = <<>>]
      BY <1>0, <1>10 DEF ApplyClient, ShapeOK
    <2> HIDE DEF ops
    <2>3. ASSUME op' = [op EXCEPT !.pc = "check", !.ops = ops, !.plan = <<>>],
                 ~clientPlan(op.cmd, Head(op.todo), artifacts).conflict
          PROVE (OpsKeep /\ LookedAt)'
      <3>0. op.cmd \in {"install", "uninstall"}
        BY <1>0, <2>1 DEF OpsKeep
      <3>2. /\ ops \in Seq(KeepingOps)
            /\ op.cmd = "install" => ops \in Seq(WritingOps)
            /\ op.cmd = "uninstall" => ops \in Seq(RemovingOps)
        BY <1>0, <2>3, <3>0, PlansKeep DEF ops
      <3>1. op' = [cmd |-> op.cmd, pc |-> "check", todo |-> op.todo, shared |-> op.shared,
                   plan |-> <<>>, ops |-> ops, racy |-> op.racy]
        BY <1>0, <2>3
      <3> QED BY <1>0, <2>1, <3>1, <3>2 DEF OpsKeep, LookedAt
    <2> QED BY <1>0, <1>1, <1>3, <1>same, <2>1, <2>3 DEF WordsInv
  <1>11. ASSUME CheckFile PROVE WordsInv' /\ WordsStay
    <2> DEFINE o == Head(op.ops)
    <2>1. /\ UNCHANGED <<artifacts, userEdits, detected, attached, approved, quiet>> /\ attached' \in BOOLEAN /\ quiet' \in BOOLEAN
          /\ op.pc = "check" /\ op.ops # <<>>
          /\ \/ Finish("failed")
             \/ /\ op' = [op EXCEPT !.pc = "commit", !.racy = FALSE]
                /\ artifacts[o.path] = o.expected
                /\ ~(op.cmd = "uninstall" /\ o.kind = "delete" /\ o.path \in Shared
                      /\ stillRequired(Head(op.todo), artifacts))
      BY <1>0, <1>11 DEF CheckFile, ShapeOK
    <2>2. ASSUME op' = [op EXCEPT !.pc = "commit", !.racy = FALSE], artifacts[o.path] = o.expected,
                 ~(op.cmd = "uninstall" /\ o.kind = "delete" /\ o.path \in Shared
                   /\ stillRequired(Head(op.todo), artifacts))
          PROVE (OpsKeep /\ LookedAt)'
      <3>1. op' = [cmd |-> op.cmd, pc |-> "commit", todo |-> op.todo, shared |-> op.shared,
                   plan |-> op.plan, ops |-> op.ops, racy |-> FALSE]
        BY <1>0, <2>2
      <3>2. OpsKeep'
        BY <1>0, <2>1, <3>1 DEF OpsKeep
      <3>3. LookedAt'
        BY <2>1, <2>2, <3>1 DEF LookedAt, stillRequired, importsShared, bridgeKind
      <3> QED BY <3>2, <3>3
    <2> QED BY <1>0, <1>1, <1>3, <1>same, <2>1, <2>2 DEF WordsInv
  <1>12. ASSUME CommitFile PROVE WordsInv' /\ WordsStay
    <2> DEFINE o == Head(op.ops)
    <2>0. /\ op.pc = "commit" /\ UNCHANGED <<userEdits, detected, attached, approved, quiet>>
          /\ attached' \in BOOLEAN /\ quiet' \in BOOLEAN /\ op.ops \in Seq(KeepingOps) /\ op.ops # <<>>
      BY <1>0, <1>12 DEF CommitFile, OpsKeep, ShapeOK
    <2>1. o \in KeepingOps /\ Tail(op.ops) \in Seq(KeepingOps)
          /\ (op.cmd = "install" => o \in WritingOps /\ Tail(op.ops) \in Seq(WritingOps))
          /\ (op.cmd = "uninstall" => o \in RemovingOps /\ Tail(op.ops) \in Seq(RemovingOps))
      BY <1>0, <2>0 DEF OpsKeep
    <2>2. CASE artifacts' = artifacts /\ Finish("failed")
      BY <1>3, <2>0, <2>2
    <2>3. CASE /\ artifacts' = [artifacts EXCEPT ![o.path] = o.next]
               /\ op' = [op EXCEPT !.pc = "check", !.ops = Tail(@)]
               /\ ~(o.kind = "create" /\ exists(artifacts[o.path]))
      <3>1. o.path \in Paths /\ o.next \in KeptFiles /\ o.expected \in KeptFiles
            /\ artifacts'[o.path] = o.next /\ \A p \in Paths : p # o.path => artifacts'[p] = artifacts[p]
        BY <1>0, <2>1, <2>3 DEF KeepingOps
      <3>2. ShapeOK'
        <4>1. InPlace(o.path, o.next.class)
          BY <2>1 DEF KeepingOps, InPlace
        <4>2. artifacts' \in [Paths -> KeptFiles] /\ \A p \in Paths : InPlace(p, artifacts'[p].class)
          BY <1>0, <2>3, <3>1, <4>1
        <4> QED BY <1>0, <2>0, <4>2 DEF ShapeOK
      <3>3. (OpsKeep /\ LookedAt)'
        <4>1. op' = [cmd |-> op.cmd, pc |-> "check", todo |-> op.todo, shared |-> op.shared,
                     plan |-> op.plan, ops |-> Tail(op.ops), racy |-> op.racy]
          BY <1>0, <2>3
        <4> QED BY <1>0, <2>0, <2>1, <4>1 DEF OpsKeep, LookedAt
      <3>4. UserTextKept
        <4> SUFFICES ASSUME artifacts'[o.path].text # artifacts[o.path].text PROVE op.racy /\ op.ops[1].kind # "create"
          BY <3>1 DEF UserTextKept
        <4>1. op.racy
          <5>1. ~op.racy => artifacts[o.path] = o.expected
            BY <1>0, <2>0 DEF LookedAt
          <5>2. o.next.text = o.expected.text
            BY <2>1 DEF KeepingOps
          <5> QED BY <3>1, <5>1, <5>2
        <4>2. o.kind # "create"
          <5> SUFFICES ASSUME o.kind = "create" PROVE FALSE
            OBVIOUS
          <5>1. artifacts[o.path].class = "absent" /\ artifacts[o.path] \in KeptFiles
            BY <1>0, <2>3, <3>1 DEF exists
          <5>2. artifacts[o.path].text = 0
            BY <5>1 DEF KeptFiles, WordlessClasses
          <5>3. o.next.text = 0
            BY <2>1 DEF KeepingOps
          <5> QED BY <3>1, <5>2, <5>3
        <4>3. op.ops[1] = o
          BY <2>0
        <4> QED BY <4>1, <4>2, <4>3
      <3>5. SharedOutlivesHosts
        <4> SUFFICES ASSUME o.path \in Shared, exists(artifacts[o.path]), ~exists(o.next), ~op.racy
                     PROVE  ~importsShared(artifacts) /\ ~isUserOwnedCodexHost(artifacts["pointer"])
          BY <3>1 DEF SharedOutlivesHosts, Shared, Paths
        <4>1. o.kind = "delete" /\ op.cmd = "uninstall"
          BY <1>0, <2>0, <2>1 DEF KeepingOps, WritingOps, OpsKeep
        <4>2. ~stillRequired(Head(op.todo), artifacts)
          BY <1>0, <2>0, <4>1 DEF LookedAt
        <4> QED BY <4>2 DEF stillRequired, isUserOwnedCodexHost
      <3> QED BY <1>0, <2>0, <3>2, <3>3, <3>4, <3>5 DEF WordsInv, WordsStay
    <2> QED BY <1>12, <2>2, <2>3 DEF CommitFile
  <1>13. ASSUME FileError PROVE WordsInv' /\ WordsStay
    BY <1>0, <1>3, <1>13 DEF FileError, ShapeOK
  <1>14. ASSUME NextClient PROVE WordsInv' /\ WordsStay
    <2>0. PICK pc \in {"plan", "done", "detach"} : \E todo :
            op' = [op EXCEPT !.todo = todo, !.pc = pc] /\ op.pc = "check"
            /\ UNCHANGED <<artifacts, userEdits, detected, attached, approved, quiet>>
      BY <1>14 DEF NextClient
    <2>1. PICK todo :
            op' = [op EXCEPT !.todo = todo, !.pc = pc] /\ op.pc = "check"
            /\ UNCHANGED <<artifacts, userEdits, detected, attached, approved, quiet>>
      BY <2>0
    <2>2. op' = [cmd |-> op.cmd, pc |-> pc, todo |-> todo, shared |-> op.shared,
                 plan |-> op.plan, ops |-> op.ops, racy |-> op.racy]
      BY <1>0, <2>1
    <2>3. (OpsKeep /\ LookedAt)'
      BY <1>0, <2>1, <2>2 DEF OpsKeep, LookedAt
    <2>4. attached' \in BOOLEAN /\ quiet' \in BOOLEAN
      BY <1>0, <2>1 DEF ShapeOK
    <2> QED BY <1>0, <1>1, <1>same, <2>1, <2>3, <2>4 DEF WordsInv
  <1>15. ASSUME Detach PROVE WordsInv' /\ WordsStay
    BY <1>0, <1>3, <1>15 DEF Detach, ShapeOK
  <1>16. ASSUME AnswerLifecycle PROVE WordsInv' /\ WordsStay
    <2>1. /\ op' = NoCommand /\ approved' = NoApproval /\ attached' \in BOOLEAN /\ quiet' \in BOOLEAN
          /\ UNCHANGED <<artifacts, userEdits, detected>>
      BY <1>0, <1>16 DEF AnswerLifecycle, ShapeOK
    <2>2. (OpsKeep /\ LookedAt)'
      BY <2>1 DEF OpsKeep, LookedAt, NoCommand
    <2> QED BY <1>0, <1>1, <1>same, <2>1, <2>2 DEF WordsInv
  <1>17. CASE UNCHANGED clientVars
    BY <1>0, <1>17 DEF clientVars, WordsInv, ShapeOK, OpsKeep, LookedAt
  <1> QED BY <1>4, <1>5, <1>6, <1>7, <1>8, <1>9, <1>10, <1>11, <1>12, <1>13, <1>14, <1>15, <1>16, <1>17 DEF ClientNext

LEMMA FirstWaits ==
    ASSUME NEW S, NEW one \in Seq(S), NEW s \in Seq(S)
    PROVE  LET t == one \o s
           IN  Len(one) = 1 => t \in Seq(S) /\ t # <<>> /\ Head(t) = one[1] /\ Tail(t) = s /\ Waiting(t) = {one[1]} \cup Waiting(s)
  <1>0. /\ one \o s \in Seq(S) /\ Len(one \o s) = Len(one) + Len(s) /\ Len(one) \in Nat /\ Len(s) \in Nat
        /\ \A i \in 1 .. Len(one) : (one \o s)[i] = one[i]
        /\ \A i \in 1 .. Len(s) : (one \o s)[Len(one) + i] = s[i]
    <2>1. one \o s \in Seq(S) /\ Len(one \o s) = Len(one) + Len(s) /\ Len(one) \in Nat /\ Len(s) \in Nat
      OBVIOUS
    <2>2. /\ \A i \in 1 .. Len(one) : (one \o s)[i] = one[i]
          /\ \A i \in 1 .. Len(s) : (one \o s)[Len(one) + i] = s[i]
      OBVIOUS
    <2> QED BY <2>1, <2>2
  <1> DEFINE t == one \o s
  <1> SUFFICES ASSUME Len(one) = 1
               PROVE  t \in Seq(S) /\ t # <<>> /\ Head(t) = one[1] /\ Tail(t) = s /\ Waiting(t) = {one[1]} \cup Waiting(s)
    OBVIOUS
  <1>1. t \in Seq(S) /\ Len(t) = 1 + Len(s) /\ Len(s) \in Nat
    BY <1>0
  <1>3. t[1] = one[1] /\ \A i \in 1 .. Len(s) : t[1 + i] = s[i]
    BY <1>0
  <1> HIDE DEF t
  <1>4. t # <<>> /\ Head(t) = one[1]
    BY <1>1, <1>3
  <1>5. Tail(t) = s
    <2>1. Tail(t) \in Seq(S) /\ Len(Tail(t)) = Len(s) /\ \A i \in 1 .. Len(s) : Tail(t)[i] = t[i + 1]
      BY <1>1, <1>4
    <2>2. \A i \in 1 .. Len(s) : Tail(t)[i] = s[i]
      BY <1>1, <1>3, <2>1
    <2> QED BY <1>1, <2>1, <2>2
  <1>6. Waiting(t) = {one[1]} \cup Waiting(s)
    BY <1>1, <1>4, <1>5, WaitingTail
  <1> QED BY <1>1, <1>4, <1>5, <1>6 DEF t

\* A file of one client's is not the other's, nor the shared files anyone's.
LEMMA OwnFiles ==
    /\ \A c : PathsOf(c) \subseteq Paths
    /\ \A c \in AgentClients : c # "shared"
    /\ "codex" \in AgentClients /\ "claude" \in AgentClients
  BY DEF PathsOf, Paths, Shared, AgentClients

\* A file that is written for a client is no sign of another one.
LEMMA SignsStay ==
    ASSUME NEW c \in AgentClients, NEW fs \in [Paths -> KeptFiles], NEW p \in Paths, NEW f,
           p \in Shared \/ (\E d \in AgentClients : d # c /\ p \in PathsOf(d))
    PROVE  hasManagedClientState(c, [fs EXCEPT ![p] = f]) <=> hasManagedClientState(c, fs)
  <1> DEFINE gs == [fs EXCEPT ![p] = f]
  <1>1. CASE c = "codex"
    <2>1. gs["pointer"] = fs["pointer"]
      BY <1>1 DEF AgentClients, PathsOf, Shared, Paths
    <2> HIDE DEF gs
    <2>2. hasManagedClientState(c, gs) <=> hasManagedClientState(c, fs)
      BY <1>1, <2>1 DEF hasManagedClientState
    <2> QED BY <2>2 DEF gs
  <1>2. CASE c # "codex"
    <2>1. gs["bridge"] = fs["bridge"] /\ gs["claudeSkill"] = fs["claudeSkill"]
      BY <1>2 DEF AgentClients, PathsOf, Shared, Paths
    <2> HIDE DEF gs
    <2>2. hasManagedClientState(c, gs) <=> hasManagedClientState(c, fs)
      BY <1>2, <2>1 DEF hasManagedClientState
    <2> QED BY <2>2 DEF gs
  <1> QED BY <1>1, <1>2

\* A broken managed block is Claude's, so no install passes over it.
LEMMA BrokenBlockBlocks ==
    ASSUME NEW fs, NEW found, fs["bridge"].class = "malformed"
    PROVE  LET todo == candidates(fs, found)
           IN  \E i \in DOMAIN todo : clientPlan("install", todo[i], fs).conflict
  <1> DEFINE todo == candidates(fs, found)
  <1>1. analyzeClaudeBridge(fs["bridge"]).kind = "conflict" /\ analyzeClaudeBridge(fs["bridge"]).owner = "merged"
    BY BridgeKinds DEF Classes
  <1>2. hasManagedClientState("claude", fs)
    BY <1>1 DEF hasManagedClientState
  <1>3. "claude" \in Waiting(todo)
    BY <1>2, CandidatesWait, OwnFiles
  <1>4. clientPlan("install", "claude", fs).conflict
    <2>1. clientPlan("install", "claude", fs) = planClaude(fs)
      BY DEF clientPlan
    <2>2. planClaude(fs).conflict
      BY <1>1 DEF planClaude
    <2> QED BY <2>1, <2>2
  <1> HIDE DEF todo
  <1>5. \E i \in DOMAIN todo : clientPlan("install", todo[i], fs).conflict
    BY <1>3, <1>4 DEF Waiting
  <1> QED BY <1>5 DEF todo

LEMMA InstallStays ==
    ASSUME WordsInv, SetupGoesOn, ClientNext
    PROVE  SetupGoesOn'
  <1>0. /\ artifacts \in [Paths -> KeptFiles] /\ attached \in BOOLEAN /\ quiet \in BOOLEAN
        /\ op = [cmd |-> op.cmd, pc |-> op.pc, todo |-> op.todo, shared |-> op.shared,
                 plan |-> op.plan, ops |-> op.ops, racy |-> op.racy]
        /\ op.cmd = "none" <=> op.pc = "idle"
        /\ op.cmd \in {"none", "install", "uninstall"}
        /\ op.ops \in Seq(KeepingOps) /\ (op.cmd = "install" => op.ops \in Seq(WritingOps))
    BY DEF WordsInv, ShapeOK, OpsKeep
  <1> DEFINE Wanted(c, todo, fs) ==
                 \/ c \in Waiting(todo)
                 \/ \A p \in PathsOf(c) : UpToDate(p, fs[p])
                 \/ c \notin detected /\ ~hasManagedClientState(c, fs)
  \* An install that is still undisturbed was so before, unless it just began.
  <1>1. ASSUME op.cmd = "install", quiet, op.pc # "failed", op.pc # "idle"
        PROVE  /\ attached /\ artifacts["bridge"].class # "malformed"
               /\ op.todo \in Seq(AgentClients \cup {"shared"})
               /\ \A c \in AgentClients : Wanted(c, op.todo, artifacts)
               /\ op.pc # "detach"
               /\ op.pc # "done" => op.todo # <<>> /\ Tail(op.todo) \in Seq(AgentClients)
    BY <1>1 DEF SetupGoesOn
  <1>2. ASSUME ~(op'.cmd = "install" /\ quiet' /\ op'.pc # "failed") PROVE SetupGoesOn'
    BY <1>2 DEF SetupGoesOn
  <1>3. CASE (\E p \in Paths : \E f \in userForms(p, artifacts[p]) : Edit(p, f)) \/ OfficeChanges \/ FileError
    BY <1>2, <1>3 DEF Edit, OfficeChanges, FileError
  <1>4. CASE UninstallPlan \/ UninstallBegin \/ AnswerLifecycle
    <2>1. op'.cmd # "install"
      <3>1. CASE UninstallPlan
        BY <1>0, <3>1 DEF UninstallPlan
      <3>2. CASE UninstallBegin
        <4>1. PICK pc, todo : op' = [NoCommand EXCEPT !.cmd = "uninstall", !.pc = pc, !.todo = todo]
          BY <3>2 DEF UninstallBegin
        <4> QED BY <4>1 DEF NoCommand
      <3>3. CASE AnswerLifecycle
        BY <3>3 DEF AnswerLifecycle, NoCommand
      <3> QED BY <1>4, <3>1, <3>2, <3>3
    <2> QED BY <1>2, <2>1
  <1>5. CASE InstallBegin
    <2> DEFINE rest == candidates(artifacts, detected) todo == <<"shared">> \o rest
               ops == sharedOperations(artifacts)
    <2> SUFFICES ASSUME op'.pc # "failed" PROVE SetupGoesOn'
      BY <1>2
    <2>1. /\ ~(\E i \in DOMAIN rest : clientPlan("install", rest[i], artifacts).conflict)
          /\ op' = [NoCommand EXCEPT !.cmd = "install", !.pc = "check", !.todo = todo, !.ops = ops]
          /\ attached' = TRUE /\ artifacts' = artifacts /\ detected' = detected
      BY <1>5 DEF InstallBegin, NoCommand
    <2>2. artifacts["bridge"].class # "malformed"
      BY <2>1, BrokenBlockBlocks
    <2>3. rest \in Seq(AgentClients) /\ \A c \in AgentClients : Wanted(c, rest, artifacts)
      BY CandidatesWait
    <2>4. rest \in Seq(AgentClients \cup {"shared"})
      <3> HIDE DEF rest
      <3> QED BY <2>3
    <2>5. /\ todo \in Seq(AgentClients \cup {"shared"}) /\ todo # <<>> /\ Head(todo) = "shared"
          /\ Tail(todo) = rest /\ Waiting(todo) = {"shared"} \cup Waiting(rest)
      <3> DEFINE one == <<"shared">>
      <3>1. one \in Seq(AgentClients \cup {"shared"}) /\ Len(one) = 1 /\ one[1] = "shared"
        OBVIOUS
      <3> HIDE DEF rest, one
      <3>2. LET t == one \o rest
            IN  /\ t \in Seq(AgentClients \cup {"shared"}) /\ t # <<>> /\ Head(t) = one[1] /\ Tail(t) = rest
                /\ Waiting(t) = {one[1]} \cup Waiting(rest)
        BY <2>4, <3>1, FirstWaits
      <3>3. todo = one \o rest
        BY DEF one
      <3> HIDE DEF todo
      <3> QED BY <3>1, <3>2, <3>3
    <2>6. \A c \in AgentClients : Wanted(c, todo, artifacts)
      <3> HIDE DEF rest, todo
      <3> QED BY <2>3, <2>5
    <2>7. Pending(ops) \subseteq Shared
      BY <1>0, SharedPlans
    <2> HIDE DEF rest, todo, ops
    <2>8. op'.pc = "check" /\ op'.todo = todo /\ op'.ops = ops
      BY <2>1 DEF NoCommand
    <2> QED BY <2>1, <2>2, <2>3, <2>5, <2>6, <2>7, <2>8 DEF SetupGoesOn
  <1>6. CASE PlanClient
    <2> SUFFICES ASSUME op'.cmd = "install", quiet', op'.pc # "failed" PROVE SetupGoesOn'
      BY <1>2
    <2>1. /\ UNCHANGED <<artifacts, detected, attached, quiet>>
          /\ op.pc = "plan" /\ op.cmd = "install"
          /\ op'.pc = "hash" /\ op'.todo = op.todo
      BY <1>0, <1>6 DEF PlanClient, Finish
    <2>2. Head(op.todo) \in AgentClients
      BY <2>1 DEF SetupGoesOn
    <2> QED BY <1>1, <2>1, <2>2 DEF SetupGoesOn
  <1>7. CASE ApplyClient
    <2> DEFINE c == Head(op.todo) ops == clientPlan("install", c, artifacts).ops
    <2> SUFFICES ASSUME op'.cmd = "install", quiet', op'.pc # "failed" PROVE SetupGoesOn'
      BY <1>2
    <2>1. /\ UNCHANGED <<artifacts, detected, attached, quiet>>
          /\ op.pc = "hash" /\ op.cmd = "install"
          /\ op'.pc = "check" /\ op'.todo = op.todo /\ op'.ops = ops
      BY <1>0, <1>7 DEF ApplyClient, Finish
    <2>2. c \in AgentClients /\ c # "shared"
      BY <2>1, OwnFiles DEF SetupGoesOn
    <2>3. artifacts["bridge"].class # "malformed"
      BY <1>1, <2>1
    <2>4. Pending(ops) \subseteq PathsOf(c) /\ \A p \in PathsOf(c) : p \in Pending(ops) \/ UpToDate(p, artifacts[p])
      BY <1>0, <2>3, InstallPlans
    <2> HIDE DEF ops
    <2> QED BY <1>1, <2>1, <2>2, <2>4 DEF SetupGoesOn
  <1>8. CASE CheckFile
    <2> SUFFICES ASSUME op'.cmd = "install", quiet', op'.pc # "failed" PROVE SetupGoesOn'
      BY <1>2
    <2>1. /\ UNCHANGED <<artifacts, detected, attached, quiet>>
          /\ op.pc = "check" /\ op.cmd = "install"
          /\ op'.pc = "commit" /\ op'.todo = op.todo /\ op'.ops = op.ops
      BY <1>0, <1>8 DEF CheckFile, Finish
    <2> QED BY <2>1 DEF SetupGoesOn
  <1>9. CASE CommitFile
    <2> DEFINE o == Head(op.ops) h == Head(op.todo)
    <2> SUFFICES ASSUME op'.cmd = "install", quiet', op'.pc # "failed" PROVE SetupGoesOn'
      BY <1>2
    <2>1. /\ UNCHANGED <<detected, attached, quiet>>
          /\ op.pc = "commit" /\ op.cmd = "install" /\ op.ops # <<>>
          /\ artifacts' = [artifacts EXCEPT ![o.path] = o.next]
          /\ op'.pc = "check" /\ op'.todo = op.todo /\ op'.ops = Tail(op.ops)
      BY <1>0, <1>9 DEF CommitFile, Finish, WordsInv, OpsKeep
    <2>2. /\ o \in WritingOps /\ o.path \in Paths /\ o.next.class \in {"current", "merged"}
          /\ Pending(op.ops) = {o.path} \cup Pending(Tail(op.ops))
      <3>1. op.ops \in Seq(WritingOps) /\ o \in WritingOps
        BY <1>0, <2>1
      <3>2. Pending(op.ops) = {o.path} \cup Pending(Tail(op.ops))
        BY <2>1, <3>1, PendingTail
      <3> QED BY <3>1, <3>2 DEF WritingOps, KeepingOps
    <2>3. \A p \in Paths : artifacts'[p] = IF p = o.path THEN o.next ELSE artifacts[p]
      BY <1>0, <2>1
    <2>4. artifacts'["bridge"].class # "malformed"
      <3>1. "bridge" \in Paths
        BY DEF Paths
      <3> QED BY <1>1, <2>1, <2>2, <2>3, <3>1
    <2>5. \A p \in Paths : UpToDate(p, artifacts[p]) \/ p = o.path => UpToDate(p, artifacts'[p])
      BY <2>2, <2>3, WritesStayUpToDate
    <2>6. /\ h # "shared" => h \in AgentClients
          /\ h \in Waiting(op.todo)
          /\ h = "shared" => Pending(op.ops) \subseteq Shared
          /\ h # "shared" => /\ Pending(op.ops) \subseteq PathsOf(h)
                             /\ \A p \in PathsOf(h) : p \in Pending(op.ops) \/ UpToDate(p, artifacts[p])
      <3>1. op.todo \in Seq(AgentClients \cup {"shared"}) /\ op.todo # <<>>
        BY <1>1, <2>1
      <3>2. h \in AgentClients \cup {"shared"} /\ h \in Waiting(op.todo)
        BY <3>1, WaitingTail
      <3> QED BY <2>1, <3>2 DEF SetupGoesOn
    <2>7. ASSUME NEW c \in AgentClients PROVE Wanted(c, op.todo, artifacts')
      <3>1. CASE c \in Waiting(op.todo)
        BY <3>1
      <3>2. CASE \A p \in PathsOf(c) : UpToDate(p, artifacts[p])
        BY <2>5, <3>2, OwnFiles
      <3>3. CASE c \notin Waiting(op.todo) /\ c \notin detected /\ ~hasManagedClientState(c, artifacts)
        <4>1. o.path \in Shared \/ \E d \in AgentClients : d # c /\ o.path \in PathsOf(d)
          BY <2>2, <2>6, <3>3
        <4>2. hasManagedClientState(c, artifacts') <=> hasManagedClientState(c, artifacts)
          BY <1>0, <2>1, <2>2, <4>1, SignsStay
        <4> QED BY <3>3, <4>2
      <3> QED BY <1>1, <2>1, <3>1, <3>2, <3>3
    <2>8. IF h = "shared" THEN Pending(Tail(op.ops)) \subseteq Shared
          ELSE /\ Pending(Tail(op.ops)) \subseteq PathsOf(h)
               /\ \A p \in PathsOf(h) : p \in Pending(Tail(op.ops)) \/ UpToDate(p, artifacts'[p])
      BY <2>2, <2>5, <2>6, OwnFiles
    <2> QED BY <1>1, <2>1, <2>4, <2>7, <2>8 DEF SetupGoesOn
  <1>10. CASE NextClient
    <2> DEFINE h == Head(op.todo) rest == Tail(op.todo)
    <2> SUFFICES ASSUME op'.cmd = "install", quiet', op'.pc # "failed" PROVE SetupGoesOn'
      BY <1>2
    <2>1. /\ UNCHANGED <<artifacts, detected, attached, quiet>>
          /\ op.pc = "check" /\ op.cmd = "install" /\ op.ops = <<>>
          /\ op'.todo = rest /\ op'.pc = IF rest # <<>> THEN "plan" ELSE "done"
      BY <1>0, <1>10 DEF NextClient
    <2>2. /\ op.todo \in Seq(AgentClients \cup {"shared"}) /\ op.todo # <<>> /\ rest \in Seq(AgentClients)
      BY <1>1, <2>1
    <2>3. Waiting(op.todo) = {h} \cup Waiting(rest)
      BY <2>2, WaitingTail
    <2>4. h # "shared" => \A p \in PathsOf(h) : UpToDate(p, artifacts[p])
      BY <2>1, PendingOne DEF SetupGoesOn
    <2>5. \A c \in AgentClients : Wanted(c, rest, artifacts)
      BY <1>1, <2>1, <2>3, <2>4, OwnFiles
    <2> HIDE DEF rest
    <2>6. rest \in Seq(AgentClients \cup {"shared"}) /\ (rest # <<>> => Head(rest) \in AgentClients /\ Tail(rest) \in Seq(AgentClients))
      BY <2>2
    <2> QED BY <1>1, <2>1, <2>5, <2>6 DEF SetupGoesOn
  <1>11. CASE Detach
    <2> SUFFICES ASSUME op'.cmd = "install", quiet', op'.pc # "failed" PROVE SetupGoesOn'
      BY <1>2
    <2>1. op.cmd = "install" /\ op.pc = "detach" /\ quiet
      BY <1>0, <1>11 DEF Detach, Finish
    <2> QED BY <1>1, <2>1
  <1> QED BY <1>3, <1>4, <1>5, <1>6, <1>7, <1>8, <1>9, <1>10, <1>11 DEF ClientNext

\* A file of AI Office's that an uninstall changes is not AI Office's any more.
LEMMA RemovedIsNotOurs ==
    ASSUME NEW o \in RemovingOps
    PROVE  /\ ~OurFile(o.next) /\ o.path \in Paths
           /\ o.path = "pointer" => ~isUserOwnedCodexHost(o.next)
  <1>1. /\ o.next.class \in {"absent", "user"} /\ o.path \in Paths
        /\ o.next.class = "user" => o.path = "bridge"
    BY DEF RemovingOps, KeepingOps
  <1>2. ~OurFile(o.next)
    BY <1>1 DEF OurFile, isManaged
  <1>3. o.path = "pointer" => ~isUserOwnedCodexHost(o.next)
    BY <1>1 DEF isUserOwnedCodexHost, exists
  <1> QED BY <1>1, <1>2, <1>3

LEMMA RemovalStays ==
    ASSUME WordsInv, RemovalGoesOn, ClientNext
    PROVE  RemovalGoesOn'
  <1>0. /\ artifacts \in [Paths -> KeptFiles] /\ \A p \in Paths : InPlace(p, artifacts[p].class)
        /\ op = [cmd |-> op.cmd, pc |-> op.pc, todo |-> op.todo, shared |-> op.shared,
                 plan |-> op.plan, ops |-> op.ops, racy |-> op.racy]
        /\ op.cmd = "none" <=> op.pc = "idle"
        /\ op.cmd \in {"none", "install", "uninstall"}
        /\ op.ops \in Seq(KeepingOps) /\ (op.cmd = "uninstall" => op.ops \in Seq(RemovingOps))
        /\ op.pc = "commit" => op.ops # <<>>
    BY DEF WordsInv, ShapeOK, OpsKeep
  <1> DEFINE both == <<"claude", "codex">> last == <<"codex">>
  <1>1. both # last /\ Head(both) = "claude" /\ Head(last) = "codex" /\ Tail(both) = last /\ Tail(last) = <<>>
        /\ both # <<>> /\ last # <<>>
    OBVIOUS
  <1>2. ASSUME ~(op'.cmd = "uninstall" /\ quiet') \/ op'.pc = "failed" PROVE RemovalGoesOn'
    BY <1>2 DEF RemovalGoesOn
  <1>3. CASE (\E p \in Paths : \E f \in userForms(p, artifacts[p]) : Edit(p, f)) \/ OfficeChanges \/ FileError
    BY <1>2, <1>3 DEF Edit, OfficeChanges, FileError
  <1>4. CASE InstallBegin \/ UninstallPlan \/ AnswerLifecycle
    <2>1. op'.cmd # "uninstall"
      <3>1. CASE UninstallPlan
        BY <1>0, <3>1 DEF UninstallPlan
      <3>2. CASE InstallBegin
        <4>1. CASE op' = [NoCommand EXCEPT !.cmd = "install", !.pc = "failed"]
          BY <4>1 DEF NoCommand
        <4>2. CASE op' # [NoCommand EXCEPT !.cmd = "install", !.pc = "failed"]
          <5>1. PICK todo, ops : op' = [NoCommand EXCEPT !.cmd = "install", !.pc = "check", !.todo = todo, !.ops = ops]
            BY <3>2, <4>2 DEF InstallBegin
          <5> QED BY <5>1 DEF NoCommand
        <4> QED BY <4>1, <4>2
      <3>3. CASE AnswerLifecycle
        BY <3>3 DEF AnswerLifecycle, NoCommand
      <3> QED BY <1>4, <3>1, <3>2, <3>3
    <2> QED BY <1>2, <2>1
  <1>5. CASE UninstallBegin
    <2> SUFFICES ASSUME op'.pc # "failed" PROVE RemovalGoesOn'
      BY <1>2
    <2>1. /\ UNCHANGED <<artifacts, attached, approved>>
          /\ \/ op'.pc = "done" /\ ~attached /\ approved.installed = attached
             \/ op'.pc = "plan" /\ op'.todo = both
      <3>1. /\ UNCHANGED <<artifacts, attached, approved>>
            /\ op' = [NoCommand EXCEPT !.cmd = "uninstall", !.pc = op'.pc,
                                       !.todo = IF attached THEN both ELSE <<>>]
            /\ op'.pc = IF ~attached THEN "done" ELSE "plan"
            /\ approved = [files |-> artifacts, installed |-> attached]
        BY <1>5 DEF UninstallBegin, NoCommand
      <3> QED BY <3>1 DEF NoCommand
    <2> QED BY <1>1, <2>1 DEF RemovalGoesOn
  <1>6. CASE PlanClient
    <2> SUFFICES ASSUME op'.cmd = "uninstall", quiet', op'.pc # "failed" PROVE RemovalGoesOn'
      BY <1>2
    <2>1. /\ UNCHANGED <<artifacts, attached, approved, quiet>>
          /\ op.pc = "plan" /\ op.cmd = "uninstall"
          /\ op'.pc = "hash" /\ op'.todo = op.todo
      BY <1>0, <1>6 DEF PlanClient, Finish
    <2> QED BY <2>1 DEF RemovalGoesOn
  <1>7. CASE ApplyClient
    <2> DEFINE ops == clientPlan("uninstall", Head(op.todo), artifacts).ops
    <2> SUFFICES ASSUME op'.cmd = "uninstall", quiet', op'.pc # "failed" PROVE RemovalGoesOn'
      BY <1>2
    <2>1. /\ UNCHANGED <<artifacts, attached, approved, quiet>>
          /\ op.pc = "hash" /\ op.cmd = "uninstall"
          /\ op'.pc = "check" /\ op'.todo = op.todo /\ op'.ops = ops
      BY <1>0, <1>7 DEF ApplyClient, Finish
    <2>2. /\ op.todo \in {both, last}
          /\ op.todo = last => ~OurFile(artifacts["bridge"]) /\ ~OurFile(artifacts["claudeSkill"])
      BY <2>1 DEF RemovalGoesOn
    <2>3. ASSUME op.todo = both PROVE \A p \in {"bridge", "claudeSkill"} : OurFile(artifacts[p]) => p \in Pending(ops)
      <3>1. ops = planUninstallClaude(artifacts).ops
        BY <1>1, <2>3 DEF clientPlan
      <3> HIDE DEF ops
      <3> QED BY <1>0, <3>1, ClaudeRemoval
    <2>4. ASSUME op.todo = last
          PROVE  /\ Pending(ops) \subseteq Shared \cup {"pointer"}
                 /\ "pointer" \in Pending(ops) => ~isUserOwnedCodexHost(artifacts["pointer"])
                 /\ OurFile(artifacts["pointer"]) => "pointer" \in Pending(ops)
                 /\ \A p \in Shared : OurFile(artifacts[p]) => p \in Pending(ops) \/ ReferTo(artifacts)
      <3>1. ops = planUninstallCodex(artifacts).ops
        BY <1>1, <2>4 DEF clientPlan
      <3> HIDE DEF ops
      <3> QED BY <1>0, <3>1, CodexRemoval
    <2> HIDE DEF ops
    <2> QED BY <2>1, <2>2, <2>3, <2>4 DEF RemovalGoesOn
  <1>8. CASE CheckFile
    <2> SUFFICES ASSUME op'.cmd = "uninstall", quiet', op'.pc # "failed" PROVE RemovalGoesOn'
      BY <1>2
    <2>1. /\ UNCHANGED <<artifacts, attached, approved, quiet>>
          /\ op.pc = "check" /\ op.cmd = "uninstall"
          /\ op'.pc = "commit" /\ op'.todo = op.todo /\ op'.ops = op.ops
      BY <1>0, <1>8 DEF CheckFile, Finish
    <2> QED BY <2>1 DEF RemovalGoesOn
  <1>9. CASE CommitFile
    <2> DEFINE o == Head(op.ops) rest == Tail(op.ops)
    <2> SUFFICES ASSUME op'.cmd = "uninstall", quiet', op'.pc # "failed" PROVE RemovalGoesOn'
      BY <1>2
    <2>1. /\ UNCHANGED <<attached, approved, quiet>>
          /\ op.pc = "commit" /\ op.cmd = "uninstall" /\ op.ops # <<>>
          /\ artifacts' = [artifacts EXCEPT ![o.path] = o.next]
          /\ op'.pc = "check" /\ op'.todo = op.todo /\ op'.ops = rest
      BY <1>0, <1>9 DEF CommitFile, Finish
    <2>2. Pending(op.ops) = {o.path} \cup Pending(rest)
      <3>1. op.ops \in Seq(RemovingOps)
        BY <1>0, <2>1
      <3> QED BY <2>1, <3>1, PendingTail
    <2>3. /\ ~OurFile(o.next) /\ o.path \in Paths
          /\ o.path = "pointer" => ~isUserOwnedCodexHost(o.next)
      <3>1. o \in RemovingOps
        BY <1>0, <2>1
      <3> QED BY <3>1, RemovedIsNotOurs
    <2>4. \A p \in Paths : artifacts'[p] = IF p = o.path THEN o.next ELSE artifacts[p]
      BY <1>0, <2>1
    <2>5. \A p \in Paths : OurFile(artifacts'[p]) => p # o.path /\ OurFile(artifacts[p])
      BY <2>3, <2>4
    <2>6. "pointer" \in Paths /\ "bridge" \in Paths /\ "claudeSkill" \in Paths /\ Shared \subseteq Paths
          /\ "bridge" \notin Shared /\ "pointer" \notin Shared
      BY DEF Paths, Shared
    <2>7. op.todo \in {both, last}
      BY <2>1 DEF RemovalGoesOn
    <2>8. CASE op.todo = both
      <3>1. \A p \in {"bridge", "claudeSkill"} : OurFile(artifacts[p]) => p \in Pending(op.ops)
        BY <2>1, <2>8 DEF RemovalGoesOn
      <3>2. \A p \in {"bridge", "claudeSkill"} : OurFile(artifacts'[p]) => p \in Pending(rest)
        BY <2>2, <2>5, <2>6, <3>1
      <3>3. op'.todo = both /\ op'.todo # last
        BY <1>1, <2>1, <2>8
      <3> HIDE DEF o, rest
      <3> QED BY <2>1, <3>2, <3>3 DEF RemovalGoesOn
    <2>9. CASE op.todo = last
      <3>1. /\ ~OurFile(artifacts["bridge"]) /\ ~OurFile(artifacts["claudeSkill"])
            /\ Pending(op.ops) \subseteq Shared \cup {"pointer"}
            /\ "pointer" \in Pending(op.ops) => ~isUserOwnedCodexHost(artifacts["pointer"])
            /\ OurFile(artifacts["pointer"]) => "pointer" \in Pending(op.ops)
            /\ \A p \in Shared : OurFile(artifacts[p]) => p \in Pending(op.ops) \/ ReferTo(artifacts)
        BY <2>1, <2>9 DEF RemovalGoesOn
      <3>2. ~OurFile(artifacts'["bridge"]) /\ ~OurFile(artifacts'["claudeSkill"])
        BY <2>5, <2>6, <3>1
      <3>3. "pointer" \in Pending(rest) => ~isUserOwnedCodexHost(artifacts'["pointer"])
        BY <2>2, <2>3, <2>4, <2>6, <3>1
      <3>4. ReferTo(artifacts) => ReferTo(artifacts')
        <4>1. artifacts'["bridge"] = artifacts["bridge"]
          BY <2>2, <2>4, <2>6, <3>1
        <4>2. CASE importsShared(artifacts)
          BY <4>1, <4>2 DEF ReferTo, importsShared, bridgeKind
        <4>3. CASE isUserOwnedCodexHost(artifacts["pointer"])
          <5>1. artifacts'["pointer"] = artifacts["pointer"]
            BY <2>2, <2>4, <2>6, <3>1, <4>3
          <5> QED BY <4>3, <5>1 DEF ReferTo
        <4> QED BY <4>2, <4>3 DEF ReferTo
      <3>5. /\ OurFile(artifacts'["pointer"]) => "pointer" \in Pending(rest)
            /\ \A p \in Shared : OurFile(artifacts'[p]) => p \in Pending(rest) \/ ReferTo(artifacts')
        BY <2>2, <2>5, <2>6, <3>1, <3>4
      <3>6. Pending(rest) \subseteq Shared \cup {"pointer"} /\ op'.todo = last /\ op'.todo # both
        BY <1>1, <2>1, <2>2, <2>9, <3>1
      <3> HIDE DEF o, rest
      <3> QED BY <2>1, <3>2, <3>3, <3>5, <3>6 DEF RemovalGoesOn
    <2> QED BY <2>7, <2>8, <2>9
  <1>10. CASE NextClient
    <2> SUFFICES ASSUME op'.cmd = "uninstall", quiet', op'.pc # "failed" PROVE RemovalGoesOn'
      BY <1>2
    <2>1. /\ UNCHANGED <<artifacts, attached, approved, quiet>>
          /\ op.pc = "check" /\ op.cmd = "uninstall" /\ op.ops = <<>>
          /\ op'.todo = Tail(op.todo) /\ op'.pc = IF Tail(op.todo) # <<>> THEN "plan" ELSE "detach"
      BY <1>0, <1>10 DEF NextClient
    <2>2. op.todo \in {both, last} /\ Pending(op.ops) = {}
      BY <2>1, PendingOne DEF RemovalGoesOn
    <2>3. CASE op.todo = both
      <3>1. ~OurFile(artifacts["bridge"]) /\ ~OurFile(artifacts["claudeSkill"])
        BY <2>1, <2>2, <2>3 DEF RemovalGoesOn
      <3>2. op'.todo = last /\ op'.pc = "plan"
        BY <1>1, <2>1, <2>3
      <3> QED BY <2>1, <3>1, <3>2 DEF RemovalGoesOn
    <2>4. CASE op.todo = last
      <3>1. /\ ~OurFile(artifacts["bridge"]) /\ ~OurFile(artifacts["claudeSkill"])
            /\ ~OurFile(artifacts["pointer"])
            /\ \A p \in Shared : OurFile(artifacts[p]) => ReferTo(artifacts)
        BY <2>1, <2>2, <2>4 DEF RemovalGoesOn
      <3>2. Clean'
        BY <2>1, <3>1 DEF Clean, Paths, Shared
      <3>3. op'.pc = "detach"
        BY <1>1, <2>1, <2>4
      <3> QED BY <3>2, <3>3 DEF RemovalGoesOn
    <2> QED BY <2>2, <2>3, <2>4
  <1>11. CASE Detach
    <2> SUFFICES ASSUME op'.cmd = "uninstall", quiet' PROVE RemovalGoesOn'
      BY <1>2
    <2>1. /\ UNCHANGED <<artifacts, approved, quiet>> /\ attached' = FALSE
          /\ op.pc = "detach" /\ op.cmd = "uninstall" /\ op'.pc = "done"
      BY <1>0, <1>11 DEF Detach, Finish
    <2>2. Clean
      BY <2>1 DEF RemovalGoesOn
    <2>3. Clean'
      BY <2>1, <2>2 DEF Clean
    <2> QED BY <2>1, <2>3 DEF RemovalGoesOn
  <1> QED BY <1>3, <1>4, <1>5, <1>6, <1>7, <1>8, <1>9, <1>10, <1>11 DEF ClientNext

\* The inductive invariant of the commands over a checkout.
ClientInv == WordsInv /\ SetupGoesOn /\ RemovalGoesOn

LEMMA ClientInitInv == ClientInit => ClientInv
  <1> SUFFICES ASSUME ClientInit PROVE SetupGoesOn /\ RemovalGoesOn
    BY ClientInitWords DEF ClientInv
  <1>1. op.cmd = "none"
    BY DEF ClientInit, NoCommand
  <1> QED BY <1>1 DEF SetupGoesOn, RemovalGoesOn

LEMMA ClientStep ==
    ASSUME ClientInv, [ClientNext]_clientVars
    PROVE  ClientInv' /\ [WordsStay]_clientVars
  <1>1. WordsInv' /\ [WordsStay]_clientVars
    BY WordsStep DEF ClientInv
  <1>2. CASE ClientNext
    BY <1>1, <1>2, InstallStays, RemovalStays DEF ClientInv
  <1>3. CASE UNCHANGED clientVars
    <2>1. UNCHANGED <<artifacts, detected, attached, op, approved, quiet>>
      BY <1>3 DEF clientVars
    <2>2. SetupGoesOn'
      BY <2>1 DEF ClientInv, SetupGoesOn
    <2>3. RemovalGoesOn'
      BY <2>1 DEF ClientInv, RemovalGoesOn, Clean
    <2> QED BY <1>1, <2>2, <2>3 DEF ClientInv
  <1> QED BY <1>2, <1>3

LEMMA ClientInvSafe == ClientInv => ClientSafety
  <1> SUFFICES ASSUME ClientInv PROVE ClientSafety
    OBVIOUS
  <1>1. ClientTypeOK
    <2>1. KeptFiles \subseteq File
      BY DEF KeptFiles
    <2> HIDE DEF KeptFiles
    <2>2. /\ artifacts \in [Paths -> File]
          /\ approved = NoApproval \/ approved.files \in [Paths -> File]
      BY <2>1 DEF ClientInv, WordsInv, ShapeOK
    <2> QED BY <2>2 DEF ClientInv, WordsInv, ShapeOK, OpsKeep, ClientTypeOK
  <1>2. DetachedIsClean
    <2> SUFFICES ASSUME op.cmd = "uninstall", op.pc = "done", quiet PROVE DetachedIsClean
      BY DEF DetachedIsClean
    <2>1. ~attached /\ (approved.installed => Clean)
      BY DEF ClientInv, RemovalGoesOn
    <2> QED BY <2>1 DEF DetachedIsClean, Clean, OurFile, ReferTo
  <1>3. InstalledIsConfigured
    <2> SUFFICES ASSUME op.cmd = "install", op.pc = "done", quiet
                 PROVE  /\ attached
                        /\ \A c \in AgentClients :
                             c \in detected \/ hasManagedClientState(c, artifacts) =>
                                clientStatus(c, artifacts, c \in detected) \in {"configured", "unmanaged"}
      BY DEF InstalledIsConfigured
    <2>1. /\ attached /\ artifacts["bridge"].class # "malformed" /\ op.todo = <<>>
          /\ artifacts \in [Paths -> KeptFiles]
          /\ \A c \in AgentClients :
               \/ c \in Waiting(op.todo)
               \/ \A p \in PathsOf(c) : UpToDate(p, artifacts[p])
               \/ c \notin detected /\ ~hasManagedClientState(c, artifacts)
      BY DEF ClientInv, SetupGoesOn, WordsInv, ShapeOK
    <2>2. ASSUME NEW c \in AgentClients, c \in detected \/ hasManagedClientState(c, artifacts)
          PROVE  clientStatus(c, artifacts, c \in detected) \in {"configured", "unmanaged"}
      <3>1. \A p \in PathsOf(c) : UpToDate(p, artifacts[p])
        BY <2>1, <2>2, WaitingOn
      <3>2. (c \in detected) \in BOOLEAN
        OBVIOUS
      <3> QED BY <2>1, <2>2, <3>1, <3>2, StatusOfUpToDate, Zenon
    <2> QED BY <2>1, <2>2
  <1> QED BY <1>1, <1>2, <1>3 DEF ClientSafety

\* THEOREM: for every number of edits of the user's, an install that ends undisturbed
\* leaves the checkout configured for every client on the host or with files here, and
\* an uninstall that ends undisturbed leaves it detached, with no file of AI Office's but
\* the shared ones that a file of the user's refers to
\* (manage-agent-client-integration.ts, manage-project-lifecycle.ts).
THEOREM ClientsAreConfigured == ProjectsSpec => []ClientsHold
  <1>1. ProjectsInit => ClientInv
    BY ClientInitInv DEF ProjectsInit
  <1>2. ClientInv /\ [ProjectsNext]_projectVars => ClientInv'
    <2> SUFFICES ASSUME ClientInv, [ProjectsNext]_projectVars PROVE ClientInv'
      OBVIOUS
    <2>1. [ClientNext]_clientVars
      BY DEF ProjectsNext, projectVars
    <2> QED BY <2>1, ClientStep
  <1>3. ClientInv => ClientsHold
    BY ClientInvSafe DEF ClientsHold
  <1> QED BY <1>1, <1>2, <1>3, PTL DEF ProjectsSpec

-----------------------------------------------------------------------------
(* All of them *)

ProjectsInv == PackInv /\ BindsJudged /\ PortabilityInv /\ IdentityInv /\ ClientInv

\* THEOREM: for every value of the constants, no step of AI Office commits an
\* upgrade that does not resolve or content nobody reviewed; overwrites a
\* project, a head or an archive; takes a checkout from its project; or loses
\* the user's words outside the one gap there is before a rename or an unlink,
\* or the guidance a user's file refers to (manage-project-pack-binding.ts,
\* manage-project-portability.ts, import-project.ts,
\* local-agent-client-files.ts).
THEOREM ProjectsKeepWhatTheyHave == ProjectsSpec => ProjectSteps
  <1> DEFINE KeptByStep == /\ focus = "packs" => UpgradeResolves /\ ReviewedContentOnly
                           /\ focus = "portability" => NoRestoreOverwrites /\ HeadExtends /\ ArchivesStay
                           /\ focus = "identity" => NoHijack /\ DetachedReturns
                           /\ focus = "clients" => UserTextKept /\ SharedOutlivesHosts
  <1>1. ProjectsInit => ProjectsInv
    BY InitPreserves, InitJudged, PortabilityInitInv, IdentityInitInv, ClientInitInv DEF ProjectsInit, ProjectsInv
  <1>2. ProjectsInv /\ [ProjectsNext]_projectVars => ProjectsInv' /\ [KeptByStep]_projectVars
    <2> SUFFICES ASSUME ProjectsInv, [ProjectsNext]_projectVars PROVE ProjectsInv' /\ KeptByStep
      OBVIOUS
    <2>1. /\ [PackNext]_packVars /\ [PortabilityNext]_portabilityVars
          /\ [IdentityNext]_identityVars /\ [ClientNext]_clientVars
      BY DEF ProjectsNext, projectVars
    <2>2. PackInv' /\ UpgradeResolves /\ BindsJudged' /\ [ReviewedContentOnly]_packVars
      <3>1. PackInv' /\ UpgradeResolves
        BY <2>1, PackStep DEF ProjectsInv
      <3> QED BY <2>1, <3>1, JudgedStep DEF ProjectsInv
    <2>3. PortabilityInv' /\ [LineageStays]_portabilityVars
      BY <2>1, PortabilityStep DEF ProjectsInv
    <2>4. IdentityInv' /\ [NoHijack]_identityVars /\ [DetachedReturns]_identityVars
      BY <2>1, IdentityStep, ReturnStep DEF ProjectsInv
    <2>5. ClientInv' /\ [WordsStay]_clientVars
      BY <2>1, ClientStep DEF ProjectsInv
    <2>6. ReviewedContentOnly
      BY <2>2 DEF ReviewedContentOnly, packVars
    <2>7. NoRestoreOverwrites /\ HeadExtends /\ ArchivesStay
      BY <2>3 DEF LineageStays, NoRestoreOverwrites, HeadExtends, ArchivesStay, portabilityVars
    <2>8. NoHijack /\ DetachedReturns
      BY <2>4 DEF NoHijack, DetachedReturns, identityVars
    <2>9. UserTextKept /\ SharedOutlivesHosts
      BY <2>5 DEF WordsStay, UserTextKept, SharedOutlivesHosts, clientVars
    <2> QED BY <2>2, <2>3, <2>4, <2>5, <2>6, <2>7, <2>8, <2>9 DEF ProjectsInv
  <1> QED BY <1>1, <1>2, PTL DEF ProjectsSpec, ProjectSteps
=============================================================================
