-------------------------- MODULE PackConfiguration --------------------------
(***************************************************************************)
(* The pack selection and the definitions of one project, and the commands *)
(* that change them: project:pack:apply, project:pack:upgrade (preview and *)
(* apply) and project:definition:apply, over packs that the host's         *)
(* composition registers at every start.                                   *)
(*                                                                         *)
(* Each command reads and judges outside a transaction and writes inside   *)
(* one, so it is two steps.  The command queue runs one command at a time, *)
(* except that a command that exceeds its timeout goes on by itself        *)
(* ("late") while the next one starts.                                     *)
(***************************************************************************)
EXTENDS PackManifests

CONSTANTS Clients,
          Mutations, Selections,   \* what an operator may send
          Catalogs,      \* what a host may be composed with
          MaxRevision,   \* bound: revisions of either stream
          MaxLate,       \* bound: commands that outlive their timeout
          MaxRestarts    \* bound: host restarts

ASSUME PackBounds ==
    /\ {MaxRevision, MaxLate, MaxRestarts} \subseteq Nat
    /\ \A offered \in Catalogs : offered \subseteq Manifests
    /\ \A desired \in Selections : desired \subseteq Identities

VARIABLES catalog,     \* manifests installed on this host
          binding,     \* [revision, packs]
          defs,        \* [revision, owned, overrides]
          job,         \* what each client's command has read and decided
          lates, restarts,
          upgraded     \* upgrades committed, and whether on what was reviewed
packVars == <<catalog, binding, defs, job, lates, restarts, upgraded>>

Idle == [op |-> "idle"]
Stop(c) == job' = [job EXCEPT ![c] = Idle]
InFlight(c) == job[c].op \in {"bind", "define", "upgrade"} /\ ~job[c].late
QueueFree == \A c \in Clients : ~InFlight(c)

\* Registration refuses what does not verify, and a second artifact for an id
\* and a version.
register(offered) ==
    {m \in offered : verifyDomainPackManifest(m)
        /\ \A n \in offered : n.id = m.id /\ n.version = m.version => n.digest >= m.digest}

PackInit ==
    /\ \E offered \in Catalogs : catalog = register(offered)
    /\ binding = [revision |-> 0, packs |-> {}]
    /\ defs = [revision |-> 0, owned |-> {}, overrides |-> {}]
    /\ job = [c \in Clients |-> Idle]
    /\ lates = 0 /\ restarts = 0
    /\ upgraded = [count |-> 0, asSeen |-> TRUE]

\* The host stops, and starts with another set of packs.
PackRestart ==
    /\ restarts < MaxRestarts
    /\ restarts' = restarts + 1
    /\ \E offered \in Catalogs : catalog' = register(offered)
    /\ job' = [c \in Clients |-> IF job[c].op = "approved" THEN job[c] ELSE Idle]
    /\ UNCHANGED <<binding, defs, lates, upgraded>>

PackTimeout(c) ==
    /\ InFlight(c) /\ lates < MaxLate
    /\ lates' = lates + 1
    /\ job' = [job EXCEPT ![c].late = TRUE]
    /\ UNCHANGED <<catalog, binding, defs, restarts, upgraded>>

-----------------------------------------------------------------------------
(* project:pack:apply *)


\* The issues of a changed selection; an unreadable current closure refuses.
examine(desired) ==
    LET target == resolveInstalledPackManifests(catalog, desired)
        current == resolveInstalledPackManifests(catalog, binding.packs)
    IN  /\ resolveInstalledPacks(catalog, desired)
        /\ packDefinitionCollisions(target, defs.owned) = {}
        /\ bindCapabilityContracts(target)
        /\ resolveInstalledPacks(catalog, binding.packs)
        /\ ~roleCapabilityGuard(current, target)
        /\ ~policyChangeGuard(current, target)
        /\ ~knowledgeChangeGuard(current, target)
        /\ ~evidenceContractGuard(current, target)

BindExamine(c) ==
    /\ QueueFree /\ job[c].op = "idle" /\ binding.revision < MaxRevision
    /\ \E desired \in Selections :
         /\ normalizePackSelection(desired)
         /\ binding.packs = desired \/ examine(desired)
         /\ job' = [job EXCEPT ![c] =
                [op |-> "bind", late |-> FALSE, desired |-> desired, expected |-> binding.revision,
                 changed |-> binding.packs # desired]]
    /\ UNCHANGED <<catalog, binding, defs, lates, restarts, upgraded>>


replaceBinding_KeepsRevision(desired) ==
    binding' = [binding EXCEPT !.packs = desired]

\* bindings.replace writes nothing and keeps the revision when the selection
\* is already the desired one.
replaceBinding(desired) ==
    binding' = IF binding.packs = desired THEN binding
               ELSE [revision |-> binding.revision + 1, packs |-> desired]

\* The packs registered do not change while the host runs, so the closure
\* resolved before the transaction is the one there would be now.
BindCommit(c) ==
    /\ job[c].op = "bind"
    /\ IF /\ binding.revision = job[c].expected
          /\ job[c].changed =>
               packDefinitionCollisions(resolveInstalledPackManifests(catalog, job[c].desired),
                                        defs.owned) = {}
       THEN replaceBinding(job[c].desired)
       ELSE UNCHANGED binding
    /\ Stop(c)
    /\ UNCHANGED <<catalog, defs, lates, restarts, upgraded>>

-----------------------------------------------------------------------------
(* project:definition:apply *)

OwnedAt(kind, id) == {d \in defs.owned : d.kind = kind /\ d.id = id}
OverrideAt(mu) ==
    {o \in defs.overrides : o.source = mu.source /\ o.kind = mu.kind /\ o.localId = mu.localId}

RevisionOf(S) == IF S = {} THEN 0 ELSE (CHOOSE x \in S : TRUE).revision
Affected(mu) == IF mu.action \in {"put_owned", "remove_owned"} THEN OwnedAt(mu.kind, mu.id)
                ELSE OverrideAt(mu)

\* A put names the revision it revises, 0 for a new entry; a removal needs one.
EntryIssues(mu) ==
    IF mu.action \in {"put_owned", "put_override"}
    THEN mu.expectedEntry # RevisionOf(Affected(mu))
    ELSE Affected(mu) = {}

ownedCollisionIssues(mu) ==
    /\ resolveInstalledPacks(catalog, binding.packs)
    /\ packDefinitionCollisions(resolveInstalledPackManifests(catalog, binding.packs),
                                {[kind |-> mu.kind, id |-> mu.id]}) # {}

sourceBindingIssues(mu) == mu.source \notin binding.packs

sourceIssues(mu) ==
    \/ sourceBindingIssues(mu)
    \/ ~resolveInstalledPacks(catalog, binding.packs)
    \/ ~\E m \in catalog : /\ Identity(m) = mu.source
                           /\ \E e \in m.entries :
                                /\ e.kind = mu.kind /\ e.id = mu.localId
                                /\ mu.operation = "extend" => ~e.title
    \/ \E m \in catalog :
         /\ Identity(m) = mu.source /\ mu.operation = "replace"
         /\ \/ mu.kind = "agents" /\ agentReferenceIssues(m, mu.payload)
            \/ mu.kind = "workflows" /\ (workflowReferenceIssues(m, mu.payload)
                                         \/ workflowPolicyIssues(m, mu.localId, mu.payload))


previewParsed(mu, checkInstalledSource) ==
    /\ ~EntryIssues(mu)
    /\ mu.action = "put_owned" /\ checkInstalledSource => ~ownedCollisionIssues(mu)
    /\ mu.action = "put_override" =>
         IF checkInstalledSource THEN ~sourceIssues(mu) ELSE ~sourceBindingIssues(mu)

DefinePreview(c) ==
    /\ QueueFree /\ job[c].op = "idle" /\ defs.revision < MaxRevision
    /\ \E mu \in Mutations :
         /\ parseDefinitionMutation(mu)
         /\ previewParsed(mu, TRUE)
         /\ job' = [job EXCEPT ![c] =
                      [op |-> "define", late |-> FALSE, mutation |-> mu, expected |-> defs.revision]]
    /\ UNCHANGED <<catalog, binding, defs, lates, restarts, upgraded>>

Mutated(mu) ==
    LET next == RevisionOf(Affected(mu)) + 1 IN
    CASE mu.action = "put_owned" ->
           [defs EXCEPT !.owned = (@ \ Affected(mu)) \cup
              {[kind |-> mu.kind, id |-> mu.id, revision |-> next, enabled |-> mu.enabled,
                payload |-> mu.payload]}]
      [] mu.action = "remove_owned" -> [defs EXCEPT !.owned = @ \ Affected(mu)]
      [] mu.action = "put_override" ->
           [defs EXCEPT !.overrides = (@ \ Affected(mu)) \cup
              {[source |-> mu.source, kind |-> mu.kind, localId |-> mu.localId,
                operation |-> mu.operation, payload |-> mu.payload, revision |-> next]}]
      [] OTHER -> [defs EXCEPT !.overrides = @ \ Affected(mu)]


replaceDefinitions(state) == defs' = [state EXCEPT !.revision = defs.revision + 1]

\* The installed source and the collision are not judged again here.
DefineCommit(c) ==
    /\ job[c].op = "define"
    /\ IF defs.revision = job[c].expected /\ previewParsed(job[c].mutation, FALSE)
       THEN replaceDefinitions(Mutated(job[c].mutation))
       ELSE UNCHANGED defs
    /\ Stop(c)
    /\ UNCHANGED <<catalog, binding, lates, restarts, upgraded>>

-----------------------------------------------------------------------------
(* project:pack:upgrade.  A resolution is one action for every override that *)
(* conflicts ("" is none); the code takes one for each override.             *)

Resolutions == {"", "remove_override", "convert_to_replace", "retain_as_project_owned"}

ByPack(packs, id) == {i \in packs : i.id = id}
ManifestOf(i) == CHOOSE m \in catalog : Identity(m) = i
NextEntries(desired, o) ==
    UNION {{e \in ManifestOf(i).entries : e.kind = o.kind /\ e.id = o.localId} : i \in ByPack(desired, o.source.id)}

Stays(desired, o) == o.source \in desired
SamePlace(o1, o2) == o1.source.id = o2.source.id /\ o1.kind = o2.kind /\ o1.localId = o2.localId

\* Overrides that would land on one definition: all conflict until removals
\* leave one.  With one resolution for all, none is left standing.
Claimants(desired, o) ==
    {x \in defs.overrides : ~Stays(desired, x) /\ SamePlace(x, o)}
TargetTaken(desired, o) ==
    \/ \E x \in defs.overrides : Stays(desired, x) /\ SamePlace(x, o)
    \/ Claimants(desired, o) # {o}

ConflictOf(desired, o) ==
    IF ByPack(desired, o.source.id) = {} THEN "source_pack_removed"
    ELSE IF NextEntries(desired, o) = {} THEN "source_definition_removed"
    ELSE IF TargetTaken(desired, o) THEN "target_override_exists"
    ELSE IF o.operation = "extend" /\ \E e \in NextEntries(desired, o) : e.title
         THEN "extend_conflict" ELSE ""

Sooner(x, o) ==
    \/ x.source.id < o.source.id
    \/ x.source.id = o.source.id /\ x.source.version < o.source.version
    \/ /\ x.source.id = o.source.id /\ x.source.version = o.source.version
       /\ x.source.digest < o.source.digest

\* Only a replacement whose template is gone can stand alone, once, and only
\* if it names nothing of its pack.
StandsAlone(desired, o) ==
    /\ o.operation = "replace"
    /\ NextEntries(desired, o) = {}
    /\ OwnedAt(o.kind, o.localId) = {}
    /\ ~(o.kind = "agents" /\ (o.payload.refs # {} \/ o.payload.typed # {}))
    /\ o.kind # "workflows"
Retainable(desired, o) ==
    /\ StandsAlone(desired, o)
    /\ ~\E x \in defs.overrides : /\ x.kind = o.kind /\ x.localId = o.localId /\ Sooner(x, o)
                                  /\ ~Stays(desired, x) /\ StandsAlone(desired, x)

OutcomeOf(desired, res, o) ==
    LET conflict == ConflictOf(desired, o) IN
    IF Stays(desired, o) THEN "unchanged"
    ELSE IF conflict = "" THEN "retargeted"
    ELSE CASE res = "" -> "conflict"
           [] res = "remove_override" -> "removed"
           [] res = "convert_to_replace" ->
                IF conflict = "extend_conflict" THEN "converted_to_replace" ELSE "invalid"
           [] OTHER -> IF Retainable(desired, o) THEN "retained_as_project_owned" ELSE "invalid"

\* The project's fields win, the new template supplies the rest.
Converted(desired, o) ==
    LET e == CHOOSE x \in NextEntries(desired, o) : TRUE IN
    [e EXCEPT !.title = TRUE,
              !.refs = IF o.kind \in {"agents", "workflows"} THEN @ ELSE {},
              !.typed = IF o.kind \in {"agents", "workflows"} THEN @ ELSE {}]

\* An override follows its pack to the version selected.
Reconciled(desired, res, o) ==
    LET at == CHOOSE i \in ByPack(desired, o.source.id) : TRUE IN
    CASE OutcomeOf(desired, res, o) = "retargeted" -> [o EXCEPT !.source = at]
      [] OutcomeOf(desired, res, o) = "converted_to_replace" ->
           [o EXCEPT !.source = at, !.operation = "replace",
                     !.revision = @ + 1, !.payload = Converted(desired, o)]
      [] OTHER -> o

RetainedAs(o) ==
    [kind |-> o.kind, id |-> o.localId, revision |-> 1, enabled |-> TRUE, payload |-> o.payload]

Retained(desired, res) ==
    {o \in defs.overrides : OutcomeOf(desired, res, o) = "retained_as_project_owned"}
Dropped(desired, res) ==
    {o \in defs.overrides : OutcomeOf(desired, res, o) = "removed"} \cup Retained(desired, res)

reconciledDefinitions(desired, res) ==
    [revision |-> defs.revision,
     overrides |-> {Reconciled(desired, res, o) : o \in defs.overrides \ Dropped(desired, res)},
     owned |-> defs.owned \cup {RetainedAs(o) : o \in Retained(desired, res)}]


\* What the plan's digest covers: both revisions, the selection, the outcomes
\* and, for a plan without issues, the configuration it leads to.
reconcileProjectPackUpgrade(desired, res) ==
    LET noop == binding.packs = desired /\ \A o \in defs.overrides : Stays(desired, o)
        resolved == resolveInstalledPacks(catalog, desired)
        outcomes == IF noop \/ ~resolved THEN {}
                    ELSE {[override |-> o, outcome |-> OutcomeOf(desired, res, o)] : o \in defs.overrides}
        ok == /\ resolved
              /\ \A x \in outcomes : x.outcome \notin {"conflict", "invalid"}
              /\ resolveProjectConfiguration(catalog, desired, reconciledDefinitions(desired, res))
    IN  [noop |-> noop, ok |-> noop \/ ok, outcomes |-> outcomes,
         bindingRevision |-> binding.revision, definitionRevision |-> defs.revision,
         desired |-> desired, resolution |-> res,
         target |-> IF ok THEN {Identity(m) : m \in resolveInstalledPackManifests(catalog, desired)} ELSE {}]

\* The preview is a command of its own; its plan is approved between commands.
UpgradePreview(c) ==
    /\ QueueFree /\ job[c].op = "idle"
    /\ binding.revision < MaxRevision /\ defs.revision < MaxRevision
    /\ \E desired \in Selections, res \in Resolutions :
         LET plan == reconcileProjectPackUpgrade(desired, res) IN
         /\ normalizePackSelection(desired)
         /\ plan.ok /\ ~plan.noop
         /\ job' = [job EXCEPT ![c] =
                [op |-> "approved", plan |-> plan, seen |-> <<binding, defs>>]]
    /\ UNCHANGED <<catalog, binding, defs, lates, restarts, upgraded>>

UpgradeReconcile(c) ==
    /\ QueueFree /\ job[c].op = "approved"
    /\ LET plan == reconcileProjectPackUpgrade(job[c].plan.desired, job[c].plan.resolution) IN
       IF plan.noop \/ ~plan.ok \/ plan # job[c].plan
       THEN Stop(c)
       ELSE job' = [job EXCEPT ![c] =
              [op |-> "upgrade", late |-> FALSE, plan |-> plan, seen |-> job[c].seen,
               result |-> reconciledDefinitions(plan.desired, plan.resolution)]]
    /\ UNCHANGED <<catalog, binding, defs, lates, restarts, upgraded>>


UpgradeCommit_OneFence(c) ==
    /\ job[c].op = "upgrade"
    /\ IF binding.revision = job[c].plan.bindingRevision
       THEN /\ replaceBinding(job[c].plan.desired)
            /\ replaceDefinitions(job[c].result)
            /\ upgraded' = [count |-> upgraded.count + 1,
                            asSeen |-> upgraded.asSeen /\ job[c].seen = <<binding, defs>>]
       ELSE UNCHANGED <<binding, defs, upgraded>>
    /\ Stop(c)
    /\ UNCHANGED <<catalog, lates, restarts>>

UpgradeCommit(c) ==
    /\ job[c].op = "upgrade"
    /\ IF /\ binding.revision = job[c].plan.bindingRevision
          /\ defs.revision = job[c].plan.definitionRevision
       THEN /\ replaceBinding(job[c].plan.desired)
            /\ replaceDefinitions(job[c].result)
            /\ upgraded' = [count |-> upgraded.count + 1,
                            asSeen |-> upgraded.asSeen /\ job[c].seen = <<binding, defs>>]
       ELSE UNCHANGED <<binding, defs, upgraded>>
    /\ Stop(c)
    /\ UNCHANGED <<catalog, lates, restarts>>

-----------------------------------------------------------------------------
PackNext ==
    \/ PackRestart
    \/ \E c \in Clients :
         \/ PackTimeout(c)
         \/ BindExamine(c) \/ BindCommit(c)
         \/ DefinePreview(c) \/ DefineCommit(c)
         \/ UpgradePreview(c) \/ UpgradeReconcile(c) \/ UpgradeCommit(c)

PackSpec == PackInit /\ [][PackNext]_packVars

-----------------------------------------------------------------------------
Closure == resolveInstalledPackManifests(catalog, binding.packs)
Resolves == resolveInstalledPacks(catalog, binding.packs)

\* The selection names a pack once, revisions stay in their bound, no entry is
\* kept twice, and the project owns nothing that needs a typed security
\* contract.
PackTypeOK ==
    /\ catalog \subseteq Manifests
    /\ binding.revision \in 0 .. MaxRevision /\ binding.packs \subseteq Identities
    /\ normalizePackSelection(binding.packs)
    /\ defs.revision \in 0 .. MaxRevision
    /\ \A d \in defs.owned : /\ OwnedAt(d.kind, d.id) = {d} /\ d.revision >= 1
                              /\ d.kind \in projectOwnedKinds
                              /\ d.kind = "agents" => d.payload.typed = {}
    /\ \A o1, o2 \in defs.overrides : SamePlace(o1, o2) /\ o1.source = o2.source => o1 = o2
    /\ lates \in 0 .. MaxLate /\ restarts \in 0 .. MaxRestarts

\* reconcile-project-pack-upgrade.ts applies a plan only to the selection and
\* the definitions its reviewer saw, whatever was committed, timed out or
\* restarted between the preview and the commit.
ApprovedStateOnly == upgraded.asSeen

\* An upgrade that commits leaves a configuration that resolves on this host,
\* although it was judged before the transaction.
UpgradeResolves ==
    upgraded' # upgraded => resolveProjectConfiguration(catalog', binding'.packs, defs')

\* Capabilities, contracts, guidance and evidence of a definition that two
\* selections share, and the policy of a workflow they share, change only
\* through a reviewed upgrade.
ReviewedContentOnly ==
    binding'.packs # binding.packs /\ upgraded' = upgraded =>
        \A m \in Closure, n \in Closure' : m.id = n.id =>
            \A e \in m.entries, f \in n.entries :
                /\ e.kind = f.kind /\ e.id = f.id /\ e.kind \notin {"agents", "workflows"}
                /\ e.kind = "policies" => e.target = f.target
                => e.typed = f.typed

\* No command, run in its turn, leaves a definition of the project that also
\* exists in the packs it uses: both the selection and the definitions look.
NoCollision ==
    lates = 0 /\ restarts = 0 /\ Resolves => packDefinitionCollisions(Closure, defs.owned) = {}

\* What holds of the configuration at any time.
PackSafety == PackTypeOK /\ ApprovedStateOnly /\ NoCollision

\* Both streams are what a revision says they are: a writer that names the
\* revision it read cannot overwrite a change it has not seen.
Configuration ==
    INSTANCE RevisionedState
        WITH Streams <- {"selection", "definitions"},
             revision <- [selection |-> binding.revision, definitions |-> defs.revision],
             value <- [selection |-> binding.packs, definitions |-> <<defs.owned, defs.overrides>>]
ConfigurationRevisioned == Configuration!Spec

=============================================================================
