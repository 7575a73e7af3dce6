---------------------------- MODULE PackManifests ----------------------------
(***************************************************************************)
(* What a domain pack declares, which packs a selection brings in, how two *)
(* selections differ, and what configuration a selection, the project's    *)
(* own definitions and its overrides resolve to.  Everything here is a     *)
(* function of its arguments: packages/domain-pack-contracts/manifest.ts   *)
(* and the pure parts of packages/application/src/domain-pack.             *)
(*                                                                         *)
(* A manifest is [id, version, digest, sealed, core, deps, entries]; digest *)
(* is the one it declares and sealed says that its content hashes to it.   *)
(* An entry carries only what the code tells apart:                        *)
(*   title   whether it has descriptive fields an extension could overlap  *)
(*   refs    the local definitions it names, as <<kind, id>>               *)
(*   stages  a workflow's stage ids, in order                              *)
(*   target  the workflow a policy governs ("" is none)                    *)
(*   typed   the members a project may not touch: a role's capabilities,   *)
(*           an agent's requests, a capability's <<operation, mode>>, a    *)
(*           policy's <<stage, predecessor>> ("" is none), guidance, ...   *)
(*   required  a capability's operations need a provider; a policy is      *)
(*           enforced                                                      *)
(***************************************************************************)
EXTENDS Naturals, FiniteSets, Sequences, SequencesExt

CONSTANT Manifests     \* every manifest any installer has produced
CONSTANT Operations    \* <<operation, mode>> pairs this host's providers offer

\* Pack ids, versions and digests are compared as text is; 0 is no pack's id.
\* A digest has one content, and task types and prompts have descriptive
\* fields only.
ASSUME ManifestsAssumption ==
    /\ \A m \in Manifests : m.id \in Nat \ {0} /\ m.version \in Nat /\ m.digest \in Nat
    /\ \A m, n \in Manifests : m.sealed /\ n.sealed /\ m.digest = n.digest => m = n
    /\ \A m \in Manifests : \A e \in m.entries : e.kind \in {"taskTypes", "prompts"} => e.typed = {}

Identity(m) == [id |-> m.id, version |-> m.version, digest |-> m.digest]
Identities == {Identity(m) : m \in Manifests}

descriptiveKinds == {"roles", "taskTypes", "agents", "artifactTypes",
                     "evidenceTypes", "knowledge", "prompts"}
overridableKinds == descriptiveKinds \cup {"workflows"}
projectOwnedKinds == descriptiveKinds \cup {"workflows"}
disableableKinds == {"prompts", "roles", "agents", "workflows"}
contributionKinds == overridableKinds \cup {"capabilities", "policies", "validators"}
evidenceContractKinds == {"artifactTypes", "evidenceTypes", "validators"}

Declares(entries, kind, id) == \E e \in entries : e.kind = kind /\ e.id = id
Of(entries, kind) == {e \in entries : e.kind = kind}
Position(stages, s) == CHOOSE i \in DOMAIN stages : stages[i] = s
Names(typed) == {t[1] : t \in typed}

-----------------------------------------------------------------------------
(* Accepting a manifest *)

policyContribution(e) ==
    IF e.target = "" THEN e.typed = {} /\ ~e.required ELSE e.typed # {} \/ e.required

capabilityContract(e) ==
    /\ e.required => e.typed # {}
    /\ \A o1, o2 \in e.typed : o1[1] = o2[1] => o1 = o2

contribution(e) ==
    /\ e.kind \in contributionKinds
    /\ e.kind = "policies" => policyContribution(e)
    /\ e.kind = "capabilities" => capabilityContract(e)
    /\ e.kind = "workflows" => \A i, j \in DOMAIN e.stages : e.stages[i] = e.stages[j] => i = j

dependencies(m) == \A d1, d2 \in m.deps : d1.id = d2.id => d1 = d2

RolesNameOwnCapabilities(es) ==
    \A r \in Of(es, "roles") : \A c \in Names(r.typed) : Declares(es, "capabilities", c)

AgentsStayInsideTheirRole(es) ==
    \A a \in Of(es, "agents") :
        /\ \A ref \in a.refs : Declares(es, ref[1], ref[2])
        /\ a.typed # {} =>
             \E r \in Of(es, "roles") : <<"roles", r.id>> \in a.refs /\ a.typed \subseteq r.typed

\* Only the additional routes are checked: the first route and the roles of
\* the stages are not.
RoutesAreDeclared(es) ==
    \A w \in Of(es, "workflows") : \A t \in Names(w.typed) :
        <<"taskTypes", t>> \notin w.refs /\ Declares(es, "taskTypes", t)

PoliciesGovernOwnWorkflows(es) ==
    /\ \A p \in Of(es, "policies") : p.target # "" =>
         \E w \in Of(es, "workflows") :
            /\ w.id = p.target
            /\ \A c \in p.typed :
                 /\ c[1] \in Range(w.stages)
                 /\ c[2] # "" => /\ c[2] \in Range(w.stages)
                                 /\ Position(w.stages, c[2]) < Position(w.stages, c[1])
    /\ \A p, q \in Of(es, "policies") : p.target # "" /\ p.target = q.target => p = q

EvidenceReferencesAreDeclared(es) ==
    \A e \in es : e.kind \in {"evidenceTypes", "validators"} =>
        \A ref \in e.refs : Declares(es, ref[1], ref[2])

validateDomainPackManifest(m) ==
    /\ \A e \in m.entries : contribution(e)
    /\ \A e, f \in m.entries : e.kind = f.kind /\ e.id = f.id => e = f
    /\ dependencies(m)
    /\ RolesNameOwnCapabilities(m.entries)
    /\ AgentsStayInsideTheirRole(m.entries)
    /\ RoutesAreDeclared(m.entries)
    /\ PoliciesGovernOwnWorkflows(m.entries)
    /\ EvidenceReferencesAreDeclared(m.entries)

checkCoreContract(m) == m.core

verifyDomainPackManifest(m) ==
    validateDomainPackManifest(m) /\ m.sealed /\ checkCoreContract(m)

VerifiedManifests == {m \in Manifests : verifyDomainPackManifest(m)}

-----------------------------------------------------------------------------
(* The closure of a selection.  A catalog is the set of manifests installed  *)
(* on this host, at most one for an id and a version.                        *)

read(catalog, i) == {m \in catalog : m.id = i.id /\ m.version = i.version}

\* A pack whose artifact cannot be loaded has no dependencies to follow.
DepsOf(catalog, i) == UNION {m.deps : m \in {n \in read(catalog, i) : Identity(n) = i}}

Reachable(catalog, roots) ==
    LET step[n \in Nat] == IF n = 0 THEN roots
                           ELSE step[n - 1] \cup UNION {DepsOf(catalog, i) : i \in step[n - 1]}
    IN  step[Cardinality(catalog)]

\* version_conflict, dependency_cycle, missing and digest_mismatch are the
\* ways to fail; which of them is reported first is not modelled.
resolveVerifiedPackClosure(catalog, roots) ==
    LET all == Reachable(catalog, roots)
    IN  /\ \A i, j \in all : i.id = j.id => i = j
        /\ \A i \in all : i \notin Reachable(catalog, DepsOf(catalog, i))
        /\ \A i \in all : \E m \in read(catalog, i) : m.digest = i.digest

resolveInstalledPacks(catalog, roots) ==
    /\ resolveVerifiedPackClosure(catalog, roots)
    /\ \A i \in Reachable(catalog, roots) : read(catalog, i) \subseteq VerifiedManifests

\* The manifests that were examined; meaningful only when the roots resolve.
resolveInstalledPackManifests(catalog, roots) ==
    {m \in catalog : Identity(m) \in Reachable(catalog, roots)}

normalizePackSelection(packs) == \A p, q \in packs : p.id = q.id => p = q

-----------------------------------------------------------------------------
(* Comparing two closures *)

StableIds(closure, kind) ==
    UNION {{<<m.id, e.id>> : e \in Of(m.entries, kind)} : m \in closure}

TypedOf(closure, kind, sid) ==
    UNION {{<<e.typed, e.required>> : e \in {f \in Of(m.entries, kind) : f.id = sid[2]}}
             : m \in {n \in closure : n.id = sid[1]}}

\* Entries without typed members are not listed by any of the comparisons.
Contract(closure, kind, sid) == {t \in TypedOf(closure, kind, sid) : t[1] # {}}

Differences(before, after, kind) ==
    {sid \in StableIds(before, kind) \cup StableIds(after, kind) :
        Contract(before, kind, sid) # Contract(after, kind, sid)}

roleCapabilityDifferences(before, after) == Differences(before, after, "roles")
capabilityContractDifferences(before, after) == Differences(before, after, "capabilities")
knowledgeGuidanceDifferences(before, after) == Differences(before, after, "knowledge")
evidenceContractDifferences(before, after) ==
    UNION {{<<sid[1], k, sid[2]>> : sid \in Differences(before, after, k)} : k \in evidenceContractKinds}

\* A policy is compared under the workflow it governs, its own name included.
closureWorkflowPolicies(closure, wid) ==
    UNION {{<<p.id, p.typed, p.required>> : p \in {q \in Of(m.entries, "policies") : q.target = wid[2]}}
             : m \in {n \in closure : n.id = wid[1]}}
workflowPolicyDifferences(before, after) ==
    {wid \in StableIds(before, "workflows") \cup StableIds(after, "workflows") :
        closureWorkflowPolicies(before, wid) # closureWorkflowPolicies(after, wid)}

InBoth(before, after, kind) == StableIds(before, kind) \cap StableIds(after, kind)

\* roleCapabilityGuard refuses for roles and for capabilities.
roleCapabilityGuard(before, after) ==
    \/ roleCapabilityDifferences(before, after) \cap InBoth(before, after, "roles") # {}
    \/ capabilityContractDifferences(before, after) \cap InBoth(before, after, "capabilities") # {}
policyChangeGuard(before, after) ==
    workflowPolicyDifferences(before, after) \cap InBoth(before, after, "workflows") # {}
knowledgeChangeGuard(before, after) ==
    knowledgeGuidanceDifferences(before, after) \cap InBoth(before, after, "knowledge") # {}
evidenceContractGuard(before, after) ==
    \E k \in evidenceContractKinds : \E sid \in InBoth(before, after, k) :
        <<sid[1], k, sid[2]>> \in evidenceContractDifferences(before, after)

bindCapabilityContracts(closure) ==
    \A m \in closure : \A c \in Of(m.entries, "capabilities") : \A o \in c.typed :
        /\ \A p \in Operations : p[1] = o[1] => p = o
        /\ c.required => o \in Operations

packDefinitionCollisions(closure, owned) ==
    {d \in owned : \E m \in closure : Declares(m.entries, d.kind, d.id)}

-----------------------------------------------------------------------------
(* Mutations of the project's definitions *)

Extends(p) == p.title /\ p.refs = {} /\ p.stages = <<>> /\ p.typed = {}

parseDefinitionPayload(p) == p.refs = {} /\ p.stages = <<>> /\ p.typed = {}
parseAgentPayload(p, requests) ==
    /\ p.stages = <<>>
    /\ p.typed # {} => requests /\ \E ref \in p.refs : ref[1] = "roles"
parseWorkflowPayload(p) ==
    /\ \A i, j \in DOMAIN p.stages : p.stages[i] = p.stages[j] => i = j
    /\ \A t \in Names(p.typed) : <<"taskTypes", t>> \notin p.refs

parseDefinitionMutation(mu) ==
    CASE mu.action = "put_owned" ->
           /\ mu.kind \in projectOwnedKinds
           /\ CASE mu.kind = "workflows" -> parseWorkflowPayload(mu.payload)
                [] mu.kind = "agents" -> parseAgentPayload(mu.payload, FALSE)
                [] OTHER -> parseDefinitionPayload(mu.payload)
      [] mu.action = "put_override" ->
           /\ mu.kind \in overridableKinds
           /\ CASE mu.operation = "disable" -> mu.kind \in disableableKinds
                [] mu.operation = "extend" -> Extends(mu.payload)
                [] OTHER -> CASE mu.kind = "agents" -> parseAgentPayload(mu.payload, TRUE)
                              [] mu.kind = "workflows" -> parseWorkflowPayload(mu.payload)
                              [] OTHER -> parseDefinitionPayload(mu.payload)
      [] OTHER -> mu.kind \in contributionKinds

agentReferenceIssues(m, p) ==
    \/ \E ref \in p.refs : ~Declares(m.entries, ref[1], ref[2])
    \/ p.typed # {} /\ ~\E r \in Of(m.entries, "roles") :
            <<"roles", r.id>> \in p.refs /\ p.typed \subseteq r.typed
workflowReferenceIssues(m, p) ==
    \E ref \in p.refs \cup {<<"taskTypes", t>> : t \in Names(p.typed)} :
        ~Declares(m.entries, ref[1], ref[2])

\* The stages a policy names must be there, and in its order.
policyTargetViolations(policy, stages) ==
    {c \in policy.typed :
        \/ c[1] \notin Range(stages)
        \/ c[2] # "" /\ c[2] \notin Range(stages)
        \/ /\ c[2] # "" /\ {c[1], c[2]} \subseteq Range(stages)
           /\ Position(stages, c[2]) >= Position(stages, c[1])}
workflowPolicyIssues(m, id, p) ==
    \E q \in Of(m.entries, "policies") : q.target = id /\ policyTargetViolations(q, p.stages) # {}

-----------------------------------------------------------------------------
(* Resolving a configuration.  Effective definitions are [ns, kind, id,      *)
(* enabled, entry]: ns is the pack id, or 0 for the project's own.           *)

PackDefinitions(closure) ==
    UNION {{[ns |-> m.id, kind |-> e.kind, id |-> e.id, enabled |-> TRUE, entry |-> e]
              : e \in m.entries} : m \in closure}
OwnedDefinitions(owned) ==
    {[ns |-> 0, kind |-> d.kind, id |-> d.id, enabled |-> d.enabled,
      entry |-> [d.payload EXCEPT !.kind = d.kind, !.id = d.id]] : d \in owned}

\* A replacement keeps the pack's typed members, except an agent's requests
\* and a workflow's routes.
Overridden(def, o) ==
    CASE o.operation = "disable" -> [def EXCEPT !.enabled = FALSE]
      [] o.operation = "extend" -> [def EXCEPT !.entry.title = TRUE]
      [] OTHER ->
           [def EXCEPT !.entry.title = o.payload.title,
                       !.entry.refs = IF def.kind \in {"agents", "workflows"}
                                      THEN o.payload.refs ELSE @,
                       !.entry.stages = o.payload.stages,
                       !.entry.typed = IF def.kind \in {"agents", "workflows"}
                                       THEN o.payload.typed ELSE @]

Hits(o, def) == o.source.id = def.ns /\ o.kind = def.kind /\ o.localId = def.id

Effective(closure, defs) ==
    {IF \E o \in defs.overrides : Hits(o, def)
     THEN Overridden(def, CHOOSE o \in defs.overrides : Hits(o, def)) ELSE def
       : def \in PackDefinitions(closure)}
    \cup OwnedDefinitions(defs.owned)

OverridesApply(packs, closure, defs) ==
    \A o \in defs.overrides :
        /\ o.source \in packs
        /\ \E def \in PackDefinitions(closure) :
              Hits(o, def) /\ (o.operation = "extend" => ~def.entry.title)
        /\ \A o2 \in defs.overrides : o2.source.id = o.source.id /\ o2.kind = o.kind
                                        /\ o2.localId = o.localId => o2 = o

\* A reference stays in the namespace of the definition that makes it.
resolveReference(eff, def, kind, id) ==
    \E t \in eff : t.ns = def.ns /\ t.kind = kind /\ t.id = id /\ t.enabled

WorkflowsResolve(eff) ==
    \A def \in eff : def.kind = "workflows" /\ def.enabled =>
        \A ref \in def.entry.refs \cup {<<"taskTypes", t>> : t \in Names(def.entry.typed)} :
            resolveReference(eff, def, ref[1], ref[2])

PoliciesResolve(eff) ==
    \A def \in eff : def.kind = "policies" =>
        /\ def.ns # 0 /\ def.entry.target # ""
        /\ \E w \in eff : /\ w.ns = def.ns /\ w.kind = "workflows" /\ w.id = def.entry.target
                          /\ w.enabled => policyTargetViolations(def.entry, w.entry.stages) = {}

AgentsResolve(eff) ==
    \A def \in eff : def.kind = "agents" /\ def.enabled =>
        /\ \A ref \in def.entry.refs : resolveReference(eff, def, ref[1], ref[2])
        /\ \A c \in Names(def.entry.typed) :
             /\ resolveReference(eff, def, "capabilities", c)
             /\ \E r \in eff : /\ r.ns = def.ns /\ r.kind = "roles" /\ r.enabled
                               /\ <<"roles", r.id>> \in def.entry.refs
                               /\ c \in Names(r.entry.typed)

resolveProjectConfiguration(catalog, packs, defs) ==
    LET closure == resolveInstalledPackManifests(catalog, packs)
        eff == Effective(closure, defs)
    IN  /\ normalizePackSelection(packs)
        /\ resolveInstalledPacks(catalog, packs)
        /\ packDefinitionCollisions(closure, defs.owned) = {}
        /\ OverridesApply(packs, closure, defs)
        /\ WorkflowsResolve(eff)
        /\ PoliciesResolve(eff)
        /\ AgentsResolve(eff)
        /\ bindCapabilityContracts(closure)
=============================================================================
