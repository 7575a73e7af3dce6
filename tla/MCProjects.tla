----------------------------- MODULE MCProjects -----------------------------
(***************************************************************************)
(* Projects and their checkouts: the domain packs a project is configured  *)
(* with, its archives and restores, the identity of a checkout, and the    *)
(* files AI Office keeps in it for agent clients, each on an instance of   *)
(* its own.  A behaviour is about one of them, its focus, and the others   *)
(* keep their initial state.                                               *)
(***************************************************************************)
EXTENDS PackConfiguration, Portability, RepositoryIdentity, ClientArtifacts

E(kind, id) == [kind |-> kind, id |-> id, title |-> FALSE, refs |-> {}, stages |-> <<>>,
                target |-> "", typed |-> {}, required |-> FALSE]
Pack(id, version, digest, deps, entries) ==
    [id |-> id, version |-> version, digest |-> digest, sealed |-> TRUE, core |-> TRUE,
     deps |-> deps, entries |-> entries]

Role == [E("roles", "r") EXCEPT !.typed = {<<"c">>}]
Capability == [E("capabilities", "c") EXCEPT !.typed = {<<"fs", "read">>}, !.required = TRUE]
Agent == [E("agents", "a") EXCEPT !.refs = {<<"roles", "r">>}, !.typed = {<<"c">>}]
Flow == [E("workflows", "w") EXCEPT !.refs = {<<"taskTypes", "t">>, <<"roles", "r">>},
                                    !.stages = <<"s1", "s2">>]
Policy == [E("policies", "p") EXCEPT !.target = "w", !.typed = {<<"s2", "s1">>}]
Guide == [E("knowledge", "k") EXCEPT !.typed = {<<"g">>}]

Base == Pack(1, 1, 11, {}, {Role, Capability, Agent, Flow, Policy, Guide, E("taskTypes", "t")})
\* The role loses its capability and the agent its request, the guide is gone.
Narrow == Pack(1, 2, 12, {}, {E("roles", "r"), Capability, [Agent EXCEPT !.typed = {}],
                              [Flow EXCEPT !.title = TRUE], Policy, E("taskTypes", "t")})
Addon == Pack(2, 1, 21, {Identity(Base)}, {E("prompts", "x")})
\* An agent that asks for more than its role has, and one built differently.
Greedy == Pack(2, 2, 22, {}, {E("roles", "r"), Capability, Agent})
Rebuilt == Pack(1, 1, 19, {}, {Role, Capability, Guide})

AllManifests == {Base, Narrow, Addon, Greedy, Rebuilt}
HostOperations == {<<"fs", "read">>}
SomeSelections == {{Identity(Base)}, {Identity(Narrow)}, {Identity(Base), Identity(Addon)}}
SomeCatalogs == {AllManifests, {Narrow, Rebuilt, Addon}}

Own(e, r) == [action |-> "put_owned", kind |-> e.kind, id |-> e.id, payload |-> e,
              enabled |-> TRUE, expectedEntry |-> r]
Over(m, op_, e) == [action |-> "put_override", source |-> Identity(m), kind |-> e.kind, localId |-> e.id,
                    operation |-> op_, payload |-> e, expectedEntry |-> 0]
SomeMutations ==
    {Own(E("prompts", "x"), 0),
     Own([E("agents", "b") EXCEPT !.refs = {<<"roles", "r">>}, !.typed = {<<"c">>}], 0),
     Own(E("policies", "p"), 0),
     [action |-> "remove_owned", kind |-> "prompts", id |-> "x"],
     Over(Base, "replace", E("knowledge", "k")),
     Over(Base, "extend", [E("workflows", "w") EXCEPT !.title = TRUE]),
     Over(Narrow, "replace", [Agent EXCEPT !.typed = {}]),
     [action |-> "remove_override", source |-> Identity(Base), kind |-> "workflows", localId |-> "w"]}

\* A project at a1, restored on another host into a clone and into a fork, and
\* an archive of the first format, of a revision whose parent no host knows.
RootHosts == [a1 |-> "A", b1 |-> "B", b2 |-> "B"]
RootRemotes == [a1 |-> "origin", b1 |-> "origin", b2 |-> "fork"]
OldState ==
    [status |-> [t \in PTasks |-> IF t = "t1" THEN "completed" ELSE "pending"],
     runs |-> {}, reviews |-> [t \in PTasks |-> NoReview], archived |-> FALSE,
     links |-> {"t1"}, edges |-> {}, packs |-> FALSE, defs |-> {},
     history |-> [t \in PTasks |-> IF t = "t1" THEN "executed" ELSE "never"]]
SomeAnchors ==
    {[a1 |-> "ours", b1 |-> "none", b2 |-> "ours"], [a1 |-> "ours", b1 |-> "ours", b2 |-> "other"]}
OldArchives ==
    {[version |-> 1, id |-> 1, parent |-> 9, remote |-> "origin",
      state |-> portableStateAtFormatVersion(OldState, 1), ran |-> {"t1"}]}

\* Two clones of one remote, and a directory without any.
CloneRemotes == [c1 |-> "origin", c2 |-> "origin", c3 |-> "no remote"]

ProjectSymmetry == Permutations(Clients)

VARIABLE focus

projectVars == <<packVars, portabilityVars, identityVars, clientVars, focus>>

ProjectsInit ==
    /\ focus \in {"packs", "portability", "identity", "clients"}
    /\ PackInit /\ (focus = "packs" \/ catalog = register(AllManifests))
    /\ PortabilityInit
    /\ focus = "portability" \/ (/\ rows[HostOf[FirstRoot]] = NewRows /\ anchor.b1 = "none"
                                 /\ Range(files) = {NoFile})
    /\ IdentityInit /\ (focus = "identity" \/ projects = 0)
    /\ ClientInit /\ (focus = "clients" \/ (Range(artifacts) = {NoArtifact} /\ detected = {}))

ProjectsNext ==
    \/ focus = "packs" /\ PackNext
         /\ UNCHANGED <<portabilityVars, identityVars, clientVars, focus>>
    \/ focus = "portability" /\ PortabilityNext
         /\ UNCHANGED <<packVars, identityVars, clientVars, focus>>
    \/ focus = "identity" /\ IdentityNext
         /\ UNCHANGED <<packVars, portabilityVars, clientVars, focus>>
    \/ focus = "clients" /\ ClientNext
         /\ UNCHANGED <<packVars, portabilityVars, identityVars, focus>>

ProjectsSpec == ProjectsInit /\ [][ProjectsNext]_projectVars

\* Packs: a plan is applied to what its reviewer saw, and definitions and packs
\* never collide (reconcile-project-pack-upgrade.ts).
PacksHold == focus = "packs" => PackSafety

\* Archives and restores keep one lineage on every host
\* (manage-project-portability.ts, project-snapshot.ts).
PortabilityHolds == focus = "portability" => PortabilitySafety

\* An install that ended is valid, and copies stay apart (import-project.ts).
IdentityHolds == focus = "identity" => IdentitySafety

\* An install leaves its clients configured, a detachment leaves nothing behind
\* (manage-project-lifecycle.ts).
ClientsHold == focus = "clients" => ClientSafety

\* What no step may do to a project or its checkout: commit an upgrade that
\* does not resolve, or content nobody reviewed; overwrite a project, a head or
\* an archive; take a checkout from its project; lose the user's words, or the
\* guidance a user's file refers to.
ProjectSteps ==
    [][/\ focus = "packs" => UpgradeResolves /\ ReviewedContentOnly
       /\ focus = "portability" => NoRestoreOverwrites /\ HeadExtends /\ ArchivesStay
       /\ focus = "identity" => NoHijack /\ DetachedReturns
       /\ focus = "clients" => UserTextKept /\ SharedOutlivesHosts]_projectVars
=============================================================================
