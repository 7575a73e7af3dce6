---------------------------- MODULE MCConnectors ----------------------------
(***************************************************************************)
(* What the Runtime does for agents and shows of them: controlled actions  *)
(* on a project's files, model routing, runs through the metered gateway,  *)
(* provider credentials, and the read models, each on an instance of its   *)
(* own.  A behaviour is about one of them, its focus, and the others keep  *)
(* their initial state.                                                    *)
(***************************************************************************)
EXTENDS ControlledActions, GatewayWorker, ProviderCredentials, ModelRouting,
        OperationalReads, PagedReads

\* Each request is named for its operation, and all of them are about the file
\* p; a move is to q.
NamedForOperation ==
    [r \in Requests |->
        [op |-> r, path |-> "p", to |-> IF r = "move" THEN "q" ELSE "p", content |-> "new"]]
\* Bound: q is absent or new, so that a move is followed to its end when the file
\* it moves is new.
TargetAbsentOrNew == files["q"] # "old"
All == [g \in Grants |-> Requests]
\* The constraints of g2 refuse to move files.
G2Keeps == [g \in Grants |-> IF g = "g2" THEN Requests \ {"move"} ELSE Requests]
\* Only the first stage may move files.
MoveFirst == [s \in 1 .. NumStages |-> IF s = 1 THEN Requests ELSE Requests \ {"move"}]

\* A routing file with profiles and one override; one that maps a policy and a
\* default; one with an unsupported model; one that names a missing profile.
ProjectAgents == [p1 |-> {"dev", "qa"}, p2 |-> {"dev"}]
AgentPolicies == [dev |-> "coding", qa |-> "review"]
Target(k, x) == [kind |-> k, of |-> x]
Routed ==
    [EmptyDocument EXCEPT !.profiles["coding"] = "openai:a", !.profiles["cheap"] = "anthropic:b",
                          !.agents["qa"] = Target("profile", "cheap")]
Mapped ==
    [Routed EXCEPT !.policies["review"] = "coding", !.default = "cheap", !.agents["qa"] = NoTarget]
SomeDocuments ==
    {EmptyDocument, Routed, Mapped,
     [Routed EXCEPT !.projects["p2"]["dev"] = Target("model", "other:c")],
     [EmptyDocument EXCEPT !.policies["review"] = "cheap"]}
Override(s, p, a, t) == [scope |-> s, project |-> p, agent |-> a, target |-> t]
SomeOverrides ==
    {Override("host", "none", "qa", Target("model", "openai:a")),
     Override("host", "none", "dev", Target("profile", "cheap")),
     Override("project", "p1", "dev", Target("model", "anthropic:b")),
     Override("project", "p1", "qa", Target("model", "openai:a"))}

\* Two runs of one task, by two agents.
OneProject == [t \in Tasks |-> t]
SameTask == <<1, 1>>
OwnAgent == [r \in 1 .. 2 |-> r]

VARIABLE focus

connectorVars == <<vars, gatewayVars, credentialVars, routingVars, readVars, pagedVars, focus>>

ConnectorsInit ==
    /\ focus \in {"actions", "gateway", "credentials", "routing", "reads", "pages"}
    /\ Init /\ (focus = "actions" \/ Range(files) = {Absent})
    /\ GatewayInit
    /\ focus = "gateway" \/ selection = [present |-> FALSE, provider |-> "openai", effort |-> "none",
                                         credentials |-> FALSE, priced |-> FALSE]
    /\ CredentialInit
    /\ focus = "credentials" \/ (credentialDirectory = "missing"
                                   /\ hostEnvironment = [source |-> "none", ambient |-> FALSE])
    /\ RoutingInit
    /\ focus = "routing" \/ (setting = [managed |-> FALSE, file |-> "none", legacy |-> "none"]
                               /\ FileMissing \in Range(routingFiles) /\ routing.status = "unconfigured")
    /\ ReadsInit /\ PagedInit

ConnectorsNext ==
    \/ focus = "actions" /\ Next
         /\ UNCHANGED <<gatewayVars, credentialVars, routingVars, readVars, pagedVars>>
    \/ focus = "gateway" /\ GatewayNext
         /\ UNCHANGED <<vars, credentialVars, routingVars, readVars, pagedVars>>
    \/ focus = "credentials" /\ CredentialNext
         /\ UNCHANGED <<vars, gatewayVars, routingVars, readVars, pagedVars>>
    \/ focus = "routing" /\ RoutingNext
         /\ UNCHANGED <<vars, gatewayVars, credentialVars, readVars, pagedVars>>
    \/ focus = "reads" /\ ReadsNext
         /\ UNCHANGED <<vars, gatewayVars, credentialVars, routingVars, pagedVars>>
    \/ focus = "pages" /\ PagedNext
         /\ UNCHANGED <<vars, gatewayVars, credentialVars, routingVars, readVars>>

ConnectorsSpec == ConnectorsInit /\ [][ConnectorsNext /\ UNCHANGED focus]_connectorVars

\* Executions through the gateway stay within their budgets, pay for their
\* answers and never widen what an operator narrowed (gateway-worker-runtime.ts).
GatewayHolds ==
    /\ [](focus = "gateway" => GatewaySafety)
    /\ [][focus = "gateway" => NarrowBudgetKept]_connectorVars

\* Credential files are whole and never mixed with the environment
\* (runtime-home-credentials.ts).
CredentialsHold == focus = "credentials" => CredentialSafety

\* A route is what the file says, by the highest rule, and nothing of a broken
\* file routes (model-routing.ts, resolve-agent-run-model.ts).
RoutingHolds == focus = "routing" => RoutingSafety

\* Read models agree with the records and with each other
\* (operational-query-service.ts, sqlite-operational-read.repository.ts).
ReadsHold == focus = "reads" => ReadsSafety

\* Pages, walks and bounded lists show what they claim (listActivity,
\* queryTaskPage).
PagesHold == focus = "pages" => PagedSafety
=============================================================================
