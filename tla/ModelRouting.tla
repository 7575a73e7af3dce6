---------------------------- MODULE ModelRouting ----------------------------
(***************************************************************************)
(* Which model an agent run is scheduled with: the host's routing file     *)
(* (llm-gateway/src/model-routing-configuration.ts), the precedence of its *)
(* rules (application/src/model-routing), the commands that change and     *)
(* reload it (runtime-host/src/commands/model.ts) and the report of        *)
(* model:check.                                                            *)
(*                                                                         *)
(* A command changes the file and the loaded snapshot at once and then     *)
(* waits for its audit row; when that fails it puts both back.  Commands   *)
(* run one at a time unless one outlives its timeout.  The operator may    *)
(* edit either file by hand and the host may restart at any time.          *)
(***************************************************************************)
EXTENDS Naturals, FiniteSets, FiniteSetsExt

CONSTANTS
  RoutedAgents, RoutedProjects,
  AgentsOf,                    \* project -> its synchronized agents
  PolicyOf,                    \* agent -> the model policy of its role
  ProfileKeys, PolicyNames,
  RoutingModels,               \* every model reference a file may hold
  SupportedModels,             \* of those, the canonical ones of a known provider
  MalformedModels,             \* and those that are no reference at all
  Documents,                   \* the documents an operator may write by hand
  LegacyModels,                \* the values of AI_OFFICE_LLM_MODEL, or "none"
  Overrides,                   \* the model:override requests considered
  RoutingCommands,
  MaxRoutingCommands, MaxHandEdits

ASSUME RoutingAssumption ==
  /\ AgentsOf \in [RoutedProjects -> SUBSET RoutedAgents]
  /\ SupportedModels \cup MalformedModels \subseteq RoutingModels
  /\ LegacyModels \subseteq RoutingModels \cup {"none"}
  /\ {MaxRoutingCommands, MaxHandEdits} \subseteq Nat

VARIABLES
  setting,        \* the environment the host was started with
  routingFiles,   \* the file in the Runtime home and the one the variable names
  routing,        \* the loaded snapshot
  command,        \* what each command in flight would restore
  issuedCommands, handEdits,
  edited,         \* a hand edit is not loaded yet
  overlapped,     \* two commands were in flight at once
  acked           \* the overrides reported as applied

routingVars == <<setting, routingFiles, routing, command, issuedCommands, handEdits, edited, overlapped, acked>>

(****************************** Documents *********************************)
NoTarget == [kind |-> "none", of |-> "none"]
EmptyDocument ==
    [profiles |-> [k \in ProfileKeys |-> "none"], policies |-> [p \in PolicyNames |-> "none"],
     default |-> "none", agents |-> [a \in RoutedAgents |-> NoTarget],
     projects |-> [p \in RoutedProjects |-> [a \in RoutedAgents |-> NoTarget]]]
\* The documents a file can hold: a profile may have settings that its model
\* refuses, and a target may name a profile that the document does not declare.
RoutingTarget == {NoTarget} \cup [kind : {"profile"}, of : ProfileKeys] \cup [kind : {"model"}, of : RoutingModels]
RoutingDocument ==
    [profiles : [ProfileKeys -> RoutingModels \cup {"none", "bad parameters"}],
     policies : [PolicyNames -> ProfileKeys \cup {"none"}], default : ProfileKeys \cup {"none"},
     agents : [RoutedAgents -> RoutingTarget],
     projects : [RoutedProjects -> [RoutedAgents -> RoutingTarget]]]
ASSUME DocumentAssumption ==
    /\ "none" \notin RoutingModels \cup ProfileKeys /\ "bad parameters" \notin RoutingModels
    /\ Documents \subseteq RoutingDocument
    /\ \A o \in Overrides :
         /\ o.scope \in {"host", "project"} /\ o.agent \in RoutedAgents /\ o.target \in RoutingTarget
         /\ o.scope = "project" => o.project \in RoutedProjects
FileMissing == [kind |-> "missing", doc |-> EmptyDocument]
FileUnreadable == [kind |-> "unreadable", doc |-> EmptyDocument]
RoutingFile(doc) == [kind |-> "document", doc |-> doc]

\* concreteModel: what is wrong with a model reference.
concreteModel(m) ==
    IF m \in MalformedModels THEN {"MODEL_REF_MALFORMED"}
    ELSE IF m \notin SupportedModels THEN {"PROVIDER_UNSUPPORTED"} ELSE {}

declaredProfiles(doc) == {k \in ProfileKeys : doc.profiles[k] # "none"}
profileIssues(v) ==
    IF v = "none" THEN {} ELSE IF v = "bad parameters" THEN {"EXECUTION_PARAMETER_INVALID"} ELSE concreteModel(v)
\* parseAgentOverrides: one override.
overrideIssues(t, declared) ==
    CASE t.kind = "none" -> {}
      [] t.kind = "profile" -> IF t.of \in declared THEN {} ELSE {"AGENT_OVERRIDE_UNAVAILABLE"}
      [] t.kind = "model" -> concreteModel(t.of)
\* parseDocument: every issue of a document.
parseDocument(doc) ==
    LET declared == declaredProfiles(doc)
    IN  (UNION {profileIssues(doc.profiles[k]) : k \in ProfileKeys})
          \cup {"PROFILE_UNDEFINED" : p \in {q \in PolicyNames : doc.policies[q] \notin declared \cup {"none"}}}
          \cup (IF doc.default \in declared \cup {"none"} THEN {} ELSE {"DEFAULT_UNRESOLVED"})
          \cup (UNION {overrideIssues(doc.agents[a], declared) : a \in RoutedAgents})
          \cup UNION {overrideIssues(doc.projects[p][a], declared) : p \in RoutedProjects, a \in RoutedAgents}

\* resolveModelRoutingFilePath: the file that is read, and the one changed.
effectiveFile == IF setting.managed \/ setting.file = "none" THEN "home" ELSE "variable"
\* The file read by loadModelRoutingState.
readFrom == IF ~setting.managed /\ setting.file # "none" THEN "variable" ELSE "home"

\* A missing Runtime-home file means no routing file, a missing named one is
\* an error.
fileIssues(name, f) ==
    CASE f.kind = "document" -> parseDocument(f.doc)
      [] f.kind = "missing" /\ name = "home" -> {}
      [] OTHER -> {"CONFIGURATION_UNREADABLE"}
loadModelRoutingState(files) ==
    LET f == files[readFrom]
        legacy == IF setting.managed THEN "none" ELSE setting.legacy
        issues == fileIssues(readFrom, f) \cup (IF legacy = "none" THEN {} ELSE concreteModel(legacy))
    IN  [status |-> IF issues # {} THEN "misconfigured"
                    ELSE IF f.kind # "document" /\ legacy = "none" THEN "unconfigured" ELSE "configured",
         doc |-> f.doc, legacy |-> legacy, issues |-> issues]

(****************************** Resolution ********************************)
Refused(code) == [status |-> "refused", source |-> code, model |-> "none"]
fromProfile(r, k, source) ==
    IF r.doc.profiles[k] \in SupportedModels
    THEN [status |-> "resolved", source |-> source, model |-> r.doc.profiles[k]]
    ELSE Refused("MODEL_PROFILE_UNDEFINED")
concrete(m, source) == [status |-> "resolved", source |-> source, model |-> m]
fromOverride(r, t, source) == IF t.kind = "profile" THEN fromProfile(r, t.of, source) ELSE concrete(t.of, source)
\* The profile a policy maps to: explicitly, or by having its name.
mappedProfile(r, policy) ==
    IF policy \in PolicyNames /\ r.doc.policies[policy] # "none" THEN r.doc.policies[policy]
    ELSE IF policy \in declaredProfiles(r.doc) THEN policy ELSE "none"

resolveAgentRunModel(r, project, agent) ==
    LET mine == r.doc.projects[project][agent]
        mapped == mappedProfile(r, PolicyOf[agent])
    IN  IF r.status = "unconfigured" THEN [status |-> "unrouted", source |-> "none", model |-> "none"]
        ELSE IF r.status = "misconfigured" THEN Refused("MODEL_ROUTING_MISCONFIGURED")
        ELSE IF mine # NoTarget THEN fromOverride(r, mine, "project_agent_override")
        ELSE IF r.doc.agents[agent] # NoTarget THEN fromOverride(r, r.doc.agents[agent], "agent_override")
        ELSE IF mapped # "none" THEN fromProfile(r, mapped, "role_policy")
        ELSE IF r.doc.default # "none" THEN fromProfile(r, r.doc.default, "default")
        ELSE IF r.legacy # "none" THEN concrete(r.legacy, "legacy_default")
        ELSE Refused("MODEL_POLICY_UNRESOLVED")

\* DescribeModelRouting: the errors model:check finds for a project.
routeError(project, agent) ==
    LET route == resolveAgentRunModel(routing, project, agent)
    IN  IF route.status # "refused" \/ route.source = "MODEL_ROUTING_MISCONFIGURED" THEN {} ELSE {route.source}
errorFindings(project) ==
    (IF routing.status = "misconfigured" THEN routing.issues ELSE {})
      \cup UNION {routeError(project, a) : a \in AgentsOf[project]}
checkIsValid(project) == errorFindings(project) = {}

(******************************* Commands *********************************)
IdleCommand == [kind |-> "idle", file |-> FileMissing, routing |-> "none", stale |-> FALSE, override |-> "none"]

RoutingInit ==
    /\ setting \in [managed : BOOLEAN, file : {"none", "set"}, legacy : LegacyModels]
    /\ \E f \in {FileMissing, FileUnreadable} \cup {RoutingFile(d) : d \in Documents} :
         routingFiles = [n \in {"home", "variable"} |-> IF n = readFrom THEN f ELSE FileMissing]
    /\ routing = loadModelRoutingState(routingFiles)
    /\ command = [c \in RoutingCommands |-> IdleCommand]
    /\ issuedCommands = 0 /\ handEdits = 0 /\ edited = FALSE /\ overlapped = FALSE /\ acked = {}

inFlight == {c \in RoutingCommands : command[c].kind # "idle"}
begins(c, record) ==
    /\ command' = [command EXCEPT ![c] = record]
    /\ issuedCommands' = issuedCommands + 1
    /\ overlapped' = (overlapped \/ inFlight # {})

\* Fault: the section is rebuilt with the one entry.
routingOverrideDocument_Rebuilt(doc, o) ==
    IF o.scope = "host" THEN [doc EXCEPT !.agents = [EmptyDocument.agents EXCEPT ![o.agent] = o.target]]
    ELSE [doc EXCEPT !.projects[o.project] = [EmptyDocument.projects[o.project] EXCEPT ![o.agent] = o.target]]
routingOverrideDocument(doc, o) ==
    IF o.scope = "host" THEN [doc EXCEPT !.agents[o.agent] = o.target]
    ELSE [doc EXCEPT !.projects[o.project][o.agent] = o.target]

\* overrideModel up to its audit: refused when the result would be invalid.
OverrideModel(c, o) ==
    /\ command[c].kind = "idle" /\ issuedCommands < MaxRoutingCommands
    /\ routingFiles[effectiveFile].kind # "unreadable"
    /\ o.target.kind = "model" => o.target.of \in SupportedModels
    /\ LET doc == routingOverrideDocument(routingFiles[effectiveFile].doc, o)
           after == [routingFiles EXCEPT ![effectiveFile] = RoutingFile(doc)]
       IN  /\ loadModelRoutingState(after).status # "misconfigured"
           /\ routingFiles' = after
           /\ routing' = loadModelRoutingState(after)
           /\ begins(c, [kind |-> "override", file |-> routingFiles[effectiveFile], routing |-> routing, stale |-> edited, override |-> o])
    /\ edited' = FALSE
    /\ UNCHANGED <<setting, handEdits, acked>>

ReloadModel(c) ==
    /\ command[c].kind = "idle" /\ issuedCommands < MaxRoutingCommands
    /\ routing' = loadModelRoutingState(routingFiles)
    /\ begins(c, [kind |-> "reload", file |-> FileMissing, routing |-> routing, stale |-> edited, override |-> "none"])
    /\ edited' = FALSE
    /\ UNCHANGED <<setting, routingFiles, handEdits, acked>>

sameSubject(a, b) == a.scope = b.scope /\ a.agent = b.agent /\ (a.scope = "host" \/ a.project = b.project)
\* The applied overrides whose subject none of these commands changed.
unless(cs) == {a \in acked : \A c \in cs : command[c].kind = "override" => ~sameSubject(a, command[c].override)}
ends(c) == command' = [command EXCEPT ![c] = IdleCommand] /\ UNCHANGED <<setting, issuedCommands, handEdits, overlapped>>
\* The audit row is written and the command answers.
AuditSucceeds(c) ==
    /\ c \in inFlight
    /\ acked' = IF command[c].kind = "reload" \/ edited THEN acked
                ELSE unless({c}) \cup {command[c].override}
    /\ ends(c) /\ UNCHANGED <<routingFiles, routing, edited>>

\* The audit fails: the file as it was, then the snapshot as it was.
AuditFails(c) ==
    /\ c \in inFlight
    /\ routing' = command[c].routing
    /\ routingFiles' = IF command[c].kind = "reload" THEN routingFiles
                       ELSE [routingFiles EXCEPT ![effectiveFile] = command[c].file]
    /\ edited' = (edited \/ command[c].stale)
    /\ ends(c) /\ UNCHANGED acked
\* Nor can the file be put back: then the snapshot stays too.
RollbackFails(c) ==
    /\ c \in inFlight /\ command[c].kind = "override"
    /\ acked' = unless({c})
    /\ ends(c) /\ UNCHANGED <<routingFiles, routing, edited>>

EditFile(name, f) ==
    /\ handEdits < MaxHandEdits /\ routingFiles[name] # f
    /\ handEdits' = handEdits + 1
    /\ routingFiles' = [routingFiles EXCEPT ![name] = f]
    /\ IF name = effectiveFile THEN edited' = TRUE /\ acked' = {} ELSE UNCHANGED <<edited, acked>>
    /\ UNCHANGED <<setting, routing, command, issuedCommands, overlapped>>

\* The host restarts; a command in flight is lost with it.
RestartHost ==
    /\ routing' = loadModelRoutingState(routingFiles)
    /\ command' = [c \in RoutingCommands |-> IdleCommand]
    /\ edited' = FALSE /\ acked' = unless(inFlight)
    /\ UNCHANGED <<setting, routingFiles, issuedCommands, handEdits, overlapped>>

RoutingNext ==
    \/ \E c \in RoutingCommands :
         \/ \E o \in Overrides : OverrideModel(c, o)
         \/ ReloadModel(c) \/ AuditSucceeds(c) \/ AuditFails(c) \/ RollbackFails(c)
    \/ \E name \in {"home", "variable"}, f \in {FileMissing} \cup {RoutingFile(d) : d \in Documents} : EditFile(name, f)
    \/ RestartHost
RoutingSpec == RoutingInit /\ [][RoutingNext]_routingVars

(******************************* Properties *******************************)
\* Types; a snapshot is misconfigured exactly when it has issues.
RoutingTypeOK ==
    /\ routing.status \in {"unconfigured", "configured", "misconfigured"}
    /\ (routing.status = "misconfigured") <=> (routing.issues # {})
    /\ issuedCommands \in 0..MaxRoutingCommands /\ handEdits \in 0..MaxHandEdits
    /\ \A a \in acked : a \in Overrides

\* Nothing of a broken file routes: when the loaded document names a model,
\* a profile or a parameter that is not usable anywhere, every subject is
\* refused, and whatever resolves is a supported model
\* (loadModelRoutingState, resolveAgentRunModel).
usableTarget(doc, t) == t = NoTarget \/ (t.kind = "model" /\ t.of \in SupportedModels)
                          \/ (t.kind = "profile" /\ doc.profiles[t.of] \in SupportedModels)
usableDocument(doc) ==
    /\ \A k \in ProfileKeys : doc.profiles[k] \in SupportedModels \cup {"none"}
    /\ \A a \in RoutedAgents : usableTarget(doc, doc.agents[a])
    /\ \A p \in RoutedProjects, a \in RoutedAgents : usableTarget(doc, doc.projects[p][a])
BrokenNeverRoutes ==
    \A p \in RoutedProjects, a \in RoutedAgents :
        LET route == resolveAgentRunModel(routing, p, a)
        IN  route.status = "resolved" => usableDocument(routing.doc) /\ route.model \in SupportedModels

\* The rule that decides is the highest one with an entry for the subject
\* (resolveAgentRunModel: "Deterministic precedence").
hasRule(r, project, agent) ==
    <<r.doc.projects[project][agent] # NoTarget, r.doc.agents[agent] # NoTarget,
      mappedProfile(r, PolicyOf[agent]) # "none", r.doc.default # "none", r.legacy # "none">>
ruleSource == <<"project_agent_override", "agent_override", "role_policy", "default", "legacy_default">>
PrecedenceHolds ==
    routing.status = "configured" =>
        \A p \in RoutedProjects, a \in RoutedAgents :
            LET rules == {i \in 1..5 : hasRule(routing, p, a)[i]}
                route == resolveAgentRunModel(routing, p, a)
            IN  route.source = IF rules = {} THEN "MODEL_POLICY_UNRESOLVED" ELSE ruleSource[Min(rules)]

\* model:check says valid exactly when every agent of the project could be
\* scheduled (DescribeModelRouting).
CheckPredictsScheduling ==
    \A p \in RoutedProjects : AgentsOf[p] # {} =>
        (checkIsValid(p) <=> \A a \in AgentsOf[p] : resolveAgentRunModel(routing, p, a).status # "refused")

\* An override that was reported as applied is in the file the host loads,
\* until someone changes the same subject or edits the file, whatever other
\* commands failed meanwhile (overrideModel), unless commands overlapped.
AppliedOverridesStand ==
    ~overlapped =>
        \A o \in acked :
            LET doc == routingFiles[readFrom].doc
                target == IF o.scope = "host" THEN doc.agents[o.agent] ELSE doc.projects[o.project][o.agent]
            IN  target = o.target \/ \E c \in inFlight : command[c].kind = "override" /\ sameSubject(command[c].override, o)

\* Between commands the snapshot is what the file says, also after a failed
\* audit or rollback, unless the file was edited by hand or commands overlapped.
SnapshotFollowsFile ==
    ~overlapped /\ ~edited => routing = loadModelRoutingState(routingFiles)

\* What holds of routing files, the loaded snapshot and its resolutions.
RoutingSafety ==
    /\ RoutingTypeOK /\ BrokenNeverRoutes /\ PrecedenceHolds /\ CheckPredictsScheduling
    /\ AppliedOverridesStand /\ SnapshotFollowsFile
=============================================================================
