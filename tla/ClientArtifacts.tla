--------------------------- MODULE ClientArtifacts ---------------------------
(***************************************************************************)
(* The files AI Office manages in a checkout for the agent clients Codex   *)
(* and Claude: the shared guidance and skill, the Codex pointer, the       *)
(* Claude bridge and skill.  `install` reconciles them, an approved        *)
(* `uninstall` removes them and then detaches the checkout; both work one  *)
(* file at a time, with the user's editor running beside them.             *)
(*                                                                         *)
(* A file is its class and the user's own words in it (0: none).  The      *)
(* SHA-256 the code compares is equality of these records.                 *)
(***************************************************************************)
EXTENDS Naturals, Sequences, FiniteSets

CONSTANT MaxUserEdits \* how often the user touches a file
ASSUME ClientAssumption == MaxUserEdits \in Nat

VARIABLES artifacts, \* [Paths -> File]
          detected,  \* the clients found on PATH
          attached,  \* the runtime associates this checkout with its project
          op,        \* the lifecycle command the host is running
          approved,  \* the uninstall plan the user was shown, or NoApproval
          userEdits, \* edits so far
          quiet      \* nobody edited since the command (or the plan) began
clientVars == <<artifacts, detected, attached, op, approved, userEdits, quiet>>

AgentClients == {"claude", "codex"}
Paths == {"canonical", "skill", "pointer", "bridge", "claudeSkill"}
Shared == {"canonical", "skill"}

\* "current": as AI Office would write it; "stale": AI Office's, with other
\* content; "legacy": AGENTS.md of the first layout; "merged"/"mergedStale":
\* the user's CLAUDE.md with a managed block; "import": it imports AI-OFFICE.md
\* by itself; "malformed": markers missing or doubled; "special": no regular
\* file, or too large.
Classes == {"absent", "current", "stale", "legacy", "user", "merged",
            "mergedStale", "import", "malformed", "special"}
File == [class : Classes, text : 0 .. MaxUserEdits + 1]
NoArtifact == [class |-> "absent", text |-> 0]
Fresh  == [class |-> "current", text |-> 0]
NoApproval == [files |-> <<>>, installed |-> FALSE]
NoCommand == [cmd |-> "none", pc |-> "idle", todo |-> <<>>, shared |-> <<>>,
         plan |-> <<>>, ops |-> <<>>, racy |-> FALSE]

(***************************************************************************)
(* Ownership of a file.                                                    *)
(***************************************************************************)
exists(f) == f.class # "absent"
isManaged(f) == f.class \in {"current", "stale"}
isCodexPointerManaged(f) == isManaged(f) \/ f.class = "legacy"
isUserOwnedCodexHost(f) == exists(f) /\ ~isCodexPointerManaged(f)

\* managedState: the ownership and the integration status a file is reported with
managedState(f) ==
  CASE f.class = "absent"  -> <<"absent", "missing">>
    [] f.class = "current" -> <<"ai_office_owned", "integrated">>
    [] f.class = "stale"   -> <<"ai_office_owned", "drifted">>
    [] f.class = "legacy"  -> <<"ai_office_owned", "unmanaged">>
    [] OTHER               -> <<"user_owned", "unmanaged">>

\* analyzeClaudeBridge: what CLAUDE.md is to AI Office
analyzeClaudeBridge(f) ==
  CASE f.class = "absent"      -> [kind |-> "absent", owner |-> "absent", status |-> "missing"]
    [] f.class = "import"      -> [kind |-> "direct_import", owner |-> "user_owned", status |-> "integrated"]
    [] f.class = "malformed"   -> [kind |-> "conflict", owner |-> "merged", status |-> "conflict"]
    [] f.class = "current"     -> [kind |-> "managed", owner |-> "ai_office_owned", status |-> "integrated"]
    [] f.class = "stale"       -> [kind |-> "managed", owner |-> "ai_office_owned", status |-> "drifted"]
    [] f.class = "merged"      -> [kind |-> "managed", owner |-> "merged", status |-> "integrated"]
    [] f.class = "mergedStale" -> [kind |-> "managed", owner |-> "merged", status |-> "drifted"]
    [] OTHER                   -> [kind |-> "unmanaged", owner |-> "user_owned", status |-> "unmanaged"]
bridgeKind(fs) == analyzeClaudeBridge(fs["bridge"]).kind
importsShared(fs) == bridgeKind(fs) \in {"managed", "direct_import", "conflict"}

\* hasManagedClientState: the client has files of AI Office's in the checkout
hasManagedClientState(client, fs) ==
  IF client = "codex"
  THEN managedState(fs["pointer"])[1] = "ai_office_owned"
  ELSE \/ analyzeClaudeBridge(fs["bridge"]).owner \in {"ai_office_owned", "merged"}
       \/ managedState(fs["claudeSkill"])[1] = "ai_office_owned"

(***************************************************************************)
(* Plans: sequences of file operations, each with the content it expects.  *)
(***************************************************************************)
Op(kind, p, fs, next) == [kind |-> kind, path |-> p, expected |-> fs[p], next |-> next]

\* reconcileManagedFile: create the file, or bring AI Office's own up to date
reconcileManagedFile(p, fs, managed) ==
  CASE ~exists(fs[p]) -> <<Op("create", p, fs, Fresh)>>
    [] exists(fs[p]) /\ managed /\ fs[p] # Fresh -> <<Op("update", p, fs, Fresh)>>
    [] OTHER                        -> <<>>
deleteIfManaged(p, fs, managed) == IF managed THEN <<Op("delete", p, fs, NoArtifact)>> ELSE <<>>

sharedOperations(fs) ==
  reconcileManagedFile("canonical", fs, isManaged(fs["canonical"]))
    \o reconcileManagedFile("skill", fs, isManaged(fs["skill"]))
deleteShared(fs) ==
  deleteIfManaged("skill", fs, isManaged(fs["skill"]))
    \o deleteIfManaged("canonical", fs, isManaged(fs["canonical"]))

\* planCodex: shared files, then AGENTS.md unless it is the user's
planCodex(fs) ==
  [ops |-> sharedOperations(fs)
             \o reconcileManagedFile("pointer", fs, isCodexPointerManaged(fs["pointer"])),
   conflict |-> FALSE]

\* planClaude: CLAUDE.md is created, gets a block appended, or has its block
\* renewed; malformed markers are a conflict
planClaude(fs) ==
  LET b == fs["bridge"]
      k == analyzeClaudeBridge(b)
      bridge == CASE k.kind = "absent"    -> <<Op("create", "bridge", fs, Fresh)>>
                  [] k.kind = "unmanaged" -> <<Op("update", "bridge", fs, [b EXCEPT !.class = "merged"])>>
                  [] k.kind = "managed" /\ k.status # "integrated" ->
                       <<Op("update", "bridge", fs,
                            [b EXCEPT !.class = IF k.owner = "merged" THEN "merged" ELSE "current"])>>
                  [] OTHER -> <<>>
  IN [ops |-> sharedOperations(fs) \o bridge
                \o reconcileManagedFile("claudeSkill", fs, isManaged(fs["claudeSkill"])),
      conflict |-> k.kind = "conflict"]

\* planUninstallCodex: shared files stay while CLAUDE.md or a user's AGENTS.md
\* may still refer to them
planUninstallCodex(fs) ==
  [ops |-> deleteIfManaged("pointer", fs, isCodexPointerManaged(fs["pointer"]))
             \o IF importsShared(fs) \/ isUserOwnedCodexHost(fs["pointer"])
                THEN <<>> ELSE deleteShared(fs),
   conflict |-> bridgeKind(fs) = "conflict"]

\* planUninstallClaude: the skill, then CLAUDE.md or only its block; shared
\* files go too when AGENTS.md does not exist
planUninstallClaude(fs) ==
  LET b == fs["bridge"]
      k == analyzeClaudeBridge(b)
      sharedRequired == exists(fs["pointer"]) \/ k.kind \in {"direct_import", "conflict"}
  IN [ops |-> deleteIfManaged("claudeSkill", fs, isManaged(fs["claudeSkill"]))
               \o (CASE k.kind = "managed" /\ k.owner = "ai_office_owned" ->
                          <<Op("delete", "bridge", fs, NoArtifact)>>
                     [] k.kind = "managed" /\ k.owner # "ai_office_owned" ->
                          <<Op("update", "bridge", fs, [b EXCEPT !.class = "user"])>>
                     [] OTHER -> <<>>)
               \o IF sharedRequired THEN <<>> ELSE deleteShared(fs),
      conflict |-> k.kind = "conflict"]

clientPlan(cmd, client, fs) ==
  CASE cmd = "install" /\ client = "codex" -> planCodex(fs)
    [] cmd = "install" /\ client # "codex" -> planClaude(fs)
    [] cmd # "install" /\ client = "codex" -> planUninstallCodex(fs)
    [] OTHER                               -> planUninstallClaude(fs)

\* planUninstall: the shared files the aggregate plan promises to delete: the
\* ones in a client's plan, and the ones Codex may delete once Claude's
\* dependency is gone
plannedDeletes(fs) ==
  LET claude == planUninstallClaude(fs).ops
      codex == planUninstallCodex(fs).ops
      touched(ops, kinds) == {ops[i].path : i \in {j \in DOMAIN ops : ops[j].kind \in kinds}}
      deferred == "bridge" \in touched(claude, {"update", "delete"})
                    /\ ~isUserOwnedCodexHost(fs["pointer"])
  IN touched(claude, {"delete"}) \cup touched(codex, {"delete"})
       \cup {p \in Shared : deferred /\ isManaged(fs[p])}

\* the changes uninstall expects of a client: the approved ones and, for Codex,
\* the deletions of shared files that its approved step left out
expectedChanges(client, fs) ==
  LET own == clientPlan("uninstall", client, fs).ops
      missing(p) == /\ p \in plannedDeletes(fs)
                    /\ \A i \in DOMAIN own : own[i].path # p
      late(p) == IF client = "codex" /\ missing(p) THEN <<Op("delete", p, fs, NoArtifact)>> ELSE <<>>
  IN own \o late("skill") \o late("canonical")

\* clientChangesMatch: same kinds, paths and expected contents, in order
clientChangesMatch(actual, expected) ==
  LET projection(o) == <<o.kind, o.path, o.expected>>
  IN /\ Len(actual) = Len(expected)
     /\ \A i \in DOMAIN actual : projection(actual[i]) = projection(expected[i])

\* the second look a client takes just before it deletes a shared file
stillRequired(client, fs) ==
  \/ importsShared(fs)
  \/ IF client = "codex" THEN isUserOwnedCodexHost(fs["pointer"]) ELSE exists(fs["pointer"])

\* validate: what the client could not work with
validate(client, fs) ==
  /\ exists(fs["canonical"])
  /\ IF client = "codex"
     THEN exists(fs["pointer"]) /\ exists(fs["skill"])
     ELSE analyzeClaudeBridge(fs["bridge"]).status = "integrated" /\ exists(fs["claudeSkill"])

\* clientStatus: the configuration reported for a client
clientStatus(client, fs, found) ==
  LET unmanaged(p) == managedState(fs[p])[2] = "unmanaged"
      claude == analyzeClaudeBridge(fs["bridge"])
      usersOwn == \/ unmanaged("canonical") \/ unmanaged("skill")
                  \/ client = "codex" /\ unmanaged("pointer")
                  \/ client = "claude" /\ (unmanaged("claudeSkill") \/ claude.owner = "user_owned")
      conflict == (claude.kind = "conflict" /\ client = "claude") \/ (found /\ ~validate(client, fs))
  IN IF conflict THEN "conflict"
     ELSE IF usersOwn THEN "unmanaged"
     ELSE IF ~found /\ ~hasManagedClientState(client, fs) THEN "not_configured"
     ELSE IF validate(client, fs) /\ clientPlan("install", client, fs).ops = <<>> THEN "configured"
     ELSE IF hasManagedClientState(client, fs) THEN "drifted" ELSE "missing"

ClientTypeOK ==
  /\ artifacts \in [Paths -> File]
  /\ detected \subseteq AgentClients
  /\ attached \in BOOLEAN /\ quiet \in BOOLEAN
  /\ userEdits \in 0 .. MaxUserEdits
  /\ op.pc \in {"idle", "shared", "plan", "hash", "check", "commit", "detach", "done", "failed"}
  /\ op.cmd = "none" <=> op.pc = "idle"
  /\ op.pc = "commit" => op.ops # <<>>
  /\ approved = NoApproval \/ approved.files \in [Paths -> File]

ClientInit ==
  /\ \E p \in {"absent", "user", "legacy"}, b \in {"absent", "user", "import"} :
        artifacts = [x \in Paths |->
                   CASE x = "pointer" /\ p # "absent" -> [class |-> p, text |-> IF p = "user" THEN 1 ELSE 0]
                     [] x = "bridge" /\ b # "absent"  -> [class |-> b, text |-> 1]
                     [] OTHER -> NoArtifact]
  /\ detected \in SUBSET AgentClients
  /\ attached = FALSE
  /\ op = NoCommand /\ approved = NoApproval
  /\ userEdits = 0 /\ quiet = TRUE

(***************************************************************************)
(* The user and the office manifest.                                       *)
(***************************************************************************)
\* An editor outside AI Office changes one file.
Edit(p, f) ==
  /\ userEdits < MaxUserEdits
  /\ f # artifacts[p]
  /\ artifacts' = [artifacts EXCEPT ![p] = f]
  /\ userEdits' = userEdits + 1
  /\ quiet' = FALSE
  /\ op' = [op EXCEPT !.racy = @ \/ op.pc = "commit"]
  /\ UNCHANGED <<detected, attached, approved>>

\* what a user may turn a file into: words of their own, nothing, a damaged
\* managed part, and for CLAUDE.md an import or damaged markers
userForms(p, f) ==
  {NoArtifact, [class |-> "user", text |-> userEdits + 2], [class |-> "special", text |-> 0]}
    \cup {[f EXCEPT !.class = "stale"] : x \in {y \in {1} : f.class = "current"}}
    \cup {[f EXCEPT !.class = "mergedStale"] : x \in {y \in {1} : f.class = "merged"}}
    \cup {[class |-> c, text |-> userEdits + 2] :
            c \in {d \in {"import", "malformed", "merged"} : p = "bridge" /\ (d # "merged" \/ f.class = "current")}}

\* A new office manifest makes the compiled shared files out of date.
OfficeChanges ==
  /\ userEdits < MaxUserEdits
  /\ op.pc = "idle"
  /\ \E p \in Shared : artifacts[p].class = "current"
  /\ artifacts' = [p \in Paths |-> IF p \in Shared /\ artifacts[p].class = "current"
                               THEN [artifacts[p] EXCEPT !.class = "stale"] ELSE artifacts[p]]
  /\ userEdits' = userEdits + 1
  /\ quiet' = FALSE
  /\ UNCHANGED <<detected, attached, op, approved>>

(***************************************************************************)
(* install.                                                                *)
(***************************************************************************)
readable(fs) == \A p \in Paths : fs[p].class # "special"
Finish(outcome) == op' = [op EXCEPT !.pc = outcome, !.ops = <<>>, !.todo = <<>>]

\* the candidates, in the catalogue's order
candidates(fs, found) ==
  LET own(c) == IF c \in found \/ hasManagedClientState(c, fs) THEN <<c>> ELSE <<>>
  IN own("codex") \o own("claude")

\* InstallBegin: the preflight: every plan is made before anything is written;
\* then the checkout is associated and its identity file written
\* (RepositoryIdentity), and the shared files follow the preflight's plan.
InstallBegin ==
  /\ op.pc = "idle"
  /\ LET todo == candidates(artifacts, detected)
         conflict == \E i \in DOMAIN todo : clientPlan("install", todo[i], artifacts).conflict
     IN IF ~readable(artifacts) \/ conflict
        THEN /\ op' = [NoCommand EXCEPT !.cmd = "install", !.pc = "failed"]
             /\ UNCHANGED attached
        ELSE /\ op' = [NoCommand EXCEPT !.cmd = "install", !.pc = "check", !.todo = <<"shared">> \o todo,
                                   !.ops = sharedOperations(artifacts)]
             /\ attached' = TRUE
  /\ quiet' = TRUE
  /\ UNCHANGED <<artifacts, detected, approved, userEdits>>

(***************************************************************************)
(* uninstall.                                                              *)
(***************************************************************************)
\* UninstallPlan: the user is shown a plan; its hash covers the hash of every
\* file the clients inspect.
UninstallPlan ==
  /\ op.pc = "idle"
  /\ readable(artifacts)
  /\ approved' = [files |-> artifacts, installed |-> attached]
  /\ quiet' = TRUE
  /\ UNCHANGED <<artifacts, detected, attached, op, userEdits>>

\* UninstallBegin: the approved plan must be the current one; a checkout that
\* is not installed is left alone; a malformed CLAUDE.md blocks everything.
UninstallBegin ==
  /\ op.pc = "idle" /\ approved # NoApproval
  /\ LET current == [files |-> artifacts, installed |-> attached]
         blocked == \E c \in AgentClients : clientPlan("uninstall", c, artifacts).conflict
     IN op' = [NoCommand EXCEPT !.cmd = "uninstall",
                 !.pc = IF ~readable(artifacts) \/ current # approved \/ (attached /\ blocked) THEN "failed"
                        ELSE IF ~attached THEN "done" ELSE "plan",
                 !.todo = IF attached THEN <<"claude", "codex">> ELSE <<>>]
  /\ UNCHANGED <<artifacts, detected, attached, approved, userEdits, quiet>>

(***************************************************************************)
(* One client after the other, one file after the other.                   *)
(***************************************************************************)
\* PlanClient: the client's plan as of now; uninstall accepts it only if it
\* makes the changes that were approved.
PlanClient ==
  /\ op.pc = "plan" /\ op.todo # <<>>
  /\ LET client == Head(op.todo)
         plan == clientPlan(op.cmd, client, artifacts)
         ok == /\ readable(artifacts)
               /\ op.cmd = "uninstall" =>
                    clientChangesMatch(plan.ops, expectedChanges(client, approved.files))
     IN IF ok THEN op' = [op EXCEPT !.pc = "hash", !.plan = plan.ops] ELSE Finish("failed")
  /\ UNCHANGED <<artifacts, detected, attached, approved, userEdits, quiet>>

\* ApplyClient: apply and uninstall of a client plan again and demand the hash
\* of the plan just made.
ApplyClient ==
  /\ op.pc = "hash"
  /\ LET plan == clientPlan(op.cmd, Head(op.todo), artifacts)
     IN IF readable(artifacts) /\ ~plan.conflict /\ plan.ops = op.plan
        THEN op' = [op EXCEPT !.pc = "check", !.ops = plan.ops, !.plan = <<>>]
        ELSE Finish("failed")
  /\ UNCHANGED <<artifacts, detected, attached, approved, userEdits, quiet>>

\* CheckFile: the last look at the file (and, before a shared file is deleted,
\* at the files that refer to it).
CheckFile ==
  /\ op.pc = "check" /\ op.ops # <<>>
  /\ LET o == Head(op.ops)
         stop == /\ op.cmd = "uninstall" /\ o.kind = "delete" /\ o.path \in Shared
                 /\ stillRequired(Head(op.todo), artifacts)
     IN IF artifacts[o.path] = o.expected /\ ~stop
        THEN op' = [op EXCEPT !.pc = "commit", !.racy = FALSE]
        ELSE Finish("failed")
  /\ UNCHANGED <<artifacts, detected, attached, approved, userEdits, quiet>>

CommitFile_Renames ==
  /\ op.pc = "commit"
  /\ LET o == Head(op.ops)
     IN /\ artifacts' = [artifacts EXCEPT ![o.path] = o.next]
        /\ op' = [op EXCEPT !.pc = "check", !.ops = Tail(@)]
  /\ UNCHANGED <<detected, attached, approved, userEdits, quiet>>

\* CommitFile: a new file is linked, which fails if one appeared meanwhile; an
\* update renames over, a deletion unlinks (and fails if it is gone).
CommitFile ==
  /\ op.pc = "commit"
  /\ LET o == Head(op.ops)
         lost == \/ o.kind = "create" /\ exists(artifacts[o.path])
                 \/ o.kind = "delete" /\ ~exists(artifacts[o.path])
     IN IF lost
        THEN Finish("failed") /\ UNCHANGED artifacts
        ELSE /\ artifacts' = [artifacts EXCEPT ![o.path] = o.next]
             /\ op' = [op EXCEPT !.pc = "check", !.ops = Tail(@)]
  /\ UNCHANGED <<detected, attached, approved, userEdits, quiet>>

\* FileError: the file system refuses.
FileError ==
  /\ op.pc = "commit"
  /\ Finish("failed")
  /\ quiet' = FALSE
  /\ UNCHANGED <<artifacts, detected, attached, approved, userEdits>>

NextClient_DetachesAtOnce ==
  /\ op.pc = "check" /\ op.ops = <<>>
  /\ LET rest == Tail(op.todo)
     IN op' = [op EXCEPT !.todo = rest,
                 !.pc = IF op.cmd = "uninstall" THEN "detach" ELSE IF rest # <<>> THEN "plan" ELSE "done"]
  /\ UNCHANGED <<artifacts, detected, attached, approved, userEdits, quiet>>

\* NextClient: the client's operations are done.
NextClient ==
  /\ op.pc = "check" /\ op.ops = <<>>
  /\ LET rest == Tail(op.todo)
     IN op' = [op EXCEPT !.todo = rest,
                 !.pc = IF rest # <<>> THEN "plan" ELSE IF op.cmd = "install" THEN "done" ELSE "detach"]
  /\ UNCHANGED <<artifacts, detected, attached, approved, userEdits, quiet>>

\* Detach: with every client's files gone, the association goes.
Detach ==
  /\ op.pc = "detach"
  /\ attached' = FALSE
  /\ Finish("done")
  /\ UNCHANGED <<artifacts, detected, approved, userEdits, quiet>>

\* Answer: the command's result is reported; the approval is used up.
AnswerLifecycle ==
  /\ op.pc \in {"done", "failed"}
  /\ op' = NoCommand
  /\ approved' = NoApproval
  /\ UNCHANGED <<artifacts, detected, attached, userEdits, quiet>>

ClientNext ==
  \/ \E p \in Paths : \E f \in userForms(p, artifacts[p]) : Edit(p, f)
  \/ OfficeChanges \/ InstallBegin \/ UninstallPlan \/ UninstallBegin
  \/ PlanClient \/ ApplyClient \/ CheckFile \/ CommitFile \/ FileError
  \/ NextClient \/ Detach \/ AnswerLifecycle

ClientSpec == ClientInit /\ [][ClientNext]_clientVars

(***************************************************************************)
(* Properties.                                                             *)
(***************************************************************************)
\* No step of AI Office loses the user's words, in whatever order edits and
\* the two commands interleave, except an edit that falls between the last
\* look at a file and the rename or unlink; a file that did not exist is
\* created without any such gap (local-agent-client-files.ts, apply).
UserTextKept ==
  \A p \in Paths :
     (artifacts'[p].text # artifacts[p].text /\ userEdits' = userEdits) =>
        /\ op.racy
        /\ op.ops[1].kind # "create"

\* Shared guidance is never deleted from under a file that refers to it: an
\* AGENTS.md of the user's, a CLAUDE.md that still imports it (adapters.ts,
\* the apply of both clients).
SharedOutlivesHosts ==
  \A p \in Shared :
     (exists(artifacts[p]) /\ ~exists(artifacts'[p]) /\ userEdits' = userEdits /\ ~op.racy) =>
        /\ ~importsShared(artifacts)
        /\ ~isUserOwnedCodexHost(artifacts["pointer"])

\* A checkout is detached only when no file of AI Office's is left but the
\* shared ones a user's file refers to; a failure before that keeps the
\* association, so a new plan can finish the work (uninstall).
DetachedIsClean ==
  (op.cmd = "uninstall" /\ op.pc = "done" /\ quiet) =>
     /\ ~attached
     /\ approved.installed =>
          \A p \in Paths :
             isManaged(artifacts[p]) \/ artifacts[p].class \in {"merged", "mergedStale", "legacy"} =>
                p \in Shared /\ (importsShared(artifacts) \/ isUserOwnedCodexHost(artifacts["pointer"]))

\* An install nobody disturbed leaves every client it was for configured, or
\* in the hands of the user (install, clientStatus).
InstalledIsConfigured ==
  (op.cmd = "install" /\ op.pc = "done" /\ quiet) =>
     /\ attached
     /\ \A c \in AgentClients :
          c \in detected \/ hasManagedClientState(c, artifacts) =>
             clientStatus(c, artifacts, c \in detected) \in {"configured", "unmanaged"}

\* What holds of the managed files when a command has ended.
ClientSafety == ClientTypeOK /\ DetachedIsClean /\ InstalledIsConfigured

\* "preflights an exact lifecycle plan, removes managed client artifacts in
\* dependency order, and detaches" (docs/architecture/storage.md): an approved
\* uninstall that nothing disturbs completes.
QuietUninstallCompletes ==
  (op.cmd = "uninstall" /\ op.pc = "failed" /\ quiet) => bridgeKind(approved.files) = "conflict"
=============================================================================
