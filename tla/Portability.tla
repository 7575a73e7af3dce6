----------------------------- MODULE Portability -----------------------------
(***************************************************************************)
(* project:backup and project:restore between runtime hosts that share     *)
(* nothing but archive files.  A backup observes the project in one        *)
(* transaction, records a revision when the state changed, and publishes   *)
(* the archive afterwards.  A restore inspects the target checkout first,  *)
(* commits the state, the identity and the revision in one transaction,    *)
(* and reconciles the binding file last; edits, agent runs and other       *)
(* restores happen in between.                                             *)
(*                                                                         *)
(* One logical project; revision identifiers are globally unique, so the   *)
(* creation time that travels with one is determined by it.  A checksum is *)
(* the state it was taken of.                                              *)
(***************************************************************************)
EXTENDS PortableSnapshot

CONSTANTS
    Hosts,          \* the runtime hosts
    Roots,          \* the checkouts
    HostOf,         \* the host a checkout is on
    FirstRoot,      \* the checkout the project was installed in
    InitialAnchors, \* the identity files the checkouts may begin with
    RemoteOf,       \* the Git remote of a checkout, or "none"
    Installed,      \* the hosts on which the bound packs are installed
    Files,          \* the archive paths
    LegacyArchives, \* archives that earlier versions of the office wrote
    EditFeatures,   \* the definition features an edit may add
    Colliding,      \* the features that the bound packs' closure forbids
    NoProject, NoFile, NoJob,
    MaxEdits,       \* bound: edits and runs, over all hosts
    MaxRevisions    \* bound: revisions

ASSUME PortabilityAssumption ==
    /\ HostOf \in [Roots -> Hosts] /\ FirstRoot \in Roots /\ Installed \subseteq Hosts
    /\ EditFeatures \subseteq DefinitionFeatures
    /\ MaxEdits \in Nat /\ MaxRevisions \in Nat
    /\ NoProject \notin ProjectRows

\* Identifiers are not drawn twice: what earlier versions wrote has the first
\* one; it says that a task never ran only of tasks that did not.
ASSUME LegacyAssumption ==
    \A a \in LegacyArchives :
        /\ a.version \in FormatVersions /\ a.id = 1 /\ a.state \in PortableStates
        /\ \A t \in PTasks : a.state.history # Absent /\ a.state.history[t] = "never"
                                  => t \notin a.ran

VARIABLES
    rows,       \* the project's rows on a host, or NoProject
    running,    \* the tasks with an active run, pipeline or lock on a host
    revisions,  \* the project_state_revision rows of a host
    head,       \* the head revision of a host; 0 when it has none
    registered, \* what the path of a checkout is registered to
    anchor,     \* the identity in the checkout's project.json
    files,      \* the archive at a path
    publishing, \* the archive a host is writing, past its existence check
    restoring,  \* the restore in progress on a checkout
    nextRevision,
    edits,      \* edits so far
    ran,        \* history: the tasks ever executed in a host's copy
    imported    \* history: the archive a host's copy came from, unedited since

portabilityVars == <<rows, running, revisions, head, registered, anchor, files,
    publishing, restoring, nextRevision, edits, ran, imported>>

Ours == "ours"
Other == "other"
Nothing == "none"

NewRows == [status |-> [t \in PTasks |-> "pending"], runs |-> {},
            reviews |-> [t \in PTasks |-> NoReview], archived |-> FALSE, links |-> {},
            edges |-> {}, history |-> [t \in PTasks |-> "never"],
            packs |-> FALSE, defs |-> {}]

\* The project is installed in FirstRoot; any other checkout may be a clone that
\* has the identity, a registered checkout of another project, or have a broken
\* identity file or none.
PortabilityInit ==
    /\ \E bound \in BOOLEAN :
          rows = [h \in Hosts |-> IF h = HostOf[FirstRoot]
                                  THEN [NewRows EXCEPT !.packs = bound] ELSE NoProject]
    /\ anchor \in InitialAnchors
    /\ registered = [r \in Roots |-> IF r = FirstRoot THEN Ours
                        ELSE IF anchor[r] = Other THEN Other ELSE Nothing]
    /\ running = [h \in Hosts |-> {}]
    /\ revisions = [h \in Hosts |-> {}]
    /\ head = [h \in Hosts |-> 0]
    /\ \E f \in Files, a \in LegacyArchives \union {NoFile} :
            files = [x \in Files |-> IF x = f THEN a ELSE NoFile]
    /\ publishing = [h \in Hosts |-> NoJob]
    /\ restoring = [r \in Roots |-> NoJob]
    /\ nextRevision = 2
    /\ edits = 0
    /\ ran = [h \in Hosts |-> {}]
    /\ imported = [h \in Hosts |-> NoFile]

-----------------------------------------------------------------------------
(* What happens to the project between backups *)

Edited(h) ==
    /\ rows[h] # NoProject /\ edits < MaxEdits
    /\ edits' = edits + 1
    /\ imported' = [imported EXCEPT ![h] = NoFile]
    /\ UNCHANGED <<revisions, head, registered, anchor, files, publishing,
                   restoring, nextRevision>>

\* A prerequisite may be added only to a task known never to have executed.
AddDependency(h) ==
    /\ Edited(h)
    /\ rows[h].history["t2"] = "never"
    /\ rows' = [rows EXCEPT ![h].edges = {<<"t2", "t1">>}]
    /\ UNCHANGED <<running, ran>>

\* Governance and configuration edits.
EditDefinitions(h, f) ==
    /\ Edited(h)
    /\ rows' = [rows EXCEPT ![h].defs = @ \union {f}]
    /\ UNCHANGED <<running, ran>>

BindPacks(h) ==
    /\ Edited(h)
    /\ rows' = [rows EXCEPT ![h].packs = TRUE]
    /\ UNCHANGED <<running, ran>>

ArchiveMilestone(h) ==
    /\ Edited(h)
    /\ rows' = [rows EXCEPT ![h].archived = TRUE, ![h].links = {"t1"}]
    /\ UNCHANGED <<running, ran>>

\* A run starts: from here on the task has executed.
StartRun(h, t) ==
    /\ Edited(h)
    /\ t \notin running[h] /\ t \notin rows[h].runs
    /\ <<"t2", "t1">> \in rows[h].edges /\ t = "t2" => rows[h].status["t1"] = "completed"
    /\ rows' = [rows EXCEPT ![h].status[t] = "running", ![h].history[t] = "executed"]
    /\ running' = [running EXCEPT ![h] = @ \union {t}]
    /\ ran' = [ran EXCEPT ![h] = @ \union {t}]

\* The run ends and its task completes; a review of the run may stand.
EndRun(h, t, review) ==
    /\ rows[h] # NoProject /\ t \in running[h]
    /\ rows' = [rows EXCEPT ![h].status[t] = "completed", ![h].runs = @ \union {t},
                            ![h].reviews[t] = [status |-> review, approval |-> review = "decided"]]
    /\ running' = [running EXCEPT ![h] = @ \ {t}]
    /\ imported' = [imported EXCEPT ![h] = NoFile]
    /\ UNCHANGED <<revisions, head, registered, anchor, files, publishing,
                   restoring, nextRevision, edits, ran>>

-----------------------------------------------------------------------------
(* Revisions *)

revision(id, parent, checksum, origin) ==
    [id |-> id, parent |-> parent, checksum |-> checksum, origin |-> origin]

\* The revisions reached from one by following parents that the host knows.
assertValidParentLineage(h, rev) ==
    LET ancestors[n \in 0..MaxRevisions] ==
            IF n = 0 THEN {rev.parent}
            ELSE ancestors[n - 1] \union
                 {r.parent : r \in {x \in revisions[h] : x.id \in ancestors[n - 1]}}
    IN  rev.id \notin ancestors[MaxRevisions]

\* A revision row that exists already must say the same; its origin is the
\* one it was stored with.
saveRevisionAccepts(h, rev) ==
    /\ assertValidParentLineage(h, rev)
    /\ \A r \in revisions[h] : r.id = rev.id =>
            r.parent = rev.parent /\ r.checksum = rev.checksum

\* A rewritten revision replaces the stored one.
savedRevisions_Replaces(h, rev) ==
    [revisions EXCEPT ![h] = {r \in @ : r.id # rev.id} \union
        {[rev EXCEPT !.parent = IF rev.origin = "portable_import" THEN head[h] ELSE @]}]

savedRevisions(h, rev) ==
    [revisions EXCEPT ![h] =
        IF \E r \in @ : r.id = rev.id THEN @ ELSE @ \union {rev}]

headRevision(h) == CHOOSE r \in revisions[h] : r.id = head[h]

\* No backup while a run, a pipeline or an unexpired lock is there.
findPortabilityBlockers(h) == running[h]

\* A network remote is recorded only when all checkouts agree on it.
selectPortableGitProvenance(h) ==
    LET remotes == {RemoteOf[r] : r \in {x \in Roots : HostOf[x] = h /\ registered[x] = Ours}}
                        \ {Nothing}
    IN  IF Cardinality(remotes) = 1 THEN CHOOSE x \in remotes : TRUE ELSE Nothing

archive(version, rev, remote, state, wasRun) ==
    [version |-> version, id |-> rev.id, parent |-> rev.parent, remote |-> remote,
     state |-> state, ran |-> wasRun]

\* One transaction: an unchanged state reuses the head, a changed one becomes
\* its child; the archive is built and accepted before the revision is saved.
\* The adapter then finds its path free.
Backup(h, f) ==
    /\ rows[h] # NoProject /\ publishing[h] = NoJob /\ files[f] = NoFile
    /\ findPortabilityBlockers(h) = {}
    /\ LET state == loadPortableState(rows[h])
           same == head[h] # 0 /\ headRevision(h).checksum = state
           rev == IF same THEN headRevision(h)
                  ELSE revision(nextRevision, head[h], state, "local_snapshot")
           version == portableProjectFormatVersionFor(state)
       IN  /\ same \/ nextRevision <= MaxRevisions
           /\ createPortableProjectArchive(version, state)
           /\ publishing' = [publishing EXCEPT ![h] =
                [path |-> f, archive |-> archive(version, rev,
                    selectPortableGitProvenance(h), state, ran[h])]]
           /\ IF same THEN UNCHANGED <<revisions, head, nextRevision>>
              ELSE /\ saveRevisionAccepts(h, rev)
                   /\ revisions' = savedRevisions(h, rev)
                   /\ head' = [head EXCEPT ![h] = rev.id]
                   /\ nextRevision' = nextRevision + 1
    /\ UNCHANGED <<rows, running, registered, anchor, files, restoring, edits,
                   ran, imported>>

\* The private temporary file is written and synced, and a hard link gives it
\* its name: the link fails when the path has been taken meanwhile.
Publish(h) ==
    /\ publishing[h] # NoJob
    /\ files' = [files EXCEPT ![publishing[h].path] =
                    IF @ = NoFile THEN publishing[h].archive ELSE @]
    /\ publishing' = [publishing EXCEPT ![h] = NoJob]
    /\ UNCHANGED <<rows, running, revisions, head, registered, anchor, restoring,
                   nextRevision, edits, ran, imported>>

\* Writing the temporary file fails, or the host stops before the link.
PublishFails(h) ==
    /\ publishing[h] # NoJob
    /\ publishing' = [publishing EXCEPT ![h] = NoJob]
    /\ UNCHANGED <<rows, running, revisions, head, registered, anchor, files,
                   restoring, nextRevision, edits, ran, imported>>

-----------------------------------------------------------------------------
(* Restore *)

\* Judged only where the exact pack closure resolves.
assertArchiveComposition(h, a) ==
    ~ (/\ a.state.packs = TRUE /\ h \in Installed
       /\ a.state.defs # Absent /\ a.state.defs \cap Colliding # {})

\* The checkout's own evidence: its identity file, its remote, its path, and,
\* for a further checkout of a known project, a remote in common.
checkoutAccepted(h, r, a) ==
    LET known == {RemoteOf[x] : x \in {y \in Roots : HostOf[y] = h /\ registered[y] = Ours}}
    IN  /\ anchor[r] \in {Ours, Nothing}
        /\ anchor[r] = Nothing /\ a.remote # Nothing => RemoteOf[r] = a.remote
        /\ registered[r] # Other
        /\ rows[h] # NoProject /\ registered[r] = Nothing =>
              \/ known \ {Nothing} # {} /\ RemoteOf[r] \in known \ {Nothing}
              \/ known = {}

\* The checks before the transaction; what they saw is kept.
StartRestore(r, f) ==
    LET h == HostOf[r] a == files[f]
    IN  /\ files[f] # NoFile /\ restoring[r] = NoJob
        /\ parsePortableProjectArchive(a)
        /\ checkoutAccepted(h, r, a)
        /\ rows[h] = NoProject => assertArchiveComposition(h, a)
        /\ restoring' = [restoring EXCEPT ![r] =
              [archive |-> a, known |-> rows[h] # NoProject, step |-> "checked"]]
        /\ UNCHANGED <<rows, running, revisions, head, registered, anchor, files,
                       publishing, nextRevision, edits, ran, imported>>

\* A known project takes an archive whose state is its own and whose head is
\* its own head, or any head when it has none.
localMatches(h, a) ==
    /\ portableStateAtFormatVersion(loadPortableState(rows[h]), a.version) = a.state
    /\ head[h] # 0 => head[h] = a.id /\ headRevision(h).parent = a.parent

importedRevision(a) == revision(a.id, a.parent, a.state, "portable_import")

\* The transaction: a new project with its identity, rows, source and head, or
\* a source for the known project whose state the archive has.
restoreCreates(h, a) ==
    /\ rows[h] = NoProject
    /\ restorePortableState(a.state) /\ saveRevisionAccepts(h, importedRevision(a))
    /\ rows' = [rows EXCEPT ![h] = restoredRows(a.state)]
    /\ ran' = [ran EXCEPT ![h] = a.ran]
    /\ imported' = [imported EXCEPT ![h] = a]
    /\ revisions' = savedRevisions(h, importedRevision(a))
    /\ head' = [head EXCEPT ![h] = a.id]

restoreAttaches(h, a) ==
    /\ localMatches(h, a)
    /\ UNCHANGED <<rows, ran, imported>>
    /\ IF head[h] # 0 THEN UNCHANGED <<revisions, head>>
       ELSE /\ saveRevisionAccepts(h, importedRevision(a))
            /\ revisions' = savedRevisions(h, importedRevision(a))
            /\ head' = [head EXCEPT ![h] = a.id]

CommitRestore(r) ==
    LET job == restoring[r] h == HostOf[r]
    IN  /\ job # NoJob /\ job.step = "checked"
        /\ IF job.known THEN restoreAttaches(h, job.archive)
           ELSE restoreCreates(h, job.archive)
        /\ registered' = [registered EXCEPT ![r] = Ours]
        /\ restoring' = [restoring EXCEPT ![r].step = "committed"]
        /\ UNCHANGED <<running, anchor, files, publishing, nextRevision, edits>>

\* The transaction rolls back: the identity appeared meanwhile, the local state
\* or head differs, or a row is refused.
restoreRefused(r) ==
    LET job == restoring[r] h == HostOf[r]
    IN  IF job.known THEN ~localMatches(h, job.archive)
        ELSE rows[h] # NoProject \/ ~restorePortableState(job.archive.state)

RefuseRestore(r) ==
    /\ restoring[r] # NoJob /\ restoring[r].step = "checked" /\ restoreRefused(r)
    /\ restoring' = [restoring EXCEPT ![r] = NoJob]
    /\ UNCHANGED <<rows, running, revisions, head, registered, anchor, files,
                   publishing, nextRevision, edits, ran, imported>>

\* The planned binding is written.
WriteBinding(r) ==
    /\ restoring[r] # NoJob /\ restoring[r].step = "committed"
    /\ anchor' = [anchor EXCEPT ![r] = Ours]
    /\ restoring' = [restoring EXCEPT ![r] = NoJob]
    /\ UNCHANGED <<rows, running, revisions, head, registered, files, publishing,
                   nextRevision, edits, ran, imported>>

\* The file is no longer the one inspected, the write fails, or the host stops
\* first: the restore is partial.
BindingFails(r) ==
    /\ restoring[r] # NoJob /\ restoring[r].step = "committed"
    /\ restoring' = [restoring EXCEPT ![r] = NoJob]
    /\ UNCHANGED <<rows, running, revisions, head, registered, anchor, files,
                   publishing, nextRevision, edits, ran, imported>>

PortabilityNext ==
    \/ \E h \in Hosts :
          \/ AddDependency(h) \/ BindPacks(h) \/ ArchiveMilestone(h)
          \/ \E f \in EditFeatures : EditDefinitions(h, f)
          \/ \E t \in PTasks : StartRun(h, t)
          \/ \E t \in PTasks, v \in {"none", "pending", "decided"} : EndRun(h, t, v)
          \/ \E f \in Files : Backup(h, f)
          \/ Publish(h) \/ PublishFails(h)
    \/ \E r \in Roots :
          \/ \E f \in Files : StartRestore(r, f)
          \/ CommitRestore(r) \/ RefuseRestore(r) \/ WriteBinding(r)
          \/ BindingFails(r)

PortabilitySpec == PortabilityInit /\ [][PortabilityNext]_portabilityVars

-----------------------------------------------------------------------------
(* Properties *)

\* A project on a host has its rows, its head among its revisions, and an
\* unknown project has none of them nor a registered checkout
\* (manage-project-portability.ts, one transaction).
PortabilityTypeOK ==
    \A h \in Hosts :
        IF rows[h] = NoProject
        THEN head[h] = 0 /\ revisions[h] = {} /\ running[h] = {}
             /\ \A r \in Roots : HostOf[r] = h => registered[r] # Ours
        ELSE /\ rows[h] \in ProjectRows
             /\ head[h] # 0 => \E rev \in revisions[h] : rev.id = head[h]

\* A revision identifier means the same parent and the same state on every
\* host and in every archive (saveRevision's conflict check).
RevisionsAgree ==
    LET known == (UNION {revisions[h] : h \in Hosts})
                   \union {importedRevision(files[f]) : f \in {x \in Files : files[x] # NoFile}}
    IN  \A r1, r2 \in known :
            r1.id = r2.id => r1.parent = r2.parent /\ r1.checksum = r2.checksum

\* The state any quiescent project has can be archived at the version the
\* writer picks, no lower version accepts it, and a restore of that archive
\* passes its own comparison (portableProjectFormatVersionFor: "the lowest
\* format version that can express this state without losing anything").
SnapshotsTravel ==
    \A h \in {x \in Hosts : rows[x] # NoProject /\ running[x] = {}} :
        LET state == loadPortableState(rows[h])
            version == portableProjectFormatVersionFor(state)
        IN  /\ createPortableProjectArchive(version, state)
            /\ \A v \in 1..(version - 1) : ~portableProjectStateShape(v, state)
            /\ restorePortableState(state)
            /\ restoredRows(state) = rows[h]

\* A host that says a task never executed is right about the whole lineage of
\* its copy, old archives included: prerequisites stay frozen after execution
\* ("their absent history is unknown on restore").
NeverMeansNever ==
    \A h \in Hosts : rows[h] # NoProject =>
        \A t \in PTasks : rows[h].history[t] = "never" => t \notin ran[h]

\* A copy that nobody has edited since its restore still says what the archive
\* says, and repeating the restore in a registered checkout is accepted while
\* no other revision was recorded ("Repeated restore is idempotent").
RestoreRepeats ==
    \A h \in {x \in Hosts : imported[x] # NoFile} :
        /\ portableStateAtFormatVersion(loadPortableState(rows[h]), imported[h].version)
              = imported[h].state
        /\ head[h] = imported[h].id => localMatches(h, imported[h])

\* A host's project changes only by its own edits and runs: no restore, however
\* it interleaves, replaces rows that are there ("restore will not overwrite").
NoRestoreOverwrites ==
    \A h \in Hosts : rows[h] # NoProject /\ rows'[h] # rows[h] =>
        edits' = edits + 1 \/ running'[h] # running[h]

\* A head moves only from nothing, or to a child of the head before: no archive
\* moves a head, and no backup restarts the lineage.
HeadExtends ==
    \A h \in Hosts : head[h] # 0 /\ head'[h] # head[h] =>
        \E rev \in revisions'[h] : rev.id = head'[h] /\ rev.parent = head[h]

\* A published archive is never replaced or removed (the hard link refuses an
\* existing target).
ArchivesStay ==
    \A f \in Files : files[f] # NoFile => files'[f] = files[f]

\* What holds of copies, revisions and archives on all hosts.
PortabilitySafety ==
    PortabilityTypeOK /\ RevisionsAgree /\ SnapshotsTravel /\ NeverMeansNever /\ RestoreRepeats
=============================================================================
