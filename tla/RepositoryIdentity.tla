-------------------------- MODULE RepositoryIdentity --------------------------
(***************************************************************************)
(* Which project a checkout belongs to.  A checkout carries a portable     *)
(* identity (.ai-office/project.json), which users commit, clone and copy; *)
(* the runtime keeps the mapping of identities to projects and of paths to *)
(* projects.  `install` reconciles the three in several writes, none of    *)
(* which is rolled back; `project:import`, `uninstall` and status read or  *)
(* change the same rows.                                                   *)
(***************************************************************************)
EXTENDS Naturals, Sequences, FiniteSets, Functions

CONSTANTS Checkouts,    \* canonical checkout paths
          CheckoutRemote, \* [Checkouts -> remote or NoRemote]: the Git remote scanned there
          MaxProjects,  \* projects (and fresh identities) ever created
          MaxChanges    \* what users do to binding files

ASSUME IdentityAssumption == MaxProjects \in Nat \ {0} /\ MaxChanges \in Nat

NoRemote == "no remote"
None == 0               \* no project
NoId == <<"none", 0>>
ProjectIds == 1 .. MaxProjects

\* repository identities: drawn at random, derived from an imported project's
\* id, or from the project a legacy binding names
RandomId(n) == <<"random", n>>
ImportedId(p) == <<"imported", p>>
repositoryIdFromLegacyProjectId(p) == <<"legacy", p>>

VARIABLES identityFile, \* [Checkouts -> binding file]
          projects,   \* number of projects created
          sources,    \* project_source: [Checkouts -> project or None]
          detached,   \* project_checkout_detachment
          rootEntry,  \* [Checkouts -> project or None]: the oldest lookup without a source row
          identity,   \* project_repository_identity: set of <<identity, project>>
          offices,    \* projects with an office manifest
          drawn,      \* random identities so far
          work,       \* the install under way
          changes     \* what users did to binding files
identityVars == <<identityFile, projects, sources, detached, rootEntry, identity, offices,
                  drawn, work, changes>>

NoBinding == [status |-> "missing", id |-> NoId, project |-> None]
V2(id) == [status |-> "valid", id |-> id, project |-> None]
V1(p)  == [status |-> "legacy", id |-> NoId, project |-> p]
Broken == [status |-> "invalid", id |-> NoId, project |-> None]
NoWork == [pc |-> "idle", root |-> "nowhere", id |-> NoId, project |-> None, seen |-> NoBinding]

IdentityTypeOK ==
  /\ \A r \in Checkouts : identityFile[r].status \in {"missing", "valid", "legacy", "invalid"}
  /\ projects \in 0 .. MaxProjects
  /\ sources \in [Checkouts -> ProjectIds \cup {None}]
  /\ detached \subseteq Checkouts
  /\ \A x \in identity : x[2] \in 1 .. projects
  /\ offices \subseteq 1 .. projects
  /\ work.pc \in {"idle", "associate", "office", "write", "done"}

\* One checkout may come from before project_source existed: the project is
\* found by its description or by a profile entry.
IdentityInit ==
  /\ \E old \in BOOLEAN, r0 \in Checkouts :
       /\ projects = IF old THEN 1 ELSE 0
       /\ rootEntry = [r \in Checkouts |-> IF old /\ r = r0 THEN 1 ELSE None]
       /\ \E v1 \in BOOLEAN :
            identityFile = [r \in Checkouts |-> IF old /\ v1 /\ r = r0 THEN V1(1) ELSE NoBinding]
  /\ sources = [r \in Checkouts |-> None]
  /\ detached = {} /\ identity = {} /\ offices = {}
  /\ drawn = 0 /\ work = NoWork /\ changes = 0

(***************************************************************************)
(* Lookups.                                                                *)
(***************************************************************************)
findProjectId(id) == IF \E x \in identity : x[1] = id
                     THEN (CHOOSE x \in identity : x[1] = id)[2] ELSE None
findRepositoryId(p) == IF \E x \in identity : x[2] = p
                       THEN (CHOOSE x \in identity : x[2] = p)[1] ELSE NoId

\* findProjectIdByLocalPath: a detached path has no project; else its source
\* row, else what the first layout recorded
findProjectIdByLocalPath(r) ==
  IF r \in detached THEN None ELSE IF sources[r] # None THEN sources[r] ELSE rootEntry[r]

\* repositoryIdFor and the lookups that follow it in install
repositoryIdFor(r, rebind) ==
  LET b == identityFile[r]
      atPath == findProjectIdByLocalPath(r)
      known(p) == p # None /\ findRepositoryId(p) # NoId
      drawnId == RandomId(drawn + 1)
  IN CASE ~rebind /\ b.status = "valid"  -> b.id
       [] ~rebind /\ b.status = "legacy" -> IF known(b.project) THEN findRepositoryId(b.project)
                                            ELSE repositoryIdFromLegacyProjectId(b.project)
       [] OTHER -> IF known(atPath) THEN findRepositoryId(atPath) ELSE drawnId

sourcesOf(p) == {r \in Checkouts : sources[r] = p}

checkoutVerified_AnyRemote(r, p) == TRUE

\* A further checkout of a project must show a remote the project already has.
checkoutVerified(r, p) ==
  sourcesOf(p) = {} \/
     (CheckoutRemote[r] # NoRemote /\ \E s \in sourcesOf(p) : CheckoutRemote[s] = CheckoutRemote[r])

(***************************************************************************)
(* Writes.                                                                 *)
(***************************************************************************)
\* associate: INSERT ... ON CONFLICT DO NOTHING, then look who is there
associate(id, p) ==
  IF \A x \in identity : x[1] # id /\ x[2] # p
  THEN [result |-> "created", rows |-> identity \cup {<<id, p>>}]
  ELSE [result |-> IF <<id, p>> \in identity THEN "existing" ELSE "conflict", rows |-> identity]

\* saveSource: the path counts again; an existing row keeps its project
saveSource(r, p) ==
  /\ detached' = detached \ {r}
  /\ sources' = [sources EXCEPT ![r] = IF @ = None THEN p ELSE @]

\* Import: ImportProject.execute in one transaction, for a known project or a
\* new one
Import(r, p, id) ==
  IF p # None
  THEN /\ saveSource(r, p)
       /\ UNCHANGED <<projects, identity>>
  ELSE /\ projects' = projects + 1
       /\ saveSource(r, projects + 1)
       /\ identity' = associate(id, projects + 1).rows

(***************************************************************************)
(* install.                                                                *)
(***************************************************************************)
\* InstallResolve: find the identity and the project of the checkout, refusing
\* an invalid file, an identity of another project and a checkout that cannot
\* be verified; import what is new.
InstallResolve(r, rebind) ==
  /\ work.pc = "idle"
  /\ identityFile[r].status # "invalid"
  /\ drawn < MaxProjects + 1
  /\ LET id == repositoryIdFor(r, rebind)
         atPath == findProjectIdByLocalPath(r)
         byIdentity == findProjectId(id)
         \* a legacy binding's project counts when this runtime knows it
         legacy == IF ~rebind /\ identityFile[r].status = "legacy" /\ identityFile[r].project <= projects
                   THEN identityFile[r].project ELSE None
         project == IF byIdentity # None THEN byIdentity ELSE IF atPath # None THEN atPath ELSE legacy
         imports == atPath = None
     IN /\ ~(atPath # None /\ byIdentity # None /\ atPath # byIdentity)
        /\ imports /\ project # None => checkoutVerified(r, project)
        /\ project = None => projects < MaxProjects
        /\ drawn' = IF id = RandomId(drawn + 1) THEN drawn + 1 ELSE drawn
        /\ IF imports THEN Import(r, project, id)
           ELSE UNCHANGED <<projects, sources, detached, identity>>
        /\ work' = [pc |-> "associate", root |-> r, id |-> id,
                    project |-> IF project = None THEN projects + 1 ELSE project, seen |-> identityFile[r]]
  /\ UNCHANGED <<identityFile, rootEntry, offices, changes>>

\* InstallAssociate: a conflicting identity ends the install.
InstallAssociate ==
  /\ work.pc = "associate"
  /\ LET a == associate(work.id, work.project)
     IN /\ identity' = a.rows
        /\ work' = IF a.result = "conflict" THEN NoWork ELSE [work EXCEPT !.pc = "office"]
  /\ UNCHANGED <<identityFile, projects, sources, detached, rootEntry, offices, drawn, changes>>

\* InstallOffice: a project without a manifest gets the default one.
InstallOffice ==
  /\ work.pc = "office"
  /\ offices' = offices \cup {work.project}
  /\ work' = [work EXCEPT !.pc = "write"]
  /\ UNCHANGED <<identityFile, projects, sources, detached, rootEntry, identity, drawn, changes>>

\* InstallWrite: planWrite and applyWrite of the identity file; an invalid
\* file ends the install.
InstallWrite ==
  /\ work.pc = "write"
  /\ LET b == identityFile[work.root]
     IN IF b.status = "invalid"
        THEN work' = NoWork /\ UNCHANGED identityFile
        ELSE /\ identityFile' = [identityFile EXCEPT ![work.root] = V2(work.id)]
             /\ work' = [work EXCEPT !.pc = "done", !.seen = V2(work.id)]
  /\ UNCHANGED <<projects, sources, detached, rootEntry, identity, offices, drawn, changes>>

\* InstallFails: a later step fails or the host stops; nothing is rolled back.
InstallFails ==
  /\ work.pc \in {"associate", "office", "write"}
  /\ work' = NoWork
  /\ UNCHANGED <<identityFile, projects, sources, detached, rootEntry, identity, offices, drawn, changes>>

InstallDone ==
  /\ work.pc = "done"
  /\ work' = NoWork
  /\ UNCHANGED <<identityFile, projects, sources, detached, rootEntry, identity, offices, drawn, changes>>

(***************************************************************************)
(* Other commands.                                                         *)
(***************************************************************************)
\* ProjectImport: project:import of a path, known or new.
ProjectImport(r) ==
  /\ work.pc = "idle"
  /\ LET p == findProjectIdByLocalPath(r)
     IN /\ p = None => projects < MaxProjects
        /\ Import(r, p, ImportedId(projects + 1))
  /\ UNCHANGED <<identityFile, rootEntry, offices, drawn, work, changes>>

\* the association status reports
associationState(r) ==
  LET b == identityFile[r]
      byIdentity == IF b.status = "legacy" THEN b.project
                    ELSE IF b.status = "valid" THEN findProjectId(b.id) ELSE None
      atPath == findProjectIdByLocalPath(r)
      project == IF byIdentity # None THEN byIdentity ELSE atPath
  IN IF b.status \in {"missing", "invalid"} THEN "missing"
     ELSE IF project # None /\ project > projects THEN "project_missing"
     ELSE IF byIdentity # None /\ atPath # None /\ byIdentity # atPath THEN "conflicting"
     ELSE IF byIdentity # None /\ byIdentity = atPath THEN "valid" ELSE "missing"

\* RemoveSource: the last step of an uninstall (the files are ClientArtifacts');
\* the identity file and its mapping stay.
RemoveSource(r) ==
  /\ work.pc = "idle"
  /\ associationState(r) = "valid"
  /\ sources[r] = findProjectIdByLocalPath(r)
  /\ sources' = [sources EXCEPT ![r] = None]
  /\ detached' = detached \cup {r}
  /\ UNCHANGED <<identityFile, projects, rootEntry, identity, offices, drawn, work, changes>>

\* A user copies a checkout's file, clones one that was committed elsewhere,
\* damages or removes it.
Foreign == <<"foreign", 0>>
Change(r, b) ==
  /\ changes < MaxChanges
  /\ b # identityFile[r]
  /\ identityFile' = [identityFile EXCEPT ![r] = b]
  /\ changes' = changes + 1
  /\ UNCHANGED <<projects, sources, detached, rootEntry, identity, offices, drawn, work>>

IdentityNext ==
  \/ \E r \in Checkouts, rebind \in BOOLEAN : InstallResolve(r, rebind)
  \/ InstallAssociate \/ InstallOffice \/ InstallWrite \/ InstallFails \/ InstallDone
  \/ \E r \in Checkouts : ProjectImport(r) \/ RemoveSource(r)
  \/ \E r \in Checkouts, b \in Range(identityFile) \cup {NoBinding, Broken, V2(Foreign)} : Change(r, b)

IdentitySpec == IdentityInit /\ [][IdentityNext]_identityVars

(***************************************************************************)
(* Properties.                                                             *)
(***************************************************************************)
\* An install that ran to its end leaves what status calls a valid association
\* (unless a user changed the identity file meanwhile), whatever partial
\* installs, copies, imports and detachments came before.
InstalledIsValid ==
  (work.pc = "done" /\ identityFile[work.root] = work.seen) =>
     /\ associationState(work.root) = "valid"
     /\ work.project \in offices

\* A path changes its project only by way of a detachment: neither a copied
\* identity file nor a rebind takes a checkout away from its project.
NoHijack ==
  \A r \in Checkouts : (sources[r] # None /\ sources'[r] # sources[r]) => r \in detached'

\* Two checkouts share a project only as clones of one remote: a copied
\* directory never joins a project silently (import-project.ts).  The check
\* reads source rows: a project of the first layout, which has none, is not
\* protected by it.
CopiesStayApart ==
  \A r, s \in Checkouts :
     (/\ r # s /\ sources[r] # None /\ sources[r] = sources[s]
      /\ \A q \in Checkouts : rootEntry[q] # sources[r]) =>
        CheckoutRemote[r] = CheckoutRemote[s] /\ CheckoutRemote[r] # NoRemote

\* A detached path counts again only with a source row of its own, and an
\* install that goes by its identity file finds the project it had: no mapping
\* is ever forgotten (migration 0019: a detached path "must not be
\* rediscovered").
DetachedReturns ==
  /\ identity \subseteq identity'
  /\ \A r \in detached \ detached' :
       LET p == findProjectId(identityFile[r].id)
       IN  /\ sources'[r] # None
           /\ work'.pc = "associate" /\ work'.id = identityFile[r].id /\ p # None => sources'[r] = p

\* What holds of checkouts and the projects they belong to.
IdentitySafety == IdentityTypeOK /\ InstalledIsValid /\ CopiesStayApart
=============================================================================
