--------------------------- MODULE PortableSnapshot ---------------------------
(***************************************************************************)
(* The portable snapshot of a project: what a host loads from its database *)
(* for an archive, the eleven format versions an archive may declare, the  *)
(* lowest version that can carry a state, the schema each version accepts, *)
(* the referential closure every state must have, and the rows a restore   *)
(* rebuilds from an archive of any version.                                *)
(*                                                                         *)
(* Abstraction: texts, timestamps and identifiers are dropped.  A section  *)
(* an old format does not have is Absent.  "defs" holds the kinds of       *)
(* definition that need a format of their own; the tasks are the two of    *)
(* PTasks, and a task has at most one terminal run and one review of it.   *)
(***************************************************************************)
EXTENDS Naturals, FiniteSets, TLC

\* The tasks of the project: the second one may depend on the first.
PTasks == {"t1", "t2"}

CONSTANT Absent     \* the value of a section the format does not have

\* Definition entries that need a later format than the section itself.
DefinitionFeatures == {"owned", "role omission", "agent disable",
    "agent references", "workflow override", "vocabulary"}

\* The states an execution-history answer may have.
HistoryStates == {"never", "unknown", "executed"}

\* The review of a terminal run, with the approval row that decides it.
ReviewStates == [status : {"none", "pending", "decided"}, approval : BOOLEAN]
NoReview == [status |-> "none", approval |-> FALSE]

\* The rows a project has in a database; nothing is absent there.
ProjectRows ==
    [status : [PTasks -> {"pending", "running", "completed"}],
     runs : SUBSET PTasks,
     reviews : [PTasks -> ReviewStates],
     archived : BOOLEAN,
     links : SUBSET PTasks,
     edges : SUBSET {<<"t2", "t1">>},
     history : [PTasks -> HistoryStates],
     packs : BOOLEAN,
     defs : SUBSET DefinitionFeatures]

\* The states an archive of any version may carry.
PortableStates ==
    [status : [PTasks -> {"pending", "running", "completed"}],
     runs : SUBSET PTasks,
     reviews : [PTasks -> ReviewStates],
     archived : BOOLEAN,
     links : {Absent} \union SUBSET PTasks,
     edges : {Absent} \union SUBSET {<<"t2", "t1">>},
     history : {Absent} \union [PTasks -> HistoryStates],
     packs : {Absent} \union BOOLEAN,
     defs : {Absent} \union SUBSET DefinitionFeatures]

\* A section that is there is not absent.
ASSUME AbsentAssumption ==
    \A x \in (SUBSET PTasks) \union (SUBSET {<<"t2", "t1">>}) \union BOOLEAN
             \union [PTasks -> HistoryStates] \union SUBSET DefinitionFeatures : x # Absent

\* Reviews of runs that have not ended are left out, and so are their approvals.
portableReviews(rows) ==
    [t \in PTasks |-> IF t \in rows.runs THEN rows.reviews[t] ELSE NoReview]

\* Every task has an answer: a task without a history row never executed.  The
\* other rows of the project are read as they are.
loadPortableState(rows) == [rows EXCEPT !.reviews = portableReviews(rows)]

-----------------------------------------------------------------------------
(* The format versions *)

FormatVersions == 1..11

\* The lowest version that can express a state without losing anything.
portableProjectFormatVersionFor(s) ==
    LET has(features) == s.defs # Absent /\ s.defs \cap features # {}
    IN  CASE s.archived -> 11
          [] ~s.archived /\ has({"vocabulary"}) -> 10
          [] ~s.archived /\ ~has({"vocabulary"}) /\ has({"workflow override"}) -> 9
          [] ~s.archived /\ ~has({"vocabulary", "workflow override"})
             /\ has({"agent disable", "agent references"}) -> 8
          [] ~s.archived /\ ~has(DefinitionFeatures \ {"owned", "role omission"})
             /\ has({"role omission"}) -> 7
          [] ~s.archived /\ s.defs # Absent /\ s.defs \subseteq {"owned"} -> 6
          [] ~s.archived /\ s.defs = Absent ->
                IF s.packs # Absent THEN 5
                ELSE IF s.history # Absent THEN 4
                ELSE IF s.edges \notin {Absent, {}} THEN 3
                ELSE IF s.links \notin {Absent, {}} THEN 2 ELSE 1

\* The format that introduced a section.
SectionSince == [links |-> 2, edges |-> 3, history |-> 4, packs |-> 5, defs |-> 6]

\* The sections a version declares beyond the first version's.
portableProjectContents(version) ==
    {section \in DOMAIN SectionSince : SectionSince[section] <= version}

\* A state as an archive of an older version would show it.
portableStateAtFormatVersion(s, version) ==
    [field \in DOMAIN s |->
        IF field \in DOMAIN SectionSince \ portableProjectContents(version)
        THEN Absent ELSE s[field]]

\* The definition entries that each format's refinement accepts.
portableDefinitionFeatures(version) ==
    {"owned"}
      \union (IF version >= 7 THEN {"role omission"} ELSE {})
      \union (IF version >= 8 THEN {"agent disable", "agent references"} ELSE {})
      \union (IF version >= 9 THEN {"workflow override"} ELSE {})
      \union (IF version >= 10 THEN {"vocabulary"} ELSE {})

\* Strict per version: a section is present exactly from its version on.
portableProjectStateShape(version, s) ==
    /\ \A section \in DOMAIN SectionSince :
            s[section] # Absent <=> section \in portableProjectContents(version)
    /\ s.defs # Absent => s.defs \subseteq portableDefinitionFeatures(version)
    /\ s.archived => version = 11

\* A task in an execution state, or with a run, has executed.
historyCloses(s) ==
    s.history # Absent =>
        \A t \in PTasks : (s.status[t] = "running" \/ t \in s.runs)
                              => s.history[t] = "executed"

\* A review has its subject; a decided one has its one approval, a pending one
\* has none.
reviewsClose(s) ==
    \A t \in PTasks :
        /\ s.reviews[t].status # "none" => t \in s.runs
        /\ s.reviews[t].approval <=> s.reviews[t].status = "decided"

\* Links and edges have both their ends, and the edges have no cycle.
edgesClose(s) ==
    /\ s.links # Absent => s.links \subseteq PTasks
    /\ s.edges # Absent => \A e \in s.edges : <<e[2], e[1]>> \notin s.edges

\* Every reference resolves inside the state.
referentialClosure(s) == historyCloses(s) /\ reviewsClose(s) /\ edgesClose(s)

\* A state is written only at a version that can carry it, and only when the
\* schema of that version accepts it.
createPortableProjectArchive(version, s) ==
    /\ version >= portableProjectFormatVersionFor(s)
    /\ portableProjectStateShape(version, s)
    /\ referentialClosure(s)

\* A file is read only as the version it declares.
parsePortableProjectArchive(a) ==
    portableProjectStateShape(a.version, a.state) /\ referentialClosure(a.state)

-----------------------------------------------------------------------------
(* Rebuilding the rows *)

\* A history that an old archive does not carry is unknown, unless the task
\* is in an execution state or one of its runs proves it: inserting a run
\* makes the history "executed" (the trigger on agent_run).
restoredHistory(s) ==
    [t \in PTasks |->
        IF t \in s.runs THEN "executed"
        ELSE IF s.history # Absent THEN s.history[t]
        ELSE IF s.status[t] = "running" THEN "executed" ELSE "unknown"]

\* A review goes in as pending, and inserting its approval finalizes it.
restoredReviews(s) ==
    [t \in PTasks |->
        IF s.reviews[t].status = "none" THEN NoReview
        ELSE [s.reviews[t] EXCEPT !.status = IF s.reviews[t].approval THEN "decided" ELSE "pending"]]

\* The rows restorePortableState inserts.  Edges go in before the history
\* that would forbid them.
restoredRows(s) ==
    [s EXCEPT !.links = IF @ = Absent THEN {} ELSE @,
              !.edges = IF @ = Absent THEN {} ELSE @,
              !.history = restoredHistory(s), !.reviews = restoredReviews(s),
              !.packs = IF @ = Absent THEN FALSE ELSE @,
              !.defs = IF @ = Absent THEN {} ELSE @]

\* The version at which the reloaded state is compared with the archive.
comparisonVersion(s) ==
    IF s.defs # Absent THEN 6
    ELSE IF s.packs # Absent THEN 5
    ELSE IF s.history # Absent THEN 4
    ELSE IF s.edges # Absent THEN 3
    ELSE IF s.links # Absent THEN 2 ELSE 1

\* The restore commits only when the reloaded rows say what the archive says.
restorePortableState(s) ==
    portableStateAtFormatVersion(loadPortableState(restoredRows(s)),
                                 comparisonVersion(s)) = s
=============================================================================
