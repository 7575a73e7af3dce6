----------------------------- MODULE PagedReads -----------------------------
(***************************************************************************)
(* The list queries of OperationalQueryService over the SQLite read        *)
(* repository while commands keep writing: the task page that projects the *)
(* whole project in batches (queryTaskPage), the activity stream read page *)
(* by page with a keyset cursor, the activity of one run, and the bounded  *)
(* lists beside their totals.                                              *)
(*                                                                         *)
(* A query is atomic between two awaits: the reads of one Promise.all run  *)
(* in one turn of the event loop on the host's only connection.            *)
(***************************************************************************)
EXTENDS Naturals, Sequences, FiniteSets, FiniteSetsExt, SequencesExt

CONSTANTS
  TaskRows,      \* task identifiers, naturals in the order of their creation
  FirstRows,     \* the ones that exist at the start
  Priorities,
  EventIds,      \* random identifiers of audit events, naturals
  RunIds, ReviewIds, PipelineIds,
  BatchSize, ActivityLimit, ListLimit, MaxTime, MaxWrites

ASSUME PagedAssumption ==
  /\ TaskRows \subseteq Nat /\ EventIds \subseteq Nat /\ Priorities \subseteq Nat
  /\ FirstRows \subseteq TaskRows
  /\ {BatchSize, ActivityLimit, ListLimit} \subseteq Nat \ {0}
  /\ MaxTime \in Nat /\ MaxWrites \in Nat

VARIABLES
  taskTable, \* the task table: [priority, terminal] of each created task
  log,       \* audit_event: [at, id, run]
  records,   \* agent_run, review and pipeline_run rows: [kind, id, status, at]
  writes,
  page,      \* a task page being computed
  walk       \* a reader of the activity stream

pagedVars == <<taskTable, log, records, writes, page, walk>>

(******************************** The reads *******************************)
firstOf(s, n) == SubSeq(s, 1, Min({n, Len(s)}))

\* ORDER BY priority DESC, created_at ASC, id ASC.
precedes(s, t) ==
    \/ taskTable[s].priority > taskTable[t].priority
    \/ taskTable[s].priority = taskTable[t].priority /\ s < t
taskOrder == SetToSortSeq(DOMAIN taskTable, precedes)
listTasks(limit, offset) ==
    firstOf(SubSeq(taskOrder, offset + 1, Len(taskOrder)), limit)

newer(e, f) == e.at > f.at \/ (e.at = f.at /\ e.id > f.id)
NoCursor == [at |-> MaxTime + 1, id |-> 0]
\* Fault: the cursor is the instant alone.
listActivity_TimestampOnly(cursor, matching, limit) ==
    firstOf(SetToSortSeq({e \in log : e.run \in matching /\ e.at < cursor.at}, newer), limit)
\* One page after the cursor, in the order of (occurred_at, id) descending.
listActivity(cursor, matching, limit) ==
    firstOf(SetToSortSeq({e \in log : e.run \in matching /\ newer(cursor, e)}, newer), limit)

\* The position of the last entry, or none when the page ended the stream.
nextActivityCursor(found, limit) ==
    IF Len(found) < limit \/ found = <<>> THEN <<>> ELSE <<[at |-> Last(found).at, id |-> Last(found).id]>>

everyAggregate == RunIds \cup {0}
\* getRunDetail: filtered inside the query, before the limit.
runActivity(r) == listActivity(NoCursor, {r}, ActivityLimit)

ofKind(kind, statuses) == {x \in records : x.kind = kind /\ x.status \in statuses}
\* A page and its exact total under the same filter.
boundedPage(items, total) == [items |-> items, total |-> total, truncated |-> Len(items) < total]
\* ORDER BY updated_at (runs) or created_at (reviews, pipelines) DESC.
newestFirst(S) == SetToSortSeq(S, LAMBDA x, y : x.at > y.at \/ (x.at = y.at /\ x.id < y.id))

runStatuses(activeOnly) == IF activeOnly THEN {"active"} ELSE {"active", "ended"}
listRuns(activeOnly) ==
    boundedPage(firstOf(newestFirst(ofKind("run", runStatuses(activeOnly))), ListLimit),
                Cardinality(ofKind("run", runStatuses(activeOnly))))
listReviews(pendingOnly) ==
    LET statuses == IF pendingOnly THEN {"active"} ELSE {"active", "ended"}
    IN  boundedPage(firstOf(newestFirst(ofKind("review", statuses)), ListLimit), Cardinality(ofKind("review", statuses)))
listApprovals ==
    boundedPage(firstOf(newestFirst(ofKind("review", {"ended"})), ListLimit), Cardinality(ofKind("review", {"ended"})))
listPipelineRuns(activeOnly) ==
    boundedPage(firstOf(newestFirst(ofKind("pipeline", runStatuses(activeOnly))), ListLimit),
                Cardinality(ofKind("pipeline", runStatuses(activeOnly))))

(******************************* The writers ******************************)
NoPage == [phase |-> "idle", count |-> 0, cursor |-> 0, listed |-> <<>>, matches |-> <<>>,
           active |-> FALSE, moved |-> FALSE]
NoWalk == [phase |-> "idle", cursor |-> NoCursor, seen |-> <<>>, present |-> {}]

PagedInit ==
    /\ taskTable = [t \in FirstRows |-> [priority |-> Min(Priorities), terminal |-> FALSE]]
    /\ log = {} /\ records = {} /\ writes = 0
    /\ page = NoPage /\ walk = NoWalk

write == writes < MaxWrites /\ writes' = writes + 1
\* The order of the table changes under a page being computed.
disturbed(reading) == [reading EXCEPT !.moved = TRUE]

\* task:create, task:prioritize and the transitions into a terminal status.
CreateRow(t, p) ==
    /\ write /\ t = Cardinality(DOMAIN taskTable) + 1
    /\ taskTable' = [x \in DOMAIN taskTable \cup {t} |->
                  IF x = t THEN [priority |-> p, terminal |-> FALSE] ELSE taskTable[x]]
    /\ page' = disturbed(page)
    /\ UNCHANGED <<log, records, walk>>
Reprioritise(t, p) ==
    /\ write /\ taskTable[t].priority # p
    /\ taskTable' = [taskTable EXCEPT ![t].priority = p]
    /\ page' = disturbed(page)
    /\ UNCHANGED <<log, records, walk>>
EndTask(t) ==
    /\ write /\ ~taskTable[t].terminal
    /\ taskTable' = [taskTable EXCEPT ![t].terminal = TRUE]
    /\ UNCHANGED <<log, records, page, walk>>

\* A command records its event with the instant it read before it committed.
AppendEvent(e, at, r) ==
    /\ write /\ \A x \in log : x.id # e
    /\ log' = log \cup {[at |-> at, id |-> e, run |-> r]}
    /\ UNCHANGED <<taskTable, records, page, walk>>

\* A run, a review or a pipeline run is added, and later ends: a run is
\* updated, the others keep the instant of their creation.
AddRecord(kind, i, at) ==
    /\ write /\ \A x \in records : x.kind # kind \/ x.id # i
    /\ records' = records \cup {[kind |-> kind, id |-> i, status |-> "active", at |-> at]}
    /\ UNCHANGED <<taskTable, log, page, walk>>
EndRecord(x, at) ==
    /\ write /\ x.status = "active" /\ (x.kind # "run" => at = x.at)
    /\ records' = (records \ {x}) \cup {[x EXCEPT !.status = "ended", !.at = at]}
    /\ UNCHANGED <<taskTable, log, page, walk>>

(******************************* The readers ******************************)
\* getProjectDetail counts the tasks, then computes the page in batches.
BeginPage(active) ==
    /\ page.phase = "idle"
    /\ page' = [NoPage EXCEPT !.phase = "reading", !.count = Cardinality(DOMAIN taskTable), !.active = active]
    /\ UNCHANGED <<taskTable, log, records, writes, walk>>
\* One batch, at an offset into the order the table has now.
ReadBatch ==
    /\ page.phase = "reading" /\ page.cursor < page.count
    /\ LET batch == listTasks(BatchSize, page.cursor)
       IN  page' = IF batch = <<>> THEN [page EXCEPT !.phase = "done"]
                   ELSE [page EXCEPT !.cursor = @ + BatchSize, !.listed = @ \o batch,
                           !.matches = @ \o SelectSeq(batch, LAMBDA t : ~(page.active /\ taskTable[t].terminal))]
    /\ UNCHANGED <<taskTable, log, records, writes, walk>>
EndPage ==
    /\ page.phase = "reading" /\ page.cursor >= page.count
    /\ page' = [page EXCEPT !.phase = "done"]
    /\ UNCHANGED <<taskTable, log, records, writes, walk>>

\* The activity stream from its newest entry, and each page after the first.
BeginWalk ==
    /\ walk.phase = "idle"
    /\ walk' = [NoWalk EXCEPT !.phase = "reading", !.present = log]
    /\ UNCHANGED <<taskTable, log, records, writes, page>>
ReadActivityPage ==
    /\ walk.phase = "reading"
    /\ LET found == listActivity(walk.cursor, everyAggregate, ActivityLimit)
           next == nextActivityCursor(found, ActivityLimit)
       IN  walk' = [walk EXCEPT !.seen = @ \o found,
                      !.phase = IF next = <<>> THEN "done" ELSE @,
                      !.cursor = IF next = <<>> THEN @ ELSE next[1]]
    /\ UNCHANGED <<taskTable, log, records, writes, page>>

PagedNext ==
    \/ \E t \in TaskRows, p \in Priorities : CreateRow(t, p)
    \/ \E t \in DOMAIN taskTable, p \in Priorities : Reprioritise(t, p)
    \/ \E t \in DOMAIN taskTable : EndTask(t)
    \/ \E e \in EventIds, at \in 1..MaxTime, r \in everyAggregate : AppendEvent(e, at, r)
    \/ \E at \in 1..MaxTime :
         \/ \E i \in RunIds : AddRecord("run", i, at)
         \/ \E i \in ReviewIds : AddRecord("review", i, at)
         \/ \E i \in PipelineIds : AddRecord("pipeline", i, at)
         \/ \E x \in records : EndRecord(x, at)
    \/ \E active \in BOOLEAN : BeginPage(active)
    \/ ReadBatch \/ EndPage
    \/ BeginWalk \/ ReadActivityPage

PagedSpec == PagedInit /\ [][PagedNext]_pagedVars

(******************************* Properties *******************************)
\* Types; a page in progress has read rows of the table, no further than the
\* count it took.
PagedTypeOK ==
    /\ DOMAIN taskTable \subseteq TaskRows
    /\ \A e \in log : e.id \in EventIds /\ e.at \in 1..MaxTime
    /\ page.phase \in {"idle", "reading", "done"} /\ walk.phase \in {"idle", "reading", "done"}
    /\ page.cursor < page.count + BatchSize
    /\ Range(page.matches) \subseteq Range(page.listed) /\ Range(page.listed) \subseteq DOMAIN taskTable
    /\ Len(page.listed) <= page.count + BatchSize - 1

\* While no task is created or reprioritised, the batches of a page list every
\* task of the project once, whatever else changes (queryTaskPage).
PageCoversTheProject ==
    page.phase = "done" /\ ~page.moved =>
        /\ IsInjective(page.listed) /\ Range(page.listed) = DOMAIN taskTable
        /\ \A t \in DOMAIN taskTable : ~taskTable[t].terminal => t \in Range(page.matches)

\* Paging through the activity while events arrive never repeats one, and has
\* shown every event that was there at the start once the cursor is null, even
\* events of one instant split over two pages (listActivity, nextActivityCursor).
ActivityWalkExact ==
    /\ \A i, j \in DOMAIN walk.seen : i < j => newer(walk.seen[i], walk.seen[j])
    /\ walk.phase = "done" => walk.present \subseteq Range(walk.seen)

\* A run that has events shows its latest ones however many events of others
\* are newer (getRunDetail).
RunActivityFound ==
    \A r \in RunIds :
        LET own == {e \in log : e.run = r}
        IN  Range(runActivity(r)) = {e \in own : Cardinality({f \in own : newer(f, e)}) < ActivityLimit}

\* A list says it is truncated exactly when rows are missing from it, and then
\* shows the newest (boundedList with the count under the same filter).
BoundedListsAgree ==
    LET lists == {<<listRuns(a), ofKind("run", runStatuses(a))>> : a \in BOOLEAN}
                 \cup {<<listReviews(TRUE), ofKind("review", {"active"})>>, <<listReviews(FALSE), ofKind("review", {"active", "ended"})>>}
                 \cup {<<listApprovals, ofKind("review", {"ended"})>>}
                 \cup {<<listPipelineRuns(a), ofKind("pipeline", runStatuses(a))>> : a \in BOOLEAN}
    IN  \A l \in lists :
            /\ l[1].truncated <=> (Range(l[1].items) # l[2])
            /\ \A x \in l[2] \ Range(l[1].items), y \in Range(l[1].items) : x.at <= y.at

\* Pages, walks and bounded lists show what they claim to show.
PagedSafety ==
    PagedTypeOK /\ PageCoversTheProject /\ ActivityWalkExact /\ RunActivityFound /\ BoundedListsAgree
=============================================================================
