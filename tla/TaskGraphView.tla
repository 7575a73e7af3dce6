--------------------------- MODULE TaskGraphView ---------------------------
(***************************************************************************)
(* The task dependency graph as the Runtime projects it                    *)
(* (task-graph-projection.ts) and as the dashboard shows it (task-graph.ts *)
(* and the canvas of task-graph.tsx): readiness, what a completion         *)
(* unblocks, the longest chain, the filtered and the isolated view, the    *)
(* panel's lists, the memo of relationships and the detail fetched for the *)
(* selected task while the board goes on changing.                         *)
(*                                                                         *)
(* Tasks are numbers, ordered as their identifiers.  No task has a run, so *)
(* its operational status is what projectTaskOperationalState derives from *)
(* the recorded one.                                                       *)
(***************************************************************************)
EXTENDS TaskDomain, Naturals, Sequences, FiniteSets, FiniteSetsExt, SequencesExt

CONSTANTS
  GraphTasks,       \* a set of naturals
  PriorityOf,       \* a task's priority
  InitialBoards,    \* boards the browser may first see: [recorded, edges]
  PreviewLimit,     \* reducedPreviewTaskLimit
  PageSize,         \* chainPageSize
  MaxBoardChanges, MaxRefreshes, MaxClicks, NoTask

ASSUME GraphAssumption ==
  /\ GraphTasks \subseteq Nat /\ NoTask \notin GraphTasks
  /\ PriorityOf \in [GraphTasks -> Nat]
  /\ {PreviewLimit, PageSize} \subseteq Nat \ {0}
  /\ {MaxBoardChanges, MaxRefreshes, MaxClicks} \subseteq Nat

VARIABLES
  board,       \* the database: [recorded, edges], an edge <<task, prerequisite>>
  changes,     \* commands since the first view
  onScreen,       \* the graph on screen: [board, at (the database's age), id]
  clicks,      \* selections so far
  selected, mode,
  memo,        \* createGraphRelationshipMemo: [edges, task, index], the
               \* index (and so the result) by the edges it was built from
  request,     \* the detail request not aborted yet, if any: [graph, task]
  detail       \* detailState, if any: [graph, task, at (the age it was read at), error]

graphVars == <<board, changes, onScreen, clicks, selected, mode, memo, request, detail>>

(***************************** The projection *****************************)
prerequisitesOf(b, t) == {p \in GraphTasks : <<t, p>> \in b.edges}
dependentsOf(b, t) == {d \in GraphTasks : <<d, t>> \in b.edges}

unmet(b, t) == {p \in prerequisitesOf(b, t) : b.recorded[p] \notin satisfying("start")}

isTerminal(b, t) == b.recorded[t] \in terminalTaskStatuses
ready(b, t) == isTaskRunnable(b.recorded[t]) /\ unmet(b, t) = {}
waiting(b, t) == ~isTerminal(b, t) /\ unmet(b, t) # {}

completionUnblocks(b, t) ==
    {d \in dependentsOf(b, t) : unmet(b, d) = {t} /\ isTaskRunnable(b.recorded[d]) /\ ~isTerminal(b, t)}

graphStatus(b, t) ==
    CASE isTerminal(b, t) \/ b.recorded[t] = "blocked" -> b.recorded[t]
      [] b.recorded[t] = "waiting_review" -> "awaiting_review"
      [] b.recorded[t] = "running" -> "in_progress"
      [] OTHER -> "not_started"
needsAttention(b, t) == b.recorded[t] \in {"blocked", "failed"}

unfinished(b) == {t \in GraphTasks : ~isTerminal(b, t)}

\* The longest chain of unfinished tasks that starts at each one, by walking
\* the topological order backwards.
chainLength(b) ==
    LET length[t \in unfinished(b)] ==
          1 + Max({0} \cup {length[d] : d \in dependentsOf(b, t) \cap unfinished(b)})
    IN  length
\* The first to reach the greatest length, the smallest task among equals.
longestOf(b, S) ==
    LET length == chainLength(b)
    IN  Min({t \in S : \A s \in S : length[s] <= length[t]})
chainFrom(b) ==
    LET path[t \in unfinished(b)] ==
          LET next == dependentsOf(b, t) \cap unfinished(b)
          IN  <<t>> \o (IF next = {} THEN <<>> ELSE path[longestOf(b, next)])
    IN  path
longestDependencyChain(b) ==
    LET open == unfinished(b)
        path == IF open = {} THEN <<>> ELSE chainFrom(b)[longestOf(b, open)]
    IN  IF Len(path) < 2 THEN <<>> ELSE path

(****************************** The browser *******************************)
\* filterGraph with the default filters: completed work is hidden, and a
\* cancelled task too unless it still blocks an open one.
defaultView(b, keep) ==
    LET blockers == UNION {unmet(b, t) : t \in unfinished(b)}
    IN  {t \in GraphTasks : \/ t \in keep
                            \/ graphStatus(b, t) \notin {"completed", "cancelled"}
                            \/ graphStatus(b, t) = "cancelled" /\ t \in blockers}
visibleEdges(b, view, onlyEdges) == {e \in onlyEdges : e[1] \in view /\ e[2] \in view}
hiddenCompletedPrerequisites(b, view, t) ==
    {p \in prerequisitesOf(b, t) : p \notin view /\ b.recorded[p] = "completed"}

\* buildLineageIndex and one hop of a walk through it.
buildLineageIndex(edges) ==
    [prerequisites |-> [t \in GraphTasks |-> {p \in GraphTasks : <<t, p>> \in edges}],
     dependents |-> [t \in GraphTasks |-> {d \in GraphTasks : <<d, t>> \in edges}]]
adjacentTo(adjacent, S) == UNION {adjacent[t] : t \in S}

lineageFromIndex(index, t) ==
    LET walk(adjacent) ==
          LET seen[n \in 0..Cardinality(GraphTasks)] ==
                IF n = 0 THEN adjacent[t] ELSE seen[n - 1] \cup adjacentTo(adjacent, seen[n - 1])
          IN  seen[Cardinality(GraphTasks)]
    IN  [upstream |-> walk(index.prerequisites), downstream |-> walk(index.dependents)]

neighborhoodModes == {"direct", "one_hop", "two_hops", "full_lineage"}

\* What one walk adds, hop by hop, to the tasks found so far.
hops(adjacent, found, t, depth) ==
    LET step[n \in 0..depth] ==
          IF n = 0 THEN [frontier |-> {t}, found |-> found]
          ELSE LET next == adjacentTo(adjacent, step[n - 1].frontier) \ step[n - 1].found
               IN  [frontier |-> next, found |-> step[n - 1].found \cup next]
    IN  step[depth].found

\* Both walks share the set of tasks found; only "direct" restricts the edges.
graphNeighborhood(index, t, m) ==
    LET depth == IF m = "two_hops" THEN 2 ELSE 1
        whole == lineageFromIndex(index, t)
        every == {e \in GraphTasks \X GraphTasks : e[2] \in index.prerequisites[e[1]]}
    IN  [tasks |-> IF m = "full_lineage" THEN {t} \cup whole.upstream \cup whole.downstream
                   ELSE hops(index.dependents, hops(index.prerequisites, {t}, t, depth), t, depth),
         edges |-> IF m # "direct" THEN every
                   ELSE {<<t, p>> : p \in index.prerequisites[t]} \cup {<<d, t>> : d \in index.dependents[t]}]

relationshipEdgeKind(e, t, lineage) ==
    IF t \in {e[1], e[2]} THEN "direct"
    ELSE IF {e[1], e[2]} \subseteq lineage.upstream \/ {e[1], e[2]} \subseteq lineage.downstream
    THEN "transitive" ELSE "none"

\* What a call of the memo returns for a task: built from the index it kept.
relationships(edges, t) ==
    LET index == buildLineageIndex(edges)
    IN  [prerequisites |-> index.prerequisites[t], dependents |-> index.dependents[t],
         lineage |-> lineageFromIndex(index, t),
         neighborhood |-> [m \in neighborhoodModes |-> graphNeighborhood(index, t, m)]]
NoMemo == [edges |-> {}, task |-> NoTask, index |-> {}]
\* Fault: the kept result is for the task, whatever became of the edges.
recall_TaskOnly(old, edges, t) ==
    IF old.task = t THEN [old EXCEPT !.edges = edges]
    ELSE [edges |-> edges, task |-> t, index |-> edges]
\* createGraphRelationshipMemo: kept while neither edges nor task change.
recall(old, edges, t) ==
    IF old.task = t /\ old.edges = edges THEN old
    ELSE [edges |-> edges, task |-> t, index |-> edges]

rank(b, t) ==
    CASE needsAttention(b, t) -> 0
      [] ~needsAttention(b, t) /\ ready(b, t) -> 1
      [] OTHER -> IF graphStatus(b, t) = "in_progress" THEN 2 ELSE IF waiting(b, t) THEN 3
                  ELSE IF isTerminal(b, t) THEN 5 ELSE 4
before(b, s, t) ==
    \/ rank(b, s) < rank(b, t)
    \/ rank(b, s) = rank(b, t) /\ PriorityOf[s] > PriorityOf[t]
    \/ rank(b, s) = rank(b, t) /\ PriorityOf[s] = PriorityOf[t] /\ s < t
\* splice at the first place the task comes before what stands there.
insertRanked(b, top, t) ==
    LET at == Cardinality({i \in DOMAIN top : ~before(b, t, top[i])})
    IN  SubSeq(top, 1, at) \o <<t>> \o SubSeq(top, at + 1, Len(top))
keepBest(b, top, t) ==
    IF Len(top) = PreviewLimit /\ ~before(b, t, Last(top)) THEN top
    ELSE LET more == insertRanked(b, top, t)
         IN  IF Len(more) > PreviewLimit THEN Front(more) ELSE more
\* The best few, in one pass, and the selected task whatever its rank.
reducedOperationalPreview(b, view, t) ==
    LET top == FoldLeft(LAMBDA acc, x : keepBest(b, acc, x), <<>>, SetToSortSeq(view, LAMBDA x, y : x < y))
        room == IF Len(top) = PreviewLimit THEN Front(top) ELSE top
    IN  IF t \in view \ Range(top) THEN insertRanked(b, room, t) ELSE top

totalPages(list) == (Len(list) + PageSize - 1) \div PageSize
\* One page of a list; a page past the end shows the last one.
chainPage(list, requested) ==
    LET page == IF totalPages(list) = 0 THEN 0 ELSE Min({requested, totalPages(list) - 1})
    IN  SubSeq(list, page * PageSize + 1, Min({(page + 1) * PageSize, Len(list)}))

\* TaskPanel's lists for one task.
panelLists(b, t) ==
    LET satisfied == prerequisitesOf(b, t) \ unmet(b, t)
    IN  [waitingOn |-> unmet(b, t),
         inReview |-> {p \in satisfied : b.recorded[p] = "waiting_review"},
         completed |-> {p \in satisfied : b.recorded[p] = "completed"},
         unblocks |-> IF isTerminal(b, t) THEN {} ELSE completionUnblocks(b, t),
         otherDependents |-> dependentsOf(b, t) \ completionUnblocks(b, t)]

(***************************** The behaviour ******************************)
GraphInit ==
    /\ board \in InitialBoards
    /\ changes = 0
    /\ onScreen = [board |-> board, at |-> 0, id |-> 0]
    /\ clicks = 0 /\ selected = NoTask /\ mode = "none"
    /\ memo = NoMemo
    /\ request = {} /\ detail = {}

command == changes < MaxBoardChanges /\ changes' = changes + 1
browser == <<onScreen, clicks, selected, mode, memo, request, detail>>

\* A task moves, by its lifecycle or into recorded history.  Work starts only
\* when what it needs is completed or in review.
MoveTask(t, to) ==
    /\ command
    /\ \/ isTaskTransitionAllowed(board.recorded[t], to)
       \/ to = "completed" /\ isHistoricalCompletionApplicable(board.recorded[t])
    /\ to = "running" => unmet(board, t) = {}
    /\ to = "completed" => \A p \in prerequisitesOf(board, t) : board.recorded[p] \in satisfying("complete")
    /\ board' = [board EXCEPT !.recorded[t] = to]
    /\ UNCHANGED browser

\* task:depend and task:undepend, while the dependent is pending.
LinkTask(t, p) ==
    /\ command
    /\ board.recorded[t] = "pending" /\ t # p /\ <<t, p>> \notin board.edges
    /\ t \notin lineageFromIndex(buildLineageIndex(board.edges), p).upstream
    /\ board' = [board EXCEPT !.edges = @ \cup {<<t, p>>}]
    /\ UNCHANGED browser
UnlinkTask(t, p) ==
    /\ command
    /\ board.recorded[t] = "pending" /\ <<t, p>> \in board.edges
    /\ board' = [board EXCEPT !.edges = @ \ {<<t, p>>}]
    /\ UNCHANGED browser

\* What a render recomputes: the relationships of the selected task, and the
\* effect that aborts the detail request and starts another.
render(graph, t) ==
    /\ memo' = IF t = NoTask THEN memo ELSE recall(memo, graph.board.edges, t)
    /\ request' = IF t = NoTask THEN {} ELSE {[graph |-> graph.id, task |-> t]}

\* A live refresh replaces the graph by one snapshot.
Refresh ==
    /\ onScreen.id < MaxRefreshes
    /\ onScreen' = [board |-> board, at |-> changes, id |-> onScreen.id + 1]
    /\ render(onScreen', selected)
    /\ UNCHANGED <<board, changes, clicks, selected, mode, detail>>

\* Selecting a task again clears it; isolation belongs to one selection.
Select(t) ==
    /\ clicks < MaxClicks /\ clicks' = clicks + 1
    /\ selected' = IF selected = t THEN NoTask ELSE t
    /\ mode' = "none"
    /\ render(onScreen, selected')
    /\ UNCHANGED <<board, changes, onScreen, detail>>

Isolate(m) ==
    /\ selected # NoTask /\ mode' = m
    /\ UNCHANGED <<board, changes, onScreen, clicks, selected, memo, request, detail>>

\* The answer of a request that was not aborted.
DetailArrives ==
    /\ \E asked \in request, failed \in BOOLEAN :
         detail' = {[graph |-> asked.graph, task |-> asked.task, at |-> changes, error |-> failed]}
    /\ request' = {}
    /\ UNCHANGED <<board, changes, onScreen, clicks, selected, mode, memo>>

currentDetail == {d \in detail : d.graph = onScreen.id /\ d.task = selected}

\* Retry: detailRequest counts on and the effect runs again.
RetryDetail ==
    /\ \E d \in currentDetail : d.error
    /\ request' = {[graph |-> onScreen.id, task |-> selected]}
    /\ UNCHANGED <<board, changes, onScreen, clicks, selected, mode, memo, detail>>

GraphNext ==
    \/ \E t \in GraphTasks, to \in TaskStatuses : MoveTask(t, to)
    \/ \E t, p \in GraphTasks : LinkTask(t, p) \/ UnlinkTask(t, p)
    \/ Refresh
    \/ \E t \in GraphTasks : Select(t)
    \/ \E m \in neighborhoodModes : Isolate(m)
    \/ DetailArrives
    \/ RetryDetail

GraphSpec == GraphInit /\ [][GraphNext]_graphVars

\* What the memo last returned.
kept == relationships(memo.index, memo.task)

\* What the canvas shows: the isolated neighbourhood, or the filtered graph.
canvasTasks ==
    IF selected # NoTask /\ mode # "none" THEN kept.neighborhood[mode].tasks
    ELSE defaultView(onScreen.board, {selected} \ {NoTask})
canvasEdges ==
    IF selected # NoTask /\ mode # "none"
    THEN visibleEdges(onScreen.board, canvasTasks, kept.neighborhood[mode].edges)
    ELSE visibleEdges(onScreen.board, canvasTasks, onScreen.board.edges)

(******************************* Properties *******************************)
\* Reference definitions: the directed paths, first the prerequisite.
Paths(b, S) ==
    LET ofLength[n \in 1..Cardinality(S)] ==
          IF n = 1 THEN {<<t>> : t \in S}
          ELSE UNION {{Append(p, d) : d \in dependentsOf(b, Last(p)) \cap S} : p \in ofLength[n - 1]}
    IN  UNION {ofLength[n] : n \in DOMAIN ofLength}
Within(all, t, n) ==
    UNION {{p[1], p[Len(p)]} : p \in {q \in all : t \in {q[1], q[Len(q)]} /\ Len(q) <= n + 1}}

\* Types, and the graph on screen was once the board.
GraphTypeOK ==
    /\ board.recorded \in [GraphTasks -> TaskStatuses]
    /\ board.edges \subseteq GraphTasks \X GraphTasks
    /\ changes \in 0..MaxBoardChanges /\ onScreen.id \in 0..MaxRefreshes
    /\ onScreen.at <= changes
    /\ selected \in GraphTasks \cup {NoTask}
    /\ mode # "none" => mode \in neighborhoodModes /\ selected # NoTask
    /\ selected # NoTask => memo.task = selected

\* "Unblocks when in review or completed" is exact: when a task reaches review
\* or completion, the tasks announced for it, and no others, become ready
\* (projectTaskGraphNodes).
CompletionUnblocksExactly ==
    \A t \in GraphTasks :
        (/\ board.recorded[t] \notin satisfying("start")
         /\ board'.recorded[t] \in satisfying("start"))
        => {d \in GraphTasks \ {t} : ready(board', d) /\ ~ready(board, d)}
             = completionUnblocks(board, t)

\* The announced chain is a chain of unfinished tasks, and none is longer
\* (projectLongestDependencyChain against all paths).
ChainIsLongest ==
    LET chain == longestDependencyChain(onScreen.board)
        all == {p \in Paths(onScreen.board, unfinished(onScreen.board)) : Len(p) >= 2}
    IN  IF all = {} THEN chain = <<>>
        ELSE chain \in all /\ \A p \in all : Len(p) <= Len(chain)

\* Nothing a visible open task depends on goes unmentioned: a prerequisite is
\* drawn, or is counted in the cue of hidden completed ones (filterGraph,
\* hiddenCompletedPrerequisiteCounts).
EveryPrerequisiteAccounted ==
    LET b == onScreen.board
        view == defaultView(b, {selected} \ {NoTask})
    IN  \A t \in view \ {s \in GraphTasks : isTerminal(b, s)} :
            Cardinality({e \in visibleEdges(b, view, b.edges) : e[1] = t})
              + Cardinality(hiddenCompletedPrerequisites(b, view, t))
              = Cardinality(prerequisitesOf(b, t))

\* The relationships on screen are those of the selected task in the graph on
\* screen: isolation shows exactly the tasks so many links away, and an edge is
\* highlighted exactly when it lies on a path to or from the selection, however
\* the selection and the graph changed before (createGraphRelationshipMemo).
RelationshipsExact ==
    selected # NoTask =>
        LET b == onScreen.board
            all == Paths(b, GraphTasks)
            on(e) == \E p \in all : /\ selected \in {p[1], p[Len(p)]}
                                    /\ \E i \in 1..(Len(p) - 1) : e = <<p[i + 1], p[i]>>
        IN  /\ kept.prerequisites = prerequisitesOf(b, selected)
            /\ mode # "none" =>
                 canvasTasks = Within(all, selected,
                     CASE mode = "two_hops" -> 2 [] mode = "full_lineage" -> Cardinality(GraphTasks) [] OTHER -> 1)
            /\ mode = "direct" => canvasEdges = {e \in b.edges : selected \in {e[1], e[2]}}
            /\ \A e \in b.edges : (relationshipEdgeKind(e, selected, kept.lineage) # "none") <=> on(e)

\* The panel's lists name every prerequisite and every dependent of a task
\* once (TaskPanel, otherDependentIds).
PanelListsEverything ==
    \A t \in GraphTasks :
        LET l == panelLists(onScreen.board, t)
        IN  /\ Cardinality(l.waitingOn) + Cardinality(l.inReview) + Cardinality(l.completed)
                 = Cardinality(prerequisitesOf(onScreen.board, t))
            /\ l.unblocks \cup l.otherDependents = dependentsOf(onScreen.board, t)
            /\ l.unblocks \cap l.otherDependents = {}

\* The reduced preview is the best-ranked few tasks in order, never more than
\* the limit, and always has the selection (reducedOperationalPreview).
PreviewIsTop ==
    \A view \in {GraphTasks, defaultView(onScreen.board, {})}, t \in {selected} :
        LET b == onScreen.board
            list == reducedOperationalPreview(b, view, t)
        IN  /\ Len(list) = Min({PreviewLimit, Cardinality(view)})
            /\ t \in view => t \in Range(list)
            /\ \A i, j \in DOMAIN list : i < j => before(b, list[i], list[j])
            /\ \A s \in Range(list) \ {t}, x \in view \ Range(list) : before(b, s, x)

\* Paging a list shows each of its entries once, and a page that a refresh has
\* made too high shows the last entries instead of none (chainPage).
PagesCover ==
    LET list == longestDependencyChain(onScreen.board)
    IN  list # <<>> =>
          /\ FlattenSeq([i \in 1..totalPages(list) |-> chainPage(list, i - 1)]) = list
          /\ \A requested \in 0..Cardinality(GraphTasks) : chainPage(list, requested) # <<>>

\* The detail beside a graph is of the selected task and not older than the
\* graph (the detail effect and its cleanup).
DetailNotOlder ==
    \A d \in currentDetail : d.task = selected /\ d.at >= onScreen.at

\* The graph view tells the truth about the graph it loaded, whatever was
\* selected, isolated, filtered or refreshed on the way.
GraphSafety ==
    /\ GraphTypeOK /\ ChainIsLongest /\ EveryPrerequisiteAccounted /\ RelationshipsExact
    /\ PanelListsEverything /\ PreviewIsTop /\ PagesCover /\ DetailNotOlder

=============================================================================
