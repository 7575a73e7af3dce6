--------------------------- MODULE MCPipelineRuns ---------------------------
(***************************************************************************)
(* Small offices for PipelineRuns.  Two stages: the first is gated by an   *)
(* approval, the second needs another agent than the first; agent 1 serves *)
(* both, agent 2 the second.                                               *)
(***************************************************************************)
EXTENDS PipelineRuns, TLC

CONSTANTS t1, t2, t3

\* t2 depends on t1; two pipelines compete for t2.
ChainTasks == {t1, t2}
ChainPrerequisites == (t1 :> {}) @@ (t2 :> {t1})
TwoPipelines == <<t2, t2>>

\* Bounds: of two competing pipelines, which differ in their ids alone, the second
\* is followed until its first stage ends; the prerequisite is on its way or
\* completed, since every other status only leaves it incomplete.
SecondStageOfFirst == cur[2] = 1 /\ taskStatus[t1] \notin {"blocked", "failed", "cancelled"}

\* t2 and t3 depend on t1 and have a pipeline each.
ForkTasks == {t1, t2, t3}
ForkPrerequisites == (t1 :> {}) @@ (t2 :> {t1}) @@ (t3 :> {t1})
BothTasks == <<t2, t3>>

\* t2 and t3 without prerequisites.
PairTasks == {t2, t3}
PairPrerequisites == (t2 :> {}) @@ (t3 :> {})

GatedSeparation == <<{}, {1}>>
TwoAgents == <<{1, 2}, {2}>>
NoSeparation == <<{}>>
OneAgent == <<{1}>>
=============================================================================
