------------------------------- MODULE GsdState -------------------------------
(***************************************************************************)
(* What GSD reads off the disk: deriveState (state.ts), the dispatch table *)
(* (auto-dispatch.ts), the verification of a unit's artifacts              *)
(* (auto-recovery.ts), the dispatch guard (dispatch-guard.ts) and the      *)
(* repairs of the doctor (doctor.ts), as operators over a disk.            *)
(*                                                                         *)
(* A disk is the set of the facts that hold of the .gsd/ directory: a fact *)
(* <<kind, id>> says that the file of that kind exists for that id, or     *)
(* that the checkbox of that id is marked ("x").  An id is <<m>>, <<m, s>> *)
(* or <<m, s, t>>: milestones, slices and tasks are numbered in the order  *)
(* in which the program visits them.  A unit is <<type, id>>.              *)
(***************************************************************************)
EXTENDS Naturals, Sequences

CONSTANTS
  NumMilestones,
  NumSlices,      \* NumSlices[m]: the slices its roadmap lists
  NumTasks,       \* NumTasks[<<m, s>>]: the tasks its plan lists
  SliceDeps,      \* SliceDeps[<<m, s>>]: `depends` of the roadmap entry
  MilestoneDeps,  \* MilestoneDeps[m]: depends_on of its CONTEXT
  Context,        \* Context[m]: "none", "draft" (CONTEXT-DRAFT only) or "full"
  UatDispatch     \* preference uat_dispatch

Milestone == 1..NumMilestones
MilestoneId == {<<m>> : m \in Milestone}
SliceId == UNION {{<<m, s>> : s \in 1..NumSlices[m]} : m \in Milestone}
TaskId  == UNION {{<<i[1], i[2], t>> : t \in 1..NumTasks[i]} : i \in SliceId}

ASSUME ProjectAssumption ==
  /\ NumMilestones \in Nat
  /\ NumSlices \in [Milestone -> Nat]
  /\ NumTasks \in [SliceId -> Nat]
  /\ SliceDeps \in [SliceId -> SUBSET Nat]
  /\ MilestoneDeps \in [Milestone -> SUBSET Milestone]
  /\ Context \in [Milestone -> {"none", "draft", "full"}]
  /\ UatDispatch \in BOOLEAN

MilestoneUnits == {"research-milestone", "plan-milestone", "complete-milestone"}
SliceUnits == {"research-slice", "plan-slice", "replan-slice", "run-uat",
               "reassess-roadmap", "complete-slice"}
UnitType == MilestoneUnits \union SliceUnits \union {"execute-task", "rewrite-docs"}
Unit == (MilestoneUnits \X MilestoneId) \union (SliceUnits \X SliceId)
        \union ({"execute-task"} \X TaskId)
        \union ({"rewrite-docs"} \X (MilestoneId \union SliceId))
NoUnit == <<"none", <<>>>>

\* OVERRIDES.md holds an entry whose scope is still active.
Override == <<"OVERRIDE", <<>>>>
\* "SLICES" and "TASKS": the roadmap, the plan parses to a list that is not empty;
\* "BLOCKER": the task summary has blocker_discovered; "STUB": it is a placeholder.
Fact == ({"RESEARCH", "ROADMAP", "SLICES", "SUMMARY"} \X MilestoneId)
        \union ({"RESEARCH", "PLAN", "TASKS", "SUMMARY", "UAT", "UAT-RESULT",
                 "ASSESSMENT", "REPLAN", "x"} \X SliceId)
        \union ({"SUMMARY", "x", "BLOCKER", "STUB"} \X TaskId)
        \union {Override}

-------------------------------------------------------------------------------
(* deriveState *)

Slices(d, m) == IF {<<"ROADMAP", <<m>>>>, <<"SLICES", <<m>>>>} \subseteq d
                THEN 1..NumSlices[m] ELSE {}
Tasks(d, i)  == IF {<<"PLAN", i>>, <<"TASKS", i>>} \subseteq d
                THEN 1..NumTasks[i] ELSE {}
SliceDone(d, m, s) == <<"x", <<m, s>>>> \in d
TaskDone(d, i, t)  == <<"x", <<i[1], i[2], t>>>> \in d
DoneSlices(d, m) == {s \in Slices(d, m) : SliceDone(d, m, s)}
OpenSlices(d, m) == {s \in Slices(d, m) : ~SliceDone(d, m, s)}
OpenTasks(d, i)  == {t \in Tasks(d, i) : ~TaskDone(d, i, t)}

Least(S) == CHOOSE n \in S : \A k \in S : n <= k
Last(S)  == CHOOSE n \in S \union {0} : \A k \in S : n >= k   \* 0 if there is none

RoadmapComplete(d, m) == Slices(d, m) # {} /\ OpenSlices(d, m) = {}

CompleteMilestones(d) ==
  {m \in Milestone : /\ <<"SUMMARY", <<m>>>> \in d
                     /\ <<"ROADMAP", <<m>>>> \in d => RoadmapComplete(d, m)}

\* The milestones that the registry loop may promote to active; depends_on is
\* looked at only when the roadmap exists and is incomplete.
Promotable(d) ==
  {m \in Milestone :
     IF <<"ROADMAP", <<m>>>> \in d /\ ~RoadmapComplete(d, m)
     THEN MilestoneDeps[m] \subseteq CompleteMilestones(d)
     ELSE <<"SUMMARY", <<m>>>> \notin d}

\* A milestone that is neither complete nor promotable is pending: dep-blocked.
DepBlocked(d) ==
  {m \in Milestone \ Promotable(d) : <<"ROADMAP", <<m>>>> \in d /\ ~RoadmapComplete(d, m)}

EligibleSlices(d, m) ==
  {s \in OpenSlices(d, m) : SliceDeps[<<m, s>>] \subseteq DoneSlices(d, m)}

NeedsReplan(d, i) ==
  /\ <<"REPLAN", i>> \notin d
  /\ \E t \in Tasks(d, i) : /\ TaskDone(d, i, t)
                            /\ <<"SUMMARY", <<i[1], i[2], t>>>> \in d
                            /\ <<"BLOCKER", <<i[1], i[2], t>>>> \in d

\* Mutant: a task counts as done when its summary is there.
PhaseBySummaries(d, i) ==
  IF Tasks(d, i) = {} THEN "planning"
  ELSE IF \A t \in Tasks(d, i) : <<"SUMMARY", <<i[1], i[2], t>>>> \in d THEN "summarizing"
  ELSE IF NeedsReplan(d, i) THEN "replanning-slice"
  ELSE "executing"

\* The phase of the active slice and its active task.
SlicePhase(d, i) ==
  IF Tasks(d, i) = {} THEN "planning"
  ELSE IF OpenTasks(d, i) = {} THEN "summarizing"
  ELSE IF NeedsReplan(d, i) THEN "replanning-slice"
  ELSE "executing"

\* deriveState: the phase and the active milestone, slice and task (0 for null).
DeriveState(d) ==
  LET At(phase, m, s, t) == [phase |-> phase, mid |-> m, sid |-> s, tid |-> t]
      m == Least(Promotable(d))
      s == Least(EligibleSlices(d, m))
  IN IF NumMilestones = 0 THEN At("pre-planning", 0, 0, 0)
     ELSE IF Promotable(d) = {} THEN
       IF DepBlocked(d) # {} THEN At("blocked", 0, 0, 0)
                             ELSE At("complete", NumMilestones, 0, 0)
     ELSE IF <<"ROADMAP", <<m>>>> \notin d THEN
       At(IF Context[m] = "draft" THEN "needs-discussion" ELSE "pre-planning", m, 0, 0)
     ELSE IF RoadmapComplete(d, m) THEN At("completing-milestone", m, 0, 0)
     ELSE IF EligibleSlices(d, m) = {} THEN At("blocked", m, 0, 0)
     ELSE At(SlicePhase(d, <<m, s>>), m, s,
             IF OpenTasks(d, <<m, s>>) = {} THEN 0 ELSE Least(OpenTasks(d, <<m, s>>)))

-------------------------------------------------------------------------------
(* The dispatch table, first match wins; its first rule, the override gate, has *)
(* state of its own and is in the module AutoDispatch.                          *)

\* checkNeedsRunUat and checkNeedsReassessment: the last slice done, while others
\* are open.
BetweenSlices(d, m) == DoneSlices(d, m) # {} /\ OpenSlices(d, m) # {}
LastDone(d, m) == <<m, Last(DoneSlices(d, m))>>

NeedsRunUat(d, m) ==
  /\ UatDispatch /\ BetweenSlices(d, m)
  /\ <<"UAT", LastDone(d, m)>> \in d
  /\ <<"UAT-RESULT", LastDone(d, m)>> \notin d

NeedsReassessment(d, m) ==
  /\ BetweenSlices(d, m)
  /\ <<"SUMMARY", LastDone(d, m)>> \in d
  /\ <<"ASSESSMENT", LastDone(d, m)>> \notin d

NeedsSliceResearch(d, i) ==
  /\ <<"RESEARCH", i>> \notin d
  /\ ~(<<"RESEARCH", <<i[1]>>>> \in d /\ i[2] = 1)     \* S01

\* The rules after the override gate, in their order; NoUnit is the action "stop".
Rules(d, st) ==
  LET Rule(c, type, id) == [when |-> c, unit |-> <<type, id>>]
      Stop(c) == [when |-> c, unit |-> NoUnit]
      m == <<st.mid>>
      i == <<st.mid, st.sid>>
  IN << Rule(st.phase = "summarizing", "complete-slice", i),
        Rule(NeedsRunUat(d, st.mid), "run-uat", LastDone(d, st.mid)),
        Rule(NeedsReassessment(d, st.mid), "reassess-roadmap", LastDone(d, st.mid)),
        Stop(st.phase = "needs-discussion"),
        Stop(st.phase = "pre-planning" /\ Context[st.mid] # "full"),
        Rule(st.phase = "pre-planning" /\ <<"RESEARCH", m>> \notin d, "research-milestone", m),
        Rule(st.phase = "pre-planning", "plan-milestone", m),
        Rule(st.phase = "planning" /\ NeedsSliceResearch(d, i), "research-slice", i),
        Rule(st.phase = "planning", "plan-slice", i),
        Rule(st.phase = "replanning-slice", "replan-slice", i),
        Rule(st.phase = "executing", "execute-task", <<st.mid, st.sid, st.tid>>),
        Rule(st.phase = "completing-milestone", "complete-milestone", m),
        Stop(TRUE) >>

\* Mutant: the rules of the phases planning to executing come first.
PhasesFirst(d, st) ==
  LET matches(rules) == SelectSeq(rules, LAMBDA rule : rule.when)
  IN (matches(SubSeq(Rules(d, st), 8, 11)) \o matches(Rules(d, st)))[1].unit

TableUnit(d, st) ==
  Rules(d, st)[Least({k \in 1..Len(Rules(d, st)) : Rules(d, st)[k].when})].unit

-------------------------------------------------------------------------------
(* Artifacts *)

\* resolveExpectedArtifactPath: the kind of the file a unit of this type must leave.
Artifact ==
  [type \in UnitType \ {"replan-slice", "rewrite-docs"} |->
     CASE type \in {"research-milestone", "research-slice"} -> "RESEARCH"
       [] type = "plan-milestone" -> "ROADMAP"
       [] type = "plan-slice" -> "PLAN"
       [] type = "run-uat" -> "UAT-RESULT"
       [] type = "reassess-roadmap" -> "ASSESSMENT"
       [] OTHER -> "SUMMARY"]

HasArtifact(d, u) == u[1] \in DOMAIN Artifact /\ <<Artifact[u[1]], u[2]>> \in d

\* Mutant: complete-slice is verified by its summary alone.
RequiredBySummary(u) ==
  CASE u[1] \in {"replan-slice", "rewrite-docs"} -> {}
    [] u[1] = "execute-task" -> {<<"SUMMARY", u[2]>>, <<"x", u[2]>>}
    [] OTHER -> {<<Artifact[u[1]], u[2]>>}

\* The facts that verifyExpectedArtifact looks for; none for replan-slice.
Required(u) ==
  CASE u[1] \in {"replan-slice", "rewrite-docs"} -> {}
    [] u[1] = "execute-task" -> {<<"SUMMARY", u[2]>>, <<"x", u[2]>>}
    [] u[1] = "complete-slice" -> {<<"SUMMARY", u[2]>>, <<"UAT", u[2]>>, <<"x", u[2]>>}
    [] OTHER -> {<<Artifact[u[1]], u[2]>>}

Verified(d, u) ==
  /\ Required(u) \subseteq d
  /\ u[1] = "rewrite-docs" => Override \notin d

GuardedTypes == {"research-slice", "plan-slice", "replan-slice", "execute-task",
                 "complete-slice"}
\* Mutant: the loop over the milestones does not end at the unit's own.
BlockedByAny(d, u) ==
  u[1] \in GuardedTypes
    /\ \E m \in Milestone : m # u[2][1] /\ OpenSlices(d, m) # {}

\* getPriorSliceCompletionBlocker: an earlier slice, or a slice of an earlier
\* milestone, is open in its roadmap.
Blocked(d, u) ==
  /\ u[1] \in GuardedTypes
  /\ \/ \E m \in Milestone : m < u[2][1] /\ OpenSlices(d, m) # {}
     \/ u[2][2] \in Slices(d, u[2][1])
          /\ \E s \in OpenSlices(d, u[2][1]) : s < u[2][2]

-------------------------------------------------------------------------------
(* Repairs *)

\* The checkboxes the doctor marks: tasks of these slices that have a summary.
SummarizedTasks(d, I) ==
  {i \in TaskId : /\ <<i[1], i[2]>> \in I
                  /\ i[2] \in Slices(d, i[1])
                  /\ i[3] \in Tasks(d, <<i[1], i[2]>>)
                  /\ <<"SUMMARY", i>> \in d}

\* runGSDDoctor with every fix: the checkboxes, and a slice whose tasks were all marked
\* before this pass gets a stub summary, a stub UAT and its mark in the roadmap.
FinishedSlices(d) ==
  {i \in SliceId : /\ i[2] \in Slices(d, i[1])
                   /\ Tasks(d, i) # {} /\ OpenTasks(d, i) = {}}
DoctorAll(d) ==
  d \union {<<"x", i>> : i \in SummarizedTasks(d, SliceId)}
    \union ({"SUMMARY", "UAT", "x"} \X FinishedSlices(d))

\* Mutant: the pass after a turn has every fix.
DoctorAfterTurn(d, id) == DoctorAll(d)

\* runGSDDoctor with fixLevel "task": scope is the milestone, or one slice of it.
DoctorTask(d, id) ==
  d \union {<<"x", i>> : i \in
    SummarizedTasks(d, {i \in SliceId : i[1] = id[1] /\ (Len(id) > 1 => i[2] = id[2])})}

\* skipExecuteTask: a placeholder summary if none exists, and the checkbox.
SkipTask(d, id) ==
  d \union (IF <<"SUMMARY", id>> \in d THEN {}
            ELSE {<<"SUMMARY", id>>, <<"STUB", id>>})
    \union (IF id[3] \in Tasks(d, <<id[1], id[2]>>) THEN {<<"x", id>>} ELSE {})
===============================================================================
