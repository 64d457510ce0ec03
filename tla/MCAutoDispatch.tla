---------------------------- MODULE MCAutoDispatch ----------------------------
(* Small projects for AutoDispatch. *)
EXTENDS AutoDispatch

\* One milestone: one slice of one or two tasks.
OneSlice == [m \in 1..1 |-> 1]
OneTask  == [i \in {<<1, 1>>} |-> 1]
NoSliceDeps1 == [i \in {<<1, 1>>} |-> {}]
NoMilestoneDeps1 == [m \in 1..1 |-> {}]
AllContext1 == [m \in 1..1 |-> "full"]

\* The same, then a milestone that has only been drafted.
OneThenNone == [m \in 1..2 |-> IF m = 1 THEN 1 ELSE 0]
NoMilestoneDeps2 == [m \in 1..2 |-> {}]
FullThenDraft == [m \in 1..2 |-> IF m = 1 THEN "full" ELSE "draft"]

\* Two milestones: two slices of one task, the second after the first; then one more.
ThreeSlices == [m \in 1..2 |-> IF m = 1 THEN 2 ELSE 1]
ThreeSlicesTasks == [i \in {<<1, 1>>, <<1, 2>>, <<2, 1>>} |-> 1]
InOrderDeps == [i \in {<<1, 1>>, <<1, 2>>, <<2, 1>>} |-> IF i[2] = 2 THEN {1} ELSE {}]
AllContext2 == [m \in 1..2 |-> "full"]
SecondNeedsFirst == [m \in 1..2 |-> IF m = 2 THEN {1} ELSE {}]

Planned == {{"RESEARCH", "ROADMAP", "SLICES"} \X {<<1>>} \union {"PLAN", "TASKS"} \X {<<1, 1>>}}
PlannedEach == {{"RESEARCH", "ROADMAP", "SLICES"} \X {<<1>>, <<2>>}}
FirstOrEachPlanned == {{"RESEARCH", "ROADMAP", "SLICES"} \X {<<1>>}} \union PlannedEach
NewOrOverridden == {{}, {Override}}
===============================================================================
