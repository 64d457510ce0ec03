----------------------------- MODULE AutoDispatch -----------------------------
(***************************************************************************)
(* The dispatch loop of auto-mode (auto.ts): what is sent to the agent,    *)
(* from the /gsd auto that starts a run to the stop that ends it.          *)
(*                                                                         *)
(* One invocation of dispatchNextUnit is one step of this module, and so   *)
(* is one invocation of handleAgentEnd; a chain of invocations, where      *)
(* dispatchNextUnit calls itself, is a sequence of steps.  Commands, the   *)
(* agent and crashes interleave with those steps.  Post-unit hooks and the *)
(* step wizard are in PostUnitHooks, the choice of the unit in GsdState.   *)
(***************************************************************************)
EXTENDS GsdState, Integers

CONSTANTS
  InitialDisks,   \* the .gsd/ directories a run may find
  SkipTypes,      \* unit types with a pre-dispatch hook whose action is "skip"
  UatHuman,       \* is the UAT of the slices other than artifact-driven
  UserMay,        \* what may happen besides the run itself
  Flaky,          \* types whose agent turns may end with artifacts missing
  Surprises,      \* "blocker", "empty-plan": what else the agent may write
  Silent,         \* types whose agent turns the idle watchdog may find idle
  Long,           \* types whose agent turns may reach the hard timeout
  DoctorMayFail   \* may a doctor pass throw (every caller ignores it)

MAX_UNIT_DISPATCHES == 3
STUB_RECOVERY_THRESHOLD == 2
MAX_LIFETIME_DISPATCHES == 6
MAX_SKIP_DEPTH == 20
MAX_REWRITE_ATTEMPTS == 3

ASSUME DispatchAssumption ==
  /\ InitialDisks \subseteq SUBSET Fact
  /\ SkipTypes \subseteq UnitType /\ Flaky \subseteq UnitType
  /\ Silent \subseteq UnitType /\ Long \subseteq UnitType
  /\ UserMay \subseteq {"start", "restart", "resume", "pause", "stop", "abort", "steer", "crash", "cancel"}
  /\ Surprises \subseteq {"blocker", "empty-plan"}
  /\ UatHuman \in BOOLEAN /\ DoctorMayFail \in BOOLEAN

VARIABLES
  mode,        \* active and paused of auto.ts
  step,        \* what runs next: "dispatch" and then "selected" (dispatchNextUnit),
               \* "returned", "agentEnd", "gap" (watchdog), or "idle": nothing
  caller,      \* who called dispatchNextUnit: "start", "agentEnd", "gap", "timer"
  skipDepth,   \* _skipDepth
  selected,    \* unitType and unitId of the invocation of dispatchNextUnit
  agent,       \* the unit whose prompt the agent is working on
  supervised,  \* the unit of the armed timers
  hardTimer,   \* is the hard timeout among them
  currentUnit, milestone,    \* currentUnit, currentMilestoneId
  disk,
  keys, keyFile,             \* completedKeySet, completed-units.json
  dispatchCount, lifetime,   \* unitDispatchCount, unitLifetimeDispatches
  record,        \* recoveryAttempts in .gsd/runtime/units; NoRecord: no such file
  rewriteCount,  \* rewriteAttemptCount
  \* History, read by properties only:
  sent,      \* prompts sent per unit, rewrite-docs apart, since the counters were cleared
  closing,   \* the slices for which complete-slice was ever sent
  unwritten  \* is there an override that no rewrite-docs prompt has been sent for

loopVars == <<mode, step, caller, skipDepth, selected>>
turnVars == <<agent, supervised, hardTimer>>
keyVars  == <<keys, keyFile>>
countVars == <<dispatchCount, lifetime, sent>>
historyVars == <<closing, unwritten>>
vars == <<loopVars, turnVars, currentUnit, milestone, disk, keyVars, countVars,
          record, rewriteCount, historyVars>>

Zero == [u \in Unit |-> 0]
NoRecord == -1
NoRecords == [u \in Unit |-> NoRecord]

\* Every variable has its type; no unit is sent more often than its counter allows.
TypeOK ==
  /\ mode \in {"stopped", "active", "paused"}
  /\ step \in {"dispatch", "selected", "returned", "agentEnd", "gap", "idle"}
  /\ caller \in {"start", "agentEnd", "gap", "timer"}
  /\ skipDepth \in 0..(MAX_SKIP_DEPTH + 1)
  /\ {agent, selected, supervised, currentUnit} \subseteq Unit \union {NoUnit}
  /\ hardTimer \in BOOLEAN /\ unwritten \in BOOLEAN
  /\ milestone \in Milestone \union {0}
  /\ disk \subseteq Fact
  /\ keys \subseteq Unit /\ keyFile \subseteq Unit
  /\ dispatchCount \in [Unit -> 0..MAX_UNIT_DISPATCHES]
  /\ lifetime \in [Unit -> 0..MAX_LIFETIME_DISPATCHES]
  /\ sent \in [Unit -> Nat]
  /\ record \in [Unit -> NoRecord..2]
  /\ rewriteCount \in 0..MAX_REWRITE_ATTEMPTS
  /\ closing \subseteq SliceId

Init ==
  /\ mode = "stopped" /\ step = "idle" /\ caller = "start" /\ skipDepth = 0
  /\ selected = NoUnit
  /\ agent = NoUnit /\ supervised = NoUnit /\ hardTimer = FALSE
  /\ currentUnit = NoUnit /\ milestone = 0
  /\ disk \in InitialDisks
  /\ keys = {} /\ keyFile = {}
  /\ dispatchCount = Zero /\ lifetime = Zero /\ sent = Zero
  /\ record = NoRecords /\ rewriteCount = 0
  /\ closing = {} /\ unwritten = (Override \in disk)

ClearTimers == supervised' = NoUnit /\ hardTimer' = FALSE
ClearCounts == dispatchCount' = Zero /\ lifetime' = Zero /\ sent' = Zero

\* pauseAuto
PauseEffects ==
  /\ mode' = "paused" /\ step' = "idle" /\ skipDepth' = 0 /\ selected' = NoUnit
  /\ ClearTimers
  /\ UNCHANGED caller

\* stopAuto
StopEffects ==
  /\ mode' = "stopped" /\ step' = "idle" /\ skipDepth' = 0 /\ selected' = NoUnit
  /\ ClearTimers /\ ClearCounts
  /\ currentUnit' = NoUnit /\ milestone' = 0
  /\ UNCHANGED <<caller, agent>>

Call(by) == step' = "dispatch" /\ caller' = by /\ skipDepth' = 0 /\ UNCHANGED selected

\* The doctor's passes, which their callers wrap in a try.
Passes(fixed) == {fixed} \union (IF DoctorMayFail THEN {disk} ELSE {})

\* Mutant: the artifact is looked for, not verified.
HealedUnverified(d) == {u \in Unit : record[u] # NoRecord /\ HasArtifact(d, u)}

\* selfHealRuntimeRecords: the records whose artifact is on disk.  Nobody stays away
\* for an hour: the records of older dispatches are not cleared.
Healed(d) == {u \in Unit : record[u] # NoRecord /\ HasArtifact(d, u) /\ Verified(d, u)}
WithoutRecords(U) == [u \in Unit |-> IF u \in U THEN NoRecord ELSE record[u]]

-------------------------------------------------------------------------------
(* Commands *)

\* startAuto in a process that is not paused; with nothing to do, or a milestone to
\* discuss first, it opens a menu instead.  Nothing stops it when already active.
StartAuto ==
  LET st == DeriveState(disk) healed == Healed(disk)
  IN /\ IF mode = "stopped" THEN "start" \in UserMay
                            ELSE mode = "active" /\ "restart" \in UserMay
     /\ step = "idle"
     /\ st.mid \in Milestone /\ st.phase # "complete"
     /\ st.phase = "pre-planning" => Context[st.mid] = "full"
     /\ mode' = "active" /\ Call("start")
     /\ ClearCounts
     /\ keys' = keyFile \union healed /\ keyFile' = keyFile \union healed
     /\ record' = WithoutRecords(healed)
     /\ currentUnit' = NoUnit /\ milestone' = st.mid
     /\ UNCHANGED <<turnVars, disk, rewriteCount, historyVars>>

\* startAuto in a paused process: the doctor repairs everything it can.
ResumeAuto ==
  /\ "resume" \in UserMay
  /\ mode = "paused"
  /\ mode' = "active" /\ Call("start")
  /\ ClearCounts
  /\ disk' \in Passes(DoctorAll(disk))
  /\ LET healed == Healed(disk')
     IN /\ keys' = keys \union healed
        /\ keyFile' = keyFile \union (healed \ keys)
        /\ record' = WithoutRecords(healed)
  /\ UNCHANGED <<turnVars, currentUnit, milestone, rewriteCount, historyVars>>

\* /gsd pause; also what the budget and context gates of dispatchNextUnit do.  The
\* agent goes on with its turn.  Commands wait for an invocation of dispatchNextUnit
\* that has chosen its unit.
Pause ==
  /\ "pause" \in UserMay
  /\ mode = "active" /\ step # "selected"
  /\ PauseEffects
  /\ UNCHANGED <<agent, currentUnit, milestone, disk, keyVars, countVars,
                 record, rewriteCount, historyVars>>

Stop ==
  /\ "stop" \in UserMay
  /\ mode # "stopped" /\ step # "selected"
  /\ StopEffects
  /\ UNCHANGED <<disk, keyVars, record, rewriteCount, historyVars>>

\* Mutant: an aborted turn is not noticed.
AbortIgnored ==
  /\ "abort" \in UserMay
  /\ mode = "active" /\ step = "idle" /\ agent # NoUnit
  /\ agent' = NoUnit
  /\ UNCHANGED <<loopVars, supervised, hardTimer, currentUnit, milestone, disk,
                 keyVars, countVars, record, rewriteCount, historyVars>>

\* Escape, or an error of the provider: agent_end with that stopReason pauses.
AgentAborted ==
  /\ "abort" \in UserMay
  /\ mode = "active" /\ step = "idle" /\ agent # NoUnit
  /\ agent' = NoUnit
  /\ PauseEffects
  /\ UNCHANGED <<currentUnit, milestone, disk, keyVars, countVars, record,
                 rewriteCount, historyVars>>

\* /gsd steer adds an override.
Steer ==
  /\ "steer" \in UserMay
  /\ Override \notin disk \/ ~unwritten
  /\ disk' = disk \union {Override} /\ unwritten' = TRUE
  /\ UNCHANGED <<loopVars, turnVars, currentUnit, milestone, keyVars, countVars,
                 record, rewriteCount, closing>>

Crash ==
  /\ "crash" \in UserMay
  /\ mode' = "stopped" /\ step' = "idle" /\ skipDepth' = 0 /\ caller' = "start"
  /\ selected' = NoUnit
  /\ ClearTimers /\ ClearCounts
  /\ agent' = NoUnit
  /\ currentUnit' = NoUnit /\ milestone' = 0
  /\ keys' = {} /\ rewriteCount' = 0
  /\ UNCHANGED <<disk, keyFile, record, historyVars>>

-------------------------------------------------------------------------------
(* The agent and the timers that supervise its turn *)

Outputs(u) ==
  CASE u[1] = "plan-milestone" -> {{"ROADMAP", "SLICES"} \X {u[2]}}
    [] u[1] = "plan-slice" -> {{"PLAN", "TASKS"} \X {u[2]}}
    [] u[1] = "replan-slice" -> {{"REPLAN"} \X {u[2]}}
    [] OTHER -> {{f} : f \in Required(u)}
Extras(u) ==
  CASE u[1] = "execute-task" /\ "blocker" \in Surprises -> {{"SUMMARY", "BLOCKER"} \X {u[2]}}
    [] u[1] = "plan-slice" /\ "empty-plan" \in Surprises -> {{"PLAN"} \X {u[2]}}
    [] OTHER -> {}

\* The disk after the agent has written these files: a real summary replaces a stub.
Write(d, W) == (d \union W) \ {<<"STUB", f[2]>> : f \in {g \in W : g[1] = "SUMMARY"}}

Finished(u) == \A W \in Outputs(u) : Write(disk, W) = disk

\* No agent event is handled in the middle of a dispatch.
AgentRuns == agent # NoUnit /\ (mode = "active" => step = "idle")

\* A rewrite-docs turn may itself mark the overrides of its prompt as resolved.
AgentWrites ==
  /\ AgentRuns
  /\ disk' \in {Write(disk, W) : W \in Outputs(agent) \union Extras(agent)}
               \union (IF agent[1] = "rewrite-docs" /\ ~unwritten THEN {disk \ {Override}} ELSE {})
  /\ disk' # disk
  /\ UNCHANGED <<loopVars, turnVars, currentUnit, milestone, keyVars, countVars,
                 record, rewriteCount, historyVars>>

AgentEnds ==
  /\ AgentRuns
  /\ agent[1] \in Flaky \/ Finished(agent)
  /\ agent' = NoUnit
  /\ step' = IF mode = "active" THEN "agentEnd" ELSE step
  /\ UNCHANGED <<mode, caller, skipDepth, selected, supervised, hardTimer,
                 currentUnit, milestone, disk, keyVars, countVars, record, rewriteCount, historyVars>>

\* recoverTimedOutUnit: a task advances when the agent has also moved the next action
\* of STATE.md on, any other unit when its artifact is there.
MayAdvance(u) == IF u[1] = "execute-task" THEN Verified(disk, u) ELSE HasArtifact(disk, u)
MayPersist(u) == u[1] = "execute-task" \/ ~HasArtifact(disk, u)
Attempts(u) == IF record[u] = NoRecord THEN 0 ELSE record[u]
\* Attempts are compared with 1 and 2 only: they saturate at 2.
OneMore(n) == IF n < 2 THEN n + 1 ELSE 2

Advance(u) ==
  /\ MayAdvance(u)
  /\ record' = IF u[1] = "execute-task" THEN record
               ELSE [record EXCEPT ![u] = OneMore(Attempts(u))]
  /\ Call("timer") /\ UNCHANGED <<mode, disk, supervised>>

SteerTurn(u, max) ==
  /\ MayPersist(u) /\ Attempts(u) < max
  /\ record' = [record EXCEPT ![u] = OneMore(Attempts(u))]
  /\ UNCHANGED <<loopVars, disk, supervised>>

\* The attempts are used up: a placeholder is written in the agent's stead.
SkipUnit(u, max) ==
  /\ MayPersist(u) /\ Attempts(u) >= max /\ u[1] \in DOMAIN Artifact
  /\ disk' = IF u[1] = "execute-task" THEN SkipTask(disk, u[2])
             ELSE disk \union {<<Artifact[u[1]], u[2]>>}
  /\ record' = [record EXCEPT ![u] = OneMore(Attempts(u))]
  /\ Call("timer") /\ UNCHANGED <<mode, supervised>>

GiveUp(u, max) ==
  /\ MayPersist(u) /\ Attempts(u) >= max /\ u[1] \notin DOMAIN Artifact
  /\ record' = [record EXCEPT ![u] = OneMore(Attempts(u))]
  /\ mode' = "paused" /\ step' = "idle" /\ skipDepth' = 0 /\ supervised' = NoUnit
  /\ UNCHANGED <<caller, selected, disk>>

RecoverTimedOutUnit(u, max) ==
  /\ Advance(u) \/ SteerTurn(u, max) \/ SkipUnit(u, max) \/ GiveUp(u, max)
  /\ UNCHANGED <<agent, currentUnit, milestone, keyVars, countVars, rewriteCount, historyVars>>

\* The idle watchdog finds no progress since the last dispatch or recovery message.
IdleTimeout ==
  /\ mode = "active" /\ step = "idle"
  /\ supervised \in Unit /\ supervised[1] \in Silent /\ currentUnit # NoUnit
  /\ record[supervised] # NoRecord
  /\ RecoverTimedOutUnit(supervised, 2)
  /\ hardTimer' = IF mode' = "paused" THEN FALSE ELSE hardTimer

\* The hard timeout fires once per dispatch.
HardTimeout ==
  /\ mode = "active" /\ step = "idle" /\ hardTimer
  /\ supervised \in Unit /\ supervised[1] \in Long /\ currentUnit # NoUnit
  /\ RecoverTimedOutUnit(supervised, 1)
  /\ hardTimer' = FALSE

-------------------------------------------------------------------------------
(* handleAgentEnd *)

\* The doctor's task-level pass on the slice of the unit, the resolution of the
\* overrides after rewrite-docs, the completion key of a verified unit.
HandleAgentEnd ==
  /\ mode = "active" /\ step = "agentEnd"
  /\ ClearTimers /\ Call("agentEnd")
  /\ IF currentUnit = NoUnit
     THEN UNCHANGED <<disk, keyVars, rewriteCount>>
     ELSE LET rewrite == currentUnit[1] = "rewrite-docs"
          IN \E d \in Passes(DoctorTask(disk, currentUnit[2])) :
               /\ disk' = IF rewrite THEN d \ {Override} ELSE d
               /\ rewriteCount' = IF rewrite THEN 0 ELSE rewriteCount
               /\ LET done == {u \in {currentUnit} : Verified(disk', u)}
                  IN keys' = keys \union done /\ keyFile' = keyFile \union (done \ keys)
  /\ UNCHANGED <<mode, agent, currentUnit, milestone, countVars, record,
                 historyVars>>

\* The dispatch gap watchdog, five seconds after an agent_end that sent nothing.
GapWatchdog ==
  /\ mode = "active" /\ step = "gap"
  /\ Call("gap")
  /\ UNCHANGED <<mode, turnVars, currentUnit, milestone, disk, keyVars, countVars,
                 record, rewriteCount, historyVars>>

\* dispatchNextUnit has returned to its caller without having sent anything.
ReturnToCaller ==
  /\ mode = "active" /\ step = "returned" /\ caller # "gap"
  /\ step' = IF caller = "agentEnd" THEN "gap" ELSE "idle"
  /\ UNCHANGED <<mode, caller, skipDepth, selected, turnVars, currentUnit, milestone, disk,
                 keyVars, countVars, record, rewriteCount, historyVars>>

GapGivesUp ==
  /\ mode = "active" /\ step = "returned" /\ caller = "gap"
  /\ StopEffects
  /\ UNCHANGED <<disk, keyVars, record, rewriteCount, historyVars>>

-------------------------------------------------------------------------------
(* dispatchNextUnit *)

Dispatching == mode = "active" /\ step = "dispatch"

\* After more skips in a chain than this the depth starts again, after a pause.
Depth == IF skipDepth > MAX_SKIP_DEPTH THEN 0 ELSE skipDepth

\* No active milestone, everything complete, or blocked.
NothingLeft ==
  /\ Dispatching
  /\ \E st \in {DeriveState(disk)} :
       /\ st.mid = 0 \/ st.phase \in {"complete", "blocked"}
       /\ IF st.mid # 0 /\ st.phase = "complete" THEN keys' = {} /\ keyFile' = {}
                                                 ELSE UNCHANGED keyVars
  /\ StopEffects
  /\ UNCHANGED <<disk, record, rewriteCount, historyVars>>

\* The override gate: its rule counts its dispatches and, after too many, gives the
\* overrides up as resolved.
GateGivesUp == Override \in disk /\ rewriteCount >= MAX_REWRITE_ATTEMPTS
GatedDisk == IF GateGivesUp THEN disk \ {Override} ELSE disk
GatedCount == IF GateGivesUp THEN 0
              ELSE IF Override \in disk THEN rewriteCount + 1 ELSE rewriteCount

Selection(d, st) ==
  IF Override \in d
  THEN <<"rewrite-docs", IF st.sid = 0 THEN <<st.mid>> ELSE <<st.mid, st.sid>>>>
  ELSE TableUnit(d, st)

\* The invocation up to the dispatch table; a new active milestone starts with
\* counters of its own.
ResolveDispatch ==
  /\ Dispatching
  /\ \E st \in {DeriveState(disk)} :
       /\ st.mid \in Milestone /\ st.phase \notin {"complete", "blocked"}
       /\ milestone' = st.mid
       /\ IF milestone \in {0, st.mid} THEN UNCHANGED countVars ELSE ClearCounts
       /\ disk' = GatedDisk /\ rewriteCount' = GatedCount
       /\ selected' = Selection(disk', st) /\ selected' \in Unit \union {NoUnit}
  /\ step' = "selected" /\ skipDepth' = Depth
  /\ UNCHANGED <<mode, caller, turnVars, currentUnit, keyVars, record, historyVars>>

\* dispatchNextUnit calls itself: within a chain of skips the call goes on, else it
\* finds _dispatching set and returns at once.
Redispatch ==
  /\ step' = IF skipDepth = 0 THEN "returned" ELSE "dispatch"
  /\ selected' = NoUnit
  /\ UNCHANGED <<mode, caller, skipDepth>>

\* A pre-dispatch hook skips the unit.
SkippedByHook ==
  /\ step = "selected" /\ selected \in Unit /\ selected[1] \in SkipTypes
  /\ Redispatch
  /\ UNCHANGED <<turnVars, currentUnit, milestone, disk, keyVars, countVars, record,
                 rewriteCount, historyVars>>

\* The table says stop, or the dispatch guard does.
Refused ==
  /\ step = "selected"
  /\ selected = NoUnit \/ (selected[1] \notin SkipTypes /\ Blocked(disk, selected))
  /\ StopEffects
  /\ UNCHANGED <<disk, keyVars, record, rewriteCount, historyVars>>

Admitted(u) == /\ step = "selected" /\ u = selected
               /\ u[1] \notin SkipTypes /\ ~Blocked(disk, u)

\* Its artifact is there: the unit is skipped, and its key written if it was missing.
SkipVerified(u) ==
  /\ Admitted(u) /\ Verified(disk, u)
  /\ keys' = keys \union {u} /\ keyFile' = keyFile \union ({u} \ keys)
  /\ step' = "dispatch" /\ skipDepth' = skipDepth + 1 /\ selected' = NoUnit
  /\ UNCHANGED <<mode, caller, turnVars, currentUnit, milestone, disk, countVars, record,
                 rewriteCount, historyVars>>

\* The unit has to run; a key of it is stale and is removed.
MustRun(u) == Admitted(u) /\ ~Verified(disk, u)
FreshKeys(u) == keys \ {u}
FreshKeyFile(u) == IF u \in keys THEN keyFile \ {u} ELSE keyFile
WithinLifetime(u) == lifetime[u] < MAX_LIFETIME_DISPATCHES
\* Mutant: one dispatch too many.
AtLimitOffByOne(u) == dispatchCount[u] > MAX_UNIT_DISPATCHES
AtLimit(u) == dispatchCount[u] >= MAX_UNIT_DISPATCHES
Repairable(u) == /\ u[1] = "execute-task" /\ dispatchCount[u] > 0
                 /\ <<"SUMMARY", u[2]>> \in disk

\* What the reconciliation of a unit at its limit, and the self-repair of a task,
\* leave on the disk.
Reconciled(u) ==
  CASE u[1] = "execute-task" -> SkipTask(disk, u[2])
    [] u[1] = "complete-milestone" -> disk \union {<<"SUMMARY", u[2]>>}
    [] OTHER -> disk

\* At the limit, or on the retry of a task that lacks only its checkbox, the missing
\* artifacts are written and the unit counts as completed.
Reconcile(u) ==
  /\ MustRun(u) /\ WithinLifetime(u) /\ (AtLimit(u) \/ Repairable(u))
  /\ disk' = Reconciled(u) /\ Verified(disk', u)
  /\ keys' = keys \union {u} /\ keyFile' = keyFile \union {u}
  /\ dispatchCount' = [dispatchCount EXCEPT ![u] = 0]
  /\ lifetime' = [lifetime EXCEPT ![u] = @ + 1]
  /\ Redispatch
  /\ UNCHANGED <<turnVars, currentUnit, milestone, sent, record, rewriteCount, historyVars>>

\* The lifetime cap, or the limit of a unit that nothing can stand in for.
LoopDetected(u) ==
  /\ MustRun(u)
  /\ ~WithinLifetime(u) \/ (AtLimit(u) /\ ~Verified(Reconciled(u), u))
  /\ keys' = FreshKeys(u) /\ keyFile' = FreshKeyFile(u)
  /\ StopEffects
  /\ UNCHANGED <<disk, record, rewriteCount, historyVars>>

\* The third dispatch of a task without a summary leaves a stub for its session.
Stubs(u) == IF /\ u[1] = "execute-task" /\ dispatchCount[u] >= STUB_RECOVERY_THRESHOLD
               /\ <<"SUMMARY", u[2]>> \notin disk
            THEN {"SUMMARY", "STUB"} \X {u[2]} ELSE {}

\* Mutant: without the look at the artifact.
ClosedUnverified(u) == {currentUnit} \ {NoUnit, u}

\* The previous unit is closed out if another one follows and its artifact is there.
Closed(u) == {c \in {currentUnit} \ {NoUnit, u} : Verified(disk \union Stubs(u), c)}

\* The prompt of the unit goes to a new session, which ends whatever turn was running;
\* an extension may cancel that session, when the closeout is already done.
Send(u) ==
  /\ MustRun(u) /\ WithinLifetime(u) /\ ~AtLimit(u) /\ ~Repairable(u)
  /\ disk' = disk \union Stubs(u)
  /\ keys' = FreshKeys(u) \union Closed(u)
  /\ keyFile' = FreshKeyFile(u) \union Closed(u)
  /\ record' = [c \in Unit |-> IF c \in Closed(u) THEN NoRecord
                               ELSE IF c = u THEN Attempts(u) ELSE record[c]]
  /\ UNCHANGED rewriteCount
  /\ \/ /\ "cancel" \in UserMay
        /\ StopEffects /\ UNCHANGED <<closing, unwritten>>
     \/ /\ agent' = u /\ currentUnit' = u
        /\ dispatchCount' = [c \in Unit |-> IF c \in Closed(u) THEN 0
                                            ELSE IF c = u THEN dispatchCount[u] + 1
                                            ELSE dispatchCount[c]]
        /\ lifetime' = [lifetime EXCEPT ![u] = @ + 1]
        /\ sent' = IF u[1] = "rewrite-docs" THEN sent ELSE [sent EXCEPT ![u] = @ + 1]
        /\ closing' = IF u[1] = "complete-slice" THEN closing \union {u[2]} ELSE closing
        /\ unwritten' = (unwritten /\ u[1] # "rewrite-docs")
        /\ UNCHANGED milestone
        /\ IF u[1] = "run-uat" /\ UatHuman
           THEN PauseEffects
           ELSE /\ step' = "idle" /\ skipDepth' = 0 /\ selected' = NoUnit
                /\ supervised' = u /\ hardTimer' = TRUE
                /\ UNCHANGED <<mode, caller>>

DispatchNextUnit ==
  \/ NothingLeft \/ ResolveDispatch \/ SkippedByHook \/ Refused
  \/ \E u \in {selected} \ {NoUnit} :
       SkipVerified(u) \/ Reconcile(u) \/ LoopDetected(u) \/ Send(u)

-------------------------------------------------------------------------------
(* Specification *)

Commands == StartAuto \/ ResumeAuto \/ Pause \/ Stop \/ AgentAborted \/ Steer \/ Crash
Timers == IdleTimeout \/ HardTimeout
Loop == HandleAgentEnd \/ GapWatchdog \/ ReturnToCaller \/ GapGivesUp \/ DispatchNextUnit

Next == Commands \/ AgentWrites \/ AgentEnds \/ Timers \/ Loop

Spec == Init /\ [][Next]_vars

\* Every callback and timer of the loop runs; a turn of the agent writes, ends, or is
\* silent for long enough to be found by the idle watchdog.
FairSpec == Spec /\ WF_vars(Loop) /\ WF_vars(AgentWrites \/ AgentEnds \/ IdleTimeout)

-------------------------------------------------------------------------------
(* Properties *)

\* A run of auto-mode ends: no chain of skips and no cycle of dispatches, recoveries
\* and repairs in dispatchNextUnit goes on forever.
RunsEnd == (mode = "active") ~> (mode # "active")

\* The retry logic sends no unit more than three times before its counters are
\* cleared: no key, closeout or repair forgets a unit that still has to run.
\* rewrite-docs starts over with every new override.
RetriesBounded == \A u \in Unit : sent[u] <= MAX_UNIT_DISPATCHES

\* A key in completedKeySet means that the artifacts of the unit are on disk.
KeysBacked == \A u \in keys : u[1] # "rewrite-docs" => Verified(disk, u)

\* A unit is worked on when what it builds on is done: the slices of earlier
\* milestones, the earlier slices of its roadmap and those it depends on, and the earlier tasks of its plan.
InOrder(u) ==
  /\ u[1] \in GuardedTypes => /\ \A m \in Milestone : m < u[2][1] => OpenSlices(disk, m) = {}
                              /\ \A s \in Slices(disk, u[2][1]) :
                                    s < u[2][2] => SliceDone(disk, u[2][1], s)
                              /\ \A s \in SliceDeps[<<u[2][1], u[2][2]>>] :
                                    SliceDone(disk, u[2][1], s)
  /\ u[1] = "execute-task" => \A t \in 1..NumTasks[<<u[2][1], u[2][2]>>] :
                                 t < u[2][3] => TaskDone(disk, u[2], t)
  /\ u[1] = "complete-slice" => OpenTasks(disk, u[2]) = {}
  /\ u[1] = "complete-milestone" => OpenSlices(disk, u[2][1]) = {}
WorkInOrder == mode = "active" /\ step = "idle" /\ agent # NoUnit => InOrder(agent)

\* No slice is begun before the one that was completed last has its UAT result, if
\* UAT is dispatched, and its reassessment.
BetweenSlicesWorked ==
  \A u \in {agent} : mode = "active" /\ step = "idle"
                     /\ u[1] \in {"research-slice", "plan-slice", "execute-task"}
    => ~NeedsRunUat(disk, u[2][1]) /\ ~NeedsReassessment(disk, u[2][1])

\* A slice is marked done in the roadmap by its complete-slice unit; the bookkeeping
\* after every agent_end leaves that transition to it.
SlicesClosedByUnit ==
  \A i \in SliceId : <<"x", i>> \in disk => i \in closing

\* Auto-mode is never active with nothing running, nothing armed and nothing due.
NeverStalled == ~(mode = "active" /\ step = "idle" /\ agent = NoUnit)

\* No unit that the dispatch table selects is refused by the dispatch guard.
GuardAgrees ==
  step = "selected" => selected = NoUnit \/ ~Blocked(disk, selected)

===============================================================================
