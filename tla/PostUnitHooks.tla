---------------------------- MODULE PostUnitHooks ----------------------------
(***************************************************************************)
(* The post-unit hook engine of auto-mode (post-unit-hooks.ts) together    *)
(* with the part of auto.ts that drives it: handleAgentEnd, startAuto,     *)
(* pauseAuto, stopAuto and the hard timeout of a hook turn.                *)
(*                                                                         *)
(* A core unit is one task of the plan; when its turn ends, the hooks      *)
(* configured for its type run one after the other, each in a session of   *)
(* its own, before the next core unit is dispatched.  How the next core    *)
(* unit is chosen is reduced here to "the first one not done on disk"; the *)
(* module AutoDispatch has the whole of it.                                *)
(***************************************************************************)
EXTENDS Integers

CONSTANTS
  NumHooks,         \* hooks are numbered in the order of the configuration
  NumUnits,         \* core units are numbered in the order of the plan
  Triggers,         \* Triggers[h]: the units whose type is in the hook's `after`
  MaxCycles,        \* MaxCycles[h]: max_cycles of the hook, clamped to 1..10
  HasArtifact,      \* the hooks configured with `artifact`
  HasRetry,         \* the hooks configured with `retry_on`
  Isolation,        \* git.isolation: "branch" or "worktree"
  InterruptPoints,  \* where a /gsd pause, stop, auto or next may arrive
  MaxCrashes        \* bound: how many times the process is killed

Hook == 1..NumHooks
Unit == 1..NumUnits
Key  == Hook \X Unit

ASSUME HookConfig ==
  /\ NumHooks \in Nat /\ NumUnits \in Nat
  /\ Triggers \in [Hook -> SUBSET Unit]
  /\ MaxCycles \in [Hook -> 1..10]
  /\ HasArtifact \subseteq Hook /\ HasRetry \subseteq Hook
  /\ Isolation \in {"branch", "worktree"}
  /\ InterruptPoints \subseteq {"core", "hook", "await"}
  /\ MaxCrashes \in Nat

VARIABLES
  autoMode,      \* active / paused of auto.ts: "stopped", "active", "paused"
  stepMode,
  basePath,      \* "root", or "worktree" once the process has entered it
  currentUnit,   \* what auto-mode believes the agent is running
  agent,         \* the agent's turn: "idle", "busy", or "ended" (agent_end due)
  handling,      \* _handlingAgentEnd
  pending,       \* the hooks whose newSession() is awaited in handleAgentEnd
  hookTimer,     \* is the hard timeout of a hook turn armed (unitTimeoutHandle)
  activeHook, hookQueue, cycleCounts,  \* the module state of the engine
  hookFile,      \* .gsd/hook-state.json of each directory
  done,          \* the units whose summary and checkbox are on disk
  artifacts, retryFiles,               \* what hook turns have written
  runs,          \* history: prompts sent per key since the last clean stop
  crashes

engineVars == <<activeHook, hookQueue, cycleCounts>>
diskVars   == <<done, artifacts, retryFiles>>
vars == <<autoMode, stepMode, basePath, currentUnit, agent, handling, pending,
          hookTimer, engineVars, hookFile, diskVars, runs, crashes>>

None   == [kind |-> "none", hook |-> 0, unit |-> 0]
Core(u)      == [kind |-> "core", hook |-> 0, unit |-> u]
HookUnit(h, u) == [kind |-> "hook", hook |-> h, unit |-> u]
Units  == {None} \union {Core(u) : u \in Unit} \union {HookUnit(k[1], k[2]) : k \in Key}

NoCounts == [k \in Key |-> 0]
NoFile   == [k \in Key |-> -1]      \* hook-state.json does not exist
NoQueue  == [unit |-> 0, hooks |-> {}]
Dir      == {"root", "worktree"}
Counts   == {f \in [Key -> Nat] : \A k \in Key : f[k] <= MaxCycles[k[1]]}

\* Every variable has its type, and no cycle count, in memory or on disk, ever
\* exceeds the max_cycles of its hook (dequeueNextHook checks before it counts).
TypeOK ==
  /\ autoMode \in {"stopped", "active", "paused"}
  /\ stepMode \in BOOLEAN /\ handling \in BOOLEAN /\ hookTimer \in BOOLEAN
  /\ basePath \in Dir
  /\ currentUnit \in Units /\ activeHook \in Units
  /\ agent \in {"idle", "busy", "ended"}
  /\ pending \subseteq Key
  /\ hookQueue \in [unit : Unit \union {0}, hooks : SUBSET Hook]
  /\ cycleCounts \in Counts
  /\ hookFile \in [Dir -> Counts \union {NoFile}]
  /\ done \subseteq Unit
  /\ artifacts \subseteq Key /\ retryFiles \subseteq Key
  /\ runs \in [Key -> Nat]
  /\ crashes \in 0..MaxCrashes

------------------------------------------------------------------------------
(* The engine: checkPostUnitHooks, dequeueNextHook, handleHookCompletion.  *)

\* dequeueNextHook skips an entry whose artifact exists or whose cycles are used up.
\* (RunnableUnlimited: the cycle check left out.)
RunnableUnlimited(h, u) == h \in HasArtifact => <<h, u>> \notin artifacts

Runnable(h, u) ==
  /\ h \in HasArtifact => <<h, u>> \notin artifacts
  /\ cycleCounts[<<h, u>>] + 1 <= MaxCycles[h]

\* The queue a completed core unit builds; a hook unit builds none.
QueueFor(c) ==
  [unit |-> c.unit, hooks |-> {h \in Hook : c.kind = "core" /\ c.unit \in Triggers[h]}]

\* The queue that checkPostUnitHooks dequeues from: what is left of the running
\* trigger when a hook is active, a new one otherwise.
QueueNow == IF activeHook # None THEN hookQueue ELSE QueueFor(currentUnit)

\* (AnyRunnable: the order of the queue ignored.)
AnyRunnable(q, h) == h \in q.hooks /\ Runnable(h, q.unit)

IsNextHook(q, h) ==
  /\ h \in q.hooks /\ Runnable(h, q.unit)
  /\ \A g \in q.hooks : g < h => ~Runnable(g, q.unit)

\* handleHookCompletion: the retry_on file is there and a cycle is left.
WantsRetry ==
  /\ activeHook # None
  /\ activeHook.hook \in HasRetry
  /\ <<activeHook.hook, activeHook.unit>> \in retryFiles
  /\ cycleCounts[<<activeHook.hook, activeHook.unit>>] < MaxCycles[activeHook.hook]

\* The engine falls idle.  (KeepHook: activeHook left behind.)
KeepHook == hookQueue' = NoQueue /\ UNCHANGED activeHook
EndHooks == hookQueue' = NoQueue /\ activeHook' = None

ResetHookState == EndHooks /\ cycleCounts' = NoCounts

\* (RestoreNothing: the counts on disk never read back.)
RestoreNothing(counts, dir) == counts

\* restoreHookState: a missing file leaves the counts alone.
Restored(counts, dir) == IF hookFile[dir] = NoFile THEN counts ELSE hookFile[dir]

\* clearPersistedHookState empties the file if there is one.
Cleared(dir) == IF hookFile[dir] = NoFile THEN NoFile ELSE NoCounts

------------------------------------------------------------------------------
(* Auto-mode around the engine.                                            *)

\* deriveState, reduced: the first unit that is not done, if any.
IsNextUnit(u) == u \in Unit \ done /\ \A v \in Unit : v < u => v \in done
AllDone == done = Unit

\* dispatchNextUnit sends the next core unit in a fresh session.
Dispatch ==
  \E u \in Unit :
    /\ IsNextUnit(u)
    /\ currentUnit' = Core(u)
    /\ agent' = "busy"
    /\ autoMode' = "active"
    /\ hookTimer' = FALSE

\* stopAuto: the counts of the session end with it, in memory and on disk.
StopEffects ==
  /\ ResetHookState
  /\ hookFile' = [hookFile EXCEPT ![basePath] = Cleared(basePath)]
  /\ autoMode' = "stopped" /\ stepMode' = FALSE
  /\ currentUnit' = None
  /\ handling' = FALSE
  /\ hookTimer' = FALSE
  /\ runs' = NoCounts
  /\ UNCHANGED basePath

Point == IF pending # {} THEN "await"
         ELSE IF currentUnit.kind = "hook" THEN "hook"
         ELSE "core"

CommandPossible == Point \in InterruptPoints

Init ==
  /\ autoMode = "stopped" /\ stepMode = FALSE /\ basePath = "root"
  /\ currentUnit = None /\ agent = "idle"
  /\ handling = FALSE /\ pending = {} /\ hookTimer = FALSE
  /\ activeHook = None /\ hookQueue = NoQueue /\ cycleCounts = NoCounts
  /\ hookFile = [d \in Dir |-> NoFile]
  /\ done = {} /\ artifacts = {} /\ retryFiles = {}
  /\ runs = NoCounts /\ crashes = 0

\* startAuto, fresh branch.  Nothing stops it from running while auto-mode is
\* already active.  The counts are read from the directory the command runs in,
\* before the worktree is entered.
StartAuto(step) ==
  /\ autoMode # "paused"
  /\ (autoMode = "stopped" /\ pending = {}) \/ CommandPossible
  /\ ~AllDone
  /\ Dispatch
  /\ stepMode' = step
  /\ EndHooks
  /\ cycleCounts' = Restored(NoCounts, basePath)
  /\ basePath' = IF Isolation = "worktree" THEN "worktree" ELSE "root"
  /\ UNCHANGED <<handling, pending, hookFile, diskVars, runs, crashes>>

\* startAuto, resume branch: only the counts are restored; activeHook and
\* hookQueue keep the values they had when auto-mode was paused.
ResumeAuto(step) ==
  /\ autoMode = "paused"
  /\ pending = {} \/ CommandPossible
  /\ UNCHANGED <<pending, diskVars, crashes>>
  /\ \/ /\ Dispatch
        /\ stepMode' = step
        /\ cycleCounts' = Restored(cycleCounts, basePath)
        /\ UNCHANGED <<basePath, handling, activeHook, hookQueue, hookFile, runs>>
     \/ /\ AllDone
        /\ StopEffects
        /\ UNCHANGED agent

PauseAuto ==
  /\ autoMode = "active" /\ CommandPossible
  /\ autoMode' = "paused"
  /\ hookTimer' = FALSE
  /\ \/ UNCHANGED agent                       \* /gsd pause: the turn goes on
     \/ agent = "busy" /\ agent' = "idle"     \* Escape: the turn is aborted
  /\ UNCHANGED <<stepMode, basePath, currentUnit, handling, pending, engineVars,
                 hookFile, diskVars, runs, crashes>>

StopAuto ==
  /\ autoMode # "stopped" /\ CommandPossible
  /\ StopEffects
  /\ UNCHANGED <<agent, pending, diskVars, crashes>>

\* A turn ends.  A core turn may finish its unit (summary written, checkbox set
\* by the agent or by the doctor pass of handleAgentEnd) and may fix what a hook
\* complained of; a hook turn may write its artifact and its retry_on file.
AgentTurn ==
  /\ agent = "busy"
  /\ agent' = "ended"
  /\ \/ /\ currentUnit.kind = "core"
        /\ done' \in {done, done \union {currentUnit.unit}}
        /\ retryFiles' \in {retryFiles, {k \in retryFiles : k[2] # currentUnit.unit}}
        /\ UNCHANGED artifacts
     \/ /\ currentUnit.kind = "hook"
        /\ LET k == <<currentUnit.hook, currentUnit.unit>> IN
           \/ artifacts' = artifacts \union {k} /\ UNCHANGED retryFiles
           \/ retryFiles' = retryFiles \union {k} /\ UNCHANGED artifacts
           \/ UNCHANGED <<artifacts, retryFiles>>
        /\ UNCHANGED done
     \/ currentUnit.kind = "none" /\ UNCHANGED diskVars
  /\ UNCHANGED <<autoMode, stepMode, basePath, currentUnit, handling, pending,
                 hookTimer, engineVars, hookFile, runs, crashes>>

\* agent_end while auto-mode is not active, or while a handler is running.
AgentEndIgnored ==
  /\ agent = "ended"
  /\ autoMode # "active" \/ handling
  /\ agent' = "idle"
  /\ UNCHANGED <<autoMode, stepMode, basePath, currentUnit, handling, pending,
                 hookTimer, engineVars, hookFile, diskVars, runs, crashes>>

AgentEndDue == autoMode = "active" /\ agent = "ended" /\ ~handling /\ currentUnit # None

\* handleAgentEnd dequeues a hook and awaits newSession() for it.
HookDequeued ==
  /\ AgentEndDue /\ ~stepMode /\ ~WantsRetry
  /\ \E h \in QueueNow.hooks :
       LET u == QueueNow.unit IN
       /\ IsNextHook(QueueNow, h)
       /\ <<h, u>> \notin pending
       /\ activeHook' = HookUnit(h, u)
       /\ currentUnit' = HookUnit(h, u)
       /\ hookQueue' = [unit |-> u, hooks |-> {g \in QueueNow.hooks : g > h}]
       /\ cycleCounts' = [cycleCounts EXCEPT ![<<h, u>>] = @ + 1]
       /\ pending' = pending \union {<<h, u>>}
  /\ handling' = TRUE /\ hookTimer' = FALSE
  /\ agent' = "idle"
  /\ UNCHANGED <<autoMode, stepMode, basePath, hookFile, diskVars, runs, crashes>>

\* No hook is left: the queue is empty and the next core unit is dispatched.
HooksFinished ==
  /\ AgentEndDue /\ ~stepMode /\ ~WantsRetry
  /\ \A h \in QueueNow.hooks : ~Runnable(h, QueueNow.unit)
  /\ UNCHANGED <<pending, diskVars, crashes>>
  /\ \/ /\ Dispatch
        /\ EndHooks
        /\ UNCHANGED <<stepMode, basePath, handling, cycleCounts, hookFile, runs>>
     \/ /\ AllDone
        /\ StopEffects
        /\ agent' = "idle"

\* The hook asked for a retry: the queue is dropped, the completion key of the
\* trigger is removed, and handleAgentEnd falls through to dispatchNextUnit.
HookRetry ==
  /\ AgentEndDue /\ ~stepMode /\ WantsRetry
  /\ UNCHANGED <<pending, diskVars, crashes>>
  /\ \/ /\ Dispatch
        /\ EndHooks
        /\ UNCHANGED <<stepMode, basePath, handling, cycleCounts, hookFile, runs>>
     \/ /\ AllDone
        /\ StopEffects
        /\ agent' = "idle"

\* Step mode never consults the engine: the wizard continues, switches to auto
\* mode, or pauses.
StepWizard ==
  /\ AgentEndDue /\ stepMode
  /\ UNCHANGED <<pending, diskVars, crashes>>
  /\ \/ /\ Dispatch
        /\ stepMode' \in BOOLEAN
        /\ UNCHANGED <<basePath, handling, engineVars, hookFile, runs>>
     \/ /\ ~AllDone
        /\ autoMode' = "paused" /\ agent' = "idle"
        /\ hookTimer' = FALSE
        /\ UNCHANGED <<stepMode, basePath, currentUnit, handling, engineVars, hookFile,
                       runs>>
     \/ /\ AllDone
        /\ StopEffects
        /\ agent' = "idle"

\* newSession() of a hook resolves: the counts are persisted, the hard timeout is
\* armed, and the prompt is sent if auto-mode is still active.
HookSession(k) ==
  /\ k \in pending
  /\ pending' = pending \ {k}
  /\ hookFile' = [hookFile EXCEPT ![basePath] = cycleCounts]
  /\ hookTimer' = TRUE
  /\ handling' = FALSE
  /\ IF autoMode = "active"
     THEN agent' = "busy" /\ runs' = [runs EXCEPT ![k] = @ + 1]
     ELSE UNCHANGED <<agent, runs>>
  /\ UNCHANGED <<autoMode, stepMode, basePath, currentUnit, engineVars, diskVars,
                 crashes>>

\* newSession() of a hook is cancelled by an extension: auto-mode stops.
HookSessionCancelled(k) ==
  /\ k \in pending
  /\ pending' = pending \ {k}
  /\ UNCHANGED <<agent, diskVars, crashes>>
  /\ IF autoMode = "stopped"
     THEN /\ ResetHookState
          /\ handling' = FALSE
          /\ UNCHANGED <<autoMode, stepMode, basePath, currentUnit, hookTimer,
                         hookFile, runs>>
     ELSE StopEffects

\* The hard timeout of a hook turn.
HookTimeout ==
  /\ hookTimer /\ agent = "busy"
  /\ hookTimer' = FALSE
  /\ IF autoMode = "active"
     THEN ResetHookState /\ autoMode' = "paused"
     ELSE UNCHANGED <<autoMode, engineVars>>
  /\ UNCHANGED <<stepMode, basePath, currentUnit, agent, handling, pending, hookFile,
                 diskVars, runs, crashes>>

\* The process dies; the next one starts in the project root with fresh module
\* state, and its user runs /gsd auto or /gsd next.
Crash ==
  /\ crashes < MaxCrashes
  /\ crashes' = crashes + 1
  /\ autoMode' = "stopped" /\ stepMode' = FALSE /\ basePath' = "root"
  /\ currentUnit' = None /\ agent' = "idle"
  /\ handling' = FALSE /\ pending' = {} /\ hookTimer' = FALSE
  /\ ResetHookState
  /\ UNCHANGED <<hookFile, diskVars, runs>>

Next ==
  \/ \E step \in BOOLEAN : StartAuto(step) \/ ResumeAuto(step)
  \/ PauseAuto \/ StopAuto
  \/ AgentTurn \/ AgentEndIgnored
  \/ HookDequeued \/ HooksFinished \/ HookRetry \/ StepWizard
  \/ \E k \in pending : HookSession(k) \/ HookSessionCancelled(k)
  \/ HookTimeout
  \/ Crash

Spec == Init /\ [][Next]_vars

------------------------------------------------------------------------------
(* Properties.                                                             *)

\* types.ts: max_cycles is the "max times this hook can fire for the same trigger
\* unit".  The prompts really sent are counted, over pauses, resumes, timeouts and
\* crashes, from one clean stop to the next.
HookRunsBounded == \A k \in Key : runs[k] <= MaxCycles[k[1]]

\* checkPostUnitHooks: "if we just completed a hook unit, handle its result".  When
\* the engine takes an agent_end for the completion of a hook, the unit that ended
\* is that hook, so no core unit is mistaken for one.
CompletionAttributed ==
  AgentEndDue /\ ~stepMode /\ activeHook # None => currentUnit = activeHook

\* When handleAgentEnd moves on (or stops: all done) without a retry, every hook
\* configured for the unit that ended has run at least once or has its artifact.
HooksRanBeforeAdvance ==
  [][ HooksFinished =>
        \A h \in Hook : currentUnit.unit \in Triggers[h] =>
          \/ runs[<<h, currentUnit.unit>>] >= 1
          \/ h \in HasArtifact /\ <<h, currentUnit.unit>> \in artifacts ]_vars
==============================================================================
