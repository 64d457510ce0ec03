------------------------- MODULE PostUnitHooksProofs -------------------------
(* Under branch isolation, and when no command arrives while a hook session   *)
(* is being opened, a hook never runs more than max_cycles times for a unit,   *)
(* whatever the number of hooks, units, crashes, pauses and timeouts.  When no *)
(* command arrives during hooks at all, every hook has its turn before         *)
(* auto-mode moves on, and is taken for the hook it is: in a worktree too.     *)
EXTENDS PostUnitHooks, TLAPS

Benign == Isolation = "branch" /\ "await" \notin InterruptPoints

\* At most one hook session is being opened, by a handler of active auto-mode.
OneOpening ==
  /\ \A k, l \in pending : k = l
  /\ pending # {} => autoMode = "active" /\ handling /\ ~hookTimer

\* While auto-mode is active the counts in memory cover the prompts sent and the
\* one about to be sent.
MemoryCovers ==
  autoMode = "active" =>
    \A k \in Key : runs[k] + (IF k \in pending THEN 1 ELSE 0) <= cycleCounts[k]

\* The file always covers the prompts sent: it is what a restart starts from.
FileCovers ==
  \A k \in Key : runs[k] <= IF hookFile["root"] = NoFile THEN 0 ELSE hookFile["root"][k]

\* A queue with hooks in it belongs to a unit.
QueueOwned == hookQueue.hooks # {} => hookQueue.unit \in Unit

IInv == TypeOK /\ QueueOwned /\ basePath = "root" /\ OneOpening /\ MemoryCovers /\ FileCovers

\* The units of the model, and the key of a hook unit.
LEMMA KeyTypes ==
  /\ None \in Units
  /\ \A u \in Unit : Core(u) \in Units
  /\ \A h \in Hook, u \in Unit : HookUnit(h, u) \in Units
  /\ NoCounts \in Counts
<1>1. None \in Units /\ \A u \in Unit : Core(u) \in Units
  BY DEF Units
<1>2. ASSUME NEW h \in Hook, NEW u \in Unit PROVE HookUnit(h, u) \in Units
  <2>1. <<h, u>> \in Key /\ <<h, u>>[1] = h /\ <<h, u>>[2] = u
    BY DEF Key
  <2> QED BY <2>1 DEF Units
<1>3. ASSUME NEW k \in Key PROVE MaxCycles[k[1]] \in 1..10
  BY <1>3, HookConfig DEF Key
<1>4. NoCounts \in Counts
  BY <1>3 DEF NoCounts, Counts
<1> QED BY <1>1, <1>2, <1>4

\* An idle engine has the right type.
LEMMA EndHooksTypes ==
  EndHooks => /\ activeHook' \in Units
              /\ hookQueue' \in [unit : Unit \union {0}, hooks : SUBSET Hook]
              /\ QueueOwned'
  BY KeyTypes DEF EndHooks, NoQueue, QueueOwned

\* clearPersistedHookState and restoreHookState keep the type of the counts.
LEMMA FileTypes ==
  ASSUME TypeOK, NEW d \in Dir, NEW c \in Counts
  PROVE  /\ Restored(c, d) \in Counts
         /\ Cleared(d) \in Counts \union {NoFile}
  BY KeyTypes DEF Restored, Cleared, TypeOK

THEOREM InitIInv == Init => IInv
<1> SUFFICES ASSUME Init PROVE IInv
  OBVIOUS
<1>1. TypeOK
  <2>1. cycleCounts \in Counts /\ runs \in [Key -> Nat] /\ hookFile \in [Dir -> Counts \union {NoFile}]
    BY KeyTypes DEF Init, Counts
  <2>2. currentUnit \in Units /\ activeHook \in Units /\ crashes \in 0..MaxCrashes
    BY KeyTypes, HookConfig DEF Init
  <2>3. hookQueue \in [unit : Unit \union {0}, hooks : SUBSET Hook]
    BY DEF Init, NoQueue
  <2> QED BY <2>1, <2>2, <2>3 DEF Init, TypeOK, Dir
<1>2. FileCovers
  BY DEF Init, FileCovers, NoCounts, Dir
<1> QED BY <1>1, <1>2 DEF Init, IInv, OneOpening, MemoryCovers, QueueOwned, NoQueue

\* dispatchNextUnit leaves what the invariant is about to its caller.
LEMMA DispatchTypes ==
  Dispatch => /\ currentUnit' \in Units
              /\ agent' = "busy" /\ autoMode' = "active" /\ hookTimer' = FALSE
  BY KeyTypes DEF Dispatch

\* A hook that is dequeued belongs to the queue of a unit.
LEMMA DequeuedKey ==
  ASSUME TypeOK, QueueOwned, NEW h \in QueueNow.hooks
  PROVE  /\ QueueNow \in [unit : Unit \union {0}, hooks : SUBSET Hook]
         /\ QueueNow.unit \in Unit /\ h \in Hook /\ <<h, QueueNow.unit>> \in Key
<1>1. QueueNow \in [unit : Unit \union {0}, hooks : SUBSET Hook] /\ QueueNow.unit \in Unit
  <2>1. CASE activeHook # None
    BY <2>1 DEF QueueNow, TypeOK, QueueOwned
  <2>2. CASE activeHook = None
    <3>1. currentUnit.kind = "core" => currentUnit.unit \in Unit
      BY DEF TypeOK, Units, None, Core, HookUnit
    <3>2. currentUnit.unit \in Unit \union {0}
      BY HookConfig DEF TypeOK, Units, None, Core, HookUnit, Key
    <3> QED BY <2>2, <3>1, <3>2 DEF QueueNow, QueueFor
  <2> QED BY <2>1, <2>2
<1> QED BY <1>1 DEF Key

LEMMA StopTypes ==
  ASSUME TypeOK, StopEffects, pending' \subseteq pending,
         agent' \in {"idle", "busy", "ended"}, UNCHANGED <<diskVars, crashes>>
  PROVE  TypeOK' /\ QueueOwned'
<1>1. TypeOK'
  BY KeyTypes, FileTypes DEF TypeOK, StopEffects, ResetHookState, EndHooks, diskVars, Dir,
     Units, None, NoQueue, NoCounts, Counts
<1>2. QueueOwned'
  BY DEF QueueOwned, StopEffects, ResetHookState, EndHooks, NoQueue
<1> QED BY <1>1, <1>2

\* Every step keeps the types, whatever the isolation and whenever commands arrive.
LEMMA TypesKept == TypeOK /\ QueueOwned /\ [Next]_vars => TypeOK' /\ QueueOwned'
<1> SUFFICES ASSUME TypeOK, QueueOwned, [Next]_vars PROVE TypeOK' /\ QueueOwned'
  OBVIOUS
<1> USE DEF TypeOK
<1>1. ASSUME NEW step \in BOOLEAN, StartAuto(step) PROVE TypeOK' /\ QueueOwned'
  <2>1. Restored(NoCounts, basePath) \in Counts
    BY FileTypes, KeyTypes
  <2> QED BY <1>1, <2>1, EndHooksTypes, DispatchTypes DEF StartAuto, diskVars, Dir
<1>2. ASSUME NEW step \in BOOLEAN, ResumeAuto(step) PROVE TypeOK' /\ QueueOwned'
  <2>1. Restored(cycleCounts, basePath) \in Counts
    BY FileTypes
  <2>2. CASE StopEffects /\ UNCHANGED agent
    BY <1>2, <2>2, StopTypes DEF ResumeAuto
  <2> QED BY <1>2, <2>1, <2>2, DispatchTypes DEF ResumeAuto, diskVars, QueueOwned
<1>3. CASE PauseAuto \/ AgentEndIgnored
  BY <1>3 DEF PauseAuto, AgentEndIgnored, engineVars, diskVars, QueueOwned
<1>4. CASE StopAuto
  BY <1>4, StopTypes DEF StopAuto
<1>5. CASE AgentTurn
  <2>1. done' \subseteq Unit
    BY <1>5, HookConfig DEF AgentTurn, Units, Core, None, HookUnit, diskVars
  <2>2. artifacts' \subseteq Key /\ retryFiles' \subseteq Key
    BY <1>5 DEF AgentTurn, Units, Core, None, HookUnit, diskVars, Key
  <2> QED BY <1>5, <2>1, <2>2 DEF AgentTurn, engineVars, QueueOwned
<1>6. CASE HookDequeued
  <2>1. PICK h \in QueueNow.hooks :
          LET u == QueueNow.unit IN
          /\ IsNextHook(QueueNow, h)
          /\ activeHook' = HookUnit(h, u)
          /\ currentUnit' = HookUnit(h, u)
          /\ hookQueue' = [unit |-> u, hooks |-> {g \in QueueNow.hooks : g > h}]
          /\ cycleCounts' = [cycleCounts EXCEPT ![<<h, u>>] = @ + 1]
          /\ pending' = pending \union {<<h, u>>}
    BY <1>6 DEF HookDequeued
  <2> DEFINE u == QueueNow.unit
  <2>2. /\ QueueNow \in [unit : Unit \union {0}, hooks : SUBSET Hook]
        /\ u \in Unit /\ h \in Hook /\ <<h, u>> \in Key
    BY DequeuedKey
  <2>3. cycleCounts[<<h, u>>] + 1 <= MaxCycles[h]
    BY <2>1 DEF IsNextHook, Runnable
  <2>4. cycleCounts' \in Counts
    BY <2>1, <2>2, <2>3 DEF Counts
  <2>5. activeHook' \in Units /\ currentUnit' \in Units
    BY <2>1, <2>2, KeyTypes
  <2>6. hookQueue' \in [unit : Unit \union {0}, hooks : SUBSET Hook] /\ QueueOwned'
    BY <2>1, <2>2 DEF QueueOwned
  <2>7. pending' \subseteq Key
    BY <2>1, <2>2
  <2> QED BY <1>6, <2>4, <2>5, <2>6, <2>7 DEF HookDequeued, diskVars
<1>7. ASSUME StopEffects \/ (/\ Dispatch /\ EndHooks
                            /\ UNCHANGED <<stepMode, basePath, handling, cycleCounts, hookFile, runs>>),
             agent' \in {"idle", "busy"}, UNCHANGED <<pending, diskVars, crashes>>
      PROVE  TypeOK' /\ QueueOwned'
  <2>1. CASE StopEffects
    BY <1>7, <2>1, StopTypes
  <2> QED BY <1>7, <2>1, EndHooksTypes, DispatchTypes DEF diskVars
<1>8. CASE HooksFinished \/ HookRetry
  BY <1>7, <1>8, DispatchTypes DEF HooksFinished, HookRetry
<1>9. CASE StepWizard
  <2>1. CASE StopEffects
    BY <1>9, <2>1, StopTypes, DispatchTypes DEF StepWizard
  <2> QED BY <1>9, <2>1, DispatchTypes DEF StepWizard, engineVars, diskVars, QueueOwned
<1>10. ASSUME NEW k \in pending, HookSession(k) PROVE TypeOK' /\ QueueOwned'
  <2>1. runs' \in [Key -> Nat] /\ hookFile' \in [Dir -> Counts \union {NoFile}]
    BY <1>10 DEF HookSession
  <2>2. pending' \subseteq Key /\ agent' \in {"idle", "busy", "ended"}
    BY <1>10 DEF HookSession
  <2> QED BY <1>10, <2>1, <2>2 DEF HookSession, engineVars, diskVars, QueueOwned
<1>11. ASSUME NEW k \in pending, HookSessionCancelled(k) PROVE TypeOK' /\ QueueOwned'
  <2>1. CASE StopEffects
    BY <1>11, <2>1, StopTypes DEF HookSessionCancelled
  <2> QED BY <1>11, <2>1, KeyTypes, EndHooksTypes
          DEF HookSessionCancelled, ResetHookState, diskVars
<1>12. CASE HookTimeout
  BY <1>12, KeyTypes, EndHooksTypes DEF HookTimeout, ResetHookState, engineVars, diskVars, QueueOwned
<1>13. CASE Crash
  <2>1. crashes' \in 0..MaxCrashes /\ pending' \subseteq Key
    BY <1>13, HookConfig DEF Crash
  <2> QED BY <1>13, <2>1, KeyTypes, EndHooksTypes DEF Crash, ResetHookState, diskVars, Dir
<1>14. CASE UNCHANGED vars
  BY <1>14 DEF vars, engineVars, diskVars, QueueOwned
<1> QED BY <1>1, <1>2, <1>3, <1>4, <1>5, <1>6, <1>8, <1>9, <1>10, <1>11, <1>12, <1>13, <1>14
        DEF Next

\* stopAuto re-establishes the invariant from any state of the right type: every
\* count is zero, in memory, on disk and in the history.
LEMMA StopKeeps ==
  ASSUME IInv, [Next]_vars, StopEffects, pending' = {}
  PROVE  IInv'
<1>1. TypeOK' /\ QueueOwned'
  BY TypesKept DEF IInv
<1>2. FileCovers'
  BY KeyTypes DEF FileCovers, StopEffects, IInv, TypeOK, Cleared, NoCounts, NoFile, Dir
<1> QED BY <1>1, <1>2 DEF IInv, OneOpening, MemoryCovers, StopEffects

THEOREM NextIInv == Benign /\ IInv /\ [Next]_vars => IInv'
<1> SUFFICES ASSUME Benign, IInv, [Next]_vars PROVE IInv'
  OBVIOUS
<1> USE DEF IInv
<1>1. CommandPossible => pending = {}
  BY DEF Benign, CommandPossible, Point
<1>2. pending # {} => pending \subseteq Key /\ \E k \in Key : pending = {k}
  BY DEF OneOpening, TypeOK
<1>3. AgentEndDue => pending = {}
  BY DEF OneOpening, AgentEndDue
<1>4. TypeOK' /\ QueueOwned'
  BY TypesKept
<1>5. ASSUME NEW step \in BOOLEAN, StartAuto(step) PROVE IInv'
  <2>1. pending = {} /\ pending' = {} /\ basePath' = "root"
    BY <1>1, <1>5 DEF StartAuto, Benign
  <2>2. runs' = runs /\ hookFile' = hookFile /\ cycleCounts' = Restored(NoCounts, "root")
    BY <1>5, <2>1 DEF StartAuto
  <2>3. \A k \in Key : runs[k] \in Nat /\ runs[k] <= Restored(NoCounts, "root")[k]
    BY DEF Restored, FileCovers, NoCounts, TypeOK
  <2> QED BY <1>4, <2>1, <2>2, <2>3 DEF OneOpening, MemoryCovers, FileCovers
<1>6. ASSUME NEW step \in BOOLEAN, ResumeAuto(step) PROVE IInv'
  <2>1. pending = {} /\ pending' = {}
    BY <1>1, <1>6 DEF ResumeAuto
  <2>2. CASE StopEffects /\ UNCHANGED agent
    BY <1>6, <2>1, <2>2, StopKeeps DEF ResumeAuto
  <2>3. CASE ~(StopEffects /\ UNCHANGED agent)
    BY <1>4, <1>6, <2>1, <2>3
    DEF ResumeAuto, OneOpening, MemoryCovers, FileCovers, Restored, TypeOK, Counts
  <2> QED BY <2>2, <2>3
<1>7. CASE PauseAuto
  BY <1>1, <1>4, <1>7 DEF PauseAuto, OneOpening, MemoryCovers, FileCovers, engineVars
<1>8. CASE StopAuto
  BY <1>1, <1>8, StopKeeps DEF StopAuto
<1>9. CASE AgentTurn \/ AgentEndIgnored
  BY <1>4, <1>9 DEF AgentTurn, AgentEndIgnored, OneOpening, MemoryCovers, FileCovers, engineVars
<1>10. CASE HookDequeued
  <2>1. PICK h \in QueueNow.hooks :
          LET u == QueueNow.unit IN
          /\ cycleCounts' = [cycleCounts EXCEPT ![<<h, u>>] = @ + 1]
          /\ pending' = pending \union {<<h, u>>}
    BY <1>10 DEF HookDequeued
  <2> DEFINE u == QueueNow.unit
  <2>2. <<h, u>> \in Key
    BY DequeuedKey
  <2>3. pending = {} /\ pending' = {<<h, u>>} /\ autoMode = "active" /\ basePath' = "root"
    BY <1>3, <1>10, <2>1 DEF HookDequeued, AgentEndDue
  <2>4. MemoryCovers'
    BY <1>10, <2>1, <2>2, <2>3 DEF HookDequeued, MemoryCovers, TypeOK, Counts
  <2>5. FileCovers' /\ OneOpening'
    BY <1>10, <2>3 DEF HookDequeued, FileCovers, OneOpening
  <2> QED BY <1>4, <2>3, <2>4, <2>5
<1>11. ASSUME AgentEndDue,
              \/ StopEffects
              \/ Dispatch /\ EndHooks
                 /\ UNCHANGED <<stepMode, basePath, handling, cycleCounts, hookFile, runs>>,
              UNCHANGED <<pending, diskVars, crashes>>
       PROVE  IInv'
  <2>1. pending = {} /\ autoMode = "active"
    BY <1>3, <1>11 DEF AgentEndDue
  <2>2. CASE StopEffects
    BY <1>11, <2>1, <2>2, StopKeeps
  <2>3. CASE ~StopEffects
    BY <1>4, <1>11, <2>1, <2>3, DispatchTypes DEF OneOpening, MemoryCovers, FileCovers
  <2> QED BY <2>2, <2>3
<1>12. CASE HooksFinished \/ HookRetry
  BY <1>11, <1>12 DEF HooksFinished, HookRetry
<1>13. CASE StepWizard
  <2>1. pending = {} /\ pending' = {} /\ autoMode = "active"
    BY <1>3, <1>13 DEF StepWizard, AgentEndDue
  <2>2. CASE StopEffects
    BY <1>13, <2>1, <2>2, StopKeeps DEF StepWizard
  <2>3. CASE ~StopEffects
    BY <1>4, <1>13, <2>1, <2>3 DEF StepWizard, OneOpening, MemoryCovers, FileCovers, engineVars
  <2> QED BY <2>2, <2>3
<1>14. ASSUME NEW k \in pending, HookSession(k) PROVE IInv'
  <2>1. k \in Key /\ pending = {k} /\ pending' = {} /\ autoMode = "active" /\ autoMode' = "active"
    BY <1>14 DEF HookSession, OneOpening, TypeOK
  <2>2. hookFile' = [hookFile EXCEPT !["root"] = cycleCounts] /\ cycleCounts' = cycleCounts
    BY <1>14 DEF HookSession, engineVars
  <2>3. runs' = [runs EXCEPT ![k] = @ + 1] /\ basePath' = "root"
    BY <1>14, <2>1 DEF HookSession
  <2>4. \A j \in Key : runs'[j] <= cycleCounts[j]
    BY <2>1, <2>3 DEF MemoryCovers, TypeOK
  <2>5. FileCovers' /\ MemoryCovers'
    <3>1. hookFile'["root"] = cycleCounts
      BY <2>2 DEF TypeOK, Dir
    <3>2. \A j \in Key : runs'[j] \in Nat
      BY <2>1, <2>3 DEF TypeOK
    <3>3. hookFile'["root"] = NoFile => Key = {}
      BY <3>1 DEF NoFile, TypeOK, Counts
    <3> QED BY <2>1, <2>2, <2>4, <3>1, <3>2, <3>3 DEF FileCovers, MemoryCovers
  <2> QED BY <1>4, <2>1, <2>3, <2>5 DEF OneOpening
<1>15. ASSUME NEW k \in pending, HookSessionCancelled(k) PROVE IInv'
  <2>1. autoMode = "active" /\ pending' = {} /\ StopEffects
    BY <1>15 DEF HookSessionCancelled, OneOpening
  <2> QED BY <1>15, <2>1, StopKeeps DEF HookSessionCancelled
<1>16. CASE HookTimeout
  <2>1. pending = {} /\ pending' = {}
    BY <1>16 DEF HookTimeout, OneOpening
  <2> QED BY <1>4, <1>16, <2>1 DEF HookTimeout, OneOpening, MemoryCovers, FileCovers, engineVars
<1>17. CASE Crash
  BY <1>4, <1>17 DEF Crash, OneOpening, MemoryCovers, FileCovers
<1>18. CASE UNCHANGED vars
  BY <1>4, <1>18 DEF vars, engineVars, OneOpening, MemoryCovers, FileCovers
<1> QED BY <1>5, <1>6, <1>7, <1>8, <1>9, <1>10, <1>12, <1>13, <1>14, <1>15, <1>16, <1>17, <1>18
        DEF Next

\* types.ts: max_cycles is the "max times this hook can fire for the same trigger
\* unit".  Under Benign it is, for every configuration of hooks and units.
THEOREM HookRunsAreBounded == Benign /\ Spec => []HookRunsBounded
<1>1. IInv => HookRunsBounded
  <2> SUFFICES ASSUME IInv, NEW k \in Key PROVE runs[k] <= MaxCycles[k[1]]
    BY DEF HookRunsBounded
  <2>1. MaxCycles[k[1]] \in 1..10 /\ runs[k] \in Nat
    BY HookConfig DEF Key, IInv, TypeOK
  <2>2. CASE hookFile["root"] = NoFile
    BY <2>1, <2>2 DEF IInv, FileCovers
  <2>3. CASE hookFile["root"] # NoFile
    <3>1. hookFile["root"] \in Counts
      BY <2>3 DEF IInv, TypeOK, Dir
    <3> QED BY <2>1, <2>3, <3>1 DEF IInv, FileCovers, Counts
  <2> QED BY <2>2, <2>3
<1> SUFFICES ASSUME Benign PROVE Spec => []HookRunsBounded
  OBVIOUS
<1>2. Init => IInv
  BY InitIInv
<1>3. IInv /\ [Next]_vars => IInv'
  BY NextIInv
<1> QED BY <1>1, <1>2, <1>3, PTL DEF Spec

\* The engine, its queue, its counts and their file keep their types, whatever the
\* isolation and whenever commands arrive.
THEOREM HookTypes == Spec => []TypeOK
<1>1. Init => TypeOK /\ QueueOwned
  BY InitIInv DEF IInv
<1> QED BY <1>1, TypesKept, PTL DEF Spec

-------------------------------------------------------------------------------
(* Without commands between the hooks of a unit, in a worktree or not *)

Uninterrupted == InterruptPoints \subseteq {"core"}

\* The directory that auto-mode works in once it is started.
Home == IF Isolation = "worktree" THEN "worktree" ELSE "root"

Homely ==
  /\ autoMode # "stopped" => basePath = Home
  /\ \A d \in Dir : d # Home => hookFile[d] = NoFile

\* The engine and auto-mode mean the same hook.
HookInStep ==
  /\ activeHook # None =>
       /\ autoMode = "active" /\ ~stepMode
       /\ currentUnit = activeHook /\ activeHook.kind = "hook"
       /\ hookQueue.unit = activeHook.unit
  /\ autoMode = "active" /\ currentUnit.kind = "hook" => activeHook = currentUnit

\* What was counted was sent, or is being sent.
CountsRun == \A k \in Key : cycleCounts[k] >= 1 => runs[k] >= 1 \/ k \in pending
FilesRun  == \A d \in Dir, k \in Key : hookFile[d][k] >= 1 => runs[k] >= 1

Counted(h, u) ==
  cycleCounts[<<h, u>>] >= 1 \/ (h \in HasArtifact /\ <<h, u>> \in artifacts)

\* The hooks that are off the queue had their turn, or their artifact.
QueueBehind ==
  activeHook # None =>
    \A h \in Hook :
      activeHook.unit \in Triggers[h] /\ h \notin hookQueue.hooks => Counted(h, activeHook.unit)

UInv == /\ TypeOK /\ QueueOwned /\ Homely /\ OneOpening
        /\ HookInStep /\ CountsRun /\ FilesRun /\ QueueBehind

\* A hook that cannot run has run, or has its artifact.
LEMMA NotRunnable ==
  ASSUME TypeOK, NEW h \in Hook, NEW u \in Unit, ~Runnable(h, u)
  PROVE  Counted(h, u)
<1>1. <<h, u>> \in Key /\ MaxCycles[h] \in 1..10
  BY HookConfig DEF Key
<1>2. cycleCounts[<<h, u>>] \in Nat
  BY <1>1 DEF TypeOK, Counts
<1> QED BY <1>1, <1>2 DEF Runnable, Counted

\* The three kinds of units.
LEMMA UnitKinds ==
  /\ None.kind = "none" /\ \A u \in Unit : Core(u).kind = "core" /\ Core(u) # None
  /\ \A h, u : /\ HookUnit(h, u).kind = "hook" /\ HookUnit(h, u) # None
               /\ HookUnit(h, u).hook = h /\ HookUnit(h, u).unit = u
  BY DEF None, Core, HookUnit

\* dispatchNextUnit sends a core unit.
LEMMA DispatchCore ==
  Dispatch => currentUnit'.kind = "core" /\ autoMode' = "active"
  BY UnitKinds DEF Dispatch

\* An engine that fell idle says nothing.
LEMMA IdleEngine ==
  EndHooks /\ (autoMode' = "active" => currentUnit'.kind # "hook") => HookInStep' /\ QueueBehind'
  BY DEF EndHooks, HookInStep, QueueBehind

\* stopAuto leaves no count, in memory, on disk or in the history.
LEMMA StopUninterrupted ==
  ASSUME UInv, [Next]_vars, StopEffects, autoMode # "stopped", pending' = {}
  PROVE  UInv'
<1>1. TypeOK' /\ QueueOwned'
  BY TypesKept DEF UInv
<1>2. Homely'
  BY DEF UInv, Homely, StopEffects, TypeOK
<1>3. CountsRun' /\ OneOpening'
  BY DEF CountsRun, OneOpening, StopEffects, ResetHookState, NoCounts
<1>4. FilesRun'
  <2>1. \A d \in Dir : hookFile'[d] \in {NoFile, NoCounts}
    BY DEF UInv, Homely, StopEffects, TypeOK, Cleared, Dir
  <2> QED BY <2>1 DEF FilesRun, NoFile, NoCounts
<1>5. HookInStep' /\ QueueBehind'
  BY IdleEngine DEF StopEffects, ResetHookState
<1> QED BY <1>1, <1>2, <1>3, <1>4, <1>5 DEF UInv

LEMMA InitUninterrupted == Init => UInv
<1> SUFFICES ASSUME Init PROVE UInv
  OBVIOUS
<1>1. TypeOK /\ QueueOwned
  BY InitIInv DEF IInv
<1>2. Homely /\ OneOpening
  BY DEF Init, Homely, OneOpening, Dir
<1>3. HookInStep /\ QueueBehind
  BY UnitKinds DEF Init, HookInStep, QueueBehind
<1>4. CountsRun /\ FilesRun
  BY DEF Init, CountsRun, FilesRun, NoCounts, NoFile
<1> QED BY <1>1, <1>2, <1>3, <1>4 DEF UInv

LEMMA UninterruptedKept == Uninterrupted /\ UInv /\ [Next]_vars => UInv'
<1> SUFFICES ASSUME Uninterrupted, UInv, [Next]_vars PROVE UInv'
  OBVIOUS
<1> USE DEF UInv
<1>1. TypeOK' /\ QueueOwned'
  BY TypesKept
<1>2. CommandPossible => pending = {} /\ currentUnit.kind # "hook"
  BY DEF Uninterrupted, CommandPossible, Point
<1>3. AgentEndDue => pending = {} /\ autoMode = "active"
  BY DEF OneOpening, AgentEndDue
<1>4. ASSUME UNCHANGED <<basePath, hookFile>>, autoMode # "stopped" \/ autoMode' = "stopped"
      PROVE  Homely'
  BY <1>4 DEF Homely
<1>5. ASSUME UNCHANGED <<cycleCounts, runs, hookFile, pending>> PROVE CountsRun' /\ FilesRun'
  BY <1>5 DEF CountsRun, FilesRun
<1>6. ASSUME NEW step \in BOOLEAN, StartAuto(step) PROVE UInv'
  <2>1. pending = {} /\ pending' = {}
    BY <1>2, <1>6 DEF StartAuto
  <2>2. Homely' /\ OneOpening'
    BY <1>6, <2>1 DEF StartAuto, Homely, Home, OneOpening
  <2>3. CountsRun' /\ FilesRun'
    <3>1. basePath \in Dir
      BY DEF TypeOK
    <3> QED BY <1>6, <2>1, <3>1 DEF StartAuto, CountsRun, FilesRun, Restored, NoCounts
  <2>4. HookInStep' /\ QueueBehind'
    BY <1>6, DispatchCore, IdleEngine DEF StartAuto
  <2> QED BY <1>1, <2>2, <2>3, <2>4
<1>7. ASSUME NEW step \in BOOLEAN, ResumeAuto(step) PROVE UInv'
  <2>1. pending = {} /\ pending' = {} /\ autoMode = "paused" /\ activeHook = None
    BY <1>2, <1>7 DEF ResumeAuto, HookInStep, OneOpening
  <2>2. CASE StopEffects
    BY <2>1, <2>2, StopUninterrupted
  <2>3. CASE ~StopEffects
    <3>1. Homely' /\ OneOpening'
      BY <1>7, <2>1, <2>3, <1>4 DEF ResumeAuto, OneOpening
    <3>2. CountsRun' /\ FilesRun'
      <4>1. basePath \in Dir
        BY DEF TypeOK
      <4> QED BY <1>7, <2>1, <2>3, <4>1 DEF ResumeAuto, CountsRun, FilesRun, Restored
    <3>3. HookInStep' /\ QueueBehind'
      BY <1>7, <2>1, <2>3, DispatchCore DEF ResumeAuto, HookInStep, QueueBehind
    <3> QED BY <1>1, <3>1, <3>2, <3>3
  <2> QED BY <2>2, <2>3
<1>8. CASE PauseAuto
  <2>1. activeHook = None /\ pending = {}
    BY <1>2, <1>8 DEF PauseAuto, HookInStep
  <2>2. HookInStep' /\ QueueBehind' /\ OneOpening'
    BY <1>8, <2>1 DEF PauseAuto, HookInStep, QueueBehind, OneOpening, engineVars
  <2> QED BY <1>1, <1>4, <1>5, <1>8, <2>2 DEF PauseAuto, engineVars
<1>9. CASE StopAuto
  BY <1>2, <1>9, StopUninterrupted DEF StopAuto
<1>10. CASE AgentTurn
  <2>1. artifacts \subseteq artifacts'
    BY <1>10 DEF AgentTurn, diskVars
  <2>2. QueueBehind'
    BY <1>10, <2>1 DEF AgentTurn, QueueBehind, Counted, engineVars
  <2> QED BY <1>1, <1>4, <1>5, <1>10, <2>2 DEF AgentTurn, HookInStep, OneOpening, Homely, engineVars
<1>11. CASE AgentEndIgnored
  BY <1>1, <1>5, <1>11
  DEF AgentEndIgnored, HookInStep, QueueBehind, Counted, OneOpening, Homely, engineVars, diskVars
<1>12. CASE HookDequeued
  <2>1. PICK h \in QueueNow.hooks :
          LET u == QueueNow.unit IN
          /\ IsNextHook(QueueNow, h)
          /\ activeHook' = HookUnit(h, u)
          /\ currentUnit' = HookUnit(h, u)
          /\ hookQueue' = [unit |-> u, hooks |-> {g \in QueueNow.hooks : g > h}]
          /\ cycleCounts' = [cycleCounts EXCEPT ![<<h, u>>] = @ + 1]
          /\ pending' = pending \union {<<h, u>>}
    BY <1>12 DEF HookDequeued
  <2> DEFINE u == QueueNow.unit
  <2>2. /\ QueueNow \in [unit : Unit \union {0}, hooks : SUBSET Hook]
        /\ u \in Unit /\ h \in Hook /\ <<h, u>> \in Key
    BY DequeuedKey
  <2>3. pending' = {<<h, u>>} /\ autoMode = "active"
    BY <1>3, <1>12, <2>1 DEF HookDequeued
  <2>4. Homely' /\ OneOpening'
    BY <1>12, <2>3 DEF HookDequeued, Homely, OneOpening
  <2>5. CountsRun' /\ FilesRun'
    BY <1>12, <1>3, <2>1, <2>2, <2>3 DEF HookDequeued, CountsRun, FilesRun, TypeOK, Counts
  <2>6. HookInStep'
    BY <1>12, <2>1, <2>3, UnitKinds DEF HookDequeued, HookInStep
  <2>7. \A g \in Hook : u \in Triggers[g] /\ g \notin QueueNow.hooks => Counted(g, u)
    <3>1. CASE activeHook # None
      BY <3>1 DEF QueueNow, HookInStep, QueueBehind
    <3>2. CASE activeHook = None
      <4>1. currentUnit.kind = "core"
        <5>1. currentUnit.kind # "hook" /\ currentUnit # None
          BY <1>12, <1>3, <3>2, UnitKinds DEF HookDequeued, AgentEndDue, HookInStep
        <5> QED BY <5>1, UnitKinds DEF TypeOK, Units
      <4> QED BY <3>2, <4>1 DEF QueueNow, QueueFor
    <3> QED BY <3>1, <3>2
  <2>8. QueueBehind'
    <3> SUFFICES ASSUME NEW g \in Hook, u \in Triggers[g], g \notin hookQueue'.hooks
                 PROVE  \/ cycleCounts'[<<g, u>>] >= 1
                        \/ g \in HasArtifact /\ <<g, u>> \in artifacts'
      BY <2>1, UnitKinds DEF QueueBehind, Counted
    <3>1. <<g, u>> \in Key /\ cycleCounts[<<g, u>>] \in Nat /\ cycleCounts[<<h, u>>] \in Nat
      BY <2>2 DEF Key, TypeOK, Counts
    <3>2. artifacts' = artifacts
      BY <1>12 DEF HookDequeued, diskVars
    <3>3. /\ cycleCounts'[<<h, u>>] >= 1
          /\ cycleCounts[<<g, u>>] >= 1 => cycleCounts'[<<g, u>>] >= 1
      BY <2>1, <2>2, <3>1 DEF TypeOK, Counts
    <3>4. CASE g = h
      BY <3>3, <3>4
    <3>5. CASE g \notin QueueNow.hooks
      <4>1. Counted(g, u)
        BY <2>7, <3>5
      <4> QED BY <3>2, <3>3, <4>1 DEF Counted
    <3>6. CASE g \in QueueNow.hooks /\ g < h
      <4>1. ~Runnable(g, u)
        BY <2>1, <3>6 DEF IsNextHook
      <4>2. Counted(g, u)
        BY <2>2, <4>1, NotRunnable
      <4> QED BY <3>2, <3>3, <4>2 DEF Counted
    <3>7. g \in Int /\ h \in Int
      BY <2>2, HookConfig DEF Hook
    <3> QED BY <2>1, <3>4, <3>5, <3>6, <3>7
  <2> QED BY <1>1, <2>4, <2>5, <2>6, <2>8
<1>13. ASSUME AgentEndDue,
              StopEffects \/ (/\ Dispatch /\ EndHooks
                             /\ UNCHANGED <<stepMode, basePath, handling, cycleCounts, hookFile, runs>>),
              UNCHANGED <<pending, diskVars, crashes>>
       PROVE  UInv'
  <2>1. CASE StopEffects
    BY <1>3, <1>13, <2>1, StopUninterrupted
  <2>2. CASE ~StopEffects
    <3>1. HookInStep' /\ QueueBehind'
      BY <1>13, <2>2, DispatchCore, IdleEngine
    <3> QED BY <1>1, <1>3, <1>4, <1>5, <1>13, <2>2, <3>1 DEF OneOpening
  <2> QED BY <2>1, <2>2
<1>14. CASE HooksFinished \/ HookRetry
  BY <1>13, <1>14 DEF HooksFinished, HookRetry
<1>15. CASE StepWizard
  <2>1. activeHook = None
    BY <1>15 DEF StepWizard, HookInStep
  <2>2. CASE StopEffects
    BY <1>3, <1>15, <2>2, StopUninterrupted DEF StepWizard
  <2>3. CASE ~StopEffects
    <3>1. HookInStep' /\ QueueBehind'
      BY <1>15, <2>1, <2>3, DispatchCore DEF StepWizard, HookInStep, QueueBehind, engineVars
    <3> QED BY <1>1, <1>3, <1>4, <1>5, <1>15, <2>3, <3>1 DEF StepWizard, OneOpening, engineVars
  <2> QED BY <2>2, <2>3
<1>16. ASSUME NEW k \in pending, HookSession(k) PROVE UInv'
  <2>1. k \in Key /\ pending = {k} /\ pending' = {} /\ autoMode = "active"
    BY <1>16 DEF HookSession, OneOpening, TypeOK
  <2>2. runs' = [runs EXCEPT ![k] = @ + 1]
    BY <1>16, <2>1 DEF HookSession
  <2>3. runs'[k] >= 1 /\ \A j \in Key : runs[j] >= 1 => runs'[j] >= 1
    BY <2>1, <2>2 DEF TypeOK
  <2>4. CountsRun'
    BY <1>16, <2>1, <2>3 DEF HookSession, CountsRun, engineVars
  <2>5. FilesRun'
    <3>1. \A d \in Dir : hookFile'[d] = hookFile[d] \/ hookFile'[d] = cycleCounts
      BY <1>16 DEF HookSession, TypeOK
    <3> QED BY <2>1, <2>3, <3>1 DEF FilesRun, CountsRun
  <2>6. Homely'
    BY <1>16, <2>1 DEF HookSession, Homely, TypeOK
  <2>7. HookInStep' /\ QueueBehind' /\ OneOpening'
    BY <1>16, <2>1 DEF HookSession, HookInStep, QueueBehind, Counted, OneOpening, engineVars, diskVars
  <2> QED BY <1>1, <2>4, <2>5, <2>6, <2>7
<1>17. ASSUME NEW k \in pending, HookSessionCancelled(k) PROVE UInv'
  <2>1. autoMode = "active" /\ pending' = {} /\ StopEffects
    BY <1>17 DEF HookSessionCancelled, OneOpening
  <2> QED BY <2>1, StopUninterrupted
<1>18. CASE HookTimeout
  <2>1. CASE autoMode = "active"
    <3>1. CountsRun' /\ FilesRun'
      BY <1>18, <2>1 DEF HookTimeout, CountsRun, FilesRun, ResetHookState, NoCounts
    <3>2. HookInStep' /\ QueueBehind'
      BY <1>18, <2>1, IdleEngine DEF HookTimeout, ResetHookState
    <3>3. OneOpening' /\ Homely'
      BY <1>18, <2>1 DEF HookTimeout, OneOpening, Homely
    <3> QED BY <1>1, <3>1, <3>2, <3>3
  <2>2. CASE autoMode # "active"
    BY <1>1, <1>5, <1>18, <2>2
    DEF HookTimeout, HookInStep, QueueBehind, Counted, OneOpening, Homely, engineVars, diskVars
  <2> QED BY <2>1, <2>2
<1>19. CASE Crash
  <2>1. HookInStep' /\ QueueBehind'
    BY <1>19, IdleEngine DEF Crash, ResetHookState
  <2>2. CountsRun' /\ FilesRun'
    BY <1>19 DEF Crash, CountsRun, FilesRun, ResetHookState, NoCounts
  <2> QED BY <1>1, <1>19, <2>1, <2>2 DEF Crash, OneOpening, Homely
<1>20. CASE UNCHANGED vars
  BY <1>1, <1>5, <1>20
  DEF vars, HookInStep, QueueBehind, Counted, OneOpening, Homely, engineVars, diskVars
<1> QED BY <1>6, <1>7, <1>8, <1>9, <1>10, <1>11, <1>12, <1>14, <1>15, <1>16, <1>17, <1>18, <1>19,
           <1>20 DEF Next

\* checkPostUnitHooks takes an agent_end for the completion of a hook only when the unit
\* that ended is that hook: in a worktree or not, over crashes and timeouts, as long as no
\* command arrives while a hook runs or is opened.
THEOREM CompletionsAreAttributed == Uninterrupted /\ Spec => []CompletionAttributed
<1> SUFFICES ASSUME Uninterrupted PROVE Spec => []CompletionAttributed
  OBVIOUS
<1>1. UInv => CompletionAttributed
  BY DEF UInv, HookInStep, CompletionAttributed
<1> QED BY <1>1, InitUninterrupted, UninterruptedKept, PTL DEF Spec

\* handleAgentEnd moves on only when every hook configured for the unit that ended has
\* run, or has its artifact: under the same condition.
THEOREM HooksRanFirst == Uninterrupted /\ Spec => HooksRanBeforeAdvance
<1> SUFFICES ASSUME Uninterrupted PROVE Spec => HooksRanBeforeAdvance
  OBVIOUS
<1> DEFINE Ran ==
      \A h \in Hook : currentUnit.unit \in Triggers[h] =>
        \/ runs[<<h, currentUnit.unit>>] >= 1
        \/ h \in HasArtifact /\ <<h, currentUnit.unit>> \in artifacts
<1>1. ASSUME UInv, HooksFinished PROVE Ran
  <2> SUFFICES ASSUME NEW h \in Hook, currentUnit.unit \in Triggers[h]
               PROVE  \/ runs[<<h, currentUnit.unit>>] >= 1
                      \/ h \in HasArtifact /\ <<h, currentUnit.unit>> \in artifacts
    OBVIOUS
  <2> DEFINE u == currentUnit.unit
  <2>1. u \in Unit /\ <<h, u>> \in Key
    BY HookConfig DEF Key
  <2>2. AgentEndDue /\ pending = {} /\ \A g \in QueueNow.hooks : ~Runnable(g, QueueNow.unit)
    BY <1>1 DEF HooksFinished, AgentEndDue, UInv, OneOpening
  <2>3. Counted(h, u)
    <3>1. CASE activeHook # None
      <4>1. activeHook.unit = u /\ hookQueue.unit = u /\ QueueNow = hookQueue
        BY <1>1, <3>1 DEF UInv, HookInStep, QueueNow
      <4>2. CASE h \in hookQueue.hooks
        BY <1>1, <2>1, <2>2, <4>1, <4>2, NotRunnable DEF UInv
      <4> QED BY <1>1, <3>1, <4>1, <4>2 DEF UInv, QueueBehind
    <3>2. CASE activeHook = None
      <4>1. currentUnit.kind # "hook" /\ currentUnit # None
        BY <1>1, <2>2, <3>2, UnitKinds DEF AgentEndDue, UInv, HookInStep
      <4>2. currentUnit.kind = "core"
        BY <1>1, <4>1, UnitKinds DEF UInv, TypeOK, Units
      <4>3. QueueNow.unit = u /\ h \in QueueNow.hooks
        BY <3>2, <4>2 DEF QueueNow, QueueFor
      <4> QED BY <1>1, <2>1, <2>2, <4>3, NotRunnable DEF UInv
    <3> QED BY <3>1, <3>2
  <2> QED BY <1>1, <2>1, <2>2, <2>3 DEF UInv, CountsRun, Counted
<1>2. UInv => [HooksFinished => Ran]_vars
  BY <1>1
<1> QED BY <1>2, InitUninterrupted, UninterruptedKept, PTL DEF Spec, HooksRanBeforeAdvance
==============================================================================
