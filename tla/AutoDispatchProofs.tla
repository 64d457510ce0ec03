-------------------------- MODULE AutoDispatchProofs --------------------------
(* Facts about the retry and idempotency logic of auto-mode, for every         *)
(* project and any sequence of commands, crashes, timeouts and flaky turns: a  *)
(* unit is never sent more than three times before its counters are cleared; a *)
(* completion key is never kept, nor written to the file, for a unit whose     *)
(* artifacts are missing; every variable has its type, the counters within     *)
(* their limits; a slice is closed by its own unit; auto-mode is never active  *)
(* with nothing to wait for; a unit builds only on finished work, the dispatch *)
(* guard agrees with the dispatch table, and no slice is begun before the UAT  *)
(* and the reassessment of the last one.                                       *)
EXTENDS AutoDispatch, WellFoundedInduction, TLAPS

\* Only a stub and an override are ever taken off the disk, and no unit but
\* rewrite-docs is verified by one of them.
Kept(d, e) == \A f \in d : f[1] \notin {"STUB", "OVERRIDE"} => f \in e

Plain(u) == u[1] # "rewrite-docs"

\* What the counters, the keys and the disk say of each other.
CountsCover ==
  \A u \in Unit :
    IF Plain(u)
    THEN sent[u] <= MAX_UNIT_DISPATCHES /\ (Verified(disk, u) \/ sent[u] <= dispatchCount[u])
    ELSE sent[u] = 0
FilesBacked == \A u \in keys \union keyFile : Plain(u) => Verified(disk, u)

\* The types these depend on.
UnitTypes ==
  /\ selected \in Unit \union {NoUnit} /\ currentUnit \in Unit \union {NoUnit}
  /\ keys \subseteq Unit /\ keyFile \subseteq Unit
  /\ dispatchCount \in [Unit -> Nat] /\ sent \in [Unit -> Nat]

IInv == UnitTypes /\ CountsCover /\ FilesBacked

-------------------------------------------------------------------------------
(* The disk *)

\* verifyExpectedArtifact reads no stub and no override for a plain unit.
LEMMA RequiredKinds ==
  ASSUME NEW u \in Unit, Plain(u)
  PROVE  \A f \in Required(u) : f[1] \notin {"STUB", "OVERRIDE"}
<1>1. u[1] \in UnitType
  BY DEF Unit, UnitType
<1>2. CASE u[1] \in {"replan-slice", "execute-task", "complete-slice"}
  BY <1>2 DEF Required
<1>3. CASE u[1] \notin {"replan-slice", "execute-task", "complete-slice"}
  <2>1. u[1] \in UnitType \ {"replan-slice", "rewrite-docs"}
    BY <1>1, <1>3 DEF Plain
  <2>2. Artifact[u[1]] \in {"RESEARCH", "ROADMAP", "PLAN", "UAT-RESULT", "ASSESSMENT", "SUMMARY"}
    BY <2>1 DEF Artifact
  <2>3. Required(u) = {<<Artifact[u[1]], u[2]>>}
    BY <1>3 DEF Required, Plain
  <2> QED BY <2>2, <2>3
<1> QED BY <1>2, <1>3

\* A plain unit stays verified while the other facts stay.
LEMMA VerifiedKept ==
  ASSUME NEW u \in Unit, Plain(u), NEW d, NEW e, Kept(d, e), Verified(d, u)
  PROVE  Verified(e, u)
  BY RequiredKinds DEF Verified, Kept, Plain

\* The repairs of the doctor and of the recovery only add to a disk.
LEMMA RepairsAdd ==
  /\ \A d : d \subseteq DoctorAll(d)
  /\ \A d, id : d \subseteq DoctorTask(d, id) /\ d \subseteq SkipTask(d, id)
  BY DEF DoctorAll, DoctorTask, SkipTask

\* A repair the caller of the doctor survives adds to the disk, or does nothing.
LEMMA PassesAdd ==
  ASSUME NEW e, disk \subseteq e, NEW d \in Passes(e)
  PROVE  disk \subseteq d
  BY DEF Passes

\* The agent takes nothing but stubs off the disk.
LEMMA WriteKeeps == \A d, W : Kept(d, Write(d, W))
  BY DEF Kept, Write

\* No step takes anything but a stub or an override off the disk.
LEMMA StepKeeps == [Next]_vars => Kept(disk, disk')
<1> SUFFICES ASSUME [Next]_vars PROVE Kept(disk, disk')
  OBVIOUS
<1>1. ASSUME disk \subseteq disk' PROVE Kept(disk, disk')
  BY <1>1 DEF Kept
<1>2. CASE UNCHANGED vars
  BY <1>1, <1>2 DEF vars
<1>3. CASE Commands
  <2>1. CASE ResumeAuto
    BY <2>1, <1>1, RepairsAdd, PassesAdd DEF ResumeAuto
  <2>2. CASE Steer
    BY <2>2, <1>1 DEF Steer
  <2>3. CASE StartAuto \/ Pause \/ Stop \/ AgentAborted \/ Crash
    BY <2>3, <1>1 DEF StartAuto, Pause, Stop, AgentAborted, Crash
  <2> QED BY <1>3, <2>1, <2>2, <2>3 DEF Commands
<1>4. CASE AgentWrites
  BY <1>4, WriteKeeps DEF AgentWrites, Kept, Override
<1>5. CASE AgentEnds
  BY <1>5, <1>1 DEF AgentEnds
<1>6. CASE Timers
  <2>1. PICK u, max : RecoverTimedOutUnit(u, max)
    BY <1>6 DEF Timers, IdleTimeout, HardTimeout
  <2>2. CASE SkipUnit(u, max)
    BY <2>2, <1>1, RepairsAdd DEF SkipUnit
  <2>3. CASE Advance(u) \/ SteerTurn(u, max) \/ GiveUp(u, max)
    BY <2>3, <1>1 DEF Advance, SteerTurn, GiveUp
  <2> QED BY <2>1, <2>2, <2>3 DEF RecoverTimedOutUnit
<1>7. CASE Loop
  <2>1. CASE HandleAgentEnd
    <3>1. CASE currentUnit = NoUnit
      BY <2>1, <3>1, <1>1 DEF HandleAgentEnd
    <3>2. CASE currentUnit # NoUnit
      <4>1. PICK d \in Passes(DoctorTask(disk, currentUnit[2])) :
              disk' = IF currentUnit[1] = "rewrite-docs" THEN d \ {Override} ELSE d
        BY <2>1, <3>2 DEF HandleAgentEnd
      <4>2. disk \subseteq d
        BY <4>1, RepairsAdd, PassesAdd
      <4> QED BY <4>1, <4>2 DEF Kept, Override
    <3> QED BY <3>1, <3>2
  <2>2. CASE GapWatchdog \/ ReturnToCaller \/ GapGivesUp
    BY <2>2, <1>1 DEF GapWatchdog, ReturnToCaller, GapGivesUp
  <2>3. CASE NothingLeft \/ SkippedByHook \/ Refused
    BY <2>3, <1>1 DEF NothingLeft, SkippedByHook, Refused
  <2>4. CASE ResolveDispatch
    BY <2>4 DEF ResolveDispatch, GatedDisk, Kept, Override
  <2>5. ASSUME NEW u, SkipVerified(u) \/ Reconcile(u) \/ LoopDetected(u) \/ Send(u)
        PROVE  disk \subseteq disk'
    <3>1. CASE Reconcile(u)
      BY <3>1, RepairsAdd DEF Reconcile, Reconciled
    <3>2. CASE SkipVerified(u) \/ LoopDetected(u) \/ Send(u)
      BY <3>2 DEF SkipVerified, LoopDetected, Send
    <3> QED BY <2>5, <3>1, <3>2
  <2> QED BY <1>7, <1>1, <2>1, <2>2, <2>3, <2>4, <2>5 DEF Loop, DispatchNextUnit
<1> QED BY <1>2, <1>3, <1>4, <1>5, <1>6, <1>7 DEF Next

-------------------------------------------------------------------------------
(* The counters *)

\* Counters that are cleared cover everything again.
LEMMA ClearedCounts ==
  ClearCounts => CountsCover' /\ dispatchCount' \in [Unit -> Nat] /\ sent' \in [Unit -> Nat]
  BY DEF ClearCounts, Zero, CountsCover, MAX_UNIT_DISPATCHES

\* Counters that no step touches go on covering.
LEMMA SameCounts ==
  ASSUME CountsCover, Kept(disk, disk'), UNCHANGED countVars
  PROVE  CountsCover'
<1> SUFFICES ASSUME NEW u \in Unit
             PROVE  IF Plain(u)
                    THEN sent[u] <= MAX_UNIT_DISPATCHES
                         /\ (Verified(disk', u) \/ sent[u] <= dispatchCount[u])
                    ELSE sent[u] = 0
  BY DEF CountsCover, countVars, Verified, Override
<1>1. CASE Plain(u)
  BY <1>1, VerifiedKept DEF CountsCover
<1>2. CASE ~Plain(u)
  BY <1>2 DEF CountsCover
<1> QED BY <1>1, <1>2

\* Every step that leaves the counters alone or clears them.
LEMMA CountsOrClear ==
  ASSUME IInv, Kept(disk, disk'), UNCHANGED countVars \/ ClearCounts
  PROVE  CountsCover' /\ dispatchCount' \in [Unit -> Nat] /\ sent' \in [Unit -> Nat]
<1>1. CASE ClearCounts
  BY <1>1, ClearedCounts
<1>2. CASE UNCHANGED countVars
  BY <1>2, SameCounts DEF IInv, UnitTypes, countVars
<1> QED BY <1>1, <1>2

\* The counter of a unit that the retry logic finished starts over.
LEMMA ReconcileCounts ==
  ASSUME IInv, NEW u \in Unit, Reconcile(u), Kept(disk, disk')
  PROVE  CountsCover' /\ dispatchCount' \in [Unit -> Nat] /\ sent' \in [Unit -> Nat]
<1>1. dispatchCount' \in [Unit -> Nat] /\ sent' \in [Unit -> Nat]
  BY DEF Reconcile, IInv, UnitTypes
<1>2. \A c \in Unit : dispatchCount'[c] = IF c = u THEN 0 ELSE dispatchCount[c]
  BY DEF Reconcile, IInv, UnitTypes
<1>3. sent' = sent /\ Verified(disk', u)
  BY DEF Reconcile
<1>4. ASSUME NEW c \in Unit, Plain(c)
      PROVE  sent[c] <= MAX_UNIT_DISPATCHES
             /\ (Verified(disk', c) \/ sent[c] <= dispatchCount'[c])
  <2>1. sent[c] <= MAX_UNIT_DISPATCHES /\ (Verified(disk, c) \/ sent[c] <= dispatchCount[c])
    BY <1>4 DEF IInv, CountsCover
  <2>2. Verified(disk, c) => Verified(disk', c)
    BY <1>4, VerifiedKept
  <2> QED BY <2>1, <2>2, <1>2, <1>3
<1>5. ASSUME NEW c \in Unit, ~Plain(c) PROVE sent[c] = 0
  BY <1>5 DEF IInv, CountsCover
<1> QED BY <1>1, <1>3, <1>4, <1>5 DEF CountsCover, Verified, Override

\* A prompt is sent to a unit below its limit only, and counted; the counter of
\* another unit starts over only when that one is verified.
LEMMA SendCounts ==
  ASSUME IInv, NEW u \in Unit, Send(u), Kept(disk, disk')
  PROVE  CountsCover' /\ dispatchCount' \in [Unit -> Nat] /\ sent' \in [Unit -> Nat]
<1>1. CASE ClearCounts
  BY <1>1, ClearedCounts
<1>2. CASE ~ClearCounts
  <2> DEFINE count(c) == IF c \in Closed(u) THEN 0
                         ELSE IF c = u THEN dispatchCount[u] + 1 ELSE dispatchCount[c]
  <2>1. dispatchCount' = [c \in Unit |-> count(c)]
        /\ sent' = IF u[1] = "rewrite-docs" THEN sent ELSE [sent EXCEPT ![u] = @ + 1]
    BY <1>2 DEF Send, StopEffects
  <2>2. dispatchCount' \in [Unit -> Nat] /\ sent' \in [Unit -> Nat]
    BY <2>1 DEF IInv, UnitTypes
  <2>3. u \notin Closed(u) /\ ~Verified(disk, u) /\ dispatchCount[u] < MAX_UNIT_DISPATCHES
    BY DEF Send, MustRun, AtLimit, Closed, IInv, UnitTypes, MAX_UNIT_DISPATCHES
  <2>4. \A c \in Closed(u) : Verified(disk', c)
    BY DEF Send, Closed
  <2>5. ASSUME NEW c \in Unit, Plain(c)
        PROVE  sent'[c] <= MAX_UNIT_DISPATCHES
               /\ (Verified(disk', c) \/ sent'[c] <= dispatchCount'[c])
    <3>1. sent[c] <= MAX_UNIT_DISPATCHES /\ (Verified(disk, c) \/ sent[c] <= dispatchCount[c])
      BY <2>5 DEF IInv, CountsCover
    <3>2. CASE c = u
      <4>1. sent'[c] = sent[c] + 1 /\ dispatchCount'[c] = dispatchCount[c] + 1
        BY <2>1, <2>3, <2>5, <3>2 DEF IInv, UnitTypes, Plain
      <4>2. sent[c] <= dispatchCount[c] /\ dispatchCount[c] < MAX_UNIT_DISPATCHES
        BY <2>3, <3>1, <3>2
      <4>3. sent[c] \in Nat /\ dispatchCount[c] \in Nat
        BY DEF IInv, UnitTypes
      <4> QED BY <4>1, <4>2, <4>3 DEF MAX_UNIT_DISPATCHES
    <3>3. CASE c # u
      <4>1. sent'[c] = sent[c]
        BY <2>1, <3>3 DEF IInv, UnitTypes
      <4>2. c \in Closed(u) \/ dispatchCount'[c] = dispatchCount[c]
        BY <2>1, <3>3
      <4>3. Verified(disk, c) => Verified(disk', c)
        BY <2>5, VerifiedKept
      <4> QED BY <3>1, <4>1, <4>2, <4>3, <2>4
    <3> QED BY <3>2, <3>3
  <2>6. ASSUME NEW c \in Unit, ~Plain(c) PROVE sent'[c] = 0
    BY <2>6, <2>1 DEF IInv, CountsCover, UnitTypes, Plain
  <2> QED BY <2>2, <2>5, <2>6 DEF CountsCover, Verified, Override
<1> QED BY <1>1, <1>2

-------------------------------------------------------------------------------
(* The completion keys *)

\* A step keeps the keys backed if each one it leaves was there or is verified.
LEMMA SomeKeys ==
  ASSUME IInv, Kept(disk, disk'),
         \A u \in keys' \union keyFile' :
            u \in keys \union keyFile \/ (u \in Unit /\ Verified(disk', u))
  PROVE  keys' \subseteq Unit /\ keyFile' \subseteq Unit /\ FilesBacked'
<1>1. keys' \subseteq Unit /\ keyFile' \subseteq Unit
  BY DEF IInv, UnitTypes
<1>2. ASSUME NEW u \in keys' \union keyFile', Plain(u) PROVE Verified(disk', u)
  BY <1>1, <1>2, VerifiedKept DEF IInv, FilesBacked
<1> QED BY <1>1, <1>2 DEF FilesBacked, Verified, Override

-------------------------------------------------------------------------------
(* The invariant *)

LEMMA InitInv == Init => IInv
<1> SUFFICES ASSUME Init PROVE IInv
  OBVIOUS
<1>1. UnitTypes
  BY DEF Init, UnitTypes, Zero
<1>2. CountsCover
  BY DEF Init, CountsCover, Zero, MAX_UNIT_DISPATCHES
<1>3. FilesBacked
  BY DEF Init, FilesBacked
<1> QED BY <1>1, <1>2, <1>3 DEF IInv

\* The counters after any step.
LEMMA CountsStep ==
  ASSUME IInv, Next, Kept(disk, disk')
  PROVE  CountsCover' /\ dispatchCount' \in [Unit -> Nat] /\ sent' \in [Unit -> Nat]
<1>1. CASE UNCHANGED countVars \/ ClearCounts
  BY <1>1, CountsOrClear
<1>2. CASE Commands
  BY <1>2, <1>1 DEF Commands, StartAuto, ResumeAuto, Pause, Stop, StopEffects, AgentAborted,
                    Steer, Crash, countVars
<1>3. CASE AgentWrites \/ AgentEnds \/ Timers
  BY <1>3, <1>1 DEF AgentWrites, AgentEnds, Timers, IdleTimeout, HardTimeout, RecoverTimedOutUnit
<1>4. CASE HandleAgentEnd \/ GapWatchdog \/ ReturnToCaller \/ GapGivesUp
  BY <1>4, <1>1 DEF HandleAgentEnd, GapWatchdog, ReturnToCaller, GapGivesUp, StopEffects
<1>5. CASE NothingLeft \/ ResolveDispatch \/ SkippedByHook \/ Refused
  BY <1>5, <1>1 DEF NothingLeft, ResolveDispatch, SkippedByHook, Refused, StopEffects
<1>6. ASSUME NEW u \in {selected} \ {NoUnit}, SkipVerified(u) \/ LoopDetected(u)
      PROVE  UNCHANGED countVars \/ ClearCounts
  BY <1>6 DEF SkipVerified, LoopDetected, StopEffects
<1>7. {selected} \ {NoUnit} \subseteq Unit
  BY DEF IInv, UnitTypes
<1> QED BY <1>1, <1>2, <1>3, <1>4, <1>5, <1>6, <1>7, ReconcileCounts, SendCounts
        DEF Next, Loop, DispatchNextUnit

\* The keys after any step.
LEMMA KeysStep ==
  ASSUME IInv, Next, Kept(disk, disk')
  PROVE  keys' \subseteq Unit /\ keyFile' \subseteq Unit /\ FilesBacked'
<1> DEFINE Backed == \A u \in keys' \union keyFile' :
                        u \in keys \union keyFile \/ (u \in Unit /\ Verified(disk', u))
<1> SUFFICES Backed
  BY SomeKeys
<1>1. CASE UNCHANGED keyVars
  BY <1>1 DEF keyVars
<1>2. CASE Commands
  <2>1. CASE StartAuto
    BY <2>1 DEF StartAuto, Healed
  <2>2. CASE ResumeAuto
    BY <2>2 DEF ResumeAuto, Healed
  <2>3. CASE Crash
    BY <2>3 DEF Crash
  <2>4. CASE Pause \/ Stop \/ AgentAborted \/ Steer
    BY <2>4, <1>1 DEF Pause, Stop, AgentAborted, Steer
  <2> QED BY <1>2, <2>1, <2>2, <2>3, <2>4 DEF Commands
<1>3. CASE AgentWrites \/ AgentEnds \/ Timers
  BY <1>3, <1>1 DEF AgentWrites, AgentEnds, Timers, IdleTimeout, HardTimeout, RecoverTimedOutUnit
<1>4. CASE HandleAgentEnd
  <2>1. CASE currentUnit = NoUnit
    BY <1>4, <2>1, <1>1 DEF HandleAgentEnd
  <2>2. CASE currentUnit # NoUnit
    <3>1. keys' \union keyFile'
            \subseteq keys \union keyFile \union {u \in {currentUnit} : Verified(disk', u)}
      BY <1>4, <2>2 DEF HandleAgentEnd
    <3>2. currentUnit \in Unit
      BY <2>2 DEF IInv, UnitTypes
    <3> QED BY <3>1, <3>2
  <2> QED BY <2>1, <2>2
<1>5. CASE GapWatchdog \/ ReturnToCaller \/ GapGivesUp
  BY <1>5, <1>1 DEF GapWatchdog, ReturnToCaller, GapGivesUp
<1>6. CASE NothingLeft
  BY <1>6 DEF NothingLeft, keyVars
<1>7. CASE ResolveDispatch \/ SkippedByHook \/ Refused
  BY <1>7, <1>1 DEF ResolveDispatch, SkippedByHook, Refused
<1>8. ASSUME NEW u \in {selected} \ {NoUnit},
             SkipVerified(u) \/ Reconcile(u) \/ LoopDetected(u) \/ Send(u)
      PROVE  Backed
  <2>1. u \in Unit
    BY DEF IInv, UnitTypes
  <2>2. CASE SkipVerified(u)
    BY <2>1, <2>2 DEF SkipVerified
  <2>3. CASE Reconcile(u)
    BY <2>1, <2>3 DEF Reconcile
  <2>4. CASE LoopDetected(u)
    BY <2>4 DEF LoopDetected, FreshKeys, FreshKeyFile
  <2>5. CASE Send(u)
    <3>1. Closed(u) \subseteq Unit /\ \A c \in Closed(u) : Verified(disk', c)
      BY <2>5 DEF Send, Closed, IInv, UnitTypes
    <3>2. keys' \union keyFile' \subseteq keys \union keyFile \union Closed(u)
      BY <2>5 DEF Send, FreshKeys, FreshKeyFile
    <3> QED BY <3>1, <3>2
  <2> QED BY <1>8, <2>2, <2>3, <2>4, <2>5
<1> QED BY <1>2, <1>3, <1>4, <1>5, <1>6, <1>7, <1>8 DEF Next, Loop, DispatchNextUnit

\* The unit of the invocation and the current unit after any step.
LEMMA UnitsStep ==
  ASSUME IInv, Next
  PROVE  /\ selected' \in Unit \union {NoUnit}
         /\ currentUnit' \in Unit \union {NoUnit}
<1> USE DEF IInv, UnitTypes
<1>1. CASE Commands
  BY <1>1 DEF Commands, StartAuto, ResumeAuto, Pause, Stop, StopEffects, PauseEffects,
              AgentAborted, Steer, Crash, Call, loopVars
<1>2. CASE AgentWrites \/ AgentEnds
  BY <1>2 DEF AgentWrites, AgentEnds, loopVars
<1>3. CASE Timers
  BY <1>3 DEF Timers, IdleTimeout, HardTimeout, RecoverTimedOutUnit, Advance, SteerTurn,
              SkipUnit, GiveUp, Call, loopVars
<1>4. CASE HandleAgentEnd \/ GapWatchdog \/ ReturnToCaller \/ GapGivesUp
  BY <1>4 DEF HandleAgentEnd, GapWatchdog, ReturnToCaller, GapGivesUp, StopEffects, Call
<1>5. CASE NothingLeft \/ ResolveDispatch \/ SkippedByHook \/ Refused
  BY <1>5 DEF NothingLeft, ResolveDispatch, SkippedByHook, Refused, StopEffects, Redispatch
<1>6. ASSUME NEW u \in {selected} \ {NoUnit}, SkipVerified(u) \/ Reconcile(u) \/ LoopDetected(u)
      PROVE  selected' = NoUnit /\ currentUnit' \in {currentUnit, NoUnit}
  BY <1>6 DEF SkipVerified, Reconcile, LoopDetected, StopEffects, Redispatch
<1>7. ASSUME NEW u \in {selected} \ {NoUnit}, Send(u)
      PROVE  selected' = NoUnit /\ currentUnit' \in {u, NoUnit}
  BY <1>7 DEF Send, StopEffects, PauseEffects
<1> QED BY <1>1, <1>2, <1>3, <1>4, <1>5, <1>6, <1>7 DEF Next, Loop, DispatchNextUnit

LEMMA NextInv == IInv /\ [Next]_vars => IInv'
<1> SUFFICES ASSUME IInv, [Next]_vars PROVE IInv'
  OBVIOUS
<1>1. Kept(disk, disk')
  BY StepKeeps
<1>2. CASE Next
  BY <1>1, <1>2, CountsStep, KeysStep, UnitsStep DEF IInv, UnitTypes
<1>3. CASE UNCHANGED vars
  <2>1. CountsCover' /\ UnitTypes'
    BY <1>1, <1>3, SameCounts DEF IInv, UnitTypes, vars, countVars, loopVars, keyVars
  <2>2. FilesBacked'
    BY <1>1, <1>3, SomeKeys DEF vars, keyVars
  <2> QED BY <2>1, <2>2 DEF IInv
<1> QED BY <1>2, <1>3

LEMMA Invariance == Spec => []IInv
  BY InitInv, NextInv, PTL DEF Spec

\* No unit is sent more than three times between two moments at which its counters
\* are cleared (MAX_UNIT_DISPATCHES of auto.ts), for every project and every run.
THEOREM RetriesAreBounded == Spec => []RetriesBounded
<1>1. IInv => RetriesBounded
  BY DEF IInv, CountsCover, RetriesBounded, MAX_UNIT_DISPATCHES
<1> QED BY <1>1, Invariance, PTL

\* A unit whose key is in completedKeySet has its artifacts on disk, for every project
\* and every run: the skip of idempotency is never taken on trust.
THEOREM KeysAreBacked == Spec => []KeysBacked
<1>1. IInv => KeysBacked
  BY DEF IInv, FilesBacked, KeysBacked, Plain
<1> QED BY <1>1, Invariance, PTL

-------------------------------------------------------------------------------
(* The types *)

\* A chosen unit is reached with a chain of skips that is not too long.
TypeInv == TypeOK /\ (step = "selected" => skipDepth <= MAX_SKIP_DEPTH)

\* What the id of a unit is of.
LEMMA UnitIds ==
  ASSUME NEW u \in Unit
  PROVE  /\ u[1] \in UnitType
         /\ u[1] \in MilestoneUnits => u[2] \in MilestoneId
         /\ u[1] \in SliceUnits => u[2] \in SliceId
         /\ u[1] = "execute-task" => u[2] \in TaskId
  BY DEF Unit, UnitType, MilestoneUnits, SliceUnits

\* The artifact of a unit is a file of the project.
LEMMA ArtifactFact ==
  ASSUME NEW u \in Unit, u[1] \in DOMAIN Artifact
  PROVE  <<Artifact[u[1]], u[2]>> \in Fact
<1>1. u[1] \in UnitType \ {"replan-slice", "rewrite-docs"}
  BY DEF Artifact
<1>2. CASE u[1] \in MilestoneUnits
  <2>1. Artifact[u[1]] \in {"RESEARCH", "ROADMAP", "SUMMARY"}
    BY <1>1, <1>2 DEF Artifact, MilestoneUnits
  <2> QED BY <1>2, <2>1, UnitIds DEF Fact
<1>3. CASE u[1] \in SliceUnits
  <2>1. Artifact[u[1]] \in {"RESEARCH", "PLAN", "UAT-RESULT", "ASSESSMENT", "SUMMARY"}
    BY <1>1, <1>3 DEF Artifact, SliceUnits
  <2> QED BY <1>3, <2>1, UnitIds DEF Fact
<1>4. CASE u[1] = "execute-task"
  BY <1>1, <1>4, UnitIds DEF Artifact, Fact
<1> QED BY <1>1, <1>2, <1>3, <1>4 DEF UnitType

LEMMA RequiredFacts == ASSUME NEW u \in Unit PROVE Required(u) \subseteq Fact
<1>1. CASE u[1] \in {"replan-slice", "rewrite-docs"}
  BY <1>1 DEF Required
<1>2. CASE u[1] = "execute-task"
  BY <1>2, UnitIds DEF Required, Fact
<1>3. CASE u[1] = "complete-slice"
  BY <1>3, UnitIds DEF Required, Fact, SliceUnits
<1>4. CASE u[1] \notin {"replan-slice", "rewrite-docs", "execute-task", "complete-slice"}
  <2>1. u[1] \in DOMAIN Artifact
    BY <1>4, UnitIds DEF Artifact
  <2>2. Required(u) = {<<Artifact[u[1]], u[2]>>}
    BY <1>4 DEF Required
  <2> QED BY <2>1, <2>2, ArtifactFact
<1> QED BY <1>1, <1>2, <1>3, <1>4

\* What a turn of the agent writes.
LEMMA TurnFacts ==
  ASSUME NEW u \in Unit, NEW W \in Outputs(u) \union Extras(u)
  PROVE  W \subseteq Fact
<1>1. CASE W \in Outputs(u)
  <2>1. CASE u[1] \in {"plan-milestone", "plan-slice", "replan-slice"}
    BY <1>1, <2>1, UnitIds DEF Outputs, Fact, MilestoneUnits, SliceUnits
  <2>2. CASE u[1] \notin {"plan-milestone", "plan-slice", "replan-slice"}
    BY <1>1, <2>2, RequiredFacts DEF Outputs
  <2> QED BY <2>1, <2>2
<1>2. CASE W \in Extras(u)
  BY <1>2, UnitIds DEF Extras, Fact, SliceUnits
<1> QED BY <1>1, <1>2

LEMMA RepairFacts ==
  ASSUME NEW d, d \subseteq Fact
  PROVE  /\ DoctorAll(d) \subseteq Fact
         /\ \A id : DoctorTask(d, id) \subseteq Fact
         /\ \A id \in TaskId : SkipTask(d, id) \subseteq Fact
<1>1. \A I : SummarizedTasks(d, I) \subseteq TaskId
  BY DEF SummarizedTasks
<1>2. FinishedSlices(d) \subseteq SliceId
  BY DEF FinishedSlices
<1>3. DoctorAll(d) \subseteq Fact
  BY <1>1, <1>2 DEF DoctorAll, Fact
<1>4. ASSUME NEW id PROVE DoctorTask(d, id) \subseteq Fact
  <2> DEFINE I == {i \in SliceId : i[1] = id[1] /\ (Len(id) > 1 => i[2] = id[2])}
  <2>1. DoctorTask(d, id) = d \union {<<"x", i>> : i \in SummarizedTasks(d, I)}
    BY DEF DoctorTask
  <2> HIDE DEF I
  <2>2. \A i \in SummarizedTasks(d, I) : <<"x", i>> \in Fact
    BY <1>1 DEF Fact
  <2> QED BY <2>1, <2>2
<1>5. ASSUME NEW id \in TaskId PROVE SkipTask(d, id) \subseteq Fact
  BY DEF SkipTask, Fact
<1> QED BY <1>3, <1>4, <1>5

LEMMA PassFacts ==
  ASSUME NEW e, e \subseteq Fact, disk \subseteq Fact, NEW d \in Passes(e)
  PROVE  d \subseteq Fact
  BY DEF Passes

\* The bounds of the counters, as numbers.
LEMMA Bounds ==
  /\ MAX_UNIT_DISPATCHES = 3 /\ MAX_LIFETIME_DISPATCHES = 6
  /\ MAX_SKIP_DEPTH = 20 /\ MAX_REWRITE_ATTEMPTS = 3 /\ NoRecord = -1
  BY DEF MAX_UNIT_DISPATCHES, MAX_LIFETIME_DISPATCHES, MAX_SKIP_DEPTH, MAX_REWRITE_ATTEMPTS,
         NoRecord

\* Counters and records of a fresh start.
LEMMA FreshTypes ==
  /\ Zero \in [Unit -> Nat] /\ Zero \in [Unit -> 0..MAX_UNIT_DISPATCHES]
  /\ Zero \in [Unit -> 0..MAX_LIFETIME_DISPATCHES]
  /\ NoRecords \in [Unit -> NoRecord..2]
  BY Bounds DEF Zero, NoRecords

\* Timers that are cleared.
LEMMA ClearedTimers == ClearTimers => supervised' = NoUnit /\ hardTimer' \in BOOLEAN
  BY Zenon DEF ClearTimers

LEMMA InitTypes == Init => TypeInv
<1> SUFFICES ASSUME Init PROVE TypeInv
  OBVIOUS
<1>1. disk \subseteq Fact
  BY DispatchAssumption DEF Init
<1>2. hardTimer \in BOOLEAN /\ unwritten \in BOOLEAN
  <2>1. hardTimer \in BOOLEAN
    BY Zenon DEF Init
  <2>2. (Override \in disk) \in BOOLEAN
    OBVIOUS
  <2>3. unwritten = (Override \in disk)
    BY Zenon DEF Init
  <2>4. unwritten \in BOOLEAN
    BY Zenon, <2>2, <2>3
  <2> QED BY <2>1, <2>4
<1>3. /\ agent = NoUnit /\ supervised = NoUnit /\ selected = NoUnit /\ currentUnit = NoUnit
      /\ milestone = 0 /\ keys = {} /\ keyFile = {} /\ closing = {}
  BY DEF Init
<1>4. /\ mode = "stopped" /\ step = "idle" /\ caller = "start" /\ skipDepth = 0
      /\ rewriteCount = 0
  BY DEF Init
<1>5. dispatchCount = Zero /\ lifetime = Zero /\ sent = Zero /\ record = NoRecords
  BY DEF Init
<1> QED BY <1>1, <1>2, <1>3, <1>4, <1>5, FreshTypes, Bounds DEF TypeInv, TypeOK

\* The disk after any step holds facts of the project.
LEMMA DiskTypes ==
  ASSUME TypeOK, Next
  PROVE  disk' \subseteq Fact
<1>1. disk \subseteq Fact /\ Override \in Fact
  BY DEF TypeOK, Fact
<1>2. CASE UNCHANGED disk
  BY <1>1, <1>2
<1>3. CASE Commands
  <2>1. CASE ResumeAuto
    BY <1>1, <2>1, RepairFacts, PassFacts DEF ResumeAuto
  <2>2. CASE Steer
    BY <1>1, <2>2 DEF Steer
  <2>3. CASE StartAuto \/ Pause \/ Stop \/ AgentAborted \/ Crash
    BY <2>3, <1>2 DEF StartAuto, Pause, Stop, AgentAborted, Crash
  <2> QED BY <1>3, <2>1, <2>2, <2>3 DEF Commands
<1>4. CASE AgentWrites
  <2>1. agent \in Unit
    BY <1>4 DEF AgentWrites, AgentRuns, TypeOK
  <2>2. CASE disk' = disk \ {Override}
    BY <1>1, <2>2
  <2>3. CASE \E W \in Outputs(agent) \union Extras(agent) : disk' = Write(disk, W)
    BY <1>1, <2>1, <2>3, TurnFacts DEF Write
  <2> QED BY <1>4, <2>2, <2>3 DEF AgentWrites
<1>5. CASE AgentEnds
  BY <1>5, <1>2 DEF AgentEnds
<1>6. CASE Timers
  <2>1. PICK max : RecoverTimedOutUnit(supervised, max) /\ supervised \in Unit
    BY <1>6 DEF Timers, IdleTimeout, HardTimeout
  <2>2. CASE SkipUnit(supervised, max)
    <3>1. CASE supervised[1] = "execute-task"
      BY <1>1, <2>1, <2>2, <3>1, UnitIds, RepairFacts DEF SkipUnit
    <3>2. CASE supervised[1] # "execute-task"
      BY <1>1, <2>1, <2>2, <3>2, ArtifactFact DEF SkipUnit
    <3> QED BY <3>1, <3>2
  <2>3. CASE Advance(supervised) \/ SteerTurn(supervised, max) \/ GiveUp(supervised, max)
    BY <2>3, <1>2 DEF Advance, SteerTurn, GiveUp
  <2> QED BY <2>1, <2>2, <2>3 DEF RecoverTimedOutUnit
<1>7. CASE Loop
  <2>1. CASE HandleAgentEnd
    <3>1. CASE currentUnit = NoUnit
      BY <2>1, <3>1, <1>2 DEF HandleAgentEnd
    <3>2. CASE currentUnit # NoUnit
      <4>1. PICK d \in Passes(DoctorTask(disk, currentUnit[2])) : disk' \subseteq d
        BY <2>1, <3>2 DEF HandleAgentEnd
      <4>2. d \subseteq Fact
        BY <1>1, <4>1, RepairFacts, PassFacts
      <4> QED BY <4>1, <4>2
    <3> QED BY <3>1, <3>2
  <2>2. CASE GapWatchdog \/ ReturnToCaller \/ GapGivesUp
    BY <2>2, <1>2 DEF GapWatchdog, ReturnToCaller, GapGivesUp
  <2>3. CASE NothingLeft \/ SkippedByHook \/ Refused
    BY <2>3, <1>2 DEF NothingLeft, SkippedByHook, Refused
  <2>4. CASE ResolveDispatch
    BY <2>4, <1>1 DEF ResolveDispatch, GatedDisk
  <2>5. ASSUME NEW u \in {selected} \ {NoUnit},
               SkipVerified(u) \/ Reconcile(u) \/ LoopDetected(u) \/ Send(u)
        PROVE  disk' \subseteq Fact
    <3>1. u \in Unit
      BY DEF TypeOK
    <3>2. CASE Reconcile(u)
      <4>1. CASE u[1] = "execute-task"
        BY <1>1, <3>1, <3>2, <4>1, UnitIds, RepairFacts DEF Reconcile, Reconciled
      <4>2. CASE u[1] = "complete-milestone"
        BY <1>1, <3>1, <3>2, <4>2, UnitIds DEF Reconcile, Reconciled, MilestoneUnits, Fact
      <4>3. CASE u[1] \notin {"execute-task", "complete-milestone"}
        BY <1>1, <3>2, <4>3 DEF Reconcile, Reconciled
      <4> QED BY <4>1, <4>2, <4>3
    <3>3. CASE Send(u)
      BY <1>1, <3>1, <3>3, UnitIds DEF Send, Stubs, Fact
    <3>4. CASE SkipVerified(u) \/ LoopDetected(u)
      BY <3>4, <1>2 DEF SkipVerified, LoopDetected
    <3> QED BY <2>5, <3>2, <3>3, <3>4
  <2> QED BY <1>7, <2>1, <2>2, <2>3, <2>4, <2>5 DEF Loop, DispatchNextUnit
<1> QED BY <1>3, <1>4, <1>5, <1>6, <1>7 DEF Next

\* The record of a unit after a dispatch or one more recovery.
LEMMA RecordTypes ==
  ASSUME TypeOK, NEW u \in Unit
  PROVE  /\ Attempts(u) \in NoRecord..2 /\ OneMore(Attempts(u)) \in NoRecord..2
         /\ \A U : WithoutRecords(U) \in [Unit -> NoRecord..2]
<1>1. record[u] \in -1..2
  BY Bounds DEF TypeOK
<1>2. Attempts(u) \in 0..2 /\ OneMore(Attempts(u)) \in 0..2
  BY <1>1, Bounds DEF Attempts, OneMore
<1>3. \A U : WithoutRecords(U) \in [Unit -> NoRecord..2]
  BY Bounds DEF TypeOK, WithoutRecords
<1> QED BY <1>2, <1>3, Bounds

LEMMA CommandTypes == ASSUME TypeInv, Commands PROVE TypeInv'
<1> USE FreshTypes, ClearedTimers, Bounds DEF TypeInv, TypeOK
<1>1. disk' \subseteq Fact
  BY DiskTypes DEF Next
<1>2. CASE StartAuto
  <2>1. Healed(disk) \subseteq Unit
    BY DEF Healed
  <2>2. record' \in [Unit -> NoRecord..2]
    BY <1>2 DEF StartAuto, WithoutRecords
  <2> QED BY <1>1, <1>2, <2>1, <2>2
          DEF StartAuto, Call, ClearCounts, turnVars, historyVars
<1>3. CASE ResumeAuto
  <2>1. Healed(disk') \subseteq Unit
    BY DEF Healed
  <2>2. record' \in [Unit -> NoRecord..2]
    BY <1>3 DEF ResumeAuto, WithoutRecords
  <2> QED BY <1>1, <1>3, <2>1, <2>2
          DEF ResumeAuto, Call, ClearCounts, turnVars, historyVars
<1>4. CASE Pause
  BY <1>1, <1>4 DEF Pause, PauseEffects, keyVars, countVars, historyVars
<1>5. CASE Stop
  BY <1>1, <1>5 DEF Stop, StopEffects, ClearCounts, keyVars, historyVars
<1>6. CASE AgentAborted
  BY <1>1, <1>6 DEF AgentAborted, PauseEffects, keyVars, countVars, historyVars
<1>7. CASE Steer
  BY <1>1, <1>7 DEF Steer, loopVars, turnVars, keyVars, countVars
<1>8. CASE Crash
  BY <1>1, <1>8 DEF Crash, ClearCounts, historyVars
<1> QED BY <1>2, <1>3, <1>4, <1>5, <1>6, <1>7, <1>8 DEF Commands

LEMMA TurnTypes == ASSUME TypeInv, AgentWrites \/ AgentEnds \/ Timers PROVE TypeInv'
<1> USE Bounds DEF TypeInv, TypeOK
<1>1. disk' \subseteq Fact
  BY DiskTypes DEF Next
<1>2. CASE AgentWrites
  BY <1>1, <1>2 DEF AgentWrites, loopVars, turnVars, keyVars, countVars, historyVars
<1>3. CASE AgentEnds
  BY <1>1, <1>3 DEF AgentEnds, keyVars, countVars, historyVars
<1>4. CASE Timers
  <2>1. PICK max : RecoverTimedOutUnit(supervised, max) /\ supervised \in Unit
    BY <1>4 DEF Timers, IdleTimeout, HardTimeout
  <2>2. hardTimer' \in BOOLEAN
    BY <1>4 DEF Timers, IdleTimeout, HardTimeout
  <2>3. record' \in [Unit -> NoRecord..2]
    BY <2>1, RecordTypes DEF RecoverTimedOutUnit, Advance, SteerTurn, SkipUnit, GiveUp
  <2>4. /\ mode' \in {"stopped", "active", "paused"} /\ skipDepth' \in 0..(MAX_SKIP_DEPTH + 1)
        /\ step' \in {step, "dispatch", "idle"}
        /\ step' = step => skipDepth' = skipDepth \/ skipDepth' = 0
        /\ caller' \in {caller, "timer"} /\ supervised' \in {supervised, NoUnit}
        /\ selected' = selected
    BY <2>1 DEF RecoverTimedOutUnit, Advance, SteerTurn, SkipUnit, GiveUp, Call, loopVars
  <2> QED BY <1>1, <2>1, <2>2, <2>3, <2>4
          DEF RecoverTimedOutUnit, keyVars, countVars, historyVars
<1> QED BY <1>2, <1>3, <1>4

LEMMA LoopTypes ==
  ASSUME TypeInv, HandleAgentEnd \/ GapWatchdog \/ ReturnToCaller \/ GapGivesUp
  PROVE  TypeInv'
<1> USE FreshTypes, ClearedTimers, Bounds DEF TypeInv, TypeOK
<1>1. disk' \subseteq Fact
  BY DiskTypes DEF Next, Loop
<1>2. CASE HandleAgentEnd
  <2>1. keys' \subseteq Unit /\ keyFile' \subseteq Unit
        /\ rewriteCount' \in 0..MAX_REWRITE_ATTEMPTS
    <3>1. CASE currentUnit = NoUnit
      BY <1>2, <3>1 DEF HandleAgentEnd, keyVars
    <3>2. CASE currentUnit # NoUnit
      <4>1. currentUnit \in Unit
        BY <3>2
      <4>2. /\ keys' \subseteq keys \union {currentUnit}
            /\ keyFile' \subseteq keyFile \union {currentUnit}
            /\ rewriteCount' \in {0, rewriteCount}
        BY <1>2, <3>2 DEF HandleAgentEnd
      <4> QED BY <4>1, <4>2
    <3> QED BY <3>1, <3>2
  <2> QED BY <1>1, <1>2, <2>1 DEF HandleAgentEnd, Call, countVars, historyVars
<1>3. CASE GapWatchdog
  BY <1>1, <1>3 DEF GapWatchdog, Call, turnVars, keyVars, countVars, historyVars
<1>4. CASE ReturnToCaller
  BY <1>1, <1>4 DEF ReturnToCaller, turnVars, keyVars, countVars, historyVars
<1>5. CASE GapGivesUp
  BY <1>1, <1>5 DEF GapGivesUp, StopEffects, ClearCounts, keyVars, historyVars
<1> QED BY <1>2, <1>3, <1>4, <1>5

LEMMA ResolveTypes ==
  ASSUME TypeInv, NothingLeft \/ ResolveDispatch \/ SkippedByHook \/ Refused
  PROVE  TypeInv'
<1> USE FreshTypes, ClearedTimers, Bounds DEF TypeInv, TypeOK
<1>1. disk' \subseteq Fact
  BY DiskTypes DEF Next, Loop, DispatchNextUnit
<1>2. CASE NothingLeft
  <2>1. keys' \subseteq Unit /\ keyFile' \subseteq Unit
    BY <1>2 DEF NothingLeft, keyVars
  <2> QED BY <1>1, <1>2, <2>1 DEF NothingLeft, StopEffects, ClearCounts, historyVars
<1>3. CASE ResolveDispatch
  <2>1. /\ milestone' \in Milestone /\ selected' \in Unit \union {NoUnit}
        /\ step' = "selected" /\ skipDepth' = Depth
        /\ UNCHANGED <<mode, caller, turnVars, currentUnit, keyVars, record, historyVars>>
    BY <1>3 DEF ResolveDispatch
  <2>2. skipDepth' \in 0..MAX_SKIP_DEPTH
    BY <2>1 DEF Depth
  <2>3. rewriteCount' \in 0..MAX_REWRITE_ATTEMPTS
    BY <1>3 DEF ResolveDispatch, GatedCount, GateGivesUp
  <2>4. UNCHANGED countVars \/ ClearCounts
    BY <1>3 DEF ResolveDispatch
  <2>5. /\ dispatchCount' \in [Unit -> 0..MAX_UNIT_DISPATCHES]
        /\ lifetime' \in [Unit -> 0..MAX_LIFETIME_DISPATCHES]
        /\ sent' \in [Unit -> Nat]
    BY <2>4 DEF countVars, ClearCounts
  <2> QED BY <1>1, <2>1, <2>2, <2>3, <2>5 DEF turnVars, keyVars, historyVars
<1>4. CASE SkippedByHook
  BY <1>1, <1>4 DEF SkippedByHook, Redispatch, turnVars, keyVars, countVars, historyVars
<1>5. CASE Refused
  BY <1>1, <1>5 DEF Refused, StopEffects, ClearCounts, keyVars, historyVars
<1> QED BY <1>2, <1>3, <1>4, <1>5

LEMMA UnitTypesStep ==
  ASSUME TypeInv, NEW u \in {selected} \ {NoUnit},
         SkipVerified(u) \/ Reconcile(u) \/ LoopDetected(u) \/ Send(u)
  PROVE  TypeInv'
<1> USE FreshTypes, ClearedTimers, Bounds DEF TypeInv, TypeOK
<1>1. disk' \subseteq Fact
  BY DiskTypes DEF Next, Loop, DispatchNextUnit
<1>2. u \in Unit
  OBVIOUS
<1>3. CASE SkipVerified(u)
  BY <1>1, <1>2, <1>3 DEF SkipVerified, Admitted, turnVars, countVars, historyVars
<1>4. CASE Reconcile(u)
  <2>1. /\ dispatchCount' \in [Unit -> 0..MAX_UNIT_DISPATCHES]
        /\ lifetime' \in [Unit -> 0..MAX_LIFETIME_DISPATCHES]
    BY <1>2, <1>4 DEF Reconcile, WithinLifetime
  <2> QED BY <1>1, <1>2, <1>4, <2>1 DEF Reconcile, Redispatch, turnVars, historyVars
<1>5. CASE LoopDetected(u)
  <2>1. keys' \subseteq Unit /\ keyFile' \subseteq Unit
    BY <1>5 DEF LoopDetected, FreshKeys, FreshKeyFile
  <2> QED BY <1>1, <1>5, <2>1 DEF LoopDetected, StopEffects, ClearCounts, historyVars
<1>6. CASE Send(u)
  <2>1. Closed(u) \subseteq Unit
    BY DEF Closed
  <2>2. keys' \subseteq Unit /\ keyFile' \subseteq Unit
    BY <1>6, <2>1 DEF Send, FreshKeys, FreshKeyFile
  <2>3. record' \in [Unit -> NoRecord..2]
    BY <1>2, <1>6, RecordTypes DEF Send
  <2>4. rewriteCount' = rewriteCount
    BY <1>6 DEF Send
  <2>5. CASE StopEffects /\ UNCHANGED <<closing, unwritten>>
    BY <1>1, <2>2, <2>3, <2>4, <2>5 DEF StopEffects, ClearCounts
  <2>6. CASE ~(StopEffects /\ UNCHANGED <<closing, unwritten>>)
    <3>1. /\ agent' = u /\ currentUnit' = u /\ milestone' = milestone
          /\ lifetime' = [lifetime EXCEPT ![u] = @ + 1]
          /\ sent' = IF u[1] = "rewrite-docs" THEN sent ELSE [sent EXCEPT ![u] = @ + 1]
          /\ closing' = IF u[1] = "complete-slice" THEN closing \union {u[2]} ELSE closing
      BY <1>6, <2>6 DEF Send
    <3>2. unwritten' \in BOOLEAN
      <4>1. unwritten' = (unwritten /\ u[1] # "rewrite-docs")
        BY <1>6, <2>6 DEF Send
      <4>2. (unwritten /\ u[1] # "rewrite-docs") \in BOOLEAN
        OBVIOUS
      <4> QED BY Zenon, <4>1, <4>2
    <3>3. dispatchCount' \in [Unit -> 0..MAX_UNIT_DISPATCHES]
      <4>1. dispatchCount' = [c \in Unit |-> IF c \in Closed(u) THEN 0
                                             ELSE IF c = u THEN dispatchCount[u] + 1
                                             ELSE dispatchCount[c]]
        BY <1>6, <2>6 DEF Send
      <4>2. dispatchCount[u] + 1 \in 0..MAX_UNIT_DISPATCHES
        BY <1>2, <1>6 DEF Send, AtLimit
      <4> QED BY <4>1, <4>2
    <3>4. lifetime' \in [Unit -> 0..MAX_LIFETIME_DISPATCHES] /\ sent' \in [Unit -> Nat]
      BY <1>2, <1>6, <3>1 DEF Send, WithinLifetime
    <3>5. closing' \subseteq SliceId
      BY <1>2, <3>1, UnitIds DEF SliceUnits
    <3>6. \/ PauseEffects
          \/ /\ step' = "idle" /\ skipDepth' = 0 /\ selected' = NoUnit
             /\ supervised' = u /\ hardTimer' = TRUE /\ UNCHANGED <<mode, caller>>
      BY <1>6, <2>6 DEF Send
    <3>7. /\ mode' \in {mode, "paused"} /\ step' = "idle" /\ skipDepth' = 0
          /\ selected' = NoUnit /\ caller' = caller /\ supervised' \in {u, NoUnit}
      BY <3>6 DEF PauseEffects
    <3>8. hardTimer' \in BOOLEAN
      BY Zenon, <3>6, ClearedTimers DEF PauseEffects
    <3> QED BY <1>1, <1>2, <2>2, <2>3, <2>4, <3>1, <3>2, <3>3, <3>4, <3>5, <3>7, <3>8
  <2> QED BY <2>5, <2>6
<1> QED BY <1>3, <1>4, <1>5, <1>6

\* Every step keeps the types.
LEMMA TypesKept == TypeInv /\ [Next]_vars => TypeInv'
<1> SUFFICES ASSUME TypeInv, [Next]_vars PROVE TypeInv'
  OBVIOUS
<1>1. CASE Next
  BY <1>1, CommandTypes, TurnTypes, LoopTypes, ResolveTypes, UnitTypesStep
     DEF Next, Loop, DispatchNextUnit
<1>2. CASE UNCHANGED vars
  BY <1>2 DEF vars, loopVars, turnVars, keyVars, countVars, historyVars, TypeInv, TypeOK
<1> QED BY <1>1, <1>2

\* Every variable of the dispatch loop keeps its type: the counters stay within their
\* limits, a chain of skips within MAX_SKIP_DEPTH + 1 (auto.ts), and the disk, the keys
\* and the records speak of units of the project only.
THEOREM DispatchTypes == Spec => []TypeOK
<1>1. TypeInv => TypeOK
  BY DEF TypeInv
<1> QED BY InitTypes, TypesKept, <1>1, PTL DEF Spec

-------------------------------------------------------------------------------
(* The slices *)

\* A project that begins without a slice that is done, and that no full pass of the
\* doctor repairs: that is what resuming a paused run does.
Unrepaired ==
  /\ "resume" \notin UserMay
  /\ \A d \in InitialDisks : \A i \in SliceId : <<"x", i>> \notin d

\* A turn that marks a slice was sent to close it.
SlicesInv ==
  TypeInv /\ SlicesClosedByUnit /\ (agent[1] = "complete-slice" => agent[2] \in closing)

\* The checkbox of a task is no slice's.
LEMMA SliceIsNoTask == \A i \in SliceId : i \notin TaskId
<1> SUFFICES ASSUME NEW i \in SliceId, i \in TaskId PROVE FALSE
  OBVIOUS
<1>1. PICK m, s : i = <<m, s>>
  BY DEF SliceId
<1>2. PICK a, b, c : i = <<a, b, c>>
  BY DEF TaskId
<1>3. Len(<<m, s>>) = 2 /\ Len(<<a, b, c>>) = 3
  OBVIOUS
<1> QED BY <1>1, <1>2, <1>3

\* The artifact of a unit is a file, not a mark.
LEMMA ArtifactNoMark == \A type \in DOMAIN Artifact : Artifact[type] # "x"
  BY DEF Artifact

\* The pass after a turn, and what is done in the stead of a task, mark no slice.
LEMMA RepairsMarkNoSlice ==
  ASSUME NEW d, NEW i \in SliceId, <<"x", i>> \notin d
  PROVE  /\ \A id : <<"x", i>> \notin DoctorTask(d, id)
         /\ \A id \in TaskId : <<"x", i>> \notin SkipTask(d, id)
<1>1. ASSUME NEW id PROVE <<"x", i>> \notin DoctorTask(d, id)
  <2> DEFINE I == {k \in SliceId : k[1] = id[1] /\ (Len(id) > 1 => k[2] = id[2])}
  <2>1. DoctorTask(d, id) = d \union {<<"x", k>> : k \in SummarizedTasks(d, I)}
    BY DEF DoctorTask
  <2> HIDE DEF I
  <2>2. SummarizedTasks(d, I) \subseteq TaskId
    BY DEF SummarizedTasks
  <2> QED BY <2>1, <2>2, SliceIsNoTask
<1>2. ASSUME NEW id \in TaskId PROVE <<"x", i>> \notin SkipTask(d, id)
  BY SliceIsNoTask DEF SkipTask
<1> QED BY <1>1, <1>2

\* A turn marks a slice only when it was sent to close it.
LEMMA TurnMarks ==
  ASSUME NEW u \in Unit, NEW W \in Outputs(u) \union Extras(u), NEW i \in SliceId, <<"x", i>> \in W
  PROVE  u = <<"complete-slice", i>>
<1>1. W \in Outputs(u)
  BY DEF Extras
<1>2. u[1] \notin {"plan-milestone", "plan-slice", "replan-slice"}
  BY <1>1 DEF Outputs
<1>3. <<"x", i>> \in Required(u)
  BY <1>1, <1>2 DEF Outputs
<1>4. u[1] # "execute-task"
  BY <1>3, UnitIds, SliceIsNoTask DEF Required
<1>5. u[1] = "complete-slice"
  <2>1. ASSUME u[1] # "complete-slice" PROVE FALSE
    <3>1. u[1] \notin {"replan-slice", "rewrite-docs"}
      BY <1>3 DEF Required
    <3>2. Required(u) = {<<Artifact[u[1]], u[2]>>}
      BY <1>4, <2>1, <3>1 DEF Required
    <3>3. u[1] \in DOMAIN Artifact
      BY <3>1, UnitIds DEF Artifact
    <3> QED BY <1>3, <3>2, <3>3, ArtifactNoMark
  <2> QED BY <2>1
<1>6. u[2] = i
  BY <1>3, <1>5 DEF Required
<1>7. u = <<u[1], u[2]>>
  BY DEF Unit
<1> QED BY <1>5, <1>6, <1>7

\* A slice is marked by a turn of the agent, and of no other unit than its own.
LEMMA SliceMarks ==
  ASSUME TypeOK, Next, "resume" \notin UserMay,
         NEW i \in SliceId, <<"x", i>> \in disk', <<"x", i>> \notin disk
  PROVE  AgentWrites /\ agent = <<"complete-slice", i>>
<1>1. disk' # disk /\ <<"x", i>> # Override
  BY DEF Override
<1>2. CASE AgentWrites
  <2>1. agent \in Unit
    BY <1>2 DEF AgentWrites, AgentRuns, TypeOK
  <2>2. PICK W \in Outputs(agent) \union Extras(agent) : <<"x", i>> \in W
    BY <1>2 DEF AgentWrites, Write
  <2> QED BY <1>2, <2>1, <2>2, TurnMarks
<1>3. CASE Commands \/ AgentEnds
  BY <1>1, <1>3 DEF Commands, StartAuto, ResumeAuto, Pause, Stop, AgentAborted, Steer, Crash,
                    AgentEnds
<1>4. CASE Timers
  <2>1. PICK max : SkipUnit(supervised, max) /\ supervised \in Unit
    BY <1>1, <1>4 DEF Timers, IdleTimeout, HardTimeout, RecoverTimedOutUnit, Advance, SteerTurn,
                      GiveUp
  <2>2. CASE supervised[1] = "execute-task"
    BY <2>1, <2>2, UnitIds, RepairsMarkNoSlice DEF SkipUnit
  <2>3. CASE supervised[1] # "execute-task"
    BY <2>1, <2>3, ArtifactNoMark DEF SkipUnit
  <2> QED BY <2>2, <2>3
<1>5. CASE Loop
  <2>1. CASE HandleAgentEnd
    <3>1. PICK d \in Passes(DoctorTask(disk, currentUnit[2])) : disk' \subseteq d
      BY <1>1, <2>1 DEF HandleAgentEnd
    <3>2. <<"x", i>> \notin d
      BY RepairsMarkNoSlice DEF Passes
    <3> QED BY <3>1, <3>2
  <2>2. CASE GapWatchdog \/ ReturnToCaller \/ GapGivesUp \/ NothingLeft \/ SkippedByHook \/ Refused
    BY <1>1, <2>2 DEF GapWatchdog, ReturnToCaller, GapGivesUp, NothingLeft, SkippedByHook, Refused
  <2>3. CASE ResolveDispatch
    BY <2>3 DEF ResolveDispatch, GatedDisk
  <2>4. ASSUME NEW u \in {selected} \ {NoUnit},
               SkipVerified(u) \/ Reconcile(u) \/ LoopDetected(u) \/ Send(u)
        PROVE  FALSE
    <3>1. u \in Unit
      BY DEF TypeOK
    <3>2. CASE Reconcile(u)
      BY <3>1, <3>2, UnitIds, RepairsMarkNoSlice DEF Reconcile, Reconciled
    <3>3. CASE SkipVerified(u) \/ LoopDetected(u)
      BY <1>1, <3>3 DEF SkipVerified, LoopDetected
    <3>4. CASE Send(u)
      BY <3>4 DEF Send, Stubs
    <3> QED BY <2>4, <3>2, <3>3, <3>4
  <2> QED BY <1>5, <2>1, <2>2, <2>3, <2>4 DEF Loop, DispatchNextUnit
<1> QED BY <1>2, <1>3, <1>4, <1>5 DEF Next

\* A unit that closes a slice is sent as such; closing only grows.
LEMMA ClosingStep ==
  ASSUME [Next]_vars
  PROVE  /\ closing \subseteq closing'
         /\ agent' \in {agent, NoUnit} \/ (agent'[1] = "complete-slice" => agent'[2] \in closing')
<1>1. CASE Commands \/ AgentEnds \/ AgentWrites \/ Timers \/ UNCHANGED vars
  BY <1>1 DEF Commands, StartAuto, ResumeAuto, Pause, Stop, StopEffects, AgentAborted, Steer, Crash,
              AgentEnds, AgentWrites, Timers, IdleTimeout, HardTimeout, RecoverTimedOutUnit,
              historyVars, turnVars, vars
<1>2. CASE \/ HandleAgentEnd \/ GapWatchdog \/ ReturnToCaller \/ GapGivesUp
           \/ NothingLeft \/ ResolveDispatch \/ SkippedByHook \/ Refused
  BY <1>2 DEF HandleAgentEnd, GapWatchdog, ReturnToCaller, GapGivesUp, NothingLeft,
              ResolveDispatch, SkippedByHook, Refused, StopEffects, historyVars, turnVars
<1>3. ASSUME NEW u, SkipVerified(u) \/ Reconcile(u) \/ LoopDetected(u)
      PROVE  closing' = closing /\ agent' = agent
  BY <1>3 DEF SkipVerified, Reconcile, LoopDetected, StopEffects, historyVars, turnVars
<1>4. ASSUME NEW u, Send(u)
      PROVE  \/ closing' = closing /\ agent' = agent
             \/ /\ agent' = u
                /\ closing' = IF u[1] = "complete-slice" THEN closing \union {u[2]} ELSE closing
  BY <1>4 DEF Send, StopEffects
<1>5. ASSUME NEW u, SkipVerified(u) \/ Reconcile(u) \/ LoopDetected(u) \/ Send(u)
      PROVE  /\ closing \subseteq closing'
             /\ agent' = agent \/ (agent'[1] = "complete-slice" => agent'[2] \in closing')
  BY <1>3, <1>4, <1>5
<1> QED BY <1>1, <1>2, <1>5 DEF Next, Loop, DispatchNextUnit

\* A slice is marked done by the unit that closes it, and by no bookkeeping, stub or
\* recovery: for every project that begins without a finished slice, as long as no paused
\* run is resumed.
THEOREM SlicesAreClosedByUnits == Unrepaired /\ Spec => []SlicesClosedByUnit
<1> SUFFICES ASSUME Unrepaired PROVE Spec => []SlicesClosedByUnit
  OBVIOUS
<1>1. Init => SlicesInv
  <2> SUFFICES ASSUME Init PROVE SlicesInv
    OBVIOUS
  <2>1. SlicesClosedByUnit /\ agent[1] # "complete-slice"
    BY DEF Init, SlicesClosedByUnit, Unrepaired, NoUnit
  <2> QED BY <2>1, InitTypes DEF SlicesInv
<1>2. SlicesInv /\ [Next]_vars => SlicesInv'
  <2> SUFFICES ASSUME SlicesInv, [Next]_vars PROVE SlicesInv'
    OBVIOUS
  <2>1. TypeInv'
    BY TypesKept DEF SlicesInv
  <2>2. agent'[1] = "complete-slice" => agent'[2] \in closing'
    BY ClosingStep DEF SlicesInv, NoUnit
  <2>3. ASSUME NEW i \in SliceId, <<"x", i>> \in disk' PROVE i \in closing'
    <3>1. CASE <<"x", i>> \in disk
      BY <3>1, ClosingStep DEF SlicesInv, SlicesClosedByUnit
    <3>2. CASE <<"x", i>> \notin disk
      <4>1. Next
        BY <2>3, <3>2 DEF vars
      <4>2. agent = <<"complete-slice", i>>
        BY <2>3, <3>2, <4>1, SliceMarks DEF SlicesInv, TypeInv, Unrepaired
      <4> QED BY <4>2, ClosingStep DEF SlicesInv
    <3> QED BY <3>1, <3>2
  <2> QED BY <2>1, <2>2, <2>3 DEF SlicesInv, SlicesClosedByUnit
<1>3. SlicesInv => SlicesClosedByUnit
  BY DEF SlicesInv
<1> QED BY <1>1, <1>2, <1>3, PTL DEF Spec

-------------------------------------------------------------------------------
(* Something to wait for *)

\* A dispatch a timer began leaves the turn it found; one that a command began has fresh
\* counters, so that it repairs nothing and does not return empty-handed.
AttendedInv ==
  /\ NeverStalled
  /\ mode = "active" /\ caller = "timer" /\ step \in {"dispatch", "selected", "returned"} =>
       agent # NoUnit
  /\ caller = "start" /\ step \in {"dispatch", "selected"} => \A u \in Unit : dispatchCount[u] = 0
  /\ ~(caller = "start" /\ step = "returned")

\* Steps outside of dispatchNextUnit.
LEMMA AttendedOutside ==
  ASSUME TypeInv, AttendedInv,
         \/ Commands \/ AgentWrites \/ AgentEnds \/ Timers \/ UNCHANGED vars
         \/ HandleAgentEnd \/ GapWatchdog \/ ReturnToCaller \/ GapGivesUp
  PROVE  AttendedInv'
<1> USE DEF AttendedInv, NeverStalled
<1>1. CASE StartAuto \/ ResumeAuto
  BY <1>1 DEF StartAuto, ResumeAuto, Call, ClearCounts, Zero
<1>2. CASE Pause \/ Stop \/ AgentAborted \/ Crash \/ GapGivesUp
  BY <1>2 DEF Pause, Stop, AgentAborted, Crash, GapGivesUp, PauseEffects, StopEffects
<1>3. CASE Steer \/ AgentWrites \/ UNCHANGED vars
  BY <1>3 DEF Steer, AgentWrites, loopVars, turnVars, countVars, vars
<1>4. CASE AgentEnds
  BY <1>4 DEF AgentEnds, AgentRuns, countVars
<1>5. CASE Timers
  <2>1. PICK max : RecoverTimedOutUnit(supervised, max) /\ mode = "active" /\ step = "idle"
    BY <1>5 DEF Timers, IdleTimeout, HardTimeout
  <2> QED BY <2>1 DEF RecoverTimedOutUnit, Advance, SteerTurn, SkipUnit, GiveUp, Call, loopVars
<1>6. CASE HandleAgentEnd \/ GapWatchdog
  BY <1>6 DEF HandleAgentEnd, GapWatchdog, Call
<1>7. CASE ReturnToCaller
  BY <1>7 DEF ReturnToCaller, turnVars, TypeInv, TypeOK
<1> QED BY <1>1, <1>2, <1>3, <1>4, <1>5, <1>6, <1>7 DEF Commands

\* A dispatch that sends nothing goes on, stops, or returns to a caller that has more to do.
LEMMA AttendedDispatch ==
  ASSUME TypeInv, AttendedInv, SkipTypes = {}, DispatchNextUnit
  PROVE  AttendedInv'
<1> USE DEF AttendedInv, NeverStalled
<1>1. CASE NothingLeft \/ Refused
  BY <1>1 DEF NothingLeft, Refused, StopEffects
<1>2. CASE SkippedByHook
  BY <1>2 DEF SkippedByHook
<1>3. CASE ResolveDispatch
  <2>1. \A u \in Unit : dispatchCount[u] = 0 => dispatchCount'[u] = 0
    BY <1>3 DEF ResolveDispatch, ClearCounts, Zero, countVars
  <2>2. /\ step = "dispatch" /\ step' = "selected"
        /\ UNCHANGED <<mode, caller, agent>>
    BY <1>3 DEF ResolveDispatch, Dispatching, turnVars
  <2> QED BY <2>1, <2>2
<1>4. ASSUME NEW u \in {selected} \ {NoUnit},
             SkipVerified(u) \/ Reconcile(u) \/ LoopDetected(u) \/ Send(u)
      PROVE  AttendedInv'
  <2>1. u \in Unit /\ u # NoUnit /\ step = "selected"
    BY <1>4 DEF TypeInv, TypeOK, SkipVerified, Reconcile, LoopDetected, Send, MustRun, Admitted
  <2>2. CASE SkipVerified(u)
    BY <2>1, <2>2 DEF SkipVerified, turnVars, countVars
  <2>3. CASE Reconcile(u)
    <3>1. caller # "start"
      BY <2>1, <2>3, Bounds DEF Reconcile, AtLimit, Repairable
    <3> QED BY <2>1, <2>3, <3>1 DEF Reconcile, Redispatch, turnVars
  <2>4. CASE LoopDetected(u)
    BY <2>4 DEF LoopDetected, StopEffects
  <2>5. CASE Send(u)
    <3>1. CASE StopEffects
      BY <3>1 DEF StopEffects
    <3>2. CASE ~StopEffects
      <4>1. agent' = u /\ (PauseEffects \/ (step' = "idle" /\ UNCHANGED <<mode, caller>>))
        BY <2>5, <3>2 DEF Send
      <4> QED BY <2>1, <4>1 DEF PauseEffects
    <3> QED BY <3>1, <3>2
  <2> QED BY <1>4, <2>2, <2>3, <2>4, <2>5
<1> QED BY <1>1, <1>2, <1>3, <1>4 DEF DispatchNextUnit

\* Auto-mode is never active with no turn running, nothing due and nothing armed: for every
\* project and any commands, timeouts and crashes, as long as no pre-dispatch hook skips a
\* unit.
THEOREM AutoModeIsAttended == SkipTypes = {} /\ Spec => []NeverStalled
<1> SUFFICES ASSUME SkipTypes = {} PROVE Spec => []NeverStalled
  OBVIOUS
<1>1. Init => TypeInv /\ AttendedInv
  <2>1. Init => AttendedInv
    BY DEF Init, AttendedInv, NeverStalled
  <2> QED BY <2>1, InitTypes
<1>2. TypeInv /\ AttendedInv /\ [Next]_vars => TypeInv' /\ AttendedInv'
  BY TypesKept, AttendedOutside, AttendedDispatch DEF Next, Loop
<1>3. AttendedInv => NeverStalled
  BY DEF AttendedInv
<1> QED BY <1>1, <1>2, <1>3, PTL DEF Spec

-------------------------------------------------------------------------------
(* What is chosen *)

\* The choice of the first one: a set of numbers has a least element.
LEMMA LeastOfSet ==
  ASSUME NEW S, S \subseteq Nat, S # {}
  PROVE  Least(S) \in S /\ \A k \in S : Least(S) <= k
<1> DEFINE R == OpToRel(<, Nat)
<1>1. IsWellFoundedOn(R, Nat)
  BY NatLessThanWellFounded
<1>2. \A a, b \in Nat : a < b => <<a, b>> \in R
  BY Zenon DEF OpToRel
<1> HIDE DEF R
<1>3. PICK n \in S : \A k \in S : <<k, n>> \notin R
  BY <1>1, WFMin
<1>4. \A k \in S : n <= k
  <2> TAKE k \in S
  <2>1. k \in Nat /\ n \in Nat /\ ~(k < n)
    BY <1>2, <1>3
  <2> QED BY <2>1
<1> QED BY <1>4 DEF Least

\* What the dispatch table makes of a state: the rules, in their order.
TableChoice(d, st, u) ==
  \/ u[1] \in {"run-uat", "reassess-roadmap", "research-milestone", "plan-milestone"}
  \/ st.phase = "summarizing" /\ u = <<"complete-slice", <<st.mid, st.sid>>>>
  \/ st.phase = "completing-milestone" /\ u = <<"complete-milestone", <<st.mid>>>>
  \/ st.phase = "replanning-slice" /\ u = <<"replan-slice", <<st.mid, st.sid>>>>
  \/ /\ ~NeedsRunUat(d, st.mid) /\ ~NeedsReassessment(d, st.mid)
     /\ \/ /\ st.phase = "planning"
           /\ u \in {<<"research-slice", <<st.mid, st.sid>>>>, <<"plan-slice", <<st.mid, st.sid>>>>}
        \/ st.phase = "executing" /\ u = <<"execute-task", <<st.mid, st.sid, st.tid>>>>

LEMMA TableChooses ==
  ASSUME NEW d, NEW st, TableUnit(d, st) \in Unit
  PROVE  TableChoice(d, st, TableUnit(d, st))
<1> DEFINE R == Rules(d, st)
           S == {k \in 1..13 : R[k].when}
           k == Least(S)
           m == <<st.mid>>
           i == <<st.mid, st.sid>>
<1>1. Len(R) = 13
  BY DEF Rules
<1>2. 13 \in S
  BY DEF Rules
<1>3. k \in S /\ \A j \in S : k <= j
  <2>1. S \subseteq Nat /\ S # {}
    BY <1>2
  <2> HIDE DEF S
  <2> QED BY <2>1, LeastOfSet
<1>4. TableUnit(d, st) = R[k].unit
  BY <1>1 DEF TableUnit
<1>5. /\ R[1].when => st.phase = "summarizing"
      /\ NeedsRunUat(d, st.mid) => R[2].when
      /\ NeedsReassessment(d, st.mid) => R[3].when
  BY DEF Rules
<1>6. /\ R[1].unit = <<"complete-slice", i>>
      /\ R[2].unit[1] = "run-uat" /\ R[3].unit[1] = "reassess-roadmap"
  BY DEF Rules
<1>7. R[4].unit = NoUnit /\ R[5].unit = NoUnit /\ R[13].unit = NoUnit
  BY DEF Rules
<1>8. R[6].unit = <<"research-milestone", m>> /\ R[7].unit = <<"plan-milestone", m>>
  BY DEF Rules
<1>9. /\ R[8].when => st.phase = "planning"
      /\ R[9].when => st.phase = "planning"
      /\ R[8].unit = <<"research-slice", i>> /\ R[9].unit = <<"plan-slice", i>>
  BY DEF Rules
<1>10. /\ R[10].when => st.phase = "replanning-slice"
       /\ R[11].when => st.phase = "executing"
       /\ R[12].when => st.phase = "completing-milestone"
  BY DEF Rules
<1>11. /\ R[10].unit = <<"replan-slice", i>>
       /\ R[11].unit = <<"execute-task", <<st.mid, st.sid, st.tid>>>>
       /\ R[12].unit = <<"complete-milestone", m>>
  BY DEF Rules
<1>12. NoUnit \notin Unit
  BY DEF NoUnit, Unit, MilestoneUnits, SliceUnits
<1> HIDE DEF R
<1>13. k > 3 => ~NeedsRunUat(d, st.mid) /\ ~NeedsReassessment(d, st.mid)
  BY <1>3, <1>5
<1>14. k \in 1..13 /\ R[k].when
  BY <1>3
<1> HIDE DEF k, S
<1>15. k \in {1, 2, 3, 6, 7, 8, 9, 10, 11, 12}
  BY <1>4, <1>7, <1>12, <1>14
<1>16. CASE k \in {1, 2, 3, 6, 7}
  BY <1>4, <1>5, <1>6, <1>8, <1>14, <1>16 DEF TableChoice
<1>17. CASE k \in {8, 9, 11}
  BY <1>4, <1>9, <1>10, <1>11, <1>13, <1>14, <1>17 DEF TableChoice
<1>18. CASE k \in {10, 12}
  BY <1>4, <1>10, <1>11, <1>14, <1>18 DEF TableChoice
<1> QED BY <1>15, <1>16, <1>17, <1>18

\* What deriveState says of the disk, where there is something to do.
LEMMA DerivedState ==
  ASSUME NEW d, NEW st, st = DeriveState(d), st.mid \in Milestone,
         st.phase \notin {"complete", "blocked"}
  PROVE  /\ Promotable(d) # {} /\ st.mid = Least(Promotable(d))
         /\ st.phase = "completing-milestone" => OpenSlices(d, st.mid) = {}
         /\ st.phase \in {"planning", "summarizing", "replanning-slice", "executing"} =>
              EligibleSlices(d, st.mid) # {} /\ st.sid = Least(EligibleSlices(d, st.mid))
         /\ st.phase = "summarizing" => OpenTasks(d, <<st.mid, st.sid>>) = {}
         /\ st.phase = "executing" => /\ OpenTasks(d, <<st.mid, st.sid>>) # {}
                                      /\ st.tid = Least(OpenTasks(d, <<st.mid, st.sid>>))
<1> DEFINE m == Least(Promotable(d))
           s == Least(EligibleSlices(d, m))
<1>1. NumMilestones # 0 /\ Promotable(d) # {}
  BY DEF DeriveState, Milestone
<1>2. CASE <<"ROADMAP", <<m>>>> \notin d
  BY <1>1, <1>2 DEF DeriveState
<1>3. CASE <<"ROADMAP", <<m>>>> \in d /\ RoadmapComplete(d, m)
  BY <1>1, <1>3 DEF DeriveState, RoadmapComplete
<1>4. CASE <<"ROADMAP", <<m>>>> \in d /\ ~RoadmapComplete(d, m)
  <2>1. EligibleSlices(d, m) # {}
    BY <1>1, <1>4 DEF DeriveState
  <2>2. /\ st.mid = m /\ st.sid = s /\ st.phase = SlicePhase(d, <<m, s>>)
        /\ st.tid = IF OpenTasks(d, <<m, s>>) = {} THEN 0 ELSE Least(OpenTasks(d, <<m, s>>))
    BY <1>1, <1>4, <2>1 DEF DeriveState
  <2> HIDE DEF m, s
  <2>3. /\ st.phase # "completing-milestone"
        /\ st.phase = "summarizing" => OpenTasks(d, <<m, s>>) = {}
        /\ st.phase = "executing" => OpenTasks(d, <<m, s>>) # {}
    BY <2>2 DEF SlicePhase
  <2> QED BY <1>1, <2>1, <2>2, <2>3 DEF m, s
<1> QED BY <1>2, <1>3, <1>4

\* What the choice of a unit rests on, besides the order of the slices.
Founded(d, u) ==
  /\ u[1] \in GuardedTypes => /\ u[2][2] \in Slices(d, u[2][1])
                              /\ \A s \in SliceDeps[<<u[2][1], u[2][2]>>] : SliceDone(d, u[2][1], s)
  /\ u[1] = "execute-task" => \A t \in 1..NumTasks[<<u[2][1], u[2][2]>>] :
                                 t < u[2][3] => TaskDone(d, u[2], t)
  /\ u[1] = "complete-slice" => OpenTasks(d, u[2]) = {}
  /\ u[1] = "complete-milestone" => OpenSlices(d, u[2][1]) = {}

\* The last slice that is done has its UAT result and its reassessment.
Worked(d, m) == ~NeedsRunUat(d, m) /\ ~NeedsReassessment(d, m)
Begins(u) == u[1] \in {"research-slice", "plan-slice", "execute-task"}

\* The tasks before the least one that is open are done.
LEMMA TasksBefore ==
  ASSUME NEW d, NEW m \in Milestone, NEW s \in 1..NumSlices[m], OpenTasks(d, <<m, s>>) # {},
         NEW t \in 1..NumTasks[<<m, s>>], t < Least(OpenTasks(d, <<m, s>>))
  PROVE  <<"x", <<m, s, t>>>> \in d
<1>1. <<m, s>> \in SliceId
  BY DEF SliceId
<1>2. Tasks(d, <<m, s>>) = 1..NumTasks[<<m, s>>] /\ NumTasks[<<m, s>>] \in Nat
  BY <1>1, ProjectAssumption DEF OpenTasks, Tasks
<1>3. OpenTasks(d, <<m, s>>) \subseteq Nat
  BY <1>2 DEF OpenTasks
<1>4. t \notin OpenTasks(d, <<m, s>>)
  BY <1>2, <1>3, LeastOfSet
<1> QED BY <1>2, <1>4 DEF OpenTasks, TaskDone

\* The slices of a milestone are numbered.
LEMMA SliceNumbers ==
  ASSUME NEW d, NEW m \in Milestone
  PROVE  /\ Slices(d, m) \subseteq 1..NumSlices[m] /\ 1..NumSlices[m] \subseteq Nat
         /\ OpenSlices(d, m) \subseteq Slices(d, m) /\ EligibleSlices(d, m) \subseteq OpenSlices(d, m)
  BY ProjectAssumption DEF Slices, OpenSlices, EligibleSlices

\* A unit that the table selects is founded, and nothing of a slice begins before the last
\* one is worked off.
LEMMA TableFounded ==
  ASSUME NEW d, NEW st, st = DeriveState(d), st.mid \in Milestone,
         st.phase \notin {"complete", "blocked"}, NEW u \in Unit, u = TableUnit(d, st)
  PROVE  Founded(d, u) /\ (Begins(u) => Worked(d, u[2][1]))
<1> DEFINE i == <<st.mid, st.sid>>
<1>1. TableChoice(d, st, u)
  BY TableChooses
<1>2. CASE u[1] \in {"run-uat", "reassess-roadmap", "research-milestone", "plan-milestone"}
  BY <1>2 DEF Founded, Begins, GuardedTypes
<1>3. CASE st.phase = "completing-milestone" /\ u = <<"complete-milestone", <<st.mid>>>>
  <2>1. OpenSlices(d, st.mid) = {}
    BY <1>3, DerivedState
  <2> QED BY <1>3, <2>1 DEF Founded, Begins, GuardedTypes
<1>4. ASSUME st.phase \in {"planning", "summarizing", "replanning-slice", "executing"}
      PROVE  /\ st.sid \in 1..NumSlices[st.mid] /\ st.sid \in Slices(d, st.mid)
             /\ \A s \in SliceDeps[i] : SliceDone(d, st.mid, s)
  <2>1. EligibleSlices(d, st.mid) # {} /\ st.sid = Least(EligibleSlices(d, st.mid))
    BY <1>4, DerivedState
  <2>2. EligibleSlices(d, st.mid) \subseteq Nat
    BY SliceNumbers
  <2>3. st.sid \in EligibleSlices(d, st.mid)
    BY <2>1, <2>2, LeastOfSet
  <2> QED BY <2>3, SliceNumbers DEF EligibleSlices, DoneSlices
<1>5. CASE st.phase = "summarizing" /\ u = <<"complete-slice", i>>
  <2>1. OpenTasks(d, i) = {}
    BY <1>5, DerivedState
  <2> QED BY <1>4, <1>5, <2>1 DEF Founded, Begins
<1>6. CASE st.phase = "replanning-slice" /\ u = <<"replan-slice", i>>
  BY <1>4, <1>6 DEF Founded, Begins
<1>7. CASE st.phase = "planning" /\ u \in {<<"research-slice", i>>, <<"plan-slice", i>>}
           /\ Worked(d, st.mid)
  BY <1>4, <1>7 DEF Founded, Begins
<1>8. CASE st.phase = "executing" /\ u = <<"execute-task", <<st.mid, st.sid, st.tid>>>>
           /\ Worked(d, st.mid)
  <2>1. OpenTasks(d, i) # {} /\ st.tid = Least(OpenTasks(d, i))
    BY <1>8, DerivedState
  <2>2. st.mid \in Milestone /\ st.sid \in 1..NumSlices[st.mid]
    BY <1>4, <1>8
  <2>3. \A t \in 1..NumTasks[i] : t < st.tid => TaskDone(d, u[2], t)
    BY <1>8, <2>1, <2>2, TasksBefore DEF TaskDone
  <2> QED BY <1>4, <1>8, <2>3 DEF Founded, Begins
<1> QED BY <1>1, <1>2, <1>3, <1>5, <1>6, <1>7, <1>8 DEF TableChoice, Worked

\* A unit that is founded and not refused by the guard has its turn.
LEMMA FoundedInOrder ==
  ASSUME NEW u \in Unit, Founded(disk, u), ~Blocked(disk, u)
  PROVE  InOrder(u)
  BY DEF Founded, Blocked, InOrder, OpenSlices, Milestone, SliceDone

-------------------------------------------------------------------------------
(* What a step adds to the disk *)

\* A roadmap or a plan that lists something is there.
WellFormed(d) ==
  /\ \A m \in Milestone : <<"SLICES", <<m>>>> \in d => <<"ROADMAP", <<m>>>> \in d
  /\ \A i \in SliceId : <<"TASKS", i>> \in d => <<"PLAN", i>> \in d

\* The disks that differ in the override at most.
Alike(d, e) == \A f : f # Override => (f \in d <=> f \in e)

\* What the facts in d \ e may be, and by whom.
Added(f) ==
  \/ /\ AgentWrites /\ agent \in Unit
     /\ \E W \in Outputs(agent) \union Extras(agent) : f \in W /\ disk' = Write(disk, W)
  \/ ResumeAuto /\ f[1] \in {"SUMMARY", "UAT", "x"}
  \/ f[1] \in {"SUMMARY", "STUB", "x"} /\ f[2] \in TaskId
  \/ f[1] = "SUMMARY" /\ f[2] \in MilestoneId
  \/ f = Override
  \/ \E max : /\ mode = "active" /\ step = "idle" /\ supervised \in Unit
              /\ SkipUnit(supervised, max) /\ f = <<Artifact[supervised[1]], supervised[2]>>

\* The repairs of the doctor and of the recovery of a task are about tasks.
LEMMA RepairsOfTasks ==
  ASSUME NEW d, NEW f
  PROVE  /\ \A id : f \in DoctorTask(d, id) => f \in d \/ (f[1] = "x" /\ f[2] \in TaskId)
         /\ \A id \in TaskId : f \in SkipTask(d, id) =>
              f \in d \/ (f[1] \in {"SUMMARY", "STUB", "x"} /\ f[2] \in TaskId)
<1>1. ASSUME NEW id, f \in DoctorTask(d, id) PROVE f \in d \/ (f[1] = "x" /\ f[2] \in TaskId)
  <2> DEFINE I == {k \in SliceId : k[1] = id[1] /\ (Len(id) > 1 => k[2] = id[2])}
  <2>1. DoctorTask(d, id) = d \union {<<"x", k>> : k \in SummarizedTasks(d, I)}
    BY DEF DoctorTask
  <2> HIDE DEF I
  <2>2. SummarizedTasks(d, I) \subseteq TaskId
    BY DEF SummarizedTasks
  <2> QED BY <1>1, <2>1, <2>2
<1>2. ASSUME NEW id \in TaskId, f \in SkipTask(d, id)
      PROVE  f \in d \/ (f[1] \in {"SUMMARY", "STUB", "x"} /\ f[2] \in TaskId)
  BY <1>2 DEF SkipTask
<1> QED BY <1>1, <1>2

\* Who adds what: the agent, the doctor when a paused run is resumed, the bookkeeping of
\* tasks and milestones, the user, and the recovery of the unit under supervision.
LEMMA Additions ==
  ASSUME TypeOK, Next, NEW f, f \in disk', f \notin disk
  PROVE  Added(f)
<1> USE DEF Added
<1>1. disk' # disk
  OBVIOUS
<1>2. CASE AgentWrites
  <2>1. PICK W \in Outputs(agent) \union Extras(agent) : disk' = Write(disk, W)
    BY <1>2 DEF AgentWrites
  <2> QED BY <1>2, <2>1 DEF AgentWrites, AgentRuns, TypeOK, Write
<1>3. CASE Commands \/ AgentEnds
  <2>1. CASE ResumeAuto
    BY <1>1, <2>1, RepairsOfTasks DEF ResumeAuto, Passes, DoctorAll
  <2> QED BY <1>1, <1>3, <2>1 DEF Commands, StartAuto, Pause, Stop, AgentAborted, Steer, Crash, AgentEnds
<1>4. CASE Timers
  <2>1. PICK max : SkipUnit(supervised, max) /\ supervised \in Unit
                   /\ mode = "active" /\ step = "idle"
    BY <1>1, <1>4 DEF Timers, IdleTimeout, HardTimeout, RecoverTimedOutUnit, Advance, SteerTurn,
                      GiveUp
  <2>2. CASE supervised[1] = "execute-task"
    BY <2>1, <2>2, UnitIds, RepairsOfTasks DEF SkipUnit
  <2>3. CASE supervised[1] # "execute-task"
    BY <2>1, <2>3 DEF SkipUnit
  <2> QED BY <2>2, <2>3
<1>5. CASE Loop
  <2>1. CASE HandleAgentEnd
    <3>1. PICK d \in Passes(DoctorTask(disk, currentUnit[2])) : disk' \subseteq d
      BY <1>1, <2>1 DEF HandleAgentEnd
    <3> QED BY <3>1, RepairsOfTasks DEF Passes
  <2>2. CASE GapWatchdog \/ ReturnToCaller \/ GapGivesUp \/ NothingLeft \/ SkippedByHook \/ Refused
    BY <1>1, <2>2 DEF GapWatchdog, ReturnToCaller, GapGivesUp, NothingLeft, SkippedByHook, Refused
  <2>3. CASE ResolveDispatch
    BY <2>3 DEF ResolveDispatch, GatedDisk
  <2>4. ASSUME NEW u \in {selected} \ {NoUnit},
               SkipVerified(u) \/ Reconcile(u) \/ LoopDetected(u) \/ Send(u)
        PROVE  Added(f)
    <3>1. u \in Unit
      BY DEF TypeOK
    <3>2. CASE Reconcile(u)
      <4>1. CASE u[1] = "execute-task"
        BY <3>1, <3>2, <4>1, UnitIds, RepairsOfTasks DEF Reconcile, Reconciled
      <4>2. CASE u[1] = "complete-milestone"
        BY <3>1, <3>2, <4>2, UnitIds DEF Reconcile, Reconciled, MilestoneUnits
      <4>3. CASE u[1] \notin {"execute-task", "complete-milestone"}
        BY <3>2, <4>3 DEF Reconcile, Reconciled
      <4> QED BY <4>1, <4>2, <4>3
    <3>3. CASE SkipVerified(u) \/ LoopDetected(u)
      BY <1>1, <3>3 DEF SkipVerified, LoopDetected
    <3>4. CASE Send(u)
      BY <3>1, <3>4, UnitIds DEF Send, Stubs
    <3> QED BY <2>4, <3>2, <3>3, <3>4
  <2> QED BY <1>5, <2>1, <2>2, <2>3, <2>4 DEF Loop, DispatchNextUnit
<1> QED BY <1>2, <1>3, <1>4, <1>5 DEF Next

\* What the agent writes of the lists, and of the slices.
LEMMA AgentAdds ==
  ASSUME NEW u \in Unit, NEW W \in Outputs(u) \union Extras(u), NEW f \in W
  PROVE  /\ f[1] = "SLICES" => u[1] = "plan-milestone" /\ <<"ROADMAP", f[2]>> \in W
         /\ f[1] = "TASKS" => u[1] = "plan-slice" /\ <<"PLAN", f[2]>> \in W
         /\ Begins(u) => f[2] \in TaskId \/ f[1] \in {"RESEARCH", "PLAN", "TASKS"}
<1>1. \A type \in DOMAIN Artifact : Artifact[type] \notin {"SLICES", "TASKS"}
  BY DEF Artifact
<1>2. Required(u) \subseteq {"SUMMARY", "x", "UAT"} \X {u[2]}
      \/ (Required(u) = {<<Artifact[u[1]], u[2]>>} /\ u[1] \in DOMAIN Artifact)
  BY UnitIds DEF Required, Artifact
<1>3. u[1] = "research-slice" => Required(u) = {<<"RESEARCH", u[2]>>}
  BY DEF Required, Artifact, UnitType, SliceUnits
<1>4. u[1] = "execute-task" => Required(u) \subseteq {"SUMMARY", "x"} \X {u[2]} /\ u[2] \in TaskId
  BY UnitIds DEF Required
<1>5. CASE W \in Outputs(u) /\ u[1] \in {"plan-milestone", "plan-slice", "replan-slice"}
  BY <1>5 DEF Outputs, Begins
<1>6. CASE W \in Outputs(u) /\ u[1] \notin {"plan-milestone", "plan-slice", "replan-slice"}
  <2>1. f \in Required(u)
    BY <1>6 DEF Outputs
  <2> QED BY <1>1, <1>2, <1>3, <1>4, <1>6, <2>1 DEF Begins
<1>7. CASE W \in Extras(u)
  BY <1>7, UnitIds DEF Extras, Begins
<1> QED BY <1>5, <1>6, <1>7

\* The lists of slices and of tasks are written by the unit that plans them, together
\* with the file they are in.
LEMMA ListsWritten ==
  ASSUME TypeOK, Next, NEW f, f \in disk', f \notin disk, f[1] \in {"SLICES", "TASKS"}
  PROVE  /\ AgentWrites
         /\ f[1] = "SLICES" => agent[1] = "plan-milestone" /\ <<"ROADMAP", f[2]>> \in disk'
         /\ f[1] = "TASKS" => agent[1] = "plan-slice" /\ <<"PLAN", f[2]>> \in disk'
<1>1. \A type \in DOMAIN Artifact : Artifact[type] \notin {"SLICES", "TASKS"}
  BY DEF Artifact
<1>2. ASSUME NEW max, SkipUnit(supervised, max) PROVE f # <<Artifact[supervised[1]], supervised[2]>>
  BY <1>1, <1>2 DEF SkipUnit
<1>3. PICK W \in Outputs(agent) \union Extras(agent) :
        AgentWrites /\ agent \in Unit /\ f \in W /\ disk' = Write(disk, W)
  BY <1>2, Additions DEF Added, Override
<1>4. \A g \in W : g[1] # "STUB" => g \in disk'
  BY <1>3 DEF Write
<1> QED BY <1>3, <1>4, AgentAdds

\* Only the planning units make lists longer than they were.
LEMMA PlansStep ==
  ASSUME TypeOK, Next, WellFormed(disk)
  PROVE  /\ WellFormed(disk')
         /\ \A m \in Milestone :
              Slices(disk', m) \subseteq Slices(disk, m) \/ (AgentWrites /\ agent[1] = "plan-milestone")
         /\ \A i \in SliceId :
              Tasks(disk', i) \subseteq Tasks(disk, i) \/ (AgentWrites /\ agent[1] = "plan-slice")
<1>1. Kept(disk, disk')
  BY StepKeeps
<1>2. ASSUME NEW m \in Milestone
      PROVE  /\ <<"SLICES", <<m>>>> \in disk' => <<"ROADMAP", <<m>>>> \in disk'
             /\ Slices(disk', m) \subseteq Slices(disk, m) \/ (AgentWrites /\ agent[1] = "plan-milestone")
  <2>1. CASE <<"SLICES", <<m>>>> \in disk' /\ <<"SLICES", <<m>>>> \notin disk
    <3> DEFINE f == <<"SLICES", <<m>>>>
    <3>1. f[1] = "SLICES" /\ f[2] = <<m>>
      OBVIOUS
    <3>2. f \in disk' /\ f \notin disk /\ f[1] \in {"SLICES", "TASKS"}
      BY <2>1, <3>1
    <3> HIDE DEF f
    <3>3. AgentWrites /\ agent[1] = "plan-milestone" /\ <<"ROADMAP", f[2]>> \in disk'
      BY <3>1, <3>2, ListsWritten
    <3> QED BY <3>1, <3>3
  <2>2. CASE <<"SLICES", <<m>>>> \in disk
    <3>1. <<"ROADMAP", <<m>>>> \in disk
      BY <2>2 DEF WellFormed
    <3> QED BY <1>1, <2>2, <3>1 DEF Kept, Slices
  <2>3. CASE <<"SLICES", <<m>>>> \notin disk'
    BY <2>3 DEF Slices
  <2> QED BY <2>1, <2>2, <2>3
<1>3. ASSUME NEW i \in SliceId
      PROVE  /\ <<"TASKS", i>> \in disk' => <<"PLAN", i>> \in disk'
             /\ Tasks(disk', i) \subseteq Tasks(disk, i) \/ (AgentWrites /\ agent[1] = "plan-slice")
  <2>1. CASE <<"TASKS", i>> \in disk' /\ <<"TASKS", i>> \notin disk
    <3> DEFINE f == <<"TASKS", i>>
    <3>1. f[1] = "TASKS" /\ f[2] = i
      OBVIOUS
    <3>2. f \in disk' /\ f \notin disk /\ f[1] \in {"SLICES", "TASKS"}
      BY <2>1, <3>1
    <3> HIDE DEF f
    <3>3. AgentWrites /\ (f[1] = "TASKS" => agent[1] = "plan-slice" /\ <<"PLAN", f[2]>> \in disk')
      BY <3>2, ListsWritten
    <3> QED BY <3>1, <3>3
  <2>2. CASE <<"TASKS", i>> \in disk
    <3>1. <<"PLAN", i>> \in disk
      BY <2>2 DEF WellFormed
    <3> QED BY <1>1, <2>2, <3>1 DEF Kept, Tasks
  <2>3. CASE <<"TASKS", i>> \notin disk'
    BY <2>3 DEF Tasks
  <2> QED BY <2>1, <2>2, <2>3
<1> QED BY <1>2, <1>3 DEF WellFormed

-------------------------------------------------------------------------------
(* The order of the work *)

\* An agent's unit keeps its turn whatever the step does to the disk.
LEMMA InOrderKept ==
  ASSUME TypeOK, Next, WellFormed(disk), NEW u \in Unit, InOrder(u),
         agent \in {u, NoUnit} \/ ~AgentWrites
  PROVE  InOrder(u)'
<1>1. Kept(disk, disk')
  BY StepKeeps
<1>2. \A i : <<"x", i>> \in disk => <<"x", i>> \in disk'
  BY <1>1 DEF Kept
<1>3. NoUnit[1] = "none"
  BY DEF NoUnit
<1>4. u[1] # "plan-milestone" => \A m \in Milestone : Slices(disk', m) \subseteq Slices(disk, m)
  BY <1>3, PlansStep
<1>5. u[1] # "plan-slice" => \A i \in SliceId : Tasks(disk', i) \subseteq Tasks(disk, i)
  BY <1>3, PlansStep
<1>6. u[1] \in GuardedTypes =>
        /\ \A m \in Milestone : m < u[2][1] => OpenSlices(disk', m) = {}
        /\ \A s \in Slices(disk', u[2][1]) : s < u[2][2] => SliceDone(disk', u[2][1], s)
        /\ \A s \in SliceDeps[<<u[2][1], u[2][2]>>] : SliceDone(disk', u[2][1], s)
  <2> SUFFICES ASSUME u[1] \in GuardedTypes
               PROVE  /\ \A m \in Milestone : m < u[2][1] => OpenSlices(disk', m) = {}
                      /\ \A s \in Slices(disk', u[2][1]) : s < u[2][2] => SliceDone(disk', u[2][1], s)
                      /\ \A s \in SliceDeps[<<u[2][1], u[2][2]>>] : SliceDone(disk', u[2][1], s)
    OBVIOUS
  <2>1. \A m \in Milestone : Slices(disk', m) \subseteq Slices(disk, m)
    BY <1>4 DEF GuardedTypes
  <2>2. u[2][1] \in Milestone
    BY UnitIds DEF GuardedTypes, SliceUnits, SliceId, TaskId
  <2>3. ASSUME NEW m \in Milestone, m < u[2][1] PROVE OpenSlices(disk', m) = {}
    BY <1>2, <2>1, <2>3 DEF InOrder, OpenSlices, SliceDone
  <2> QED BY <1>2, <2>1, <2>2, <2>3 DEF InOrder, SliceDone
<1>7. u[1] = "execute-task" => \A t \in 1..NumTasks[<<u[2][1], u[2][2]>>] :
                                 t < u[2][3] => TaskDone(disk', u[2], t)
  BY <1>2 DEF InOrder, TaskDone
<1>8. u[1] = "complete-slice" => OpenTasks(disk', u[2]) = {}
  BY <1>2, <1>5, UnitIds DEF InOrder, OpenTasks, TaskDone, SliceUnits
<1>9. u[1] = "complete-milestone" => OpenSlices(disk', u[2][1]) = {}
  BY <1>2, <1>4, UnitIds DEF InOrder, OpenSlices, SliceDone, MilestoneUnits, MilestoneId
<1> QED BY <1>6, <1>7, <1>8, <1>9 DEF InOrder

\* Nothing but the override gate and the dispatch of rewrite-docs looks at the override.
LEMMA AlikeLists ==
  ASSUME NEW d, NEW e, Alike(d, e)
  PROVE  /\ \A m : /\ Slices(d, m) = Slices(e, m) /\ DoneSlices(d, m) = DoneSlices(e, m)
                   /\ OpenSlices(d, m) = OpenSlices(e, m)
         /\ \A i : Tasks(d, i) = Tasks(e, i) /\ OpenTasks(d, i) = OpenTasks(e, i)
         /\ \A m, s : SliceDone(d, m, s) <=> SliceDone(e, m, s)
         /\ \A i, t : TaskDone(d, i, t) <=> TaskDone(e, i, t)
<1>1. \A kind, i : kind # "OVERRIDE" => (<<kind, i>> \in d <=> <<kind, i>> \in e)
  BY DEF Alike, Override
<1>2. \A m : Slices(d, m) = Slices(e, m)
  BY <1>1 DEF Slices
<1>3. \A i : Tasks(d, i) = Tasks(e, i)
  BY <1>1 DEF Tasks
<1>4. /\ \A m, s : SliceDone(d, m, s) <=> SliceDone(e, m, s)
      /\ \A i, t : TaskDone(d, i, t) <=> TaskDone(e, i, t)
  BY <1>1 DEF SliceDone, TaskDone
<1>5. \A m : DoneSlices(d, m) = DoneSlices(e, m) /\ OpenSlices(d, m) = OpenSlices(e, m)
  BY <1>2, <1>4 DEF DoneSlices, OpenSlices
<1>6. \A i : OpenTasks(d, i) = OpenTasks(e, i)
  BY <1>3, <1>4 DEF OpenTasks
<1> QED BY <1>2, <1>3, <1>4, <1>5, <1>6

LEMMA AlikeFounded ==
  ASSUME NEW d, NEW e, Alike(d, e)
  PROVE  /\ \A u : Founded(d, u) => Founded(e, u)
         /\ \A u : Blocked(e, u) => Blocked(d, u)
         /\ \A m : Worked(d, m) => Worked(e, m)
<1>1. \A kind, i : kind # "OVERRIDE" => (<<kind, i>> \in d <=> <<kind, i>> \in e)
  BY DEF Alike, Override
<1>2. ASSUME NEW m, Worked(d, m) PROVE Worked(e, m)
  BY <1>1, <1>2, AlikeLists DEF Worked, NeedsRunUat, NeedsReassessment, BetweenSlices, LastDone
<1>3. ASSUME NEW u, Founded(d, u) PROVE Founded(e, u)
  BY <1>3, AlikeLists DEF Founded
<1>4. ASSUME NEW u, Blocked(e, u) PROVE Blocked(d, u)
  BY <1>4, AlikeLists DEF Blocked
<1> QED BY <1>2, <1>3, <1>4

LEMMA AlikeState ==
  ASSUME NEW d, NEW e, Alike(d, e)
  PROVE  DeriveState(d) = DeriveState(e)
<1>1. \A kind, i : kind # "OVERRIDE" => (<<kind, i>> \in d <=> <<kind, i>> \in e)
  BY DEF Alike, Override
<1>2. \A m : RoadmapComplete(d, m) <=> RoadmapComplete(e, m)
  BY AlikeLists DEF RoadmapComplete
<1>3. CompleteMilestones(d) = CompleteMilestones(e)
  BY <1>1, <1>2 DEF CompleteMilestones
<1>4. Promotable(d) = Promotable(e)
  BY <1>1, <1>2, <1>3 DEF Promotable
<1>5. DepBlocked(d) = DepBlocked(e)
  BY <1>1, <1>2, <1>4 DEF DepBlocked
<1>6. \A m : EligibleSlices(d, m) = EligibleSlices(e, m)
  BY AlikeLists DEF EligibleSlices
<1>7. \A i : NeedsReplan(d, i) <=> NeedsReplan(e, i)
  BY <1>1, AlikeLists DEF NeedsReplan
<1>8. \A i : SlicePhase(d, i) = SlicePhase(e, i)
  BY <1>7, AlikeLists DEF SlicePhase
<1>9. \A m : <<"ROADMAP", <<m>>>> \in d <=> <<"ROADMAP", <<m>>>> \in e
  BY <1>1
<1> QED BY <1>2, <1>4, <1>5, <1>6, <1>8, <1>9, AlikeLists DEF DeriveState

\* What an invocation has chosen.
LEMMA Resolved ==
  ASSUME TypeOK, ResolveDispatch, selected' # NoUnit
  PROVE  /\ Alike(disk, disk') /\ selected' \in Unit
         /\ Founded(disk', selected') /\ (Begins(selected') => Worked(disk', selected'[2][1]))
         /\ \/ selected'[1] = "rewrite-docs"
            \/ \E st : /\ st = DeriveState(disk') /\ st.mid \in Milestone
                       /\ st.phase \notin {"complete", "blocked"}
                       /\ selected' = TableUnit(disk', st)
<1>1. Alike(disk, disk')
  BY DEF ResolveDispatch, GatedDisk, Alike
<1>2. PICK st : /\ st = DeriveState(disk) /\ st.mid \in Milestone
                /\ st.phase \notin {"complete", "blocked"}
                /\ selected' = Selection(disk', st) /\ selected' \in Unit \union {NoUnit}
  BY DEF ResolveDispatch
<1>3. st = DeriveState(disk')
  BY <1>1, <1>2, AlikeState
<1>4. CASE Override \in disk'
  <2>1. selected'[1] = "rewrite-docs"
    BY <1>2, <1>4 DEF Selection
  <2> QED BY <1>1, <1>2, <2>1 DEF Founded, Begins, GuardedTypes
<1>5. CASE Override \notin disk'
  <2>1. selected' = TableUnit(disk', st)
    BY <1>2, <1>5 DEF Selection
  <2> QED BY <1>1, <1>2, <1>3, <2>1, TableFounded
<1> QED BY <1>4, <1>5

\* A chosen unit waits for its own invocation only; the user may add an override.
LEMMA SelectedStep ==
  ASSUME [Next]_vars, step # "idle" => mode = "active", step' = "selected"
  PROVE  ResolveDispatch \/ (step = "selected" /\ selected' = selected /\ Alike(disk, disk'))
<1> SUFFICES ASSUME ~ResolveDispatch
             PROVE  step = "selected" /\ selected' = selected /\ Alike(disk, disk')
  OBVIOUS
<1>1. CASE UNCHANGED vars
  BY <1>1 DEF vars, loopVars, Alike
<1>2. CASE Steer
  BY <1>2 DEF Steer, loopVars, Alike
<1>3. CASE AgentWrites \/ AgentEnds
  BY <1>3 DEF AgentWrites, AgentEnds, AgentRuns, loopVars
<1>4. CASE StartAuto \/ ResumeAuto \/ Pause \/ Stop \/ AgentAborted \/ Crash
  BY <1>4 DEF StartAuto, ResumeAuto, Pause, Stop, AgentAborted, Crash, PauseEffects, StopEffects, Call
<1>5. CASE Timers
  BY <1>5 DEF Timers, IdleTimeout, HardTimeout, RecoverTimedOutUnit, Advance, SteerTurn, SkipUnit,
              GiveUp, Call, loopVars
<1>6. CASE HandleAgentEnd \/ GapWatchdog \/ ReturnToCaller \/ GapGivesUp
  BY <1>6 DEF HandleAgentEnd, GapWatchdog, ReturnToCaller, GapGivesUp, StopEffects, Call
<1>7. CASE NothingLeft \/ SkippedByHook \/ Refused
  BY <1>7 DEF NothingLeft, SkippedByHook, Refused, StopEffects, Redispatch
<1>8. ASSUME NEW u, SkipVerified(u) \/ Reconcile(u) \/ LoopDetected(u) \/ Send(u) PROVE FALSE
  BY <1>8 DEF SkipVerified, Reconcile, LoopDetected, Send, StopEffects, PauseEffects, Redispatch
<1> QED BY <1>1, <1>2, <1>3, <1>4, <1>5, <1>6, <1>7, <1>8
        DEF Next, Commands, Loop, DispatchNextUnit

\* Whatever is due is due in an active run.
LEMMA ActiveStep ==
  ASSUME [Next]_vars, step # "idle" => mode = "active"
  PROVE  step' # "idle" => mode' = "active"
<1>1. CASE UNCHANGED vars \/ Steer \/ AgentWrites
  BY <1>1 DEF vars, loopVars, Steer, AgentWrites
<1>2. CASE StartAuto \/ ResumeAuto \/ Pause \/ Stop \/ AgentAborted \/ Crash \/ AgentEnds
  BY <1>2 DEF StartAuto, ResumeAuto, Pause, Stop, AgentAborted, Crash, AgentEnds, PauseEffects,
              StopEffects, Call
<1>3. CASE Timers
  BY <1>3 DEF Timers, IdleTimeout, HardTimeout, RecoverTimedOutUnit, Advance, SteerTurn, SkipUnit,
              GiveUp, Call, loopVars
<1>4. CASE HandleAgentEnd \/ GapWatchdog \/ ReturnToCaller \/ GapGivesUp
  BY <1>4 DEF HandleAgentEnd, GapWatchdog, ReturnToCaller, GapGivesUp, StopEffects, Call
<1>5. CASE NothingLeft \/ ResolveDispatch \/ SkippedByHook \/ Refused
  BY <1>5 DEF NothingLeft, ResolveDispatch, Dispatching, SkippedByHook, Refused, StopEffects,
              Redispatch
<1>6. ASSUME NEW u, SkipVerified(u) \/ Reconcile(u) \/ LoopDetected(u) \/ Send(u)
      PROVE  step' # "idle" => mode' = "active"
  BY <1>6 DEF SkipVerified, Reconcile, LoopDetected, Send, MustRun, Admitted, StopEffects,
              PauseEffects, Redispatch
<1> QED BY <1>1, <1>2, <1>3, <1>4, <1>5, <1>6 DEF Next, Commands, Loop, DispatchNextUnit

\* The agent works on the unit that was sent to it last.
LEMMA AgentStep ==
  ASSUME [Next]_vars, agent' # NoUnit
  PROVE  agent' = agent \/ (step = "selected" /\ agent' = selected /\ Send(selected)
                            /\ ~Blocked(disk, selected) /\ selected' = NoUnit)
<1>1. CASE UNCHANGED vars \/ Commands \/ AgentWrites \/ AgentEnds \/ Timers
  BY <1>1 DEF vars, turnVars, Commands, StartAuto, ResumeAuto, Pause, Stop, StopEffects, AgentAborted,
              Steer, Crash, AgentWrites, AgentEnds, Timers, IdleTimeout, HardTimeout,
              RecoverTimedOutUnit
<1>2. CASE \/ HandleAgentEnd \/ GapWatchdog \/ ReturnToCaller \/ GapGivesUp
           \/ NothingLeft \/ ResolveDispatch \/ SkippedByHook \/ Refused
  BY <1>2 DEF HandleAgentEnd, GapWatchdog, ReturnToCaller, GapGivesUp, NothingLeft,
              ResolveDispatch, SkippedByHook, Refused, StopEffects, turnVars
<1>3. ASSUME NEW u \in {selected} \ {NoUnit}, SkipVerified(u) \/ Reconcile(u) \/ LoopDetected(u)
      PROVE  agent' = agent
  BY <1>3 DEF SkipVerified, Reconcile, LoopDetected, StopEffects, turnVars
<1>4. ASSUME NEW u \in {selected} \ {NoUnit}, Send(u)
      PROVE  agent' = agent \/ (agent' = u /\ step = "selected" /\ ~Blocked(disk, u)
                                /\ selected' = NoUnit)
  BY <1>4 DEF Send, MustRun, Admitted, StopEffects, PauseEffects
<1> QED BY <1>1, <1>2, <1>3, <1>4 DEF Next, Loop, DispatchNextUnit

\* A chosen unit is founded, and the agent works on a unit whose turn it is, paused or not.
WorkInv ==
  /\ TypeInv /\ WellFormed(disk)
  /\ step # "idle" => mode = "active"
  /\ step = "selected" /\ selected # NoUnit => Founded(disk, selected)
  /\ agent # NoUnit => InOrder(agent)

LEMMA WorkInvStep == WorkInv /\ [Next]_vars => WorkInv'
<1> SUFFICES ASSUME WorkInv, [Next]_vars PROVE WorkInv'
  OBVIOUS
<1>1. TypeInv /\ TypeOK /\ TypeInv' /\ WellFormed(disk)
  BY TypesKept DEF WorkInv, TypeInv
<1>2. step' # "idle" => mode' = "active"
  BY ActiveStep DEF WorkInv
<1>3. CASE UNCHANGED vars
  <2>1. UNCHANGED <<disk, step, selected, agent>>
    BY <1>3 DEF vars, loopVars, turnVars
  <2> QED BY <1>1, <1>2, <2>1
          DEF WorkInv, InOrder, Tasks, OpenTasks, Slices, OpenSlices, SliceDone, TaskDone
<1>4. CASE Next
  <2>1. WellFormed(disk')
    BY <1>1, <1>4, PlansStep
  <2>2. ASSUME step' = "selected", selected' # NoUnit PROVE Founded(disk', selected')
    <3>1. CASE ResolveDispatch
      BY <1>1, <2>2, <3>1, Resolved
    <3>2. CASE step = "selected" /\ selected' = selected /\ Alike(disk, disk')
      <4>1. Founded(disk, selected)
        BY <2>2, <3>2 DEF WorkInv
      <4>2. \A u : Founded(disk, u) => Founded(disk', u)
        BY <3>2, AlikeFounded
      <4> QED BY <3>2, <4>1, <4>2
    <3> QED BY <2>2, <3>1, <3>2, SelectedStep DEF WorkInv
  <2>3. ASSUME NEW u, u = agent', u # NoUnit PROVE InOrder(u)'
    <3>1. u \in Unit
      BY <1>1, <2>3 DEF TypeInv, TypeOK
    <3>2. CASE agent' = agent
      BY <1>1, <1>4, <2>3, <3>1, <3>2, InOrderKept DEF WorkInv
    <3>3. CASE agent' # agent
      <4>1. step = "selected" /\ u = selected /\ ~Blocked(disk, u)
        BY <2>3, <3>3, AgentStep
      <4>2. InOrder(u)
        BY <2>3, <3>1, <4>1, FoundedInOrder DEF WorkInv
      <4>3. ~AgentWrites
        BY <4>1 DEF WorkInv, AgentWrites, AgentRuns
      <4> QED BY <1>1, <1>4, <3>1, <4>2, <4>3, InOrderKept
    <3> QED BY <3>2, <3>3
  <2>4. (agent # NoUnit => InOrder(agent))'
    BY <2>3 DEF InOrder
  <2> QED BY <1>1, <1>2, <2>1, <2>2, <2>4 DEF WorkInv
<1> QED BY <1>3, <1>4

\* A unit is worked on when what it builds on is done, in every state of every run: after
\* crashes, in a turn that goes on while auto-mode is paused or stopped, with flaky and
\* silent turns, stubs and repairs, for every project whose files are well formed.
THEOREM WorkIsInOrder ==
  (\A d \in InitialDisks : WellFormed(d)) /\ Spec => []WorkInOrder
<1> SUFFICES ASSUME \A d \in InitialDisks : WellFormed(d) PROVE Spec => []WorkInOrder
  OBVIOUS
<1>1. Init => WorkInv
  <2> SUFFICES ASSUME Init PROVE WorkInv
    OBVIOUS
  <2>1. step = "idle" /\ agent = NoUnit /\ WellFormed(disk)
    BY DEF Init
  <2> QED BY <2>1, InitTypes DEF WorkInv
<1>2. WorkInv => WorkInOrder
  BY DEF WorkInv, WorkInOrder
<1> QED BY <1>1, <1>2, WorkInvStep, PTL DEF Spec

-------------------------------------------------------------------------------
(* The dispatch guard *)

\* Milestones and slices depend on earlier ones only.
DepsInOrder ==
  /\ \A m \in Milestone : \A k \in MilestoneDeps[m] : k < m
  /\ \A m \in Milestone : \A s \in 1..NumSlices[m] : SliceDeps[<<m, s>>] \subseteq 1..(s - 1)

\* Before the first milestone that may be active no slice is open: the first one that waits
\* for another would wait for one that waits too.
LEMMA NoneOpenBefore ==
  ASSUME DepsInOrder, NEW d, Promotable(d) # {}, NEW k \in Milestone, k < Least(Promotable(d))
  PROVE  OpenSlices(d, k) = {}
<1> DEFINE m == Least(Promotable(d))
           Waits(b) == <<"ROADMAP", <<b>>>> \in d /\ ~RoadmapComplete(d, b)
           W == {b \in Milestone : b < m /\ Waits(b)}
<1>1. Milestone \subseteq Nat /\ Promotable(d) \subseteq Milestone
  BY ProjectAssumption DEF Milestone, Promotable
<1>2. m \in Nat /\ k < m /\ \A b \in Promotable(d) : m <= b
  BY <1>1, LeastOfSet
<1> HIDE DEF m
<1>3. ASSUME W # {} PROVE FALSE
  <2>1. W \subseteq Nat
    BY <1>1
  <2>2. PICK b \in W : \A c \in W : b <= c
    BY <1>3, <2>1, LeastOfSet
  <2>3. b \in Milestone /\ b < m /\ Waits(b)
    BY <2>2
  <2>4. b \notin Promotable(d)
    BY <1>1, <1>2, <2>3
  <2>5. PICK c \in MilestoneDeps[b] : c \notin CompleteMilestones(d)
    BY <2>3, <2>4 DEF Promotable
  <2>6. c \in Milestone /\ c < b
    BY <2>3, ProjectAssumption DEF DepsInOrder
  <2>7. c < m /\ ~(b <= c)
    BY <1>1, <1>2, <2>3, <2>6
  <2>8. ~Waits(c)
    BY <2>2, <2>6, <2>7
  <2>9. c \notin Promotable(d)
    BY <1>1, <1>2, <2>6, <2>7
  <2>10. <<"SUMMARY", <<c>>>> \in d
    BY <2>6, <2>8, <2>9 DEF Promotable
  <2> QED BY <2>5, <2>6, <2>8, <2>10 DEF CompleteMilestones
<1>4. ~Waits(k)
  BY <1>2, <1>3
<1> QED BY <1>4 DEF RoadmapComplete, OpenSlices, Slices

\* The first slice that may be active is the first that is open.
LEMMA NoneOpenBetween ==
  ASSUME DepsInOrder, NEW d, NEW m \in Milestone, EligibleSlices(d, m) # {},
         NEW t \in OpenSlices(d, m)
  PROVE  Least(EligibleSlices(d, m)) <= t
<1> DEFINE s == Least(OpenSlices(d, m))
<1>1. /\ OpenSlices(d, m) \subseteq 1..NumSlices[m] /\ NumSlices[m] \in Nat
      /\ EligibleSlices(d, m) \subseteq OpenSlices(d, m)
      /\ Slices(d, m) = 1..NumSlices[m]
  BY ProjectAssumption DEF OpenSlices, Slices, EligibleSlices
<1>2. s \in OpenSlices(d, m) /\ \A k \in OpenSlices(d, m) : s <= k
  BY <1>1, LeastOfSet
<1>3. s \in EligibleSlices(d, m)
  <2>1. s \in 1..NumSlices[m]
    BY <1>1, <1>2
  <2> HIDE DEF s
  <2>2. ASSUME NEW k \in SliceDeps[<<m, s>>] PROVE k \in DoneSlices(d, m)
    <3>1. k \in 1..(s - 1)
      BY <2>1 DEF DepsInOrder
    <3>2. k \in Slices(d, m) /\ ~(s <= k)
      BY <1>1, <2>1, <3>1
    <3>3. k \notin OpenSlices(d, m)
      BY <1>2, <3>2
    <3> QED BY <3>2, <3>3 DEF OpenSlices, DoneSlices
  <2> QED BY <1>2, <2>2 DEF EligibleSlices
<1>4. EligibleSlices(d, m) \subseteq Nat
  BY <1>1
<1>5. Least(EligibleSlices(d, m)) <= s /\ Least(EligibleSlices(d, m)) \in Nat
  BY <1>3, <1>4, LeastOfSet
<1>6. s \in Nat /\ t \in Nat /\ s <= t
  BY <1>1, <1>2
<1> QED BY <1>5, <1>6

\* What the table selects the guard lets pass.
LEMMA TableUnblocked ==
  ASSUME DepsInOrder, NEW d, NEW st, st = DeriveState(d), st.mid \in Milestone,
         st.phase \notin {"complete", "blocked"}, NEW u \in Unit, u = TableUnit(d, st)
  PROVE  ~Blocked(d, u)
<1>1. TableChoice(d, st, u)
  BY TableChooses
<1>2. CASE u[1] \notin GuardedTypes
  BY <1>2 DEF Blocked
<1>3. CASE u[1] \in GuardedTypes
  <2>1. /\ st.phase \in {"planning", "summarizing", "replanning-slice", "executing"}
        /\ u[2][1] = st.mid /\ u[2][2] = st.sid
    BY <1>1, <1>3 DEF TableChoice, GuardedTypes
  <2>2. /\ Promotable(d) # {} /\ st.mid = Least(Promotable(d))
        /\ EligibleSlices(d, st.mid) # {} /\ st.sid = Least(EligibleSlices(d, st.mid))
    BY <2>1, DerivedState
  <2>3. \A k \in Milestone : k < st.mid => OpenSlices(d, k) = {}
    BY <2>2, NoneOpenBefore
  <2>4. ASSUME NEW t \in OpenSlices(d, st.mid) PROVE ~(t < st.sid)
    <3>1. st.sid <= t
      BY <2>2, NoneOpenBetween
    <3>2. EligibleSlices(d, st.mid) \subseteq Nat /\ OpenSlices(d, st.mid) \subseteq Nat
      BY SliceNumbers
    <3>3. st.sid \in Nat /\ t \in Nat
      BY <2>2, <3>2, LeastOfSet
    <3> QED BY <3>1, <3>3
  <2> QED BY <2>1, <2>3, <2>4 DEF Blocked
<1> QED BY <1>2, <1>3

\* The chosen unit passes the guard, until its invocation is over.
GuardInv == TypeInv /\ (step # "idle" => mode = "active") /\ GuardAgrees

\* deriveState and the dispatch guard order the work alike, for every project whose
\* dependencies point backwards and any run: no unit that the table selects is refused.
THEOREM GuardsAgree == DepsInOrder /\ Spec => []GuardAgrees
<1> SUFFICES ASSUME DepsInOrder PROVE Spec => []GuardAgrees
  OBVIOUS
<1>1. Init => GuardInv
  <2> SUFFICES ASSUME Init PROVE GuardInv
    OBVIOUS
  <2>1. step = "idle"
    BY DEF Init
  <2> QED BY <2>1, InitTypes DEF GuardInv, GuardAgrees
<1>2. GuardInv /\ [Next]_vars => GuardInv'
  <2> SUFFICES ASSUME GuardInv, [Next]_vars PROVE GuardInv'
    OBVIOUS
  <2>1. TypeInv' /\ (step' # "idle" => mode' = "active") /\ TypeOK
    BY TypesKept, ActiveStep DEF GuardInv, TypeInv
  <2>2. ASSUME step' = "selected", selected' # NoUnit PROVE ~Blocked(disk', selected')
    <3>1. CASE ResolveDispatch
      <4>1. CASE selected'[1] = "rewrite-docs"
        BY <4>1 DEF Blocked, GuardedTypes
      <4>2. CASE selected'[1] # "rewrite-docs"
        BY <2>1, <2>2, <3>1, <4>2, Resolved, TableUnblocked
      <4> QED BY <4>1, <4>2
    <3>2. CASE step = "selected" /\ selected' = selected /\ Alike(disk, disk')
      <4>1. ~Blocked(disk, selected)
        BY <2>2, <3>2 DEF GuardInv, GuardAgrees
      <4>2. \A u : Blocked(disk', u) => Blocked(disk, u)
        BY <3>2, AlikeFounded
      <4> QED BY <3>2, <4>1, <4>2
    <3> QED BY <2>2, <3>1, <3>2, SelectedStep DEF GuardInv
  <2>3. GuardAgrees'
    BY <2>2 DEF GuardAgrees, Blocked, OpenSlices, Slices, SliceDone
  <2> QED BY <2>1, <2>3 DEF GuardInv
<1>3. GuardInv => GuardAgrees
  BY DEF GuardInv
<1> QED BY <1>1, <1>2, <1>3, PTL DEF Spec

-------------------------------------------------------------------------------
(* Between two slices *)

\* What the agent adds while it works on a slice, and what is done in its stead, begins no
\* work between slices.
LEMMA WorkedKept ==
  ASSUME NEW d, NEW e, NEW m \in Milestone, Worked(d, m), Kept(d, e), WellFormed(d),
         \A f \in e : \/ f \in d \/ f[1] \notin {"SLICES", "x", "UAT", "SUMMARY"}
                      \/ f[1] # "SLICES" /\ f[2] \in TaskId \union MilestoneId
  PROVE  Worked(e, m)
<1>1. \A s : <<m, s>> \notin TaskId /\ <<m, s>> \notin MilestoneId
  <2> SUFFICES ASSUME NEW s, <<m, s>> \in TaskId \union MilestoneId PROVE FALSE
    OBVIOUS
  <2>1. Len(<<m, s>>) = 2
    OBVIOUS
  <2>2. CASE <<m, s>> \in TaskId
    <3>1. PICK a, b, c : <<m, s>> = <<a, b, c>>
      BY <2>2 DEF TaskId
    <3>2. Len(<<a, b, c>>) = 3
      OBVIOUS
    <3> QED BY <2>1, <3>1, <3>2
  <2>3. CASE <<m, s>> \in MilestoneId
    <3>1. PICK a : <<m, s>> = <<a>>
      BY <2>3 DEF MilestoneId
    <3>2. Len(<<a>>) = 1
      OBVIOUS
    <3> QED BY <2>1, <3>1, <3>2
  <2> QED BY <2>2, <2>3
<1>2. \A kind \in {"x", "UAT", "SUMMARY"} : \A s :
         <<kind, <<m, s>>>> \in e <=> <<kind, <<m, s>>>> \in d
  BY <1>1 DEF Kept
<1>3. \A kind \in {"UAT-RESULT", "ASSESSMENT"} : \A s :
         <<kind, <<m, s>>>> \in d => <<kind, <<m, s>>>> \in e
  BY DEF Kept
<1>4. <<"SLICES", <<m>>>> \in e <=> <<"SLICES", <<m>>>> \in d
  BY DEF Kept
<1>5. Slices(e, m) = Slices(d, m)
  <2>1. CASE <<"SLICES", <<m>>>> \in d
    <3>1. <<"ROADMAP", <<m>>>> \in d
      BY <2>1 DEF WellFormed
    <3>2. <<"ROADMAP", <<m>>>> \in e
      BY <3>1 DEF Kept
    <3> QED BY <1>4, <2>1, <3>1, <3>2 DEF Slices
  <2>2. CASE <<"SLICES", <<m>>>> \notin d
    BY <1>4, <2>2 DEF Slices
  <2> QED BY <2>1, <2>2
<1>6. \A s : SliceDone(e, m, s) <=> SliceDone(d, m, s)
  BY <1>2 DEF SliceDone
<1>7. DoneSlices(e, m) = DoneSlices(d, m) /\ OpenSlices(e, m) = OpenSlices(d, m)
  BY <1>5, <1>6 DEF DoneSlices, OpenSlices
<1>8. LastDone(e, m) = LastDone(d, m) /\ (BetweenSlices(e, m) <=> BetweenSlices(d, m))
  BY <1>7 DEF LastDone, BetweenSlices
<1>9. PICK s : LastDone(d, m) = <<m, s>>
  BY DEF LastDone
<1> QED BY <1>2, <1>3, <1>8, <1>9 DEF Worked, NeedsRunUat, NeedsReassessment

\* The turn of a unit that begins work on a slice leaves what is between slices alone, and
\* so does whatever happens while one is sent.
LEMMA WorkedStep ==
  ASSUME TypeOK, Next, WellFormed(disk), ~ResumeAuto,
         NEW u \in Unit, Begins(u), Worked(disk, u[2][1]),
         \/ agent = u /\ supervised \in {NoUnit, u}
         \/ step = "selected" /\ mode = "active"
  PROVE  Worked(disk', u[2][1])
<1>1. u[2][1] \in Milestone
  BY UnitIds DEF Begins, SliceUnits, SliceId, TaskId
<1>2. Kept(disk, disk')
  BY StepKeeps
<1>3. ASSUME NEW f, f \in disk', f \notin disk
      PROVE  \/ f[1] \notin {"SLICES", "x", "UAT", "SUMMARY"}
             \/ f[1] # "SLICES" /\ f[2] \in TaskId \union MilestoneId
  <2>1. CASE AgentWrites /\ \E W \in Outputs(agent) \union Extras(agent) : f \in W
    <3>1. agent = u
      BY <2>1 DEF AgentWrites, AgentRuns
    <3> QED BY <2>1, <3>1, AgentAdds DEF Begins
  <2>2. ASSUME NEW max, supervised \in Unit, step = "idle", SkipUnit(supervised, max),
               f = <<Artifact[supervised[1]], supervised[2]>>
        PROVE  \/ f[1] \notin {"SLICES", "x", "UAT", "SUMMARY"}
               \/ f[1] # "SLICES" /\ f[2] \in TaskId \union MilestoneId
    <3>1. NoUnit \notin Unit
      BY DEF NoUnit, Unit, MilestoneUnits, SliceUnits
    <3>2. supervised = u
      BY <2>2, <3>1
    <3>3. /\ Artifact["research-slice"] = "RESEARCH" /\ Artifact["plan-slice"] = "PLAN"
          /\ Artifact["execute-task"] = "SUMMARY"
      BY DEF Artifact, UnitType, SliceUnits
    <3> QED BY <2>2, <3>2, <3>3, UnitIds DEF Begins
  <2>3. CASE f = Override
    BY <2>3 DEF Override
  <2> QED BY <1>3, <2>1, <2>2, <2>3, Additions DEF Added
<1> QED BY <1>1, <1>2, <1>3, WorkedKept

\* Timers supervise the unit the agent works on.
LEMMA SupervisedStep ==
  ASSUME [Next]_vars, agent = NoUnit \/ supervised \in {NoUnit, agent}
  PROVE  agent' = NoUnit \/ supervised' \in {NoUnit, agent'}
<1>1. CASE UNCHANGED vars \/ StartAuto \/ ResumeAuto \/ Steer \/ AgentWrites \/ AgentEnds
  BY <1>1 DEF vars, turnVars, StartAuto, ResumeAuto, Steer, AgentWrites, AgentEnds
<1>2. CASE Pause \/ Stop \/ AgentAborted \/ Crash
  BY <1>2 DEF Pause, Stop, AgentAborted, Crash, PauseEffects, StopEffects, ClearTimers
<1>3. CASE Timers
  BY <1>3 DEF Timers, IdleTimeout, HardTimeout, RecoverTimedOutUnit, Advance, SteerTurn, SkipUnit,
              GiveUp
<1>4. CASE \/ HandleAgentEnd \/ GapWatchdog \/ ReturnToCaller \/ GapGivesUp
           \/ NothingLeft \/ ResolveDispatch \/ SkippedByHook \/ Refused
  BY <1>4 DEF HandleAgentEnd, GapWatchdog, ReturnToCaller, GapGivesUp, NothingLeft, ResolveDispatch,
              SkippedByHook, Refused, StopEffects, ClearTimers, turnVars
<1>5. ASSUME NEW u, SkipVerified(u) \/ Reconcile(u) \/ LoopDetected(u) \/ Send(u)
      PROVE  agent' = NoUnit \/ supervised' \in {NoUnit, agent'}
  BY <1>5 DEF SkipVerified, Reconcile, LoopDetected, Send, StopEffects, PauseEffects, ClearTimers,
              turnVars
<1> QED BY <1>1, <1>2, <1>3, <1>4, <1>5 DEF Next, Commands, Loop, DispatchNextUnit

\* A dispatch that a command began goes on until it sends, or the run ends.
Starting == mode = "active" => caller = "start" /\ step \in {"dispatch", "selected"}

LEMMA StartStep ==
  ASSUME TypeOK, [Next]_vars, SkipTypes = {}, AttendedInv', Starting
  PROVE  \/ Starting'
         \/ agent' = selected /\ step = "selected" /\ mode = "active"
<1> USE DEF Starting
<1>1. CASE UNCHANGED vars \/ Steer \/ AgentWrites
  BY <1>1 DEF vars, loopVars, Steer, AgentWrites
<1>2. CASE StartAuto \/ ResumeAuto \/ Pause \/ Stop \/ AgentAborted \/ Crash
  BY <1>2 DEF StartAuto, ResumeAuto, Pause, Stop, AgentAborted, Crash, PauseEffects, StopEffects, Call
<1>3. CASE AgentEnds \/ Timers
  BY <1>3 DEF AgentEnds, AgentRuns, Timers, IdleTimeout, HardTimeout
<1>4. CASE HandleAgentEnd \/ GapWatchdog \/ ReturnToCaller \/ GapGivesUp
  BY <1>4 DEF HandleAgentEnd, GapWatchdog, ReturnToCaller, GapGivesUp
<1>5. CASE NothingLeft \/ Refused
  BY <1>5 DEF NothingLeft, Refused, StopEffects
<1>6. CASE ResolveDispatch \/ SkippedByHook
  BY <1>6 DEF ResolveDispatch, Dispatching, SkippedByHook
<1>7. ASSUME NEW u \in {selected} \ {NoUnit},
             SkipVerified(u) \/ Reconcile(u) \/ LoopDetected(u) \/ Send(u)
      PROVE  \/ Starting'
             \/ agent' = selected /\ step = "selected" /\ mode = "active"
  <2>1. CASE SkipVerified(u) \/ LoopDetected(u)
    BY <2>1 DEF SkipVerified, LoopDetected, StopEffects
  <2>2. CASE Reconcile(u)
    BY <2>2 DEF Reconcile, Redispatch, AttendedInv
  <2>3. CASE Send(u)
    <3>1. step = "selected" /\ u = selected
      BY <2>3 DEF Send, MustRun, Admitted
    <3>2. StopEffects \/ (agent' = u /\ (PauseEffects \/ UNCHANGED mode))
      BY <2>3 DEF Send
    <3> QED BY <3>1, <3>2 DEF StopEffects, PauseEffects
  <2> QED BY <1>7, <2>1, <2>2, <2>3
<1> QED BY <1>1, <1>2, <1>3, <1>4, <1>5, <1>6, <1>7 DEF Next, Commands, Loop, DispatchNextUnit

AgentWorked == Begins(agent) => Worked(disk, agent[2][1])

\* No pre-dispatch hook skips a unit, or no paused run is resumed: with both, the skip of a
\* run-uat or a reassessment leaves the turn going that a resumed run has found.
NoSkipOnResume == SkipTypes = {} \/ "resume" \notin UserMay

\* What is between slices is done before a slice is begun, while a turn goes on, and until a
\* resumed run, whose doctor may have closed a slice, has sent what comes next.
BetweenInv ==
  /\ TypeInv /\ WellFormed(disk)
  /\ step # "idle" => mode = "active"
  /\ agent = NoUnit \/ supervised \in {NoUnit, agent}
  /\ step = "selected" /\ selected # NoUnit =>
       (Begins(selected) => Worked(disk, selected[2][1]))
  /\ AgentWorked \/ (SkipTypes = {} /\ Starting)
  /\ SkipTypes = {} => AttendedInv

LEMMA BetweenInvStep == NoSkipOnResume /\ BetweenInv /\ [Next]_vars => BetweenInv'
<1> SUFFICES ASSUME NoSkipOnResume, BetweenInv, [Next]_vars PROVE BetweenInv'
  OBVIOUS
<1>1. TypeInv /\ TypeOK /\ TypeInv' /\ WellFormed(disk)
  BY TypesKept DEF BetweenInv, TypeInv
<1>2. step' # "idle" => mode' = "active"
  BY ActiveStep DEF BetweenInv
<1>3. agent' = NoUnit \/ supervised' \in {NoUnit, agent'}
  BY SupervisedStep DEF BetweenInv
<1>4. SkipTypes = {} => AttendedInv'
  BY <1>1, AttendedOutside, AttendedDispatch DEF BetweenInv, Next, Loop
<1>5. WellFormed(disk')
  <2>1. CASE UNCHANGED vars
    BY <1>1, <2>1 DEF vars
  <2> QED BY <1>1, <2>1, PlansStep
<1>6. ASSUME step' = "selected", selected' # NoUnit, Begins(selected')
      PROVE  Worked(disk', selected'[2][1])
  <2>1. CASE ResolveDispatch
    BY <1>1, <1>6, <2>1, Resolved
  <2>2. CASE step = "selected" /\ selected' = selected /\ Alike(disk, disk')
    <3>1. Worked(disk, selected[2][1])
      BY <1>6, <2>2 DEF BetweenInv
    <3>2. \A m : Worked(disk, m) => Worked(disk', m)
      BY <2>2, AlikeFounded
    <3> QED BY <2>2, <3>1, <3>2
  <2> QED BY <1>6, <2>1, <2>2, SelectedStep DEF BetweenInv
<1>7. ASSUME NEW u, u = agent', Begins(u), ~(SkipTypes = {} /\ Starting')
      PROVE  Worked(disk', u[2][1])
  <2>1. u \in Unit
    BY <1>1, <1>7 DEF TypeInv, TypeOK, Begins, NoUnit
  <2>2. NoUnit \notin Unit
    BY DEF NoUnit, Unit, MilestoneUnits, SliceUnits
  <2>3. CASE UNCHANGED vars
    BY <1>7, <2>3 DEF vars, loopVars, turnVars, BetweenInv, AgentWorked, Starting
  <2>4. CASE Next /\ step = "selected" /\ u = selected
    <3>1. ~ResumeAuto /\ mode = "active"
      BY <2>4 DEF BetweenInv, ResumeAuto
    <3>2. Worked(disk, u[2][1])
      BY <1>7, <2>1, <2>2, <2>4 DEF BetweenInv
    <3> QED BY <1>1, <1>7, <2>1, <2>4, <3>1, <3>2, WorkedStep
  <2>5. CASE Next /\ ~(step = "selected" /\ u = selected)
    <3>1. agent = u
      BY <1>7, <2>1, <2>2, <2>5, AgentStep
    <3>2. CASE SkipTypes = {} /\ Starting
      BY <1>1, <1>4, <1>7, <2>5, <3>2, StartStep
    <3>3. CASE ~(SkipTypes = {} /\ Starting)
      <4>1. Worked(disk, u[2][1])
        BY <1>7, <3>1, <3>3 DEF BetweenInv, AgentWorked
      <4>2. supervised \in {NoUnit, u}
        BY <2>1, <2>2, <3>1 DEF BetweenInv
      <4>3. ~ResumeAuto
        BY <1>7 DEF ResumeAuto, Call, Starting, NoSkipOnResume
      <4> QED BY <1>1, <1>7, <2>1, <2>5, <3>1, <4>1, <4>2, <4>3, WorkedStep
    <3> QED BY <3>2, <3>3
  <2> QED BY <2>3, <2>4, <2>5
<1>8. (AgentWorked \/ (SkipTypes = {} /\ Starting))'
  BY <1>7 DEF AgentWorked
<1>9. (step = "selected" /\ selected # NoUnit =>
         (Begins(selected) => Worked(disk, selected[2][1])))'
  BY <1>6
<1> QED BY <1>1, <1>2, <1>3, <1>4, <1>5, <1>8, <1>9 DEF BetweenInv, WellFormed

\* No work on a slice is begun before the slice that was completed last has its UAT result,
\* if UAT is dispatched, and its reassessment: for every project whose files are well formed
\* and any run in which no unit is skipped by a hook, or none is resumed after a pause.
THEOREM SlicesAreWorkedOff ==
  NoSkipOnResume /\ (\A d \in InitialDisks : WellFormed(d)) /\ Spec => []BetweenSlicesWorked
<1> SUFFICES ASSUME NoSkipOnResume, \A d \in InitialDisks : WellFormed(d)
             PROVE  Spec => []BetweenSlicesWorked
  OBVIOUS
<1>1. Init => BetweenInv
  <2> SUFFICES ASSUME Init PROVE BetweenInv
    OBVIOUS
  <2>1. step = "idle" /\ agent = NoUnit /\ WellFormed(disk) /\ mode = "stopped" /\ caller = "start"
    BY DEF Init
  <2> QED BY <2>1, InitTypes
          DEF BetweenInv, AgentWorked, Begins, NoUnit, AttendedInv, NeverStalled
<1>2. BetweenInv /\ [Next]_vars => BetweenInv'
  BY BetweenInvStep
<1>3. BetweenInv => BetweenSlicesWorked
  BY DEF BetweenInv, AgentWorked, Starting, BetweenSlicesWorked, Begins, Worked
<1> QED BY <1>1, <1>2, <1>3, PTL DEF Spec
===============================================================================
