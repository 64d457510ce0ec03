---------------------------- MODULE AgentJobsProofs ----------------------------
(* The manager of the background jobs never loses sight of a running one, and *)
(* keeps its two limits, whatever the agent, its tools and its handlers do and *)
(* in whatever order the shells close.  One loop of the agent is active at a   *)
(* time, every message has one place, a queue is left to a loop that polls,    *)
(* and every call of a response has its result when the model is asked again.  *)
EXTENDS AgentJobs, FiniteSetTheorems, TLAPS

\* A running job is in the map and its shell is open; no eviction timer is set for it.
RunningInSight ==
  \A j \in Job : status[j] = "running" => j \in listed /\ j \in alive /\ j \notin evicting

\* A shell that is open without having been told to close is that of a running job.
OpenMeansRunning == alive \ killed \subseteq Running

\* The limits of the manager.
WithinLimits == Cardinality(Running) <= MaxRunning /\ Cardinality(listed) <= MaxTotal

\* A job that is still to come has left no trace.
NewUntouched ==
  \A j \in Job : status[j] = "new" => j \notin listed \union alive \union killed \union evicting

JInv == JobsTypeOK /\ RunningInSight /\ OpenMeansRunning /\ WithinLimits /\ NewUntouched

\* Sets of jobs are finite.
LEMMA JobSetsFinite ==
  ASSUME NEW S \in SUBSET Job
  PROVE  IsFiniteSet(S) /\ Cardinality(S) \in Nat
<1>1. IsFiniteSet(Job)
  BY FS_Interval, JobConfig DEF Job
<1> QED BY <1>1, FS_Subset, FS_CardinalityType

\* A part of a set of jobs is no larger.
LEMMA JobSubset ==
  ASSUME NEW S \in SUBSET Job, NEW T \in SUBSET S
  PROVE  Cardinality(T) <= Cardinality(S)
BY JobSetsFinite, FS_Subset

\* One more job adds at most one.
LEMMA JobAdded ==
  ASSUME NEW S \in SUBSET Job, NEW j \in Job
  PROVE  Cardinality(S \union {j}) <= Cardinality(S) + 1
BY JobSetsFinite, FS_AddElement

\* The invariant speaks of the jobs alone: a step of the agent leaves it true.
LEMMA JInvStutter ==
  ASSUME JInv, UNCHANGED jobVars
  PROVE  JInv'
BY DEF JInv, jobVars, JobsTypeOK, RunningInSight, OpenMeansRunning, WithinLimits, NewUntouched,
       Running

\* The job that evictOldest drops is not running.
LEMMA OldestNotRunning ==
  Oldest \in SUBSET listed /\ \A j \in Oldest : status[j] # "running"
BY DEF Oldest, Evictable

\* A new job: evictOldest, then the job is entered.
LEMMA RegisterKeeps ==
  ASSUME JInv, NEW j \in Job, Register(j)
  PROVE  JInv'
<1>1. JobsTypeOK'
  BY OldestNotRunning DEF JInv, JobsTypeOK, Register
<1>2. Running' = Running \union {j}
  BY OldestNotRunning DEF JInv, JobsTypeOK, Register, Running
<1>3. RunningInSight' /\ NewUntouched'
  BY OldestNotRunning DEF JInv, JobsTypeOK, RunningInSight, NewUntouched, Register
<1>4. OpenMeansRunning'
  BY <1>2 DEF JInv, OpenMeansRunning, Register
<1>5. WithinLimits'
  <2>1. /\ Running \in SUBSET Job /\ listed \ Oldest \in SUBSET Job
        /\ listed' = (listed \ Oldest) \union {j}
    BY DEF JInv, JobsTypeOK, Running, Register
  <2>2. Cardinality(Running') <= Cardinality(Running) + 1
    BY <1>2, <2>1, JobAdded
  <2>3. Cardinality(listed') <= Cardinality(listed \ Oldest) + 1
    BY <2>1, JobAdded
  <2>4. /\ Cardinality(Running) < MaxRunning /\ Cardinality(listed \ Oldest) < MaxTotal
        /\ Cardinality(Running) \in Nat /\ Cardinality(listed \ Oldest) \in Nat
        /\ Cardinality(Running') \in Nat /\ Cardinality(listed') \in Nat
    BY <1>1, <1>2, <2>1, JobSetsFinite DEF Register, JobsTypeOK
  <2> QED BY <2>2, <2>3, <2>4, JobConfig DEF WithinLimits
<1> QED BY <1>1, <1>3, <1>4, <1>5 DEF JInv

\* The other operations of the manager only take jobs out of the map or stop them.
LEMMA FewerWithinLimits ==
  ASSUME JInv, JobsTypeOK', listed' \subseteq listed, Running' \subseteq Running
  PROVE  WithinLimits'
<1>1. Running \in SUBSET Job /\ listed \in SUBSET Job /\ Running' \in SUBSET Job
  BY DEF JInv, JobsTypeOK, Running
<1>2. Cardinality(Running') <= Cardinality(Running) /\ Cardinality(listed') <= Cardinality(listed)
  BY <1>1, JobSubset
<1>3. /\ Cardinality(Running) \in Nat /\ Cardinality(listed) \in Nat
      /\ Cardinality(Running') \in Nat /\ Cardinality(listed') \in Nat
  BY <1>1, JobSetsFinite DEF JobsTypeOK
<1> QED BY <1>2, <1>3, JobConfig DEF JInv, WithinLimits

\* cancel() leaves the shell open, but told to close.
LEMMA CancelKeeps ==
  ASSUME JInv, NEW j \in Job, Cancel(j)
  PROVE  JInv'
<1>1. JobsTypeOK' /\ RunningInSight' /\ NewUntouched'
  BY DEF JInv, JobsTypeOK, RunningInSight, NewUntouched, Cancel, Running, Ended
<1>2. Running' = Running \ {j}
  BY DEF JInv, JobsTypeOK, Cancel, Running
<1>3. OpenMeansRunning'
  BY <1>2 DEF JInv, OpenMeansRunning, Cancel
<1> QED BY <1>1, <1>2, <1>3, FewerWithinLimits DEF JInv, Cancel

\* The end of a shell: of a running job, or of one that was cancelled before.
LEMMA EndKeeps ==
  ASSUME JInv, NEW j \in Job, Close(j) \/ SpawnFails(j)
  PROVE  JInv'
<1>1. JobsTypeOK' /\ status'[j] \in Ended /\ status' = [status EXCEPT ![j] = status'[j]]
  BY DEF JInv, JobsTypeOK, Close, SpawnFails, Ended
<1>2. /\ alive' = alive \ {j} /\ evicting' = evicting \union {j}
      /\ UNCHANGED <<listed, killed>>
  BY DEF Close, SpawnFails
<1>3. RunningInSight' /\ NewUntouched'
  BY <1>1, <1>2 DEF JInv, JobsTypeOK, RunningInSight, NewUntouched, Ended
<1>4. Running' = Running \ {j}
  BY <1>1, <1>2 DEF JInv, JobsTypeOK, Running, Ended
<1>5. OpenMeansRunning'
  BY <1>2, <1>4 DEF JInv, OpenMeansRunning
<1> QED BY <1>1, <1>2, <1>3, <1>4, <1>5, FewerWithinLimits DEF JInv

\* The eviction timer takes an ended job out of the map.
LEMMA EvictKeeps ==
  ASSUME JInv, NEW j \in Job, Evict(j)
  PROVE  JInv'
<1>1. JobsTypeOK' /\ RunningInSight' /\ NewUntouched'
  BY DEF JInv, JobsTypeOK, RunningInSight, NewUntouched, Evict
<1>2. Running' = Running
  BY DEF JInv, JobsTypeOK, RunningInSight, Evict, Running
<1>3. OpenMeansRunning'
  BY <1>2 DEF JInv, OpenMeansRunning, Evict
<1> QED BY <1>1, <1>2, <1>3, FewerWithinLimits DEF JInv, Evict

\* shutdown() cancels every running job and forgets all.
LEMMA ShutdownKeeps ==
  ASSUME JInv, Shutdown
  PROVE  JInv'
<1>1. JobsTypeOK' /\ RunningInSight' /\ NewUntouched'
  BY DEF JInv, JobsTypeOK, RunningInSight, NewUntouched, Shutdown, Running, Ended
<1>2. Running' = {}
  BY DEF Shutdown, Running
<1>3. OpenMeansRunning'
  BY <1>2 DEF JInv, OpenMeansRunning, Shutdown
<1> QED BY <1>1, <1>2, <1>3, FewerWithinLimits DEF JInv, Shutdown

\* The invariant holds at the start, with or without a job from earlier.
LEMMA JInvInit == Init => JInv
<1> SUFFICES ASSUME Init PROVE JInv
  OBVIOUS
<1>1. PICK started \in SUBSET (Job \cap {1}) :
        /\ status = [j \in Job |-> IF j \in started THEN "running" ELSE "new"]
        /\ listed = started /\ alive = started /\ killed = {} /\ evicting = {}
  BY DEF Init, JobsInit
<1>2. JobsTypeOK /\ RunningInSight /\ NewUntouched /\ Running = listed
  BY <1>1 DEF JobsTypeOK, RunningInSight, NewUntouched, Running
<1>3. OpenMeansRunning
  BY <1>1, <1>2 DEF OpenMeansRunning
<1>4. Cardinality(listed) <= 1
  BY <1>1, FS_EmptySet, FS_Singleton
<1>5. WithinLimits
  <2>1. Cardinality(listed) \in Nat
    BY <1>2, JobSetsFinite DEF JobsTypeOK
  <2> QED BY <1>2, <1>4, <2>1, JobConfig DEF WithinLimits
<1> QED BY <1>2, <1>3, <1>5 DEF JInv

\* Every step keeps the invariant.
LEMMA JInvNext == JInv /\ [Next]_vars => JInv'
<1> SUFFICES ASSUME JInv, [Next]_vars PROVE JInv'
  OBVIOUS
<1>1. CASE AgentStep
  BY <1>1, JInvStutter DEF AgentStep
<1>2. ASSUME NEW l \in Loop, ToolStep(l) PROVE JInv'
  <2> PICK c \in Executing(l) :
        \/ PlainTool(l, c)
        \/ \E j \in Job : AsyncBash(l, c, j) \/ CancelJob(l, c, j)
        \/ \E js \in SUBSET Running : AwaitJobs(l, c, js)
    BY <1>2 DEF ToolStep
  <2>1. CASE PlainTool(l, c)
    BY <2>1, JInvStutter DEF PlainTool
  <2>2. ASSUME NEW j \in Job, AsyncBash(l, c, j) PROVE JInv'
    BY <2>2, RegisterKeeps DEF AsyncBash
  <2>3. ASSUME NEW j \in Job, CancelJob(l, c, j) PROVE JInv'
    BY <2>3, CancelKeeps DEF CancelJob
  <2>4. ASSUME NEW js \in SUBSET Running, AwaitJobs(l, c, js) PROVE JInv'
    BY <2>4, JInvStutter DEF AwaitJobs
  <2> QED BY <2>1, <2>2, <2>3, <2>4
<1>3. ASSUME NEW w \in watching, AwaitEnds(w) PROVE JInv'
  BY <1>3, JInvStutter DEF AwaitEnds
<1>4. ASSUME NEW j \in Job, JobEnds(j) PROVE JInv'
  BY <1>4, EndKeeps DEF JobEnds
<1>5. ASSUME NEW j \in Job, JobEvicted(j) PROVE JInv'
  BY <1>5, EvictKeeps DEF JobEvicted
<1>6. CASE Reload
  BY <1>6, ShutdownKeeps DEF Reload
<1>7. CASE UNCHANGED vars
  BY <1>7, JInvStutter DEF vars
<1> QED BY <1>1, <1>2, <1>3, <1>4, <1>5, <1>6, <1>7 DEF Next

\* The invariant contains the property.
LEMMA JInvInSight == JInv => JobsInSight
<1> SUFFICES ASSUME JInv PROVE JobsInSight
  OBVIOUS
<1>1. Running \in SUBSET Job /\ alive \ killed \in SUBSET Running
  BY DEF JInv, JobsTypeOK, OpenMeansRunning, Running
<1>2. Cardinality(alive \ killed) <= Cardinality(Running)
  BY <1>1, JobSubset
<1>3. Cardinality(alive \ killed) \in Nat /\ Cardinality(Running) \in Nat
  BY <1>1, JobSetsFinite
<1> QED BY <1>2, <1>3, JobConfig DEF JInv, JobsInSight, RunningInSight, WithinLimits

\* A running job is always in the manager's map, so that it can be cancelled and its result
\* is awaited; no more than maxRunning shells run that were not told to close, and the map
\* has no more than maxTotal entries.
THEOREM JobsStayInSight == Spec => []JobsInSight
<1>1. JInv /\ [Next]_vars => JInv'
  BY JInvNext
<1> QED BY <1>1, JInvInit, JInvInSight, PTL DEF Spec

------------------------------------------------------------------------------
(* One loop at a time.                                                     *)

LoopRecord ==
  [pc : {"none", "stopping", "closing", "over"} \union Working,
   aborted : BOOLEAN, calls : 0..MaxToolCalls, next : 0..MaxToolCalls,
   prepared : Seq(1..MaxToolCalls), done : SUBSET (1..MaxToolCalls),
   results : Seq(1..MaxToolCalls)]

\* The call that is being prepared is one of the response.
Preparing(lp) == lp.pc = "preparing" => lp.next \in 1..lp.calls

LoopsTyped == loops \in [Loop -> LoopRecord] /\ \A l \in Loop : Preparing(loops[l])

\* The loop that works is the one the agent knows of, and no other has a step left; the
\* finally block of a loop is that of the only one.
OnlyOne ==
  mishaps \cap {"reentered", "reset"} = {} =>
    \A l \in Loop :
      /\ loops[l].pc \in Working \union {"stopping"} =>
           isStreaming /\ abortController = l /\ runningPrompt = l
      /\ loops[l].pc \in Working \union {"stopping", "closing"} =>
           \A k \in Loop \ {l} : loops[k].pc \in {"none", "over"}

LInv == LoopsTyped /\ OnlyOne

\* A function on an initial segment of the numbers is a sequence.
LEMMA FunctionIsSeq ==
  ASSUME NEW S, NEW n \in Nat, NEW f \in [1..n -> S]
  PROVE  f \in Seq(S)
OBVIOUS

\* The elements of a sequence.
LEMMA ElementsOfSeq ==
  ASSUME NEW S, NEW s \in Seq(S), NEW x \in ToSet(s)
  PROVE  x \in S
BY DEF ToSet

\* What a response, the preparation of a call and the end of a turn make of a loop.
LEMMA RecordsTyped ==
  /\ NoLoop \in LoopRecord
  /\ \A lp \in LoopRecord : /\ Asking(lp) \in LoopRecord /\ Asking(lp).pc = "asking"
                            /\ Stopping(lp) \in LoopRecord /\ Stopping(lp).pc = "stopping"
<1>1. 0 \in 0..MaxToolCalls /\ <<>> \in Seq(1..MaxToolCalls)
  BY LoopConfig
<1>2. NoLoop \in LoopRecord
  BY <1>1 DEF NoLoop, LoopRecord
<1>3. ASSUME NEW lp \in LoopRecord
      PROVE  /\ Asking(lp) \in LoopRecord /\ Asking(lp).pc = "asking"
             /\ Stopping(lp) \in LoopRecord /\ Stopping(lp).pc = "stopping"
  BY <1>1 DEF Asking, Stopping, NoLoop, LoopRecord, Working
<1> QED BY <1>2, <1>3

\* A step of the loop that works leaves it the only one.
LEMMA WorkKeeps ==
  ASSUME LInv, NEW l \in Loop, loops[l].pc \in Working,
         NEW lp \in LoopRecord, lp.pc \in Working \union {"stopping"}, Preparing(lp),
         loops' = [loops EXCEPT ![l] = lp], UNCHANGED agentVars, mishaps \subseteq mishaps'
  PROVE  LInv'
<1>1. LoopsTyped'
  BY DEF LInv, LoopsTyped, Preparing
<1>2. OnlyOne'
  BY DEF LInv, LoopsTyped, OnlyOne, agentVars
<1> QED BY <1>1, <1>2 DEF LInv

\* So does the end of a turn.
LEMMA TurnEndKeeps ==
  ASSUME LInv, NEW l \in Loop, loops[l].pc \in Working,
         NEW lp \in LoopRecord, TurnEnd(l, lp), UNCHANGED agentVars, mishaps \subseteq mishaps'
  PROVE  LInv'
<1>1. PICK new \in {Asking(lp), Stopping(lp)} : loops' = [loops EXCEPT ![l] = new]
  BY DEF TurnEnd
<1>2. new \in LoopRecord /\ new.pc \in {"asking", "stopping"} /\ Preparing(new)
  BY RecordsTyped DEF Preparing
<1> QED BY <1>1, <1>2, WorkKeeps DEF Working

\* A loop that ends by an error or an abort.
LEMMA StopKeeps ==
  ASSUME LInv, NEW l \in Loop, loops[l].pc \in Working,
         loops' = [loops EXCEPT ![l] = Stopping(@)], UNCHANGED agentVars,
         mishaps \subseteq mishaps'
  PROVE  LInv'
<1>1. loops[l] \in LoopRecord
  BY DEF LInv, LoopsTyped
<1>2. Stopping(loops[l]) \in LoopRecord /\ Stopping(loops[l]).pc = "stopping"
  BY <1>1, RecordsTyped
<1> QED BY <1>2, WorkKeeps DEF Preparing

\* A response of the model.
LEMMA RespondKeeps ==
  ASSUME LInv, NEW l \in Loop, Respond(l)
  PROVE  LInv'
<1> DEFINE asked == [NoLoop EXCEPT !.pc = "asking"]
           called(n) == [NoLoop EXCEPT !.pc = "preparing", !.calls = n, !.next = 1]
<1>1. loops[l].pc \in Working /\ UNCHANGED agentVars /\ mishaps \subseteq mishaps'
  BY DEF Respond, Working
<1>2. CASE TurnEnd(l, asked)
  <2>1. asked \in LoopRecord
    BY RecordsTyped DEF Asking
  <2> QED BY <1>1, <1>2, <2>1, TurnEndKeeps
<1>3. ASSUME NEW n \in 1..MaxToolCalls, loops' = [loops EXCEPT ![l] = called(n)]
      PROVE  LInv'
  <2>1. 1 \in 0..MaxToolCalls /\ n \in 0..MaxToolCalls /\ 1 \in 1..n
    BY LoopConfig
  <2>2. /\ called(n) \in LoopRecord /\ called(n).pc = "preparing"
        /\ called(n).calls = n /\ called(n).next = 1
    BY <2>1, RecordsTyped DEF NoLoop, LoopRecord, Working
  <2> HIDE DEF called
  <2> QED BY <1>1, <1>3, <2>1, <2>2, WorkKeeps DEF Preparing, Working
<1> QED BY <1>2, <1>3 DEF Respond

\* The record of a loop after the preparation of a call.
LEMMA PreparedTyped ==
  ASSUME LInv, NEW l \in Loop, NEW runs \in BOOLEAN, Prepare(l, runs),
         NEW lp, lp = PreparedCall(loops[l], runs)
  PROVE  /\ lp \in LoopRecord /\ lp.pc = "preparing" /\ lp.next \in 1..lp.calls
         /\ Skipped(lp) \in LoopRecord
<1> DEFINE old == loops[l]
<1>1. old \in LoopRecord /\ old.pc = "preparing" /\ old.next \in 1..old.calls
  BY DEF LInv, LoopsTyped, Prepare, Preparing
<1>2. /\ old.calls \in 0..MaxToolCalls /\ old.next \in 1..MaxToolCalls
      /\ old.prepared \in Seq(1..MaxToolCalls) /\ old.results \in Seq(1..MaxToolCalls)
  BY <1>1, LoopConfig DEF LoopRecord
<1>3. /\ Append(old.prepared, old.next) \in Seq(1..MaxToolCalls)
      /\ Append(old.results, old.next) \in Seq(1..MaxToolCalls)
  BY <1>2
<1>4. /\ lp \in LoopRecord /\ lp.pc = "preparing"
      /\ lp.calls = old.calls /\ lp.next = old.next
  BY <1>1, <1>3 DEF PreparedCall, LoopRecord
<1> HIDE DEF old
<1>5. Skipped(lp) \in LoopRecord
  <2> DEFINE rest == [i \in 1..(lp.calls - lp.next) |-> lp.next + i]
  <2>1. lp.calls - lp.next \in Nat /\ \A i \in 1..(lp.calls - lp.next) : rest[i] \in 1..MaxToolCalls
    BY <1>1, <1>2, <1>4, LoopConfig
  <2>2. rest \in [1..(lp.calls - lp.next) -> 1..MaxToolCalls]
    BY <2>1
  <2>3. rest \in Seq(1..MaxToolCalls)
    BY <2>1, <2>2, FunctionIsSeq
  <2> HIDE DEF rest
  <2>4. /\ lp.prepared \in Seq(1..MaxToolCalls) /\ lp.results \in Seq(1..MaxToolCalls)
    BY <1>4 DEF LoopRecord
  <2>5. lp.results \o lp.prepared \o rest \in Seq(1..MaxToolCalls)
    BY <2>3, <2>4
  <2> QED BY <1>4, <2>5 DEF Skipped, LoopRecord, rest
<1> QED BY <1>1, <1>4, <1>5

\* The preparation of a call.
LEMMA PrepareKeeps ==
  ASSUME LInv, NEW l \in Loop, NEW runs \in BOOLEAN, Prepare(l, runs)
  PROVE  LInv'
<1> DEFINE lp == PreparedCall(loops[l], runs)
<1>1. /\ loops[l].pc = "preparing"
      /\ UNCHANGED agentVars /\ mishaps \subseteq mishaps'
  BY DEF Prepare
<1>2. /\ lp \in LoopRecord /\ lp.pc = "preparing" /\ lp.next \in 1..lp.calls
      /\ Skipped(lp) \in LoopRecord
  BY PreparedTyped
<1> HIDE DEF lp
<1>3. CASE TurnEnd(l, Skipped(lp)) \/ TurnEnd(l, lp)
  BY <1>1, <1>2, <1>3, TurnEndKeeps DEF Working
<1>4. CASE lp.next < lp.calls /\ loops' = [loops EXCEPT ![l] = [lp EXCEPT !.next = @ + 1]]
  <2> DEFINE new == [lp EXCEPT !.next = @ + 1]
  <2>1. lp.next + 1 \in 1..lp.calls /\ lp.next + 1 \in 0..MaxToolCalls
    BY <1>2, <1>4, LoopConfig DEF LoopRecord
  <2>2. /\ new \in LoopRecord /\ new.pc = "preparing"
        /\ new.next = lp.next + 1 /\ new.calls = lp.calls
    BY <1>2, <2>1 DEF LoopRecord
  <2>3. loops' = [loops EXCEPT ![l] = new]
    BY <1>4
  <2> HIDE DEF new
  <2> QED BY <1>1, <2>1, <2>2, <2>3, WorkKeeps DEF Preparing, Working
<1>5. CASE loops' = [loops EXCEPT ![l] = [lp EXCEPT !.pc = "running"]]
  <2> DEFINE new == [lp EXCEPT !.pc = "running"]
  <2>1. new \in LoopRecord /\ new.pc = "running"
    BY <1>2 DEF LoopRecord, Working
  <2>2. loops' = [loops EXCEPT ![l] = new]
    BY <1>5
  <2> HIDE DEF new
  <2> QED BY <1>1, <2>1, <2>2, WorkKeeps DEF Preparing, Working
<1> QED BY <1>3, <1>4, <1>5 DEF Prepare, lp

\* The end of a tool call.
LEMMA ToolDoneKeeps ==
  ASSUME LInv, NEW l \in Loop, NEW c, ToolDone(l, c)
  PROVE  LInv'
<1> DEFINE new == [loops[l] EXCEPT !.done = @ \union {c}]
<1>1. /\ loops[l] \in LoopRecord /\ loops[l].pc = "running"
      /\ c \in ToSet(loops[l].prepared)
  BY DEF LInv, LoopsTyped, ToolDone, Executing
<1>2. loops[l].prepared \in Seq(1..MaxToolCalls)
  BY <1>1 DEF LoopRecord
<1>3. c \in 1..MaxToolCalls
  BY <1>1, <1>2, ElementsOfSeq, Zenon
<1>4. new \in LoopRecord /\ new.pc = "running"
  BY <1>1, <1>3 DEF LoopRecord
<1>5. loops' = [loops EXCEPT ![l] = new]
  BY DEF ToolDone
<1> HIDE DEF new
<1> QED BY <1>1, <1>4, <1>5, WorkKeeps DEF ToolDone, Preparing, Working

\* The record of a loop with its next result.
LEMMA FinalizedTyped ==
  ASSUME LInv, NEW l \in Loop, Finalize(l),
         NEW lp, lp = [loops[l] EXCEPT !.results = Append(@, NextResult(l))]
  PROVE  lp \in LoopRecord /\ lp.pc = "running"
<1> DEFINE c == NextResult(l)
<1>1. loops[l] \in LoopRecord /\ loops[l].pc = "running" /\ c \in loops[l].done
  BY DEF LInv, LoopsTyped, Finalize
<1>2. c \in 1..MaxToolCalls /\ loops[l].results \in Seq(1..MaxToolCalls)
  BY <1>1 DEF LoopRecord
<1> HIDE DEF c
<1>3. Append(loops[l].results, c) \in Seq(1..MaxToolCalls)
  BY <1>2
<1> QED BY <1>1, <1>3 DEF LoopRecord, c

\* The next result of a loop.
LEMMA FinalizeKeeps ==
  ASSUME LInv, NEW l \in Loop, Finalize(l)
  PROVE  LInv'
<1> DEFINE lp == [loops[l] EXCEPT !.results = Append(@, NextResult(l))]
<1>1. loops[l].pc = "running" /\ UNCHANGED agentVars /\ mishaps \subseteq mishaps'
  BY DEF Finalize
<1>2. lp \in LoopRecord /\ lp.pc = "running"
  BY FinalizedTyped
<1>3. TurnEnd(l, lp) \/ loops' = [loops EXCEPT ![l] = lp]
  BY DEF Finalize
<1> HIDE DEF lp
<1> QED BY <1>1, <1>2, <1>3, TurnEndKeeps, WorkKeeps DEF Preparing, Working

\* agent_end, and the finally block.
LEMMA EndsKeep ==
  ASSUME LInv, NEW l \in Loop, AgentEnd(l) \/ Finally(l)
  PROVE  LInv'
<1>1. CASE AgentEnd(l)
  <2>1. LoopsTyped'
    BY <1>1 DEF LInv, LoopsTyped, AgentEnd, LoopRecord, Preparing
  <2>2. \A k \in Loop : loops'[k].pc = IF k = l THEN "closing" ELSE loops[k].pc
    BY <1>1 DEF LInv, LoopsTyped, AgentEnd, LoopRecord
  <2>3. OnlyOne'
    BY <1>1, <2>2 DEF LInv, OnlyOne, AgentEnd, Working
  <2> QED BY <2>1, <2>3 DEF LInv
<1>2. CASE Finally(l)
  <2>1. [NoLoop EXCEPT !.pc = "over"] \in LoopRecord /\ [NoLoop EXCEPT !.pc = "over"].pc = "over"
    BY RecordsTyped DEF NoLoop, LoopRecord
  <2>2. LoopsTyped'
    BY <1>2, <2>1 DEF LInv, LoopsTyped, Finally, Preparing
  <2>3. loops[l].pc = "closing" /\ \A k \in Loop : loops'[k].pc = IF k = l THEN "over" ELSE loops[k].pc
    BY <1>2, <2>1 DEF LInv, LoopsTyped, Finally
  <2>4. OnlyOne'
    BY <1>2, <2>3 DEF LInv, OnlyOne, Finally, Working
  <2> QED BY <2>2, <2>4 DEF LInv
<1> QED BY <1>1, <1>2

\* A new loop: no other works, as the agent is not streaming.
LEMMA StartKeeps ==
  ASSUME LInv, NEW l \in Loop, NEW ms, Start(l, ms), ~isStreaming
  PROVE  LInv'
<1> DEFINE new == [NoLoop EXCEPT !.pc = "asking"]
<1>1. new \in LoopRecord /\ new.pc = "asking"
  BY RecordsTyped DEF Asking
<1>2. loops' = [loops EXCEPT ![l] = new]
  BY DEF Start
<1> HIDE DEF new
<1>3. LoopsTyped'
  BY <1>1, <1>2 DEF LInv, LoopsTyped, Preparing
<1>4. \A k \in Loop : loops'[k].pc = IF k = l THEN "asking" ELSE loops[k].pc
  BY <1>1, <1>2 DEF LInv, LoopsTyped
<1>5. OnlyOne'
  <2> SUFFICES ASSUME mishaps' \cap {"reentered", "reset"} = {} PROVE OnlyOne'
    BY DEF OnlyOne
  <2>1. /\ mishaps \cap {"reentered", "reset"} = {}
        /\ \A k \in Loop : loops[k].pc # "closing"
    BY DEF Start
  <2>2. \A k \in Loop : loops[k].pc \notin Working \union {"stopping", "closing"}
    BY <2>1 DEF LInv, OnlyOne
  <2>3. \A k \in Loop : loops[k].pc \in {"none", "over"}
    BY <2>2 DEF LInv, LoopsTyped, LoopRecord
  <2> QED BY <1>4, <2>3 DEF OnlyOne, Start, Working
<1> QED BY <1>3, <1>5 DEF LInv

\* A message reaches the loop that works, or starts one.
LEMMA DeliverKeeps ==
  ASSUME LInv, NEW m, Deliver(m)
  PROVE  LInv'
<1>1. CASE isStreaming
  BY <1>1 DEF Deliver, LInv, LoopsTyped, OnlyOne, agentVars
<1>2. CASE ~isStreaming
  BY <1>2, StartKeeps DEF Deliver
<1> QED BY <1>1, <1>2

\* What leaves the agent's fields alone and raises at most the signal of a loop.
LEMMA SignalKeeps ==
  ASSUME LInv, loops' \in {loops, Aborted}, UNCHANGED agentVars, mishaps \subseteq mishaps'
  PROVE  LInv'
<1>1. LoopsTyped' /\ \A k \in Loop : loops'[k].pc = loops[k].pc
  <2>1. CASE loops' = loops
    BY <2>1 DEF LInv, LoopsTyped, Preparing
  <2>2. CASE loops' = [loops EXCEPT ![abortController].aborted = TRUE]
    BY <2>2 DEF LInv, LoopsTyped, LoopRecord, Preparing
  <2> QED BY <2>1, <2>2 DEF Aborted
<1>2. OnlyOne'
  BY <1>1 DEF LInv, OnlyOne, agentVars
<1> QED BY <1>1, <1>2 DEF LInv

\* The return of abort() or of newSession(), which resets the agent.
LEMMA AbortReturnsKeeps ==
  ASSUME LInv, AbortReturns
  PROVE  LInv'
<1>1. CASE awaiting.reset
  <2>1. /\ loops' = loops /\ abortController' = abortController /\ runningPrompt' = runningPrompt
        /\ mishaps \subseteq mishaps' /\ (Active # {} => "reset" \in mishaps')
    BY <1>1 DEF AbortReturns
  <2>2. OnlyOne'
    BY <2>1 DEF LInv, OnlyOne, Active
  <2> QED BY <2>1, <2>2 DEF LInv, LoopsTyped
<1>2. CASE ~awaiting.reset
  BY <1>2, SignalKeeps DEF AbortReturns, agentVars
<1> QED BY <1>1, <1>2

\* The other ways to act on the agent from outside.
LEMMA OutsideKeeps ==
  ASSUME LInv, Outside
  PROVE  LInv'
<1>1. CASE React
  BY <1>1, DeliverKeeps DEF React
<1>2. CASE UserSends
  BY <1>2, DeliverKeeps, SignalKeeps DEF UserSends
<1>3. CASE Escape
  BY <1>3, SignalKeeps DEF Escape
<1>4. CASE AbortReturns
  BY <1>4, AbortReturnsKeeps
<1>5. CASE Continue
  BY <1>5, StartKeeps DEF Continue
<1>6. ASSUME NEW reset \in BOOLEAN, AbortAndWait(reset) PROVE LInv'
  BY <1>6, SignalKeeps DEF AbortAndWait
<1> QED BY <1>1, <1>2, <1>3, <1>4, <1>5, <1>6 DEF Outside

\* Every step of a loop.
LEMMA LoopStepKeeps ==
  ASSUME LInv, NEW l \in Loop, LoopStep(l)
  PROVE  LInv'
<1>1. CASE RespondFails(l)
  <2>1. loops[l].pc \in Working /\ mishaps \subseteq mishaps'
    BY <1>1 DEF RespondFails, Working
  <2> QED BY <1>1, <2>1, StopKeeps DEF RespondFails
<1>2. CASE FinalizeThrows(l)
  <2>1. loops[l].pc \in Working /\ mishaps \subseteq mishaps'
    BY <1>2 DEF FinalizeThrows, Working
  <2> QED BY <1>2, <2>1, StopKeeps DEF FinalizeThrows
<1> QED BY <1>1, <1>2, RespondKeeps, PrepareKeeps, FinalizeKeeps, EndsKeep DEF LoopStep

\* The calls of await_job under way are those of a loop.
Watches == \A w \in watching : w.loop \in Loop

\* This holds at the start and is kept.
LEMMA WatchesKept == (Init => Watches) /\ (Watches /\ [Next]_vars => Watches')
<1>1. Init => Watches
  BY DEF Init, Watches
<1>2. ASSUME Watches, [Next]_vars PROVE Watches'
  <2>1. CASE UNCHANGED ownVars
    BY <1>2, <2>1 DEF Watches, ownVars
  <2>2. ASSUME NEW l \in Loop, ToolStep(l) PROVE Watches'
    BY <1>2, <2>1, <2>2 DEF ToolStep, PlainTool, AsyncBash, CancelJob, AwaitJobs, Watches
  <2>3. ASSUME NEW w \in watching, AwaitEnds(w) PROVE Watches'
    BY <1>2, <2>3 DEF AwaitEnds, Watches
  <2>4. ASSUME NEW j \in Job, JobEnds(j) PROVE Watches'
    BY <1>2, <2>4 DEF JobEnds, Watches
  <2> QED BY <1>2, <2>1, <2>2, <2>3, <2>4 DEF Next, AgentStep, Reload, JobEvicted, vars
<1> QED BY <1>1, <1>2

\* Every step of the agent, of its tools and of the jobs.
LEMMA LInvNext == LInv /\ Watches /\ [Next]_vars => LInv'
<1> SUFFICES ASSUME LInv, Watches, [Next]_vars PROVE LInv'
  OBVIOUS
<1>1. CASE UNCHANGED loopVars
  BY <1>1, SignalKeeps DEF loopVars
<1>2. CASE AgentStep
  BY <1>2, LoopStepKeeps, OutsideKeeps DEF AgentStep
<1>3. ASSUME NEW l \in Loop, NEW c, ToolDone(l, c) PROVE LInv'
  BY <1>3, ToolDoneKeeps
<1>4. ASSUME NEW l \in Loop, ToolStep(l) PROVE LInv'
  BY <1>1, <1>3, <1>4 DEF ToolStep, PlainTool, AsyncBash, CancelJob, AwaitJobs
<1>5. ASSUME NEW w \in watching, AwaitEnds(w) PROVE LInv'
  <2>1. CASE w.call \in Executing(w.loop)
    <3>1. w.loop \in Loop
      BY DEF Watches
    <3> QED BY <1>3, <1>5, <2>1, <3>1 DEF AwaitEnds
  <2>2. CASE w.call \notin Executing(w.loop)
    BY <1>1, <1>5, <2>2 DEF AwaitEnds
  <2> QED BY <2>1, <2>2
<1>6. ASSUME NEW j \in Job, JobEnds(j) PROVE LInv'
  BY <1>1, <1>6, DeliverKeeps DEF JobEnds
<1>7. CASE Reload \/ \E j \in Job : JobEvicted(j)
  BY <1>1, <1>7 DEF Reload, JobEvicted
<1>8. CASE UNCHANGED vars
  BY <1>1, <1>8 DEF vars
<1> QED BY <1>2, <1>4, <1>5, <1>6, <1>7, <1>8 DEF Next

\* At the start there is no loop.
LEMMA LInvInit == Init => LInv
<1> SUFFICES ASSUME Init PROVE LInv
  OBVIOUS
<1>1. \A l \in Loop : loops[l] = NoLoop /\ loops[l].pc = "none"
  BY DEF Init, LoopInit, NoLoop
<1>2. LoopsTyped
  BY <1>1, RecordsTyped DEF Init, LoopInit, LoopsTyped, Preparing
<1>3. OnlyOne
  BY <1>1 DEF OnlyOne, Working
<1> QED BY <1>2, <1>3 DEF LInv

\* The invariant contains the property.
LEMMA LInvOneLoop == LInv => OneLoop
BY DEF LInv, LoopsTyped, OnlyOne, OneLoop, Active, LoopRecord, Working

\* There is one loop at a time, it is the one that isStreaming, abort() and waitForIdle()
\* are about, and it stays so for any number of prompts, messages, tool calls, aborts and
\* jobs - unless a handler prompts while a finally block is due, or a new session resets
\* the agent under a loop that a handler has started.
THEOREM LoopsDoNotOverlap == Spec => []OneLoop
<1>1. LInv /\ Watches /\ [Next]_vars => LInv' /\ Watches'
  BY LInvNext, WatchesKept
<1>2. Init => LInv /\ Watches
  BY LInvInit, WatchesKept
<1> QED BY <1>1, <1>2, LInvOneLoop, PTL DEF Spec

------------------------------------------------------------------------------
(* Every message is in one place.                                          *)

AnyMessage == ({"user", "extension"} \X Nat) \union ({"outsider"} \X Job)

\* The messages of a set are split, without repetition, into those that were read, those
\* that were discarded, and the two queues.
Split(all, read, gone, steering, followUp) ==
  /\ steering \in Seq(AnyMessage) /\ IsInjective(steering)
  /\ followUp \in Seq(AnyMessage) /\ IsInjective(followUp)
  /\ all = read \union gone \union ToSet(steering) \union ToSet(followUp)
  /\ read \cap gone = {} /\ read \cap ToSet(steering) = {} /\ read \cap ToSet(followUp) = {}
  /\ gone \cap ToSet(steering) = {} /\ gone \cap ToSet(followUp) = {}
  /\ ToSet(steering) \cap ToSet(followUp) = {}

\* A result is handed over once: when the shell of the job closes.
MInv ==
  /\ sends \in Nat /\ reactions \in Nat /\ told \subseteq Job
  /\ \A j \in told : status[j] # "new" /\ j \notin alive
  /\ Split(Sent, messages, discarded, steeringQueue, followUpQueue)

\* What is taken from a queue and what is left are the queue.
LEMMA TakenAndLeft ==
  ASSUME NEW q \in Seq(AnyMessage), IsInjective(q)
  PROVE  /\ Left(q) \in Seq(AnyMessage) /\ IsInjective(Left(q))
         /\ ToSet(q) = ToSet(Taken(q)) \union ToSet(Left(q))
         /\ ToSet(Taken(q)) \cap ToSet(Left(q)) = {}
<1>1. CASE OneAtATime /\ q # <<>>
  <2>1. /\ Taken(q) = <<Head(q)>> /\ Left(q) = Tail(q) /\ Tail(q) \in Seq(AnyMessage)
        /\ Len(q) \in Nat \ {0} /\ Len(Tail(q)) = Len(q) - 1 /\ Head(q) = q[1]
        /\ \A i \in 1..(Len(q) - 1) : Tail(q)[i] = q[i + 1]
    BY <1>1 DEF Taken, Left
  <2>2. ToSet(Taken(q)) = {q[1]}
    BY <2>1 DEF ToSet
  <2>3. ToSet(Tail(q)) = {q[i] : i \in 2..Len(q)}
    <3>1. \A i \in 1..(Len(q) - 1) : i + 1 \in 2..Len(q)
      BY <2>1
    <3>2. \A k \in 2..Len(q) : k - 1 \in 1..(Len(q) - 1) /\ Tail(q)[k - 1] = q[k]
      BY <2>1
    <3>3. DOMAIN Tail(q) = 1..(Len(q) - 1)
      BY <2>1
    <3>4. ToSet(Tail(q)) = {Tail(q)[i] : i \in 1..(Len(q) - 1)}
      BY <3>3 DEF ToSet
    <3>5. ASSUME NEW x \in ToSet(Tail(q)) PROVE x \in {q[i] : i \in 2..Len(q)}
      <4>1. PICK i \in 1..(Len(q) - 1) : x = Tail(q)[i]
        BY <3>4
      <4> QED BY <2>1, <3>1, <4>1
    <3>6. ASSUME NEW x \in {q[i] : i \in 2..Len(q)} PROVE x \in ToSet(Tail(q))
      <4>1. PICK k \in 2..Len(q) : x = q[k]
        OBVIOUS
      <4> QED BY <3>2, <3>4, <4>1
    <3> QED BY <3>5, <3>6
  <2>4. ToSet(q) = {q[i] : i \in 1..Len(q)}
    BY DEF ToSet
  <2>5. 1..Len(q) = {1} \union 2..Len(q) /\ 1 \notin 2..Len(q) /\ DOMAIN q = 1..Len(q)
    BY <2>1
  <2>6. IsInjective(Tail(q))
    BY <2>1, <2>5 DEF IsInjective
  <2>7. q[1] \notin ToSet(Tail(q))
    BY <2>3, <2>5 DEF IsInjective
  <2> QED BY <2>1, <2>2, <2>3, <2>4, <2>5, <2>6, <2>7
<1>2. CASE ~(OneAtATime /\ q # <<>>)
  <2>1. Taken(q) = q /\ Left(q) = <<>>
    BY <1>2 DEF Taken, Left
  <2> QED BY <2>1 DEF ToSet, IsInjective
<1> QED BY <1>1, <1>2

\* A message at the end of a queue.
LEMMA Queued ==
  ASSUME NEW q \in Seq(AnyMessage), IsInjective(q), NEW m \in AnyMessage, m \notin ToSet(q)
  PROVE  /\ Append(q, m) \in Seq(AnyMessage) /\ IsInjective(Append(q, m))
         /\ ToSet(Append(q, m)) = ToSet(q) \union {m}
<1>1. /\ Append(q, m) \in Seq(AnyMessage) /\ Len(q) \in Nat
      /\ DOMAIN Append(q, m) = 1..(Len(q) + 1) /\ DOMAIN q = 1..Len(q)
      /\ \A i \in 1..Len(q) : Append(q, m)[i] = q[i]
      /\ Append(q, m)[Len(q) + 1] = m
  OBVIOUS
<1>2. 1..(Len(q) + 1) = 1..Len(q) \union {Len(q) + 1}
  BY <1>1
<1>3. \A i \in 1..Len(q) : q[i] # m
  BY <1>1 DEF ToSet
<1>4. IsInjective(Append(q, m))
  BY <1>1, <1>2, <1>3 DEF IsInjective
<1>5. ToSet(Append(q, m)) = ToSet(q) \union {m}
  BY <1>1, <1>2 DEF ToSet
<1> QED BY <1>1, <1>4, <1>5

\* The queues may change places.
LEMMA SplitSym ==
  ASSUME NEW all, NEW read, NEW gone, NEW s, NEW f, Split(all, read, gone, s, f)
  PROVE  Split(all, read, gone, f, s)
BY DEF Split

\* A poll of a queue.
LEMMA SplitPolled ==
  ASSUME NEW all, NEW read, NEW gone, NEW s, NEW f, Split(all, read, gone, s, f)
  PROVE  Split(all, read \union ToSet(Taken(s)), gone, Left(s), f)
<1>1. /\ Left(s) \in Seq(AnyMessage) /\ IsInjective(Left(s))
      /\ ToSet(s) = ToSet(Taken(s)) \union ToSet(Left(s))
      /\ ToSet(Taken(s)) \cap ToSet(Left(s)) = {}
  BY TakenAndLeft DEF Split
<1> QED BY <1>1 DEF Split

\* The queues are emptied.
LEMMA SplitDiscarded ==
  ASSUME NEW all, NEW read, NEW gone, NEW s, NEW f, Split(all, read, gone, s, f)
  PROVE  Split(all, read, gone \union ToSet(s) \union ToSet(f), <<>>, <<>>)
<1>1. <<>> \in Seq(AnyMessage) /\ IsInjective(<<>>) /\ ToSet(<<>>) = {}
  BY DEF IsInjective, ToSet
<1> QED BY <1>1 DEF Split

\* A new message is read at once, or goes to the end of a queue.
LEMMA SplitSent ==
  ASSUME NEW all, NEW read, NEW gone, NEW s, NEW f, Split(all, read, gone, s, f),
         NEW m \in AnyMessage, m \notin all
  PROVE  /\ Split(all \union {m}, read \union {m}, gone, s, f)
         /\ Split(all \union {m}, read, gone, Append(s, m), f)
<1>1. m \notin read \union gone \union ToSet(s) \union ToSet(f)
  BY DEF Split
<1>2. Split(all \union {m}, read \union {m}, gone, s, f)
  BY <1>1 DEF Split
<1>3. /\ Append(s, m) \in Seq(AnyMessage) /\ IsInjective(Append(s, m))
      /\ ToSet(Append(s, m)) = ToSet(s) \union {m}
  BY <1>1, Queued DEF Split
<1>4. Split(all \union {m}, read, gone, Append(s, m), f)
  BY <1>1, <1>3 DEF Split
<1> QED BY <1>2, <1>4

\* A message that starts a loop, with a poll of the steering queue.
LEMMA SplitStart ==
  ASSUME MInv, NEW l \in Loop, NEW m \in AnyMessage, m \notin Sent, Start(l, {m}),
         UNCHANGED <<discarded, followUpQueue>>
  PROVE  Split(Sent \union {m}, messages', discarded', steeringQueue', followUpQueue')
<1>1. Split(Sent \union {m}, messages \union {m}, discarded, steeringQueue, followUpQueue)
  BY SplitSent DEF MInv
<1>2. Split(Sent \union {m}, (messages \union {m}) \union ToSet(Taken(steeringQueue)), discarded,
            Left(steeringQueue), followUpQueue)
  BY <1>1, SplitPolled
<1> QED BY <1>2 DEF Start

\* A message that is delivered.
LEMMA SplitDelivered ==
  ASSUME MInv, NEW m \in AnyMessage, m \notin Sent, Deliver(m), UNCHANGED discarded
  PROVE  Split(Sent \union {m}, messages', discarded', steeringQueue', followUpQueue')
<1>1. CASE isStreaming
  <2>1. Split(Sent, messages, discarded, followUpQueue, steeringQueue)
    BY SplitSym DEF MInv
  <2>2. Split(Sent \union {m}, messages, discarded, Append(followUpQueue, m), steeringQueue)
    BY <2>1, SplitSent
  <2>3. Split(Sent \union {m}, messages, discarded, steeringQueue, Append(followUpQueue, m))
    BY <2>2, SplitSym
  <2> QED BY <1>1, <2>3 DEF Deliver
<1>2. CASE ~isStreaming
  BY <1>2, SplitStart DEF Deliver
<1> QED BY <1>1, <1>2

\* The end of a turn polls one queue or none.
LEMMA SplitTurnEnd ==
  ASSUME MInv, NEW l \in Loop, NEW lp, TurnEnd(l, lp), UNCHANGED discarded
  PROVE  Split(Sent, messages', discarded', steeringQueue', followUpQueue')
<1>1. Split(Sent, messages, discarded, steeringQueue, followUpQueue)
  BY DEF MInv
<1>2. Split(Sent, messages \union ToSet(Taken(steeringQueue)), discarded,
            Left(steeringQueue), followUpQueue)
  BY <1>1, SplitPolled
<1>3. Split(Sent, messages \union ToSet(Taken(followUpQueue)), discarded,
            steeringQueue, Left(followUpQueue))
  BY <1>1, SplitPolled, SplitSym
<1> QED BY <1>1, <1>2, <1>3 DEF TurnEnd

\* What the sending of a message adds to those that were sent.
LEMMA SentGrows ==
  ASSUME MInv
  PROVE  /\ <<"user", sends + 1>> \in AnyMessage \ Sent
         /\ <<"extension", reactions + 1>> \in AnyMessage \ Sent
         /\ \A j \in Job \ told : <<"outsider", j>> \in AnyMessage \ Sent
         /\ UNCHANGED <<reactions, told>> /\ sends' = sends + 1
              => Sent' = Sent \union {<<"user", sends + 1>>}
         /\ UNCHANGED <<sends, told>> /\ reactions' = reactions + 1
              => Sent' = Sent \union {<<"extension", reactions + 1>>}
         /\ \A j : UNCHANGED <<sends, reactions>> /\ told' = told \union {j}
              => Sent' = Sent \union {<<"outsider", j>>}
         /\ UNCHANGED <<sends, reactions, told>> => Sent' = Sent
<1>1. /\ sends \in Nat /\ reactions \in Nat /\ told \subseteq Job
      /\ 1..(sends + 1) = 1..sends \union {sends + 1} /\ sends + 1 \notin 1..sends
      /\ 1..(reactions + 1) = 1..reactions \union {reactions + 1}
      /\ reactions + 1 \notin 1..reactions
      /\ sends + 1 \in Nat /\ reactions + 1 \in Nat
  BY DEF MInv
<1> QED BY <1>1 DEF Sent, AnyMessage

\* The loop and the world outside leave the jobs alone.
LEMMA AgentStepMessages ==
  ASSUME MInv, AgentStep
  PROVE  MInv'
<1> USE DEF queueVars, countVars
<1>1. UNCHANGED <<status, alive, told>>
  BY DEF AgentStep, jobVars, ownVars
<1>2. SUFFICES /\ sends' \in Nat /\ reactions' \in Nat
               /\ Split(Sent', messages', discarded', steeringQueue', followUpQueue')
  BY <1>1 DEF MInv
<1>3. ASSUME NEW l \in Loop, LoopStep(l)
      PROVE  /\ UNCHANGED <<sends, reactions, discarded>>
             /\ \/ UNCHANGED <<messages, steeringQueue, followUpQueue>>
                \/ \E lp : TurnEnd(l, lp)
  BY <1>3, Zenon DEF LoopStep, Respond, RespondFails, Prepare, Finalize, FinalizeThrows, AgentEnd,
                     Finally
<1>4. ASSUME NEW l \in Loop, LoopStep(l)
      PROVE  /\ sends' \in Nat /\ reactions' \in Nat
             /\ Split(Sent', messages', discarded', steeringQueue', followUpQueue')
  BY <1>1, <1>3, <1>4, SentGrows, SplitTurnEnd DEF MInv
<1>5. CASE React
  <2>1. /\ sends' \in Nat /\ reactions' \in Nat
        /\ Sent' = Sent \union {<<"extension", reactions + 1>>}
    BY <1>1, <1>5, SentGrows DEF React, MInv
  <2> QED BY <1>5, <2>1, SentGrows, SplitDelivered DEF React
<1>6. CASE UserSends
  <2>1. /\ sends' \in Nat /\ reactions' \in Nat
        /\ Sent' = Sent \union {<<"user", sends + 1>>}
    BY <1>1, <1>6, SentGrows DEF UserSends, MInv
  <2>2. CASE Deliver(<<"user", sends + 1>>)
    BY <1>6, <2>1, <2>2, SentGrows, SplitDelivered DEF UserSends
  <2>3. CASE steeringQueue' = Append(steeringQueue, <<"user", sends + 1>>)
             /\ UNCHANGED <<followUpQueue, messages>>
    <3>1. Split(Sent \union {<<"user", sends + 1>>}, messages, discarded,
                Append(steeringQueue, <<"user", sends + 1>>), followUpQueue)
      BY SentGrows, SplitSent DEF MInv
    <3> QED BY <1>6, <2>1, <2>3, <3>1 DEF UserSends
  <2> QED BY <1>6, <2>2, <2>3 DEF UserSends
<1>7. CASE Escape \/ AbortReturns
  <2>1. /\ UNCHANGED <<sends, reactions, messages>>
        /\ \/ UNCHANGED <<discarded, steeringQueue, followUpQueue>>
           \/ /\ discarded' = discarded \union ToSet(steeringQueue) \union ToSet(followUpQueue)
              /\ steeringQueue' = <<>> /\ followUpQueue' = <<>>
    BY <1>7 DEF Escape, AbortReturns
  <2>2. Split(Sent, messages, discarded \union ToSet(steeringQueue) \union ToSet(followUpQueue),
              <<>>, <<>>)
    BY SplitDiscarded DEF MInv
  <2> QED BY <1>1, <2>1, <2>2, SentGrows DEF MInv
<1>8. CASE Continue
  <2>1. UNCHANGED <<sends, reactions, discarded>>
    BY <1>8 DEF Continue
  <2>2. PICK l \in Loop :
          IF steeringQueue # <<>>
            THEN Start(l, {}) /\ UNCHANGED followUpQueue
            ELSE /\ followUpQueue' = Left(followUpQueue)
                 /\ Start(l, ToSet(Taken(followUpQueue)))
    BY <1>8 DEF Continue
  <2>3. Split(Sent, messages \union ToSet(Taken(steeringQueue)), discarded,
              Left(steeringQueue), followUpQueue)
    BY SplitPolled DEF MInv
  <2>4. CASE steeringQueue # <<>>
    BY <1>1, <2>1, <2>2, <2>3, <2>4, SentGrows DEF MInv, Start
  <2>5. CASE steeringQueue = <<>>
    <3>1. Split(Sent, messages \union ToSet(Taken(followUpQueue)), discarded,
                steeringQueue, Left(followUpQueue))
      BY SplitPolled, SplitSym DEF MInv
    <3>2. Split(Sent, (messages \union ToSet(Taken(followUpQueue)))
                        \union ToSet(Taken(steeringQueue)),
                discarded, Left(steeringQueue), Left(followUpQueue))
      BY <3>1, SplitPolled
    <3> QED BY <1>1, <2>1, <2>2, <2>5, <3>2, SentGrows DEF MInv, Start
  <2> QED BY <2>4, <2>5
<1>9. ASSUME NEW reset \in BOOLEAN, AbortAndWait(reset)
      PROVE  /\ sends' \in Nat /\ reactions' \in Nat
             /\ Split(Sent', messages', discarded', steeringQueue', followUpQueue')
  BY <1>1, <1>9, SentGrows DEF AbortAndWait, MInv
<1> QED BY <1>4, <1>5, <1>6, <1>7, <1>8, <1>9 DEF AgentStep, Outside

\* A step that hands no result over and sends nothing.
LEMMA QuietStepMessages ==
  ASSUME MInv, UNCHANGED <<sends, reactions, told, messages, discarded>>,
         UNCHANGED <<steeringQueue, followUpQueue>>,
         \A j \in told : status'[j] # "new" /\ j \notin alive'
  PROVE  MInv'
BY SentGrows DEF MInv

\* The steps of the tools and the manager: a job whose result was handed over is not
\* registered again, and its shell does not close again.
LEMMA JobStepMessages ==
  ASSUME JInv, MInv, [Next]_vars, ~AgentStep
  PROVE  MInv'
<1> USE DEF queueVars, countVars, loopVars, jobVars, ownVars
<1>1. CASE UNCHANGED vars
  BY <1>1, QuietStepMessages DEF vars, MInv
<1>2. ASSUME NEW l, NEW c, ToolDone(l, c)
      PROVE  /\ UNCHANGED <<sends, reactions, messages, discarded>>
             /\ UNCHANGED <<steeringQueue, followUpQueue>>
  BY <1>2 DEF ToolDone
<1>3. ASSUME NEW l \in Loop, ToolStep(l) PROVE MInv'
  <2> PICK c \in Executing(l) :
        \/ PlainTool(l, c)
        \/ \E j \in Job : AsyncBash(l, c, j) \/ CancelJob(l, c, j)
        \/ \E js \in SUBSET Running : AwaitJobs(l, c, js)
    BY <1>3 DEF ToolStep
  <2>1. CASE PlainTool(l, c)
    BY <1>2, <2>1, QuietStepMessages DEF PlainTool, MInv
  <2>2. ASSUME NEW j \in Job, AsyncBash(l, c, j) PROVE MInv'
    <3>1. \A i \in told : status'[i] # "new" /\ i \notin alive'
      BY <2>2 DEF AsyncBash, Register, MInv, JInv, JobsTypeOK
    <3> QED BY <1>2, <2>2, <3>1, QuietStepMessages DEF AsyncBash
  <2>3. ASSUME NEW j \in Job, CancelJob(l, c, j) PROVE MInv'
    <3>1. \A i \in told : status'[i] # "new" /\ i \notin alive'
      BY <2>3 DEF CancelJob, Cancel, MInv, JInv, JobsTypeOK
    <3> QED BY <1>2, <2>3, <3>1, QuietStepMessages DEF CancelJob
  <2>4. ASSUME NEW js \in SUBSET Running, AwaitJobs(l, c, js) PROVE MInv'
    BY <2>4, QuietStepMessages DEF AwaitJobs, MInv
  <2> QED BY <2>1, <2>2, <2>3, <2>4
<1>4. ASSUME NEW w \in watching, AwaitEnds(w) PROVE MInv'
  BY <1>2, <1>4, QuietStepMessages DEF AwaitEnds, MInv
<1>5. ASSUME NEW j \in Job, JobEnds(j) PROVE MInv'
  <2>1. /\ j \notin told /\ alive' = alive \ {j} /\ status'[j] # "new"
        /\ \A i \in told : status'[i] = status[i]
    BY <1>5 DEF JobEnds, Close, SpawnFails, MInv, JInv, JobsTypeOK
  <2>2. CASE Reports(j)
    <3>1. /\ Deliver(<<"outsider", j>>) /\ told' = told \union {j}
          /\ UNCHANGED <<discarded, sends, reactions>>
      BY <1>5, <2>2 DEF JobEnds
    <3>2. Split(Sent', messages', discarded', steeringQueue', followUpQueue')
      BY <2>1, <3>1, SentGrows, SplitDelivered
    <3>3. \A i \in told' : status'[i] # "new" /\ i \notin alive'
      BY <2>1, <3>1 DEF MInv
    <3> QED BY <3>1, <3>2, <3>3 DEF MInv
  <2>3. CASE ~Reports(j)
    <3>1. \A i \in told : status'[i] # "new" /\ i \notin alive'
      BY <2>1 DEF MInv
    <3> QED BY <1>5, <2>3, <3>1, QuietStepMessages DEF JobEnds
  <2> QED BY <2>2, <2>3
<1>6. ASSUME NEW j \in Job, JobEvicted(j) PROVE MInv'
  BY <1>6, QuietStepMessages DEF JobEvicted, Evict, MInv
<1>7. CASE Reload
  <2>1. \A i \in told : status'[i] # "new" /\ i \notin alive'
    BY <1>7 DEF Reload, Shutdown, MInv, JInv, JobsTypeOK
  <2> QED BY <1>7, <2>1, QuietStepMessages DEF Reload
<1> QED BY <1>1, <1>3, <1>4, <1>5, <1>6, <1>7 DEF Next

\* At the start nothing was sent.
LEMMA MInvInit == Init => MInv
<1> SUFFICES ASSUME Init PROVE MInv
  OBVIOUS
<1>1. /\ sends = 0 /\ reactions = 0 /\ told = {} /\ messages = {} /\ discarded = {}
      /\ steeringQueue = <<>> /\ followUpQueue = <<>>
  BY DEF Init, LoopInit
<1>2. Sent = {}
  BY <1>1 DEF Sent
<1>3. <<>> \in Seq(AnyMessage) /\ IsInjective(<<>>) /\ ToSet(<<>>) = {}
  BY DEF IsInjective, ToSet
<1> QED BY <1>1, <1>2, <1>3 DEF MInv, Split

\* A queue without repetitions is as long as it has members.
LEMMA QueueSize ==
  ASSUME NEW q \in Seq(AnyMessage), IsInjective(q)
  PROVE  IsFiniteSet(ToSet(q)) /\ Cardinality(ToSet(q)) = Len(q)
<1>1. Len(q) \in Nat /\ DOMAIN q = 1..Len(q) /\ q \in [1..Len(q) -> ToSet(q)]
  BY DEF ToSet
<1>2. IsFiniteSet(1..Len(q)) /\ Cardinality(1..Len(q)) = Len(q)
  BY <1>1, FS_Interval
<1>3. q \in Injection(1..Len(q), ToSet(q)) /\ q \in Surjection(1..Len(q), ToSet(q))
  BY <1>1 DEF Injection, Surjection, IsInjective, ToSet
<1> QED BY <1>2, <1>3, FS_Surjection

\* The messages that were sent are finitely many.
LEMMA SentFinite ==
  ASSUME MInv
  PROVE  IsFiniteSet(Sent)
<1>1. IsFiniteSet(1..sends) /\ IsFiniteSet(1..reactions)
  BY FS_Interval DEF MInv
<1>2. IsFiniteSet(told)
  BY JobSetsFinite DEF MInv
<1>3. \A x : IsFiniteSet({x})
  BY FS_Singleton
<1>4. /\ IsFiniteSet({"user"} \X (1..sends)) /\ IsFiniteSet({"extension"} \X (1..reactions))
      /\ IsFiniteSet({"outsider"} \X told)
  BY <1>1, <1>2, <1>3, FS_Product
<1> QED BY <1>4, FS_Union DEF Sent

\* The size of two sets that have no member in common.
LEMMA DisjointUnion ==
  ASSUME NEW S, NEW T, IsFiniteSet(S), IsFiniteSet(T), S \cap T = {}
  PROVE  /\ IsFiniteSet(S \union T)
         /\ Cardinality(S \union T) = Cardinality(S) + Cardinality(T)
<1>1. Cardinality(S) \in Nat /\ Cardinality(T) \in Nat /\ Cardinality(S \cap T) = 0
  BY FS_CardinalityType, FS_EmptySet
<1>2. /\ IsFiniteSet(S \union T)
      /\ Cardinality(S \union T) = Cardinality(S) + Cardinality(T) - Cardinality(S \cap T)
  BY FS_Union
<1> QED BY <1>1, <1>2

\* The invariant contains the property.
LEMMA MInvNothingLost == MInv => NothingLost
<1> SUFFICES ASSUME MInv PROVE NothingLost
  OBVIOUS
<1> DEFINE s == ToSet(steeringQueue)
           f == ToSet(followUpQueue)
<1>1. Split(Sent, messages, discarded, steeringQueue, followUpQueue)
  BY DEF MInv
<1>2. /\ IsFiniteSet(s) /\ Cardinality(s) = Len(steeringQueue)
      /\ IsFiniteSet(f) /\ Cardinality(f) = Len(followUpQueue)
  BY <1>1, QueueSize DEF Split
<1>3. /\ Sent = messages \union discarded \union s \union f
      /\ messages \cap discarded = {} /\ (messages \union discarded) \cap s = {}
      /\ (messages \union discarded \union s) \cap f = {}
  BY <1>1 DEF Split
<1> HIDE DEF s, f
<1>4. IsFiniteSet(messages) /\ IsFiniteSet(discarded)
  BY <1>3, SentFinite, FS_Subset
<1>5. /\ IsFiniteSet(messages \union discarded)
      /\ Cardinality(messages \union discarded) = Cardinality(messages) + Cardinality(discarded)
  BY <1>3, <1>4, DisjointUnion
<1>6. /\ IsFiniteSet(messages \union discarded \union s)
      /\ Cardinality(messages \union discarded \union s)
           = Cardinality(messages \union discarded) + Cardinality(s)
  BY <1>2, <1>3, <1>5, DisjointUnion
<1>7. Cardinality(messages \union discarded \union s \union f)
        = Cardinality(messages \union discarded \union s) + Cardinality(f)
  BY <1>2, <1>3, <1>6, DisjointUnion
<1> QED BY <1>2, <1>3, <1>5, <1>6, <1>7 DEF NothingLost, s, f

\* Every message of a user, an extension or a job is in exactly one place, however prompts,
\* polls, aborts, new sessions and the ends of jobs interleave: the agent has read it, it
\* waits in one of the two queues, or it was discarded with its queue.
THEOREM MessagesHaveOnePlace == Spec => []NothingLost
<1>1. JInv /\ MInv /\ [Next]_vars => JInv' /\ MInv'
  BY JInvNext, AgentStepMessages, JobStepMessages
<1>2. Init => JInv /\ MInv
  BY JInvInit, MInvInit
<1> QED BY <1>1, <1>2, MInvNothingLost, PTL DEF Spec

------------------------------------------------------------------------------
(* No message is forgotten in a queue.                                     *)

Attended ==
  \/ steeringQueue = <<>> /\ followUpQueue = <<>>
  \/ \E l \in Loop : loops[l].pc \in Working
  \/ mishaps \cap {"failed", "missed"} # {}

\* An agent that is streaming has a loop that has not consumed its agent_end.
NInv == Attended /\ (isStreaming => Active # {})

\* While a loop works nothing is forgotten.
LEMMA WorkingAttends ==
  ASSUME NEW l \in Loop, loops'[l].pc \in Working
  PROVE  NInv'
BY DEF NInv, Attended, Active

\* A step that starts and ends no loop, and adds to no queue.
LEMMA NInvCalm ==
  ASSUME NInv, \A l \in Loop : loops'[l].pc = loops[l].pc, mishaps \subseteq mishaps',
         isStreaming' => isStreaming,
         \/ UNCHANGED <<steeringQueue, followUpQueue>>
         \/ steeringQueue' = <<>> /\ followUpQueue' = <<>>
  PROVE  NInv'
BY DEF NInv, Attended, Active

\* A loop stops at the end of a turn only when both queues are empty.
LEMMA NInvTurnEnd ==
  ASSUME LInv, NInv, NEW l \in Loop, NEW lp \in LoopRecord, TurnEnd(l, lp)
  PROVE  NInv'
<1>1. CASE loops' = [loops EXCEPT ![l] = Asking(lp)]
  <2>1. loops'[l].pc \in Working
    BY <1>1, RecordsTyped DEF LInv, LoopsTyped, Working
  <2> QED BY <2>1, WorkingAttends
<1>2. CASE loops' = [loops EXCEPT ![l] = Stopping(lp)]
           /\ steeringQueue' = <<>> /\ followUpQueue' = <<>>
  <2>1. loops'[l].pc = "stopping"
    BY <1>2, RecordsTyped DEF LInv, LoopsTyped
  <2> QED BY <1>2, <2>1 DEF NInv, Attended, Active
<1> QED BY <1>1, <1>2 DEF TurnEnd

\* The steps of a loop.
LEMMA NInvLoopStep ==
  ASSUME LInv, NInv, NEW l \in Loop, LoopStep(l)
  PROVE  NInv'
<1>1. DOMAIN loops = Loop /\ loops[l] \in LoopRecord
  BY DEF LInv, LoopsTyped
<1>2. ASSUME NEW lp \in LoopRecord, lp.pc \in Working, loops' = [loops EXCEPT ![l] = lp]
      PROVE  NInv'
  BY <1>1, <1>2, WorkingAttends
<1>3. ASSUME loops' = [loops EXCEPT ![l] = Stopping(@)], "failed" \in mishaps'
      PROVE  NInv'
  <2>1. loops'[l].pc = "stopping"
    BY <1>1, <1>3, RecordsTyped
  <2> QED BY <1>3, <2>1 DEF NInv, Attended, Active
<1>4. CASE Respond(l)
  <2>1. [NoLoop EXCEPT !.pc = "asking"] \in LoopRecord
    BY RecordsTyped DEF Asking
  <2>2. ASSUME NEW n,
               loops' = [loops EXCEPT ![l] = [NoLoop EXCEPT !.pc = "preparing", !.calls = n, !.next = 1]]
        PROVE  NInv'
    <3>1. loops'[l].pc = "preparing"
      BY <1>1, <2>2 DEF NoLoop
    <3> QED BY <3>1, WorkingAttends DEF Working
  <2> QED BY <1>4, <2>1, <2>2, NInvTurnEnd DEF Respond
<1>5. CASE RespondFails(l) \/ FinalizeThrows(l)
  BY <1>3, <1>5 DEF RespondFails, FinalizeThrows
<1>6. ASSUME NEW runs \in BOOLEAN, Prepare(l, runs) PROVE NInv'
  <2> DEFINE lp == PreparedCall(loops[l], runs)
  <2>1. /\ lp \in LoopRecord /\ lp.pc = "preparing" /\ lp.next \in 1..lp.calls
        /\ Skipped(lp) \in LoopRecord
    BY <1>6, PreparedTyped
  <2> HIDE DEF lp
  <2>2. CASE TurnEnd(l, Skipped(lp)) \/ TurnEnd(l, lp)
    BY <2>1, <2>2, NInvTurnEnd
  <2>3. ASSUME NEW new \in {[lp EXCEPT !.next = @ + 1], [lp EXCEPT !.pc = "running"]},
               loops' = [loops EXCEPT ![l] = new]
        PROVE  NInv'
    <3>1. new.pc \in Working
      BY <2>1 DEF LoopRecord, Working
    <3>2. loops'[l].pc \in Working
      BY <1>1, <2>3, <3>1
    <3> QED BY <3>2, WorkingAttends
  <2> QED BY <1>6, <2>2, <2>3 DEF Prepare, lp
<1>7. CASE Finalize(l)
  <2> DEFINE lp == [loops[l] EXCEPT !.results = Append(@, NextResult(l))]
  <2>1. lp \in LoopRecord /\ lp.pc = "running"
    BY <1>7, FinalizedTyped
  <2>2. TurnEnd(l, lp) \/ loops' = [loops EXCEPT ![l] = lp]
    BY <1>7 DEF Finalize
  <2> HIDE DEF lp
  <2> QED BY <1>2, <2>1, <2>2, NInvTurnEnd DEF Working
<1>8. CASE AgentEnd(l)
  <2>1. \A k \in Loop : loops[k].pc \in Working => loops'[k].pc \in Working
    BY <1>1, <1>8 DEF AgentEnd, LInv, LoopsTyped, Working, LoopRecord
  <2> QED BY <1>8, <2>1 DEF NInv, Attended, AgentEnd, queueVars
<1>9. CASE Finally(l)
  <2>1. \A k \in Loop : loops[k].pc \in Working => loops'[k].pc \in Working
    BY <1>1, <1>9 DEF Finally, LInv, LoopsTyped, Working, LoopRecord
  <2> QED BY <1>9, <2>1 DEF NInv, Attended, Finally, queueVars
<1> QED BY <1>4, <1>5, <1>6, <1>7, <1>8, <1>9 DEF LoopStep

\* A new loop works.
LEMMA NInvStart ==
  ASSUME LInv, NEW l \in Loop, NEW ms, Start(l, ms)
  PROVE  NInv'
<1>1. loops'[l].pc = "asking"
  BY DEF Start, LInv, LoopsTyped, NoLoop
<1> QED BY <1>1, WorkingAttends DEF Working

\* A message is delivered to a loop that works, starts one, or was missed.
LEMMA NInvDeliver ==
  ASSUME LInv, NInv, NEW m, Deliver(m)
  PROVE  NInv'
<1>1. CASE isStreaming
  <2>1. UNCHANGED <<loops, isStreaming>>
    BY <1>1 DEF Deliver, agentVars
  <2>2. (\E l \in Loop : loops[l].pc \in Working) \/ "missed" \in mishaps'
    BY <1>1 DEF Deliver, Active
  <2> QED BY <2>1, <2>2 DEF NInv, Attended, Active
<1>2. CASE ~isStreaming
  BY <1>2, NInvStart DEF Deliver
<1> QED BY <1>1, <1>2

\* abort() raises the signal of a loop and ends none.
LEMMA AbortedSamePc ==
  ASSUME LInv
  PROVE  \A l \in Loop : Aborted[l].pc = loops[l].pc
BY DEF LInv, LoopsTyped, Aborted, LoopRecord

\* The acts of the world outside: a steering message is sent to a loop that works, as no
\* event is being worked off.
LEMMA NInvOutside ==
  ASSUME LInv, NInv, Outside
  PROVE  NInv'
<1> USE DEF agentVars, queueVars
<1>1. CASE React
  BY <1>1, NInvDeliver DEF React
<1>2. CASE UserSends
  <2>1. ASSUME Idle, isStreaming, UNCHANGED loops PROVE NInv'
    <3>1. PICK l \in Loop : loops[l].pc \in Working
      BY <2>1 DEF NInv, Active, Idle, Microtasks
    <3> QED BY <2>1, <3>1, WorkingAttends
  <2> QED BY <1>2, <2>1, NInvDeliver DEF UserSends
<1>3. CASE Escape
  BY <1>3, AbortedSamePc, NInvCalm DEF Escape
<1>4. CASE AbortReturns
  BY <1>4, NInvCalm DEF AbortReturns
<1>5. CASE Continue
  BY <1>5, NInvStart DEF Continue
<1>6. ASSUME NEW reset \in BOOLEAN, AbortAndWait(reset) PROVE NInv'
  BY <1>6, AbortedSamePc, NInvCalm DEF AbortAndWait
<1> QED BY <1>1, <1>2, <1>3, <1>4, <1>5, <1>6 DEF Outside

\* Every step keeps the invariant.
LEMMA NInvNext == LInv /\ NInv /\ Watches /\ [Next]_vars => NInv'
<1> SUFFICES ASSUME LInv, NInv, Watches, [Next]_vars PROVE NInv'
  OBVIOUS
<1>1. CASE UNCHANGED loopVars
  BY <1>1, NInvCalm DEF loopVars, agentVars, queueVars
<1>2. CASE AgentStep
  BY <1>2, NInvLoopStep, NInvOutside DEF AgentStep
<1>3. ASSUME NEW l \in Loop, NEW c, ToolDone(l, c) PROVE NInv'
  <2>1. \A k \in Loop : loops'[k].pc = loops[k].pc
    BY <1>3 DEF ToolDone, LInv, LoopsTyped, LoopRecord
  <2> QED BY <1>3, <2>1, NInvCalm DEF ToolDone, agentVars, queueVars
<1>4. ASSUME NEW l \in Loop, ToolStep(l) PROVE NInv'
  BY <1>1, <1>3, <1>4 DEF ToolStep, PlainTool, AsyncBash, CancelJob, AwaitJobs
<1>5. ASSUME NEW w \in watching, AwaitEnds(w) PROVE NInv'
  BY <1>1, <1>3, <1>5 DEF AwaitEnds, Watches
<1>6. ASSUME NEW j \in Job, JobEnds(j) PROVE NInv'
  BY <1>1, <1>6, NInvDeliver DEF JobEnds
<1>7. CASE Reload \/ \E j \in Job : JobEvicted(j)
  BY <1>1, <1>7 DEF Reload, JobEvicted
<1>8. CASE UNCHANGED vars
  BY <1>1, <1>8 DEF vars
<1> QED BY <1>2, <1>4, <1>5, <1>6, <1>7, <1>8 DEF Next

\* The invariant contains the property.
LEMMA NInvStranded == MInv /\ NInv => NothingStranded
BY DEF MInv, Split, NInv, Attended, NothingStranded

\* No message is forgotten in a queue: whatever the interleaving of prompts, reactions of
\* handlers, ends of jobs, aborts and new sessions, a loop works that will poll it, unless
\* the last loop failed or the message came after its last poll.
THEOREM QueuesAreAttended == Spec => []NothingStranded
<1> DEFINE Inv == JInv /\ MInv /\ LInv /\ Watches /\ NInv
<1>1. Init => Inv
  BY JInvInit, MInvInit, LInvInit, WatchesKept DEF NInv, Attended, Init, LoopInit
<1>2. Inv /\ [Next]_vars => Inv'
  BY JInvNext, AgentStepMessages, JobStepMessages, LInvNext, WatchesKept, NInvNext
<1>3. Inv => NothingStranded
  BY NInvStranded
<1> QED BY <1>1, <1>2, <1>3, PTL DEF Spec
------------------------------------------------------------------------------
(* Every call has its result when the model is asked again.                *)

\* The prepared calls are in the order of the response.
InOrder(s) == \A i, j \in 1..Len(s) : i < j => s[i] < s[j]

\* The results of the calls that ran are in the order of the response.
ResultsInOrder(lp) ==
  \A i, j \in 1..Len(lp.results) :
    i < j /\ {lp.results[i], lp.results[j]} \subseteq ToSet(lp.prepared)
      => lp.results[i] < lp.results[j]

Answered(lp) ==
  /\ Len(lp.results) = lp.calls /\ ToSet(lp.results) = 1..lp.calls
  /\ ResultsInOrder(lp)

\* Of the first n calls each is answered on the spot or prepared to run.
Divided(lp, n) ==
  /\ Len(lp.results) + Len(lp.prepared) = n
  /\ ToSet(lp.results) \union ToSet(lp.prepared) = 1..n
  /\ ToSet(lp.results) \cap ToSet(lp.prepared) = {}
  /\ InOrder(lp.prepared)

\* The number of prepared calls that have their result.
Emitted(lp) == (Len(lp.results) + Len(lp.prepared)) - lp.calls

\* Those are the first of the prepared calls, and there is a next one.
Emitting(lp) ==
  /\ ToSet(lp.results) \union ToSet(lp.prepared) = 1..lp.calls
  /\ InOrder(lp.prepared) /\ ResultsInOrder(lp)
  /\ Emitted(lp) \in 0..(Len(lp.prepared) - 1)
  /\ \A i \in 1..Len(lp.prepared) : lp.prepared[i] \in ToSet(lp.results) <=> i <= Emitted(lp)

\* What a loop has of its response, at each of its moments.
Turn(lp) ==
  /\ lp.pc = "asking" => Answered(lp)
  /\ lp.pc = "preparing" => Divided(lp, lp.next - 1)
  /\ lp.pc = "running" => Emitting(lp)

Turns == \A l \in Loop : Turn(loops[l])

ToolCall == 1..MaxToolCalls

\* A sequence with one more element.
LEMMA Lengthened ==
  ASSUME NEW s \in Seq(ToolCall), NEW x \in ToolCall
  PROVE  /\ Append(s, x) \in Seq(ToolCall) /\ Len(Append(s, x)) = Len(s) + 1
         /\ \A i \in 1..Len(s) : Append(s, x)[i] = s[i]
         /\ Append(s, x)[Len(s) + 1] = x
         /\ ToSet(Append(s, x)) = ToSet(s) \union {x}
<1>1. /\ Append(s, x) \in Seq(ToolCall) /\ Len(Append(s, x)) = Len(s) + 1
      /\ \A i \in 1..Len(s) : Append(s, x)[i] = s[i]
      /\ Append(s, x)[Len(s) + 1] = x
  OBVIOUS
<1>2. Len(s) \in Nat /\ DOMAIN s = 1..Len(s) /\ DOMAIN Append(s, x) = 1..(Len(s) + 1)
  OBVIOUS
<1> DEFINE t == Append(s, x)
<1> HIDE DEF t
<1>3. ToSet(t) = {t[i] : i \in 1..(Len(s) + 1)} /\ ToSet(s) = {s[i] : i \in 1..Len(s)}
  BY <1>2 DEF ToSet, t
<1>4. \A i \in 1..(Len(s) + 1) : i \in 1..Len(s) \/ i = Len(s) + 1
  BY <1>2
<1>5. Len(s) + 1 \in 1..(Len(s) + 1) /\ \A i \in 1..Len(s) : i \in 1..(Len(s) + 1)
  BY <1>2
<1>6. (\A i \in 1..Len(s) : t[i] = s[i]) /\ t[Len(s) + 1] = x
  BY <1>1 DEF t
<1>7. ToSet(t) = ToSet(s) \union {x}
  BY <1>3, <1>4, <1>5, <1>6
<1> QED BY <1>1, <1>7 DEF t

\* Two sequences one after the other.
LEMMA Joined ==
  ASSUME NEW s \in Seq(ToolCall), NEW t \in Seq(ToolCall)
  PROVE  /\ s \o t \in Seq(ToolCall) /\ Len(s \o t) = Len(s) + Len(t)
         /\ \A i \in 1..Len(s) : (s \o t)[i] = s[i]
         /\ \A i \in 1..Len(t) : (s \o t)[Len(s) + i] = t[i]
         /\ ToSet(s \o t) = ToSet(s) \union ToSet(t)
<1>1. /\ s \o t \in Seq(ToolCall) /\ Len(s \o t) = Len(s) + Len(t)
      /\ \A i \in 1..Len(s) : (s \o t)[i] = s[i]
      /\ \A i \in 1..Len(t) : (s \o t)[Len(s) + i] = t[i]
  OBVIOUS
<1>2. /\ Len(s) \in Nat /\ Len(t) \in Nat /\ DOMAIN s = 1..Len(s) /\ DOMAIN t = 1..Len(t)
      /\ DOMAIN (s \o t) = 1..(Len(s) + Len(t))
  BY <1>1
<1> DEFINE u == s \o t
<1> HIDE DEF u
<1>3. /\ ToSet(u) = {u[i] : i \in 1..(Len(s) + Len(t))}
      /\ ToSet(s) = {s[i] : i \in 1..Len(s)} /\ ToSet(t) = {t[i] : i \in 1..Len(t)}
  BY <1>2 DEF ToSet, u
<1>4. (\A i \in 1..Len(s) : u[i] = s[i]) /\ (\A i \in 1..Len(t) : u[Len(s) + i] = t[i])
  BY <1>1 DEF u
<1>5. /\ \A i \in 1..Len(s) : i \in 1..(Len(s) + Len(t))
      /\ \A i \in 1..Len(t) : Len(s) + i \in 1..(Len(s) + Len(t))
  BY <1>2
<1>6. \A i \in 1..(Len(s) + Len(t)) :
         i \in 1..Len(s) \/ (i - Len(s) \in 1..Len(t) /\ Len(s) + (i - Len(s)) = i)
  BY <1>2
<1>7. ToSet(s) \subseteq ToSet(u) /\ ToSet(t) \subseteq ToSet(u)
  BY <1>3, <1>4, <1>5
<1>8. ASSUME NEW x \in ToSet(u) PROVE x \in ToSet(s) \union ToSet(t)
  <2>1. PICK i \in 1..(Len(s) + Len(t)) : x = u[i]
    BY <1>3, <1>8
  <2>2. CASE i \in 1..Len(s)
    BY <1>3, <1>4, <2>1, <2>2
  <2>3. CASE i - Len(s) \in 1..Len(t) /\ Len(s) + (i - Len(s)) = i
    <3>1. x = t[i - Len(s)]
      BY <1>4, <2>1, <2>3
    <3> QED BY <1>3, <2>3, <3>1
  <2> QED BY <1>6, <2>2, <2>3
<1>9. ToSet(u) = ToSet(s) \union ToSet(t)
  BY <1>7, <1>8
<1> QED BY <1>1, <1>9 DEF u

\* An element has a position.
LEMMA Positions ==
  ASSUME NEW s \in Seq(ToolCall)
  PROVE  /\ \A x \in ToSet(s) : \E i \in 1..Len(s) : s[i] = x
         /\ \A i \in 1..Len(s) : s[i] \in ToSet(s)
<1>1. DOMAIN s = 1..Len(s)
  OBVIOUS
<1> QED BY <1>1 DEF ToSet

\* A call is prepared: it is answered on the spot, or comes last of those that are to run.
LEMMA PreparedDivides ==
  ASSUME NEW old \in LoopRecord, old.next \in 1..old.calls, Divided(old, old.next - 1),
         NEW runs \in BOOLEAN, NEW lp, lp = PreparedCall(old, runs)
  PROVE  Divided(lp, old.next) /\ lp.next = old.next /\ lp.calls = old.calls
<1> DEFINE n == old.next
           r == old.results
           p == old.prepared
<1>1. /\ n \in Nat /\ n > 0 /\ n \in ToolCall
      /\ r \in Seq(ToolCall) /\ p \in Seq(ToolCall)
  BY LoopConfig DEF LoopRecord, ToolCall
<1>2. /\ Len(r) + Len(p) = n - 1 /\ ToSet(r) \union ToSet(p) = 1..(n - 1)
      /\ ToSet(r) \cap ToSet(p) = {} /\ InOrder(p)
  BY DEF Divided
<1>3. Len(r) \in Nat /\ Len(p) \in Nat
  BY <1>1
<1>4. n \notin 1..(n - 1) /\ 1..n = (1..(n - 1)) \union {n}
  BY <1>1
<1>5. /\ lp.next = n /\ lp.calls = old.calls
      /\ runs => lp.prepared = Append(p, n) /\ lp.results = r
      /\ ~runs => lp.results = Append(r, n) /\ lp.prepared = p
  BY DEF PreparedCall, LoopRecord
<1> HIDE DEF n, r, p
<1>6. CASE runs
  <2>1. lp.prepared = Append(p, n) /\ lp.results = r
    BY <1>5, <1>6
  <2>2. /\ Len(Append(p, n)) = Len(p) + 1 /\ ToSet(Append(p, n)) = ToSet(p) \union {n}
        /\ \A i \in 1..Len(p) : Append(p, n)[i] = p[i]
        /\ Append(p, n)[Len(p) + 1] = n
    BY <1>1, Lengthened
  <2> DEFINE q == Append(p, n)
  <2> HIDE DEF q
  <2>3. InOrder(q)
    <3> SUFFICES ASSUME NEW i \in 1..Len(q), NEW j \in 1..Len(q), i < j PROVE q[i] < q[j]
      BY DEF InOrder
    <3>1. i \in 1..Len(p) /\ q[i] = p[i]
      BY <1>3, <2>2 DEF q
    <3>2. CASE j \in 1..Len(p)
      BY <1>2, <2>2, <3>1, <3>2 DEF InOrder, q
    <3>3. CASE j = Len(p) + 1
      <4>1. p[i] \in 1..(n - 1) /\ q[j] = n
        BY <1>1, <1>2, <2>2, <3>1, <3>3, Positions DEF q
      <4> QED BY <1>1, <3>1, <4>1
    <3> QED BY <1>3, <2>2, <3>2, <3>3 DEF q
  <2>4. Len(r) + Len(q) = n
    BY <1>1, <1>2, <1>3, <2>2 DEF q
  <2>5. ToSet(r) \union ToSet(q) = 1..n /\ ToSet(r) \cap ToSet(q) = {}
    BY <1>2, <1>4, <2>2 DEF q
  <2> QED BY <1>5, <2>1, <2>3, <2>4, <2>5 DEF Divided, q, n
<1>7. CASE ~runs
  <2>1. lp.results = Append(r, n) /\ lp.prepared = p
    BY <1>5, <1>7
  <2>2. Len(Append(r, n)) = Len(r) + 1 /\ ToSet(Append(r, n)) = ToSet(r) \union {n}
    BY <1>1, Lengthened
  <2> DEFINE q == Append(r, n)
  <2> HIDE DEF q
  <2>3. Len(q) + Len(p) = n
    BY <1>1, <1>2, <1>3, <2>2 DEF q
  <2>4. ToSet(q) \union ToSet(p) = 1..n /\ ToSet(q) \cap ToSet(p) = {}
    BY <1>2, <1>4, <2>2 DEF q
  <2> QED BY <1>2, <1>5, <2>1, <2>3, <2>4 DEF Divided, q, n
<1> QED BY <1>5, <1>6, <1>7

\* The calls prepared so far and the remaining ones are skipped: all have their results.
LEMMA SkippedAnswers ==
  ASSUME NEW lp \in LoopRecord, lp.next \in 1..lp.calls, Divided(lp, lp.next)
  PROVE  Answered(Skipped(lp))
<1> DEFINE n == lp.next
           c == lp.calls
           r == lp.results
           p == lp.prepared
           rest == [i \in 1..(c - n) |-> n + i]
           all == r \o p \o rest
<1>1. /\ n \in Nat /\ n > 0 /\ c \in Nat /\ n <= c /\ c \in 0..MaxToolCalls
      /\ r \in Seq(ToolCall) /\ p \in Seq(ToolCall)
  BY LoopConfig DEF LoopRecord, ToolCall
<1>2. /\ Len(r) + Len(p) = n /\ ToSet(r) \union ToSet(p) = 1..n
      /\ ToSet(r) \cap ToSet(p) = {} /\ InOrder(p)
  BY DEF Divided
<1>3. /\ Skipped(lp).results = all /\ Skipped(lp).calls = c /\ Skipped(lp).prepared = p
  BY DEF Skipped, LoopRecord
<1> HIDE DEF n, c, r, p
<1>4. Len(r) \in Nat /\ Len(p) \in Nat /\ c - n \in Nat
  BY <1>1
<1>5. rest \in Seq(ToolCall) /\ Len(rest) = c - n
  <2>1. \A i \in 1..(c - n) : rest[i] \in ToolCall
    BY <1>1, LoopConfig DEF ToolCall
  <2>2. rest \in [1..(c - n) -> ToolCall]
    BY <2>1
  <2> HIDE DEF rest
  <2>3. rest \in Seq(ToolCall)
    BY <1>4, <2>2, FunctionIsSeq, Zenon
  <2> QED BY <1>4, <2>2, <2>3
<1>6. /\ \A i \in 1..(c - n) : rest[i] = n + i
      /\ ToSet(rest) = (n + 1)..c
  <2>1. \A i \in 1..(c - n) : rest[i] = n + i
    OBVIOUS
  <2>2. DOMAIN rest = 1..(c - n)
    OBVIOUS
  <2> HIDE DEF rest
  <2>3. ASSUME NEW x \in ToSet(rest) PROVE x \in (n + 1)..c
    <3>1. PICK i \in 1..(c - n) : x = n + i
      BY <2>1, <2>2, <2>3 DEF ToSet
    <3> QED BY <1>1, <3>1
  <2>4. ASSUME NEW x \in (n + 1)..c PROVE x \in ToSet(rest)
    <3>1. x - n \in 1..(c - n) /\ n + (x - n) = x
      BY <1>1, <2>4
    <3> QED BY <2>1, <2>2, <3>1 DEF ToSet
  <2> QED BY <2>1, <2>3, <2>4
<1> HIDE DEF rest, all
<1> DEFINE rp == r \o p
<1>7. /\ rp \in Seq(ToolCall) /\ Len(rp) = n /\ ToSet(rp) = 1..n
      /\ \A i \in 1..Len(r) : rp[i] = r[i]
      /\ \A i \in 1..Len(p) : rp[Len(r) + i] = p[i]
  BY <1>1, <1>2, Joined
<1> HIDE DEF rp
<1>8. all = rp \o rest
  BY DEF all, rp
<1>9. /\ Len(all) = n + (c - n) /\ ToSet(all) = (1..n) \union ((n + 1)..c)
      /\ \A i \in 1..n : all[i] = rp[i]
      /\ \A i \in 1..(c - n) : all[n + i] = rest[i]
  <2>1. /\ Len(rp \o rest) = Len(rp) + Len(rest)
        /\ \A i \in 1..Len(rp) : (rp \o rest)[i] = rp[i]
        /\ \A i \in 1..Len(rest) : (rp \o rest)[Len(rp) + i] = rest[i]
        /\ ToSet(rp \o rest) = ToSet(rp) \union ToSet(rest)
    BY <1>5, <1>7, Joined
  <2> QED BY <1>5, <1>6, <1>7, <1>8, <2>1
<1>10. Len(all) = c /\ ToSet(all) = 1..c
  BY <1>1, <1>9
<1>11. ASSUME NEW i \in 1..c, all[i] \in ToSet(p)
       PROVE  i - Len(r) \in 1..Len(p) /\ all[i] = p[i - Len(r)]
  <2>1. CASE i \in 1..Len(r)
    <3>1. all[i] = r[i]
      BY <1>1, <1>2, <1>4, <1>7, <1>9, <2>1
    <3> QED BY <1>1, <1>2, <1>11, <2>1, <3>1, Positions
  <2>2. CASE i - Len(r) \in 1..Len(p)
    <3>1. i \in 1..n /\ Len(r) + (i - Len(r)) = i
      BY <1>1, <1>2, <1>4, <2>2
    <3>2. all[i] = rp[i] /\ rp[i] = p[i - Len(r)]
      BY <1>7, <1>9, <2>2, <3>1
    <3> QED BY <2>2, <3>2
  <2>3. CASE i - n \in 1..(c - n)
    <3>1. all[i] = rest[i - n] /\ rest[i - n] = n + (i - n) /\ n + (i - n) = i
      <4>1. n + (i - n) = i
        BY <1>1
      <4> QED BY <1>6, <1>9, <2>3, <4>1
    <3>2. all[i] \notin 1..n
      BY <1>1, <2>3, <3>1
    <3> QED BY <1>2, <1>11, <3>2
  <2>4. i \in 1..Len(r) \/ i - Len(r) \in 1..Len(p) \/ i - n \in 1..(c - n)
    BY <1>1, <1>2, <1>4
  <2> QED BY <2>1, <2>2, <2>3, <2>4
<1>12. ASSUME NEW i \in 1..c, NEW j \in 1..c, i < j, {all[i], all[j]} \subseteq ToSet(p)
       PROVE  all[i] < all[j]
  <2>1. /\ i - Len(r) \in 1..Len(p) /\ all[i] = p[i - Len(r)]
        /\ j - Len(r) \in 1..Len(p) /\ all[j] = p[j - Len(r)]
    BY <1>11, <1>12
  <2>2. i - Len(r) < j - Len(r)
    BY <1>1, <1>4, <1>12
  <2> QED BY <1>2, <2>1, <2>2 DEF InOrder
<1> QED BY <1>3, <1>10, <1>12 DEF Answered, ResultsInOrder

\* No call is to run: all have been answered on the spot.
LEMMA AllAnswered ==
  ASSUME NEW lp \in LoopRecord, Divided(lp, lp.calls), lp.prepared = <<>>
  PROVE  Answered(lp)
<1>1. ToSet(lp.prepared) = {} /\ Len(lp.prepared) = 0
  BY DEF ToSet
<1>2. Len(lp.results) \in Nat /\ lp.calls \in Nat
  BY LoopConfig DEF LoopRecord, ToolCall
<1>3. Len(lp.results) = lp.calls
  BY <1>1, <1>2 DEF Divided
<1>4. ToSet(lp.results) = 1..lp.calls
  BY <1>1 DEF Divided
<1>5. ResultsInOrder(lp)
  BY <1>1 DEF ResultsInOrder
<1> QED BY <1>3, <1>4, <1>5 DEF Answered

\* The prepared calls begin to run: none has its result.
LEMMA BeginsEmitting ==
  ASSUME NEW lp \in LoopRecord, Divided(lp, lp.calls), lp.prepared # <<>>
  PROVE  Emitting(lp)
<1>1. /\ Len(lp.results) \in Nat /\ lp.calls \in Nat /\ Len(lp.prepared) \in Nat \ {0}
      /\ lp.results \in Seq(ToolCall) /\ lp.prepared \in Seq(ToolCall)
  BY LoopConfig DEF LoopRecord, ToolCall
<1>2. Emitted(lp) = 0 /\ 0 \in 0..(Len(lp.prepared) - 1)
  <2> DEFINE r == Len(lp.results)
             p == Len(lp.prepared)
  <2>1. r + p = lp.calls
    BY DEF Divided
  <2>2. Emitted(lp) = (r + p) - lp.calls
    BY DEF Emitted
  <2>3. r \in Nat /\ p \in Nat \ {0} /\ lp.calls \in Nat
    BY <1>1
  <2> HIDE DEF r, p
  <2>4. Emitted(lp) = 0 /\ 0 \in 0..(p - 1)
    BY <2>1, <2>2, <2>3
  <2> QED BY <2>4 DEF p
<1>3. \A i \in 1..Len(lp.prepared) : lp.prepared[i] \notin ToSet(lp.results)
  BY <1>1, Positions DEF Divided
<1>4. \A i \in 1..Len(lp.results) : lp.results[i] \notin ToSet(lp.prepared)
  BY <1>1, Positions DEF Divided
<1>5. ResultsInOrder(lp)
  BY <1>4 DEF ResultsInOrder
<1>6. \A i \in 1..Len(lp.prepared) : ~(i <= 0)
  BY <1>1
<1> QED BY <1>2, <1>3, <1>5, <1>6 DEF Divided, Emitting

\* The next result is that of the first prepared call without one.
LEMMA NextIsFirst ==
  ASSUME NEW l \in Loop, loops[l] \in LoopRecord, Emitting(loops[l])
  PROVE  /\ Emitted(loops[l]) + 1 \in 1..Len(loops[l].prepared)
         /\ NextResult(l) = loops[l].prepared[Emitted(loops[l]) + 1]
<1> DEFINE lp == loops[l]
           p == lp.prepared
           k == Emitted(lp)
           Rest == {i \in 1..Len(p) : p[i] \notin ToSet(lp.results)}
<1>1. Len(p) \in Nat /\ k \in 0..(Len(p) - 1)
  BY DEF LoopRecord, Emitting
<1>2. \A i \in 1..Len(p) : p[i] \in ToSet(lp.results) <=> i <= k
  BY DEF Emitting
<1>3. NextResult(l) = p[Min(Rest)]
  BY DEF NextResult
<1> HIDE DEF p, k
<1>4. /\ k + 1 \in 1..Len(p) /\ k + 1 \in Rest
      /\ \A i \in Rest : k + 1 <= i
      /\ \A i \in Rest : i \in Nat
  BY <1>1, <1>2
<1> HIDE DEF Rest
<1>5. Min(Rest) \in Rest /\ \A i \in Rest : Min(Rest) <= i
  BY <1>4 DEF Min
<1>6. Min(Rest) = k + 1
  BY <1>1, <1>4, <1>5
<1> QED BY <1>3, <1>4, <1>6 DEF p, k

\* The next result is emitted: with the last one every call has its result.
LEMMA ResultEmitted ==
  ASSUME NEW old \in LoopRecord, Emitting(old),
         Emitted(old) + 1 \in 1..Len(old.prepared),
         NEW lp, lp = [old EXCEPT !.results = Append(@, old.prepared[Emitted(old) + 1])]
  PROVE  IF ToSet(lp.prepared) \subseteq ToSet(lp.results) THEN Answered(lp) ELSE Emitting(lp)
<1> DEFINE c == old.calls
           r == old.results
           p == old.prepared
           k == Emitted(old)
           x == p[k + 1]
           q == Append(r, x)
<1>1. /\ c \in Nat /\ r \in Seq(ToolCall) /\ p \in Seq(ToolCall)
      /\ k + 1 \in 1..Len(p)
  BY LoopConfig DEF LoopRecord, ToolCall
<1>2. /\ ToSet(r) \union ToSet(p) = 1..c /\ InOrder(p) /\ ResultsInOrder(old)
      /\ k \in 0..(Len(p) - 1) /\ k = (Len(r) + Len(p)) - c
      /\ \A i \in 1..Len(p) : p[i] \in ToSet(r) <=> i <= k
  BY DEF Emitting, Emitted
<1>3. /\ lp.prepared = p /\ lp.calls = c /\ lp.results = q
  BY DEF LoopRecord
<1>4. Emitted(lp) = (Len(q) + Len(p)) - c
  BY <1>3 DEF Emitted
<1>5. \A i, j \in 1..Len(r) : i < j /\ {r[i], r[j]} \subseteq ToSet(p) => r[i] < r[j]
  BY <1>2 DEF ResultsInOrder
<1> HIDE DEF c, r, p, k
<1>6. x \in ToolCall /\ x \in ToSet(p) /\ \A i \in 1..Len(p) : p[i] \in ToSet(p)
  <2>1. \A i \in 1..Len(p) : p[i] \in ToSet(p) /\ p[i] \in ToolCall
    BY <1>1, Positions
  <2> QED BY <1>1, <2>1
<1> HIDE DEF x
<1>7. /\ Len(q) = Len(r) + 1 /\ ToSet(q) = ToSet(r) \union {x}
      /\ \A i \in 1..Len(r) : q[i] = r[i]
      /\ q[Len(r) + 1] = x
  BY <1>1, <1>6, Lengthened
<1> HIDE DEF q
<1>8. Len(r) \in Nat /\ Len(p) \in Nat /\ k \in Nat /\ Emitted(lp) = k + 1
  BY <1>1, <1>2, <1>4, <1>7
<1>9. \A i \in 1..Len(p) : p[i] = x <=> i = k + 1
  <2>1. SUFFICES ASSUME NEW i \in 1..Len(p), p[i] = p[k + 1] PROVE i = k + 1
    BY DEF x
  <2>2. ~(i < k + 1) /\ ~(k + 1 < i)
    <3>1. p[i] \in Int
      BY <1>1, LoopConfig DEF ToolCall
    <3> QED BY <1>1, <1>2, <2>1, <3>1 DEF InOrder
  <2> QED BY <1>8, <2>2
<1>10. \A i \in 1..Len(p) : p[i] \in ToSet(q) <=> i <= k + 1
  <2> SUFFICES ASSUME NEW i \in 1..Len(p) PROVE p[i] \in ToSet(q) <=> i <= k + 1
    OBVIOUS
  <2>1. p[i] \in ToSet(q) <=> i <= k \/ i = k + 1
    BY <1>2, <1>7, <1>9
  <2> QED BY <1>8, <2>1
<1>11. ToSet(q) \union ToSet(p) = 1..c
  BY <1>2, <1>6, <1>7
<1>12. ASSUME NEW i \in 1..Len(q), NEW j \in 1..Len(q), i < j, {q[i], q[j]} \subseteq ToSet(p)
       PROVE  q[i] < q[j]
  <2>1. i \in 1..Len(r) /\ q[i] = r[i]
    BY <1>7, <1>8, <1>12
  <2>2. CASE j \in 1..Len(r)
    BY <1>5, <1>7, <1>12, <2>1, <2>2
  <2>3. CASE j = Len(r) + 1
    <3>1. PICK m \in 1..Len(p) : p[m] = r[i]
      BY <1>1, <1>12, <2>1, Positions
    <3>2. r[i] \in ToSet(r)
      BY <1>1, <2>1, Positions
    <3>3. m <= k
      BY <1>2, <3>1, <3>2
    <3>4. p[m] < p[k + 1]
      <4>1. m \in 1..Len(p) /\ m < k + 1
        BY <1>8, <3>3
      <4>2. \A a, b \in 1..Len(p) : a < b => p[a] < p[b]
        BY <1>2 DEF InOrder
      <4> QED BY <1>1, <4>1, <4>2
    <3>5. q[i] = p[m] /\ q[j] = p[k + 1]
      BY <1>7, <2>1, <2>3, <3>1 DEF x
    <3> QED BY <3>4, <3>5
  <2> QED BY <1>7, <1>8, <2>2, <2>3
<1>13. ResultsInOrder(lp)
  BY <1>3, <1>12 DEF ResultsInOrder
<1>14. CASE ToSet(p) \subseteq ToSet(q)
  <2>1. Len(p) \in 1..Len(p) /\ p[Len(p)] \in ToSet(q)
    BY <1>1, <1>6, <1>8, <1>14
  <2>2. Len(p) <= k + 1
    BY <1>10, <2>1
  <2>3. Len(q) = c
    BY <1>1, <1>2, <1>7, <1>8, <2>2
  <2>4. ToSet(q) = 1..c
    BY <1>11, <1>14
  <2> QED BY <1>3, <1>13, <1>14, <2>3, <2>4 DEF Answered
<1>15. CASE ~(ToSet(p) \subseteq ToSet(q))
  <2>1. PICK i \in 1..Len(p) : p[i] \notin ToSet(q)
    BY <1>1, <1>15, Positions
  <2>2. i > k + 1
    BY <1>8, <1>10, <2>1
  <2>3. k + 1 \in 0..(Len(p) - 1)
    BY <1>8, <2>2
  <2> QED BY <1>2, <1>3, <1>8, <1>10, <1>11, <1>13, <1>15, <2>3 DEF Emitting
<1> QED BY <1>3, <1>14, <1>15

\* What a loop has of its response is in five fields of its record.
LEMMA SameTurn ==
  ASSUME NEW old, Turn(old),
         NEW new, new.pc = old.pc, new.calls = old.calls, new.next = old.next,
         new.prepared = old.prepared, new.results = old.results
  PROVE  Turn(new)
BY DEF Turn, Answered, ResultsInOrder, Divided, Emitting, Emitted

\* A loop without a response, and one that has nothing more to ask.
LEMMA IdleTurns ==
  /\ \A lp : lp.pc \notin Working => Turn(lp)
  /\ \A lp : lp.pc = "asking" /\ lp.calls = 0 /\ lp.results = <<>> => Turn(lp)
<1>1. ASSUME NEW lp, lp.pc \notin Working PROVE Turn(lp)
  BY <1>1 DEF Turn, Working
<1>2. ASSUME NEW lp, lp.pc = "asking", lp.calls = 0, lp.results = <<>> PROVE Turn(lp)
  <2>1. Len(<<>>) = 0 /\ ToSet(<<>>) = {} /\ 1..0 = {}
    BY DEF ToSet
  <2>2. Answered(lp)
    BY <1>2, <2>1 DEF Answered, ResultsInOrder
  <2> QED BY <1>2, <2>2 DEF Turn
<1> QED BY <1>1, <1>2

\* A loop takes a step.
LEMMA TurnsKept ==
  ASSUME LInv, Turns, NEW l \in Loop, NEW new, Turn(new), loops' = [loops EXCEPT ![l] = new]
  PROVE  Turns'
<1>1. \A k \in Loop : loops'[k] = IF k = l THEN new ELSE loops[k]
  BY DEF LInv, LoopsTyped
<1>2. \A k \in Loop : Turn(loops'[k])
  BY <1>1 DEF Turns
<1> QED BY <1>2 DEF Turns

\* At the end of a turn every call has its result, also if the model is asked again.
LEMMA TurnsAtEnd ==
  ASSUME LInv, Turns, NEW l \in Loop, NEW lp \in LoopRecord, Answered(lp), TurnEnd(l, lp)
  PROVE  Turns'
<1>1. PICK new \in {Asking(lp), Stopping(lp)} : loops' = [loops EXCEPT ![l] = new]
  BY DEF TurnEnd
<1>2. Turn(Stopping(lp))
  BY RecordsTyped, IdleTurns DEF Working
<1>3. Turn(Asking(lp))
  <2>1. /\ Asking(lp).pc = "asking" /\ Asking(lp).calls = lp.calls
        /\ Asking(lp).prepared = lp.prepared /\ Asking(lp).results = lp.results
    BY DEF Asking, LoopRecord
  <2> QED BY <2>1 DEF Turn, Answered, ResultsInOrder
<1> QED BY <1>1, <1>2, <1>3, TurnsKept

\* A response of the model.
LEMMA RespondTurns ==
  ASSUME LInv, Turns, NEW l \in Loop, Respond(l)
  PROVE  Turns'
<1> DEFINE asked == [NoLoop EXCEPT !.pc = "asking"]
           called(n) == [NoLoop EXCEPT !.pc = "preparing", !.calls = n, !.next = 1]
<1>1. CASE TurnEnd(l, asked)
  <2>1. asked \in LoopRecord
    BY RecordsTyped DEF Asking
  <2>2. asked.pc = "asking" /\ asked.calls = 0 /\ asked.results = <<>>
    BY DEF NoLoop
  <2>3. Turn(asked)
    BY <2>2, IdleTurns
  <2> HIDE DEF asked
  <2>4. Answered(asked)
    BY <2>2, <2>3 DEF Turn
  <2> QED BY <1>1, <2>1, <2>4, TurnsAtEnd
<1>2. ASSUME NEW n \in 1..MaxToolCalls, loops' = [loops EXCEPT ![l] = called(n)]
      PROVE  Turns'
  <2>1. /\ called(n).pc = "preparing" /\ called(n).next = 1
        /\ called(n).prepared = <<>> /\ called(n).results = <<>>
    BY DEF NoLoop
  <2> HIDE DEF called
  <2>2. Len(<<>>) = 0 /\ ToSet(<<>>) = {} /\ 1..0 = {} /\ 1 - 1 = 0
    BY DEF ToSet
  <2>3. Divided(called(n), called(n).next - 1)
    BY <2>1, <2>2 DEF Divided, InOrder
  <2>4. Turn(called(n))
    BY <2>1, <2>3 DEF Turn
  <2> QED BY <1>2, <2>4, TurnsKept
<1> QED BY <1>1, <1>2 DEF Respond

\* A call is prepared, or it and the rest are skipped, or the prepared ones begin to run.
LEMMA PrepareTurns ==
  ASSUME LInv, Turns, NEW l \in Loop, NEW runs \in BOOLEAN, Prepare(l, runs)
  PROVE  Turns'
<1> DEFINE lp == PreparedCall(loops[l], runs)
<1>1. /\ lp \in LoopRecord /\ lp.pc = "preparing" /\ lp.next \in 1..lp.calls
      /\ Skipped(lp) \in LoopRecord
  BY PreparedTyped
<1>2. Divided(lp, lp.next)
  <2>1. /\ loops[l] \in LoopRecord /\ loops[l].next \in 1..loops[l].calls
        /\ Divided(loops[l], loops[l].next - 1)
    BY DEF LInv, LoopsTyped, Preparing, Turns, Turn, Prepare
  <2> QED BY <2>1, PreparedDivides
<1>3. \/ TurnEnd(l, Skipped(lp))
      \/ lp.next < lp.calls /\ loops' = [loops EXCEPT ![l] = [lp EXCEPT !.next = @ + 1]]
      \/ ~(lp.next < lp.calls) /\ lp.prepared = <<>> /\ TurnEnd(l, lp)
      \/ /\ ~(lp.next < lp.calls) /\ lp.prepared # <<>>
         /\ loops' = [loops EXCEPT ![l] = [lp EXCEPT !.pc = "running"]]
  BY DEF Prepare
<1> HIDE DEF lp
<1>4. lp.next \in Nat /\ lp.calls \in Nat
  BY <1>1, LoopConfig DEF LoopRecord
<1>5. CASE TurnEnd(l, Skipped(lp))
  BY <1>1, <1>2, <1>5, SkippedAnswers, TurnsAtEnd
<1>6. CASE loops' = [loops EXCEPT ![l] = [lp EXCEPT !.next = @ + 1]]
  <2> DEFINE new == [lp EXCEPT !.next = @ + 1]
  <2>1. /\ new.pc = "preparing" /\ new.next = lp.next + 1
        /\ new.results = lp.results /\ new.prepared = lp.prepared
    BY <1>1 DEF LoopRecord
  <2>2. loops' = [loops EXCEPT ![l] = new]
    BY <1>6
  <2> HIDE DEF new
  <2>3. new.next - 1 = lp.next
    BY <1>4, <2>1
  <2>4. Divided(new, new.next - 1)
    BY <1>2, <2>1, <2>3 DEF Divided
  <2>5. Turn(new)
    BY <2>1, <2>4 DEF Turn
  <2> QED BY <2>2, <2>5, TurnsKept
<1>7. ASSUME ~(lp.next < lp.calls) PROVE lp.next = lp.calls /\ Divided(lp, lp.calls)
  BY <1>1, <1>2, <1>4, <1>7
<1>8. CASE ~(lp.next < lp.calls) /\ lp.prepared = <<>> /\ TurnEnd(l, lp)
  BY <1>1, <1>7, <1>8, AllAnswered, TurnsAtEnd
<1>9. CASE /\ ~(lp.next < lp.calls) /\ lp.prepared # <<>>
           /\ loops' = [loops EXCEPT ![l] = [lp EXCEPT !.pc = "running"]]
  <2> DEFINE new == [lp EXCEPT !.pc = "running"]
  <2>1. Emitting(lp)
    BY <1>1, <1>7, <1>9, BeginsEmitting
  <2>2. /\ new.pc = "running" /\ new.calls = lp.calls
        /\ new.results = lp.results /\ new.prepared = lp.prepared
    BY <1>1 DEF LoopRecord
  <2>3. loops' = [loops EXCEPT ![l] = new]
    BY <1>9
  <2> HIDE DEF new
  <2>4. Emitting(new)
    BY <2>1, <2>2 DEF Emitting, Emitted, ResultsInOrder
  <2>5. Turn(new)
    BY <2>2, <2>4 DEF Turn
  <2> QED BY <2>3, <2>5, TurnsKept
<1> QED BY <1>3, <1>5, <1>6, <1>8, <1>9

\* The result of a call is emitted.
LEMMA FinalizeTurns ==
  ASSUME LInv, Turns, NEW l \in Loop, Finalize(l)
  PROVE  Turns'
<1> DEFINE lp == [loops[l] EXCEPT !.results = Append(@, NextResult(l))]
<1>1. loops[l] \in LoopRecord /\ Emitting(loops[l])
  BY DEF LInv, LoopsTyped, Turns, Turn, Finalize
<1>2. lp \in LoopRecord /\ lp.pc = "running"
  BY FinalizedTyped
<1>3. /\ Emitted(loops[l]) + 1 \in 1..Len(loops[l].prepared)
      /\ NextResult(l) = loops[l].prepared[Emitted(loops[l]) + 1]
  BY <1>1, NextIsFirst
<1>4. IF ToSet(lp.prepared) \subseteq ToSet(lp.results) THEN Answered(lp) ELSE Emitting(lp)
  <2>1. lp = [loops[l] EXCEPT !.results = Append(@, loops[l].prepared[Emitted(loops[l]) + 1])]
    BY <1>3
  <2> HIDE DEF lp
  <2> QED BY <1>1, <1>3, <2>1, ResultEmitted
<1>5. IF ToSet(lp.prepared) \subseteq ToSet(lp.results)
        THEN TurnEnd(l, lp) ELSE loops' = [loops EXCEPT ![l] = lp]
  BY DEF Finalize
<1> HIDE DEF lp
<1>6. CASE ToSet(lp.prepared) \subseteq ToSet(lp.results)
  BY <1>2, <1>4, <1>5, <1>6, TurnsAtEnd
<1>7. CASE ~(ToSet(lp.prepared) \subseteq ToSet(lp.results))
  <2>1. Turn(lp)
    BY <1>2, <1>4, <1>7 DEF Turn
  <2> QED BY <1>5, <1>7, <2>1, TurnsKept
<1> QED BY <1>6, <1>7

\* The steps of a loop.
LEMMA LoopStepTurns ==
  ASSUME LInv, Turns, NEW l \in Loop, LoopStep(l)
  PROVE  Turns'
<1>1. CASE RespondFails(l) \/ FinalizeThrows(l)
  <2>1. Turn(Stopping(loops[l]))
    BY RecordsTyped, IdleTurns DEF LInv, LoopsTyped, Working
  <2>2. loops' = [loops EXCEPT ![l] = Stopping(loops[l])]
    BY <1>1 DEF RespondFails, FinalizeThrows
  <2> QED BY <2>1, <2>2, TurnsKept
<1>2. CASE AgentEnd(l)
  <2> DEFINE new == [loops[l] EXCEPT !.pc = "closing"]
  <2>1. loops' = [loops EXCEPT ![l] = new] /\ new.pc = "closing"
    BY <1>2 DEF AgentEnd, LInv, LoopsTyped, LoopRecord
  <2> HIDE DEF new
  <2> QED BY <2>1, IdleTurns, TurnsKept DEF Working
<1>3. CASE Finally(l)
  <2> DEFINE new == [NoLoop EXCEPT !.pc = "over"]
  <2>1. loops' = [loops EXCEPT ![l] = new] /\ new.pc = "over"
    BY <1>3 DEF Finally, NoLoop
  <2> HIDE DEF new
  <2> QED BY <2>1, IdleTurns, TurnsKept DEF Working
<1> QED BY <1>1, <1>2, <1>3, RespondTurns, PrepareTurns, FinalizeTurns DEF LoopStep

\* A new loop has asked for nothing yet.
LEMMA StartTurns ==
  ASSUME LInv, Turns, NEW l \in Loop, NEW ms, Start(l, ms)
  PROVE  Turns'
<1> DEFINE new == [NoLoop EXCEPT !.pc = "asking"]
<1>1. loops' = [loops EXCEPT ![l] = new]
  BY DEF Start
<1>2. new.pc = "asking" /\ new.calls = 0 /\ new.results = <<>>
  BY DEF NoLoop
<1> HIDE DEF new
<1> QED BY <1>1, <1>2, IdleTurns, TurnsKept

\* A raised signal and a finished tool change no result.
LEMMA SignalTurns ==
  ASSUME LInv, Turns,
         \/ loops' \in {loops, Aborted}
         \/ \E l \in Loop, c \in ToolCall : ToolDone(l, c)
  PROVE  Turns'
<1>1. ASSUME NEW k \in Loop
      PROVE  /\ loops'[k].pc = loops[k].pc /\ loops'[k].calls = loops[k].calls
             /\ loops'[k].next = loops[k].next /\ loops'[k].prepared = loops[k].prepared
             /\ loops'[k].results = loops[k].results
  <2>1. loops \in [Loop -> LoopRecord]
    BY DEF LInv, LoopsTyped
  <2>2. CASE loops' = [loops EXCEPT ![abortController].aborted = TRUE]
    BY <2>1, <2>2 DEF LoopRecord
  <2>3. ASSUME NEW l \in Loop, NEW c \in ToolCall, ToolDone(l, c)
        PROVE  loops' = [loops EXCEPT ![l].done = @ \union {c}]
    BY <2>3 DEF ToolDone
  <2>4. ASSUME NEW l \in Loop, NEW c, loops' = [loops EXCEPT ![l].done = @ \union {c}]
        PROVE  /\ loops'[k].pc = loops[k].pc /\ loops'[k].calls = loops[k].calls
               /\ loops'[k].next = loops[k].next /\ loops'[k].prepared = loops[k].prepared
               /\ loops'[k].results = loops[k].results
    BY <2>1, <2>4 DEF LoopRecord
  <2> QED BY <2>2, <2>3, <2>4 DEF Aborted
<1>2. \A k \in Loop : Turn(loops'[k])
  BY <1>1, SameTurn DEF Turns
<1> QED BY <1>2 DEF Turns

\* A message starts a loop or leaves the loops alone.
LEMMA DeliverTurns ==
  ASSUME LInv, Turns, NEW m, Deliver(m)
  PROVE  Turns'
BY StartTurns, SignalTurns DEF Deliver

\* Every step keeps the invariant.
LEMMA TurnsNext == LInv /\ Turns /\ Watches /\ [Next]_vars => Turns'
<1> SUFFICES ASSUME LInv, Turns, Watches, [Next]_vars PROVE Turns'
  OBVIOUS
<1>1. CASE UNCHANGED loops
  BY <1>1, SignalTurns
<1>2. CASE Outside
  <2>1. CASE React
    BY <2>1, DeliverTurns DEF React
  <2>2. CASE UserSends
    BY <1>1, <2>2, DeliverTurns DEF UserSends
  <2>3. CASE Escape
    BY <2>3, SignalTurns DEF Escape
  <2>4. CASE AbortReturns
    BY <1>1, <2>4 DEF AbortReturns
  <2>5. CASE Continue
    BY <2>5, StartTurns DEF Continue
  <2>6. ASSUME NEW reset \in BOOLEAN, AbortAndWait(reset) PROVE Turns'
    BY <2>6, SignalTurns DEF AbortAndWait
  <2> QED BY <1>2, <2>1, <2>2, <2>3, <2>4, <2>5, <2>6 DEF Outside
<1>3. CASE AgentStep
  BY <1>2, <1>3, LoopStepTurns DEF AgentStep
<1>4. ASSUME NEW l \in Loop, NEW c, ToolDone(l, c) PROVE Turns'
  <2>1. c \in ToSet(loops[l].prepared) /\ loops[l].prepared \in Seq(ToolCall)
    BY <1>4 DEF ToolDone, Executing, LInv, LoopsTyped, LoopRecord, ToolCall
  <2>2. c \in ToolCall
    BY <2>1, ElementsOfSeq, Zenon
  <2> QED BY <1>4, <2>2, SignalTurns
<1>5. ASSUME NEW l \in Loop, ToolStep(l) PROVE Turns'
  BY <1>1, <1>4, <1>5 DEF ToolStep, PlainTool, AsyncBash, CancelJob, AwaitJobs, loopVars
<1>6. ASSUME NEW w \in watching, AwaitEnds(w) PROVE Turns'
  BY <1>1, <1>4, <1>6 DEF AwaitEnds, Watches, loopVars
<1>7. ASSUME NEW j \in Job, JobEnds(j) PROVE Turns'
  BY <1>1, <1>7, DeliverTurns DEF JobEnds, loopVars
<1>8. CASE UNCHANGED vars \/ Reload \/ \E j \in Job : JobEvicted(j)
  BY <1>1, <1>8 DEF vars, Reload, JobEvicted, loopVars
<1> QED BY <1>3, <1>5, <1>6, <1>7, <1>8 DEF Next

\* At the start no loop has a response.
LEMMA TurnsInit == Init => Turns
<1> SUFFICES ASSUME Init PROVE Turns
  OBVIOUS
<1>1. \A l \in Loop : loops[l] = NoLoop
  BY DEF Init, LoopInit
<1>2. NoLoop.pc \notin Working
  BY DEF NoLoop, Working
<1> QED BY <1>1, <1>2, IdleTurns DEF Turns

\* Whenever the model is asked again, every call of its last response has exactly one
\* result, whether it ran, was refused on the spot or was skipped for a steering message,
\* and the results of those that ran are in the order of the response: for any number of
\* parallel calls that end in any order, however messages, aborts and jobs interleave.
THEOREM CallsAreAnswered == Spec => []AnsweredInTurn
<1> DEFINE Inv == LInv /\ Watches /\ Turns
<1>1. Init => Inv
  BY LInvInit, WatchesKept, TurnsInit
<1>2. Inv /\ [Next]_vars => Inv'
  BY LInvNext, WatchesKept, TurnsNext
<1>3. Inv => AnsweredInTurn
  BY DEF Turns, Turn, Answered, ResultsInOrder, AnsweredInTurn
<1> QED BY <1>1, <1>2, <1>3, PTL DEF Spec

=============================================================================
