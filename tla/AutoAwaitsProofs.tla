---------------------------- MODULE AutoAwaitsProofs ----------------------------
(* One dispatcher at a time, what a lock file tells, and that auto-mode is     *)
(* looked after whenever no call of it is in progress: for every number of     *)
(* units, of calls in progress, of commands and of troubles.                   *)
EXTENDS AutoAwaits, FiniteSetTheorems, TLAPS

By == {"start", "stop", "end", "gap", "idle", "hard"}
CallRecord == [by : By \union {"nobody"}, at : Place \union {"nowhere"}, unit : 0..NumUnits,
               depth : Nat, tries : Nat, run : Nat]

\* The calls that have chosen a unit, or recover one.
WithUnit == {"gating", "skipping", "switching", "selecting", "sleeping"}

\* A record of a call: it is in progress and knows its unit where it needs one.
InProgress(c) ==
  /\ c \in CallRecord /\ c.by # "nobody" /\ c.at # "nowhere"
  /\ c.at \in WithUnit => c.unit # 0

CallsOK == calls \in [Call -> CallRecord] /\ \A i \in Call : calls[i] = NoCall \/ InProgress(calls[i])

\* The types of the other variables; an armed hard timeout knows its unit.
FlagsOK ==
  /\ active \in BOOLEAN /\ paused \in BOOLEAN /\ cmdCtx \in BOOLEAN
  /\ dispatching \in BOOLEAN /\ handlingAgentEnd \in BOOLEAN /\ gap \in BOOLEAN

DataOK ==
  /\ skipDepth \in Nat /\ currentUnit \in 0..NumUnits
  /\ dispatchCount \in [Unit -> 0..MAX_UNIT_DISPATCHES]
  /\ timers \in [unit : 0..NumUnits, hard : BOOLEAN]
  /\ timers.hard => timers.unit # 0
  /\ agent \in 0..NumUnits /\ lock \in 0..NumUnits /\ done \subseteq Unit
  /\ attempts \in [Unit -> Nat]
  /\ counters \in [commands : 0..MaxCommands, troubles : 0..MaxTroubles, runs : Nat]
  /\ mishaps \subseteq Mishap

RestOK == FlagsOK /\ DataOK

TInv == CallsOK /\ RestOK

\* What is shown inductive contains the type invariant.
LEMMA TInvTypes == TInv => TypeOK
<1> SUFFICES ASSUME TInv PROVE TypeOK
  OBVIOUS
<1>1. ASSUME NEW i \in Call
      PROVE  calls[i] \in {NoCall} \union [by : By, at : Place, unit : 0..NumUnits,
                                           depth : Nat, tries : Nat, run : Nat]
  BY DEF TInv, CallsOK, InProgress, CallRecord
<1> QED BY <1>1 DEF TInv, CallsOK, RestOK, FlagsOK, DataOK, TypeOK, By

\* An empty slot is one that no call waits in.
LEMMA AtMeansInProgress ==
  ASSUME CallsOK, NEW i \in Call, calls[i].at # "nowhere"
  PROVE  InProgress(calls[i])
BY DEF CallsOK, NoCall, Made

\* The depth of a chain of skips does not fall below zero.
LEMMA DepthTyped ==
  ASSUME NEW n \in Int
  PROVE  Max({0, n}) \in Nat
<1>1. \E x \in {0, n} : \A y \in {0, n} : x >= y
  OBVIOUS
<1>2. Max({0, n}) \in {0, n} /\ \A y \in {0, n} : Max({0, n}) >= y
  BY <1>1 DEF Max
<1> QED BY <1>2

\* The ways in which the slot of a call changes.
LEMMA PutOK ==
  ASSUME CallsOK, NEW i \in Call, NEW c, c = NoCall \/ InProgress(c),
         calls' = [calls EXCEPT ![i] = c]
  PROVE  CallsOK'
<1>1. NoCall \in CallRecord
  BY AwaitsAssumption DEF NoCall, Made, CallRecord
<1> QED BY <1>1 DEF CallsOK, InProgress

\* A call returns.
LEMMA FreesOK ==
  ASSUME CallsOK, NEW i \in Call, Frees(i)
  PROVE  CallsOK'
BY PutOK DEF Frees

\* A call begins.
LEMMA MadeOK ==
  ASSUME CallsOK, NEW i \in Call, NEW by \in By, NEW at \in Place \ WithUnit,
         calls' = [calls EXCEPT ![i] = Made(by, at)]
  PROVE  CallsOK'
<1>1. InProgress(Made(by, at))
  BY AwaitsAssumption DEF InProgress, CallRecord, Made, By, Place, InDispatch
<1> QED BY <1>1, PutOK

\* A call goes on.
LEMMA GoesOK ==
  ASSUME CallsOK, NEW i \in Call, calls[i].at # "nowhere", NEW at \in Place,
         at \in WithUnit => calls[i].unit # 0, Goes(i, at)
  PROVE  CallsOK'
<1>1. InProgress(calls[i])
  BY AtMeansInProgress
<1> DEFINE c == [calls[i] EXCEPT !.at = at]
<1>2. InProgress(c)
  BY <1>1 DEF InProgress, CallRecord, Place, InDispatch
<1>3. calls' = [calls EXCEPT ![i] = c]
  BY DEF Goes, CallsOK
<1> HIDE DEF c
<1> QED BY <1>2, <1>3, PutOK

\* A dispatch by a call in progress, or by one that is made for it.
LEMMA DispatchOK ==
  ASSUME CallsOK, RestOK, NEW i \in Call, NEW c, InProgress(c), Dispatch(i, c)
  PROVE  CallsOK' /\ dispatching' \in BOOLEAN /\ mishaps' \subseteq Mishap
<1>1. InProgress([c EXCEPT !.at = "deriving", !.run = counters.runs])
  <2>1. counters.runs \in Nat
    BY DEF RestOK, DataOK
  <2>2. [c EXCEPT !.run = counters.runs] \in CallRecord
    BY <2>1 DEF InProgress, CallRecord
  <2>3. [c EXCEPT !.at = "deriving", !.run = counters.runs]
          = [[c EXCEPT !.run = counters.runs] EXCEPT !.at = "deriving"]
    BY DEF InProgress, CallRecord
  <2> QED BY <2>2, <2>3 DEF InProgress, CallRecord, Place, InDispatch, WithUnit
<1>0. InProgress([c EXCEPT !.at = "returned"])
  BY DEF InProgress, CallRecord, Place, InDispatch, WithUnit
<1>2. CallsOK'
  BY <1>0, <1>1, PutOK DEF Dispatch
<1>3. dispatching' \in BOOLEAN /\ mishaps' \subseteq Mishap
  BY DEF Dispatch, RestOK, FlagsOK, DataOK, Mishap
<1> QED BY <1>2, <1>3

\* Disarmed timers.
LEMMA NoTimersOK ==
  NoTimers \in [unit : 0..NumUnits, hard : BOOLEAN] /\ ~NoTimers.hard
BY AwaitsAssumption DEF NoTimers

\* What stopAuto, pauseAuto and the end of a dispatch do to the other variables.
LEMMA StopBeginsOK ==
  ASSUME RestOK, NEW i, StopBegins(i)
  PROVE  /\ timers' \in [unit : 0..NumUnits, hard : BOOLEAN] /\ gap' \in BOOLEAN
         /\ timers'.hard => timers'.unit # 0
         /\ lock' \in 0..NumUnits /\ dispatching' \in BOOLEAN /\ skipDepth' \in Nat
         /\ mishaps' \subseteq Mishap
<1>1. timers' = NoTimers
  BY DEF StopBegins
<1>2. lock' \in 0..NumUnits /\ mishaps' \subseteq Mishap
  BY AwaitsAssumption DEF RestOK, FlagsOK, DataOK, StopBegins, Noted, Mishap
<1> QED BY <1>1, <1>2, NoTimersOK DEF StopBegins

\* pauseAuto.
LEMMA PauseOK ==
  ASSUME RestOK, PauseEffects
  PROVE  /\ timers' \in [unit : 0..NumUnits, hard : BOOLEAN] /\ gap' \in BOOLEAN
         /\ timers'.hard => timers'.unit # 0
         /\ lock' \in 0..NumUnits /\ active' \in BOOLEAN /\ paused' \in BOOLEAN
<1>1. timers' = NoTimers
  BY DEF PauseEffects
<1>2. lock' \in 0..NumUnits
  BY AwaitsAssumption DEF PauseEffects
<1> QED BY <1>1, <1>2, NoTimersOK DEF PauseEffects

\* The finally blocks of dispatchNextUnit.
LEMMA UnwindOK ==
  ASSUME CallsOK, RestOK, NEW i \in Call, calls[i].at # "nowhere", Unwind(i)
  PROVE  CallsOK' /\ dispatching' \in BOOLEAN /\ skipDepth' \in Nat
<1>1. CallsOK'
  BY GoesOK DEF Unwind, Place, WithUnit
<1>2. skipDepth - calls[i].depth \in Int
  BY AtMeansInProgress DEF InProgress, CallRecord, RestOK, FlagsOK, DataOK
<1> QED BY <1>1, <1>2, DepthTyped DEF Unwind

\* stopAuto, called by dispatchNextUnit.
LEMMA StopsItselfOK ==
  ASSUME CallsOK, RestOK, NEW i \in Call, calls[i].at # "nowhere", StopsItself(i)
  PROVE  /\ CallsOK'
         /\ timers' \in [unit : 0..NumUnits, hard : BOOLEAN] /\ gap' \in BOOLEAN
         /\ timers'.hard => timers'.unit # 0
         /\ lock' \in 0..NumUnits /\ dispatching' \in BOOLEAN /\ skipDepth' \in Nat
         /\ mishaps' \subseteq Mishap
<1>1. CASE active \/ paused
  BY <1>1, GoesOK, StopBeginsOK DEF StopsItself, Place, WithUnit
<1>2. CASE ~(active \/ paused)
  BY <1>2, UnwindOK DEF StopsItself, timerVars, RestOK, FlagsOK, DataOK
<1> QED BY <1>1, <1>2

\* The end of the process.
LEMMA DiesOK ==
  ASSUME CallsOK, RestOK, Dies, UNCHANGED diskVars,
         mishaps' \subseteq Mishap,
         counters' \in [commands : 0..MaxCommands, troubles : 0..MaxTroubles, runs : Nat]
  PROVE  TInv'
<1>1. NoCall \in CallRecord
  BY AwaitsAssumption DEF NoCall, Made, CallRecord
<1>2. CallsOK'
  BY <1>1 DEF Dies, CallsOK
<1>3. RestOK'
  <2>1. timers' = NoTimers /\ UNCHANGED <<done, attempts, lock>>
    BY DEF Dies, diskVars
  <2>2. dispatchCount' \in [Unit -> 0..MAX_UNIT_DISPATCHES]
    BY AwaitsAssumption DEF Dies
  <2>3. /\ active' \in BOOLEAN /\ paused' \in BOOLEAN /\ cmdCtx' \in BOOLEAN
        /\ dispatching' \in BOOLEAN /\ handlingAgentEnd' \in BOOLEAN /\ gap' \in BOOLEAN
    BY Zenon DEF Dies
  <2>6. skipDepth' \in Nat /\ currentUnit' \in 0..NumUnits /\ agent' \in 0..NumUnits
    BY AwaitsAssumption DEF Dies
  <2>4. timers' \in [unit : 0..NumUnits, hard : BOOLEAN] /\ (timers'.hard => timers'.unit # 0)
    BY <2>1, NoTimersOK
  <2>5. lock' \in 0..NumUnits /\ done' \subseteq Unit /\ attempts' \in [Unit -> Nat]
    BY <2>1 DEF RestOK, FlagsOK, DataOK
  <2> QED BY <2>2, <2>3, <2>4, <2>5, <2>6 DEF RestOK, FlagsOK, DataOK
<1> QED BY <1>2, <1>3 DEF TInv

\* The counters of the bounds.
LEMMA CountOK ==
  ASSUME RestOK, NEW what \in {"commands", "troubles"}, Count(what),
         IF what = "commands" THEN counters.commands < MaxCommands
                              ELSE counters.troubles < MaxTroubles
  PROVE  counters' \in [commands : 0..MaxCommands, troubles : 0..MaxTroubles, runs : Nat]
BY AwaitsAssumption DEF RestOK, FlagsOK, DataOK, Count

\* The watchdog calls dispatchNextUnit for itself.
LEMMA GapFiresOK ==
  ASSUME CallsOK, RestOK, NEW i \in Call, GapFires(i)
  PROVE  CallsOK' /\ dispatching' \in BOOLEAN /\ mishaps' \subseteq Mishap
<1>1. InProgress(Made("gap", "settling"))
  BY AwaitsAssumption DEF InProgress, CallRecord, Made, By, Place, InDispatch, WithUnit
<1>2. CASE active /\ cmdCtx
  BY <1>1, <1>2, DispatchOK DEF GapFires
<1>3. CASE ~(active /\ cmdCtx)
  BY <1>3 DEF GapFires, CallsOK, RestOK, FlagsOK, DataOK
<1> QED BY <1>2, <1>3

\* A recovery starts from an armed timer.
LEMMA SleeperOK ==
  ASSUME RestOK, NEW by \in By, timers.unit # 0
  PROVE  InProgress(Sleeper(by))
<1>1. timers.unit \in Unit /\ attempts[timers.unit] \in Nat
  BY AwaitsAssumption DEF RestOK, DataOK, Unit
<1>2. Sleeper(by) \in CallRecord
  BY <1>1, AwaitsAssumption DEF Sleeper, CallRecord, Place, Unit
<1> QED BY <1>2 DEF InProgress, Sleeper, By

\* Every action keeps the types.
LEMMA TInvActions ==
  ASSUME TInv
  PROVE  Next => TInv'
<1> USE DEF modeVars, guardVars, unitVars, timerVars, diskVars
<1>0. CallsOK /\ RestOK
  BY DEF TInv
<1>1. ASSUME NEW i \in Call, StopRebuilt(i) PROVE TInv'
  <2>1. CallsOK'
    BY <1>1, <1>0, GoesOK DEF StopRebuilt, At, Place, InDispatch, WithUnit
  <2>2. FlagsOK'
    BY <1>1, <1>0 DEF StopRebuilt, RestOK, FlagsOK
  <2>3. DataOK'
    BY <1>1, <1>0, AwaitsAssumption DEF StopRebuilt, RestOK, DataOK
  <2> QED BY <2>1, <2>2, <2>3 DEF TInv, RestOK
<1>2. ASSUME NEW i \in Call, StopEnds(i) PROVE TInv'
  <2>1. CallsOK'
    BY <1>2, <1>0, GoesOK, FreesOK DEF StopEnds, At, Place, InDispatch, WithUnit
  <2>2. FlagsOK'
    BY <1>2, <1>0 DEF StopEnds, RestOK, FlagsOK
  <2>3. DataOK'
    BY <1>2, <1>0, AtMeansInProgress, DepthTyped DEF StopEnds, RestOK, DataOK, InProgress, CallRecord, At, Noted, Mishap
  <2> QED BY <2>1, <2>2, <2>3 DEF TInv, RestOK
<1>3. ASSUME NEW i \in Call, Activate(i) PROVE TInv'
  <2>1. CallsOK'
    BY <1>3, <1>0, GoesOK, FreesOK DEF Activate, At, Place, InDispatch, WithUnit
  <2>2. FlagsOK'
    BY <1>3, <1>0 DEF Activate, RestOK, FlagsOK
  <2>3. DataOK'
    <3>1. dispatchCount' \in [Unit -> 0..MAX_UNIT_DISPATCHES] /\ currentUnit' \in 0..NumUnits
      BY <1>3, <1>0, AwaitsAssumption DEF Activate, RestOK, DataOK
    <3>2. mishaps' \subseteq Mishap
      BY <1>3, <1>0 DEF Activate, RestOK, DataOK, Noted, Mishap
    <3>3. counters' \in [commands : 0..MaxCommands, troubles : 0..MaxTroubles, runs : Nat]
      BY <1>3, <1>0 DEF Activate, RestOK, DataOK, Count
    <3> QED BY <1>3, <1>0, <3>1, <3>2, <3>3 DEF Activate, RestOK, DataOK
  <2> QED BY <2>1, <2>2, <2>3 DEF TInv, RestOK
<1>4. ASSUME NEW i \in Call, Prepared(i) PROVE TInv'
  <2>1. CallsOK'
    BY <1>4, <1>0, AtMeansInProgress, DispatchOK DEF Prepared, At
  <2>2. RestOK'
    BY <1>4, <1>0, AtMeansInProgress, DispatchOK DEF Prepared, At, RestOK, FlagsOK, DataOK
  <2> QED BY <2>1, <2>2 DEF TInv
<1>5. ASSUME NEW i \in Call, Settled(i) PROVE TInv'
  <2>1. CallsOK'
    BY <1>5, <1>0, AtMeansInProgress, DispatchOK DEF Settled, At
  <2>2. RestOK'
    BY <1>5, <1>0, AtMeansInProgress, DispatchOK DEF Settled, At, RestOK, FlagsOK, DataOK
  <2> QED BY <2>1, <2>2 DEF TInv
<1>6. ASSUME NEW i \in Call, Skip(i) PROVE TInv'
  <2>1. CallsOK'
    BY <1>6, <1>0, GoesOK, AtMeansInProgress DEF Skip, InProgress, At, Place, InDispatch, WithUnit
  <2>2. RestOK'
    BY <1>6, <1>0 DEF Skip, RestOK, FlagsOK, DataOK
  <2> QED BY <2>1, <2>2 DEF TInv
<1>7. ASSUME NEW i \in Call, LoopDetected(i) PROVE TInv'
  <2>1. CallsOK'
    BY <1>7, <1>0, StopsItselfOK DEF LoopDetected, At
  <2>2. RestOK'
    BY <1>7, <1>0, StopsItselfOK DEF LoopDetected, At, RestOK, FlagsOK, DataOK
  <2> QED BY <2>1, <2>2 DEF TInv
<1>8. ASSUME NEW i \in Call, Announce(i) PROVE TInv'
  <2>1. CallsOK'
    BY <1>8, <1>0, GoesOK, AtMeansInProgress DEF Announce, InProgress, At, Place, InDispatch, WithUnit
  <2>2. FlagsOK'
    BY <1>8, <1>0 DEF Announce, RestOK, FlagsOK
  <2>3. DataOK'
    <3> DEFINE u == calls[i].unit
    <3>1. u \in 0..NumUnits
      BY <1>8, <1>0, AtMeansInProgress DEF Announce, InProgress, CallRecord, At
    <3>2. dispatchCount' \in [Unit -> 0..MAX_UNIT_DISPATCHES]
      BY <1>8, <1>0, AwaitsAssumption DEF Announce, RestOK, DataOK, WithinLimit
    <3>3. attempts' \in [Unit -> Nat]
      BY <1>8, <1>0 DEF Announce, RestOK, DataOK
    <3> QED BY <1>8, <1>0, <3>1, <3>2, <3>3 DEF Announce, RestOK, DataOK
  <2> QED BY <2>1, <2>2, <2>3 DEF TInv, RestOK
<1>9. ASSUME NEW i \in Call, Switched(i) PROVE TInv'
  <2>1. CallsOK'
    BY <1>9, <1>0, GoesOK, AtMeansInProgress DEF Switched, InProgress, At, Place, InDispatch, WithUnit
  <2>2. RestOK'
    BY <1>9, <1>0, AtMeansInProgress, AwaitsAssumption DEF Switched, RestOK, FlagsOK, DataOK, InProgress, CallRecord, At, Noted, Mishap
  <2> QED BY <2>1, <2>2 DEF TInv
<1>10. ASSUME NEW i \in Call, Send(i) PROVE TInv'
  <2>1. CallsOK'
    BY <1>10, <1>0, UnwindOK DEF Send, At
  <2>2. RestOK'
    BY <1>10, <1>0, UnwindOK, AtMeansInProgress, AwaitsAssumption DEF Send, RestOK, FlagsOK, DataOK, InProgress, CallRecord, At, Noted, Mishap, WithUnit
  <2> QED BY <2>1, <2>2 DEF TInv
<1>11. ASSUME NEW i \in Call, Cancelled(i) PROVE TInv'
  <2>1. CallsOK'
    BY <1>11, <1>0, StopsItselfOK DEF Cancelled, At
  <2>2. RestOK'
    BY <1>11, <1>0, StopsItselfOK, CountOK DEF Cancelled, At, RestOK, FlagsOK, DataOK
  <2> QED BY <2>1, <2>2 DEF TInv
<1>12. ASSUME NEW i \in Call, Throws(i) PROVE TInv'
  <2>1. CallsOK'
    BY <1>12, <1>0, GoesOK DEF Throws, At, Place, InDispatch, WithUnit
  <2>2. RestOK'
    BY <1>12, <1>0, CountOK DEF Throws, RestOK, FlagsOK, DataOK
  <2> QED BY <2>1, <2>2 DEF TInv
<1>13. ASSUME NEW i \in Call, EndReturns(i) PROVE TInv'
  <2>1. CallsOK'
    BY <1>13, <1>0, FreesOK DEF EndReturns
  <2>2. RestOK'
    BY <1>13, <1>0 DEF EndReturns, RestOK, FlagsOK, DataOK, LeftAlone, Undispatched
  <2> QED BY <2>1, <2>2 DEF TInv
<1>14. ASSUME NEW i \in Call, GapReturns(i) PROVE TInv'
  <2>1. CallsOK'
    BY <1>14, <1>0, FreesOK, MadeOK DEF GapReturns, By, Place, WithUnit, InDispatch
  <2>2. RestOK'
    BY <1>14, <1>0, StopBeginsOK DEF GapReturns, RestOK, FlagsOK, DataOK
  <2> QED BY <2>1, <2>2 DEF TInv
<1>15. ASSUME NEW i \in Call, StartReturns(i) PROVE TInv'
  <2>1. CallsOK'
    BY <1>15, <1>0, FreesOK DEF StartReturns
  <2>2. RestOK'
    BY <1>15, <1>0 DEF StartReturns, RestOK, FlagsOK, DataOK, Noted, Mishap
  <2> QED BY <2>1, <2>2 DEF TInv
<1>16. ASSUME NEW i \in Call, GapFires(i) PROVE TInv'
  <2>1. CallsOK'
    BY <1>16, <1>0, GapFiresOK
  <2>2. RestOK'
    BY <1>16, <1>0, GapFiresOK DEF GapFires, RestOK, FlagsOK, DataOK
  <2> QED BY <2>1, <2>2 DEF TInv
<1>17. ASSUME NEW i \in Call, Start(i) PROVE TInv'
  <2>1. CallsOK'
    BY <1>17, <1>0, MadeOK DEF Start, By, Place, WithUnit, InDispatch
  <2>2. RestOK'
    BY <1>17, <1>0, CountOK, AwaitsAssumption DEF Start, MayCommand, RestOK, FlagsOK, DataOK, Noted, Mishap
  <2> QED BY <2>1, <2>2 DEF TInv
<1>18. ASSUME NEW i \in Call, Resume(i) PROVE TInv'
  <2>1. CallsOK'
    BY <1>18, <1>0, MadeOK DEF Resume, By, Place, WithUnit, InDispatch
  <2>2. FlagsOK'
    BY <1>18, <1>0 DEF Resume, RestOK, FlagsOK
  <2>4. counters' \in [commands : 0..MaxCommands, troubles : 0..MaxTroubles, runs : Nat]
    <3>1. counters.commands + 1 \in 0..MaxCommands /\ counters.runs + 1 \in Nat
      BY <1>18, <1>0, AwaitsAssumption DEF Resume, MayCommand, RestOK, DataOK
    <3>2. counters' = [commands |-> counters.commands + 1, troubles |-> counters.troubles,
                       runs |-> counters.runs + 1]
      BY <1>18, <1>0 DEF Resume, RestOK, DataOK
    <3> QED BY <1>0, <3>1, <3>2 DEF RestOK, DataOK
  <2>3. DataOK'
    BY <1>18, <1>0, <2>4, AwaitsAssumption DEF Resume, RestOK, DataOK
  <2> QED BY <2>1, <2>2, <2>3 DEF TInv, RestOK
<1>19. ASSUME NEW i \in Call, Stop(i) PROVE TInv'
  <2>1. CallsOK'
    BY <1>19, <1>0, MadeOK DEF Stop, By, Place, WithUnit, InDispatch
  <2>2. RestOK'
    BY <1>19, <1>0, CountOK, StopBeginsOK DEF Stop, MayCommand, RestOK, FlagsOK, DataOK
  <2> QED BY <2>1, <2>2 DEF TInv
<1>20. ASSUME NEW i \in Call, RecoverPauses(i) PROVE TInv'
  <2>1. CallsOK'
    BY <1>20, <1>0, FreesOK DEF RecoverPauses
  <2>2. FlagsOK'
    BY <1>20, <1>0, PauseOK DEF RecoverPauses, RestOK, FlagsOK
  <2>3. DataOK'
    <3>0. calls[i].tries + 1 \in Nat /\ calls[i].unit \in Unit
      BY <1>20, <1>0, AtMeansInProgress
      DEF RecoverPauses, At, InProgress, CallRecord, WithUnit, Unit
    <3>1. attempts' \in [Unit -> Nat]
      <4>1. attempts' = [attempts EXCEPT ![calls[i].unit] = calls[i].tries + 1]
        BY <1>20 DEF RecoverPauses
      <4>2. attempts \in [Unit -> Nat]
        BY <1>0 DEF RestOK, DataOK
      <4> QED BY <3>0, <4>1, <4>2
    <3>2. CASE active
      BY <1>20, <1>0, <3>1, <3>2, PauseOK DEF RecoverPauses, RestOK, DataOK
    <3>3. CASE ~active
      BY <1>20, <1>0, <3>1, <3>3 DEF RecoverPauses, RestOK, DataOK
    <3> QED BY <3>2, <3>3
  <2> QED BY <2>1, <2>2, <2>3 DEF TInv, RestOK
<1>21. ASSUME HardPauses PROVE TInv'
  <2>1. CallsOK'
    BY <1>21, <1>0 DEF HardPauses, CallsOK
  <2>2. RestOK'
    BY <1>21, <1>0, PauseOK, CountOK DEF HardPauses, RestOK, FlagsOK, DataOK
  <2> QED BY <2>1, <2>2 DEF TInv
<1>22. ASSUME Pause PROVE TInv'
  <2>1. CallsOK'
    BY <1>22, <1>0 DEF Pause, CallsOK
  <2>2. RestOK'
    BY <1>22, <1>0, PauseOK, CountOK DEF Pause, MayCommand, RestOK, FlagsOK, DataOK
  <2> QED BY <2>1, <2>2 DEF TInv
<1>23. ASSUME AgentAborted PROVE TInv'
  <2>1. CallsOK'
    BY <1>23, <1>0 DEF AgentAborted, CallsOK
  <2>2. RestOK'
    BY <1>23, <1>0, PauseOK, CountOK, AwaitsAssumption DEF AgentAborted, RestOK, FlagsOK, DataOK
  <2> QED BY <2>1, <2>2 DEF TInv
<1>24. ASSUME AgentWrites PROVE TInv'
  <2>1. CallsOK'
    BY <1>24, <1>0 DEF AgentWrites, CallsOK
  <2>2. RestOK'
    BY <1>24, <1>0, AwaitsAssumption DEF AgentWrites, RestOK, FlagsOK, DataOK, Unit
  <2> QED BY <2>1, <2>2 DEF TInv
<1>25. ASSUME NEW i \in Call, Derived(i) PROVE TInv'
  <2>1. CASE done = Unit /\ StopsItself(i)
    BY <1>25, <1>0, <2>1, StopsItselfOK DEF Derived, At, RestOK, FlagsOK, DataOK, TInv
  <2>2. ASSUME NEW u \in Unit, calls' = [calls EXCEPT ![i].at = "gating", ![i].unit = u],
               UNCHANGED <<timerVars, lock, dispatching, skipDepth, mishaps>>
        PROVE  TInv'
    <3> DEFINE c == [calls[i] EXCEPT !.at = "gating", !.unit = u]
    <3>0. InProgress(calls[i])
      BY <1>25, <1>0, AtMeansInProgress DEF Derived, At
    <3>1. InProgress(c)
      <4>1. [calls[i] EXCEPT !.unit = u] \in CallRecord
        BY <3>0, AwaitsAssumption DEF InProgress, CallRecord, Unit
      <4>2. c = [[calls[i] EXCEPT !.unit = u] EXCEPT !.at = "gating"]
        BY <3>0 DEF InProgress, CallRecord
      <4>3. c \in CallRecord /\ c.at = "gating" /\ c.by = calls[i].by /\ c.unit = u
        BY <3>0, <4>1, <4>2 DEF InProgress, CallRecord, Place, InDispatch
      <4> QED BY <3>0, <4>3 DEF InProgress, Unit
    <3>2. calls' = [calls EXCEPT ![i] = c]
      BY <1>0, <2>2 DEF CallsOK
    <3> HIDE DEF c
    <3>3. CallsOK'
      BY <1>0, <3>1, <3>2, PutOK
    <3>4. RestOK'
      BY <1>25, <1>0, <2>2 DEF Derived, RestOK, FlagsOK, DataOK
    <3> QED BY <3>3, <3>4 DEF TInv
  <2> QED BY <1>25, <2>1, <2>2 DEF Derived
<1>26. ASSUME NEW i \in Call, Recurse(i) PROVE TInv'
  <2>1. CASE Enters(i)
    <3> DEFINE c == [calls[i] EXCEPT !.at = "deriving", !.depth = @ + 1, !.run = counters.runs]
    <3>0. InProgress(calls[i])
      BY <1>26, <1>0, AtMeansInProgress DEF Recurse, At
    <3>1. InProgress(c)
      <4> DEFINE d == [calls[i] EXCEPT !.depth = @ + 1, !.run = counters.runs]
      <4>0. counters.runs \in Nat
        BY <1>0 DEF RestOK, DataOK
      <4>1. d \in CallRecord
        <5>1. calls[i].depth + 1 \in Nat /\ calls[i] \in CallRecord
          BY <3>0 DEF InProgress, CallRecord
        <5> QED BY <4>0, <5>1 DEF CallRecord
      <4>2. c = [d EXCEPT !.at = "deriving"] /\ d.by = calls[i].by
        BY <3>0 DEF InProgress, CallRecord
      <4> HIDE DEF d
      <4>3. c \in CallRecord /\ c.at = "deriving" /\ c.by = calls[i].by
        BY <3>0, <4>1, <4>2 DEF InProgress, CallRecord, Place, InDispatch
      <4> QED BY <3>0, <4>3 DEF InProgress, WithUnit
    <3>2. calls' = [calls EXCEPT ![i] = c]
      BY <1>26, <1>0, <2>1 DEF Recurse, CallsOK
    <3> HIDE DEF c
    <3>3. CallsOK'
      BY <1>0, <3>1, <3>2, PutOK
    <3>4. FlagsOK'
      BY <1>26, <1>0, <2>1 DEF Recurse, RestOK, FlagsOK
    <3>5. DataOK'
      BY <1>26, <1>0, <2>1 DEF Recurse, RestOK, DataOK, Noted, Mishap
    <3> QED BY <3>3, <3>4, <3>5 DEF TInv, RestOK
  <2>2. CASE ~Enters(i)
    <3>1. CallsOK'
      BY <1>26, <1>0, <2>2, GoesOK DEF Recurse, At, Place, InDispatch, WithUnit
    <3>2. skipDepth - calls[i].depth - 1 \in Int
      BY <1>26, <1>0, AtMeansInProgress DEF Recurse, At, InProgress, CallRecord, RestOK, DataOK
    <3>3. skipDepth' \in Nat
      BY <1>26, <2>2, <3>2, DepthTyped DEF Recurse
    <3>4. FlagsOK'
      BY <1>26, <1>0, <2>2 DEF Recurse, RestOK, FlagsOK
    <3>5. DataOK'
      BY <1>26, <1>0, <2>2, <3>3 DEF Recurse, RestOK, DataOK
    <3> QED BY <3>1, <3>4, <3>5 DEF TInv, RestOK
  <2> QED BY <2>1, <2>2
<1>27. ASSUME NEW i \in Call, TimerReturns(i) PROVE TInv'
  <2>1. CASE calls[i].at = "threw"
    BY <1>27, <1>0, <2>1, DiesOK DEF TimerReturns, RestOK, DataOK, Mishap
  <2>2. CASE calls[i].at # "threw"
    <3>1. CallsOK'
      BY <1>27, <1>0, <2>2, FreesOK DEF TimerReturns
    <3>2. RestOK'
      BY <1>27, <1>0, <2>2 DEF TimerReturns, RestOK, FlagsOK, DataOK
    <3> QED BY <3>1, <3>2 DEF TInv
  <2> QED BY <2>1, <2>2
<1>28. ASSUME NEW i \in Call, RecoverThrows(i) PROVE TInv'
  BY <1>28, <1>0, DiesOK DEF RecoverThrows, RestOK, DataOK, Mishap
<1>29. ASSUME Crash PROVE TInv'
  <2>1. counters' \in [commands : 0..MaxCommands, troubles : 0..MaxTroubles, runs : Nat]
    BY <1>29, <1>0, CountOK DEF Crash
  <2> QED BY <1>29, <1>0, <2>1, DiesOK DEF Crash, RestOK, DataOK, Mishap
<1>30. ASSUME NEW i \in Call, AgentEnds(i) \/ ChatterEnds(i) PROVE TInv'
  <2>1. CallsOK'
    <3>1. CASE UNCHANGED calls
      BY <1>0, <3>1 DEF CallsOK
    <3>2. CASE calls' = [calls EXCEPT ![i] = Made("end", "settling")]
      BY <1>0, <3>2, MadeOK DEF By, Place, WithUnit, InDispatch
    <3> QED BY <1>30, <3>1, <3>2 DEF AgentEnds, ChatterEnds, Handled
  <2>2. FlagsOK'
    BY <1>30, <1>0 DEF AgentEnds, ChatterEnds, Handled, RestOK, FlagsOK
  <2>3. timers' \in [unit : 0..NumUnits, hard : BOOLEAN] /\ (timers'.hard => timers'.unit # 0)
    BY <1>30, <1>0, NoTimersOK DEF AgentEnds, ChatterEnds, Handled, RestOK, DataOK
  <2>4. counters' \in [commands : 0..MaxCommands, troubles : 0..MaxTroubles, runs : Nat]
    BY <1>30, <1>0, CountOK DEF AgentEnds, ChatterEnds, RestOK, DataOK
  <2>5. agent' \in 0..NumUnits
    BY <1>30, <1>0, AwaitsAssumption DEF AgentEnds, ChatterEnds, RestOK, DataOK
  <2>6. DataOK'
    BY <1>30, <1>0, <2>3, <2>4, <2>5 DEF AgentEnds, ChatterEnds, RestOK, DataOK
  <2> QED BY <2>1, <2>2, <2>6 DEF TInv, RestOK
<1>31. ASSUME NEW i \in Call, IdleFires(i) PROVE TInv'
  <2>1. calls' = [calls EXCEPT ![i] = Sleeper("idle")] /\ timers.unit # 0
    BY <1>31 DEF IdleFires
  <2>2. CallsOK'
    BY <1>0, <2>1, SleeperOK, PutOK DEF By
  <2>3. RestOK'
    BY <1>31, <1>0, CountOK DEF IdleFires, RestOK, FlagsOK, DataOK
  <2> QED BY <2>2, <2>3 DEF TInv
<1>32. ASSUME NEW i \in Call, HardFires(i) PROVE TInv'
  <2>1. timers.unit # 0
    BY <1>32, <1>0 DEF HardFires, RestOK, DataOK
  <2>2. CallsOK'
    BY <1>32, <1>0, <2>1, SleeperOK, PutOK DEF HardFires, By
  <2>3. RestOK'
    BY <1>32, <1>0, CountOK DEF HardFires, RestOK, FlagsOK, DataOK
  <2> QED BY <2>2, <2>3 DEF TInv
<1>33. ASSUME NEW i \in Call, Recover(i) PROVE TInv'
  <2> DEFINE u == calls[i].unit
  <2>1. InProgress(calls[i]) /\ u \in Unit /\ calls[i].tries + 1 \in Nat
    BY <1>33, <1>0, AtMeansInProgress DEF Recover, At, InProgress, CallRecord, WithUnit, Unit
  <2>2. CallsOK' /\ dispatching' \in BOOLEAN /\ mishaps' \subseteq Mishap
    <3>1. CASE Dispatch(i, calls[i])
      BY <1>0, <2>1, <3>1, DispatchOK
    <3>2. CASE Frees(i) /\ UNCHANGED dispatching /\ Noted(Mistaken(i), "mistaken")
      BY <1>0, <3>2, FreesOK DEF RestOK, FlagsOK, DataOK, Noted, Mishap
    <3> QED BY <1>33, <3>1, <3>2 DEF Recover
  <2>3. attempts' \in [Unit -> Nat]
    BY <1>33, <1>0, <2>1 DEF Recover, RestOK, DataOK
  <2>4. done' \subseteq Unit /\ agent' \in 0..NumUnits
    <3>1. u \in 0..NumUnits
      BY <2>1, AwaitsAssumption DEF Unit
    <3>2. done' \subseteq done \union {u} /\ agent' \in {agent, u}
      BY <1>33 DEF Recover
    <3> QED BY <1>0, <2>1, <3>1, <3>2 DEF RestOK, DataOK
  <2>5. FlagsOK'
    BY <1>33, <1>0, <2>2 DEF Recover, RestOK, FlagsOK
  <2>6. DataOK'
    BY <1>33, <1>0, <2>2, <2>3, <2>4 DEF Recover, RestOK, DataOK
  <2> QED BY <2>2, <2>5, <2>6 DEF TInv, RestOK
<1> QED
  BY <1>1, <1>2, <1>3, <1>4, <1>5, <1>6, <1>7, <1>8, <1>9, <1>10, <1>11, <1>12, <1>13, <1>14,
     <1>15, <1>16, <1>17, <1>18, <1>19, <1>20, <1>21, <1>22, <1>23, <1>24, <1>25, <1>26, <1>27,
     <1>28, <1>29, <1>30, <1>31, <1>32, <1>33
  DEF Next, Step, Event, Returns

\* The invariant of the types.
LEMMA TInvInit == Init => TInv
<1> SUFFICES ASSUME Init PROVE TInv
  OBVIOUS
<1>1. CallsOK
  BY AwaitsAssumption DEF Init, CallsOK, NoCall, Made, CallRecord
<1>2. FlagsOK
  BY Zenon DEF Init, FlagsOK
<1>3. DataOK
  BY NoTimersOK, AwaitsAssumption DEF Init, DataOK
<1> QED BY <1>1, <1>2, <1>3 DEF TInv, RestOK

\* The types are inductive.
LEMMA TInvNext == TInv /\ [Next]_vars => TInv'
<1>1. TInv /\ UNCHANGED vars => TInv'
  BY DEF TInv, CallsOK, RestOK, FlagsOK, DataOK, vars, modeVars, guardVars, unitVars, timerVars,
         diskVars
<1> QED BY <1>1, TInvActions

\* The dispatch counters never pass their limit, and every call, timer, lock and record
\* speaks of a unit that exists, for any number of calls that overtake each other.
THEOREM AwaitsTypes == Spec => []TypeOK
<1> QED BY TInvInit, TInvNext, TInvTypes, PTL DEF Spec

-----------------------------------------------------------------------------
(* One dispatcher at a time                                                    *)

\* A dispatch that is stopping auto-mode itself.
Stopping(c) == c.by # "stop" /\ c.at \in {"rebuilding", "restoring"}

\* While nothing has opened the guard, the one call in dispatchNextUnit holds it, and there
\* is none besides a dispatch that stops auto-mode.
Exclusive ==
  "unguarded" \notin mishaps =>
    /\ \A i, j \in Dispatchers : i = j
    /\ Dispatchers # {} => dispatching
    /\ (\E j \in Call : Stopping(calls[j])) => Dispatchers = {}

\* What a step does to the slots of the calls.
LEMMA PutMoves ==
  ASSUME CallsOK, NEW i \in Call, NEW c, calls' = [calls EXCEPT ![i] = c]
  PROVE  calls'[i] = c /\ \A j \in Call \ {i} : calls'[j] = calls[j]
BY DEF CallsOK

\* A call that goes on keeps its caller.
LEMMA GoesMoves ==
  ASSUME CallsOK, NEW i \in Call, NEW at, calls[i].at # "nowhere", Goes(i, at)
  PROVE  /\ calls'[i].at = at /\ calls'[i].by = calls[i].by
         /\ \A j \in Call \ {i} : calls'[j] = calls[j]
<1>1. InProgress(calls[i])
  BY AtMeansInProgress
<1> QED BY <1>1 DEF CallsOK, Goes, InProgress, CallRecord

\* A step that takes no call into dispatchNextUnit, and none out of it.
LEMMA QuietKeeps ==
  ASSUME Exclusive, NEW i \in Call, \A j \in Call \ {i} : calls'[j] = calls[j],
         calls'[i].at \in InDispatch <=> calls[i].at \in InDispatch,
         Stopping(calls'[i]) => Stopping(calls[i]),
         dispatching => dispatching', mishaps \subseteq mishaps'
  PROVE  Exclusive'
<1>1. Dispatchers' = Dispatchers
  BY DEF Dispatchers
<1>2. (\E j \in Call : Stopping(calls'[j])) => \E j \in Call : Stopping(calls[j])
  OBVIOUS
<1>3. (\E j \in Call : Stopping(calls[j]))' <=> \E j \in Call : Stopping(calls'[j])
  BY DEF Stopping
<1> QED BY <1>1, <1>2, <1>3 DEF Exclusive

\* A step that concerns no call.
LEMMA StutterKeeps ==
  ASSUME Exclusive, UNCHANGED <<calls, dispatching>>, mishaps \subseteq mishaps'
  PROVE  Exclusive'
BY DEF Exclusive, Dispatchers, Stopping

\* A step of the dispatcher that leaves dispatchNextUnit: nobody is in it afterwards.
LEMMA LeavingKeeps ==
  ASSUME Exclusive, NEW i \in Call, i \in Dispatchers \/ Stopping(calls[i]),
         \A j \in Call \ {i} : calls'[j] = calls[j],
         calls'[i].at \notin InDispatch, mishaps \subseteq mishaps'
  PROVE  Exclusive'
<1>1. "unguarded" \notin mishaps' => Dispatchers' = {}
  <2> SUFFICES ASSUME "unguarded" \notin mishaps, NEW j \in Call, calls'[j].at \in InDispatch
               PROVE  FALSE
    BY DEF Dispatchers
  <2>1. j # i /\ j \in Dispatchers
    BY DEF Dispatchers
  <2> QED BY <2>1 DEF Exclusive
<1> QED BY <1>1 DEF Exclusive

\* A stop of somebody else: it notes that it opens the guard if anybody is in.
LEMMA StoppingKeeps ==
  ASSUME Exclusive, NEW i \in Call, StopBegins(i),
         \A j \in Call \ {i} : calls'[j] = calls[j], calls'[i].at \notin InDispatch
  PROVE  Exclusive'
<1>1. "unguarded" \notin mishaps' => Dispatchers' = {}
  BY DEF StopBegins, Noted, Dispatchers
<1> QED BY <1>1 DEF Exclusive

\* A call of dispatchNextUnit: past the guard when nobody is in, or noted.
LEMMA DispatchKeeps ==
  ASSUME CallsOK, Exclusive, NEW i \in Call, i \notin Dispatchers, NEW c, InProgress(c), Dispatch(i, c)
  PROVE  Exclusive'
<1>1. CASE Enters(i) /\ ~GuardOpen(i)
  <2>1. /\ calls' = [calls EXCEPT ![i] = [c EXCEPT !.at = "deriving", !.run = counters.runs]]
        /\ dispatching' = TRUE /\ mishaps \subseteq mishaps'
    BY <1>1 DEF Dispatch
  <2>2. \A j \in Call \ {i} : calls'[j] = calls[j]
    BY <2>1, PutMoves
  <2>3. calls'[i].at = "deriving"
    <3>1. [c EXCEPT !.at = "deriving", !.run = counters.runs].at = "deriving"
      BY DEF InProgress, CallRecord
    <3> QED BY <2>1, <3>1, PutMoves
  <2>4. "unguarded" \notin mishaps => Dispatchers = {}
    BY <1>1 DEF Enters, GuardOpen, Exclusive
  <2>5. "unguarded" \notin mishaps => Dispatchers' = {i}
    BY <2>2, <2>3, <2>4 DEF Dispatchers, InDispatch
  <2>6. \A j \in Call : ~Stopping(calls'[j])
    BY <1>1, <2>2, <2>3 DEF GuardOpen, Stopping
  <2>7. ~(\E j \in Call : Stopping(calls[j]))'
    BY <2>6 DEF Stopping
  <2> QED BY <2>1, <2>5, <2>7 DEF Exclusive
<1>2. CASE Enters(i) /\ GuardOpen(i)
  BY <1>2 DEF Dispatch, Exclusive
<1>3. CASE ~Enters(i)
  <2>1. calls' = [calls EXCEPT ![i] = [c EXCEPT !.at = "returned"]]
        /\ UNCHANGED <<dispatching, mishaps>>
    BY <1>3 DEF Dispatch
  <2>2. calls'[i].at = "returned" /\ \A j \in Call \ {i} : calls'[j] = calls[j]
    <3>1. [c EXCEPT !.at = "returned"].at = "returned"
      BY DEF InProgress, CallRecord
    <3> QED BY <2>1, <3>1, PutMoves
  <2> QED BY <2>1, <2>2, QuietKeeps DEF Dispatchers, InDispatch, Stopping
<1> QED BY <1>1, <1>2, <1>3

\* A stop of auto-mode by the dispatcher itself.
LEMMA StopsItselfKeeps ==
  ASSUME CallsOK, Exclusive, NEW i \in Call, i \in Dispatchers, StopsItself(i)
  PROVE  Exclusive'
<1>1. calls[i].at # "nowhere" /\ calls[i].at \in InDispatch
  BY DEF Dispatchers, InDispatch
<1>2. \E at \in {"rebuilding", "returned"} : Goes(i, at)
  BY DEF StopsItself, Unwind
<1>3. /\ \A j \in Call \ {i} : calls'[j] = calls[j]
      /\ calls'[i].at \notin InDispatch
  BY <1>1, <1>2, GoesMoves DEF InDispatch
<1>4. mishaps \subseteq mishaps'
  BY DEF StopsItself, StopBegins, Noted
<1> QED BY <1>3, <1>4, LeavingKeeps

\* A process that has just started has no calls in progress.
LEMMA DiesKeeps ==
  ASSUME Dies
  PROVE  Exclusive'
<1>1. \A i \in Call : calls'[i] = NoCall
  BY DEF Dies
<1>2. Dispatchers' = {}
  BY <1>1 DEF Dispatchers, NoCall, Made, InDispatch
<1>3. \A i \in Call : ~Stopping(calls'[i])
  BY <1>1 DEF Stopping, NoCall, Made
<1> QED BY <1>2, <1>3 DEF Exclusive, Stopping

\* A call goes on to a place outside or within dispatchNextUnit, or is over, or begins.
LEMMA GoesKeeps ==
  ASSUME CallsOK, Exclusive, NEW i \in Call, calls[i].at # "nowhere", NEW at, Goes(i, at),
         at \in InDispatch <=> calls[i].at \in InDispatch,
         at \notin {"rebuilding", "restoring"} \/ calls[i].at = "rebuilding",
         dispatching' = dispatching, mishaps \subseteq mishaps'
  PROVE  Exclusive'
BY GoesMoves, QuietKeeps DEF Stopping

\* A call begins outside dispatchNextUnit.
LEMMA PutKeeps ==
  ASSUME CallsOK, Exclusive, NEW i \in Call, calls[i].at \notin InDispatch, NEW c,
         calls' = [calls EXCEPT ![i] = c], c.at \notin InDispatch, ~Stopping(c),
         dispatching' = dispatching, mishaps \subseteq mishaps'
  PROVE  Exclusive'
BY PutMoves, QuietKeeps

\* A call outside dispatchNextUnit returns.
LEMMA FreesKeeps ==
  ASSUME CallsOK, Exclusive, NEW i \in Call, calls[i].at \notin InDispatch, Frees(i),
         dispatching' = dispatching, mishaps \subseteq mishaps'
  PROVE  Exclusive'
BY PutKeeps DEF Frees, NoCall, Made, InDispatch, Stopping

\* Every action keeps the dispatcher alone.
LEMMA ExclusiveActions ==
  ASSUME TInv, Exclusive
  PROVE  Next => Exclusive'
<1>0. CallsOK /\ RestOK
  BY DEF TInv
<1> USE <1>0 DEF guardVars
<1>1. ASSUME NEW i \in Call, StopRebuilt(i) PROVE Exclusive'
  BY <1>1, GoesKeeps DEF StopRebuilt, At, InDispatch
<1>2. ASSUME NEW i \in Call, StopEnds(i) PROVE Exclusive'
  <2>1. CASE calls[i].by = "stop"
    BY <1>2, <2>1, FreesKeeps DEF StopEnds, At, InDispatch, Noted
  <2>2. CASE calls[i].by # "stop"
    <3>1. Stopping(calls[i]) /\ Goes(i, "returned") /\ mishaps \subseteq mishaps'
      BY <1>2, <2>2 DEF StopEnds, At, Stopping, Noted
    <3>2. calls'[i].at \notin InDispatch /\ \A j \in Call \ {i} : calls'[j] = calls[j]
      BY <3>1, GoesMoves DEF Stopping, InDispatch
    <3> QED BY <3>1, <3>2, LeavingKeeps
  <2> QED BY <2>1, <2>2
<1>3. ASSUME NEW i \in Call, Activate(i) PROVE Exclusive'
  <2>1. calls[i].at = "starting" /\ dispatching' = dispatching /\ mishaps \subseteq mishaps'
    BY <1>3 DEF Activate, At, Noted
  <2>2. Frees(i) \/ Goes(i, "preparing")
    BY <1>3 DEF Activate
  <2> QED BY <2>1, <2>2, FreesKeeps, GoesKeeps DEF InDispatch
<1>4. ASSUME NEW i \in Call, Prepared(i) \/ Settled(i) PROVE Exclusive'
  <2>1. i \notin Dispatchers /\ calls[i].at # "nowhere" /\ Dispatch(i, calls[i])
    BY <1>4 DEF Prepared, Settled, At, Dispatchers, InDispatch
  <2> QED BY <2>1, AtMeansInProgress, DispatchKeeps
<1>5. ASSUME NEW i \in Call, Derived(i) PROVE Exclusive'
  <2>1. i \in Dispatchers /\ calls[i].at = "deriving"
    BY <1>5 DEF Derived, At, Dispatchers, InDispatch
  <2>2. CASE StopsItself(i)
    BY <2>1, <2>2, StopsItselfKeeps
  <2>3. ASSUME NEW u \in Unit, calls' = [calls EXCEPT ![i].at = "gating", ![i].unit = u],
               UNCHANGED <<dispatching, mishaps>>
        PROVE  Exclusive'
    <3>1. InProgress(calls[i])
      BY <2>1, AtMeansInProgress
    <3>2. /\ calls'[i].at = "gating" /\ \A j \in Call \ {i} : calls'[j] = calls[j]
      BY <2>3, <3>1 DEF CallsOK, InProgress, CallRecord
    <3> QED BY <2>1, <2>3, <3>2, QuietKeeps DEF InDispatch, Stopping
  <2> QED BY <1>5, <2>2, <2>3 DEF Derived
<1>6. ASSUME NEW i \in Call, Skip(i) \/ Announce(i) \/ Switched(i) PROVE Exclusive'
  <2>1. /\ calls[i].at \in InDispatch /\ calls[i].at # "nowhere"
        /\ dispatching' = dispatching /\ mishaps \subseteq mishaps'
    BY <1>6 DEF Skip, Announce, Switched, At, InDispatch, Noted
  <2>2. \E at \in {"skipping", "switching", "selecting"} : Goes(i, at)
    BY <1>6 DEF Skip, Announce, Switched
  <2> QED BY <2>1, <2>2, GoesKeeps DEF InDispatch
<1>7. ASSUME NEW i \in Call, Recurse(i) PROVE Exclusive'
  <2>1. i \in Dispatchers /\ calls[i].at = "skipping" /\ mishaps \subseteq mishaps'
    BY <1>7 DEF Recurse, At, Dispatchers, InDispatch, Noted
  <2>2. CASE Enters(i)
    <3>1. InProgress(calls[i])
      BY <2>1, AtMeansInProgress
    <3>2. calls'[i].at = "deriving" /\ \A j \in Call \ {i} : calls'[j] = calls[j]
      BY <1>7, <2>2, <3>1 DEF Recurse, CallsOK, InProgress, CallRecord
    <3>3. dispatching' = TRUE
      BY <1>7, <2>2 DEF Recurse
    <3> QED BY <2>1, <3>2, <3>3, QuietKeeps DEF InDispatch, Stopping
  <2>3. CASE ~Enters(i)
    <3>1. Goes(i, "returned")
      BY <1>7, <2>3 DEF Recurse
    <3> QED BY <2>1, <3>1, GoesMoves, LeavingKeeps DEF InDispatch
  <2> QED BY <2>2, <2>3
<1>8. ASSUME NEW i \in Call, LoopDetected(i) \/ Cancelled(i) PROVE Exclusive'
  <2>1. i \in Dispatchers /\ StopsItself(i)
    BY <1>8 DEF LoopDetected, Cancelled, At, Dispatchers, InDispatch
  <2> QED BY <2>1, StopsItselfKeeps
<1>9. ASSUME NEW i \in Call, Send(i) \/ Throws(i) PROVE Exclusive'
  <2>1. i \in Dispatchers /\ calls[i].at # "nowhere" /\ mishaps \subseteq mishaps'
    BY <1>9 DEF Send, Throws, At, Dispatchers, InDispatch, Noted
  <2>2. Goes(i, "returned") \/ Goes(i, "threw")
    BY <1>9 DEF Send, Throws, Unwind
  <2> QED BY <2>1, <2>2, GoesMoves, LeavingKeeps DEF InDispatch
<1>10. ASSUME NEW i \in Call, EndReturns(i) \/ StartReturns(i) PROVE Exclusive'
  BY <1>10, FreesKeeps DEF EndReturns, StartReturns, InDispatch, Noted
<1>11. ASSUME NEW i \in Call, GapReturns(i) PROVE Exclusive'
  <2>1. CASE Frees(i) /\ UNCHANGED <<dispatching, mishaps>>
    BY <1>11, <2>1, FreesKeeps DEF GapReturns, InDispatch
  <2>2. CASE calls' = [calls EXCEPT ![i] = Made("stop", "rebuilding")] /\ StopBegins(i)
    <3>1. calls'[i] = Made("stop", "rebuilding") /\ \A j \in Call \ {i} : calls'[j] = calls[j]
      BY <2>2, PutMoves
    <3>2. calls'[i].at \notin InDispatch
      BY <3>1 DEF Made, InDispatch
    <3> QED BY <2>2, <3>1, <3>2, StoppingKeeps
  <2> QED BY <1>11, <2>1, <2>2 DEF GapReturns
<1>12. ASSUME NEW i \in Call, TimerReturns(i) PROVE Exclusive'
  BY <1>12, DiesKeeps, FreesKeeps DEF TimerReturns, InDispatch
<1>13. ASSUME NEW i \in Call, RecoverThrows(i) PROVE Exclusive'
  BY <1>13, DiesKeeps DEF RecoverThrows
<1>14. ASSUME NEW i \in Call, GapFires(i) PROVE Exclusive'
  <2>1. CASE active /\ cmdCtx
    <3>1. InProgress(Made("gap", "settling")) /\ i \notin Dispatchers
      BY <1>14, AwaitsAssumption
      DEF GapFires, Free, NoCall, Dispatchers, InProgress, CallRecord, Made, By, Place,
          InDispatch, WithUnit
    <3> QED BY <1>14, <2>1, <3>1, DispatchKeeps DEF GapFires
  <2>2. CASE ~(active /\ cmdCtx)
    BY <1>14, <2>2, StutterKeeps DEF GapFires
  <2> QED BY <2>1, <2>2
<1>15. ASSUME NEW i \in Call, AgentEnds(i) \/ ChatterEnds(i) PROVE Exclusive'
  <2>1. calls[i].at \notin InDispatch /\ UNCHANGED <<dispatching, mishaps>>
    BY <1>15 DEF AgentEnds, ChatterEnds, Free, NoCall, Made, InDispatch
  <2>2. UNCHANGED calls \/ calls' = [calls EXCEPT ![i] = Made("end", "settling")]
    BY <1>15 DEF AgentEnds, ChatterEnds, Handled
  <2> QED BY <2>1, <2>2, StutterKeeps, PutKeeps DEF Made, InDispatch, Stopping
<1>16. ASSUME NEW i \in Call, IdleFires(i) \/ HardFires(i) PROVE Exclusive'
  <2>1. calls[i].at \notin InDispatch /\ UNCHANGED <<dispatching, mishaps>>
    BY <1>16 DEF IdleFires, HardFires, Free, NoCall, Made, InDispatch
  <2>2. \E c \in {NoCall, Sleeper("idle"), Sleeper("hard")} : calls' = [calls EXCEPT ![i] = c]
    BY <1>16 DEF IdleFires, HardFires
  <2> QED BY <2>1, <2>2, PutKeeps DEF NoCall, Made, Sleeper, InDispatch, Stopping
<1>17. ASSUME NEW i \in Call, Start(i) \/ Resume(i) PROVE Exclusive'
  <2>1. calls[i].at \notin InDispatch /\ dispatching' = dispatching /\ mishaps \subseteq mishaps'
    BY <1>17 DEF Start, Resume, Free, NoCall, Made, InDispatch, Noted
  <2>2. \E at \in {"starting", "preparing"} : calls' = [calls EXCEPT ![i] = Made("start", at)]
    BY <1>17 DEF Start, Resume
  <2> QED BY <2>1, <2>2, PutKeeps DEF Made, InDispatch, Stopping
<1>18. ASSUME NEW i \in Call, Stop(i) PROVE Exclusive'
  <2>1. calls'[i] = Made("stop", "rebuilding") /\ \A j \in Call \ {i} : calls'[j] = calls[j]
    BY <1>18, PutMoves DEF Stop
  <2>2. calls'[i].at \notin InDispatch
    BY <2>1 DEF Made, InDispatch
  <2> QED BY <1>18, <2>1, <2>2, StoppingKeeps DEF Stop
<1>19. ASSUME NEW i \in Call, Recover(i) PROVE Exclusive'
  <2>1. i \notin Dispatchers /\ calls[i].at \notin InDispatch /\ calls[i].at # "nowhere"
    BY <1>19 DEF Recover, At, Dispatchers, InDispatch
  <2>2. CASE Dispatch(i, calls[i])
    BY <2>1, <2>2, AtMeansInProgress, DispatchKeeps
  <2>3. CASE Frees(i) /\ UNCHANGED dispatching /\ Noted(Mistaken(i), "mistaken")
    BY <2>1, <2>3, FreesKeeps DEF Noted
  <2> QED BY <1>19, <2>2, <2>3 DEF Recover
<1>20. ASSUME NEW i \in Call, RecoverPauses(i) PROVE Exclusive'
  BY <1>20, FreesKeeps DEF RecoverPauses, At, InDispatch
<1>21. ASSUME HardPauses \/ Pause \/ AgentAborted \/ AgentWrites PROVE Exclusive'
  BY <1>21, StutterKeeps DEF HardPauses, Pause, AgentAborted, AgentWrites
<1>22. ASSUME Crash PROVE Exclusive'
  BY <1>22, DiesKeeps DEF Crash
<1> QED
  BY <1>1, <1>2, <1>3, <1>4, <1>5, <1>6, <1>7, <1>8, <1>9, <1>10, <1>11, <1>12, <1>13, <1>14,
     <1>15, <1>16, <1>17, <1>18, <1>19, <1>20, <1>21, <1>22
  DEF Next, Step, Event, Returns

\* There is no call at the start.
LEMMA ExclusiveInit == Init => Exclusive
BY DEF Init, Exclusive, Dispatchers, Stopping, NoCall, Made, InDispatch

\* The invariant contains the property.
LEMMA ExclusiveMeansOne == TInv /\ Exclusive => OneDispatcher
<1> SUFFICES ASSUME Exclusive, "unguarded" \notin mishaps PROVE ~(Cardinality(Dispatchers) > 1)
  BY DEF OneDispatcher
<1>1. Dispatchers = {} \/ \E i : Dispatchers = {i}
  BY DEF Exclusive
<1>2. Cardinality(Dispatchers) \in {0, 1}
  <2>1. CASE Dispatchers = {}
    BY <2>1, FS_EmptySet
  <2>2. ASSUME NEW i, Dispatchers = {i} PROVE Cardinality(Dispatchers) = 1
    BY <2>2, FS_Singleton
  <2> QED BY <1>1, <2>1, <2>2
<1> QED BY <1>2

\* Two calls of dispatchNextUnit never choose and send units at the same time unless a stop
\* or a chain of skips has opened the guard under a call in progress: whatever the number of
\* calls, commands and timers, and wherever they meet.
THEOREM DispatchersAreOne == Spec => []OneDispatcher
<1>1. TInv /\ Exclusive /\ [Next]_vars => Exclusive'
  <2>1. Exclusive /\ UNCHANGED vars => Exclusive'
    BY StutterKeeps DEF vars, guardVars
  <2> QED BY <2>1, ExclusiveActions
<1> QED BY <1>1, TInvInit, TInvNext, ExclusiveInit, ExclusiveMeansOne, PTL DEF Spec

-----------------------------------------------------------------------------
(* What a lock file tells                                                      *)

\* The lock is that of an active run which nobody is about to stop, but for crashes and for
\* sessions that got ready too late.
LockTold ==
  mishaps \cap {"outlived", "died"} = {} /\ lock # 0
    => active /\ \A i \in Call : calls[i].at # "rebuilding"

\* A step that leaves the lock, does not end the run and begins no stop.
LEMMA LockKept ==
  ASSUME LockTold, lock' = lock \/ lock' = 0, active => active', mishaps \subseteq mishaps',
         \A i \in Call : calls'[i].at = "rebuilding" => calls[i].at = "rebuilding"
  PROVE  LockTold'
BY DEF LockTold

\* A step after which there is no lock.
LEMMA LockGone ==
  ASSUME lock' = 0
  PROVE  LockTold'
BY DEF LockTold

\* A call that goes on to a place where no stop begins.
LEMMA NoStopBegins ==
  ASSUME CallsOK, NEW i \in Call
  PROVE  /\ \A at \in Place \ {"rebuilding"} : calls[i].at # "nowhere" /\ Goes(i, at)
              => \A j \in Call : calls'[j].at = "rebuilding" => calls[j].at = "rebuilding"
         /\ \A c : c.at # "rebuilding" /\ calls' = [calls EXCEPT ![i] = c]
              => \A j \in Call : calls'[j].at = "rebuilding" => calls[j].at = "rebuilding"
         /\ Frees(i) => \A j \in Call : calls'[j].at = "rebuilding" => calls[j].at = "rebuilding"
<1>1. ASSUME NEW at \in Place \ {"rebuilding"}, calls[i].at # "nowhere", Goes(i, at),
             NEW j \in Call, calls'[j].at = "rebuilding"
      PROVE  calls[j].at = "rebuilding"
  BY <1>1, GoesMoves
<1>2. ASSUME NEW c, c.at # "rebuilding", calls' = [calls EXCEPT ![i] = c],
             NEW j \in Call, calls'[j].at = "rebuilding"
      PROVE  calls[j].at = "rebuilding"
  BY <1>2, PutMoves
<1>3. NoCall.at # "rebuilding"
  BY DEF NoCall, Made
<1> QED BY <1>1, <1>2, <1>3 DEF Frees

\* A dispatch begins no stop.
LEMMA DispatchBeginsNoStop ==
  ASSUME CallsOK, NEW i \in Call, NEW c, InProgress(c), Dispatch(i, c)
  PROVE  /\ \A j \in Call : calls'[j].at = "rebuilding" => calls[j].at = "rebuilding"
         /\ mishaps \subseteq mishaps'
<1>1. /\ [c EXCEPT !.at = "deriving"].at = "deriving"
      /\ [c EXCEPT !.at = "returned"].at = "returned"
  BY DEF InProgress, CallRecord
<1>2. \E d : d.at # "rebuilding" /\ calls' = [calls EXCEPT ![i] = d]
  BY <1>1 DEF Dispatch
<1> QED BY <1>2, NoStopBegins DEF Dispatch

\* When dispatchNextUnit stops auto-mode the lock is gone.
LEMMA StopsItselfTold ==
  ASSUME CallsOK, LockTold, NEW i \in Call, calls[i].at # "nowhere", StopsItself(i),
         active' = active
  PROVE  LockTold'
<1>1. CASE active \/ paused
  BY <1>1, LockGone DEF StopsItself, StopBegins
<1>2. CASE ~(active \/ paused)
  BY <1>2, NoStopBegins, LockKept DEF StopsItself, Unwind, Place
<1> QED BY <1>1, <1>2

\* Every action keeps the meaning of the lock.
LEMMA LockToldActions ==
  ASSUME TInv, LockTold
  PROVE  Next => LockTold'
<1>0. CallsOK /\ RestOK
  BY DEF TInv
<1> USE <1>0 DEF modeVars, diskVars
<1> DEFINE NoneBegins ==
             \A j \in Call : calls'[j].at = "rebuilding" => calls[j].at = "rebuilding"
<1>1. ASSUME NEW i \in Call, StopRebuilt(i) PROVE LockTold'
  BY <1>1 DEF StopRebuilt, At, LockTold
<1>2. ASSUME NEW i \in Call, StopEnds(i) PROVE LockTold'
  <2>1. NoneBegins
    BY <1>2, NoStopBegins DEF StopEnds, At, Place
  <2> QED BY <1>2, <2>1, LockKept DEF StopEnds, Noted
<1>3. ASSUME NEW i \in Call, Activate(i) PROVE LockTold'
  <2>1. NoneBegins
    BY <1>3, NoStopBegins DEF Activate, At, Place
  <2> QED BY <1>3, <2>1, LockKept DEF Activate, Noted
<1>4. ASSUME NEW i \in Call, Prepared(i) \/ Settled(i) PROVE LockTold'
  <2>1. calls[i].at # "nowhere" /\ Dispatch(i, calls[i])
    BY <1>4 DEF Prepared, Settled, At
  <2>2. NoneBegins /\ mishaps \subseteq mishaps'
    BY <2>1, AtMeansInProgress, DispatchBeginsNoStop
  <2> QED BY <1>4, <2>2, LockKept DEF Prepared, Settled
<1>5. ASSUME NEW i \in Call, Derived(i) PROVE LockTold'
  <2>1. calls[i].at # "nowhere" /\ active' = active
    BY <1>5 DEF Derived, At
  <2>2. CASE StopsItself(i)
    BY <2>1, <2>2, StopsItselfTold
  <2>3. ASSUME NEW u \in Unit, calls' = [calls EXCEPT ![i].at = "gating", ![i].unit = u],
               UNCHANGED <<lock, mishaps>>
        PROVE  LockTold'
    <3>1. InProgress(calls[i])
      BY <2>1, AtMeansInProgress
    <3>2. NoneBegins
      BY <2>3, <3>1 DEF CallsOK, InProgress, CallRecord
    <3> QED BY <2>1, <2>3, <3>2, LockKept
  <2> QED BY <1>5, <2>2, <2>3 DEF Derived
<1>6. ASSUME NEW i \in Call, Skip(i) \/ Announce(i) \/ Throws(i) PROVE LockTold'
  <2>1. /\ calls[i].at # "nowhere" /\ lock' = lock /\ active' = active /\ mishaps' = mishaps
        /\ \E at \in {"skipping", "switching", "threw"} : Goes(i, at)
    BY <1>6 DEF Skip, Announce, Throws, At
  <2>2. NoneBegins
    BY <2>1, NoStopBegins DEF Place, InDispatch
  <2> QED BY <2>1, <2>2, LockKept
<1>7. ASSUME NEW i \in Call, Switched(i) PROVE LockTold'
  <2>1. CASE Outlives(i)
    BY <1>7, <2>1 DEF Switched, Noted, LockTold
  <2>2. CASE ~Outlives(i)
    <3>1. NoneBegins
      BY <1>7, NoStopBegins DEF Switched, At, Place, InDispatch
    <3>2. active' /\ \A j \in Call : calls[j].at # "rebuilding"
      BY <1>7, <2>2 DEF Switched, Outlives
    <3> QED BY <3>1, <3>2 DEF LockTold
  <2> QED BY <2>1, <2>2
<1>8. ASSUME NEW i \in Call, Recurse(i) PROVE LockTold'
  <2>1. calls[i].at # "nowhere" /\ lock' = lock /\ active' = active /\ mishaps \subseteq mishaps'
    BY <1>8 DEF Recurse, At, Noted
  <2>2. InProgress(calls[i])
    BY <2>1, AtMeansInProgress
  <2>3. CASE Enters(i)
    <3>1. NoneBegins
      BY <1>8, <2>2, <2>3 DEF Recurse, CallsOK, InProgress, CallRecord
    <3> QED BY <2>1, <3>1, LockKept
  <2>4. CASE ~Enters(i)
    <3>1. NoneBegins
      BY <1>8, <2>1, <2>4, NoStopBegins DEF Recurse, Place
    <3> QED BY <2>1, <3>1, LockKept
  <2> QED BY <2>3, <2>4
<1>9. ASSUME NEW i \in Call, LoopDetected(i) \/ Cancelled(i) PROVE LockTold'
  <2>1. calls[i].at # "nowhere" /\ active' = active /\ StopsItself(i)
    BY <1>9 DEF LoopDetected, Cancelled, At
  <2> QED BY <2>1, StopsItselfTold
<1>10. ASSUME NEW i \in Call, Send(i) PROVE LockTold'
  <2>1. NoneBegins
    BY <1>10, NoStopBegins DEF Send, Unwind, At, Place
  <2> QED BY <1>10, <2>1, LockKept DEF Send, Noted
<1>11. ASSUME NEW i \in Call, EndReturns(i) \/ StartReturns(i) PROVE LockTold'
  <2>1. NoneBegins
    BY <1>11, NoStopBegins DEF EndReturns, StartReturns
  <2> QED BY <1>11, <2>1, LockKept DEF EndReturns, StartReturns, Noted
<1>12. ASSUME NEW i \in Call, GapReturns(i) PROVE LockTold'
  <2>1. CASE StopBegins(i)
    BY <2>1, LockGone DEF StopBegins
  <2>2. CASE Frees(i) /\ UNCHANGED <<timerVars, lock, dispatching, skipDepth, mishaps>>
    <3>1. NoneBegins
      BY <2>2, NoStopBegins
    <3> QED BY <1>12, <2>2, <3>1, LockKept DEF GapReturns
  <2> QED BY <1>12, <2>1, <2>2 DEF GapReturns
<1>13. ASSUME NEW i \in Call, TimerReturns(i) PROVE LockTold'
  <2>1. CASE calls[i].at = "threw"
    BY <1>13, <2>1 DEF TimerReturns, LockTold
  <2>2. CASE calls[i].at # "threw"
    <3>1. NoneBegins
      BY <1>13, <2>2, NoStopBegins DEF TimerReturns
    <3> QED BY <1>13, <2>2, <3>1, LockKept DEF TimerReturns
  <2> QED BY <2>1, <2>2
<1>14. ASSUME NEW i \in Call, RecoverThrows(i) \/ Crash PROVE LockTold'
  BY <1>14 DEF RecoverThrows, Crash, LockTold
<1>15. ASSUME NEW i \in Call, GapFires(i) PROVE LockTold'
  <2>1. NoneBegins /\ mishaps \subseteq mishaps'
    <3>1. InProgress(Made("gap", "settling"))
      BY AwaitsAssumption
      DEF InProgress, CallRecord, Made, By, Place, InDispatch, WithUnit
    <3> QED BY <1>15, <3>1, DispatchBeginsNoStop DEF GapFires
  <2> QED BY <1>15, <2>1, LockKept DEF GapFires
<1>16. ASSUME NEW i \in Call, AgentEnds(i) \/ ChatterEnds(i) PROVE LockTold'
  <2>1. UNCHANGED calls \/ calls' = [calls EXCEPT ![i] = Made("end", "settling")]
    BY <1>16 DEF AgentEnds, ChatterEnds, Handled
  <2>2. NoneBegins
    BY <2>1, NoStopBegins DEF Made
  <2> QED BY <1>16, <2>2, LockKept DEF AgentEnds, ChatterEnds
<1>17. ASSUME NEW i \in Call, IdleFires(i) \/ HardFires(i) PROVE LockTold'
  <2>1. \E c \in {NoCall, Sleeper("idle"), Sleeper("hard")} : calls' = [calls EXCEPT ![i] = c]
    BY <1>17 DEF IdleFires, HardFires
  <2>2. NoneBegins
    BY <2>1, NoStopBegins DEF NoCall, Made, Sleeper
  <2> QED BY <1>17, <2>2, LockKept DEF IdleFires, HardFires
<1>18. ASSUME NEW i \in Call, Start(i) \/ Stop(i) PROVE LockTold'
  BY <1>18, LockGone DEF Start, Stop, StopBegins
<1>19. ASSUME NEW i \in Call, Resume(i) PROVE LockTold'
  <2>1. NoneBegins
    BY <1>19, NoStopBegins DEF Resume, Made
  <2> QED BY <1>19, <2>1, LockKept DEF Resume
<1>20. ASSUME NEW i \in Call, Recover(i) PROVE LockTold'
  <2>1. calls[i].at # "nowhere"
    BY <1>20 DEF Recover, At
  <2>2. NoneBegins /\ mishaps \subseteq mishaps'
    <3>1. CASE Dispatch(i, calls[i])
      BY <2>1, <3>1, AtMeansInProgress, DispatchBeginsNoStop
    <3>2. CASE Frees(i) /\ Noted(Mistaken(i), "mistaken")
      BY <3>2, NoStopBegins DEF Noted
    <3> QED BY <1>20, <3>1, <3>2 DEF Recover
  <2> QED BY <1>20, <2>2, LockKept DEF Recover
<1>21. ASSUME NEW i \in Call, RecoverPauses(i) PROVE LockTold'
  <2>1. NoneBegins
    BY <1>21, NoStopBegins DEF RecoverPauses
  <2> QED BY <1>21, <2>1, LockKept, LockGone DEF RecoverPauses, PauseEffects
<1>22. ASSUME HardPauses \/ Pause \/ AgentAborted \/ AgentWrites PROVE LockTold'
  BY <1>22, LockKept, LockGone DEF HardPauses, Pause, AgentAborted, AgentWrites, PauseEffects
<1> QED
  BY <1>1, <1>2, <1>3, <1>4, <1>5, <1>6, <1>7, <1>8, <1>9, <1>10, <1>11, <1>12, <1>13, <1>14,
     <1>15, <1>16, <1>17, <1>18, <1>19, <1>20, <1>21, <1>22, AwaitsAssumption
  DEF Next, Step, Event, Returns, Call

\* A lock file found while auto-mode is not active is that of a crash, or of a session that
\* got ready after the run was stopped: there is no third way, however the calls interleave.
THEOREM LocksMeanCrashes == Spec => []LockMeansCrash
<1>1. Init => LockTold
  BY DEF Init, LockTold
<1>2. TInv /\ LockTold /\ [Next]_vars => LockTold'
  <2>1. LockTold /\ UNCHANGED vars => LockTold'
    BY DEF LockTold, vars, modeVars, diskVars
  <2> QED BY <2>1, LockToldActions
<1>3. LockTold => LockMeansCrash
  BY DEF LockTold, LockMeansCrash
<1> QED BY <1>1, <1>2, <1>3, TInvInit, TInvNext, PTL DEF Spec

-----------------------------------------------------------------------------
(* An active run is attended to                                                *)

\* What no step takes back.
LEMMA OnlyGrow ==
  ASSUME TInv
  PROVE  Next => /\ mishaps \subseteq mishaps' /\ done \subseteq done'
                 /\ counters'.runs \in Nat /\ counters.runs <= counters'.runs
<1> USE DEF diskVars
<1>0. counters.runs \in Nat
  BY DEF TInv, RestOK, DataOK
<1>1. ASSUME NEW i \in Call, Step(i)
      PROVE  mishaps \subseteq mishaps' /\ done \subseteq done'
  <2>1. CASE StopRebuilt(i) \/ StopEnds(i) \/ Activate(i)
    BY <2>1 DEF StopRebuilt, StopEnds, Activate, Noted
  <2>2. CASE Prepared(i) \/ Settled(i)
    BY <2>2 DEF Prepared, Settled, Dispatch
  <2>3. CASE Derived(i) \/ LoopDetected(i)
    BY <2>3 DEF Derived, LoopDetected, StopsItself, StopBegins, Noted
  <2>4. CASE Skip(i) \/ Recurse(i) \/ Announce(i) \/ Switched(i) \/ Send(i)
    BY <2>4 DEF Skip, Recurse, Announce, Switched, Send, Noted
  <2>5. CASE Recover(i) \/ RecoverThrows(i)
    BY <2>5 DEF Recover, RecoverThrows, Dispatch, Noted
  <2>6. CASE Returns(i)
    BY <2>6 DEF Returns, EndReturns, GapReturns, StartReturns, TimerReturns, StopBegins, Noted
  <2> QED BY <1>1, <2>1, <2>2, <2>3, <2>4, <2>5, <2>6 DEF Step
<1>2. ASSUME NEW i \in Call, Event(i)
      PROVE  mishaps \subseteq mishaps' /\ done \subseteq done'
  BY <1>2 DEF Event, AgentEnds, ChatterEnds, GapFires, IdleFires, HardFires, Dispatch
<1>3. ASSUME NEW i \in Call, \/ Start(i) \/ Resume(i) \/ Stop(i)
                             \/ Cancelled(i) \/ Throws(i) \/ RecoverPauses(i)
      PROVE  mishaps \subseteq mishaps' /\ done \subseteq done'
  BY <1>3 DEF Start, Resume, Stop, Cancelled, Throws, RecoverPauses, StopsItself, StopBegins, Noted
<1>4. ASSUME HardPauses \/ Pause \/ AgentAborted \/ AgentWrites \/ Crash
      PROVE  mishaps \subseteq mishaps' /\ done \subseteq done'
  BY <1>4 DEF HardPauses, Pause, AgentAborted, AgentWrites, Crash
<1>5. ASSUME \E what \in {"commands", "troubles", "runs"} : Count(what)
      PROVE  counters'.runs \in {counters.runs, counters.runs + 1}
  BY <1>5 DEF Count, TInv, RestOK, DataOK
<1>6. ASSUME NEW i \in Call, Resume(i)
      PROVE  counters'.runs = counters.runs + 1
  BY <1>6 DEF Resume, TInv, RestOK, DataOK
<1>7. Next => \/ \E what \in {"commands", "troubles", "runs"} : Count(what)
              \/ UNCHANGED counters
              \/ \E i \in Call : Resume(i)
  <2>1. ASSUME NEW i \in Call, Step(i)
        PROVE  UNCHANGED counters \/ Count("runs")
    BY <2>1
    DEF Step, Returns, StopRebuilt, StopEnds, Activate, Prepared, Settled, Derived, LoopDetected,
        Skip, Recurse, Announce, Switched, Send, Recover, RecoverThrows, EndReturns, GapReturns,
        StartReturns, TimerReturns
  <2>2. ASSUME NEW i \in Call, Event(i)
        PROVE  UNCHANGED counters \/ Count("troubles")
    BY <2>2 DEF Event, AgentEnds, ChatterEnds, GapFires, IdleFires, HardFires
  <2>3. ASSUME NEW i \in Call, \/ Start(i) \/ Stop(i)
                               \/ Cancelled(i) \/ Throws(i) \/ RecoverPauses(i)
        PROVE  UNCHANGED counters \/ Count("troubles") \/ Count("commands")
    BY <2>3 DEF Start, Stop, Cancelled, Throws, RecoverPauses
  <2>4. ASSUME HardPauses \/ Pause \/ AgentAborted \/ AgentWrites \/ Crash
        PROVE  UNCHANGED counters \/ Count("troubles") \/ Count("commands")
    BY <2>4 DEF HardPauses, Pause, AgentAborted, AgentWrites, Crash
  <2> QED BY <2>1, <2>2, <2>3, <2>4 DEF Next
<1>8. Next => counters'.runs \in {counters.runs, counters.runs + 1}
  BY <1>5, <1>6, <1>7
<1>9. Next => counters'.runs \in Nat /\ counters.runs <= counters'.runs
  BY <1>0, <1>8
<1> QED BY <1>1, <1>2, <1>3, <1>4, <1>9 DEF Next

\* What a call in progress relies on: it got in before now, only a turn that has ended is
\* handled by "end", and the units before the one that it has chosen are done.
Consistent ==
  \A i \in Call :
    /\ calls[i].run <= counters.runs
    /\ calls[i].by = "end" => calls[i].at \notin {"starting", "sleeping"}
    /\ calls[i].at \in {"gating", "switching", "selecting"} => 1..(calls[i].unit - 1) \subseteq done

\* A call that is put in its slot.
LEMMA ConsistentPut ==
  ASSUME TInv, Consistent, NEW i \in Call, NEW c, calls' = [calls EXCEPT ![i] = c],
         done \subseteq done', counters.runs \in Nat, counters'.runs \in Nat,
         counters.runs <= counters'.runs,
         c.run <= counters'.runs, c.by = "end" => c.at \notin {"starting", "sleeping"},
         c.at \in {"gating", "switching", "selecting"} => 1..(c.unit - 1) \subseteq done'
  PROVE  Consistent'
<1>1. calls'[i] = c /\ \A j \in Call \ {i} : calls'[j] = calls[j]
  BY PutMoves DEF TInv
<1>2. ASSUME NEW j \in Call \ {i}
      PROVE  calls'[j].run <= counters'.runs
  <2>1. calls[j].run \in Nat /\ calls[j].run <= counters.runs
    BY DEF TInv, CallsOK, CallRecord, Consistent
  <2> QED BY <1>1, <2>1
<1>3. ASSUME NEW j \in Call \ {i}
      PROVE  /\ calls'[j].by = "end" => calls'[j].at \notin {"starting", "sleeping"}
             /\ calls'[j].at \in {"gating", "switching", "selecting"}
                  => 1..(calls'[j].unit - 1) \subseteq done'
  BY <1>1 DEF Consistent
<1> QED BY <1>1, <1>2, <1>3 DEF Consistent

\* A step that leaves the calls alone.
LEMMA ConsistentStays ==
  ASSUME TInv, Consistent, calls' = calls,
         done \subseteq done', counters.runs \in Nat, counters'.runs \in Nat,
         counters.runs <= counters'.runs
  PROVE  Consistent'
<1>1. ASSUME NEW j \in Call
      PROVE  calls'[j].run <= counters'.runs
  <2>1. calls[j].run \in Nat /\ calls[j].run <= counters.runs
    BY DEF TInv, CallsOK, CallRecord, Consistent
  <2> QED BY <2>1
<1> QED BY <1>1 DEF Consistent

\* A call that goes on, other than to choose a unit or to use it.
LEMMA ConsistentGoes ==
  ASSUME TInv, Consistent, NEW i \in Call, NEW at, calls[i].at # "nowhere", Goes(i, at),
         done \subseteq done', counters.runs \in Nat, counters'.runs \in Nat,
         counters.runs <= counters'.runs,
         at \notin {"gating", "starting", "sleeping"},
         at \in {"switching", "selecting"} => calls[i].at \in {"gating", "switching"}
  PROVE  Consistent'
<1> DEFINE c == [calls[i] EXCEPT !.at = at]
<1>1. InProgress(calls[i])
  BY AtMeansInProgress DEF TInv
<1>2. c.at = at /\ c.run = calls[i].run /\ c.by = calls[i].by /\ c.unit = calls[i].unit
  BY <1>1 DEF InProgress, CallRecord
<1>3. calls' = [calls EXCEPT ![i] = c]
  BY DEF Goes, TInv, CallsOK
<1>4. c.run <= counters'.runs
  <2>1. calls[i].run \in Nat /\ calls[i].run <= counters.runs
    BY <1>1 DEF InProgress, CallRecord, Consistent
  <2> QED BY <1>2, <2>1
<1>5. c.at \in {"gating", "switching", "selecting"} => 1..(c.unit - 1) \subseteq done'
  BY <1>2 DEF Consistent
<1>6. c.by = "end" => c.at \notin {"starting", "sleeping"}
  BY <1>2
<1> HIDE DEF c
<1> QED BY <1>3, <1>4, <1>5, <1>6, ConsistentPut

\* A call of dispatchNextUnit.
LEMMA ConsistentDispatch ==
  ASSUME TInv, Consistent, NEW i \in Call, NEW c, InProgress(c), c.run <= counters.runs, Dispatch(i, c),
         done \subseteq done', counters' = counters, counters.runs \in Nat
  PROVE  Consistent'
<1>0. /\ counters'.runs \in Nat
      /\ counters.runs <= counters'.runs /\ c.run <= counters'.runs
  OBVIOUS
<1>1. CASE Enters(i)
  <2> DEFINE d == [c EXCEPT !.at = "deriving", !.run = counters.runs]
  <2>1. d.at = "deriving" /\ d.run = counters.runs
    BY DEF InProgress, CallRecord
  <2>2. calls' = [calls EXCEPT ![i] = d]
    BY <1>1 DEF Dispatch
  <2>3. d.run <= counters'.runs
    BY <1>0, <2>1
  <2> HIDE DEF d
  <2> QED BY <1>0, <2>1, <2>2, <2>3, ConsistentPut
<1>2. CASE ~Enters(i)
  <2> DEFINE d == [c EXCEPT !.at = "returned"]
  <2>1. d.at = "returned" /\ d.run = c.run
    BY DEF InProgress, CallRecord
  <2>2. calls' = [calls EXCEPT ![i] = d]
    BY <1>2 DEF Dispatch
  <2>3. d.run <= counters'.runs
    BY <1>0, <2>1
  <2> HIDE DEF d
  <2> QED BY <1>0, <2>1, <2>2, <2>3, ConsistentPut
<1> QED BY <1>1, <1>2

\* A call that is over, and one that begins.
LEMMA ConsistentMade ==
  ASSUME TInv, Consistent, NEW i \in Call, NEW by, NEW at, by = "end" => at \notin {"starting", "sleeping"},
         at \notin {"gating", "switching", "selecting"},
         calls' = [calls EXCEPT ![i] = Made(by, at)],
         done \subseteq done', counters.runs \in Nat, counters'.runs \in Nat,
         counters.runs <= counters'.runs
  PROVE  Consistent'
<1> DEFINE c == Made(by, at)
<1>1. c.by = by /\ c.at = at /\ c.run = 0
  BY DEF Made
<1>2. calls' = [calls EXCEPT ![i] = c]
  OBVIOUS
<1>3. c.run <= counters'.runs
  BY <1>1
<1> HIDE DEF c
<1> QED BY <1>1, <1>2, <1>3, ConsistentPut

\* Every action keeps the calls consistent.
LEMMA ConsistentActions ==
  ASSUME TInv, Consistent
  PROVE  Next => Consistent'
<1> SUFFICES ASSUME Next PROVE Consistent'
  OBVIOUS
<1>0. /\ CallsOK /\ RestOK /\ mishaps \subseteq mishaps' /\ done \subseteq done'
      /\ counters.runs \in Nat /\ counters'.runs \in Nat /\ counters.runs <= counters'.runs
  BY OnlyGrow DEF TInv, RestOK, DataOK
<1> USE <1>0
<1>1. ASSUME NEW i \in Call, StopRebuilt(i) PROVE Consistent'
  BY <1>1, ConsistentGoes DEF StopRebuilt, At
<1>2. ASSUME NEW i \in Call, Frees(i) PROVE Consistent'
  BY <1>2, ConsistentMade DEF Frees, NoCall
<1>3. ASSUME NEW i \in Call, StopEnds(i) PROVE Consistent'
  BY <1>2, <1>3, ConsistentGoes DEF StopEnds, At
<1>4. ASSUME NEW i \in Call, Activate(i) PROVE Consistent'
  BY <1>2, <1>4, ConsistentGoes DEF Activate, At
<1>5. ASSUME NEW i \in Call, calls[i].at # "nowhere", Dispatch(i, calls[i]), counters' = counters
      PROVE  Consistent'
  <2>1. InProgress(calls[i]) /\ calls[i].run <= counters.runs
    BY <1>5, AtMeansInProgress DEF Consistent
  <2> QED BY <1>5, <2>1, ConsistentDispatch
<1>6. ASSUME NEW i \in Call, Prepared(i) \/ Settled(i) PROVE Consistent'
  BY <1>5, <1>6 DEF Prepared, Settled, At
<1>7. ASSUME NEW i \in Call, calls[i].at # "nowhere", StopsItself(i) PROVE Consistent'
  <2>1. \E at \in {"rebuilding", "returned"} : Goes(i, at)
    BY <1>7 DEF StopsItself, Unwind
  <2> QED BY <1>7, <2>1, ConsistentGoes
<1>8. ASSUME NEW i \in Call, Derived(i) PROVE Consistent'
  <2>1. CASE StopsItself(i)
    BY <1>7, <1>8, <2>1 DEF Derived, At
  <2>2. ASSUME NEW u \in Unit, NextUnit(u),
               calls' = [calls EXCEPT ![i].at = "gating", ![i].unit = u]
        PROVE  Consistent'
    <3> DEFINE c == [calls[i] EXCEPT !.at = "gating", !.unit = u]
    <3>1. InProgress(calls[i])
      BY <1>8, AtMeansInProgress DEF Derived, At
    <3>2. c.at = "gating" /\ c.unit = u /\ c.run = calls[i].run
      BY <3>1 DEF InProgress, CallRecord
    <3>3. calls' = [calls EXCEPT ![i] = c]
      BY <2>2 DEF CallsOK
    <3>4. c.run <= counters'.runs
      <4>1. calls[i].run \in Nat /\ calls[i].run <= counters.runs
        BY <3>1 DEF InProgress, CallRecord, Consistent
      <4> QED BY <3>2, <4>1
    <3>5. 1..(c.unit - 1) \subseteq done'
      BY <2>2, <3>2 DEF NextUnit
    <3> HIDE DEF c
    <3> QED BY <3>2, <3>3, <3>4, <3>5, ConsistentPut
  <2> QED BY <1>8, <2>1, <2>2 DEF Derived
<1>9. ASSUME NEW i \in Call, Skip(i) \/ Throws(i) PROVE Consistent'
  BY <1>9, ConsistentGoes DEF Skip, Throws, At
<1>10. ASSUME NEW i \in Call, Recurse(i) PROVE Consistent'
  <2>1. CASE ~Enters(i)
    BY <1>10, <2>1, ConsistentGoes DEF Recurse, At
  <2>2. CASE Enters(i)
    <3> DEFINE c == [calls[i] EXCEPT !.at = "deriving", !.depth = @ + 1, !.run = counters.runs]
    <3>1. InProgress(calls[i])
      BY <1>10, AtMeansInProgress DEF Recurse, At
    <3>2. c.at = "deriving" /\ c.run = counters.runs
      BY <3>1 DEF InProgress, CallRecord
    <3>3. calls' = [calls EXCEPT ![i] = c]
      BY <1>10, <2>2 DEF Recurse, CallsOK
    <3>4. c.run <= counters'.runs
      BY <3>2
    <3> HIDE DEF c
    <3> QED BY <3>2, <3>3, <3>4, ConsistentPut
  <2> QED BY <2>1, <2>2
<1>11. ASSUME NEW i \in Call, LoopDetected(i) \/ Cancelled(i) PROVE Consistent'
  BY <1>7, <1>11 DEF LoopDetected, Cancelled, At
<1>12. ASSUME NEW i \in Call, Announce(i) \/ Switched(i) PROVE Consistent'
  BY <1>12, ConsistentGoes DEF Announce, Switched, At
<1>13. ASSUME NEW i \in Call, Send(i) PROVE Consistent'
  BY <1>13, ConsistentGoes DEF Send, Unwind, At
<1>14. ASSUME NEW i \in Call, EndReturns(i) \/ StartReturns(i) PROVE Consistent'
  BY <1>2, <1>14 DEF EndReturns, StartReturns
<1>15. ASSUME NEW i \in Call, GapReturns(i) PROVE Consistent'
  BY <1>2, <1>15, ConsistentMade DEF GapReturns
<1>16. ASSUME Dies PROVE Consistent'
  <2>1. \A j \in Call : calls'[j] = NoCall
    BY <1>16 DEF Dies
  <2> QED BY <2>1 DEF Consistent, NoCall, Made
<1>17. ASSUME NEW i \in Call, TimerReturns(i) \/ RecoverThrows(i) PROVE Consistent'
  BY <1>2, <1>16, <1>17 DEF TimerReturns, RecoverThrows
<1>18. ASSUME NEW i \in Call, Recover(i) PROVE Consistent'
  <2>1. calls[i].at # "nowhere" /\ counters' = counters
    BY <1>18 DEF Recover, At
  <2> QED BY <1>2, <1>5, <1>18, <2>1 DEF Recover
<1>19. ASSUME NEW i \in Call, AgentEnds(i) \/ ChatterEnds(i) PROVE Consistent'
  <2>1. calls' = calls \/ calls' = [calls EXCEPT ![i] = Made("end", "settling")]
    BY <1>19 DEF AgentEnds, ChatterEnds, Handled
  <2> QED BY <2>1, ConsistentMade, ConsistentStays
<1>20. ASSUME NEW i \in Call, GapFires(i) PROVE Consistent'
  <2>1. CASE active /\ cmdCtx
    <3>1. InProgress(Made("gap", "settling")) /\ Made("gap", "settling").run <= counters.runs
      BY AwaitsAssumption DEF InProgress, CallRecord, Made, By, Place, InDispatch, WithUnit
    <3> QED BY <1>20, <2>1, <3>1, ConsistentDispatch DEF GapFires
  <2>2. CASE ~(active /\ cmdCtx)
    BY <1>20, <2>2, ConsistentStays DEF GapFires
  <2> QED BY <2>1, <2>2
<1>21. ASSUME NEW i \in Call, NEW by \in {"idle", "hard"},
              calls' = [calls EXCEPT ![i] = Sleeper(by)]
       PROVE  Consistent'
  <2>1. Sleeper(by).run <= counters'.runs
    BY DEF Sleeper
  <2> QED BY <1>21, <2>1, ConsistentPut DEF Sleeper
<1>22. ASSUME NEW i \in Call, IdleFires(i) \/ HardFires(i) PROVE Consistent'
  BY <1>2, <1>21, <1>22 DEF IdleFires, HardFires, Frees
<1>23. ASSUME NEW i \in Call, Start(i) \/ Resume(i) \/ Stop(i) PROVE Consistent'
  BY <1>23, ConsistentMade DEF Start, Resume, Stop
<1>24. ASSUME NEW i \in Call, RecoverPauses(i) PROVE Consistent'
  BY <1>2, <1>24 DEF RecoverPauses
<1>25. ASSUME HardPauses \/ Pause \/ AgentAborted \/ AgentWrites PROVE Consistent'
  BY <1>25, ConsistentStays DEF HardPauses, Pause, AgentAborted, AgentWrites
<1> QED
  BY <1>1, <1>3, <1>4, <1>6, <1>8, <1>9, <1>10, <1>11, <1>12, <1>13, <1>14, <1>15, <1>16, <1>17,
     <1>18, <1>19, <1>20, <1>22, <1>23, <1>24, <1>25
  DEF Next, Step, Event, Returns, Crash

\* An active run has its context, but for the end of a stop that came too late.
HasContext == active /\ "expired" \notin mishaps => cmdCtx

\* Every action keeps the context.
LEMMA HasContextActions ==
  ASSUME TInv, HasContext
  PROVE  Next => HasContext'
<1> USE DEF modeVars
<1>0. Next => mishaps \subseteq mishaps'
  BY OnlyGrow
<1>1. ASSUME active' => active, cmdCtx' = cmdCtx, Next PROVE HasContext'
  BY <1>0, <1>1 DEF HasContext
<1>2. ASSUME ~active' \/ cmdCtx' PROVE HasContext'
  BY <1>2 DEF HasContext
<1>3. ASSUME NEW i \in Call, Step(i), Next PROVE HasContext'
  <2>1. CASE StopRebuilt(i) \/ Activate(i) \/ StopEnds(i)
    BY <1>1, <1>2, <1>3, <2>1 DEF StopRebuilt, Activate, StopEnds, Noted, HasContext
  <2>2. CASE Recover(i) \/ RecoverThrows(i) \/ Returns(i)
    BY <1>1, <1>2, <1>3, <2>2
    DEF Recover, RecoverThrows, Dies, Returns, EndReturns, GapReturns, StartReturns, TimerReturns
  <2>3. CASE ~(\/ StopRebuilt(i) \/ Activate(i) \/ StopEnds(i) \/ Recover(i) \/ RecoverThrows(i)
               \/ Returns(i))
    BY <1>1, <1>3, <2>3
    DEF Step, Prepared, Settled, Derived, Skip, Recurse, LoopDetected, Announce, Switched, Send
  <2> QED BY <2>1, <2>2, <2>3
<1>4. ASSUME NEW i \in Call, Event(i), Next PROVE HasContext'
  BY <1>1, <1>4 DEF Event, AgentEnds, ChatterEnds, GapFires, IdleFires, HardFires
<1>5. ASSUME NEW i \in Call, Next, \/ Start(i) \/ Resume(i) \/ Stop(i)
                                   \/ Cancelled(i) \/ Throws(i) \/ RecoverPauses(i)
      PROVE HasContext'
  BY <1>1, <1>2, <1>5 DEF Start, Resume, Stop, Cancelled, Throws, RecoverPauses, PauseEffects
<1>6. ASSUME Next, HardPauses \/ Pause \/ AgentAborted \/ AgentWrites \/ Crash
      PROVE HasContext'
  BY <1>1, <1>2, <1>6 DEF HardPauses, Pause, AgentAborted, AgentWrites, Crash, PauseEffects, Dies
<1> QED BY <1>3, <1>4, <1>5, <1>6 DEF Next

\* While the end of a turn is being handled, the call that handles it is there.
EndPending == handlingAgentEnd => \E i \in Call : calls[i].by = "end"

\* A step in which no such call is over.
LEMMA EndStays ==
  ASSUME EndPending, handlingAgentEnd' => handlingAgentEnd,
         \A j \in Call : calls[j].by = "end" => calls'[j].by = "end"
  PROVE  EndPending'
BY DEF EndPending

\* A slot that is given to another call.
LEMMA EndStaysPut ==
  ASSUME TInv, EndPending, NEW i \in Call, NEW c, calls' = [calls EXCEPT ![i] = c],
         calls[i].by = "end" => c.by = "end", handlingAgentEnd' => handlingAgentEnd
  PROVE  EndPending'
<1>1. \A j \in Call : calls[j].by = "end" => calls'[j].by = "end"
  BY PutMoves DEF TInv
<1> QED BY <1>1, EndStays

\* A call that goes on.
LEMMA EndStaysGoes ==
  ASSUME TInv, EndPending, NEW i \in Call, NEW at, calls[i].at # "nowhere", Goes(i, at),
         handlingAgentEnd' => handlingAgentEnd
  PROVE  EndPending'
<1>1. \A j \in Call : calls[j].by = "end" => calls'[j].by = "end"
  BY GoesMoves DEF TInv
<1> QED BY <1>1, EndStays

\* A call that begins in a free slot.
LEMMA EndStaysFree ==
  ASSUME TInv, EndPending, NEW i \in Call, Free(i), NEW c, calls' = [calls EXCEPT ![i] = c],
         handlingAgentEnd' => handlingAgentEnd
  PROVE  EndPending'
<1>1. calls[i].by # "end"
  BY DEF Free, NoCall, Made
<1> QED BY <1>1, EndStaysPut

\* Every action keeps the one that handles the end of a turn.
LEMMA EndPendingActions ==
  ASSUME TInv, EndPending, Consistent
  PROVE  Next => EndPending'
<1> SUFFICES ASSUME Next PROVE EndPending'
  OBVIOUS
<1>0. CallsOK
  BY DEF TInv
<1> USE <1>0 DEF guardVars
<1>1. ASSUME NEW i \in Call, StopRebuilt(i) \/ EndReturns(i) PROVE EndPending'
  BY <1>1 DEF StopRebuilt, EndReturns, EndPending
<1>2. ASSUME NEW i \in Call, Frees(i), calls[i].by # "end", handlingAgentEnd' = handlingAgentEnd
      PROVE  EndPending'
  BY <1>2, EndStaysPut DEF Frees
<1>3. ASSUME NEW i \in Call, StopEnds(i) PROVE EndPending'
  BY <1>2, <1>3, EndStaysGoes DEF StopEnds, At
<1>4. ASSUME NEW i \in Call, Activate(i) PROVE EndPending'
  BY <1>2, <1>4, EndStaysGoes DEF Activate, At, Consistent
<1>5. ASSUME NEW i \in Call, calls[i].at # "nowhere", Dispatch(i, calls[i]),
             handlingAgentEnd' = handlingAgentEnd
      PROVE  EndPending'
  <2>1. /\ [calls[i] EXCEPT !.at = "deriving", !.run = counters.runs].by = calls[i].by
        /\ [calls[i] EXCEPT !.at = "returned"].by = calls[i].by
    BY <1>5, AtMeansInProgress DEF InProgress, CallRecord
  <2>2. \E c : c.by = calls[i].by /\ calls' = [calls EXCEPT ![i] = c]
    BY <1>5, <2>1 DEF Dispatch
  <2> QED BY <1>5, <2>2, EndStaysPut
<1>6. ASSUME NEW i \in Call, Prepared(i) \/ Settled(i) PROVE EndPending'
  BY <1>5, <1>6 DEF Prepared, Settled, At
<1>7. ASSUME NEW i \in Call, calls[i].at # "nowhere", StopsItself(i),
             handlingAgentEnd' = handlingAgentEnd
      PROVE  EndPending'
  <2>1. \E at \in {"rebuilding", "returned"} : Goes(i, at)
    BY <1>7 DEF StopsItself, Unwind
  <2> QED BY <1>7, <2>1, EndStaysGoes
<1>8. ASSUME NEW i \in Call, Derived(i) PROVE EndPending'
  <2>1. CASE StopsItself(i)
    BY <1>7, <1>8, <2>1 DEF Derived, At
  <2>2. ASSUME NEW u \in Unit, calls' = [calls EXCEPT ![i].at = "gating", ![i].unit = u]
        PROVE  EndPending'
    <3>1. InProgress(calls[i])
      BY <1>8, AtMeansInProgress DEF Derived, At
    <3>2. [calls[i] EXCEPT !.at = "gating", !.unit = u].by = calls[i].by
      BY <3>1 DEF InProgress, CallRecord
    <3>3. calls' = [calls EXCEPT ![i] = [calls[i] EXCEPT !.at = "gating", !.unit = u]]
      BY <2>2 DEF CallsOK
    <3> QED BY <1>8, <3>2, <3>3, EndStaysPut DEF Derived
  <2> QED BY <1>8, <2>1, <2>2 DEF Derived
<1>9. ASSUME NEW i \in Call, Skip(i) \/ Throws(i) PROVE EndPending'
  BY <1>9, EndStaysGoes DEF Skip, Throws, At
<1>10. ASSUME NEW i \in Call, Recurse(i) PROVE EndPending'
  <2>1. CASE ~Enters(i)
    BY <1>10, <2>1, EndStaysGoes DEF Recurse, At
  <2>2. CASE Enters(i)
    <3> DEFINE c == [calls[i] EXCEPT !.at = "deriving", !.depth = @ + 1, !.run = counters.runs]
    <3>1. InProgress(calls[i])
      BY <1>10, AtMeansInProgress DEF Recurse, At
    <3>2. c.by = calls[i].by
      BY <3>1 DEF InProgress, CallRecord
    <3>3. calls' = [calls EXCEPT ![i] = c]
      BY <1>10, <2>2 DEF Recurse, CallsOK
    <3>4. handlingAgentEnd' = handlingAgentEnd
      BY <1>10 DEF Recurse
    <3> HIDE DEF c
    <3> QED BY <3>2, <3>3, <3>4, EndStaysPut
  <2> QED BY <2>1, <2>2
<1>11. ASSUME NEW i \in Call, LoopDetected(i) \/ Cancelled(i) PROVE EndPending'
  BY <1>7, <1>11 DEF LoopDetected, Cancelled, At
<1>12. ASSUME NEW i \in Call, Announce(i) \/ Switched(i) \/ Send(i) PROVE EndPending'
  BY <1>12, EndStaysGoes DEF Announce, Switched, Send, Unwind, At
<1>13. ASSUME NEW i \in Call, StartReturns(i) PROVE EndPending'
  BY <1>2, <1>13 DEF StartReturns
<1>14. ASSUME NEW i \in Call, GapReturns(i) PROVE EndPending'
  BY <1>2, <1>14, EndStaysPut DEF GapReturns
<1>15. ASSUME NEW i \in Call, TimerReturns(i) \/ RecoverThrows(i) PROVE EndPending'
  BY <1>2, <1>15 DEF TimerReturns, RecoverThrows, Dies, EndPending
<1>16. ASSUME NEW i \in Call, Recover(i) PROVE EndPending'
  <2>1. calls[i].at = "sleeping" /\ handlingAgentEnd' = handlingAgentEnd /\ calls[i].by # "end"
    BY <1>16 DEF Recover, At, Consistent
  <2> QED BY <1>2, <1>5, <1>16, <2>1 DEF Recover
<1>17. ASSUME NEW i \in Call, RecoverPauses(i) PROVE EndPending'
  BY <1>2, <1>17 DEF RecoverPauses, At, Consistent
<1>18. ASSUME NEW i \in Call, AgentEnds(i) \/ ChatterEnds(i) PROVE EndPending'
  <2>1. CASE UNCHANGED <<calls, handlingAgentEnd>>
    BY <2>1 DEF EndPending
  <2>2. CASE calls' = [calls EXCEPT ![i] = Made("end", "settling")]
    <3>0. Made("end", "settling").by = "end"
      BY DEF Made
    <3>1. calls'[i].by = "end"
      BY <2>2, <3>0, PutMoves
    <3> QED BY <3>1 DEF EndPending
  <2> QED BY <1>18, <2>1, <2>2 DEF AgentEnds, ChatterEnds, Handled
<1>19. ASSUME NEW i \in Call, GapFires(i) PROVE EndPending'
  <2>1. Free(i) /\ handlingAgentEnd' = handlingAgentEnd
    BY <1>19 DEF GapFires
  <2>2. calls' = calls \/ \E c : calls' = [calls EXCEPT ![i] = c]
    BY <1>19 DEF GapFires, Dispatch
  <2> QED BY <2>1, <2>2, EndStaysFree DEF EndPending
<1>20. ASSUME NEW i \in Call, IdleFires(i) \/ HardFires(i) PROVE EndPending'
  BY <1>20, EndStaysFree DEF IdleFires, HardFires
<1>21. ASSUME NEW i \in Call, Start(i) \/ Resume(i) \/ Stop(i) PROVE EndPending'
  BY <1>21, EndStaysFree DEF Start, Resume, Stop
<1>22. ASSUME HardPauses \/ Pause \/ AgentAborted \/ AgentWrites \/ Crash PROVE EndPending'
  BY <1>22 DEF HardPauses, Pause, AgentAborted, AgentWrites, Crash, Dies, EndPending
<1> QED
  BY <1>1, <1>3, <1>4, <1>6, <1>8, <1>9, <1>10, <1>11, <1>12, <1>13, <1>14, <1>15, <1>16, <1>17,
     <1>18, <1>19, <1>20, <1>21, <1>22
  DEF Next, Step, Event, Returns

\* The guard of dispatchNextUnit is closed only while a call is inside which will open it;
\* and one that waits between skips finds it open.
GuardHeld ==
  dispatching => \E e \in Dispatchers : skipDepth > 0 \/ calls[e].at # "skipping"

\* A step that takes nobody out of dispatchNextUnit, or that opens the guard.
LEMMA GuardStays ==
  ASSUME GuardHeld, dispatching' => dispatching, skipDepth' = skipDepth,
         \A j \in Dispatchers : /\ calls'[j].at \in InDispatch
                                /\ calls'[j].at = "skipping" => calls[j].at = "skipping"
  PROVE  GuardHeld'
BY DEF GuardHeld, Dispatchers

\* A slot whose call was not in dispatchNextUnit.
LEMMA GuardStaysPut ==
  ASSUME TInv, GuardHeld, NEW i \in Call, NEW c, calls' = [calls EXCEPT ![i] = c],
         calls[i].at \notin InDispatch, dispatching' => dispatching, skipDepth' = skipDepth
  PROVE  GuardHeld'
<1>1. \A j \in Dispatchers : calls'[j] = calls[j]
  BY PutMoves DEF TInv, Dispatchers
<1> QED BY <1>1, GuardStays DEF Dispatchers

\* A call outside dispatchNextUnit goes on outside it, or one inside does inside it.
LEMMA GuardStaysGoes ==
  ASSUME TInv, GuardHeld, NEW i \in Call, NEW at, calls[i].at # "nowhere", Goes(i, at),
         \/ calls[i].at \notin InDispatch
         \/ at \in InDispatch \ {"skipping"},
         dispatching' => dispatching, skipDepth' = skipDepth
  PROVE  GuardHeld'
<1>1. calls'[i].at = at /\ \A j \in Call \ {i} : calls'[j] = calls[j]
  BY GoesMoves DEF TInv
<1>2. \A j \in Dispatchers : /\ calls'[j].at \in InDispatch
                             /\ calls'[j].at = "skipping" => calls[j].at = "skipping"
  BY <1>1 DEF Dispatchers
<1> QED BY <1>2, GuardStays

\* A call that gets in.
LEMMA GuardEntered ==
  ASSUME NEW i \in Call, calls'[i].at = "deriving"
  PROVE  GuardHeld'
BY DEF GuardHeld, Dispatchers, InDispatch

\* A step after which the guard is open.
LEMMA GuardOpened ==
  ASSUME ~dispatching'
  PROVE  GuardHeld'
BY DEF GuardHeld

\* A call of dispatchNextUnit from outside.
LEMMA GuardDispatch ==
  ASSUME TInv, GuardHeld, NEW i \in Call, calls[i].at \notin InDispatch, NEW c, InProgress(c),
         Dispatch(i, c), skipDepth' = skipDepth
  PROVE  GuardHeld'
<1>1. CASE Enters(i)
  <2>1. [c EXCEPT !.at = "deriving", !.run = counters.runs].at = "deriving"
    BY DEF InProgress, CallRecord
  <2>2. calls'[i].at = "deriving"
    BY <1>1, <2>1, PutMoves DEF Dispatch, TInv
  <2> QED BY <2>2, GuardEntered
<1>2. CASE ~Enters(i)
  BY <1>2, GuardStaysPut DEF Dispatch
<1> QED BY <1>1, <1>2

\* Every action keeps somebody inside while the guard is closed.
LEMMA GuardHeldActions ==
  ASSUME TInv, GuardHeld
  PROVE  Next => GuardHeld'
<1> SUFFICES ASSUME Next PROVE GuardHeld'
  OBVIOUS
<1>0. CallsOK
  BY DEF TInv
<1> USE <1>0 DEF guardVars
<1>1. ASSUME NEW i \in Call, StopRebuilt(i) PROVE GuardHeld'
  BY <1>1, GuardStaysGoes DEF StopRebuilt, At, InDispatch
<1>2. ASSUME NEW i \in Call, Frees(i), calls[i].at \notin InDispatch,
             UNCHANGED <<dispatching, skipDepth>>
      PROVE  GuardHeld'
  BY <1>2, GuardStaysPut DEF Frees
<1>3. ASSUME NEW i \in Call, StopEnds(i) PROVE GuardHeld'
  BY <1>2, <1>3, GuardOpened DEF StopEnds, At, InDispatch
<1>4. ASSUME NEW i \in Call, Activate(i) PROVE GuardHeld'
  BY <1>2, <1>4, GuardStaysGoes DEF Activate, At, InDispatch
<1>5. ASSUME NEW i \in Call, calls[i].at \in {"preparing", "settling", "sleeping"},
             Dispatch(i, calls[i]), skipDepth' = skipDepth
      PROVE  GuardHeld'
  BY <1>5, AtMeansInProgress, GuardDispatch DEF InDispatch
<1>6. ASSUME NEW i \in Call, Prepared(i) \/ Settled(i) PROVE GuardHeld'
  BY <1>5, <1>6 DEF Prepared, Settled, At
<1>7. ASSUME NEW i \in Call, StopsItself(i) PROVE GuardHeld'
  BY <1>7, GuardOpened DEF StopsItself, StopBegins, Unwind
<1>8. ASSUME NEW i \in Call, Derived(i) PROVE GuardHeld'
  <2>2. ASSUME NEW u \in Unit, calls' = [calls EXCEPT ![i].at = "gating", ![i].unit = u],
               UNCHANGED <<dispatching, skipDepth>>
        PROVE  GuardHeld'
    <3>1. InProgress(calls[i]) /\ calls[i].at # "nowhere"
      BY <1>8, AtMeansInProgress DEF Derived, At
    <3>2. calls'[i].at = "gating" /\ \A j \in Call \ {i} : calls'[j] = calls[j]
      BY <2>2, <3>1 DEF CallsOK, InProgress, CallRecord
    <3>3. \A j \in Dispatchers : /\ calls'[j].at \in InDispatch
                                 /\ calls'[j].at = "skipping" => calls[j].at = "skipping"
      BY <3>2 DEF Dispatchers, InDispatch
    <3> QED BY <2>2, <3>3, GuardStays
  <2> QED BY <1>7, <1>8, <2>2 DEF Derived
<1>9. ASSUME NEW i \in Call, Skip(i) PROVE GuardHeld'
  <2>1. calls'[i].at = "skipping" /\ \A j \in Call \ {i} : calls'[j] = calls[j]
    BY <1>9, GoesMoves DEF Skip, At
  <2>2. skipDepth' > 0
    BY <1>9 DEF Skip, TInv, RestOK, DataOK
  <2> QED BY <2>1, <2>2 DEF GuardHeld, Dispatchers, InDispatch
<1>10. ASSUME NEW i \in Call, Recurse(i) PROVE GuardHeld'
  <2>1. CASE ~Enters(i)
    BY <1>10, <2>1, GuardOpened DEF Recurse
  <2>2. CASE Enters(i)
    <3>1. InProgress(calls[i])
      BY <1>10, AtMeansInProgress DEF Recurse, At
    <3>2. [calls[i] EXCEPT !.at = "deriving", !.depth = @ + 1, !.run = counters.runs].at = "deriving"
      BY <3>1 DEF InProgress, CallRecord
    <3>3. calls' = [calls EXCEPT ![i] = [calls[i] EXCEPT !.at = "deriving", !.depth = @ + 1,
                                                         !.run = counters.runs]]
      BY <1>10, <2>2 DEF Recurse, CallsOK
    <3>4. calls'[i].at = "deriving"
      BY <3>2, <3>3 DEF CallsOK
    <3> QED BY <3>4, GuardEntered
  <2> QED BY <2>1, <2>2
<1>11. ASSUME NEW i \in Call, LoopDetected(i) \/ Cancelled(i) PROVE GuardHeld'
  BY <1>7, <1>11 DEF LoopDetected, Cancelled
<1>12. ASSUME NEW i \in Call, Announce(i) \/ Switched(i) PROVE GuardHeld'
  BY <1>12, GuardStaysGoes DEF Announce, Switched, At, InDispatch
<1>13. ASSUME NEW i \in Call, Send(i) \/ Throws(i) \/ Stop(i) PROVE GuardHeld'
  BY <1>13, GuardOpened DEF Send, Unwind, Throws, Stop, StopBegins
<1>14. ASSUME NEW i \in Call, EndReturns(i) \/ StartReturns(i) PROVE GuardHeld'
  BY <1>2, <1>14 DEF EndReturns, StartReturns, InDispatch
<1>15. ASSUME NEW i \in Call, GapReturns(i) PROVE GuardHeld'
  BY <1>2, <1>15, GuardOpened DEF GapReturns, StopBegins, InDispatch
<1>16. ASSUME NEW i \in Call, TimerReturns(i) \/ RecoverThrows(i) PROVE GuardHeld'
  BY <1>2, <1>16, GuardOpened DEF TimerReturns, RecoverThrows, Dies, InDispatch
<1>17. ASSUME NEW i \in Call, Recover(i) PROVE GuardHeld'
  <2>1. calls[i].at = "sleeping" /\ skipDepth' = skipDepth
    BY <1>17 DEF Recover, At
  <2> QED BY <1>2, <1>5, <1>17, <2>1 DEF Recover, InDispatch
<1>18. ASSUME NEW i \in Call, RecoverPauses(i) PROVE GuardHeld'
  BY <1>2, <1>18 DEF RecoverPauses, At, InDispatch
<1>19. ASSUME NEW i \in Call, Free(i), NEW c, calls' = [calls EXCEPT ![i] = c],
              UNCHANGED <<dispatching, skipDepth>>
       PROVE  GuardHeld'
  <2>1. calls[i].at \notin InDispatch
    BY <1>19 DEF Free, NoCall, Made, InDispatch
  <2> QED BY <1>19, <2>1, GuardStaysPut
<1>20. ASSUME UNCHANGED <<calls, dispatching, skipDepth>> PROVE GuardHeld'
  BY <1>20 DEF GuardHeld, Dispatchers
<1>21. ASSUME NEW i \in Call, AgentEnds(i) \/ ChatterEnds(i) PROVE GuardHeld'
  BY <1>19, <1>20, <1>21 DEF AgentEnds, ChatterEnds, Handled
<1>22. ASSUME NEW i \in Call, GapFires(i) PROVE GuardHeld'
  <2>1. CASE active /\ cmdCtx
    <3>1. InProgress(Made("gap", "settling")) /\ calls[i].at \notin InDispatch
      BY <1>22, AwaitsAssumption
      DEF InProgress, CallRecord, Made, By, Place, InDispatch, WithUnit, GapFires, Free, NoCall
    <3> QED BY <1>22, <2>1, <3>1, GuardDispatch DEF GapFires
  <2>2. CASE ~(active /\ cmdCtx)
    BY <1>20, <1>22, <2>2 DEF GapFires
  <2> QED BY <2>1, <2>2
<1>23. ASSUME NEW i \in Call, IdleFires(i) \/ HardFires(i) PROVE GuardHeld'
  BY <1>19, <1>23 DEF IdleFires, HardFires
<1>24. ASSUME NEW i \in Call, Start(i) \/ Resume(i) PROVE GuardHeld'
  BY <1>19, <1>24 DEF Start, Resume
<1>25. ASSUME HardPauses \/ Pause \/ AgentAborted \/ AgentWrites PROVE GuardHeld'
  BY <1>20, <1>25 DEF HardPauses, Pause, AgentAborted, AgentWrites
<1>26. ASSUME Crash PROVE GuardHeld'
  BY <1>26, GuardOpened DEF Crash, Dies
<1> QED
  BY <1>1, <1>3, <1>4, <1>6, <1>8, <1>9, <1>10, <1>11, <1>12, <1>13, <1>14, <1>15, <1>16, <1>17,
     <1>18, <1>21, <1>22, <1>23, <1>24, <1>25, <1>26
  DEF Next, Step, Event, Returns

\* None of the mishaps that leave a run unattended.
Clean == mishaps \cap {"restarted", "expired", "outlived", "overstayed", "failed"} = {}

NoStop == \A j \in Call : calls[j].at # "rebuilding"

\* The unit that a dispatch of this run has announced is the current one until it is done,
\* and once its session is ready the lock is that of the current unit.
SessionsRight ==
  Clean => \A i \in Call :
    calls[i].at \in {"switching", "selecting"} /\ active /\ calls[i].run = counters.runs =>
      /\ currentUnit = calls[i].unit \/ calls[i].unit \in done
      /\ calls[i].at = "selecting" /\ currentUnit = calls[i].unit /\ NoStop
           => lock = calls[i].unit

\* A step in which no session begins or gets ready, the lock stays or a stop begins, and no
\* stop gets to its second part.
LEMMA RightStays ==
  ASSUME SessionsRight, mishaps \subseteq mishaps', done \subseteq done',
         active' => active, currentUnit' = currentUnit, counters'.runs = counters.runs,
         \A j \in Call : \/ calls'[j] = calls[j]
                         \/ /\ calls'[j].at \notin {"switching", "selecting"}
                            /\ calls[j].at # "rebuilding",
         lock' = lock \/ \E j \in Call : calls'[j].at = "rebuilding"
  PROVE  SessionsRight'
<1> SUFFICES ASSUME Clean', NEW i \in Call, calls'[i].at \in {"switching", "selecting"},
                    active', calls'[i].run = counters'.runs
             PROVE  /\ currentUnit' = calls'[i].unit \/ calls'[i].unit \in done'
                    /\ calls'[i].at = "selecting" /\ currentUnit' = calls'[i].unit /\ NoStop'
                         => lock' = calls'[i].unit
  BY DEF SessionsRight
<1>1. Clean /\ calls'[i] = calls[i] /\ active
  BY DEF Clean
<1>2. NoStop' => NoStop /\ lock' = lock
  BY DEF NoStop
<1> QED BY <1>1, <1>2 DEF SessionsRight

\* A step after which auto-mode is not active.
LEMMA RightIdle ==
  ASSUME ~active'
  PROVE  SessionsRight'
BY DEF SessionsRight

\* A slot of a call that has no session under way and is not in a stop.
LEMMA RightPut ==
  ASSUME TInv, SessionsRight, mishaps \subseteq mishaps', done \subseteq done',
         active' => active, currentUnit' = currentUnit, counters'.runs = counters.runs,
         NEW i \in Call, NEW c, calls' = [calls EXCEPT ![i] = c],
         c.at \notin {"switching", "selecting"}, calls[i].at # "rebuilding",
         lock' = lock \/ c.at = "rebuilding"
  PROVE  SessionsRight'
<1>1. calls'[i] = c /\ \A j \in Call \ {i} : calls'[j] = calls[j]
  BY PutMoves DEF TInv
<1> QED BY <1>1, RightStays

\* A call that goes on, with no session under way after it.
LEMMA RightGoes ==
  ASSUME TInv, SessionsRight, mishaps \subseteq mishaps', done \subseteq done',
         active' => active, currentUnit' = currentUnit, counters'.runs = counters.runs,
         NEW i \in Call, NEW at, calls[i].at # "nowhere", Goes(i, at),
         at \notin {"switching", "selecting"}, calls[i].at # "rebuilding",
         lock' = lock \/ at = "rebuilding"
  PROVE  SessionsRight'
<1>1. calls'[i].at = at /\ \A j \in Call \ {i} : calls'[j] = calls[j]
  BY GoesMoves DEF TInv
<1> QED BY <1>1, RightStays

\* A call that begins in a free slot.
LEMMA RightFree ==
  ASSUME TInv, SessionsRight, mishaps \subseteq mishaps', done \subseteq done',
         active' => active, currentUnit' = currentUnit, counters'.runs = counters.runs,
         NEW i \in Call, Free(i), NEW c, calls' = [calls EXCEPT ![i] = c],
         c.at \notin {"switching", "selecting"},
         lock' = lock \/ c.at = "rebuilding"
  PROVE  SessionsRight'
<1>1. calls[i].at # "rebuilding"
  BY DEF Free, NoCall, Made
<1> QED BY <1>1, RightPut

\* A call of dispatchNextUnit.
LEMMA RightDispatch ==
  ASSUME TInv, SessionsRight, mishaps \subseteq mishaps', done \subseteq done',
         active' = active, currentUnit' = currentUnit, counters' = counters, lock' = lock,
         NEW i \in Call, calls[i].at # "rebuilding", NEW c, InProgress(c), Dispatch(i, c)
  PROVE  SessionsRight'
<1>1. /\ [c EXCEPT !.at = "deriving", !.run = counters.runs].at = "deriving"
      /\ [c EXCEPT !.at = "returned"].at = "returned"
  BY DEF InProgress, CallRecord
<1>2. \/ calls' = [calls EXCEPT ![i] = [c EXCEPT !.at = "deriving", !.run = counters.runs]]
      \/ calls' = [calls EXCEPT ![i] = [c EXCEPT !.at = "returned"]]
  BY DEF Dispatch
<1> QED BY <1>1, <1>2, RightPut

\* A run that begins: no dispatch is of it.
LEMMA RightBegins ==
  ASSUME TInv, Consistent, counters'.runs = counters.runs + 1,
         NEW i \in Call, \A j \in Call \ {i} : calls'[j] = calls[j],
         calls'[i].at \notin {"switching", "selecting"}
  PROVE  SessionsRight'
<1>1. ASSUME NEW j \in Call, calls'[j].at \in {"switching", "selecting"}
      PROVE  calls'[j].run # counters'.runs
  <2>1. calls'[j] = calls[j]
    BY <1>1
  <2>2. calls[j].run \in Nat /\ calls[j].run <= counters.runs /\ counters.runs \in Nat
    BY DEF TInv, CallsOK, CallRecord, Consistent, RestOK, DataOK
  <2> QED BY <2>1, <2>2
<1> QED BY <1>1 DEF SessionsRight

\* A unit that is announced is the only one that is next.
LEMMA RightAnnounce ==
  ASSUME TInv, Consistent, SessionsRight, NEW i \in Call, Announce(i)
  PROVE  SessionsRight'
<1> DEFINE u == calls[i].unit
<1>0. CallsOK /\ calls[i].at = "gating"
  BY DEF TInv, Announce, At
<1>1. InProgress(calls[i]) /\ u \in Unit
  BY <1>0, AtMeansInProgress DEF InProgress, CallRecord, WithUnit, Unit
<1>2. u \notin done /\ 1..(u - 1) \subseteq done /\ currentUnit' = u
  BY <1>0 DEF Announce, Consistent
<1>3. UNCHANGED <<active, counters, mishaps, lock, done>>
  BY DEF Announce, modeVars
<1>4. /\ calls'[i].at = "switching" /\ calls'[i].unit = u
      /\ \A j \in Call \ {i} : calls'[j] = calls[j]
  BY <1>0, <1>1 DEF Announce, Goes, CallsOK, InProgress, CallRecord
<1> SUFFICES ASSUME Clean', NEW j \in Call, calls'[j].at \in {"switching", "selecting"},
                    active', calls'[j].run = counters'.runs
             PROVE  /\ currentUnit' = calls'[j].unit \/ calls'[j].unit \in done'
                    /\ calls'[j].at = "selecting" /\ currentUnit' = calls'[j].unit /\ NoStop'
                         => lock' = calls'[j].unit
  BY DEF SessionsRight
<1>5. CASE j = i
  BY <1>2, <1>4, <1>5
<1>6. CASE j # i
  <2> DEFINE v == calls[j].unit
  <2>1. calls'[j] = calls[j] /\ Clean /\ active /\ calls[j].run = counters.runs
    BY <1>3, <1>4, <1>6 DEF Clean
  <2>2. InProgress(calls[j]) /\ v \in Unit
    BY <1>0, <2>1, AtMeansInProgress DEF InProgress, CallRecord, WithUnit, Unit
  <2>3. 1..(v - 1) \subseteq done
    BY <2>1 DEF Consistent
  <2>4. v \notin done => u = v
    BY <1>1, <1>2, <2>2, <2>3 DEF Unit
  <2>5. currentUnit = v \/ v \in done
    BY <2>1 DEF SessionsRight
  <2>6. NoStop' => NoStop
    <3>1. calls[i].at # "rebuilding"
      BY <1>0
    <3> QED BY <1>4, <3>1 DEF NoStop
  <2>7. v \notin done /\ calls[j].at = "selecting" /\ NoStop' => lock = v
    BY <2>1, <2>5, <2>6 DEF SessionsRight
  <2>8. currentUnit' = v \/ v \in done'
    BY <1>2, <1>3, <2>4
  <2>9. calls[j].at = "selecting" /\ currentUnit' = v /\ NoStop' => lock' = v
    BY <1>2, <1>3, <2>7
  <2> QED BY <2>1, <2>8, <2>9
<1> QED BY <1>5, <1>6

\* A session that is ready writes the lock of its unit, or has outlived its run.
LEMMA RightSwitched ==
  ASSUME TInv, SessionsRight, NEW i \in Call, Switched(i)
  PROVE  SessionsRight'
<1> DEFINE u == calls[i].unit
<1>0. CallsOK /\ calls[i].at = "switching"
  BY DEF TInv, Switched, At
<1>1. InProgress(calls[i])
  BY <1>0, AtMeansInProgress
<1>3. UNCHANGED <<active, counters, currentUnit, done>> /\ lock' = u
  BY DEF Switched, modeVars, unitVars
<1>4. /\ calls'[i].at = "selecting" /\ calls'[i].unit = u /\ calls'[i].run = calls[i].run
      /\ \A j \in Call \ {i} : calls'[j] = calls[j]
  BY <1>0, <1>1 DEF Switched, Goes, CallsOK, InProgress, CallRecord
<1>5. Clean' => Clean /\ currentUnit = u
  BY DEF Switched, Noted, Outlives, Clean
<1> SUFFICES ASSUME Clean', NEW j \in Call, calls'[j].at \in {"switching", "selecting"},
                    active', calls'[j].run = counters'.runs
             PROVE  /\ currentUnit' = calls'[j].unit \/ calls'[j].unit \in done'
                    /\ calls'[j].at = "selecting" /\ currentUnit' = calls'[j].unit /\ NoStop'
                         => lock' = calls'[j].unit
  BY DEF SessionsRight
<1>6. CASE j = i
  BY <1>3, <1>4, <1>5, <1>6
<1>7. CASE j # i
  BY <1>3, <1>4, <1>5, <1>7 DEF SessionsRight
<1> QED BY <1>6, <1>7

\* Every action keeps the sessions right.
LEMMA SessionsRightActions ==
  ASSUME TInv, Consistent, SessionsRight
  PROVE  Next => SessionsRight'
<1> SUFFICES ASSUME Next PROVE SessionsRight'
  OBVIOUS
<1>0. CallsOK /\ mishaps \subseteq mishaps' /\ done \subseteq done'
  BY OnlyGrow DEF TInv
<1> USE <1>0 DEF modeVars, unitVars, diskVars
<1>1. ASSUME NEW i \in Call, StopRebuilt(i) PROVE SessionsRight'
  BY <1>1, RightIdle DEF StopRebuilt
<1>2. ASSUME NEW i \in Call, Frees(i), calls[i].at # "rebuilding",
             UNCHANGED <<active, currentUnit, counters, lock>>
      PROVE  SessionsRight'
  BY <1>2, RightPut DEF Frees, NoCall, Made
<1>3. ASSUME NEW i \in Call, StopEnds(i) PROVE SessionsRight'
  BY <1>2, <1>3, RightGoes DEF StopEnds, At
<1>4. ASSUME NEW i \in Call, Activate(i) PROVE SessionsRight'
  <2>1. CASE done = Unit
    BY <1>2, <1>4, <2>1 DEF Activate, At
  <2>2. CASE done # Unit
    <3>1. calls'[i].at = "preparing" /\ \A j \in Call \ {i} : calls'[j] = calls[j]
      BY <1>4, <2>2, GoesMoves DEF Activate, At
    <3>2. counters'.runs = counters.runs + 1
      BY <1>4, <2>2 DEF Activate, Count, TInv, RestOK, DataOK
    <3> QED BY <3>1, <3>2, RightBegins
  <2> QED BY <2>1, <2>2
<1>5. ASSUME NEW i \in Call, calls[i].at \notin {"nowhere", "rebuilding"}, Dispatch(i, calls[i]),
             UNCHANGED <<active, currentUnit, counters, lock>>
      PROVE  SessionsRight'
  BY <1>5, AtMeansInProgress, RightDispatch
<1>6. ASSUME NEW i \in Call, Prepared(i) \/ Settled(i) PROVE SessionsRight'
  BY <1>5, <1>6 DEF Prepared, Settled, At
<1>7. ASSUME NEW i \in Call, calls[i].at \notin {"nowhere", "rebuilding"}, StopsItself(i),
             UNCHANGED <<active, currentUnit>>, counters'.runs = counters.runs
      PROVE  SessionsRight'
  <2>1. Goes(i, "rebuilding") \/ (Goes(i, "returned") /\ lock' = lock)
    BY <1>7 DEF StopsItself, Unwind
  <2> QED BY <1>7, <2>1, RightGoes
<1>8. ASSUME NEW i \in Call, Derived(i) PROVE SessionsRight'
  <2>1. CASE StopsItself(i)
    BY <1>7, <1>8, <2>1 DEF Derived, At
  <2>2. ASSUME NEW u \in Unit, calls' = [calls EXCEPT ![i].at = "gating", ![i].unit = u], lock' = lock
        PROVE  SessionsRight'
    <3>1. InProgress(calls[i])
      BY <1>8, AtMeansInProgress DEF Derived, At
    <3>2. [calls[i] EXCEPT !.at = "gating", !.unit = u].at = "gating"
      BY <3>1 DEF InProgress, CallRecord
    <3>3. calls' = [calls EXCEPT ![i] = [calls[i] EXCEPT !.at = "gating", !.unit = u]]
      BY <2>2 DEF CallsOK
    <3> QED BY <1>8, <2>2, <3>2, <3>3, RightPut DEF Derived, At
  <2> QED BY <1>8, <2>1, <2>2 DEF Derived
<1>9. ASSUME NEW what \in {"commands", "troubles"}, Count(what)
      PROVE  counters'.runs = counters.runs
  BY <1>9 DEF Count, TInv, RestOK, DataOK
<1>10. ASSUME NEW i \in Call, Skip(i) \/ Throws(i) PROVE SessionsRight'
  BY <1>9, <1>10, RightGoes DEF Skip, Throws, At
<1>11. ASSUME NEW i \in Call, Recurse(i) PROVE SessionsRight'
  <2>1. CASE ~Enters(i)
    BY <1>11, <2>1, RightGoes DEF Recurse, At
  <2>2. CASE Enters(i)
    <3> DEFINE c == [calls[i] EXCEPT !.at = "deriving", !.depth = @ + 1, !.run = counters.runs]
    <3>1. InProgress(calls[i]) /\ calls[i].at = "skipping"
      BY <1>11, AtMeansInProgress DEF Recurse, At
    <3>2. c.at = "deriving"
      BY <3>1 DEF InProgress, CallRecord
    <3>3. calls' = [calls EXCEPT ![i] = c]
      BY <1>11, <2>2 DEF Recurse, CallsOK
    <3>4. UNCHANGED <<active, currentUnit, counters, lock>>
      BY <1>11 DEF Recurse
    <3> HIDE DEF c
    <3> QED BY <3>1, <3>2, <3>3, <3>4, RightPut
  <2> QED BY <2>1, <2>2
<1>12. ASSUME NEW i \in Call, LoopDetected(i) \/ Cancelled(i) PROVE SessionsRight'
  BY <1>7, <1>9, <1>12 DEF LoopDetected, Cancelled, At
<1>13. ASSUME NEW i \in Call, Announce(i) \/ Switched(i) PROVE SessionsRight'
  BY <1>13, RightAnnounce, RightSwitched
<1>14. ASSUME NEW i \in Call, Send(i) PROVE SessionsRight'
  BY <1>14, RightGoes DEF Send, Unwind, At
<1>15. ASSUME NEW i \in Call, EndReturns(i) \/ StartReturns(i) PROVE SessionsRight'
  BY <1>2, <1>15 DEF EndReturns, StartReturns
<1>16. ASSUME NEW i \in Call, GapReturns(i) PROVE SessionsRight'
  <2>1. calls[i].at # "rebuilding" /\ UNCHANGED <<active, currentUnit, counters>>
    BY <1>16 DEF GapReturns
  <2>2. CASE calls' = [calls EXCEPT ![i] = Made("stop", "rebuilding")]
    BY <2>1, <2>2, RightPut DEF Made
  <2>3. CASE Frees(i) /\ lock' = lock
    BY <1>2, <2>1, <2>3
  <2> QED BY <1>16, <2>2, <2>3 DEF GapReturns
<1>17. ASSUME NEW i \in Call, TimerReturns(i) \/ RecoverThrows(i) PROVE SessionsRight'
  BY <1>2, <1>17, RightIdle DEF TimerReturns, RecoverThrows, Dies
<1>18. ASSUME NEW i \in Call, Recover(i) PROVE SessionsRight'
  <2>1. calls[i].at = "sleeping" /\ UNCHANGED <<active, currentUnit, counters, lock>>
    BY <1>18 DEF Recover, At
  <2> QED BY <1>2, <1>5, <1>18, <2>1 DEF Recover
<1>19. ASSUME PauseEffects \/ ~active, UNCHANGED active \/ PauseEffects PROVE SessionsRight'
  BY <1>19, RightIdle DEF PauseEffects
<1>20. ASSUME NEW i \in Call, RecoverPauses(i) PROVE SessionsRight'
  BY <1>19, <1>20 DEF RecoverPauses
<1>21. ASSUME NEW i \in Call, AgentEnds(i) \/ ChatterEnds(i) PROVE SessionsRight'
  <2>1. UNCHANGED <<active, currentUnit, lock>> /\ counters'.runs = counters.runs /\ Free(i)
    BY <1>9, <1>21 DEF AgentEnds, ChatterEnds
  <2>2. CASE calls' = calls
    BY <2>1, <2>2, RightStays
  <2>3. CASE calls' = [calls EXCEPT ![i] = Made("end", "settling")]
    BY <2>1, <2>3, RightFree DEF Made
  <2> QED BY <1>21, <2>2, <2>3 DEF AgentEnds, ChatterEnds, Handled
<1>22. ASSUME NEW i \in Call, GapFires(i) PROVE SessionsRight'
  <2>1. CASE active /\ cmdCtx
    <3>1. InProgress(Made("gap", "settling")) /\ calls[i].at # "rebuilding"
      BY <1>22, AwaitsAssumption
      DEF InProgress, CallRecord, Made, By, Place, InDispatch, WithUnit, GapFires, Free, NoCall
    <3> QED BY <1>22, <2>1, <3>1, RightDispatch DEF GapFires
  <2>2. CASE ~(active /\ cmdCtx)
    BY <1>22, <2>2, RightStays DEF GapFires
  <2> QED BY <2>1, <2>2
<1>23. ASSUME NEW i \in Call, IdleFires(i) \/ HardFires(i) PROVE SessionsRight'
  <2>1. UNCHANGED <<active, currentUnit, lock>> /\ counters'.runs = counters.runs /\ Free(i)
    BY <1>9, <1>23 DEF IdleFires, HardFires
  <2>2. \E c \in {NoCall, Sleeper("idle"), Sleeper("hard")} : calls' = [calls EXCEPT ![i] = c]
    BY <1>23 DEF IdleFires, HardFires
  <2> QED BY <2>1, <2>2, RightFree DEF NoCall, Made, Sleeper
<1>24. ASSUME NEW i \in Call, Start(i) PROVE SessionsRight'
  <2>1. CASE active
    BY <1>24, <2>1 DEF Start, Noted, SessionsRight, Clean
  <2>2. CASE ~active
    BY <1>24, <2>2, RightIdle DEF Start
  <2> QED BY <2>1, <2>2
<1>25. ASSUME NEW i \in Call, Resume(i) PROVE SessionsRight'
  <2>0. Made("start", "preparing").at = "preparing"
    BY DEF Made
  <2>1. calls'[i].at = "preparing" /\ \A j \in Call \ {i} : calls'[j] = calls[j]
    BY <1>25, <2>0, PutMoves DEF Resume
  <2>2. counters'.runs = counters.runs + 1
    BY <1>25 DEF Resume, TInv, RestOK, DataOK
  <2> QED BY <2>1, <2>2, RightBegins
<1>26. ASSUME NEW i \in Call, Stop(i) PROVE SessionsRight'
  BY <1>9, <1>26, RightFree DEF Stop, Made
<1>27. ASSUME HardPauses \/ Pause \/ AgentAborted PROVE SessionsRight'
  BY <1>19, <1>27 DEF HardPauses, Pause, AgentAborted
<1>28. ASSUME AgentWrites \/ Crash PROVE SessionsRight'
  BY <1>28, RightStays, RightIdle DEF AgentWrites, Crash, Dies
<1> QED
  BY <1>1, <1>3, <1>4, <1>6, <1>8, <1>10, <1>11, <1>12, <1>13, <1>14, <1>15, <1>16, <1>17,
     <1>18, <1>20, <1>21, <1>22, <1>23, <1>24, <1>25, <1>26, <1>27, <1>28
  DEF Next, Step, Event, Returns

\* The places from which a call still dispatches, or stops auto-mode, or sees to it that
\* somebody else does.
Ready == InDispatch \union {"rebuilding", "restoring", "preparing", "settling", "threw"}

Works == agent # 0 /\ agent = currentUnit /\ agent = timers.unit /\ agent = lock

\* An active run has the agent at work on its unit, the watchdog armed, or a call that
\* has not yet done what it is for.
LookedAfter ==
  Clean /\ active => gap \/ Works \/ \E i \in Call : calls[i].at \in Ready

\* The ways in which a step leaves the run looked after.
LEMMA AfterIdle ==
  ASSUME ~active'
  PROVE  LookedAfter'
BY DEF LookedAfter

LEMMA AfterReady ==
  ASSUME NEW i \in Call, calls'[i].at \in Ready
  PROVE  LookedAfter'
BY DEF LookedAfter

LEMMA AfterMishap ==
  ASSUME \E m \in {"restarted", "expired", "outlived", "overstayed", "failed"} : m \in mishaps'
  PROVE  LookedAfter'
BY DEF LookedAfter, Clean

LEMMA AfterSame ==
  ASSUME LookedAfter, mishaps \subseteq mishaps', active' => active,
         gap => gap', Works => Works',
         \A j \in Call : calls[j].at \in Ready => calls'[j].at \in Ready
  PROVE  LookedAfter'
<1>1. Clean' => Clean
  BY DEF Clean
<1> QED BY <1>1 DEF LookedAfter

\* A call that had nothing more to do, or is put in a free slot.
LEMMA AfterPut ==
  ASSUME TInv, LookedAfter, mishaps \subseteq mishaps', active' => active,
         gap => gap', Works => Works',
         NEW i \in Call, calls[i].at \notin Ready, NEW c, calls' = [calls EXCEPT ![i] = c]
  PROVE  LookedAfter'
<1>1. \A j \in Call : calls[j].at \in Ready => calls'[j] = calls[j]
  BY PutMoves DEF TInv
<1> QED BY <1>1, AfterSame

\* A call that goes on.
LEMMA AfterGoes ==
  ASSUME TInv, NEW i \in Call, calls[i].at # "nowhere", NEW at \in Ready, Goes(i, at)
  PROVE  LookedAfter'
<1>1. calls'[i].at = at
  BY GoesMoves DEF TInv
<1> QED BY <1>1, AfterReady

\* A run that has lost its context, or whose guard is held by another call.
LEMMA AfterRefused ==
  ASSUME HasContext, GuardHeld, mishaps \subseteq mishaps', active' = active,
         NEW i \in Call, \A j \in Call \ {i} : calls'[j] = calls[j],
         ~(active /\ cmdCtx /\ (~dispatching \/ skipDepth > 0)),
         calls[i].at \notin InDispatch \ {"skipping"}
  PROVE  LookedAfter'
<1>1. CASE ~active
  BY <1>1, AfterIdle
<1>2. CASE active /\ ~cmdCtx
  BY <1>2, AfterMishap DEF HasContext
<1>3. CASE dispatching /\ ~(skipDepth > 0)
  <2>1. PICK e \in Dispatchers : calls[e].at # "skipping"
    BY <1>3 DEF GuardHeld
  <2>2. e \in Call \ {i} /\ calls[e].at \in Ready
    BY <2>1 DEF Dispatchers, Ready
  <2> QED BY <2>2, AfterReady
<1> QED BY <1>1, <1>2, <1>3

\* A call of dispatchNextUnit from outside.
LEMMA AfterDispatch ==
  ASSUME TInv, HasContext, GuardHeld, mishaps \subseteq mishaps', active' = active,
         NEW i \in Call, calls[i].at \notin InDispatch, NEW c, InProgress(c), Dispatch(i, c)
  PROVE  LookedAfter'
<1>1. CASE Enters(i)
  <2>1. [c EXCEPT !.at = "deriving", !.run = counters.runs].at = "deriving"
    BY DEF InProgress, CallRecord
  <2>2. calls'[i].at = "deriving"
    BY <1>1, <2>1, PutMoves DEF Dispatch, TInv
  <2> QED BY <2>2, AfterReady DEF Ready, InDispatch
<1>2. CASE ~Enters(i)
  <2>1. \A j \in Call \ {i} : calls'[j] = calls[j]
    BY <1>2, PutMoves DEF Dispatch, TInv
  <2> QED BY <1>2, <2>1, AfterRefused DEF Enters
<1> QED BY <1>1, <1>2

\* A prompt that is sent to the agent, or to a run that is not the one of the dispatch.
LEMMA AfterSend ==
  ASSUME TInv, SessionsRight, NEW i \in Call, Send(i)
  PROVE  LookedAfter'
<1> DEFINE u == calls[i].unit
<1>1. CASE Outlives(i)
  BY <1>1, AfterMishap DEF Send
<1>2. CASE calls[i].run # counters.runs
  BY <1>2, AfterMishap DEF Send
<1>3. CASE ~Clean
  BY <1>3 DEF Send, Clean, LookedAfter
<1>4. CASE ~Outlives(i) /\ calls[i].run = counters.runs /\ Clean
  <2>1. calls[i].at = "selecting" /\ u # 0
    <3>1. calls[i].at = "selecting"
      BY DEF Send, At
    <3> QED BY <3>1, AtMeansInProgress DEF TInv, InProgress, WithUnit
  <2>2. active /\ currentUnit = u /\ NoStop
    BY <1>4 DEF Outlives, NoStop
  <2>3. lock = u
    BY <1>4, <2>1, <2>2 DEF SessionsRight
  <2>4. agent' = u /\ timers'.unit = u /\ lock' = u /\ currentUnit' = u
    BY <2>2, <2>3 DEF Send, unitVars, diskVars
  <2> QED BY <2>1, <2>4 DEF LookedAfter, Works
<1> QED BY <1>1, <1>2, <1>3, <1>4

\* The end of a turn: it is handled, or another one is being handled.
LEMMA AfterTurn ==
  ASSUME TInv, Consistent, HasContext, EndPending, mishaps \subseteq mishaps', active' = active,
         NEW i \in Call, Free(i), Handled(i)
  PROVE  LookedAfter'
<1>1. CASE active /\ cmdCtx /\ ~handlingAgentEnd
  <2>1. Made("end", "settling").at = "settling"
    BY DEF Made
  <2>2. calls'[i].at = "settling"
    BY <1>1, <2>1, PutMoves DEF Handled, TInv
  <2> QED BY <2>2, AfterReady DEF Ready
<1>2. CASE ~active
  BY <1>2, AfterIdle
<1>3. CASE active /\ ~cmdCtx
  BY <1>3, AfterMishap DEF HasContext
<1>4. CASE active /\ cmdCtx /\ handlingAgentEnd
  <2>1. PICK j \in Call : calls[j].by = "end"
    BY <1>4 DEF EndPending
  <2>2. InProgress(calls[j])
    BY <2>1 DEF TInv, CallsOK, NoCall, Made
  <2>3. calls[j].at \notin {"starting", "sleeping", "returned", "threw"}
    BY <2>1 DEF Consistent, Free, Returning
  <2>4. calls[j].at \in Ready
    BY <2>2, <2>3 DEF InProgress, CallRecord, Place, Ready
  <2>5. calls' = calls
    BY <1>4 DEF Handled
  <2> QED BY <2>4, <2>5, AfterReady
<1> QED BY <1>1, <1>2, <1>3, <1>4

\* Every action leaves the run looked after.
LEMMA LookedAfterActions ==
  ASSUME TInv, Consistent, HasContext, EndPending, GuardHeld, SessionsRight, LookedAfter
  PROVE  Next => LookedAfter'
<1> SUFFICES ASSUME Next PROVE LookedAfter'
  OBVIOUS
<1>0. CallsOK /\ mishaps \subseteq mishaps'
  BY OnlyGrow DEF TInv
<1> USE <1>0 DEF modeVars, unitVars, timerVars, diskVars
<1>1. ASSUME NEW i \in Call, StopRebuilt(i) PROVE LookedAfter'
  BY <1>1, AfterIdle DEF StopRebuilt
<1>2. ASSUME NEW i \in Call, StopEnds(i) PROVE LookedAfter'
  BY <1>2, AfterIdle, AfterMishap DEF StopEnds, Noted
<1>3. ASSUME NEW i \in Call, Frees(i), calls[i].at \notin Ready, active' = active,
             gap => gap', Works => Works'
      PROVE  LookedAfter'
  BY <1>3, AfterPut DEF Frees
<1>4. ASSUME NEW i \in Call, Activate(i) PROVE LookedAfter'
  <2>1. CASE done = Unit
    BY <1>3, <1>4, <2>1 DEF Activate, At, Ready, InDispatch, Works
  <2>2. CASE done # Unit
    BY <1>4, <2>2, AfterGoes DEF Activate, At, Ready
  <2> QED BY <2>1, <2>2
<1>5. ASSUME NEW i \in Call, Prepared(i) \/ Settled(i) PROVE LookedAfter'
  <2>1. /\ calls[i].at \notin InDispatch /\ calls[i].at # "nowhere"
        /\ active' = active /\ Dispatch(i, calls[i])
    BY <1>5 DEF Prepared, Settled, At, InDispatch
  <2> QED BY <2>1, AtMeansInProgress, AfterDispatch
<1>6. ASSUME NEW i \in Call, calls[i].at # "nowhere", StopsItself(i), active' = active
      PROVE  LookedAfter'
  <2>1. Goes(i, "rebuilding") \/ ~active
    BY <1>6 DEF StopsItself
  <2> QED BY <1>6, <2>1, AfterGoes, AfterIdle DEF Ready
<1>7. ASSUME NEW i \in Call, Derived(i) PROVE LookedAfter'
  <2>1. CASE StopsItself(i)
    BY <1>6, <1>7, <2>1 DEF Derived, At
  <2>2. ASSUME NEW u \in Unit, calls' = [calls EXCEPT ![i].at = "gating", ![i].unit = u]
        PROVE  LookedAfter'
    <3>1. InProgress(calls[i])
      BY <1>7, AtMeansInProgress DEF Derived, At
    <3>2. calls'[i].at = "gating"
      BY <2>2, <3>1 DEF CallsOK, InProgress, CallRecord
    <3> QED BY <3>2, AfterReady DEF Ready, InDispatch
  <2> QED BY <1>7, <2>1, <2>2 DEF Derived
<1>8. ASSUME NEW i \in Call, Skip(i) \/ Announce(i) \/ Switched(i) \/ Throws(i)
      PROVE  LookedAfter'
  <2>1. \E at \in {"skipping", "switching", "selecting", "threw"} : Goes(i, at)
    BY <1>8 DEF Skip, Announce, Switched, Throws
  <2>2. calls[i].at # "nowhere"
    BY <1>8 DEF Skip, Announce, Switched, Throws, At
  <2> QED BY <2>1, <2>2, AfterGoes DEF Ready, InDispatch
<1>9. ASSUME NEW i \in Call, Recurse(i) PROVE LookedAfter'
  <2>0. calls[i].at = "skipping"
    BY <1>9 DEF Recurse, At
  <2>1. CASE Enters(i)
    <3>1. InProgress(calls[i])
      BY <2>0, AtMeansInProgress
    <3>2. [calls[i] EXCEPT !.at = "deriving", !.depth = @ + 1, !.run = counters.runs].at = "deriving"
      BY <3>1 DEF InProgress, CallRecord
    <3>3. calls' = [calls EXCEPT ![i] = [calls[i] EXCEPT !.at = "deriving", !.depth = @ + 1,
                                                         !.run = counters.runs]]
      BY <1>9, <2>1 DEF Recurse, CallsOK
    <3>4. calls'[i].at = "deriving"
      BY <3>2, <3>3 DEF CallsOK
    <3> QED BY <3>4, AfterReady DEF Ready, InDispatch
  <2>2. CASE ~Enters(i)
    <3>1. \A j \in Call \ {i} : calls'[j] = calls[j]
      BY <1>9, <2>0, <2>2, GoesMoves DEF Recurse
    <3>2. active' = active
      BY <1>9 DEF Recurse
    <3> QED BY <2>0, <2>2, <3>1, <3>2, AfterRefused DEF Enters
  <2> QED BY <2>1, <2>2
<1>10. ASSUME NEW i \in Call, LoopDetected(i) \/ Cancelled(i) PROVE LookedAfter'
  BY <1>6, <1>10 DEF LoopDetected, Cancelled, At
<1>11. ASSUME NEW i \in Call, Send(i) PROVE LookedAfter'
  BY <1>11, AfterSend
<1>12. ASSUME NEW i \in Call, EndReturns(i) PROVE LookedAfter'
  <2>1. CASE calls[i].at = "threw"
    BY <1>12, <2>1 DEF EndReturns, LeftAlone, LookedAfter
  <2>2. CASE calls[i].at = "returned"
    BY <1>3, <1>12, <2>2 DEF EndReturns, Ready, InDispatch, Works
  <2> QED BY <1>12, <2>1, <2>2 DEF EndReturns
<1>13. ASSUME NEW i \in Call, GapReturns(i) PROVE LookedAfter'
  <2>1. CASE calls' = [calls EXCEPT ![i] = Made("stop", "rebuilding")]
    <3>1. Made("stop", "rebuilding").at = "rebuilding"
      BY DEF Made
    <3>2. calls'[i].at = "rebuilding"
      BY <2>1, <3>1, PutMoves
    <3> QED BY <3>2, AfterReady DEF Ready
  <2>2. CASE Frees(i) /\ UNCHANGED <<timerVars, lock>> /\ calls[i].at = "returned"
    BY <1>3, <1>13, <2>2 DEF GapReturns, Ready, InDispatch, Works
  <2>3. CASE ~active
    BY <1>13, <2>3, AfterIdle DEF GapReturns
  <2> QED BY <1>13, <2>1, <2>2, <2>3 DEF GapReturns
<1>14. ASSUME NEW i \in Call, StartReturns(i) PROVE LookedAfter'
  <2>1. CASE calls[i].at = "threw"
    BY <1>14, <2>1, AfterMishap DEF StartReturns, Noted
  <2>2. CASE calls[i].at = "returned"
    BY <1>3, <1>14, <2>2 DEF StartReturns, Ready, InDispatch, Works
  <2> QED BY <1>14, <2>1, <2>2 DEF StartReturns
<1>15. ASSUME NEW i \in Call, TimerReturns(i) PROVE LookedAfter'
  <2>1. CASE calls[i].at = "threw"
    BY <1>15, <2>1, AfterIdle DEF TimerReturns, Dies
  <2>2. CASE calls[i].at = "returned"
    BY <1>3, <1>15, <2>2 DEF TimerReturns, Ready, InDispatch, Works
  <2> QED BY <1>15, <2>1, <2>2 DEF TimerReturns
<1>16. ASSUME NEW i \in Call, Recover(i) PROVE LookedAfter'
  <2>1. calls[i].at = "sleeping" /\ active' = active
    BY <1>16 DEF Recover, At
  <2>2. CASE Dispatch(i, calls[i])
    <3>1. InProgress(calls[i]) /\ calls[i].at \notin InDispatch
      BY <2>1, AtMeansInProgress DEF InDispatch
    <3> QED BY <2>1, <2>2, <3>1, AfterDispatch
  <2>3. CASE Frees(i) /\ agent' = IF agent = 0 THEN calls[i].unit ELSE agent
    <3>1. gap' = gap /\ (Works => Works')
      BY <1>16, <2>3 DEF Recover, Works
    <3> QED BY <1>3, <2>1, <2>3, <3>1 DEF Ready, InDispatch
  <2> QED BY <1>16, <2>2, <2>3 DEF Recover
<1>17. ASSUME PauseEffects \/ (~active /\ active' = active) PROVE LookedAfter'
  BY <1>17, AfterIdle DEF PauseEffects
<1>18. ASSUME NEW i \in Call, RecoverPauses(i) PROVE LookedAfter'
  BY <1>17, <1>18 DEF RecoverPauses
<1>19. ASSUME NEW i \in Call, AgentEnds(i) \/ ChatterEnds(i) PROVE LookedAfter'
  BY <1>19, AfterTurn DEF AgentEnds, ChatterEnds
<1>20. ASSUME NEW i \in Call, Free(i) PROVE calls[i].at \notin Ready \union InDispatch
  BY <1>20 DEF Free, NoCall, Made, Ready, InDispatch
<1>21. ASSUME NEW i \in Call, GapFires(i) PROVE LookedAfter'
  <2>1. CASE active /\ cmdCtx
    <3>1. InProgress(Made("gap", "settling"))
      BY AwaitsAssumption DEF InProgress, CallRecord, Made, By, Place, InDispatch, WithUnit
    <3> QED BY <1>20, <1>21, <2>1, <3>1, AfterDispatch DEF GapFires
  <2>2. CASE ~active
    BY <1>21, <2>2, AfterIdle DEF GapFires
  <2>3. CASE active /\ ~cmdCtx
    BY <2>3, AfterMishap DEF HasContext
  <2> QED BY <2>1, <2>2, <2>3
<1>22. ASSUME NEW i \in Call, IdleFires(i) \/ HardFires(i) PROVE LookedAfter'
  <2>1. active' = active /\ gap' = gap /\ (Works => Works')
    <3>1. active' = active /\ gap' = gap /\ UNCHANGED <<agent, currentUnit, lock>>
      BY <1>22 DEF IdleFires, HardFires
    <3>2. timers'.unit = timers.unit
      BY <1>22 DEF IdleFires, HardFires, TInv, RestOK, DataOK
    <3> QED BY <3>1, <3>2 DEF Works
  <2>2. Free(i) /\ \E c : calls' = [calls EXCEPT ![i] = c]
    BY <1>22 DEF IdleFires, HardFires
  <2> QED BY <1>20, <2>1, <2>2, AfterPut
<1>23. ASSUME NEW i \in Call, Start(i) PROVE LookedAfter'
  BY <1>23, AfterIdle, AfterMishap DEF Start, Noted
<1>24. ASSUME NEW i \in Call, Resume(i) \/ Stop(i) PROVE LookedAfter'
  <2>1. Made("start", "preparing").at = "preparing" /\ Made("stop", "rebuilding").at = "rebuilding"
    BY DEF Made
  <2>2. calls'[i].at \in {"preparing", "rebuilding"}
    BY <1>24, <2>1, PutMoves DEF Resume, Stop
  <2> QED BY <2>2, AfterReady DEF Ready
<1>25. ASSUME HardPauses \/ Pause \/ AgentAborted PROVE LookedAfter'
  BY <1>17, <1>25 DEF HardPauses, Pause, AgentAborted
<1>26. ASSUME AgentWrites PROVE LookedAfter'
  BY <1>26, AfterSame DEF AgentWrites, Works
<1>27. ASSUME Crash \/ Dies PROVE LookedAfter'
  BY <1>27, AfterIdle DEF Crash, Dies
<1>28. ASSUME NEW i \in Call, RecoverThrows(i) PROVE LookedAfter'
  BY <1>27, <1>28 DEF RecoverThrows
<1> QED
  BY <1>1, <1>2, <1>4, <1>5, <1>7, <1>8, <1>9, <1>10, <1>11, <1>12, <1>13, <1>14, <1>15, <1>16,
     <1>18, <1>19, <1>21, <1>22, <1>23, <1>24, <1>25, <1>26, <1>27, <1>28
  DEF Next, Step, Event, Returns

\* What makes Supervised inductive.
SInv == Consistent /\ HasContext /\ EndPending /\ GuardHeld /\ SessionsRight /\ LookedAfter

LEMMA SInvInit == Init => SInv
<1> SUFFICES ASSUME Init PROVE SInv
  OBVIOUS
<1>1. \A i \in Call : calls[i].at = "nowhere" /\ calls[i].by = "nobody" /\ calls[i].run = 0
  BY DEF Init, NoCall, Made
<1>2. counters.runs = 0 /\ ~active /\ ~dispatching /\ ~handlingAgentEnd
  BY DEF Init
<1>3. Consistent
  BY <1>1, <1>2 DEF Consistent
<1>4. HasContext /\ EndPending /\ GuardHeld /\ SessionsRight /\ LookedAfter
  BY <1>2 DEF HasContext, EndPending, GuardHeld, SessionsRight, LookedAfter
<1> QED BY <1>3, <1>4 DEF SInv

LEMMA SInvNext == TInv /\ SInv /\ [Next]_vars => SInv'
<1>1. TInv /\ SInv /\ Next => SInv'
  BY ConsistentActions, HasContextActions, EndPendingActions, GuardHeldActions,
     SessionsRightActions, LookedAfterActions
  DEF SInv
<1>2. SInv /\ UNCHANGED vars => SInv'
  <2> SUFFICES ASSUME SInv, UNCHANGED vars PROVE SInv'
    OBVIOUS
  <2>1. UNCHANGED <<calls, active, cmdCtx, dispatching, skipDepth, handlingAgentEnd, currentUnit,
                    timers, gap, agent, lock, done, counters, mishaps>>
    BY DEF vars, modeVars, guardVars, unitVars, timerVars, diskVars
  <2>2. Consistent' /\ HasContext' /\ EndPending'
    BY <2>1 DEF SInv, Consistent, HasContext, EndPending
  <2>3. GuardHeld' /\ SessionsRight' /\ LookedAfter'
    BY <2>1 DEF SInv, GuardHeld, Dispatchers, SessionsRight, LookedAfter, Clean, NoStop, Works
  <2> QED BY <2>2, <2>3 DEF SInv
<1> QED BY <1>1, <1>2

\* An active run with no call in progress has the agent at work on the current unit, under
\* its timers and its lock, or the watchdog armed, unless one of the named mishaps has come:
\* whatever the number of units, calls, commands and troubles, and wherever they meet.
THEOREM RunsAreSupervised == Spec => []Supervised
<1>1. SInv => Supervised
  <2> SUFFICES ASSUME SInv, Idle, active, Clean, ~gap PROVE Works
    BY DEF Supervised, Works, Clean
  <2>1. \A i \in Call : calls[i].at \notin Ready
    BY DEF Idle, NoCall, Made, Ready, InDispatch
  <2> QED BY <2>1 DEF SInv, LookedAfter
<1> QED BY <1>1, TInvInit, TInvNext, SInvInit, SInvNext, PTL DEF Spec
=============================================================================
