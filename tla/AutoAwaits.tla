----------------------------- MODULE AutoAwaits -----------------------------
(***************************************************************************)
(* Auto-mode as concurrent calls: auto.ts between its awaits.              *)
(*                                                                         *)
(* startAuto, stopAuto, handleAgentEnd, dispatchNextUnit and the timers    *)
(* are asynchronous functions over the same module variables.  AutoDispatch *)
(* takes every call of them for one step; here a call is a process that    *)
(* another one may overtake at each await, and the guards are the          *)
(* variables _dispatching, _skipDepth and _handlingAgentEnd.               *)
(*                                                                         *)
(* The work is reduced to units done in order, each by a turn of the agent *)
(* that leaves its artifact or not.                                        *)
(***************************************************************************)
EXTENDS Integers, FiniteSetsExt

CONSTANTS
  NumUnits,
  MAX_UNIT_DISPATCHES,
  MaxCalls,      \* bound: calls in progress at a time
  MaxCommands,   \* bound: commands and keys of the user
  MaxTroubles    \* bound: timers of a unit that fire, agent_end events of turns that are not a
                 \* unit's, dispatches that throw, sessions that are cancelled and crashes

ASSUME AwaitsAssumption ==
  /\ NumUnits \in Nat \ {0} /\ MAX_UNIT_DISPATCHES \in Nat \ {0} /\ MaxCalls \in Nat \ {0}
  /\ MaxCommands \in Nat /\ MaxTroubles \in Nat

Unit == 1..NumUnits
Call == 1..MaxCalls

VARIABLES
  calls,                        \* calls[i]: a call that has not returned
  active, paused, cmdCtx,       \* cmdCtx: is it set
  dispatching, skipDepth, handlingAgentEnd,
  currentUnit, dispatchCount,
  timers,        \* the unit of the armed timers, and whether the hard timeout is one
  gap,           \* is the dispatch gap watchdog armed
  agent,         \* the unit whose prompt the agent works on, 0: the agent is idle
  done,          \* the units whose artifacts are on disk
  attempts,      \* recoveryAttempts in .gsd/runtime/units
  lock,          \* the unit in auto.lock, 0: no such file
  counters,      \* what the bounds count, and history: how often auto-mode has been started or
                 \* resumed ("runs")
  mishaps        \* history: see Mishap

modeVars == <<active, paused, cmdCtx>>
guardVars == <<dispatching, skipDepth, handlingAgentEnd>>
unitVars == <<currentUnit, dispatchCount>>
timerVars == <<timers, gap>>
diskVars == <<done, attempts, lock>>
vars == <<calls, modeVars, guardVars, unitVars, timerVars, agent, diskVars, counters, mishaps>>

\* "unguarded": a second call got past the guard of dispatchNextUnit, which a stop or a
\*   chain of skips had opened;
\* "outlived": a new session was ready when the run it is for was stopped or paused, or was
\*   about to be;
\* "overstayed": a dispatch sent its prompt in a run that was started or resumed after it;
\* "overtaken": the handler of an agent_end dispatched over a turn begun since;
\* "mistaken": a recovery went on for a unit that the agent was not working on;
\* "expired": the end of a stop cleared cmdCtx under a run started since;
\* "restarted": startAuto began a run while another one was active;
\* "failed": the dispatch of startAuto threw and nobody arranged for another one;
\* "died": the process crashed, or what a timer's callback threw has ended it.
Mishap == {"unguarded", "outlived", "overstayed", "overtaken", "mistaken", "expired",
           "restarted", "failed", "died"}

\* Where a call waits: for deriveState ("deriving"), for the gates and the dispatch table
\* ("gating"), between skips ("skipping"), for newSession() ("switching"), for the model
\* ("selecting"), in stopAuto for rebuildState ("rebuilding") and setModel ("restoring"), in startAuto before and after it
\* sets active ("starting", "preparing"), in handleAgentEnd ("settling"), in
\* recoverTimedOutUnit ("sleeping").  "returned", "threw": dispatchNextUnit is over.
InDispatch == {"deriving", "gating", "skipping", "switching", "selecting"}
Place == InDispatch \union {"rebuilding", "restoring", "starting", "preparing", "settling",
                            "sleeping", "returned", "threw"}

\* depth: calls of dispatchNextUnit by itself; tries: recoveryAttempts as read; run: history,
\* counters.runs when it got into dispatchNextUnit.
Made(by, at) == [by |-> by, at |-> at, unit |-> 0, depth |-> 0, tries |-> 0, run |-> 0]
NoCall == Made("nobody", "nowhere")
NoTimers == [unit |-> 0, hard |-> FALSE]

\* Every variable has its type.
TypeOK ==
  /\ calls \in [Call -> {NoCall} \union
                  [by : {"start", "stop", "end", "gap", "idle", "hard"}, at : Place,
                   unit : 0..NumUnits, depth : Nat, tries : Nat, run : Nat]]
  /\ active \in BOOLEAN /\ paused \in BOOLEAN /\ cmdCtx \in BOOLEAN
  /\ dispatching \in BOOLEAN /\ skipDepth \in Nat /\ handlingAgentEnd \in BOOLEAN
  /\ currentUnit \in 0..NumUnits
  /\ dispatchCount \in [Unit -> 0..MAX_UNIT_DISPATCHES]
  /\ timers \in [unit : 0..NumUnits, hard : BOOLEAN] /\ gap \in BOOLEAN
  /\ agent \in 0..NumUnits /\ lock \in 0..NumUnits /\ done \subseteq Unit
  /\ attempts \in [Unit -> Nat]
  /\ counters \in [commands : 0..MaxCommands, troubles : 0..MaxTroubles, runs : Nat]
  /\ mishaps \subseteq Mishap

Init ==
  /\ calls = [i \in Call |-> NoCall]
  /\ active = FALSE /\ paused = FALSE /\ cmdCtx = FALSE
  /\ dispatching = FALSE /\ skipDepth = 0 /\ handlingAgentEnd = FALSE
  /\ currentUnit = 0 /\ dispatchCount = [u \in Unit |-> 0]
  /\ timers = NoTimers /\ gap = FALSE
  /\ agent = 0
  /\ done = {} /\ attempts = [u \in Unit |-> 0] /\ lock = 0
  /\ counters = [commands |-> 0, troubles |-> 0, runs |-> 0]
  /\ mishaps = {}

\* dispatchNextUnit goes from its end to its caller in continuations: nothing comes between.
Returning == \E i \in Call : calls[i].at \in {"returned", "threw"}
At(i, place) == ~Returning /\ calls[i].at = place
Free(i) == ~Returning /\ calls[i] = NoCall /\ \A j \in 1..(i - 1) : calls[j] # NoCall
Goes(i, at) == calls' = [calls EXCEPT ![i].at = at]
Frees(i) == calls' = [calls EXCEPT ![i] = NoCall]
Count(what) == counters' = [counters EXCEPT ![what] = @ + 1]
Noted(cond, what) == mishaps' = mishaps \union (IF cond THEN {what} ELSE {})

Dispatchers == {i \in Call : calls[i].at \in InDispatch}

-----------------------------------------------------------------------------
(* stopAuto and pauseAuto *)

\* The first part of stopAuto, up to rebuildState; auto-mode is still active.
StopBegins(i) ==
  /\ timers' = NoTimers /\ gap' = FALSE /\ lock' = 0
  /\ dispatching' = FALSE /\ skipDepth' = 0
  /\ Noted(Dispatchers \ {i} # {}, "unguarded")

StopRebuilt(i) ==
  /\ At(i, "rebuilding")
  /\ Goes(i, "restoring")
  /\ active' = FALSE /\ paused' = FALSE
  /\ currentUnit' = 0 /\ dispatchCount' = [u \in Unit |-> 0]
  /\ handlingAgentEnd' = FALSE
  /\ UNCHANGED <<cmdCtx, dispatching, skipDepth, timerVars, agent, diskVars, counters, mishaps>>

\* The last part, after setModel; a dispatch that stopped auto-mode returns.
StopEnds(i) ==
  /\ At(i, "restoring")
  /\ cmdCtx' = FALSE /\ Noted(active, "expired")
  /\ IF calls[i].by = "stop"
     THEN Frees(i) /\ UNCHANGED <<dispatching, skipDepth>>
     ELSE /\ Goes(i, "returned")
          /\ dispatching' = FALSE
          /\ skipDepth' = Max({0, skipDepth - calls[i].depth})
  /\ UNCHANGED <<active, paused, handlingAgentEnd, unitVars, timerVars, agent, diskVars, counters>>

\* (PauseKeepsLock: the lock file stays.)
PauseKeepsLock ==
  /\ timers' = NoTimers /\ gap' = FALSE /\ UNCHANGED lock
  /\ active' = FALSE /\ paused' = TRUE

PauseEffects ==
  /\ timers' = NoTimers /\ gap' = FALSE /\ lock' = 0
  /\ active' = FALSE /\ paused' = TRUE

-----------------------------------------------------------------------------
(* Commands: they run at once while the agent streams, and otherwise when the main loop *)
(* of the terminal is not in a command.                                                 *)

MayCommand ==
  /\ ~Returning /\ counters.commands < MaxCommands
  /\ agent # 0 \/ \A i \in Call : calls[i].by \notin {"start", "stop"}

\* startAuto, not paused: a lock file of this or of a dead process is taken for a crash.
Start(i) ==
  /\ MayCommand /\ ~paused /\ Free(i)
  /\ calls' = [calls EXCEPT ![i] = Made("start", "starting")]
  /\ lock' = 0 /\ Noted(active, "restarted")
  /\ Count("commands")
  /\ UNCHANGED <<modeVars, guardVars, unitVars, timerVars, agent, done, attempts>>

Activate(i) ==
  /\ At(i, "starting")
  /\ IF done = Unit
     THEN Frees(i) /\ UNCHANGED <<active, cmdCtx, unitVars, counters, mishaps>>
     ELSE /\ Goes(i, "preparing") /\ Noted(active, "restarted") /\ Count("runs")
          /\ active' = TRUE /\ cmdCtx' = TRUE
          /\ currentUnit' = 0 /\ dispatchCount' = [u \in Unit |-> 0]
  /\ UNCHANGED <<paused, guardVars, timerVars, agent, diskVars>>

Resume(i) ==
  /\ MayCommand /\ paused /\ Free(i)
  /\ calls' = [calls EXCEPT ![i] = Made("start", "preparing")]
  /\ active' = TRUE /\ paused' = FALSE /\ cmdCtx' = TRUE
  /\ dispatchCount' = [u \in Unit |-> 0]
  /\ counters' = [counters EXCEPT !.commands = @ + 1, !.runs = @ + 1]
  /\ UNCHANGED <<guardVars, currentUnit, timerVars, agent, diskVars, mishaps>>

Pause ==
  /\ MayCommand /\ active
  /\ PauseEffects
  /\ Count("commands")
  /\ UNCHANGED <<calls, cmdCtx, guardVars, unitVars, agent, done, attempts, mishaps>>

Stop(i) ==
  /\ MayCommand /\ (active \/ paused) /\ Free(i)
  /\ calls' = [calls EXCEPT ![i] = Made("stop", "rebuilding")]
  /\ StopBegins(i)
  /\ Count("commands")
  /\ UNCHANGED <<modeVars, handlingAgentEnd, unitVars, agent, done, attempts>>

\* Escape, or an error of the provider: agent_end with that stopReason.
AgentAborted ==
  /\ ~Returning /\ counters.commands < MaxCommands /\ agent # 0
  /\ agent' = 0
  /\ IF active THEN PauseEffects ELSE UNCHANGED <<active, paused, timerVars, lock>>
  /\ Count("commands")
  /\ UNCHANGED <<calls, cmdCtx, guardVars, unitVars, done, attempts, mishaps>>

\* The process dies: what is in memory is lost.
Dies ==
  /\ calls' = [i \in Call |-> NoCall]
  /\ active' = FALSE /\ paused' = FALSE /\ cmdCtx' = FALSE
  /\ dispatching' = FALSE /\ skipDepth' = 0 /\ handlingAgentEnd' = FALSE
  /\ currentUnit' = 0 /\ dispatchCount' = [u \in Unit |-> 0]
  /\ timers' = NoTimers /\ gap' = FALSE /\ agent' = 0

Crash ==
  /\ ~Returning /\ counters.troubles < MaxTroubles
  /\ Dies /\ mishaps' = mishaps \union {"died"}
  /\ Count("troubles")
  /\ UNCHANGED diskVars

-----------------------------------------------------------------------------
(* dispatchNextUnit *)

\* (EntersAnyway: without the reentrancy guard.)
EntersAnyway(i) == active /\ cmdCtx

\* The conditions at the top of dispatchNextUnit.
Enters(i) == active /\ cmdCtx /\ (~dispatching \/ skipDepth > 0)

\* A chain of skips leaves the guard open, and so does a dispatch that stops auto-mode.
GuardOpen(i) ==
  \/ skipDepth > 0 /\ Dispatchers \ {i} # {}
  \/ \E j \in Call : calls[j].by # "stop" /\ calls[j].at \in {"rebuilding", "restoring"}

\* A call of dispatchNextUnit by the call i, which goes on as c.
Dispatch(i, c) ==
  /\ IF Enters(i)
     THEN /\ calls' = [calls EXCEPT ![i] = [c EXCEPT !.at = "deriving", !.run = counters.runs]]
          /\ dispatching' = TRUE
          /\ mishaps' = mishaps
               \union (IF GuardOpen(i) THEN {"unguarded"} ELSE {})
               \union (IF c.by = "end" /\ agent # 0 THEN {"overtaken"} ELSE {})
     ELSE /\ calls' = [calls EXCEPT ![i] = [c EXCEPT !.at = "returned"]]
          /\ UNCHANGED <<dispatching, mishaps>>

\* The finally blocks of dispatchNextUnit and of its calls of itself.
Unwind(i) ==
  /\ Goes(i, "returned")
  /\ dispatching' = FALSE
  /\ skipDepth' = Max({0, skipDepth - calls[i].depth})

\* stopAuto called by dispatchNextUnit.
StopsItself(i) ==
  IF active \/ paused THEN Goes(i, "rebuilding") /\ StopBegins(i)
  ELSE Unwind(i) /\ UNCHANGED <<timerVars, lock, mishaps>>

\* The units are done in their order.
NextUnit(u) == u \notin done /\ 1..(u - 1) \subseteq done

\* deriveState: everything is complete, or there is a next unit.
Derived(i) ==
  /\ At(i, "deriving")
  /\ \/ done = Unit /\ StopsItself(i)
     \/ /\ \E u \in Unit :
             NextUnit(u) /\ calls' = [calls EXCEPT ![i].at = "gating", ![i].unit = u]
        /\ UNCHANGED <<timerVars, lock, dispatching, skipDepth, mishaps>>
  /\ UNCHANGED <<modeVars, handlingAgentEnd, unitVars, agent, done, attempts, counters>>

\* The unit has got its artifact in the meantime: it is skipped.
Skip(i) ==
  /\ At(i, "gating") /\ calls[i].unit \in done
  /\ Goes(i, "skipping")
  /\ skipDepth' = skipDepth + 1
  /\ UNCHANGED <<modeVars, dispatching, handlingAgentEnd, unitVars, timerVars, agent, diskVars,
                 counters, mishaps>>

\* After 50 ms dispatchNextUnit calls itself; a call that does not get in ends the chain.
Recurse(i) ==
  /\ At(i, "skipping")
  /\ IF Enters(i)
     THEN /\ calls' = [calls EXCEPT ![i].at = "deriving", ![i].depth = @ + 1, ![i].run = counters.runs]
          /\ dispatching' = TRUE
          /\ Noted(GuardOpen(i), "unguarded")
          /\ UNCHANGED skipDepth
     ELSE /\ Goes(i, "returned")
          /\ dispatching' = FALSE
          /\ skipDepth' = Max({0, skipDepth - calls[i].depth - 1})
          /\ UNCHANGED mishaps
  /\ UNCHANGED <<modeVars, handlingAgentEnd, unitVars, timerVars, agent, diskVars, counters>>

\* (WithinLimitOffByOne: one dispatch more.)
WithinLimitOffByOne(u) == dispatchCount[u] <= MAX_UNIT_DISPATCHES

WithinLimit(u) == dispatchCount[u] < MAX_UNIT_DISPATCHES

LoopDetected(i) ==
  /\ At(i, "gating") /\ calls[i].unit \notin done /\ ~WithinLimit(calls[i].unit)
  /\ StopsItself(i)
  /\ UNCHANGED <<modeVars, handlingAgentEnd, unitVars, agent, done, attempts, counters>>

ClosedOut(v) == v = currentUnit /\ v \in done

\* The unit is the current one from here on; the previous one is closed out.
Announce(i) ==
  LET u == calls[i].unit
  IN /\ At(i, "gating") /\ u \notin done /\ WithinLimit(u)
     /\ Goes(i, "switching")
     /\ currentUnit' = u
     /\ dispatchCount' = [v \in Unit |-> IF v = u THEN dispatchCount[v] + 1
                                       ELSE IF ClosedOut(v) THEN 0 ELSE dispatchCount[v]]
     /\ attempts' = [v \in Unit |-> IF v # u /\ ClosedOut(v) THEN 0 ELSE attempts[v]]
     /\ UNCHANGED <<modeVars, guardVars, timerVars, agent, done, lock, counters, mishaps>>

Outlives(i) ==
  ~active \/ currentUnit # calls[i].unit \/ \E j \in Call : calls[j].at = "rebuilding"

\* (SwitchedUnlocked: the lock is not brought up to date.)
SwitchedUnlocked(i) ==
  /\ At(i, "switching")
  /\ Goes(i, "selecting")
  /\ agent' = 0
  /\ Noted(Outlives(i), "outlived")
  /\ UNCHANGED <<modeVars, guardVars, unitVars, timerVars, diskVars, counters>>

\* newSession() has ended the turn of the agent and is done: the lock is written anyway.
Switched(i) ==
  /\ At(i, "switching")
  /\ Goes(i, "selecting")
  /\ agent' = 0 /\ lock' = calls[i].unit
  /\ Noted(Outlives(i), "outlived")
  /\ UNCHANGED <<modeVars, guardVars, unitVars, timerVars, done, attempts, counters>>

\* The timers are armed, in any case; the prompt is sent if auto-mode is still active.
Send(i) ==
  /\ At(i, "selecting")
  /\ Unwind(i)
  /\ timers' = [unit |-> calls[i].unit, hard |-> TRUE] /\ gap' = FALSE
  /\ agent' = IF active THEN calls[i].unit ELSE agent
  /\ mishaps' = mishaps \union (IF Outlives(i) THEN {"outlived"} ELSE {})
                         \union (IF calls[i].run # counters.runs THEN {"overstayed"} ELSE {})
  /\ UNCHANGED <<modeVars, handlingAgentEnd, unitVars, diskVars, counters>>

\* An extension cancels the new session.
Cancelled(i) ==
  /\ At(i, "switching") /\ counters.troubles < MaxTroubles
  /\ Count("troubles")
  /\ StopsItself(i)
  /\ UNCHANGED <<modeVars, handlingAgentEnd, unitVars, agent, done, attempts>>

\* Something in dispatchNextUnit throws: the depth of a chain of skips is not taken back.
Throws(i) ==
  /\ ~Returning /\ calls[i].at \in {"deriving", "gating", "switching", "selecting"} /\ counters.troubles < MaxTroubles
  /\ Count("troubles")
  /\ Goes(i, "threw")
  /\ dispatching' = FALSE
  /\ UNCHANGED <<modeVars, skipDepth, handlingAgentEnd, unitVars, timerVars, agent, diskVars, mishaps>>

-----------------------------------------------------------------------------
(* The callers of dispatchNextUnit when it is over *)

Undispatched == active /\ ~timers.hard

\* (NeverLeftAlone: what dispatchNextUnit throws is only reported.)
NeverLeftAlone(i) == FALSE

\* handleAgentEnd leaves a watchdog behind if nothing was dispatched.
LeftAlone(i) == Undispatched \/ calls[i].at = "threw"

EndReturns(i) ==
  /\ calls[i].by = "end" /\ calls[i].at \in {"returned", "threw"}
  /\ Frees(i)
  /\ handlingAgentEnd' = FALSE
  /\ gap' = (gap \/ LeftAlone(i))
  /\ UNCHANGED <<modeVars, dispatching, skipDepth, unitVars, timers, agent, diskVars, counters, mishaps>>

\* The watchdog stops auto-mode if its own dispatch has not helped.
GapReturns(i) ==
  /\ calls[i].by = "gap" /\ calls[i].at \in {"returned", "threw"}
  /\ IF Undispatched \/ (calls[i].at = "threw" /\ (active \/ paused))
     THEN calls' = [calls EXCEPT ![i] = Made("stop", "rebuilding")] /\ StopBegins(i)
     ELSE Frees(i) /\ UNCHANGED <<timerVars, lock, dispatching, skipDepth, mishaps>>
  /\ UNCHANGED <<modeVars, handlingAgentEnd, unitVars, agent, done, attempts, counters>>

StartReturns(i) ==
  /\ calls[i].by = "start" /\ calls[i].at \in {"returned", "threw"}
  /\ Frees(i)
  /\ Noted(calls[i].at = "threw", "failed")
  /\ UNCHANGED <<modeVars, guardVars, unitVars, timerVars, agent, diskVars, counters>>

\* Nobody catches what a timer's callback throws: the rejection ends the process.
TimerReturns(i) ==
  /\ calls[i].by \in {"idle", "hard"} /\ calls[i].at \in {"returned", "threw"}
  /\ IF calls[i].at = "threw" THEN Dies /\ mishaps' = mishaps \union {"died"}
     ELSE Frees(i) /\ UNCHANGED <<modeVars, guardVars, unitVars, timerVars, agent, mishaps>>
  /\ UNCHANGED <<diskVars, counters>>

-----------------------------------------------------------------------------
(* The agent and handleAgentEnd *)

AgentWrites ==
  /\ ~Returning /\ agent # 0 /\ agent \notin done
  /\ done' = done \union {agent}
  /\ UNCHANGED <<calls, modeVars, guardVars, unitVars, timerVars, agent, attempts, lock, counters, mishaps>>

\* An agent_end event: it is dropped while another one is handled.
Handled(i) ==
  IF active /\ cmdCtx /\ ~handlingAgentEnd
  THEN /\ calls' = [calls EXCEPT ![i] = Made("end", "settling")]
       /\ handlingAgentEnd' = TRUE /\ timers' = NoTimers /\ gap' = FALSE
  ELSE UNCHANGED <<calls, handlingAgentEnd, timerVars>>

AgentEnds(i) ==
  /\ agent # 0 /\ Free(i)
  /\ agent' = 0
  /\ Handled(i)
  /\ UNCHANGED <<modeVars, dispatching, skipDepth, unitVars, diskVars, counters, mishaps>>

\* The end of a turn of the user or of a background job.
ChatterEnds(i) ==
  /\ agent = 0 /\ Free(i) /\ counters.troubles < MaxTroubles
  /\ Count("troubles")
  /\ Handled(i)
  /\ UNCHANGED <<modeVars, dispatching, skipDepth, unitVars, agent, diskVars, mishaps>>

\* After the delay, the doctor and the hooks: the next unit.
Settled(i) ==
  /\ At(i, "settling")
  /\ Dispatch(i, calls[i])
  /\ UNCHANGED <<modeVars, skipDepth, handlingAgentEnd, unitVars, timerVars, agent, diskVars, counters>>

\* The records of units whose artifact exists are removed.
Prepared(i) ==
  /\ At(i, "preparing")
  /\ attempts' = [v \in Unit |-> IF v \in done THEN 0 ELSE attempts[v]]
  /\ Dispatch(i, calls[i])
  /\ UNCHANGED <<modeVars, skipDepth, handlingAgentEnd, unitVars, timerVars, agent, done, lock,
                 counters>>

-----------------------------------------------------------------------------
(* Timers *)

GapFires(i) ==
  /\ gap /\ Free(i)
  /\ gap' = FALSE
  /\ IF active /\ cmdCtx THEN Dispatch(i, Made("gap", "settling"))
                         ELSE UNCHANGED <<calls, dispatching, mishaps>>
  /\ UNCHANGED <<modeVars, skipDepth, handlingAgentEnd, unitVars, timers, agent, diskVars, counters>>

Sleeper(by) == [by |-> by, at |-> "sleeping", unit |-> timers.unit, depth |-> 0,
                tries |-> attempts[timers.unit], run |-> 0]

\* The idle watchdog finds no progress; its backoff is shorter than its interval.
IdleFires(i) ==
  /\ timers.unit # 0 /\ active /\ currentUnit # 0 /\ Free(i)
  /\ \A j \in Call : calls[j].by # "idle"
  /\ counters.troubles < MaxTroubles /\ Count("troubles")
  /\ calls' = [calls EXCEPT ![i] = Sleeper("idle")]
  /\ UNCHANGED <<modeVars, guardVars, unitVars, timerVars, agent, diskVars, mishaps>>

HardFires(i) ==
  /\ timers.hard /\ currentUnit # 0 /\ Free(i)
  /\ counters.troubles < MaxTroubles /\ Count("troubles")
  /\ timers' = [timers EXCEPT !.hard = FALSE]
  /\ calls' = [calls EXCEPT ![i] = IF active THEN Sleeper("hard") ELSE NoCall]
  /\ UNCHANGED <<modeVars, guardVars, unitVars, gap, agent, diskVars, mishaps>>

\* The run that the hard timeout is from has been restarted: there is no unit to recover.
HardPauses ==
  /\ ~Returning /\ timers.hard /\ currentUnit = 0
  /\ counters.troubles < MaxTroubles /\ Count("troubles")
  /\ IF active THEN PauseEffects
     ELSE timers' = [timers EXCEPT !.hard = FALSE] /\ UNCHANGED <<active, paused, gap, lock>>
  /\ UNCHANGED <<calls, cmdCtx, guardVars, unitVars, agent, done, attempts, mishaps>>

MaxTries(i) == IF calls[i].by = "idle" THEN 2 ELSE 1
Mistaken(i) == ~active \/ currentUnit # calls[i].unit \/ agent # calls[i].unit

\* recoverTimedOutUnit after its awaits reads currentUnit, and nothing else, anew: the
\* unit is complete, or the agent is told to finish it, or a placeholder completes it.
Recover(i) ==
  LET u == calls[i].unit
  IN /\ At(i, "sleeping") /\ currentUnit # 0
     /\ \/ /\ u \in done
           /\ Dispatch(i, calls[i])
           /\ UNCHANGED <<agent, done, attempts>>
        \/ /\ u \notin done /\ calls[i].tries < MaxTries(i)
           /\ attempts' = [attempts EXCEPT ![u] = calls[i].tries + 1]
           /\ agent' = IF agent = 0 THEN u ELSE agent
           /\ Noted(Mistaken(i), "mistaken")
           /\ Frees(i)
           /\ UNCHANGED <<dispatching, done>>
        \/ /\ u \notin done /\ calls[i].tries >= MaxTries(i)
           /\ done' = done \union {u}
           /\ attempts' = [attempts EXCEPT ![u] = calls[i].tries + 1]
           /\ Dispatch(i, calls[i])
           /\ UNCHANGED agent
     /\ UNCHANGED <<modeVars, skipDepth, handlingAgentEnd, unitVars, timerVars, lock, counters>>

\* The placeholder cannot be written: auto-mode is paused.
RecoverPauses(i) ==
  /\ At(i, "sleeping") /\ currentUnit # 0
  /\ calls[i].unit \notin done /\ calls[i].tries >= MaxTries(i)
  /\ attempts' = [attempts EXCEPT ![calls[i].unit] = calls[i].tries + 1]
  /\ IF active THEN PauseEffects ELSE UNCHANGED <<active, paused, timerVars, lock>>
  /\ Frees(i)
  /\ UNCHANGED <<cmdCtx, guardVars, unitVars, agent, done, counters, mishaps>>

\* Auto-mode was stopped in the meantime: currentUnit is null, and the rejection of the
\* callback ends the process.
RecoverThrows(i) ==
  /\ At(i, "sleeping") /\ currentUnit = 0
  /\ Dies /\ mishaps' = mishaps \union {"died"}
  /\ UNCHANGED <<diskVars, counters>>

-----------------------------------------------------------------------------
(* Specification *)

Returns(i) == EndReturns(i) \/ GapReturns(i) \/ StartReturns(i) \/ TimerReturns(i)

\* What a call does when what it waits for is there.
Step(i) ==
  \/ StopRebuilt(i) \/ StopEnds(i) \/ Activate(i) \/ Prepared(i) \/ Settled(i)
  \/ Derived(i) \/ Skip(i) \/ Recurse(i) \/ LoopDetected(i) \/ Announce(i) \/ Switched(i)
  \/ Send(i)
  \/ Recover(i) \/ RecoverThrows(i) \/ Returns(i)

Event(i) == AgentEnds(i) \/ ChatterEnds(i) \/ GapFires(i) \/ IdleFires(i) \/ HardFires(i)

Next ==
  \/ \E i \in Call : Step(i) \/ Event(i) \/ Start(i) \/ Resume(i) \/ Stop(i)
                     \/ Cancelled(i) \/ Throws(i) \/ RecoverPauses(i)
  \/ HardPauses \/ Pause \/ AgentAborted \/ AgentWrites \/ Crash

Spec == Init /\ [][Next]_vars

\* Everything that is awaited comes, the watchdog fires, and a turn of the agent ends.
FairSpec ==
  /\ Spec /\ \A i \in Call : WF_vars(Step(i))
  /\ WF_vars(\E i \in Call : GapFires(i)) /\ WF_vars(\E i \in Call : AgentEnds(i))

-----------------------------------------------------------------------------
(* Properties *)

Idle == \A i \in Call : calls[i] = NoCall

\* At most one call chooses and sends a unit at a time, but for the two ways in which the
\* guard of dispatchNextUnit is opened under a call that is in progress.
OneDispatcher == Cardinality(Dispatchers) > 1 => "unguarded" \in mishaps

\* When auto-mode is active and no call is in progress, the agent works on the current
\* unit, under its timers, with its lock on disk, or the watchdog is armed; but for a run
\* that was started over another one or lost its context, a dispatch that outlived its run
\* or went on into the next one, and one of startAuto that threw.
Supervised ==
  Idle /\ active =>
    \/ gap
    \/ agent # 0 /\ agent = currentUnit /\ agent = timers.unit /\ agent = lock
    \/ mishaps \cap {"restarted", "expired", "outlived", "overstayed", "failed"} # {}

\* A lock file that is found without auto-mode running is that of a crash, or of a session
\* that got ready after auto-mode had been stopped.
LockMeansCrash ==
  ~active /\ lock # 0 => mishaps \cap {"outlived", "died"} # {}

\* Auto-mode that is active gets to work, or ends, unless the first dispatch threw or the
\* run lost its context.
Proceeds == active ~> (agent # 0 \/ ~active \/ mishaps \cap {"failed", "expired"} # {})
=============================================================================
