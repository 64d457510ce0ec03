# Verification of GSD

TLA+ models of GSD, a coding agent that works through a plan by itself: its
auto-mode (`src/src/resources/extensions/gsd`), the agent session below it
(`src/packages/pi-coding-agent`, `src/packages/pi-agent-core`) with its session
files and credentials, and two extensions with a protocol of their own
(background jobs, memory).  Every model is read off the code; TLC checks it on
small instances and TLAPS proves the most important facts for all.
`PROJECT.json` gives, for every definition that models code, the lines it stands
for; paths such as `auto.ts:1232` below are relative to the directory of their
component.

    tlc -config DispatchRetries.cfg MCAutoDispatch      # one run
    tlapm AutoDispatchProofs.tla                        # the proofs of a module

Contents: 1 the system; 2 the modules; 3 what the runs show; 4 bounds, fairness
and simplifications; 5 what is proved; 6 differences between code and documents;
7 what is not modelled; 8 what is left.

## 1. The system

### Auto-mode

A project is a tree of markdown files under `.gsd/`: milestones, their slices,
the tasks of a slice.  All progress is on disk: a unit of work is done when its
files exist and its checkboxes are marked.  Auto-mode repeats: read the disk,
choose the next unit, open a new agent session, send the unit's prompt, wait for
the end of the turn, check what was written.

| part | source | state it keeps | operations |
|---|---|---|---|
| dispatch loop | `auto.ts` | `active`, `paused`, `currentUnit`, `completedKeySet`, dispatch counters, `_skipDepth`, `_dispatching`, timers | `startAuto`, `pauseAuto`, `stopAuto`, `handleAgentEnd`, `dispatchNextUnit`, watchdogs, `recoverTimedOutUnit` |
| state derivation | `state.ts` | none: a function of the disk | `deriveState` |
| dispatch table | `auto-dispatch.ts` | `rewriteAttemptCount` | fourteen rules, the first that fits |
| dispatch guard | `dispatch-guard.ts` | none | `getPriorSliceCompletionBlocker` |
| artifacts, recovery | `auto-recovery.ts` | `completed-units.json` | `verifyExpectedArtifact`, `skipExecuteTask`, placeholders, self-heal |
| runtime records | `unit-runtime.ts` | `.gsd/runtime/units/*.json` | read, write, clear |
| crash lock | `crash-recovery.ts`, `auto-supervisor.ts` | `auto.lock` | write, clear, SIGTERM handler |
| doctor | `doctor.ts` | the checkboxes it repairs | `runGSDDoctor` at two fix levels |
| post-unit hooks | `post-unit-hooks.ts` | `activeHook`, `hookQueue`, `cycleCounts`, `hook-state.json` | check, dequeue, persist, restore, reset |
| commands, events | `index.ts`, `commands.ts` | none | `/gsd auto, next, pause, stop, steer`, the `agent_end` handler |

The parts call each other directly; what makes them hard is the order.  The
agent, the user, four kinds of timers and the death of the process all act
between two steps of the loop, and between two awaits of one step; the loop
calls itself through a reentrancy guard that turns some calls into no-ops
(`auto.ts:1232`); the same fact is kept in memory, in a file and in checkboxes
that three writers mark.  What has to be right: work is done in the order of the
plan; a unit is retried a bounded number of times and then something else
happens; a remembered completion is a real one; one call at a time chooses and
sends a unit; auto-mode ends, and is never active with nothing to wait for.

### The agent and its session

| part | source | state it keeps | operations |
|---|---|---|---|
| agent and its loop | `agent.ts`, `agent-loop.ts` | messages, steering and follow-up queue, `isStreaming`, abort controller, `runningPrompt` | `prompt`, `continue`, `steer`, `followUp`, `abort`, `reset` |
| session | `core/agent-session.ts` | event queue, `_retryAttempt`, `_retryPromise`, back-off timer | `prompt`, `abort`, event handler, automatic retry, compaction, `newSession`, `switchSession`, `fork`, `navigateTree` |
| session files | `core/session-manager.ts`, `core/compaction` | entries, leaf, `flushed`; a JSONL file | append, context, branch, fork, open; cut point, summary |
| credentials | `core/auth-storage.ts` | `auth.json`, a copy of it, a lock, back-offs | `set`, `remove`, `login`, `logout`, key selection, token refresh, `markUsageLimitReached` |
| fallback chain | `core/fallback-resolver.ts` | none | `findFallback`, `checkForRestoration` |

The loop emits its events synchronously; the session queues their handlers in a
promise chain that lags behind, so that a handler may act on a context that has
moved on.  Handlers, commands and the end of a background job send messages
while a turn runs.  What has to be right: whoever waits in `prompt()` is woken;
retries end; no late handler damages the context of a later turn; no message is
lost or read twice; what is in the file is what the agent has in mind.

### Two extensions

| part | source | state it keeps | operations |
|---|---|---|---|
| background jobs | `async-jobs/` | map of jobs, running count, eviction timers | `register`, `cancel`, completion, eviction, `shutdown`, `await_job` |
| memory | `memory/` | a database that each process holds in memory and writes back whole; `MEMORY.md` | scan, entry, claim under a lease, extraction, consolidation, clear, rebuild |

What has to be right: no running job is lost sight of and each result is
delivered; no session is forgotten by the extraction, none is worked on twice at
a time, and an old result never passes for a new one.

The remaining parts of the repository are listed with the reason why they are
not modelled in `PROJECT.json` and, in short, in section 7.

## 2. The modules

    GsdState            what the program reads off the disk, as operators
      AutoDispatch        EXTENDS it: the dispatch loop and the world around it
        MCAutoDispatch, AutoDispatchProofs
    AutoAwaits          the same loop as calls that overlap between their awaits
      MCAutoAwaits, AutoAwaitsProofs
    PostUnitHooks       the hook engine with its driver
      MCPostUnitHooks, PostUnitHooksProofs
    AgentSession        prompts, the lagging handler, retries, back-offs
      MCAgentSession, AgentSessionProofs
    AgentLoop           the agent, its loop and its queues
    AsyncJobs           the job manager
      AgentJobs           EXTENDS both: agent, tools and jobs together
        MCAgentJobs, AgentJobsProofs
    MemoryWork          abstract: what the extraction of memories promises
      MemoryJobs          the job tables; INSTANCE MemoryWork WITH a refinement mapping
        MCMemoryJobs, MemoryJobsProofs
    AuthStorage         auth.json, its lock, logins and token refreshes
      MCAuthStorage, AuthStorageProofs
    SessionTree         the tree of a session, its context and its cut points, as operators
      SessionFile         EXTENDS it: a process over its session files
        MCSessionFile, SessionFileProofs

**GsdState.**  A disk is a set of facts `<<kind, id>>`: "the plan of slice
`<<1, 2>>` exists", "its checkbox is marked".  On it are defined `DeriveState`
(registry, active milestone, slice, task and phase), `TableUnit` (the dispatch
table, its rules in their order), `Verified` (`verifyExpectedArtifact`),
`Blocked` (the dispatch guard), `DoctorTask` and `DoctorAll` (the repairs of the
doctor at its two fix levels) and `SkipTask` (`skipExecuteTask`).  The
constants are the plan: how many milestones, slices and tasks, and who depends on
whom.

**AutoDispatch.**  One invocation of `dispatchNextUnit` is two steps, the choice
of a unit (`NothingLeft`, `ResolveDispatch`) and what becomes of it
(`SkippedByHook`, `Refused`, `SkipVerified`, `Reconcile`, `LoopDetected`,
`Send`); an invocation of `handleAgentEnd` is one.  `step` says which of them is
due, so a chain of invocations is a sequence of steps.  The user's commands
(`StartAuto`, `ResumeAuto`, `Pause`, `Stop`, `AgentAborted`, `Steer`), `Crash`,
the timers (`IdleTimeout`, `HardTimeout`, `GapWatchdog`) and the agent
(`AgentWrites`, `AgentEnds`) interleave.  The agent writes the artifacts of its
unit one after the other; a turn of a type in `Flaky` may end with some missing,
and the agent may write more than it was asked (`Surprises`).

**AutoAwaits** looks at what AutoDispatch takes for one step: `startAuto`,
`stopAuto`, `handleAgentEnd`, `dispatchNextUnit` and the timer callbacks are
asynchronous functions over the same module variables.  A call that has not
returned is a record in `calls`; `at` names the await it waits in (deriving the
state, gating, a pause between skips, `newSession()`, `setModel()`, rebuilding
the state, ten seconds of recovery), and one action leads to the next await.
`_dispatching`, `_skipDepth` and `_handlingAgentEnd` are what keeps calls apart;
`lock` is `auto.lock`.  A nested call of `dispatchNextUnit` is a level of `depth`
in the same record, and `Unwind` its return.  Commands may come between any two
awaits at which the terminal's main loop is free or the agent streams
(`MayCommand`).  The choice of units is reduced to an order.  `mishaps` is a
history variable: it records each way in which the guards were got around, at
the action that did it, so that the properties can say what holds *unless*.
`counters.runs` and the field `run` of a call are history too: they tell a
dispatch of the present run from one that an earlier run began.

**PostUnitHooks.**  Hooks run after a core unit, each in a session of its own.
The engine's functions are operators (`Runnable`, `QueueNow`, `IsNextHook`,
`WantsRetry`, `Restored`), `handleAgentEnd` is the actions `HookDequeued`,
`HooksFinished`, `HookRetry` and `StepWizard`, and the `await` of the hook's
`newSession()` lies between `HookDequeued` and `HookSession`: `pending` holds
the hook meanwhile.  `InterruptPoints` says where commands may arrive, so that a
run can tell which interruption breaks what.  The choice of the next unit is
reduced to "the first one not done"; AutoDispatch has the whole of it.

**AgentSession.**  Four activities: callers of `prompt()` (`PromptBegin`,
`PromptSend`, `WaitForRetry`), the loop (`Respond`, `RunTools`, `EndLoop`), the
handler (`MessageEnd`, `AgentEndDone`, `RetryElsewhere`, `GiveUp`, `BackOff`,
`BackOffOver`) working off `events` in order, and `setTimeout` callbacks
(`Continue`).  The retry promise is created in `EndLoop`, synchronously with
`agent_end`, and resolved by the handler or by `Abort`.  `mishaps` records what
has happened that the code does not cope with.

**AgentLoop.**  A loop is a record: it asks the model, prepares the calls of a
response one after the other (`Prepare`: blocked, skipped for a steering
message, or started), runs them in parallel (`ToolDone`), emits their results in
their order (`Finalize`), polls the queues at `TurnEnd`, ends (`AgentEnd`) and
runs its finally block (`Finally`, `FinallySilent`).  Between the last poll and
the finally block only promise continuations run, so only event handlers can act
there (`Microtasks`); everything else waits.  `Deliver` is what the session does
with a message: a prompt when idle, the follow-up queue otherwise.  `Escape`,
`AbortAndWait`, `AbortReturns` are the ways of stopping it.

**AsyncJobs, AgentJobs.**  `Register`, `CancelGently`/`Cancel`, `Close` (the shell's
callback), `SpawnFails`, `Evict` (a timer), `Shutdown`.  AgentJobs conjoins them
with the tool calls of AgentLoop (`AsyncBash`, `CancelJob`, `AwaitJobs`) and
hands the result of a job to the agent as a message (`JobEnds`).

**MemoryWork, MemoryJobs.**  MemoryWork is the promise: a session is worked on by
one worker at a time, a result only replaces an older one, and a session counts
as settled up to a version only when a worker that had read at least that version
has stored a result or given up.  MemoryJobs is the code: a process reads the
database file once (`Open`), changes its own copy and writes the whole copy back
after every operation (`Persist`); `Scan`, `Enter`, `Claim`, `Complete`, `Fail`,
`Phase2`, `Consolidate` are the steps of `runStartup`.  Of the sessions it comes
upon, a start takes those that are not too old, and of these the first
`maxRolloutsPerStartup` (`Eligible`).  Leases run out at the end of the day
(`NewDay`, for the reason of section 6) and sessions grow old (`Ages`); processes
are closed, reloaded or killed, in the middle of a write too.  `Work` maps the tables to the abstract
state: a stored result is the output row, a session is settled up to its watermark
when its status is final and it has no unfinished job, and a process is reading
what its extractions in flight were given.

**AuthStorage.**  Each instance keeps a copy of `auth.json`.  `Login`, `AddKey`,
`Logout` change the copy and persist one provider under a synchronous lock; a
refresh is `Begin`, `Acquire` (lock, then read the file), `Exchange`, `Refuse` or
`RequestFails` at the server, `Answer` (merge, write, unlock) or `Fails` and
`Reloaded`.  The lock is a directory with a time stamp that ages (`LockAges`) and
is renewed by a live asynchronous holder (`LockRenewed`); the synchronous lockers
take it for stale sooner than its holder renews it.  The server's refresh tokens
rotate, and processes stall, crash and lose answers.

**SessionTree, SessionFile.**  An entry is a number; `table` says what it is.
SessionTree has the pure parts: `PathTo`, `Context` (`buildSessionContext`),
`Loaded`, `Branched` (`createBranchedSession`), `CutPoint` and `Prepared`
(`prepareCompaction`), and `Sent`, what the provider layer leaves of a list of messages
(`transformMessages`).  SessionFile is the process: the agent adds a message to its
own list and emits an event (`Respond`, `ToolEnds`), the session appends when the
handler's turn comes (`MessageEnd`), and nothing is written before the first
reply; a write may stop half way (`Writes`).  A reply may fail.  The handler of
`agent_end` (`AgentEnd`) looks for another model (`FallsBack`), waits (`RetryEnds`) and
has the turn repeated (`Continue`), or looks at the size of the context (`Checks`); on the way
it takes the last reply off the agent's list, and not out of the session (`TakesOff`).
`prompt()` looks at the size as well (`CheckBefore`).  `/tree`, `/fork`, `/new`, `/resume`, a
label, a shell command, manual and automatic compaction and a restart are actions;
those that wait for a summary or for the agent to stop are two.  `covers` and `past`
are history: the messages a summary was made from, and the conversation an entry
was appended to.

`FairSpec` of a module adds the fairness of section 4.  Definitions marked as
mutants beside the ones they resemble are variants of the code with a plausible
bug; no specification uses them.

## 3. What the runs show

Where a property has an exception ("unless"), the exception is a behaviour of
the code, most of them listed in section 6; each exception was seen to be
necessary: without it TLC finds a counterexample on the instance of the run.  Four
need a larger one, of nine or ten entries instead of seven: "unlinked" in
`ResultsFollowCalls`; "astray" there, with three incidents and two messages kept; a
compaction under a turn ("midturn"), with three incidents; and "recompacted" where only
the earlier summary is passed over.  The last three came to light in the proofs of
section 5.

### Auto-mode

* **dispatch_retries** (MCAutoDispatch, `FairSpec`).  One slice of one task, from
  an empty disk or one with an active override; turns that end with artifacts
  missing (`plan-slice`, `execute-task`, `complete-milestone`), turns that fall
  silent or reach the hard timeout.  `SlicesClosedByUnit`: the doctor
  pass after each turn never marks a slice done before `complete-slice` was sent
  for it.  `RunsEnd`: every run of auto-mode ends; stubs, reconciliations and
  recoveries written in the agent's stead make the derivation move on.
* **dispatch_commands**.  A milestone and a drafted one; resumes (with the full
  doctor pass), aborted turns, `/gsd steer` at any moment, doctor passes that
  throw, a silent `rewrite-docs`.  `RetriesBounded`: no unit is sent more than
  three times before its counters are cleared.  `KeysBacked`: a key in
  `completedKeySet` means that the unit's artifacts exist.  `NeverStalled`:
  auto-mode is never active with nothing running, armed or due.
* **dispatch_order**.  Two milestones, the second depending on the first, of
  three slices with dependencies and human UAT; restarts, stops, pauses, crashes,
  cancelled sessions, a skipped unit type.  `WorkInOrder`: a unit the agent works
  on builds only on finished work.  `BetweenSlicesWorked`: no slice is begun
  before the last one has its UAT result and its reassessment.  `GuardAgrees`:
  the dispatch guard refuses nothing the table selects.
* **auto_awaits** (`FairSpec`).  Two calls in progress at a time, two commands and
  two troubles at any await, over two units.  `OneDispatcher`: one call at a time
  chooses and sends a unit, unless a stop or a chain of skips has opened the guard
  under it.  `Supervised`: when auto-mode is active and no call is in progress, the
  agent works on the current unit, under its own timers and lock, or the watchdog is
  armed, unless a run was started over another one or lost its context, a dispatch
  outlived its run or a pause into the next one, or the first dispatch threw.  `LockMeansCrash`: a lock without a
  run tells of a crash or of a session that got ready after a stop.  `Proceeds`:
  auto-mode that is active gets to work or ends.

### Hooks

* **hooks_branch**.  Branch isolation, commands during core and hook turns, a
  crash: `HookRunsBounded`, no hook runs more than `max_cycles` times for a unit
  between two clean stops.
* **hooks_uninterrupted**.  Worktree isolation, commands during core turns, a
  crash: `CompletionAttributed`, no core unit is taken for the completion of a
  hook; `HooksRanBeforeAdvance`, auto-mode moves on only when every hook of the
  unit has run or has its artifact.

### The agent and its session

* **session_retries** (`FairSpec`).  Two prompts, two providers of one credential,
  every kind of response, one tool call, one abort at any moment, one back-off
  that expires.  `RetriesEnd`: what was left to run comes to rest.  `WaitsEnd`:
  nobody waits for a retry that nothing can end any more, unless a turn was
  retried elsewhere or a retry met an error that is not retryable.
  `AnswersKept`: no late handler takes an answer off the context, and
  `ReturnedMeansOver`: a prompt that returned has no retry asleep, scheduled or
  sent, unless something was aborted or the first response to a retry was a
  tool call.
* **agent_jobs** (`FairSpec`).  Two loops, a response with two tool calls, two
  jobs, one message of the user, one of a handler, one abort or new session, one
  failure.  `AnsweredInTurn`: when the model is asked again every call has exactly
  one result, blocked and skipped ones too.  `OneLoop`: one loop at a time, and it
  is the one that `abort()` and `waitForIdle()` are about.  `NothingStranded`: no
  message waits in a queue that no loop will read, unless the loop failed or the
  message came after its last poll.  `NothingLost`: every message is in exactly one
  place.  `JobsInSight`: running jobs are listed, and the limits of the manager
  hold.  `AbortsReturn`: `abort()` and `newSession()` return.
* **session_tree**.  Two files, seven entries, two incidents (commands, restarts,
  torn writes, replies and summaries that fail, overflows), a compaction that keeps one
  message.
  `FileIsSession`: what a restart would read is what the process has in memory.
  `NothingForgotten`: each message on the way to the leaf is in the context or in
  what a summary of the context was made from.  `AgentInStep`: when all is quiet
  the model is sent the same of the agent's messages as of the session's context.  The
  lists themselves need not be equal: a failed reply that a retry took off the agent's
  stays in the session.  `AtHome`: a session holds only
  what was said in it or in its origins.  `ResultsFollowCalls`: no cut and no
  navigation separates a tool result from its call.
* **session_fork** (violation of `ForkKeepsHistory`).  `createBranchedSession`
  drops the labels of the path and makes them anew at the end; an entry whose
  parent was a label hangs on nothing afterwards, and what came before it is lost
  to the context (section 6).

### Credentials and memory

* **auth_file**.  Two instances, two providers, three tokens, three changes, two
  failures.  `LoginKept`: a login stays in the file or on its way there, unless a
  change could not be saved, was made from an old copy, the lock was taken over, or
  an answer was lost.  `NoReuse`: no refresh token is presented twice, with the
  same exceptions but the first.  `OneProvider`: a write changes one provider's
  entry, unless the lock was taken over.
* **memory_single** (`FairSpec`).  Two projects, two sessions of one of them that
  change up to three times and grow old, starts that take one session and one job
  each, a clear or rebuild, a crash, an early end or a reload, processes one after
  another.  `PendingHasJob`: in every copy of the
  database a session that counts as pending has a job, and a job has a session.
  `KeepsPromise`: the tables implement MemoryWork.  `SessionsExtracted`: every
  session is extracted in its last version, unless the model failed on it, the
  database was cut short, or the session is passed over: it is too old, or behind
  too many others, before it was entered in that version (section 6).

## 4. Bounds, fairness and simplifications

**Bounds.**  The projects have one to three slices of one or two tasks: the code
treats slices and tasks by "the first that is not done", so that two of a kind
show every choice between a done one and the next, and three slices in two
milestones show the last of one and the first of the next.  The limits of the
retry logic (3, 2, 6, 20) are the code's own.  Two hooks, one with
two cycles and one with an artifact, over two units, cover a queue with a rest,
a repeated cycle and a second trigger; one crash is enough to lose or keep the
counts.  `MaxRetries` is 2, so that a first, a further and a refused retry occur;
two prompts let the handler of one lag into the other; one tool call, abort and
expiry each can fall between any two steps.

In AutoAwaits two calls are what it takes for one to overtake another; the guards
are Booleans and a third call meets the same ones (the proofs of section 5 are for
any number).  `MAX_UNIT_DISPATCHES` is 1 there, so the loop detection occurs with a
single repetition; two troubles let a timer fire for one unit and wake up in the
turn of the next.  In AgentJobs the manager's limits are 1 with two jobs, so the
refusal and the eviction happen; two calls of one response are enough for results
that arrive in the wrong order.  In AuthStorage two instances and three tokens
make a refresh, a second one with its result, and a login meanwhile.  In MemoryJobs
a batch of one with two sessions leaves a job unclaimed, a start that takes one session
leaves the other behind, and three changes let a
session change before, during and after its extraction; `MaxJobs` is 3, one more than
a session ever has at once in one process after another, so that it never holds a
start back.  In SessionFile seven
entries hold two turns, a compaction with a cut between them and a branch, or a failed
reply, its retry and a compaction; two files hold a session and its fork; the run of the
fork has eight entries.

**Deadlock** is not checked: auto-mode stops, a session falls idle, and the bounds
run out.

**Fairness.**  Actions of the loop, the handlers and `setTimeout` callbacks run
eventually: the event loop of the process drops none (`WF_vars(Loop)`,
`WF_vars(Handler)`, `WF_vars(Continue)`, those of the agent loop in AgentLoop, and
the steps of every call in AutoAwaits).  A turn of the agent writes, ends, or is
silent for long enough to be found by the idle watchdog, which fires every 15
seconds while armed.  A request to a model service ends: it has a timeout.  A job
ends when it was killed, and need not otherwise: `async_bash` takes its timeout
from the model.  In MemoryJobs days pass, every project is opened again and again
(strong fairness, since a process of another project may be there), and a process
goes on with its start and is closed at its end.  No session needs to grow old.  Nothing is assumed of the user, of
crashes, of aborts or of expiring back-offs.  `RunsEnd` further rests on
`UserMay = {"start"}` in its run: a user who restarts for ever keeps a run going.

**Simplifications of AutoDispatch.**  No command arrives within one invocation of
`dispatchNextUnit` or `handleAgentEnd`, and timers do not fire within a chain:
AutoAwaits is about that.  Recovery attempts saturate at 2, beyond which the code
does not distinguish.  Runtime records are never more than an hour old.  The
agent's STATE.md is not read back.  The checkbox pattern of the doctor always
matches.  The root and the worktree share one disk.  Nobody deletes artifacts:
`/gsd undo` is not modelled.  A self-repair that is tried verifies.  Budget,
context-window and model-selection branches are left out, and so is the turn
`/gsd steer` itself triggers.

**Simplifications of AutoAwaits.**  The work is units in an order, each with one
artifact; the repairs of failed units are in AutoDispatch.  The soft warning and
the model fallback on an error are left out: they change no variable of the model.
A chain of skips never gets to 20.  The idle timer does one recovery per call,
since the back-off of a recovery is shorter than its interval.

**Simplifications of AgentSession.**  Calls of `prompt()` are made one after the
other, without queueing; retries and fallback are enabled; there is no key in
the environment and no runtime override; all entries of the chain have
credentials; compaction, follow-ups and extensions are left out, being in
SessionFile and AgentLoop.  Error messages are reduced to four classes, by what
the code does with them.  An agent loop never throws past its own error messages.
Every tool call is of a tool that exists, with arguments that are valid: another one gets
its result without waiting for the queue of events (`agent-loop.ts:537`).

**Simplifications of AgentLoop.**  The sequential tool mode is left out: no part
of the program asks for it.  What a handler may do at which moment depends on how
far the queue of events lags, and is left open.

**Simplifications of AuthStorage.**  An instance refreshes one provider at a time
and writes of the file are whole.  Time is three ages of the lock's stamp.  No
liveness is claimed of a refresh.

**Simplifications of MemoryJobs.**  A session file is its version; a change is one
that is old enough to be scanned (`minRolloutIdleHours`).  The scan comes upon the
files in a fixed order, that of their names.  The text of the memory is the set of results it
was made from.  A process that is killed in a write leaves nothing or an unreadable
file, and an unreadable file is not opened again.

**Simplifications of SessionFile.**  Every message weighs one token.  Settings,
names and custom entries are one kind.  The token budget of a branch summary, and
that it omits tool results, are left out.  A shell command while the agent streams
is one of AgentLoop's messages.  Retries have no limit but that of the incidents, and a
retry with another credential is a back-off of no length; `_overflowRecoveryAttempted` is left
out, so that an overflow may be recovered from more than once; whether the reply came
from the present model is open.  There is one summary at a time.  An aborted reply
counts as an answer.  A loop that throws, and leaves a reply in the agent's list alone, is
one of AgentLoop's.  `continue()` never finds queued messages, and one that is due while a
command waits for an agent that is idle already comes after the command.

## 5. What is proved

The proofs hold for every value of the constants that satisfies the named
assumptions `ProjectAssumption`, `DispatchAssumption`, `HookConfig`,
`AwaitsAssumption`, `SessionConfig`, `JobConfig` (with the one of AgentLoop),
`AuthAssumption`, `MemoryConfig`, `KeepRecentAssumption` and `SessionAssumption`.

**AutoDispatchProofs.**  `RetriesAreBounded`, `KeysAreBacked` and `DispatchTypes`:
`RetriesBounded`, `KeysBacked` and `TypeOK` for every project, every initial
disk and any sequence of commands, crashes, timeouts, flaky turns and failing
doctor passes.  `RetriesBounded` is not inductive: a counter may be reset by the
closeout of a unit, and what makes that harmless is that the unit's artifacts
exist and stay.  So the argument has two halves.  `StepKeeps`: no step takes a
fact off the disk, stubs and overrides apart.  The inductive invariant `IInv`
says that a unit was sent at most as often as its counter says *or* its
artifacts are on disk (`CountsCover`), and that every key, in memory or in the
file, is of a unit with its artifacts (`FilesBacked`).  A unit with its
artifacts is never sent again, so its lost counter does no harm.  `DispatchTypes`
needs, besides, that a chain of skips that has selected a unit is within
`MAX_SKIP_DEPTH`.  `SlicesAreClosedByUnits` holds under `Unrepaired`: no initial disk
has a finished slice, and no paused run is resumed, since resuming runs the doctor's
full pass, which does mark slices.  `SliceMarks` shows that any other step that
marks a slice is one of a turn of that slice's own `complete-slice` unit, so neither
the doctor's pass after a turn, nor a stub, nor a self-repair closes a slice.
`AutoModeIsAttended` holds when no pre-dispatch hook skips a unit (section 6 has what
happens with one): `AttendedInv` says that a dispatch a timer began finds a turn still
running, and that one a command began has fresh counters, so that it has nothing to
repair and never returns empty-handed.

The order of work is proved of the rules of the dispatch table themselves, for every
plan.  `WorkIsInOrder`: if a roadmap comes with its slices and a plan with its tasks on
the initial disks (`WellFormed`), the agent only ever works on a unit whose
foundations are laid (`InOrder`), when auto-mode is paused or stopped around it too,
and whatever the agent, the doctor and `/gsd steer` write meanwhile.  The argument has
three parts: what a rule selects is founded on the disk it was selected on
(`TableFounded`, from `DerivedState`, what `deriveState` tells of a disk); whatever is
added to the disk between the choice and the prompt leaves it founded
(`AlikeFounded`, `Additions`); and a turn only adds to its own unit (`AgentAdds`, `InOrderKept`).
`GuardsAgree`: if milestones and slices depend on earlier ones only (`DepsInOrder`, and
section 6 has what happens otherwise) the guard refuses nothing the table selects,
with no assumption on the disk: `NoneOpenBefore` and `NoneOpenBetween` show that an
earlier open slice would have been selected itself.  `SlicesAreWorkedOff`: on
`WellFormed` disks no slice is begun before the last one has its UAT result and its
reassessment, if no pre-dispatch hook skips a unit or no paused run is resumed
(`NoSkipOnResume`): `BetweenInv` says that the unit a dispatch has chosen, or the agent
works on, is one of the last closed slice as long as that one is owed something.  The
condition is needed (section 6).

**AutoAwaitsProofs.**  `AwaitsTypes`, `DispatchersAreOne`, `LocksMeanCrashes` and
`RunsAreSupervised`, all safety properties of AutoAwaits: for any number of units,
calls, commands and troubles.  `TInv` is the type invariant
with what a call knows at each await.  `Exclusive` is the invariant behind one
dispatcher: unless something got around the guard, a call between the awaits of
`dispatchNextUnit` means that `_dispatching` is set, and there is one such call;
`LockTold` is the one behind the lock.  `Supervised` speaks of the moments without a
call in progress; its invariant says of every call what it will leave behind: the one
that has opened the session of a unit finds the run it began with (`Clean`), one that
returns without having sent anything has armed the watchdog or left the agent at work
under its timers and its lock (`LookedAfter`), and an agent at work is on the current
unit.  The proof needed a history that the runs alone had not asked for: with three
commands, beyond the bounds of the run, a dispatch that is held up during a pause
sends its unit into the resumed run, without a lock (section 6), which is why
"overstayed" is an exception of the property.

**PostUnitHooksProofs.**  `HookTypes` holds of every configuration.
`HookRunsAreBounded`: under `Benign` (branch isolation, no command while the session of
a hook is being opened) `HookRunsBounded` holds for every number of hooks, units and
crashes.  The prompts sent are
covered by the counts in memory while auto-mode is active (`MemoryCovers`, which
counts a session being opened as sent) and by the file in the project root at all
times (`FileCovers`): that is what a crash falls back to.  `OneOpening` says that
one session is being opened at a time, so persisting after it does not lose a
count.  Neither part of `Benign` is idle (section 6).
`CompletionsAreAttributed` and `HooksRanFirst`, the other two properties, hold under
`Uninterrupted` (commands arrive only while a core unit runs) with either isolation.
`HookInStep` says that the engine has an active hook only while auto-mode is active,
out of step mode and on that very hook; `QueueBehind` that a hook that is off the queue
was counted or has its artifact; `CountsRun` and `FilesRun` that what was counted, in
memory or in a file that a restart may read, was sent.

**AgentSessionProofs.**  `SessionTypes`, `WaitsAreOver`, `ReturnedPromptsAreOver` and
`AnswersAreKept`: all safety properties of AgentSession, for any number of prompts,
providers, credentials, retries and aborts.  `Waits` is the invariant behind the waits:
a retry promise is pending because of something under way (`Pending`), which is a failed
turn in the queue of events or, in a retry that was counted, a loop that has not
answered, a success or a fatal error in the queue, or a scheduled call whose context
ends in a question; `Shape` is what it needs of the queue and the context.  `Alone` is the invariant behind
the other two: until one of the two mishaps, a turn that is retried has a caller that
waits, its failure is the last event of the queue, and of a running loop, a failure to be
handled and a scheduled call there is one at a time; so the message the handler takes off
is the failed turn and no answer.

**AgentJobsProofs.**  `JobsStayInSight`: the manager's invariant needs, besides what
the property says, that a shell which was not told to end belongs to a running job
(`OpenMeansRunning`) and that jobs still to come have left no trace.
`LoopsDoNotOverlap`: `OnlyOne` says of every state of a loop what the agent knows of it
and what the other loops may be, down to the finally block that is still due.
`MessagesHaveOnePlace`: every message sent is in one of four places (`Split`), and the
queues hold none twice; it needs that a job's result is handed over once, when its shell
closes.  `QueuesAreAttended`: an agent that is streaming has a loop that will poll.
`CallsAreAnswered`: for any number of parallel calls.  `Turn` says what a loop has of its
response at each moment: while it prepares, each of the first calls is answered on the
spot or waits to run, in order (`Divided`); while it runs, the calls with a result are
the first of those that were prepared (`Emitting`); when it asks again, all have one.

**AuthStorageProofs.**  `AuthTypes`, `OneProviderAtATime`, `NoTokenTwice`,
`LoginsStay`: for any number of instances and providers.  `Alone`: unless a lock was
taken over, one instance at most is between `Acquire` and the release, and the lock
directory is its own, so that what it has read is what is still in the file.
`Sound`: unless something was outdated, overtaken or lost, the tokens in the file
were given out, differ between providers and are still acceptable, and an answer is
newer than everything in the file.  `AccountKnown` links the server's account with
the file.

**MemoryJobsProofs.**  `MemoryTypes` and `PendingSessionsHaveJobs` hold for any number
of sessions, projects and processes, running side by side or not: the property is one
of each copy of the database (`JobsGood`), and every operation keeps it on the copy it
works on.  `PromiseKept` is the refinement: with processes one after another every step
of the tables is a step of MemoryWork or a stutter.  It rests on `OneInv`: the running
process's copy is the file (`OneRuns`), no watermark, result or finding is ahead of its
session (`NothingAhead`), and an extraction in flight was given at least the version of
the watermark and of the stored result (`TasksCurrent`), all of one session the same;
that is why a result that is stored never hides a version nobody has read.  With
`SideBySide` the refinement fails (section 6).

**SessionFileProofs.**  `TypesHold`, `FilesAreSessions`, `EntriesAreAtHome`,
`AgentsAreInStep`, `NothingIsForgotten` and `ResultsComeAfterCalls`: for any number of
files, entries, commands, restarts and writes that stop half way.  The recursion is in three functions, `Picked`, `PathTo` and the
selections of `Context`, and each is described once, by what determines its result.
`Picked` is the one sequence that lists the chosen places in their order
(`PickedPlaces`, `PickedAppend`).  `PathTo` ends because the parents have no circle
(`Ranked`: each entry has a number above its parent's), and is the one sequence that
leads from a root to the leaf (`PathIsUnique`, by well-founded induction on those
numbers); what is appended is appended to it (`PathAppend`).  `ContextAppend` says the
same of the context: a message that is appended to the leaf comes at its end, a setting
or a label changes nothing.

`SInv` is the invariant.  `Core`: no circle arises, neither when a placed entry gets a
parent nor when a fork makes its labels anew.  That needs `Waits`: a message in the queue
has no place yet, nobody's parent is it, and it is in no session and no file.
`FileInv` says what is in *every* file that has lines, since any of them may be the next
one that is opened: it is whole, begins with the header and holds a reply, and `flushed`
is true where the session has one.  `HomeInv` says the same of where the entries were made, of
every file and of the messages that wait.  `AgentsAreInStep` needs `StepInv` on top: at
every moment, and not only when all is quiet, what is sent of the agent's messages is what
would be sent of the context followed by what waits in the queue (`InStep`; `Lists` is the
queue without its marks), and the session is deaf only during a command or a summary that
a command has started.  What is sent is a selection, so it grows with the list
(`SentMore`) and loses nothing when a failed reply is taken off its end (`SentFront`);
`TakesOff` takes another reply only where it is to blame for it ("mistaken").

`NothingIsForgotten` and `ResultsComeAfterCalls` rest on `WholeInv`.  Both are about the
path to the present leaf, and `/tree`, a fork, `/resume` and a restart may make any entry
of any session the leaf: so it speaks of every path of the open session and of every file
(`Told`), place by place.  `KeptAt`: the past of the entry at that place is on the path,
and what stands before a compaction is kept by it or was put into its summary
(`KeepsFrom`).  `PairedAt`: nothing the model is shown stands between a result and its call
(`EndsInCall`), and a compaction keeps the call of each result that it keeps (`CutsFrom`).
Two more parts are about what is still to be appended.  `JobTold`: a summary under way
covers what it cuts off, and its cut is no result, in the session it was made for,
wherever that is now (`CutFits`, from `CutPoint`).  `InTurn`: the messages that wait go on
where the path ends, so that the results among them, and the one a running tool will give,
meet their calls.  An append leaves every other path as it is (`WholeGrown`); a fork copies
the path, and what held on it holds on the copy, with its labels at the end
(`BranchWhole`).  The last step, from the invariant to the context, is `KeptIsWhole` and
`PairedAreInOrder`.

Every safety property that a run checks is stated by a theorem.  Out of reach of the
prover and left to TLC: liveness (`RunsEnd`, `Proceeds`, `RetriesEnd`, `AbortsReturn`,
`SessionsExtracted`).

## 6. Differences between code and documents

One has a run (`session_fork`) and an entry under "findings" of `PROJECT.json`:
`session-manager.ts` says of `createBranchedSession` that the new session is "only the
path from root to the specified leaf", and a label on that path takes everything
before it away.  The following were met while modelling; the models do what the code
does.  Where constants are named, TLC shows the behaviour with them.

Auto-mode (`src/src/resources/extensions/gsd`, unless a path says otherwise):

* A task that discovers a blocker makes `replan-slice` due;
  `verifyExpectedArtifact` holds of it before it was sent (`auto-recovery.ts:121`), so
  it is skipped, derived again and skipped again, without end (`RunsEnd`, two tasks,
  `Surprises = {"blocker"}`).
* A unit skipped by a pre-dispatch hook at the start of a run: the nested
  `dispatchNextUnit` returns at the reentrancy guard, nothing arms the watchdog, and
  auto-mode stays active and idle (`auto.ts:1528`; `NeverStalled`,
  `SkipTypes = {"research-milestone"}`).
* The counts of the hooks are written in the worktree and read at the project root
  (`auto.ts:1022`): a crash loses them (`HookRunsBounded`, `Isolation = "worktree"`,
  `MaxCrashes = 1`).
* A pause during a hook leaves `activeHook` set; after the resume the end of a core
  unit is handled as that hook's (`auto.ts:554`; `CompletionAttributed`,
  `InterruptPoints = {"core", "hook"}`).
* A command that arrives while the session of a hook is being opened restores or
  clears the counts the handler then persists (`auto.ts:1013`).
* A retry request of a hook removes the completion key and dispatches
  (`auto.ts:1063`), but the doctor pass of the same handler has marked the trigger
  unit done, so the next unit is selected; `types.ts:203` says "re-run the trigger
  unit then re-run hooks".
* An override added during a `rewrite-docs` turn is resolved at its end without a
  rewrite of its own (`auto.ts:924`); `commands.ts:978` promises one.
* When a milestone depends on a later one, `deriveState` passes it over
  (`state.ts:272`) and the dispatch guard refuses what is then selected, because
  an earlier milestone has open slices (`dispatch-guard.ts:71`): auto-mode stops.
* A milestone without a roadmap is promoted whatever its `depends_on`
  (`state.ts:221`); `CHANGELOG.md:107` calls `depends_on` enforced.
* The placeholder for a `plan-slice` that timed out lists no task, so the phase
  stays planning while the artifact verifies: the unit is skipped without end
  (`auto.ts:2391`).
* The hard timeout of a unit is not armed again after its first recovery
  (`auto.ts:2051`); `README.md:120` and `docs/preferences-reference.md:101` say
  auto-mode pauses.
* A unit is sent three times (`auto.ts:144`); `README.md:118` says it is retried once.
* A stub summary written as a last resort leaves the task open on purpose
  (`auto.ts:1761`), and the doctor pass of the next resume marks it done
  (`doctor.ts:809`).
* The recovery attempts of a unit survive into its next dispatch
  (`unit-runtime.ts:80`), so the first timeout of a retry may skip the unit
  (`auto.ts:2251`).
* The lifetime counter is "never reset" (`auto.ts:149`); two places clear it
  (705, 1277).
* `isInAutoWorktree` compares with the directory the process is in, so inside the
  worktree it is false and the merge of the milestone never runs
  (`auto-worktree.ts:174`, `auto.ts:1343`).
* A stop or pause while `newSession()` is awaited: the lock is written and the timers
  are armed afterwards (`auto.ts:1832`), so that a lock tells of a crash that never
  was, against the comment of `crash-recovery.ts` ("outlived" in AutoAwaits).
* A stop clears `_dispatching` under a dispatch in flight, and so does a dispatch that
  stops auto-mode itself: the next start runs beside it ("unguarded").  `startAuto`
  does not ask whether auto-mode is active ("restarted"), and the end of `stopAuto`
  clears `cmdCtx` of a run started meanwhile ("expired").
* A pause removes the lock (`auto.ts:522`) and leaves a dispatch in progress alone.  If
  it comes after the dispatch has written the lock (1847) and the run is resumed before
  the last question whether auto-mode is active (2061), the resume's own dispatch returns
  at the guard, and the old one sends its unit into the resumed run, without a lock
  ("overstayed"): a crash of that unit leaves nothing to recover from.
* A unit that a pre-dispatch hook skips right after a resume: the doctor's pass of the
  resume closes a slice, the skipped unit was the UAT of it, and the turn that was left
  over works on the next slice (`BetweenSlicesWorked`, the project of dispatch_order,
  `SkipTypes = {"run-uat"}` and `UserMay` with "resume").
* `_skipDepth` is not undone when a nested dispatch throws, so the guard stays open;
  a dispatch of `startAuto` that throws leaves auto-mode active with nothing armed
  ("failed").
* The watchdog for a gap between units stops a run whose dispatch waits for more than
  five seconds.  A recovery that sleeps for unit A and wakes up in the turn of B
  steers or aborts B ("mistaken"); one that wakes up after a stop reads
  `currentUnit.startedAt` of nothing, in the callback of a timer, which ends the
  process ("died").
* The `agent_end` of a turn that was not a unit's, handled during `startAuto`,
  dispatches over the turn just begun ("overtaken").

The agent and its session (`src/packages/pi-coding-agent/src/core/agent-session.ts`,
unless a path says otherwise):

* With two credentials the answer after a switch of credential does not resolve the
  retry promise, and `prompt()` hangs (2450; AgentSession's `NobodyWaitsInVain`).  A retry
  that meets an error which is not retryable resolves nothing either (461-472).
* Only the session's own credential is ever backed off, the other one always looks
  available, and the session retries at once and for ever (`auth-storage.ts:613`;
  `RetriesEnd`, two rate-limited credentials).
* `prompt()` returns at the first response of a retried turn that is not an error,
  also when the loop goes on with tool calls (448-456); a second prompt is then
  refused, or gets its answer taken off the context by the handler of the first.
* `abort()` cancels neither a scheduled `continue()` (2450, 2494, 2595) nor a
  retry whose `agent_end` is still queued (1322): the agent starts again after the
  abort, and the late handler may remove the answer of the next prompt.
* In parallel mode the results of calls that fail in preparation are emitted before
  those of earlier calls (`agent-loop.ts:461`); `types.ts:25` says they are in the order
  of the calls.
* A loop that ends by an error or an abort does not poll its queues
  (`agent-loop.ts:220`): messages sent meanwhile stay there until the next prompt.  The
  wait for the event queue after a tool call is outside the `try` (524), and its failure
  ends the loop without its finally block's event.
* Escape drops the queued messages of extensions with the user's
  (`interactive-mode.ts:3027`).
* `/new`, `/fork`, `/tree` and `/resume` are not held back during a compaction or a
  turn (`interactive-mode.ts:2010`); fork and navigation do not stop the agent, so a
  summary or a message may come to another session or branch ("astray", "lagging").
* A shell command recorded while messages wait in the event queue comes between a
  tool call and its result; the comment at 2698 says it is deferred.
* A second compaction starts after the first one's entry, so what the first had kept
  is neither kept nor summarized (`compaction.ts:617`); after a split turn without
  history the earlier summary is dropped ("No prior history.", 742).
* A `/compact` goes on when its session is resumed, and may append its summary between a
  call and its result; if the next compaction finds nothing but that result after it, it
  keeps the result and cuts off the call.
* The failed reply that a retry took off the agent's list stays in the session
  (2568), and whatever makes the list anew from the session brings it back: a navigation,
  or a compaction before a prompt, during the back-off.  `continue()` then throws
  (`agent.ts:424`), nobody hears of it, and the retry never comes.
* The handler takes off the last reply of the agent's list, whichever that is by then: if
  it comes late, or if an answer counts as an overflow because of its size, an answer is
  taken off that stays in the session ("mistaken").
* When the first write of a session fails half way, the next one repeats it: the file
  has its header and first entries twice (`session-manager.ts`, `_persist`).
* A navigation that nothing is appended to is not persisted: a restart is at the last
  line.

Background jobs (`async-jobs`):

* `await_job` ignores its abort signal (`await-tool.ts:27`, 68): an abort waits for the
  job.  `acknowledgeDeliveries` does nothing, so an awaited result is delivered again.
* A cancelled job whose shell closes becomes "completed" (`job-manager.ts:97`; the
  comment at 104 says otherwise), and the shells of cancelled jobs are not counted
  (127).  Results go to whatever session is open.

Credentials (`auth-storage.ts`):

* `set()` writes an entry made from its own old copy (389), against the comment at 387:
  an API key added by another process is lost.  The file is read again only by the
  constructor and after a failed refresh.
* The synchronous operations take a lock for stale after 10 seconds, and the holder of
  an asynchronous one renews it every 15: a healthy refresh may be overtaken, after
  which either may spend a token twice.  A release removes the lock directory whoever
  made it since.
* A reload while another process holds the lock sets `loadError`, and later changes
  are silently not saved; a start right after a crash sees no credentials.

Memory (`memory`):

* A lease is compared as text with the present time in another format
  (`storage.ts:213`), so it lasts to the end of its day.
* The consolidation runs only in a start that has extracted something
  (`pipeline.ts:504`), against the comment at 457: results extracted by a start whose
  consolidation failed may stay out of the memory for ever.
* A start drops the sessions that have not changed for `maxRolloutAgeDays`
  (`pipeline.ts:483`) and then takes the first `maxRolloutsPerStartup` in the order of
  the scan (`:485`), whether or not they are extracted already.  With more recent
  sessions than that, the later ones are entered only when earlier ones have grown too
  old, and if they are too old by then themselves, never (`SessionsExtracted` without
  `PassedOver`).
* Two processes side by side have a copy each and both hold one lease; the later write
  wins (`storage.ts:74`; `KeepsPromise` with two processes and `SideBySide`).
* Jobs are claimed for all projects, so one project's unfinished jobs hold up the
  consolidation of another.  A clear during an extraction leaves a result without a
  session; a reload lets an old consolidation write `MEMORY.md` later.

## 7. What is not modelled

Git and worktrees (the calls ignore or report their failures), undo, the guided flow,
parsing of files, preferences, metrics and reports; settings; background shells, stream
rules, remote questions and subagents; browser, search and other tools; language
servers; front ends, providers, the terminal interface, the native engine, start-up and
packaging.  `PROJECT.json` lists each with its sources and the reason.  Most of them
call a service or transform text; those that keep a protocol of their own are named in
section 8.

Within the modelled parts: the merge of a milestone branch, pre-dispatch hooks that
modify or replace a prompt, the manual trigger of a hook, the fields of the crash lock
besides its unit; the sequential tool mode; model selection; the migration of old session
formats, blobs, listing, `forkFrom`, sessions in memory, two processes on one session
file; several refreshes at a time in one
process, and torn writes of `auth.json`; redaction and prompts of the memory.

## 8. What is left

* `/gsd undo` takes artifacts off the disk behind the back of `completedKeySet`
  (`undo.ts:63`): with it as an action of AutoDispatch, `KeysBacked` and the first half of
  its proof have to be stated anew.
* AgentSession, AgentLoop and SessionFile describe one object from three sides; their
  composition is beyond TLC, and would best be shown by an abstract session that each
  of them refines.  In the same way AutoDispatch, whose invocations are steps, should be
  implemented by AutoAwaits when no call overtakes another.
* Two processes over one session file and over one settings file, as in AuthStorage.
* Worktrees, with a disk for each directory.
* Background shells, stream rules, remote questions, the requests of language servers,
  and the kill ring and undo stack of the editor as pure models.
