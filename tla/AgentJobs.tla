------------------------------ MODULE AgentJobs ------------------------------
(***************************************************************************)
(* The agent and its background jobs: a tool call starts, cancels or       *)
(* awaits jobs, and the end of a job is a message for the agent, which     *)
(* follows up on it or, when it is idle, begins a turn.                    *)
(***************************************************************************)
EXTENDS AgentLoop, AsyncJobs

VARIABLES
  watching,  \* the calls of await_job under way: loop, call, the jobs they race
  told       \* history: the jobs whose result was handed to the session

ownVars == <<watching, told>>
vars == <<loopVars, jobVars, ownVars>>

ASSUME JobsAreOutsiders == Outsiders = Job

Watch == [loop : Loop, call : 1..MaxToolCalls, jobs : SUBSET Job]

\* Every variable has its type.
TypeOK ==
  /\ LoopTypeOK /\ JobsTypeOK
  /\ watching \subseteq Watch /\ told \subseteq Job

Init ==
  /\ LoopInit /\ JobsInit
  /\ watching = {} /\ told = {}

------------------------------------------------------------------------------
(* What a tool call does.                                                  *)

Watched(l, c) == {w \in watching : w.loop = l /\ w.call = c}

\* Any other tool, and the tools below when they have nothing to do.
PlainTool(l, c) ==
  /\ Watched(l, c) = {} /\ ToolDone(l, c)
  /\ UNCHANGED <<jobVars, ownVars>>

AsyncBash(l, c, j) ==
  /\ Watched(l, c) = {} /\ ToolDone(l, c) /\ Register(j)
  /\ UNCHANGED ownVars

CancelJob(l, c, j) ==
  /\ Watched(l, c) = {} /\ ToolDone(l, c) /\ Cancel(j)
  /\ UNCHANGED ownVars

\* await_job races the running ones of the jobs it is given, and returns at once when there
\* is none.  It does not listen to the signal of the agent.
AwaitJobs(l, c, js) ==
  /\ c \in Executing(l) /\ Watched(l, c) = {}
  /\ js \subseteq Running /\ js # {}
  /\ watching' = watching \union {[loop |-> l, call |-> c, jobs |-> js]}
  /\ UNCHANGED <<loopVars, jobVars, told>>

\* The race is decided by the first promise that resolves, which is when the shell closes:
\* a cancelled job may go on for a while.
AwaitEnds(w) ==
  /\ w \in watching /\ ~(w.jobs \subseteq alive)
  /\ watching' = watching \ {w}
  /\ IF w.call \in Executing(w.loop) THEN ToolDone(w.loop, w.call) ELSE UNCHANGED loopVars
  /\ UNCHANGED <<jobVars, told>>

------------------------------------------------------------------------------
(* The end of a job, and what becomes of the manager and the session.      *)

JobEnds(j) ==
  /\ Idle
  /\ Close(j) \/ SpawnFails(j)
  /\ IF Reports(j)
       THEN /\ Deliver(<<"outsider", j>>)
            /\ told' = told \union {j}
            /\ UNCHANGED <<discarded, awaiting, due, countVars>>
       ELSE UNCHANGED <<loopVars, told>>
  /\ UNCHANGED watching

JobEvicted(j) == Idle /\ Evict(j) /\ UNCHANGED <<loopVars, ownVars>>

Reload == Idle /\ ~isStreaming /\ Running # {} /\ Shutdown /\ UNCHANGED <<loopVars, ownVars>>

AgentStep == ((\E l \in Loop : LoopStep(l)) \/ Outside) /\ UNCHANGED <<jobVars, ownVars>>

ToolStep(l) ==
  \E c \in Executing(l) :
    \/ PlainTool(l, c)
    \/ \E j \in Job : AsyncBash(l, c, j) \/ CancelJob(l, c, j)
    \/ \E js \in SUBSET Running : AwaitJobs(l, c, js)

Next ==
  \/ AgentStep
  \/ \E l \in Loop : ToolStep(l)
  \/ \E w \in watching : AwaitEnds(w)
  \/ \E j \in Job : JobEnds(j) \/ JobEvicted(j)
  \/ Reload

Spec == Init /\ [][Next]_vars

\* The model service answers, tools return, the agent's code runs on.  A job need not end
\* unless it is killed: async_bash takes its timeout only when the model asks for one.
Progress ==
  /\ \A l \in Loop :
       /\ WF_vars(LoopStep(l) /\ UNCHANGED <<jobVars, ownVars>>)
       /\ WF_vars(\E c \in 1..MaxToolCalls : PlainTool(l, c))
  /\ WF_vars(AbortReturns /\ UNCHANGED <<jobVars, ownVars>>)
  /\ WF_vars(\E w \in watching : AwaitEnds(w))
  /\ WF_vars(\E j \in killed : JobEnds(j))
FairSpec == Spec /\ Progress

------------------------------------------------------------------------------
(* What should hold.                                                       *)

\* The model service refuses a context in which a tool call has no result or two: when the
\* loop asks again every call of the last response has one, whether it ran, was blocked
\* or was skipped for a steering message, and those that ran are in their order.
AnsweredInTurn ==
  \A l \in Loop :
    LET lp == loops[l]
    IN  lp.pc = "asking" =>
          /\ Len(lp.results) = lp.calls /\ ToSet(lp.results) = 1..lp.calls
          /\ \A i, j \in 1..lp.calls :
               i < j /\ {lp.results[i], lp.results[j]} \subseteq ToSet(lp.prepared)
                 => lp.results[i] < lp.results[j]

\* Unless a handler prompts while a finally block is due, there is one loop at a time, and
\* it is the one that isStreaming, abort() and waitForIdle() are about.
OneLoop ==
  mishaps \cap {"reentered", "reset"} = {} =>
    \A l \in Active : /\ Active = {l} /\ isStreaming
                      /\ abortController = l /\ runningPrompt = l

\* No message is forgotten in a queue: it is read by the loop that works, unless the last
\* loop failed or the message came after its last poll.
NothingStranded ==
  steeringQueue \o followUpQueue # <<>> =>
    \/ \E l \in Loop : loops[l].pc \in Working
    \/ mishaps \cap {"failed", "missed"} # {}

\* Every message that was sent is in exactly one place: read, queued or discarded with its
\* queue.
Sent == ({"user"} \X (1..sends)) \union ({"extension"} \X (1..reactions))
          \union ({"outsider"} \X told)
NothingLost ==
  /\ Sent = messages \union discarded \union ToSet(steeringQueue) \union ToSet(followUpQueue)
  /\ Cardinality(Sent) = Cardinality(messages) + Cardinality(discarded)
                           + Len(steeringQueue) + Len(followUpQueue)

\* The manager never loses sight of a running job, and at most maxRunning shells run
\* besides those that were told to end.
JobsInSight ==
  /\ \A j \in Job : status[j] = "running" => j \in listed /\ j \in alive
  /\ Cardinality(alive \ killed) <= MaxRunning
  /\ Cardinality(listed) <= MaxTotal

\* abort() and newSession() return: unless a handler prompted while a finally block was
\* due, or the agent awaits a job that goes on.
AbortsReturn ==
  awaiting.on ~> \/ ~awaiting.on
                 \/ "reentered" \in mishaps
                 \/ \E w \in watching : w.jobs \subseteq alive

=============================================================================
