------------------------------ MODULE AgentLoop ------------------------------
(***************************************************************************)
(* The agent (pi-agent-core: agent.ts) and its loop (agent-loop.ts) with   *)
(* the ways in which a session feeds it (agent-session.ts): requests to    *)
(* the model, parallel tool calls, the steering and the follow-up queue,   *)
(* abort, a new session, and handlers of extensions that react to an event *)
(* by a message of their own.                                              *)
(*                                                                         *)
(* Node runs the promise continuations of an event to the end before the   *)
(* next event.  Between the last poll of the queues and the end of         *)
(* _runLoop only continuations run, so only handlers can act there         *)
(* (Microtasks); everything else waits.  What a handler may do at which    *)
(* moment depends on how far the queue of events lags, and is left open.   *)
(***************************************************************************)
EXTENDS Naturals, SequencesExt, FiniteSetsExt

CONSTANTS
  MaxLoops,      \* bound: calls of _runLoop
  MaxCallTurns,  \* bound: responses that call tools
  MaxToolCalls,  \* bound: tool calls of a response
  OneAtATime,    \* steeringMode and followUpMode: "one-at-a-time" or "all"
  MaxUserSends,  \* bound: messages of the user
  MaxReactions,  \* bound: messages of extensions
  MaxAborts,     \* bound: aborts and new sessions
  MaxFaults,     \* bound: failures to write a tool result into the session file
  Outsiders      \* other senders of messages

Loop == 1..MaxLoops

ASSUME LoopConfig ==
  /\ MaxLoops \in Nat \ {0} /\ MaxCallTurns \in Nat /\ MaxToolCalls \in Nat \ {0}
  /\ OneAtATime \in BOOLEAN /\ MaxUserSends \in Nat /\ MaxReactions \in Nat
  /\ MaxAborts \in Nat /\ MaxFaults \in Nat

\* Messages are told apart by their senders and numbers.
Message == ({"user"} \X (1..MaxUserSends)) \union ({"extension"} \X (1..MaxReactions))
             \union ({"outsider"} \X Outsiders)

VARIABLES
  loops,            \* loops[l]: the calls of _runLoop, in the order of their start
  isStreaming,      \* _state.isStreaming
  abortController,  \* the loop whose controller it is, 0 when undefined
  runningPrompt,    \* the loop whose promise it is, 0 when undefined
  unresolved,       \* the promises of waitForIdle() not yet resolved
  steeringQueue, followUpQueue,
  messages,         \* messages that have entered _state.messages
  discarded,        \* history: messages taken off a queue unread
  awaiting,         \* the call of abort() that waits for the agent to be idle
  due,              \* handlers that are going to send a message
  turns, sends, reactions, aborts, faults,   \* counters for the bounds
  mishaps           \* history: what has gone wrong, see Mishap

agentVars == <<isStreaming, abortController, runningPrompt, unresolved>>
queueVars == <<steeringQueue, followUpQueue, messages, discarded>>
countVars == <<turns, sends, reactions, aborts, faults>>
loopVars == <<loops, agentVars, queueVars, awaiting, due, countVars, mishaps>>

\* A call of _runLoop: "asking" the model, "preparing" the tool calls of the response,
\* "running" them, "stopping" (agent_end is pushed but not consumed), "closing"
\* (agent_end is consumed, the finally block is due), "over".
NoLoop == [pc |-> "none", aborted |-> FALSE, calls |-> 0, next |-> 0,
           prepared |-> <<>>, done |-> {}, results |-> <<>>]
Working == {"asking", "preparing", "running"}
Active == {l \in Loop : loops[l].pc \in Working \union {"stopping"}}
Microtasks == \E l \in Loop : loops[l].pc \in {"stopping", "closing"}

\* "failed": the last loop ended by an error or an abort, without a poll;
\* "missed": a message was queued after the last poll of the last loop;
\* "reentered": a loop was started while the finally block of another was due;
\* "reset": newSession() reset the agent while a loop that a handler had started ran.
Mishap == {"failed", "missed", "reentered", "reset"}

NotAwaiting == [promise |-> 0, reset |-> FALSE, on |-> FALSE]

\* Every variable has its type.
LoopTypeOK ==
  /\ loops \in [Loop -> [pc : {"none", "stopping", "closing", "over"} \union Working,
                         aborted : BOOLEAN, calls : 0..MaxToolCalls, next : 0..MaxToolCalls,
                         prepared : Seq(1..MaxToolCalls), done : SUBSET (1..MaxToolCalls),
                         results : Seq(1..MaxToolCalls)]]
  /\ isStreaming \in BOOLEAN
  /\ abortController \in 0..MaxLoops /\ runningPrompt \in 0..MaxLoops /\ unresolved \subseteq Loop
  /\ steeringQueue \in Seq(Message) /\ followUpQueue \in Seq(Message)
  /\ messages \subseteq Message /\ discarded \subseteq Message
  /\ awaiting \in [promise : 0..MaxLoops, reset : BOOLEAN, on : BOOLEAN]
  /\ due \in 0..MaxReactions
  /\ turns \in 0..MaxCallTurns /\ sends \in 0..MaxUserSends /\ reactions \in 0..MaxReactions
  /\ aborts \in 0..MaxAborts /\ faults \in 0..MaxFaults
  /\ mishaps \subseteq Mishap

LoopInit ==
  /\ loops = [l \in Loop |-> NoLoop]
  /\ isStreaming = FALSE /\ abortController = 0 /\ runningPrompt = 0 /\ unresolved = {}
  /\ steeringQueue = <<>> /\ followUpQueue = <<>> /\ messages = {} /\ discarded = {}
  /\ awaiting = NotAwaiting /\ due = 0
  /\ turns = 0 /\ sends = 0 /\ reactions = 0 /\ aborts = 0 /\ faults = 0 /\ mishaps = {}

------------------------------------------------------------------------------
(* The queues, and the start of a loop.                                    *)

\* dequeueSteeringMessages, dequeueFollowUpMessages.
Taken(q) == IF OneAtATime /\ q # <<>> THEN <<Head(q)>> ELSE q
\* Mutant: taking one message clears the queue.
LeftNothing(q) == <<>>
Left(q)  == IF OneAtATime /\ q # <<>> THEN Tail(q) ELSE <<>>

\* _runLoop, and the loop up to its first request: ms enters the context, with what the
\* first poll of the steering queue finds.
Start(l, ms) ==
  /\ loops[l].pc = "none" /\ \A k \in 1..(l - 1) : loops[k].pc # "none"
  /\ loops' = [loops EXCEPT ![l] = [NoLoop EXCEPT !.pc = "asking"]]
  /\ isStreaming' = TRUE /\ abortController' = l
  /\ runningPrompt' = l /\ unresolved' = unresolved \union {l}
  /\ messages' = messages \union ms \union ToSet(Taken(steeringQueue))
  /\ steeringQueue' = Left(steeringQueue)
  /\ mishaps' = (mishaps \ {"failed", "missed"})
       \union (IF \E k \in Loop : loops[k].pc = "closing" THEN {"reentered"} ELSE {})

\* sendCustomMessage with deliverAs "followUp" and triggerTurn.
Deliver(m) ==
  IF isStreaming
    THEN /\ followUpQueue' = Append(followUpQueue, m)
         /\ mishaps' = mishaps
              \union (IF \E l \in Active : loops[l].pc \in Working THEN {} ELSE {"missed"})
         /\ UNCHANGED <<loops, agentVars, steeringQueue, messages>>
    ELSE /\ \E l \in Loop : Start(l, {m})
         /\ UNCHANGED followUpQueue

------------------------------------------------------------------------------
(* runLoop: a turn, and what follows it.                                   *)

\* The loop asks the model again; calls and results of the last turn are in its context.
Asking(lp) == [lp EXCEPT !.pc = "asking"]
Stopping(lp) == [NoLoop EXCEPT !.pc = "stopping", !.aborted = lp.aborted]

\* Mutant: the follow-up queue is not polled.
TurnEndUnpolled(l, lp) ==
  /\ loops' = [loops EXCEPT ![l] =
       IF steeringQueue # <<>> \/ lp.calls > 0 THEN Asking(lp) ELSE Stopping(lp)]
  /\ messages' = messages \union ToSet(Taken(steeringQueue))
  /\ steeringQueue' = Left(steeringQueue)
  /\ UNCHANGED followUpQueue

\* The poll of the steering queue after a turn; without steering messages and tool
\* results, that of the follow-up queue; with nothing in it either, the end.
TurnEnd(l, lp) ==
  IF steeringQueue # <<>>
    THEN /\ loops' = [loops EXCEPT ![l] = Asking(lp)]
         /\ messages' = messages \union ToSet(Taken(steeringQueue))
         /\ steeringQueue' = Left(steeringQueue)
         /\ UNCHANGED followUpQueue
  ELSE IF lp.calls > 0
    THEN /\ loops' = [loops EXCEPT ![l] = Asking(lp)]
         /\ UNCHANGED <<steeringQueue, followUpQueue, messages>>
  ELSE IF followUpQueue # <<>>
    THEN /\ loops' = [loops EXCEPT ![l] = Asking(lp)]
         /\ messages' = messages \union ToSet(Taken(followUpQueue))
         /\ followUpQueue' = Left(followUpQueue)
         /\ UNCHANGED steeringQueue
  ELSE   /\ loops' = [loops EXCEPT ![l] = Stopping(lp)]
         /\ UNCHANGED <<steeringQueue, followUpQueue, messages>>

\* A handler of an extension may be going to answer an event by a message; while the
\* session changes it gets no events (_disconnectFromAgent).
MayReact ==
  due' \in IF due + reactions < MaxReactions /\ ~awaiting.reset THEN {due, due + 1} ELSE {due}

Respond(l) ==
  /\ loops[l].pc = "asking" /\ ~loops[l].aborted
  /\ \/ /\ TurnEnd(l, [NoLoop EXCEPT !.pc = "asking"])
        /\ UNCHANGED turns
     \/ /\ turns < MaxCallTurns /\ turns' = turns + 1
        /\ \E n \in 1..MaxToolCalls :
             loops' = [loops EXCEPT ![l] = [NoLoop EXCEPT !.pc = "preparing", !.calls = n, !.next = 1]]
        /\ UNCHANGED <<steeringQueue, followUpQueue, messages>>
  /\ MayReact
  /\ UNCHANGED <<agentVars, discarded, awaiting, sends, reactions, aborts, faults, mishaps>>

\* A response with the stop reason "error" or "aborted" ends the loop without a poll.
RespondFails(l) ==
  /\ loops[l].pc = "asking"
  /\ loops' = [loops EXCEPT ![l] = Stopping(@)]
  /\ mishaps' = mishaps \union {"failed"}
  /\ MayReact
  /\ UNCHANGED <<agentVars, queueVars, awaiting, countVars>>

------------------------------------------------------------------------------
(* executeToolCallsParallel; no part of the program asks for the           *)
(* sequential mode.                                                        *)

\* The loop after the preparation of its next call, which is to run or is answered on the
\* spot: an unknown tool, arguments that do not validate, a tool_call handler that blocks.
PreparedCall(lp, runs) ==
  IF runs THEN [lp EXCEPT !.prepared = Append(@, lp.next)]
          ELSE [lp EXCEPT !.results = Append(@, lp.next)]

\* Mutant: the calls that are prepared and do not run get no result.
SkippedRest(lp) ==
  [lp EXCEPT !.results = @ \o [i \in 1..(lp.calls - lp.next) |-> lp.next + i]]

\* Steering messages skip the calls prepared so far and the remaining ones.
Skipped(lp) ==
  [lp EXCEPT !.results = @ \o lp.prepared \o [i \in 1..(lp.calls - lp.next) |-> lp.next + i]]

Prepare(l, runs) ==
  LET lp == PreparedCall(loops[l], runs)
  IN  /\ loops[l].pc = "preparing"
      /\ IF steeringQueue # <<>> THEN TurnEnd(l, Skipped(lp))
         ELSE IF lp.next < lp.calls
           THEN /\ loops' = [loops EXCEPT ![l] = [lp EXCEPT !.next = @ + 1]]
                /\ UNCHANGED <<steeringQueue, followUpQueue, messages>>
         ELSE IF lp.prepared = <<>> THEN TurnEnd(l, lp)
         ELSE   /\ loops' = [loops EXCEPT ![l] = [lp EXCEPT !.pc = "running"]]
                /\ UNCHANGED <<steeringQueue, followUpQueue, messages>>
      /\ UNCHANGED <<agentVars, discarded, awaiting, due, countVars, mishaps>>

\* The prepared calls run side by side; they throw when the signal is raised.
Executing(l) == IF loops[l].pc = "running" THEN ToSet(loops[l].prepared) \ loops[l].done ELSE {}

ToolDone(l, c) ==
  /\ c \in Executing(l)
  /\ loops' = [loops EXCEPT ![l].done = @ \union {c}]
  /\ UNCHANGED <<agentVars, queueVars, awaiting, due, countVars, mishaps>>

\* Their results are emitted in their order, each as soon as the earlier ones are.
NextResult(l) ==
  LET lp == loops[l]
  IN  lp.prepared[Min({i \in 1..Len(lp.prepared) : lp.prepared[i] \notin ToSet(lp.results)})]

Finalize(l) ==
  LET c  == NextResult(l)
      lp == [loops[l] EXCEPT !.results = Append(@, c)]
  IN  /\ loops[l].pc = "running" /\ c \in loops[l].done
      /\ IF ToSet(lp.prepared) \subseteq ToSet(lp.results) THEN TurnEnd(l, lp)
         ELSE /\ loops' = [loops EXCEPT ![l] = lp]
              /\ UNCHANGED <<steeringQueue, followUpQueue, messages>>
      /\ UNCHANGED <<agentVars, discarded, awaiting, due, countVars, mishaps>>

\* The hook after a tool call awaits the queue of events, which is rejected when its last
\* event was the end of a tool result that could not be saved; the exception ends the loop.
FinalizeThrows(l) ==
  LET lp == loops[l]
  IN  /\ lp.pc = "running" /\ faults < MaxFaults
      /\ NextResult(l) \in lp.done
      /\ lp.results # <<>> /\ (Last(lp.results) \in ToSet(lp.prepared) \/ Last(lp.results) = lp.calls)
      /\ loops' = [loops EXCEPT ![l] = Stopping(@)]
      /\ faults' = faults + 1 /\ mishaps' = mishaps \union {"failed"}
      /\ UNCHANGED <<agentVars, queueVars, awaiting, due, turns, sends, reactions, aborts>>

------------------------------------------------------------------------------
(* The end of _runLoop: agent_end is consumed, then the finally block.     *)

AgentEnd(l) ==
  /\ loops[l].pc = "stopping"
  /\ loops' = [loops EXCEPT ![l].pc = "closing"]
  /\ isStreaming' = FALSE
  /\ MayReact
  /\ UNCHANGED <<abortController, runningPrompt, unresolved, queueVars, awaiting, countVars, mishaps>>

\* Mutant: an aborted loop does not resolve its promise.
FinallySilent(l) ==
  /\ loops[l].pc = "closing"
  /\ loops' = [loops EXCEPT ![l] = [NoLoop EXCEPT !.pc = "over"]]
  /\ isStreaming' = FALSE /\ abortController' = 0
  /\ unresolved' = IF loops[l].aborted THEN unresolved ELSE unresolved \ {runningPrompt}
  /\ runningPrompt' = 0
  /\ UNCHANGED <<queueVars, awaiting, due, countVars, mishaps>>

Finally(l) ==
  /\ loops[l].pc = "closing"
  /\ loops' = [loops EXCEPT ![l] = [NoLoop EXCEPT !.pc = "over"]]
  /\ isStreaming' = FALSE /\ abortController' = 0
  /\ unresolved' = unresolved \ {runningPrompt} /\ runningPrompt' = 0
  /\ UNCHANGED <<queueVars, awaiting, due, countVars, mishaps>>

------------------------------------------------------------------------------
(* Who acts on the agent from outside.                                     *)

\* A continuation of abort() that is ready to run.
Released == awaiting.on /\ awaiting.promise \notin unresolved
Idle == ~Microtasks /\ ~Released

React ==
  /\ due > 0 /\ due' = due - 1 /\ reactions' = reactions + 1
  /\ Deliver(<<"extension", reactions + 1>>)
  /\ UNCHANGED <<discarded, awaiting, turns, sends, aborts, faults>>

\* The user's messages: a prompt, or while the agent is busy a steering or a follow-up
\* message.
UserSends ==
  LET m == <<"user", sends + 1>>
  IN  /\ Idle /\ sends < MaxUserSends /\ sends' = sends + 1
      /\ \/ Deliver(m)
         \/ /\ isStreaming
            /\ steeringQueue' = Append(steeringQueue, m)
            /\ UNCHANGED <<loops, agentVars, followUpQueue, messages, mishaps>>
      /\ UNCHANGED <<discarded, awaiting, due, turns, reactions, aborts, faults>>

\* agent.abort(): the signal of the current controller.
Aborted == IF abortController = 0 THEN loops ELSE [loops EXCEPT ![abortController].aborted = TRUE]

\* The escape key: the user's queued messages go back to the editor, those of extensions
\* are dropped with them, and the agent is aborted.
Escape ==
  /\ Idle /\ isStreaming /\ aborts < MaxAborts /\ aborts' = aborts + 1
  /\ loops' = Aborted
  /\ discarded' = discarded \union ToSet(steeringQueue) \union ToSet(followUpQueue)
  /\ steeringQueue' = <<>> /\ followUpQueue' = <<>>
  /\ UNCHANGED <<agentVars, messages, awaiting, due, turns, sends, reactions, faults, mishaps>>

\* session.abort(), alone or as the first step of newSession(), waits for the promise of
\* the agent that is current at the call.
AbortAndWait(reset) ==
  /\ Idle /\ ~awaiting.on /\ aborts < MaxAborts /\ aborts' = aborts + 1
  /\ loops' = Aborted
  /\ awaiting' = [promise |-> runningPrompt, reset |-> reset, on |-> TRUE]
  /\ UNCHANGED <<agentVars, queueVars, due, turns, sends, reactions, faults, mishaps>>

\* It returns; newSession() then resets the agent.
AbortReturns ==
  /\ Released /\ awaiting' = NotAwaiting
  /\ IF awaiting.reset
       THEN /\ isStreaming' = FALSE
            /\ discarded' = discarded \union ToSet(steeringQueue) \union ToSet(followUpQueue)
            /\ steeringQueue' = <<>> /\ followUpQueue' = <<>>
            /\ mishaps' = mishaps \union (IF Active = {} THEN {} ELSE {"reset"})
       ELSE UNCHANGED <<isStreaming, steeringQueue, followUpQueue, discarded, mishaps>>
  /\ UNCHANGED <<loops, abortController, runningPrompt, unresolved, messages, due, countVars>>

\* Mutant: continue() does not ask whether the agent is processing.
ContinueAnyway ==
  /\ Idle
  /\ \E l \in Loop :
       IF steeringQueue # <<>>
         THEN Start(l, {}) /\ UNCHANGED followUpQueue
         ELSE /\ followUpQueue # <<>> /\ followUpQueue' = Left(followUpQueue)
              /\ Start(l, ToSet(Taken(followUpQueue)))
  /\ UNCHANGED <<discarded, awaiting, due, countVars>>

\* agent.continue() after a compaction that found messages in the queues: a loop for the
\* steering messages, which skips its first poll, or for the follow-ups.
Continue ==
  /\ Idle /\ ~isStreaming
  /\ \E l \in Loop :
       IF steeringQueue # <<>>
         THEN Start(l, {}) /\ UNCHANGED followUpQueue
         ELSE /\ followUpQueue # <<>> /\ followUpQueue' = Left(followUpQueue)
              /\ Start(l, ToSet(Taken(followUpQueue)))
  /\ UNCHANGED <<discarded, awaiting, due, countVars>>

LoopStep(l) ==
  \/ Respond(l) \/ RespondFails(l)
  \/ \E runs \in BOOLEAN : Prepare(l, runs)
  \/ Finalize(l) \/ FinalizeThrows(l) \/ AgentEnd(l) \/ Finally(l)

Outside ==
  \/ React \/ UserSends \/ Escape \/ AbortReturns \/ Continue
  \/ \E reset \in BOOLEAN : AbortAndWait(reset)
=============================================================================
