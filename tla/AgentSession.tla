---------------------------- MODULE AgentSession ----------------------------
(***************************************************************************)
(* Automatic retries of an agent session (agent-session.ts) with the agent *)
(* they drive (pi-agent-core: agent.ts, agent-loop.ts), the rotation of    *)
(* credentials (auth-storage.ts) and the chain of providers                *)
(* (fallback-resolver.ts).                                                 *)
(*                                                                         *)
(* Four activities interleave: the callers of prompt(), the loop of the    *)
(* agent, the session's handler, which works off the events of the loop in *)
(* a promise chain that may lag behind, and the setTimeout callbacks that  *)
(* continue a failed turn.  Left out: compaction, the steering and the     *)
(* follow-up queue, a change of the model by hand, extensions.             *)
(***************************************************************************)
EXTENDS Integers, FiniteSetsExt, SequencesExt

CONSTANTS
  NumPrompts,      \* calls of prompt(), one after the other
  NumProviders,    \* the fallback chain, in the order of priority
  NumCredentials,  \* credentials of each provider in auth.json
  Sticky,          \* the credential the hash of the session id points at
  Responses,       \* what the model service may answer with
  MaxRetries,      \* settings: retry.maxRetries
  MaxCalls,        \* bound: tool calls of the model
  MaxAborts,       \* bound: calls of abort()
  MaxExpiries      \* bound: back-offs that expire

Prompt     == 1..NumPrompts
Provider   == 1..NumProviders
Credential == Provider \X (1..NumCredentials)

\* How a response of the model service ends: "quota" stands for a quota error and for
\* a rate limit whose retry-after exceeds maxDelayMs, "rate_limit" also for a server
\* error, "network" for a transport failure, "fatal" for what is not retryable.
CredentialError == {"quota", "rate_limit"}
Retryable == CredentialError \union {"network"}
Failure   == Retryable \union {"fatal"}
Outcome   == Failure \union {"answer", "call", "aborted"}

\* Messages of the context; those of the role "assistant" are the outcomes.
Message == Outcome \union {"user", "result"}

ASSUME SessionConfig ==
  /\ NumPrompts \in Nat \ {0} /\ NumProviders \in Nat \ {0}
  /\ NumCredentials \in Nat \ {0} /\ Sticky \in 1..NumCredentials
  /\ Responses \subseteq Outcome \ {"aborted"}
  /\ MaxRetries \in Nat /\ MaxCalls \in Nat /\ MaxAborts \in Nat /\ MaxExpiries \in Nat

VARIABLES
  prompts,       \* prompts[p]: where the call of prompt() is
  loop,          \* _runLoop: "idle", "llm", "tools", "ending" (agent_end is due)
  owner,         \* the prompt that started the loop, 0 for continue()
  aborting,      \* has the abort signal of the loop been raised
  model,         \* agent.state.model, by its provider
  loopModel,     \* the model the running loop was started with
  last,          \* the loop's last response
  context,       \* agent.state.messages
  events,        \* the events the handler has not finished
  handler,       \* "free", or "sleeping" in the back-off of a retry
  retryAttempt, retryPromise,   \* _retryAttempt; is there a _retryPromise
  timers,        \* scheduled calls of agent.continue()
  backedOff,     \* credentialBackoff
  exhausted,     \* providerBackoff
  calls, aborts, expiries,      \* counters for the bounds
  answers,       \* history: answers the model has given
  mishaps        \* history: what has gone wrong so far with a retry

agentVars   == <<loop, owner, aborting, loopModel, last>>
retryVars   == <<retryAttempt, retryPromise>>
backoffVars == <<backedOff, exhausted>>
boundVars   == <<calls, aborts, expiries>>
vars == <<prompts, agentVars, model, context, events, handler, retryVars, timers,
          backoffVars, boundVars, answers, mishaps>>

Mishap == {"aborted", "early", "switched", "fatal"}

\* Every variable has its type; _retryAttempt stays within maxRetries between the
\* handler's steps.
TypeOK ==
  /\ prompts \in [Prompt -> {"new", "starting", "running", "checking", "waiting", "returned"}]
  /\ loop \in {"idle", "llm", "tools", "ending"}
  /\ owner \in Prompt \union {0} /\ aborting \in BOOLEAN
  /\ model \in Provider /\ loopModel \in Provider
  /\ last \in Outcome /\ context \in Seq(Message)
  /\ events \in Seq({"message_end", "agent_end"} \X Outcome)
  /\ handler \in {"free", "sleeping"}
  /\ retryAttempt \in 0..MaxRetries /\ retryPromise \in BOOLEAN
  /\ timers \in Nat
  /\ backedOff \subseteq Credential /\ exhausted \subseteq Provider
  /\ calls \in 0..MaxCalls /\ aborts \in 0..MaxAborts /\ expiries \in 0..MaxExpiries
  /\ answers \in Nat /\ mishaps \subseteq Mishap

Init ==
  /\ prompts = [p \in Prompt |-> "new"]
  /\ loop = "idle" /\ owner = 0 /\ aborting = FALSE
  /\ model = 1 /\ loopModel = 1 /\ last = "answer" /\ context = <<>> /\ events = <<>> /\ handler = "free"
  /\ retryAttempt = 0 /\ retryPromise = FALSE /\ timers = 0
  /\ backedOff = {} /\ exhausted = {}
  /\ calls = 0 /\ aborts = 0 /\ expiries = 0 /\ answers = 0 /\ mishaps = {}

------------------------------------------------------------------------------
(* Credentials and providers.                                              *)

\* selectCredentialIndex finds a credential of the provider that is not backed off.
HasKey(p, off) == \E c \in 1..NumCredentials : <<p, c>> \notin off

\* markUsageLimitReached backs off the credential of the session, whichever of the
\* round robin the request has used.
Marked(o) == IF o \in CredentialError THEN backedOff \union {<<model, Sticky>>} ELSE backedOff

\* It returns whether another credential is available.
HasAlternate(o) == o \in CredentialError /\ HasKey(model, Marked(o))

\* checkForRestoration: the first available provider before the current one.
Restored ==
  LET better == {p \in Provider \ exhausted : p < model}
  IN  IF better = {} THEN model ELSE Min(better)

\* findFallback: the providers that may take over, and the one that does: the next
\* available one of the chain, and from its end the first.
Fallbacks(o) ==
  IF o \in CredentialError /\ ~HasAlternate(o) THEN Provider \ (exhausted \union {model}) ELSE {}

Fallback(o) ==
  LET later == {p \in Fallbacks(o) : p > model}
  IN  IF later = {} THEN Min(Fallbacks(o)) ELSE Min(later)

------------------------------------------------------------------------------
(* prompt(): validation, the turn, and the wait for a retry in progress.   *)

PromptBegin(p) ==
  /\ prompts[p] = "new"
  /\ \A q \in 1..(p - 1) : prompts[q] = "returned"
  /\ model' = IF loop = "idle" THEN Restored ELSE model
  /\ prompts' = [prompts EXCEPT ![p] =
       IF loop = "idle" /\ HasKey(model', backedOff) THEN "starting" ELSE "returned"]
  /\ UNCHANGED <<agentVars, context, events, handler, retryVars, timers, backoffVars,
                 boundVars, answers, mishaps>>

\* agent.prompt() refuses while a loop is running.
PromptRefused(p) ==
  /\ prompts[p] = "starting" /\ loop # "idle"
  /\ prompts' = [prompts EXCEPT ![p] = "returned"]
  /\ UNCHANGED <<agentVars, model, context, events, handler, retryVars, timers,
                 backoffVars, boundVars, answers, mishaps>>

PromptSend(p) ==
  /\ prompts[p] = "starting" /\ loop = "idle"
  /\ prompts' = [prompts EXCEPT ![p] = "running"]
  /\ loop' = "llm" /\ owner' = p /\ aborting' = FALSE /\ loopModel' = model
  /\ context' = Append(context, "user")
  /\ UNCHANGED <<model, last, events, handler, retryVars, timers, backoffVars, boundVars,
                 answers, mishaps>>

\* waitForRetry() after agent.prompt() has resolved.
WaitForRetry(p) ==
  /\ prompts[p] = "checking"
  /\ prompts' = [prompts EXCEPT ![p] = IF retryPromise THEN "waiting" ELSE "returned"]
  /\ UNCHANGED <<agentVars, model, context, events, handler, retryVars, timers,
                 backoffVars, boundVars, answers, mishaps>>

------------------------------------------------------------------------------
(* The agent loop.                                                         *)

\* A request ends in one of the service's responses; in a rate-limit error without a
\* request when every credential is backed off; or in an abort once it is signalled.
ResponseOf ==
  IF ~HasKey(loopModel, backedOff) THEN {IF aborting THEN "aborted" ELSE "rate_limit"}
  ELSE (IF aborting THEN (Responses \ Failure) \union {"aborted"} ELSE Responses)
       \ (IF calls = MaxCalls THEN {"call"} ELSE {})

Respond ==
  /\ loop = "llm"
  /\ \E o \in ResponseOf :
       /\ last' = o /\ context' = Append(context, o)
       /\ events' = Append(events, <<"message_end", o>>)
       /\ loop' = IF o = "call" THEN "tools" ELSE "ending"
       /\ calls' = calls + IF o = "call" THEN 1 ELSE 0
       /\ answers' = answers + IF o = "answer" THEN 1 ELSE 0
  /\ UNCHANGED <<prompts, owner, aborting, model, loopModel, handler, retryVars, timers,
                 backoffVars, aborts, expiries, mishaps>>

\* The session's hooks hold a tool call until the queue of events has been worked off.
RunTools ==
  /\ loop = "tools" /\ events = <<>> /\ handler = "free"
  /\ loop' = "llm" /\ context' = Append(context, "result")
  /\ UNCHANGED <<prompts, owner, aborting, model, loopModel, last, events, handler, retryVars,
                 timers, backoffVars, boundVars, answers, mishaps>>

\* _createRetryPromiseForAgentEnd, called synchronously when agent_end is emitted.
\* (CreatedByHandler: left to the queued handler.)
CreatedByHandler(o) == FALSE
CreatesPromise(o) == o \in Retryable

EndLoop ==
  /\ loop = "ending"
  /\ loop' = "idle"
  /\ events' = Append(events, <<"agent_end", last>>)
  /\ retryPromise' = (retryPromise \/ CreatesPromise(last))
  /\ prompts' = [p \in Prompt |-> IF p = owner THEN "checking" ELSE prompts[p]]
  /\ UNCHANGED <<owner, aborting, model, loopModel, last, context, handler, retryAttempt,
                 timers, backoffVars, boundVars, answers, mishaps>>

\* A setTimeout callback: continue() refuses while a loop is running or when the last
\* message is the assistant's, and the refusal is swallowed.
MayContinue == loop = "idle" /\ Last(context) \notin Outcome

Continue ==
  /\ timers > 0
  /\ timers' = timers - 1
  /\ IF MayContinue
     THEN loop' = "llm" /\ owner' = 0 /\ aborting' = FALSE /\ loopModel' = model
     ELSE UNCHANGED <<loop, owner, aborting, loopModel>>
  /\ UNCHANGED <<prompts, model, last, context, events, handler, retryVars, backoffVars,
                 boundVars, answers, mishaps>>

------------------------------------------------------------------------------
(* The handler: _processAgentEvent and _handleRetryableError.              *)

\* _resolveRetry ends the wait of whoever waits.
ResolveRetry ==
  /\ retryPromise' = FALSE
  /\ prompts' = [p \in Prompt |-> IF prompts[p] = "waiting" THEN "returned" ELSE prompts[p]]

\* A response without an error ends the retries.
\* (SucceedsFromTwo: off by one in the test of _retryAttempt.  SucceedsAnyway: the test
\* of the stop reason left out.)
SucceedsFromTwo(o) == o \notin Failure /\ retryAttempt > 1
SucceedsAnyway(o)  == retryAttempt > 0

Succeeds(o) == o \notin Failure /\ retryAttempt > 0

MessageEnd ==
  /\ handler = "free" /\ events # <<>> /\ Head(events)[1] = "message_end"
  /\ LET o == Head(events)[2]
     IN  IF Succeeds(o)
         THEN /\ retryAttempt' = 0 /\ ResolveRetry
              /\ mishaps' = mishaps \union IF o = "call" THEN {"early"} ELSE {}
         ELSE UNCHANGED <<retryVars, prompts, mishaps>>
  /\ events' = Tail(events)
  /\ UNCHANGED <<agentVars, model, context, handler, timers, backoffVars, boundVars, answers>>

\* The end of a turn that is not retried: the check for compaction.
AgentEndDone ==
  /\ handler = "free" /\ events # <<>>
  /\ \E o \in Outcome \ Retryable :
       /\ Head(events) = <<"agent_end", o>>
       /\ mishaps' = mishaps \union IF o = "fatal" /\ retryPromise THEN {"fatal"} ELSE {}
  /\ events' = Tail(events)
  /\ UNCHANGED <<prompts, agentVars, model, context, handler, retryVars, timers,
                 backoffVars, boundVars, answers>>

\* _handleRetryableError starts by marking the credential and, when that was the
\* provider's last, the provider.
RetryableEnd(o) ==
  /\ handler = "free" /\ events # <<>> /\ Head(events) = <<"agent_end", o>>
  /\ backedOff' = Marked(o)
  /\ exhausted' = exhausted \union
                    IF o \in CredentialError /\ ~HasAlternate(o) THEN {model} ELSE {}
  /\ UNCHANGED <<agentVars, boundVars, answers>>

\* The failed message is taken off the context: the last one, if it is the assistant's.
Trimmed == IF context # <<>> /\ Last(context) \in Outcome THEN Front(context) ELSE context

\* Another credential, or the next provider of the chain: retried at once, without
\* counting an attempt.
RetryElsewhere(o) ==
  /\ RetryableEnd(o)
  /\ HasAlternate(o) \/ Fallbacks(o) # {}
  /\ model' = IF HasAlternate(o) THEN model ELSE Fallback(o)
  /\ context' = Trimmed
  /\ timers' = timers + 1 /\ retryPromise' = TRUE
  /\ events' = Tail(events)
  /\ mishaps' = mishaps \union {"switched"}
  /\ UNCHANGED <<prompts, handler, retryAttempt>>

\* (NotCounted: the attempt is not counted.)
NotCounted == retryAttempt
NextAttempt == retryAttempt + 1

\* (GivesUpLate: off by one in the test of maxRetries.)
GivesUpLate(o) == o = "quota" \/ retryAttempt > MaxRetries
GivesUp(o) == o = "quota" \/ NextAttempt > MaxRetries

GiveUp(o) ==
  /\ RetryableEnd(o)
  /\ ~HasAlternate(o) /\ Fallbacks(o) = {} /\ GivesUp(o)
  /\ retryAttempt' = 0 /\ ResolveRetry
  /\ events' = Tail(events)
  /\ UNCHANGED <<model, context, handler, timers, mishaps>>

BackOff(o) ==
  /\ RetryableEnd(o)
  /\ ~HasAlternate(o) /\ Fallbacks(o) = {} /\ ~GivesUp(o)
  /\ retryAttempt' = NextAttempt /\ retryPromise' = TRUE
  /\ context' = Trimmed
  /\ handler' = "sleeping"
  /\ UNCHANGED <<prompts, model, events, timers, mishaps>>

BackOffOver ==
  /\ handler = "sleeping"
  /\ handler' = "free" /\ events' = Tail(events) /\ timers' = timers + 1
  /\ UNCHANGED <<prompts, agentVars, model, context, retryVars, backoffVars, boundVars,
                 answers, mishaps>>

------------------------------------------------------------------------------
(* The rest of the world.                                                  *)

\* abort(): abortRetry() cancels the sleep of a retry, whose catch block resets the
\* attempt, and resolves the promise; then the signal of the loop is raised.
Abort ==
  /\ aborts < MaxAborts
  /\ aborts' = aborts + 1
  /\ ResolveRetry
  /\ handler' = "free"
  /\ events' = IF handler = "sleeping" THEN Tail(events) ELSE events
  /\ retryAttempt' = IF handler = "sleeping" THEN 0 ELSE retryAttempt
  /\ aborting' = (loop # "idle")
  /\ mishaps' = mishaps \union {"aborted"}
  /\ UNCHANGED <<loop, owner, model, loopModel, last, context, timers, backoffVars, calls,
                 expiries, answers>>

\* A back-off of a credential or of a provider expires.
Expire ==
  /\ expiries < MaxExpiries
  /\ expiries' = expiries + 1
  /\ \/ \E c \in backedOff : backedOff' = backedOff \ {c} /\ UNCHANGED exhausted
     \/ \E p \in exhausted : exhausted' = exhausted \ {p} /\ UNCHANGED backedOff
  /\ UNCHANGED <<prompts, agentVars, model, context, events, handler, retryVars, timers,
                 calls, aborts, answers, mishaps>>

Handler ==
  \/ MessageEnd
  \/ AgentEndDone
  \/ \E o \in Retryable : RetryElsewhere(o) \/ GiveUp(o) \/ BackOff(o)
  \/ BackOffOver

Next ==
  \/ \E p \in Prompt : PromptBegin(p) \/ PromptRefused(p) \/ PromptSend(p) \/ WaitForRetry(p)
  \/ Respond \/ RunTools \/ EndLoop
  \/ Continue
  \/ Handler
  \/ Abort
  \/ Expire

Spec == Init /\ [][Next]_vars

\* Promises are settled, timers fire and requests to the service end (they have a
\* timeout); nobody has to prompt or to abort, and back-offs may last for ever.
FairSpec ==
  /\ Spec
  /\ \A p \in Prompt : WF_vars(PromptRefused(p) \/ PromptSend(p) \/ WaitForRetry(p))
  /\ WF_vars(Respond) /\ WF_vars(RunTools) /\ WF_vars(EndLoop)
  /\ WF_vars(Continue) /\ WF_vars(Handler)

------------------------------------------------------------------------------
(* Properties.                                                             *)

\* Nothing is under way that could still call back.
Quiet ==
  /\ loop = "idle" /\ events = <<>> /\ handler = "free" /\ timers = 0
  /\ \A p \in Prompt : prompts[p] \notin {"starting", "running", "checking"}

\* No caller of prompt() waits for a retry when nothing is left that could end it.
NobodyWaitsInVain == Quiet => \A p \in Prompt : prompts[p] # "waiting"

\* The same, unless a turn was retried elsewhere or a retry met an error that is not
\* retryable: across counted retries, given-up ones and aborts at any moment, every
\* retry promise that is awaited is resolved.
WaitsEnd == mishaps \intersect {"switched", "fatal"} = {} => NobodyWaitsInVain

\* What has been left to run comes to rest: retries are bounded, also over a chain of
\* providers whose back-offs expire meanwhile.
RetriesEnd == ~Quiet ~> Quiet

\* Until an abort, or a retry whose first response calls a tool, no handler that lags
\* behind takes an answer off the context.
AnswersKept ==
  mishaps \intersect {"aborted", "early"} = {} =>
    answers = Quantify(DOMAIN context, LAMBDA i : context[i] = "answer")

\* Under the same conditions a prompt that has returned is over: no retry of its turn
\* is asleep, scheduled or sent to the service.
ReturnedMeansOver ==
  (/\ mishaps \intersect {"aborted", "early"} = {}
   /\ \A p \in Prompt : prompts[p] \in {"new", "returned"})
  => loop \in {"idle", "ending"} /\ handler = "free" /\ timers = 0
=============================================================================
