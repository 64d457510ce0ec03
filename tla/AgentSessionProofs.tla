--------------------------- MODULE AgentSessionProofs ---------------------------
(* No caller of prompt() waits for a retry in vain, none returns before its    *)
(* turn is over, and no answer is lost from the context: for any number of     *)
(* prompts, providers, credentials, retries and tool calls.                    *)
EXTENDS AgentSession, FiniteSetTheorems, SequenceTheorems, WellFoundedInduction, TLAPS

Event == {"message_end", "agent_end"} \X Outcome

\* The failed turns that are still to be handled, and the responses without an error.
ToRetry   == {"agent_end"} \X Retryable
Successes == {"message_end"} \X (Outcome \ Failure)

------------------------------------------------------------------------------
(* Types.                                                                  *)

\* While the handler sleeps its event is at the head of the queue.
TInv == TypeOK /\ (handler = "sleeping" => events # <<>>)

\* A set of providers has a first one.
LEMMA FirstProvider ==
  ASSUME NEW S \in SUBSET Provider, S # {}
  PROVE  Min(S) \in S
<1> DEFINE R == OpToRel(<, Nat)
<1>1. S \subseteq Nat
  BY SessionConfig DEF Provider
<1>2. IsWellFoundedOn(R, Nat)
  BY NatLessThanWellFounded
<1>3. \A x, y \in Nat : y < x => <<y, x>> \in R
  BY Zenon DEF OpToRel
<1> HIDE DEF R
<1>4. PICK m \in S : \A k \in S : <<k, m>> \notin R
  BY <1>1, <1>2, WFMin
<1>5. \A k \in S : m <= k
  <2> TAKE k \in S
  <2>1. k \in Nat /\ m \in Nat /\ ~(k < m)
    BY <1>1, <1>3, <1>4
  <2> QED BY <2>1
<1> QED BY <1>5 DEF Min

\* The provider that is restored and the one that takes over.
LEMMA ProvidersTyped ==
  ASSUME TypeOK
  PROVE  /\ Restored \in Provider
         /\ \A o \in Retryable : /\ Fallbacks(o) # {} => Fallback(o) \in Provider
                                 /\ Marked(o) \subseteq Credential
<1>1. Restored \in Provider
  <2> DEFINE better == {p \in Provider \ exhausted : p < model}
  <2>1. better # {} => Min(better) \in better
    BY FirstProvider
  <2> QED BY <2>1 DEF Restored, TypeOK
<1>2. ASSUME NEW o \in Retryable, Fallbacks(o) # {} PROVE Fallback(o) \in Provider
  <2> DEFINE later == {p \in Fallbacks(o) : p > model}
  <2>1. Fallbacks(o) \subseteq Provider
    BY DEF Fallbacks
  <2>2. Min(Fallbacks(o)) \in Provider /\ (later # {} => Min(later) \in Provider)
    BY <1>2, <2>1, FirstProvider
  <2> QED BY <2>2 DEF Fallback
<1>3. ASSUME NEW o \in Retryable PROVE Marked(o) \subseteq Credential
  BY SessionConfig DEF Marked, TypeOK, Credential
<1> QED BY <1>1, <1>2, <1>3

\* A sequence without its last element.
LEMMA FrontFacts ==
  ASSUME NEW S, NEW s \in Seq(S), s # <<>>
  PROVE  /\ Front(s) \in Seq(S) /\ Len(Front(s)) = Len(s) - 1
         /\ \A i \in 1..(Len(s) - 1) : Front(s)[i] = s[i]
<1> DEFINE n == Len(s) - 1
<1>1. n \in Nat /\ 1 \in Int /\ \A i \in 1..n : s[i] \in S
  OBVIOUS
<1> HIDE DEF n
<1>2. /\ SubSeq(s, 1, n) \in Seq(S) /\ Len(SubSeq(s, 1, n)) = IF 1 <= n THEN n - 1 + 1 ELSE 0
      /\ \A i \in 1..(n - 1 + 1) : SubSeq(s, 1, n)[i] = s[1 + i - 1]
  BY <1>1, SubSeqProperties
<1>3. /\ (IF 1 <= n THEN n - 1 + 1 ELSE 0) = n /\ 1..(n - 1 + 1) = 1..n
      /\ \A i \in 1..n : 1 + i - 1 = i
  BY <1>1
<1>4. Front(s) = SubSeq(s, 1, n)
  BY DEF Front, n
<1> QED BY <1>2, <1>3, <1>4 DEF n

\* A context without its last message, if that is the assistant's.
LEMMA TrimmedTyped ==
  ASSUME TypeOK
  PROVE  /\ Trimmed \in Seq(Message)
         /\ Len(Trimmed) \in {Len(context), Len(context) - 1}
         /\ \A i \in 1..Len(Trimmed) : Trimmed[i] = context[i]
         /\ Len(Trimmed) # Len(context) => context # <<>> /\ Last(context) \in Outcome
         /\ context # <<>> /\ Last(context) \in Outcome => Len(Trimmed) = Len(context) - 1
<1>1. context \in Seq(Message) /\ Len(context) \in Nat
  BY DEF TypeOK
<1>2. CASE context # <<>> /\ Last(context) \in Outcome
  <2>1. Trimmed = Front(context)
    BY <1>2 DEF Trimmed
  <2>2. /\ Trimmed \in Seq(Message) /\ Len(Trimmed) = Len(context) - 1
        /\ \A i \in 1..(Len(context) - 1) : Trimmed[i] = context[i]
    BY <1>1, <1>2, <2>1, FrontFacts
  <2> QED BY <1>1, <1>2, <2>2
<1>3. CASE ~(context # <<>> /\ Last(context) \in Outcome)
  <2>1. Trimmed = context
    BY <1>3 DEF Trimmed
  <2> QED BY <1>1, <1>3, <2>1
<1> QED BY <1>2, <1>3

\* The handler's queue without its head.
LEMMA TailTyped ==
  ASSUME TypeOK, events # <<>>
  PROVE  /\ Tail(events) \in Seq(Event) /\ Len(Tail(events)) = Len(events) - 1
         /\ Len(events) \in Nat \ {0} /\ Head(events) = events[1] /\ events[1] \in Event
         /\ \A i \in 1..(Len(events) - 1) : Tail(events)[i] = events[i + 1]
<1>1. events \in Seq(Event)
  BY DEF TypeOK, Event
<1> QED BY <1>1

\* What a response of the model service may be.
LEMMA ResponseTyped ==
  ASSUME TypeOK, NEW o \in ResponseOf
  PROVE  o \in Outcome /\ (o = "call" => calls # MaxCalls)
BY SessionConfig DEF ResponseOf, Outcome, Failure, Retryable, CredentialError

\* Every step of the callers, the loop and the timers keeps the types.
LEMMA TypesLoop ==
  ASSUME TInv,
         \/ \E p \in Prompt : PromptBegin(p) \/ PromptRefused(p) \/ PromptSend(p) \/ WaitForRetry(p)
         \/ Respond \/ RunTools \/ EndLoop \/ Continue
  PROVE  TInv'
<1> USE DEF agentVars, retryVars, backoffVars, boundVars
<1>1. ASSUME NEW p \in Prompt, PromptBegin(p) \/ PromptRefused(p) \/ WaitForRetry(p)
      PROVE  TInv'
  BY <1>1, ProvidersTyped DEF TInv, TypeOK, PromptBegin, PromptRefused, WaitForRetry
<1>2. ASSUME NEW p \in Prompt, PromptSend(p) PROVE TInv'
  <2>1. "user" \in Message /\ Append(context, "user") \in Seq(Message)
    BY DEF TInv, TypeOK, Message
  <2> QED BY <1>2, <2>1 DEF TInv, TypeOK, PromptSend
<1>3. CASE Respond
  <2>1. PICK o \in ResponseOf :
          /\ last' = o /\ context' = Append(context, o)
          /\ events' = Append(events, <<"message_end", o>>)
          /\ loop' = IF o = "call" THEN "tools" ELSE "ending"
          /\ calls' = calls + IF o = "call" THEN 1 ELSE 0
          /\ answers' = answers + IF o = "answer" THEN 1 ELSE 0
    BY <1>3 DEF Respond
  <2>2. o \in Outcome /\ o \in Message /\ (o = "call" => calls # MaxCalls)
    BY ResponseTyped DEF TInv, Message
  <2>3. context' \in Seq(Message) /\ events' \in Seq(Event) /\ events' # <<>>
    <3>1. <<"message_end", o>> \in Event /\ events \in Seq(Event) /\ context \in Seq(Message)
      BY <2>2 DEF TInv, TypeOK, Event
    <3> HIDE DEF Event
    <3> QED BY <2>1, <2>2, <3>1
  <2>4. calls' \in 0..MaxCalls /\ answers' \in Nat
    BY <2>1, <2>2, SessionConfig DEF TInv, TypeOK
  <2> QED BY <1>3, <2>1, <2>2, <2>3, <2>4 DEF TInv, TypeOK, Respond, Event
<1>4. CASE RunTools
  <2>1. "result" \in Message /\ Append(context, "result") \in Seq(Message)
    BY DEF TInv, TypeOK, Message
  <2> QED BY <1>4, <2>1 DEF TInv, TypeOK, RunTools
<1>5. CASE EndLoop
  <2>1. Append(events, <<"agent_end", last>>) \in Seq(Event)
        /\ Append(events, <<"agent_end", last>>) # <<>>
    BY DEF TInv, TypeOK, Event
  <2>2. retryPromise' \in BOOLEAN
    BY <1>5 DEF EndLoop, TInv, TypeOK, CreatesPromise
  <2>3. /\ prompts' \in [Prompt -> {"new", "starting", "running", "checking", "waiting", "returned"}]
        /\ UNCHANGED <<owner, aborting, model, loopModel, last, context, handler, retryAttempt>>
        /\ UNCHANGED <<timers, backoffVars, boundVars, answers, mishaps>>
        /\ loop' = "idle" /\ events' = Append(events, <<"agent_end", last>>)
    BY <1>5 DEF EndLoop, TInv, TypeOK
  <2> QED BY <2>1, <2>2, <2>3 DEF TInv, TypeOK, Event
<1>6. CASE Continue
  <2>1. timers' \in Nat
    BY <1>6 DEF TInv, TypeOK, Continue
  <2>2. /\ loop' \in {loop, "llm"} /\ owner' \in {owner, 0} /\ loopModel' \in {loopModel, model}
        /\ aborting' \in {aborting, FALSE}
        /\ UNCHANGED <<prompts, model, last, context, events, handler, retryAttempt>>
        /\ UNCHANGED <<retryPromise, backedOff, exhausted, boundVars, answers, mishaps>>
    BY <1>6 DEF Continue
  <2> QED BY <2>1, <2>2 DEF TInv, TypeOK
<1> QED BY <1>1, <1>2, <1>3, <1>4, <1>5, <1>6

\* So does every step of the handler, and of the rest of the world.
LEMMA TypesHandler ==
  ASSUME TInv, Handler \/ Abort \/ Expire
  PROVE  TInv'
<1> USE DEF agentVars, retryVars, backoffVars, boundVars
<1> DEFINE PromptsTyped ==
      prompts' \in [Prompt -> {"new", "starting", "running", "checking", "waiting", "returned"}]
<1>1. ASSUME ResolveRetry PROVE PromptsTyped /\ retryPromise' \in BOOLEAN
  BY <1>1 DEF ResolveRetry, TInv, TypeOK
<1>2. ASSUME events # <<>> PROVE Tail(events) \in Seq(Event)
  BY <1>2, TailTyped DEF TInv
<1>3. CASE MessageEnd
  <2>1. events' \in Seq(Event)
    BY <1>2, <1>3 DEF MessageEnd
  <2>2. PromptsTyped /\ retryPromise' \in BOOLEAN /\ retryAttempt' \in 0..MaxRetries
    BY <1>1, <1>3, SessionConfig DEF MessageEnd, TInv, TypeOK
  <2>3. mishaps' \subseteq Mishap
    BY <1>3 DEF MessageEnd, TInv, TypeOK, Mishap
  <2> QED BY <1>3, <2>1, <2>2, <2>3 DEF MessageEnd, TInv, TypeOK, Event
<1>4. CASE AgentEndDone
  <2>1. events' \in Seq(Event)
    BY <1>2, <1>4 DEF AgentEndDone
  <2>2. mishaps' \subseteq Mishap
    BY <1>4 DEF AgentEndDone, TInv, TypeOK, Mishap
  <2> QED BY <1>4, <2>1, <2>2 DEF AgentEndDone, TInv, TypeOK, Event
<1>5. ASSUME NEW o \in Retryable, RetryableEnd(o)
      PROVE  /\ events # <<>> /\ backedOff' \subseteq Credential /\ exhausted' \subseteq Provider
             /\ handler = "free" /\ UNCHANGED <<agentVars, boundVars, answers>>
  BY <1>5, ProvidersTyped DEF RetryableEnd, TInv, TypeOK
<1>6. ASSUME NEW o \in Retryable, RetryElsewhere(o) PROVE TInv'
  <2>1. model' \in Provider
    BY <1>6, ProvidersTyped DEF RetryElsewhere, TInv, TypeOK
  <2>2. context' \in Seq(Message) /\ events' \in Seq(Event) /\ timers' \in Nat
    BY <1>2, <1>5, <1>6, TrimmedTyped DEF RetryElsewhere, TInv, TypeOK
  <2>3. mishaps' \subseteq Mishap
    BY <1>6 DEF RetryElsewhere, TInv, TypeOK, Mishap
  <2> QED BY <1>5, <1>6, <2>1, <2>2, <2>3 DEF RetryElsewhere, TInv, TypeOK, Event
<1>7. ASSUME NEW o \in Retryable, GiveUp(o) PROVE TInv'
  <2>1. events' \in Seq(Event) /\ retryAttempt' \in 0..MaxRetries
    BY <1>2, <1>5, <1>7, SessionConfig DEF GiveUp
  <2> QED BY <1>1, <1>5, <1>7, <2>1 DEF GiveUp, TInv, TypeOK, Event
<1>8. ASSUME NEW o \in Retryable, BackOff(o) PROVE TInv'
  <2>1. retryAttempt' \in 0..MaxRetries
    BY <1>8, SessionConfig DEF BackOff, TInv, TypeOK, GivesUp, NextAttempt
  <2>2. context' \in Seq(Message)
    BY <1>8, TrimmedTyped DEF BackOff, TInv
  <2> QED BY <1>5, <1>8, <2>1, <2>2 DEF BackOff, TInv, TypeOK
<1>9. CASE BackOffOver
  <2>1. events' \in Seq(Event) /\ timers' \in Nat
    BY <1>2, <1>9 DEF BackOffOver, TInv, TypeOK
  <2> QED BY <1>9, <2>1 DEF BackOffOver, TInv, TypeOK, Event
<1>10. CASE Abort
  <2>1. events' \in Seq(Event)
    BY <1>2, <1>10 DEF Abort, TInv, TypeOK, Event
  <2>2. retryAttempt' \in 0..MaxRetries /\ aborts' \in 0..MaxAborts
    BY <1>10, SessionConfig DEF Abort, TInv, TypeOK
  <2>3. mishaps' \subseteq Mishap /\ aborting' \in BOOLEAN
    BY <1>10 DEF Abort, TInv, TypeOK, Mishap
  <2> QED BY <1>1, <1>10, <2>1, <2>2, <2>3 DEF Abort, TInv, TypeOK, Event
<1>11. CASE Expire
  <2>1. expiries' \in 0..MaxExpiries
    BY <1>11, SessionConfig DEF Expire, TInv, TypeOK
  <2>2. backedOff' \subseteq Credential /\ exhausted' \subseteq Provider
    BY <1>11 DEF Expire, TInv, TypeOK
  <2> QED BY <1>11, <2>1, <2>2 DEF Expire, TInv, TypeOK
<1> QED BY <1>3, <1>4, <1>6, <1>7, <1>8, <1>9, <1>10, <1>11 DEF Handler

\* Every step keeps the types.
LEMMA TypesNext == TInv /\ [Next]_vars => TInv'
<1> SUFFICES ASSUME TInv, [Next]_vars PROVE TInv'
  OBVIOUS
<1>1. CASE UNCHANGED vars
  BY <1>1 DEF vars, agentVars, retryVars, backoffVars, boundVars, TInv, TypeOK
<1> QED BY <1>1, TypesLoop, TypesHandler DEF Next

\* The variables are typed at the start.
LEMMA TypesInit == Init => TInv
<1> SUFFICES ASSUME Init PROVE TInv
  OBVIOUS
<1>1. "answer" \in Outcome /\ 1 \in Provider /\ {} \in SUBSET Credential /\ {} \in SUBSET Provider
  BY SessionConfig DEF Outcome, Provider
<1>2. context \in Seq(Message) /\ events \in Seq({"message_end", "agent_end"} \X Outcome)
  BY DEF Init
<1>3. /\ model \in Provider /\ loopModel \in Provider /\ last \in Outcome
      /\ owner \in Prompt \union {0} /\ prompts \in [Prompt -> {"new"}]
      /\ retryAttempt \in 0..MaxRetries /\ timers \in Nat /\ answers \in Nat
      /\ calls \in 0..MaxCalls /\ aborts \in 0..MaxAborts /\ expiries \in 0..MaxExpiries
  BY <1>1, SessionConfig DEF Init
<1>4. /\ loop = "idle" /\ handler = "free" /\ aborting = FALSE /\ retryPromise = FALSE
      /\ backedOff = {} /\ exhausted = {} /\ mishaps = {}
  BY DEF Init
<1> QED BY <1>1, <1>2, <1>3, <1>4 DEF TInv, TypeOK

\* Every variable has its type, and _retryAttempt stays within maxRetries, whatever the
\* model service answers.
THEOREM SessionTypes == Spec => []TypeOK
<1>1. TInv => TypeOK
  BY DEF TInv
<1> QED BY <1>1, TypesInit, TypesNext, PTL DEF Spec

------------------------------------------------------------------------------
(* The queue of events and the context as sequences.                       *)

\* An event of the set is in the queue.
Holds(q, S) == \E i \in 1..Len(q) : q[i] \in S

\* The order of the context: it begins with a message of the user, and no response of the
\* model follows another.
Ordered(c) ==
  /\ c # <<>> => c[1] \notin Outcome
  /\ \A i \in 1..(Len(c) - 1) : c[i] \in Outcome => c[i + 1] \notin Outcome

\* A queue that grows.
LEMMA HoldsAppend ==
  ASSUME NEW q \in Seq(Event), NEW e \in Event
  PROVE  /\ Append(q, e) \in Seq(Event) /\ Append(q, e) # <<>> /\ Last(Append(q, e)) = e
         /\ \A S : Holds(Append(q, e), S) <=> Holds(q, S) \/ e \in S
<1>1. /\ Append(q, e) \in Seq(Event) /\ Len(q) \in Nat /\ Len(Append(q, e)) = Len(q) + 1
      /\ Append(q, e)[Len(q) + 1] = e /\ \A i \in 1..Len(q) : Append(q, e)[i] = q[i]
  OBVIOUS
<1>2. 1..(Len(q) + 1) = 1..Len(q) \union {Len(q) + 1}
  BY <1>1
<1>3. Append(q, e) # <<>> /\ Last(Append(q, e)) = e
  BY <1>1 DEF Last
<1>4. \A S : Holds(Append(q, e), S) <=> Holds(q, S) \/ e \in S
  BY <1>1, <1>2 DEF Holds
<1> QED BY <1>1, <1>3, <1>4

\* A queue whose head is taken off.
LEMMA HoldsTail ==
  ASSUME NEW q \in Seq(Event), q # <<>>
  PROVE  /\ Tail(q) \in Seq(Event) /\ Head(q) \in Event
         /\ \A S : Holds(q, S) <=> Head(q) \in S \/ Holds(Tail(q), S)
         /\ IF Tail(q) = <<>> THEN Last(q) = Head(q) ELSE Last(q) = Last(Tail(q))
         /\ Holds(q, {Last(q)})
<1> DEFINE t == Tail(q)
<1>1. /\ t \in Seq(Event) /\ Len(q) \in Nat \ {0} /\ Len(t) = Len(q) - 1
      /\ Head(q) = q[1] /\ q[1] \in Event
      /\ \A i \in 1..Len(t) : t[i] = q[i + 1]
      /\ (t = <<>> <=> Len(t) = 0)
  <2>1. /\ Len(q) \in Nat \ {0} /\ Head(q) = q[1] /\ q[1] \in Event
        /\ t \in Seq(Event) /\ Len(t) = Len(q) - 1
    OBVIOUS
  <2>2. \A i \in 1..Len(t) : t[i] = q[i + 1]
    BY HeadTailProperties
  <2> HIDE DEF t
  <2>3. t = <<>> <=> Len(t) = 0
    BY <2>1, EmptySeq
  <2> QED BY <2>1, <2>2, <2>3
<1> HIDE DEF t
<1>2. ASSUME NEW S PROVE Holds(q, S) <=> Head(q) \in S \/ Holds(t, S)
  <2>1. ASSUME NEW i \in 1..Len(q), q[i] \in S PROVE Head(q) \in S \/ Holds(t, S)
    <3>1. i = 1 \/ (i - 1 \in 1..Len(t) /\ t[i - 1] = q[i])
      BY <1>1
    <3> QED BY <1>1, <2>1, <3>1 DEF Holds
  <2>2. ASSUME NEW i \in 1..Len(t), t[i] \in S PROVE Holds(q, S)
    <3>1. i + 1 \in 1..Len(q) /\ q[i + 1] = t[i]
      BY <1>1
    <3> QED BY <2>2, <3>1 DEF Holds
  <2>3. Head(q) \in S => Holds(q, S)
    <3>1. 1 \in 1..Len(q)
      BY <1>1
    <3> QED BY <1>1, <3>1 DEF Holds
  <2> QED BY <2>1, <2>2, <2>3 DEF Holds
<1>3. IF t = <<>> THEN Last(q) = Head(q) ELSE Last(q) = Last(t)
  <2>1. CASE Len(t) = 0
    BY <1>1, <2>1 DEF Last
  <2>2. CASE Len(t) # 0
    <3>1. Len(t) \in 1..Len(t) /\ Len(t) + 1 = Len(q)
      BY <1>1, <2>2
    <3>2. t[Len(t)] = q[Len(q)]
      BY <1>1, <3>1
    <3> QED BY <1>1, <2>2, <3>2 DEF Last
  <2> QED BY <2>1, <2>2
<1>4. Holds(q, {Last(q)})
  <2>1. Len(q) \in 1..Len(q)
    BY <1>1
  <2> QED BY <2>1 DEF Holds, Last
<1> QED BY <1>1, <1>2, <1>3, <1>4 DEF t

\* An empty queue.
LEMMA HoldsNothing == \A S : ~Holds(<<>>, S)
BY DEF Holds

\* A message at the end of the context.
LEMMA OrderedAppend ==
  ASSUME NEW c \in Seq(Message), Ordered(c), NEW m \in Message,
         m \notin Outcome \/ (c # <<>> /\ Last(c) \notin Outcome)
  PROVE  Ordered(Append(c, m)) /\ Append(c, m) # <<>> /\ Last(Append(c, m)) = m
<1> DEFINE a == Append(c, m)
<1>1. /\ Len(c) \in Nat /\ Len(a) = Len(c) + 1 /\ a[Len(c) + 1] = m
      /\ \A i \in 1..Len(c) : a[i] = c[i]
      /\ (c = <<>> <=> Len(c) = 0) /\ a # <<>>
  OBVIOUS
<1> HIDE DEF a
<1>2. Last(a) = m
  BY <1>1 DEF Last
<1>3. a[1] \notin Outcome
  <2>1. CASE Len(c) = 0
    BY <1>1, <2>1
  <2>2. CASE Len(c) # 0
    <3>1. 1 \in 1..Len(c)
      BY <1>1, <2>2
    <3> QED BY <1>1, <2>2, <3>1 DEF Ordered
  <2> QED BY <2>1, <2>2
<1>4. ASSUME NEW i \in 1..(Len(a) - 1), a[i] \in Outcome PROVE a[i + 1] \notin Outcome
  <2>1. CASE i = Len(c)
    <3>1. a[i] = c[Len(c)] /\ a[i + 1] = m
      BY <1>1, <2>1
    <3> QED BY <1>1, <1>4, <3>1 DEF Last
  <2>2. CASE i # Len(c)
    <3>1. i \in 1..(Len(c) - 1) /\ i \in 1..Len(c) /\ i + 1 \in 1..Len(c)
      BY <1>1, <2>2
    <3> QED BY <1>1, <1>4, <3>1 DEF Ordered
  <2> QED BY <2>1, <2>2
<1> QED BY <1>1, <1>2, <1>3, <1>4 DEF Ordered, a

\* A failed turn is taken off the context: what it was asked with is left.
LEMMA OrderedTrimmed ==
  ASSUME TypeOK, Ordered(context), context # <<>>
  PROVE  /\ Ordered(Trimmed) /\ Trimmed # <<>> /\ Last(Trimmed) \notin Outcome
         /\ Last(context) \notin Outcome => Trimmed = context
<1> DEFINE n == Len(context)
<1>1. context \in Seq(Message) /\ n \in Nat \ {0}
  BY DEF TypeOK
<1>2. CASE Last(context) \notin Outcome
  BY <1>2 DEF Trimmed
<1>3. CASE Last(context) \in Outcome
  <2>1. /\ Trimmed \in Seq(Message) /\ Len(Trimmed) = n - 1
        /\ \A i \in 1..(n - 1) : Trimmed[i] = context[i]
    BY <1>3, TrimmedTyped
  <2>2. n > 1
    BY <1>1, <1>3 DEF Ordered, Last
  <2> HIDE DEF n
  <2>3. n - 1 \in 1..(n - 1) /\ (n - 1) + 1 = n /\ 1 \in 1..(n - 1)
    BY <1>1, <2>2
  <2>4. context[n - 1] \notin Outcome
    BY <1>3, <2>3 DEF Ordered, Last, n
  <2>5. Trimmed # <<>> /\ Last(Trimmed) \notin Outcome
    <3>1. Last(Trimmed) = context[n - 1]
      BY <2>1, <2>3 DEF Last
    <3>2. Trimmed # <<>>
      <4>1. Len(Trimmed) # 0
        BY <1>1, <2>1, <2>2
      <4> HIDE DEF Trimmed
      <4> QED BY <4>1, EmptySeq
    <3> QED BY <2>4, <3>1, <3>2
  <2>6. Ordered(Trimmed)
    <3>1. \A i \in 1..((n - 1) - 1) : i \in 1..(n - 1) /\ i + 1 \in 1..(n - 1)
      BY <1>1
    <3> QED BY <2>1, <2>3, <3>1 DEF Ordered, n
  <2> QED BY <1>3, <2>5, <2>6
<1> QED BY <1>2, <1>3

------------------------------------------------------------------------------
(* Nobody waits in vain.                                                   *)

Counted   == retryAttempt > 0
Scheduled == timers > 0

\* The handler sleeps over a failed turn that it has counted; the context of a turn begins
\* with the user's message; the last event of a loop that ends is its response.
Shape ==
  /\ handler = "sleeping" =>
       events # <<>> /\ Head(events) \in ToRetry /\ retryPromise /\ Counted
  /\ Ordered(context)
  /\ (events # <<>> \/ loop # "idle" \/ Scheduled) => context # <<>>
  /\ loop = "llm" => Last(context) \notin Outcome
  /\ loop = "ending" => events = <<>> \/ Last(events) = <<"message_end", last>>

\* Something is under way that ends the wait for a retry: a failed turn that is still to be
\* handled, or, in a retry that was counted, a response that is to come or to be handled,
\* or the call that starts the loop.
Pending(q, starts) ==
  \/ Holds(q, ToRetry)
  \/ /\ Counted
     /\ \/ loop \in {"llm", "tools"} \/ (loop = "ending" /\ last \in Failure)
        \/ Holds(q, Successes) \/ Holds(q, {<<"agent_end", "fatal">>})
        \/ starts /\ loop = "idle" /\ Last(context) \notin Outcome

Waits ==
  /\ \A p \in Prompt : prompts[p] = "waiting" => retryPromise
  /\ mishaps \cap {"switched", "fatal"} = {} =>
       /\ retryPromise => Pending(events, Scheduled)
       /\ handler = "sleeping" => Pending(Tail(events), TRUE)

WInv == TInv /\ Shape /\ Waits

\* What the queue of events holds, taken apart.
LEMMA EventsFacts ==
  ASSUME TInv
  PROVE  /\ events \in Seq(Event) /\ last \in Outcome
         /\ \A o \in Outcome : <<"message_end", o>> \in Event /\ <<"agent_end", o>> \in Event
         /\ \A o \in Outcome : /\ <<"message_end", o>> \notin ToRetry
                               /\ <<"message_end", o>> # <<"agent_end", "fatal">>
                               /\ <<"message_end", o>> \in Successes <=> o \notin Failure
                               /\ <<"agent_end", o>> \notin Successes
                               /\ <<"agent_end", o>> \in ToRetry <=> o \in Retryable
BY DEF TInv, TypeOK, Event, ToRetry, Successes, Outcome, Failure, Retryable, CredentialError

\* Steps that leave the loop, the queue and the retries alone.
LEMMA WaitsSame ==
  ASSUME WInv, TInv', UNCHANGED <<handler, events, retryVars, loop, timers, context, last>>,
         mishaps' = mishaps, \A p \in Prompt : prompts'[p] = "waiting" => retryPromise
  PROVE  WInv'
BY DEF WInv, Shape, Waits, Pending, Counted, Scheduled, retryVars

\* The start of a loop, with a context that ends in what it is asked.
LEMMA WaitsStart ==
  ASSUME WInv, TInv', loop = "idle", loop' = "llm",
         Ordered(context'), context' # <<>>, Last(context') \notin Outcome,
         UNCHANGED <<handler, events, retryVars, mishaps>>,
         \A p \in Prompt : prompts'[p] = "waiting" => retryPromise
  PROVE  WInv'
<1>1. Shape'
  BY DEF WInv, Shape, Counted, retryVars
<1>2. Waits'
  <2>1. \A q, starts : Pending(q, starts) => Pending(q, starts)'
    BY DEF Pending, Counted, retryVars
  <2>2. Pending(events, Scheduled) => Pending(events, Scheduled)'
    BY DEF Pending, Counted, retryVars
  <2>3. Pending(Tail(events), TRUE) => Pending(Tail(events), TRUE)'
    BY DEF Pending, Counted, retryVars
  <2> QED BY <2>2, <2>3 DEF WInv, Waits, retryVars
<1> QED BY <1>1, <1>2 DEF WInv

\* The callers of prompt().
LEMMA WaitsCallers ==
  ASSUME WInv, TInv', NEW p \in Prompt,
         PromptBegin(p) \/ PromptRefused(p) \/ PromptSend(p) \/ WaitForRetry(p)
  PROVE  WInv'
<1>1. CASE PromptBegin(p) \/ PromptRefused(p) \/ WaitForRetry(p)
  <2>1. \A q \in Prompt : prompts'[q] = "waiting" => retryPromise
    BY <1>1 DEF PromptBegin, PromptRefused, WaitForRetry, WInv, Waits, TInv, TypeOK
  <2> QED BY <1>1, <2>1, WaitsSame DEF PromptBegin, PromptRefused, WaitForRetry, agentVars
<1>2. CASE PromptSend(p)
  <2>1. \A q \in Prompt : prompts'[q] = "waiting" => retryPromise
    BY <1>2 DEF PromptSend, WInv, Waits, TInv, TypeOK
  <2>2. "user" \in Message /\ "user" \notin Outcome
    BY DEF Message, Outcome, Failure, Retryable, CredentialError
  <2>3. Ordered(context') /\ context' # <<>> /\ Last(context') = "user"
    BY <1>2, <2>2, OrderedAppend DEF PromptSend, WInv, Shape, TInv, TypeOK
  <2> QED BY <1>2, <2>1, <2>2, <2>3, WaitsStart DEF PromptSend
<1> QED BY <1>1, <1>2

\* A response: of a retry it is what the wait is for, or a failed turn to come.
LEMMA WaitsRespond ==
  ASSUME WInv, TInv', Respond
  PROVE  WInv'
<1>1. PICK o \in ResponseOf :
        /\ last' = o /\ context' = Append(context, o)
        /\ events' = Append(events, <<"message_end", o>>)
        /\ loop' = IF o = "call" THEN "tools" ELSE "ending"
  BY DEF Respond
<1>2. o \in Outcome /\ o \in Message /\ loop = "llm"
  BY ResponseTyped DEF Respond, WInv, TInv, Message
<1>3. /\ events' \in Seq(Event) /\ events' # <<>> /\ Last(events') = <<"message_end", o>>
      /\ \A S : Holds(events', S) <=> Holds(events, S) \/ <<"message_end", o>> \in S
  BY <1>1, <1>2, HoldsAppend, EventsFacts DEF WInv
<1>4. Ordered(context') /\ context' # <<>>
  BY <1>1, <1>2, OrderedAppend DEF WInv, Shape, TInv, TypeOK
<1>5. UNCHANGED <<prompts, handler, retryVars, timers, mishaps>>
  BY DEF Respond
<1>6. events # <<>> => /\ Head(events') = Head(events)
                       /\ Tail(events') = Append(Tail(events), <<"message_end", o>>)
                       /\ Tail(events) \in Seq(Event)
  BY <1>1, <1>2, EventsFacts, HoldsTail DEF WInv
<1>7. Shape'
  BY <1>1, <1>2, <1>3, <1>4, <1>5, <1>6 DEF WInv, Shape, Counted, retryVars
<1>8. ASSUME NEW q, NEW r, NEW starts, NEW starts2, Pending(q, starts),
             \A S : Holds(r, S) <=> Holds(q, S) \/ <<"message_end", o>> \in S
      PROVE  Pending(r, starts2)'
  <2>1. o \in Failure \/ <<"message_end", o>> \in Successes
    BY <1>2, EventsFacts DEF WInv
  <2> QED BY <1>1, <1>2, <1>5, <1>8, <2>1 DEF Pending, Counted, retryVars, Failure, Retryable,
          CredentialError
<1>9. Waits'
  <2>1. Pending(events, Scheduled) => Pending(events, Scheduled)'
    BY <1>3, <1>8
  <2>2. ASSUME handler = "sleeping", Pending(Tail(events), TRUE)
        PROVE  Pending(Tail(events), TRUE)'
    <3> DEFINE e == <<"message_end", o>>
               t == Tail(events)
               u == Tail(events')
    <3>1. u = Append(t, e) /\ t \in Seq(Event) /\ e \in Event
      BY <1>2, <1>6, <2>2, EventsFacts DEF WInv, Shape
    <3>2. ASSUME \A S : Holds(u, S) <=> Holds(t, S) \/ e \in S
          PROVE  Pending(Tail(events), TRUE)'
      BY <1>8, <2>2, <3>2
    <3> HIDE DEF e, t, u
    <3>3. \A S : Holds(u, S) <=> Holds(t, S) \/ e \in S
      BY <3>1, HoldsAppend
    <3> QED BY <3>2, <3>3
  <2> QED BY <1>5, <2>1, <2>2 DEF WInv, Waits, retryVars
<1> QED BY <1>7, <1>9 DEF WInv

\* The result of a tool call, which is held until the queue is empty.
LEMMA WaitsRunTools ==
  ASSUME WInv, TInv', RunTools
  PROVE  WInv'
<1>1. "result" \in Message /\ "result" \notin Outcome
  BY DEF Message, Outcome, Failure, Retryable, CredentialError
<1>2. Ordered(context') /\ context' # <<>> /\ Last(context') = "result"
  BY <1>1, OrderedAppend DEF RunTools, WInv, Shape, TInv, TypeOK
<1>3. Shape'
  BY <1>1, <1>2 DEF RunTools, WInv, Shape, Counted, retryVars
<1>4. Waits'
  BY HoldsNothing DEF RunTools, WInv, Waits, Pending, Counted, retryVars
<1> QED BY <1>3, <1>4 DEF WInv

\* agent_end: a failed turn is to be handled.
LEMMA WaitsEndLoop ==
  ASSUME WInv, TInv', EndLoop
  PROVE  WInv'
<1> DEFINE e == <<"agent_end", last>>
<1>1. /\ events' = Append(events, e) /\ loop = "ending" /\ loop' = "idle" /\ last \in Outcome
      /\ UNCHANGED <<last, context, handler, retryAttempt, timers, mishaps>>
      /\ (retryPromise' <=> retryPromise \/ last \in Retryable)
  BY EventsFacts DEF EndLoop, CreatesPromise, WInv, TInv, TypeOK
<1>2. /\ e \in Event /\ (e \in ToRetry <=> last \in Retryable) /\ events \in Seq(Event)
      /\ last \in Failure => e \in ToRetry \/ e = <<"agent_end", "fatal">>
  BY EventsFacts DEF WInv, Failure
<1> HIDE DEF e
<1>3. /\ events' # <<>> /\ Last(events') = e
      /\ \A S : Holds(events', S) <=> Holds(events, S) \/ e \in S
  BY <1>1, <1>2, HoldsAppend
<1>4. events # <<>> => /\ Head(events') = Head(events)
                       /\ Tail(events') = Append(Tail(events), e)
                       /\ Tail(events) \in Seq(Event)
  BY <1>1, <1>2, HoldsTail
<1>5. Shape'
  BY <1>1, <1>3, <1>4 DEF WInv, Shape, Counted, Scheduled
<1>6. ASSUME NEW q, NEW r, NEW starts, Pending(q, starts),
             \A S : Holds(r, S) <=> Holds(q, S) \/ e \in S
      PROVE  Pending(r, starts)'
  BY <1>1, <1>2, <1>6 DEF Pending, Counted
<1>7. Waits'
  <2>1. \A p \in Prompt : prompts'[p] = "waiting" => retryPromise'
    BY <1>1 DEF EndLoop, WInv, Waits
  <2>2. retryPromise' => Pending(events, Scheduled)' \/ mishaps \cap {"switched", "fatal"} # {}
    <3>1. CASE retryPromise
      BY <1>1, <1>3, <1>6, <3>1 DEF WInv, Waits, Scheduled
    <3>2. CASE last \in Retryable
      BY <1>2, <1>3, <3>2 DEF Pending
    <3> QED BY <1>1, <3>1, <3>2
  <2>3. ASSUME handler = "sleeping", Pending(Tail(events), TRUE)
        PROVE  Pending(Tail(events), TRUE)'
    <3>1. Tail(events') = Append(Tail(events), e) /\ Tail(events) \in Seq(Event)
      BY <1>4, <2>3 DEF WInv, Shape
    <3>2. \A S : Holds(Tail(events'), S) <=> Holds(Tail(events), S) \/ e \in S
      BY <1>2, <3>1, HoldsAppend
    <3> QED BY <1>6, <2>3, <3>2
  <2> QED BY <1>1, <2>1, <2>2, <2>3 DEF WInv, Waits
<1> QED BY <1>5, <1>7 DEF WInv

\* The timer of a retry: the call starts a loop, or is refused as one runs or has answered.
LEMMA WaitsContinue ==
  ASSUME WInv, TInv', Continue
  PROVE  WInv'
<1>1. UNCHANGED <<prompts, last, context, events, handler, retryVars, mishaps>>
  BY DEF Continue
<1>2. Scheduled /\ context # <<>>
  BY DEF Continue, Scheduled, WInv, Shape
<1>3. CASE MayContinue
  <2>1. loop = "idle" /\ loop' = "llm" /\ Last(context) \notin Outcome
    BY <1>3 DEF Continue, MayContinue
  <2> QED BY <1>1, <1>2, <2>1, WaitsStart DEF WInv, Shape, Waits
<1>4. CASE ~MayContinue
  <2>1. loop' = loop
    BY <1>4 DEF Continue
  <2>2. Shape'
    BY <1>1, <1>2, <2>1 DEF WInv, Shape, Counted, retryVars
  <2>3. Pending(events, Scheduled) => Pending(events, Scheduled)'
    BY <1>1, <1>4, <2>1 DEF Pending, MayContinue, Counted, retryVars
  <2>4. Pending(Tail(events), TRUE) => Pending(Tail(events), TRUE)'
    BY <1>1, <2>1 DEF Pending, Counted, retryVars
  <2> QED BY <1>1, <2>2, <2>3, <2>4 DEF WInv, Waits, retryVars
<1> QED BY <1>3, <1>4

\* The handler of a response: one that is a success ends the wait.
LEMMA WaitsMessageEnd ==
  ASSUME WInv, TInv', MessageEnd
  PROVE  WInv'
<1> DEFINE o == Head(events)[2]
<1>1. /\ handler = "free" /\ events # <<>> /\ events' = Tail(events)
      /\ UNCHANGED <<agentVars, context, handler, timers>> /\ mishaps \subseteq mishaps'
  BY DEF MessageEnd
<1>2. /\ o \in Outcome /\ Head(events) = <<"message_end", o>>
      /\ \A S : Holds(events, S) <=> Head(events) \in S \/ Holds(events', S)
      /\ IF events' = <<>> THEN Last(events) = Head(events) ELSE Last(events) = Last(events')
  <2>1. events \in Seq(Event) /\ Head(events) \in Event
    BY <1>1, EventsFacts DEF WInv
  <2>2. Head(events)[1] = "message_end"
    BY DEF MessageEnd
  <2>3. o \in Outcome /\ Head(events) = <<"message_end", o>>
    BY <2>1, <2>2 DEF Event
  <2> QED BY <1>1, <2>1, <2>3, HoldsTail
<1> HIDE DEF o
<1>3. Shape'
  BY <1>1, <1>2 DEF WInv, Shape, Scheduled, agentVars
<1>4. CASE Succeeds(o)
  <2>1. ResolveRetry
    BY <1>4 DEF MessageEnd, o
  <2> QED BY <1>1, <1>3, <2>1 DEF WInv, Waits, ResolveRetry
<1>5. CASE ~Succeeds(o)
  <2>1. UNCHANGED <<retryVars, prompts, mishaps>>
    BY <1>5 DEF MessageEnd, o
  <2>2. Counted => o \in Failure
    BY <1>5 DEF Succeeds, Counted
  <2>3. /\ Head(events) \notin ToRetry /\ Head(events) # <<"agent_end", "fatal">>
        /\ o \in Failure => Head(events) \notin Successes
    BY <1>2, EventsFacts DEF WInv
  <2>4. Pending(events, Scheduled) => Pending(events, Scheduled)'
    BY <1>1, <1>2, <2>1, <2>2, <2>3 DEF Pending, Counted, Scheduled, retryVars, agentVars
  <2> QED BY <1>1, <1>3, <2>1, <2>4 DEF WInv, Waits, retryVars
<1> QED BY <1>4, <1>5

\* The end of a turn that is not retried: that of a retry whose error is fatal is a mishap.
LEMMA WaitsAgentEndDone ==
  ASSUME WInv, TInv', AgentEndDone
  PROVE  WInv'
<1>1. PICK o \in Outcome \ Retryable :
        /\ Head(events) = <<"agent_end", o>>
        /\ mishaps' = mishaps \union IF o = "fatal" /\ retryPromise THEN {"fatal"} ELSE {}
  BY DEF AgentEndDone
<1>2. /\ handler = "free" /\ events # <<>> /\ events' = Tail(events)
      /\ UNCHANGED <<prompts, agentVars, context, handler, retryVars, timers>>
  BY DEF AgentEndDone
<1>3. /\ \A S : Holds(events, S) <=> Head(events) \in S \/ Holds(events', S)
      /\ IF events' = <<>> THEN Last(events) = Head(events) ELSE Last(events) = Last(events')
  BY <1>2, EventsFacts, HoldsTail DEF WInv
<1>4. Shape'
  BY <1>2, <1>3 DEF WInv, Shape, Scheduled, agentVars
<1>5. Head(events) \notin ToRetry /\ Head(events) \notin Successes
  BY <1>1, EventsFacts DEF WInv
<1>6. retryPromise /\ "fatal" \notin mishaps' => Head(events) # <<"agent_end", "fatal">>
  BY <1>1
<1>7. ASSUME retryPromise, "fatal" \notin mishaps', Pending(events, Scheduled)
      PROVE  Pending(events, Scheduled)'
  BY <1>2, <1>3, <1>5, <1>6, <1>7 DEF Pending, Counted, Scheduled, retryVars, agentVars
<1>8. Waits'
  BY <1>1, <1>2, <1>7 DEF WInv, Waits, retryVars
<1> QED BY <1>4, <1>8 DEF WInv

\* What the handling of a failed turn leaves of the queue.
LEMMA RetryableEndFacts ==
  ASSUME WInv, NEW o \in Retryable, RetryableEnd(o)
  PROVE  /\ handler = "free" /\ events # <<>> /\ Head(events) \in ToRetry
         /\ Tail(events) \in Seq(Event) /\ context # <<>>
         /\ loop = "ending" => Tail(events) # <<>> /\ Last(Tail(events)) = <<"message_end", last>>
         /\ UNCHANGED agentVars
<1>1. handler = "free" /\ events # <<>> /\ Head(events) = <<"agent_end", o>> /\ UNCHANGED agentVars
  BY DEF RetryableEnd
<1>2. /\ Tail(events) \in Seq(Event)
      /\ IF Tail(events) = <<>> THEN Last(events) = Head(events)
                                ELSE Last(events) = Last(Tail(events))
  BY <1>1, EventsFacts, HoldsTail DEF WInv
<1>3. Head(events) \in ToRetry /\ context # <<>>
  BY <1>1 DEF ToRetry, WInv, Shape
<1>4. Head(events) # <<"message_end", last>>
  BY <1>1
<1> QED BY <1>1, <1>2, <1>3, <1>4 DEF WInv, Shape

\* The head of the queue is taken off: what the shape still needs.
LEMMA ShapeTail ==
  ASSUME WInv, TInv', handler' = "free", events # <<>>, events' = Tail(events),
         UNCHANGED <<loop, last>>, context' # <<>>, Ordered(context'),
         Last(context') = Last(context) \/ Last(context') \notin Outcome
  PROVE  Shape'
<1>1. IF events' = <<>> THEN Last(events) = Head(events) ELSE Last(events) = Last(events')
  BY EventsFacts, HoldsTail DEF WInv
<1> QED BY <1>1 DEF WInv, Shape

\* A retry elsewhere, and the end of the retries.
LEMMA WaitsNotCounted ==
  ASSUME WInv, TInv', NEW o \in Retryable, RetryElsewhere(o) \/ GiveUp(o)
  PROVE  WInv'
<1>1. CASE RetryElsewhere(o)
  <2>1. /\ RetryableEnd(o) /\ events' = Tail(events) /\ context' = Trimmed
        /\ handler' = handler /\ prompts' = prompts /\ retryPromise' = TRUE
        /\ "switched" \in mishaps'
    BY <1>1 DEF RetryElsewhere
  <2>2. Ordered(context') /\ context' # <<>> /\ Last(context') \notin Outcome
    BY <2>1, RetryableEndFacts, OrderedTrimmed DEF WInv, Shape, TInv
  <2>3. Shape'
    BY <2>1, <2>2, RetryableEndFacts, ShapeTail DEF agentVars
  <2> QED BY <2>1, <2>3 DEF WInv, Waits
<1>2. CASE GiveUp(o)
  <2>1. /\ RetryableEnd(o) /\ events' = Tail(events) /\ context' = context
        /\ handler' = handler /\ mishaps' = mishaps /\ ResolveRetry
    BY <1>2 DEF GiveUp
  <2>2. Shape'
    BY <2>1, RetryableEndFacts, ShapeTail DEF agentVars, WInv, Shape
  <2>3. handler' = "free"
    BY <2>1, RetryableEndFacts
  <2> QED BY <2>1, <2>2, <2>3 DEF WInv, Waits, ResolveRetry
<1> QED BY <1>1, <1>2

\* A counted retry: while the handler sleeps what follows the failed turn is on its way.
LEMMA WaitsBackOff ==
  ASSUME WInv, TInv', NEW o \in Retryable, BackOff(o)
  PROVE  WInv'
<1>1. /\ RetryableEnd(o) /\ context' = Trimmed /\ handler' = "sleeping" /\ retryPromise' = TRUE
      /\ UNCHANGED <<prompts, events, timers, mishaps>>
  BY DEF BackOff
<1>2. Counted'
  BY DEF BackOff, Counted, NextAttempt, WInv, TInv, TypeOK
<1>3. /\ Ordered(context') /\ context' # <<>> /\ Last(context') \notin Outcome
  BY <1>1, RetryableEndFacts, OrderedTrimmed DEF WInv, Shape, TInv
<1>4. /\ events # <<>> /\ Head(events) \in ToRetry /\ Tail(events) \in Seq(Event)
      /\ loop = "ending" => Tail(events) # <<>> /\ Last(Tail(events)) = <<"message_end", last>>
      /\ UNCHANGED agentVars
  BY <1>1, RetryableEndFacts
<1>5. Shape'
  BY <1>1, <1>2, <1>3, <1>4 DEF WInv, Shape, agentVars, Scheduled
<1>6. Pending(events, Scheduled)'
  <2>1. Holds(events, ToRetry)
    BY <1>4, EventsFacts, HoldsTail DEF WInv
  <2> QED BY <1>1, <2>1 DEF Pending
<1>7. Pending(Tail(events), TRUE)'
  <2>1. CASE loop = "ending" /\ last \notin Failure
    <3>1. Holds(Tail(events), {<<"message_end", last>>})
      BY <1>4, <2>1, HoldsTail
    <3>2. <<"message_end", last>> \in Successes
      BY <2>1, EventsFacts DEF WInv
    <3>3. Holds(Tail(events), Successes)
      BY <3>1, <3>2 DEF Holds
    <3> QED BY <1>1, <1>2, <3>3 DEF Pending
  <2>2. CASE loop # "ending" \/ last \in Failure
    BY <1>2, <1>3, <1>4, <2>2 DEF Pending, agentVars, WInv, TInv, TypeOK
  <2> QED BY <2>1, <2>2
<1>8. Waits'
  BY <1>1, <1>6, <1>7 DEF Waits
<1> QED BY <1>5, <1>8 DEF WInv

\* The end of the sleep: the call that starts the retry is scheduled.
LEMMA WaitsBackOffOver ==
  ASSUME WInv, TInv', BackOffOver
  PROVE  WInv'
<1>1. /\ handler = "sleeping" /\ handler' = "free" /\ events' = Tail(events) /\ events # <<>>
      /\ UNCHANGED <<prompts, agentVars, context, retryVars, mishaps>> /\ context # <<>>
  BY DEF BackOffOver, WInv, Shape
<1>2. Scheduled'
  BY DEF BackOffOver, Scheduled, WInv, TInv, TypeOK
<1>3. Shape'
  BY <1>1, ShapeTail DEF agentVars, WInv, Shape
<1>4. Pending(Tail(events), TRUE) => Pending(events, Scheduled)'
  BY <1>1, <1>2 DEF Pending, agentVars, retryVars, Counted
<1>5. Waits'
  BY <1>1, <1>4 DEF WInv, Waits, retryVars
<1> QED BY <1>3, <1>5 DEF WInv

\* abort() ends every wait.
LEMMA WaitsAbort ==
  ASSUME WInv, TInv', Abort
  PROVE  WInv'
<1>1. /\ ResolveRetry /\ handler' = "free"
      /\ events' = IF handler = "sleeping" THEN Tail(events) ELSE events
      /\ UNCHANGED <<loop, last, context, timers>>
  BY DEF Abort
<1>2. Shape'
  <2>1. CASE handler = "sleeping"
    BY <1>1, <2>1, ShapeTail DEF WInv, Shape
  <2>2. CASE handler # "sleeping"
    BY <1>1, <2>2 DEF WInv, Shape, Scheduled
  <2> QED BY <2>1, <2>2
<1> QED BY <1>1, <1>2 DEF WInv, Waits, ResolveRetry

\* Every step keeps the invariant.
LEMMA WaitsNext == WInv /\ [Next]_vars => WInv'
<1> SUFFICES ASSUME WInv, [Next]_vars PROVE WInv'
  OBVIOUS
<1>1. TInv'
  BY TypesNext DEF WInv
<1>2. CASE UNCHANGED vars \/ Expire
  <2>1. \A p \in Prompt : prompts'[p] = "waiting" => retryPromise
    BY <1>2 DEF vars, Expire, WInv, Waits
  <2> QED BY <1>1, <1>2, <2>1, WaitsSame DEF vars, Expire, agentVars
<1> QED BY <1>1, <1>2, WaitsCallers, WaitsRespond, WaitsRunTools, WaitsEndLoop, WaitsContinue,
           WaitsMessageEnd, WaitsAgentEndDone, WaitsNotCounted, WaitsBackOff, WaitsBackOffOver,
           WaitsAbort
    DEF Next, Handler

\* At the start nobody waits.
LEMMA WaitsInit == Init => WInv
<1> SUFFICES ASSUME Init PROVE WInv
  OBVIOUS
<1>1. Shape /\ Waits
  BY DEF Init, Shape, Waits, Ordered, Scheduled
<1> QED BY <1>1, TypesInit DEF WInv

\* When all is quiet nothing is pending.
LEMMA WInvWaitsEnd == WInv => WaitsEnd
BY HoldsNothing DEF WInv, Waits, Pending, Scheduled, WaitsEnd, NobodyWaitsInVain, Quiet

\* No caller of prompt() waits in vain: across counted retries, given-up ones and aborts at
\* any moment, every retry promise that is awaited is resolved, unless a turn was retried
\* elsewhere or a retry met an error that is not retryable.
THEOREM WaitsAreOver == Spec => []WaitsEnd
BY WaitsInit, WaitsNext, WInvWaitsEnd, PTL DEF Spec
------------------------------------------------------------------------------
(* One turn at a time.                                                     *)

\* Prompts take turns, and the loop of a prompt runs while its caller awaits it.
InTurn ==
  /\ \A p \in Prompt : prompts[p] # "new" => \A q \in 1..(p - 1) : prompts[q] = "returned"
  /\ \A p \in Prompt : prompts[p] = "running" <=> loop # "idle" /\ owner = p

\* No failed turn but at the end of the queue.
LastOnly(q) == \A i \in 1..(Len(q) - 1) : q[i] \notin ToRetry

\* While a turn is retried its caller waits, and nothing else is under way: at any time the
\* loop runs, or a failed turn is to be handled, or the call of a retry is scheduled.
Alone ==
  /\ retryPromise => \E p \in Prompt : prompts[p] \in {"checking", "waiting"}
  /\ Counted => retryPromise
  /\ loop # "idle" => ~Scheduled /\ handler = "free"
  /\ loop # "idle" /\ owner = 0 =>
       /\ loop # "ending" \/ last \in Failure => retryPromise
       /\ events = <<>> \/ (loop # "llm" /\ events = <<<<"message_end", last>>>>)
  /\ loop = "tools" => last = "call"
  /\ loop \in {"tools", "ending"} => Last(context) = last
  /\ LastOnly(events)
  /\ Holds(events, ToRetry) =>
       /\ loop = "idle" /\ ~Scheduled /\ retryPromise
       /\ handler = "free" => Last(context) \in Failure
       /\ Counted => ~Holds(events, Successes)
  /\ Scheduled => /\ timers = 1 /\ loop = "idle" /\ events = <<>>
                  /\ handler = "free" /\ retryPromise

Undisturbed == mishaps \cap {"aborted", "early"} = {}

AInv == WInv /\ InTurn /\ (Undisturbed => Alone)

\* Of two callers in prompt() one has not begun, or has returned.
LEMMA OneCaller ==
  ASSUME InTurn, NEW p \in Prompt, NEW q \in Prompt,
         prompts[p] \notin {"new", "returned"}, prompts[q] \notin {"new", "returned"}
  PROVE  p = q
<1>1. p \in Nat /\ q \in Nat /\ p > 0 /\ q > 0
  BY SessionConfig DEF Prompt
<1>2. ~(p < q) /\ ~(q < p)
  BY <1>1 DEF InTurn
<1> QED BY <1>1, <1>2

\* Every step lets the prompts take turns.
LEMMA TurnsNext ==
  ASSUME WInv, TInv', InTurn, [Next]_vars
  PROVE  InTurn'
<1>1. ASSUME \A p \in Prompt : /\ prompts[p] = "new" <=> prompts'[p] = "new"
                               /\ prompts[p] = "returned" => prompts'[p] = "returned",
             \A p \in Prompt : prompts'[p] = "running" <=> loop' # "idle" /\ owner' = p
      PROVE  InTurn'
  <2>1. \A p \in Prompt : \A q \in 1..(p - 1) : q \in Prompt
    BY SessionConfig DEF Prompt
  <2> QED BY <1>1, <2>1 DEF InTurn
<1>2. ASSUME NEW p \in Prompt, PromptBegin(p) PROVE InTurn'
  <2>1. \A q \in Prompt : q # p => prompts'[q] = prompts[q]
    BY <1>2 DEF PromptBegin, WInv, TInv, TypeOK
  <2>2. /\ prompts[p] = "new" /\ prompts'[p] \in {"starting", "returned"}
        /\ \A q \in 1..(p - 1) : prompts[q] = "returned"
        /\ UNCHANGED <<loop, owner>>
    BY <1>2 DEF PromptBegin, WInv, TInv, TypeOK, agentVars
  <2>3. \A r \in Prompt : \A q \in 1..(r - 1) : q \in Prompt /\ q # r
    BY SessionConfig DEF Prompt
  <2> QED BY <2>1, <2>2, <2>3 DEF InTurn
<1>3. ASSUME NEW p \in Prompt, PromptRefused(p) \/ PromptSend(p) \/ WaitForRetry(p)
      PROVE  InTurn'
  <2>1. /\ \A q \in Prompt : q # p => prompts'[q] = prompts[q]
        /\ prompts[p] \notin {"new", "returned", "running"} /\ prompts'[p] # "new"
    BY <1>3 DEF PromptRefused, PromptSend, WaitForRetry, WInv, TInv, TypeOK
  <2>2. CASE PromptSend(p)
    <3>1. loop = "idle" /\ loop' = "llm" /\ owner' = p /\ prompts'[p] = "running"
      BY <2>2 DEF PromptSend, WInv, TInv, TypeOK
    <3> QED BY <1>1, <2>1, <3>1 DEF InTurn
  <2>3. CASE PromptRefused(p) \/ WaitForRetry(p)
    <3>1. UNCHANGED <<loop, owner>> /\ prompts'[p] # "running"
      BY <2>3 DEF PromptRefused, WaitForRetry, WInv, TInv, TypeOK, agentVars
    <3> QED BY <1>1, <2>1, <3>1 DEF InTurn
  <2> QED BY <1>3, <2>2, <2>3
<1>4. CASE EndLoop
  BY <1>1, <1>4 DEF EndLoop, InTurn
<1>5. CASE Continue
  <2>1. \A p \in Prompt : p # 0
    BY SessionConfig DEF Prompt
  <2> QED BY <1>1, <1>5, <2>1 DEF Continue, MayContinue, InTurn
<1>6. CASE Respond \/ RunTools
  BY <1>1, <1>6 DEF Respond, RunTools, InTurn
<1>7. CASE Handler \/ Abort \/ Expire \/ UNCHANGED vars
  <2>1. UNCHANGED <<loop, owner>> /\ (prompts' = prompts \/ ResolveRetry)
    BY <1>7 DEF Handler, MessageEnd, AgentEndDone, RetryElsewhere, GiveUp, BackOff, BackOffOver,
                RetryableEnd, Abort, Expire, vars, agentVars
  <2> QED BY <1>1, <2>1 DEF InTurn, ResolveRetry
<1> QED BY <1>2, <1>3, <1>4, <1>5, <1>6, <1>7 DEF Next

\* The last failed turn of a queue that grows, or whose head is taken off.
LEMMA LastOnlyQueue ==
  ASSUME NEW q \in Seq(Event)
  PROVE  /\ \A e \in Event : ~Holds(q, ToRetry) => LastOnly(Append(q, e))
         /\ q # <<>> /\ LastOnly(q) => LastOnly(Tail(q))
         /\ q # <<>> /\ LastOnly(q) /\ Head(q) \in ToRetry => Tail(q) = <<>>
<1>1. ASSUME NEW e \in Event, ~Holds(q, ToRetry) PROVE LastOnly(Append(q, e))
  BY <1>1 DEF LastOnly, Holds
<1>2. ASSUME q # <<>>, LastOnly(q) PROVE LastOnly(Tail(q))
  <2> DEFINE t == Tail(q)
  <2>1. Len(q) \in Nat \ {0} /\ Len(t) = Len(q) - 1
    BY <1>2
  <2>2. \A i \in 1..Len(t) : t[i] = q[i + 1]
    BY <1>2, HeadTailProperties
  <2> HIDE DEF t
  <2>3. \A i \in 1..(Len(t) - 1) : i \in 1..Len(t) /\ i + 1 \in 1..(Len(q) - 1)
    BY <2>1
  <2>4. LastOnly(t)
    BY <1>2, <2>2, <2>3 DEF LastOnly
  <2> QED BY <2>4 DEF t
<1>3. ASSUME q # <<>>, LastOnly(q), Head(q) \in ToRetry PROVE Tail(q) = <<>>
  <2>1. Len(q) \in Nat \ {0} /\ Head(q) = q[1] /\ Len(Tail(q)) = Len(q) - 1
        /\ Tail(q) \in Seq(Event)
    BY <1>3
  <2>2. ~(1 \in 1..(Len(q) - 1))
    BY <1>3, <2>1 DEF LastOnly
  <2>3. Len(Tail(q)) = 0
    BY <2>1, <2>2
  <2> QED BY <2>1, <2>3, EmptySeq
<1> QED BY <1>1, <1>2, <1>3

\* The callers of prompt(): a turn is begun when none is retried.
LEMMA AloneCallers ==
  ASSUME AInv, Alone, NEW p \in Prompt,
         PromptBegin(p) \/ PromptRefused(p) \/ PromptSend(p) \/ WaitForRetry(p)
  PROVE  Alone'
<1>1. /\ prompts' = [prompts EXCEPT ![p] = prompts'[p]]
      /\ UNCHANGED <<last, events, handler, retryVars, timers>>
      /\ prompts[p] \in {"new", "starting", "checking"}
  BY DEF PromptBegin, PromptRefused, PromptSend, WaitForRetry, AInv, WInv, TInv, TypeOK, agentVars
<1>2. prompts[p] = "checking" /\ retryPromise => prompts'[p] = "waiting"
  BY DEF PromptBegin, PromptRefused, PromptSend, WaitForRetry, AInv, WInv, TInv, TypeOK
<1>3. retryPromise' => \E q \in Prompt : prompts'[q] \in {"checking", "waiting"}
  BY <1>1, <1>2 DEF Alone, AInv, WInv, TInv, TypeOK, retryVars
<1>4. CASE PromptSend(p)
  <2>1. loop' = "llm" /\ owner' = p /\ prompts[p] = "starting" /\ p # 0
    BY <1>4, SessionConfig DEF PromptSend, Prompt
  <2>2. ~retryPromise
    <3>1. ASSUME retryPromise PROVE FALSE
      <4>1. PICK q \in Prompt : prompts[q] \in {"checking", "waiting"}
        BY <3>1 DEF Alone
      <4>2. q = p
        BY <2>1, <4>1, OneCaller DEF AInv
      <4> QED BY <2>1, <4>1, <4>2
    <3> QED BY <3>1
  <2>3. handler = "free" /\ ~Scheduled /\ ~Holds(events, ToRetry)
    BY <2>2 DEF Alone, AInv, WInv, TInv, TypeOK, Shape
  <2> QED BY <1>1, <1>3, <2>1, <2>2, <2>3 DEF Alone, Counted, Scheduled, retryVars
<1>5. CASE ~PromptSend(p)
  <2>1. UNCHANGED <<agentVars, context>>
    BY <1>5 DEF PromptBegin, PromptRefused, WaitForRetry
  <2> QED BY <1>1, <1>3, <2>1 DEF Alone, Counted, Scheduled, agentVars, retryVars
<1> QED BY <1>4, <1>5

\* The loop: a retry's events are worked off before the next response.
LEMMA AloneLoop ==
  ASSUME AInv, Alone, Respond \/ RunTools
  PROVE  Alone'
<1>1. ~Holds(events, ToRetry) /\ ~Scheduled /\ handler = "free" /\ loop # "idle"
  BY DEF Respond, RunTools, Alone
<1>2. UNCHANGED <<prompts, owner, handler, retryVars, timers>> /\ loop' # "idle"
  BY DEF Respond, RunTools
<1>3. CASE Respond
  <2>1. PICK o \in ResponseOf :
          /\ last' = o /\ context' = Append(context, o)
          /\ events' = Append(events, <<"message_end", o>>)
          /\ loop' = IF o = "call" THEN "tools" ELSE "ending"
    BY <1>3 DEF Respond
  <2>2. o \in Outcome /\ o \in Message /\ loop = "llm"
    BY <1>3, ResponseTyped DEF Respond, AInv, WInv, TInv, Message
  <2>3. ~Holds(events', ToRetry) /\ LastOnly(events')
    <3> DEFINE e == <<"message_end", o>>
    <3>1. e \in Event /\ e \notin ToRetry /\ events \in Seq(Event) /\ events' = Append(events, e)
      BY <2>1, <2>2, EventsFacts DEF AInv, WInv
    <3> HIDE DEF e
    <3> QED BY <1>1, <3>1, HoldsAppend, LastOnlyQueue
  <2>4. Last(context') = o
    BY <2>1, <2>2, OrderedAppend DEF AInv, WInv, Shape, TInv, TypeOK
  <2>5. owner = 0 => events' = <<<<"message_end", o>>>> /\ retryPromise
    BY <2>1, <2>2 DEF Alone
  <2> QED BY <1>1, <1>2, <2>1, <2>2, <2>3, <2>4, <2>5 DEF Alone, Counted, Scheduled, retryVars
<1>4. CASE RunTools
  <2>1. loop = "tools" /\ loop' = "llm" /\ events = <<>> /\ events' = events /\ last' = last
    BY <1>4 DEF RunTools
  <2> QED BY <1>1, <1>2, <2>1 DEF Alone, Counted, Scheduled, retryVars
<1> QED BY <1>3, <1>4

\* agent_end: a failed turn has a caller that will wait.
LEMMA AloneEndLoop ==
  ASSUME AInv, Alone, EndLoop
  PROVE  Alone'
<1> DEFINE e == <<"agent_end", last>>
<1>1. /\ loop = "ending" /\ loop' = "idle" /\ events' = Append(events, e)
      /\ (retryPromise' <=> retryPromise \/ last \in Retryable)
      /\ prompts' = [p \in Prompt |-> IF p = owner THEN "checking" ELSE prompts[p]]
      /\ UNCHANGED <<owner, last, context, handler, retryAttempt, timers>>
  BY DEF EndLoop, CreatesPromise
<1>2. /\ ~Holds(events, ToRetry) /\ ~Scheduled /\ handler = "free" /\ Last(context) = last
  BY <1>1 DEF Alone
<1>3. /\ events \in Seq(Event) /\ e \in Event /\ last \in Outcome
      /\ e \in ToRetry <=> last \in Retryable
      /\ e \notin Successes
  BY EventsFacts DEF AInv, WInv
<1>4. owner = 0 => \/ events = <<>>
                   \/ events = <<<<"message_end", last>>>>
  BY <1>1 DEF Alone
<1>5. last \in Failure => <<"message_end", last>> \notin Successes
  BY <1>3, EventsFacts DEF AInv, WInv
<1>6. owner = 0 /\ last \in Retryable => retryPromise /\ ~Holds(events, Successes)
  BY <1>1, <1>4, <1>5 DEF Alone, Failure, Holds
<1> HIDE DEF e
<1>7. /\ LastOnly(events')
      /\ \A S : Holds(events', S) <=> Holds(events, S) \/ e \in S
  BY <1>1, <1>2, <1>3, HoldsAppend, LastOnlyQueue
<1>8. retryPromise' => \E p \in Prompt : prompts'[p] \in {"checking", "waiting"}
  <2>1. CASE retryPromise
    BY <1>1, <2>1 DEF Alone
  <2>2. CASE last \in Retryable /\ owner # 0
    <3>1. owner \in Prompt
      BY <2>2 DEF AInv, WInv, TInv, TypeOK
    <3> QED BY <1>1, <3>1
  <2> QED BY <1>1, <1>6, <2>1, <2>2
<1>9. ASSUME last \in Retryable, Counted PROVE owner = 0
  <2>1. PICK q \in Prompt : prompts[q] \in {"checking", "waiting"}
    BY <1>9 DEF Alone
  <2>2. ASSUME owner \in Prompt PROVE FALSE
    <3>1. prompts[owner] = "running"
      BY <1>1, <2>2 DEF AInv, InTurn
    <3>2. owner = q
      BY <2>1, <2>2, <3>1, OneCaller DEF AInv
    <3> QED BY <2>1, <3>1, <3>2
  <2> QED BY <2>2 DEF AInv, WInv, TInv, TypeOK
<1>10. Holds(events', ToRetry) => /\ retryPromise' /\ Last(context') \in Failure
                                  /\ Counted => ~Holds(events', Successes)
  BY <1>1, <1>2, <1>3, <1>6, <1>7, <1>9 DEF Failure
<1>11. Counted' = Counted /\ Scheduled' = Scheduled
  BY <1>1 DEF Counted, Scheduled
<1> QED BY <1>1, <1>2, <1>7, <1>8, <1>10, <1>11 DEF Alone

\* The timer of a retry finds the loop idle.
LEMMA AloneContinue ==
  ASSUME AInv, Alone, Continue
  PROVE  Alone'
<1>1. Scheduled /\ timers = 1 /\ timers' = 0 /\ loop = "idle" /\ events = <<>> /\ handler = "free"
  BY DEF Continue, Scheduled, Alone
<1>2. UNCHANGED <<prompts, last, context, events, handler, retryVars>> /\ retryPromise
  BY <1>1 DEF Continue, Alone
<1>3. ~Scheduled' /\ (loop' = "idle" \/ (loop' = "llm" /\ owner' = 0))
  BY <1>1 DEF Continue, Scheduled
<1> QED BY <1>1, <1>2, <1>3, HoldsNothing DEF Alone, Counted, retryVars

\* The handler of a response: a failed turn that waits in the queue is not forgotten.
LEMMA AloneMessageEnd ==
  ASSUME AInv, Alone, MessageEnd, Undisturbed'
  PROVE  Alone'
<1> DEFINE o == Head(events)[2]
<1>1. /\ handler = "free" /\ events # <<>> /\ events' = Tail(events)
      /\ UNCHANGED <<agentVars, context, handler, timers>>
  BY DEF MessageEnd
<1>2. /\ o \in Outcome /\ Head(events) = <<"message_end", o>>
      /\ \A S : Holds(events, S) <=> Head(events) \in S \/ Holds(events', S)
      /\ LastOnly(events')
  <2>1. events \in Seq(Event) /\ Head(events) \in Event
    BY <1>1, EventsFacts DEF AInv, WInv
  <2>2. Head(events)[1] = "message_end"
    BY DEF MessageEnd
  <2>3. o \in Outcome /\ Head(events) = <<"message_end", o>>
    BY <2>1, <2>2 DEF Event
  <2>4. LastOnly(events')
    BY <1>1, <2>1, LastOnlyQueue DEF Alone
  <2> QED BY <1>1, <2>1, <2>3, <2>4, HoldsTail
<1> HIDE DEF o
<1>3. ~Scheduled /\ ~Scheduled' /\ (loop # "idle" /\ owner = 0 => events' = <<>> /\ o = last)
  <2>1. ~Scheduled /\ ~Scheduled'
    BY <1>1 DEF Alone, Scheduled
  <2>2. ASSUME loop # "idle", owner = 0 PROVE events' = <<>> /\ o = last
    <3>1. events = <<<<"message_end", last>>>>
      BY <1>1, <2>2 DEF Alone
    <3>2. Head(events) = <<"message_end", last>> /\ Tail(events) = <<>>
      BY <3>1
    <3> QED BY <1>1, <1>2, <3>2
  <2> QED BY <2>1, <2>2
<1>4. CASE Succeeds(o)
  <2>1. /\ ResolveRetry /\ retryAttempt' = 0 /\ o # "call"
    BY <1>4 DEF MessageEnd, o, Undisturbed
  <2>2. Counted /\ o \notin Failure
    BY <1>4 DEF Succeeds, Counted
  <2>3. ~Holds(events', ToRetry)
    <3>1. Head(events) \in Successes
      BY <1>2, <2>2, EventsFacts DEF AInv, WInv
    <3> QED BY <1>2, <2>2, <3>1 DEF Alone
  <2>4. loop # "idle" /\ owner = 0 => loop = "ending" /\ last \notin Failure
    BY <1>1, <1>2, <1>3, <2>1, <2>2 DEF Alone, AInv, WInv, TInv, TypeOK
  <2> QED BY <1>1, <1>2, <1>3, <2>1, <2>3, <2>4 DEF Alone, ResolveRetry, Counted, agentVars
<1>5. CASE ~Succeeds(o)
  <2>1. UNCHANGED <<retryVars, prompts>>
    BY <1>5 DEF MessageEnd, o
  <2> QED BY <1>1, <1>2, <1>3, <2>1 DEF Alone, Counted, retryVars, agentVars
<1> QED BY <1>4, <1>5

\* The end of a turn that is not retried.
LEMMA AloneAgentEndDone ==
  ASSUME AInv, Alone, AgentEndDone
  PROVE  Alone'
<1>1. /\ handler = "free" /\ events # <<>> /\ events' = Tail(events)
      /\ UNCHANGED <<prompts, agentVars, context, handler, retryVars, timers>>
  BY DEF AgentEndDone
<1>2. PICK o \in Outcome \ Retryable : Head(events) = <<"agent_end", o>>
  BY DEF AgentEndDone
<1>3. /\ \A S : Holds(events, S) <=> Head(events) \in S \/ Holds(events', S)
      /\ LastOnly(events')
  BY <1>1, EventsFacts, HoldsTail, LastOnlyQueue DEF AInv, WInv, Alone
<1>4. ~Scheduled /\ ~(loop # "idle" /\ owner = 0)
  BY <1>1, <1>2 DEF Alone
<1> QED BY <1>1, <1>3, <1>4 DEF Alone, Counted, Scheduled, retryVars, agentVars

\* A failed turn that is to be handled is all there is.
LEMMA AloneFailed ==
  ASSUME AInv, Alone, events # <<>>, Head(events) \in ToRetry
  PROVE  /\ Tail(events) = <<>> /\ loop = "idle" /\ ~Scheduled /\ retryPromise
         /\ handler = "free" => Last(context) \in Failure
         /\ ~Holds(events, Successes)
<1>1. Holds(events, ToRetry) /\ Tail(events) = <<>>
  BY EventsFacts, HoldsTail, LastOnlyQueue DEF AInv, WInv, Alone
<1>2. Head(events) \notin Successes
  BY DEF ToRetry, Successes
<1>3. ~Holds(events, Successes)
  BY <1>1, <1>2, EventsFacts, HoldsTail, HoldsNothing DEF AInv, WInv
<1> QED BY <1>1, <1>3 DEF Alone

\* How a failed turn is handled, and what follows the back-off.
LEMMA AloneRetries ==
  ASSUME AInv, Alone,
         BackOffOver \/ \E o \in Retryable : RetryElsewhere(o) \/ GiveUp(o) \/ BackOff(o)
  PROVE  Alone'
<1>1. ASSUME NEW o \in Retryable, RetryableEnd(o)
      PROVE  /\ events # <<>> /\ Head(events) \in ToRetry /\ handler = "free"
             /\ UNCHANGED agentVars
  BY <1>1, RetryableEndFacts DEF AInv
<1>2. ~Holds(<<>>, ToRetry) /\ LastOnly(<<>>)
  BY HoldsNothing DEF LastOnly
<1>3. ASSUME NEW o \in Retryable, RetryElsewhere(o) PROVE Alone'
  <2>1. /\ events' = <<>> /\ loop' = "idle" /\ ~Scheduled /\ retryPromise /\ retryPromise'
        /\ handler' = "free" /\ timers' = timers + 1 /\ prompts' = prompts
    BY <1>1, <1>3, AloneFailed DEF RetryElsewhere, RetryableEnd, agentVars
  <2>2. timers' = 1
    BY <2>1 DEF AInv, WInv, TInv, TypeOK, Scheduled
  <2> QED BY <1>2, <2>1, <2>2 DEF Alone
<1>4. ASSUME NEW o \in Retryable, GiveUp(o) PROVE Alone'
  <2>1. /\ events' = <<>> /\ loop' = "idle" /\ ~Scheduled /\ timers' = timers
        /\ ~retryPromise' /\ retryAttempt' = 0
    BY <1>1, <1>4, AloneFailed DEF GiveUp, RetryableEnd, agentVars, ResolveRetry
  <2> QED BY <1>2, <2>1 DEF Alone, Counted, Scheduled
<1>5. ASSUME NEW o \in Retryable, BackOff(o) PROVE Alone'
  <2>1. /\ events' = events /\ loop' = "idle" /\ ~Scheduled /\ timers' = timers
        /\ retryPromise /\ retryPromise' /\ handler' = "sleeping" /\ prompts' = prompts
        /\ ~Holds(events, Successes)
    BY <1>1, <1>5, AloneFailed DEF BackOff, RetryableEnd, agentVars
  <2> QED BY <2>1 DEF Alone, Scheduled
<1>6. CASE BackOffOver
  <2>1. /\ events' = <<>> /\ loop' = "idle" /\ ~Scheduled /\ timers' = timers + 1
        /\ retryPromise /\ handler' = "free" /\ UNCHANGED <<prompts, retryVars>>
    BY <1>6, AloneFailed DEF BackOffOver, agentVars, AInv, WInv, Shape
  <2>2. timers' = 1
    BY <2>1 DEF AInv, WInv, TInv, TypeOK, Scheduled
  <2> QED BY <1>2, <2>1, <2>2 DEF Alone, Counted, retryVars
<1> QED BY <1>3, <1>4, <1>5, <1>6

\* Every step keeps the invariant.
LEMMA AloneNext == AInv /\ [Next]_vars => AInv'
<1> SUFFICES ASSUME AInv, [Next]_vars PROVE AInv'
  OBVIOUS
<1>1. WInv' /\ TInv' /\ InTurn'
  BY WaitsNext, TurnsNext DEF AInv, WInv
<1>2. mishaps \subseteq mishaps'
  BY DEF Next, Handler, PromptBegin, PromptRefused, PromptSend, WaitForRetry, Respond, RunTools,
         EndLoop, Continue, MessageEnd, AgentEndDone, RetryElsewhere, GiveUp, BackOff,
         BackOffOver, Abort, Expire, vars
<1>3. ASSUME Undisturbed' PROVE Alone'
  <2>1. Alone /\ "aborted" \notin mishaps'
    BY <1>2, <1>3 DEF Undisturbed, AInv
  <2>2. CASE UNCHANGED vars \/ Expire
    BY <2>1, <2>2 DEF vars, Expire, agentVars, retryVars, Alone, Counted, Scheduled
  <2>3. ~Abort
    BY <2>1 DEF Abort
  <2> QED BY <1>3, <2>1, <2>2, <2>3, AloneCallers, AloneLoop, AloneEndLoop, AloneContinue,
             AloneMessageEnd, AloneAgentEndDone, AloneRetries DEF Next, Handler
<1> QED BY <1>1, <1>3 DEF AInv

\* At the start no prompt has begun.
LEMMA AloneInit == Init => AInv
<1> SUFFICES ASSUME Init PROVE AInv
  OBVIOUS
<1>1. InTurn
  BY DEF Init, InTurn
<1>2. Alone
  BY HoldsNothing DEF Init, Alone, Counted, Scheduled, LastOnly
<1> QED BY <1>1, <1>2, WaitsInit DEF AInv

\* With every prompt returned or not begun, nothing of a retry is under way.
LEMMA AloneReturned == AInv => ReturnedMeansOver
<1> SUFFICES ASSUME AInv, Undisturbed, \A p \in Prompt : prompts[p] \in {"new", "returned"}
             PROVE  loop \in {"idle", "ending"} /\ handler = "free" /\ timers = 0
  BY DEF ReturnedMeansOver, Undisturbed
<1>1. ~retryPromise
  BY DEF AInv, Alone
<1>2. handler = "free" /\ ~Scheduled
  BY <1>1 DEF AInv, Alone, WInv, Shape, TInv, TypeOK
<1>3. timers = 0
  BY <1>2 DEF Scheduled, AInv, WInv, TInv, TypeOK
<1>4. loop \in {"idle", "ending"}
  <2>1. ASSUME loop \in {"llm", "tools"} PROVE FALSE
    <3>1. owner # 0
      BY <1>1, <2>1 DEF AInv, Alone
    <3>2. owner \in Prompt /\ prompts[owner] = "running"
      BY <2>1, <3>1 DEF AInv, InTurn, WInv, TInv, TypeOK
    <3> QED BY <3>2
  <2> QED BY <2>1 DEF AInv, WInv, TInv, TypeOK
<1> QED BY <1>2, <1>3, <1>4

\* A prompt that has returned is over: no retry of its turn is asleep, scheduled or sent to
\* the service, until an abort or a retry whose first response calls a tool.
THEOREM ReturnedPromptsAreOver == Spec => []ReturnedMeansOver
BY AloneInit, AloneNext, AloneReturned, PTL DEF Spec
------------------------------------------------------------------------------
(* No answer is lost.                                                      *)

\* The answers of a context.
Answered(c) == {i \in DOMAIN c : c[i] = "answer"}

KInv == AInv /\ (Undisturbed => answers = Cardinality(Answered(context)))

\* A message is one answer more, if it is an answer.
LEMMA AnsweredAppend ==
  ASSUME NEW c \in Seq(Message), NEW m \in Message
  PROVE  Cardinality(Answered(Append(c, m))) =
           Cardinality(Answered(c)) + IF m = "answer" THEN 1 ELSE 0
<1> DEFINE a == Append(c, m)
           n == Len(c) + 1
<1>1. /\ DOMAIN c = 1..Len(c) /\ DOMAIN a = 1..n /\ a[n] = m /\ Len(c) \in Nat
      /\ \A i \in 1..Len(c) : a[i] = c[i]
  OBVIOUS
<1> HIDE DEF a
<1>2. 1..n = 1..Len(c) \union {n} /\ n \notin 1..Len(c)
  BY <1>1
<1>3. IsFiniteSet(Answered(c))
  <2>1. IsFiniteSet(1..Len(c))
    BY <1>1, FS_Interval
  <2> QED BY <1>1, <2>1, FS_Subset DEF Answered
<1>4. n \notin Answered(c)
  BY <1>1, <1>2 DEF Answered
<1>5. Answered(a) = IF m = "answer" THEN Answered(c) \union {n} ELSE Answered(c)
  BY <1>1, <1>2 DEF Answered
<1> HIDE DEF n
<1>6. Cardinality(Answered(c)) \in Nat
      /\ Cardinality(Answered(c) \union {n}) = Cardinality(Answered(c)) + 1
  BY <1>3, <1>4, FS_AddElement, FS_CardinalityType
<1> QED BY <1>5, <1>6 DEF a

\* A failed turn that is taken off is no answer.
LEMMA AnsweredTrimmed ==
  ASSUME TypeOK, Last(context) \notin Outcome \/ Last(context) \in Failure
  PROVE  Answered(Trimmed) = Answered(context)
<1> DEFINE n == Len(context)
           k == Len(Trimmed)
<1>1. /\ DOMAIN context = 1..n /\ DOMAIN Trimmed = 1..k /\ n \in Nat
      /\ context[n] = Last(context)
  <2>1. context \in Seq(Message) /\ Trimmed \in Seq(Message)
    BY TrimmedTyped DEF TypeOK
  <2> QED BY <2>1 DEF Last
<1>2. /\ \A i \in 1..k : Trimmed[i] = context[i]
      /\ k = n \/ (k = n - 1 /\ k # n)
      /\ k # n => Last(context) \in Outcome
  BY TrimmedTyped, <1>1
<1> HIDE DEF n, k
<1>3. CASE k = n
  BY <1>1, <1>2, <1>3 DEF Answered
<1>4. CASE k = n - 1 /\ k # n
  <2>1. context[n] # "answer"
    BY <1>1, <1>2, <1>4 DEF Failure, Retryable, CredentialError
  <2>2. 1..k \subseteq 1..n /\ \A i \in 1..n : i = n \/ i \in 1..k
    BY <1>1, <1>4
  <2> QED BY <1>1, <1>2, <2>1, <2>2 DEF Answered
<1> QED BY <1>2, <1>3, <1>4

\* Every step keeps the answers: what is taken off the context is the failed turn.
LEMMA AnswersNext == KInv /\ [Next]_vars => KInv'
<1> SUFFICES ASSUME KInv, [Next]_vars, Undisturbed'
             PROVE  answers' = Cardinality(Answered(context'))
  BY AloneNext DEF KInv
<1>1. mishaps \subseteq mishaps'
  BY DEF Next, Handler, PromptBegin, PromptRefused, PromptSend, WaitForRetry, Respond, RunTools,
         EndLoop, Continue, MessageEnd, AgentEndDone, RetryElsewhere, GiveUp, BackOff,
         BackOffOver, Abort, Expire, vars
<1>2. /\ AInv /\ Alone /\ answers = Cardinality(Answered(context))
      /\ answers \in Nat /\ context \in Seq(Message)
  BY <1>1 DEF KInv, Undisturbed, AInv, WInv, TInv, TypeOK
<1>3. ASSUME NEW m \in Message \ {"answer"}, context' = Append(context, m), answers' = answers
      PROVE  answers' = Cardinality(Answered(context'))
  BY <1>2, <1>3, AnsweredAppend
<1>4. CASE Respond
  <2>1. PICK o \in ResponseOf : /\ context' = Append(context, o)
                                /\ answers' = answers + IF o = "answer" THEN 1 ELSE 0
    BY <1>4 DEF Respond
  <2>2. o \in Message
    BY ResponseTyped DEF KInv, AInv, WInv, TInv, Message
  <2> QED BY <1>2, <2>1, <2>2, AnsweredAppend
<1>5. ASSUME NEW p \in Prompt, PromptSend(p)
      PROVE  answers' = Cardinality(Answered(context'))
  <2>1. "user" \in Message \ {"answer"}
    BY DEF Message
  <2> QED BY <1>3, <1>5, <2>1 DEF PromptSend
<1>6. CASE RunTools
  <2>1. "result" \in Message \ {"answer"}
    BY DEF Message
  <2> QED BY <1>3, <1>6, <2>1 DEF RunTools, boundVars
<1>7. ASSUME NEW o \in Retryable, RetryElsewhere(o) \/ BackOff(o)
      PROVE  answers' = Cardinality(Answered(context'))
  <2>1. RetryableEnd(o) /\ context' = Trimmed
    BY <1>7 DEF RetryElsewhere, BackOff
  <2>2. /\ events # <<>> /\ Head(events) \in ToRetry /\ handler = "free" /\ answers' = answers
    BY <1>2, <2>1, RetryableEndFacts DEF AInv, RetryableEnd
  <2>3. Last(context) \in Failure
    BY <1>2, <2>2, AloneFailed
  <2> QED BY <1>2, <2>1, <2>2, <2>3, AnsweredTrimmed DEF AInv, WInv, TInv
<1>8. ASSUME UNCHANGED <<context, answers>>
      PROVE  answers' = Cardinality(Answered(context'))
  BY <1>2, <1>8
<1>9. ASSUME NEW p \in Prompt, PromptBegin(p) \/ PromptRefused(p) \/ WaitForRetry(p)
      PROVE  UNCHANGED <<context, answers>>
  BY <1>9 DEF PromptBegin, PromptRefused, WaitForRetry
<1>10. ASSUME NEW o \in Retryable, GiveUp(o) PROVE UNCHANGED <<context, answers>>
  BY <1>10 DEF GiveUp, RetryableEnd
<1>11. CASE \/ EndLoop \/ Continue \/ MessageEnd \/ AgentEndDone \/ BackOffOver \/ Abort
            \/ Expire \/ UNCHANGED vars
  BY <1>8, <1>11 DEF EndLoop, Continue, MessageEnd, AgentEndDone, BackOffOver, Abort, Expire, vars
<1> QED BY <1>4, <1>5, <1>6, <1>7, <1>8, <1>9, <1>10, <1>11 DEF Next, Handler

\* At the start there is no answer.
LEMMA AnswersInit == Init => KInv
<1> SUFFICES ASSUME Init PROVE KInv
  OBVIOUS
<1>1. Answered(context) = {} /\ answers = 0
  BY DEF Init, Answered
<1> QED BY <1>1, AloneInit, FS_EmptySet DEF KInv

\* What is counted is what the property counts.
LEMMA AnswersCounted == KInv => AnswersKept
BY DEF KInv, Undisturbed, AnswersKept, Answered, Quantify

\* No answer is taken off the context by a handler that lags behind, until an abort or a
\* retry whose first response calls a tool: it holds all the answers the model has given.
THEOREM AnswersAreKept == Spec => []AnswersKept
BY AnswersInit, AnswersNext, AnswersCounted, PTL DEF Spec
=============================================================================
