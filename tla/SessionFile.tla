---------------------------- MODULE SessionFile ----------------------------
(***************************************************************************)
(* One process over its session files: session-manager.ts, and the part of *)
(* agent-session.ts that keeps the agent, the session and the file in step.*)
(*                                                                         *)
(* The agent adds a message to its own list at once and emits an event;    *)
(* the session appends the message when the handler of that event has its  *)
(* turn, and the file gets nothing before the session's first reply.  /new *)
(* and /resume stop the agent and wait for it; /tree and /fork do not.  A  *)
(* summary is written while all the others go on.                          *)
(***************************************************************************)
EXTENDS SessionTree

CONSTANTS
  NumFiles,
  MaxEntries,    \* bound: entries made, in all files
  MaxIncidents   \* bound: commands, restarts, writes that stop half way, replies and
                 \* summaries that fail, overflows

ASSUME SessionAssumption ==
  NumFiles \in Nat \ {0} /\ MaxEntries \in Nat \ {0} /\ MaxIncidents \in Nat

File == 1..NumFiles

VARIABLES
  table,     \* every entry made so far; a message has no place until it is appended
  files,     \* the lines of each file
  mem,       \* the SessionManager: its file, entries, leaf, and is the file up to date
  agent,     \* agent.state.messages
  events,    \* the queue of events: messages, EndMark for agent_end
  turn,      \* "asked": the model is asked; "called": a tool runs
  heard,     \* is the session subscribed to the agent's events
  command,   \* the command that waits for the agent to stop
  job,       \* the summary under way
  last,      \* _lastAssistantMessage, until agent_end has been handled; or Header
  retry,     \* "seeking", "asleep": the handler of agent_end waits for another model, for a
             \* back-off; "cancelled"
  due,       \* how many calls of agent.continue() are scheduled
  origin,    \* history: the sessions that each session was made from
  used,      \* how many incidents there were
  mishaps    \* history: see Mishap

handler == <<last, retry, due>>
vars == <<table, files, mem, agent, events, turn, heard, command, job, handler, origin, used,
          mishaps>>

EndMark == 0
NoCommand == [what |-> "none", file |-> 0]
NoJob == [what |-> "none", file |-> 0, leaf |-> 0, kept |-> 0, covers |-> {}, again |-> FALSE]

\* "torn": a write stopped half way.  "lagging": the agent's messages were replaced, or the
\* session was, while messages waited in the queue.  "midturn": the leaf or the session moved
\* under a turn, or a compaction came under it.  "overtaken": an entry was appended before
\* messages that the agent had sooner.
\* "unheard": the agent made a message while a /compact had the session unsubscribed.
\* "astray": a summary came to another session or branch than its own.  "unlinked": a fork
\* dropped a label that other entries hung on.  "recompacted": a compaction passed over what the
\* one before had kept, or over its summary.  "mistaken": a handler took a reply off the
\* agent's list that had not failed.
Mishap == {"torn", "lagging", "midturn", "overtaken", "unheard", "astray", "unlinked",
           "recompacted", "mistaken"}

Made(kind, ref, covers) ==
  [kind |-> kind, ref |-> ref, home |-> mem.file, covers |-> covers, parent |-> Header, past |-> {}]
Room(n) == Len(table) + n <= MaxEntries
Next1 == Len(table) + 1
Path == PathTo(table, mem.ids, mem.leaf)
Waiting == \E e \in ToSet(events) : e # EndMark
Blames(names) == mishaps' = mishaps \union names
Incident == used < MaxIncidents /\ used' = used + 1
Unused == {f \in File : origin[f] = {}}

Setting == [kind |-> "setting", ref |-> 0, home |-> 1, covers |-> {}, parent |-> Header, past |-> {}]

\* A process that has just made session 1.
Init ==
  /\ table = <<Setting>>
  /\ files = [f \in File |-> <<>>]
  /\ mem = [file |-> 1, ids |-> <<Header, 1>>, leaf |-> 1, flushed |-> FALSE]
  /\ agent = <<>> /\ events = <<>> /\ turn = "idle" /\ heard = TRUE
  /\ command = NoCommand /\ job = NoJob
  /\ last = Header /\ retry = "none" /\ due = 0
  /\ origin = [f \in File |-> IF f = 1 THEN {1} ELSE {}]
  /\ used = 0
  /\ mishaps = {}

(* --------------------------- the append --------------------------- *)

\* (ToWriteLast: the entries held back are forgotten.)
ToWriteLast(T, M, i) == IF Answered(T, Append(M.ids, i)) THEN <<i>> ELSE <<>>
\* _persist: nothing before the first reply, then everything, then line by line.
ToWrite(T, M, i) ==
  LET all == Append(M.ids, i)
  IN IF ~Answered(T, all) THEN <<>> ELSE IF M.flushed THEN <<i>> ELSE all

\* A write may stop at any line, with or without a part of it.
Writes(lines) ==
  {[lines |-> lines, ok |-> TRUE]}
  \union (IF lines = <<>> \/ used = MaxIncidents THEN {}
          ELSE {[lines |-> SubSeq(lines, 1, n) \o part, ok |-> FALSE] :
                  n \in 0..(Len(lines) - 1), part \in {<<>>, <<Torn>>}})

\* _appendEntry of entry i, which is in T already, to the session M.
Store(T, M, i, out) ==
  /\ table' = Placed(T, i, M.leaf)
  /\ mem' = [M EXCEPT !.ids = Append(@, i), !.leaf = i,
                      !.flushed = Answered(T, Append(M.ids, i)) /\ (@ \/ out.ok)]
  /\ files' = [files EXCEPT ![M.file] = @ \o out.lines]

Torn1(out) == {x \in {"torn"} : ~out.ok}

(* ----------------------------- a turn ----------------------------- *)

Emit(i, marks) ==
  /\ agent' = Append(agent, i)
  /\ events' = IF heard THEN events \o <<i>> \o marks ELSE events
  /\ Blames({x \in {"unheard"} : ~heard /\ (command.what = "compact" \/ job.what = "manual")})
  /\ UNCHANGED <<files, mem, heard, command, job, handler, origin>>

Prompt ==
  /\ turn = "idle" /\ command.what = "none" /\ Room(1)
  /\ table' = Append(table, Made("user", 0, {}))
  /\ turn' = "asked"
  /\ Emit(Next1, <<>>) /\ UNCHANGED used

\* abort(), which a command waits for, makes the reply the last one; so does a failure.
Respond ==
  /\ turn = "asked" /\ Room(1)
  /\ \E kind \in Replies :
       /\ command.what # "none" => kind # "call"
       /\ IF kind = "error" THEN Incident ELSE UNCHANGED used
       /\ table' = Append(table, Made(kind, 0, {}))
       /\ turn' = IF kind = "call" THEN "called" ELSE "idle"
       /\ Emit(Next1, IF kind = "call" THEN <<>> ELSE <<EndMark>>)

ToolEnds ==
  /\ turn = "called" /\ Room(1)
  /\ table' = Append(table, Made("result", Max({i \in DOMAIN table : table[i].kind = "call"}), {}))
  /\ turn' = "asked"
  /\ Emit(Next1, <<>>) /\ UNCHANGED used

\* continue(), if it does not throw: the model is asked again, with the messages there are.
EndsInReply == agent # <<>> /\ table[Last(agent)].kind \in Replies
Continue ==
  /\ due > 0 /\ due' = due - 1 /\ (turn = "idle" => command.what = "none")
  /\ turn' = IF turn = "idle" /\ agent # <<>> /\ ~EndsInReply THEN "asked" ELSE turn
  /\ UNCHANGED <<table, files, mem, agent, events, heard, command, job, last, retry, origin, used,
                 mishaps>>

(* -------------------- the handlers of the events -------------------- *)

\* A back-off, the search for another model and the compaction after a turn are awaited by the
\* handler of agent_end, so that the queue stands still; the one before a prompt is not.
Unblocked == events # <<>> /\ job.what # "auto" /\ retry = "none"

MessageEnd ==
  /\ Unblocked /\ Head(events) # EndMark
  /\ events' = Tail(events)
  /\ \E out \in Writes(ToWrite(table, mem, Head(events))) :
       /\ Store(table, mem, Head(events), out)
       /\ used' = used + (IF out.ok THEN 0 ELSE 1)
       /\ Blames(Torn1(out))
       /\ last' = IF out.ok /\ table[Head(events)].kind \in Replies THEN Head(events) ELSE last
  /\ UNCHANGED <<agent, turn, heard, command, job, retry, due, origin>>

Starts(what, again) ==
  LET p == Prepared(table, Path)
  IN job' = [what |-> what, file |-> mem.file, leaf |-> mem.leaf,
             kept |-> p.kept, covers |-> p.covers, again |-> again]

\* The handler takes the last message off the agent's list, and not out of the session, if it
\* is a reply: whichever that is by now.
\* (TakesOffAny: whatever it is.)
TakesOffAny ==
  /\ agent' = IF agent = <<>> THEN agent ELSE Front(agent)
  /\ Blames({x \in {"mistaken"} : EndsInReply /\ table[Last(agent)].kind # "error"})
TakesOff ==
  /\ agent' = IF EndsInReply THEN Front(agent) ELSE agent
  /\ Blames({x \in {"mistaken"} : EndsInReply /\ table[Last(agent)].kind # "error"})

\* _checkCompaction, for a reply that is newer than the last compaction: nothing, or a
\* compaction; or, when the context has overflown, one after which the turn is repeated.
Newer(reply) ==
  LET c == LastCompaction(table, Path) IN reply # Header /\ (c # 0 => reply > Path[c])
ChecksSize(reply, what) ==
  /\ \/ UNCHANGED job
     \/ /\ job.what = "none" /\ Newer(reply) /\ CanPrepare(table, Path)
        /\ Starts(what, FALSE)
  /\ UNCHANGED <<agent, used, mishaps>>
Overflows(reply, what) ==
  /\ job.what = "none" /\ Newer(reply) /\ Incident
  /\ TakesOff
  /\ IF CanPrepare(table, Path) THEN Starts(what, TRUE) ELSE UNCHANGED job
Checks(reply, what) == ChecksSize(reply, what) \/ Overflows(reply, what)

\* For the last reply that a handler saw, if it saw one since the last turn ended: a back-off, of
\* no length with another credential; the search for another model; or _checkCompaction.
AgentEnd ==
  /\ Unblocked /\ Head(events) = EndMark
  /\ events' = Tail(events)
  /\ \/ retry' = "none" /\ Checks(last, "auto")
     \/ /\ last # Header /\ table[last].kind = "error"
        /\ \/ retry' = "asleep" /\ TakesOff
           \/ retry' = "seeking" /\ UNCHANGED <<agent, mishaps>>
        /\ UNCHANGED <<job, used>>
  /\ last' = IF retry' = "none" THEN Header ELSE last
  /\ UNCHANGED <<table, files, mem, turn, heard, command, due, origin>>

\* findFallback has returned: no other model, and the retry is given up or goes on with a
\* back-off; or one, which is a setting of the session.
FallsBack ==
  /\ retry = "seeking"
  /\ \/ /\ \/ retry' = "none" /\ ChecksSize(last, "auto")
           \/ retry' = "asleep" /\ TakesOff /\ UNCHANGED <<job, used>>
        /\ UNCHANGED <<table, files, mem>>
     \/ /\ Room(1)
        /\ LET T == Append(table, Made("setting", 0, {}))
           IN \E out \in Writes(ToWrite(T, mem, Next1)) :
                /\ Store(T, mem, Next1, out)
                /\ used' = used + (IF out.ok THEN 0 ELSE 1)
                /\ IF out.ok THEN retry' = "asleep" /\ TakesOff
                   ELSE retry' = "none" /\ Blames({"torn"}) /\ UNCHANGED agent
        /\ UNCHANGED job
  /\ last' = IF retry' = "none" THEN Header ELSE last
  /\ UNCHANGED <<events, turn, heard, command, due, origin>>

\* The back-off is over, or was cancelled by the user or a command; an overflow is not
\* retried in this way.
RetryEnds ==
  /\ retry \in {"asleep", "cancelled"} /\ retry' = "none" /\ last' = Header
  /\ \/ retry = "asleep" /\ due' = due + 1 /\ UNCHANGED <<agent, job, used, mishaps>>
     \/ ChecksSize(last, "auto") /\ UNCHANGED due
  /\ UNCHANGED <<table, files, mem, events, turn, heard, command, origin>>

\* prompt() checks, too, and only the prompt waits for that.
CheckBefore ==
  LET n == SelectLastInSeq(agent, LAMBDA i : table[i].kind \in Replies)
  IN /\ turn = "idle" /\ command.what = "none" /\ n # 0
     /\ Checks(agent[n], "early")
     /\ UNCHANGED <<table, files, mem, events, turn, heard, command, handler, origin>>

(* ---------------------------- summaries ---------------------------- *)

\* abort()
CancelsRetry ==
  /\ retry' = IF retry = "asleep" THEN "cancelled" ELSE retry
  /\ UNCHANGED <<last, due>>

\* /compact stops listening before it stops the agent, and listens again at its very end.
Compact ==
  /\ command.what = "none" /\ job.what = "none" /\ Incident
  /\ Cardinality({i \in Members(mem.ids) : table[i].kind \in Messages}) >= 2
  /\ heard' = FALSE
  /\ command' = [what |-> "compact", file |-> 0]
  /\ CancelsRetry
  /\ UNCHANGED <<table, files, mem, agent, events, turn, job, origin, mishaps>>

Compacts ==
  /\ command.what = "compact" /\ turn = "idle"
  /\ command' = NoCommand
  /\ IF CanPrepare(table, Path)
     THEN Starts("manual", FALSE) /\ UNCHANGED heard
     ELSE heard' = TRUE /\ UNCHANGED job
  /\ UNCHANGED <<table, files, mem, agent, events, turn, handler, origin, used, mishaps>>

Astray == job.file # mem.file \/ job.leaf \notin ToSet(Path)
PassesOver == ~Astray /\ ~(KeptBefore(table, PathTo(table, mem.ids, job.leaf)) \subseteq job.covers)

\* The summary is appended to the session as it is now, and the agent gets its context,
\* without a failed reply at the end if the turn is to be repeated.
WithoutError(T, s) == IF s # <<>> /\ T[Last(s)].kind = "error" THEN Front(s) ELSE s
Compacted ==
  /\ job.what \in {"auto", "early", "manual"} /\ Room(1)
  /\ LET T == Append(table, [Made("compaction", job.kept, job.covers) EXCEPT !.home = job.file])
     IN \E out \in Writes(ToWrite(T, mem, Next1)) :
          /\ Store(T, mem, Next1, out)
          /\ LET context == Context(table', mem'.ids, mem'.leaf)
             IN agent' = IF ~out.ok THEN agent
                         ELSE IF job.again THEN WithoutError(table', context) ELSE context
          /\ due' = due + (IF job.again /\ out.ok THEN 1 ELSE 0)
          /\ used' = used + (IF out.ok THEN 0 ELSE 1)
          /\ Blames(Torn1(out)
                    \union {x \in {"lagging"} : out.ok /\ Waiting}
                    \union {x \in {"midturn"} : turn # "idle"}
                    \union {x \in {"astray"} : Astray}
                    \union {x \in {"recompacted"} : PassesOver})
  /\ job' = NoJob
  /\ heard' = (heard \/ job.what = "manual")
  /\ UNCHANGED <<events, turn, command, last, retry, origin>>

\* The model fails, an extension or the user cancels.
SummaryFails ==
  /\ job.what # "none" /\ Incident
  /\ job' = NoJob
  /\ heard' = (heard \/ job.what = "manual")
  /\ UNCHANGED <<table, files, mem, agent, events, turn, command, handler, origin, mishaps>>

(* ------------------- commands on the tree and its files ------------------- *)

MoveTo(M, T) ==
  /\ mem' = M
  /\ agent' = Context(T, M.ids, M.leaf)
Disturbs == {x \in {"lagging"} : Waiting} \union {x \in {"midturn"} : turn # "idle"}

\* navigateTree: to the parent of a prompt, so that it can be sent anew, or to the entry itself.
Target(i) == IF table[i].kind = "user" THEN table[i].parent ELSE i
Here(i) == i \in Members(mem.ids) \union {Header}   \* otherwise branch() throws
Left(i) ==   \* collectEntriesForBranchSummary
  {j \in ToSet(Path) \ ToSet(PathTo(table, mem.ids, i)) : table[j].kind \in Shown}

Navigate ==
  /\ Incident
  /\ \E i \in Members(mem.ids) \ {mem.leaf} :
       Here(Target(i)) /\ MoveTo([mem EXCEPT !.leaf = Target(i)], table)
  /\ Blames(Disturbs)
  /\ UNCHANGED <<table, files, events, turn, heard, command, job, handler, origin>>

NavigateWithSummary ==
  /\ job.what = "none" /\ Incident
  /\ \E i \in Members(mem.ids) \ {mem.leaf} :
       /\ Left(i) # {}
       /\ job' = [what |-> "tree", file |-> mem.file, leaf |-> Target(i), kept |-> 0,
                  covers |-> Left(i), again |-> FALSE]
  /\ UNCHANGED <<table, files, mem, agent, events, turn, heard, command, handler, origin, mishaps>>

\* branchWithSummary throws where the target is not an entry of the session any more.
Navigated ==
  /\ job.what = "tree"
  /\ \/ /\ Here(job.leaf) /\ Room(1)
        /\ LET T == Append(table, Made("branch_summary", 0, job.covers))
               M == [mem EXCEPT !.leaf = job.leaf]
           IN \E out \in Writes(ToWrite(T, M, Next1)) :
                /\ Store(T, M, Next1, out)
                /\ agent' = IF out.ok THEN Context(table', mem'.ids, mem'.leaf) ELSE agent
                /\ used' = used + (IF out.ok THEN 0 ELSE 1)
                /\ Blames(Torn1(out) \union Disturbs
                          \union {x \in {"astray"} : job.file # mem.file})
     \/ /\ ~Here(job.leaf)
        /\ UNCHANGED <<table, files, mem, agent, used, mishaps>>
  /\ job' = NoJob
  /\ UNCHANGED <<events, turn, heard, command, handler, origin>>

\* fork(): the path before a prompt, as a session of its own; written at once if it has a reply.
Fork ==
  /\ Incident /\ Unused # {}
  /\ \E i \in {j \in Members(mem.ids) : table[j].kind = "user"} :
       LET f == Min(Unused)
           from == table[i].parent
           B == IF from = Header THEN [table |-> table, ids |-> <<Header>>]
                ELSE Branched(table, mem.ids, from, f)
           path == ToSet(PathTo(table, mem.ids, from))
           labels == {j \in path : table[j].kind = "label"}
           M == [file |-> f, ids |-> B.ids, leaf |-> Last(B.ids),
                 flushed |-> Answered(B.table, B.ids)]
       IN /\ Here(from) /\ Len(B.table) <= MaxEntries
          /\ table' = B.table
          /\ MoveTo(M, B.table)
          /\ files' = [files EXCEPT ![f] = IF M.flushed THEN B.ids ELSE <<>>]
          /\ origin' = [origin EXCEPT ![f] = origin[mem.file] \union {f}]
          /\ Blames(Disturbs \union
                    {x \in {"unlinked"} : \E j \in path \ labels : {table[j].parent, table[j].ref} \intersect labels # {}})
  /\ UNCHANGED <<events, turn, heard, command, job, handler>>

\* A label is an entry like any other: the conversation goes on under it.
Label ==
  /\ Incident /\ Room(1)
  /\ \E i \in Members(mem.ids) :
       /\ i \notin {table[mem.ids[n]].ref : n \in Labels(table, mem.ids)}
       /\ LET T == Append(table, Made("label", i, {}))
          IN \E out \in Writes(ToWrite(T, mem, Next1)) : out.ok /\ Store(T, mem, Next1, out)
  /\ UNCHANGED <<agent, events, turn, heard, command, job, handler, origin, mishaps>>

\* A shell command of the user: to the agent and the session at once, while no turn runs.
Bash ==
  /\ turn = "idle" /\ Incident /\ Room(1)
  /\ LET T == Append(table, Made("bash", 0, {}))
     IN \E out \in Writes(ToWrite(T, mem, Next1)) : out.ok /\ Store(T, mem, Next1, out)
  /\ agent' = Append(agent, Next1)
  /\ Blames({x \in {"overtaken"} : Waiting})
  /\ UNCHANGED <<events, turn, heard, command, job, handler, origin>>

\* newSession() and switchSession() stop listening, and wait for abort().
Leave ==
  /\ command.what = "none" /\ Incident
  /\ \/ command' = [what |-> "new", file |-> 0] /\ Unused # {}
     \/ \E f \in File : Valid(files[f]) /\ command' = [what |-> "resume", file |-> f]
  /\ heard' = FALSE /\ CancelsRetry
  /\ UNCHANGED <<table, files, mem, agent, events, turn, job, origin, mishaps>>

\* (FreshOver: the entries are kept.)
FreshOver(f, i) == [file |-> f, ids |-> mem.ids \o <<i>>, leaf |-> i, flushed |-> FALSE]
Fresh(f, i) == [file |-> f, ids |-> <<Header, i>>, leaf |-> i, flushed |-> FALSE]

NewSession ==
  /\ command.what = "new" /\ turn = "idle" /\ Unused # {} /\ Room(1)
  /\ LET f == Min(Unused)
     IN /\ table' = Append(table, [Setting EXCEPT !.home = f])
        /\ mem' = Fresh(f, Next1)
        /\ origin' = [origin EXCEPT ![f] = {f}]
  /\ agent' = <<>>
  /\ heard' = TRUE /\ command' = NoCommand
  /\ Blames({x \in {"lagging"} : Waiting})
  /\ UNCHANGED <<files, events, turn, job, handler, used>>

\* setSessionFile; a setting is appended where the path has none, and by a new process also
\* where there is nothing to restore.
Opens(f, started) ==
  LET ids == Loaded(files[f])
      M == [file |-> f, ids |-> ids, leaf |-> Last(ids), flushed |-> TRUE]
      T == Append(table, [Setting EXCEPT !.home = f])
      restored == Context(table, ids, Last(ids))
      hasSetting ==
        /\ started => restored # <<>>
        /\ \E i \in ToSet(PathTo(table, ids, Last(ids))) : table[i].kind = "setting"
  IN /\ IF hasSetting
        THEN mem' = M /\ UNCHANGED <<table, files>>
        ELSE /\ Room(1)
             /\ \E out \in Writes(ToWrite(T, M, Next1)) : out.ok /\ Store(T, M, Next1, out)
     /\ agent' = restored

Resume ==
  /\ command.what = "resume" /\ turn = "idle"
  /\ Opens(command.file, FALSE)
  /\ heard' = TRUE /\ command' = NoCommand
  /\ Blames({x \in {"lagging"} : Waiting})
  /\ UNCHANGED <<events, turn, job, handler, origin, used>>

\* The process ends, at any moment, and another one continues a session.
Restart ==
  /\ Incident
  /\ \E f \in File : Valid(files[f]) /\ Opens(f, TRUE)
  /\ events' = <<>> /\ turn' = "idle" /\ heard' = TRUE /\ command' = NoCommand /\ job' = NoJob
  /\ last' = Header /\ retry' = "none" /\ due' = 0
  /\ UNCHANGED <<origin, mishaps>>

Next ==
  \/ Prompt \/ Respond \/ ToolEnds \/ Continue
  \/ MessageEnd \/ AgentEnd \/ FallsBack \/ RetryEnds \/ CheckBefore
  \/ Compact \/ Compacts \/ Compacted \/ SummaryFails
  \/ Navigate \/ NavigateWithSummary \/ Navigated \/ Fork \/ Label \/ Bash
  \/ Leave \/ NewSession \/ Resume \/ Restart

Spec == Init /\ [][Next]_vars

(* ---------------------------- properties ---------------------------- *)

Line == {Torn} \union 0..MaxEntries

(***************************************************************************)
(* The types; the leaf is an entry of the session that is open.            *)
(***************************************************************************)
TypeOK ==
  /\ Len(table) <= MaxEntries /\ \A i \in DOMAIN table : table[i] \in Entry
  /\ files \in [File -> Seq(Line)]
  /\ mem.file \in File /\ mem.leaf \in Members(mem.ids) \union {Header} /\ mem.flushed \in BOOLEAN
  /\ Head(mem.ids) = Header
  /\ ToSet(agent) \subseteq DOMAIN table
  /\ ToSet(events) \subseteq DOMAIN table \union {EndMark}
  /\ turn \in {"idle", "asked", "called"} /\ heard \in BOOLEAN /\ used <= MaxIncidents
  /\ last \in 0..MaxEntries /\ retry \in {"none", "seeking", "asleep", "cancelled"} /\ due \in Nat
  /\ mishaps \subseteq Mishap

(***************************************************************************)
(* Once the session has a reply, the file holds the entries of the session *)
(* manager, each once and in its order: the first write brings everything  *)
(* that was held back, and no branch, fork, summary or switch of session   *)
(* writes past it.  Until a write stops half way.                          *)
(***************************************************************************)
FileIsSession ==
  \/ "torn" \in mishaps
  \/ files[mem.file] = IF Answered(table, mem.ids) THEN mem.ids ELSE <<>>

(***************************************************************************)
(* Nothing of the conversation that leads to the leaf is lost to the       *)
(* model: each message is in the context that buildSessionContext makes,   *)
(* or a summary in it was made from it, over branches, forks, restarts and *)
(* one compaction.  What does lose messages: a line that was written in    *)
(* part, which takes the next one with it; a fork over a label; a second   *)
(* compaction, which neither summarizes nor keeps what the first one had   *)
(* kept, and does not pass on the first summary after a split turn; a      *)
(* summary that comes to another branch than the one it was made for.      *)
(***************************************************************************)
NothingForgotten ==
  \/ mishaps \intersect {"torn", "unlinked", "recompacted", "astray"} # {}
  \/ Whole(table, mem.ids, mem.leaf)

(***************************************************************************)
(* The same of a fork, which is a session of "only the path from root to   *)
(* the specified leaf": it does not hold, since the entries that hung on a *)
(* label of the path hang on nothing.                                      *)
(***************************************************************************)
ForkKeepsHistory ==
  \/ mishaps \intersect {"torn", "recompacted", "astray"} # {}
  \/ Whole(table, mem.ids, mem.leaf)

(***************************************************************************)
(* When all is quiet, what the model is sent of the agent's messages is    *)
(* what it would be sent after a restart, of the session's context.  The   *)
(* lists themselves differ by the failed replies that handlers took off    *)
(* the agent's and not out of the session.  Unless the agent's list was    *)
(* replaced, or added to, while the session still had messages to append,  *)
(* or made some while nobody listened, or a handler that came late or took *)
(* an answer for an overflow took another reply off.                       *)
(***************************************************************************)
AgentInStep ==
  \/ mishaps \intersect {"torn", "lagging", "unheard", "overtaken", "mistaken"} # {}
  \/ turn # "idle" \/ Waiting \/ command.what # "none"
  \/ Sent(table, agent) = Sent(table, Context(table, mem.ids, mem.leaf))

(***************************************************************************)
(* A session holds only what was said in it or in the sessions it was      *)
(* forked from, and only summaries of that, unless a session was left with *)
(* messages waiting in the queue or with a compaction under way.           *)
(***************************************************************************)
AtHome ==
  \/ mishaps \intersect {"lagging", "astray"} # {}
  \/ \A i \in Members(mem.ids) : table[i].home \in origin[mem.file]

(***************************************************************************)
(* In the context a tool result comes after its call: a compaction never   *)
(* cuts between them, and neither does a place to which /tree can go, if   *)
(* no turn is running.  A call that nobody heard is not in the session,    *)
(* and a shell command may come between a call and a result that waits.    *)
(***************************************************************************)
ResultsFollowCalls ==
  LET context == Context(table, mem.ids, mem.leaf)
  IN \/ mishaps \intersect {"torn", "lagging", "midturn", "overtaken", "unheard", "unlinked", "astray"} # {}
     \/ \A n \in DOMAIN context :
          table[context[n]].kind = "result" => \E k \in 1..(n - 1) : context[k] = table[context[n]].ref
=============================================================================
