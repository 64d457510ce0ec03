----------------------------- MODULE MemoryJobs -----------------------------
(***************************************************************************)
(* The memory extension (memory/storage.ts, pipeline.ts, index.ts): at the *)
(* start of a process the sessions of its project are entered into a       *)
(* database, a batch of extraction jobs is claimed under a lease and sent  *)
(* to the model, and the results are consolidated into the memory of the   *)
(* project.                                                                *)
(*                                                                         *)
(* sql.js keeps the database in memory: a process reads the file once and  *)
(* after every operation writes its whole copy back.                       *)
(***************************************************************************)
EXTENDS Naturals, FiniteSetsExt

CONSTANTS
  Process,
  Thread,      \* sessions
  Project,     \* working directories
  Home,        \* Home[t]: the project of a session
  Place,       \* Place[t]: where the scan comes upon the file of a session
  MaxPerStartup, \* maxRolloutsPerStartup
  Batch,       \* stage1Concurrency
  MaxVersion,  \* bound: versions of a session file
  MaxChanges,  \* bound: changes of all session files
  MaxJobs,     \* bound: unfinished jobs of a session
  MaxResets,   \* bound: /memory clear and /memory rebuild
  MaxCrashes,  \* bound: processes that are killed, or end before their start is over
  SideBySide   \* whether processes may run at the same time

ASSUME MemoryConfig ==
  /\ IsFiniteSet(Thread) /\ Project # {} /\ Home \in [Thread -> Project]
  /\ Place \in [Thread -> Nat]
  /\ MaxPerStartup \in Nat \ {0} /\ Batch \in Nat \ {0} /\ MaxJobs \in Nat \ {0}
  /\ MaxVersion \in Nat /\ MaxChanges \in Nat /\ MaxResets \in Nat /\ MaxCrashes \in Nat
  /\ SideBySide \in BOOLEAN

Version == 0..MaxVersion

\* Rows of the jobs table that are pending or claimed; those that are done or in error are
\* never looked at again.
Job == [thread : Thread, n : 1..MaxJobs, state : {"pending", "claimed", "expired"}]

\* mark: size and time of the file at the last scan; output: the version a stored result
\* was extracted from, 0 without one; stage2: whether an unexpired claim of the
\* consolidation exists.
Database == [status : [Thread -> {"none", "pending", "done", "error"}], mark : [Thread -> Version],
             output : [Thread -> Version], jobs : SUBSET Job, stage2 : BOOLEAN]
Empty == [status |-> [t \in Thread |-> "none"], mark |-> [t \in Thread |-> 0],
          output |-> [t \in Thread |-> 0], jobs |-> {}, stage2 |-> FALSE]

\* An extraction under way: a claimed job and the version of the file it was given.
Task == [thread : Thread, n : 1..MaxJobs, version : Version]
\* What a consolidation writes: results of a project.
Digest == [project : Project, results : SUBSET (Thread \X Version)]

VARIABLES
  version,  \* version[t]: the content of a session file that is old enough to be extracted
  aged,     \* sessions that have not changed for more than maxRolloutAgeDays
  file,     \* the database file
  torn,     \* whether the file was cut short by a crash
  memory,   \* memory[c]: the results that MEMORY.md of the project was made from
  proc,     \* proc[p]: a process and its storage
  ghosts,   \* consolidations whose storage was closed under them by a reload
  resets, crashes   \* counters for the bounds

vars == <<version, aged, file, torn, memory, proc, ghosts, resets, crashes>>

\* "off"; "open": the storage is created; "scanned", "entered", "extracting",
\* "consolidating": steps of runStartup; "idle": it is over.
Off == [pc |-> "off", project |-> CHOOSE c \in Project : TRUE, db |-> Empty,
        found |-> [t \in Thread |-> 0], tasks |-> {}, processed |-> FALSE, digest |-> {}]

\* Every variable has its type.
TypeOK ==
  /\ version \in [Thread -> Version] /\ aged \subseteq Thread /\ file \in Database /\ torn \in BOOLEAN
  /\ memory \in [Project -> SUBSET (Thread \X Version)]
  /\ proc \in [Process ->
       [pc : {"off", "open", "scanned", "entered", "extracting", "consolidating", "idle"},
        project : Project, db : Database, found : [Thread -> Version],
        tasks : SUBSET Task, processed : BOOLEAN, digest : SUBSET (Thread \X Version)]]
  /\ ghosts \subseteq Digest
  /\ resets \in 0..MaxResets /\ crashes \in 0..MaxCrashes

Init ==
  /\ version = [t \in Thread |-> 0] /\ aged = {} /\ file = Empty /\ torn = FALSE
  /\ memory = [c \in Project |-> {}]
  /\ proc = [p \in Process |-> Off] /\ ghosts = {}
  /\ resets = 0 /\ crashes = 0

------------------------------------------------------------------------------
(* Operations on a copy of the database.                                   *)

Active(db, t) == {j \in db.jobs : j.thread = t}

\* A number for a new job of a session: its id is a random one.
Numbers(db, t) == {n \in 1..MaxJobs : \A j \in Active(db, t) : j.n # n}
NewJob(db, t) ==
  [thread |-> t, state |-> "pending", n |-> CHOOSE n \in Numbers(db, t) : TRUE]

\* upsertThreads, for the sessions found by the scan: a new one gets a job, and so does
\* one that has changed unless its last job is not over.
Fresh(db, found) == {t \in Thread : found[t] > 0 /\ db.status[t] = "none"}
Changed(db, found) ==
  {t \in Thread : found[t] > 0 /\ db.status[t] # "none" /\ db.mark[t] # found[t]}

\* (EnteredQuietly: a changed session keeps its status; EnteredDoneOnly: one that was in
\* error gets no job.)
EnteredQuietly(db, found) ==
  LET new == Fresh(db, found)
      all == new \union Changed(db, found)
  IN  [db EXCEPT !.status = [t \in Thread |-> IF t \in new THEN "pending" ELSE @[t]],
                 !.mark   = [t \in Thread |-> IF t \in all THEN found[t] ELSE @[t]],
                 !.jobs   = @ \union {NewJob(db, t) : t \in new}]

EnteredDoneOnly(db, found) ==
  LET new == Fresh(db, found) \union {t \in Changed(db, found) : db.status[t] = "done"}
      all == Fresh(db, found) \union Changed(db, found)
  IN  [db EXCEPT !.status = [t \in Thread |-> IF t \in all THEN "pending" ELSE @[t]],
                 !.mark   = [t \in Thread |-> IF t \in all THEN found[t] ELSE @[t]],
                 !.jobs   = @ \union {NewJob(db, t) : t \in new}]

Entered(db, found) ==
  LET new == Fresh(db, found) \union {t \in Changed(db, found) : db.status[t] \in {"done", "error"}}
      all == Fresh(db, found) \union Changed(db, found)
  IN  [db EXCEPT !.status = [t \in Thread |-> IF t \in all THEN "pending" ELSE @[t]],
                 !.mark   = [t \in Thread |-> IF t \in all THEN found[t] ELSE @[t]],
                 !.jobs   = @ \union {NewJob(db, t) : t \in new}]

\* claimStage1Jobs: any Batch of the jobs of all projects that are pending or expired.
Claimable(db) == {j \in db.jobs : j.state # "claimed"}
Batches(db) ==
  {js \in SUBSET Claimable(db) : Cardinality(js) = Min({Batch, Cardinality(Claimable(db))})}
Claimed(db, js) ==
  [db EXCEPT !.jobs = (@ \ js) \union {[j EXCEPT !.state = "claimed"] : j \in js}]

\* completeStage1Job and failStage1Job end every claimed job of the session, whoever has
\* claimed it, and whether or not its lease has run out.
Over(db, t) == {j \in db.jobs : j.thread # t \/ j.state = "pending"}
Marked(db, t, s) == IF db.status[t] = "none" THEN db.status ELSE [db.status EXCEPT ![t] = s]

Completed(db, t, v) ==
  [db EXCEPT !.jobs = Over(db, t), !.output[t] = v, !.status = Marked(db, t, "done")]
Failed(db, t) ==
  [db EXCEPT !.jobs = Over(db, t), !.status = Marked(db, t, "error")]

\* tryClaimGlobalPhase2Job: nothing is left to extract, in any project.
MayConsolidate(db) == db.jobs = {} /\ ~db.stage2 /\ \E t \in Thread : db.output[t] > 0

\* getStage1OutputsForCwd: the results of the sessions entered for the project.
Results(db, c) ==
  {<<t, db.output[t]>> : t \in {u \in Thread : /\ Home[u] = c /\ db.status[u] # "none"
                                               /\ db.output[u] > 0}}

\* clearForCwd and resetAllForCwd.
Rows(db, c) == {t \in Thread : Home[t] = c /\ db.status[t] # "none"}
Cleared(db, c) ==
  [db EXCEPT !.status = [t \in Thread |-> IF t \in Rows(db, c) THEN "none" ELSE @[t]],
             !.mark   = [t \in Thread |-> IF t \in Rows(db, c) THEN 0 ELSE @[t]],
             !.output = [t \in Thread |-> IF t \in Rows(db, c) THEN 0 ELSE @[t]],
             !.jobs   = {j \in @ : j.thread \notin Rows(db, c)}]

Rebuilt(db, c) ==
  [db EXCEPT !.status = [t \in Thread |-> IF t \in Rows(db, c) THEN "pending" ELSE @[t]],
             !.output = [t \in Thread |-> IF t \in Rows(db, c) THEN 0 ELSE @[t]],
             !.jobs   = {j \in @ : j.thread \notin Rows(db, c)}
                          \union {[thread |-> t, state |-> "pending", n |-> 1] : t \in Rows(db, c)}]

------------------------------------------------------------------------------
(* The sessions and the calendar.                                          *)

SessionChanges(t) ==
  /\ version[t] < MaxVersion /\ MapThenSumSet(LAMBDA u : version[u], Thread) < MaxChanges
  /\ version' = [version EXCEPT ![t] = @ + 1] /\ aged' = aged \ {t}
  /\ UNCHANGED <<file, torn, memory, proc, ghosts, resets, crashes>>

\* A lease is compared as text with the present time, in two formats: it runs out when its
\* day is over.
\* (ExpiredStage2: the leases of extraction jobs never run out.)
ExpiredStage2(db) == [db EXCEPT !.stage2 = FALSE]

Expired(db) ==
  [db EXCEPT !.stage2 = FALSE,
             !.jobs = {[j EXCEPT !.state = IF @ = "claimed" THEN "expired" ELSE @] : j \in @}]

Ages(t) ==
  /\ version[t] > 0 /\ t \notin aged /\ aged' = aged \union {t}
  /\ UNCHANGED <<version, file, torn, memory, proc, ghosts, resets, crashes>>

NewDay ==
  /\ file' = Expired(file) /\ proc' = [p \in Process |-> [proc[p] EXCEPT !.db = Expired(@)]]
  /\ UNCHANGED <<version, aged, torn, memory, ghosts, resets, crashes>>

------------------------------------------------------------------------------
(* runStartup.                                                             *)

\* persist(): the whole copy of the process.
Persist(p, pr) == proc' = [proc EXCEPT ![p] = pr] /\ file' = pr.db /\ torn' = FALSE

Open(p, c) ==
  /\ proc[p].pc = "off" /\ ~torn
  /\ SideBySide \/ \A q \in Process : proc[q].pc = "off"
  /\ proc' = [proc EXCEPT ![p] = [Off EXCEPT !.pc = "open", !.project = c, !.db = file]]
  /\ UNCHANGED <<version, aged, file, torn, memory, ghosts, resets, crashes>>

\* The sessions of a project that are not too old, and of these only the first ones.
Recent(c) == {t \in Thread : Home[t] = c /\ version[t] > 0 /\ t \notin aged}
Eligible(c) ==
  {t \in Recent(c) : Cardinality({u \in Recent(c) : Place[u] < Place[t]}) < MaxPerStartup}

\* scanSessionFiles looks at the files while they may change; what it has found is filtered.
Scan(p) ==
  /\ proc[p].pc = "open"
  /\ proc' = [proc EXCEPT ![p].pc = "scanned",
       ![p].found = [t \in Thread |-> IF t \in Eligible(proc[p].project) THEN version[t] ELSE 0]]
  /\ UNCHANGED <<version, aged, file, torn, memory, ghosts, resets, crashes>>

Enter(p) ==
  LET pr == proc[p]
  IN  /\ pr.pc = "scanned" /\ \A t \in Thread : Numbers(pr.db, t) # {}
      /\ IF \A t \in Thread : pr.found[t] = 0
           THEN proc' = [proc EXCEPT ![p].pc = "entered"] /\ UNCHANGED <<file, torn>>
           ELSE Persist(p, [pr EXCEPT !.pc = "entered", !.db = Entered(@, pr.found),
                                      !.found = Off.found])
      /\ UNCHANGED <<version, aged, memory, ghosts, resets, crashes>>

Claim(p) ==
  LET pr == proc[p]
  IN  /\ pr.pc = "entered"
      /\ \E js \in Batches(pr.db) :
           Persist(p, [pr EXCEPT
             !.pc = IF js = {} THEN "idle" ELSE "extracting",
             !.db = Claimed(@, js),
             !.tasks = {[thread |-> j.thread, n |-> j.n, version |-> version[j.thread]] : j \in js}])
      /\ UNCHANGED <<version, aged, memory, ghosts, resets, crashes>>

Complete(p, k) ==
  LET pr == proc[p]
  IN  /\ k \in pr.tasks
      /\ Persist(p, [pr EXCEPT !.db = Completed(@, k.thread, k.version),
                               !.tasks = @ \ {k}, !.processed = TRUE])
      /\ UNCHANGED <<version, aged, memory, ghosts, resets, crashes>>

Fail(p, k) ==
  LET pr == proc[p]
  IN  /\ k \in pr.tasks
      /\ Persist(p, [pr EXCEPT !.db = Failed(@, k.thread), !.tasks = @ \ {k}])
      /\ UNCHANGED <<version, aged, memory, ghosts, resets, crashes>>

\* The second phase, entered only by a start that has extracted something.
Phase2(p) ==
  LET pr == proc[p]
  IN  /\ pr.pc = "extracting" /\ pr.tasks = {}
      /\ IF pr.processed /\ MayConsolidate(pr.db) /\ Results(pr.db, pr.project) # {}
           THEN Persist(p, [pr EXCEPT !.pc = "consolidating", !.db.stage2 = TRUE,
                                      !.digest = Results(pr.db, pr.project)])
         ELSE IF pr.processed /\ MayConsolidate(pr.db)
           THEN Persist(p, [pr EXCEPT !.pc = "idle"])
         ELSE proc' = [proc EXCEPT ![p].pc = "idle"] /\ UNCHANGED <<file, torn>>
      /\ UNCHANGED <<version, aged, memory, ghosts, resets, crashes>>

Consolidate(p) ==
  LET pr == proc[p]
  IN  /\ pr.pc = "consolidating" /\ pr.digest # {}
      /\ memory' = [memory EXCEPT ![pr.project] = pr.digest]
      /\ Persist(p, [pr EXCEPT !.pc = "idle", !.db.stage2 = FALSE, !.digest = {}])
      /\ UNCHANGED <<version, aged, ghosts, resets, crashes>>

\* The model fails, or the directory it would write to is gone: the claim stays until its
\* lease has run out.
ConsolidateFails(p) ==
  /\ proc[p].pc = "consolidating"
  /\ proc' = [proc EXCEPT ![p].pc = "idle", ![p].digest = {}]
  /\ UNCHANGED <<version, aged, file, torn, memory, ghosts, resets, crashes>>

------------------------------------------------------------------------------
(* Commands, and how a process ends.                                       *)

\* The directory of the memory is removed, and a consolidation under way cannot write there.
Reset(p, db) ==
  /\ proc[p].pc # "off" /\ resets < MaxResets /\ resets' = resets + 1
  /\ Persist(p, [proc[p] EXCEPT !.db = db, !.digest = {}])
  /\ memory' = [memory EXCEPT ![proc[p].project] = {}]
  /\ UNCHANGED <<version, aged, ghosts, crashes>>

Clear(p)   == Reset(p, Cleared(proc[p].db, proc[p].project))
Rebuild(p) == Reset(p, Rebuilt(proc[p].db, proc[p].project))

\* The storage is closed at the end of the process.
Close(p) ==
  /\ proc[p].pc = "idle"
  /\ Persist(p, [Off EXCEPT !.db = proc[p].db])
  /\ UNCHANGED <<version, aged, memory, ghosts, resets, crashes>>

\* It may be closed before the start is over: by the end of the process, or by a reload,
\* which does not stop a consolidation: it can still write the memory, but not the database.
CloseEarly(p) ==
  LET pr == proc[p]
  IN  /\ pr.pc \notin {"off", "idle"} /\ crashes < MaxCrashes /\ crashes' = crashes + 1
      /\ Persist(p, [Off EXCEPT !.db = pr.db])
      /\ ghosts' \in {ghosts, ghosts \union
           {[project |-> pr.project, results |-> d] : d \in {pr.digest} \ {{}}}}
      /\ UNCHANGED <<version, aged, memory, resets>>

GhostWrites(g) ==
  /\ g \in ghosts /\ ghosts' = ghosts \ {g}
  /\ memory' \in {memory, [memory EXCEPT ![g.project] = g.results]}
  /\ UNCHANGED <<version, aged, file, torn, proc, resets, crashes>>

\* A process is killed: between two operations, after it has written the memory, or while
\* it writes the database, of which then nothing or only a part is left.
Crash(p) ==
  LET pr == proc[p]
  IN  /\ pr.pc # "off" /\ crashes < MaxCrashes /\ crashes' = crashes + 1
      /\ proc' = [proc EXCEPT ![p] = Off]
      /\ \/ UNCHANGED <<file, torn, memory>>
         \/ /\ pr.pc = "consolidating" /\ pr.digest # {}
            /\ memory' = [memory EXCEPT ![pr.project] = pr.digest]
            /\ UNCHANGED <<file, torn>>
         \/ file' = Empty /\ torn' \in BOOLEAN /\ UNCHANGED memory
      /\ UNCHANGED <<version, aged, ghosts, resets>>

Startup(p) ==
  \/ Scan(p) \/ Enter(p) \/ Claim(p)
  \/ \E k \in proc[p].tasks : Complete(p, k) \/ Fail(p, k)
  \/ Phase2(p) \/ Consolidate(p) \/ ConsolidateFails(p)

Step(p) ==
  \/ \E c \in Project : Open(p, c)
  \/ Startup(p)
  \/ Clear(p) \/ Rebuild(p) \/ Close(p) \/ CloseEarly(p) \/ Crash(p)

Next ==
  \/ \E t \in Thread : SessionChanges(t) \/ Ages(t)
  \/ NewDay
  \/ \E p \in Process : Step(p)
  \/ \E g \in ghosts : GhostWrites(g)

Spec == Init /\ [][Next]_vars

\* Days pass, processes go on and end, and each project is opened again and again.
FairSpec ==
  /\ Spec /\ WF_vars(NewDay)
  /\ \A c \in Project : SF_vars(\E p \in Process : Open(p, c))
  /\ \A p \in Process : WF_vars(Startup(p)) /\ WF_vars(Close(p))

------------------------------------------------------------------------------
(* What should hold.                                                       *)

Copies == {file} \union {proc[p].db : p \in {q \in Process : proc[q].pc # "off"}}

\* A session is not forgotten: in every copy of the database, one that counts as pending
\* has a job that a later start can claim, and a job belongs to a session that is entered.
PendingHasJob ==
  \A db \in Copies :
    /\ \A t \in Thread : db.status[t] = "pending" => Active(db, t) # {}
    /\ \A j \in db.jobs : db.status[j.thread] # "none"

\* Every session is extracted in the end, in its last version, unless the model failed on
\* it, the file of the database is cut short, or the start of a process passes it over: it
\* grows too old, or stands behind too many others, before it was entered in that version.
PassedOver(t) == t \notin Eligible(Home[t]) /\ file.mark[t] # version[t]

SessionsExtracted ==
  \A t \in Thread :
    \A v \in Version \ {0} :
      version[t] = v ~> \/ version[t] # v \/ torn
                        \/ file.output[t] = v
                        \/ file.status[t] = "error"
                        \/ PassedOver(t)

\* The tables as the abstract worker pool of MemoryWork.
Work == INSTANCE MemoryWork WITH
  Worker  <- Process,
  result  <- file.output,
  settled <- [t \in Thread |->
                IF file.status[t] \in {"done", "error"} /\ Active(file, t) = {}
                  THEN file.mark[t] ELSE 0],
  reading <- [p \in Process |-> [t \in Thread |->
                IF \E k \in proc[p].tasks : k.thread = t
                  THEN (CHOOSE k \in proc[p].tasks : k.thread = t).version ELSE 0]]

KeepsPromise == Work!WorkSpec
=============================================================================
