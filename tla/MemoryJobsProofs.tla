--------------------------- MODULE MemoryJobsProofs ---------------------------
(* The job tables of the memory extension, for any number of sessions, projects  *)
(* and processes: no copy of the database forgets a session that is pending, and *)
(* processes that run one after another keep the promise of MemoryWork.          *)
EXTENDS MemoryJobs, TLAPS

Status == {"none", "pending", "done", "error"}
Found == Thread \X Version
ProcType == [pc : {"off", "open", "scanned", "entered", "extracting", "consolidating", "idle"},
             project : Project, db : Database, found : [Thread -> Version],
             tasks : SUBSET Task, processed : BOOLEAN, digest : SUBSET Found]

\* What the tables of a copy owe to the sessions.
JobsGood(db) ==
  /\ \A t \in Thread : db.status[t] = "pending" => Active(db, t) # {}
  /\ \A j \in db.jobs : db.status[j.thread] # "none"

-----------------------------------------------------------------------------
(* The operations on a copy. *)

\* Sessions are entered, with a job for each that has none to come.
LEMMA EnteredGood ==
  ASSUME NEW db \in Database, NEW found \in [Thread -> Version],
         \A t \in Thread : Numbers(db, t) # {}
  PROVE  /\ Entered(db, found) \in Database
         /\ JobsGood(db) => JobsGood(Entered(db, found))
         /\ Entered(db, found).output = db.output
         /\ \A t \in Thread :
              \/ /\ Entered(db, found).status[t] = db.status[t]
                 /\ Entered(db, found).mark[t] = db.mark[t]
                 /\ Active(Entered(db, found), t) = Active(db, t)
              \/ /\ Entered(db, found).status[t] = "pending" /\ found[t] > 0
                 /\ Entered(db, found).mark[t] = found[t]
         /\ \A j \in Entered(db, found).jobs : j \in db.jobs \/ found[j.thread] > 0
<1> DEFINE new == Fresh(db, found) \union {t \in Changed(db, found) : db.status[t] \in {"done", "error"}}
           all == Fresh(db, found) \union Changed(db, found)
           s == [t \in Thread |-> IF t \in all THEN "pending" ELSE db.status[t]]
           m == [t \in Thread |-> IF t \in all THEN found[t] ELSE db.mark[t]]
           js == db.jobs \union {NewJob(db, t) : t \in new}
<1>1. Entered(db, found) = [db EXCEPT !.status = s, !.mark = m, !.jobs = js]
  BY DEF Entered
<1>2. \A t \in new : NewJob(db, t) \in Job /\ NewJob(db, t).thread = t
  <2>1. ASSUME NEW t \in Thread
        PROVE  (CHOOSE n \in Numbers(db, t) : TRUE) \in 1..MaxJobs
    BY DEF Numbers
  <2> QED BY <2>1 DEF NewJob, Job, Fresh, Changed
<1>3. /\ new \subseteq all /\ all \subseteq Thread /\ \A t \in all : found[t] > 0
      /\ \A t \in all : t \in new \/ db.status[t] = "pending"
  BY DEF Fresh, Changed, Database
<1>4. s \in [Thread -> Status] /\ m \in [Thread -> Version] /\ js \in SUBSET Job
  <2>1. js \in SUBSET Job
    BY <1>2 DEF Database
  <2>2. s \in [Thread -> Status] /\ m \in [Thread -> Version]
    BY DEF Database, Status
  <2> QED BY <2>1, <2>2
<1> HIDE DEF new, all
<1>5. Entered(db, found) \in Database
  <2> HIDE DEF s, m, js
  <2> QED BY <1>1, <1>4 DEF Database, Status
<1>6. /\ Entered(db, found).status = s /\ Entered(db, found).mark = m
      /\ Entered(db, found).output = db.output /\ Entered(db, found).jobs = js
  <2> HIDE DEF s, m, js
  <2> QED BY <1>1 DEF Database
<1>7. \A j \in js \ db.jobs : j.thread \in new
  BY <1>2
<1>8. JobsGood(db) => JobsGood(Entered(db, found))
  <2> SUFFICES ASSUME JobsGood(db)
               PROVE  JobsGood(Entered(db, found))
    OBVIOUS
  <2>1. ASSUME NEW t \in Thread, s[t] = "pending"
        PROVE  \E j \in js : j.thread = t
    <3>1. CASE t \in new
      BY <1>2, <3>1
    <3>2. CASE t \notin new
      <4>1. db.status[t] = "pending"
        BY <1>3, <2>1, <3>2
      <4> QED BY <4>1 DEF JobsGood, Active
    <3> QED BY <3>1, <3>2
  <2>2. ASSUME NEW j \in js
        PROVE  s[j.thread] # "none"
    <3>1. j.thread \in Thread
      BY <1>4 DEF Job
    <3>2. CASE j \in db.jobs
      BY <3>1, <3>2 DEF JobsGood
    <3>3. CASE j \notin db.jobs
      BY <1>3, <1>7, <3>1, <3>3
    <3> QED BY <3>2, <3>3
  <2> QED BY <1>6, <2>1, <2>2 DEF JobsGood, Active
<1>9. ASSUME NEW t \in Thread
      PROVE  \/ s[t] = db.status[t] /\ m[t] = db.mark[t] /\ {j \in js : j.thread = t} = Active(db, t)
             \/ s[t] = "pending" /\ found[t] > 0 /\ m[t] = found[t]
  <2>1. CASE t \in all
    BY <1>3, <2>1
  <2>2. CASE t \notin all
    BY <1>3, <1>7, <2>2 DEF Active
  <2> QED BY <2>1, <2>2
<1>10. ASSUME NEW j \in js
       PROVE  j \in db.jobs \/ found[j.thread] > 0
  BY <1>3, <1>7
<1> HIDE DEF s, m, js
<1> QED BY <1>5, <1>6, <1>8, <1>9, <1>10 DEF Active

\* The jobs of a batch are claimed: each stays a job of its session.
LEMMA ClaimedGood ==
  ASSUME NEW db \in Database, NEW js \in Batches(db)
  PROVE  /\ Claimed(db, js) \in Database
         /\ JobsGood(db) => JobsGood(Claimed(db, js))
         /\ Claimed(db, js).status = db.status /\ Claimed(db, js).mark = db.mark
         /\ Claimed(db, js).output = db.output
         /\ \A t \in Thread : Active(Claimed(db, js), t) = {} <=> Active(db, t) = {}
         /\ \A j \in Claimed(db, js).jobs : \E i \in db.jobs : i.thread = j.thread
         /\ js \subseteq db.jobs
<1> DEFINE new == {[j EXCEPT !.state = "claimed"] : j \in js}
           jobs == (db.jobs \ js) \union new
<1>1. js \subseteq db.jobs /\ db.jobs \subseteq Job
  BY DEF Batches, Claimable, Database
<1>2. \A j \in Job : /\ [j EXCEPT !.state = "claimed"] \in Job
                     /\ [j EXCEPT !.state = "claimed"].thread = j.thread
  BY DEF Job
<1>3. jobs \in SUBSET Job
  BY <1>1, <1>2
<1>4. /\ \A j \in jobs : \E i \in db.jobs : i.thread = j.thread
      /\ \A i \in db.jobs : \E j \in jobs : i.thread = j.thread
  BY <1>1, <1>2
<1> HIDE DEF jobs
<1>5. /\ Claimed(db, js) \in Database
      /\ Claimed(db, js).status = db.status /\ Claimed(db, js).mark = db.mark
      /\ Claimed(db, js).output = db.output /\ Claimed(db, js).jobs = jobs
  <2>1. Claimed(db, js) = [db EXCEPT !.jobs = jobs]
    BY DEF Claimed, jobs
  <2> QED BY <1>3, <2>1 DEF Database, Status
<1>6. \A t \in Thread : Active(Claimed(db, js), t) = {} <=> Active(db, t) = {}
  BY <1>4, <1>5 DEF Active
<1>7. JobsGood(db) => JobsGood(Claimed(db, js))
  BY <1>4, <1>5, <1>6 DEF JobsGood
<1> QED BY <1>1, <1>4, <1>5, <1>6, <1>7

\* The end of a job.
LEMMA MarkedTyped ==
  ASSUME NEW db \in Database, NEW t \in Thread, NEW s \in {"done", "error"}
  PROVE  /\ Marked(db, t, s) \in [Thread -> Status]
         /\ \A u \in Thread \ {t} : Marked(db, t, s)[u] = db.status[u]
         /\ Marked(db, t, s)[t] = IF db.status[t] = "none" THEN "none" ELSE s
         /\ Over(db, t) \in SUBSET Job
         /\ \A u \in Thread \ {t} : {j \in Over(db, t) : j.thread = u} = Active(db, u)
         /\ Over(db, t) \subseteq db.jobs
BY DEF Marked, Over, Active, Database, Status

\* A result is stored, or not.
LEMMA CompletedGood ==
  ASSUME NEW db \in Database, NEW t \in Thread, NEW v \in Version
  PROVE  \A d \in {Completed(db, t, v), Failed(db, t)} :
           /\ d \in Database /\ (JobsGood(db) => JobsGood(d))
           /\ d.mark = db.mark /\ d.jobs \subseteq db.jobs
           /\ \A u \in Thread \ {t} : /\ d.status[u] = db.status[u] /\ d.output[u] = db.output[u]
                                      /\ Active(d, u) = Active(db, u)
           /\ d.status[t] = "none" <=> db.status[t] = "none"
           /\ d.output[t] = IF d = Failed(db, t) THEN db.output[t] ELSE v
<1> DEFINE o == [db.output EXCEPT ![t] = v]
<1>1. o \in [Thread -> Version] /\ o[t] = v /\ \A u \in Thread \ {t} : o[u] = db.output[u]
  BY DEF Database
<1> HIDE DEF o
<1>2. /\ Completed(db, t, v) \in Database
      /\ Completed(db, t, v).jobs = Over(db, t) /\ Completed(db, t, v).mark = db.mark
      /\ Completed(db, t, v).status = Marked(db, t, "done") /\ Completed(db, t, v).output = o
  <2>1. Completed(db, t, v) = [db EXCEPT !.jobs = Over(db, t), !.output = o,
                                         !.status = Marked(db, t, "done")]
    BY DEF Completed, o
  <2>2. Marked(db, t, "done") \in [Thread -> Status] /\ Over(db, t) \in SUBSET Job
    BY MarkedTyped
  <2> QED BY <1>1, <2>1, <2>2 DEF Database, Status
<1>3. /\ Failed(db, t) \in Database
      /\ Failed(db, t).jobs = Over(db, t) /\ Failed(db, t).mark = db.mark
      /\ Failed(db, t).status = Marked(db, t, "error") /\ Failed(db, t).output = db.output
  <2>1. Failed(db, t) = [db EXCEPT !.jobs = Over(db, t), !.status = Marked(db, t, "error")]
    BY DEF Failed
  <2>2. Marked(db, t, "error") \in [Thread -> Status] /\ Over(db, t) \in SUBSET Job
    BY MarkedTyped
  <2> QED BY <2>1, <2>2 DEF Database, Status
<1>4. ASSUME NEW d \in Database, NEW s \in {"done", "error"}, d.jobs = Over(db, t),
             d.status = Marked(db, t, s)
      PROVE  /\ (JobsGood(db) => JobsGood(d))
             /\ \A u \in Thread \ {t} : d.status[u] = db.status[u] /\ Active(d, u) = Active(db, u)
             /\ d.status[t] = "none" <=> db.status[t] = "none"
             /\ d.jobs \subseteq db.jobs
  <2>1. \A u \in Thread \ {t} : d.status[u] = db.status[u] /\ Active(d, u) = Active(db, u)
    BY <1>4, MarkedTyped DEF Active
  <2>2. d.status[t] = IF db.status[t] = "none" THEN "none" ELSE s
    BY <1>4, MarkedTyped
  <2>3. d.jobs \subseteq db.jobs /\ \A j \in db.jobs : j.thread \in Thread
    BY <1>4, MarkedTyped DEF Database, Job
  <2>4. (JobsGood(db) => JobsGood(d))
    BY <2>1, <2>2, <2>3 DEF JobsGood
  <2> QED BY <2>1, <2>2, <2>3, <2>4
<1>5. Completed(db, t, v) = Failed(db, t) => v = db.output[t]
  BY <1>1, <1>2, <1>3
<1> QED BY <1>1, <1>2, <1>3, <1>4, <1>5

\* /memory clear and /memory rebuild: the rows of a project start again.
LEMMA ClearedGood ==
  ASSUME NEW db \in Database, NEW c \in Project
  PROVE  /\ Cleared(db, c) \in Database
         /\ JobsGood(db) => JobsGood(Cleared(db, c))
         /\ \A t \in Rows(db, c) : Cleared(db, c).status[t] = "none" /\ Cleared(db, c).mark[t] = 0
                                   /\ Cleared(db, c).output[t] = 0
         /\ \A t \in Thread \ Rows(db, c) :
              /\ Cleared(db, c).status[t] = db.status[t] /\ Cleared(db, c).mark[t] = db.mark[t]
              /\ Cleared(db, c).output[t] = db.output[t]
              /\ Active(Cleared(db, c), t) = Active(db, t)
         /\ Cleared(db, c).jobs \subseteq db.jobs
<1> DEFINE rows == Rows(db, c)
           s == [t \in Thread |-> IF t \in rows THEN "none" ELSE db.status[t]]
           m == [t \in Thread |-> IF t \in rows THEN 0 ELSE db.mark[t]]
           o == [t \in Thread |-> IF t \in rows THEN 0 ELSE db.output[t]]
           js == {j \in db.jobs : j.thread \notin rows}
<1>1. Cleared(db, c) = [db EXCEPT !.status = s, !.mark = m, !.output = o, !.jobs = js]
  BY DEF Cleared
<1>2. s \in [Thread -> Status] /\ m \in [Thread -> Version] /\ o \in [Thread -> Version]
      /\ js \in SUBSET Job
  <2>1. 0 \in Version
    BY MemoryConfig DEF Version
  <2> QED BY <2>1 DEF Database, Status
<1>3. /\ Cleared(db, c) \in Database
      /\ Cleared(db, c).status = s /\ Cleared(db, c).mark = m
      /\ Cleared(db, c).output = o /\ Cleared(db, c).jobs = js
  <2> HIDE DEF s, m, o, js
  <2> QED BY <1>1, <1>2 DEF Database, Status
<1>4. rows \subseteq Thread /\ \A j \in db.jobs : j.thread \in Thread
  BY DEF Rows, Database, Job
<1>5. JobsGood(db) => JobsGood(Cleared(db, c))
  BY <1>3, <1>4 DEF JobsGood, Active
<1>6. \A t \in Thread \ rows : Active(Cleared(db, c), t) = Active(db, t)
  BY <1>3 DEF Active
<1> QED BY <1>3, <1>4, <1>5, <1>6

\* And with jobs for all of them.
LEMMA RebuiltGood ==
  ASSUME NEW db \in Database, NEW c \in Project
  PROVE  /\ Rebuilt(db, c) \in Database
         /\ JobsGood(db) => JobsGood(Rebuilt(db, c))
         /\ Rebuilt(db, c).mark = db.mark
         /\ \A t \in Rows(db, c) : Rebuilt(db, c).status[t] = "pending"
                                   /\ Rebuilt(db, c).output[t] = 0
         /\ \A t \in Thread \ Rows(db, c) :
              /\ Rebuilt(db, c).status[t] = db.status[t] /\ Rebuilt(db, c).output[t] = db.output[t]
              /\ Active(Rebuilt(db, c), t) = Active(db, t)
         /\ \A j \in Rebuilt(db, c).jobs : j \in db.jobs \/ j.thread \in Rows(db, c)
<1> DEFINE rows == Rows(db, c)
           s == [t \in Thread |-> IF t \in rows THEN "pending" ELSE db.status[t]]
           o == [t \in Thread |-> IF t \in rows THEN 0 ELSE db.output[t]]
           job(t) == [thread |-> t, state |-> "pending", n |-> 1]
           new == {job(t) : t \in rows}
           js == {j \in db.jobs : j.thread \notin rows} \union new
<1>1. Rebuilt(db, c) = [db EXCEPT !.status = s, !.output = o, !.jobs = js]
  BY DEF Rebuilt
<1>2. rows \subseteq Thread /\ db.jobs \subseteq Job /\ \A j \in db.jobs : j.thread \in Thread
  BY DEF Rows, Database, Job
<1>3. new \subseteq Job
  BY <1>2, MemoryConfig DEF Job
<1>4. s \in [Thread -> Status] /\ o \in [Thread -> Version] /\ js \in SUBSET Job
  <2>1. 0 \in Version
    BY MemoryConfig DEF Version
  <2>2. s \in [Thread -> Status] /\ o \in [Thread -> Version]
    BY <2>1 DEF Database, Status
  <2> HIDE DEF new
  <2> QED BY <1>2, <1>3, <2>2
<1>5. /\ Rebuilt(db, c) \in Database
      /\ Rebuilt(db, c).status = s /\ Rebuilt(db, c).mark = db.mark
      /\ Rebuilt(db, c).output = o /\ Rebuilt(db, c).jobs = js
  <2> HIDE DEF s, o, js
  <2> QED BY <1>1, <1>4 DEF Database, Status
<1>6. /\ \A j \in new : j.thread \in rows
      /\ \A t \in rows : \E j \in new : j.thread = t
  <2>1. \A t \in rows : job(t).thread = t
    OBVIOUS
  <2> HIDE DEF job
  <2> QED BY <2>1
<1> HIDE DEF new
<1>7. JobsGood(db) => JobsGood(Rebuilt(db, c))
  BY <1>2, <1>5, <1>6 DEF JobsGood, Active
<1>8. \A t \in Thread \ rows : Active(Rebuilt(db, c), t) = Active(db, t)
  BY <1>5, <1>6 DEF Active
<1> QED BY <1>2, <1>5, <1>6, <1>7, <1>8

\* The leases of a day run out.
LEMMA ExpiredGood ==
  ASSUME NEW db \in Database
  PROVE  /\ Expired(db) \in Database
         /\ JobsGood(db) => JobsGood(Expired(db))
         /\ Expired(db).status = db.status /\ Expired(db).mark = db.mark
         /\ Expired(db).output = db.output
         /\ \A t \in Thread : Active(Expired(db), t) = {} <=> Active(db, t) = {}
         /\ \A j \in Expired(db).jobs : \E i \in db.jobs : i.thread = j.thread
<1> DEFINE e(j) == [j EXCEPT !.state = IF j.state = "claimed" THEN "expired" ELSE j.state]
           js == {e(j) : j \in db.jobs}
<1>1. \A j \in Job : e(j) \in Job /\ e(j).thread = j.thread
  BY DEF Job
<1>2. db.jobs \subseteq Job
  BY DEF Database
<1> HIDE DEF e
<1>3. js \in SUBSET Job
  BY <1>1, <1>2
<1>4. /\ \A j \in js : \E i \in db.jobs : i.thread = j.thread
      /\ \A i \in db.jobs : \E j \in js : i.thread = j.thread
  BY <1>1, <1>2
<1>5. /\ Expired(db) \in Database
      /\ Expired(db).status = db.status /\ Expired(db).mark = db.mark
      /\ Expired(db).output = db.output /\ Expired(db).jobs = js
  <2>1. Expired(db) = [db EXCEPT !.stage2 = FALSE, !.jobs = js]
    BY DEF Expired, e
  <2> HIDE DEF js
  <2> QED BY <1>3, <2>1 DEF Database
<1> HIDE DEF js
<1>6. \A t \in Thread : Active(Expired(db), t) = {} <=> Active(db, t) = {}
  BY <1>4, <1>5 DEF Active
<1>7. JobsGood(db) => JobsGood(Expired(db))
  BY <1>4, <1>5, <1>6 DEF JobsGood
<1> QED BY <1>4, <1>5, <1>6, <1>7

\* A new database.
LEMMA EmptyGood == Empty \in Database /\ JobsGood(Empty) /\ Off \in ProcType
<1>1. Empty \in Database /\ JobsGood(Empty)
  BY MemoryConfig DEF Empty, Database, JobsGood, Active, Version
<1>2. (CHOOSE c \in Project : TRUE) \in Project
  BY MemoryConfig
<1>3. [t \in Thread |-> 0] \in [Thread -> Version]
  BY MemoryConfig DEF Version
<1> QED BY <1>1, <1>2, <1>3 DEF Off, ProcType

-----------------------------------------------------------------------------
(* No copy forgets a session. *)

CopiesGood == JobsGood(file) /\ \A p \in Process : JobsGood(proc[p].db)
TablesInv == TypeOK /\ CopiesGood

\* A process that writes a good copy.
LEMMA PersistGood ==
  ASSUME TablesInv, NEW p \in Process, NEW pr \in ProcType, JobsGood(pr.db), Persist(p, pr)
  PROVE  /\ proc' \in [Process -> ProcType] /\ file' \in Database /\ torn' \in BOOLEAN
         /\ CopiesGood' /\ proc'[p] = pr /\ file' = pr.db
         /\ \A q \in Process \ {p} : proc'[q] = proc[q]
<1>1. proc \in [Process -> ProcType]
  BY DEF TablesInv, TypeOK, ProcType, Found
<1>2. proc' = [proc EXCEPT ![p] = pr] /\ file' = pr.db /\ torn' = FALSE
  BY DEF Persist
<1>3. proc'[p] = pr /\ \A q \in Process \ {p} : proc'[q] = proc[q]
  BY <1>1, <1>2
<1>4. pr.db \in Database
  BY DEF ProcType
<1> QED BY <1>1, <1>2, <1>3, <1>4 DEF TablesInv, CopiesGood

\* A process that does not touch its copy.
LEMMA MovesGood ==
  ASSUME TablesInv, NEW p \in Process, NEW pr \in ProcType, JobsGood(pr.db),
         proc' = [proc EXCEPT ![p] = pr], UNCHANGED <<file, torn>>
  PROVE  /\ proc' \in [Process -> ProcType] /\ file' \in Database /\ torn' \in BOOLEAN
         /\ CopiesGood' /\ proc'[p] = pr /\ \A q \in Process \ {p} : proc'[q] = proc[q]
<1>1. proc \in [Process -> ProcType] /\ file \in Database /\ torn \in BOOLEAN
  BY DEF TablesInv, TypeOK, ProcType, Found
<1>2. proc'[p] = pr /\ \A q \in Process \ {p} : proc'[q] = proc[q]
  BY <1>1
<1> QED BY <1>1, <1>2 DEF TablesInv, CopiesGood

\* What a step of a start makes of the process: the record, by its fields.
OpenedBy(p, c) == [Off EXCEPT !.pc = "open", !.project = c, !.db = file]
ScannedBy(p) ==
  [proc[p] EXCEPT !.pc = "scanned",
     !.found = [t \in Thread |-> IF t \in Eligible(proc[p].project) THEN version[t] ELSE 0]]
EnteredBy(p) ==
  [proc[p] EXCEPT !.pc = "entered", !.db = Entered(proc[p].db, proc[p].found), !.found = Off.found]
TasksOf(js) == {[thread |-> j.thread, n |-> j.n, version |-> version[j.thread]] : j \in js}
ClaimedBy(p, js) ==
  [proc[p] EXCEPT !.pc = IF js = {} THEN "idle" ELSE "extracting",
                  !.db = Claimed(proc[p].db, js), !.tasks = TasksOf(js)]
CompletedBy(p, k) ==
  [proc[p] EXCEPT !.db = Completed(proc[p].db, k.thread, k.version),
                  !.tasks = proc[p].tasks \ {k}, !.processed = TRUE]
FailedBy(p, k) ==
  [proc[p] EXCEPT !.db = Failed(proc[p].db, k.thread), !.tasks = proc[p].tasks \ {k}]
ConsolidatingBy(p) ==
  [proc[p] EXCEPT !.pc = "consolidating", !.db = [proc[p].db EXCEPT !.stage2 = TRUE],
                  !.digest = Results(proc[p].db, proc[p].project)]
ConsolidatedBy(p) ==
  [proc[p] EXCEPT !.pc = "idle", !.db = [proc[p].db EXCEPT !.stage2 = FALSE], !.digest = {}]

\* The steps that only read.
LEMMA ReadingRecords ==
  ASSUME TypeOK, NEW p \in Process
  PROVE  /\ \A c \in Project : LET r == OpenedBy(p, c)
                               IN  r \in ProcType /\ r.db = file /\ r.pc = "open" /\ r.tasks = {}
                                   /\ r.found = Off.found
         /\ LET r == ScannedBy(p)
            IN  /\ r \in ProcType /\ r.db = proc[p].db /\ r.pc = "scanned"
                /\ r.tasks = proc[p].tasks
                /\ \A t \in Thread : r.found[t] \in {0, version[t]}
         /\ \A x \in {"entered", "idle"} :
              LET r == [proc[p] EXCEPT !.pc = x]
              IN  r \in ProcType /\ r.db = proc[p].db /\ r.pc = x /\ r.tasks = proc[p].tasks
                  /\ r.found = proc[p].found
         /\ LET r == [proc[p] EXCEPT !.pc = "idle", !.digest = {}]
            IN  r \in ProcType /\ r.db = proc[p].db /\ r.pc = "idle" /\ r.tasks = proc[p].tasks
                /\ r.found = proc[p].found
<1>1. proc[p] \in ProcType /\ file \in Database /\ version \in [Thread -> Version]
  BY DEF TypeOK, ProcType, Found
<1>2. [t \in Thread |-> IF t \in Eligible(proc[p].project) THEN version[t] ELSE 0] \in [Thread -> Version]
  BY <1>1, MemoryConfig DEF Version
<1>3. Off \in ProcType /\ Off.tasks = {}
  BY EmptyGood DEF Off
<1>4. ASSUME NEW c \in Project
      PROVE  LET r == OpenedBy(p, c)
             IN  r \in ProcType /\ r.db = file /\ r.pc = "open" /\ r.tasks = {}
                 /\ r.found = Off.found
  BY <1>1, <1>3 DEF OpenedBy, ProcType
<1>5. LET r == ScannedBy(p)
      IN  /\ r \in ProcType /\ r.db = proc[p].db /\ r.pc = "scanned"
          /\ r.tasks = proc[p].tasks
          /\ \A t \in Thread : r.found[t] \in {0, version[t]}
  <2> DEFINE f == [t \in Thread |-> IF t \in Eligible(proc[p].project) THEN version[t] ELSE 0]
  <2>1. f \in [Thread -> Version] /\ \A t \in Thread : f[t] \in {0, version[t]}
    BY <1>2
  <2> HIDE DEF f
  <2>2. ScannedBy(p) = [proc[p] EXCEPT !.pc = "scanned", !.found = f]
    BY DEF ScannedBy, f
  <2> QED BY <1>1, <2>1, <2>2 DEF ProcType
<1>6. ASSUME NEW x \in {"entered", "idle"}
      PROVE  LET r == [proc[p] EXCEPT !.pc = x]
             IN  r \in ProcType /\ r.db = proc[p].db /\ r.pc = x /\ r.tasks = proc[p].tasks
                 /\ r.found = proc[p].found
  BY <1>1 DEF ProcType
<1>7. LET r == [proc[p] EXCEPT !.pc = "idle", !.digest = {}]
      IN  r \in ProcType /\ r.db = proc[p].db /\ r.pc = "idle" /\ r.tasks = proc[p].tasks
          /\ r.found = proc[p].found
  BY <1>1 DEF ProcType
<1> QED BY <1>4, <1>5, <1>6, <1>7

\* The tables and the processes after a step of p, which is then at x, and the other ones.
Moved(p, x, d, ks) ==
  /\ proc' \in [Process -> ProcType] /\ file' \in Database /\ torn' \in BOOLEAN /\ CopiesGood'
  /\ proc'[p].pc = x /\ proc'[p].db = d /\ proc'[p].tasks = ks
  /\ \A q \in Process \ {p} : proc'[q] = proc[q]

\* What a process may have found.
FoundKept(p) == proc'[p].found \in {proc[p].found, Off.found}

\* A process begins with the file.
LEMMA OpenMoves ==
  ASSUME TablesInv, NEW p \in Process, NEW c \in Project, Open(p, c)
  PROVE  Moved(p, "open", file, {}) /\ FoundKept(p) /\ UNCHANGED file
<1>1. proc' = [proc EXCEPT ![p] = OpenedBy(p, c)] /\ UNCHANGED <<file, torn>>
  BY DEF Open, OpenedBy
<1>2. JobsGood(file)
  BY DEF TablesInv, CopiesGood
<1>3. LET r == OpenedBy(p, c)
      IN  r \in ProcType /\ r.db = file /\ r.pc = "open" /\ r.tasks = {} /\ r.found = Off.found
  BY ReadingRecords DEF TablesInv
<1> HIDE DEF OpenedBy
<1> QED BY <1>1, <1>2, <1>3, MovesGood DEF Moved, FoundKept

\* It looks for sessions, none of which is ahead of its file.
LEMMA ScanMoves ==
  ASSUME TablesInv, NEW p \in Process, Scan(p)
  PROVE  /\ Moved(p, "scanned", proc[p].db, proc[p].tasks) /\ UNCHANGED file
         /\ \A t \in Thread : proc'[p].found[t] \in {0, version[t]}
<1>1. proc' = [proc EXCEPT ![p] = ScannedBy(p)] /\ UNCHANGED <<file, torn>>
  BY DEF Scan, ScannedBy, TablesInv, TypeOK
<1>2. JobsGood(proc[p].db)
  BY DEF TablesInv, CopiesGood
<1> HIDE DEF ScannedBy
<1> QED BY <1>1, <1>2, ReadingRecords, MovesGood DEF Moved, TablesInv

\* It enters what it found, if anything.
LEMMA EnterMoves ==
  ASSUME TablesInv, NEW p \in Process, Enter(p)
  PROVE  \/ /\ Moved(p, "entered", proc[p].db, proc[p].tasks) /\ UNCHANGED file /\ FoundKept(p)
         \/ /\ Moved(p, "entered", Entered(proc[p].db, proc[p].found), proc[p].tasks)
            /\ file' = proc'[p].db /\ FoundKept(p)
            /\ \A t \in Thread : Numbers(proc[p].db, t) # {}
<1> DEFINE pr == proc[p]
<1>1. pr \in ProcType /\ JobsGood(pr.db) /\ \A t \in Thread : Numbers(pr.db, t) # {}
  BY DEF TablesInv, CopiesGood, TypeOK, ProcType, Found, Enter
<1>2. CASE proc' = [proc EXCEPT ![p].pc = "entered"] /\ UNCHANGED <<file, torn>>
  <2>1. proc' = [proc EXCEPT ![p] = [proc[p] EXCEPT !.pc = "entered"]]
    BY <1>2 DEF TablesInv, TypeOK
  <2>2. LET r == [proc[p] EXCEPT !.pc = "entered"]
        IN  r \in ProcType /\ r.db = proc[p].db /\ r.pc = "entered" /\ r.tasks = proc[p].tasks
            /\ r.found = proc[p].found
    BY ReadingRecords DEF TablesInv
  <2> QED BY <1>1, <1>2, <2>1, <2>2, MovesGood DEF Moved, FoundKept
<1>3. CASE Persist(p, EnteredBy(p))
  <2>1. /\ Entered(pr.db, pr.found) \in Database /\ JobsGood(Entered(pr.db, pr.found))
        /\ Off.found \in [Thread -> Version]
    BY <1>1, EnteredGood, EmptyGood DEF ProcType
  <2>2. LET r == EnteredBy(p)
        IN  r \in ProcType /\ r.db = Entered(pr.db, pr.found) /\ r.pc = "entered"
            /\ r.tasks = pr.tasks /\ r.found = Off.found
    BY <1>1, <2>1 DEF EnteredBy, ProcType
  <2> HIDE DEF EnteredBy
  <2> QED BY <1>1, <1>3, <2>1, <2>2, PersistGood DEF Moved, FoundKept
<1> QED BY <1>2, <1>3 DEF Enter, EnteredBy

\* It claims a batch, or finds none.
LEMMA ClaimMoves ==
  ASSUME TablesInv, NEW p \in Process, Claim(p)
  PROVE  \E js \in Batches(proc[p].db) :
           /\ Moved(p, IF js = {} THEN "idle" ELSE "extracting", Claimed(proc[p].db, js), TasksOf(js))
           /\ file' = proc'[p].db /\ FoundKept(p)
<1> DEFINE pr == proc[p]
<1>1. pr \in ProcType /\ JobsGood(pr.db) /\ pr.db \in Database /\ version \in [Thread -> Version]
  BY DEF TablesInv, CopiesGood, TypeOK, ProcType, Found
<1>2. PICK js \in Batches(pr.db) : Persist(p, ClaimedBy(p, js))
  BY DEF Claim, ClaimedBy, TasksOf
<1>3. Claimed(pr.db, js) \in Database /\ JobsGood(Claimed(pr.db, js)) /\ js \subseteq pr.db.jobs
  BY <1>1, ClaimedGood
<1>4. TasksOf(js) \in SUBSET Task
  <2>1. \A j \in js : j \in Job
    BY <1>1, <1>3 DEF Database
  <2> QED BY <1>1, <2>1 DEF TasksOf, Task, Job
<1>5. LET r == ClaimedBy(p, js)
      IN  r \in ProcType /\ r.db = Claimed(pr.db, js)
          /\ r.pc = (IF js = {} THEN "idle" ELSE "extracting")
          /\ r.tasks = TasksOf(js) /\ r.found = pr.found
  <2> DEFINE x == IF js = {} THEN "idle" ELSE "extracting"
  <2>1. x \in {"idle", "entered", "extracting", "consolidating"}
    OBVIOUS
  <2>2. ClaimedBy(p, js) = [pr EXCEPT !.pc = x, !.db = Claimed(pr.db, js), !.tasks = TasksOf(js)]
    BY DEF ClaimedBy
  <2> HIDE DEF x
  <2>3. ClaimedBy(p, js) \in ProcType /\ ClaimedBy(p, js).pc = x
        /\ ClaimedBy(p, js).db = Claimed(pr.db, js) /\ ClaimedBy(p, js).tasks = TasksOf(js)
        /\ ClaimedBy(p, js).found = pr.found
    BY <1>1, <1>3, <1>4, <2>1, <2>2 DEF ProcType
  <2> QED BY <2>3 DEF x
<1> HIDE DEF ClaimedBy
<1> QED BY <1>1, <1>2, <1>3, <1>5, PersistGood DEF Moved, FoundKept

\* One of its extractions ends.
LEMMA EndMoves ==
  ASSUME TablesInv, NEW p \in Process, NEW k \in proc[p].tasks, Complete(p, k) \/ Fail(p, k)
  PROVE  \E d \in {Completed(proc[p].db, k.thread, k.version), Failed(proc[p].db, k.thread)} :
           /\ Moved(p, proc[p].pc, d, proc[p].tasks \ {k})
           /\ file' = d /\ FoundKept(p)
<1> DEFINE pr == proc[p]
           dC == Completed(pr.db, k.thread, k.version)
           dF == Failed(pr.db, k.thread)
           ks == pr.tasks \ {k}
<1>1. /\ pr \in ProcType /\ JobsGood(pr.db) /\ pr.db \in Database
      /\ k.thread \in Thread /\ k.version \in Version /\ ks \in SUBSET Task
  <2>1. pr \in ProcType /\ JobsGood(pr.db)
    BY DEF TablesInv, CopiesGood, TypeOK, ProcType, Found
  <2>2. pr.db \in Database /\ pr.tasks \in SUBSET Task
    BY <2>1 DEF ProcType
  <2> QED BY <2>1, <2>2 DEF Task
<1>2. dC \in Database /\ JobsGood(dC) /\ dF \in Database /\ JobsGood(dF)
  <2>1. \A d \in {dC, dF} : d \in Database /\ (JobsGood(pr.db) => JobsGood(d))
    BY <1>1, CompletedGood
  <2> QED BY <1>1, <2>1
<1> HIDE DEF dC, dF, ks
<1>3. CASE Complete(p, k)
  <2>1. Persist(p, CompletedBy(p, k)) /\ CompletedBy(p, k) = [pr EXCEPT !.db = dC, !.tasks = ks,
                                                                      !.processed = TRUE]
    BY <1>3 DEF Complete, CompletedBy, dC, ks
  <2>2. LET r == CompletedBy(p, k)
        IN  r \in ProcType /\ r.db = dC /\ r.pc = pr.pc /\ r.tasks = ks /\ r.found = pr.found
    BY <1>1, <1>2, <2>1 DEF ProcType
  <2> HIDE DEF CompletedBy
  <2> QED BY <1>2, <2>1, <2>2, PersistGood DEF Moved, FoundKept, dC, dF, ks
<1>4. CASE Fail(p, k)
  <2>1. Persist(p, FailedBy(p, k)) /\ FailedBy(p, k) = [pr EXCEPT !.db = dF, !.tasks = ks]
    BY <1>4 DEF Fail, FailedBy, dF, ks
  <2>2. LET r == FailedBy(p, k)
        IN  r \in ProcType /\ r.db = dF /\ r.pc = pr.pc /\ r.tasks = ks /\ r.found = pr.found
    BY <1>1, <1>2, <2>1 DEF ProcType
  <2> HIDE DEF FailedBy
  <2> QED BY <1>2, <2>1, <2>2, PersistGood DEF Moved, FoundKept, dC, dF, ks
<1> QED BY <1>3, <1>4

\* Copies that differ in the claim of the consolidation at most.
SameRows(d, db) ==
  d.status = db.status /\ d.mark = db.mark /\ d.output = db.output /\ d.jobs = db.jobs

\* What results a project has.
LEMMA ResultsTyped ==
  ASSUME NEW db \in Database, NEW c
  PROVE  Results(db, c) \in SUBSET Found
BY DEF Results, Found, Database

\* The consolidation.
LEMMA ConsolidationMoves ==
  ASSUME TablesInv, NEW p \in Process, Phase2(p) \/ Consolidate(p) \/ ConsolidateFails(p)
  PROVE  \E d \in Database, x \in {"idle", "consolidating"} :
           /\ Moved(p, x, d, proc[p].tasks) /\ SameRows(d, proc[p].db) /\ FoundKept(p)
           /\ file' = d \/ (UNCHANGED file /\ d = proc[p].db)
<1> DEFINE pr == proc[p]
<1>1. pr \in ProcType /\ JobsGood(pr.db) /\ pr.db \in Database
  BY DEF TablesInv, CopiesGood, TypeOK, ProcType, Found
<1> DEFINE d1 == [pr.db EXCEPT !.stage2 = TRUE]
           d2 == [pr.db EXCEPT !.stage2 = FALSE]
<1>2. /\ d1 \in Database /\ JobsGood(d1) /\ SameRows(d1, pr.db)
      /\ d2 \in Database /\ JobsGood(d2) /\ SameRows(d2, pr.db)
  BY <1>1 DEF SameRows, Database, JobsGood, Active
<1> HIDE DEF d1, d2
<1>3. CASE Persist(p, ConsolidatingBy(p))
  <2>1. LET r == ConsolidatingBy(p)
        IN  r \in ProcType /\ r.db = d1 /\ r.pc = "consolidating" /\ r.tasks = pr.tasks
            /\ r.found = pr.found
    <3>1. ConsolidatingBy(p) = [pr EXCEPT !.pc = "consolidating", !.db = d1,
                                          !.digest = Results(pr.db, pr.project)]
      BY DEF ConsolidatingBy, d1
    <3>2. Results(pr.db, pr.project) \in SUBSET Found
      BY <1>1, ResultsTyped
    <3> QED BY <1>1, <1>2, <3>1, <3>2 DEF ProcType
  <2> HIDE DEF ConsolidatingBy
  <2> QED BY <1>2, <1>3, <2>1, PersistGood DEF Moved, FoundKept
<1>4. CASE Persist(p, ConsolidatedBy(p))
  <2>1. LET r == ConsolidatedBy(p)
        IN  r \in ProcType /\ r.db = d2 /\ r.pc = "idle" /\ r.tasks = pr.tasks
            /\ r.found = pr.found
    <3>1. ConsolidatedBy(p) = [pr EXCEPT !.pc = "idle", !.db = d2, !.digest = {}]
      BY DEF ConsolidatedBy, d2
    <3> QED BY <1>1, <1>2, <3>1 DEF ProcType
  <2> HIDE DEF ConsolidatedBy
  <2> QED BY <1>2, <1>4, <2>1, PersistGood DEF Moved, FoundKept
<1>5. CASE Persist(p, [pr EXCEPT !.pc = "idle"])
  <2>1. LET r == [pr EXCEPT !.pc = "idle"]
        IN  r \in ProcType /\ r.db = pr.db /\ r.pc = "idle" /\ r.tasks = pr.tasks
            /\ r.found = pr.found
    BY <1>1 DEF ProcType
  <2> QED BY <1>1, <1>5, <2>1, PersistGood DEF Moved, FoundKept, SameRows
<1>6. CASE proc' = [proc EXCEPT ![p].pc = "idle"] /\ UNCHANGED <<file, torn>>
  <2>1. proc' = [proc EXCEPT ![p] = [proc[p] EXCEPT !.pc = "idle"]]
    BY <1>6 DEF TablesInv, TypeOK
  <2>2. LET r == [pr EXCEPT !.pc = "idle"]
        IN  r \in ProcType /\ r.db = pr.db /\ r.pc = "idle" /\ r.tasks = pr.tasks
            /\ r.found = pr.found
    BY <1>1 DEF ProcType
  <2> QED BY <1>1, <1>6, <2>1, <2>2, MovesGood DEF Moved, FoundKept, SameRows
<1>7. CASE ConsolidateFails(p)
  <2>1. proc' = [proc EXCEPT ![p] = [proc[p] EXCEPT !.pc = "idle", !.digest = {}]]
        /\ UNCHANGED <<file, torn>>
    BY <1>7 DEF ConsolidateFails, TablesInv, TypeOK
  <2>2. LET r == [pr EXCEPT !.pc = "idle", !.digest = {}]
        IN  r \in ProcType /\ r.db = pr.db /\ r.pc = "idle" /\ r.tasks = pr.tasks
            /\ r.found = pr.found
    BY <1>1 DEF ProcType
  <2> QED BY <1>1, <2>1, <2>2, MovesGood DEF Moved, FoundKept, SameRows
<1>8. CASE Consolidate(p)
  BY <1>4, <1>8 DEF Consolidate, ConsolidatedBy
<1>9. CASE Phase2(p)
  BY <1>3, <1>5, <1>6, <1>9 DEF Phase2, ConsolidatingBy
<1> QED BY <1>7, <1>8, <1>9

\* A command.
LEMMA ResetMoves ==
  ASSUME TablesInv, NEW p \in Process, NEW d \in Database, JobsGood(proc[p].db) => JobsGood(d),
         Reset(p, d)
  PROVE  Moved(p, proc[p].pc, d, proc[p].tasks) /\ file' = d /\ FoundKept(p)
<1> DEFINE pr == proc[p]
<1>1. pr \in ProcType /\ JobsGood(d) /\ pr.db \in Database
  BY DEF TablesInv, CopiesGood, TypeOK, ProcType, Found
<1>2. LET r == [pr EXCEPT !.db = d, !.digest = {}]
      IN  r \in ProcType /\ r.db = d /\ r.pc = pr.pc /\ r.tasks = pr.tasks /\ r.found = pr.found
  BY <1>1 DEF ProcType
<1>3. Persist(p, [pr EXCEPT !.db = d, !.digest = {}])
  BY DEF Reset
<1> QED BY <1>1, <1>2, <1>3, PersistGood DEF Moved, FoundKept

\* The storage is closed, in time or early.
LEMMA CloseMoves ==
  ASSUME TablesInv, NEW p \in Process, Close(p) \/ CloseEarly(p)
  PROVE  Moved(p, "off", proc[p].db, {}) /\ file' = proc[p].db /\ FoundKept(p)
<1>1. proc[p].db \in Database /\ JobsGood(proc[p].db)
  BY DEF TablesInv, CopiesGood, TypeOK
<1>2. LET r == [Off EXCEPT !.db = proc[p].db]
      IN  r \in ProcType /\ r.db = proc[p].db /\ r.pc = "off" /\ r.tasks = {} /\ r.found = Off.found
  BY <1>1, EmptyGood DEF Off, ProcType
<1>3. Persist(p, [Off EXCEPT !.db = proc[p].db])
  BY DEF Close, CloseEarly
<1> QED BY <1>1, <1>2, <1>3, PersistGood DEF Moved, FoundKept

\* A process is killed.
LEMMA CrashMoves ==
  ASSUME TablesInv, NEW p \in Process, Crash(p)
  PROVE  Moved(p, "off", Empty, {}) /\ (file' = Empty \/ UNCHANGED file) /\ FoundKept(p)
<1>1. proc' = [proc EXCEPT ![p] = Off]
  BY DEF Crash
<1>2. /\ file' = Empty \/ UNCHANGED file
      /\ torn' \in BOOLEAN
  BY DEF Crash, TablesInv, TypeOK
<1>3. /\ Off \in ProcType /\ Off.db = Empty /\ Off.pc = "off" /\ Off.tasks = {}
      /\ Empty \in Database /\ JobsGood(Empty)
  BY EmptyGood DEF Off
<1>4. proc \in [Process -> ProcType] /\ file \in Database /\ CopiesGood
  BY DEF TablesInv, TypeOK, ProcType, Found
<1>5. proc' \in [Process -> ProcType] /\ proc'[p] = Off /\ \A q \in Process \ {p} : proc'[q] = proc[q]
  BY <1>1, <1>3, <1>4
<1> HIDE DEF Off
<1> QED BY <1>2, <1>3, <1>4, <1>5 DEF Moved, CopiesGood, FoundKept

\* A day is over.
LEMMA NewDayMoves ==
  ASSUME TablesInv, NewDay
  PROVE  /\ proc' \in [Process -> ProcType] /\ file' \in Database /\ torn' \in BOOLEAN /\ CopiesGood'
         /\ file' = Expired(file)
         /\ \A p \in Process :
              /\ proc'[p].db = Expired(proc[p].db) /\ proc'[p].pc = proc[p].pc
              /\ proc'[p].tasks = proc[p].tasks /\ proc'[p].found = proc[p].found
<1>1. proc \in [Process -> ProcType] /\ file \in Database /\ CopiesGood /\ torn \in BOOLEAN
  BY DEF TablesInv, TypeOK, ProcType, Found
<1>2. file' = Expired(file) /\ UNCHANGED torn
      /\ proc' = [p \in Process |-> [proc[p] EXCEPT !.db = Expired(proc[p].db)]]
  BY DEF NewDay
<1>3. ASSUME NEW p \in Process
      PROVE  LET r == [proc[p] EXCEPT !.db = Expired(proc[p].db)]
             IN  /\ r \in ProcType /\ r.db = Expired(proc[p].db) /\ r.pc = proc[p].pc
                 /\ r.tasks = proc[p].tasks /\ r.found = proc[p].found /\ JobsGood(r.db)
  <2>1. proc[p] \in ProcType /\ proc[p].db \in Database
    BY <1>1 DEF ProcType
  <2>2. Expired(proc[p].db) \in Database /\ JobsGood(Expired(proc[p].db))
    BY <1>1, <2>1, ExpiredGood DEF CopiesGood
  <2> QED BY <2>1, <2>2 DEF ProcType
<1>4. Expired(file) \in Database /\ JobsGood(Expired(file))
  BY <1>1, ExpiredGood DEF CopiesGood
<1> QED BY <1>1, <1>2, <1>3, <1>4 DEF CopiesGood

\* The tables after any step.
LEMMA TablesMove ==
  ASSUME TablesInv, Next
  PROVE  /\ proc' \in [Process -> ProcType] /\ file' \in Database /\ torn' \in BOOLEAN /\ CopiesGood'
<1>1. ASSUME NEW p \in Process, Startup(p)
      PROVE  \E x, d, ks : Moved(p, x, d, ks)
  <2>1. CASE Scan(p)
    BY <2>1, ScanMoves
  <2>2. CASE Enter(p)
    BY <2>2, EnterMoves
  <2>3. CASE Claim(p)
    BY <2>3, ClaimMoves
  <2>4. ASSUME NEW k \in proc[p].tasks, Complete(p, k) \/ Fail(p, k)
        PROVE  \E x, d, ks : Moved(p, x, d, ks)
    BY <2>4, EndMoves
  <2>5. CASE Phase2(p) \/ Consolidate(p) \/ ConsolidateFails(p)
    BY <2>5, ConsolidationMoves
  <2> QED BY <1>1, <2>1, <2>2, <2>3, <2>4, <2>5 DEF Startup
<1>2. ASSUME NEW p \in Process, Step(p)
      PROVE  \E x, d, ks : Moved(p, x, d, ks)
  <2>1. proc[p].db \in Database /\ proc[p].project \in Project
    BY DEF TablesInv, TypeOK
  <2>2. CASE Clear(p)
    BY <2>1, <2>2, ClearedGood, ResetMoves DEF Clear
  <2>3. CASE Rebuild(p)
    BY <2>1, <2>3, RebuiltGood, ResetMoves DEF Rebuild
  <2>4. ASSUME NEW c \in Project, Open(p, c)
        PROVE  \E x, d, ks : Moved(p, x, d, ks)
    BY <2>4, OpenMoves
  <2>5. CASE Close(p) \/ CloseEarly(p)
    BY <2>5, CloseMoves
  <2>6. CASE Crash(p)
    BY <2>6, CrashMoves
  <2> QED BY <1>1, <1>2, <2>2, <2>3, <2>4, <2>5, <2>6 DEF Step
<1>3. CASE NewDay
  BY <1>3, NewDayMoves
<1>4. CASE (\E t \in Thread : SessionChanges(t) \/ Ages(t)) \/ \E g \in ghosts : GhostWrites(g)
  <2>1. UNCHANGED <<proc, file, torn>>
    BY <1>4 DEF SessionChanges, Ages, GhostWrites
  <2>2. proc \in [Process -> ProcType] /\ file \in Database /\ torn \in BOOLEAN /\ CopiesGood
    BY DEF TablesInv, TypeOK, ProcType, Found
  <2> QED BY <2>1, <2>2 DEF CopiesGood
<1> QED BY <1>2, <1>3, <1>4 DEF Next, Moved

\* What a process has extracted, and the bounds.
LEMMA RestTyped ==
  ASSUME TablesInv, Next
  PROVE  /\ version' \in [Thread -> Version] /\ aged' \subseteq Thread
         /\ memory' \in [Project -> SUBSET Found] /\ ghosts' \subseteq Digest
         /\ resets' \in 0..MaxResets /\ crashes' \in 0..MaxCrashes
<1>1. /\ version \in [Thread -> Version] /\ memory \in [Project -> SUBSET Found]
      /\ aged \subseteq Thread
      /\ ghosts \subseteq Digest /\ resets \in 0..MaxResets /\ crashes \in 0..MaxCrashes
      /\ \A p \in Process : proc[p].digest \in SUBSET Found /\ proc[p].project \in Project
  BY DEF TablesInv, TypeOK, Found
<1>2. ASSUME NEW t \in Thread, SessionChanges(t) \/ Ages(t)
      PROVE  version' \in [Thread -> Version] /\ aged' \subseteq Thread
  BY <1>1, <1>2, MemoryConfig DEF SessionChanges, Ages, Version
<1>3. ASSUME NEW p \in Process, Step(p)
      PROVE  /\ UNCHANGED <<version, aged>>
             /\ memory' \in [Project -> SUBSET Found] /\ ghosts' \subseteq Digest
             /\ resets' \in 0..MaxResets /\ crashes' \in 0..MaxCrashes
  <2>1. CASE Consolidate(p)
    BY <1>1, <2>1 DEF Consolidate
  <2>2. CASE Clear(p) \/ Rebuild(p)
    BY <1>1, <2>2, MemoryConfig DEF Clear, Rebuild, Reset
  <2>3. CASE CloseEarly(p)
    <3>1. crashes' \in 0..MaxCrashes
      BY <1>1, <2>3, MemoryConfig DEF CloseEarly
    <3>2. \A d \in {proc[p].digest} \ {{}} : [project |-> proc[p].project, results |-> d] \in Digest
      BY <1>1 DEF Digest, Found
    <3>3. ghosts' \subseteq Digest
      BY <1>1, <2>3, <3>2 DEF CloseEarly
    <3> QED BY <1>1, <2>3, <3>1, <3>3 DEF CloseEarly
  <2>4. CASE Crash(p)
    <3>1. crashes' \in 0..MaxCrashes
      BY <1>1, <2>4, MemoryConfig DEF Crash
    <3>2. memory' \in [Project -> SUBSET Found]
      BY <1>1, <2>4 DEF Crash
    <3> QED BY <1>1, <2>4, <3>1, <3>2 DEF Crash
  <2>5. CASE UNCHANGED <<version, aged, memory, ghosts, resets, crashes>>
    BY <1>1, <2>5
  <2> QED BY <1>3, <2>1, <2>2, <2>3, <2>4, <2>5
          DEF Step, Startup, Open, Scan, Enter, Claim, Complete, Fail, Phase2, ConsolidateFails, Close
<1>4. ASSUME NEW g \in ghosts, GhostWrites(g)
      PROVE  /\ UNCHANGED <<version, aged, resets, crashes>>
             /\ memory' \in [Project -> SUBSET Found] /\ ghosts' \subseteq Digest
  <2>1. g.project \in Project /\ g.results \in SUBSET Found
    BY <1>1 DEF Digest, Found
  <2> QED BY <1>1, <1>4, <2>1 DEF GhostWrites
<1>5. CASE NewDay
  BY <1>1, <1>5 DEF NewDay
<1>6. ASSUME NEW t \in Thread, SessionChanges(t) \/ Ages(t)
      PROVE  UNCHANGED <<memory, ghosts, resets, crashes>>
  BY <1>6 DEF SessionChanges, Ages
<1> QED BY <1>1, <1>2, <1>3, <1>4, <1>5, <1>6 DEF Next

\* The tables at the start.
LEMMA InitTables == Init => TablesInv
<1> SUFFICES ASSUME Init
             PROVE  TablesInv
  OBVIOUS
<1>1. Off \in ProcType /\ Off.db = Empty /\ Empty \in Database /\ JobsGood(Empty)
  BY EmptyGood DEF Off
<1>2. 0 \in Version
  BY MemoryConfig DEF Version
<1>3. proc \in [Process -> ProcType] /\ \A p \in Process : proc[p].db = Empty
  BY <1>1 DEF Init
<1>4. version \in [Thread -> Version] /\ 0 \in 0..MaxResets /\ 0 \in 0..MaxCrashes
  BY <1>2, MemoryConfig DEF Init
<1> QED BY <1>1, <1>3, <1>4 DEF Init, TablesInv, TypeOK, CopiesGood, ProcType, Found

\* The tables of every reachable state.
LEMMA TablesInvariant == Spec => []TablesInv
<1>1. Init => TablesInv
  BY InitTables
<1>2. TablesInv /\ [Next]_vars => TablesInv'
  <2>1. CASE UNCHANGED vars
    BY <2>1 DEF vars, TablesInv, TypeOK, CopiesGood, JobsGood, Active
  <2>2. CASE TablesInv /\ Next
    <3>1. /\ proc' \in [Process -> ProcType] /\ file' \in Database /\ torn' \in BOOLEAN
          /\ CopiesGood'
      BY <2>2, TablesMove
    <3>2. /\ version' \in [Thread -> Version] /\ aged' \subseteq Thread
          /\ memory' \in [Project -> SUBSET Found]
          /\ ghosts' \subseteq Digest /\ resets' \in 0..MaxResets /\ crashes' \in 0..MaxCrashes
      BY <2>2, RestTyped
    <3> QED BY <3>1, <3>2 DEF TablesInv, TypeOK, ProcType, Found
  <2> QED BY <2>1, <2>2
<1> QED BY <1>1, <1>2, PTL DEF Spec

\* Every variable has its type, for any number of processes side by side.
THEOREM MemoryTypes == Spec => []TypeOK
<1>1. TablesInv => TypeOK
  BY DEF TablesInv
<1> QED BY <1>1, TablesInvariant, PTL

\* No copy of the database counts a session as pending that has no job to be claimed, or has
\* a job of a session that is not entered, whatever processes run side by side, are killed,
\* clear or rebuild the memory.
THEOREM PendingSessionsHaveJobs == Spec => []PendingHasJob
<1>1. TablesInv => PendingHasJob
  BY DEF TablesInv, CopiesGood, JobsGood, PendingHasJob, Copies
<1> QED BY <1>1, TablesInvariant, PTL

-----------------------------------------------------------------------------
(* One process after another keeps the promise. *)

OffIdle == \A p \in Process : proc[p].pc = "off" => proc[p].tasks = {}
OneRuns ==
  \A p \in Process : proc[p].pc # "off" =>
    proc[p].db = file /\ \A q \in Process \ {p} : proc[q].pc = "off"
TasksExtract == \A p \in Process : proc[p].tasks # {} => proc[p].pc = "extracting"
NothingAhead ==
  /\ \A t \in Thread : /\ file.mark[t] <= version[t] /\ file.output[t] <= version[t]
                       /\ file.status[t] # "none" => version[t] > 0
                       /\ \A p \in Process : proc[p].found[t] <= version[t]
  /\ \A j \in file.jobs : version[j.thread] > 0
TasksCurrent ==
  \A p \in Process : \A k \in proc[p].tasks :
    /\ k.version > 0 /\ k.version <= version[k.thread]
    /\ file.mark[k.thread] <= k.version /\ file.output[k.thread] <= k.version
    /\ \A l \in proc[p].tasks : l.thread = k.thread => l.version = k.version

OneInv == TablesInv /\ OffIdle /\ OneRuns /\ TasksExtract /\ NothingAhead /\ TasksCurrent

\* What the types say of versions.
LEMMA Numeric ==
  ASSUME TypeOK
  PROVE  /\ \A t \in Thread : /\ file.mark[t] \in Nat /\ file.output[t] \in Nat
                              /\ version[t] \in Nat
                              /\ \A p \in Process : proc[p].found[t] \in Nat
         /\ \A p \in Process : \A k \in proc[p].tasks :
              k.thread \in Thread /\ k.version \in Version /\ k.version \in Nat
         /\ file \in Database /\ \A p \in Process : proc[p] \in ProcType
         /\ \A j \in file.jobs : j.thread \in Thread
         /\ \A p \in Process : proc[p].db \in Database
<1>1. file \in Database /\ (\A p \in Process : proc[p] \in ProcType) /\ version \in [Thread -> Version]
  BY DEF TypeOK, ProcType, Found
<1>2. Version \subseteq Nat
  BY MemoryConfig DEF Version
<1>3. \A p \in Process : \A k \in proc[p].tasks : k.thread \in Thread /\ k.version \in Version
  BY <1>1 DEF ProcType, Task
<1>4. \A p \in Process : proc[p].db \in Database /\ proc[p].found \in [Thread -> Version]
  BY <1>1 DEF ProcType
<1>5. /\ file.mark \in [Thread -> Version] /\ file.output \in [Thread -> Version]
      /\ \A j \in file.jobs : j.thread \in Thread
  BY <1>1 DEF Database, Job
<1>6. \A t \in Thread : /\ file.mark[t] \in Nat /\ file.output[t] \in Nat
                         /\ version[t] \in Nat
                         /\ \A p \in Process : proc[p].found[t] \in Nat
  BY <1>1, <1>2, <1>4, <1>5
<1> QED BY <1>1, <1>2, <1>3, <1>4, <1>5, <1>6

\* A process moves while the other ones are off.
LEMMA OthersOff ==
  ASSUME OneInv, NEW p \in Process, proc[p].pc # "off", NEW x, NEW d, NEW ks, Moved(p, x, d, ks),
         file' = d, x = "off" => ks = {}, ks # {} => x = "extracting"
  PROVE  OffIdle' /\ OneRuns' /\ TasksExtract'
<1>1. \A q \in Process \ {p} : proc'[q].pc = "off" /\ proc'[q].tasks = {}
  BY DEF OneInv, OneRuns, OffIdle, Moved
<1>2. proc'[p].pc = x /\ proc'[p].db = d /\ proc'[p].tasks = ks
  BY DEF Moved
<1> QED BY <1>1, <1>2 DEF OffIdle, OneRuns, TasksExtract

\* A step that neither enters, claims nor stores anything.
LEMMA StaysCurrent ==
  ASSUME OneInv, TypeOK', UNCHANGED version,
         \A q \in Process : /\ proc'[q].tasks \subseteq proc[q].tasks
                            /\ proc'[q].found \in {proc[q].found, Off.found},
         \A t \in Thread : /\ file'.mark[t] <= file.mark[t] /\ file'.output[t] <= file.output[t]
                           /\ file'.status[t] # "none" => file.status[t] # "none",
         \A j \in file'.jobs : version[j.thread] > 0
  PROVE  NothingAhead' /\ TasksCurrent'
<1>1. /\ TypeOK
      /\ \A t \in Thread : /\ Off.found[t] = 0 /\ version[t] \in Nat
                           /\ file.mark[t] \in Nat /\ file.output[t] \in Nat
                           /\ file'.mark[t] \in Nat /\ file'.output[t] \in Nat
  <2>1. TypeOK
    BY DEF OneInv, TablesInv
  <2>2. \A t \in Thread : version[t] \in Nat /\ file.mark[t] \in Nat /\ file.output[t] \in Nat
    BY <2>1, Numeric
  <2>3. \A t \in Thread : file'.mark[t] \in Nat /\ file'.output[t] \in Nat
    <3>1. file' \in Database
      BY DEF TypeOK
    <3> QED BY <3>1, MemoryConfig DEF Database, Version
  <2> QED BY <2>1, <2>2, <2>3 DEF Off
<1>2. NothingAhead'
  <2>1. \A t \in Thread : \A q \in Process : proc'[q].found[t] <= version[t]
    BY <1>1 DEF OneInv, NothingAhead
  <2>2. \A t \in Thread : file'.mark[t] <= version[t] /\ file'.output[t] <= version[t]
    BY <1>1 DEF OneInv, NothingAhead
  <2>3. \A t \in Thread : file'.status[t] # "none" => version[t] > 0
    BY DEF OneInv, NothingAhead
  <2> QED BY <2>1, <2>2, <2>3 DEF NothingAhead
<1>3. TasksCurrent'
  <2>1. SUFFICES ASSUME NEW p \in Process, NEW k \in proc'[p].tasks
                 PROVE  /\ k.version > 0 /\ k.version <= version[k.thread]
                        /\ file'.mark[k.thread] <= k.version /\ file'.output[k.thread] <= k.version
                        /\ \A l \in proc'[p].tasks : l.thread = k.thread => l.version = k.version
    BY DEF TasksCurrent
  <2>2. k \in proc[p].tasks /\ proc'[p].tasks \subseteq proc[p].tasks
    OBVIOUS
  <2>3. k.thread \in Thread /\ k.version \in Nat
    BY <1>1, <2>2, Numeric
  <2> QED BY <1>1, <2>2, <2>3 DEF OneInv, TasksCurrent
<1> QED BY <1>2, <1>3

\* The tables stay typed and good.
LEMMA TablesStep == TablesInv /\ Next => TablesInv'
BY TablesMove, RestTyped DEF TablesInv, TypeOK, ProcType, Found

\* The result of a task is that of the version it was given.
LEMMA EndCurrent ==
  ASSUME OneInv, NEW p \in Process, NEW k \in proc[p].tasks, Complete(p, k) \/ Fail(p, k)
  PROVE  OneInv'
<1>1. TablesInv /\ TablesInv'
  <2>1. TablesInv
    BY DEF OneInv
  <2>2. Next
    BY DEF Next, Step, Startup
  <2> QED BY <2>1, <2>2, TablesStep
<1>2. PICK d \in {Completed(proc[p].db, k.thread, k.version), Failed(proc[p].db, k.thread)} :
        Moved(p, proc[p].pc, d, proc[p].tasks \ {k}) /\ file' = d /\ FoundKept(p)
  BY <1>1, EndMoves
<1>3. proc[p].pc = "extracting" /\ proc[p].db = file /\ UNCHANGED version
  BY DEF OneInv, TasksExtract, OneRuns, Complete, Fail
<1>4. k.thread \in Thread /\ k.version \in Version
  BY <1>1, Numeric DEF TablesInv
<1>5. /\ file'.mark = file.mark /\ file'.jobs \subseteq file.jobs
      /\ \A u \in Thread \ {k.thread} : file'.status[u] = file.status[u]
                                        /\ file'.output[u] = file.output[u]
      /\ file'.status[k.thread] = "none" <=> file.status[k.thread] = "none"
      /\ file'.output[k.thread] \in {file.output[k.thread], k.version}
  <2>1. file \in Database
    BY <1>1 DEF TablesInv, TypeOK
  <2>2. file' \in {Completed(file, k.thread, k.version), Failed(file, k.thread)}
    BY <1>2, <1>3
  <2> QED BY <1>4, <2>1, <2>2, CompletedGood
<1>6. OffIdle' /\ OneRuns' /\ TasksExtract'
  BY <1>2, <1>3, OthersOff
<1>7. /\ proc'[p].tasks = proc[p].tasks \ {k} /\ \A q \in Process \ {p} : proc'[q] = proc[q]
      /\ proc'[p].found \in {proc[p].found, Off.found}
  BY <1>2 DEF Moved, FoundKept
<1>8. \A t \in Thread : Off.found[t] = 0 /\ version[t] \in Nat
  BY <1>1, Numeric DEF Off, TablesInv
<1>9. NothingAhead'
  <2>1. \A t \in Thread : \A q \in Process : proc'[q].found[t] <= version[t]
    BY <1>7, <1>8 DEF OneInv, NothingAhead
  <2>2. k.version <= version[k.thread]
    BY DEF OneInv, TasksCurrent
  <2> QED BY <1>3, <1>4, <1>5, <2>1, <2>2 DEF OneInv, NothingAhead
<1>10. TasksCurrent'
  <2>1. \A q \in Process \ {p} : proc'[q].tasks = {}
    BY <1>3, <1>7 DEF OneInv, OneRuns, OffIdle
  <2>2. ASSUME NEW l \in proc[p].tasks
        PROVE  /\ l.version > 0 /\ l.version <= version[l.thread]
               /\ file'.mark[l.thread] <= l.version /\ file'.output[l.thread] <= l.version
    <3>1. l.thread \in Thread /\ l.version \in Nat
      BY <1>1, Numeric DEF TablesInv
    <3>2. /\ l.version > 0 /\ l.version <= version[l.thread]
          /\ file.mark[l.thread] <= l.version /\ file.output[l.thread] <= l.version
          /\ l.thread = k.thread => l.version = k.version
      BY DEF OneInv, TasksCurrent
    <3> QED BY <1>5, <3>1, <3>2
  <2> QED BY <1>3, <1>7, <2>1, <2>2 DEF OneInv, TasksCurrent
<1> QED BY <1>1, <1>6, <1>9, <1>10 DEF OneInv

\* Sessions are entered with the versions that were found.
LEMMA EnterCurrent ==
  ASSUME OneInv, TablesInv', NEW p \in Process, Enter(p)
  PROVE  OneInv'
<1>1. /\ TypeOK /\ TablesInv /\ proc[p].pc = "scanned" /\ proc[p].db = file /\ UNCHANGED version
      /\ proc[p].tasks = {}
  BY DEF Enter, OneInv, OneRuns, TablesInv, TasksExtract
<1>2. CASE /\ Moved(p, "entered", proc[p].db, proc[p].tasks) /\ UNCHANGED file /\ FoundKept(p)
  <2>1. OffIdle' /\ OneRuns' /\ TasksExtract'
    BY <1>1, <1>2, OthersOff
  <2>2. NothingAhead' /\ TasksCurrent'
    <3>1. \A q \in Process : /\ proc'[q].tasks \subseteq proc[q].tasks
                             /\ proc'[q].found \in {proc[q].found, Off.found}
      BY <1>2 DEF Moved, FoundKept
    <3>2. \A t \in Thread : file.mark[t] <= file.mark[t] /\ file.output[t] <= file.output[t]
      BY <1>1, Numeric
    <3> QED BY <1>1, <1>2, <3>1, <3>2, StaysCurrent DEF OneInv, NothingAhead, TablesInv
  <2> QED BY <2>1, <2>2 DEF OneInv
<1>3. CASE /\ Moved(p, "entered", Entered(proc[p].db, proc[p].found), proc[p].tasks)
           /\ file' = proc'[p].db /\ FoundKept(p)
           /\ \A t \in Thread : Numbers(proc[p].db, t) # {}
  <2> DEFINE found == proc[p].found
  <2>1. file' = Entered(file, found) /\ found \in [Thread -> Version] /\ file \in Database
    BY <1>1, <1>3 DEF Moved, TypeOK
  <2>2. /\ file'.output = file.output
        /\ \A t \in Thread :
             \/ file'.status[t] = file.status[t] /\ file'.mark[t] = file.mark[t]
             \/ found[t] > 0 /\ file'.mark[t] = found[t]
        /\ \A j \in file'.jobs : j \in file.jobs \/ found[j.thread] > 0
    BY <1>1, <1>3, <2>1, EnteredGood
  <2>3. OffIdle' /\ OneRuns' /\ TasksExtract'
    BY <1>1, <1>3, OthersOff DEF Moved
  <2>4. \A q \in Process : proc'[q].tasks = {}
    BY <1>1, <1>3 DEF Moved, OneInv, OneRuns, OffIdle
  <2>5. \A t \in Thread : \A q \in Process : proc'[q].found[t] <= version[t]
    <3>1. \A t \in Thread : Off.found[t] = 0 /\ version[t] \in Nat
      BY <1>1, Numeric DEF Off
    <3> QED BY <1>3, <3>1 DEF Moved, FoundKept, OneInv, NothingAhead
  <2>6. NothingAhead'
    <3>1. \A t \in Thread : found[t] <= version[t] /\ found[t] \in Nat /\ version[t] \in Nat
      BY <1>1, Numeric DEF OneInv, NothingAhead
    <3>2. \A j \in file'.jobs : j.thread \in Thread
      BY DEF TablesInv, TypeOK, Database, Job
    <3>3. \A j \in file'.jobs : version[j.thread] > 0
      <4> SUFFICES ASSUME NEW j \in file'.jobs
                   PROVE  version[j.thread] > 0
        OBVIOUS
      <4>1. CASE j \in file.jobs
        BY <4>1 DEF OneInv, NothingAhead
      <4>2. CASE found[j.thread] > 0
        BY <3>1, <3>2, <4>2
      <4> QED BY <2>2, <4>1, <4>2
    <3>4. \A t \in Thread : file'.mark[t] <= version[t] /\ (file'.status[t] # "none" => version[t] > 0)
      <4> SUFFICES ASSUME NEW t \in Thread
                   PROVE  file'.mark[t] <= version[t] /\ (file'.status[t] # "none" => version[t] > 0)
        OBVIOUS
      <4>1. CASE file'.status[t] = file.status[t] /\ file'.mark[t] = file.mark[t]
        BY <4>1 DEF OneInv, NothingAhead
      <4>2. CASE found[t] > 0 /\ file'.mark[t] = found[t]
        BY <3>1, <4>2
      <4> QED BY <2>2, <4>1, <4>2
    <3>5. \A t \in Thread : file'.output[t] <= version[t]
      BY <2>2 DEF OneInv, NothingAhead
    <3> QED BY <1>1, <2>5, <3>3, <3>4, <3>5 DEF NothingAhead
  <2>7. TasksCurrent'
    BY <2>4 DEF TasksCurrent
  <2> QED BY <2>3, <2>6, <2>7 DEF OneInv
<1> QED BY <1>1, <1>2, <1>3, EnterMoves

\* A task is given the version its session has.
LEMMA ClaimCurrent ==
  ASSUME OneInv, TablesInv', NEW p \in Process, Claim(p)
  PROVE  OneInv'
<1>1. /\ TypeOK /\ TablesInv /\ proc[p].pc = "entered" /\ proc[p].db = file /\ UNCHANGED version
      /\ proc[p].tasks = {} /\ file \in Database
  BY DEF Claim, OneInv, OneRuns, TablesInv, TasksExtract, TypeOK
<1>2. PICK js \in Batches(file) :
        /\ Moved(p, IF js = {} THEN "idle" ELSE "extracting", Claimed(file, js), TasksOf(js))
        /\ file' = proc'[p].db /\ FoundKept(p)
  BY <1>1, ClaimMoves
<1>3. /\ file' = Claimed(file, js)
      /\ file'.status = file.status /\ file'.mark = file.mark /\ file'.output = file.output
      /\ \A j \in file'.jobs : \E i \in file.jobs : i.thread = j.thread
      /\ js \subseteq file.jobs
  BY <1>1, <1>2, ClaimedGood DEF Moved
<1>4. OffIdle' /\ OneRuns' /\ TasksExtract'
  <2>1. js = {} => TasksOf(js) = {}
    BY DEF TasksOf
  <2> DEFINE x == IF js = {} THEN "idle" ELSE "extracting"
  <2>2. x # "off" /\ (TasksOf(js) # {} => x = "extracting")
    BY <2>1
  <2>3. Moved(p, x, Claimed(file, js), TasksOf(js)) /\ file' = Claimed(file, js)
    BY <1>2, <1>3
  <2> HIDE DEF x
  <2> QED BY <1>1, <2>2, <2>3, OthersOff
<1>5. \A t \in Thread : \A q \in Process : proc'[q].found[t] <= version[t]
  <2>1. \A t \in Thread : Off.found[t] = 0 /\ version[t] \in Nat
    BY <1>1, Numeric DEF Off
  <2> QED BY <1>2, <2>1 DEF Moved, FoundKept, OneInv, NothingAhead
<1>6. NothingAhead'
  BY <1>1, <1>3, <1>5 DEF OneInv, NothingAhead
<1>7. TasksCurrent'
  <2>1. \A q \in Process \ {p} : proc'[q].tasks = {}
    BY <1>1, <1>2 DEF Moved, OneInv, OneRuns, OffIdle
  <2>2. \A k \in TasksOf(js) : \E j \in file.jobs : k.thread = j.thread /\ k.version = version[j.thread]
    BY <1>3 DEF TasksOf
  <2>3. \A k \in TasksOf(js) : k.thread \in Thread /\ k.version = version[k.thread] /\ k.version > 0
    BY <1>1, <2>2, Numeric DEF OneInv, NothingAhead
  <2>4. \A t \in Thread : version[t] <= version[t] /\ file.mark[t] <= version[t]
                          /\ file.output[t] <= version[t]
    BY <1>1, Numeric DEF OneInv, NothingAhead
  <2>5. proc'[p].tasks = TasksOf(js)
    BY <1>2 DEF Moved
  <2> QED BY <1>1, <1>3, <2>1, <2>3, <2>4, <2>5 DEF TasksCurrent
<1> QED BY <1>4, <1>6, <1>7 DEF OneInv

\* The rows of a database that is the old one but for jobs, results and marks that are gone.
RowsLeft(d) ==
  /\ \A t \in Thread : /\ d.mark[t] <= file.mark[t] /\ d.output[t] <= file.output[t]
                       /\ d.status[t] # "none" => file.status[t] # "none"
  /\ \A j \in d.jobs : version[j.thread] > 0

\* The copies after a command, a crash or a day.
LEMMA RowsAreLeft ==
  ASSUME OneInv
  PROVE  /\ RowsLeft(file) /\ RowsLeft(Empty) /\ RowsLeft(Expired(file))
         /\ \A c \in Project : RowsLeft(Cleared(file, c)) /\ RowsLeft(Rebuilt(file, c))
         /\ \A d : SameRows(d, file) => RowsLeft(d)
<1>1. /\ TypeOK /\ file \in Database
      /\ \A t \in Thread : /\ file.mark[t] \in Nat /\ file.output[t] \in Nat
                           /\ file.status[t] # "none" => version[t] > 0
      /\ \A j \in file.jobs : version[j.thread] > 0 /\ j.thread \in Thread
  BY Numeric DEF OneInv, NothingAhead, TablesInv
<1>2. RowsLeft(file) /\ \A d : SameRows(d, file) => RowsLeft(d)
  BY <1>1 DEF RowsLeft, SameRows
<1>3. RowsLeft(Empty)
  BY <1>1 DEF RowsLeft, Empty
<1>4. RowsLeft(Expired(file))
  BY <1>1, ExpiredGood DEF RowsLeft
<1>5. ASSUME NEW c \in Project
      PROVE  RowsLeft(Cleared(file, c))
  <2>1. /\ \A t \in Thread : \/ Cleared(file, c).status[t] = "none" /\ Cleared(file, c).mark[t] = 0
                                /\ Cleared(file, c).output[t] = 0
                             \/ /\ Cleared(file, c).status[t] = file.status[t]
                                /\ Cleared(file, c).mark[t] = file.mark[t]
                                /\ Cleared(file, c).output[t] = file.output[t]
        /\ Cleared(file, c).jobs \subseteq file.jobs
    BY <1>1, ClearedGood
  <2> QED BY <1>1, <2>1 DEF RowsLeft
<1>6. ASSUME NEW c \in Project
      PROVE  RowsLeft(Rebuilt(file, c))
  <2>1. /\ Rebuilt(file, c).mark = file.mark
        /\ \A t \in Rows(file, c) : Rebuilt(file, c).output[t] = 0
        /\ \A t \in Thread \ Rows(file, c) :
             /\ Rebuilt(file, c).status[t] = file.status[t]
             /\ Rebuilt(file, c).output[t] = file.output[t]
        /\ \A j \in Rebuilt(file, c).jobs : j \in file.jobs \/ j.thread \in Rows(file, c)
    BY <1>1, RebuiltGood
  <2>2. \A t \in Rows(file, c) : t \in Thread /\ file.status[t] # "none"
    BY DEF Rows
  <2> QED BY <1>1, <2>1, <2>2 DEF RowsLeft
<1> QED BY <1>2, <1>3, <1>4, <1>5, <1>6

\* The other steps of a process, and how they leave it.
LEMMA OtherMoves ==
  ASSUME OneInv, NEW p \in Process, proc[p].pc # "off",
         \/ Scan(p) \/ Phase2(p) \/ Consolidate(p) \/ ConsolidateFails(p)
         \/ Clear(p) \/ Rebuild(p) \/ Close(p) \/ CloseEarly(p)
  PROVE  /\ UNCHANGED version
         /\ \E x, d, ks : /\ Moved(p, x, d, ks) /\ file' = d /\ ks \subseteq proc[p].tasks
                          /\ (x = "off" => ks = {}) /\ (ks # {} => x = "extracting")
                          /\ RowsLeft(d)
<1>1. TablesInv /\ proc[p].db = file /\ file \in Database /\ proc[p].project \in Project
  BY DEF OneInv, OneRuns, TablesInv, TypeOK
<1>2. UNCHANGED version
  BY DEF Scan, Phase2, Consolidate, ConsolidateFails, Clear, Rebuild, Reset, Close, CloseEarly
<1>3. proc[p].tasks # {} => proc[p].pc = "extracting"
  BY DEF OneInv, TasksExtract
<1>4. CASE Scan(p)
  <2>1. Moved(p, "scanned", file, proc[p].tasks) /\ file' = file
    BY <1>1, <1>4, ScanMoves
  <2>2. proc[p].tasks = {}
    BY <1>3, <1>4 DEF Scan
  <2> QED BY <1>2, <2>1, <2>2, RowsAreLeft
<1>5. CASE Phase2(p) \/ Consolidate(p) \/ ConsolidateFails(p)
  <2>1. proc[p].tasks = {}
    BY <1>3, <1>5 DEF Phase2, Consolidate, ConsolidateFails
  <2>2. PICK d \in Database, x \in {"idle", "consolidating"} :
          /\ Moved(p, x, d, proc[p].tasks) /\ SameRows(d, file)
          /\ file' = d \/ (UNCHANGED file /\ d = file)
    BY <1>1, <1>5, ConsolidationMoves
  <2>3. file' = d /\ RowsLeft(d) /\ x # "off"
    BY <2>2, RowsAreLeft
  <2> QED BY <1>2, <2>1, <2>2, <2>3
<1>6. ASSUME NEW d \in Database, Reset(p, d), JobsGood(file) => JobsGood(d), RowsLeft(d)
      PROVE  \E x, ks : /\ Moved(p, x, d, ks) /\ file' = d /\ ks \subseteq proc[p].tasks
                        /\ (x = "off" => ks = {}) /\ (ks # {} => x = "extracting")
  BY <1>1, <1>3, <1>6, ResetMoves
<1>7. CASE Clear(p)
  BY <1>1, <1>2, <1>6, <1>7, ClearedGood, RowsAreLeft DEF Clear
<1>8. CASE Rebuild(p)
  BY <1>1, <1>2, <1>6, <1>8, RebuiltGood, RowsAreLeft DEF Rebuild
<1>9. CASE Close(p) \/ CloseEarly(p)
  <2>1. Moved(p, "off", file, {}) /\ file' = file
    BY <1>1, <1>9, CloseMoves
  <2> QED BY <1>2, <2>1, RowsAreLeft
<1> QED BY <1>4, <1>5, <1>7, <1>8, <1>9

\* What they found.
LEMMA OtherFound ==
  ASSUME OneInv, NEW p \in Process,
         \/ Phase2(p) \/ Consolidate(p) \/ ConsolidateFails(p)
         \/ Clear(p) \/ Rebuild(p) \/ Close(p) \/ CloseEarly(p)
  PROVE  FoundKept(p)
<1>1. TablesInv /\ proc[p].db \in Database /\ proc[p].project \in Project
  BY DEF OneInv, TablesInv, TypeOK
<1>2. CASE Clear(p)
  BY <1>1, <1>2, ClearedGood, ResetMoves DEF Clear
<1>3. CASE Rebuild(p)
  BY <1>1, <1>3, RebuiltGood, ResetMoves DEF Rebuild
<1> QED BY <1>1, <1>2, <1>3, ConsolidationMoves, CloseMoves

\* The other steps keep the invariant, too.
LEMMA OtherCurrent ==
  ASSUME OneInv, TablesInv', NEW p \in Process, proc[p].pc # "off",
         \/ Scan(p) \/ Phase2(p) \/ Consolidate(p) \/ ConsolidateFails(p)
         \/ Clear(p) \/ Rebuild(p) \/ Close(p) \/ CloseEarly(p)
  PROVE  OneInv'
<1>1. PICK x, d, ks : /\ Moved(p, x, d, ks) /\ file' = d /\ ks \subseteq proc[p].tasks
                      /\ (x = "off" => ks = {}) /\ (ks # {} => x = "extracting")
                      /\ RowsLeft(d)
  BY OtherMoves
<1>2. UNCHANGED version /\ TypeOK' /\ TypeOK
  BY OtherMoves DEF TablesInv, OneInv
<1>3. OffIdle' /\ OneRuns' /\ TasksExtract'
  BY <1>1, OthersOff
<1>4. /\ proc'[p].tasks \subseteq proc[p].tasks
      /\ \A q \in Process \ {p} : proc'[q].tasks = proc[q].tasks /\ proc'[q].found = proc[q].found
  BY <1>1 DEF Moved
<1>5. CASE Scan(p)
  <2>1. \A t \in Thread : proc'[p].found[t] \in {0, version[t]}
    BY <1>5, ScanMoves DEF OneInv
  <2>2. UNCHANGED file /\ proc'[p].tasks = {}
    <3>1. proc[p].tasks = {}
      BY <1>5 DEF OneInv, TasksExtract, Scan
    <3> QED BY <1>4, <1>5, <3>1 DEF Scan
  <2>3. \A t \in Thread : version[t] \in Nat
    BY <1>2, Numeric
  <2>4. NothingAhead'
    BY <1>2, <1>4, <2>1, <2>2, <2>3 DEF OneInv, NothingAhead
  <2>5. TasksCurrent'
    BY <1>2, <1>4, <2>2 DEF OneInv, TasksCurrent
  <2> QED BY <1>3, <2>4, <2>5 DEF OneInv
<1>6. CASE ~Scan(p)
  <2>1. FoundKept(p)
    BY <1>6, OtherFound
  <2> QED BY <1>1, <1>2, <1>3, <1>4, <2>1, StaysCurrent DEF FoundKept, RowsLeft, OneInv
<1> QED BY <1>5, <1>6

\* A process begins when none is there, and one may be killed.
LEMMA BeginsAndEnds ==
  ASSUME OneInv, TablesInv', ~SideBySide, NEW p \in Process,
         (\E c \in Project : Open(p, c)) \/ Crash(p)
  PROVE  OneInv'
<1>1. TablesInv /\ TypeOK /\ TypeOK' /\ UNCHANGED version
  BY DEF OneInv, TablesInv, Open, Crash
<1>2. CASE \E c \in Project : Open(p, c)
  <2>1. /\ \A q \in Process : proc[q].pc = "off" /\ proc[q].tasks = {}
        /\ Moved(p, "open", file, {}) /\ FoundKept(p) /\ UNCHANGED file
    BY <1>1, <1>2, OpenMoves DEF Open, OneInv, OffIdle
  <2>2. OffIdle' /\ OneRuns' /\ TasksExtract'
    BY <2>1 DEF Moved, OffIdle, OneRuns, TasksExtract
  <2>3. \A q \in Process : /\ proc'[q].tasks \subseteq proc[q].tasks
                           /\ proc'[q].found \in {proc[q].found, Off.found}
    BY <2>1 DEF Moved, FoundKept
  <2> QED BY <1>1, <2>1, <2>2, <2>3, RowsAreLeft, StaysCurrent DEF RowsLeft, OneInv
<1>3. CASE Crash(p)
  <2>1. /\ Moved(p, "off", Empty, {}) /\ (file' = Empty \/ UNCHANGED file) /\ FoundKept(p)
        /\ proc[p].pc # "off"
    BY <1>1, <1>3, CrashMoves DEF Crash
  <2>2. \A q \in Process : proc'[q].pc = "off" /\ proc'[q].tasks = {}
    BY <2>1 DEF Moved, OneInv, OneRuns, OffIdle
  <2>3. \A q \in Process : /\ proc'[q].tasks \subseteq proc[q].tasks
                           /\ proc'[q].found \in {proc[q].found, Off.found}
    BY <2>1, <2>2 DEF Moved, FoundKept
  <2>4. RowsLeft(file')
    BY <2>1, RowsAreLeft
  <2>5. NothingAhead' /\ TasksCurrent'
    BY <1>1, <2>3, <2>4, StaysCurrent DEF RowsLeft
  <2> QED BY <2>2, <2>5 DEF OneInv, OffIdle, OneRuns, TasksExtract
<1> QED BY <1>2, <1>3

\* Days pass, sessions change, and what a reload left behind is written.
LEMMA WorldCurrent ==
  ASSUME OneInv, TablesInv',
         NewDay \/ (\E t \in Thread : SessionChanges(t) \/ Ages(t)) \/ \E g \in ghosts : GhostWrites(g)
  PROVE  OneInv'
<1>1. TablesInv /\ TypeOK /\ TypeOK'
  BY DEF OneInv, TablesInv
<1>2. CASE NewDay
  <2>1. /\ file' = Expired(file)
        /\ \A p \in Process :
             /\ proc'[p].db = Expired(proc[p].db) /\ proc'[p].pc = proc[p].pc
             /\ proc'[p].tasks = proc[p].tasks /\ proc'[p].found = proc[p].found
    BY <1>1, <1>2, NewDayMoves
  <2>2. OffIdle' /\ OneRuns' /\ TasksExtract'
    BY <2>1 DEF OneInv, OffIdle, OneRuns, TasksExtract
  <2>3. UNCHANGED version /\ RowsLeft(file')
    BY <1>2, <2>1, RowsAreLeft DEF NewDay
  <2> QED BY <1>1, <2>1, <2>2, <2>3, StaysCurrent DEF RowsLeft, OneInv
<1>3. ASSUME NEW t \in Thread, SessionChanges(t)
      PROVE  OneInv'
  <2>1. UNCHANGED <<proc, file>> /\ version' = [version EXCEPT ![t] = version[t] + 1]
        /\ version \in [Thread -> Version]
    BY <1>1, <1>3 DEF SessionChanges, TypeOK
  <2>2. \A u \in Thread : version'[u] \in Nat /\ version[u] \in Nat /\ version[u] <= version'[u]
    BY <1>1, <2>1, Numeric
  <2>3. NothingAhead'
    <3>1. ASSUME NEW u \in Thread
          PROVE  /\ file.mark[u] <= version'[u] /\ file.output[u] <= version'[u]
                 /\ file.status[u] # "none" => version'[u] > 0
                 /\ \A p \in Process : proc[p].found[u] <= version'[u]
      <4>1. /\ file.mark[u] \in Nat /\ file.output[u] \in Nat
            /\ \A p \in Process : proc[p].found[u] \in Nat
        BY <1>1, Numeric
      <4> QED BY <2>2, <4>1 DEF OneInv, NothingAhead
    <3>2. \A j \in file.jobs : version'[j.thread] > 0
      BY <1>1, <2>2, Numeric DEF OneInv, NothingAhead
    <3> QED BY <2>1, <3>1, <3>2 DEF NothingAhead
  <2>4. TasksCurrent'
    <3>1. ASSUME NEW p \in Process, NEW k \in proc[p].tasks
          PROVE  k.version <= version'[k.thread]
      <4>1. k.thread \in Thread /\ k.version \in Nat
        BY <1>1, Numeric
      <4> QED BY <2>2, <4>1 DEF OneInv, TasksCurrent
    <3> QED BY <2>1, <3>1 DEF OneInv, TasksCurrent
  <2> QED BY <2>1, <2>3, <2>4 DEF OneInv, OffIdle, OneRuns, TasksExtract
<1>4. CASE (\E t \in Thread : Ages(t)) \/ \E g \in ghosts : GhostWrites(g)
  <2>1. UNCHANGED <<proc, file, version>>
    BY <1>4 DEF GhostWrites, Ages
  <2> QED BY <1>1, <2>1 DEF OneInv, OffIdle, OneRuns, TasksExtract, NothingAhead, TasksCurrent
<1> QED BY <1>2, <1>3, <1>4

\* A process that is not there does nothing but begin.
LEMMA OnlyRunning ==
  ASSUME NEW p \in Process, Step(p), ~ \E c \in Project : Open(p, c), OneInv
  PROVE  proc[p].pc # "off"
<1>1. proc[p].pc = "off" => proc[p].tasks = {}
  BY DEF OneInv, OffIdle
<1> QED BY <1>1 DEF Step, Startup, Scan, Enter, Claim, Phase2, Consolidate, ConsolidateFails,
                    Clear, Rebuild, Reset, Close, CloseEarly, Crash

\* The invariant of processes that run one after another.
LEMMA OneInvariant == ~SideBySide /\ Spec => []OneInv
<1>1. Init => OneInv
  <2> SUFFICES ASSUME Init
               PROVE  OneInv
    OBVIOUS
  <2>1. \A p \in Process : proc[p].pc = "off" /\ proc[p].tasks = {} /\ proc[p].found = Off.found
    BY DEF Init, Off
  <2>2. \A t \in Thread : /\ file.mark[t] = 0 /\ file.output[t] = 0 /\ file.status[t] = "none"
                          /\ version[t] = 0 /\ Off.found[t] = 0
    BY DEF Init, Empty, Off
  <2>3. file.jobs = {}
    BY DEF Init, Empty
  <2>4. TablesInv
    BY InitTables
  <2> QED BY <2>1, <2>2, <2>3, <2>4
          DEF OneInv, OffIdle, OneRuns, TasksExtract, NothingAhead, TasksCurrent
<1>2. ~SideBySide /\ OneInv /\ [Next]_vars => OneInv'
  <2>1. CASE UNCHANGED vars
    BY <2>1 DEF vars, OneInv, TablesInv, TypeOK, CopiesGood, JobsGood, Active, OffIdle, OneRuns,
                TasksExtract, NothingAhead, TasksCurrent
  <2>2. ASSUME ~SideBySide, OneInv, Next
        PROVE  OneInv'
    <3>1. TablesInv'
      BY <2>2, TablesStep DEF OneInv
    <3>2. ASSUME NEW p \in Process, Step(p)
          PROVE  OneInv'
      <4>1. CASE (\E c \in Project : Open(p, c)) \/ Crash(p)
        BY <2>2, <3>1, <4>1, BeginsAndEnds
      <4>2. CASE Enter(p)
        BY <2>2, <3>1, <4>2, EnterCurrent
      <4>3. CASE Claim(p)
        BY <2>2, <3>1, <4>3, ClaimCurrent
      <4>4. ASSUME NEW k \in proc[p].tasks, Complete(p, k) \/ Fail(p, k)
            PROVE  OneInv'
        BY <2>2, <4>4, EndCurrent
      <4>5. ASSUME ~ \E c \in Project : Open(p, c),
                   \/ Scan(p) \/ Phase2(p) \/ Consolidate(p) \/ ConsolidateFails(p)
                   \/ Clear(p) \/ Rebuild(p) \/ Close(p) \/ CloseEarly(p)
            PROVE  OneInv'
        BY <2>2, <3>1, <3>2, <4>5, OnlyRunning, OtherCurrent
      <4> QED BY <3>2, <4>1, <4>2, <4>3, <4>4, <4>5 DEF Step, Startup
    <3> QED BY <2>2, <3>1, <3>2, WorldCurrent DEF Next
  <2> QED BY <2>1, <2>2
<1> SUFFICES ASSUME ~SideBySide
             PROVE  Spec => []OneInv
  OBVIOUS
<1> QED BY <1>1, <1>2, PTL DEF Spec

-----------------------------------------------------------------------------
(* The refinement of MemoryWork, step by step. *)

WSettled ==
  [t \in Thread |->
     IF file.status[t] \in {"done", "error"} /\ Active(file, t) = {} THEN file.mark[t] ELSE 0]
WReading ==
  [p \in Process |-> [t \in Thread |->
     IF \E k \in proc[p].tasks : k.thread = t
       THEN (CHOOSE k \in proc[p].tasks : k.thread = t).version ELSE 0]]
WVars == <<version, file.output, WSettled, WReading>>

\* A process works on the version its tasks were given.
ReadsTasks ==
  \A p \in Process, t \in Thread :
    /\ \A k \in proc[p].tasks : k.thread = t => WReading[p][t] = k.version
    /\ (~ \E k \in proc[p].tasks : k.thread = t) => WReading[p][t] = 0

\* Tasks of one session are of one version, so it does not matter which one is chosen.
LEMMA ReadingIs == TasksCurrent => ReadsTasks
<1> SUFFICES ASSUME TasksCurrent, NEW p \in Process, NEW t \in Thread
             PROVE  /\ \A k \in proc[p].tasks : k.thread = t => WReading[p][t] = k.version
                    /\ (~ \E k \in proc[p].tasks : k.thread = t) => WReading[p][t] = 0
  BY DEF ReadsTasks
<1>1. ASSUME NEW k \in proc[p].tasks, k.thread = t
      PROVE  WReading[p][t] = k.version
  <2> DEFINE c == CHOOSE l \in proc[p].tasks : l.thread = t
  <2>1. c \in proc[p].tasks /\ c.thread = t
    BY <1>1
  <2>2. WReading[p][t] = c.version
    BY <1>1 DEF WReading
  <2> HIDE DEF c
  <2> QED BY <1>1, <2>1, <2>2 DEF TasksCurrent
<1>2. (~ \E k \in proc[p].tasks : k.thread = t) => WReading[p][t] = 0
  BY DEF WReading
<1> QED BY <1>1, <1>2

\* The same after a step.
LEMMA ReadingNext == TasksCurrent' => ReadsTasks'
BY ReadingIs, PTL

\* The same tasks, the same work.
LEMMA SameReading ==
  ASSUME \A p \in Process : proc'[p].tasks = proc[p].tasks
  PROVE  WReading' = WReading
BY DEF WReading

\* A step that leaves the rows and the tasks alone.
LEMMA Stutters ==
  ASSUME UNCHANGED version, file'.output = file.output,
         \A t \in Thread : /\ file'.mark[t] = file.mark[t] /\ file'.status[t] = file.status[t]
                           /\ (Active(file', t) = {} <=> Active(file, t) = {}),
         \A p \in Process : proc'[p].tasks = proc[p].tasks
  PROVE  UNCHANGED WVars
<1>1. WSettled' = WSettled
  BY DEF WSettled, Active
<1> QED BY <1>1, SameReading DEF WVars

\* The steps of MemoryWork, in the words of the job tables.
LEMMA ChangeStep ==
  ASSUME NEW t \in Thread, version' = [version EXCEPT ![t] = version[t] + 1],
         UNCHANGED <<file.output, WSettled, WReading>>
  PROVE  Work!WorkNext
BY DEF Work!WorkNext, Work!Change, WSettled, WReading

\* A session that has changed is entered.
LEMMA NoticeStep ==
  ASSUME NEW ts \in SUBSET Thread, UNCHANGED <<version, file.output, WReading>>,
         WSettled' = [t \in Thread |-> IF t \in ts THEN 0 ELSE WSettled[t]]
  PROVE  Work!WorkNext
BY DEF Work!WorkNext, Work!Notice, WSettled, WReading

\* A batch is claimed.
LEMMA TakeStep ==
  ASSUME NEW p \in Process, NEW ts \in SUBSET Thread, UNCHANGED <<version, file.output, WSettled>>,
         \A t \in ts, u \in Process : WReading[u][t] = 0,
         WReading' = [WReading EXCEPT ![p] =
                        [t \in Thread |-> IF t \in ts THEN version[t] ELSE WReading[p][t]]]
  PROVE  Work!WorkNext
<1>1. Work!Take(p, ts)
  BY DEF Work!Take, WSettled, WReading
<1> QED BY <1>1 DEF Work!WorkNext

\* An extraction ends.
LEMMA StoreStep ==
  ASSUME NEW p \in Process, NEW t \in Thread, UNCHANGED version, WReading[p][t] > 0,
         file'.output \in {file.output, [file.output EXCEPT ![t] = WReading[p][t]]},
         file'.output[t] >= file.output[t],
         NEW v \in 0..WReading[p][t], WSettled' = [WSettled EXCEPT ![t] = v],
         WReading' \in {WReading, [WReading EXCEPT ![p][t] = 0]}
  PROVE  Work!WorkNext
<1>1. Work!Store(p, t)
  BY DEF Work!Store, WSettled, WReading
<1> QED BY <1>1 DEF Work!WorkNext

\* A process ends.
LEMMA LeaveStep ==
  ASSUME NEW p \in Process, UNCHANGED <<version, file.output, WSettled>>,
         WReading' = [WReading EXCEPT ![p] = [t \in Thread |-> 0]]
  PROVE  Work!WorkNext
<1>1. Work!Leave(p)
  BY DEF Work!Leave, WSettled, WReading
<1> QED BY <1>1 DEF Work!WorkNext

\* Rows are thrown away.
LEMMA ForgetStep ==
  ASSUME NEW ts \in SUBSET Thread, NEW ws \in SUBSET Process, UNCHANGED version,
         file'.output = [t \in Thread |-> IF t \in ts THEN 0 ELSE file.output[t]],
         WSettled' = [t \in Thread |-> IF t \in ts THEN 0 ELSE WSettled[t]],
         WReading' = [w \in Process |-> IF w \in ws THEN [t \in Thread |-> 0] ELSE WReading[w]]
  PROVE  Work!WorkNext
<1>1. Work!Forget(ts, ws)
  BY DEF Work!Forget, WSettled, WReading
<1> QED BY <1>1 DEF Work!WorkNext

\* A process that is gone works on nothing, and the other ones work on.
LEMMA LeftReading ==
  ASSUME NEW p \in Process, proc'[p].tasks = {},
         \A q \in Process \ {p} : proc'[q].tasks = proc[q].tasks
  PROVE  /\ WReading' = [WReading EXCEPT ![p] = [t \in Thread |-> 0]]
         /\ WReading' = [w \in Process |-> IF w \in {p} THEN [t \in Thread |-> 0] ELSE WReading[w]]
BY DEF WReading

\* Steps that MemoryWork does not see.
LEMMA QuietSteps ==
  ASSUME OneInv, NEW p \in Process,
         \/ (\E c \in Project : Open(p, c)) \/ Scan(p) \/ Phase2(p) \/ Consolidate(p)
         \/ ConsolidateFails(p) \/ Close(p)
  PROVE  UNCHANGED WVars
<1>1. TablesInv /\ UNCHANGED version /\ (proc[p].pc # "off" => proc[p].db = file)
  BY DEF OneInv, OneRuns, Open, Scan, Phase2, Consolidate, ConsolidateFails, Close
<1>2. proc[p].tasks # {} => proc[p].pc = "extracting"
  BY DEF OneInv, TasksExtract
<1>3. CASE \E c \in Project : Open(p, c)
  <2>1. proc[p].tasks = {} /\ UNCHANGED file /\ Moved(p, "open", file, {})
    BY <1>1, <1>2, <1>3, OpenMoves DEF Open
  <2> QED BY <1>1, <2>1, Stutters DEF Moved
<1>4. CASE Scan(p)
  <2>1. UNCHANGED file /\ Moved(p, "scanned", proc[p].db, proc[p].tasks)
    BY <1>1, <1>4, ScanMoves
  <2> QED BY <1>1, <2>1, Stutters DEF Moved
<1>5. CASE Phase2(p) \/ Consolidate(p) \/ ConsolidateFails(p)
  <2>1. proc[p].db = file
    BY <1>1, <1>5 DEF Phase2, Consolidate, ConsolidateFails
  <2>2. PICK d \in Database, x \in {"idle", "consolidating"} :
          /\ Moved(p, x, d, proc[p].tasks) /\ SameRows(d, proc[p].db)
          /\ file' = d \/ (UNCHANGED file /\ d = proc[p].db)
    BY <1>1, <1>5, ConsolidationMoves
  <2>3. SameRows(file', file) /\ \A q \in Process : proc'[q].tasks = proc[q].tasks
    BY <2>1, <2>2 DEF Moved
  <2>4. \A t \in Thread : Active(file', t) = Active(file, t)
    BY <2>3 DEF SameRows, Active
  <2> QED BY <1>1, <2>3, <2>4, Stutters DEF SameRows
<1>6. CASE Close(p)
  <2>1. proc[p].tasks = {} /\ file' = file /\ Moved(p, "off", proc[p].db, {})
    BY <1>1, <1>2, <1>6, CloseMoves DEF Close
  <2> QED BY <1>1, <2>1, Stutters DEF Moved
<1> QED BY <1>3, <1>4, <1>5, <1>6

\* The sessions, the days and what a reload left behind.
LEMMA WorldSteps ==
  ASSUME OneInv,
         NewDay \/ (\E t \in Thread : SessionChanges(t) \/ Ages(t)) \/ \E g \in ghosts : GhostWrites(g)
  PROVE  Work!WorkNext \/ UNCHANGED WVars
<1>1. TablesInv /\ file \in Database
  BY DEF OneInv, TablesInv, TypeOK
<1>2. CASE NewDay
  <2>1. /\ file' = Expired(file) /\ UNCHANGED version
        /\ \A p \in Process : proc'[p].tasks = proc[p].tasks
    BY <1>1, <1>2, NewDayMoves DEF NewDay
  <2> QED BY <1>1, <2>1, ExpiredGood, Stutters
<1>3. ASSUME NEW t \in Thread, SessionChanges(t)
      PROVE  Work!WorkNext
  <2>1. UNCHANGED <<proc, file>> /\ version' = [version EXCEPT ![t] = version[t] + 1]
    BY <1>3 DEF SessionChanges
  <2>2. UNCHANGED <<file.output, WSettled, WReading>>
    BY <2>1 DEF WSettled, WReading, Active
  <2> QED BY <2>1, <2>2, ChangeStep
<1>4. ASSUME (\E t \in Thread : Ages(t)) \/ \E g \in ghosts : GhostWrites(g)
      PROVE  UNCHANGED WVars
  <2>1. UNCHANGED <<proc, file, version>>
    BY <1>4 DEF GhostWrites, Ages
  <2> QED BY <2>1, Stutters
<1> QED BY <1>2, <1>3, <1>4

\* Sessions are entered: those with a job to come are not settled.
LEMMA EnterStep ==
  ASSUME OneInv, NEW p \in Process, Enter(p)
  PROVE  Work!WorkNext \/ UNCHANGED WVars
<1>1. /\ TablesInv /\ UNCHANGED version /\ proc[p].db = file /\ file \in Database
      /\ proc[p].found \in [Thread -> Version]
  BY DEF OneInv, OneRuns, Enter, TablesInv, TypeOK
<1>2. CASE Moved(p, "entered", proc[p].db, proc[p].tasks) /\ UNCHANGED file
  <2>1. \A q \in Process : proc'[q].tasks = proc[q].tasks
    BY <1>2 DEF Moved
  <2> QED BY <1>1, <1>2, <2>1, Stutters
<1>3. CASE /\ Moved(p, "entered", Entered(proc[p].db, proc[p].found), proc[p].tasks)
           /\ file' = proc'[p].db /\ \A t \in Thread : Numbers(proc[p].db, t) # {}
  <2>1. /\ file' = Entered(file, proc[p].found)
        /\ \A q \in Process : proc'[q].tasks = proc[q].tasks
    BY <1>1, <1>3 DEF Moved
  <2>2. /\ file'.output = file.output
        /\ \A t \in Thread :
             \/ /\ file'.status[t] = file.status[t] /\ file'.mark[t] = file.mark[t]
                /\ Active(file', t) = Active(file, t)
             \/ file'.status[t] = "pending"
    BY <1>1, <1>3, <2>1, EnteredGood
  <2> DEFINE ts == {t \in Thread : file'.status[t] = "pending"}
  <2>3. WSettled' = [t \in Thread |-> IF t \in ts THEN 0 ELSE WSettled[t]]
    BY <2>2 DEF WSettled, Active
  <2>4. WReading' = WReading
    BY <2>1, SameReading
  <2> HIDE DEF ts
  <2>5. ts \in SUBSET Thread
    BY DEF ts
  <2> QED BY <1>1, <2>2, <2>3, <2>4, <2>5, NoticeStep
<1> QED BY <1>1, <1>2, <1>3, EnterMoves

\* A process that claims a batch is the only one there is.
LEMMA ClaimStep ==
  ASSUME OneInv, TasksCurrent', NEW p \in Process, Claim(p)
  PROVE  Work!WorkNext
<1>1. /\ TablesInv /\ UNCHANGED version /\ proc[p].db = file /\ file \in Database
      /\ \A q \in Process : proc[q].tasks = {}
  BY DEF OneInv, OneRuns, OffIdle, TasksExtract, Claim, TablesInv, TypeOK
<1>2. PICK js \in Batches(file) :
        /\ Moved(p, IF js = {} THEN "idle" ELSE "extracting", Claimed(file, js), TasksOf(js))
        /\ file' = proc'[p].db
  BY <1>1, ClaimMoves
<1>3. /\ file' = Claimed(file, js) /\ proc'[p].tasks = TasksOf(js)
      /\ \A q \in Process \ {p} : proc'[q].tasks = {}
  BY <1>1, <1>2 DEF Moved
<1>4. /\ file'.status = file.status /\ file'.mark = file.mark /\ file'.output = file.output
      /\ \A t \in Thread : Active(file', t) = {} <=> Active(file, t) = {}
      /\ js \subseteq file.jobs
  BY <1>1, <1>3, ClaimedGood
<1>5. WSettled' = WSettled
  BY <1>4 DEF WSettled, Active
<1> DEFINE ts == {j.thread : j \in js}
<1>6. ts \in SUBSET Thread
  BY <1>1, <1>4 DEF Database, Job
<1>7. \A q \in Process, t \in Thread : WReading[q][t] = 0
  BY <1>1, ReadingIs DEF OneInv, ReadsTasks
<1>8. ASSUME NEW t \in Thread
      PROVE  WReading'[p][t] = IF t \in ts THEN version[t] ELSE 0
  <2>1. CASE t \in ts
    <3>1. PICK j \in js : j.thread = t
      BY <2>1
    <3>2. [thread |-> j.thread, n |-> j.n, version |-> version[j.thread]] \in proc'[p].tasks
      BY <1>3 DEF TasksOf
    <3> QED BY <2>1, <3>1, <3>2, ReadingNext DEF ReadsTasks
  <2>2. CASE t \notin ts
    <3>1. \A k \in proc'[p].tasks : k.thread # t
      BY <1>3, <2>2 DEF TasksOf
    <3> QED BY <2>2, <3>1, ReadingNext DEF ReadsTasks
  <2> QED BY <2>1, <2>2
<1>9. \A q \in Process \ {p}, t \in Thread : WReading'[q][t] = 0
  BY <1>3, ReadingNext DEF ReadsTasks
<1> HIDE DEF ts
<1>10. WReading' = [WReading EXCEPT ![p] =
                      [t \in Thread |-> IF t \in ts THEN version[t] ELSE WReading[p][t]]]
  <2>1. /\ WReading' = [q \in Process |-> [t \in Thread |-> WReading'[q][t]]]
        /\ WReading = [q \in Process |-> [t \in Thread |-> WReading[q][t]]]
    BY DEF WReading
  <2> QED BY <1>7, <1>8, <1>9, <2>1
<1> QED BY <1>1, <1>4, <1>5, <1>6, <1>7, <1>10, TakeStep

\* An extraction ends: its session is settled up to the version that was read, at most.
LEMMA EndStep ==
  ASSUME OneInv, TasksCurrent', NEW p \in Process, NEW k \in proc[p].tasks,
         Complete(p, k) \/ Fail(p, k)
  PROVE  Work!WorkNext
<1>1. /\ TablesInv /\ TypeOK /\ UNCHANGED version /\ proc[p].db = file /\ file \in Database
  BY DEF OneInv, OneRuns, TasksExtract, Complete, Fail, TablesInv, TypeOK
<1> DEFINE u == k.thread
<1>2. /\ u \in Thread /\ k.version \in Version /\ k.version \in Nat
      /\ k.version > 0 /\ file.mark[u] <= k.version /\ file.output[u] <= k.version
      /\ file.mark[u] \in Nat /\ file.output[u] \in Nat
      /\ \A l \in proc[p].tasks : l.thread = u => l.version = k.version
  BY <1>1, Numeric DEF OneInv, TasksCurrent
<1>3. PICK d \in {Completed(proc[p].db, k.thread, k.version), Failed(proc[p].db, k.thread)} :
        Moved(p, proc[p].pc, d, proc[p].tasks \ {k}) /\ file' = d
  BY <1>1, EndMoves
<1>4. /\ file' \in Database /\ file'.mark = file.mark
      /\ \A t \in Thread \ {u} : /\ file'.status[t] = file.status[t]
                                 /\ file'.output[t] = file.output[t]
                                 /\ Active(file', t) = Active(file, t)
      /\ file'.output[u] \in {file.output[u], k.version}
  BY <1>1, <1>2, <1>3, CompletedGood
<1>5. WReading[p][u] = k.version
  BY <1>2, ReadingIs DEF OneInv, ReadsTasks
<1>6. /\ file'.output \in {file.output, [file.output EXCEPT ![u] = WReading[p][u]]}
      /\ file'.output[u] >= file.output[u]
  <2>1. file'.output \in [Thread -> Version] /\ file.output \in [Thread -> Version]
    BY <1>1, <1>4 DEF Database
  <2>2. file'.output = [file.output EXCEPT ![u] = file'.output[u]]
    BY <1>2, <1>4, <2>1
  <2>3. file.output = [file.output EXCEPT ![u] = file.output[u]]
    BY <1>2, <2>1
  <2> QED BY <1>2, <1>4, <1>5, <2>2, <2>3
<1>7. WSettled'[u] \in {0, file.mark[u]} /\ WSettled' = [WSettled EXCEPT ![u] = WSettled'[u]]
  <2>1. WSettled'[u] \in {0, file.mark[u]}
    BY <1>2, <1>4 DEF WSettled
  <2>2. \A t \in Thread \ {u} : WSettled'[t] = WSettled[t]
    BY <1>4 DEF WSettled, Active
  <2>3. /\ WSettled' = [t \in Thread |-> WSettled'[t]]
        /\ WSettled = [t \in Thread |-> WSettled[t]]
    BY DEF WSettled
  <2> QED BY <1>2, <2>1, <2>2, <2>3
<1>8. WSettled'[u] \in 0..WReading[p][u]
  BY <1>2, <1>5, <1>7
<1>9. WReading' \in {WReading, [WReading EXCEPT ![p][u] = 0]}
  <2>1. /\ proc'[p].tasks = proc[p].tasks \ {k}
        /\ \A q \in Process \ {p} : proc'[q].tasks = proc[q].tasks
    BY <1>3 DEF Moved
  <2>2. \A q \in Process \ {p} : WReading'[q] = WReading[q]
    BY <2>1 DEF WReading
  <2>3. \A t \in Thread \ {u} : WReading'[p][t] = WReading[p][t]
    <3> SUFFICES ASSUME NEW t \in Thread \ {u}
                 PROVE  WReading'[p][t] = WReading[p][t]
      OBVIOUS
    <3>1. CASE \E l \in proc[p].tasks : l.thread = t
      <4>1. PICK l \in proc[p].tasks : l.thread = t
        BY <3>1
      <4>2. l \in proc'[p].tasks
        BY <2>1, <4>1
      <4> QED BY <4>1, <4>2, ReadingIs, ReadingNext DEF ReadsTasks, OneInv
    <3>2. CASE ~ \E l \in proc[p].tasks : l.thread = t
      <4>1. ~ \E l \in proc'[p].tasks : l.thread = t
        BY <2>1, <3>2
      <4> QED BY <3>2, <4>1, ReadingIs, ReadingNext DEF ReadsTasks, OneInv
    <3> QED BY <3>1, <3>2
  <2>4. WReading'[p][u] \in {k.version, 0}
    <3>1. CASE \E l \in proc'[p].tasks : l.thread = u
      <4>1. PICK l \in proc'[p].tasks : l.thread = u
        BY <3>1
      <4>2. l.version = k.version
        BY <1>2, <2>1, <4>1
      <4> QED BY <1>2, <4>1, <4>2, ReadingNext DEF ReadsTasks
    <3>2. CASE ~ \E l \in proc'[p].tasks : l.thread = u
      BY <1>2, <3>2, ReadingNext DEF ReadsTasks
    <3> QED BY <3>1, <3>2
  <2>5. /\ WReading' = [q \in Process |-> [t \in Thread |-> WReading'[q][t]]]
        /\ WReading = [q \in Process |-> [t \in Thread |-> WReading[q][t]]]
    BY DEF WReading
  <2>6. CASE WReading'[p][u] = k.version
    BY <1>2, <1>5, <2>2, <2>3, <2>5, <2>6
  <2>7. CASE WReading'[p][u] = 0
    BY <1>2, <1>5, <2>2, <2>3, <2>5, <2>7
  <2> QED BY <2>4, <2>6, <2>7
<1> HIDE DEF u
<1> QED BY <1>1, <1>2, <1>5, <1>6, <1>7, <1>8, <1>9, StoreStep

\* /memory clear and /memory rebuild throw away the results of a project.
LEMMA ResetStep ==
  ASSUME OneInv, NEW p \in Process, Clear(p) \/ Rebuild(p)
  PROVE  Work!WorkNext
<1> DEFINE c == proc[p].project
           ts == Rows(file, c)
<1>1. /\ TablesInv /\ UNCHANGED version /\ proc[p].db = file /\ file \in Database /\ c \in Project
      /\ ts \in SUBSET Thread
  BY DEF OneInv, OneRuns, Clear, Rebuild, Reset, TablesInv, TypeOK, Rows
<1>2. /\ file' \in Database /\ \A q \in Process : proc'[q].tasks = proc[q].tasks
      /\ \A t \in ts : file'.status[t] \in {"none", "pending"} /\ file'.output[t] = 0
      /\ \A t \in Thread \ ts :
           /\ file'.status[t] = file.status[t] /\ file'.mark[t] = file.mark[t]
           /\ file'.output[t] = file.output[t] /\ Active(file', t) = Active(file, t)
  <2>1. CASE Clear(p)
    <3>1. Moved(p, proc[p].pc, Cleared(file, c), proc[p].tasks) /\ file' = Cleared(file, c)
      BY <1>1, <2>1, ClearedGood, ResetMoves DEF Clear
    <3> QED BY <1>1, <3>1, ClearedGood DEF Moved
  <2>2. CASE Rebuild(p)
    <3>1. Moved(p, proc[p].pc, Rebuilt(file, c), proc[p].tasks) /\ file' = Rebuilt(file, c)
      BY <1>1, <2>2, RebuiltGood, ResetMoves DEF Rebuild
    <3> QED BY <1>1, <3>1, RebuiltGood DEF Moved
  <2> QED BY <2>1, <2>2
<1>3. WSettled' = [t \in Thread |-> IF t \in ts THEN 0 ELSE WSettled[t]]
  BY <1>1, <1>2 DEF WSettled, Active
<1>4. file'.output = [t \in Thread |-> IF t \in ts THEN 0 ELSE file.output[t]]
  BY <1>1, <1>2 DEF Database
<1>5. WReading' = [w \in Process |-> IF w \in {} THEN [t \in Thread |-> 0] ELSE WReading[w]]
  BY <1>2 DEF WReading
<1>6. {} \in SUBSET Process
  OBVIOUS
<1> HIDE DEF ts, c
<1> QED BY <1>1, <1>3, <1>4, <1>5, <1>6, ForgetStep

\* A process ends before its start is over, or is killed.
LEMMA EndedEarlyStep ==
  ASSUME OneInv, NEW p \in Process, CloseEarly(p) \/ Crash(p)
  PROVE  Work!WorkNext
<1>1. /\ TablesInv /\ UNCHANGED version /\ proc[p].db = file /\ file \in Database
  BY DEF OneInv, OneRuns, CloseEarly, Crash, TablesInv, TypeOK
<1>2. \E d : Moved(p, "off", d, {}) /\ (file' = Empty \/ UNCHANGED file)
  BY <1>1, CloseMoves, CrashMoves
<1>3. /\ WReading' = [WReading EXCEPT ![p] = [t \in Thread |-> 0]]
      /\ WReading' = [w \in Process |-> IF w \in {p} THEN [t \in Thread |-> 0] ELSE WReading[w]]
  BY <1>2, LeftReading DEF Moved
<1>4. CASE UNCHANGED file
  <2>1. UNCHANGED <<file.output, WSettled>>
    BY <1>4 DEF WSettled, Active
  <2> QED BY <1>1, <1>3, <2>1, LeaveStep
<1>5. CASE file' = Empty
  <2>1. file'.output = [t \in Thread |-> IF t \in Thread THEN 0 ELSE file.output[t]]
    BY <1>5 DEF Empty
  <2>2. WSettled' = [t \in Thread |-> IF t \in Thread THEN 0 ELSE WSettled[t]]
    BY <1>5 DEF WSettled, Empty
  <2> DEFINE ws == {p}
  <2>3. /\ ws \in SUBSET Process /\ Thread \in SUBSET Thread
        /\ WReading' = [w \in Process |-> IF w \in ws THEN [t \in Thread |-> 0] ELSE WReading[w]]
    BY <1>3
  <2> HIDE DEF ws
  <2> QED BY <1>1, <2>1, <2>2, <2>3, ForgetStep
<1> QED BY <1>2, <1>4, <1>5

\* The job tables keep the promise of MemoryWork as long as processes do not run side by
\* side: every step of theirs is one of the work's, or none.
THEOREM PromiseKept == ~SideBySide /\ Spec => KeepsPromise
<1>1. Init => Work!WorkInit
  BY DEF Init, Work!WorkInit, Empty, Off, Active
<1>2. OneInv /\ OneInv' /\ [Next]_vars => Work!WorkNext \/ UNCHANGED WVars
  <2> SUFFICES ASSUME OneInv, OneInv', [Next]_vars
               PROVE  Work!WorkNext \/ UNCHANGED WVars
    OBVIOUS
  <2>1. CASE UNCHANGED vars
    BY <2>1, Stutters DEF vars
  <2>2. TasksCurrent'
    BY DEF OneInv
  <2>3. ASSUME NEW p \in Process, Step(p)
        PROVE  Work!WorkNext \/ UNCHANGED WVars
    <3>1. CASE Enter(p)
      BY <3>1, EnterStep
    <3>2. CASE Claim(p)
      BY <2>2, <3>2, ClaimStep
    <3>3. ASSUME NEW k \in proc[p].tasks, Complete(p, k) \/ Fail(p, k)
          PROVE  Work!WorkNext
      BY <2>2, <3>3, EndStep
    <3>4. CASE Clear(p) \/ Rebuild(p)
      BY <3>4, ResetStep
    <3>5. CASE CloseEarly(p) \/ Crash(p)
      BY <3>5, EndedEarlyStep
    <3>6. CASE \/ (\E c \in Project : Open(p, c)) \/ Scan(p) \/ Phase2(p) \/ Consolidate(p)
               \/ ConsolidateFails(p) \/ Close(p)
      BY <3>6, QuietSteps
    <3> QED BY <2>3, <3>1, <3>2, <3>3, <3>4, <3>5, <3>6 DEF Step, Startup
  <2> QED BY <2>1, <2>3, WorldSteps DEF Next
<1>3. OneInv /\ OneInv' /\ [Next]_vars => [Work!WorkNext]_(Work!workVars)
  <2>1. UNCHANGED WVars => UNCHANGED Work!workVars
    BY DEF WVars, Work!workVars, WSettled, WReading
  <2> QED BY <1>2, <2>1
<1> SUFFICES ASSUME ~SideBySide
             PROVE  Spec => KeepsPromise
  OBVIOUS
<1>4. Spec => []OneInv
  BY OneInvariant
<1> QED BY <1>1, <1>3, <1>4, PTL DEF Spec, KeepsPromise, Work!WorkSpec
=============================================================================
