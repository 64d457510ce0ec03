----------------------------- MODULE MemoryWork -----------------------------
(***************************************************************************)
(* What the extraction of memories promises, for sessions that change and  *)
(* workers that come and go: a session is worked on by one worker at a     *)
(* time; a result replaces an older one only; and a session counts as      *)
(* settled up to a version only when a worker that had read at least that  *)
(* version has stored a result or given up.                                *)
(*                                                                         *)
(* MemoryJobs shows that the job tables of the memory extension keep this  *)
(* promise as long as processes do not run side by side.                   *)
(***************************************************************************)
EXTENDS Naturals

CONSTANTS
  Worker, Thread,
  MaxVersion   \* bound: versions of a session

Version == 0..MaxVersion

VARIABLES
  version,  \* version[t]: the newest version of the session, 0 before it exists
  result,   \* result[t]: the version the stored result was made from, 0 without one
  settled,  \* settled[t]: the version up to which no work is left to do
  reading   \* reading[w][t]: the version worker w is working on, 0 for none

workVars == <<version, result, settled, reading>>

WorkInit ==
  /\ version = [t \in Thread |-> 0] /\ result = [t \in Thread |-> 0]
  /\ settled = [t \in Thread |-> 0]
  /\ reading = [w \in Worker |-> [t \in Thread |-> 0]]

Change(t) ==
  /\ version' = [version EXCEPT ![t] = @ + 1]
  /\ UNCHANGED <<result, settled, reading>>

\* A session that has changed is to be worked on: it is no longer settled.
Notice(ts) ==
  /\ settled' = [t \in Thread |-> IF t \in ts THEN 0 ELSE settled[t]]
  /\ UNCHANGED <<version, result, reading>>

\* A worker begins, with sessions nobody is working on.
Take(w, ts) ==
  /\ \A t \in ts, u \in Worker : reading[u][t] = 0
  /\ reading' = [reading EXCEPT ![w] = [t \in Thread |-> IF t \in ts THEN version[t] ELSE @[t]]]
  /\ UNCHANGED <<version, result, settled>>

\* It stores a result or, when the work failed, none, and may be finished with it.
Store(w, t) ==
  /\ reading[w][t] > 0
  /\ result' \in {result, [result EXCEPT ![t] = reading[w][t]]}
  /\ result'[t] >= result[t]
  /\ \E v \in 0..reading[w][t] : settled' = [settled EXCEPT ![t] = v]
  /\ reading' \in {reading, [reading EXCEPT ![w][t] = 0]}
  /\ UNCHANGED version

\* It is gone, with whatever it was working on.
Leave(w) ==
  /\ reading' = [reading EXCEPT ![w] = [t \in Thread |-> 0]]
  /\ UNCHANGED <<version, result, settled>>

\* The results of some sessions are thrown away, and perhaps the worker with them.
Forget(ts, ws) ==
  /\ result' = [t \in Thread |-> IF t \in ts THEN 0 ELSE result[t]]
  /\ settled' = [t \in Thread |-> IF t \in ts THEN 0 ELSE settled[t]]
  /\ reading' = [w \in Worker |-> IF w \in ws THEN [t \in Thread |-> 0] ELSE reading[w]]
  /\ UNCHANGED version

WorkNext ==
  \/ \E t \in Thread : Change(t)
  \/ \E ts \in SUBSET Thread : Notice(ts) \/ \E w \in Worker : Take(w, ts)
  \/ \E w \in Worker : Leave(w) \/ \E t \in Thread : Store(w, t)
  \/ \E ts \in SUBSET Thread, ws \in SUBSET Worker : Forget(ts, ws)

WorkSpec == WorkInit /\ [][WorkNext]_workVars
=============================================================================
