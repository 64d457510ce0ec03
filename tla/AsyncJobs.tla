------------------------------ MODULE AsyncJobs ------------------------------
(***************************************************************************)
(* Background jobs of the agent (async-jobs/job-manager.ts and its tools): *)
(* registration within two limits, cancellation, completion, eviction.     *)
(* AgentJobs connects them with the agent that starts them and is told of  *)
(* their results.                                                          *)
(***************************************************************************)
EXTENDS Naturals, FiniteSets

CONSTANTS
  MaxJobs,     \* bound: jobs ever registered
  MaxRunning,  \* maxRunning of the manager
  MaxTotal     \* maxTotal of the manager

\* Jobs are numbered in the order of their start.
Job == 1..MaxJobs

ASSUME JobConfig == MaxJobs \in Nat /\ MaxRunning \in Nat \ {0} /\ MaxTotal \in Nat \ {0}

VARIABLES
  status,    \* status[j]: "new" before the job is registered
  listed,    \* the jobs of the manager's map
  alive,     \* jobs whose shell has not closed its output
  killed,    \* jobs whose abort signal is raised
  evicting   \* jobs with an eviction timer

jobVars == <<status, listed, alive, killed, evicting>>

Ended == {"completed", "failed", "cancelled"}

\* Every variable has its type.
JobsTypeOK ==
  /\ status \in [Job -> {"new", "running"} \union Ended]
  /\ listed \subseteq Job /\ alive \subseteq Job /\ killed \subseteq Job /\ evicting \subseteq Job

\* A job may have been started earlier in the session.
JobsInit ==
  \E started \in SUBSET (Job \cap {1}) :
    /\ status = [j \in Job |-> IF j \in started THEN "running" ELSE "new"]
    /\ listed = started /\ alive = started
    /\ killed = {} /\ evicting = {}

Running == {j \in listed : status[j] = "running"}

\* evictOldest makes room when the map is full.
Evictable == {j \in listed : status[j] # "running"}
Oldest == {j \in Evictable : Cardinality(listed) >= MaxTotal /\ \A i \in Evictable : j <= i}

Register(j) ==
  /\ status[j] = "new" /\ \A i \in 1..(j - 1) : status[i] # "new"
  /\ Cardinality(Running) < MaxRunning
  /\ Cardinality(listed \ Oldest) < MaxTotal
  /\ status' = [status EXCEPT ![j] = "running"]
  /\ listed' = (listed \ Oldest) \union {j}
  /\ evicting' = evicting \ Oldest
  /\ alive' = alive \union {j}
  /\ UNCHANGED killed

\* Mutant: the abort signal is not raised.
CancelGently(j) ==
  /\ j \in Running
  /\ status' = [status EXCEPT ![j] = "cancelled"]
  /\ evicting' = evicting \union {j}
  /\ UNCHANGED <<listed, alive, killed>>

\* cancel(): the shell is sent a signal and may take its time.
Cancel(j) ==
  /\ j \in Running
  /\ status' = [status EXCEPT ![j] = "cancelled"]
  /\ killed' = killed \union {j} /\ evicting' = evicting \union {j}
  /\ UNCHANGED <<listed, alive>>

\* The shell closes its output, by itself, at its timeout or after the signal: the function
\* of the job resolves in every case, and the job is completed.
Close(j) ==
  /\ j \in alive /\ alive' = alive \ {j}
  /\ status' = [status EXCEPT ![j] = "completed"]
  /\ evicting' = evicting \union {j}
  /\ UNCHANGED <<listed, killed>>

\* The shell could not be started: the function rejects.
SpawnFails(j) ==
  /\ j \in alive /\ alive' = alive \ {j}
  /\ status' = [status EXCEPT ![j] = IF @ = "cancelled" THEN "cancelled" ELSE "failed"]
  /\ evicting' = evicting \union {j}
  /\ UNCHANGED <<listed, killed>>

\* Whether the end of the job is reported: deliverResult.
Reports(j) == status'[j] \in {"completed", "failed"}

\* The eviction timer of a job.
Evict(j) ==
  /\ j \in evicting /\ evicting' = evicting \ {j} /\ listed' = listed \ {j}
  /\ UNCHANGED <<status, alive, killed>>

\* A reload of the extensions: shutdown() of the manager, then a new one.
Shutdown ==
  /\ status' = [j \in Job |-> IF j \in Running THEN "cancelled" ELSE status[j]]
  /\ killed' = killed \union Running
  /\ listed' = {} /\ evicting' = {}
  /\ UNCHANGED alive
=============================================================================
