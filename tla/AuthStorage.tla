----------------------------- MODULE AuthStorage -----------------------------
(***************************************************************************)
(* auth.json shared by several AuthStorage instances: auth-storage.ts.     *)
(*                                                                         *)
(* An instance keeps the credentials in memory, changes its copy at once   *)
(* and writes the changed provider through a lock on the file.  An OAuth   *)
(* token that has expired is refreshed at its server under the same lock,  *)
(* held over the request.  The server's refresh tokens rotate: it accepts  *)
(* each of them once and answers with the next one.                        *)
(*                                                                         *)
(* The lock is a directory with a time stamp (proper-lockfile).  Its       *)
(* asynchronous holder renews the stamp every 15 s and takes a stamp of    *)
(* another one for stale after 30 s; the synchronous operations keep the   *)
(* default and take a stamp for stale after 10 s.                          *)
(***************************************************************************)
EXTENDS Integers, FiniteSets

CONSTANTS
  Instance,     \* the AuthStorage objects, each of a process of its own
  Provider,
  Key,          \* API keys
  Nobody,
  MaxTokens,    \* bound: tokens the servers give out
  MaxChanges,   \* bound: logins, keys and removals by the user
  MaxFailures   \* bound: requests that fail, stalled processes, crashes

ASSUME AuthAssumption ==
  /\ IsFiniteSet(Instance) /\ IsFiniteSet(Provider) /\ IsFiniteSet(Key)
  /\ Nobody \notin Instance \union Provider
  /\ MaxTokens \in Nat \ {0} /\ MaxChanges \in Nat /\ MaxFailures \in Nat

Token == 1..MaxTokens

VARIABLES
  file,       \* auth.json: the entry of each provider
  memory,     \* the data of each instance
  loadError,  \* the instances whose last reload failed
  lock,       \* the lock directory: who made it, how old its stamp is
  refresh,    \* what each instance's refresh is at
  server,     \* the tokens given out, accepted, expired, and each provider's account
  counters,   \* what the bounds count
  mishaps     \* history: see Mishap

vars == <<file, memory, loadError, lock, refresh, server, counters, mishaps>>

\* A provider's API keys and its OAuth token, 0: none.
Entry == [keys : SUBSET Key, token : 0..MaxTokens]
NoEntry == [keys |-> {}, token |-> 0]
Data == [Provider -> Entry]

\* "waiting": for the lock; "fetching": the request is on its way to the server; "answered":
\* the response is on its way back; "failing": the lock was given back and reload() is next.
\* read: the file as read under the lock; token: the answer; held: does the instance's
\* process count the lock as its own; compromised: has it been told that it is not.
Refresh == [at : {"idle", "waiting", "fetching", "answered", "failing"}, provider : Provider \union {Nobody},
            read : Data, token : 0..MaxTokens, held : BOOLEAN, compromised : BOOLEAN]
Idle == [at |-> "idle", provider |-> Nobody,
         read |-> [q \in Provider |-> NoEntry], token |-> 0, held |-> FALSE,
         compromised |-> FALSE]

\* "unsaved": a change was made in memory only, for the lock was held or the last reload had
\*   failed;
\* "outdated": a change was made from an entry that another instance had changed since;
\* "overtaken": the lock was taken from an instance that went on using it;
\* "lost": an answer of the server did not arrive, or arrived at nobody.
Mishap == {"unsaved", "outdated", "overtaken", "lost"}

\* Every variable has its type.
TypeOK ==
  /\ file \in Data /\ memory \in [Instance -> Data] /\ loadError \subseteq Instance
  /\ lock \in [by : Instance \union {Nobody}, age : {"fresh", "old", "stale"}]
  /\ refresh \in [Instance -> Refresh]
  /\ server \in [given : 0..MaxTokens, accepted : SUBSET Token, expired : SUBSET Token,
                 account : [Provider -> 0..MaxTokens]]
  /\ counters \in [changes : 0..MaxChanges, failures : 0..MaxFailures]
  /\ mishaps \subseteq Mishap

Free == [by |-> Nobody, age |-> "fresh"]

Init ==
  /\ file = [q \in Provider |-> NoEntry]
  /\ memory = [p \in Instance |-> file] /\ loadError = {}
  /\ lock = Free
  /\ refresh = [p \in Instance |-> Idle]
  /\ server = [given |-> 0, accepted |-> {}, expired |-> {}, account |-> [q \in Provider |-> 0]]
  /\ counters = [changes |-> 0, failures |-> 0]
  /\ mishaps = {}

Count(what) == counters' = [counters EXCEPT ![what] = @ + 1]
Noted(cond, what) == IF cond THEN {what} ELSE {}

-----------------------------------------------------------------------------
(* The lock *)

Holders == {p \in Instance : refresh[p].at \in {"fetching", "answered"}}

\* lockSync: ten tries in 200 ms, and a stamp of more than 10 s counts for nothing.
SyncLockable == lock.by = Nobody \/ lock.age # "fresh"

\* What a synchronous operation that gets the lock leaves behind: none, and a refresh of
\* its own process that has it no longer counts it as its own.
SyncUnlocked(p) ==
  /\ lock' = Free
  /\ refresh' = [refresh EXCEPT ![p].held = FALSE]

SyncOvertakes == lock.by \in Holders

\* release(): the directory is removed, whoever has made it since.
Released(p) == IF refresh[p].held THEN Free ELSE lock

LockAges ==
  /\ lock.by # Nobody /\ lock.age # "stale"
  /\ \/ lock.age = "fresh" /\ lock' = [lock EXCEPT !.age = "old"] /\ UNCHANGED counters
     \/ /\ lock.age = "old" /\ lock.by \notin Holders
        /\ lock' = [lock EXCEPT !.age = "stale"] /\ UNCHANGED counters
     \/ \* The holder's process is stalled.
        /\ lock.age = "old" /\ lock.by \in Holders
        /\ lock' = [lock EXCEPT !.age = "stale"]
        /\ counters.failures < MaxFailures /\ Count("failures")
  /\ UNCHANGED <<file, memory, loadError, refresh, server, mishaps>>

\* The holder's timer: the stamp is renewed, or the lock is found to be compromised.
LockRenewed(p) ==
  /\ p \in Holders /\ ~refresh[p].compromised
  /\ IF lock.by = p
     THEN lock' = [lock EXCEPT !.age = "fresh"] /\ UNCHANGED refresh
     ELSE /\ refresh' = [refresh EXCEPT ![p].held = FALSE, ![p].compromised = TRUE]
          /\ UNCHANGED lock
  /\ UNCHANGED <<file, memory, loadError, server, counters, mishaps>>

-----------------------------------------------------------------------------
(* set, remove and reload *)

\* (PersistedWhole: the copy of the instance is written as it is.)
PersistedWhole(p, q, e) == [memory[p] EXCEPT ![q] = e]

\* persistProviderChange merges the entry of the provider into the file.
Persisted(p, q, e) == [file EXCEPT ![q] = e]

\* The entry of a provider is changed in memory, and in the file if that is possible.
Change(p, q, e) ==
  /\ memory' = [memory EXCEPT ![p][q] = e]
  /\ IF p \notin loadError /\ SyncLockable
     THEN /\ file' = Persisted(p, q, e)
          /\ SyncUnlocked(p)
          /\ mishaps' = mishaps \union Noted(SyncOvertakes, "overtaken")
                                \union Noted(file[q] # memory[p][q], "outdated")
     ELSE /\ mishaps' = mishaps \union {"unsaved"}
          /\ UNCHANGED <<file, lock, refresh>>

MayChange == counters.changes < MaxChanges /\ Count("changes")

NextToken == server.given + 1

\* login(): the server opens an account; API keys of the entry are kept.
Login(p, q) ==
  /\ MayChange /\ server.given < MaxTokens
  /\ server' = [server EXCEPT !.given = NextToken, !.accepted = @ \union {NextToken},
                              !.account[q] = NextToken]
  /\ Change(p, q, [memory[p][q] EXCEPT !.token = NextToken])
  /\ UNCHANGED loadError

AddKey(p, q, k) ==
  /\ MayChange /\ k \notin memory[p][q].keys
  /\ Change(p, q, [memory[p][q] EXCEPT !.keys = @ \union {k}])
  /\ UNCHANGED <<loadError, server>>

RemovedEntry == NoEntry

\* logout(): the server does not hear of it.
Logout(p, q) ==
  /\ MayChange /\ memory[p][q] # NoEntry
  /\ server' = [server EXCEPT !.account[q] = 0]
  /\ Change(p, q, RemovedEntry)
  /\ UNCHANGED loadError

\* reload(): the copy is replaced by the file if the lock can be had.
Reloaded(p) ==
  IF SyncLockable
  THEN /\ memory' = [memory EXCEPT ![p] = file] /\ loadError' = loadError \ {p}
       /\ lock' = Free /\ mishaps' = mishaps \union Noted(SyncOvertakes, "overtaken")
  ELSE /\ loadError' = loadError \union {p}
       /\ UNCHANGED <<memory, lock, mishaps>>

\* A process ends, in whatever state, and is started again: its lock stays behind.
Crash(p) ==
  /\ counters.failures < MaxFailures /\ Count("failures")
  /\ refresh' = [refresh EXCEPT ![p] = Idle]
  /\ IF SyncLockable
     THEN /\ memory' = [memory EXCEPT ![p] = file] /\ loadError' = loadError \ {p}
          /\ lock' = Free
     ELSE /\ memory' = [memory EXCEPT ![p] = [q \in Provider |-> NoEntry]]
          /\ loadError' = loadError \union {p}
          /\ UNCHANGED lock
  /\ mishaps' = mishaps \union Noted(lock.by \in Holders \ {p} /\ SyncLockable, "overtaken")
                        \union Noted(refresh[p].at \in {"fetching", "answered"}, "lost")
  /\ UNCHANGED <<file, server>>

-----------------------------------------------------------------------------
(* refreshOAuthTokenWithLock *)

Expired(t) == t # 0 /\ t \in server.expired

\* getApiKey() finds the token of its copy expired.
Begin(p, q) ==
  /\ refresh[p].at = "idle" /\ Expired(memory[p][q].token)
  /\ refresh' = [refresh EXCEPT ![p] = [Idle EXCEPT !.at = "waiting", !.provider = q]]
  /\ UNCHANGED <<file, memory, loadError, lock, server, counters, mishaps>>

\* (ReadFromCopy: the token of the instance's copy is refreshed.)
ReadFromCopy(p) == memory[p]

\* What the refresh goes by: the file, read under the lock.
ReadUnderLock(p) == file

\* The lock is free, or was not renewed for 30 s.  A token that is gone or that another
\* instance has refreshed needs no request, and the lock is given back at once.
Acquire(p) ==
  LET data == ReadUnderLock(p) q == refresh[p].provider
  IN /\ refresh[p].at = "waiting"
     /\ lock.by = Nobody \/ lock.age = "stale"
     /\ memory' = [memory EXCEPT ![p] = data]
     /\ loadError' = loadError \ {p}
     /\ mishaps' = mishaps \union Noted(lock.by \in Holders, "overtaken")
     /\ IF Expired(data[q].token)
        THEN /\ lock' = [by |-> p, age |-> "fresh"]
             /\ refresh' = [refresh EXCEPT ![p].at = "fetching", ![p].read = data,
                                           ![p].held = TRUE]
        ELSE /\ lock' = Free /\ refresh' = [refresh EXCEPT ![p] = Idle]
     /\ UNCHANGED <<file, server, counters>>

\* The retries are used up.
GiveUp(p) ==
  /\ refresh[p].at = "waiting" /\ lock.by # Nobody
  /\ refresh' = [refresh EXCEPT ![p] = [Idle EXCEPT !.at = "failing"]]
  /\ UNCHANGED <<file, memory, loadError, lock, server, counters, mishaps>>

Asked(p) == refresh[p].read[refresh[p].provider].token

\* The server exchanges the token, if it accepts it: the old one is good for nothing more.
Exchange(p) ==
  LET t == Asked(p) q == refresh[p].provider
  IN /\ refresh[p].at = "fetching" /\ t \in server.accepted /\ server.given < MaxTokens
     /\ server' = [server EXCEPT !.given = NextToken,
                                 !.accepted = (@ \ {t}) \union {NextToken},
                                 !.account[q] = IF @ = t THEN NextToken ELSE @]
     /\ refresh' = [refresh EXCEPT ![p].at = "answered", ![p].token = NextToken]
     /\ UNCHANGED <<file, memory, loadError, lock, counters, mishaps>>

\* The server refuses a token, or a request or its answer gets lost.
Refuse(p) ==
  /\ refresh[p].at = "fetching" /\ Asked(p) \notin server.accepted
  /\ lock' = Released(p)
  /\ refresh' = [refresh EXCEPT ![p] = [Idle EXCEPT !.at = "failing"]]
  /\ UNCHANGED <<file, memory, loadError, server, counters, mishaps>>

RequestFails(p) ==
  /\ p \in Holders /\ counters.failures < MaxFailures /\ Count("failures")
  /\ lock' = Released(p)
  /\ mishaps' = mishaps \union Noted(refresh[p].at = "answered", "lost")
  /\ refresh' = [refresh EXCEPT ![p] = [Idle EXCEPT !.at = "failing"]]
  /\ UNCHANGED <<file, memory, loadError, server>>

\* (MergedUnchanged: the answer is not put into the entry.)
MergedUnchanged(p) == refresh[p].read

\* What else was in the file when it was read is written with the answer.
Merged(p) == [refresh[p].read EXCEPT ![refresh[p].provider].token = refresh[p].token]

\* throwIfCompromised: nothing is written if the lock is known to be gone.
Answer(p) ==
  /\ refresh[p].at = "answered"
  /\ memory' = [memory EXCEPT ![p] = Merged(p)] /\ loadError' = loadError \ {p}
  /\ IF refresh[p].compromised
     THEN /\ refresh' = [refresh EXCEPT ![p] = [Idle EXCEPT !.at = "failing"]]
          /\ mishaps' = mishaps \union {"lost"}
          /\ UNCHANGED <<file, lock>>
     ELSE /\ file' = Merged(p)
          /\ lock' = Released(p)
          /\ refresh' = [refresh EXCEPT ![p] = Idle]
          /\ UNCHANGED mishaps
  /\ UNCHANGED <<server, counters>>

\* The catch of resolveCredentialApiKey: another instance may have refreshed the token.
Fails(p) ==
  /\ refresh[p].at = "failing"
  /\ Reloaded(p)
  /\ refresh' = [refresh EXCEPT ![p] = Idle]
  /\ UNCHANGED <<file, server, counters>>

\* Time passes.
Expire(t) ==
  /\ t \in 1..server.given /\ t \notin server.expired
  /\ server' = [server EXCEPT !.expired = @ \union {t}]
  /\ UNCHANGED <<file, memory, loadError, lock, refresh, counters, mishaps>>

-----------------------------------------------------------------------------
(* Specification *)

Next ==
  \/ \E p \in Instance, q \in Provider :
       Login(p, q) \/ Logout(p, q) \/ Begin(p, q) \/ \E k \in Key : AddKey(p, q, k)
  \/ \E p \in Instance :
       \/ LockRenewed(p) \/ Crash(p) \/ Acquire(p) \/ GiveUp(p) \/ Exchange(p) \/ Refuse(p)
       \/ RequestFails(p) \/ Answer(p) \/ Fails(p)
  \/ LockAges
  \/ \E t \in Token : Expire(t)

Spec == Init /\ [][Next]_vars

-----------------------------------------------------------------------------
(* Properties *)

\* The login of a provider stays in the file, or on its way there with a refresh, unless
\* the lock failed a change, a refresh or the file, or an instance wrote an old entry.
LoginKept ==
  \A q \in Provider : server.account[q] # 0 =>
    \/ file[q].token = server.account[q]
    \/ \E p \in Instance : refresh[p].at = "answered" /\ refresh[p].token = server.account[q]
    \/ mishaps # {}

\* No token is presented to the server a second time.
NoReuse ==
  \A p \in Instance : refresh[p].at = "fetching" =>
    Asked(p) \in server.accepted \/ mishaps \cap {"outdated", "overtaken", "lost"} # {}

\* One write changes one provider.
OneProvider ==
  [][Cardinality({q \in Provider : file'[q] # file[q]}) > 1 => "overtaken" \in mishaps]_vars

=============================================================================
