--------------------------- MODULE AuthStorageProofs ---------------------------
(* What a lock that nobody takes away guarantees, for any number of instances  *)
(* and providers: one write changes one provider, no token is presented twice, *)
(* and a login stays in the file.                                              *)
EXTENDS AuthStorage, FiniteSetTheorems, TLAPS

ServerType == [given : 0..MaxTokens, accepted : SUBSET Token, expired : SUBSET Token,
               account : [Provider -> 0..MaxTokens]]
LockType == [by : Instance \union {Nobody}, age : {"fresh", "old", "stale"}]

\* The records that the actions put together.
LEMMA RecordsTyped ==
  /\ NoEntry \in Entry /\ [q \in Provider |-> NoEntry] \in Data
  /\ Idle \in Refresh /\ Free \in LockType
<1>1. NoEntry \in Entry
  BY AuthAssumption DEF NoEntry, Entry
<1>2. [q \in Provider |-> NoEntry] \in Data
  BY <1>1 DEF Data
<1>3. Idle \in Refresh
  BY <1>2, AuthAssumption DEF Idle, Refresh
<1>4. Free \in LockType
  BY DEF Free, LockType
<1> QED BY <1>1, <1>2, <1>3, <1>4

\* A refresh begins, or its lock was not to be had.
LEMMA IdleTyped ==
  /\ \A q \in Provider : [Idle EXCEPT !.at = "waiting", !.provider = q] \in Refresh
  /\ [Idle EXCEPT !.at = "failing"] \in Refresh
BY RecordsTyped DEF Refresh, Idle

\* A change of an entry.
LEMMA EntryTyped ==
  ASSUME NEW e \in Entry
  PROVE  /\ \A t \in 0..MaxTokens : [e EXCEPT !.token = t] \in Entry
         /\ \A k \in Key : [e EXCEPT !.keys = @ \union {k}] \in Entry
BY DEF Entry

\* What becomes of a refresh record.
LEMMA RefreshTyped ==
  ASSUME NEW r \in Refresh
  PROVE  /\ [r EXCEPT !.held = FALSE] \in Refresh
         /\ [r EXCEPT !.held = FALSE, !.compromised = TRUE] \in Refresh
         /\ \A d \in Data : [r EXCEPT !.at = "fetching", !.read = d, !.held = TRUE] \in Refresh
         /\ \A t \in 0..MaxTokens : [r EXCEPT !.at = "answered", !.token = t] \in Refresh
BY DEF Refresh

\* The answer is merged into what was read.
LEMMA MergedTyped ==
  ASSUME NEW p \in Instance, refresh[p] \in Refresh
  PROVE  Merged(p) \in Data
<1>1. refresh[p].read \in Data /\ refresh[p].token \in 0..MaxTokens
  BY DEF Refresh
<1>2. ASSUME NEW q \in Provider, refresh[p].provider = q
      PROVE  Merged(p) \in Data
  BY <1>1, <1>2 DEF Merged, Data, Entry
<1>3. CASE refresh[p].provider \notin Provider
  BY <1>1, <1>3 DEF Merged, Data
<1> QED BY <1>2, <1>3

\* A counter goes up to its bound.
LEMMA CountTyped ==
  ASSUME TypeOK
  PROVE  /\ MayChange => counters' \in [changes : 0..MaxChanges, failures : 0..MaxFailures]
         /\ counters.failures < MaxFailures /\ Count("failures") =>
              counters' \in [changes : 0..MaxChanges, failures : 0..MaxFailures]
BY AuthAssumption DEF TypeOK, MayChange, Count

\* One instance's refresh is replaced.
LEMMA PutTyped ==
  ASSUME TypeOK, NEW p \in Instance, NEW r \in Refresh, refresh' = [refresh EXCEPT ![p] = r]
  PROVE  refresh' \in [Instance -> Refresh]
BY DEF TypeOK

\* A change of one entry.
LEMMA ChangeTyped ==
  ASSUME TypeOK, NEW p \in Instance, NEW q \in Provider, NEW e \in Entry, Change(p, q, e)
  PROVE  /\ file' \in Data /\ memory' \in [Instance -> Data] /\ lock' \in LockType
         /\ refresh' \in [Instance -> Refresh] /\ mishaps' \subseteq Mishap
<1>1. memory' \in [Instance -> Data]
  BY DEF TypeOK, Change, Data
<1>2. CASE p \notin loadError /\ SyncLockable
  <2>1. file' \in Data
    BY <1>2 DEF TypeOK, Change, Persisted, Data
  <2>2. refresh' = [refresh EXCEPT ![p] = [refresh[p] EXCEPT !.held = FALSE]] /\ lock' = Free
    BY <1>2 DEF Change, SyncUnlocked, TypeOK
  <2>3. refresh' \in [Instance -> Refresh]
    BY <2>2, RefreshTyped, PutTyped DEF TypeOK
  <2>4. mishaps' \subseteq Mishap
    BY <1>2 DEF TypeOK, Change, Noted, Mishap
  <2> QED BY <1>1, <2>1, <2>2, <2>3, <2>4, RecordsTyped
<1>3. CASE ~(p \notin loadError /\ SyncLockable)
  BY <1>1, <1>3 DEF TypeOK, Change, Mishap, LockType
<1> QED BY <1>2, <1>3

\* A reload.
LEMMA ReloadTyped ==
  ASSUME TypeOK, NEW p \in Instance, Reloaded(p)
  PROVE  /\ memory' \in [Instance -> Data] /\ loadError' \subseteq Instance
         /\ lock' \in LockType /\ mishaps' \subseteq Mishap
BY RecordsTyped DEF TypeOK, Reloaded, Noted, Mishap, LockType

\* A server's next token.
LEMMA ServerTyped ==
  ASSUME NEW s \in ServerType, NEW t \in Token, NEW A \in SUBSET Token,
         NEW acc \in [Provider -> 0..MaxTokens]
  PROVE  [s EXCEPT !.given = t, !.accepted = A, !.account = acc] \in ServerType
<1> t \in 0..MaxTokens
  BY AuthAssumption DEF Token
<1> QED BY DEF ServerType

\* The types are kept by the user's changes.
LEMMA ChangesTyped ==
  ASSUME TypeOK, NEW p \in Instance, NEW q \in Provider,
         Login(p, q) \/ Logout(p, q) \/ \E k \in Key : AddKey(p, q, k)
  PROVE  TypeOK'
<1>1. memory[p][q] \in Entry
  BY DEF TypeOK, Data
<1>2. CASE Login(p, q)
  <2>1. NextToken \in Token
    BY <1>2, AuthAssumption DEF Login, TypeOK, NextToken, Token
  <2>2. server' \in ServerType
    <3>1. server \in ServerType /\ server.accepted \union {NextToken} \in SUBSET Token
      BY <2>1 DEF TypeOK, ServerType
    <3>2. [server.account EXCEPT ![q] = NextToken] \in [Provider -> 0..MaxTokens]
      BY <2>1, <3>1, AuthAssumption DEF ServerType, Token
    <3>3. server' = [server EXCEPT !.given = NextToken,
                                   !.accepted = server.accepted \union {NextToken},
                                   !.account = [server.account EXCEPT ![q] = NextToken]]
      BY <1>2 DEF Login
    <3> QED BY <2>1, <3>1, <3>2, <3>3, ServerTyped
  <2>3. [memory[p][q] EXCEPT !.token = NextToken] \in Entry
    BY <1>1, <2>1, EntryTyped DEF Token
  <2> QED BY <1>2, <2>2, <2>3, ChangeTyped, CountTyped DEF Login, TypeOK, ServerType, LockType
<1>3. CASE Logout(p, q)
  <2>1. server' \in ServerType
    BY <1>3, AuthAssumption DEF Logout, TypeOK, ServerType
  <2> QED BY <1>3, <2>1, RecordsTyped, ChangeTyped, CountTyped
          DEF Logout, RemovedEntry, TypeOK, ServerType, LockType
<1>4. ASSUME NEW k \in Key, AddKey(p, q, k)
      PROVE  TypeOK'
  BY <1>1, <1>4, EntryTyped, ChangeTyped, CountTyped DEF AddKey, TypeOK, ServerType, LockType
<1> QED BY <1>2, <1>3, <1>4

\* The types are kept by the refreshes, the lock and the server.
LEMMA RefreshesTyped ==
  ASSUME TypeOK, Next,
         ~ \E p \in Instance, q \in Provider :
             Login(p, q) \/ Logout(p, q) \/ \E k \in Key : AddKey(p, q, k)
  PROVE  TypeOK'
<1> USE DEF ServerType, LockType
<1>1. ASSUME NEW p \in Instance, NEW q \in Provider, Begin(p, q)
      PROVE  TypeOK'
  <2>1. refresh' \in [Instance -> Refresh]
    BY <1>1, IdleTyped, PutTyped DEF Begin
  <2> QED BY <1>1, <2>1 DEF Begin, TypeOK
<1>2. ASSUME NEW p \in Instance, LockRenewed(p)
      PROVE  TypeOK'
  <2>1. lock' \in LockType
    BY <1>2 DEF LockRenewed, TypeOK
  <2>2. CASE lock.by = p
    BY <1>2, <2>1, <2>2 DEF LockRenewed, TypeOK
  <2>3. CASE lock.by # p
    <3>1. refresh' = [refresh EXCEPT ![p] = [refresh[p] EXCEPT !.held = FALSE, !.compromised = TRUE]]
      BY <1>2, <2>3 DEF LockRenewed, TypeOK
    <3>2. refresh' \in [Instance -> Refresh]
      BY <3>1, RefreshTyped, PutTyped DEF TypeOK
    <3> QED BY <1>2, <2>1, <3>2 DEF LockRenewed, TypeOK
  <2> QED BY <2>2, <2>3
<1>3. ASSUME NEW p \in Instance, Crash(p)
      PROVE  TypeOK'
  <2>1. refresh' \in [Instance -> Refresh]
    BY <1>3, RecordsTyped, PutTyped DEF Crash
  <2>2. memory' \in [Instance -> Data] /\ loadError' \subseteq Instance /\ lock' \in LockType
    BY <1>3, RecordsTyped DEF Crash, TypeOK
  <2>3. mishaps' \subseteq Mishap
    BY <1>3 DEF Crash, TypeOK, Noted, Mishap
  <2> QED BY <1>3, <2>1, <2>2, <2>3, CountTyped DEF Crash, TypeOK
<1>4. ASSUME NEW p \in Instance, Acquire(p)
      PROVE  TypeOK'
  <2>1. memory' \in [Instance -> Data] /\ loadError' \subseteq Instance
    BY <1>4 DEF Acquire, ReadUnderLock, TypeOK
  <2>2. mishaps' \subseteq Mishap
    BY <1>4 DEF Acquire, TypeOK, Noted, Mishap
  <2>3. lock' \in LockType
    BY <1>4, RecordsTyped DEF Acquire
  <2>4. refresh' \in [Instance -> Refresh]
    <3>1. CASE Expired(file[refresh[p].provider].token)
      <4>1. refresh' = [refresh EXCEPT ![p] = [refresh[p] EXCEPT !.at = "fetching", !.read = file,
                                                                !.held = TRUE]]
        BY <1>4, <3>1 DEF Acquire, ReadUnderLock, TypeOK
      <4> QED BY <4>1, RefreshTyped, PutTyped DEF TypeOK
    <3>2. CASE ~Expired(file[refresh[p].provider].token)
      BY <1>4, <3>2, RecordsTyped, PutTyped DEF Acquire, ReadUnderLock
    <3> QED BY <3>1, <3>2
  <2> QED BY <1>4, <2>1, <2>2, <2>3, <2>4 DEF Acquire, TypeOK
<1>5. ASSUME NEW p \in Instance, GiveUp(p)
      PROVE  TypeOK'
  <2>1. refresh' \in [Instance -> Refresh]
    BY <1>5, IdleTyped, PutTyped DEF GiveUp
  <2> QED BY <1>5, <2>1 DEF GiveUp, TypeOK
<1>6. ASSUME NEW p \in Instance, Exchange(p)
      PROVE  TypeOK'
  <2>1. NextToken \in Token
    BY <1>6, AuthAssumption DEF Exchange, TypeOK, NextToken, Token
  <2>2. refresh' = [refresh EXCEPT ![p] = [refresh[p] EXCEPT !.at = "answered", !.token = NextToken]]
    BY <1>6 DEF Exchange, TypeOK
  <2>3. refresh' \in [Instance -> Refresh]
    <3>1. NextToken \in 0..MaxTokens /\ refresh[p] \in Refresh
      BY <2>1, AuthAssumption DEF TypeOK, Token
    <3>2. [refresh[p] EXCEPT !.at = "answered", !.token = NextToken] \in Refresh
      BY <3>1, RefreshTyped
    <3> QED BY <2>2, <3>2, PutTyped
  <2>4. server' \in ServerType
    <3> DEFINE q == refresh[p].provider
               v == IF server.account[q] = Asked(p) THEN NextToken ELSE server.account[q]
               acc == [server.account EXCEPT ![q] = v]
               A == (server.accepted \ {Asked(p)}) \union {NextToken}
    <3>1. server \in ServerType /\ A \in SUBSET Token
      BY <2>1 DEF TypeOK, ServerType
    <3>2. acc \in [Provider -> 0..MaxTokens]
      <4>1. q \in Provider => v \in 0..MaxTokens
        BY <2>1, <3>1, AuthAssumption DEF ServerType, Token
      <4> HIDE DEF v
      <4> QED BY <3>1, <4>1 DEF ServerType
    <3>3. server' = [server EXCEPT !.given = NextToken, !.accepted = A, !.account = acc]
      BY <1>6 DEF Exchange
    <3> HIDE DEF A, acc
    <3> QED BY <2>1, <3>1, <3>2, <3>3, ServerTyped
  <2> QED BY <1>6, <2>3, <2>4 DEF Exchange, TypeOK
<1>7. ASSUME NEW p \in Instance, Refuse(p) \/ RequestFails(p)
      PROVE  TypeOK'
  <2>1. refresh' \in [Instance -> Refresh]
    BY <1>7, IdleTyped, PutTyped DEF Refuse, RequestFails
  <2>2. lock' \in LockType
    BY <1>7, RecordsTyped DEF Refuse, RequestFails, Released, TypeOK
  <2>3. mishaps' \subseteq Mishap
    BY <1>7 DEF Refuse, RequestFails, TypeOK, Noted, Mishap
  <2> QED BY <1>7, <2>1, <2>2, <2>3, CountTyped DEF Refuse, RequestFails, TypeOK
<1>8. ASSUME NEW p \in Instance, Answer(p)
      PROVE  TypeOK'
  <2>1. Merged(p) \in Data
    BY MergedTyped DEF TypeOK
  <2>2. file' \in Data /\ memory' \in [Instance -> Data] /\ loadError' \subseteq Instance
    BY <1>8, <2>1 DEF Answer, TypeOK
  <2>3. lock' \in LockType
    BY <1>8, RecordsTyped DEF Answer, Released, TypeOK
  <2>4. refresh' \in [Instance -> Refresh]
    BY <1>8, RecordsTyped, IdleTyped, PutTyped DEF Answer
  <2>5. mishaps' \subseteq Mishap
    BY <1>8 DEF Answer, TypeOK, Mishap
  <2> QED BY <1>8, <2>2, <2>3, <2>4, <2>5 DEF Answer, TypeOK
<1>9. ASSUME NEW p \in Instance, Fails(p)
      PROVE  TypeOK'
  <2>1. refresh' \in [Instance -> Refresh]
    BY <1>9, RecordsTyped, PutTyped DEF Fails
  <2> QED BY <1>9, <2>1, ReloadTyped DEF Fails, TypeOK
<1>10. CASE LockAges
  BY <1>10, CountTyped DEF LockAges, TypeOK
<1>11. ASSUME NEW t \in Token, Expire(t)
       PROVE  TypeOK'
  BY <1>11 DEF Expire, TypeOK
<1> QED BY <1>1, <1>2, <1>3, <1>4, <1>5, <1>6, <1>7, <1>8, <1>9, <1>10, <1>11 DEF Next

\* Every variable has its type.
THEOREM AuthTypes == Spec => []TypeOK
<1>1. Init => TypeOK
  BY RecordsTyped, AuthAssumption DEF Init, TypeOK, LockType, Token
<1>2. TypeOK /\ [Next]_vars => TypeOK'
  <2>1. CASE UNCHANGED vars
    BY <2>1 DEF vars, TypeOK
  <2> QED BY <2>1, ChangesTyped, RefreshesTyped
<1> QED BY <1>1, <1>2, PTL DEF Spec

-----------------------------------------------------------------------------
(* Whoever waits for the server has the lock, and the file is as it read it. *)

Alone ==
  "overtaken" \notin mishaps =>
    \A p \in Holders : /\ lock.by = p /\ refresh[p].read = file
                       /\ refresh[p].held = TRUE /\ refresh[p].compromised = FALSE

\* A refresh that waits for the lock is one of a provider, and does not know of an earlier one.
WaitsAnew ==
  \A p \in Instance : refresh[p].at = "waiting" =>
    refresh[p].compromised = FALSE /\ refresh[p].provider \in Provider

\* A refresh whose record is not replaced goes on or stands still as it did.
LEMMA OthersHold ==
  ASSUME TypeOK, NEW p \in Instance, NEW r, refresh' = [refresh EXCEPT ![p] = r]
  PROVE  /\ refresh'[p] = r
         /\ \A i \in Instance \ {p} : refresh'[i] = refresh[i]
         /\ r.at \notin {"fetching", "answered"} => Holders' = Holders \ {p}
         /\ r.at \in {"fetching", "answered"} => Holders' = Holders \union {p}
         /\ r.at = refresh[p].at => Holders' = Holders
BY DEF TypeOK, Holders

\* The records that the actions put for one instance, by their stage.
LEMMA Stages ==
  /\ Idle.at = "idle" /\ [Idle EXCEPT !.at = "failing"].at = "failing"
  /\ \A q \in Provider : [Idle EXCEPT !.at = "waiting", !.provider = q].at = "waiting"
BY DEF Idle

\* Only a record that says so waits.
LEMMA WaitsOthers ==
  ASSUME TypeOK, WaitsAnew, NEW p \in Instance, NEW r, refresh' = [refresh EXCEPT ![p] = r],
         r.at = "waiting" => r.compromised = FALSE /\ r.provider \in Provider
  PROVE  WaitsAnew'
BY DEF TypeOK, WaitsAnew

\* A new refresh begins with a record of its own.
LEMMA WaitsAnewKept ==
  ASSUME TypeOK, WaitsAnew, Next
  PROVE  WaitsAnew'
<1>1. ASSUME NEW p \in Instance, NEW q \in Provider,
             Login(p, q) \/ Logout(p, q) \/ \E k \in Key : AddKey(p, q, k)
      PROVE  WaitsAnew'
  <2> DEFINE r == [refresh[p] EXCEPT !.held = FALSE]
  <2>1. UNCHANGED refresh \/ refresh' = [refresh EXCEPT ![p] = r]
    BY <1>1 DEF Login, Logout, AddKey, Change, SyncUnlocked, TypeOK
  <2>2. r.at = refresh[p].at /\ r.compromised = refresh[p].compromised
        /\ r.provider = refresh[p].provider
    BY DEF TypeOK, Refresh
  <2> HIDE DEF r
  <2>3. CASE refresh' = [refresh EXCEPT ![p] = r]
    BY <2>2, <2>3, WaitsOthers DEF WaitsAnew
  <2> QED BY <2>1, <2>3 DEF WaitsAnew
<1>2. ASSUME NEW p \in Instance, NEW q \in Provider, Begin(p, q)
      PROVE  WaitsAnew'
  <2>1. [Idle EXCEPT !.at = "waiting", !.provider = q].compromised = FALSE
        /\ [Idle EXCEPT !.at = "waiting", !.provider = q].provider \in Provider
    BY DEF Idle
  <2> QED BY <1>2, <2>1, WaitsOthers DEF Begin
<1>3. ASSUME NEW p \in Instance, LockRenewed(p)
      PROVE  WaitsAnew'
  <2> DEFINE r == [refresh[p] EXCEPT !.held = FALSE, !.compromised = TRUE]
  <2>1. UNCHANGED refresh \/ refresh' = [refresh EXCEPT ![p] = r]
    BY <1>3 DEF LockRenewed, TypeOK
  <2>2. r.at # "waiting"
    BY <1>3 DEF LockRenewed, Holders, TypeOK, Refresh
  <2> HIDE DEF r
  <2> QED BY <2>1, <2>2, WaitsOthers DEF WaitsAnew
<1>4. ASSUME NEW p \in Instance, Exchange(p) \/ Acquire(p)
      PROVE  WaitsAnew'
  <2>1. PICK r : refresh' = [refresh EXCEPT ![p] = r] /\ r.at # "waiting"
    <3>1. refresh[p] \in Refresh
      BY DEF TypeOK
    <3>2. [refresh[p] EXCEPT !.at = "answered", !.token = NextToken].at = "answered"
      BY <3>1 DEF Refresh
    <3>3. [refresh[p] EXCEPT !.at = "fetching", !.read = file, !.held = TRUE].at = "fetching"
      BY <3>1 DEF Refresh
    <3>4. CASE Exchange(p)
      <4>1. refresh' = [refresh EXCEPT ![p] = [refresh[p] EXCEPT !.at = "answered",
                                                                !.token = NextToken]]
        BY <3>4 DEF Exchange, TypeOK
      <4> QED BY <3>2, <4>1
    <3>5. CASE Acquire(p) /\ Expired(file[refresh[p].provider].token)
      <4>1. refresh' = [refresh EXCEPT ![p] = [refresh[p] EXCEPT !.at = "fetching", !.read = file,
                                                                !.held = TRUE]]
        BY <3>5 DEF Acquire, ReadUnderLock, TypeOK
      <4> QED BY <3>3, <4>1
    <3>6. CASE Acquire(p) /\ ~Expired(file[refresh[p].provider].token)
      BY <3>6, Stages DEF Acquire, ReadUnderLock
    <3> QED BY <1>4, <3>4, <3>5, <3>6
  <2> QED BY <2>1, WaitsOthers
<1>5. ASSUME NEW p \in Instance,
             Crash(p) \/ GiveUp(p) \/ Refuse(p) \/ RequestFails(p) \/ Answer(p) \/ Fails(p)
      PROVE  WaitsAnew'
  <2>1. PICK r : refresh' = [refresh EXCEPT ![p] = r] /\ r.at # "waiting"
    BY <1>5, Stages DEF Crash, GiveUp, Refuse, RequestFails, Answer, Fails
  <2> QED BY <2>1, WaitsOthers
<1>6. CASE LockAges \/ \E t \in Token : Expire(t)
  BY <1>6 DEF LockAges, Expire, WaitsAnew
<1> QED BY <1>1, <1>2, <1>3, <1>4, <1>5, <1>6 DEF Next

\* One synchronous write by an instance leaves the holders to themselves or overtakes them.
LEMMA ChangeAlone ==
  ASSUME TypeOK, Alone, NEW p \in Instance, NEW q \in Provider, NEW e, Change(p, q, e)
  PROVE  Alone'
<1>1. CASE p \notin loadError /\ SyncLockable
  <2>1. refresh' = [refresh EXCEPT ![p] = [refresh[p] EXCEPT !.held = FALSE]]
    BY <1>1 DEF Change, SyncUnlocked, TypeOK
  <2>2. refresh[p] \in Refresh
    BY DEF TypeOK
  <2>3. [refresh[p] EXCEPT !.held = FALSE].at = refresh[p].at
    BY <2>2 DEF Refresh
  <2>4. Holders' = Holders
    BY <2>1, <2>3, OthersHold
  <2>5. Holders = {} \/ "overtaken" \in mishaps'
    BY <1>1 DEF Alone, Change, SyncOvertakes, Noted, Mishap
  <2> QED BY <2>4, <2>5 DEF Alone
<1>2. CASE ~(p \notin loadError /\ SyncLockable)
  BY <1>2 DEF Change, Alone, Holders
<1> QED BY <1>1, <1>2

\* An instance that is no holder afterwards, and a file that stays as it is.
LEMMA LeavesAlone ==
  ASSUME TypeOK, Alone, NEW p \in Instance, NEW r, refresh' = [refresh EXCEPT ![p] = r],
         r.at \notin {"fetching", "answered"}, UNCHANGED file, mishaps \subseteq mishaps',
         "overtaken" \in mishaps' \/ lock' = lock \/ Holders \subseteq {p}
  PROVE  Alone'
<1>1. Holders' = Holders \ {p} /\ \A i \in Instance \ {p} : refresh'[i] = refresh[i]
  BY OthersHold
<1>2. CASE "overtaken" \in mishaps'
  BY <1>2 DEF Alone
<1>3. CASE "overtaken" \notin mishaps' /\ Holders \subseteq {p}
  BY <1>1, <1>3 DEF Alone
<1>4. CASE "overtaken" \notin mishaps' /\ lock' = lock
  BY <1>1, <1>4 DEF Alone, Holders
<1> QED BY <1>2, <1>3, <1>4

\* A holder keeps its lock unless somebody takes it away.
LEMMA AloneKept ==
  ASSUME TypeOK, Alone, WaitsAnew, Next
  PROVE  Alone'
<1>1. ASSUME NEW p \in Instance, NEW q \in Provider,
             Login(p, q) \/ Logout(p, q) \/ \E k \in Key : AddKey(p, q, k)
      PROVE  Alone'
  BY <1>1, ChangeAlone DEF Login, Logout, AddKey
<1>2. ASSUME NEW p \in Instance, NEW q \in Provider, Begin(p, q)
      PROVE  Alone'
  <2>1. PICK r : refresh' = [refresh EXCEPT ![p] = r] /\ r.at = "waiting"
    BY <1>2, Stages DEF Begin
  <2> QED BY <1>2, <2>1, LeavesAlone DEF Begin
<1>3. ASSUME NEW p \in Instance, LockRenewed(p)
      PROVE  Alone'
  <2>1. CASE lock.by = p
    <3>1. lock'.by = lock.by
      BY <1>3, <2>1 DEF LockRenewed, TypeOK
    <3> QED BY <1>3, <2>1, <3>1 DEF LockRenewed, Alone, Holders
  <2>2. CASE lock.by # p
    BY <1>3, <2>2 DEF LockRenewed, Alone
  <2> QED BY <2>1, <2>2
<1>4. ASSUME NEW p \in Instance, Crash(p)
      PROVE  Alone'
  <2>1. "overtaken" \in mishaps' \/ lock' = lock \/ Holders \subseteq {p}
    <3>1. CASE SyncLockable
      BY <1>4, <3>1 DEF Crash, Alone, Noted
    <3>2. CASE ~SyncLockable
      BY <1>4, <3>2 DEF Crash
    <3> QED BY <3>1, <3>2
  <2>2. mishaps \subseteq mishaps' /\ UNCHANGED file /\ refresh' = [refresh EXCEPT ![p] = Idle]
    BY <1>4 DEF Crash
  <2> QED BY <2>1, <2>2, Stages, LeavesAlone
<1>5. ASSUME NEW p \in Instance, Acquire(p)
      PROVE  Alone'
  <2>1. Holders = {} \/ "overtaken" \in mishaps'
    BY <1>5 DEF Acquire, Alone, Noted
  <2>2. mishaps \subseteq mishaps' /\ UNCHANGED file
    BY <1>5 DEF Acquire
  <2>3. CASE Expired(file[refresh[p].provider].token)
    <3> DEFINE r == [refresh[p] EXCEPT !.at = "fetching", !.read = file, !.held = TRUE]
    <3>1. refresh' = [refresh EXCEPT ![p] = r] /\ lock' = [by |-> p, age |-> "fresh"]
      BY <1>5, <2>3 DEF Acquire, ReadUnderLock, TypeOK
    <3>2. r.at = "fetching" /\ r.read = file /\ r.held = TRUE
          /\ r.compromised = refresh[p].compromised
      BY DEF TypeOK, Refresh
    <3>3. CASE "overtaken" \in mishaps'
      BY <3>3 DEF Alone
    <3>4. CASE Holders = {}
      <4>1. Holders' = {p} /\ refresh'[p] = r
        BY <3>1, <3>2, <3>4, OthersHold
      <4>2. r.compromised = FALSE
        BY <1>5, <3>2 DEF Acquire, WaitsAnew
      <4>3. lock'.by = p
        BY <3>1
      <4> HIDE DEF r
      <4> QED BY <4>1, <4>2, <4>3, <3>2, <2>2 DEF Alone
    <3> QED BY <2>1, <3>3, <3>4
  <2>4. CASE ~Expired(file[refresh[p].provider].token)
    <3>1. refresh' = [refresh EXCEPT ![p] = Idle]
      BY <1>5, <2>4 DEF Acquire, ReadUnderLock
    <3> QED BY <2>1, <2>2, <3>1, Stages, LeavesAlone
  <2> QED BY <2>3, <2>4
<1>6. ASSUME NEW p \in Instance, GiveUp(p)
      PROVE  Alone'
  <2>1. PICK r : refresh' = [refresh EXCEPT ![p] = r] /\ r.at = "failing"
    BY <1>6, Stages DEF GiveUp
  <2> QED BY <1>6, <2>1, LeavesAlone DEF GiveUp
<1>7. ASSUME NEW p \in Instance, Exchange(p)
      PROVE  Alone'
  <2> DEFINE r == [refresh[p] EXCEPT !.at = "answered", !.token = NextToken]
  <2>1. refresh' = [refresh EXCEPT ![p] = r]
    BY <1>7 DEF Exchange, TypeOK
  <2>2. r.at = "answered" /\ r.read = refresh[p].read /\ r.held = refresh[p].held
        /\ r.compromised = refresh[p].compromised
    BY DEF TypeOK, Refresh
  <2>3. p \in Holders /\ UNCHANGED <<file, lock, mishaps>>
    BY <1>7 DEF Exchange, Holders
  <2> HIDE DEF r
  <2>4. Holders' = Holders /\ refresh'[p] = r /\ \A i \in Instance \ {p} : refresh'[i] = refresh[i]
    <3>1. \A i \in Instance \ {p} : refresh'[i] = refresh[i]
      BY <2>1, OthersHold
    <3>2. refresh'[p] = r /\ Holders' = Holders \union {p}
      BY <2>1, <2>2, OthersHold
    <3> QED BY <2>3, <3>1, <3>2
  <2> QED BY <2>2, <2>3, <2>4 DEF Alone, Holders
<1>8. ASSUME NEW p \in Instance, Refuse(p) \/ RequestFails(p)
      PROVE  Alone'
  <2>1. p \in Holders /\ mishaps \subseteq mishaps' /\ UNCHANGED file
        /\ refresh' = [refresh EXCEPT ![p] = [Idle EXCEPT !.at = "failing"]]
    BY <1>8 DEF Refuse, RequestFails, Holders
  <2>2. "overtaken" \in mishaps' \/ Holders \subseteq {p}
    BY <2>1 DEF Alone
  <2> QED BY <2>1, <2>2, Stages, LeavesAlone
<1>9. ASSUME NEW p \in Instance, Answer(p)
      PROVE  Alone'
  <2>1. Holders \subseteq {p} \/ "overtaken" \in mishaps'
    BY <1>9 DEF Alone, Answer, Holders
  <2>2. PICK r : refresh' = [refresh EXCEPT ![p] = r] /\ r.at \notin {"fetching", "answered"}
    BY <1>9, Stages DEF Answer
  <2>3. Holders' = Holders \ {p}
    BY <2>2, OthersHold
  <2> QED BY <2>1, <2>3 DEF Alone
<1>10. ASSUME NEW p \in Instance, Fails(p)
       PROVE  Alone'
  <2>1. "overtaken" \in mishaps' \/ lock' = lock \/ Holders = {}
    BY <1>10 DEF Fails, Reloaded, SyncOvertakes, Noted, Alone
  <2>2. mishaps \subseteq mishaps'
    BY <1>10 DEF Fails, Reloaded
  <2> QED BY <1>10, <2>1, <2>2, Stages, LeavesAlone DEF Fails
<1>11. CASE LockAges
  <2>1. lock'.by = lock.by
    BY <1>11 DEF LockAges, TypeOK
  <2> QED BY <1>11, <2>1 DEF LockAges, Alone, Holders
<1>12. ASSUME NEW t \in Token, Expire(t)
       PROVE  Alone'
  BY <1>12 DEF Expire, Alone, Holders
<1> QED BY <1>1, <1>2, <1>3, <1>4, <1>5, <1>6, <1>7, <1>8, <1>9, <1>10, <1>11, <1>12 DEF Next

\* The file changes for one provider at a time.
LEMMA OneAtATime ==
  ASSUME TypeOK, Alone, Next, "overtaken" \notin mishaps
  PROVE  UNCHANGED file \/ \E q : \A o \in Provider \ {q} : file'[o] = file[o]
<1>1. ASSUME NEW p \in Instance, NEW q \in Provider,
             Login(p, q) \/ Logout(p, q) \/ \E k \in Key : AddKey(p, q, k)
      PROVE  UNCHANGED file \/ \A o \in Provider \ {q} : file'[o] = file[o]
  BY <1>1 DEF Login, Logout, AddKey, Change, Persisted, TypeOK, Data
<1>2. ASSUME NEW p \in Instance, Answer(p)
      PROVE  UNCHANGED file \/ \A o \in Provider \ {refresh[p].provider} : file'[o] = file[o]
  <2>1. refresh[p].read = file /\ ~refresh[p].compromised
    BY <1>2 DEF Answer, Alone, Holders
  <2> QED BY <1>2, <2>1 DEF Answer, Merged, TypeOK, Data
<1>3. CASE ~ \E p \in Instance : \/ Answer(p)
                                 \/ \E q \in Provider :
                                      Login(p, q) \/ Logout(p, q) \/ \E k \in Key : AddKey(p, q, k)
  BY <1>3 DEF Next, Begin, LockRenewed, Crash, Acquire, GiveUp, Exchange, Refuse, RequestFails,
              Fails, LockAges, Expire
<1> QED BY <1>1, <1>2, <1>3

\* A write of auth.json changes the entry of one provider only, as long as no lock has been
\* taken away from an instance that goes on using it.
THEOREM OneProviderAtATime == Spec => OneProvider
<1>1. Init => Alone /\ WaitsAnew
  BY Stages DEF Init, Alone, WaitsAnew, Holders
<1>2. TypeOK /\ Alone /\ WaitsAnew /\ [Next]_vars => (Alone /\ WaitsAnew)'
  BY AloneKept, WaitsAnewKept DEF vars, Alone, WaitsAnew, Holders
<1>3. TypeOK /\ Alone /\ [Next]_vars =>
        [Cardinality({q \in Provider : file'[q] # file[q]}) > 1 => "overtaken" \in mishaps]_vars
  <2> SUFFICES ASSUME TypeOK, Alone, Next, "overtaken" \notin mishaps
               PROVE  ~(Cardinality({q \in Provider : file'[q] # file[q]}) > 1)
    OBVIOUS
  <2>1. PICK q : \A o \in Provider \ {q} : file'[o] = file[o]
    BY OneAtATime
  <2>2. {o \in Provider : file'[o] # file[o]} \subseteq {q}
    BY <2>1
  <2>3. IsFiniteSet({q}) /\ Cardinality({q}) = 1
    BY FS_Singleton
  <2>4. /\ Cardinality({o \in Provider : file'[o] # file[o]}) <= Cardinality({q})
        /\ IsFiniteSet({o \in Provider : file'[o] # file[o]})
    BY <2>2, <2>3, FS_Subset
  <2>5. Cardinality({o \in Provider : file'[o] # file[o]}) \in Nat
    BY <2>4, FS_CardinalityType
  <2> QED BY <2>3, <2>4, <2>5
<1> QED BY <1>1, <1>2, <1>3, AuthTypes, PTL DEF Spec, OneProvider

-----------------------------------------------------------------------------
(* The file holds tokens that the server accepts. *)

Clean == mishaps \cap {"outdated", "overtaken", "lost"} = {}
Answered(q) == {p \in Instance : refresh[p].at = "answered" /\ refresh[p].provider = q}

TokensGiven == \A q \in Provider : file[q].token <= server.given
TokensDiffer ==
  \A q, o \in Provider : q # o /\ file[q].token = file[o].token => file[q].token = 0
TokensGood ==
  \A q \in Provider : file[q].token = 0 \/ file[q].token \in server.accepted \/ Answered(q) # {}
AsksForToken ==
  \A p \in Instance : refresh[p].at = "fetching" =>
    refresh[p].provider \in Provider /\ Asked(p) # 0
AnswersNew ==
  \A p \in Instance : refresh[p].at = "answered" =>
    /\ refresh[p].provider \in Provider
    /\ refresh[p].token \in server.accepted /\ refresh[p].token <= server.given
    /\ \A q \in Provider : refresh[p].token # file[q].token

Sound == Clean => TokensGiven /\ TokensDiffer /\ TokensGood /\ AsksForToken /\ AnswersNew

\* The token of an account is in the file, or with the answer that replaces it there.
AccountKnown ==
  mishaps = {} =>
    \A q \in Provider : server.account[q] # 0 =>
      /\ \A p \in Answered(q) : refresh[p].token = server.account[q]
      /\ Answered(q) = {} => file[q].token = server.account[q]

TokenInv == TypeOK /\ Alone /\ WaitsAnew /\ Sound /\ AccountKnown

\* A change in a clean history is made in memory only, or while nobody asks a server.
LEMMA CleanChange ==
  ASSUME TypeOK, Alone, NEW p \in Instance, NEW q \in Provider, NEW e \in Entry, Change(p, q, e)
  PROVE  /\ mishaps \subseteq mishaps'
         /\ \/ "overtaken" \in mishaps'
            \/ UNCHANGED <<file, refresh>> /\ "unsaved" \in mishaps'
            \/ /\ Holders = {} /\ Holders' = {}
               /\ file' = [file EXCEPT ![q] = e]
               /\ file[q] # memory[p][q] => "outdated" \in mishaps'
<1>1. CASE p \notin loadError /\ SyncLockable
  <2>1. refresh' = [refresh EXCEPT ![p] = [refresh[p] EXCEPT !.held = FALSE]]
    BY <1>1 DEF Change, SyncUnlocked, TypeOK
  <2>2. [refresh[p] EXCEPT !.held = FALSE].at = refresh[p].at
    BY DEF TypeOK, Refresh
  <2>3. Holders' = Holders
    BY <2>1, <2>2, OthersHold
  <2>4. Holders = {} \/ "overtaken" \in mishaps'
    BY <1>1 DEF Alone, Change, SyncOvertakes, Noted
  <2> QED BY <1>1, <2>3, <2>4 DEF Change, Persisted, Noted
<1>2. CASE ~(p \notin loadError /\ SyncLockable)
  BY <1>2 DEF Change
<1> QED BY <1>1, <1>2

\* Nobody answers whom nobody asked.
LEMMA NoHolders ==
  ASSUME Holders = {}
  PROVE  /\ \A q : Answered(q) = {}
         /\ \A p \in Instance : refresh[p].at \notin {"fetching", "answered"}
BY DEF Holders, Answered

\* Histories stay unclean.
LEMMA CleanBefore ==
  ASSUME mishaps \subseteq mishaps'
  PROVE  /\ Clean' => Clean
         /\ mishaps' = {} => mishaps = {} /\ Clean' /\ Clean
BY DEF Clean

\* An instance that neither has the answer nor asks any more changes nothing for the tokens.
LEMMA LeavesSound ==
  ASSUME TokenInv, NEW p \in Instance, NEW r, refresh' = [refresh EXCEPT ![p] = r],
         r.at \notin {"fetching", "answered"}, UNCHANGED <<file, server>>,
         mishaps \subseteq mishaps', refresh[p].at # "answered" \/ "lost" \in mishaps'
  PROVE  Sound' /\ AccountKnown'
<1>1. CASE "lost" \in mishaps'
  BY <1>1 DEF Sound, AccountKnown, Clean
<1>2. CASE refresh[p].at # "answered"
  <2>1. refresh'[p].at \notin {"fetching", "answered"}
        /\ \A i \in Instance \ {p} : refresh'[i] = refresh[i]
    BY OthersHold DEF TokenInv
  <2>2. \A q : Answered(q)' = Answered(q)
    BY <1>2, <2>1 DEF Answered
  <2>3. Sound'
    <3>1. SUFFICES ASSUME Clean'
                   PROVE  (TokensGiven /\ TokensDiffer /\ TokensGood /\ AsksForToken /\ AnswersNew)'
      BY DEF Sound
    <3>2. TokensGiven /\ TokensDiffer /\ TokensGood /\ AsksForToken /\ AnswersNew
      BY <3>1, CleanBefore DEF TokenInv, Sound
    <3>3. TokensGiven' /\ TokensDiffer' /\ TokensGood'
      BY <2>2, <3>2 DEF TokensGiven, TokensDiffer, TokensGood
    <3>4. AsksForToken' /\ AnswersNew'
      BY <2>1, <3>2 DEF AsksForToken, AnswersNew, Asked
    <3> QED BY <3>3, <3>4
  <2>4. AccountKnown'
    <3>1. SUFFICES ASSUME mishaps' = {}, NEW q \in Provider, server'.account[q] # 0
                   PROVE  /\ \A i \in Answered(q)' : refresh'[i].token = server'.account[q]
                          /\ Answered(q)' = {} => file'[q].token = server'.account[q]
      BY DEF AccountKnown
    <3>2. \A i \in Answered(q) : i # p
      BY <1>2 DEF Answered
    <3>3. \A i \in Answered(q) : i \in Instance
      BY DEF Answered
    <3> QED BY <2>1, <2>2, <3>1, <3>2, <3>3, CleanBefore DEF TokenInv, AccountKnown
  <2> QED BY <2>3, <2>4
<1> QED BY <1>1, <1>2

\* What the user's changes do to the server.
LEMMA ServerChange ==
  ASSUME TypeOK, NEW p \in Instance, NEW q \in Provider
  PROVE  /\ Login(p, q) => /\ NextToken \in Token /\ server'.given = NextToken
                           /\ server'.accepted = server.accepted \union {NextToken}
                           /\ server'.account[q] = NextToken
                           /\ \A o \in Provider \ {q} : server'.account[o] = server.account[o]
         /\ Logout(p, q) => /\ server'.given = server.given
                            /\ server'.accepted = server.accepted
                            /\ server'.account[q] = 0
                            /\ \A o \in Provider \ {q} : server'.account[o] = server.account[o]
<1>1. server \in ServerType /\ MaxTokens \in Nat
  BY AuthAssumption DEF TypeOK, ServerType
<1>2. CASE Login(p, q)
  <2>1. server' = [server EXCEPT !.given = NextToken,
                                 !.accepted = server.accepted \union {NextToken},
                                 !.account = [server.account EXCEPT ![q] = NextToken]]
    BY <1>2 DEF Login
  <2>2. NextToken \in Token
    BY <1>1, <1>2 DEF Login, NextToken, Token, ServerType
  <2>3. server'.account = [server.account EXCEPT ![q] = NextToken]
    BY <1>1, <2>1 DEF ServerType
  <2>4. server'.given = NextToken /\ server'.accepted = server.accepted \union {NextToken}
    BY <1>1, <2>1 DEF ServerType
  <2>5. ~Logout(p, q)
    <3>1. server'.given # server.given
      BY <1>1, <2>4 DEF NextToken, ServerType
    <3>2. Logout(p, q) => server'.given = server.given
      BY <1>1 DEF Logout, ServerType
    <3> QED BY <3>1, <3>2
  <2> QED BY <1>1, <2>2, <2>3, <2>4, <2>5 DEF ServerType
<1>3. CASE Logout(p, q) /\ ~Login(p, q)
  BY <1>1, <1>3 DEF Logout, ServerType
<1> QED BY <1>2, <1>3

\* A written entry has the new token, or none, or the one it had.
LEMMA WrittenSound ==
  ASSUME TokenInv, NEW q \in Provider, NEW e \in Entry, file' = [file EXCEPT ![q] = e],
         mishaps \subseteq mishaps', Holders = {}, Holders' = {},
         server'.accepted \in SUBSET Token, server'.given \in Nat,
         server.accepted \subseteq server'.accepted, server.given <= server'.given,
         \/ e.token = 0
         \/ e.token = file[q].token
         \/ e.token \in server'.accepted /\ e.token <= server'.given /\ e.token > server.given
  PROVE  Sound'
<1>1. SUFFICES ASSUME Clean'
               PROVE  (TokensGiven /\ TokensDiffer /\ TokensGood /\ AsksForToken /\ AnswersNew)'
  BY DEF Sound
<1>2. TokensGiven /\ TokensDiffer /\ TokensGood
  BY <1>1, CleanBefore DEF TokenInv, Sound
<1>3. /\ file'[q] = e /\ \A o \in Provider \ {q} : file'[o] = file[o]
      /\ \A o \in Provider : file[o].token \in Nat
      /\ e.token \in Nat /\ server.given \in Nat
  BY AuthAssumption DEF TokenInv, TypeOK, Data, Entry
<1>4. TokensGiven'
  BY <1>2, <1>3 DEF TokensGiven
<1>5. TokensDiffer'
  <2>1. ASSUME NEW o \in Provider \ {q}
        PROVE  file'[o].token = file'[q].token => file'[q].token = 0 /\ file'[o].token = 0
    BY <1>2, <1>3 DEF TokensDiffer, TokensGiven
  <2> QED BY <1>2, <1>3, <2>1 DEF TokensDiffer
<1>6. TokensGood'
  <2>1. \A o \in Provider : file[o].token = 0 \/ file[o].token \in server.accepted
    BY <1>2, NoHolders DEF TokensGood
  <2> QED BY <1>3, <2>1 DEF TokensGood
<1>7. AsksForToken' /\ AnswersNew'
  BY DEF Holders, AsksForToken, AnswersNew
<1> QED BY <1>4, <1>5, <1>6, <1>7

\* A change that is made in memory only leaves the file with what it had.
LEMMA UnsavedSound ==
  ASSUME TokenInv, UNCHANGED <<file, refresh>>, mishaps \subseteq mishaps', "unsaved" \in mishaps',
         server.accepted \subseteq server'.accepted, server.given <= server'.given,
         server.given \in Nat, server'.given \in Nat
  PROVE  Sound' /\ AccountKnown'
<1>1. AccountKnown'
  BY DEF AccountKnown
<1>2. SUFFICES ASSUME Clean'
               PROVE  (TokensGiven /\ TokensDiffer /\ TokensGood /\ AsksForToken /\ AnswersNew)'
  BY <1>1 DEF Sound
<1>3. TokensGiven /\ TokensDiffer /\ TokensGood /\ AsksForToken /\ AnswersNew
  BY <1>2, CleanBefore DEF TokenInv, Sound
<1>4. \A o \in Provider : file[o].token \in Nat
  BY AuthAssumption DEF TokenInv, TypeOK, Data, Entry
<1>5. \A i \in Instance : refresh[i].token \in Nat
  BY AuthAssumption DEF TokenInv, TypeOK, Refresh
<1>6. TokensGiven' /\ TokensDiffer' /\ AsksForToken'
  BY <1>3, <1>4 DEF TokensGiven, TokensDiffer, AsksForToken, Asked
<1>7. TokensGood'
  BY <1>3 DEF TokensGood, Answered
<1>8. AnswersNew'
  BY <1>3, <1>5 DEF AnswersNew
<1> QED BY <1>6, <1>7, <1>8

\* The accounts of the other providers are where they were when one entry is written.
LEMMA WrittenKnown ==
  ASSUME TokenInv, NEW q \in Provider, NEW e \in Entry, file' = [file EXCEPT ![q] = e],
         mishaps \subseteq mishaps', Holders = {}, Holders' = {},
         \A o \in Provider \ {q} : server'.account[o] = server.account[o],
         mishaps' = {} => server'.account[q] = 0 \/ server'.account[q] = e.token
  PROVE  AccountKnown'
<1>1. SUFFICES ASSUME mishaps' = {}, NEW o \in Provider, server'.account[o] # 0
               PROVE  /\ \A p \in Answered(o)' : refresh'[p].token = server'.account[o]
                      /\ Answered(o)' = {} => file'[o].token = server'.account[o]
  BY DEF AccountKnown
<1>2. Answered(o)' = {} /\ Answered(o) = {}
  BY DEF Holders, Answered
<1>3. CASE o = q
  BY <1>1, <1>2, <1>3 DEF TokenInv, TypeOK, Data
<1>4. CASE o # q
  BY <1>1, <1>2, <1>4, CleanBefore DEF TokenInv, TypeOK, Data, AccountKnown
<1> QED BY <1>3, <1>4

\* The user's changes.
LEMMA ChangesSound ==
  ASSUME TokenInv, NEW p \in Instance, NEW q \in Provider,
         Login(p, q) \/ Logout(p, q) \/ \E k \in Key : AddKey(p, q, k)
  PROVE  Sound' /\ AccountKnown'
<1>1. /\ memory[p][q] \in Entry /\ server.given \in Nat
      /\ \A o \in Provider : file[o].token \in Nat
      /\ TypeOK /\ Alone
  BY AuthAssumption DEF TokenInv, TypeOK, Data, Entry
<1>2. TypeOK'
  BY <1>1, ChangesTyped
<1>3. server'.given \in Nat /\ server'.accepted \in SUBSET Token
  BY <1>2, AuthAssumption DEF TypeOK
<1>4. PICK e \in Entry :
        /\ Change(p, q, e)
        /\ server.accepted \subseteq server'.accepted /\ server.given <= server'.given
        /\ \A o \in Provider \ {q} : server'.account[o] = server.account[o]
        /\ \/ e.token = 0 /\ server'.account[q] = 0
           \/ e.token = memory[p][q].token /\ server'.account[q] = server.account[q]
           \/ /\ e.token \in server'.accepted /\ e.token <= server'.given /\ e.token > server.given
              /\ server'.account[q] = e.token
  <2>1. CASE Login(p, q)
    <3> DEFINE e == [memory[p][q] EXCEPT !.token = NextToken]
    <3>1. NextToken \in Token /\ server'.given = NextToken
          /\ server'.accepted = server.accepted \union {NextToken} /\ server'.account[q] = NextToken
          /\ \A o \in Provider \ {q} : server'.account[o] = server.account[o]
      BY <1>1, <2>1, ServerChange
    <3>2. e \in Entry /\ e.token = NextToken
      BY <1>1, <3>1, EntryTyped, AuthAssumption DEF Token, Entry
    <3>3. NextToken > server.given /\ NextToken <= NextToken /\ server.given <= NextToken
      BY <1>1 DEF NextToken
    <3>4. Change(p, q, e)
      BY <2>1 DEF Login
    <3> HIDE DEF e
    <3> QED BY <3>1, <3>2, <3>3, <3>4
  <2>2. CASE Logout(p, q)
    <3>1. server'.given = server.given /\ server'.accepted = server.accepted
          /\ server'.account[q] = 0
          /\ \A o \in Provider \ {q} : server'.account[o] = server.account[o]
      BY <1>1, <2>2, ServerChange
    <3>2. NoEntry \in Entry /\ NoEntry.token = 0
      BY RecordsTyped DEF NoEntry
    <3>3. Change(p, q, NoEntry)
      BY <2>2 DEF Logout, RemovedEntry
    <3> QED BY <1>1, <3>1, <3>2, <3>3
  <2>3. ASSUME NEW k \in Key, AddKey(p, q, k)
        PROVE  \E e \in Entry : /\ Change(p, q, e) /\ UNCHANGED server
                                /\ e.token = memory[p][q].token
    <3> DEFINE e == [memory[p][q] EXCEPT !.keys = @ \union {k}]
    <3>1. e \in Entry /\ e.token = memory[p][q].token
      BY <1>1, EntryTyped DEF Entry
    <3>2. Change(p, q, e) /\ UNCHANGED server
      BY <2>3 DEF AddKey
    <3> HIDE DEF e
    <3> QED BY <3>1, <3>2
  <2> QED BY <1>1, <2>1, <2>2, <2>3
<1>5. /\ mishaps \subseteq mishaps'
      /\ \/ "overtaken" \in mishaps'
         \/ UNCHANGED <<file, refresh>> /\ "unsaved" \in mishaps'
         \/ /\ Holders = {} /\ Holders' = {}
            /\ file' = [file EXCEPT ![q] = e]
            /\ file[q] # memory[p][q] => "outdated" \in mishaps'
  BY <1>1, <1>4, CleanChange
<1>6. CASE "overtaken" \in mishaps' \/ "outdated" \in mishaps'
  BY <1>6 DEF Sound, AccountKnown, Clean
<1>7. CASE UNCHANGED <<file, refresh>> /\ "unsaved" \in mishaps'
  BY <1>1, <1>3, <1>4, <1>5, <1>7, UnsavedSound
<1>8. CASE /\ Holders = {} /\ Holders' = {}
           /\ file' = [file EXCEPT ![q] = e] /\ file[q] = memory[p][q]
  <2>1. Sound'
    BY <1>3, <1>4, <1>5, <1>8, WrittenSound
  <2>2. mishaps' = {} => server'.account[q] = 0 \/ server'.account[q] = e.token
    <3> SUFFICES ASSUME mishaps' = {}, e.token = file[q].token,
                        server'.account[q] = server.account[q], server.account[q] # 0
                 PROVE  server.account[q] = file[q].token
      BY <1>4, <1>8
    <3> QED BY <1>5, <1>8, NoHolders, CleanBefore DEF TokenInv, AccountKnown
  <2>3. AccountKnown'
    BY <1>4, <1>5, <1>8, <2>2, WrittenKnown
  <2> QED BY <2>1, <2>3
<1> QED BY <1>5, <1>6, <1>7, <1>8

\* An instance that gets the lock of nobody else asks for a token of the file.
LEMMA AcquireSound ==
  ASSUME TokenInv, NEW p \in Instance, Acquire(p)
  PROVE  Sound' /\ AccountKnown'
<1>1. mishaps \subseteq mishaps' /\ UNCHANGED <<file, server>> /\ refresh[p].at = "waiting"
  BY DEF Acquire
<1>2. CASE ~Expired(file[refresh[p].provider].token)
  <2>1. refresh' = [refresh EXCEPT ![p] = Idle]
    BY <1>2 DEF Acquire, ReadUnderLock
  <2> QED BY <1>1, <2>1, Stages, LeavesSound
<1>3. CASE Expired(file[refresh[p].provider].token)
  <2> DEFINE r == [refresh[p] EXCEPT !.at = "fetching", !.read = file, !.held = TRUE]
  <2>1. refresh' = [refresh EXCEPT ![p] = r]
    BY <1>3 DEF Acquire, ReadUnderLock, TokenInv, TypeOK
  <2>2. r.at = "fetching" /\ r.read = file /\ r.provider = refresh[p].provider
    BY DEF TokenInv, TypeOK, Refresh
  <2> HIDE DEF r
  <2>3. refresh'[p] = r /\ \A o \in Instance \ {p} : refresh'[o] = refresh[o]
    BY <2>1, OthersHold DEF TokenInv
  <2>4. \A q : Answered(q)' = Answered(q)
    BY <1>1, <2>2, <2>3 DEF Answered
  <2>5. Sound'
    <3>1. SUFFICES ASSUME Clean'
                   PROVE  (TokensGiven /\ TokensDiffer /\ TokensGood /\ AsksForToken /\ AnswersNew)'
      BY DEF Sound
    <3>2. TokensGiven /\ TokensDiffer /\ TokensGood /\ AsksForToken /\ AnswersNew
      BY <1>1, <3>1, CleanBefore DEF TokenInv, Sound
    <3>3. (TokensGiven /\ TokensDiffer /\ TokensGood)'
      BY <1>1, <2>4, <3>2 DEF TokensGiven, TokensDiffer, TokensGood
    <3>4. AsksForToken'
      <4>1. refresh[p].provider \in Provider /\ file[refresh[p].provider].token # 0
        BY <1>1, <1>3 DEF TokenInv, WaitsAnew, Expired
      <4>2. refresh'[p].provider \in Provider /\ Asked(p)' # 0
        BY <2>2, <2>3, <4>1 DEF Asked
      <4> QED BY <2>3, <3>2, <4>2 DEF AsksForToken, Asked
    <3>5. AnswersNew'
      BY <1>1, <2>2, <2>3, <3>2 DEF AnswersNew
    <3> QED BY <3>3, <3>4, <3>5
  <2>6. AccountKnown'
    <3>1. SUFFICES ASSUME mishaps' = {}, NEW q \in Provider, server'.account[q] # 0
                   PROVE  /\ \A i \in Answered(q)' : refresh'[i].token = server'.account[q]
                          /\ Answered(q)' = {} => file'[q].token = server'.account[q]
      BY DEF AccountKnown
    <3>2. \A i \in Answered(q) : i # p /\ i \in Instance
      BY <1>1 DEF Answered
    <3> QED BY <1>1, <2>3, <2>4, <3>1, <3>2, CleanBefore DEF TokenInv, AccountKnown
  <2> QED BY <2>5, <2>6
<1> QED BY <1>2, <1>3

\* The server answers one instance only, with a token that nobody has.
LEMMA ExchangeSound ==
  ASSUME TokenInv, NEW p \in Instance, Exchange(p)
  PROVE  Sound' /\ AccountKnown'
<1> DEFINE r == [refresh[p] EXCEPT !.at = "answered", !.token = NextToken]
           t == Asked(p)
           q == refresh[p].provider
<1>1. /\ mishaps' = mishaps /\ UNCHANGED file /\ refresh[p].at = "fetching"
      /\ refresh' = [refresh EXCEPT ![p] = r] /\ p \in Holders /\ t \in server.accepted
  BY DEF Exchange, TokenInv, TypeOK, Holders
<1>2. r.at = "answered" /\ r.token = NextToken /\ r.provider = q
  BY DEF TokenInv, TypeOK, Refresh
<1> HIDE DEF r
<1>3. refresh'[p] = r /\ \A o \in Instance \ {p} : refresh'[o] = refresh[o]
  BY <1>1, OthersHold DEF TokenInv
<1>4. SUFFICES ASSUME Clean'
               PROVE  /\ (TokensGiven /\ TokensDiffer /\ TokensGood /\ AsksForToken /\ AnswersNew)'
                      /\ AccountKnown'
  BY DEF Sound, AccountKnown, Clean
<1>5. /\ TokensGiven /\ TokensDiffer /\ TokensGood /\ AsksForToken /\ AnswersNew
      /\ "overtaken" \notin mishaps
  BY <1>1, <1>4, CleanBefore DEF TokenInv, Sound, Clean
<1>6. Holders = {p}
  BY <1>1, <1>5 DEF TokenInv, Alone
<1>7. q \in Provider /\ t # 0 /\ file[q].token = t
  BY <1>1, <1>5, <1>6 DEF AsksForToken, TokenInv, Alone, Asked
<1>8. \A o : Answered(o) = {}
  BY <1>1, <1>6 DEF Answered, Holders
<1>9. Answered(q)' = {p} /\ \A o \in Provider \ {q} : Answered(o)' = {}
  BY <1>2, <1>3, <1>8 DEF Answered
<1>10. server \in ServerType /\ MaxTokens \in Nat /\ \A o \in Provider : file[o].token \in Nat
  BY AuthAssumption DEF TokenInv, TypeOK, ServerType, Data, Entry
<1>11. /\ server'.given = NextToken
       /\ server'.accepted = (server.accepted \ {t}) \union {NextToken}
       /\ \A o \in Provider \ {q} : server'.account[o] = server.account[o]
       /\ server'.account[q] = IF server.account[q] = t THEN NextToken ELSE server.account[q]
  <2> DEFINE A == (server.accepted \ {t}) \union {NextToken}
             v == IF server.account[q] = t THEN NextToken ELSE server.account[q]
             acc == [server.account EXCEPT ![q] = v]
  <2>1. server' = [server EXCEPT !.given = NextToken, !.accepted = A, !.account = acc]
    BY DEF Exchange
  <2> HIDE DEF A, v
  <2>2. server'.given = NextToken /\ server'.accepted = A /\ server'.account = acc
    BY <1>10, <2>1 DEF ServerType
  <2>3. server'.account[q] = v /\ \A o \in Provider \ {q} : server'.account[o] = server.account[o]
    BY <1>7, <1>10, <2>2 DEF ServerType
  <2> QED BY <2>2, <2>3 DEF A, v
<1>12. /\ server.given \in Nat /\ NextToken = server.given + 1
       /\ \A o \in Provider : file[o].token <= server.given
  BY <1>5, <1>10 DEF ServerType, NextToken, TokensGiven
<1>13. (TokensGiven /\ TokensDiffer)'
  BY <1>1, <1>5, <1>10, <1>11, <1>12 DEF TokensGiven, TokensDiffer
<1>14. TokensGood'
  <2>1. ASSUME NEW o \in Provider \ {q}, file[o].token # 0
        PROVE  file[o].token \in server.accepted \ {t}
    BY <1>5, <1>7, <1>8, <2>1 DEF TokensGood, TokensDiffer
  <2>2. SUFFICES ASSUME NEW o \in Provider, file[o].token # 0
                 PROVE  file[o].token \in server'.accepted \/ Answered(o)' # {}
    BY <1>1 DEF TokensGood
  <2>3. CASE o = q
    <3>1. o = q'
      BY <1>2, <1>3, <2>3
    <3> QED BY <1>9, <3>1
  <2>4. CASE o # q
    BY <1>11, <2>1, <2>2, <2>4
  <2> QED BY <2>3, <2>4
<1>15. AsksForToken'
  BY <1>2, <1>3, <1>5 DEF AsksForToken, Asked
<1>16. AnswersNew'
  <2>1. \A o \in Instance \ {p} : refresh'[o].at # "answered"
    BY <1>3, <1>6 DEF Holders
  <2>2. \A o \in Provider : NextToken # file[o].token
    BY <1>10, <1>12
  <2>3. NextToken <= NextToken
    BY <1>12
  <2> QED BY <1>1, <1>2, <1>3, <1>7, <1>11, <2>1, <2>2, <2>3 DEF AnswersNew
<1>17. AccountKnown'
  <2>1. SUFFICES ASSUME mishaps' = {}, NEW o \in Provider, server'.account[o] # 0
                 PROVE  /\ \A i \in Answered(o)' : refresh'[i].token = server'.account[o]
                        /\ Answered(o)' = {} => file'[o].token = server'.account[o]
    BY DEF AccountKnown
  <2>2. server.account[o] # 0 => file[o].token = server.account[o]
    BY <1>1, <1>8, <2>1 DEF TokenInv, AccountKnown
  <2>3. CASE o = q
    BY <1>2, <1>3, <1>7, <1>9, <1>11, <2>1, <2>2, <2>3
  <2>4. CASE o # q
    BY <1>1, <1>9, <1>11, <2>1, <2>2, <2>4
  <2> QED BY <2>3, <2>4
<1> QED BY <1>13, <1>14, <1>15, <1>16, <1>17

\* The answer is written to the file that was read.
LEMMA AnswerSound ==
  ASSUME TokenInv, NEW p \in Instance, Answer(p)
  PROVE  Sound' /\ AccountKnown'
<1>1. refresh[p].at = "answered" /\ p \in Holders /\ mishaps \subseteq mishaps' /\ UNCHANGED server
  BY DEF Answer, Holders
<1>2. SUFFICES ASSUME Clean'
               PROVE  /\ (TokensGiven /\ TokensDiffer /\ TokensGood /\ AsksForToken /\ AnswersNew)'
                      /\ AccountKnown'
  BY DEF Sound, AccountKnown, Clean
<1>3. TokensGiven /\ TokensDiffer /\ TokensGood /\ AnswersNew /\ "overtaken" \notin mishaps
  BY <1>1, <1>2, CleanBefore DEF TokenInv, Sound, Clean
<1>4. Holders = {p} /\ refresh[p].read = file /\ refresh[p].compromised = FALSE
  BY <1>1, <1>3 DEF TokenInv, Alone
<1> DEFINE q == refresh[p].provider
           t == refresh[p].token
<1>5. /\ q \in Provider /\ t \in server.accepted /\ t <= server.given
      /\ \A o \in Provider : t # file[o].token
  BY <1>1, <1>3 DEF AnswersNew
<1>6. file' = [file EXCEPT ![q].token = t] /\ refresh' = [refresh EXCEPT ![p] = Idle]
  BY <1>4 DEF Answer, Merged
<1>7. file'[q].token = t /\ \A o \in Provider \ {q} : file'[o] = file[o]
  BY <1>5, <1>6 DEF TokenInv, TypeOK, Data, Entry
<1>8. Holders' = {}
  BY <1>4, <1>6, Stages, OthersHold DEF TokenInv
<1>9. /\ \A o \in Provider : Answered(o)' = {}
      /\ \A o \in Provider \ {q} : Answered(o) = {}
      /\ p \in Answered(q)
  BY <1>1, <1>4, <1>8 DEF Holders, Answered
<1>10. (TokensGiven /\ TokensDiffer)'
  BY <1>1, <1>3, <1>5, <1>7 DEF TokensGiven, TokensDiffer
<1>11. TokensGood'
  <2>1. SUFFICES ASSUME NEW o \in Provider, file'[o].token # 0
                 PROVE  file'[o].token \in server.accepted
    BY <1>1 DEF TokensGood
  <2> QED BY <1>3, <1>5, <1>7, <1>9, <2>1 DEF TokensGood
<1>12. (AsksForToken /\ AnswersNew)'
  BY <1>8 DEF Holders, AsksForToken, AnswersNew
<1>13. AccountKnown'
  <2>1. SUFFICES ASSUME mishaps' = {}, NEW o \in Provider, server.account[o] # 0
                 PROVE  file'[o].token = server.account[o]
    BY <1>1, <1>9 DEF AccountKnown
  <2> QED BY <1>1, <1>7, <1>9, <2>1, CleanBefore DEF TokenInv, AccountKnown
<1> QED BY <1>10, <1>11, <1>12, <1>13

\* Time passes, and the holder of the lock renews it.
LEMMA TimeSound ==
  ASSUME TokenInv, \/ LockAges \/ \E t \in Token : Expire(t)
                   \/ \E p \in Instance : LockRenewed(p)
  PROVE  Sound' /\ AccountKnown'
<1>1. /\ UNCHANGED <<file, mishaps>> /\ server'.given = server.given
      /\ server'.accepted = server.accepted /\ server'.account = server.account
  BY DEF LockAges, Expire, LockRenewed, TokenInv, TypeOK
<1>2. UNCHANGED refresh \/ "overtaken" \in mishaps
  BY DEF LockAges, Expire, LockRenewed, TokenInv, Alone
<1>3. CASE "overtaken" \in mishaps
  BY <1>1, <1>3 DEF Sound, AccountKnown, Clean
<1>4. CASE UNCHANGED refresh
  BY <1>1, <1>4 DEF TokenInv, Sound, Clean, TokensGiven, TokensDiffer, TokensGood, AsksForToken,
                    AnswersNew, AccountKnown, Answered, Asked
<1> QED BY <1>2, <1>3, <1>4

\* An instance that only begins, gives up or fails changes nothing for the tokens.
LEMMA QuietSound ==
  ASSUME TokenInv, NEW p \in Instance,
         \/ \E q \in Provider : Begin(p, q)
         \/ Crash(p) \/ GiveUp(p) \/ Refuse(p) \/ RequestFails(p) \/ Fails(p)
  PROVE  Sound' /\ AccountKnown'
<1>1. UNCHANGED <<file, server>> /\ mishaps \subseteq mishaps'
  BY DEF Begin, Crash, GiveUp, Refuse, RequestFails, Fails, Reloaded
<1>2. refresh[p].at # "answered" \/ "lost" \in mishaps'
  BY DEF Begin, Crash, GiveUp, Refuse, RequestFails, Fails, Noted
<1>3. PICK r : refresh' = [refresh EXCEPT ![p] = r] /\ r.at \notin {"fetching", "answered"}
  BY Stages DEF Begin, Crash, GiveUp, Refuse, RequestFails, Fails
<1> QED BY <1>1, <1>2, <1>3, LeavesSound

\* Every step keeps the invariant.
LEMMA TokensKept == TokenInv /\ [Next]_vars => TokenInv'
<1>1. CASE UNCHANGED vars
  BY <1>1 DEF vars, TokenInv, TypeOK, Alone, WaitsAnew, Holders, Sound, Clean, TokensGiven,
              TokensDiffer, TokensGood, AsksForToken, AnswersNew, AccountKnown, Answered, Asked
<1>2. ASSUME TokenInv, Next
      PROVE  TokenInv'
  <2>1. TypeOK' /\ Alone' /\ WaitsAnew'
    BY <1>2, ChangesTyped, RefreshesTyped, AloneKept, WaitsAnewKept DEF TokenInv
  <2>2. Sound' /\ AccountKnown'
    BY <1>2, ChangesSound, AcquireSound, ExchangeSound, AnswerSound, TimeSound, QuietSound
       DEF Next
  <2> QED BY <2>1, <2>2 DEF TokenInv
<1> QED BY <1>1, <1>2

\* The invariant of the credentials, of every state.
LEMMA TokensInvariant == Spec => []TokenInv
<1>1. Init => TokenInv
  <2> SUFFICES ASSUME Init
               PROVE  TokenInv
    OBVIOUS
  <2>1. TypeOK
    BY RecordsTyped, AuthAssumption DEF Init, TypeOK, LockType, Token
  <2>2. \A p \in Instance : refresh[p].at = "idle"
    BY Stages DEF Init
  <2>3. Alone /\ WaitsAnew
    BY <2>2 DEF Alone, WaitsAnew, Holders
  <2>4. \A q \in Provider : file[q].token = 0 /\ server.account[q] = 0
    BY DEF Init, NoEntry
  <2>5. server.given = 0
    BY DEF Init
  <2> QED BY <2>1, <2>2, <2>3, <2>4, <2>5
          DEF TokenInv, Sound, TokensGiven, TokensDiffer, TokensGood, AsksForToken, AnswersNew,
              AccountKnown
<1> QED BY <1>1, TokensKept, PTL DEF Spec

\* No refresh presents a token that the server has taken back, unless an answer was lost, an
\* old entry was written over a new one or a lock was taken away from its holder.
THEOREM NoTokenTwice == Spec => []NoReuse
<1>1. TokenInv => NoReuse
  <2>1. SUFFICES ASSUME TokenInv, NEW p \in Instance, refresh[p].at = "fetching", Clean
                 PROVE  Asked(p) \in server.accepted
    BY DEF NoReuse, Clean
  <2>2. TokensGood /\ AsksForToken /\ "overtaken" \notin mishaps
    BY <2>1 DEF TokenInv, Sound, Clean
  <2>3. Holders = {p} /\ refresh[p].read = file
    BY <2>1, <2>2 DEF TokenInv, Alone, Holders
  <2>4. Answered(refresh[p].provider) = {}
    BY <2>1, <2>3 DEF Answered, Holders
  <2> QED BY <2>1, <2>2, <2>3, <2>4 DEF AsksForToken, TokensGood, Asked
<1> QED BY <1>1, TokensInvariant, PTL

\* Without a mishap a login stays in the file, or on its way there with the answer of a server.
THEOREM LoginsStay == Spec => []LoginKept
<1>1. TokenInv => LoginKept
  BY DEF TokenInv, AccountKnown, Answered, LoginKept
<1> QED BY <1>1, TokensInvariant, PTL
=============================================================================
