-------------------------- MODULE SessionFileProofs --------------------------
(* Facts about the session files of one process, for any number of files,     *)
(* entries, commands, restarts and writes that stop half way.                 *)
EXTENDS SessionFile, WellFoundedInduction, TLAPS

-------------------------------------------------------------------------------
(* Numbers and sequences *)

\* A set of numbers has a least element.
LEMMA LeastOfSet ==
  ASSUME NEW S, S \subseteq Nat, S # {}
  PROVE  Min(S) \in S /\ \A k \in S : Min(S) <= k
<1> DEFINE R == OpToRel(<, Nat)
<1>1. IsWellFoundedOn(R, Nat)
  BY NatLessThanWellFounded
<1>2. \A a, b \in Nat : a < b => <<a, b>> \in R
  BY Zenon DEF OpToRel
<1> HIDE DEF R
<1>3. PICK n \in S : \A k \in S : <<k, n>> \notin R
  BY <1>1, WFMin
<1>4. \A k \in S : n <= k
  <2> TAKE k \in S
  <2>1. k \in Nat /\ n \in Nat /\ ~(k < n)
    BY <1>2, <1>3
  <2> QED BY <2>1
<1> QED BY <1>4 DEF Min

\* What Picked does, one element after the other.
Picks(f, s, P) ==
  /\ f \in [0..Len(s) -> Seq(Int)]
  /\ f[0] = <<>>
  /\ \A n \in 1..Len(s) : f[n] = IF n \in P THEN Append(f[n - 1], s[n]) ELSE f[n - 1]

LEMMA PicksExist ==
  ASSUME NEW s \in Seq(Int), NEW P
  PROVE  \E f : Picks(f, s, P)
<1> DEFINE PicksTo(f, m) == /\ f \in [0..m -> Seq(Int)]
                            /\ f[0] = <<>>
                            /\ \A n \in 1..m : f[n] = IF n \in P THEN Append(f[n - 1], s[n]) ELSE f[n - 1]
           Bad == {m \in 0..Len(s) : \A f : ~PicksTo(f, m)}
<1>1. Bad = {}
  <2> SUFFICES ASSUME Bad # {} PROVE FALSE
    OBVIOUS
  <2> DEFINE m == Min(Bad)
  <2>1. m \in Bad /\ \A k \in Bad : m <= k
    <3>1. Bad \subseteq Nat
      OBVIOUS
    <3> HIDE DEF Bad
    <3> QED BY <3>1, LeastOfSet
  <2> HIDE DEF m
  <2>2. m # 0
    <3> DEFINE g == [n \in 0..0 |-> <<>>]
    <3>1. PicksTo(g, 0)
      OBVIOUS
    <3> HIDE DEF g, PicksTo
    <3> QED BY <3>1, <2>1
  <2>3. PICK f : PicksTo(f, m - 1)
    <3> HIDE DEF PicksTo
    <3>1. m \in 0..Len(s) /\ Len(s) \in Nat
      BY <2>1
    <3>2. m - 1 \in 0..Len(s) /\ ~(m <= m - 1)
      BY <3>1, <2>2
    <3> QED BY <3>2, <2>1
  <2> DEFINE g == [n \in 0..m |-> IF n < m THEN f[n]
                                  ELSE IF m \in P THEN Append(f[m - 1], s[m]) ELSE f[m - 1]]
  <2>4. m \in 1..Len(s)
    BY <2>1, <2>2
  <2>5. s[m] \in Int /\ f[m - 1] \in Seq(Int)
    BY <2>4, <2>3
  <2>6. g \in [0..m -> Seq(Int)]
    BY <2>3, <2>4, <2>5
  <2>7. g[0] = <<>>
    BY <2>3, <2>4
  <2>8. ASSUME NEW n \in 1..m
        PROVE  g[n] = IF n \in P THEN Append(g[n - 1], s[n]) ELSE g[n - 1]
    <3>1. CASE n = m
      BY <3>1, <2>4
    <3>2. CASE n < m
      <4>1. g[n] = f[n] /\ g[n - 1] = f[n - 1] /\ n \in 1..(m - 1)
        BY <3>2, <2>4
      <4> QED BY <4>1, <2>3
    <3> QED BY <3>1, <3>2, <2>4
  <2>9. PicksTo(g, m)
    BY <2>6, <2>7, <2>8
  <2> HIDE DEF g, PicksTo
  <2> QED BY <2>9, <2>1
<1>2. Len(s) \in 0..Len(s)
  OBVIOUS
<1>3. PICK f : PicksTo(f, Len(s))
  <2> HIDE DEF PicksTo
  <2> QED BY <1>1, <1>2
<1>4. Picks(f, s, P)
  BY <1>3 DEF Picks
<1> QED BY <1>4

LEMMA PickedPicks ==
  ASSUME NEW s \in Seq(Int), NEW P
  PROVE  \E f : Picks(f, s, P) /\ Picked(s, P) = f[Len(s)]
<1> DEFINE Is(f) == f = [n \in 0..Len(s) |-> IF n = 0 THEN <<>>
                          ELSE IF n \in P THEN Append(f[n - 1], s[n]) ELSE f[n - 1]]
           c == CHOOSE f : Is(f)
<1>1. PICK g : Picks(g, s, P)
  BY PicksExist
<1>2. Is(g)
  <2> DEFINE h == [n \in 0..Len(s) |-> IF n = 0 THEN <<>>
                          ELSE IF n \in P THEN Append(g[n - 1], s[n]) ELSE g[n - 1]]
  <2>1. g = [n \in 0..Len(s) |-> g[n]]
    BY <1>1 DEF Picks
  <2>2. \A n \in 0..Len(s) : g[n] = h[n]
    <3> TAKE n \in 0..Len(s)
    <3>1. CASE n = 0
      BY <3>1, <1>1 DEF Picks
    <3>2. CASE n # 0
      <4>1. n \in 1..Len(s)
        BY <3>2
      <4> QED BY <4>1, <1>1 DEF Picks
    <3> QED BY <3>1, <3>2
  <2>3. h = [n \in 0..Len(s) |-> h[n]]
    OBVIOUS
  <2> HIDE DEF h
  <2>4. g = h
    BY <2>1, <2>2, <2>3
  <2> QED BY <2>4 DEF h
<1>3. Is(c)
  <2> HIDE DEF Is
  <2> QED BY <1>2
<1>4. Picked(s, P) = c[Len(s)]
  BY DEF Picked
<1> HIDE DEF c
<1>5. DOMAIN c = 0..Len(s)
  BY <1>3
<1>6. c[0] = <<>>
  BY <1>3
<1>7. \A n \in 1..Len(s) : c[n] = IF n \in P THEN Append(c[n - 1], s[n]) ELSE c[n - 1]
  <2> TAKE n \in 1..Len(s)
  <2>1. n \in 0..Len(s) /\ n # 0
    OBVIOUS
  <2> QED BY <2>1, <1>3
<1>8. \A n \in 0..Len(s) : c[n] = g[n]
  <2> DEFINE Bad == {n \in 0..Len(s) : c[n] # g[n]}
  <2> SUFFICES ASSUME Bad # {} PROVE FALSE
    OBVIOUS
  <2> DEFINE m == Min(Bad)
  <2>1. m \in Bad /\ \A k \in Bad : m <= k
    <3>1. Bad \subseteq Nat
      OBVIOUS
    <3> HIDE DEF Bad
    <3> QED BY <3>1, LeastOfSet
  <2> HIDE DEF m
  <2>2. m # 0
    BY <2>1, <1>6, <1>1 DEF Picks
  <2>3. m \in 1..Len(s) /\ m - 1 \notin Bad /\ m - 1 \in 0..Len(s)
    BY <2>1, <2>2
  <2>4. c[m - 1] = g[m - 1]
    BY <2>3
  <2>5. c[m] = g[m]
    BY <2>3, <2>4, <1>7, <1>1 DEF Picks
  <2> QED BY <2>5, <2>1
<1>9. c = g
  <2>1. g \in [0..Len(s) -> Seq(Int)]
    BY <1>1 DEF Picks
  <2>2. c = [n \in DOMAIN c |-> c[n]]
    BY <1>3
  <2> QED BY <2>1, <2>2, <1>5, <1>8
<1> QED BY <1>9, <1>1, <1>4

\* It depends on nothing but the first elements and the places among them.
SameUpTo(m, s, P, t, Q) ==
  /\ m \in Nat /\ m <= Len(s) /\ m <= Len(t)
  /\ \A n \in 1..m : s[n] = t[n] /\ (n \in P <=> n \in Q)

LEMMA PicksAlike ==
  ASSUME NEW s \in Seq(Int), NEW t \in Seq(Int), NEW P, NEW Q, NEW f, NEW g,
         Picks(f, s, P), Picks(g, t, Q), NEW m, SameUpTo(m, s, P, t, Q)
  PROVE  f[m] = g[m]
<1> USE DEF SameUpTo
<1> DEFINE Bad == {n \in 0..m : f[n] # g[n]}
<1> SUFFICES ASSUME Bad # {} PROVE FALSE
  OBVIOUS
<1> DEFINE b == Min(Bad)
<1>1. b \in Bad /\ \A k \in Bad : b <= k
  <2>1. Bad \subseteq Nat
    OBVIOUS
  <2> HIDE DEF Bad
  <2> QED BY <2>1, LeastOfSet
<1> HIDE DEF b
<1>2. b # 0
  BY <1>1 DEF Picks
<1>3. b \in 1..m /\ b - 1 \notin Bad /\ b - 1 \in 0..m
  BY <1>1, <1>2
<1>4. f[b - 1] = g[b - 1]
  BY <1>3
<1>5. b \in 1..Len(s) /\ b \in 1..Len(t) /\ s[b] = t[b] /\ (b \in P <=> b \in Q)
  BY <1>3
<1>6. f[b] = g[b]
  BY <1>4, <1>5 DEF Picks
<1> QED BY <1>6, <1>1

\* The equations of Picked.
LEMMA PickedEmpty ==
  ASSUME NEW P
  PROVE  Picked(<<>>, P) = <<>>
<1>1. <<>> \in Seq(Int) /\ Len(<<>>) = 0
  OBVIOUS
<1>2. PICK f : Picks(f, <<>>, P) /\ Picked(<<>>, P) = f[0]
  BY <1>1, PickedPicks
<1> QED BY <1>2 DEF Picks

LEMMA PickedAppend ==
  ASSUME NEW s \in Seq(Int), NEW x \in Int, NEW P, NEW Q,
         \A n \in 1..Len(s) : n \in P <=> n \in Q
  PROVE  Picked(Append(s, x), Q) =
           IF Len(s) + 1 \in Q THEN Append(Picked(s, P), x) ELSE Picked(s, P)
<1> DEFINE t == Append(s, x)
<1>1. t \in Seq(Int) /\ Len(t) = Len(s) + 1 /\ t[Len(s) + 1] = x /\ \A n \in 1..Len(s) : t[n] = s[n]
  OBVIOUS
<1> HIDE DEF t
<1>2. PICK f : Picks(f, s, P) /\ Picked(s, P) = f[Len(s)]
  BY PickedPicks
<1>3. PICK g : Picks(g, t, Q) /\ Picked(t, Q) = g[Len(t)]
  BY <1>1, PickedPicks
<1>4. f[Len(s)] = g[Len(s)]
  <2> DEFINE m == Len(s)
  <2>1. m \in Nat /\ m <= Len(s) /\ m <= Len(t)
    BY <1>1
  <2>2. \A n \in 1..m : s[n] = t[n] /\ (n \in P <=> n \in Q)
    <3> TAKE n \in 1..m
    <3>1. s[n] = t[n]
      BY <1>1
    <3> QED BY <3>1
  <2>3. SameUpTo(m, s, P, t, Q) /\ Picks(f, s, P) /\ Picks(g, t, Q) /\ t \in Seq(Int)
    BY <2>1, <2>2, <1>1, <1>2, <1>3 DEF SameUpTo
  <2>4. m = Len(s)
    OBVIOUS
  <2> HIDE DEF m
  <2>5. f[m] = g[m]
    BY <2>3, PicksAlike
  <2> QED BY <2>4, <2>5
<1>5. g[Len(s) + 1] = IF Len(s) + 1 \in Q THEN Append(g[Len(s)], t[Len(s) + 1]) ELSE g[Len(s)]
  <2>1. Len(s) + 1 \in 1..Len(t) /\ Len(s) + 1 - 1 = Len(s)
    BY <1>1
  <2> QED BY <2>1, <1>3 DEF Picks
<1> QED BY <1>1, <1>2, <1>3, <1>4, <1>5 DEF t

\* It is a sequence of elements of s, whatever else is in P.
LEMMA PickedAlike ==
  ASSUME NEW s \in Seq(Int), NEW P, NEW Q,
         \A n \in 1..Len(s) : n \in P <=> n \in Q
  PROVE  Picked(s, P) = Picked(s, Q)
<1>1. PICK f : Picks(f, s, P) /\ Picked(s, P) = f[Len(s)]
  BY PickedPicks
<1>2. PICK g : Picks(g, s, Q) /\ Picked(s, Q) = g[Len(s)]
  BY PickedPicks
<1> DEFINE m == Len(s)
<1>3. m \in Nat /\ m <= Len(s)
  OBVIOUS
<1>4. \A n \in 1..m : s[n] = s[n] /\ (n \in P <=> n \in Q)
  OBVIOUS
<1> HIDE DEF m
<1>5. SameUpTo(m, s, P, s, Q)
  BY <1>3, <1>4 DEF SameUpTo
<1>6. f[m] = g[m]
  BY <1>1, <1>2, <1>5, PicksAlike
<1> QED BY <1>1, <1>2, <1>6 DEF m

LEMMA PickedFrom ==
  ASSUME NEW s \in Seq(Int), NEW P
  PROVE  /\ Picked(s, P) \in Seq(Int)
         /\ Len(Picked(s, P)) <= Len(s)
         /\ ToSet(Picked(s, P)) = {s[n] : n \in P \intersect 1..Len(s)}
<1>1. PICK f : Picks(f, s, P) /\ Picked(s, P) = f[Len(s)]
  BY PickedPicks
<1> DEFINE Fine(n) == /\ Len(f[n]) <= n
                      /\ ToSet(f[n]) = {s[k] : k \in P \intersect 1..n}
           Bad == {n \in 0..Len(s) : ~Fine(n)}
<1>2. Bad = {}
  <2> SUFFICES ASSUME Bad # {} PROVE FALSE
    OBVIOUS
  <2> DEFINE b == Min(Bad)
  <2>1. b \in Bad /\ \A k \in Bad : b <= k
    <3>1. Bad \subseteq Nat
      OBVIOUS
    <3> HIDE DEF Bad
    <3> QED BY <3>1, LeastOfSet
  <2> HIDE DEF b
  <2>2. b # 0
    <3>1. f[0] = <<>> /\ Len(<<>>) = 0 /\ DOMAIN <<>> = {} /\ 1..0 = {}
      BY <1>1 DEF Picks
    <3>2. ToSet(f[0]) = {} /\ {s[k] : k \in P \intersect 1..0} = {}
      BY <3>1 DEF ToSet
    <3>3. Fine(0)
      BY <3>1, <3>2
    <3> HIDE DEF Fine
    <3> QED BY <3>3, <2>1
  <2>3. b \in 1..Len(s) /\ Fine(b - 1) /\ b - 1 \in 0..Len(s)
    <3> HIDE DEF Fine
    <3>1. b \in 0..Len(s) /\ Len(s) \in Nat
      BY <2>1
    <3>2. b - 1 \in 0..Len(s) /\ ~(b <= b - 1) /\ b \in 1..Len(s)
      BY <3>1, <2>2
    <3> QED BY <3>2, <2>1
  <2>4. f[b] = IF b \in P THEN Append(f[b - 1], s[b]) ELSE f[b - 1]
    BY <2>3, <1>1 DEF Picks
  <2>5. f[b - 1] \in Seq(Int) /\ s[b] \in Int
    <3>1. f \in [0..Len(s) -> Seq(Int)]
      BY <1>1 DEF Picks
    <3>2. b - 1 \in 0..Len(s) /\ b \in 1..Len(s)
      BY <2>3
    <3>3. f[b - 1] \in Seq(Int)
      BY <3>1, <3>2, Zenon
    <3>4. s[b] \in Int
      BY <3>2
    <3> QED BY <3>3, <3>4
  <2>6. 1..b = 1..(b - 1) \union {b}
    BY <2>3
  <2>7. CASE b \in P
    <3>1. ToSet(f[b]) = ToSet(f[b - 1]) \union {s[b]}
      <4>1. f[b] = Append(f[b - 1], s[b])
        BY <2>4, <2>7
      <4>2. DOMAIN f[b] = DOMAIN f[b - 1] \union {Len(f[b - 1]) + 1}
        BY <4>1, <2>5
      <4> QED BY <4>1, <4>2, <2>5 DEF ToSet
    <3>2. {s[k] : k \in P \intersect 1..b} = {s[k] : k \in P \intersect 1..(b - 1)} \union {s[b]}
      BY <2>6, <2>7
    <3>3. Len(f[b]) <= b
      BY <2>4, <2>7, <2>5, <2>3
    <3>4. Fine(b)
      BY <3>1, <3>2, <3>3, <2>3
    <3> HIDE DEF Fine
    <3> QED BY <3>4, <2>1
  <2>8. CASE b \notin P
    <3>1. P \intersect 1..b = P \intersect 1..(b - 1)
      BY <2>6, <2>8
    <3>2. f[b] = f[b - 1]
      BY <2>4, <2>8
    <3>3. Fine(b)
      BY <3>1, <3>2, <2>3, <2>5
    <3> HIDE DEF Fine
    <3> QED BY <3>3, <2>1
  <2> QED BY <2>7, <2>8
<1>3. Fine(Len(s)) /\ f[Len(s)] \in Seq(Int)
  <2>1. Len(s) \in 0..Len(s)
    OBVIOUS
  <2>2. f[Len(s)] \in Seq(Int)
    BY <2>1, <1>1 DEF Picks
  <2> HIDE DEF Fine
  <2> QED BY <2>1, <2>2, <1>2
<1> QED BY <1>1, <1>3

LEMMA PickedAll ==
  ASSUME NEW s \in Seq(Int), NEW P, 1..Len(s) \subseteq P
  PROVE  Picked(s, P) = s
<1>1. PICK f : Picks(f, s, P) /\ Picked(s, P) = f[Len(s)]
  BY PickedPicks
<1> DEFINE Fine(n) == Len(f[n]) = n /\ \A k \in 1..n : f[n][k] = s[k]
           Bad == {n \in 0..Len(s) : ~Fine(n)}
<1>2. Bad = {}
  <2> SUFFICES ASSUME Bad # {} PROVE FALSE
    OBVIOUS
  <2> DEFINE b == Min(Bad)
  <2>1. b \in Bad /\ \A k \in Bad : b <= k
    <3>1. Bad \subseteq Nat
      OBVIOUS
    <3> HIDE DEF Bad
    <3> QED BY <3>1, LeastOfSet
  <2> HIDE DEF b
  <2>2. b # 0
    <3>1. f[0] = <<>> /\ Len(<<>>) = 0 /\ 1..0 = {}
      BY <1>1 DEF Picks
    <3>3. Fine(0)
      BY <3>1
    <3> HIDE DEF Fine
    <3> QED BY <3>3, <2>1
  <2>3. b \in 1..Len(s) /\ Fine(b - 1) /\ b - 1 \in 0..Len(s)
    <3> HIDE DEF Fine
    <3>1. b \in 0..Len(s) /\ Len(s) \in Nat
      BY <2>1
    <3>2. b - 1 \in 0..Len(s) /\ ~(b <= b - 1) /\ b \in 1..Len(s)
      BY <3>1, <2>2
    <3> QED BY <3>2, <2>1
  <2>4. f[b] = Append(f[b - 1], s[b])
    BY <2>3, <1>1 DEF Picks
  <2>5. f[b - 1] \in Seq(Int) /\ s[b] \in Int
    <3>1. f \in [0..Len(s) -> Seq(Int)]
      BY <1>1 DEF Picks
    <3>2. b - 1 \in 0..Len(s) /\ b \in 1..Len(s)
      BY <2>3
    <3>3. f[b - 1] \in Seq(Int)
      BY <3>1, <3>2, Zenon
    <3>4. s[b] \in Int
      BY <3>2
    <3> QED BY <3>3, <3>4
  <2>6. Fine(b)
    BY <2>3, <2>4, <2>5
  <2> HIDE DEF Fine
  <2> QED BY <2>6, <2>1
<1>3. Fine(Len(s)) /\ f[Len(s)] \in Seq(Int)
  <2>1. Len(s) \in 0..Len(s)
    OBVIOUS
  <2>2. f[Len(s)] \in Seq(Int)
    BY <2>1, <1>1 DEF Picks
  <2> HIDE DEF Fine
  <2> QED BY <2>1, <2>2, <1>2
<1> QED BY <1>1, <1>3

-------------------------------------------------------------------------------
(* The path from the root to an entry *)

\* The parent that counts: one that is in the session.
Up(T, known, i) == IF T[i].parent \in known THEN T[i].parent ELSE Header

\* A path is what PathTo computes: each entry hangs on the one before it.
IsPath(T, known, s, i) ==
  /\ s \in Seq(known)
  /\ IF i = Header THEN s = <<>> ELSE s # <<>> /\ s[Len(s)] = i
  /\ \A n \in 1..Len(s) : Up(T, known, s[n]) = IF n = 1 THEN Header ELSE s[n - 1]

\* No entry is above itself.
Ranked(T, known) ==
  \E rank \in [known -> Nat] :
    \A i \in known : T[i].parent \in known => rank[T[i].parent] < rank[i]

\* One sequence after the other.
LEMMA ConcatOf ==
  ASSUME NEW a \in Seq(Int), NEW b \in Seq(Int)
  PROVE  /\ a \o b \in Seq(Int) /\ Len(a \o b) = Len(a) + Len(b)
         /\ \A n \in 1..Len(a) : (a \o b)[n] = a[n]
         /\ \A n \in 1..Len(b) : (a \o b)[Len(a) + n] = b[n]
         /\ ToSet(a \o b) = ToSet(a) \union ToSet(b)
<1> DEFINE m == Len(a)
           c == a \o b
<1>1. m \in Nat /\ Len(b) \in Nat /\ DOMAIN a = 1..m /\ DOMAIN b = 1..Len(b)
  OBVIOUS
<1>2. c \in Seq(Int) /\ Len(c) = m + Len(b) /\ DOMAIN c = 1..(m + Len(b))
  OBVIOUS
<1>3. \A n \in 1..m : c[n] = a[n]
  OBVIOUS
<1>4. \A n \in 1..Len(b) : c[m + n] = b[n]
  OBVIOUS
<1>5. QED
  <2> HIDE DEF m, c
  <2>1. \A n \in 1..(m + Len(b)) : n \in 1..m \/ (n - m \in 1..Len(b) /\ n = m + (n - m))
    BY <1>1
  <2>2. \A n \in 1..Len(b) : m + n \in 1..(m + Len(b))
    BY <1>1
  <2>3. 1..m \subseteq 1..(m + Len(b))
    BY <1>1
  <2>4. ToSet(c) \subseteq ToSet(a) \union ToSet(b)
    <3>1. \A n \in 1..m : a[n] \in ToSet(a)
      BY <1>1 DEF ToSet
    <3>2. \A n \in 1..Len(b) : b[n] \in ToSet(b)
      BY <1>1 DEF ToSet
    <3>3. \A n \in 1..(m + Len(b)) : c[n] \in ToSet(a) \union ToSet(b)
      <4> TAKE n \in 1..(m + Len(b))
      <4>1. CASE n \in 1..m
        BY <4>1, <3>1, <1>3
      <4>2. CASE n - m \in 1..Len(b) /\ n = m + (n - m)
        <5>1. c[m + (n - m)] = b[n - m]
          BY <4>2, <1>4
        <5> QED BY <5>1, <4>2, <3>2
      <4> QED BY <4>1, <4>2, <2>1
    <3> QED BY <3>3, <1>2 DEF ToSet
  <2>5. ToSet(a) \subseteq ToSet(c)
    BY <1>1, <1>2, <1>3, <2>3 DEF ToSet
  <2>6. ToSet(b) \subseteq ToSet(c)
    BY <1>1, <1>2, <1>4, <2>2 DEF ToSet
  <2> QED BY <1>2, <1>3, <1>4, <2>4, <2>5, <2>6 DEF m, c

LEMMA PathExtends ==
  ASSUME NEW T, NEW known, known \subseteq Nat \ {0}, NEW i \in known, NEW s,
         IsPath(T, known, s, Up(T, known, i))
  PROVE  IsPath(T, known, Append(s, i), i)
<1> DEFINE t == Append(s, i)
<1>1. s \in Seq(known) /\ i # Header
  BY DEF IsPath, Header
<1>2. /\ t \in Seq(known) /\ Len(t) = Len(s) + 1 /\ t[Len(t)] = i /\ t # <<>>
      /\ \A n \in 1..Len(s) : t[n] = s[n]
      /\ Len(s) \in Nat
  BY <1>1
<1> HIDE DEF t
<1>3. ASSUME NEW n \in 1..Len(t)
      PROVE  Up(T, known, t[n]) = IF n = 1 THEN Header ELSE t[n - 1]
  <2>1. CASE n \in 1..Len(s)
    <3>1. t[n] = s[n] /\ (n # 1 => t[n - 1] = s[n - 1])
      BY <2>1, <1>2
    <3> QED BY <3>1, <2>1 DEF IsPath
  <2>2. CASE n = Len(t)
    <3>1. t[n] = i
      BY <2>2, <1>2
    <3>2. CASE Up(T, known, i) = Header
      <4>1. Len(s) = 0
        BY <3>2 DEF IsPath
      <4>2. n = 1
        BY <4>1, <2>2, <1>2
      <4> QED BY <4>2, <3>1, <3>2
    <3>3. CASE Up(T, known, i) # Header
      <4>1. s # <<>> /\ s[Len(s)] = Up(T, known, i)
        BY <3>3 DEF IsPath
      <4>2. Len(s) # 0
        BY <4>1, <1>1
      <4>3. n # 1 /\ n - 1 = Len(s) /\ t[n - 1] = s[Len(s)]
        BY <4>2, <2>2, <1>2
      <4> QED BY <4>1, <4>3, <3>1
    <3> QED BY <3>2, <3>3
  <2> QED BY <2>1, <2>2, <1>2
<1> QED BY <1>1, <1>2, <1>3 DEF IsPath, t

\* A part of a path is the path to the entry it ends with.
LEMMA PathPrefix ==
  ASSUME NEW T, NEW known, known \subseteq Nat \ {0}, NEW i, NEW s,
         IsPath(T, known, s, i), NEW n \in 1..Len(s)
  PROVE  IsPath(T, known, SubSeq(s, 1, n), s[n])
<1> DEFINE t == SubSeq(s, 1, n)
<1>1. s \in Seq(known) /\ Len(s) \in Nat
  BY DEF IsPath
<1>2. t \in Seq(known) /\ Len(t) = n /\ \A m \in 1..n : t[m] = s[m]
  BY <1>1
<1>3. s[n] # Header
  BY <1>1 DEF Header
<1> HIDE DEF t
<1>4. t # <<>> /\ t[Len(t)] = s[n]
  BY <1>2
<1>5. ASSUME NEW m \in 1..Len(t)
      PROVE  Up(T, known, t[m]) = IF m = 1 THEN Header ELSE t[m - 1]
  <2>1. m \in 1..Len(s) /\ t[m] = s[m] /\ (m # 1 => t[m - 1] = s[m - 1])
    BY <1>1, <1>2
  <2> QED BY <2>1 DEF IsPath
<1> QED BY <1>2, <1>3, <1>4, <1>5 DEF IsPath, t

LEMMA PathShrinks ==
  ASSUME NEW T, NEW known, known \subseteq Nat \ {0}, NEW i \in known, NEW s,
         IsPath(T, known, s, i)
  PROVE  IsPath(T, known, Front(s), Up(T, known, i)) /\ s = Append(Front(s), i)
<1>1. s \in Seq(known) /\ Len(s) \in Nat /\ i # Header
  BY DEF IsPath, Header
<1>2. s # <<>> /\ s[Len(s)] = i
  BY <1>1 DEF IsPath
<1>3. Len(s) # 0 /\ Len(s) \in 1..Len(s)
  BY <1>1, <1>2
<1>4. Up(T, known, i) = IF Len(s) = 1 THEN Header ELSE s[Len(s) - 1]
  BY <1>2, <1>3 DEF IsPath
<1> DEFINE m == Len(s) - 1
           t == SubSeq(s, 1, m)
<1>5. m \in Nat /\ Len(s) = m + 1 /\ t = Front(s)
  BY <1>1, <1>3 DEF Front
<1>6. s = Append(t, i)
  BY <1>5, <1>1, <1>2
<1> HIDE DEF m
<1>7. CASE m = 0
  <2>1. t = <<>>
    BY <1>1, <1>7
  <2>2. IsPath(T, known, <<>>, Header)
    BY DEF IsPath
  <2> QED BY <2>1, <2>2, <1>4, <1>5, <1>6, <1>7
<1>8. CASE m # 0
  <2>1. m \in 1..Len(s)
    BY <1>5, <1>8
  <2>2. IsPath(T, known, t, s[m])
    BY <2>1, PathPrefix
  <2>3. Up(T, known, i) = s[m]
    BY <1>4, <1>5, <1>8
  <2> QED BY <2>2, <2>3, <1>5, <1>6
<1> QED BY <1>7, <1>8

LEMMA PathIsUnique ==
  ASSUME NEW T, NEW known, known \subseteq Nat \ {0}, Ranked(T, known),
         NEW i \in known \union {Header}, NEW s, NEW t,
         IsPath(T, known, s, i), IsPath(T, known, t, i)
  PROVE  s = t
<1>1. PICK rank \in [known -> Nat] :
        \A j \in known : T[j].parent \in known => rank[T[j].parent] < rank[j]
  BY DEF Ranked
<1> DEFINE Two(j) == \E u, v : IsPath(T, known, u, j) /\ IsPath(T, known, v, j) /\ u # v
           Bad == {n \in Nat : \E j \in known : rank[j] = n /\ Two(j)}
<1>2. ~Two(Header)
  BY DEF IsPath
<1>3. Bad = {}
  <2> SUFFICES ASSUME Bad # {} PROVE FALSE
    OBVIOUS
  <2> DEFINE b == Min(Bad)
  <2>1. b \in Bad /\ \A k \in Bad : b <= k
    <3>1. Bad \subseteq Nat
      OBVIOUS
    <3> HIDE DEF Bad
    <3> QED BY <3>1, LeastOfSet
  <2> HIDE DEF b
  <2>2. PICK j \in known : rank[j] = b /\ Two(j)
    BY <2>1
  <2>3. PICK u, v : IsPath(T, known, u, j) /\ IsPath(T, known, v, j) /\ u # v
    BY <2>2
  <2>4. IsPath(T, known, Front(u), Up(T, known, j)) /\ u = Append(Front(u), j)
    BY <2>3, PathShrinks
  <2>5. IsPath(T, known, Front(v), Up(T, known, j)) /\ v = Append(Front(v), j)
    BY <2>3, PathShrinks
  <2>6. Front(u) # Front(v)
    BY <2>3, <2>4, <2>5
  <2>7. Two(Up(T, known, j))
    BY <2>4, <2>5, <2>6
  <2>8. Up(T, known, j) # Header
    BY <2>7, <1>2
  <2>9. T[j].parent \in known /\ Up(T, known, j) = T[j].parent
    BY <2>8 DEF Up
  <2> HIDE DEF Two
  <2>10. rank[T[j].parent] < b /\ rank[T[j].parent] \in Nat /\ b \in Nat
    BY <2>9, <2>2, <1>1
  <2>11. rank[T[j].parent] \in Bad
    BY <2>9, <2>7, <2>10
  <2> HIDE DEF Bad
  <2> QED BY <2>10, <2>11, <2>1
<1>4. ~Two(i)
  <2>1. CASE i = Header
    BY <2>1, <1>2
  <2>2. CASE i \in known
    <3> HIDE DEF Two
    <3>1. rank[i] \in Nat
      BY <2>2
    <3> QED BY <3>1, <2>2, <1>3
  <2> QED BY <2>1, <2>2
<1> QED BY <1>4

LEMMA PathExists ==
  ASSUME NEW T, NEW known, known \subseteq Nat \ {0}, Ranked(T, known),
         NEW i \in known \union {Header}
  PROVE  \E s : IsPath(T, known, s, i)
<1>1. PICK rank \in [known -> Nat] :
        \A j \in known : T[j].parent \in known => rank[T[j].parent] < rank[j]
  BY DEF Ranked
<1> DEFINE None(j) == \A s : ~IsPath(T, known, s, j)
           Bad == {n \in Nat : \E j \in known : rank[j] = n /\ None(j)}
<1>2. ~None(Header)
  <2>1. IsPath(T, known, <<>>, Header)
    BY DEF IsPath
  <2> QED BY <2>1
<1>3. Bad = {}
  <2> SUFFICES ASSUME Bad # {} PROVE FALSE
    OBVIOUS
  <2> DEFINE b == Min(Bad)
  <2>1. b \in Bad /\ \A k \in Bad : b <= k
    <3>1. Bad \subseteq Nat
      OBVIOUS
    <3> HIDE DEF Bad
    <3> QED BY <3>1, LeastOfSet
  <2> HIDE DEF b
  <2>2. PICK j \in known : rank[j] = b /\ None(j)
    BY <2>1
  <2>3. None(Up(T, known, j))
    <3> SUFFICES ASSUME NEW s, IsPath(T, known, s, Up(T, known, j)) PROVE FALSE
      OBVIOUS
    <3>1. IsPath(T, known, Append(s, j), j)
      BY PathExtends
    <3> QED BY <3>1, <2>2
  <2>4. Up(T, known, j) # Header
    BY <2>3, <1>2
  <2>5. T[j].parent \in known /\ Up(T, known, j) = T[j].parent
    BY <2>4 DEF Up
  <2> HIDE DEF None
  <2>6. rank[T[j].parent] < b /\ rank[T[j].parent] \in Nat /\ b \in Nat
    BY <2>5, <2>2, <1>1
  <2>7. rank[T[j].parent] \in Bad
    BY <2>5, <2>3, <2>6
  <2> HIDE DEF Bad
  <2> QED BY <2>6, <2>7, <2>1
<1>4. ~None(i)
  <2>1. CASE i = Header
    BY <2>1, <1>2
  <2>2. CASE i \in known
    <3> HIDE DEF None
    <3>1. rank[i] \in Nat
      BY <2>2
    <3> QED BY <3>1, <2>2, <1>3
  <2> QED BY <2>1, <2>2
<1> QED BY <1>4

\* PathTo computes the path.
LEMMA PathToIsPath ==
  ASSUME NEW T, NEW ids, Members(ids) \subseteq Nat \ {0}, Ranked(T, Members(ids)),
         NEW leaf \in Members(ids) \union {Header}
  PROVE  IsPath(T, Members(ids), PathTo(T, ids, leaf), leaf)
<1> DEFINE known == Members(ids)
           All == known \union {Header}
           Is(f) == f = [i \in All |->
                          IF i = Header THEN <<>>
                          ELSE Append(f[IF T[i].parent \in known THEN T[i].parent ELSE Header], i)]
           c == CHOOSE f : Is(f)
           g == [i \in All |-> CHOOSE s : IsPath(T, known, s, i)]
<1>1. PathTo(T, ids, leaf) = c[leaf]
  BY DEF PathTo
<1> HIDE DEF known
<1>2. known \subseteq Nat \ {0} /\ Ranked(T, known) /\ Header \notin known /\ leaf \in All
  BY DEF known, Members, Header
<1>3. \A i \in All : IsPath(T, known, g[i], i)
  BY <1>2, PathExists
<1> HIDE DEF g
<1>4. g[Header] = <<>>
  BY <1>3 DEF IsPath
<1>5. \A i \in known : g[i] = Append(g[Up(T, known, i)], i)
  <2> TAKE i \in known
  <2>1. Up(T, known, i) \in All
    BY DEF Up
  <2>2. IsPath(T, known, Append(g[Up(T, known, i)], i), i)
    BY <2>1, <1>2, <1>3, PathExtends
  <2>3. IsPath(T, known, g[i], i)
    BY <1>3
  <2> QED BY <2>2, <2>3, <1>2, PathIsUnique
<1>6. Is(g)
  <2> DEFINE h == [i \in All |-> IF i = Header THEN <<>>
                          ELSE Append(g[IF T[i].parent \in known THEN T[i].parent ELSE Header], i)]
  <2>1. g = [i \in All |-> g[i]]
    BY DEF g
  <2>2. \A i \in All : g[i] = h[i]
    BY <1>4, <1>5 DEF Up
  <2>3. h = [i \in All |-> h[i]]
    OBVIOUS
  <2> HIDE DEF h
  <2>4. g = h
    BY <2>1, <2>2, <2>3
  <2> QED BY <2>4 DEF h
<1>7. Is(c)
  <2> HIDE DEF Is
  <2> QED BY <1>6
<1> HIDE DEF c
<1>8. c[Header] = <<>>
  BY <1>7
<1>9. \A i \in known : c[i] = Append(c[Up(T, known, i)], i)
  BY <1>7, <1>2 DEF Up
<1> HIDE DEF Is
<1>10. PICK rank \in [known -> Nat] :
         \A j \in known : T[j].parent \in known => rank[T[j].parent] < rank[j]
  BY <1>2 DEF Ranked
<1> DEFINE Bad == {n \in Nat : \E j \in known : rank[j] = n /\ ~IsPath(T, known, c[j], j)}
<1>11. IsPath(T, known, c[Header], Header)
  BY <1>8 DEF IsPath
<1>12. Bad = {}
  <2> SUFFICES ASSUME Bad # {} PROVE FALSE
    OBVIOUS
  <2> DEFINE b == Min(Bad)
  <2>1. b \in Bad /\ \A k \in Bad : b <= k
    <3>1. Bad \subseteq Nat
      OBVIOUS
    <3> HIDE DEF Bad
    <3> QED BY <3>1, LeastOfSet
  <2> HIDE DEF b
  <2>2. PICK j \in known : rank[j] = b /\ ~IsPath(T, known, c[j], j)
    BY <2>1
  <2>3. ~IsPath(T, known, c[Up(T, known, j)], Up(T, known, j))
    <3> DEFINE s == c[Up(T, known, j)]
    <3> SUFFICES ASSUME IsPath(T, known, s, Up(T, known, j)) PROVE FALSE
      OBVIOUS
    <3>1. c[j] = Append(s, j)
      BY <1>9
    <3> HIDE DEF s
    <3>2. IsPath(T, known, Append(s, j), j)
      BY <1>2, PathExtends
    <3> QED BY <3>1, <3>2, <2>2
  <2>4. Up(T, known, j) # Header
    BY <2>3, <1>11
  <2>5. T[j].parent \in known /\ Up(T, known, j) = T[j].parent
    BY <2>4 DEF Up
  <2>6. rank[T[j].parent] < b /\ rank[T[j].parent] \in Nat /\ b \in Nat
    BY <2>5, <2>2, <1>10
  <2>7. rank[T[j].parent] \in Bad
    BY <2>5, <2>3, <2>6
  <2> HIDE DEF Bad
  <2> QED BY <2>6, <2>7, <2>1
<1>13. IsPath(T, known, c[leaf], leaf)
  <2>1. CASE leaf = Header
    BY <2>1, <1>11
  <2>2. CASE leaf \in known
    <3>1. rank[leaf] \in Nat
      BY <2>2
    <3> QED BY <3>1, <2>2, <1>12
  <2> QED BY <2>1, <2>2, <1>2
<1> QED BY <1>13, <1>1 DEF known

-------------------------------------------------------------------------------
(* The table, the session manager and the files *)

\* The entries made so far have their types, and their parents form no circle.
GoodTable(T) ==
  /\ T \in Seq(Entry)
  /\ \A i \in DOMAIN T : T[i].parent \in 0..Len(T)
  /\ Ranked(T, DOMAIN T)

GoodIds(T, ids) == ids \in Seq(0..Len(T)) /\ ids # <<>> /\ ids[1] = Header

GoodMem(T, M) ==
  /\ M \in [file : File, ids : Seq(Nat), leaf : Nat, flushed : BOOLEAN]
  /\ GoodIds(T, M.ids)
  /\ M.leaf \in Members(M.ids) \union {Header}

GoodFiles(T, F) == F \in [File -> Seq(Torn..Len(T))]

\* An entry that has no place yet.
Unplaced(T, M, F, e) ==
  /\ e \in DOMAIN T
  /\ e \notin Members(M.ids)
  /\ \A i \in DOMAIN T : T[i].parent # e
  /\ \A f \in File : e \notin ToSet(F[f])

\* What a write brings: some of the lines, and perhaps a part of one.
GoodOut(out, lines) ==
  /\ out.lines \in Seq(Int) /\ out.ok \in BOOLEAN
  /\ ToSet(out.lines) \subseteq ToSet(lines) \union {Torn}
  /\ out.ok => out.lines = lines

\* The entries that two tables share, but for their places.
SameEntries(T, T2) ==
  /\ Len(T) <= Len(T2)
  /\ \A i \in DOMAIN T : /\ T2[i].kind = T[i].kind /\ T2[i].ref = T[i].ref
                         /\ T2[i].home = T[i].home /\ T2[i].covers = T[i].covers

LEMMA NatRange ==
  ASSUME NEW T, T \in Seq(Entry)
  PROVE  /\ Len(T) \in Nat /\ DOMAIN T = 1..Len(T) /\ DOMAIN T \subseteq Nat \ {0}
         /\ \A i \in DOMAIN T : T[i] \in Entry
OBVIOUS

LEMMA MembersOf ==
  ASSUME NEW T, T \in Seq(Entry), NEW ids, ids \in Seq(0..Len(T))
  PROVE  Members(ids) \subseteq DOMAIN T /\ Header \notin Members(ids)
<1>1. ToSet(ids) \subseteq 0..Len(T)
  BY DEF ToSet
<1> QED BY <1>1, NatRange DEF Members, Header

LEMMA RankedWithin ==
  ASSUME NEW T, NEW K, NEW L, L \subseteq K, Ranked(T, K)
  PROVE  Ranked(T, L)
<1>1. PICK rank \in [K -> Nat] :
        \A i \in K : T[i].parent \in K => rank[T[i].parent] < rank[i]
  BY DEF Ranked
<1> DEFINE r == [i \in L |-> rank[i]]
<1>2. r \in [L -> Nat] /\ \A i \in L : r[i] = rank[i]
  OBVIOUS
<1> HIDE DEF r
<1>3. \A i \in L : T[i].parent \in L => r[T[i].parent] < r[i]
  BY <1>1, <1>2
<1> QED BY <1>2, <1>3 DEF Ranked

\* The path of a session, and that it is one.
LEMMA PathOf ==
  ASSUME NEW T, GoodTable(T), NEW ids, GoodIds(T, ids), NEW leaf \in Members(ids) \union {Header}
  PROVE  /\ IsPath(T, Members(ids), PathTo(T, ids, leaf), leaf)
         /\ PathTo(T, ids, leaf) \in Seq(Members(ids))
         /\ PathTo(T, ids, leaf) \in Seq(Int)
         /\ ToSet(PathTo(T, ids, leaf)) \subseteq Members(ids)
         /\ Members(ids) \subseteq DOMAIN T /\ Members(ids) \subseteq Nat \ {0}
         /\ Ranked(T, Members(ids))
<1>1. T \in Seq(Entry) /\ ids \in Seq(0..Len(T))
  BY DEF GoodTable, GoodIds
<1>2. Members(ids) \subseteq DOMAIN T /\ Members(ids) \subseteq Nat \ {0}
  BY <1>1, MembersOf, NatRange
<1>3. Ranked(T, Members(ids))
  BY <1>2, RankedWithin DEF GoodTable
<1>4. IsPath(T, Members(ids), PathTo(T, ids, leaf), leaf)
  BY <1>2, <1>3, PathToIsPath
<1>5. PathTo(T, ids, leaf) \in Seq(Members(ids))
  BY <1>4 DEF IsPath
<1>6. PathTo(T, ids, leaf) \in Seq(Int)
  BY <1>5, <1>2
<1> QED BY <1>2, <1>3, <1>4, <1>5, <1>6 DEF ToSet

\* A new entry at the end of the table changes nothing of the others.
LEMMA AppendGood ==
  ASSUME NEW T, GoodTable(T), NEW x \in Entry, x.parent = Header
  PROVE  /\ GoodTable(Append(T, x)) /\ SameEntries(T, Append(T, x))
         /\ Len(Append(T, x)) = Len(T) + 1
         /\ Append(T, x)[Len(T) + 1] = x
         /\ \A i \in DOMAIN T : Append(T, x)[i] = T[i]
         /\ DOMAIN Append(T, x) = DOMAIN T \union {Len(T) + 1}
         /\ Len(T) + 1 \notin DOMAIN T
         /\ \A i \in DOMAIN Append(T, x) : Append(T, x)[i].parent # Len(T) + 1
<1> DEFINE U == Append(T, x)
           k == Len(T) + 1
<1>1. T \in Seq(Entry) /\ DOMAIN T = 1..Len(T) /\ Len(T) \in Nat
  BY NatRange DEF GoodTable
<1>2. /\ U \in Seq(Entry) /\ Len(U) = k /\ DOMAIN U = DOMAIN T \union {k} /\ k \notin DOMAIN T
      /\ U[k] = x /\ \A i \in DOMAIN T : U[i] = T[i]
  BY <1>1
<1> HIDE DEF U
<1>3. \A i \in DOMAIN U : U[i].parent \in 0..Len(T)
  BY <1>2, <1>1 DEF GoodTable, Header
<1>4. \A i \in DOMAIN U : U[i].parent \in 0..Len(U) /\ U[i].parent # k
  BY <1>3, <1>2, <1>1
<1>5. Ranked(U, DOMAIN U)
  <2>1. PICK rank \in [DOMAIN T -> Nat] :
          \A i \in DOMAIN T : T[i].parent \in DOMAIN T => rank[T[i].parent] < rank[i]
    BY DEF GoodTable, Ranked
  <2> DEFINE r == [i \in DOMAIN U |-> IF i \in DOMAIN T THEN rank[i] ELSE 0]
  <2>2. r \in [DOMAIN U -> Nat] /\ \A i \in DOMAIN T : r[i] = rank[i]
    BY <1>2
  <2> HIDE DEF r
  <2>3. ASSUME NEW i \in DOMAIN U, U[i].parent \in DOMAIN U
        PROVE  r[U[i].parent] < r[i]
    <3>1. U[i].parent \in DOMAIN T
      BY <2>3, <1>2, <1>4
    <3>2. i # k
      BY <3>1, <1>2, <1>1 DEF Header
    <3>3. i \in DOMAIN T /\ U[i] = T[i]
      BY <3>2, <1>2
    <3> QED BY <3>1, <3>3, <2>1, <2>2
  <2> QED BY <2>2, <2>3 DEF Ranked
<1>6. SameEntries(T, U)
  BY <1>1, <1>2 DEF SameEntries
<1> QED BY <1>2, <1>4, <1>5, <1>6 DEF GoodTable, U

LEMMA GoodLater ==
  ASSUME NEW T, NEW U, T \in Seq(Entry), U \in Seq(Entry), Len(T) <= Len(U)
  PROVE  /\ \A ids : GoodIds(T, ids) => GoodIds(U, ids)
         /\ \A M : GoodMem(T, M) => GoodMem(U, M)
         /\ \A F : GoodFiles(T, F) => GoodFiles(U, F)
<1>1. 0..Len(T) \subseteq 0..Len(U) /\ Torn..Len(T) \subseteq Torn..Len(U)
  BY NatRange DEF Torn
<1>2. \A ids : GoodIds(T, ids) => GoodIds(U, ids)
  BY <1>1 DEF GoodIds
<1>3. Seq(Torn..Len(T)) \subseteq Seq(Torn..Len(U))
  <2> DEFINE A == Torn..Len(T)
             B == Torn..Len(U)
  <2>1. A \subseteq B
    BY <1>1
  <2> HIDE DEF A, B
  <2>2. \A s \in Seq(A) : s \in Seq(B)
    BY <2>1
  <2> QED BY <2>2 DEF A, B
<1>4. \A F : GoodFiles(T, F) => GoodFiles(U, F)
  BY <1>3 DEF GoodFiles
<1> QED BY <1>2, <1>4 DEF GoodMem

\* The append of an entry that had no place: the store of Store.
StoredMem(M, i, flushed) == [M EXCEPT !.ids = Append(@, i), !.leaf = i, !.flushed = flushed]
StoredFiles(F, M, lines) == [F EXCEPT ![M.file] = @ \o lines]

LEMMA PlacedGood ==
  ASSUME NEW T, GoodTable(T), NEW i \in DOMAIN T, \A j \in DOMAIN T : T[j].parent # i,
         NEW leaf \in 0..Len(T), leaf # i
  PROVE  /\ GoodTable(Placed(T, i, leaf))
         /\ Len(Placed(T, i, leaf)) = Len(T) /\ DOMAIN Placed(T, i, leaf) = DOMAIN T
         /\ SameEntries(T, Placed(T, i, leaf))
         /\ \A j \in DOMAIN T \ {i} : Placed(T, i, leaf)[j] = T[j]
         /\ Placed(T, i, leaf)[i].parent = leaf
         /\ Placed(T, i, leaf)[i].past =
              Past(T, leaf) \union {m \in {i} : T[i].kind \in Messages}
<1> DEFINE U == Placed(T, i, leaf)
<1>1. /\ T \in Seq(Entry) /\ DOMAIN T = 1..Len(T) /\ Len(T) \in Nat
      /\ DOMAIN T \subseteq Nat \ {0} /\ \A j \in DOMAIN T : T[j] \in Entry
  <2>1. T \in Seq(Entry)
    BY DEF GoodTable
  <2> QED BY <2>1, NatRange
<1>2. Past(T, leaf) \subseteq Nat
  <2>1. leaf = Header \/ leaf \in DOMAIN T
    BY <1>1 DEF Header
  <2> QED BY <2>1, <1>1 DEF Past, Entry
<1> DEFINE P == Past(T, leaf) \union {m \in {i} : T[i].kind \in Messages}
<1>3. P \in SUBSET Nat
  BY <1>1, <1>2
<1>4. U = [T EXCEPT ![i] = [T[i] EXCEPT !.parent = leaf, !.past = P]]
  BY DEF Placed
<1> HIDE DEF P
<1> DEFINE x == [T[i] EXCEPT !.parent = leaf, !.past = P]
<1>5. x \in Entry /\ x.parent = leaf /\ x.past = P
      /\ x.kind = T[i].kind /\ x.ref = T[i].ref /\ x.home = T[i].home /\ x.covers = T[i].covers
  <2>1. T[i] \in Entry /\ leaf \in Nat
    BY <1>1
  <2> DEFINE y == T[i]
  <2>2. y \in Entry
    BY <2>1
  <2> HIDE DEF y
  <2>3. [y EXCEPT !.parent = leaf, !.past = P] \in Entry
    BY <1>3, <2>1, <2>2 DEF Entry
  <2>4. x = [y EXCEPT !.parent = leaf, !.past = P]
    BY DEF y
  <2>5. /\ x.parent = leaf /\ x.past = P
        /\ x.kind = y.kind /\ x.ref = y.ref /\ x.home = y.home /\ x.covers = y.covers
    BY <2>2, <2>4 DEF Entry
  <2> QED BY <2>3, <2>4, <2>5 DEF y
<1> HIDE DEF x
<1>6. U = [T EXCEPT ![i] = x]
  BY <1>4 DEF x
<1>7. U \in Seq(Entry) /\ DOMAIN U = DOMAIN T /\ Len(U) = Len(T)
      /\ U[i] = x /\ \A j \in DOMAIN T \ {i} : U[j] = T[j]
  BY <1>1, <1>5, <1>6
<1> HIDE DEF U
<1>8. \A j \in DOMAIN U : U[j].parent \in 0..Len(U)
  BY <1>5, <1>7 DEF GoodTable
<1>9. Ranked(U, DOMAIN U)
  <2>1. PICK rank \in [DOMAIN T -> Nat] :
          \A j \in DOMAIN T : T[j].parent \in DOMAIN T => rank[T[j].parent] < rank[j]
    BY DEF GoodTable, Ranked
  <2> DEFINE top == IF leaf \in DOMAIN T THEN rank[leaf] + 1 ELSE 0
             r == [rank EXCEPT ![i] = top]
  <2>2. top \in Nat /\ (leaf \in DOMAIN T => rank[leaf] < top)
    OBVIOUS
  <2> HIDE DEF top
  <2>3. r \in [DOMAIN U -> Nat] /\ r[i] = top /\ \A j \in DOMAIN T \ {i} : r[j] = rank[j]
    BY <1>7, <2>2
  <2> HIDE DEF r
  <2>4. ASSUME NEW j \in DOMAIN U, U[j].parent \in DOMAIN U
        PROVE  r[U[j].parent] < r[j]
    <3>1. CASE j = i
      <4>1. U[j].parent = leaf /\ leaf \in DOMAIN T \ {i}
        BY <3>1, <1>5, <1>7, <2>4
      <4> QED BY <4>1, <3>1, <2>2, <2>3
    <3>2. CASE j # i
      <4>1. U[j] = T[j] /\ T[j].parent # i /\ j \in DOMAIN T \ {i} /\ T[j].parent \in DOMAIN T \ {i}
        BY <3>2, <1>7, <2>4
      <4> QED BY <4>1, <2>1, <2>3
    <3> QED BY <3>1, <3>2
  <2> QED BY <2>3, <2>4 DEF Ranked
<1>10. SameEntries(T, U)
  BY <1>1, <1>5, <1>7 DEF SameEntries
<1> QED BY <1>5, <1>7, <1>8, <1>9, <1>10 DEF GoodTable, U, P

LEMMA StoreGood ==
  ASSUME NEW T, GoodTable(T), NEW M, GoodMem(T, M), NEW F, GoodFiles(T, F),
         NEW i, Unplaced(T, M, F, i),
         NEW lines, lines \in Seq(Int), ToSet(lines) \subseteq ToSet(Append(M.ids, i)) \union {Torn},
         NEW fl \in BOOLEAN
  PROVE  /\ GoodTable(Placed(T, i, M.leaf))
         /\ Len(Placed(T, i, M.leaf)) = Len(T) /\ DOMAIN Placed(T, i, M.leaf) = DOMAIN T
         /\ SameEntries(T, Placed(T, i, M.leaf))
         /\ GoodMem(Placed(T, i, M.leaf), StoredMem(M, i, fl))
         /\ Members(Append(M.ids, i)) = Members(M.ids) \union {i}
         /\ GoodFiles(Placed(T, i, M.leaf), StoredFiles(F, M, lines))
         /\ ToSet(StoredFiles(F, M, lines)[M.file]) \subseteq ToSet(F[M.file]) \union ToSet(M.ids) \union {i, Torn}
         /\ \A f \in File \ {M.file} : StoredFiles(F, M, lines)[f] = F[f]
         /\ \A e \in DOMAIN T \ {i} :
              Unplaced(T, M, F, e) =>
                Unplaced(Placed(T, i, M.leaf), StoredMem(M, i, fl), StoredFiles(F, M, lines), e)
<1> DEFINE U == Placed(T, i, M.leaf)
           N == StoredMem(M, i, fl)
           G == StoredFiles(F, M, lines)
<1>1. /\ T \in Seq(Entry) /\ DOMAIN T = 1..Len(T) /\ Len(T) \in Nat /\ i \in DOMAIN T
      /\ Header \notin DOMAIN T /\ Torn \notin DOMAIN T
  <2>1. T \in Seq(Entry)
    BY DEF GoodTable
  <2> QED BY <2>1, NatRange DEF Unplaced, Header, Torn
<1>2. /\ M \in [file : File, ids : Seq(Nat), leaf : Nat, flushed : BOOLEAN]
      /\ M.ids \in Seq(0..Len(T)) /\ M.ids # <<>> /\ M.ids[1] = Header
      /\ M.leaf \in Members(M.ids) \union {Header}
  BY DEF GoodMem, GoodIds
<1>3. Members(M.ids) \subseteq DOMAIN T
  BY <1>1, <1>2, MembersOf
<1>4. M.leaf \in 0..Len(T) /\ M.leaf # i
  BY <1>1, <1>2, <1>3 DEF Unplaced, Header
<1>5. \A j \in DOMAIN T : T[j].parent # i
  BY DEF Unplaced
<1>6. /\ GoodTable(U) /\ Len(U) = Len(T) /\ DOMAIN U = DOMAIN T /\ SameEntries(T, U)
      /\ U[i].parent = M.leaf /\ \A j \in DOMAIN T \ {i} : U[j] = T[j]
  BY <1>1, <1>4, <1>5, PlacedGood
<1> HIDE DEF U
<1> DEFINE ids == Append(M.ids, i)
<1>7. /\ ids \in Seq(0..Len(T)) /\ ids \in Seq(Nat) /\ ids # <<>> /\ ids[1] = Header
      /\ DOMAIN ids = DOMAIN M.ids \union {Len(M.ids) + 1}
      /\ ids[Len(M.ids) + 1] = i /\ \A n \in DOMAIN M.ids : ids[n] = M.ids[n]
  <2>1. Len(M.ids) \in Nat /\ Len(M.ids) # 0 /\ i \in 0..Len(T) /\ i \in Nat /\ M.ids \in Seq(Nat)
    BY <1>1, <1>2
  <2> DEFINE old == M.ids
  <2>2. old \in Seq(0..Len(T)) /\ old \in Seq(Nat) /\ old # <<>> /\ old[1] = Header /\ Len(old) \in Nat /\ Len(old) # 0
    BY <2>1, <1>2
  <2>3. ids = Append(old, i)
    OBVIOUS
  <2> HIDE DEF old, ids
  <2>4. ids \in Seq(0..Len(T))
    BY <2>1, <2>2, <2>3
  <2>5. ids \in Seq(Nat)
    BY <2>1, <2>2, <2>3
  <2>6. Len(ids) = Len(old) + 1 /\ DOMAIN ids = DOMAIN old \union {Len(old) + 1}
    BY <2>1, <2>2, <2>3
  <2>7. ids[Len(old) + 1] = i /\ \A n \in DOMAIN old : ids[n] = old[n]
    BY <2>1, <2>2, <2>3
  <2>8. ids # <<>> /\ ids[1] = Header
    BY <2>2, <2>3, <2>6, <2>7
  <2> QED BY <2>4, <2>5, <2>6, <2>7, <2>8 DEF old
<1>8. ToSet(ids) = ToSet(M.ids) \union {i}
  BY <1>7 DEF ToSet
<1>9. Members(ids) = Members(M.ids) \union {i}
  BY <1>8, <1>1 DEF Members
<1> HIDE DEF ids
<1>10. N = [M EXCEPT !.ids = ids, !.leaf = i, !.flushed = fl]
  BY DEF StoredMem, ids
<1>11. /\ N \in [file : File, ids : Seq(Nat), leaf : Nat, flushed : BOOLEAN]
       /\ N.ids = ids /\ N.leaf = i /\ N.file = M.file
  <2>1. i \in Nat
    BY <1>1
  <2>2. N \in [file : File, ids : Seq(Nat), leaf : Nat, flushed : BOOLEAN]
    BY <2>1, <1>2, <1>7, <1>10
  <2>3. N.ids = ids /\ N.leaf = i /\ N.file = M.file
    BY <1>2, <1>10
  <2> QED BY <2>2, <2>3
<1> HIDE DEF N
<1>12. GoodMem(U, N)
  BY <1>6, <1>7, <1>9, <1>11 DEF GoodMem, GoodIds
<1>13. M.file \in File /\ F \in [File -> Seq(Torn..Len(T))]
  BY <1>2 DEF GoodFiles
<1> DEFINE old == F[M.file]
<1>14. old \in Seq(Torn..Len(T))
  BY <1>13
<1>15. ToSet(lines) \subseteq ToSet(M.ids) \union {i, Torn}
  BY <1>8 DEF ids
<1>16. ToSet(lines) \subseteq Torn..Len(T)
  <2>1. ToSet(M.ids) \subseteq 0..Len(T)
    BY <1>2 DEF ToSet
  <2> QED BY <2>1, <1>1, <1>15 DEF Torn
<1>17. lines \in Seq(Torn..Len(T))
  <2> DEFINE L == Torn..Len(T)
  <2>1. ToSet(lines) \subseteq L
    BY <1>16
  <2> HIDE DEF L
  <2>2. \A n \in 1..Len(lines) : lines[n] \in L
    BY <2>1 DEF ToSet
  <2>3. lines \in Seq(L)
    BY <2>2
  <2> QED BY <2>3 DEF L
<1>18. /\ G \in [File -> Seq(Torn..Len(T))] /\ G[M.file] = old \o lines
       /\ \A f \in File \ {M.file} : G[f] = F[f]
  <2> DEFINE L == Torn..Len(T)
  <2>1. old \o lines \in Seq(L)
    BY <1>14, <1>17
  <2> HIDE DEF L, old
  <2>2. G = [F EXCEPT ![M.file] = old \o lines]
    BY DEF StoredFiles, old
  <2> QED BY <2>1, <2>2, <1>13 DEF L
<1> HIDE DEF G
<1>19. GoodFiles(U, G)
  BY <1>6, <1>18 DEF GoodFiles
<1>20. ToSet(G[M.file]) = ToSet(old) \union ToSet(lines)
  <2>1. old \in Seq(Int) /\ ToSet(old \o lines) = ToSet(old) \union ToSet(lines)
    <3>1. old \in Seq(Int)
      BY <1>14, <1>1 DEF Torn
    <3> QED BY <3>1, ConcatOf
  <2> QED BY <2>1, <1>18
<1>21. ToSet(G[M.file]) \subseteq ToSet(F[M.file]) \union ToSet(M.ids) \union {i, Torn}
  BY <1>15, <1>20
<1>22. ASSUME NEW e \in DOMAIN T \ {i}, Unplaced(T, M, F, e)
       PROVE  Unplaced(U, N, G, e)
  <2>1. e \in DOMAIN U
    BY <1>6
  <2>2. e \notin Members(N.ids)
    BY <1>9, <1>11, <1>22 DEF Unplaced
  <2>3. e \notin Members(M.ids) /\ e # Header /\ e # Torn /\ e # M.leaf
    BY <1>1, <1>2, <1>22 DEF Unplaced
  <2>4. \A j \in DOMAIN U : U[j].parent # e
    BY <1>6, <1>22, <2>3 DEF Unplaced
  <2>5. e \notin ToSet(M.ids)
    BY <2>3 DEF Members
  <2>6. \A f \in File : e \notin ToSet(G[f])
    BY <1>18, <1>21, <1>22, <2>3, <2>5 DEF Unplaced
  <2> QED BY <2>1, <2>2, <2>4, <2>6 DEF Unplaced
<1> QED BY <1>6, <1>9, <1>12, <1>18, <1>19, <1>21, <1>22 DEF U, N, G, ids

\* The places that Picked takes, in their order.
Places(g, p, s, P) ==
  /\ g \in [1..Len(p) -> P \intersect 1..Len(s)]
  /\ \A k \in 1..Len(p) : p[k] = s[g[k]]
  /\ \A j, k \in 1..Len(p) : j < k => g[j] < g[k]
  /\ \A n \in P \intersect 1..Len(s) : \E k \in 1..Len(p) : g[k] = n

LEMMA PickedPlaces ==
  ASSUME NEW s \in Seq(Int), NEW P
  PROVE  \E g : Places(g, Picked(s, P), s, P)
<1>1. PICK f : Picks(f, s, P) /\ Picked(s, P) = f[Len(s)]
  BY PickedPicks
<1>2. f \in [0..Len(s) -> Seq(Int)]
  BY <1>1 DEF Picks
<1> DEFINE At(g, p, n) == /\ g \in [1..Len(p) -> P \intersect 1..n]
                          /\ \A k \in 1..Len(p) : p[k] = s[g[k]]
                          /\ \A j, k \in 1..Len(p) : j < k => g[j] < g[k]
                          /\ \A m \in P \intersect 1..n : \E k \in 1..Len(p) : g[k] = m
           Bad == {n \in 0..Len(s) : \A g : ~At(g, f[n], n)}
<1>3. Bad = {}
  <2> SUFFICES ASSUME Bad # {} PROVE FALSE
    OBVIOUS
  <2> DEFINE b == Min(Bad)
  <2>1. b \in Bad /\ \A k \in Bad : b <= k
    <3>1. Bad \subseteq Nat
      OBVIOUS
    <3> HIDE DEF Bad
    <3> QED BY <3>1, LeastOfSet
  <2> HIDE DEF b
  <2>2. b # 0
    <3> DEFINE g == [n \in 1..0 |-> n]
    <3>1. f[0] = <<>> /\ Len(<<>>) = 0 /\ 1..0 = {}
      BY <1>1 DEF Picks
    <3>2. At(g, f[0], 0)
      BY <3>1
    <3> HIDE DEF At, g
    <3> QED BY <3>2, <2>1
  <2>3. b \in 1..Len(s) /\ b - 1 \in 0..Len(s) /\ \E g : At(g, f[b - 1], b - 1)
    <3> HIDE DEF At
    <3>1. b \in 0..Len(s) /\ Len(s) \in Nat
      BY <2>1
    <3>2. b - 1 \in 0..Len(s) /\ ~(b <= b - 1) /\ b \in 1..Len(s)
      BY <3>1, <2>2
    <3> QED BY <3>2, <2>1
  <2>4. f[b] = IF b \in P THEN Append(f[b - 1], s[b]) ELSE f[b - 1]
    BY <2>3, <1>1 DEF Picks
  <2> DEFINE p == f[b - 1]
             q == f[b]
             l == Len(p)
  <2>5. p \in Seq(Int) /\ q \in Seq(Int)
    <3>1. b \in 0..Len(s) /\ b - 1 \in 0..Len(s)
      BY <2>1, <2>3
    <3> QED BY <3>1, <1>2, Zenon
  <2>6. l \in Nat /\ s[b] \in Int
    BY <2>3, <2>5
  <2>7. PICK g : At(g, p, b - 1)
    BY <2>3
  <2>8. 1..b = 1..(b - 1) \union {b} /\ b \notin 1..(b - 1) /\ \A n \in 1..(b - 1) : n < b
    BY <2>3
  <2>9. CASE b \notin P
    <3>1. P \intersect 1..b = P \intersect 1..(b - 1) /\ q = p
      BY <2>4, <2>8, <2>9
    <3> HIDE DEF p, q
    <3>2. At(g, q, b)
      BY <3>1, <2>7
    <3> HIDE DEF At
    <3> QED BY <3>2, <2>1 DEF q
  <2>10. CASE b \in P
    <3>1. P \intersect 1..b = (P \intersect 1..(b - 1)) \union {b}
      BY <2>8, <2>10
    <3>2. q = Append(p, s[b])
      BY <2>4, <2>10
    <3> HIDE DEF q, p
    <3>3. Len(q) = l + 1 /\ q[l + 1] = s[b] /\ \A k \in 1..l : q[k] = p[k]
      BY <3>2, <2>5, <2>6
    <3> DEFINE h == [k \in 1..(l + 1) |-> IF k \in 1..l THEN g[k] ELSE b]
    <3>4. l + 1 \notin 1..l /\ 1..(l + 1) = 1..l \union {l + 1}
      BY <2>6
    <3>5. h[l + 1] = b /\ \A k \in 1..l : h[k] = g[k] /\ g[k] \in P \intersect 1..(b - 1)
      BY <3>4, <2>7
    <3>6. h \in [1..(l + 1) -> P \intersect 1..b]
      BY <3>1, <3>4, <3>5
    <3> HIDE DEF h, l
    <3>7. \A k \in 1..(l + 1) : q[k] = s[h[k]]
      BY <3>3, <3>4, <3>5, <2>7 DEF l
    <3>8. ASSUME NEW j \in 1..(l + 1), NEW k \in 1..(l + 1), j < k PROVE h[j] < h[k]
      <4>1. j \in 1..l
        BY <3>8, <2>6
      <4>2. CASE k \in 1..l
        BY <4>1, <4>2, <3>8, <3>5, <2>7 DEF l
      <4>3. CASE k = l + 1
        BY <4>1, <4>3, <3>5, <2>8
      <4> QED BY <4>2, <4>3, <3>4
    <3>9. ASSUME NEW m \in P \intersect 1..b PROVE \E k \in 1..(l + 1) : h[k] = m
      <4>1. CASE m = b
        BY <4>1, <3>4, <3>5
      <4>2. CASE m \in P \intersect 1..(b - 1)
        <5>1. PICK k \in 1..l : g[k] = m
          BY <4>2, <2>7 DEF l
        <5> QED BY <5>1, <3>4, <3>5
      <4> QED BY <4>1, <4>2, <3>1
    <3>10. At(h, q, b)
      BY <3>3, <3>6, <3>7, <3>8, <3>9
    <3> HIDE DEF At
    <3> QED BY <3>10, <2>1 DEF q
  <2> QED BY <2>9, <2>10
<1>4. PICK g : At(g, f[Len(s)], Len(s))
  <2>1. Len(s) \in 0..Len(s)
    OBVIOUS
  <2> HIDE DEF At
  <2> QED BY <2>1, <1>3
<1>5. Places(g, Picked(s, P), s, P)
  <2> DEFINE p == Picked(s, P)
  <2>1. At(g, p, Len(s))
    BY <1>1, <1>4
  <2> HIDE DEF p
  <2>2. Places(g, p, s, P)
    BY <2>1 DEF Places
  <2> QED BY <2>2 DEF p
<1> QED BY <1>5

LEMMA PickedHead ==
  ASSUME NEW s \in Seq(Int), s # <<>>, NEW P, 1 \in P
  PROVE  Picked(s, P) # <<>> /\ Picked(s, P)[1] = s[1]
<1> DEFINE p == Picked(s, P)
<1>1. p \in Seq(Int) /\ Len(p) \in Nat
  BY PickedFrom
<1>2. PICK g : Places(g, p, s, P)
  BY PickedPlaces
<1> HIDE DEF p
<1>3. 1 \in P \intersect 1..Len(s)
  <2>1. Len(s) \in Nat /\ Len(s) # 0
    OBVIOUS
  <2> QED BY <2>1
<1>4. PICK k \in 1..Len(p) : g[k] = 1
  BY <1>2, <1>3 DEF Places
<1>5. 1 \in 1..Len(p) /\ p # <<>>
  BY <1>1, <1>4
<1>6. k = 1
  <2>1. g[1] \in 1..Len(s) /\ (1 < k => g[1] < g[k])
    BY <1>2, <1>5 DEF Places
  <2> QED BY <2>1, <1>4
<1>7. p[1] = s[1]
  BY <1>2, <1>4, <1>5, <1>6 DEF Places
<1> QED BY <1>5, <1>7 DEF p

-------------------------------------------------------------------------------
(* What is made of a path *)

LEMMA GreatestOfSet ==
  ASSUME NEW n \in Nat, NEW S, S \subseteq 0..n, S # {}
  PROVE  Max(S) \in S /\ \A k \in S : k <= Max(S)
<1> DEFINE R == {n - k : k \in S}
<1>1. R \subseteq Nat /\ R # {}
  <2>1. \A k \in S : n - k \in Nat
    OBVIOUS
  <2>2. R \subseteq Nat
    BY <2>1
  <2>3. PICK k \in S : TRUE
    OBVIOUS
  <2>4. n - k \in R
    OBVIOUS
  <2> QED BY <2>2, <2>4
<1>2. Min(R) \in R /\ \A k \in R : Min(R) <= k
  BY <1>1, LeastOfSet
<1>3. PICK m \in S : Min(R) = n - m
  <2> DEFINE r == Min(R)
  <2>1. r \in R
    BY <1>2
  <2> HIDE DEF r
  <2>2. \E m \in S : r = n - m
    BY <2>1
  <2> QED BY <2>2 DEF r
<1>4. \A k \in S : n - m <= n - k
  BY <1>2, <1>3
<1>5. \A k \in S : m >= k
  <2> TAKE k \in S
  <2>1. n - m <= n - k /\ m \in 0..n /\ k \in 0..n
    BY <1>4
  <2> QED BY <2>1
<1>6. Max(S) \in S /\ \A k \in S : Max(S) >= k
  BY <1>5 DEF Max
<1>7. \A k \in S : k <= Max(S)
  <2> TAKE k \in S
  <2>1. Max(S) >= k /\ k \in 0..n /\ Max(S) \in 0..n
    BY <1>6
  <2> QED BY <2>1
<1> QED BY <1>6, <1>7

\* The last compaction of a path.
LEMMA LastCompactionOf ==
  ASSUME NEW T, NEW path \in Seq(Int)
  PROVE  /\ LastCompaction(T, path) \in 0..Len(path)
         /\ LastCompaction(T, path) # 0 => KindAt(T, path, LastCompaction(T, path)) = "compaction"
         /\ \A n \in 1..Len(path) : KindAt(T, path, n) = "compaction" =>
              LastCompaction(T, path) # 0 /\ n <= LastCompaction(T, path)
<1> DEFINE S == {n \in 1..Len(path) : T[path[n]].kind = "compaction"}
<1>1. LastCompaction(T, path) = IF S # {} THEN Max(S) ELSE 0
  BY DEF LastCompaction, SelectLastInSeq
<1>2. S \subseteq 0..Len(path) /\ Len(path) \in Nat
  OBVIOUS
<1>3. CASE S = {}
  <2>1. LastCompaction(T, path) = 0
    BY <1>1, <1>3
  <2> QED BY <2>1, <1>3, <1>2 DEF KindAt
<1>4. CASE S # {}
  <2> HIDE DEF S
  <2>1. Max(S) \in S /\ \A k \in S : k <= Max(S)
    BY <1>2, <1>4, GreatestOfSet
  <2>2. LastCompaction(T, path) \in S /\ \A k \in S : k <= LastCompaction(T, path)
    BY <2>1, <1>1, <1>4
  <2> QED BY <2>2 DEF KindAt, S
<1> QED BY <1>3, <1>4

\* The place of the first entry it kept.
LEMMA FirstKeptOf ==
  ASSUME NEW T, NEW path \in Seq(Int), NEW c
  PROVE  /\ FirstKept(T, path, c) \in 0..Len(path)
         /\ FirstKept(T, path, c) # 0 => path[FirstKept(T, path, c)] = T[path[c]].ref
         /\ \A n \in 1..Len(path) : path[n] = T[path[c]].ref =>
              FirstKept(T, path, c) # 0 /\ FirstKept(T, path, c) <= n
<1> DEFINE S == {n \in 1..Len(path) : path[n] = T[path[c]].ref}
<1>1. FirstKept(T, path, c) = IF S # {} THEN Min(S) ELSE 0
  BY DEF FirstKept, SelectInSeq
<1>2. S \subseteq Nat /\ Len(path) \in Nat
  OBVIOUS
<1>3. CASE S = {}
  <2>1. FirstKept(T, path, c) = 0
    BY <1>1, <1>3
  <2> QED BY <2>1, <1>3, <1>2
<1>4. CASE S # {}
  <2> HIDE DEF S
  <2>1. Min(S) \in S /\ \A k \in S : Min(S) <= k
    BY <1>2, <1>4, LeastOfSet
  <2>2. FirstKept(T, path, c) \in S /\ \A k \in S : FirstKept(T, path, c) <= k
    BY <2>1, <1>1, <1>4
  <2> QED BY <2>2 DEF S
<1> QED BY <1>3, <1>4

\* The context is made of entries of the path.
Seen(T, path) ==
  LET c == LastCompaction(T, path)
      first == FirstKept(T, path, c)
      kept == IF c = 0 \/ first = 0 THEN {} ELSE first..(c - 1)
  IN {n \in kept \union (c + 1)..Len(path) : KindAt(T, path, n) \in Shown}

LEMMA ContextIs ==
  ASSUME NEW T, NEW ids, NEW leaf
  PROVE  Context(T, ids, leaf) =
           (IF LastCompaction(T, PathTo(T, ids, leaf)) = 0 THEN <<>>
            ELSE <<PathTo(T, ids, leaf)[LastCompaction(T, PathTo(T, ids, leaf))]>>)
           \o Picked(PathTo(T, ids, leaf), Seen(T, PathTo(T, ids, leaf)))
BY DEF Context, Seen

LEMMA ContextFrom ==
  ASSUME NEW T, GoodTable(T), NEW ids, GoodIds(T, ids), NEW leaf \in Members(ids) \union {Header}
  PROVE  /\ Context(T, ids, leaf) \in Seq(Int)
         /\ ToSet(Context(T, ids, leaf)) \subseteq ToSet(PathTo(T, ids, leaf))
         /\ ToSet(Context(T, ids, leaf)) \subseteq DOMAIN T
<1> DEFINE path == PathTo(T, ids, leaf)
           c == LastCompaction(T, path)
           a == IF c = 0 THEN <<>> ELSE <<path[c]>>
           b == Picked(path, Seen(T, path))
<1>1. path \in Seq(Int) /\ ToSet(path) \subseteq DOMAIN T
  BY PathOf
<1>2. Context(T, ids, leaf) = a \o b
  BY ContextIs
<1> HIDE DEF path
<1>3. c \in 0..Len(path)
  BY <1>1, LastCompactionOf
<1> HIDE DEF c
<1>4. b \in Seq(Int) /\ ToSet(b) \subseteq ToSet(path)
  <2>1. b \in Seq(Int) /\ ToSet(b) = {path[n] : n \in Seen(T, path) \intersect 1..Len(path)}
    BY <1>1, PickedFrom
  <2>2. DOMAIN path = 1..Len(path)
    BY <1>1
  <2> HIDE DEF b
  <2> QED BY <2>1, <2>2 DEF ToSet
<1> HIDE DEF b
<1>5. a \in Seq(Int) /\ \A n \in 1..Len(a) : a[n] \in ToSet(path)
  <2>1. CASE c = 0
    BY <2>1
  <2>2. CASE c # 0
    <3>1. c \in DOMAIN path /\ path[c] \in Int
      BY <1>1, <1>3, <2>2
    <3>2. path[c] \in ToSet(path)
      BY <3>1 DEF ToSet
    <3>3. a = <<path[c]>>
      BY <2>2
    <3> QED BY <3>1, <3>2, <3>3
  <2> QED BY <2>1, <2>2
<1> HIDE DEF a
<1>6. ToSet(a) \subseteq ToSet(path)
  <2>1. DOMAIN a = 1..Len(a)
    BY <1>5
  <2> QED BY <2>1, <1>5 DEF ToSet
<1> DEFINE d == a \o b
<1>7. d \in Seq(Int)
  BY <1>4, <1>5
<1>8. ToSet(d) = ToSet(a) \union ToSet(b)
  BY <1>4, <1>5, ConcatOf
<1> HIDE DEF d
<1>10. ToSet(d) \subseteq ToSet(path)
  BY <1>4, <1>6, <1>8
<1> QED BY <1>1, <1>2, <1>7, <1>10 DEF path, d

\* A file that is opened: its lines without those that were written in part.
LEMMA LoadedGood ==
  ASSUME NEW T, GoodTable(T), NEW lines \in Seq(Torn..Len(T)), Valid(lines)
  PROVE  /\ GoodIds(T, Loaded(lines))
         /\ Last(Loaded(lines)) \in Members(Loaded(lines)) \union {Header}
         /\ ToSet(Loaded(lines)) \subseteq ToSet(lines) \ {Torn}
         /\ (\A n \in DOMAIN lines : lines[n] # Torn) => Loaded(lines) = lines
<1> DEFINE P == {n \in DOMAIN lines : lines[n] # Torn /\ (n = 1 \/ lines[n - 1] # Torn)}
           p == Picked(lines, P)
<1>1. Loaded(lines) = p
  BY DEF Loaded
<1>2. Len(T) \in Nat
  BY NatRange DEF GoodTable
<1>3. lines \in Seq(Int) /\ DOMAIN lines = 1..Len(lines) /\ Len(lines) \in Nat
  BY DEF Torn
<1>4. 1 \in P
  <2>1. lines # <<>> /\ lines[1] = Header
    BY DEF Valid
  <2>2. 1 \in DOMAIN lines
    BY <2>1, <1>3
  <2> QED BY <2>1, <2>2 DEF Header, Torn
<1>5. p # <<>> /\ p[1] = Header
  BY <1>3, <1>4, PickedHead DEF Valid
<1>6. p \in Seq(Int) /\ ToSet(p) = {lines[n] : n \in P \intersect 1..Len(lines)}
  BY <1>3, PickedFrom
<1>7. (\A n \in DOMAIN lines : lines[n] # Torn) => p = lines
  <2> SUFFICES ASSUME \A n \in DOMAIN lines : lines[n] # Torn PROVE p = lines
    OBVIOUS
  <2>1. 1..Len(lines) \subseteq P
    <3> SUFFICES ASSUME NEW n \in 1..Len(lines) PROVE n \in P
      BY Zenon
    <3>1. n = 1 \/ n - 1 \in 1..Len(lines)
      BY <1>3
    <3>2. lines[n] # Torn /\ (n = 1 \/ lines[n - 1] # Torn)
      BY <3>1, <1>3
    <3> QED BY <3>2, <1>3
  <2> HIDE DEF P
  <2> QED BY <2>1, <1>3, PickedAll
<1>8. ToSet(p) \subseteq ToSet(lines) \ {Torn}
  <2> HIDE DEF p
  <2>1. \A n \in DOMAIN lines : lines[n] \in ToSet(lines)
    BY DEF ToSet
  <2>2. \A n \in P : n \in DOMAIN lines /\ lines[n] # Torn
    BY Zenon
  <2>3. \A n \in P : lines[n] \in ToSet(lines) \ {Torn}
    <3> HIDE DEF P
    <3> QED BY <2>1, <2>2, Zenon
  <2> HIDE DEF P
  <2> QED BY <1>6, <2>3
<1>9. \A x \in ToSet(lines) \ {Torn} : x \in 0..Len(T)
  <2> DEFINE L == Torn..Len(T)
  <2>1. lines \in Seq(L)
    OBVIOUS
  <2> HIDE DEF L
  <2>2. ToSet(lines) \subseteq L
    BY <2>1 DEF ToSet
  <2> QED BY <2>2, <1>2 DEF L, Torn
<1> HIDE DEF p
<1>10. p \in Seq(0..Len(T))
  <2> DEFINE L == 0..Len(T)
  <2>1. ToSet(p) \subseteq L
    BY <1>8, <1>9
  <2> HIDE DEF L
  <2>2. \A n \in 1..Len(p) : p[n] \in L
    BY <2>1, <1>6 DEF ToSet
  <2> QED BY <2>2, <1>6 DEF L
<1>11. Last(p) \in Members(p) \union {Header}
  <2>1. Len(p) \in DOMAIN p
    BY <1>5, <1>6
  <2>2. p[Len(p)] \in ToSet(p)
    BY <2>1 DEF ToSet
  <2> QED BY <2>2 DEF Last, Members
<1> QED BY <1>1, <1>5, <1>7, <1>8, <1>10, <1>11 DEF GoodIds

\* What is kept is an entry of the path, not before the last compaction.
LEMMA CutPointIn ==
  ASSUME NEW T, NEW path \in Seq(Int), NEW from \in 1..Len(path)
  PROVE  /\ CutPoint(T, path, from) \in from..Len(path)
         /\ \A n \in from..Len(path) :
              KindAt(T, path, n) \in CutKinds =>
                \E cut \in CutPoint(T, path, from)..Len(path) :
                  /\ KindAt(T, path, cut) \in CutKinds
                  /\ \A j \in CutPoint(T, path, from)..(cut - 1) : KindAt(T, path, j) \notin Messages
<1> DEFINE span == from..Len(path)
           messages == {i \in span : KindAt(T, path, i) \in Messages}
           cuts == {i \in span : KindAt(T, path, i) \in CutKinds}
           enough == {i \in messages : Cardinality({j \in messages : j >= i}) >= KeepRecent}
           after == {i \in cuts : enough # {} /\ i >= Max(enough)}
           cut == IF after # {} THEN Min(after) ELSE Min(cuts)
           S == {i \in from..cut : \A j \in i..(cut - 1) : KindAt(T, path, j) \notin Messages}
<1>1. CutPoint(T, path, from) = IF cuts = {} THEN from ELSE Min(S)
  BY DEF CutPoint
<1>2. Len(path) \in Nat /\ from \in Nat /\ from \in span
  OBVIOUS
<1>3. cuts \subseteq Nat /\ cuts \subseteq span /\ after \subseteq cuts
  OBVIOUS
<1>4. CASE cuts = {}
  BY <1>1, <1>2, <1>4
<1>5. CASE cuts # {}
  <2>1. cut \in cuts
    <3> HIDE DEF cuts, enough
    <3>1. Min(cuts) \in cuts
      BY <1>3, <1>5, LeastOfSet
    <3> HIDE DEF after
    <3>2. after # {} => Min(after) \in after
      BY <1>3, LeastOfSet
    <3> QED BY <3>1, <3>2, <1>3
  <2> HIDE DEF cut
  <2>2. cut \in S /\ S \subseteq Nat
    <3>1. cut \in from..cut /\ cut \in Nat /\ cut..(cut - 1) = {}
      BY <2>1, <1>2
    <3> QED BY <3>1, <1>2
  <2>3. Min(S) \in S
    <3> HIDE DEF S
    <3> QED BY <2>2, LeastOfSet
  <2>4. CutPoint(T, path, from) \in S
    BY <2>3, <1>1, <1>5
  <2> QED BY <2>1, <2>4, <1>2
<1> QED BY <1>4, <1>5

LEMMA PreparedGood ==
  ASSUME NEW T, GoodTable(T), NEW path \in Seq(DOMAIN T), CanPrepare(T, path)
  PROVE  Prepared(T, path).kept \in Nat /\ Prepared(T, path).covers \subseteq Nat
<1> DEFINE prev == LastCompaction(T, path)
           from == prev + 1
           cut == CutPoint(T, path, from)
           starts == {i \in from..cut : KindAt(T, path, i) \in TurnStarts}
           split == KindAt(T, path, cut) # "user" /\ starts # {}
           until == IF split THEN Max(starts) ELSE cut
           Said(a, b) == {path[i] : i \in {j \in a..(b - 1) : KindAt(T, path, j) \in Shown}}
           history == Said(from, until)
           prefix == Said(until, cut)
           updated == ~(split /\ prefix # {} /\ history = {})
           covers == history \union prefix
                     \union (IF prev # 0 /\ updated THEN T[path[prev]].covers ELSE {})
<1>1. Prepared(T, path) = [kept |-> path[cut], covers |-> covers]
  BY DEF Prepared
<1>2. /\ T \in Seq(Entry) /\ DOMAIN T \subseteq Nat \ {0}
      /\ \A i \in DOMAIN T : T[i] \in Entry
  BY NatRange DEF GoodTable
<1>3. path \in Seq(Int) /\ path \in Seq(Nat) /\ Len(path) \in Nat /\ Len(path) # 0
  BY <1>2 DEF CanPrepare
<1>4. prev \in 0..Len(path)
  BY <1>3, LastCompactionOf
<1>5. prev # Len(path)
  BY <1>3, LastCompactionOf DEF CanPrepare
<1>6. prev # 0 => path[prev] \in DOMAIN T
  BY <1>3, <1>4
<1> HIDE DEF prev
<1>7. from \in 1..Len(path)
  BY <1>3, <1>4, <1>5
<1> HIDE DEF from
<1>8. cut \in from..Len(path)
  BY <1>3, <1>7, CutPointIn
<1> HIDE DEF cut
<1>9. path[cut] \in Nat
  BY <1>3, <1>7, <1>8
<1>10. until \in from..cut
  <2>1. from \in Nat /\ cut \in Nat /\ from <= cut
    BY <1>3, <1>7, <1>8
  <2>2. starts # {} => Max(starts) \in starts
    <3>1. starts \subseteq 0..cut
      BY <2>1
    <3> HIDE DEF starts
    <3> QED BY <2>1, <3>1, GreatestOfSet
  <2>3. CASE split
    BY <2>2, <2>3
  <2>4. CASE ~split
    BY <2>1, <2>4
  <2> QED BY <2>3, <2>4
<1> HIDE DEF split, starts, until
<1>11. history \subseteq Nat
  <2>1. \A i \in from..(until - 1) : i \in 1..Len(path)
    BY <1>3, <1>7, <1>8, <1>10
  <2> QED BY <2>1, <1>3
<1>12. prefix \subseteq Nat
  <2>1. \A i \in until..(cut - 1) : i \in 1..Len(path)
    BY <1>3, <1>7, <1>8, <1>10
  <2> QED BY <2>1, <1>3
<1> HIDE DEF history, prefix
<1>13. covers \subseteq Nat
  BY <1>11, <1>12, <1>6, <1>2 DEF Entry
<1> QED BY <1>1, <1>9, <1>13

\* A sequence that begins with the header ends with an entry of it, or with the header.
LEMMA LastIsMember ==
  ASSUME NEW T, NEW ids, GoodIds(T, ids)
  PROVE  Last(ids) \in Members(ids) \union {Header}
<1>1. Len(ids) \in DOMAIN ids
  BY DEF GoodIds
<1>2. ids[Len(ids)] \in ToSet(ids)
  BY <1>1 DEF ToSet
<1> QED BY <1>2 DEF Last, Members

\* A fork: its table goes on where T ends, and its entries are the path's, and new labels.
LEMMA BranchedGood ==
  ASSUME NEW T, GoodTable(T), NEW ids, GoodIds(T, ids), NEW leaf \in Members(ids) \union {Header},
         NEW home \in Nat, NEW B, B = Branched(T, ids, leaf, home)
  PROVE  /\ GoodTable(B.table) /\ SameEntries(T, B.table) /\ DOMAIN T \subseteq DOMAIN B.table
         /\ \A i \in DOMAIN T : B.table[i] = T[i]
         /\ GoodIds(B.table, B.ids)
         /\ Members(B.ids) \subseteq Members(ids) \union (DOMAIN B.table \ DOMAIN T)
         /\ \A i \in DOMAIN B.table \ DOMAIN T :
              /\ B.table[i].home = home /\ B.table[i].kind = "label"
              /\ B.table[i].parent \in Members(ids) \union {Header} \union (DOMAIN B.table \ DOMAIN T)
<1> DEFINE path == PathTo(T, ids, leaf)
           bare == Picked(path, {n \in DOMAIN path : KindAt(T, path, n) # "label"})
           base == IF bare = <<>> THEN Header ELSE Last(bare)
           wanted == Picked(ids, {n \in Labels(T, ids) : T[ids[n]].ref \in ToSet(bare)})
           w == Len(wanted)
           t == Len(T)
           new(k) == [kind |-> "label", ref |-> T[wanted[k]].ref, home |-> home, covers |-> {},
                      parent |-> IF k = 1 THEN base ELSE t + k - 1, past |-> Past(T, base)]
           made == [k \in DOMAIN wanted |-> new(k)]
           tail == [k \in DOMAIN wanted |-> t + k]
<1>1. B.table = T \o made /\ B.ids = <<Header>> \o bare \o tail
  BY DEF Branched
<1>2. /\ T \in Seq(Entry) /\ DOMAIN T = 1..t /\ t \in Nat
      /\ DOMAIN T \subseteq Nat \ {0} /\ \A i \in DOMAIN T : T[i] \in Entry
  <2>1. T \in Seq(Entry)
    BY DEF GoodTable
  <2> QED BY <2>1, NatRange
<1>3. /\ path \in Seq(Int) /\ ToSet(path) \subseteq Members(ids)
      /\ Members(ids) \subseteq DOMAIN T
  BY PathOf
<1> HIDE DEF path
<1>4. bare \in Seq(Int) /\ ToSet(bare) \subseteq Members(ids)
  <2> DEFINE P == {n \in DOMAIN path : KindAt(T, path, n) # "label"}
  <2> HIDE DEF P
  <2>1. /\ Picked(path, P) \in Seq(Int)
        /\ ToSet(Picked(path, P)) = {path[n] : n \in P \intersect 1..Len(path)}
    BY <1>3, PickedFrom
  <2>2. DOMAIN path = 1..Len(path)
    BY <1>3
  <2>3. ToSet(Picked(path, P)) \subseteq ToSet(path)
    BY <2>1, <2>2 DEF ToSet
  <2> QED BY <2>1, <2>3, <1>3 DEF P
<1> HIDE DEF bare
<1>5. base \in Members(ids) \union {Header}
  <2>1. CASE bare = <<>>
    BY <2>1
  <2>2. CASE bare # <<>>
    <3>1. Len(bare) \in DOMAIN bare
      BY <2>2, <1>4
    <3>2. bare[Len(bare)] \in ToSet(bare)
      BY <3>1 DEF ToSet
    <3> QED BY <3>2, <2>2, <1>4 DEF Last
  <2> QED BY <2>1, <2>2
<1> HIDE DEF base
<1>6. ids \in Seq(0..t) /\ ids \in Seq(Int) /\ DOMAIN ids = 1..Len(ids)
  BY <1>2 DEF GoodIds
<1>7. wanted \in Seq(Int) /\ ToSet(wanted) \subseteq DOMAIN T
  <2> DEFINE P == {n \in Labels(T, ids) : T[ids[n]].ref \in ToSet(bare)}
  <2>1. \A n \in P : ids[n] \in DOMAIN T
    BY <1>6, <1>2 DEF Labels, Header
  <2> HIDE DEF P
  <2>2. /\ Picked(ids, P) \in Seq(Int)
        /\ ToSet(Picked(ids, P)) = {ids[n] : n \in P \intersect 1..Len(ids)}
    BY <1>6, PickedFrom
  <2>3. ToSet(Picked(ids, P)) \subseteq DOMAIN T
    BY <2>1, <2>2
  <2> QED BY <2>2, <2>3 DEF P
<1> HIDE DEF wanted
<1>8. w \in Nat /\ DOMAIN wanted = 1..w /\ \A k \in 1..w : wanted[k] \in DOMAIN T
  <2>1. w \in Nat /\ DOMAIN wanted = 1..w
    BY <1>7
  <2> QED BY <2>1, <1>7 DEF ToSet
<1> HIDE DEF w
<1>9. Past(T, base) \in SUBSET Nat /\ base \in Nat
  BY <1>5, <1>3, <1>2 DEF Past, Entry, Header
<1>10. ASSUME NEW k \in 1..w PROVE new(k) \in Entry
  <2>1. T[wanted[k]].ref \in Nat
    BY <1>8, <1>2 DEF Entry
  <2>2. (IF k = 1 THEN base ELSE t + k - 1) \in Nat
    BY <1>9, <1>8, <1>2
  <2>3. "label" \in Kinds
    BY DEF Kinds
  <2> HIDE DEF t
  <2> QED BY <2>1, <2>2, <2>3, <1>9 DEF Entry
<1>11. made \in Seq(Entry) /\ Len(made) = w /\ \A k \in 1..w : made[k] = new(k)
  <2> HIDE DEF new
  <2> QED BY <1>8, <1>10
<1>12. \A k \in 1..w : /\ made[k].kind = "label" /\ made[k].home = home
                       /\ made[k].parent = IF k = 1 THEN base ELSE t + k - 1
  BY <1>11
<1> HIDE DEF made
<1> DEFINE U == T \o made
<1>13. /\ U \in Seq(Entry) /\ Len(U) = t + w /\ DOMAIN U = 1..(t + w)
       /\ \A i \in DOMAIN T : U[i] = T[i]
       /\ \A k \in 1..w : U[t + k] = made[k]
  <2>1. T \in Seq(Entry) /\ made \in Seq(Entry) /\ Len(made) = w /\ w \in Nat /\ t \in Nat
    BY <1>2, <1>8, <1>11
  <2>2. U \in Seq(Entry) /\ Len(U) = t + w
    BY <2>1
  <2>3. \A i \in 1..t : U[i] = T[i]
    BY <2>1
  <2>4. \A k \in 1..w : U[t + k] = made[k]
    BY <2>1
  <2> HIDE DEF t, U
  <2> QED BY <2>2, <2>3, <2>4, <2>1, <1>2
<1> HIDE DEF U
<1>14. \A i \in DOMAIN U \ DOMAIN T : i - t \in 1..w /\ U[i] = made[i - t] /\ i \in Nat
  <2> TAKE i \in DOMAIN U \ DOMAIN T
  <2> HIDE DEF t
  <2>1. i \in 1..(t + w) /\ i \notin 1..t /\ t \in Nat /\ w \in Nat
    BY <1>13, <1>2, <1>8
  <2>2. i - t \in 1..w /\ t + (i - t) = i /\ i \in Nat
    BY <2>1
  <2> QED BY <2>2, <1>13
<1>15. \A i \in DOMAIN U \ DOMAIN T :
         /\ U[i].home = home /\ U[i].kind = "label"
         /\ U[i].parent = IF i = t + 1 THEN base ELSE i - 1
  <2> TAKE i \in DOMAIN U \ DOMAIN T
  <2>1. i - t \in 1..w /\ U[i] = made[i - t] /\ i \in Nat
    BY <1>14
  <2>2. (i - t = 1 <=> i = t + 1) /\ t + (i - t) - 1 = i - 1
    BY <2>1, <1>2
  <2> QED BY <2>1, <2>2, <1>12
<1>16. \A i \in DOMAIN U \ DOMAIN T : i # t + 1 => i - 1 \in DOMAIN U \ DOMAIN T
  <2> TAKE i \in DOMAIN U \ DOMAIN T
  <2>1. i \in (t + 1)..(t + w)
    BY <1>2, <1>8, <1>13
  <2> QED BY <2>1, <1>2, <1>8, <1>13
<1>17. \A i \in DOMAIN U \ DOMAIN T :
         U[i].parent \in Members(ids) \union {Header} \union (DOMAIN U \ DOMAIN T)
  BY <1>15, <1>16, <1>5
<1>18. \A i \in DOMAIN U : U[i].parent \in 0..Len(U)
  <2> TAKE i \in DOMAIN U
  <2>1. CASE i \in DOMAIN T
    <3>1. T[i].parent \in 0..t
      BY <2>1 DEF GoodTable
    <3> QED BY <3>1, <2>1, <1>13, <1>8, <1>2
  <2>2. CASE i \notin DOMAIN T
    <3>1. DOMAIN U \subseteq 0..Len(U) /\ DOMAIN T \subseteq 0..Len(U) /\ 0 \in 0..Len(U)
      BY <1>13, <1>8, <1>2
    <3> QED BY <3>1, <2>2, <1>17, <1>3 DEF Header
  <2> QED BY <2>1, <2>2
<1>19. Ranked(U, DOMAIN U)
  <2>1. PICK rank \in [DOMAIN T -> Nat] :
          \A j \in DOMAIN T : T[j].parent \in DOMAIN T => rank[T[j].parent] < rank[j]
    BY DEF GoodTable, Ranked
  <2> DEFINE top == IF base \in DOMAIN T THEN rank[base] + 1 ELSE 0
             r == [i \in DOMAIN U |-> IF i \in DOMAIN T THEN rank[i] ELSE top + i]
  <2>2. top \in Nat /\ (base \in DOMAIN T => rank[base] < top)
    OBVIOUS
  <2> HIDE DEF top
  <2>3. DOMAIN T \subseteq DOMAIN U /\ DOMAIN U \subseteq Nat
    BY <1>13, <1>8, <1>2
  <2>4. /\ r \in [DOMAIN U -> Nat] /\ \A i \in DOMAIN T : r[i] = rank[i]
        /\ \A i \in DOMAIN U \ DOMAIN T : r[i] = top + i
    BY <2>2, <2>3
  <2> HIDE DEF r
  <2>5. ASSUME NEW i \in DOMAIN U, U[i].parent \in DOMAIN U
        PROVE  r[U[i].parent] < r[i]
    <3>1. CASE i \in DOMAIN T
      <4>1. U[i] = T[i] /\ T[i].parent \in 0..t
        BY <3>1, <1>13 DEF GoodTable
      <4>2. T[i].parent \in DOMAIN T
        BY <4>1, <2>5, <1>13, <1>8, <1>2
      <4> QED BY <4>1, <4>2, <3>1, <2>1, <2>4
    <3>2. CASE i \notin DOMAIN T /\ i = t + 1
      <4>1. U[i].parent = base /\ base # Header
        BY <3>2, <1>15, <2>5, <1>13 DEF Header
      <4>2. base \in DOMAIN T /\ i \in Nat /\ rank[base] \in Nat
        BY <4>1, <1>5, <1>3, <2>3
      <4>3. r[base] = rank[base] /\ r[i] = top + i
        BY <4>2, <3>2, <2>4
      <4> QED BY <4>1, <4>2, <4>3, <2>2
    <3>3. CASE i \notin DOMAIN T /\ i # t + 1
      <4>1. U[i].parent = i - 1 /\ i - 1 \in DOMAIN U \ DOMAIN T
        BY <3>3, <1>15, <1>16
      <4>2. r[i - 1] = top + (i - 1) /\ r[i] = top + i /\ i \in Nat
        BY <4>1, <3>3, <2>4, <2>3
      <4> QED BY <4>1, <4>2, <2>2
    <3> QED BY <3>1, <3>2, <3>3
  <2> QED BY <2>4, <2>5 DEF Ranked
<1>20. SameEntries(T, U)
  BY <1>13, <1>8, <1>2 DEF SameEntries
<1>21. GoodTable(U)
  BY <1>13, <1>18, <1>19 DEF GoodTable
<1>22. DOMAIN T \subseteq DOMAIN U
  BY <1>13, <1>8, <1>2
<1>23. tail \in Seq(Int) /\ Len(tail) = w /\ \A k \in 1..w : tail[k] \in DOMAIN U \ DOMAIN T
  <2>1. \A k \in 1..w : t + k \in DOMAIN U \ DOMAIN T /\ t + k \in Int
    BY <1>2, <1>8, <1>13
  <2> HIDE DEF t
  <2> QED BY <2>1, <1>8
<1> HIDE DEF tail
<1> DEFINE front == <<Header>> \o bare
           all == front \o tail
           L == Members(ids) \union {Header} \union (DOMAIN U \ DOMAIN T)
<1>24. /\ front \in Seq(Int) /\ Len(front) = Len(bare) + 1 /\ front[1] = Header
       /\ \A n \in 2..Len(front) : front[n] = bare[n - 1]
  BY <1>4 DEF Header
<1>25. \A n \in 1..Len(front) : front[n] \in L
  <2> TAKE n \in 1..Len(front)
  <2>1. Len(bare) \in Nat /\ DOMAIN bare = 1..Len(bare)
    BY <1>4
  <2>2. CASE n = 1
    BY <2>2, <1>24
  <2>3. CASE n # 1
    <3>1. n \in 2..Len(front) /\ n - 1 \in DOMAIN bare
      BY <2>1, <2>3, <1>24
    <3>2. bare[n - 1] \in ToSet(bare)
      BY <3>1 DEF ToSet
    <3> QED BY <3>1, <3>2, <1>24, <1>4
  <2> QED BY <2>2, <2>3
<1>26. Len(front) \in Nat /\ Len(front) >= 1
  BY <1>24, <1>4
<1> HIDE DEF front
<1>27. /\ all \in Seq(Int) /\ Len(all) = Len(front) + w
       /\ \A n \in 1..Len(front) : all[n] = front[n]
       /\ \A k \in 1..w : all[Len(front) + k] = tail[k]
  BY <1>23, <1>24, ConcatOf
<1> HIDE DEF all
<1>28. \A n \in 1..Len(all) : all[n] \in L
  <2> TAKE n \in 1..Len(all)
  <2>1. CASE n \in 1..Len(front)
    BY <2>1, <1>25, <1>27
  <2>2. CASE n \notin 1..Len(front)
    <3>1. n - Len(front) \in 1..w /\ Len(front) + (n - Len(front)) = n
      BY <2>2, <1>8, <1>26, <1>27
    <3> QED BY <3>1, <1>23, <1>27
  <2> QED BY <2>1, <2>2
<1>29. all # <<>> /\ all[1] = Header
  <2>1. 1 \in 1..Len(front) /\ Len(all) # 0
    BY <1>8, <1>26, <1>27
  <2> QED BY <2>1, <1>24, <1>27
<1>30. L \subseteq 0..Len(U)
  <2>1. DOMAIN U \subseteq 0..Len(U) /\ DOMAIN T \subseteq 0..Len(U) /\ 0 \in 0..Len(U)
    BY <1>13, <1>8, <1>2
  <2> QED BY <2>1, <1>3 DEF Header
<1> HIDE DEF L
<1>31. all \in Seq(0..Len(U))
  <2>1. all \in Seq(L)
    BY <1>27, <1>28
  <2>2. \A n \in 1..Len(all) : all[n] \in 0..Len(U)
    BY <1>28, <1>30
  <2> DEFINE K == 0..Len(U)
  <2> HIDE DEF K
  <2>3. \A n \in 1..Len(all) : all[n] \in K
    BY <2>2 DEF K
  <2> QED BY <2>3, <1>27 DEF K
<1>32. GoodIds(U, all)
  BY <1>29, <1>31 DEF GoodIds
<1>33. Members(all) \subseteq Members(ids) \union (DOMAIN U \ DOMAIN T)
  <2>1. ToSet(all) \subseteq L
    BY <1>27, <1>28 DEF ToSet
  <2> QED BY <2>1 DEF L, Members
<1>34. B.table = U /\ B.ids = all
  BY <1>1 DEF U, all, front
<1> QED BY <1>13, <1>15, <1>17, <1>20, <1>21, <1>22, <1>32, <1>33, <1>34

-------------------------------------------------------------------------------
(* The invariant *)

\* The file of a session is used from its beginning on, and no other is.
Owned(M, F, O) ==
  /\ O \in [File -> SUBSET File]
  /\ M.file \in O[M.file]
  /\ \A f \in File : O[f] # {} => f \in O[f]
  /\ \A f \in File : O[f] = {} => F[f] = <<>>

Core(T, M, F, O) ==
  GoodTable(T) /\ Len(T) <= MaxEntries /\ GoodMem(T, M) /\ GoodFiles(T, F) /\ Owned(M, F, O)

\* The messages that wait are waited for once, and have no place yet.
Waits(T, M, F, E) ==
  /\ E \in Seq(Int)
  /\ \A n \in DOMAIN E : E[n] # EndMark =>
       Unplaced(T, M, F, E[n]) /\ \A m \in DOMAIN E : E[m] = E[n] => m = n

Listed(T, A) == A \in Seq(Int) /\ ToSet(A) \subseteq DOMAIN T

CommandOk(c, F) ==
  /\ c.what \in {"none", "compact", "new", "resume"}
  /\ c.what = "resume" => c.file \in File /\ Valid(F[c.file])
JobOk(j) == j.file \in Nat /\ j.leaf \in Nat /\ j.kept \in Nat /\ j.covers \in SUBSET Nat
Control ==
  /\ turn \in {"idle", "asked", "called"} /\ heard \in BOOLEAN
  /\ used \in 0..MaxIncidents /\ mishaps \subseteq Mishap
  /\ CommandOk(command, files) /\ JobOk(job)

\* Each file that has lines is whole, and the one of the session is the session.
CleanFile(T, lines) ==
  /\ lines # <<>> /\ lines[1] = Header
  /\ \A n \in DOMAIN lines : lines[n] # Torn
  /\ Answered(T, lines)
FileOf(T, M, F) ==
  /\ \A f \in File : F[f] # <<>> => CleanFile(T, F[f])
  /\ F[M.file] = IF Answered(T, M.ids) THEN M.ids ELSE <<>>
  /\ M.flushed = Answered(T, M.ids)

\* What is in a session, in a file, or waits for the session was made in it or in one before it.
HomeOf(T, M, F, O, E) ==
  /\ \A i \in Members(M.ids) : T[i].home \in O[M.file]
  /\ \A f \in File : \A i \in ToSet(F[f]) \ {Header, Torn} : T[i].home \in O[f]
  /\ \A e \in ToSet(E) \ {EndMark} : T[e].home \in O[M.file]

FileInv == "torn" \in mishaps \/ FileOf(table, mem, files)
HomeInv == mishaps \intersect {"lagging", "astray"} # {} \/ HomeOf(table, mem, files, origin, events)

\* A tool runs for a call that was made.
CallMade(T) == \E i \in DOMAIN T : T[i].kind = "call"

SInv ==
  /\ Core(table, mem, files, origin)
  /\ Waits(table, mem, files, events)
  /\ Listed(table, agent)
  /\ Control
  /\ turn = "called" => CallMade(table)
  /\ FileInv
  /\ HomeInv

-------------------------------------------------------------------------------
(* What a longer table, and the append, leave as it was *)

LEMMA CoreTypes ==
  ASSUME NEW T, NEW M, NEW F, NEW O, Core(T, M, F, O)
  PROVE  /\ T \in Seq(Entry) /\ Len(T) \in Nat /\ DOMAIN T = 1..Len(T)
         /\ Header \notin DOMAIN T /\ Torn \notin DOMAIN T /\ DOMAIN T \subseteq Nat \ {0}
         /\ \A i \in DOMAIN T : T[i] \in Entry
         /\ M.file \in File /\ M.leaf \in Members(M.ids) \union {Header} /\ M.flushed \in BOOLEAN
         /\ M \in [file : File, ids : Seq(Nat), leaf : Nat, flushed : BOOLEAN]
         /\ GoodIds(T, M.ids) /\ M.ids \in Seq(Int) /\ Members(M.ids) \subseteq DOMAIN T
         /\ M.leaf \in 0..Len(T)
         /\ \A f \in File : F[f] \in Seq(Torn..Len(T)) /\ F[f] \in Seq(Int)
         /\ \A f \in File : ToSet(F[f]) \subseteq DOMAIN T \union {Header, Torn}
<1>1. T \in Seq(Entry)
  BY DEF Core, GoodTable
<1>2. /\ Len(T) \in Nat /\ DOMAIN T = 1..Len(T) /\ DOMAIN T \subseteq Nat \ {0}
      /\ \A i \in DOMAIN T : T[i] \in Entry
  BY <1>1, NatRange
<1>3. /\ GoodIds(T, M.ids) /\ M.ids \in Seq(0..Len(T))
      /\ M \in [file : File, ids : Seq(Nat), leaf : Nat, flushed : BOOLEAN]
      /\ M.leaf \in Members(M.ids) \union {Header}
  BY DEF Core, GoodMem, GoodIds
<1>4. Members(M.ids) \subseteq DOMAIN T
  BY <1>1, <1>3, MembersOf
<1>5. M.leaf \in 0..Len(T)
  BY <1>2, <1>3, <1>4 DEF Header
<1>6. ASSUME NEW f \in File
      PROVE  /\ F[f] \in Seq(Torn..Len(T)) /\ F[f] \in Seq(Int)
             /\ ToSet(F[f]) \subseteq DOMAIN T \union {Header, Torn}
  <2> DEFINE L == Torn..Len(T)
             lines == F[f]
  <2>1. lines \in Seq(L)
    BY DEF Core, GoodFiles
  <2>2. L \subseteq Int /\ L \subseteq DOMAIN T \union {Header, Torn}
    BY <1>2 DEF Torn, Header
  <2> HIDE DEF L, lines
  <2>3. lines \in Seq(Int)
    <3>1. \A n \in 1..Len(lines) : lines[n] \in L
      BY <2>1
    <3>2. \A x \in L : x \in Int
      BY <2>2, Zenon
    <3>3. \A n \in 1..Len(lines) : lines[n] \in Int
      BY <3>1, <3>2
    <3> QED BY <2>1, <3>3
  <2>4. ToSet(lines) \subseteq L
    BY <2>1 DEF ToSet
  <2> QED BY <2>1, <2>2, <2>3, <2>4 DEF L, lines
<1>7. M.file \in File /\ M.flushed \in BOOLEAN /\ M.ids \in Seq(Int)
  <2>1. M.ids \in Seq(Nat)
    BY <1>3
  <2> QED BY <2>1, <1>3
<1> QED BY <1>1, <1>2, <1>3, <1>4, <1>5, <1>6, <1>7 DEF Header, Torn

\* Whether there is a reply depends on the kinds of the entries alone.
LEMMA AnsweredSame ==
  ASSUME NEW T, NEW U, T \in Seq(Entry), SameEntries(T, U), NEW ids, Members(ids) \subseteq DOMAIN T
  PROVE  Answered(U, ids) = Answered(T, ids)
<1>1. \A i \in Members(ids) : U[i].kind = T[i].kind
  BY DEF SameEntries
<1> QED BY <1>1 DEF Answered

LEMMA CleanMembers ==
  ASSUME NEW T, NEW M, NEW F, NEW O, Core(T, M, F, O), NEW f \in File, CleanFile(T, F[f])
  PROVE  Members(F[f]) \subseteq DOMAIN T
<1>1. ToSet(F[f]) \subseteq DOMAIN T \union {Header, Torn}
  BY CoreTypes
<1>2. Torn \notin ToSet(F[f])
  BY DEF CleanFile, ToSet
<1> QED BY <1>1, <1>2 DEF Members

LEMMA FileOfLater ==
  ASSUME NEW T, NEW U, NEW M, NEW F, NEW O, Core(T, M, F, O), SameEntries(T, U), FileOf(T, M, F)
  PROVE  FileOf(U, M, F)
<1>1. T \in Seq(Entry) /\ Members(M.ids) \subseteq DOMAIN T
  BY CoreTypes
<1>2. Answered(U, M.ids) = Answered(T, M.ids)
  BY <1>1, AnsweredSame
<1>3. ASSUME NEW f \in File, F[f] # <<>> PROVE CleanFile(U, F[f])
  <2>1. CleanFile(T, F[f])
    BY <1>3 DEF FileOf
  <2>2. Answered(U, F[f]) = Answered(T, F[f])
    BY <2>1, <1>1, CleanMembers, AnsweredSame
  <2> QED BY <2>1, <2>2 DEF CleanFile
<1> QED BY <1>2, <1>3 DEF FileOf

LEMMA HomeOfLater ==
  ASSUME NEW T, NEW U, NEW M, NEW F, NEW O, Core(T, M, F, O), SameEntries(T, U),
         NEW E, Waits(T, M, F, E), HomeOf(T, M, F, O, E)
  PROVE  HomeOf(U, M, F, O, E)
<1>1. Members(M.ids) \subseteq DOMAIN T
  BY CoreTypes
<1>2. \A f \in File : ToSet(F[f]) \subseteq DOMAIN T \union {Header, Torn}
  BY CoreTypes
<1>3. \A e \in ToSet(E) \ {EndMark} : e \in DOMAIN T
  BY DEF Waits, ToSet, Unplaced
<1>4. \A i \in DOMAIN T : U[i].home = T[i].home
  BY DEF SameEntries
<1>5. \A i \in Members(M.ids) : U[i].home \in O[M.file]
  BY <1>1, <1>4 DEF HomeOf
<1>6. \A f \in File : \A i \in ToSet(F[f]) \ {Header, Torn} : U[i].home \in O[f]
  BY <1>2, <1>4 DEF HomeOf
<1>7. \A e \in ToSet(E) \ {EndMark} : U[e].home \in O[M.file]
  BY <1>3, <1>4 DEF HomeOf
<1> QED BY <1>5, <1>6, <1>7 DEF HomeOf

\* A new entry that is in no session yet.
Enters(T, x, U) == Len(T) + 1 <= MaxEntries /\ x \in Entry /\ x.parent = Header /\ U = Append(T, x)

LEMMA NewEntry ==
  ASSUME NEW T, NEW M, NEW F, NEW O, Core(T, M, F, O), NEW x, NEW U, Enters(T, x, U)
  PROVE  /\ Core(U, M, F, O) /\ SameEntries(T, U) /\ Len(U) = Len(T) + 1
         /\ U[Len(T) + 1] = x /\ \A i \in DOMAIN T : U[i] = T[i]
         /\ DOMAIN U = DOMAIN T \union {Len(T) + 1} /\ Len(T) + 1 \notin DOMAIN T
         /\ Unplaced(U, M, F, Len(T) + 1)
         /\ \A e : Unplaced(T, M, F, e) => Unplaced(U, M, F, e) /\ e # Len(T) + 1
<1> DEFINE k == Len(T) + 1
<1> USE DEF Enters
<1>1. GoodTable(T) /\ GoodMem(T, M) /\ GoodFiles(T, F) /\ Owned(M, F, O)
  BY DEF Core
<1>2. /\ T \in Seq(Entry) /\ Len(T) \in Nat /\ DOMAIN T = 1..Len(T) /\ Members(M.ids) \subseteq DOMAIN T
      /\ \A f \in File : ToSet(F[f]) \subseteq DOMAIN T \union {Header, Torn}
      /\ Header \notin DOMAIN T
  BY CoreTypes
<1>3. /\ GoodTable(U) /\ SameEntries(T, U) /\ Len(U) = k /\ U[k] = x /\ \A i \in DOMAIN T : U[i] = T[i]
      /\ DOMAIN U = DOMAIN T \union {k} /\ k \notin DOMAIN T
      /\ \A i \in DOMAIN U : U[i].parent # k
  BY <1>1, AppendGood
<1>4. U \in Seq(Entry) /\ Len(T) <= Len(U) /\ k # Header /\ k # Torn
  BY <1>2, <1>3 DEF GoodTable, Header, Torn
<1>5. GoodMem(U, M) /\ GoodFiles(U, F)
  BY <1>1, <1>2, <1>4, GoodLater
<1>6. Core(U, M, F, O)
  BY <1>1, <1>3, <1>5 DEF Core
<1>7. Unplaced(U, M, F, k)
  BY <1>2, <1>3, <1>4 DEF Unplaced
<1>8. ASSUME NEW e, Unplaced(T, M, F, e) PROVE Unplaced(U, M, F, e) /\ e # k
  <2>1. e \in DOMAIN T /\ e # k /\ e # Header
    BY <1>2, <1>3, <1>8 DEF Unplaced
  <2> QED BY <2>1, <1>3, <1>8 DEF Unplaced
<1> QED BY <1>3, <1>6, <1>7, <1>8

\* The append to a session and its file.
Written(T, M, F, i, N, G) ==
  /\ N.file = M.file /\ N.ids = Append(M.ids, i) /\ N.flushed = Answered(T, N.ids)
  /\ G \in [File -> Seq(Int)] /\ G[M.file] = F[M.file] \o ToWrite(T, M, i)
  /\ \A f \in File \ {M.file} : G[f] = F[f]

LEMMA StoreFile ==
  ASSUME NEW T, NEW M, NEW F, NEW O, Core(T, M, F, O), FileOf(T, M, F), NEW i \in DOMAIN T,
         NEW U, SameEntries(T, U), NEW N, NEW G, Written(T, M, F, i, N, G)
  PROVE  FileOf(U, N, G)
<1> USE DEF Written
<1>1. /\ T \in Seq(Entry) /\ Members(M.ids) \subseteq DOMAIN T /\ M.file \in File
      /\ M.ids \in Seq(Int) /\ GoodIds(T, M.ids) /\ Torn \notin DOMAIN T /\ i \in Int
      /\ F[M.file] \in Seq(Int) /\ DOMAIN T \subseteq Nat \ {0} /\ Header \notin DOMAIN T
  <2>1. /\ T \in Seq(Entry) /\ Members(M.ids) \subseteq DOMAIN T /\ M.file \in File
        /\ M.ids \in Seq(Int) /\ GoodIds(T, M.ids) /\ Torn \notin DOMAIN T
        /\ DOMAIN T \subseteq Nat \ {0} /\ Header \notin DOMAIN T
    BY CoreTypes
  <2>2. F[M.file] \in Seq(Int)
    BY <2>1, CoreTypes
  <2> QED BY <2>1, <2>2
<1> DEFINE all == Append(M.ids, i)
<1>2. all \in Seq(Int) /\ all # <<>> /\ DOMAIN all = DOMAIN M.ids \union {Len(M.ids) + 1}
      /\ all[Len(M.ids) + 1] = i /\ \A n \in DOMAIN M.ids : all[n] = M.ids[n]
  <2> DEFINE old == M.ids
  <2>1. old \in Seq(Int) /\ i \in Int
    BY <1>1
  <2>2. all = Append(old, i)
    OBVIOUS
  <2> HIDE DEF old, all
  <2>3. all \in Seq(Int) /\ all # <<>>
    <3>1. all \in Seq(Int)
      BY <2>1, <2>2
    <3>2. Len(all) = Len(old) + 1 /\ Len(old) \in Nat
      BY <2>1, <2>2
    <3>3. Len(all) # 0
      BY <3>2
    <3> QED BY <3>1, <3>3
  <2>4. DOMAIN all = DOMAIN old \union {Len(old) + 1}
    <3>1. Len(all) = Len(old) + 1 /\ Len(old) \in Nat
      BY <2>1, <2>2
    <3>2. DOMAIN all = 1..Len(all) /\ DOMAIN old = 1..Len(old)
      BY <2>1, <2>3
    <3> QED BY <3>1, <3>2
  <2>5. all[Len(old) + 1] = i /\ \A n \in DOMAIN old : all[n] = old[n]
    BY <2>1, <2>2
  <2> QED BY <2>3, <2>4, <2>5 DEF old
<1>3. all[1] = Header
  <2>1. 1 \in DOMAIN M.ids /\ M.ids[1] = Header
    BY <1>1 DEF GoodIds
  <2> QED BY <2>1, <1>2
<1>4. ToSet(all) = ToSet(M.ids) \union {i}
  BY <1>2 DEF ToSet
<1>5. Members(all) = Members(M.ids) \union {i}
  BY <1>1, <1>4 DEF Members
<1>6. ToWrite(T, M, i) = IF ~Answered(T, all) THEN <<>> ELSE IF M.flushed THEN <<i>> ELSE all
  BY DEF ToWrite
<1> HIDE DEF all
<1>7. Answered(U, all) = Answered(T, all)
  <2>1. Members(all) \subseteq DOMAIN T
    BY <1>1, <1>5
  <2> QED BY <2>1, <1>1, AnsweredSame
<1>8. Answered(T, M.ids) => Answered(T, all)
  BY <1>5 DEF Answered
<1>9. G[M.file] = IF Answered(T, all) THEN all ELSE <<>>
  <2>1. CASE ~Answered(T, all)
    <3>1. F[M.file] = <<>> /\ ToWrite(T, M, i) = <<>>
      BY <2>1, <1>6, <1>8 DEF FileOf
    <3> QED BY <3>1, <2>1
  <2>2. CASE Answered(T, all) /\ M.flushed
    <3>1. F[M.file] = M.ids /\ ToWrite(T, M, i) = <<i>>
      BY <2>2, <1>6 DEF FileOf
    <3>2. M.ids \o <<i>> = Append(M.ids, i)
      BY <1>1
    <3> QED BY <3>1, <3>2, <2>2 DEF all
  <2>3. CASE Answered(T, all) /\ ~M.flushed
    <3>1. F[M.file] = <<>> /\ ToWrite(T, M, i) = all
      BY <2>3, <1>6 DEF FileOf
    <3>2. <<>> \o all = all
      BY <1>2
    <3> QED BY <3>1, <3>2, <2>3
  <2> QED BY <2>1, <2>2, <2>3
<1>10. \A n \in DOMAIN all : all[n] # Torn
  <2>1. ToSet(all) \subseteq Members(all) \union {Header}
    BY DEF Members
  <2>2. Torn \notin Members(all)
    BY <1>1, <1>5
  <2>3. Torn # Header
    BY DEF Torn, Header
  <2>4. Torn \notin ToSet(all)
    BY <2>1, <2>2, <2>3
  <2> QED BY <2>4 DEF ToSet
<1>11. ASSUME NEW f \in File, G[f] # <<>> PROVE CleanFile(U, G[f])
  <2>1. CASE f = M.file
    <3>1. Answered(T, all) /\ G[f] = all
      BY <2>1, <1>9, <1>11
    <3> QED BY <3>1, <1>2, <1>3, <1>7, <1>10 DEF CleanFile
  <2>2. CASE f # M.file
    <3>1. FileOf(U, M, F)
      BY FileOfLater
    <3>2. G[f] = F[f]
      BY <2>2
    <3> QED BY <3>1, <3>2, <1>11 DEF FileOf
  <2> QED BY <2>1, <2>2
<1> QED BY <1>7, <1>9, <1>11 DEF FileOf, all

LEMMA WritesGood ==
  ASSUME NEW lines \in Seq(Int), NEW out \in Writes(lines)
  PROVE  GoodOut(out, lines)
<1>1. CASE out = [lines |-> lines, ok |-> TRUE]
  <2>1. out.lines = lines /\ out.ok = TRUE
    BY <1>1
  <2> QED BY <2>1 DEF GoodOut
<1>2. ASSUME NEW n \in 0..(Len(lines) - 1), NEW part \in {<<>>, <<Torn>>},
             out = [lines |-> SubSeq(lines, 1, n) \o part, ok |-> FALSE]
      PROVE  GoodOut(out, lines)
  <2> DEFINE a == SubSeq(lines, 1, n)
  <2>1. out.lines = a \o part /\ out.ok = FALSE
    BY <1>2
  <2>2. a \in Seq(Int) /\ Len(a) = n /\ n <= Len(lines) /\ \A m \in 1..n : a[m] = lines[m]
    OBVIOUS
  <2>3. part \in Seq(Int) /\ ToSet(part) \subseteq {Torn}
    <3>1. <<Torn>> \in Seq(Int) /\ <<>> \in Seq(Int)
      BY DEF Torn
    <3>2. ToSet(<<Torn>>) = {Torn} /\ ToSet(<<>>) = {}
      BY DEF ToSet
    <3> QED BY <3>1, <3>2
  <2> HIDE DEF a
  <2>4. ToSet(a) \subseteq ToSet(lines)
    <3>1. DOMAIN a = 1..n /\ 1..n \subseteq DOMAIN lines
      BY <2>2
    <3> QED BY <3>1, <2>2 DEF ToSet
  <2>5. a \o part \in Seq(Int) /\ ToSet(a \o part) = ToSet(a) \union ToSet(part)
    BY <2>2, <2>3, ConcatOf
  <2> QED BY <2>1, <2>3, <2>4, <2>5 DEF GoodOut
<1>3. \/ out = [lines |-> lines, ok |-> TRUE]
      \/ \E n \in 0..(Len(lines) - 1) : \E part \in {<<>>, <<Torn>>} :
           out = [lines |-> SubSeq(lines, 1, n) \o part, ok |-> FALSE]
  <2> DEFINE stopped(n, part) == [lines |-> SubSeq(lines, 1, n) \o part, ok |-> FALSE]
             S == {stopped(n, part) : n \in 0..(Len(lines) - 1), part \in {<<>>, <<Torn>>}}
  <2>1. Writes(lines) = {[lines |-> lines, ok |-> TRUE]}
                        \union (IF lines = <<>> \/ used = MaxIncidents THEN {} ELSE S)
    BY DEF Writes
  <2> HIDE DEF stopped
  <2>2. out \in S => \E n \in 0..(Len(lines) - 1) : \E part \in {<<>>, <<Torn>>} : out = stopped(n, part)
    OBVIOUS
  <2> HIDE DEF S
  <2>3. out = [lines |-> lines, ok |-> TRUE] \/ out \in S
    BY <2>1
  <2> QED BY <2>2, <2>3 DEF stopped
<1> QED BY <1>1, <1>2, <1>3

LEMMA ToWriteGood ==
  ASSUME NEW T, NEW M, M.ids \in Seq(Int), NEW i \in Int
  PROVE  ToWrite(T, M, i) \in Seq(Int) /\ ToSet(ToWrite(T, M, i)) \subseteq ToSet(Append(M.ids, i))
<1> DEFINE old == M.ids
           all == Append(old, i)
<1>1. old \in Seq(Int)
  OBVIOUS
<1>2. ToWrite(T, M, i) = IF ~Answered(T, all) THEN <<>> ELSE IF M.flushed THEN <<i>> ELSE all
  BY DEF ToWrite
<1> HIDE DEF old
<1>3. all \in Seq(Int) /\ all[Len(all)] = i /\ Len(all) \in DOMAIN all
  BY <1>1
<1> HIDE DEF all
<1>4. i \in ToSet(all)
  BY <1>3 DEF ToSet
<1>5. <<>> \in Seq(Int) /\ <<i>> \in Seq(Int) /\ ToSet(<<>>) = {} /\ ToSet(<<i>>) = {i}
  BY DEF ToSet
<1>6. ToWrite(T, M, i) \in {<<>>, <<i>>, all}
  BY <1>2
<1> QED BY <1>3, <1>4, <1>5, <1>6 DEF all, old

LEMMA StoreStep ==
  ASSUME NEW T, NEW M, Core(T, M, files, origin), NEW i, Unplaced(T, M, files, i),
         NEW out \in Writes(ToWrite(T, M, i)), Store(T, M, i, out)
  PROVE  /\ Core(table', mem', files', origin)
         /\ table' = Placed(T, i, M.leaf)
         /\ Len(table') = Len(T) /\ DOMAIN table' = DOMAIN T /\ SameEntries(T, table')
         /\ mem'.file = M.file /\ mem'.ids = Append(M.ids, i) /\ mem'.leaf = i
         /\ Members(mem'.ids) = Members(M.ids) \union {i}
         /\ out.ok \in BOOLEAN
         /\ \A f \in File : Valid(files[f]) => Valid(files'[f])
         /\ ToSet(files'[M.file]) \subseteq ToSet(files[M.file]) \union ToSet(M.ids) \union {i, Torn}
         /\ \A f \in File \ {M.file} : files'[f] = files[f]
         /\ \A e \in DOMAIN T \ {i} : Unplaced(T, M, files, e) => Unplaced(table', mem', files', e)
         /\ out.ok /\ FileOf(T, M, files) => FileOf(table', mem', files')
<1> DEFINE lines == out.lines
           fl == Answered(T, Append(M.ids, i)) /\ (M.flushed \/ out.ok)
<1>1. /\ T \in Seq(Entry) /\ i \in DOMAIN T /\ i \in Int /\ M.file \in File
      /\ M.ids \in Seq(Int) /\ M.flushed \in BOOLEAN /\ Len(T) \in Nat /\ DOMAIN T = 1..Len(T)
      /\ M \in [file : File, ids : Seq(Nat), leaf : Nat, flushed : BOOLEAN]
      /\ GoodTable(T) /\ GoodMem(T, M) /\ GoodFiles(T, files) /\ Owned(M, files, origin)
      /\ Len(T) <= MaxEntries
  <2>1. /\ T \in Seq(Entry) /\ M.file \in File /\ DOMAIN T \subseteq Nat \ {0}
        /\ M.ids \in Seq(Int) /\ M.flushed \in BOOLEAN /\ Len(T) \in Nat /\ DOMAIN T = 1..Len(T)
        /\ M \in [file : File, ids : Seq(Nat), leaf : Nat, flushed : BOOLEAN]
    BY CoreTypes
  <2> QED BY <2>1 DEF Core, Unplaced
<1>2. ToWrite(T, M, i) \in Seq(Int) /\ ToSet(ToWrite(T, M, i)) \subseteq ToSet(Append(M.ids, i))
  BY <1>1, ToWriteGood
<1>3. /\ lines \in Seq(Int) /\ ToSet(lines) \subseteq ToSet(Append(M.ids, i)) \union {Torn}
      /\ out.ok \in BOOLEAN /\ (out.ok => lines = ToWrite(T, M, i))
  <2>1. GoodOut(out, ToWrite(T, M, i))
    BY <1>2, WritesGood
  <2> QED BY <2>1, <1>2 DEF GoodOut
<1>4. fl \in BOOLEAN
  OBVIOUS
<1>5. /\ table' = Placed(T, i, M.leaf)
      /\ mem' = StoredMem(M, i, fl)
      /\ files' = StoredFiles(files, M, lines)
  BY DEF Store, StoredMem, StoredFiles
<1> HIDE DEF lines, fl
<1>6. /\ GoodTable(table') /\ Len(table') = Len(T) /\ DOMAIN table' = DOMAIN T /\ SameEntries(T, table')
      /\ GoodMem(table', mem') /\ Members(Append(M.ids, i)) = Members(M.ids) \union {i}
      /\ GoodFiles(table', files')
      /\ ToSet(files'[M.file]) \subseteq ToSet(files[M.file]) \union ToSet(M.ids) \union {i, Torn}
      /\ \A f \in File \ {M.file} : files'[f] = files[f]
      /\ \A e \in DOMAIN T \ {i} : Unplaced(T, M, files, e) => Unplaced(table', mem', files', e)
  <2> DEFINE U == Placed(T, i, M.leaf)
             N == StoredMem(M, i, fl)
             G == StoredFiles(files, M, lines)
  <2>1. GoodTable(T) /\ GoodMem(T, M) /\ GoodFiles(T, files) /\ Unplaced(T, M, files, i)
    BY <1>1
  <2>2. lines \in Seq(Int) /\ ToSet(lines) \subseteq ToSet(Append(M.ids, i)) \union {Torn}
    BY <1>3
  <2>3. /\ GoodTable(U) /\ Len(U) = Len(T) /\ DOMAIN U = DOMAIN T /\ SameEntries(T, U)
        /\ GoodMem(U, N) /\ Members(Append(M.ids, i)) = Members(M.ids) \union {i}
        /\ GoodFiles(U, G)
        /\ ToSet(G[M.file]) \subseteq ToSet(files[M.file]) \union ToSet(M.ids) \union {i, Torn}
        /\ \A f \in File \ {M.file} : G[f] = files[f]
        /\ \A e \in DOMAIN T \ {i} : Unplaced(T, M, files, e) => Unplaced(U, N, G, e)
    BY <2>1, <2>2, <1>4, StoreGood, SMTT(60)
  <2> HIDE DEF U, N, G
  <2>4. table' = U /\ mem' = N /\ files' = G
    BY <1>5 DEF U, N, G
  <2> QED BY <2>3, <2>4
<1>7. mem'.file = M.file /\ mem'.ids = Append(M.ids, i) /\ mem'.leaf = i /\ mem'.flushed = fl
  BY <1>1, <1>5 DEF StoredMem
<1>8. files'[M.file] = files[M.file] \o lines
  BY <1>1, <1>5 DEF StoredFiles, GoodFiles
<1>9. Owned(mem', files', origin)
  <2>1. origin[M.file] # {}
    BY <1>1 DEF Owned
  <2> QED BY <2>1, <1>1, <1>6, <1>7 DEF Owned
<1>10. Core(table', mem', files', origin)
  BY <1>1, <1>6, <1>9 DEF Core
<1>11. \A f \in File : files[f] \in Seq(Int) /\ files'[f] \in Seq(Int)
  BY <1>10, CoreTypes
<1>12. ASSUME NEW f \in File, Valid(files[f]) PROVE Valid(files'[f])
  <2>1. CASE f = M.file
    <3> DEFINE a == files[f]
    <3>1. a \in Seq(Int) /\ a # <<>> /\ a[1] = Header
      BY <1>11, <1>12 DEF Valid
    <3> HIDE DEF a
    <3>2. (a \o lines)[1] = Header /\ a \o lines # <<>>
      BY <3>1, <1>3
    <3> QED BY <3>2, <2>1, <1>8 DEF Valid, a
  <2>2. CASE f # M.file
    BY <2>2, <1>6, <1>12
  <2> QED BY <2>1, <2>2
<1>13. ASSUME out.ok, FileOf(T, M, files) PROVE FileOf(table', mem', files')
  <2>0. Answered(T, Append(M.ids, i)) \in BOOLEAN
    BY DEF Answered
  <2>1. mem'.flushed = Answered(T, mem'.ids)
    BY <2>0, <1>1, <1>13, <1>7 DEF fl
  <2>2. files'[M.file] = files[M.file] \o ToWrite(T, M, i)
    BY <1>3, <1>8, <1>13
  <2>3. files' \in [File -> Seq(Int)]
    BY <1>6, <1>11 DEF GoodFiles
  <2>4. \A f \in File \ {M.file} : files'[f] = files[f]
    BY <1>6
  <2>5. SameEntries(T, table') /\ i \in DOMAIN T /\ FileOf(T, M, files)
    BY <1>1, <1>6, <1>13
  <2>6. mem'.file = M.file /\ mem'.ids = Append(M.ids, i)
    BY <1>7
  <2>7. Written(T, M, files, i, mem', files')
    BY <2>1, <2>2, <2>3, <2>4, <2>6 DEF Written
  <2> QED BY <2>5, <2>7, StoreFile
<1> QED BY <1>3, <1>5, <1>6, <1>7, <1>10, <1>12, <1>13

\* The same of where what is stored was made.
LEMMA StoreHome ==
  ASSUME NEW T, NEW M, Core(T, M, files, origin), NEW i, Unplaced(T, M, files, i),
         NEW out \in Writes(ToWrite(T, M, i)), Store(T, M, i, out),
         NEW E, HomeOf(T, M, files, origin, E), Waits(T, M, files, E), T[i].home \in origin[M.file]
  PROVE  HomeOf(table', mem', files', origin, E)
<1>1. /\ T \in Seq(Entry) /\ i \in DOMAIN T /\ i \in Int /\ M.file \in File
      /\ M.ids \in Seq(Int) /\ Members(M.ids) \subseteq DOMAIN T /\ Header \notin DOMAIN T
  <2>1. /\ T \in Seq(Entry) /\ M.file \in File /\ DOMAIN T \subseteq Nat \ {0}
        /\ M.ids \in Seq(Int) /\ Members(M.ids) \subseteq DOMAIN T /\ Header \notin DOMAIN T
    BY CoreTypes
  <2> QED BY <2>1 DEF Unplaced
<1>2. \A f \in File : ToSet(files[f]) \subseteq DOMAIN T \union {Header, Torn}
  BY CoreTypes
<1>3. /\ SameEntries(T, table') /\ mem'.file = M.file /\ Members(mem'.ids) = Members(M.ids) \union {i}
  BY StoreStep
<1>7. /\ ToSet(files'[M.file]) \subseteq ToSet(files[M.file]) \union ToSet(M.ids) \union {i, Torn}
      /\ \A f \in File \ {M.file} : files'[f] = files[f]
  BY StoreStep
<1>8. \A j \in DOMAIN T : table'[j].home = T[j].home
  BY <1>3 DEF SameEntries
<1>9. \A j \in Members(mem'.ids) : table'[j].home \in origin[mem'.file]
  BY <1>1, <1>3, <1>8 DEF HomeOf
<1>10. ASSUME NEW f \in File, NEW j \in ToSet(files'[f]) \ {Header, Torn}
       PROVE  table'[j].home \in origin[f]
  <2>1. CASE f # M.file
    BY <2>1, <1>2, <1>7, <1>8 DEF HomeOf
  <2>2. CASE f = M.file
    <3>1. CASE j \in ToSet(files[f])
      BY <3>1, <1>2, <1>8 DEF HomeOf
    <3>2. CASE j \in ToSet(M.ids) \union {i}
      <4>1. j \in Members(M.ids) \/ j = i
        BY <3>2 DEF Members
      <4> QED BY <4>1, <2>2, <1>1, <1>8 DEF HomeOf
    <3> QED BY <3>1, <3>2, <2>2, <1>7
  <2> QED BY <2>1, <2>2
<1>11. \A e \in ToSet(E) \ {EndMark} : table'[e].home \in origin[mem'.file]
  <2>1. \A e \in ToSet(E) \ {EndMark} : e \in DOMAIN T
    BY DEF Waits, ToSet, Unplaced
  <2> QED BY <2>1, <1>3, <1>8 DEF HomeOf
<1> QED BY <1>9, <1>10, <1>11 DEF HomeOf

\* What waits goes on waiting when something else is stored.
LEMMA StoreWaits ==
  ASSUME NEW T, NEW M, Core(T, M, files, origin), NEW i, Unplaced(T, M, files, i),
         NEW out \in Writes(ToWrite(T, M, i)), Store(T, M, i, out),
         NEW E, Waits(T, M, files, E), i \notin ToSet(E)
  PROVE  Waits(table', mem', files', E)
<1>1. \A e \in DOMAIN T \ {i} : Unplaced(T, M, files, e) => Unplaced(table', mem', files', e)
  BY StoreStep
<1>2. \A n \in DOMAIN E : E[n] # i
  BY DEF ToSet
<1>3. ASSUME NEW n \in DOMAIN E, E[n] # EndMark PROVE Unplaced(table', mem', files', E[n])
  <2>1. Unplaced(T, M, files, E[n])
    BY <1>3 DEF Waits
  <2>2. E[n] \in DOMAIN T \ {i}
    BY <2>1, <1>2 DEF Unplaced
  <2> QED BY <2>1, <2>2, <1>1
<1> QED BY <1>3 DEF Waits

\* The queue without its first event.
LEMMA TailWaits ==
  ASSUME NEW T, NEW M, NEW F, NEW E, Waits(T, M, F, E), E # <<>>
  PROVE  /\ Waits(T, M, F, Tail(E)) /\ ToSet(Tail(E)) \subseteq ToSet(E)
         /\ Head(E) \in ToSet(E)
         /\ Head(E) # EndMark => Unplaced(T, M, F, Head(E)) /\ Head(E) \notin ToSet(Tail(E))
<1> DEFINE R == Tail(E)
<1>1. E \in Seq(Int) /\ DOMAIN E = 1..Len(E) /\ Len(E) \in Nat /\ Len(E) # 0 /\ Head(E) = E[1]
  BY DEF Waits
<1>2. R \in Seq(Int) /\ DOMAIN R = 1..(Len(E) - 1) /\ \A n \in DOMAIN R : R[n] = E[n + 1]
  BY <1>1
<1> HIDE DEF R
<1>3. 1 \in DOMAIN E /\ \A n \in DOMAIN R : n + 1 \in DOMAIN E /\ n + 1 # 1
  BY <1>1, <1>2
<1>4. ASSUME NEW n \in DOMAIN R, R[n] # EndMark
      PROVE  Unplaced(T, M, F, R[n]) /\ \A m \in DOMAIN R : R[m] = R[n] => m = n
  <2>1. n + 1 \in DOMAIN E /\ R[n] = E[n + 1]
    BY <1>2, <1>3
  <2>2. Unplaced(T, M, F, E[n + 1]) /\ \A m \in DOMAIN E : E[m] = E[n + 1] => m = n + 1
    BY <2>1, <1>4 DEF Waits
  <2>3. ASSUME NEW m \in DOMAIN R, R[m] = R[n] PROVE m = n
    <3>1. m + 1 \in DOMAIN E /\ R[m] = E[m + 1]
      BY <1>2, <1>3
    <3>2. m + 1 = n + 1
      BY <3>1, <2>1, <2>2, <2>3
    <3> QED BY <3>2, <1>2
  <2> QED BY <2>1, <2>2, <2>3
<1>5. Waits(T, M, F, R)
  BY <1>2, <1>4 DEF Waits
<1>6. ToSet(R) \subseteq ToSet(E) /\ E[1] \in ToSet(E)
  BY <1>2, <1>3 DEF ToSet
<1>7. ASSUME E[1] # EndMark
      PROVE  Unplaced(T, M, F, E[1]) /\ E[1] \notin ToSet(R)
  <2>1. Unplaced(T, M, F, E[1]) /\ \A m \in DOMAIN E : E[m] = E[1] => m = 1
    BY <1>3, <1>7 DEF Waits
  <2>2. \A n \in DOMAIN R : R[n] # E[1]
    BY <2>1, <1>2, <1>3
  <2> QED BY <2>1, <2>2 DEF ToSet
<1> QED BY <1>1, <1>5, <1>6, <1>7 DEF R

-------------------------------------------------------------------------------
(* The steps *)

LEMMA InitHolds == Init => SInv
<1> SUFFICES ASSUME Init PROVE SInv
  OBVIOUS
<1> USE SessionAssumption
<1>1. Setting \in Entry /\ Setting.parent = Header /\ Setting.kind = "setting" /\ Setting.home = 1
  BY DEF Setting, Entry, Kinds, Header
<1>2. table = <<Setting>> /\ Len(table) = 1 /\ DOMAIN table = {1} /\ table[1] = Setting
  BY DEF Init
<1>3. GoodTable(table)
  <2>1. table \in Seq(Entry)
    BY <1>1, <1>2
  <2>2. \A i \in DOMAIN table : table[i].parent \in 0..Len(table)
    BY <1>1, <1>2 DEF Header
  <2>3. Ranked(table, DOMAIN table)
    <3> DEFINE r == [i \in {1} |-> 0]
    <3>1. r \in [DOMAIN table -> Nat]
      BY <1>2
    <3>2. \A i \in DOMAIN table : table[i].parent \notin DOMAIN table
      BY <1>1, <1>2 DEF Header
    <3> HIDE DEF r
    <3> QED BY <3>1, <3>2 DEF Ranked
  <2> QED BY <2>1, <2>2, <2>3 DEF GoodTable
<1>4. /\ mem = [file |-> 1, ids |-> <<Header, 1>>, leaf |-> 1, flushed |-> FALSE]
      /\ mem.file = 1 /\ mem.ids = <<Header, 1>> /\ mem.leaf = 1 /\ mem.flushed = FALSE
  BY DEF Init
<1>5. ToSet(mem.ids) = {Header, 1} /\ Members(mem.ids) = {1}
  BY <1>4 DEF ToSet, Members, Header
<1>6. GoodMem(table, mem)
  <2>1. 1 \in File
    BY DEF File
  <2>2. mem \in [file : File, ids : Seq(Nat), leaf : Nat, flushed : BOOLEAN]
    <3>1. <<Header, 1>> \in Seq(Nat)
      BY DEF Header
    <3> QED BY <3>1, <2>1, <1>4
  <2>3. GoodIds(table, mem.ids)
    BY <1>2, <1>4 DEF GoodIds, Header
  <2> QED BY <2>2, <2>3, <1>4, <1>5 DEF GoodMem
<1>7. files = [f \in File |-> <<>>] /\ \A f \in File : files[f] = <<>>
  BY DEF Init
<1>8. GoodFiles(table, files)
  BY <1>7 DEF GoodFiles
<1>9. Owned(mem, files, origin)
  <2>1. 1 \in File
    BY DEF File
  <2>2. origin = [f \in File |-> IF f = 1 THEN {1} ELSE {}]
    BY DEF Init
  <2> QED BY <2>1, <2>2, <1>4, <1>7 DEF Owned
<1>10. Core(table, mem, files, origin)
  BY <1>2, <1>3, <1>6, <1>8, <1>9 DEF Core
<1>11. Waits(table, mem, files, events)
  BY DEF Init, Waits
<1>12. Listed(table, agent)
  BY DEF Init, Listed, ToSet
<1>13. Control
  <2>1. CommandOk(command, files) /\ JobOk(job)
    BY DEF Init, NoCommand, NoJob, CommandOk, JobOk
  <2>2. turn \in {"idle", "asked", "called"} /\ mishaps \subseteq Mishap
    BY DEF Init
  <2>3. heard \in BOOLEAN
    BY DEF Init
  <2>4. used \in 0..MaxIncidents
    BY DEF Init
  <2> QED BY <2>1, <2>2, <2>3, <2>4 DEF Control
<1>14. FileInv
  <2>1. ~Answered(table, mem.ids)
    BY <1>1, <1>2, <1>5 DEF Answered, Replies
  <2>2. mem.file \in File
    BY <1>6 DEF GoodMem
  <2>3. files[mem.file] = IF Answered(table, mem.ids) THEN mem.ids ELSE <<>>
    BY <2>1, <2>2, <1>7
  <2>4. mem.flushed = Answered(table, mem.ids)
    <3>1. Answered(table, mem.ids) \in BOOLEAN
      BY DEF Answered
    <3> QED BY <3>1, <2>1, <1>4
  <2>5. \A f \in File : files[f] # <<>> => CleanFile(table, files[f])
    BY <1>7
  <2>6. FileOf(table, mem, files)
    BY <2>3, <2>4, <2>5 DEF FileOf
  <2> QED BY <2>6 DEF FileInv
<1>15. HomeInv
  <2>1. \A f \in File : ToSet(files[f]) = {}
    BY <1>7 DEF ToSet
  <2>2. ToSet(events) = {}
    BY DEF Init, ToSet
  <2>3. 1 \in origin[mem.file]
    BY <1>4, <1>9 DEF Owned
  <2> QED BY <2>1, <2>2, <2>3, <1>1, <1>2, <1>5 DEF HomeInv, HomeOf
<1>16. turn = "idle"
  BY DEF Init
<1> QED BY <1>10, <1>11, <1>12, <1>13, <1>14, <1>15, <1>16 DEF SInv

\* A step that leaves the entries, the session and the files alone.
LEMMA StillKeeps ==
  ASSUME SInv, UNCHANGED <<table, files, mem, origin>>, Listed(table, agent'), mishaps \subseteq mishaps',
         Control', turn' = "called" => turn = "called",
         \/ events' = events
         \/ events # <<>> /\ events' = Tail(events)
  PROVE  SInv'
<1>1. Waits(table, mem, files, events) /\ events \in Seq(Int)
  BY DEF SInv, Waits
<1>2. Waits(table, mem, files, events') /\ ToSet(events') \subseteq ToSet(events)
  <2>1. CASE events' = events
    BY <2>1, <1>1
  <2>2. CASE events # <<>> /\ events' = Tail(events)
    BY <2>2, <1>1, TailWaits
  <2> QED BY <2>1, <2>2
<1>3. Core(table, mem, files, origin)' /\ Listed(table, agent)' /\ FileInv'
      /\ (turn = "called" => CallMade(table))'
  BY DEF SInv, FileInv
<1>4. HomeInv'
  BY <1>2 DEF SInv, HomeInv, HomeOf
<1>5. Waits(table, mem, files, events)'
  BY <1>2
<1> QED BY <1>3, <1>4, <1>5 DEF SInv

LEMMA InvTypes ==
  ASSUME SInv
  PROVE  /\ Core(table, mem, files, origin) /\ GoodTable(table) /\ GoodMem(table, mem)
         /\ table \in Seq(Entry) /\ Len(table) \in Nat /\ DOMAIN table = 1..Len(table)
         /\ \A i \in DOMAIN table : table[i] \in Entry
         /\ mem.file \in File /\ mem.file \in Nat /\ GoodIds(table, mem.ids)
         /\ mem.leaf \in Members(mem.ids) \union {Header} /\ mem.leaf \in Nat
         /\ Members(mem.ids) \subseteq DOMAIN table /\ Members(mem.ids) \subseteq Nat \ {0}
         /\ Path \in Seq(DOMAIN table) /\ ToSet(Path) \subseteq Members(mem.ids)
         /\ Waits(table, mem, files, events) /\ Listed(table, agent) /\ Control
<1>1. /\ Core(table, mem, files, origin) /\ GoodTable(table) /\ GoodMem(table, mem)
      /\ Waits(table, mem, files, events) /\ Listed(table, agent) /\ Control
  BY DEF SInv, Core
<1>2. /\ table \in Seq(Entry) /\ Len(table) \in Nat /\ DOMAIN table = 1..Len(table)
      /\ \A i \in DOMAIN table : table[i] \in Entry
      /\ mem.file \in File /\ GoodIds(table, mem.ids)
      /\ mem.leaf \in Members(mem.ids) \union {Header} /\ mem.leaf \in 0..Len(table)
  BY <1>1, CoreTypes
<1>3. mem.file \in Nat /\ mem.leaf \in Nat
  BY <1>2, SessionAssumption DEF File
<1>4. /\ Members(mem.ids) \subseteq DOMAIN table /\ Members(mem.ids) \subseteq Nat \ {0}
      /\ Path \in Seq(Members(mem.ids)) /\ ToSet(Path) \subseteq Members(mem.ids)
  BY <1>1, <1>2, PathOf DEF Path
<1>5. Path \in Seq(DOMAIN table)
  BY <1>4
<1> QED BY <1>1, <1>2, <1>3, <1>4, <1>5

LEMMA StartsGood ==
  ASSUME SInv, CanPrepare(table, Path), NEW what, NEW again, Starts(what, again)
  PROVE  JobOk(job')
<1>1. Prepared(table, Path).kept \in Nat /\ Prepared(table, Path).covers \subseteq Nat
  BY InvTypes, PreparedGood
<1>2. mem.file \in Nat /\ mem.leaf \in Nat
  BY InvTypes
<1> DEFINE p == Prepared(table, Path)
<1>3. job' = [what |-> what, file |-> mem.file, leaf |-> mem.leaf, kept |-> p.kept, covers |-> p.covers,
                  again |-> again]
  BY DEF Starts
<1> HIDE DEF p
<1>4. job'.file = mem.file /\ job'.leaf = mem.leaf /\ job'.kept = p.kept /\ job'.covers = p.covers
  BY <1>3
<1> QED BY <1>1, <1>2, <1>4 DEF JobOk, p

LEMMA NoJobOk == JobOk(NoJob)
BY DEF JobOk, NoJob

LEMMA NoCommandOk == \A F : CommandOk(NoCommand, F)
BY DEF CommandOk, NoCommand

LEMMA IncidentCounts ==
  ASSUME used \in 0..MaxIncidents, Incident
  PROVE  used' \in 0..MaxIncidents
BY SessionAssumption DEF Incident

\* What is left of a list when its last element is taken off.
LEMMA ListedFront ==
  ASSUME NEW T, NEW A, Listed(T, A), A # <<>>
  PROVE  Listed(T, Front(A)) /\ Last(A) \in DOMAIN T
<1> DEFINE B == Front(A)
<1>1. A \in Seq(Int) /\ Len(A) \in Nat \ {0} /\ DOMAIN A = 1..Len(A) /\ \A n \in DOMAIN A : A[n] \in DOMAIN T
  BY DEF Listed, ToSet
<1>2. B \in Seq(Int) /\ DOMAIN B = 1..(Len(A) - 1) /\ \A n \in DOMAIN B : B[n] = A[n]
  BY <1>1 DEF Front
<1>3. \A n \in DOMAIN B : B[n] \in DOMAIN T
  BY <1>1, <1>2
<1> HIDE DEF B
<1>4. Listed(T, B)
  BY <1>2, <1>3 DEF Listed, ToSet
<1>5. Last(A) \in DOMAIN T
  BY <1>1 DEF Last
<1> QED BY <1>4, <1>5 DEF B

LEMMA TakesOffKeeps ==
  ASSUME SInv, TakesOff
  PROVE  Listed(table, agent') /\ mishaps \subseteq mishaps' /\ mishaps' \subseteq Mishap
<1>1. Listed(table, agent) /\ mishaps \subseteq Mishap
  BY InvTypes DEF Control
<1>2. mishaps \subseteq mishaps' /\ mishaps' \subseteq mishaps \union {"mistaken"}
  BY DEF TakesOff, Blames
<1>3. CASE EndsInReply
  <2>1. agent' = Front(agent) /\ agent # <<>>
    BY <1>3 DEF TakesOff, EndsInReply
  <2> QED BY <2>1, <1>1, <1>2, ListedFront DEF Mishap
<1>4. CASE ~EndsInReply
  <2>1. agent' = agent
    BY <1>4 DEF TakesOff
  <2> QED BY <2>1, <1>1, <1>2 DEF Mishap
<1> QED BY <1>3, <1>4

\* What _checkCompaction does.
LEMMA ChecksIs ==
  ASSUME NEW reply, NEW what, Checks(reply, what)
  PROVE  /\ (agent' = agent /\ mishaps' = mishaps) \/ TakesOff
         /\ \/ job' = job
            \/ job.what = "none" /\ CanPrepare(table, Path) /\ \E again : Starts(what, again)
         /\ used' = used \/ Incident
<1>1. CASE ChecksSize(reply, what)
  BY <1>1 DEF ChecksSize
<1>2. CASE Overflows(reply, what)
  BY <1>2 DEF Overflows
<1> QED BY <1>1, <1>2 DEF Checks

LEMMA ChecksKeeps ==
  ASSUME SInv, NEW reply, NEW what, Checks(reply, what)
  PROVE  /\ Listed(table, agent') /\ mishaps \subseteq mishaps' /\ mishaps' \subseteq Mishap
         /\ JobOk(job') /\ used' \in 0..MaxIncidents
<1>1. Listed(table, agent) /\ Control
  BY InvTypes
<1>2. Listed(table, agent') /\ mishaps \subseteq mishaps' /\ mishaps' \subseteq Mishap
  BY <1>1, ChecksIs, TakesOffKeeps DEF Control
<1>3. JobOk(job')
  <2>1. CASE job' = job
    BY <2>1, <1>1 DEF Control
  <2>2. CASE CanPrepare(table, Path) /\ \E again : Starts(what, again)
    BY <2>2, StartsGood
  <2> QED BY <2>1, <2>2, ChecksIs
<1>4. used' \in 0..MaxIncidents
  BY <1>1, ChecksIs, IncidentCounts DEF Control
<1> QED BY <1>2, <1>3, <1>4

\* A handler, or prompt(), that changes no more than the agent's list, the job and itself.
LEMMA ChecksStep ==
  ASSUME SInv, UNCHANGED <<table, files, mem, turn, heard, command, origin>>,
         events' = events \/ (events # <<>> /\ events' = Tail(events)),
         \/ \E reply, what : Checks(reply, what)
         \/ UNCHANGED <<job, used>> /\ (TakesOff \/ UNCHANGED <<agent, mishaps>>)
  PROVE  SInv'
<1>1. Listed(table, agent) /\ Control
  BY InvTypes
<1>2. /\ Listed(table, agent') /\ mishaps \subseteq mishaps' /\ mishaps' \subseteq Mishap
      /\ JobOk(job') /\ used' \in 0..MaxIncidents
  <2>1. CASE \E reply, what : Checks(reply, what)
    BY <2>1, ChecksKeeps
  <2>2. CASE UNCHANGED <<job, used>> /\ TakesOff
    BY <2>2, <1>1, TakesOffKeeps DEF Control
  <2>3. CASE UNCHANGED <<job, used>> /\ UNCHANGED <<agent, mishaps>>
    BY <2>3, <1>1 DEF Control
  <2> QED BY <2>1, <2>2, <2>3
<1>3. Control'
  BY <1>1, <1>2 DEF Control
<1> QED BY <1>2, <1>3, StillKeeps

LEMMA ChecksSizeChecks == \A reply, what : ChecksSize(reply, what) => Checks(reply, what)
BY DEF Checks

LEMMA AgentEndKeeps ==
  ASSUME SInv, AgentEnd
  PROVE  SInv'
<1>1. UNCHANGED <<table, files, mem, turn, heard, command, origin>> /\ events # <<>> /\ events' = Tail(events)
  BY DEF AgentEnd, Unblocked
<1>2. \/ \E reply, what : Checks(reply, what)
      \/ UNCHANGED <<job, used>> /\ (TakesOff \/ UNCHANGED <<agent, mishaps>>)
  BY DEF AgentEnd
<1> QED BY <1>1, <1>2, ChecksStep

LEMMA RetryEndsKeeps ==
  ASSUME SInv, RetryEnds
  PROVE  SInv'
<1>1. UNCHANGED <<table, files, mem, turn, heard, command, origin, events>>
  BY DEF RetryEnds
<1>2. \/ \E reply, what : Checks(reply, what)
      \/ UNCHANGED <<job, used, agent, mishaps>>
  BY ChecksSizeChecks DEF RetryEnds
<1> QED BY <1>1, <1>2, ChecksStep

LEMMA CheckBeforeKeeps ==
  ASSUME SInv, CheckBefore
  PROVE  SInv'
<1>1. UNCHANGED <<table, files, mem, turn, heard, command, origin, events>>
      /\ \E reply, what : Checks(reply, what)
  BY DEF CheckBefore
<1> QED BY <1>1, ChecksStep

LEMMA ContinueKeeps ==
  ASSUME SInv, Continue
  PROVE  SInv'
<1>1. /\ UNCHANGED <<table, files, mem, agent, events, heard, command, job, origin, used, mishaps>>
      /\ turn' \in {turn, "asked"}
  BY DEF Continue
<1>2. Listed(table, agent') /\ Control'
  BY <1>1, InvTypes DEF Control
<1> QED BY <1>1, <1>2, StillKeeps

LEMMA CompactKeeps ==
  ASSUME SInv, Compact
  PROVE  SInv'
<1>1. /\ UNCHANGED <<table, files, mem, agent, events, turn, job, origin, mishaps>>
      /\ heard' = FALSE /\ command' = [what |-> "compact", file |-> 0] /\ Incident
  BY DEF Compact
<1>2. Control
  BY InvTypes
<1>3. CommandOk(command', files)
  BY <1>1 DEF CommandOk
<1>4. used' \in 0..MaxIncidents
  BY <1>1, <1>2, IncidentCounts DEF Control
<1>5. Control'
  BY <1>1, <1>2, <1>3, <1>4 DEF Control
<1> QED BY <1>1, <1>5, InvTypes, StillKeeps

LEMMA CompactsKeeps ==
  ASSUME SInv, Compacts
  PROVE  SInv'
<1>1. /\ UNCHANGED <<table, files, mem, agent, events, turn, origin, used, mishaps>>
      /\ command' = NoCommand
  BY DEF Compacts
<1>2. Control
  BY InvTypes
<1>3. JobOk(job') /\ heard' \in BOOLEAN
  <2>1. CASE CanPrepare(table, Path)
    <3>1. Starts("manual", FALSE) /\ heard' = heard
      BY <2>1 DEF Compacts
    <3> QED BY <3>1, <2>1, <1>2, StartsGood DEF Control
  <2>2. CASE ~CanPrepare(table, Path)
    <3>1. heard' = TRUE /\ job' = job
      BY <2>2 DEF Compacts
    <3> QED BY <3>1, <1>2 DEF Control
  <2> QED BY <2>1, <2>2
<1>4. Control'
  BY <1>1, <1>2, <1>3, NoCommandOk DEF Control
<1> QED BY <1>1, <1>4, InvTypes, StillKeeps

LEMMA SummaryFailsKeeps ==
  ASSUME SInv, SummaryFails
  PROVE  SInv'
<1>1. /\ UNCHANGED <<table, files, mem, agent, events, turn, command, origin, mishaps>>
      /\ job' = NoJob /\ heard' = (heard \/ job.what = "manual") /\ Incident
  BY DEF SummaryFails
<1>2. Control
  BY InvTypes
<1>3. heard' \in BOOLEAN
  BY <1>1
<1>4. used' \in 0..MaxIncidents
  BY <1>1, <1>2, IncidentCounts DEF Control
<1>5. Control'
  BY <1>1, <1>2, <1>3, <1>4, NoJobOk DEF Control
<1> QED BY <1>1, <1>5, InvTypes, StillKeeps

LEMMA TargetGood ==
  ASSUME SInv, NEW i \in Members(mem.ids)
  PROVE  Target(i) \in Nat
<1>1. i \in DOMAIN table /\ i \in Nat /\ table[i] \in Entry
  BY InvTypes
<1> QED BY <1>1 DEF Target, Entry

LEMMA NavigateWithSummaryKeeps ==
  ASSUME SInv, NavigateWithSummary
  PROVE  SInv'
<1>1. /\ UNCHANGED <<table, files, mem, agent, events, turn, heard, command, origin, mishaps>>
      /\ Incident
  BY DEF NavigateWithSummary
<1>2. Control
  BY InvTypes
<1>3. JobOk(job')
  <2>1. PICK i \in Members(mem.ids) :
          job' = [what |-> "tree", file |-> mem.file, leaf |-> Target(i), kept |-> 0, covers |-> Left(i),
                  again |-> FALSE]
    BY DEF NavigateWithSummary
  <2>2. job'.file = mem.file /\ job'.leaf = Target(i) /\ job'.kept = 0 /\ job'.covers = Left(i)
    BY <2>1
  <2>3. Left(i) \subseteq Nat
    BY InvTypes DEF Left
  <2> QED BY <2>2, <2>3, InvTypes, TargetGood DEF JobOk
<1>4. used' \in 0..MaxIncidents
  BY <1>1, <1>2, IncidentCounts DEF Control
<1>5. Control'
  BY <1>1, <1>2, <1>3, <1>4 DEF Control
<1> QED BY <1>1, <1>5, InvTypes, StillKeeps

LEMMA LeaveKeeps ==
  ASSUME SInv, Leave
  PROVE  SInv'
<1>1. /\ UNCHANGED <<table, files, mem, agent, events, turn, job, origin, mishaps>>
      /\ heard' = FALSE /\ Incident
  BY DEF Leave
<1>2. Control
  BY InvTypes
<1>3. CommandOk(command', files)
  <2>1. CASE command' = [what |-> "new", file |-> 0]
    BY <2>1 DEF CommandOk
  <2>2. ASSUME NEW f \in File, Valid(files[f]), command' = [what |-> "resume", file |-> f]
        PROVE  CommandOk(command', files)
    <3>1. command'.what = "resume" /\ command'.file = f
      BY <2>2
    <3> QED BY <3>1, <2>2 DEF CommandOk
  <2> QED BY <2>1, <2>2 DEF Leave
<1>4. used' \in 0..MaxIncidents
  BY <1>1, <1>2, IncidentCounts DEF Control
<1>5. Control'
  BY <1>1, <1>2, <1>3, <1>4 DEF Control
<1> QED BY <1>1, <1>5, InvTypes, StillKeeps

\* A message joins the queue.
LEMMA WaitsMore ==
  ASSUME NEW T, NEW M, NEW F, NEW E, Waits(T, M, F, E), NEW k \in Int, Unplaced(T, M, F, k),
         k \notin ToSet(E), NEW marks \in {<<>>, <<EndMark>>}
  PROVE  /\ Waits(T, M, F, E \o <<k>> \o marks)
         /\ ToSet(E \o <<k>> \o marks) \subseteq ToSet(E) \union {k, EndMark}
<1> DEFINE a == E \o <<k>>
           b == a \o marks
<1>1. E \in Seq(Int) /\ <<k>> \in Seq(Int) /\ marks \in Seq(Int)
      /\ Len(<<k>>) = 1 /\ <<k>>[1] = k /\ ToSet(<<k>>) = {k} /\ ToSet(marks) \subseteq {EndMark}
  <2>1. E \in Seq(Int) /\ <<k>> \in Seq(Int) /\ marks \in Seq(Int)
    <3>1. E \in Seq(Int)
      BY DEF Waits
    <3>2. <<k>> \in Seq(Int) /\ <<>> \in Seq(Int) /\ <<EndMark>> \in Seq(Int)
      BY DEF EndMark
    <3> QED BY <3>1, <3>2
  <2>2. Len(<<k>>) = 1 /\ <<k>>[1] = k /\ ToSet(<<k>>) = {k}
    BY DEF ToSet
  <2>3. ToSet(<<>>) = {} /\ ToSet(<<EndMark>>) = {EndMark}
    BY DEF ToSet
  <2> QED BY <2>1, <2>2, <2>3
<1>2. /\ a \in Seq(Int) /\ Len(a) = Len(E) + 1 /\ ToSet(a) = ToSet(E) \union {k}
      /\ \A n \in 1..Len(E) : a[n] = E[n]
      /\ a[Len(E) + 1] = k
  <2>1. /\ a \in Seq(Int) /\ Len(a) = Len(E) + Len(<<k>>) /\ ToSet(a) = ToSet(E) \union ToSet(<<k>>)
        /\ \A n \in 1..Len(E) : a[n] = E[n]
        /\ \A n \in 1..Len(<<k>>) : a[Len(E) + n] = <<k>>[n]
    BY <1>1, ConcatOf
  <2>2. 1 \in 1..Len(<<k>>)
    BY <1>1
  <2>3. a[Len(E) + 1] = k
    BY <2>1, <2>2, <1>1
  <2> QED BY <2>1, <2>3, <1>1
<1> HIDE DEF a
<1>3. /\ b \in Seq(Int) /\ Len(b) = Len(a) + Len(marks) /\ ToSet(b) = ToSet(a) \union ToSet(marks)
      /\ \A n \in 1..Len(a) : b[n] = a[n]
      /\ \A n \in 1..Len(marks) : b[Len(a) + n] = marks[n]
  BY <1>1, <1>2, ConcatOf
<1> HIDE DEF b
<1>4. Len(E) \in Nat /\ Len(marks) \in Nat /\ DOMAIN E = 1..Len(E) /\ DOMAIN b = 1..(Len(E) + 1 + Len(marks))
  BY <1>1, <1>2, <1>3
<1>5. ASSUME NEW n \in DOMAIN b, b[n] # EndMark
      PROVE  (n \in DOMAIN E /\ b[n] = E[n]) \/ (n = Len(E) + 1 /\ b[n] = k)
  <2>1. CASE n \in 1..Len(E)
    <3>1. n \in 1..Len(a)
      BY <2>1, <1>2, <1>4
    <3> QED BY <3>1, <2>1, <1>2, <1>3, <1>4
  <2>2. CASE n = Len(E) + 1
    <3>1. n \in 1..Len(a)
      BY <2>2, <1>2, <1>4
    <3> QED BY <3>1, <2>2, <1>2, <1>3
  <2>3. CASE n > Len(E) + 1
    <3> DEFINE m == n - Len(a)
    <3>1. m \in 1..Len(marks) /\ Len(a) + m = n
      BY <2>3, <1>2, <1>4
    <3>2. marks[m] \in ToSet(marks)
      <4>1. DOMAIN marks = 1..Len(marks)
        BY <1>1
      <4> QED BY <4>1, <3>1 DEF ToSet
    <3>3. b[n] = marks[m]
      BY <3>1, <1>3
    <3> QED BY <3>2, <3>3, <1>1, <1>5
  <2> QED BY <2>1, <2>2, <2>3, <1>4
<1>6. ASSUME NEW n \in DOMAIN b, b[n] # EndMark
      PROVE  Unplaced(T, M, F, b[n]) /\ \A m \in DOMAIN b : b[m] = b[n] => m = n
  <2>1. \A j \in DOMAIN E : E[j] # k
    BY DEF ToSet
  <2>2. \A j \in DOMAIN E : E[j] # EndMark =>
          Unplaced(T, M, F, E[j]) /\ \A m \in DOMAIN E : E[m] = E[j] => m = j
    BY DEF Waits
  <2>3. CASE n \in DOMAIN E /\ b[n] = E[n]
    <3>1. Unplaced(T, M, F, E[n]) /\ \A m \in DOMAIN E : E[m] = E[n] => m = n
      BY <2>2, <2>3, <1>6
    <3>2. ASSUME NEW m \in DOMAIN b, b[m] = b[n] PROVE m = n
      BY <3>1, <3>2, <2>1, <2>3, <1>5, <1>6
    <3> QED BY <3>1, <3>2, <2>3
  <2>4. CASE n = Len(E) + 1 /\ b[n] = k
    <3>1. ASSUME NEW m \in DOMAIN b, b[m] = b[n] PROVE m = n
      BY <3>1, <2>1, <2>4, <1>5, <1>6
    <3> QED BY <3>1, <2>4
  <2> QED BY <2>3, <2>4, <1>5, <1>6
<1>7. Waits(T, M, F, b)
  BY <1>3, <1>6 DEF Waits
<1>8. ToSet(b) \subseteq ToSet(E) \union {k, EndMark}
  BY <1>1, <1>2, <1>3
<1> QED BY <1>7, <1>8 DEF a, b

LEMMA WaitsLater ==
  ASSUME NEW T, NEW U, NEW M, NEW F, NEW E, Waits(T, M, F, E),
         \A e : Unplaced(T, M, F, e) => Unplaced(U, M, F, e)
  PROVE  Waits(U, M, F, E)
BY DEF Waits

\* One more message at the end of a list.
LEMMA ListedMore ==
  ASSUME NEW T, NEW A, Listed(T, A), NEW U, DOMAIN T \subseteq DOMAIN U, NEW i \in DOMAIN U, i \in Int
  PROVE  Listed(U, Append(A, i))
<1> DEFINE B == Append(A, i)
<1>1. A \in Seq(Int) /\ ToSet(A) \subseteq DOMAIN T
  BY DEF Listed
<1>2. /\ B \in Seq(Int) /\ DOMAIN B = 1..(Len(A) + 1) /\ DOMAIN A = 1..Len(A) /\ Len(A) \in Nat
      /\ \A n \in DOMAIN A : B[n] = A[n]
      /\ B[Len(A) + 1] = i
  BY <1>1
<1> HIDE DEF B
<1>3. \A n \in DOMAIN B : n \in DOMAIN A \/ n = Len(A) + 1
  BY <1>2
<1>4. \A n \in DOMAIN A : A[n] \in DOMAIN U
  BY <1>1 DEF ToSet
<1>5. \A n \in DOMAIN A : B[n] \in DOMAIN U
  BY <1>2, <1>4
<1>6. B[Len(A) + 1] \in DOMAIN U
  BY <1>2, Zenon
<1>7. \A n \in DOMAIN B : B[n] \in DOMAIN U
  BY <1>3, <1>5, <1>6, Zenon
<1> QED BY <1>2, <1>7 DEF Listed, ToSet, B

LEMMA MadeGood ==
  ASSUME mem.file \in Nat, NEW kind \in Kinds, NEW ref \in Nat, NEW covers \in SUBSET Nat
  PROVE  /\ Made(kind, ref, covers) \in Entry /\ Made(kind, ref, covers).parent = Header
         /\ Made(kind, ref, covers).kind = kind /\ Made(kind, ref, covers).home = mem.file
BY DEF Made, Entry, Header

LEMMA EmitKeeps ==
  ASSUME SInv, Room(1), NEW kind \in Kinds, NEW ref \in Nat,
         table' = Append(table, Made(kind, ref, {})),
         NEW marks \in {<<>>, <<EndMark>>}, Emit(Next1, marks),
         turn' \in {"idle", "asked", "called"}, turn' = "called" => kind = "call",
         used' \in 0..MaxIncidents
  PROVE  SInv'
<1> DEFINE x == Made(kind, ref, {})
           k == Next1
<1>1. x \in Entry /\ x.parent = Header /\ x.kind = kind /\ x.home = mem.file
  BY InvTypes, MadeGood
<1>2. /\ Core(table, mem, files, origin) /\ Waits(table, mem, files, events) /\ Listed(table, agent)
      /\ Control /\ mem.file \in File /\ Len(table) \in Nat
  BY InvTypes
<1>3. /\ agent' = Append(agent, k)
      /\ events' = IF heard THEN events \o <<k>> \o marks ELSE events
      /\ mishaps' = mishaps \union {y \in {"unheard"} : ~heard /\ (command.what = "compact" \/ job.what = "manual")}
      /\ UNCHANGED <<files, mem, heard, command, job, origin>>
  BY DEF Emit, Blames
<1>4. k = Len(table) + 1 /\ k <= MaxEntries /\ k \in Int
  BY <1>2 DEF Next1, Room
<1>0. table' = Append(table, x)
  OBVIOUS
<1> HIDE DEF x, k
<1>5. /\ Core(table', mem, files, origin) /\ SameEntries(table, table')
      /\ table'[k] = x
      /\ DOMAIN table' = DOMAIN table \union {k} /\ k \notin DOMAIN table
      /\ Unplaced(table', mem, files, k)
      /\ \A e : Unplaced(table, mem, files, e) => Unplaced(table', mem, files, e) /\ e # k
  <2> DEFINE U == table'
  <2>1. Enters(table, x, U)
    BY <1>0, <1>1, <1>4 DEF Enters
  <2> HIDE DEF U
  <2>2. /\ Core(U, mem, files, origin) /\ SameEntries(table, U)
        /\ U[Len(table) + 1] = x
        /\ DOMAIN U = DOMAIN table \union {Len(table) + 1} /\ Len(table) + 1 \notin DOMAIN table
        /\ Unplaced(U, mem, files, Len(table) + 1)
        /\ \A e : Unplaced(table, mem, files, e) => Unplaced(U, mem, files, e) /\ e # Len(table) + 1
    <3>1. Core(U, mem, files, origin) /\ SameEntries(table, U)
      BY <2>1, <1>2, NewEntry
    <3>2. Unplaced(U, mem, files, Len(table) + 1)
      BY <2>1, <1>2, NewEntry
    <3>3. U[Len(table) + 1] = x
      BY <2>1, <1>2, NewEntry
    <3>4. DOMAIN U = DOMAIN table \union {Len(table) + 1} /\ Len(table) + 1 \notin DOMAIN table
      BY <2>1, <1>2, NewEntry
    <3>5. \A e : Unplaced(table, mem, files, e) => Unplaced(U, mem, files, e) /\ e # Len(table) + 1
      BY <2>1, <1>2, NewEntry
    <3> QED BY <3>1, <3>2, <3>3, <3>4, <3>5
  <2> QED BY <2>2, <1>4 DEF U
<1>6. Waits(table', mem, files, events)
  BY <1>2, <1>5, WaitsLater
<1>7. k \notin ToSet(events)
  <2>1. \A n \in DOMAIN events : events[n] # EndMark => events[n] # k
    BY <1>2, <1>5 DEF Waits
  <2>2. k # EndMark
    BY <1>2, <1>4 DEF EndMark
  <2> QED BY <2>1, <2>2 DEF ToSet
<1>8. Waits(table', mem, files, events') /\ ToSet(events') \subseteq ToSet(events) \union {k, EndMark}
  <2>1. CASE heard
    <3>1. events' = events \o <<k>> \o marks
      BY <2>1, <1>3
    <3>2. Waits(table', mem, files, events \o <<k>> \o marks)
          /\ ToSet(events \o <<k>> \o marks) \subseteq ToSet(events) \union {k, EndMark}
      <4> DEFINE U == table'
      <4>1. /\ Waits(U, mem, files, events) /\ k \in Int /\ Unplaced(U, mem, files, k)
            /\ k \notin ToSet(events) /\ marks \in {<<>>, <<EndMark>>}
        BY <1>4, <1>5, <1>6, <1>7
      <4> HIDE DEF U
      <4>2. Waits(U, mem, files, events \o <<k>> \o marks)
            /\ ToSet(events \o <<k>> \o marks) \subseteq ToSet(events) \union {k, EndMark}
        BY <4>1, WaitsMore, Zenon
      <4> QED BY <4>2 DEF U
    <3> QED BY <3>1, <3>2
  <2>2. CASE ~heard
    BY <2>2, <1>3, <1>6
  <2> QED BY <2>1, <2>2
<1>9. Listed(table', agent')
  BY <1>2, <1>3, <1>4, <1>5, ListedMore
<1>10. mishaps \subseteq mishaps' /\ mishaps' \subseteq mishaps \union {"unheard"}
  BY <1>3
<1>11. Control'
  <2>1. mishaps' \subseteq Mishap
    BY <1>2, <1>10 DEF Control, Mishap
  <2> QED BY <2>1, <1>2, <1>3 DEF Control
<1>12. turn' = "called" => CallMade(table')
  <2>1. k \in DOMAIN table' /\ table'[k].kind = kind
    BY <1>1, <1>5
  <2> QED BY <2>1 DEF CallMade
<1>13. FileInv'
  <2>1. CASE "torn" \in mishaps
    BY <2>1, <1>10 DEF FileInv
  <2>2. CASE FileOf(table, mem, files)
    <3>1. FileOf(table', mem, files)
      BY <2>2, <1>2, <1>5, FileOfLater
    <3> QED BY <3>1, <1>3 DEF FileInv
  <2> QED BY <2>1, <2>2 DEF SInv, FileInv
<1>14. HomeInv'
  <2>1. CASE mishaps \intersect {"lagging", "astray"} # {}
    BY <2>1, <1>10 DEF HomeInv
  <2>2. CASE HomeOf(table, mem, files, origin, events)
    <3>1. HomeOf(table', mem, files, origin, events)
      BY <2>2, <1>2, <1>5, HomeOfLater
    <3>2. table'[k].home \in origin[mem.file]
      BY <1>1, <1>2, <1>5 DEF Core, Owned
    <3>3. \A e \in ToSet(events') \ {EndMark} : table'[e].home \in origin[mem.file]
      BY <3>1, <3>2, <1>8 DEF HomeOf
    <3>4. HomeOf(table', mem, files, origin, events')
      BY <3>1, <3>3 DEF HomeOf
    <3> QED BY <3>4, <1>3 DEF HomeInv
  <2> QED BY <2>1, <2>2 DEF SInv, HomeInv
<1>15. Core(table', mem', files', origin') /\ Waits(table', mem', files', events')
  BY <1>3, <1>5, <1>8
<1> QED BY <1>9, <1>11, <1>12, <1>13, <1>14, <1>15 DEF SInv

LEMMA PromptKeeps ==
  ASSUME SInv, Prompt
  PROVE  SInv'
<1>1. /\ Room(1) /\ table' = Append(table, Made("user", 0, {})) /\ turn' = "asked" /\ Emit(Next1, <<>>)
      /\ used' \in 0..MaxIncidents
  BY InvTypes DEF Prompt, Control
<1>2. "user" \in Kinds
  BY DEF Kinds, Shown, Messages
<1> QED BY <1>1, <1>2, EmitKeeps

LEMMA RespondKeeps ==
  ASSUME SInv, Respond
  PROVE  SInv'
<1>1. PICK kind \in Replies :
        /\ table' = Append(table, Made(kind, 0, {})) /\ (used' = used \/ Incident)
        /\ turn' = IF kind = "call" THEN "called" ELSE "idle"
        /\ Emit(Next1, IF kind = "call" THEN <<>> ELSE <<EndMark>>)
  BY DEF Respond
<1>2. kind \in Kinds /\ Room(1)
  BY DEF Respond, Kinds, Shown, Messages
<1> DEFINE marks == IF kind = "call" THEN <<>> ELSE <<EndMark>>
<1>3. marks \in {<<>>, <<EndMark>>} /\ Emit(Next1, marks)
  BY <1>1
<1>4. turn' \in {"idle", "asked", "called"} /\ (turn' = "called" => kind = "call")
  BY <1>1
<1>5. used' \in 0..MaxIncidents
  BY <1>1, InvTypes, IncidentCounts DEF Control
<1> HIDE DEF marks
<1> QED BY <1>1, <1>2, <1>3, <1>4, <1>5, EmitKeeps

LEMMA ToolEndsKeeps ==
  ASSUME SInv, ToolEnds
  PROVE  SInv'
<1> DEFINE calls == {i \in DOMAIN table : table[i].kind = "call"}
<1>1. /\ Room(1) /\ table' = Append(table, Made("result", Max(calls), {}))
      /\ turn = "called" /\ turn' = "asked" /\ Emit(Next1, <<>>)
      /\ used' \in 0..MaxIncidents
  BY InvTypes DEF ToolEnds, Control
<1>2. "result" \in Kinds
  BY DEF Kinds, Shown, Messages
<1>3. Max(calls) \in Nat
  <2>1. CallMade(table)
    BY <1>1 DEF SInv
  <2>2. DOMAIN table = 1..Len(table) /\ Len(table) \in Nat
    BY InvTypes
  <2> DEFINE n == Len(table)
  <2>3. calls # {} /\ calls \subseteq 0..n /\ n \in Nat
    BY <2>1, <2>2 DEF CallMade
  <2> HIDE DEF calls, n
  <2>4. Max(calls) \in calls
    BY <2>3, GreatestOfSet
  <2>5. 0..n \subseteq Nat
    BY <2>3
  <2> QED BY <2>3, <2>4, <2>5, Zenon
<1> HIDE DEF calls
<1> QED BY <1>1, <1>2, <1>3, EmitKeeps

-------------------------------------------------------------------------------
(* The steps that move to another place or append to the session *)

\* The session M, with the messages E that wait for it, is one that the invariant allows.
Fits(T, M, E) ==
  /\ Core(T, M, files, origin) /\ Waits(T, M, files, E)
  /\ "torn" \in mishaps \/ FileOf(T, M, files)

Stores(T, M, i, E, out) ==
  /\ Fits(T, M, E) /\ Unplaced(T, M, files, i) /\ i \notin ToSet(E)
  /\ out \in Writes(ToWrite(T, M, i)) /\ Store(T, M, i, out)

\* An entry that is made and stored at once.
StoresNew(M, E, x, T, out) ==
  /\ Fits(table, M, E) /\ Enters(table, x, T)
  /\ out \in Writes(ToWrite(T, M, Next1)) /\ Store(T, M, Next1, out)

LEMMA FitsNow == SInv => Fits(table, mem, events)
BY DEF SInv, Fits, FileInv

\* What a step that moves only has to keep.
LEMMA MoveKeeps ==
  ASSUME NEW M, NEW E, Fits(table, M, E), UNCHANGED <<table, files, origin>>, mem' = M, events' = E,
         mishaps \subseteq mishaps',
         mishaps' \intersect {"lagging", "astray"} # {} \/ HomeOf(table, M, files, origin, E),
         Listed(table, agent'), Control', turn' = "called" => CallMade(table)
  PROVE  SInv'
<1>1. Core(table', mem', files', origin') /\ Waits(table', mem', files', events')
  BY DEF Fits
<1>2. FileInv'
  BY DEF Fits, FileInv
<1>3. HomeInv'
  BY DEF HomeInv
<1>4. Listed(table', agent') /\ (turn' = "called" => CallMade(table'))
  OBVIOUS
<1> QED BY <1>1, <1>2, <1>3, <1>4 DEF SInv

LEMMA CallMadeLater ==
  ASSUME NEW T, NEW U, SameEntries(T, U), DOMAIN T \subseteq DOMAIN U, CallMade(T)
  PROVE  CallMade(U)
BY DEF SameEntries, CallMade

\* What a step that stores an entry has to keep.
LEMMA StoreFacts ==
  ASSUME NEW T, NEW M, NEW i, NEW E, NEW out, Stores(T, M, i, E, out)
  PROVE  /\ Core(table', mem', files', origin) /\ Waits(table', mem', files', E)
         /\ DOMAIN table' = DOMAIN T /\ SameEntries(T, table')
         /\ out.ok \in BOOLEAN
         /\ \A f \in File : Valid(files[f]) => Valid(files'[f])
         /\ out.ok /\ FileOf(T, M, files) => FileOf(table', mem', files')
         /\ HomeOf(T, M, files, origin, E) /\ T[i].home \in origin[M.file]
              => HomeOf(table', mem', files', origin, E)
<1>1. /\ Core(T, M, files, origin) /\ Waits(T, M, files, E) /\ Unplaced(T, M, files, i)
      /\ i \notin ToSet(E) /\ out \in Writes(ToWrite(T, M, i)) /\ Store(T, M, i, out)
  BY DEF Stores, Fits
<1>2. /\ Core(table', mem', files', origin)
      /\ DOMAIN table' = DOMAIN T /\ SameEntries(T, table')
      /\ out.ok \in BOOLEAN
      /\ \A f \in File : Valid(files[f]) => Valid(files'[f])
      /\ out.ok /\ FileOf(T, M, files) => FileOf(table', mem', files')
  BY <1>1, StoreStep
<1>3. Waits(table', mem', files', E)
  BY <1>1, StoreWaits
<1>4. HomeOf(T, M, files, origin, E) /\ T[i].home \in origin[M.file]
        => HomeOf(table', mem', files', origin, E)
  BY <1>1, StoreHome
<1> QED BY <1>2, <1>3, <1>4

LEMMA StoreKeeps ==
  ASSUME NEW T, NEW M, NEW i, NEW E, NEW out, Stores(T, M, i, E, out),
         origin' = origin, events' = E,
         mishaps \subseteq mishaps', out.ok \/ "torn" \in mishaps',
         \/ mishaps' \intersect {"lagging", "astray"} # {}
         \/ HomeOf(T, M, files, origin, E) /\ T[i].home \in origin[M.file],
         Listed(table', agent'), Control', turn' = "called" => CallMade(T)
  PROVE  SInv'
<1>1. /\ Core(table', mem', files', origin) /\ Waits(table', mem', files', E)
      /\ DOMAIN table' = DOMAIN T /\ SameEntries(T, table')
      /\ out.ok /\ FileOf(T, M, files) => FileOf(table', mem', files')
      /\ HomeOf(T, M, files, origin, E) /\ T[i].home \in origin[M.file]
           => HomeOf(table', mem', files', origin, E)
  BY StoreFacts
<1>2. Core(table', mem', files', origin') /\ Waits(table', mem', files', events')
  BY <1>1
<1>3. "torn" \in mishaps \/ FileOf(T, M, files)
  BY DEF Stores, Fits
<1>4. FileInv'
  BY <1>1, <1>3 DEF FileInv
<1>5. HomeInv'
  BY <1>1 DEF HomeInv
<1>6. turn' = "called" => CallMade(table')
  BY <1>1, CallMadeLater
<1> QED BY <1>2, <1>4, <1>5, <1>6 DEF SInv

\* The number of a new entry, which is nowhere yet.
LEMMA NewStores ==
  ASSUME NEW M, NEW E, Fits(table, M, E), NEW x, NEW T, Enters(table, x, T)
  PROVE  /\ Fits(T, M, E) /\ Unplaced(T, M, files, Next1) /\ Next1 \notin ToSet(E)
         /\ T[Next1] = x /\ SameEntries(table, T)
         /\ DOMAIN T = DOMAIN table \union {Next1} /\ Next1 \in Nat
         /\ HomeOf(table, M, files, origin, E) => HomeOf(T, M, files, origin, E)
<1> DEFINE k == Len(table) + 1
<1>1. Core(table, M, files, origin) /\ Waits(table, M, files, E)
  BY DEF Fits
<1>2. Len(table) \in Nat /\ Next1 = k /\ k \in Nat /\ k # EndMark
  <2>1. Len(table) \in Nat
    BY <1>1, CoreTypes
  <2> QED BY <2>1 DEF Next1, EndMark
<1>3. Core(T, M, files, origin) /\ SameEntries(table, T)
  BY <1>1, NewEntry
<1>4. Unplaced(T, M, files, k)
  BY <1>1, NewEntry
<1>5. T[k] = x
  BY <1>1, NewEntry
<1>6. DOMAIN T = DOMAIN table \union {k}
  BY <1>1, NewEntry
<1>7. \A e : Unplaced(table, M, files, e) => Unplaced(T, M, files, e) /\ e # k
  BY <1>1, NewEntry
<1>8. Waits(T, M, files, E)
  BY <1>1, <1>7, WaitsLater
<1>9. k \notin ToSet(E)
  <2>1. \A n \in DOMAIN E : E[n] # EndMark => E[n] # k
    BY <1>1, <1>7 DEF Waits
  <2> QED BY <2>1, <1>2 DEF ToSet
<1>10. "torn" \in mishaps \/ FileOf(T, M, files)
  BY <1>1, <1>3, FileOfLater DEF Fits
<1>11. HomeOf(table, M, files, origin, E) => HomeOf(T, M, files, origin, E)
  BY <1>1, <1>3, HomeOfLater
<1> HIDE DEF k
<1> QED BY <1>2, <1>3, <1>4, <1>5, <1>6, <1>8, <1>9, <1>10, <1>11 DEF Fits

\* A write that fails is one of the incidents, whose number is bounded.
LEMMA WritesUse ==
  ASSUME NEW lines, NEW out \in Writes(lines), ~out.ok
  PROVE  used # MaxIncidents
<1>1. SUFFICES ASSUME used = MaxIncidents PROVE FALSE
  OBVIOUS
<1>2. Writes(lines) = {[lines |-> lines, ok |-> TRUE]}
  BY <1>1 DEF Writes
<1>3. out = [lines |-> lines, ok |-> TRUE]
  BY <1>2
<1>4. out.ok = TRUE
  BY <1>3
<1> QED BY <1>4

LEMMA UsedCounts ==
  ASSUME used \in 0..MaxIncidents, NEW lines, NEW out \in Writes(lines), out.ok \in BOOLEAN,
         used' = used + (IF out.ok THEN 0 ELSE 1)
  PROVE  used' \in 0..MaxIncidents
<1>1. CASE out.ok
  <2>1. used' = used + 0
    BY <1>1
  <2> QED BY <2>1, SessionAssumption
<1>2. CASE ~out.ok
  <2>1. used # MaxIncidents
    BY <1>2, WritesUse
  <2>2. used' = used + 1
    BY <1>2
  <2> QED BY <2>1, <2>2, SessionAssumption
<1> QED BY <1>1, <1>2

LEMMA CommandOkLater ==
  ASSUME NEW c, NEW F, NEW G, CommandOk(c, F), \A f \in File : Valid(F[f]) => Valid(G[f])
  PROVE  CommandOk(c, G)
BY DEF CommandOk

LEMMA ListedLater ==
  ASSUME NEW T, NEW U, NEW A, Listed(T, A), DOMAIN T \subseteq DOMAIN U
  PROVE  Listed(U, A)
BY DEF Listed

\* The context of a session is a list of entries.
LEMMA ContextListed ==
  ASSUME NEW T, NEW M, NEW F, NEW O, Core(T, M, F, O)
  PROVE  Listed(T, Context(T, M.ids, M.leaf))
<1>1. GoodTable(T)
  BY DEF Core
<1>2. GoodIds(T, M.ids) /\ M.leaf \in Members(M.ids) \union {Header}
  BY CoreTypes
<1> QED BY <1>1, <1>2, ContextFrom DEF Listed

LEMMA MessageEndKeeps ==
  ASSUME SInv, MessageEnd
  PROVE  SInv'
<1> DEFINE i == Head(events)
           E == Tail(events)
<1>1. /\ events # <<>> /\ i # EndMark /\ events' = E
      /\ UNCHANGED <<agent, turn, heard, command, job, origin>>
  BY DEF MessageEnd, Unblocked
<1>2. PICK out \in Writes(ToWrite(table, mem, i)) :
        /\ Store(table, mem, i, out)
        /\ used' = used + (IF out.ok THEN 0 ELSE 1)
        /\ Blames(Torn1(out))
  BY DEF MessageEnd
<1>3. /\ Core(table, mem, files, origin) /\ Waits(table, mem, files, events)
      /\ Listed(table, agent) /\ Control
  BY InvTypes
<1>4. /\ Waits(table, mem, files, E) /\ ToSet(E) \subseteq ToSet(events)
      /\ i \in ToSet(events) /\ Unplaced(table, mem, files, i) /\ i \notin ToSet(E)
  BY <1>1, <1>3, TailWaits
<1> HIDE DEF i, E
<1>5. Fits(table, mem, E)
  BY <1>3, <1>4, FitsNow DEF Fits
<1>6. Stores(table, mem, i, E, out)
  BY <1>2, <1>4, <1>5 DEF Stores
<1>7. /\ DOMAIN table' = DOMAIN table /\ out.ok \in BOOLEAN
      /\ \A f \in File : Valid(files[f]) => Valid(files'[f])
  BY <1>6, StoreFacts
<1>8. /\ mishaps \subseteq mishaps' /\ mishaps' \subseteq mishaps \union {"torn"}
      /\ out.ok \/ "torn" \in mishaps'
  BY <1>2 DEF Blames, Torn1
<1>9. \/ mishaps' \intersect {"lagging", "astray"} # {}
      \/ HomeOf(table, mem, files, origin, E) /\ table[i].home \in origin[mem.file]
  <2>1. CASE mishaps \intersect {"lagging", "astray"} # {}
    BY <2>1, <1>8
  <2>2. CASE HomeOf(table, mem, files, origin, events)
    BY <2>2, <1>1, <1>4 DEF HomeOf
  <2> QED BY <2>1, <2>2 DEF SInv, HomeInv
<1>10. Listed(table', agent')
  BY <1>1, <1>3, <1>7, ListedLater
<1>11. Control'
  <2>1. used' \in 0..MaxIncidents
    BY <1>2, <1>3, <1>7, UsedCounts DEF Control
  <2>2. mishaps' \subseteq Mishap
    BY <1>3, <1>8 DEF Control, Mishap
  <2>3. CommandOk(command, files')
    BY <1>3, <1>7, CommandOkLater DEF Control
  <2> QED BY <2>1, <2>2, <2>3, <1>1, <1>3 DEF Control
<1>12. turn' = "called" => CallMade(table)
  BY <1>1 DEF SInv
<1> QED BY <1>1, <1>6, <1>8, <1>9, <1>10, <1>11, <1>12, StoreKeeps

\* An entry that is made and stored at once in the session M, which may be another place of
\* the session that is open.
LEMMA NewStoreKeeps ==
  ASSUME SInv, NEW M, Fits(table, M, events),
         HomeOf(table, mem, files, origin, events) => HomeOf(table, M, files, origin, events),
         NEW x, NEW T, Enters(table, x, T), x.home \in origin[M.file] \/ "astray" \in mishaps',
         NEW out \in Writes(ToWrite(T, M, Next1)), Store(T, M, Next1, out),
         UNCHANGED <<events, turn, command, origin>>,
         mishaps \subseteq mishaps', mishaps' \subseteq Mishap, out.ok \/ "torn" \in mishaps',
         used' \in 0..MaxIncidents, heard' \in BOOLEAN, JobOk(job'),
         \/ agent' = agent \/ Listed(table, agent')
         \/ agent' = Append(agent, Next1)
         \/ agent' \in {Context(table', mem'.ids, mem'.leaf), WithoutError(table', Context(table', mem'.ids, mem'.leaf))}
  PROVE  SInv'
<1>1. /\ Fits(T, M, events) /\ Unplaced(T, M, files, Next1) /\ Next1 \notin ToSet(events)
      /\ T[Next1] = x /\ SameEntries(table, T)
      /\ DOMAIN T = DOMAIN table \union {Next1} /\ Next1 \in Nat
      /\ HomeOf(table, M, files, origin, events) => HomeOf(T, M, files, origin, events)
  BY NewStores
<1>2. Stores(T, M, Next1, events, out)
  BY <1>1 DEF Stores
<1>3. /\ Core(table', mem', files', origin) /\ DOMAIN table' = DOMAIN T /\ out.ok \in BOOLEAN
      /\ \A f \in File : Valid(files[f]) => Valid(files'[f])
  BY <1>2, StoreFacts
<1>4. Listed(table, agent) /\ Control
  BY InvTypes
<1>5. Listed(table', agent')
  <2>1. CASE agent' = agent \/ Listed(table, agent')
    <3>1. Listed(table, agent')
      BY <2>1, <1>4
    <3> QED BY <3>1, <1>1, <1>3, ListedLater
  <2>2. CASE agent' = Append(agent, Next1)
    <3>1. DOMAIN table \subseteq DOMAIN table' /\ Next1 \in DOMAIN table' /\ Next1 \in Int
      BY <1>1, <1>3
    <3> QED BY <3>1, <2>2, <1>4, ListedMore
  <2> DEFINE C == Context(table', mem'.ids, mem'.leaf)
  <2>3. CASE agent' \in {C, WithoutError(table', C)}
    <3>1. Listed(table', C)
      BY <1>3, ContextListed
    <3> QED BY <3>1, <2>3, ListedFront DEF WithoutError
  <2> QED BY <2>1, <2>2, <2>3
<1>6. Control'
  <2>1. CommandOk(command, files')
    BY <1>3, <1>4, CommandOkLater DEF Control
  <2> QED BY <2>1, <1>4 DEF Control
<1>7. turn' = "called" => CallMade(T)
  <2>1. turn = "called" => CallMade(table)
    BY DEF SInv
  <2> QED BY <2>1, <1>1, CallMadeLater
<1>8. \/ mishaps' \intersect {"lagging", "astray"} # {}
      \/ HomeOf(T, M, files, origin, events) /\ T[Next1].home \in origin[M.file]
  BY <1>1 DEF SInv, HomeInv
<1> QED BY <1>2, <1>5, <1>6, <1>7, <1>8, StoreKeeps

LEMMA OwnOrigin ==
  ASSUME SInv
  PROVE  mem.file \in origin[mem.file] /\ \A f \in File : files[f] # <<>> => f \in origin[f]
BY InvTypes DEF Core, Owned

LEMMA CompactedKeeps ==
  ASSUME SInv, Compacted
  PROVE  SInv'
<1> DEFINE x == [Made("compaction", job.kept, job.covers) EXCEPT !.home = job.file]
           T == Append(table, x)
           blame(out) == Torn1(out)
                    \union {y \in {"lagging"} : out.ok /\ Waiting}
                    \union {y \in {"midturn"} : turn # "idle"}
                    \union {y \in {"astray"} : Astray}
                    \union {y \in {"recompacted"} : PassesOver}
<1>1. /\ Room(1) /\ job' = NoJob /\ heard' = (heard \/ job.what = "manual")
      /\ UNCHANGED <<events, turn, command, origin>>
  BY DEF Compacted
<1>2. PICK out \in Writes(ToWrite(T, mem, Next1)) :
        /\ Store(T, mem, Next1, out)
        /\ agent' = IF ~out.ok THEN agent
                    ELSE IF job.again THEN WithoutError(table', Context(table', mem'.ids, mem'.leaf))
                    ELSE Context(table', mem'.ids, mem'.leaf)
        /\ used' = used + (IF out.ok THEN 0 ELSE 1)
        /\ Blames(blame(out))
  BY DEF Compacted
<1>3. Control /\ mem.file \in Nat /\ Len(table) \in Nat
  BY InvTypes
<1>4. x \in Entry /\ x.parent = Header /\ x.home = job.file
  <2>1. "compaction" \in Kinds /\ job.kept \in Nat /\ job.covers \in SUBSET Nat /\ job.file \in Nat
    BY <1>3 DEF Control, JobOk, Kinds
  <2> DEFINE y == Made("compaction", job.kept, job.covers)
  <2>2. y \in Entry /\ y.parent = Header
    BY <2>1, <1>3, MadeGood
  <2> HIDE DEF y
  <2>3. x = [y EXCEPT !.home = job.file]
    BY DEF y
  <2> QED BY <2>1, <2>2, <2>3 DEF Entry
<1> HIDE DEF x
<1>5. Enters(table, x, T)
  BY <1>1, <1>3, <1>4 DEF Enters, Room
<1> HIDE DEF T
<1>6. /\ mishaps \subseteq mishaps'
      /\ out.ok \/ "torn" \in mishaps'
      /\ job.file # mem.file => "astray" \in mishaps'
  BY <1>2 DEF Blames, Torn1, Astray
<1>7. mishaps' \subseteq Mishap
  <2>1. blame(out) \subseteq Mishap
    BY DEF Mishap, Torn1
  <2> HIDE DEF blame
  <2> QED BY <2>1, <1>2, <1>3 DEF Blames, Control
<1>8. x.home \in origin[mem.file] \/ "astray" \in mishaps'
  BY <1>4, <1>6, OwnOrigin
<1>9. out.ok \in BOOLEAN
  <2>1. /\ Fits(T, mem, events) /\ Unplaced(T, mem, files, Next1) /\ Next1 \notin ToSet(events)
    BY <1>5, FitsNow, NewStores
  <2>2. Stores(T, mem, Next1, events, out)
    BY <2>1, <1>2 DEF Stores
  <2> QED BY <2>2, StoreFacts
<1>10. used' \in 0..MaxIncidents
  BY <1>2, <1>3, <1>9, UsedCounts DEF Control
<1>11. \/ agent' = agent
       \/ agent' \in {Context(table', mem'.ids, mem'.leaf), WithoutError(table', Context(table', mem'.ids, mem'.leaf))}
  BY <1>2
<1>12. heard' \in BOOLEAN
  BY <1>1
<1>13. JobOk(job')
  BY <1>1, NoJobOk
<1> HIDE DEF blame
<1>14. Fits(table, mem, events) /\ Store(T, mem, Next1, out)
  BY <1>2, FitsNow
<1> QED BY <1>1, <1>2, <1>5, <1>6, <1>7, <1>8, <1>10, <1>11, <1>12, <1>13, <1>14, NewStoreKeeps

\* An entry that goes to the session that is open as soon as it is made.
Adds(kind, x, T, out) ==
  /\ x.kind = kind /\ x.home \in origin[mem.file]
  /\ StoresNew(mem, events, x, T, out) /\ out.ok \in BOOLEAN

LEMMA AddsMade ==
  ASSUME SInv, Room(1), NEW kind \in Kinds, NEW ref \in Nat, NEW x, x = Made(kind, ref, {}),
         NEW T, T = Append(table, x),
         NEW out, out \in Writes(ToWrite(T, mem, Next1)), Store(T, mem, Next1, out)
  PROVE  Adds(kind, x, T, out)
<1>1. x \in Entry /\ x.parent = Header /\ x.kind = kind /\ x.home = mem.file
  BY MadeGood, InvTypes
<1>2. Enters(table, x, T) /\ Fits(table, mem, events)
  BY <1>1, InvTypes, FitsNow DEF Enters, Room
<1>3. Unplaced(T, mem, files, Next1) /\ Next1 \notin ToSet(events) /\ Fits(T, mem, events)
  BY <1>2, NewStores
<1>4. Stores(T, mem, Next1, events, out)
  BY <1>3 DEF Stores
<1>5. out.ok \in BOOLEAN
  BY <1>4, StoreFacts
<1> QED BY <1>1, <1>2, <1>5, OwnOrigin DEF Adds, StoresNew

LEMMA AddsKeeps ==
  ASSUME SInv, NEW kind, NEW x, NEW T, NEW out, Adds(kind, x, T, out),
         UNCHANGED <<events, turn, heard, command, job, origin>>,
         mishaps \subseteq mishaps', mishaps' \subseteq Mishap, out.ok \/ "torn" \in mishaps',
         used' \in 0..MaxIncidents,
         agent' = agent \/ Listed(table, agent') \/ agent' = Append(agent, Next1)
  PROVE  SInv'
<1>1. Fits(table, mem, events) /\ Enters(table, x, T) /\ x.home \in origin[mem.file]
  BY DEF Adds, StoresNew
<1>2. out \in Writes(ToWrite(T, mem, Next1)) /\ Store(T, mem, Next1, out)
  BY DEF Adds, StoresNew
<1>3. heard' \in BOOLEAN /\ JobOk(job')
  BY InvTypes DEF Control
<1> QED BY <1>1, <1>2, <1>3, NewStoreKeeps

\* Another model is an entry like any other.
FallenBack(x, T, out) ==
  /\ Adds("setting", x, T, out) /\ UNCHANGED job
  /\ used' = used + (IF out.ok THEN 0 ELSE 1)
  /\ IF out.ok THEN TakesOff ELSE Blames({"torn"}) /\ UNCHANGED agent

LEMMA FallsBackIs ==
  ASSUME SInv, FallsBack
  PROVE  /\ UNCHANGED <<events, turn, heard, command, origin>>
         /\ \/ UNCHANGED <<table, files, mem>> /\ \E reply : Checks(reply, "auto")
            \/ UNCHANGED <<table, files, mem, job, used>> /\ TakesOff
            \/ \E x, T, out : FallenBack(x, T, out)
<1>1. UNCHANGED <<events, turn, heard, command, origin>>
  BY DEF FallsBack
<1>2. CASE UNCHANGED <<table, files, mem>> /\ ChecksSize(last, "auto")
  BY <1>1, <1>2, ChecksSizeChecks
<1>3. CASE Room(1)
           /\ LET T == Append(table, Made("setting", 0, {}))
              IN \E out \in Writes(ToWrite(T, mem, Next1)) :
                   /\ Store(T, mem, Next1, out)
                   /\ used' = used + (IF out.ok THEN 0 ELSE 1)
                   /\ IF out.ok THEN retry' = "asleep" /\ TakesOff
                      ELSE retry' = "none" /\ Blames({"torn"}) /\ UNCHANGED agent
           /\ UNCHANGED job
  <2> DEFINE x == Made("setting", 0, {})
             T == Append(table, x)
  <2>1. PICK out \in Writes(ToWrite(T, mem, Next1)) :
          /\ Store(T, mem, Next1, out)
          /\ used' = used + (IF out.ok THEN 0 ELSE 1)
          /\ IF out.ok THEN TakesOff ELSE Blames({"torn"}) /\ UNCHANGED agent
    BY <1>3
  <2>2. Adds("setting", x, T, out)
    <3>1. "setting" \in Kinds
      BY DEF Kinds
    <3> QED BY <3>1, <2>1, <1>3, AddsMade
  <2> HIDE DEF x, T
  <2>3. FallenBack(x, T, out)
    BY <2>1, <2>2, <1>3 DEF FallenBack
  <2> QED BY <1>1, <2>3
<1> QED BY <1>1, <1>2, <1>3 DEF FallsBack

LEMMA FallsBackKeeps ==
  ASSUME SInv, FallsBack
  PROVE  SInv'
<1>1. UNCHANGED <<events, turn, heard, command, origin>>
  BY FallsBackIs
<1>2. ASSUME NEW x, NEW T, NEW out, FallenBack(x, T, out) PROVE SInv'
  <2>1. Adds("setting", x, T, out) /\ job' = job /\ Control
    BY <1>2, InvTypes DEF FallenBack
  <2>2. used' \in 0..MaxIncidents
    BY <1>2, <2>1, UsedCounts DEF FallenBack, Adds, StoresNew, Control
  <2>3. /\ agent' = agent \/ Listed(table, agent')
        /\ mishaps \subseteq mishaps' /\ mishaps' \subseteq Mishap /\ (out.ok \/ "torn" \in mishaps')
    <3>1. CASE out.ok
      BY <3>1, <1>2, <2>1, TakesOffKeeps DEF FallenBack, Control
    <3>2. CASE ~out.ok
      BY <3>2, <1>2, <2>1 DEF FallenBack, Blames, Control, Mishap
    <3> QED BY <2>1, <3>1, <3>2 DEF Adds
  <2> QED BY <1>1, <2>1, <2>2, <2>3, AddsKeeps
<1> QED BY <1>1, <1>2, FallsBackIs, ChecksStep

\* The leaf moves to another place of the same session.
LEMMA MovedFits ==
  ASSUME SInv, NEW leaf, Here(leaf), NEW M, M = [mem EXCEPT !.leaf = leaf]
  PROVE  /\ Fits(table, M, events)
         /\ HomeOf(table, mem, files, origin, events) => HomeOf(table, M, files, origin, events)
         /\ M.file = mem.file /\ M.ids = mem.ids /\ M.leaf = leaf
<1>1. mem \in [file : File, ids : Seq(Nat), leaf : Nat, flushed : BOOLEAN]
  BY InvTypes DEF GoodMem
<1>2. leaf \in Nat
  <2>1. Members(mem.ids) \subseteq Nat \ {0}
    BY InvTypes
  <2> QED BY <2>1 DEF Here, Header
<1>3. /\ M.file = mem.file /\ M.ids = mem.ids /\ M.flushed = mem.flushed /\ M.leaf = leaf
      /\ M \in [file : File, ids : Seq(Nat), leaf : Nat, flushed : BOOLEAN]
  BY <1>1, <1>2
<1>4. GoodMem(table, M)
  <2>1. GoodMem(table, mem)
    BY InvTypes
  <2>2. leaf \in Members(mem.ids) \union {Header}
    BY DEF Here
  <2> QED BY <2>1, <2>2, <1>3 DEF GoodMem
<1>5. Core(table, M, files, origin)
  <2>1. Core(table, mem, files, origin)
    BY InvTypes
  <2>2. Owned(M, files, origin)
    BY <2>1, <1>3 DEF Core, Owned
  <2> QED BY <2>1, <2>2, <1>4 DEF Core
<1>6. Waits(table, M, files, events)
  <2>1. Waits(table, mem, files, events)
    BY InvTypes
  <2> QED BY <2>1, <1>3 DEF Waits, Unplaced
<1>7. FileOf(table, mem, files) => FileOf(table, M, files)
  BY <1>3 DEF FileOf
<1>8. HomeOf(table, mem, files, origin, events) => HomeOf(table, M, files, origin, events)
  BY <1>3 DEF HomeOf
<1> QED BY <1>3, <1>5, <1>6, <1>7, <1>8, FitsNow DEF Fits

LEMMA NavigateKeeps ==
  ASSUME SInv, Navigate
  PROVE  SInv'
<1>1. /\ Incident /\ UNCHANGED <<table, files, events, turn, heard, command, job, origin>>
      /\ Blames(Disturbs)
  BY DEF Navigate
<1>2. PICK i \in Members(mem.ids) \ {mem.leaf} :
        Here(Target(i)) /\ MoveTo([mem EXCEPT !.leaf = Target(i)], table)
  BY DEF Navigate
<1> DEFINE leaf == Target(i)
           M == [mem EXCEPT !.leaf = leaf]
<1> HIDE DEF leaf
<1>3. Here(leaf) /\ mem' = M /\ agent' = Context(table, M.ids, M.leaf)
  BY <1>2 DEF MoveTo, leaf
<1>4. /\ Fits(table, M, events)
      /\ HomeOf(table, mem, files, origin, events) => HomeOf(table, M, files, origin, events)
  BY <1>3, MovedFits
<1> HIDE DEF M
<1>5. mishaps \subseteq mishaps' /\ mishaps' \subseteq Mishap
  BY <1>1, InvTypes DEF Control, Blames, Disturbs, Mishap
<1>6. mishaps' \intersect {"lagging", "astray"} # {} \/ HomeOf(table, M, files, origin, events)
  BY <1>4, <1>5 DEF SInv, HomeInv
<1>7. Listed(table, agent')
  BY <1>3, <1>4, ContextListed DEF Fits
<1>8. Control'
  <2>1. Control
    BY InvTypes
  <2>2. used' \in 0..MaxIncidents
    BY <2>1, <1>1, IncidentCounts DEF Control
  <2> QED BY <2>1, <2>2, <1>1, <1>5 DEF Control
<1>9. turn' = "called" => CallMade(table)
  BY <1>1 DEF SInv
<1> QED BY <1>1, <1>3, <1>4, <1>5, <1>6, <1>7, <1>8, <1>9, MoveKeeps

LEMMA NavigatedKeeps ==
  ASSUME SInv, Navigated
  PROVE  SInv'
<1>1. job' = NoJob /\ UNCHANGED <<events, turn, heard, command, origin>>
  BY DEF Navigated
<1>2. Control /\ Listed(table, agent)
  BY InvTypes
<1>3. CASE UNCHANGED <<table, files, mem, agent, used, mishaps>>
  <2>1. Control'
    BY <1>1, <1>2, <1>3, NoJobOk DEF Control
  <2> QED BY <2>1, <1>1, <1>2, <1>3, StillKeeps
<1>4. CASE Here(job.leaf) /\ Room(1)
           /\ LET T == Append(table, Made("branch_summary", 0, job.covers))
                  M == [mem EXCEPT !.leaf = job.leaf]
              IN \E out \in Writes(ToWrite(T, M, Next1)) :
                   /\ Store(T, M, Next1, out)
                   /\ agent' = IF out.ok THEN Context(table', mem'.ids, mem'.leaf) ELSE agent
                   /\ used' = used + (IF out.ok THEN 0 ELSE 1)
                   /\ Blames(Torn1(out) \union Disturbs
                             \union {x \in {"astray"} : job.file # mem.file})
  <2> DEFINE x == Made("branch_summary", 0, job.covers)
             T == Append(table, x)
             M == [mem EXCEPT !.leaf = job.leaf]
             blame(out) == Torn1(out) \union Disturbs \union {y \in {"astray"} : job.file # mem.file}
  <2>1. PICK out \in Writes(ToWrite(T, M, Next1)) :
          /\ Store(T, M, Next1, out)
          /\ agent' = IF out.ok THEN Context(table', mem'.ids, mem'.leaf) ELSE agent
          /\ used' = used + (IF out.ok THEN 0 ELSE 1)
          /\ Blames(blame(out))
    BY <1>4
  <2>2. /\ Fits(table, M, events) /\ M.file = mem.file
        /\ HomeOf(table, mem, files, origin, events) => HomeOf(table, M, files, origin, events)
    BY <1>4, MovedFits
  <2>3. x \in Entry /\ x.parent = Header /\ x.home = mem.file
    <3>1. "branch_summary" \in Kinds /\ job.covers \in SUBSET Nat /\ mem.file \in Nat
      BY <1>2, InvTypes DEF Control, JobOk, Kinds, Shown
    <3> QED BY <3>1, MadeGood
  <2> HIDE DEF x, M
  <2>4. Enters(table, x, T)
    BY <1>4, <2>3, InvTypes DEF Enters, Room
  <2> HIDE DEF T
  <2>5. /\ mishaps \subseteq mishaps'
        /\ out.ok \/ "torn" \in mishaps'
    BY <2>1 DEF Blames, Torn1
  <2>6. mishaps' \subseteq Mishap
    <3>1. blame(out) \subseteq Mishap
      BY DEF Mishap, Torn1, Disturbs
    <3> HIDE DEF blame
    <3> QED BY <3>1, <2>1, <1>2 DEF Blames, Control
  <2>7. x.home \in origin[M.file]
    BY <2>2, <2>3, OwnOrigin
  <2>8. out.ok \in BOOLEAN
    <3>1. /\ Fits(T, M, events) /\ Unplaced(T, M, files, Next1) /\ Next1 \notin ToSet(events)
      BY <2>2, <2>4, NewStores
    <3>2. Stores(T, M, Next1, events, out)
      BY <3>1, <2>1 DEF Stores
    <3> QED BY <3>2, StoreFacts
  <2>9. used' \in 0..MaxIncidents
    BY <2>1, <1>2, <2>8, UsedCounts DEF Control
  <2>10. agent' = agent \/ agent' = Context(table', mem'.ids, mem'.leaf)
    BY <2>1
  <2>11. heard' \in BOOLEAN /\ JobOk(job')
    BY <1>1, <1>2, NoJobOk DEF Control
  <2>12. Store(T, M, Next1, out)
    BY <2>1
  <2> HIDE DEF blame
  <2> QED BY <1>1, <2>1, <2>2, <2>4, <2>5, <2>6, <2>7, <2>9, <2>10, <2>11, <2>12, NewStoreKeeps
<1> QED BY <1>3, <1>4 DEF Navigated

LEMMA LabelIs ==
  ASSUME SInv, Label
  PROVE  /\ Incident /\ UNCHANGED <<agent, events, turn, heard, command, job, origin, mishaps>>
         /\ \E x, T, out : Adds("label", x, T, out) /\ out.ok
<1>1. /\ Incident /\ Room(1) /\ UNCHANGED <<agent, events, turn, heard, command, job, origin, mishaps>>
  BY DEF Label
<1>2. PICK i \in Members(mem.ids) :
        LET T == Append(table, Made("label", i, {}))
        IN \E out \in Writes(ToWrite(T, mem, Next1)) : out.ok /\ Store(T, mem, Next1, out)
  BY DEF Label
<1> DEFINE x == Made("label", i, {})
           T == Append(table, x)
<1>3. PICK out \in Writes(ToWrite(T, mem, Next1)) : out.ok /\ Store(T, mem, Next1, out)
  BY <1>2
<1>4. "label" \in Kinds /\ i \in Nat
  BY InvTypes DEF Kinds
<1>5. Adds("label", x, T, out)
  BY <1>1, <1>3, <1>4, AddsMade
<1> HIDE DEF x, T
<1> QED BY <1>1, <1>3, <1>5

LEMMA LabelKeeps ==
  ASSUME SInv, Label
  PROVE  SInv'
<1>1. used' \in 0..MaxIncidents /\ mishaps \subseteq Mishap
  BY LabelIs, InvTypes, IncidentCounts DEF Control
<1> QED BY <1>1, LabelIs, AddsKeeps

LEMMA BashIs ==
  ASSUME SInv, Bash
  PROVE  /\ Incident /\ turn = "idle" /\ agent' = Append(agent, Next1)
         /\ mishaps' = mishaps \union {y \in {"overtaken"} : Waiting}
         /\ UNCHANGED <<events, turn, heard, command, job, origin>>
         /\ \E x, T, out : Adds("bash", x, T, out) /\ out.ok
<1>1. /\ Incident /\ Room(1) /\ turn = "idle" /\ agent' = Append(agent, Next1)
      /\ mishaps' = mishaps \union {y \in {"overtaken"} : Waiting}
      /\ UNCHANGED <<events, turn, heard, command, job, origin>>
  BY DEF Bash, Blames
<1> DEFINE x == Made("bash", 0, {})
           T == Append(table, x)
<1>2. PICK out \in Writes(ToWrite(T, mem, Next1)) : out.ok /\ Store(T, mem, Next1, out)
  BY DEF Bash
<1>3. "bash" \in Kinds
  BY DEF Kinds, Shown, Messages
<1>4. Adds("bash", x, T, out)
  BY <1>1, <1>2, <1>3, AddsMade
<1> HIDE DEF x, T
<1> QED BY <1>1, <1>2, <1>4

LEMMA BashKeeps ==
  ASSUME SInv, Bash
  PROVE  SInv'
<1>1. used' \in 0..MaxIncidents /\ mishaps \subseteq mishaps' /\ mishaps' \subseteq Mishap
  BY BashIs, InvTypes, IncidentCounts DEF Control, Mishap
<1> QED BY <1>1, BashIs, AddsKeeps

-------------------------------------------------------------------------------
(* The steps that open another session *)

\* The session that a file is opened as.
OpenedMem(f) == [file |-> f, ids |-> Loaded(files[f]), leaf |-> Last(Loaded(files[f])), flushed |-> TRUE]

LEMMA OpenedFits ==
  ASSUME SInv, NEW f \in File, Valid(files[f]), NEW E, Waits(table, mem, files, E),
         NEW M, M = OpenedMem(f)
  PROVE  /\ Fits(table, M, E) /\ f \in origin[f] /\ M.file = f /\ M.ids = Loaded(files[f])
         /\ M.leaf = Last(Loaded(files[f]))
         /\ HomeOf(table, mem, files, origin, events) /\ ToSet(E) \subseteq {EndMark}
              => HomeOf(table, M, files, origin, E)
<1> DEFINE lines == files[f]
           ids == Loaded(lines)
<1>1. M.file = f /\ M.ids = ids /\ M.leaf = Last(ids) /\ M.flushed = TRUE
  BY DEF OpenedMem
<1>2. Core(table, mem, files, origin) /\ GoodTable(table) /\ Len(table) \in Nat
  BY InvTypes
<1>3. lines \in Seq(Torn..Len(table))
  BY <1>2, CoreTypes
<1>4. /\ GoodIds(table, ids) /\ Last(ids) \in Members(ids) \union {Header}
      /\ ToSet(ids) \subseteq ToSet(lines) \ {Torn}
      /\ (\A n \in DOMAIN lines : lines[n] # Torn) => ids = lines
  BY <1>2, <1>3, LoadedGood
<1>5. lines # <<>> /\ lines[1] = Header
  BY DEF Valid
<1>6. f \in origin[f]
  BY <1>5, OwnOrigin
<1>7. M = [file |-> f, ids |-> ids, leaf |-> Last(ids), flushed |-> TRUE]
  BY DEF OpenedMem
<1> HIDE DEF lines, ids
<1>8. GoodMem(table, M)
  <2>1. ids \in Seq(Nat)
    <3>1. ids \in Seq(0..Len(table))
      BY <1>4 DEF GoodIds
    <3> QED BY <3>1, <1>2
  <2>2. Last(ids) \in Nat
    <3>1. ids \in Seq(0..Len(table)) /\ table \in Seq(Entry)
      BY <1>2, <1>4 DEF GoodIds, GoodTable
    <3>2. Members(ids) \subseteq DOMAIN table /\ DOMAIN table \subseteq Nat \ {0}
      BY <3>1, MembersOf, NatRange
    <3> QED BY <3>2, <1>4 DEF Header
  <2>3. M \in [file : File, ids : Seq(Nat), leaf : Nat, flushed : BOOLEAN]
    BY <2>1, <2>2, <1>7
  <2> QED BY <2>3, <1>1, <1>4 DEF GoodMem
<1>9. Core(table, M, files, origin)
  <2>1. Owned(M, files, origin)
    BY <1>1, <1>2, <1>6 DEF Core, Owned
  <2> QED BY <2>1, <1>2, <1>8 DEF Core
<1>10. ASSUME NEW e, Unplaced(table, mem, files, e) PROVE Unplaced(table, M, files, e)
  <2>1. e \notin ToSet(lines)
    BY <1>10 DEF Unplaced, lines
  <2>2. e \notin Members(M.ids)
    BY <2>1, <1>1, <1>4 DEF Members
  <2> QED BY <2>2, <1>10 DEF Unplaced
<1>11. Waits(table, M, files, E)
  BY <1>10 DEF Waits
<1>12. ASSUME FileOf(table, mem, files) PROVE FileOf(table, M, files)
  <2>1. CleanFile(table, lines)
    BY <1>5, <1>12 DEF FileOf, lines
  <2>2. ids = lines /\ Answered(table, ids)
    BY <2>1, <1>4 DEF CleanFile
  <2>3. Answered(table, ids) \in BOOLEAN
    BY DEF Answered
  <2>4. M.flushed = Answered(table, M.ids)
    BY <2>2, <2>3, <1>1
  <2>5. files[M.file] = M.ids
    BY <2>2, <1>1 DEF lines
  <2> QED BY <2>2, <2>4, <2>5, <1>1, <1>12 DEF FileOf
<1>13. ASSUME HomeOf(table, mem, files, origin, events), ToSet(E) \subseteq {EndMark}
       PROVE  HomeOf(table, M, files, origin, E)
  <2>1. \A i \in ToSet(lines) \ {Header, Torn} : table[i].home \in origin[f]
    BY <1>13 DEF HomeOf, lines
  <2>2. \A i \in Members(M.ids) : table[i].home \in origin[M.file]
    BY <2>1, <1>1, <1>4 DEF Members
  <2> QED BY <2>2, <1>13 DEF HomeOf
<1>14. "torn" \in mishaps \/ FileOf(table, M, files)
  BY <1>12 DEF SInv, FileInv
<1> QED BY <1>1, <1>6, <1>9, <1>11, <1>13, <1>14 DEF Fits, ids, lines

LEMMA SettingGood ==
  ASSUME NEW f \in File
  PROVE  /\ [Setting EXCEPT !.home = f] \in Entry /\ [Setting EXCEPT !.home = f].parent = Header
         /\ [Setting EXCEPT !.home = f].home = f /\ [Setting EXCEPT !.home = f].kind = "setting"
BY SessionAssumption DEF Setting, Entry, Kinds, Header, File

LEMMA OpensKeeps ==
  ASSUME SInv, NEW f \in File, Valid(files[f]), NEW started, Opens(f, started),
         NEW E, events' = E, E = events \/ E = <<>>, origin' = origin,
         mishaps \subseteq mishaps',
         ToSet(E) \subseteq {EndMark} \/ "lagging" \in mishaps',
         turn' # "called",
         \* the rest of Control', but for the command
         turn' \in {"idle", "asked", "called"}, heard' \in BOOLEAN, used' \in 0..MaxIncidents,
         mishaps' \subseteq Mishap, JobOk(job'), command' = NoCommand
  PROVE  SInv'
<1> DEFINE M == OpenedMem(f)
           x == [Setting EXCEPT !.home = f]
           T == Append(table, x)
           restored == Context(table, Loaded(files[f]), Last(Loaded(files[f])))
<1>1. Waits(table, mem, files, E)
  <2>1. Waits(table, mem, files, events)
    BY InvTypes
  <2>2. Waits(table, mem, files, <<>>)
    BY DEF Waits
  <2> QED BY <2>1, <2>2
<1>2. /\ Fits(table, M, E) /\ f \in origin[f] /\ M.file = f /\ M.ids = Loaded(files[f])
      /\ M.leaf = Last(Loaded(files[f]))
      /\ HomeOf(table, mem, files, origin, events) /\ ToSet(E) \subseteq {EndMark}
           => HomeOf(table, M, files, origin, E)
  BY <1>1, OpenedFits
<1>3. /\ \/ mem' = M /\ UNCHANGED <<table, files>>
         \/ /\ Room(1)
            /\ \E out \in Writes(ToWrite(T, M, Next1)) : out.ok /\ Store(T, M, Next1, out)
      /\ agent' = restored
  BY DEF Opens, OpenedMem
<1> HIDE DEF M
<1>4. Listed(table, restored)
  <2>1. Listed(table, Context(table, M.ids, M.leaf))
    BY <1>2, ContextListed DEF Fits
  <2> QED BY <2>1, <1>2
<1> HIDE DEF restored
<1>5. mishaps' \intersect {"lagging", "astray"} # {} \/ HomeOf(table, M, files, origin, E)
  BY <1>2 DEF SInv, HomeInv
<1>6. CASE mem' = M /\ UNCHANGED <<table, files>>
  <2>1. CommandOk(command', files')
    BY NoCommandOk
  <2>2. Control'
    BY <2>1 DEF Control
  <2>3. Listed(table, agent')
    BY <1>3, <1>4
  <2>4. UNCHANGED <<table, files, origin>> /\ mem' = M
    BY <1>6
  <2> QED BY <2>2, <2>3, <2>4, <1>2, <1>5, MoveKeeps
<1>7. CASE Room(1) /\ \E out \in Writes(ToWrite(T, M, Next1)) : out.ok /\ Store(T, M, Next1, out)
  <2>1. PICK out \in Writes(ToWrite(T, M, Next1)) : out.ok /\ Store(T, M, Next1, out)
    BY <1>7
  <2>2. x \in Entry /\ x.parent = Header /\ x.home = f
    BY SettingGood
  <2> HIDE DEF x
  <2>3. Enters(table, x, T)
    BY <1>7, <2>2, InvTypes DEF Enters, Room
  <2> HIDE DEF T
  <2>4. /\ Fits(T, M, E) /\ Unplaced(T, M, files, Next1) /\ Next1 \notin ToSet(E)
        /\ T[Next1] = x
        /\ DOMAIN T = DOMAIN table \union {Next1}
        /\ HomeOf(table, M, files, origin, E) => HomeOf(T, M, files, origin, E)
    BY <1>2, <2>3, NewStores
  <2>5. Stores(T, M, Next1, E, out)
    BY <2>1, <2>4 DEF Stores
  <2>6. DOMAIN table' = DOMAIN T
    BY <2>5, StoreFacts
  <2>7. Listed(table', agent')
    BY <2>4, <2>6, <1>3, <1>4, ListedLater
  <2>8. CommandOk(command', files')
    BY NoCommandOk
  <2>9. Control'
    BY <2>8 DEF Control
  <2>10. \/ mishaps' \intersect {"lagging", "astray"} # {}
         \/ HomeOf(T, M, files, origin, E) /\ T[Next1].home \in origin[M.file]
    BY <1>2, <1>5, <2>2, <2>4
  <2> QED BY <2>1, <2>5, <2>7, <2>9, <2>10, StoreKeeps
<1> QED BY <1>3, <1>6, <1>7

LEMMA NothingWaits ==
  ASSUME ~Waiting
  PROVE  ToSet(events) \subseteq {EndMark}
BY DEF Waiting

LEMMA ResumeKeeps ==
  ASSUME SInv, Resume
  PROVE  SInv'
<1>1. /\ command.what = "resume" /\ turn = "idle" /\ Opens(command.file, FALSE)
      /\ heard' = TRUE /\ command' = NoCommand
      /\ mishaps' = mishaps \union {x \in {"lagging"} : Waiting}
      /\ UNCHANGED <<events, turn, job, origin, used>>
  BY DEF Resume, Blames
<1>2. Control
  BY InvTypes
<1>3. command.file \in File /\ Valid(files[command.file])
  BY <1>1, <1>2 DEF Control, CommandOk
<1>4. ToSet(events) \subseteq {EndMark} \/ "lagging" \in mishaps'
  BY <1>1, NothingWaits
<1>5. mishaps \subseteq mishaps' /\ mishaps' \subseteq Mishap
  BY <1>1, <1>2 DEF Control, Mishap
<1>6. turn' # "called" /\ turn' \in {"idle", "asked", "called"} /\ heard' \in BOOLEAN
  BY <1>1
<1>7. used' \in 0..MaxIncidents /\ JobOk(job')
  BY <1>1, <1>2 DEF Control
<1> QED BY <1>1, <1>3, <1>4, <1>5, <1>6, <1>7, OpensKeeps

LEMMA RestartKeeps ==
  ASSUME SInv, Restart
  PROVE  SInv'
<1>1. /\ Incident /\ events' = <<>> /\ turn' = "idle" /\ heard' = TRUE
      /\ command' = NoCommand /\ job' = NoJob /\ UNCHANGED <<origin, mishaps>>
  BY DEF Restart
<1>2. PICK f \in File : Valid(files[f]) /\ Opens(f, TRUE)
  BY DEF Restart
<1>3. Control
  BY InvTypes
<1>4. used' \in 0..MaxIncidents /\ JobOk(job') /\ mishaps' \subseteq Mishap
  BY <1>1, <1>3, IncidentCounts, NoJobOk DEF Control
<1>5. ToSet(<<>>) \subseteq {EndMark}
  BY DEF ToSet
<1>6. turn' # "called" /\ turn' \in {"idle", "asked", "called"} /\ heard' \in BOOLEAN
  BY <1>1
<1>7. mishaps \subseteq mishaps' /\ origin' = origin
  BY <1>1
<1> QED BY <1>1, <1>2, <1>4, <1>5, <1>6, <1>7, OpensKeeps

\* The next file is one that no session has, and has no lines.
LEMMA UnusedFile ==
  ASSUME SInv, Unused # {}
  PROVE  /\ Min(Unused) \in File /\ origin[Min(Unused)] = {} /\ files[Min(Unused)] = <<>>
         /\ Min(Unused) # mem.file
<1>1. Unused \subseteq File /\ Unused \subseteq Nat
  BY DEF Unused, File
<1>2. Min(Unused) \in Unused
  BY <1>1, LeastOfSet
<1>3. Owned(mem, files, origin)
  BY InvTypes DEF Core
<1> QED BY <1>1, <1>2, <1>3 DEF Unused, Owned

LEMMA NewSessionKeeps ==
  ASSUME SInv, NewSession
  PROVE  SInv'
<1> DEFINE f == Min(Unused)
           x == [Setting EXCEPT !.home = f]
           k == Next1
<1>1. /\ turn = "idle" /\ Unused # {} /\ Room(1)
      /\ table' = Append(table, x)
      /\ mem' = Fresh(f, k)
      /\ origin' = [origin EXCEPT ![f] = {f}]
      /\ agent' = <<>> /\ heard' = TRUE /\ command' = NoCommand
      /\ mishaps' = mishaps \union {y \in {"lagging"} : Waiting}
      /\ UNCHANGED <<files, events, turn, job, used>>
  BY DEF NewSession, Blames
<1>2. f \in File /\ origin[f] = {} /\ files[f] = <<>> /\ f # mem.file
  BY <1>1, UnusedFile
<1> HIDE DEF f
<1>3. x \in Entry /\ x.parent = Header /\ x.home = f /\ x.kind = "setting"
  BY <1>2, SettingGood
<1> HIDE DEF x
<1> DEFINE T == table'
<1>4. Enters(table, x, T)
  BY <1>1, <1>3, InvTypes DEF Enters, Room
<1> HIDE DEF T
<1>5. /\ Core(table, mem, files, origin) /\ Waits(table, mem, files, events) /\ Control
      /\ Len(table) \in Nat /\ k = Len(table) + 1 /\ k \in Nat /\ k # Header
  BY InvTypes DEF Next1, Header
<1>6. /\ T[k] = x /\ SameEntries(table, T) /\ DOMAIN T = DOMAIN table \union {k}
      /\ Core(T, mem, files, origin)
      /\ HomeOf(table, mem, files, origin, events) => HomeOf(T, mem, files, origin, events)
  BY <1>4, FitsNow, NewStores DEF Fits
<1>7. \A e : Unplaced(table, mem, files, e) => Unplaced(T, mem, files, e) /\ e # k
  <2>1. \A e : Unplaced(table, mem, files, e) => Unplaced(T, mem, files, e) /\ e # Len(table) + 1
    BY <1>4, <1>5, NewEntry
  <2> QED BY <2>1, <1>5
<1> HIDE DEF k
<1>8. /\ mem' = [file |-> f, ids |-> <<Header, k>>, leaf |-> k, flushed |-> FALSE]
      /\ mem'.file = f /\ mem'.ids = <<Header, k>> /\ mem'.leaf = k /\ mem'.flushed = FALSE
  BY <1>1 DEF Fresh
<1>9. ToSet(mem'.ids) = {Header, k} /\ Members(mem'.ids) = {k}
  BY <1>5, <1>8 DEF ToSet, Members
<1>10. GoodMem(T, mem')
  <2>1. k \in 1..Len(T)
    <3>1. T \in Seq(Entry)
      BY <1>6 DEF Core, GoodTable
    <3>2. DOMAIN T = 1..Len(T)
      BY <3>1
    <3> QED BY <3>2, <1>6
  <2>2. <<Header, k>> \in Seq(Nat) /\ Header \in Nat
    BY <1>5 DEF Header
  <2>3. Len(T) \in Nat
    BY <1>6, CoreTypes
  <2>4. <<Header, k>> \in Seq(0..Len(T))
    BY <2>1, <2>3 DEF Header
  <2>5. GoodIds(T, mem'.ids)
    BY <2>4, <1>8 DEF GoodIds
  <2>6. mem' \in [file : File, ids : Seq(Nat), leaf : Nat, flushed : BOOLEAN]
    BY <2>2, <1>2, <1>5, <1>8
  <2> QED BY <2>5, <2>6, <1>8, <1>9 DEF GoodMem
<1>11. origin' \in [File -> SUBSET File] /\ origin'[f] = {f} /\ \A g \in File \ {f} : origin'[g] = origin[g]
  BY <1>1, <1>2, <1>5 DEF Core, Owned
<1>12. Owned(mem', files, origin')
  <2>1. Owned(mem, files, origin)
    BY <1>5 DEF Core
  <2> QED BY <2>1, <1>2, <1>8, <1>11 DEF Owned
<1>13. Core(T, mem', files, origin')
  BY <1>6, <1>10, <1>12 DEF Core
<1>14. Waits(T, mem', files, events)
  <2>1. ASSUME NEW e, Unplaced(table, mem, files, e) PROVE Unplaced(T, mem', files, e)
    <3>1. Unplaced(T, mem, files, e) /\ e # k
      BY <2>1, <1>7
    <3> QED BY <3>1, <1>9 DEF Unplaced
  <2> QED BY <2>1, <1>5 DEF Waits
<1>15. FileOf(table, mem, files) => FileOf(T, mem', files)
  <2>1. ASSUME FileOf(table, mem, files) PROVE FileOf(T, mem', files)
    <3>1. FileOf(T, mem, files)
      BY <2>1, <1>5, <1>6, FileOfLater
    <3>2. ~Answered(T, mem'.ids)
      BY <1>3, <1>6, <1>9 DEF Answered, Replies
    <3>3. files[mem'.file] = IF Answered(T, mem'.ids) THEN mem'.ids ELSE <<>>
      BY <3>2, <1>2, <1>8
    <3>4. mem'.flushed = Answered(T, mem'.ids)
      <4>1. Answered(T, mem'.ids) \in BOOLEAN
        BY DEF Answered
      <4> QED BY <4>1, <3>2, <1>8
    <3> QED BY <3>1, <3>3, <3>4 DEF FileOf
  <2> QED BY <2>1
<1>16. HomeOf(table, mem, files, origin, events) /\ ~Waiting => HomeOf(T, mem', files, origin', events)
  <2>1. ASSUME HomeOf(table, mem, files, origin, events), ~Waiting
        PROVE  HomeOf(T, mem', files, origin', events)
    <3>1. HomeOf(T, mem, files, origin, events)
      BY <2>1, <1>6
    <3>2. ASSUME NEW g \in File, NEW i \in ToSet(files[g]) \ {Header, Torn}
          PROVE  T[i].home \in origin'[g]
      <4>1. CASE g = f
        BY <4>1, <1>2, <3>2 DEF ToSet
      <4>2. CASE g # f
        BY <4>2, <3>1, <3>2, <1>11 DEF HomeOf
      <4> QED BY <4>1, <4>2
    <3>3. \A i \in Members(mem'.ids) : T[i].home \in origin'[mem'.file]
      BY <1>3, <1>6, <1>8, <1>9, <1>11
    <3>4. ToSet(events) \ {EndMark} = {}
      BY <2>1, NothingWaits
    <3> QED BY <3>2, <3>3, <3>4 DEF HomeOf
  <2> QED BY <2>1
<1>17. mishaps \subseteq mishaps' /\ mishaps' \subseteq Mishap /\ (Waiting => "lagging" \in mishaps')
  BY <1>1, <1>5 DEF Control, Mishap
<1>18. Core(table', mem', files', origin') /\ Waits(table', mem', files', events')
  BY <1>1, <1>13, <1>14 DEF T
<1>19. Listed(table', agent')
  BY <1>1 DEF Listed, ToSet
<1>20. Control'
  <2>1. CommandOk(command', files')
    BY <1>1, NoCommandOk
  <2> QED BY <2>1, <1>1, <1>5, <1>17 DEF Control
<1>21. FileInv'
  <2>1. "torn" \in mishaps \/ FileOf(table, mem, files)
    BY DEF SInv, FileInv
  <2>2. "torn" \in mishaps' \/ FileOf(T, mem', files')
    BY <2>1, <1>1, <1>15, <1>17
  <2> QED BY <2>2 DEF FileInv, T
<1>22. HomeInv'
  <2>1. mishaps \intersect {"lagging", "astray"} # {} \/ HomeOf(table, mem, files, origin, events)
    BY DEF SInv, HomeInv
  <2>2. mishaps' \intersect {"lagging", "astray"} # {} \/ HomeOf(T, mem', files', origin', events')
    BY <2>1, <1>1, <1>16, <1>17
  <2> QED BY <2>2 DEF HomeInv, T
<1>23. turn' # "called"
  BY <1>1
<1> QED BY <1>18, <1>19, <1>20, <1>21, <1>22, <1>23 DEF SInv

\* What a fork makes: a longer table, and the entries of the session that it opens.
Forked(T, ids, from, home, B) ==
  /\ from \in Members(ids) \union {Header} /\ home \in Nat
  /\ B = IF from = Header THEN [table |-> T, ids |-> <<Header>>] ELSE Branched(T, ids, from, home)

LEMMA ForkedGood ==
  ASSUME NEW T, GoodTable(T), NEW ids, GoodIds(T, ids), NEW from, NEW home, NEW B,
         Forked(T, ids, from, home, B)
  PROVE  /\ GoodTable(B.table) /\ SameEntries(T, B.table) /\ DOMAIN T \subseteq DOMAIN B.table
         /\ GoodIds(B.table, B.ids)
         /\ Members(B.ids) \subseteq Members(ids) \union (DOMAIN B.table \ DOMAIN T)
         /\ \A i \in DOMAIN B.table \ DOMAIN T : B.table[i].home = home
         /\ \A e \in DOMAIN T : (\A i \in DOMAIN T : T[i].parent # e) /\ e \notin Members(ids)
              => \A i \in DOMAIN B.table : B.table[i].parent # e
<1> USE DEF Forked
<1>1. T \in Seq(Entry) /\ DOMAIN T \subseteq Nat \ {0} /\ Header \notin DOMAIN T
  <2>1. T \in Seq(Entry)
    BY DEF GoodTable
  <2> QED BY <2>1, NatRange DEF Header
<1>2. CASE from = Header
  <2>1. B.table = T /\ B.ids = <<Header>>
    BY <1>2
  <2>2. GoodIds(T, <<Header>>) /\ Members(<<Header>>) = {}
    <3>1. 0 \in 0..Len(T) /\ <<0>> \in Seq(0..Len(T)) /\ <<0>> # <<>> /\ <<0>>[1] = 0
      BY <1>1
    <3>2. ToSet(<<0>>) = {0}
      BY DEF ToSet
    <3> QED BY <3>1, <3>2 DEF GoodIds, Members, Header
  <2>3. SameEntries(T, T)
    BY <1>1 DEF SameEntries
  <2> QED BY <2>1, <2>2, <2>3
<1>3. CASE from # Header
  <2>1. B = Branched(T, ids, from, home) /\ from \in Members(ids) \union {Header} /\ home \in Nat
    BY <1>3
  <2>2. /\ GoodTable(B.table) /\ SameEntries(T, B.table) /\ DOMAIN T \subseteq DOMAIN B.table
        /\ \A i \in DOMAIN T : B.table[i] = T[i]
        /\ GoodIds(B.table, B.ids)
        /\ Members(B.ids) \subseteq Members(ids) \union (DOMAIN B.table \ DOMAIN T)
        /\ \A i \in DOMAIN B.table \ DOMAIN T :
             /\ B.table[i].home = home /\ B.table[i].kind = "label"
             /\ B.table[i].parent \in Members(ids) \union {Header} \union (DOMAIN B.table \ DOMAIN T)
    BY <2>1, BranchedGood
  <2>3. ASSUME NEW e \in DOMAIN T, \A i \in DOMAIN T : T[i].parent # e, e \notin Members(ids),
               NEW i \in DOMAIN B.table
        PROVE  B.table[i].parent # e
    <3>1. CASE i \in DOMAIN T
      BY <3>1, <2>2, <2>3
    <3>2. CASE i \notin DOMAIN T
      <4>1. B.table[i].parent \in Members(ids) \union {Header} \union (DOMAIN B.table \ DOMAIN T)
        BY <3>2, <2>2
      <4> QED BY <4>1, <2>3, <1>1
    <3> QED BY <3>1, <3>2
  <2> QED BY <2>2, <2>3
<1> QED BY <1>2, <1>3

Linked(T, p) ==
  \A j, l \in ToSet(p) : T[j].parent = l /\ T[l].kind = "label" => T[j].kind = "label"

\* What Fork does: the session B, made from the path to the entry from, is that of the file f.
ForksTo(f, from, B) ==
  /\ f \in File /\ f \in Nat /\ origin[f] = {} /\ files[f] = <<>> /\ f # mem.file
  /\ Forked(table, mem.ids, from, f, B) /\ Len(B.table) <= MaxEntries /\ table' = B.table
  /\ mem' = [file |-> f, ids |-> B.ids, leaf |-> Last(B.ids), flushed |-> Answered(B.table, B.ids)]
  /\ agent' = Context(B.table, B.ids, Last(B.ids))
  /\ files' = [files EXCEPT ![f] = IF Answered(B.table, B.ids) THEN B.ids ELSE <<>>]
  /\ origin' = [origin EXCEPT ![f] = origin[mem.file] \union {f}]
  /\ "unlinked" \notin mishaps' => Linked(table, PathTo(table, mem.ids, from))

LEMMA ForkIs ==
  ASSUME SInv, Fork
  PROVE  /\ Incident /\ UNCHANGED <<events, turn, heard, command, job>>
         /\ mishaps \subseteq mishaps' /\ mishaps' \subseteq Mishap
         /\ (Waiting => "lagging" \in mishaps') /\ (turn # "idle" => "midturn" \in mishaps')
         /\ \E f, from, B : ForksTo(f, from, B)
<1> DEFINE f == Min(Unused)
<1>1. PICK i \in {j \in Members(mem.ids) : table[j].kind = "user"} :
       LET from == table[i].parent
           B == IF from = Header THEN [table |-> table, ids |-> <<Header>>]
                ELSE Branched(table, mem.ids, from, f)
           path == ToSet(PathTo(table, mem.ids, from))
           labels == {j \in path : table[j].kind = "label"}
           M == [file |-> f, ids |-> B.ids, leaf |-> Last(B.ids),
                 flushed |-> Answered(B.table, B.ids)]
       IN /\ Here(from) /\ Len(B.table) <= MaxEntries
          /\ table' = B.table
          /\ MoveTo(M, B.table)
          /\ files' = [files EXCEPT ![f] = IF M.flushed THEN B.ids ELSE <<>>]
          /\ origin' = [origin EXCEPT ![f] = origin[mem.file] \union {f}]
          /\ Blames(Disturbs \union
                    {x \in {"unlinked"} : \E j \in path \ labels : {table[j].parent, table[j].ref} \intersect labels # {}})
  BY DEF Fork
<1> DEFINE from == table[i].parent
           B == IF from = Header THEN [table |-> table, ids |-> <<Header>>]
                ELSE Branched(table, mem.ids, from, f)
           path == ToSet(PathTo(table, mem.ids, from))
           labels == {j \in path : table[j].kind = "label"}
           flushed == Answered(B.table, B.ids)
           M == [file |-> f, ids |-> B.ids, leaf |-> Last(B.ids), flushed |-> flushed]
           unlinked == {x \in {"unlinked"} : \E j \in path \ labels : {table[j].parent, table[j].ref} \intersect labels # {}}
<1>2. /\ Here(from) /\ Len(B.table) <= MaxEntries /\ table' = B.table /\ MoveTo(M, B.table)
      /\ files' = [files EXCEPT ![f] = IF M.flushed THEN B.ids ELSE <<>>]
      /\ origin' = [origin EXCEPT ![f] = origin[mem.file] \union {f}]
      /\ mishaps' = mishaps \union (Disturbs \union unlinked)
  BY <1>1 DEF Blames
<1>3. Incident /\ Unused # {} /\ UNCHANGED <<events, turn, heard, command, job>>
  BY DEF Fork
<1>4. "unlinked" \notin mishaps' => Linked(table, PathTo(table, mem.ids, from))
  <2>1. ASSUME "unlinked" \notin mishaps', NEW j \in path, NEW l \in path,
               table[j].parent = l, table[l].kind = "label", table[j].kind # "label"
        PROVE  FALSE
    <3>1. l \in labels /\ j \in path \ labels
      BY <2>1
    <3>2. {table[j].parent, table[j].ref} \intersect labels # {}
      BY <3>1, <2>1
    <3>3. "unlinked" \in unlinked
      BY <3>1, <3>2
    <3> QED BY <3>3, <2>1, <1>2
  <2> QED BY <2>1 DEF Linked
<1>5. unlinked \subseteq {"unlinked"}
  OBVIOUS
<1> HIDE DEF unlinked, labels
<1>6. /\ mishaps \subseteq mishaps' /\ mishaps' \subseteq Mishap
      /\ (Waiting => "lagging" \in mishaps') /\ (turn # "idle" => "midturn" \in mishaps')
  BY <1>2, <1>5, InvTypes DEF Control, Mishap, Disturbs
<1>7. f \in File /\ f \in Nat /\ origin[f] = {} /\ files[f] = <<>> /\ f # mem.file
  BY <1>3, UnusedFile, SessionAssumption DEF File
<1> HIDE DEF f
<1> DEFINE C == B
<1>8. Forked(table, mem.ids, from, f, C)
  <2>1. C = IF from = Header THEN [table |-> table, ids |-> <<Header>>]
            ELSE Branched(table, mem.ids, from, f)
    OBVIOUS
  <2>2. from \in Members(mem.ids) \union {Header}
    BY <1>2 DEF Here
  <2> HIDE DEF C, from
  <2> QED BY <2>1, <2>2, <1>7 DEF Forked
<1> HIDE DEF C, B
<1>9. /\ Len(C.table) <= MaxEntries /\ table' = C.table
      /\ mem' = [file |-> f, ids |-> C.ids, leaf |-> Last(C.ids), flushed |-> Answered(C.table, C.ids)]
      /\ agent' = Context(C.table, C.ids, Last(C.ids))
      /\ files' = [files EXCEPT ![f] = IF Answered(C.table, C.ids) THEN C.ids ELSE <<>>]
      /\ origin' = [origin EXCEPT ![f] = origin[mem.file] \union {f}]
  BY <1>2 DEF MoveTo, C
<1> HIDE DEF from
<1>10. ForksTo(f, from, C)
  BY <1>4, <1>7, <1>8, <1>9 DEF ForksTo
<1> QED BY <1>3, <1>6, <1>10

LEMMA ForkKeeps ==
  ASSUME SInv, Fork
  PROVE  SInv'
<1>1. PICK f, from, B : ForksTo(f, from, B)
  BY ForkIs
<1> DEFINE T == B.table
           ids == B.ids
           flushed == Answered(T, ids)
           M == [file |-> f, ids |-> ids, leaf |-> Last(ids), flushed |-> flushed]
<1>2. /\ Len(T) <= MaxEntries /\ table' = T
      /\ mem' = M /\ agent' = Context(T, ids, Last(ids))
      /\ files' = [files EXCEPT ![f] = IF M.flushed THEN ids ELSE <<>>]
      /\ origin' = [origin EXCEPT ![f] = origin[mem.file] \union {f}]
  BY <1>1 DEF ForksTo
<1>4. Incident /\ UNCHANGED <<events, turn, heard, command, job>>
  BY ForkIs
<1>5. /\ f \in File /\ origin[f] = {} /\ files[f] = <<>> /\ f # mem.file /\ f \in Nat
      /\ Forked(table, mem.ids, from, f, B)
  BY <1>1 DEF ForksTo
<1>6. /\ Core(table, mem, files, origin) /\ GoodTable(table) /\ GoodIds(table, mem.ids) /\ mem.file \in File
      /\ Waits(table, mem, files, events) /\ Control /\ Members(mem.ids) \subseteq DOMAIN table
      /\ table \in Seq(Entry)
  BY InvTypes
<1>7. /\ GoodTable(T) /\ SameEntries(table, T) /\ DOMAIN table \subseteq DOMAIN T
      /\ GoodIds(T, ids)
      /\ Members(ids) \subseteq Members(mem.ids) \union (DOMAIN T \ DOMAIN table)
      /\ \A j \in DOMAIN T \ DOMAIN table : T[j].home = f
      /\ \A e \in DOMAIN table : (\A j \in DOMAIN table : table[j].parent # e) /\ e \notin Members(mem.ids)
           => \A j \in DOMAIN T : T[j].parent # e
  BY <1>5, <1>6, ForkedGood
<1> HIDE DEF T, ids
<1>8. Last(ids) \in Members(ids) \union {Header}
  BY <1>7, LastIsMember
<1>9. /\ T \in Seq(Entry) /\ Len(T) \in Nat /\ DOMAIN T = 1..Len(T) /\ DOMAIN T \subseteq Nat \ {0}
      /\ ids \in Seq(0..Len(T)) /\ Members(ids) \subseteq DOMAIN T
  <2>1. T \in Seq(Entry) /\ ids \in Seq(0..Len(T))
    BY <1>7 DEF GoodTable, GoodIds
  <2> QED BY <2>1, NatRange, MembersOf
<1>10. flushed \in BOOLEAN
  BY DEF Answered
<1> HIDE DEF flushed
<1>11. /\ mem' = M /\ mem'.file = f /\ mem'.ids = ids /\ mem'.leaf = Last(ids) /\ mem'.flushed = flushed
       /\ agent' = Context(T, ids, Last(ids))
  BY <1>2
<1>12. GoodMem(T, mem')
  <2>1. ids \in Seq(Nat)
    BY <1>9
  <2>2. Last(ids) \in Nat
    BY <1>8, <1>9 DEF Header
  <2>3. mem' \in [file : File, ids : Seq(Nat), leaf : Nat, flushed : BOOLEAN]
    BY <2>1, <2>2, <1>5, <1>10, <1>11
  <2> QED BY <2>3, <1>7, <1>8, <1>11 DEF GoodMem
<1> DEFINE lines == IF flushed THEN ids ELSE <<>>
<1>13. /\ files' = [files EXCEPT ![f] = lines]
  BY <1>2
<1>14. GoodFiles(T, files)
  <2>1. GoodFiles(table, files) /\ Len(table) <= Len(T)
    BY <1>6, <1>7 DEF Core, SameEntries
  <2> QED BY <2>1, <1>6, <1>9, GoodLater
<1>15. lines \in Seq(Torn..Len(T))
  <2> DEFINE L == Torn..Len(T)
             K == 0..Len(T)
  <2>1. K \subseteq L
    BY <1>9 DEF Torn
  <2>2. ids \in Seq(K)
    BY <1>9
  <2> HIDE DEF L, K
  <2>3. ids \in Seq(L)
    BY <2>1, <2>2
  <2>4. <<>> \in Seq(L)
    OBVIOUS
  <2>5. lines \in Seq(L)
    BY <2>3, <2>4
  <2> QED BY <2>5 DEF L
<1> HIDE DEF lines
<1>16. /\ GoodFiles(T, files') /\ files'[f] = lines /\ \A g \in File \ {f} : files'[g] = files[g]
  BY <1>5, <1>13, <1>14, <1>15 DEF GoodFiles
<1>17. /\ origin' \in [File -> SUBSET File] /\ origin'[f] = origin[mem.file] \union {f}
       /\ \A g \in File \ {f} : origin'[g] = origin[g]
  <2>1. origin \in [File -> SUBSET File]
    BY <1>6 DEF Core, Owned
  <2> QED BY <2>1, <1>2, <1>5, <1>6
<1>18. Owned(mem', files', origin')
  <2>1. Owned(mem, files, origin)
    BY <1>6 DEF Core
  <2> QED BY <2>1, <1>11, <1>16, <1>17 DEF Owned
<1>19. Core(T, mem', files', origin')
  BY <1>2, <1>7, <1>12, <1>16, <1>18 DEF Core
<1>20. ToSet(lines) \subseteq ToSet(ids)
  BY DEF lines, ToSet
<1>21. Waits(T, mem', files', events)
  <2>1. ASSUME NEW e, Unplaced(table, mem, files, e) PROVE Unplaced(T, mem', files', e)
    <3>1. /\ e \in DOMAIN table /\ e \notin Members(mem.ids)
          /\ \A j \in DOMAIN table : table[j].parent # e
          /\ \A g \in File : e \notin ToSet(files[g])
      BY <2>1 DEF Unplaced
    <3>2. e \in DOMAIN T /\ \A j \in DOMAIN T : T[j].parent # e
      BY <3>1, <1>7
    <3>3. e \notin Members(ids) /\ e # Header
      BY <3>1, <3>2, <1>7, <1>9 DEF Header
    <3>4. e \notin ToSet(lines)
      BY <3>3, <1>20 DEF Members
    <3>5. \A g \in File : e \notin ToSet(files'[g])
      BY <3>1, <3>4, <1>16
    <3> QED BY <3>2, <3>3, <3>5, <1>11 DEF Unplaced
  <2> QED BY <2>1, <1>6 DEF Waits
<1>22. FileOf(table, mem, files) => FileOf(T, mem', files')
  <2>1. ASSUME FileOf(table, mem, files) PROVE FileOf(T, mem', files')
    <3>1. FileOf(T, mem, files)
      BY <2>1, <1>6, <1>7, FileOfLater
    <3>2. flushed = Answered(T, ids)
      BY DEF flushed
    <3>3. files'[mem'.file] = IF Answered(T, mem'.ids) THEN mem'.ids ELSE <<>>
      BY <3>2, <1>11, <1>16 DEF lines
    <3>4. mem'.flushed = Answered(T, mem'.ids)
      BY <3>2, <1>11
    <3>5. ASSUME NEW g \in File, files'[g] # <<>> PROVE CleanFile(T, files'[g])
      <4>1. CASE g = f
        <5>1. files'[g] = ids /\ flushed
          BY <4>1, <3>5, <1>16 DEF lines
        <5>2. ids # <<>> /\ ids[1] = Header
          BY <1>7 DEF GoodIds
        <5>3. \A n \in DOMAIN ids : ids[n] # Torn
          <6> DEFINE K == 0..Len(T)
          <6>1. ids \in Seq(K) /\ Torn \notin K
            BY <1>9 DEF Torn
          <6> HIDE DEF K
          <6> QED BY <6>1
        <5> QED BY <5>1, <5>2, <5>3, <3>2 DEF CleanFile
      <4>2. CASE g # f
        BY <4>2, <3>1, <3>5, <1>16 DEF FileOf
      <4> QED BY <4>1, <4>2
    <3> QED BY <3>3, <3>4, <3>5 DEF FileOf
  <2> QED BY <2>1
<1>23. HomeOf(table, mem, files, origin, events) /\ ~Waiting => HomeOf(T, mem', files', origin', events)
  <2>1. ASSUME HomeOf(table, mem, files, origin, events), ~Waiting
        PROVE  HomeOf(T, mem', files', origin', events)
    <3>1. HomeOf(T, mem, files, origin, events)
      BY <2>1, <1>6, <1>7, HomeOfLater
    <3>2. ASSUME NEW j \in Members(ids) PROVE T[j].home \in origin'[f]
      <4>1. CASE j \in Members(mem.ids)
        BY <4>1, <3>1, <1>17 DEF HomeOf
      <4>2. CASE j \in DOMAIN T \ DOMAIN table
        BY <4>2, <1>7, <1>17
      <4> QED BY <4>1, <4>2, <1>7
    <3>3. ASSUME NEW g \in File, NEW j \in ToSet(files'[g]) \ {Header, Torn}
          PROVE  T[j].home \in origin'[g]
      <4>1. CASE g = f
        <5>1. j \in Members(ids)
          BY <4>1, <3>3, <1>16, <1>20 DEF Members
        <5> QED BY <5>1, <4>1, <3>2
      <4>2. CASE g # f
        BY <4>2, <3>1, <3>3, <1>16, <1>17 DEF HomeOf
      <4> QED BY <4>1, <4>2
    <3>4. ToSet(events) \ {EndMark} = {}
      BY <2>1, NothingWaits
    <3>5. \A j \in Members(mem'.ids) : T[j].home \in origin'[mem'.file]
      BY <3>2, <1>11
    <3> QED BY <3>3, <3>4, <3>5 DEF HomeOf
  <2> QED BY <2>1
<1>24. mishaps \subseteq mishaps' /\ mishaps' \subseteq Mishap /\ (Waiting => "lagging" \in mishaps')
  BY ForkIs
<1>25. table' = T
  BY <1>2
<1>26. Core(table', mem', files', origin') /\ Waits(table', mem', files', events')
  BY <1>4, <1>19, <1>21, <1>25
<1>27. Listed(table', agent')
  <2>1. Listed(T, Context(T, ids, Last(ids)))
    BY <1>7, <1>8, ContextFrom DEF Listed
  <2> QED BY <2>1, <1>11, <1>25
<1>28. Control'
  <2>1. \A g \in File : Valid(files[g]) => Valid(files'[g])
    BY <1>5, <1>16 DEF Valid
  <2>2. CommandOk(command', files')
    BY <2>1, <1>4, <1>6, CommandOkLater DEF Control
  <2>3. used' \in 0..MaxIncidents
    BY <1>4, <1>6, IncidentCounts DEF Control
  <2> QED BY <2>2, <2>3, <1>4, <1>6, <1>24 DEF Control
<1>29. FileInv'
  <2>1. "torn" \in mishaps \/ FileOf(table, mem, files)
    BY DEF SInv, FileInv
  <2>2. "torn" \in mishaps' \/ FileOf(table', mem', files')
    BY <2>1, <1>22, <1>24, <1>25
  <2> QED BY <2>2 DEF FileInv
<1>30. HomeInv'
  <2>1. mishaps \intersect {"lagging", "astray"} # {} \/ HomeOf(table, mem, files, origin, events)
    BY DEF SInv, HomeInv
  <2>2. mishaps' \intersect {"lagging", "astray"} # {} \/ HomeOf(table', mem', files', origin', events')
    BY <2>1, <1>4, <1>23, <1>24, <1>25
  <2> QED BY <2>2 DEF HomeInv
<1>31. turn' = "called" => CallMade(table')
  <2>1. turn = "called" => CallMade(table)
    BY DEF SInv
  <2> QED BY <2>1, <1>4, <1>7, <1>25, CallMadeLater
<1> QED BY <1>26, <1>27, <1>28, <1>29, <1>30, <1>31 DEF SInv

-------------------------------------------------------------------------------
(* The theorems *)

LEMMA NextKeeps ==
  ASSUME SInv, [Next]_vars
  PROVE  SInv'
<1>1. CASE Next
  BY <1>1, PromptKeeps, RespondKeeps, ToolEndsKeeps, ContinueKeeps, MessageEndKeeps,
     AgentEndKeeps, FallsBackKeeps, RetryEndsKeeps, CheckBeforeKeeps, CompactKeeps, CompactsKeeps,
     CompactedKeeps, SummaryFailsKeeps, NavigateKeeps, NavigateWithSummaryKeeps, NavigatedKeeps,
     ForkKeeps, LabelKeeps, BashKeeps, LeaveKeeps, NewSessionKeeps, ResumeKeeps, RestartKeeps DEF
     Next
<1>2. CASE UNCHANGED vars
  <2>1. /\ UNCHANGED <<table, files, mem, agent, origin>> /\ mishaps' = mishaps
        /\ turn' = turn /\ events' = events /\ UNCHANGED <<heard, command, job, used>>
    BY <1>2 DEF vars
  <2>2. Control'
    BY <2>1 DEF SInv, Control
  <2> QED BY <2>1, <2>2, InvTypes, StillKeeps
<1> QED BY <1>1, <1>2

\* The types of what the handlers keep.
HandlerOk ==
  last \in 0..MaxEntries /\ retry \in {"none", "seeking", "asleep", "cancelled"} /\ due \in Nat

LEMMA HandlerKeeps ==
  ASSUME SInv, HandlerOk, [Next]_vars
  PROVE  HandlerOk'
<1> USE SessionAssumption
<1>1. CASE UNCHANGED handler
  BY <1>1 DEF HandlerOk, handler
<1>2. CASE MessageEnd
  <2>1. events # <<>> /\ Head(events) # EndMark /\ UNCHANGED <<retry, due>> /\ last' \in {last, Head(events)}
    BY <1>2 DEF MessageEnd, Unblocked
  <2>2. Waits(table, mem, files, events) /\ Core(table, mem, files, origin) /\ DOMAIN table = 1..Len(table)
        /\ Len(table) \in Nat
    BY InvTypes
  <2>3. Head(events) = events[1] /\ 1 \in DOMAIN events
    BY <2>1, <2>2 DEF Waits
  <2>4. Head(events) \in 0..MaxEntries
    BY <2>1, <2>2, <2>3 DEF Waits, Unplaced, Core
  <2> QED BY <2>1, <2>4 DEF HandlerOk
<1>3. CASE AgentEnd \/ FallsBack
  BY <1>3 DEF AgentEnd, FallsBack, HandlerOk, Header
<1>4. CASE RetryEnds
  BY <1>4 DEF RetryEnds, HandlerOk, Header
<1>5. CASE Continue
  BY <1>5 DEF Continue, HandlerOk
<1>6. CASE Compact \/ Leave
  BY <1>6 DEF Compact, Leave, CancelsRetry, HandlerOk
<1>7. CASE Compacted
  <2>1. due' = due + 0 \/ due' = due + 1
    BY <1>7 DEF Compacted
  <2>2. UNCHANGED <<last, retry>>
    BY <1>7 DEF Compacted
  <2> QED BY <2>1, <2>2 DEF HandlerOk
<1>8. CASE Restart
  BY <1>8 DEF Restart, HandlerOk, Header
<1>9. CASE Prompt \/ Respond \/ ToolEnds
  <2>1. UNCHANGED handler
    BY <1>9 DEF Prompt, Respond, ToolEnds, Emit
  <2> QED BY <2>1, <1>1
<1>10. CASE CheckBefore \/ Compacts \/ SummaryFails \/ Navigate \/ NavigateWithSummary \/ Navigated
  <2>1. UNCHANGED handler
    BY <1>10 DEF CheckBefore, Compacts, SummaryFails, Navigate, NavigateWithSummary, Navigated
  <2> QED BY <2>1, <1>1
<1>11. CASE Fork \/ Label \/ Bash \/ NewSession \/ Resume
  <2>1. UNCHANGED handler
    BY <1>11 DEF Fork, Label, Bash, NewSession, Resume
  <2> QED BY <2>1, <1>1
<1> QED
  BY <1>1, <1>2, <1>3, <1>4, <1>5, <1>6, <1>7, <1>8, <1>9, <1>10, <1>11 DEF Next, vars

LEMMA Invariance == Spec => []SInv
<1>1. Init => SInv
  BY InitHolds
<1>2. SInv /\ [Next]_vars => SInv'
  BY NextKeeps
<1> QED BY <1>1, <1>2, PTL DEF Spec

(***************************************************************************)
(* The types: the leaf is the header or an entry of the session that is    *)
(* open, the agent and the queue hold entries that were made, and no file  *)
(* has anything but entries and lines written in part.                     *)
(***************************************************************************)
THEOREM TypesHold == Spec => []TypeOK
<1>1. SInv /\ HandlerOk => TypeOK
  <2> SUFFICES ASSUME SInv, HandlerOk PROVE TypeOK
    OBVIOUS
  <2>1. /\ Core(table, mem, files, origin) /\ Waits(table, mem, files, events)
        /\ Listed(table, agent) /\ Control /\ Len(table) \in Nat
        /\ \A i \in DOMAIN table : table[i] \in Entry
        /\ mem.file \in File /\ mem.leaf \in Members(mem.ids) \union {Header}
    BY InvTypes
  <2>2. Len(table) <= MaxEntries
    BY <2>1 DEF Core
  <2>3. files \in [File -> Seq(Line)]
    <3> DEFINE L == Torn..Len(table)
    <3>1. \A n \in L : n \in Line
      BY <2>1, <2>2, SessionAssumption DEF Line, Torn
    <3>2. files \in [File -> Seq(L)]
      BY <2>1 DEF Core, GoodFiles
    <3> HIDE DEF L
    <3>3. \A s \in Seq(L) : s \in Seq(Line)
      BY <3>1
    <3> QED BY <3>2, <3>3
  <2>4. mem.flushed \in BOOLEAN
    BY <2>1, CoreTypes
  <2>5. Head(mem.ids) = Header
    <3> DEFINE ids == mem.ids
    <3>1. ids \in Seq(0..Len(table)) /\ ids # <<>> /\ ids[1] = Header
      BY <2>1, CoreTypes DEF GoodIds
    <3> HIDE DEF ids
    <3>2. Head(ids) = ids[1]
      BY <3>1
    <3> QED BY <3>1, <3>2 DEF ids
  <2>6. ToSet(agent) \subseteq DOMAIN table
    BY <2>1 DEF Listed
  <2>7. ToSet(events) \subseteq DOMAIN table \union {EndMark}
    BY <2>1 DEF Waits, Unplaced, ToSet
  <2>8. turn \in {"idle", "asked", "called"} /\ heard \in BOOLEAN /\ mishaps \subseteq Mishap
    BY <2>1 DEF Control
  <2>9. used <= MaxIncidents
    BY <2>1, SessionAssumption DEF Control
  <2> QED BY <2>1, <2>2, <2>3, <2>4, <2>5, <2>6, <2>7, <2>8, <2>9 DEF TypeOK, HandlerOk
<1>2. Init => HandlerOk
  BY SessionAssumption DEF Init, HandlerOk, Header
<1>3. SInv /\ HandlerOk /\ [Next]_vars => HandlerOk'
  BY HandlerKeeps
<1> QED BY <1>1, <1>2, <1>3, Invariance, PTL DEF Spec

(***************************************************************************)
(* Until a write stops half way, the file of the session that is open      *)
(* holds the entries of the session manager, each once and in its order,   *)
(* from the first reply on, and nothing before it.                         *)
(***************************************************************************)
THEOREM FilesAreSessions == Spec => []FileIsSession
<1>1. SInv => FileIsSession
  BY DEF SInv, FileInv, FileOf, FileIsSession
<1> QED BY <1>1, Invariance, PTL

(***************************************************************************)
(* A session holds only what was made in it or in the sessions that it was *)
(* forked from, unless one was left with messages waiting or a summary     *)
(* under way.                                                              *)
(***************************************************************************)
THEOREM EntriesAreAtHome == Spec => []AtHome
<1>1. SInv => AtHome
  BY DEF SInv, HomeInv, HomeOf, AtHome
<1> QED BY <1>1, Invariance, PTL

-------------------------------------------------------------------------------
(* The context of a session that grows *)

\* To append to a concatenation is to append to its second part.
LEMMA ConcatAppend ==
  ASSUME NEW a \in Seq(Int), NEW b \in Seq(Int), NEW k \in Int
  PROVE  a \o Append(b, k) = Append(a \o b, k)
OBVIOUS

\* The path q of the table U begins with the path p of T, and has no compaction after it.
GoesOn(T, p, U, q) ==
  /\ p \in Seq(Int) /\ q \in Seq(Int) /\ Len(p) <= Len(q)
  /\ \A n \in 1..Len(p) :
       q[n] = p[n] /\ U[p[n]].kind = T[p[n]].kind /\ U[p[n]].ref = T[p[n]].ref
  /\ \A n \in (Len(p) + 1)..Len(q) : KindAt(U, q, n) # "compaction"

LEMMA SeenAlike ==
  ASSUME NEW T, NEW p, NEW U, NEW q, GoesOn(T, p, U, q)
  PROVE  /\ LastCompaction(U, q) = LastCompaction(T, p)
         /\ \A n \in 1..Len(p) : n \in Seen(U, q) <=> n \in Seen(T, p)
         /\ \A n \in (Len(p) + 1)..Len(q) : n \in Seen(U, q) <=> KindAt(U, q, n) \in Shown
<1> DEFINE c == LastCompaction(T, p)
           d == LastCompaction(U, q)
           first == FirstKept(T, p, c)
           second == FirstKept(U, q, c)
           a == Len(p)
           b == Len(q)
           kept == IF c = 0 \/ first = 0 THEN {} ELSE first..(c - 1)
           keptToo == IF c = 0 \/ second = 0 THEN {} ELSE second..(c - 1)
<1>1. p \in Seq(Int) /\ q \in Seq(Int) /\ a \in Nat /\ b \in Nat /\ a <= b
  BY DEF GoesOn
<1>2. \A n \in 1..a : q[n] = p[n] /\ KindAt(U, q, n) = KindAt(T, p, n) /\ U[q[n]].ref = T[p[n]].ref
  BY DEF GoesOn, KindAt
<1>3. \A n \in (a + 1)..b : KindAt(U, q, n) # "compaction"
  BY DEF GoesOn
<1>4. /\ c \in 0..a /\ (c # 0 => KindAt(T, p, c) = "compaction")
      /\ \A n \in 1..a : KindAt(T, p, n) = "compaction" => c # 0 /\ n <= c
  BY <1>1, LastCompactionOf
<1>5. /\ d \in 0..b /\ (d # 0 => KindAt(U, q, d) = "compaction")
      /\ \A n \in 1..b : KindAt(U, q, n) = "compaction" => d # 0 /\ n <= d
  BY <1>1, LastCompactionOf
<1>6. Seen(T, p) = {n \in kept \union (c + 1)..a : KindAt(T, p, n) \in Shown}
  BY DEF Seen
<1>7. d = c => Seen(U, q) = {n \in keptToo \union (c + 1)..b : KindAt(U, q, n) \in Shown}
  BY DEF Seen
<1>8. /\ first \in 0..a /\ (first # 0 => p[first] = T[p[c]].ref)
      /\ \A n \in 1..a : p[n] = T[p[c]].ref => first # 0 /\ first <= n
  BY <1>1, FirstKeptOf
<1>9. /\ second \in 0..b /\ (second # 0 => q[second] = U[q[c]].ref)
      /\ \A n \in 1..b : q[n] = U[q[c]].ref => second # 0 /\ second <= n
  BY <1>1, FirstKeptOf
<1> HIDE DEF c, d, first, second, a, b, kept, keptToo
<1>10. d = c
  <2>1. CASE d # 0
    <3>1. d \in 1..b /\ KindAt(U, q, d) = "compaction"
      BY <2>1, <1>1, <1>5
    <3>2. d \in 1..a
      BY <3>1, <1>1, <1>3
    <3>3. KindAt(T, p, d) = "compaction"
      BY <3>1, <3>2, <1>2
    <3>4. c # 0 /\ d <= c
      BY <3>2, <3>3, <1>4
    <3>5. c \in 1..a /\ c \in 1..b
      BY <3>4, <1>1, <1>4
    <3>6. KindAt(U, q, c) = "compaction"
      BY <3>4, <3>5, <1>2, <1>4
    <3>7. c <= d
      BY <3>5, <3>6, <1>5
    <3> QED BY <3>2, <3>4, <3>5, <3>7
  <2>2. CASE d = 0 /\ c # 0
    <3>1. c \in 1..a /\ c \in 1..b
      BY <2>2, <1>1, <1>4
    <3>2. KindAt(U, q, c) = "compaction"
      BY <2>2, <3>1, <1>2, <1>4
    <3> QED BY <2>2, <3>1, <3>2, <1>5
  <2> QED BY <2>1, <2>2
<1>11. \A n \in 1..a : n \in keptToo <=> n \in kept
  <2>1. CASE c = 0
    BY <2>1 DEF kept, keptToo
  <2>2. CASE c # 0
    <3>1. c \in 1..a
      BY <2>2, <1>1, <1>4
    <3>2. U[q[c]].ref = T[p[c]].ref
      BY <3>1, <1>2
    <3>3. CASE first # 0
      <4>1. first \in 1..a /\ first \in 1..b
        BY <3>3, <1>1, <1>8
      <4>2. q[first] = U[q[c]].ref
        BY <4>1, <3>2, <3>3, <1>2, <1>8
      <4>3. second # 0 /\ second <= first
        BY <4>1, <4>2, <1>9
      <4>4. second \in 1..a
        BY <4>1, <4>3, <1>1, <1>9
      <4>5. p[second] = T[p[c]].ref
        BY <4>3, <4>4, <3>2, <1>2, <1>9
      <4>6. first <= second
        BY <4>4, <4>5, <1>8
      <4>7. first = second
        BY <4>1, <4>3, <4>4, <4>6
      <4> QED BY <4>3, <4>7, <3>3 DEF kept, keptToo
    <3>4. CASE first = 0
      <4>1. kept = {}
        BY <3>4 DEF kept
      <4>2. second = 0 \/ second > a
        <5>1. SUFFICES ASSUME second # 0, second <= a PROVE FALSE
          BY <1>1, <1>9
        <5>2. second \in 1..a
          BY <5>1, <1>1, <1>9
        <5>3. p[second] = T[p[c]].ref
          BY <5>1, <5>2, <3>2, <1>2, <1>9
        <5> QED BY <5>2, <5>3, <3>4, <1>8
      <4>3. keptToo = {}
        <5>1. CASE second = 0
          BY <5>1 DEF keptToo
        <5>2. CASE second # 0
          <6>1. second > c - 1 /\ second \in Int /\ c \in Int
            BY <5>2, <4>2, <3>1, <1>1, <1>9
          <6>2. second..(c - 1) = {}
            BY <6>1
          <6> QED BY <6>2, <5>2, <2>2 DEF keptToo
        <5> QED BY <5>1, <5>2
      <4> QED BY <4>1, <4>3
    <3> QED BY <3>3, <3>4
  <2> QED BY <2>1, <2>2
<1>12. ASSUME NEW n \in 1..a PROVE n \in Seen(U, q) <=> n \in Seen(T, p)
  <2>1. n \in (c + 1)..b <=> n \in (c + 1)..a
    BY <1>1, <1>4
  <2>2. KindAt(U, q, n) = KindAt(T, p, n)
    BY <1>2
  <2> QED BY <2>1, <2>2, <1>6, <1>7, <1>10, <1>11
<1>13. ASSUME NEW n \in (a + 1)..b PROVE n \in Seen(U, q) <=> KindAt(U, q, n) \in Shown
  <2>1. n \in (c + 1)..b
    BY <1>1, <1>4
  <2> QED BY <2>1, <1>7, <1>10
<1> QED BY <1>10, <1>12, <1>13 DEF a, b, c, d

\* Tables that agree on the entries of a session give it the same path and context.
SamePlaces(T, U, ids) ==
  \A i \in Members(ids) :
    U[i].parent = T[i].parent /\ U[i].kind = T[i].kind /\ U[i].ref = T[i].ref

LEMMA ContextSame ==
  ASSUME NEW T, GoodTable(T), NEW U, GoodTable(U), NEW ids, GoodIds(T, ids), GoodIds(U, ids),
         NEW leaf \in Members(ids) \union {Header}, SamePlaces(T, U, ids)
  PROVE  /\ PathTo(U, ids, leaf) = PathTo(T, ids, leaf)
         /\ Context(U, ids, leaf) = Context(T, ids, leaf)
<1> DEFINE K == Members(ids)
           p == PathTo(T, ids, leaf)
           q == PathTo(U, ids, leaf)
<1>1. IsPath(T, K, p, leaf) /\ p \in Seq(K) /\ p \in Seq(Int) /\ K \subseteq Nat \ {0}
  BY PathOf
<1>2. IsPath(U, K, q, leaf) /\ Ranked(U, K)
  BY PathOf
<1> HIDE DEF p, q, K
<1>3. IsPath(U, K, p, leaf)
  <2>1. \A n \in 1..Len(p) : p[n] \in K
    BY <1>1
  <2>2. \A n \in 1..Len(p) : Up(U, K, p[n]) = Up(T, K, p[n])
    BY <2>1 DEF Up, SamePlaces, K
  <2> QED BY <2>2, <1>1 DEF IsPath
<1>4. q = p
  <2>1. leaf \in K \union {Header}
    BY DEF K
  <2> QED BY <2>1, <1>1, <1>2, <1>3, PathIsUnique
<1>5. GoesOn(T, p, U, p)
  <2>1. \A n \in 1..Len(p) : p[n] \in K
    BY <1>1
  <2>2. (Len(p) + 1)..Len(p) = {} /\ Len(p) <= Len(p)
    BY <1>1
  <2> QED BY <2>1, <2>2, <1>1 DEF GoesOn, SamePlaces, K
<1>6. /\ LastCompaction(U, p) = LastCompaction(T, p)
      /\ \A n \in 1..Len(p) : n \in Seen(U, p) <=> n \in Seen(T, p)
  BY <1>5, SeenAlike
<1>7. Picked(p, Seen(U, p)) = Picked(p, Seen(T, p))
  BY <1>1, <1>6, PickedAlike
<1>8. Context(T, ids, leaf) = (IF LastCompaction(T, p) = 0 THEN <<>> ELSE <<p[LastCompaction(T, p)]>>)
                              \o Picked(p, Seen(T, p))
  BY ContextIs DEF p
<1>9. Context(U, ids, leaf) = (IF LastCompaction(U, p) = 0 THEN <<>> ELSE <<p[LastCompaction(U, p)]>>)
                              \o Picked(p, Seen(U, p))
  <2>1. PathTo(U, ids, leaf) = p
    BY <1>4 DEF q
  <2> QED BY <2>1, ContextIs
<1>10. Context(U, ids, leaf) = Context(T, ids, leaf)
  BY <1>6, <1>7, <1>8, <1>9
<1> QED BY <1>4, <1>10 DEF p, q

\* The append of an entry below the leaf: the path has it at its end.
Appended(T, ids, leaf, U, k) ==
  /\ GoodTable(T) /\ GoodTable(U) /\ GoodIds(T, ids) /\ GoodIds(U, Append(ids, k))
  /\ leaf \in Members(ids) \union {Header}
  /\ SamePlaces(T, U, ids) /\ k \in Nat \ {0} /\ k \notin Members(ids)
  /\ Members(Append(ids, k)) = Members(ids) \union {k}
  /\ U[k].parent = leaf /\ \A i \in Members(ids) : U[i].parent # k

LEMMA PathAppend ==
  ASSUME NEW T, NEW ids, NEW leaf, NEW U, NEW k, Appended(T, ids, leaf, U, k)
  PROVE  PathTo(U, Append(ids, k), k) = Append(PathTo(T, ids, leaf), k)
<1> DEFINE K == Members(ids)
           L == Members(Append(ids, k))
           p == PathTo(T, ids, leaf)
           q == PathTo(U, Append(ids, k), k)
<1>1. /\ GoodTable(T) /\ GoodTable(U) /\ GoodIds(T, ids) /\ GoodIds(U, Append(ids, k))
      /\ leaf \in K \union {Header}
      /\ SamePlaces(T, U, ids) /\ k \in Nat \ {0} /\ k \notin K /\ L = K \union {k}
      /\ U[k].parent = leaf /\ \A i \in K : U[i].parent # k
  BY DEF Appended
<1>2. IsPath(T, K, p, leaf) /\ p \in Seq(K) /\ K \subseteq Nat \ {0}
  BY <1>1, PathOf
<1>3. IsPath(U, L, q, k) /\ Ranked(U, L) /\ L \subseteq Nat \ {0}
  BY <1>1, PathOf
<1>4. \A i \in K : U[i].parent = T[i].parent
  BY <1>1 DEF SamePlaces
<1> HIDE DEF p, q, K, L
<1>5. IsPath(U, L, p, leaf)
  <2>1. \A n \in 1..Len(p) : p[n] \in K
    BY <1>2
  <2>2. \A n \in 1..Len(p) : Up(U, L, p[n]) = Up(T, K, p[n])
    BY <2>1, <1>1, <1>4 DEF Up
  <2>3. p \in Seq(L)
    BY <1>1, <1>2
  <2> QED BY <2>2, <2>3, <1>2 DEF IsPath
<1>6. Up(U, L, k) = leaf
  BY <1>1 DEF Up
<1>7. IsPath(U, L, Append(p, k), k)
  <2>1. k \in L /\ IsPath(U, L, p, Up(U, L, k))
    BY <1>1, <1>5, <1>6
  <2> QED BY <2>1, <1>3, PathExtends
<1>8. q = Append(p, k)
  BY <1>1, <1>3, <1>7, PathIsUnique
<1> QED BY <1>8 DEF p, q

LEMMA ContextAppend ==
  ASSUME NEW T, NEW ids, NEW leaf, NEW U, NEW k, Appended(T, ids, leaf, U, k),
         U[k].kind # "compaction"
  PROVE  Context(U, Append(ids, k), k) =
           IF U[k].kind \in Shown THEN Append(Context(T, ids, leaf), k) ELSE Context(T, ids, leaf)
<1> DEFINE p == PathTo(T, ids, leaf)
           q == Append(p, k)
           c == LastCompaction(T, p)
           a == IF c = 0 THEN <<>> ELSE <<p[c]>>
           b == Picked(p, Seen(T, p))
           d == Picked(q, Seen(U, q))
<1>1. /\ GoodTable(T) /\ GoodIds(T, ids) /\ leaf \in Members(ids) \union {Header}
      /\ SamePlaces(T, U, ids) /\ k \in Nat \ {0}
  BY DEF Appended
<1>2. p \in Seq(Int) /\ ToSet(p) \subseteq Members(ids)
  BY <1>1, PathOf
<1>3. Context(T, ids, leaf) = a \o b
  BY ContextIs
<1>4. PathTo(U, Append(ids, k), k) = q
  BY PathAppend
<1> HIDE DEF p
<1>5. /\ q \in Seq(Int) /\ Len(q) = Len(p) + 1 /\ q[Len(p) + 1] = k
      /\ \A n \in 1..Len(p) : q[n] = p[n]
  BY <1>1, <1>2
<1>6. Len(p) \in Nat /\ \A n \in 1..Len(p) : p[n] \in Members(ids)
  <2>1. Len(p) \in Nat /\ DOMAIN p = 1..Len(p)
    BY <1>2
  <2> QED BY <2>1, <1>2 DEF ToSet
<1> HIDE DEF q
<1>7. GoesOn(T, p, U, q)
  <2>1. \A n \in (Len(p) + 1)..Len(q) : n = Len(p) + 1
    BY <1>5, <1>6
  <2>2. KindAt(U, q, Len(p) + 1) # "compaction"
    BY <1>5 DEF KindAt
  <2>3. \A n \in 1..Len(p) : U[p[n]].kind = T[p[n]].kind /\ U[p[n]].ref = T[p[n]].ref
    BY <1>1, <1>6 DEF SamePlaces
  <2>4. Len(p) <= Len(q)
    BY <1>5, <1>6
  <2> QED BY <2>1, <2>2, <2>3, <2>4, <1>2, <1>5 DEF GoesOn
<1>8. /\ LastCompaction(U, q) = c
      /\ \A n \in 1..Len(p) : n \in Seen(T, p) <=> n \in Seen(U, q)
      /\ Len(p) + 1 \in Seen(U, q) <=> U[k].kind \in Shown
  <2>1. Len(p) + 1 \in (Len(p) + 1)..Len(q) /\ KindAt(U, q, Len(p) + 1) = U[k].kind
    BY <1>5, <1>6 DEF KindAt
  <2> QED BY <2>1, <1>7, SeenAlike
<1>9. c \in 0..Len(p)
  BY <1>2, LastCompactionOf
<1>10. Context(U, Append(ids, k), k) =
         (IF LastCompaction(U, q) = 0 THEN <<>> ELSE <<q[LastCompaction(U, q)]>>) \o d
  BY <1>4, ContextIs
<1> HIDE DEF c
<1>11. (IF LastCompaction(U, q) = 0 THEN <<>> ELSE <<q[LastCompaction(U, q)]>>) = a
  BY <1>5, <1>6, <1>8, <1>9
<1>12. d = IF U[k].kind \in Shown THEN Append(b, k) ELSE b
  <2> DEFINE P == Seen(T, p)
             Q == Seen(U, q)
  <2>1. \A n \in 1..Len(p) : n \in P <=> n \in Q
    BY <1>8
  <2>2. Len(p) + 1 \in Q <=> U[k].kind \in Shown
    BY <1>8
  <2> HIDE DEF P, Q
  <2>3. k \in Int
    BY <1>1
  <2>4. Picked(Append(p, k), Q) = IF Len(p) + 1 \in Q THEN Append(Picked(p, P), k) ELSE Picked(p, P)
    BY <2>1, <2>3, <1>2, PickedAppend
  <2> QED BY <2>2, <2>4 DEF P, Q, q
<1>13. a \in Seq(Int)
  <2>1. CASE c = 0
    BY <2>1
  <2>2. CASE c # 0
    <3>1. c \in 1..Len(p)
      BY <2>2, <1>6, <1>9
    <3>2. p[c] \in Int
      BY <3>1, <1>2
    <3> QED BY <3>2, <2>2
  <2> QED BY <2>1, <2>2
<1>14. b \in Seq(Int)
  BY <1>2, PickedFrom
<1> HIDE DEF a, b, d
<1>15. Context(U, Append(ids, k), k) = a \o d
  BY <1>10, <1>11
<1>16. CASE U[k].kind \in Shown
  <2>1. a \o d = a \o Append(b, k)
    BY <1>12, <1>16
  <2>2. k \in Int
    BY <1>1
  <2>3. a \o Append(b, k) = Append(a \o b, k)
    BY <2>2, <1>13, <1>14, ConcatAppend
  <2> QED BY <2>1, <2>3, <1>3, <1>15, <1>16
<1>17. CASE U[k].kind \notin Shown
  BY <1>3, <1>12, <1>15, <1>17
<1> QED BY <1>16, <1>17

\* What a context is made of: a compaction, and entries that are shown.
LEMMA ContextShown ==
  ASSUME NEW T, GoodTable(T), NEW ids, GoodIds(T, ids), NEW leaf \in Members(ids) \union {Header}
  PROVE  /\ ToSet(Context(T, ids, leaf)) \subseteq Members(ids)
         /\ \A i \in ToSet(Context(T, ids, leaf)) : T[i].kind \in Shown \union {"compaction"}
<1> DEFINE p == PathTo(T, ids, leaf)
           c == LastCompaction(T, p)
           a == IF c = 0 THEN <<>> ELSE <<p[c]>>
           b == Picked(p, Seen(T, p))
<1>1. p \in Seq(Int) /\ ToSet(p) \subseteq Members(ids)
  BY PathOf
<1>2. Context(T, ids, leaf) = a \o b
  BY ContextIs
<1>3. ToSet(Context(T, ids, leaf)) \subseteq Members(ids)
  BY <1>1, ContextFrom
<1>4. b \in Seq(Int) /\ ToSet(b) = {p[n] : n \in Seen(T, p) \intersect 1..Len(p)}
  BY <1>1, PickedFrom
<1>5. \A n \in Seen(T, p) : T[p[n]].kind \in Shown
  BY DEF Seen, KindAt
<1> HIDE DEF b
<1>6. \A i \in ToSet(b) : T[i].kind \in Shown
  BY <1>4, <1>5
<1>7. c \in 0..Len(p) /\ (c # 0 => KindAt(T, p, c) = "compaction")
  BY <1>1, LastCompactionOf
<1> HIDE DEF p, c
<1>8. a \in Seq(Int) /\ \A i \in ToSet(a) : T[i].kind = "compaction"
  <2>1. CASE c = 0
    BY <2>1 DEF ToSet
  <2>2. CASE c # 0
    <3>1. c \in 1..Len(p) /\ T[p[c]].kind = "compaction"
      BY <2>2, <1>1, <1>7 DEF KindAt
    <3>2. p[c] \in Int
      BY <3>1, <1>1
    <3>3. a = <<p[c]>> /\ ToSet(<<p[c]>>) = {p[c]}
      BY <2>2 DEF ToSet
    <3> QED BY <3>1, <3>2, <3>3
  <2> QED BY <2>1, <2>2
<1> HIDE DEF a
<1>9. ToSet(a \o b) = ToSet(a) \union ToSet(b)
  BY <1>4, <1>8, ConcatOf
<1> QED BY <1>2, <1>3, <1>6, <1>8, <1>9

\* An append in Store is one of the path.
LEMMA StoreAppends ==
  ASSUME NEW T, NEW M, NEW i, NEW E, NEW out, Stores(T, M, i, E, out)
  PROVE  /\ Appended(T, M.ids, M.leaf, table', i) /\ table'[i].kind = T[i].kind
         /\ mem'.ids = Append(M.ids, i) /\ mem'.leaf = i
<1>1. /\ Core(T, M, files, origin) /\ Unplaced(T, M, files, i)
      /\ out \in Writes(ToWrite(T, M, i)) /\ Store(T, M, i, out)
  BY DEF Stores, Fits
<1>2. /\ Core(table', mem', files', origin)
      /\ table' = Placed(T, i, M.leaf) /\ SameEntries(T, table')
      /\ mem'.ids = Append(M.ids, i) /\ mem'.leaf = i
      /\ Members(mem'.ids) = Members(M.ids) \union {i}
  BY <1>1, StoreStep
<1>3. /\ GoodTable(T) /\ GoodIds(T, M.ids) /\ M.leaf \in Members(M.ids) \union {Header} /\ M.leaf \in 0..Len(T)
      /\ DOMAIN T \subseteq Nat \ {0} /\ Members(M.ids) \subseteq DOMAIN T
  BY <1>1, CoreTypes DEF Core
<1>4. GoodTable(table') /\ GoodIds(table', mem'.ids)
  BY <1>2, CoreTypes DEF Core
<1>5. /\ i \in DOMAIN T /\ i \notin Members(M.ids) /\ \A j \in DOMAIN T : T[j].parent # i
  BY <1>1 DEF Unplaced
<1>6. M.leaf # i
  BY <1>3, <1>5 DEF Header
<1>7. /\ \A j \in DOMAIN T \ {i} : table'[j] = T[j]
      /\ table'[i].parent = M.leaf
  BY <1>2, <1>3, <1>5, <1>6, PlacedGood
<1>8. SamePlaces(T, table', M.ids) /\ \A j \in Members(M.ids) : table'[j].parent # i
  BY <1>3, <1>5, <1>7 DEF SamePlaces
<1>9. Appended(T, M.ids, M.leaf, table', i)
  BY <1>2, <1>3, <1>4, <1>5, <1>7, <1>8 DEF Appended
<1>10. table'[i].kind = T[i].kind
  BY <1>2, <1>5 DEF SameEntries
<1> QED BY <1>2, <1>9, <1>10

\* A new entry that has no place yet changes no context.
LEMMA EntersContext ==
  ASSUME NEW M, NEW E, Fits(table, M, E), NEW x, NEW T, Enters(table, x, T)
  PROVE  /\ PathTo(T, M.ids, M.leaf) = PathTo(table, M.ids, M.leaf)
         /\ Context(T, M.ids, M.leaf) = Context(table, M.ids, M.leaf)
         /\ \A i \in DOMAIN table : T[i] = table[i]
<1>1. Core(table, M, files, origin)
  BY DEF Fits
<1>2. Core(T, M, files, origin)
  BY <1>1, NewEntry
<1>3. /\ GoodTable(table) /\ GoodTable(T) /\ GoodIds(table, M.ids) /\ GoodIds(T, M.ids)
      /\ M.leaf \in Members(M.ids) \union {Header} /\ Members(M.ids) \subseteq DOMAIN table
      /\ table \in Seq(Entry)
  BY <1>1, <1>2, CoreTypes DEF Core
<1>4. \A i \in DOMAIN table : T[i] = table[i]
  BY <1>3 DEF Enters
<1>5. SamePlaces(table, T, M.ids)
  BY <1>3, <1>4 DEF SamePlaces
<1> QED BY <1>3, <1>4, <1>5, ContextSame

-------------------------------------------------------------------------------
(* The agent and its session *)

\* W is what waits in the queue E, without the marks.
Lists(W, E) ==
  /\ W \in Seq(Int)
  /\ \E g \in [1..Len(W) -> DOMAIN E] :
       /\ \A k \in 1..Len(W) : W[k] = E[g[k]] /\ W[k] # EndMark
       /\ \A j, k \in 1..Len(W) : j < k => g[j] < g[k]
       /\ \A n \in DOMAIN E : E[n] # EndMark => \E k \in 1..Len(W) : g[k] = n

LEMMA ListsNothing ==
  ASSUME NEW E \in Seq(Int), ToSet(E) \subseteq {EndMark}
  PROVE  Lists(<<>>, E) /\ \A W : Lists(W, E) => W = <<>>
<1>1. \A n \in DOMAIN E : E[n] = EndMark
  BY DEF ToSet
<1>2. Lists(<<>>, E)
  <2> DEFINE g == [k \in 1..0 |-> 0]
  <2>1. <<>> \in Seq(Int) /\ Len(<<>>) = 0 /\ 1..0 = {}
    OBVIOUS
  <2>2. g \in [1..0 -> DOMAIN E]
    BY <2>1
  <2> HIDE DEF g
  <2> QED BY <1>1, <2>1, <2>2 DEF Lists
<1>3. ASSUME NEW W, Lists(W, E) PROVE W = <<>>
  <2>1. W \in Seq(Int) /\ Len(W) \in Nat
    BY <1>3 DEF Lists
  <2>2. PICK g \in [1..Len(W) -> DOMAIN E] :
          \A k \in 1..Len(W) : W[k] = E[g[k]] /\ W[k] # EndMark
    BY <1>3 DEF Lists
  <2>3. \A k \in 1..Len(W) : FALSE
    BY <1>1, <2>2
  <2>4. Len(W) = 0
    BY <2>1, <2>3
  <2> QED BY <2>1, <2>4
<1> QED BY <1>2, <1>3

LEMMA ListsAppend ==
  ASSUME NEW E \in Seq(Int), NEW W, Lists(W, E), NEW i \in Int
  PROVE  Lists(IF i = EndMark THEN W ELSE Append(W, i), Append(E, i))
<1> DEFINE F == Append(E, i)
           V == Append(W, i)
<1>1. W \in Seq(Int) /\ Len(W) \in Nat /\ Len(E) \in Nat /\ DOMAIN E = 1..Len(E)
  BY DEF Lists
<1>2. PICK g \in [1..Len(W) -> DOMAIN E] :
       /\ \A k \in 1..Len(W) : W[k] = E[g[k]] /\ W[k] # EndMark
       /\ \A j, k \in 1..Len(W) : j < k => g[j] < g[k]
       /\ \A n \in DOMAIN E : E[n] # EndMark => \E k \in 1..Len(W) : g[k] = n
  BY DEF Lists
<1>3. /\ F \in Seq(Int) /\ DOMAIN F = 1..(Len(E) + 1) /\ F[Len(E) + 1] = i
      /\ \A n \in 1..Len(E) : F[n] = E[n]
  BY <1>1
<1>4. /\ V \in Seq(Int) /\ Len(V) = Len(W) + 1 /\ V[Len(W) + 1] = i
      /\ \A k \in 1..Len(W) : V[k] = W[k]
  BY <1>1
<1> HIDE DEF F, V
<1>5. \A k \in 1..Len(W) : g[k] \in 1..Len(E) /\ F[g[k]] = E[g[k]]
  BY <1>1, <1>2, <1>3
<1>6. CASE i = EndMark
  <2>1. g \in [1..Len(W) -> DOMAIN F]
    BY <1>1, <1>3, <1>5
  <2>2. \A k \in 1..Len(W) : W[k] = F[g[k]] /\ W[k] # EndMark
    BY <1>2, <1>5
  <2>3. \A n \in DOMAIN F : F[n] # EndMark => \E k \in 1..Len(W) : g[k] = n
    <3> TAKE n \in DOMAIN F
    <3>1. n \in 1..Len(E) \/ n = Len(E) + 1
      BY <1>1, <1>3
    <3> QED BY <3>1, <1>1, <1>2, <1>3, <1>6
  <2>4. Lists(W, F)
    BY <1>1, <1>2, <2>1, <2>2, <2>3 DEF Lists
  <2> QED BY <2>4, <1>6 DEF F
<1>7. CASE i # EndMark
  <2> DEFINE h == [k \in 1..Len(V) |-> IF k = Len(W) + 1 THEN Len(E) + 1 ELSE g[k]]
  <2>1. \A k \in 1..Len(V) : k = Len(W) + 1 \/ k \in 1..Len(W)
    BY <1>1, <1>4
  <2>2. h \in [1..Len(V) -> DOMAIN F]
    BY <2>1, <1>1, <1>3, <1>5
  <2>3. /\ \A k \in 1..Len(W) : k \in 1..Len(V) /\ h[k] = g[k]
        /\ Len(W) + 1 \in 1..Len(V) /\ h[Len(W) + 1] = Len(E) + 1
    BY <1>1, <1>4
  <2> HIDE DEF h
  <2>4. \A k \in 1..Len(V) : V[k] = F[h[k]] /\ V[k] # EndMark
    BY <2>1, <2>3, <1>2, <1>3, <1>4, <1>5, <1>7
  <2>5. ASSUME NEW j \in 1..Len(V), NEW k \in 1..Len(V), j < k PROVE h[j] < h[k]
    <3>1. j \in 1..Len(W)
      BY <2>1, <2>5, <1>1, <1>4
    <3>2. CASE k = Len(W) + 1
      <4>1. h[k] = Len(E) + 1 /\ h[j] = g[j]
        BY <3>1, <3>2, <2>3
      <4>2. g[j] \in 1..Len(E)
        BY <3>1, <1>5
      <4>3. g[j] < Len(E) + 1
        BY <4>2, <1>1
      <4> QED BY <4>1, <4>3
    <3>3. CASE k \in 1..Len(W)
      BY <3>1, <3>3, <2>3, <2>5, <1>2
    <3> QED BY <3>2, <3>3, <2>1
  <2>6. ASSUME NEW n \in DOMAIN F, F[n] # EndMark PROVE \E k \in 1..Len(V) : h[k] = n
    <3>1. CASE n = Len(E) + 1
      BY <3>1, <2>3
    <3>2. CASE n \in 1..Len(E)
      <4>1. PICK k \in 1..Len(W) : g[k] = n
        BY <3>2, <2>6, <1>1, <1>2, <1>3
      <4> QED BY <4>1, <2>3
    <3> QED BY <3>1, <3>2, <1>1, <1>3
  <2>7. Lists(V, F)
    BY <1>4, <2>2, <2>4, <2>5, <2>6 DEF Lists
  <2> QED BY <2>7, <1>7 DEF F, V
<1> QED BY <1>6, <1>7

LEMMA ListsTail ==
  ASSUME NEW E \in Seq(Int), E # <<>>, NEW W, Lists(W, E)
  PROVE  /\ Head(E) = EndMark => Lists(W, Tail(E))
         /\ Head(E) # EndMark => W # <<>> /\ Head(W) = Head(E) /\ Lists(Tail(W), Tail(E))
<1> DEFINE F == Tail(E)
           V == Tail(W)
<1>1. /\ W \in Seq(Int) /\ Len(W) \in Nat /\ Len(E) \in Nat \ {0} /\ DOMAIN E = 1..Len(E) /\ Head(E) = E[1]
      /\ F \in Seq(Int) /\ DOMAIN F = 1..(Len(E) - 1) /\ \A n \in 1..(Len(E) - 1) : F[n] = E[n + 1]
  <2>1. W \in Seq(Int)
    BY DEF Lists
  <2> QED BY <2>1
<1>2. PICK g \in [1..Len(W) -> DOMAIN E] :
       /\ \A k \in 1..Len(W) : W[k] = E[g[k]] /\ W[k] # EndMark
       /\ \A j, k \in 1..Len(W) : j < k => g[j] < g[k]
       /\ \A n \in DOMAIN E : E[n] # EndMark => \E k \in 1..Len(W) : g[k] = n
  BY DEF Lists
<1>3. \A k \in 1..Len(W) : g[k] \in 1..Len(E)
  BY <1>1, <1>2
<1>4. \A m \in 1..Len(E) : m # 1 => m - 1 \in 1..(Len(E) - 1) /\ F[m - 1] = E[m]
  <2> TAKE m \in 1..Len(E)
  <2> HAVE m # 1
  <2>1. m - 1 \in 1..(Len(E) - 1) /\ (m - 1) + 1 = m
    BY <1>1
  <2> QED BY <2>1, <1>1
<1>5. \A n \in 1..(Len(E) - 1) : n + 1 \in 1..Len(E) /\ n + 1 # 1 /\ F[n] = E[n + 1] /\ (n + 1) - 1 = n
  BY <1>1
<1> HIDE DEF F
<1>6. CASE E[1] = EndMark
  <2> DEFINE h == [k \in 1..Len(W) |-> g[k] - 1]
  <2>1. \A k \in 1..Len(W) : g[k] # 1
    BY <1>2, <1>6
  <2>2. \A k \in 1..Len(W) : h[k] = g[k] - 1 /\ h[k] \in DOMAIN F /\ F[h[k]] = E[g[k]]
    BY <2>1, <1>1, <1>3, <1>4
  <2>3. h \in [1..Len(W) -> DOMAIN F]
    <3>1. \A k \in 1..Len(W) : g[k] - 1 \in DOMAIN F
      BY <2>2
    <3> QED BY <3>1
  <2> HIDE DEF h
  <2>4. \A k \in 1..Len(W) : W[k] = F[h[k]] /\ W[k] # EndMark
    BY <2>2, <1>2
  <2>5. ASSUME NEW j \in 1..Len(W), NEW k \in 1..Len(W), j < k PROVE h[j] < h[k]
    <3>1. g[j] \in Int /\ g[k] \in Int /\ g[j] < g[k]
      BY <2>5, <1>2, <1>3
    <3> QED BY <3>1, <2>2
  <2>6. ASSUME NEW n \in DOMAIN F, F[n] # EndMark PROVE \E k \in 1..Len(W) : h[k] = n
    <3>1. n + 1 \in DOMAIN E /\ E[n + 1] # EndMark /\ (n + 1) - 1 = n
      BY <2>6, <1>1, <1>5
    <3>2. PICK k \in 1..Len(W) : g[k] = n + 1
      BY <3>1, <1>2
    <3> QED BY <3>1, <3>2, <2>2
  <2>7. Lists(W, F)
    BY <1>1, <2>3, <2>4, <2>5, <2>6 DEF Lists
  <2> QED BY <2>7, <1>1, <1>6 DEF F
<1>7. CASE E[1] # EndMark
  <2>1. PICK o \in 1..Len(W) : g[o] = 1
    BY <1>1, <1>2, <1>7
  <2>2. o = 1
    <3>1. SUFFICES ASSUME o # 1 PROVE FALSE
      OBVIOUS
    <3>2. 1 \in 1..Len(W) /\ 1 < o
      BY <3>1, <1>1
    <3>3. g[1] < 1 /\ g[1] \in 1..Len(E)
      BY <3>2, <2>1, <1>2, <1>3
    <3> QED BY <3>3, <1>1
  <2>3. /\ Len(W) >= 1 /\ W # <<>> /\ Head(W) = W[1] /\ V \in Seq(Int) /\ Len(V) = Len(W) - 1
        /\ \A k \in 1..(Len(W) - 1) : V[k] = W[k + 1]
    BY <2>1, <1>1
  <2>4. Head(W) = E[1]
    BY <2>1, <2>2, <2>3, <1>2
  <2> HIDE DEF V
  <2> DEFINE h == [k \in 1..Len(V) |-> g[k + 1] - 1]
  <2>5. \A k \in 1..Len(V) : k + 1 \in 1..Len(W) /\ 1 < k + 1 /\ V[k] = W[k + 1]
    BY <2>3, <1>1
  <2>6. \A k \in 1..Len(V) : g[k + 1] \in 1..Len(E) /\ g[k + 1] # 1
    <3> TAKE k \in 1..Len(V)
    <3>1. g[1] < g[k + 1]
      BY <2>1, <2>2, <2>5, <1>2
    <3>2. g[1] = 1 /\ g[k + 1] \in 1..Len(E)
      BY <2>1, <2>2, <2>5, <1>3
    <3> QED BY <3>1, <3>2
  <2>7. \A k \in 1..Len(V) : h[k] = g[k + 1] - 1 /\ h[k] \in DOMAIN F /\ F[h[k]] = E[g[k + 1]]
    BY <2>6, <1>1, <1>4
  <2>8. h \in [1..Len(V) -> DOMAIN F]
    <3>1. \A k \in 1..Len(V) : g[k + 1] - 1 \in DOMAIN F
      BY <2>7
    <3> QED BY <3>1
  <2> HIDE DEF h
  <2>9. \A k \in 1..Len(V) : V[k] = F[h[k]] /\ V[k] # EndMark
    <3> TAKE k \in 1..Len(V)
    <3>1. k + 1 \in 1..Len(W) /\ V[k] = W[k + 1]
      BY <2>5
    <3> DEFINE n == k + 1
    <3>2. n \in 1..Len(W) /\ V[k] = W[n] /\ F[h[k]] = E[g[n]]
      BY <3>1, <2>7
    <3> HIDE DEF n
    <3>3. W[n] = E[g[n]] /\ W[n] # EndMark
      BY <3>2, <1>2
    <3> QED BY <3>2, <3>3
  <2>10. ASSUME NEW j \in 1..Len(V), NEW k \in 1..Len(V), j < k PROVE h[j] < h[k]
    <3>1. j + 1 < k + 1
      BY <2>10, <2>3, <1>1
    <3>2. g[j + 1] < g[k + 1]
      BY <3>1, <2>5, <1>2
    <3>3. g[j + 1] \in Int /\ g[k + 1] \in Int
      BY <2>6
    <3>4. h[j] = g[j + 1] - 1 /\ h[k] = g[k + 1] - 1
      BY <2>7
    <3> QED BY <3>2, <3>3, <3>4
  <2>11. ASSUME NEW n \in DOMAIN F, F[n] # EndMark PROVE \E k \in 1..Len(V) : h[k] = n
    <3>1. n + 1 \in DOMAIN E /\ E[n + 1] # EndMark /\ n + 1 # 1 /\ (n + 1) - 1 = n
      BY <2>11, <1>1, <1>5
    <3>2. PICK k \in 1..Len(W) : g[k] = n + 1
      BY <3>1, <1>2
    <3>3. k # 1
      BY <3>1, <3>2, <2>1, <2>2
    <3>4. k - 1 \in 1..Len(V) /\ (k - 1) + 1 = k
      BY <3>3, <2>3, <1>1
    <3>5. h[k - 1] = n
      BY <3>1, <3>2, <3>4, <2>7
    <3> QED BY <3>4, <3>5
  <2>12. Lists(V, F)
    BY <2>3, <2>8, <2>9, <2>10, <2>11 DEF Lists
  <2> QED BY <2>3, <2>4, <2>12, <1>1, <1>7 DEF F, V
<1> QED BY <1>6, <1>7

\* The first of a list may as well stand at the end of what is before it.
LEMMA ConcatTail ==
  ASSUME NEW c \in Seq(Int), NEW W \in Seq(Int), W # <<>>
  PROVE  c \o W = Append(c, Head(W)) \o Tail(W)
OBVIOUS

LEMMA ConcatNothing ==
  ASSUME NEW c \in Seq(Int)
  PROVE  c \o <<>> = c
OBVIOUS

\* What waits is either nothing, or makes Waiting true.
LEMMA ListsAll ==
  ASSUME NEW E \in Seq(Int)
  PROVE  /\ (~\E e \in ToSet(E) : e # EndMark) => Lists(<<>>, E) /\ \A W : Lists(W, E) => W = <<>>
BY ListsNothing

-------------------------------------------------------------------------------
(* The invariant that the agent is sent the context and what waits *)

Excused ==
  \/ mishaps \intersect {"torn", "lagging", "unheard", "overtaken", "mistaken"} # {}
  \/ command.what \in {"new", "resume"}

\* What waits for the session is part of the conversation.
Said(T, E) == \A e \in ToSet(E) \ {EndMark} : T[e].kind \in Messages

\* The session is deaf only during a command, or a summary that a command has started.
Listens == heard \/ command.what # "none" \/ job.what = "manual"

InStep(T, C, A, E) == \E W : Lists(W, E) /\ Sent(T, A) = Sent(T, C \o W)

StepInv ==
  /\ Said(table, events)
  /\ Listens
  /\ Excused \/ InStep(table, Context(table, mem.ids, mem.leaf), agent, events)

LEMMA SentMore ==
  ASSUME NEW T, NEW A \in Seq(Int), NEW k \in Int
  PROVE  Sent(T, Append(A, k)) = IF T[k].kind # "error" THEN Append(Sent(T, A), k) ELSE Sent(T, A)
<1> DEFINE B == Append(A, k)
           P == {n \in DOMAIN A : T[A[n]].kind # "error"}
           Q == {n \in DOMAIN B : T[B[n]].kind # "error"}
<1>1. /\ DOMAIN A = 1..Len(A) /\ DOMAIN B = 1..(Len(A) + 1) /\ Len(A) \in Nat
      /\ B[Len(A) + 1] = k /\ \A n \in 1..Len(A) : B[n] = A[n]
  OBVIOUS
<1> DEFINE m == Len(A) + 1
<1>2. \A n \in 1..Len(A) : n \in DOMAIN A /\ n \in DOMAIN B /\ B[n] = A[n]
  BY <1>1
<1>3. m \in DOMAIN B /\ B[m] = k
  BY <1>1
<1> HIDE DEF B
<1>4. \A n \in 1..Len(A) : n \in P <=> n \in Q
  BY <1>2, Zenon
<1>5. m \in Q <=> T[k].kind # "error"
  BY <1>3
<1> HIDE DEF P, Q
<1>6. Picked(B, Q) = IF m \in Q THEN Append(Picked(A, P), k) ELSE Picked(A, P)
  BY <1>4, PickedAppend DEF B
<1> QED BY <1>5, <1>6 DEF Sent, B, P, Q

LEMMA SentSame ==
  ASSUME NEW T, NEW U, SameEntries(T, U), NEW A, Listed(T, A)
  PROVE  Sent(U, A) = Sent(T, A)
<1>1. A \in Seq(Int) /\ \A n \in DOMAIN A : U[A[n]].kind = T[A[n]].kind
  BY DEF Listed, SameEntries, ToSet
<1>2. \A n \in 1..Len(A) : n \in {m \in DOMAIN A : T[A[m]].kind # "error"}
                             <=> n \in {m \in DOMAIN A : U[A[m]].kind # "error"}
  BY <1>1
<1> QED BY <1>1, <1>2, PickedAlike DEF Sent

LEMMA SentFront ==
  ASSUME NEW T, NEW A, Listed(T, A), A # <<>>, T[Last(A)].kind = "error"
  PROVE  Sent(T, Front(A)) = Sent(T, A)
<1> DEFINE B == Front(A)
           k == Last(A)
<1>1. A \in Seq(Int)
  BY DEF Listed
<1>2. B \in Seq(Int) /\ k \in Int /\ A = Append(B, k)
  BY <1>1 DEF Front, Last
<1> HIDE DEF B, k
<1>3. Sent(T, Append(B, k)) = Sent(T, B)
  <2>1. T[k].kind = "error"
    BY DEF k
  <2> QED BY <2>1, <1>2, SentMore
<1> QED BY <1>2, <1>3 DEF B

\* A table that has more entries, or in which some have got a place.
LEMMA InStepLater ==
  ASSUME NEW T, NEW U, SameEntries(T, U), NEW A, Listed(T, A), NEW C, Listed(T, C),
         NEW M, NEW F, NEW E, Waits(T, M, F, E), InStep(T, C, A, E)
  PROVE  InStep(U, C, A, E)
<1>1. PICK W : Lists(W, E) /\ Sent(T, A) = Sent(T, C \o W)
  BY DEF InStep
<1>2. C \in Seq(Int) /\ W \in Seq(Int)
  BY <1>1 DEF Listed, Lists
<1>3. ASSUME NEW w \in ToSet(W) PROVE w \in DOMAIN T
  <2>1. PICK j \in 1..Len(W) : w = W[j]
    BY <1>2 DEF ToSet
  <2>2. PICK n \in DOMAIN E : W[j] = E[n] /\ E[n] # EndMark
    BY <1>1 DEF Lists
  <2> QED BY <2>1, <2>2 DEF Waits, Unplaced
<1>4. C \o W \in Seq(Int) /\ ToSet(C \o W) = ToSet(C) \union ToSet(W)
  BY <1>2, ConcatOf
<1>5. Listed(T, C \o W)
  BY <1>3, <1>4 DEF Listed
<1>6. Sent(U, A) = Sent(T, A) /\ Sent(U, C \o W) = Sent(T, C \o W)
  BY <1>5, SentSame
<1> QED BY <1>1, <1>6 DEF InStep

LEMMA TakesOffSends ==
  ASSUME SInv, TakesOff
  PROVE  Excused' \/ Sent(table, agent') = Sent(table, agent)
<1>1. CASE EndsInReply
  <2>1. CASE table[Last(agent)].kind = "error"
    <3>1. Listed(table, agent) /\ agent # <<>> /\ agent' = Front(agent)
      BY <1>1, InvTypes DEF TakesOff, EndsInReply
    <3> QED BY <3>1, <2>1, SentFront
  <2>2. CASE table[Last(agent)].kind # "error"
    BY <1>1, <2>2 DEF TakesOff, Blames, Excused
  <2> QED BY <2>1, <2>2
<1>2. CASE ~EndsInReply
  BY <1>2 DEF TakesOff
<1> QED BY <1>1, <1>2

LEMMA SaidLater ==
  ASSUME NEW T, NEW M, NEW F, NEW E, Waits(T, M, F, E), Said(T, E), NEW U, SameEntries(T, U),
         NEW D, ToSet(D) \subseteq ToSet(E)
  PROVE  Said(U, D)
<1> SUFFICES ASSUME NEW e \in ToSet(D) \ {EndMark} PROVE U[e].kind \in Messages
  BY DEF Said
<1>1. e \in ToSet(E) \ {EndMark}
  OBVIOUS
<1>2. T[e].kind \in Messages
  BY <1>1 DEF Said
<1>3. e \in DOMAIN T
  BY <1>1 DEF Waits, Unplaced, ToSet
<1> QED BY <1>2, <1>3 DEF SameEntries

LEMMA NewStoreContext ==
  ASSUME NEW M, NEW E, NEW x, NEW T, NEW out, StoresNew(M, E, x, T, out)
  PROVE  /\ Said(table, E) => Said(table', E)
         /\ SameEntries(table, table')
         /\ out.ok \in BOOLEAN
         /\ x.kind # "compaction" =>
              Context(table', mem'.ids, mem'.leaf) =
                IF x.kind \in Shown THEN Append(Context(table, M.ids, M.leaf), Next1)
                ELSE Context(table, M.ids, M.leaf)
<1>1. /\ Fits(table, M, E) /\ Enters(table, x, T)
      /\ out \in Writes(ToWrite(T, M, Next1)) /\ Store(T, M, Next1, out)
  BY DEF StoresNew
<1>2. /\ Fits(T, M, E) /\ Unplaced(T, M, files, Next1) /\ Next1 \notin ToSet(E)
      /\ T[Next1] = x /\ SameEntries(table, T)
  BY <1>1, NewStores
<1>3. Stores(T, M, Next1, E, out)
  BY <1>1, <1>2 DEF Stores
<1>4. SameEntries(T, table') /\ out.ok \in BOOLEAN
  BY <1>3, StoreFacts
<1>5. ASSUME Said(table, E) PROVE Said(table', E)
  <2>1. Said(T, E)
    BY <1>1, <1>2, <1>5, SaidLater DEF Fits
  <2> QED BY <2>1, <1>2, <1>4, SaidLater DEF Fits
<1>6. Context(T, M.ids, M.leaf) = Context(table, M.ids, M.leaf)
  BY <1>1, EntersContext
<1>7. /\ Appended(T, M.ids, M.leaf, table', Next1) /\ table'[Next1].kind = x.kind
      /\ mem'.ids = Append(M.ids, Next1) /\ mem'.leaf = Next1
  <2>1. /\ Appended(T, M.ids, M.leaf, table', Next1) /\ table'[Next1].kind = T[Next1].kind
        /\ mem'.ids = Append(M.ids, Next1) /\ mem'.leaf = Next1
    BY <1>3, StoreAppends
  <2> QED BY <2>1, <1>2
<1>8. ASSUME x.kind # "compaction"
      PROVE  Context(table', mem'.ids, mem'.leaf) =
               IF x.kind \in Shown THEN Append(Context(table, M.ids, M.leaf), Next1)
               ELSE Context(table, M.ids, M.leaf)
  <2> DEFINE U == table'
             k == Next1
  <2> HIDE DEF U, k
  <2>1. Appended(T, M.ids, M.leaf, U, k) /\ U[k].kind = x.kind
    BY <1>7 DEF U, k
  <2> DEFINE ids == M.ids
             leaf == M.leaf
  <2>2. Appended(T, ids, leaf, U, k) /\ U[k].kind # "compaction"
    BY <2>1, <1>8
  <2> HIDE DEF ids, leaf
  <2>3. Context(U, Append(ids, k), k) =
          IF U[k].kind \in Shown THEN Append(Context(T, ids, leaf), k) ELSE Context(T, ids, leaf)
    BY <2>2, ContextAppend
  <2> QED BY <2>1, <2>3, <1>6, <1>7 DEF U, k, ids, leaf
<1>9. SameEntries(table, table')
  <2>1. Len(table) \in Nat /\ Len(T) \in Nat /\ Len(table') \in Nat /\ DOMAIN table = 1..Len(table) /\ DOMAIN T = 1..Len(T)
    BY <1>1, <1>2, <1>3, StoreFacts, CoreTypes DEF Fits
  <2> QED BY <2>1, <1>2, <1>4 DEF SameEntries
<1> QED BY <1>4, <1>5, <1>8, <1>9

\* The agent gets the context, and nothing waits that is not in it.
LEMMA GetsContext ==
  ASSUME SInv', Said(table', events'), Listens',
         Sent(table', agent') = Sent(table', Context(table', mem'.ids, mem'.leaf)),
         ToSet(events') \subseteq {EndMark} \/ Excused'
  PROVE  StepInv'
<1> DEFINE C == Context(table', mem'.ids, mem'.leaf)
<1>1. C \in Seq(Int) /\ events' \in Seq(Int)
  <2>1. Core(table', mem', files', origin') /\ Waits(table', mem', files', events')
    BY DEF SInv
  <2> QED BY <2>1, ContextListed DEF Listed, Waits
<1>2. ASSUME ToSet(events') \subseteq {EndMark} PROVE InStep(table', C, agent', events')
  <2> DEFINE T == table'
             A == agent'
             E == events'
  <2>1. C \in Seq(Int) /\ E \in Seq(Int) /\ ToSet(E) \subseteq {EndMark} /\ Sent(T, A) = Sent(T, C)
    BY <1>1, <1>2
  <2> HIDE DEF C, T, A, E
  <2>2. Lists(<<>>, E)
    BY <2>1, ListsNothing
  <2>3. C = C \o <<>>
    BY <2>1, ConcatNothing
  <2>4. InStep(T, C, A, E)
    BY <2>1, <2>2, <2>3 DEF InStep
  <2> QED BY <2>4 DEF T, A, E
<1>3. Said(table, events)' /\ (Excused' \/ InStep(table, Context(table, mem.ids, mem.leaf), agent, events)')
  BY <1>2
<1> QED BY <1>3 DEF StepInv

\* A step that leaves the session alone, and takes no more than a failed reply off the agent.
LEMMA StandsStill ==
  ASSUME StepInv, UNCHANGED <<table, mem, events>>, Listens', Excused => Excused',
         agent' = agent \/ Excused' \/ Sent(table, agent') = Sent(table, agent)
  PROVE  StepInv'
BY DEF StepInv, InStep

LEMMA ExcusedLater ==
  ASSUME mishaps \subseteq mishaps', command' = command
  PROVE  Excused => Excused'
BY DEF Excused

LEMMA CompactStays ==
  ASSUME StepInv, Compact
  PROVE  StepInv'
<1>1. /\ command.what = "none" /\ command' = [what |-> "compact", file |-> 0]
      /\ UNCHANGED <<table, mem, agent, events, mishaps>>
  BY DEF Compact
<1>2. command'.what = "compact"
  BY <1>1
<1>3. Listens' /\ (Excused => Excused')
  BY <1>1, <1>2 DEF Listens, Excused
<1> QED BY <1>1, <1>3, StandsStill

LEMMA CompactsStays ==
  ASSUME StepInv, Compacts
  PROVE  StepInv'
<1>1. /\ command.what = "compact" /\ UNCHANGED <<table, mem, agent, events, mishaps>>
      /\ job'.what = "manual" \/ heard'
  BY DEF Compacts, Starts
<1>2. Listens' /\ (Excused => Excused')
  BY <1>1 DEF Listens, Excused
<1> QED BY <1>1, <1>2, StandsStill

LEMMA SummaryFailsStays ==
  ASSUME StepInv, SummaryFails
  PROVE  StepInv'
<1>1. /\ heard' = (heard \/ job.what = "manual") /\ command' = command
      /\ UNCHANGED <<table, mem, agent, events, mishaps>>
  BY DEF SummaryFails
<1>2. Listens'
  BY <1>1 DEF StepInv, Listens
<1>3. Excused => Excused'
  BY <1>1, ExcusedLater
<1> QED BY <1>1, <1>2, <1>3, StandsStill

LEMMA NavigateWithSummaryStays ==
  ASSUME StepInv, NavigateWithSummary
  PROVE  StepInv'
<1>1. /\ job.what = "none" /\ UNCHANGED <<table, mem, agent, events, mishaps, heard, command>>
  BY DEF NavigateWithSummary
<1>2. Listens'
  BY <1>1 DEF StepInv, Listens
<1>3. Excused => Excused'
  BY <1>1, ExcusedLater
<1> QED BY <1>1, <1>2, <1>3, StandsStill

LEMMA LeaveStays ==
  ASSUME StepInv, Leave
  PROVE  StepInv'
<1>1. /\ command'.what \in {"new", "resume"} /\ UNCHANGED <<table, mem, agent, events>>
  BY DEF Leave
<1>2. Listens' /\ Excused'
  BY <1>1 DEF Listens, Excused
<1> QED BY <1>1, <1>2, StandsStill

LEMMA EmitStays ==
  ASSUME SInv, SInv', StepInv, Room(1), NEW kind \in Messages, NEW ref \in Nat,
         table' = Append(table, Made(kind, ref, {})),
         NEW marks \in {<<>>, <<EndMark>>}, Emit(Next1, marks)
  PROVE  StepInv'
<1> DEFINE x == Made(kind, ref, {})
           k == Next1
           T == table'
           C == Context(table, mem.ids, mem.leaf)
<1>1. x \in Entry /\ x.parent = Header /\ x.kind = kind
  BY InvTypes, MadeGood DEF Kinds, Shown
<1>2. /\ agent' = Append(agent, k)
      /\ events' = IF heard THEN events \o <<k>> \o marks ELSE events
      /\ mishaps' = mishaps \union {y \in {"unheard"} : ~heard /\ (command.what = "compact" \/ job.what = "manual")}
      /\ UNCHANGED <<files, mem, heard, command, job, origin>>
  BY DEF Emit, Blames
<1> HIDE DEF x
<1>3. Enters(table, x, T)
  BY <1>1, InvTypes DEF Enters, Room, x
<1>4. Waits(table, mem, files, events) /\ Listed(table, agent) /\ Fits(table, mem, events)
  BY InvTypes, FitsNow
<1> HIDE DEF T
<1>5. /\ SameEntries(table, T) /\ T[k] = x /\ k \in Nat /\ k # EndMark
  <2>1. SameEntries(table, T) /\ T[k] = x /\ k \in Nat
    BY <1>3, <1>4, NewStores
  <2>2. k # EndMark
    BY InvTypes DEF Next1, EndMark
  <2> QED BY <2>1, <2>2
<1>6. Context(T, mem.ids, mem.leaf) = C
  BY <1>3, <1>4, EntersContext
<1>7. C \in Seq(Int)
  <2>1. Listed(table, C)
    BY <1>4, ContextListed DEF Fits
  <2> QED BY <2>1 DEF Listed
<1> HIDE DEF C, k
<1> DEFINE b == Append(events, k)
           E == events \o <<k>> \o marks
<1>8. events \in Seq(Int) /\ b \in Seq(Int) /\ E = b \o marks /\ ToSet(b) = ToSet(events) \union {k}
  <2>1. events \in Seq(Int)
    BY <1>4 DEF Waits
  <2>2. b = events \o <<k>> /\ b \in Seq(Int) /\ <<k>> \in Seq(Int)
    BY <2>1, <1>5
  <2>3. ToSet(<<k>>) = {k}
    BY DEF ToSet
  <2>4. ToSet(events \o <<k>>) = ToSet(events) \union ToSet(<<k>>)
    BY <2>1, <2>2, ConcatOf
  <2> QED BY <2>1, <2>2, <2>3, <2>4
<1>9. E = b \/ E = Append(b, EndMark)
  <2>1. CASE marks = <<>>
    BY <2>1, <1>8
  <2>2. CASE marks = <<EndMark>>
    <3>1. b \o <<EndMark>> = Append(b, EndMark)
      BY <1>8 DEF EndMark
    <3> QED BY <3>1, <2>2, <1>8
  <2> QED BY <2>1, <2>2
<1>10. ToSet(E) \subseteq ToSet(events) \union {k, EndMark}
  <2>1. marks \in Seq(Int) /\ ToSet(marks) \subseteq {EndMark}
    <3>1. <<>> \in Seq(Int) /\ <<EndMark>> \in Seq(Int) /\ ToSet(<<>>) = {} /\ ToSet(<<EndMark>>) = {EndMark}
      BY DEF ToSet, EndMark
    <3> QED BY <3>1
  <2>2. ToSet(b \o marks) = ToSet(b) \union ToSet(marks)
    BY <2>1, <1>8, ConcatOf
  <2> QED BY <2>1, <2>2, <1>8
<1> HIDE DEF E
<1>11. Said(T, events')
  <2>1. Said(T, events)
    BY <1>4, <1>5, SaidLater DEF StepInv
  <2>2. T[k].kind \in Messages
    BY <1>1, <1>5
  <2>3. ToSet(events') \subseteq ToSet(events) \union {k, EndMark}
    BY <1>2, <1>10 DEF E
  <2> QED BY <2>1, <2>2, <2>3 DEF Said
<1>12. Listens'
  BY <1>2 DEF StepInv, Listens
<1>13. Excused => Excused'
  <2>1. mishaps \subseteq mishaps' /\ command' = command
    BY <1>2
  <2> QED BY <2>1, ExcusedLater
<1>14. CASE ~Excused /\ heard
  <2> DEFINE A == agent
  <2>0. InStep(T, C, A, events)
    <3>1. InStep(table, C, A, events)
      BY <1>14 DEF StepInv, C
    <3>2. Listed(table, C) /\ Listed(table, A)
      BY <1>4, ContextListed DEF C, Fits
    <3> QED BY <3>1, <3>2, <1>4, <1>5, InStepLater
  <2>1. PICK W : Lists(W, events) /\ Sent(T, A) = Sent(T, C \o W)
    BY <2>0 DEF InStep
  <2>2. W \in Seq(Int)
    BY <2>1 DEF Lists
  <2>3. Lists(Append(W, k), b)
    BY <2>1, <1>5, <1>8, ListsAppend
  <2>4. Lists(Append(W, k), E)
    <3>1. CASE E = b
      BY <3>1, <2>3
    <3>2. CASE E = Append(b, EndMark)
      <4> DEFINE V == Append(W, k)
      <4>1. b \in Seq(Int) /\ Lists(V, b) /\ EndMark \in Int
        BY <2>3, <1>8 DEF EndMark
      <4> HIDE DEF V, b
      <4>2. Lists(IF EndMark = EndMark THEN V ELSE Append(V, EndMark), Append(b, EndMark))
        BY <4>1, ListsAppend
      <4>3. Lists(V, Append(b, EndMark))
        BY <4>2
      <4> QED BY <4>3, <3>2 DEF V
    <3> QED BY <3>1, <3>2, <1>9
  <2>5. Sent(T, agent') = Sent(T, C \o Append(W, k))
    <3> DEFINE D == C \o W
    <3>1. agent' = Append(A, k) /\ A \in Seq(Int)
      BY <1>2, <1>4 DEF Listed
    <3>2. C \o Append(W, k) = Append(D, k) /\ D \in Seq(Int)
      BY <2>2, <1>5, <1>7, ConcatAppend
    <3>3. Sent(T, A) = Sent(T, D)
      BY <2>1
    <3> HIDE DEF A, D
    <3>4. Sent(T, Append(A, k)) = Sent(T, Append(D, k))
      <4>1. k \in Int
        BY <1>5
      <4>2. /\ Sent(T, Append(A, k)) = IF T[k].kind # "error" THEN Append(Sent(T, A), k) ELSE Sent(T, A)
            /\ Sent(T, Append(D, k)) = IF T[k].kind # "error" THEN Append(Sent(T, D), k) ELSE Sent(T, D)
        BY <4>1, <3>1, <3>2, SentMore
      <4> QED BY <4>2, <3>3
    <3> QED BY <3>1, <3>2, <3>4
  <2>6. events' = E
    BY <1>2, <1>14 DEF E
  <2>7. InStep(T, C, agent', events')
    BY <2>4, <2>5, <2>6 DEF InStep
  <2>8. Context(table', mem'.ids, mem'.leaf) = C
    BY <1>2, <1>6 DEF T
  <2>9. InStep(table, Context(table, mem.ids, mem.leaf), agent, events)'
    BY <2>7, <2>8 DEF T
  <2> QED BY <2>9, <1>11, <1>12 DEF StepInv, T
<1>15. CASE ~Excused /\ ~heard
  <2>1. command.what = "compact" \/ job.what = "manual"
    <3>1. command.what \in {"none", "compact", "new", "resume"}
      BY InvTypes DEF Control, CommandOk
    <3> QED BY <3>1, <1>15 DEF StepInv, Listens, Excused
  <2>2. "unheard" \in mishaps'
    BY <2>1, <1>2, <1>15
  <2>3. Excused'
    BY <2>2 DEF Excused
  <2> QED BY <2>3, <1>11, <1>12 DEF StepInv, T
<1>16. CASE Excused
  BY <1>11, <1>12, <1>13, <1>16 DEF StepInv, T
<1> QED BY <1>14, <1>15, <1>16

LEMMA PromptStays ==
  ASSUME SInv, SInv', StepInv, Prompt
  PROVE  StepInv'
<1>1. Room(1) /\ table' = Append(table, Made("user", 0, {})) /\ Emit(Next1, <<>>)
  BY DEF Prompt
<1>2. "user" \in Messages
  BY DEF Messages
<1> QED BY <1>1, <1>2, EmitStays

LEMMA RespondStays ==
  ASSUME SInv, SInv', StepInv, Respond
  PROVE  StepInv'
<1>1. PICK kind \in Replies :
        /\ table' = Append(table, Made(kind, 0, {}))
        /\ Emit(Next1, IF kind = "call" THEN <<>> ELSE <<EndMark>>)
  BY DEF Respond
<1>2. kind \in Messages /\ Room(1)
  BY DEF Respond, Messages
<1> DEFINE marks == IF kind = "call" THEN <<>> ELSE <<EndMark>>
<1>3. marks \in {<<>>, <<EndMark>>} /\ Emit(Next1, marks)
  BY <1>1
<1> HIDE DEF marks
<1> QED BY <1>1, <1>2, <1>3, EmitStays

LEMMA LastCall ==
  ASSUME SInv, turn = "called"
  PROVE  Max({i \in DOMAIN table : table[i].kind = "call"}) \in Nat
<1> DEFINE calls == {i \in DOMAIN table : table[i].kind = "call"}
           n == Len(table)
<1>1. CallMade(table)
  BY DEF SInv
<1>2. DOMAIN table = 1..Len(table) /\ Len(table) \in Nat
  BY InvTypes
<1>3. calls # {} /\ calls \subseteq 0..n /\ n \in Nat
  BY <1>1, <1>2 DEF CallMade
<1> HIDE DEF calls, n
<1>4. Max(calls) \in calls
  BY <1>3, GreatestOfSet
<1>5. 0..n \subseteq Nat
  BY <1>3
<1>6. Max(calls) \in Nat
  BY <1>3, <1>4, <1>5, Zenon
<1> QED BY <1>6 DEF calls

LEMMA ToolEndsStays ==
  ASSUME SInv, SInv', StepInv, ToolEnds
  PROVE  StepInv'
<1> DEFINE ref == Max({i \in DOMAIN table : table[i].kind = "call"})
<1>1. Room(1) /\ turn = "called" /\ table' = Append(table, Made("result", ref, {})) /\ Emit(Next1, <<>>)
  BY DEF ToolEnds
<1>2. "result" \in Messages
  BY DEF Messages
<1>3. ref \in Nat
  BY <1>1, LastCall
<1> HIDE DEF ref
<1> QED BY <1>1, <1>2, <1>3, EmitStays

\* A handler, or prompt(), that changes no more than the agent's list, the job and itself.
LEMMA ChecksStays ==
  ASSUME SInv, StepInv, UNCHANGED <<table, mem, heard, command>>,
         \/ events' = events
         \/ events # <<>> /\ Head(events) = EndMark /\ events' = Tail(events),
         \/ \E reply, what : Checks(reply, what)
         \/ job' = job /\ (TakesOff \/ UNCHANGED <<agent, mishaps>>)
  PROVE  StepInv'
<1>1. (UNCHANGED <<agent, mishaps>> \/ TakesOff) /\ (job' = job \/ job.what = "none")
  BY ChecksIs
<1>2. Waits(table, mem, files, events) /\ events \in Seq(Int)
  BY InvTypes DEF Waits
<1>3. Said(table, events')
  <2>1. ToSet(events') \subseteq ToSet(events)
    BY <1>2, TailWaits
  <2> QED BY <2>1 DEF StepInv, Said
<1>4. Listens'
  BY <1>1 DEF StepInv, Listens
<1>5. Excused => Excused'
  BY <1>1, ExcusedLater DEF TakesOff, Blames
<1>6. Excused' \/ Sent(table, agent') = Sent(table, agent)
  BY <1>1, TakesOffSends
<1>7. ASSUME ~Excused PROVE Excused' \/ InStep(table, Context(table, mem.ids, mem.leaf), agent', events')
  <2>1. PICK W : Lists(W, events) /\ Sent(table, agent) = Sent(table, Context(table, mem.ids, mem.leaf) \o W)
    BY <1>7 DEF StepInv, InStep
  <2>2. Lists(W, events')
    BY <2>1, <1>2, ListsTail
  <2> QED BY <2>1, <2>2, <1>6 DEF InStep
<1> QED BY <1>3, <1>4, <1>5, <1>7 DEF StepInv

LEMMA AgentEndStays ==
  ASSUME SInv, StepInv, AgentEnd
  PROVE  StepInv'
<1>1. /\ UNCHANGED <<table, mem, heard, command>>
      /\ events # <<>> /\ Head(events) = EndMark /\ events' = Tail(events)
      /\ \/ \E reply, what : Checks(reply, what)
         \/ job' = job /\ (TakesOff \/ UNCHANGED <<agent, mishaps>>)
  BY DEF AgentEnd, Unblocked
<1> QED BY <1>1, ChecksStays

LEMMA RetryEndsStays ==
  ASSUME SInv, StepInv, RetryEnds
  PROVE  StepInv'
<1>1. /\ UNCHANGED <<table, mem, heard, command, events>>
      /\ \/ \E reply, what : Checks(reply, what)
         \/ UNCHANGED <<job, agent, mishaps>>
  BY ChecksSizeChecks DEF RetryEnds
<1> QED BY <1>1, ChecksStays

LEMMA CheckBeforeStays ==
  ASSUME SInv, StepInv, CheckBefore
  PROVE  StepInv'
<1>1. UNCHANGED <<table, mem, heard, command, events>> /\ \E reply, what : Checks(reply, what)
  BY DEF CheckBefore
<1> QED BY <1>1, ChecksStays

LEMMA ContinueStays ==
  ASSUME StepInv, Continue
  PROVE  StepInv'
<1>1. UNCHANGED <<table, mem, agent, events, heard, command, job, mishaps>>
  BY DEF Continue
<1>2. Listens' /\ (Excused => Excused')
  BY <1>1 DEF StepInv, Listens, Excused
<1> QED BY <1>1, <1>2, StandsStill

LEMMA MessageEndStays ==
  ASSUME SInv, StepInv, MessageEnd
  PROVE  StepInv'
<1> DEFINE i == Head(events)
           E == Tail(events)
           C == Context(table, mem.ids, mem.leaf)
<1>1. /\ events # <<>> /\ i # EndMark /\ events' = E
      /\ UNCHANGED <<agent, turn, heard, command, job, origin>>
  BY DEF MessageEnd, Unblocked
<1>2. PICK out \in Writes(ToWrite(table, mem, i)) :
        /\ Store(table, mem, i, out)
        /\ Blames(Torn1(out))
  BY DEF MessageEnd
<1>3. /\ Core(table, mem, files, origin) /\ Waits(table, mem, files, events) /\ events \in Seq(Int)
  BY InvTypes DEF Waits
<1>4. /\ Waits(table, mem, files, E) /\ ToSet(E) \subseteq ToSet(events)
      /\ i \in ToSet(events) /\ Unplaced(table, mem, files, i) /\ i \notin ToSet(E)
  BY <1>1, <1>3, TailWaits
<1>5. ASSUME NEW W, Lists(W, events)
      PROVE  W \in Seq(Int) /\ W # <<>> /\ Head(W) = i /\ Lists(Tail(W), E)
  <2>1. W \in Seq(Int)
    BY <1>5 DEF Lists
  <2> QED BY <2>1, <1>1, <1>3, <1>5, ListsTail
<1> HIDE DEF i, E
<1>6. Fits(table, mem, E)
  BY <1>3, <1>4, FitsNow DEF Fits
<1>7. Stores(table, mem, i, E, out)
  BY <1>2, <1>4, <1>6 DEF Stores
<1>8. SameEntries(table, table') /\ out.ok \in BOOLEAN
  BY <1>7, StoreFacts
<1>9. table[i].kind \in Messages
  BY <1>1, <1>4 DEF StepInv, Said
<1>10. Said(table', E)
  BY <1>3, <1>4, <1>8, SaidLater DEF StepInv
<1>11. Listens'
  BY <1>1 DEF StepInv, Listens
<1>12. Excused => Excused'
  <2>1. mishaps \subseteq mishaps' /\ command' = command
    BY <1>1, <1>2 DEF Blames
  <2> QED BY <2>1, ExcusedLater
<1>13. Listed(table, C) /\ C \in Seq(Int) /\ Listed(table, agent)
  <2>1. Listed(table, C)
    BY <1>3, ContextListed
  <2> QED BY <2>1, InvTypes DEF Listed
<1>14. Context(table', mem'.ids, mem'.leaf) = Append(C, i)
  <2>1. /\ Appended(table, mem.ids, mem.leaf, table', i) /\ table'[i].kind = table[i].kind
        /\ mem'.ids = Append(mem.ids, i) /\ mem'.leaf = i
    BY <1>7, StoreAppends
  <2> DEFINE U == table'
             ids == mem.ids
             leaf == mem.leaf
  <2>2. /\ Appended(table, ids, leaf, U, i) /\ U[i].kind # "compaction" /\ U[i].kind \in Shown
        /\ C = Context(table, ids, leaf)
    BY <2>1, <1>9 DEF Messages, Shown, Replies
  <2> HIDE DEF U, ids, leaf, C
  <2>3. Context(U, Append(ids, i), i) = Append(C, i)
    BY <2>2, ContextAppend
  <2> QED BY <2>1, <2>3 DEF U, ids
<1> HIDE DEF C
<1>15. ASSUME ~Excused PROVE InStep(table', Append(C, i), agent, E)
  <2> DEFINE U == table'
  <2>0. InStep(table, C, agent, events) /\ SameEntries(table, U)
    BY <1>15, <1>8 DEF StepInv, C
  <2> HIDE DEF U
  <2>1. PICK W : Lists(W, events) /\ Sent(U, agent) = Sent(U, C \o W)
    <3>1. InStep(U, C, agent, events)
      BY <2>0, <1>3, <1>13, InStepLater
    <3> QED BY <3>1 DEF InStep
  <2>2. W \in Seq(Int) /\ W # <<>> /\ Head(W) = i /\ Lists(Tail(W), E)
    BY <2>1, <1>5
  <2>3. C \o W = Append(C, i) \o Tail(W)
    BY <2>2, <1>13, ConcatTail
  <2> QED BY <2>1, <2>2, <2>3 DEF InStep, U
<1>16. Excused' \/ InStep(table, Context(table, mem.ids, mem.leaf), agent, events)'
  BY <1>1, <1>12, <1>14, <1>15
<1> QED BY <1>1, <1>10, <1>11, <1>16 DEF StepInv

LEMMA NothingElseWaits ==
  ASSUME events' = events, Waiting => "lagging" \in mishaps' \/ "overtaken" \in mishaps'
  PROVE  ToSet(events') \subseteq {EndMark} \/ Excused'
BY NothingWaits DEF Excused

LEMMA TornExcuses ==
  ASSUME SInv', Said(table', events'), Listens', "torn" \in mishaps'
  PROVE  StepInv'
BY DEF StepInv, Excused

LEMMA CompactedStays ==
  ASSUME SInv, SInv', StepInv, Compacted
  PROVE  StepInv'
<1> DEFINE x == [Made("compaction", job.kept, job.covers) EXCEPT !.home = job.file]
           T == Append(table, x)
           blame(out) == Torn1(out)
                    \union {y \in {"lagging"} : out.ok /\ Waiting}
                    \union {y \in {"midturn"} : turn # "idle"}
                    \union {y \in {"astray"} : Astray}
                    \union {y \in {"recompacted"} : PassesOver}
<1>1. /\ Room(1) /\ heard' = (heard \/ job.what = "manual")
      /\ UNCHANGED <<events, turn, command, origin>>
  BY DEF Compacted
<1>2. PICK out \in Writes(ToWrite(T, mem, Next1)) :
        /\ Store(T, mem, Next1, out)
        /\ agent' = IF ~out.ok THEN agent
                    ELSE IF job.again THEN WithoutError(table', Context(table', mem'.ids, mem'.leaf))
                    ELSE Context(table', mem'.ids, mem'.leaf)
        /\ Blames(blame(out))
  BY DEF Compacted
<1>3. x \in Entry /\ x.parent = Header
  <2>1. /\ "compaction" \in Kinds /\ job.kept \in Nat /\ job.covers \in SUBSET Nat /\ job.file \in Nat
        /\ mem.file \in Nat
    BY InvTypes DEF Control, JobOk, Kinds
  <2> DEFINE y == Made("compaction", job.kept, job.covers)
  <2>2. y \in Entry /\ y.parent = Header
    BY <2>1, MadeGood
  <2> HIDE DEF y
  <2>3. x = [y EXCEPT !.home = job.file]
    BY DEF y
  <2> QED BY <2>1, <2>2, <2>3 DEF Entry
<1>4. /\ ~out.ok => "torn" \in mishaps'
      /\ out.ok /\ Waiting => "lagging" \in mishaps'
  BY <1>2 DEF Blames, Torn1
<1> HIDE DEF x, blame
<1>5. Enters(table, x, T)
  BY <1>1, <1>3, InvTypes DEF Enters, Room
<1> HIDE DEF T
<1>6. StoresNew(mem, events, x, T, out)
  BY <1>2, <1>5, FitsNow DEF StoresNew
<1>7. Said(table', events') /\ out.ok \in BOOLEAN
  BY <1>1, <1>6, NewStoreContext DEF StepInv
<1>8. Listens'
  BY <1>1 DEF StepInv, Listens
<1>9. CASE out.ok
  <2> DEFINE U == table'
             C == Context(table', mem'.ids, mem'.leaf)
  <2>0. agent' \in {C, WithoutError(U, C)} /\ Listed(U, C)
    <3>1. Core(table', mem', files', origin')
      BY DEF SInv
    <3> QED BY <3>1, <1>2, <1>9, ContextListed
  <2> HIDE DEF U, C
  <2>1. Sent(U, agent') = Sent(U, C)
    BY <2>0, SentFront DEF WithoutError
  <2>2. ToSet(events') \subseteq {EndMark} \/ Excused'
    BY <1>1, <1>4, <1>9, NothingElseWaits
  <2> QED BY <2>1, <2>2, <1>7, <1>8, GetsContext DEF U, C
<1>10. CASE ~out.ok
  BY <1>4, <1>7, <1>8, <1>10, TornExcuses
<1> QED BY <1>7, <1>9, <1>10

LEMMA NavigateStays ==
  ASSUME SInv, SInv', StepInv, Navigate
  PROVE  StepInv'
<1>1. /\ Blames(Disturbs)
      /\ UNCHANGED <<table, files, events, turn, heard, command, job, origin>>
  BY DEF Navigate
<1>2. agent' = Context(table', mem'.ids, mem'.leaf)
  BY <1>1 DEF Navigate, MoveTo
<1>3. Said(table', events') /\ Listens'
  BY <1>1 DEF StepInv, Listens
<1>4. ToSet(events') \subseteq {EndMark} \/ Excused'
  <2>1. Waiting => "lagging" \in mishaps'
    BY <1>1 DEF Blames, Disturbs
  <2> QED BY <2>1, <1>1, NothingElseWaits
<1> QED BY <1>2, <1>3, <1>4, GetsContext

LEMMA NavigatedStays ==
  ASSUME SInv, SInv', StepInv, Navigated
  PROVE  StepInv'
<1>1. job.what = "tree" /\ UNCHANGED <<events, turn, heard, command, origin>>
  BY DEF Navigated
<1>2. Listens'
  BY <1>1 DEF StepInv, Listens
<1>3. CASE UNCHANGED <<table, files, mem, agent, used, mishaps>>
  <2>1. Excused => Excused'
    BY <1>1, <1>3, ExcusedLater
  <2> QED BY <2>1, <1>1, <1>2, <1>3, StandsStill
<1>4. CASE Here(job.leaf) /\ Room(1)
           /\ LET T == Append(table, Made("branch_summary", 0, job.covers))
                  M == [mem EXCEPT !.leaf = job.leaf]
              IN \E out \in Writes(ToWrite(T, M, Next1)) :
                   /\ Store(T, M, Next1, out)
                   /\ agent' = IF out.ok THEN Context(table', mem'.ids, mem'.leaf) ELSE agent
                   /\ used' = used + (IF out.ok THEN 0 ELSE 1)
                   /\ Blames(Torn1(out) \union Disturbs
                             \union {x \in {"astray"} : job.file # mem.file})
  <2> DEFINE x == Made("branch_summary", 0, job.covers)
             T == Append(table, x)
             M == [mem EXCEPT !.leaf = job.leaf]
             blame(out) == Torn1(out) \union Disturbs \union {y \in {"astray"} : job.file # mem.file}
  <2>1. PICK out \in Writes(ToWrite(T, M, Next1)) :
          /\ Store(T, M, Next1, out)
          /\ agent' = IF out.ok THEN Context(table', mem'.ids, mem'.leaf) ELSE agent
          /\ Blames(blame(out))
    BY <1>4
  <2>2. Fits(table, M, events)
    BY <1>4, MovedFits
  <2>3. x \in Entry /\ x.parent = Header
    <3>1. "branch_summary" \in Kinds /\ job.covers \in SUBSET Nat /\ mem.file \in Nat
      BY InvTypes DEF Control, JobOk, Kinds, Shown
    <3> QED BY <3>1, MadeGood
  <2>4. /\ ~out.ok => "torn" \in mishaps'
        /\ Waiting => "lagging" \in mishaps'
    BY <2>1 DEF Blames, Torn1, Disturbs
  <2> HIDE DEF x, M, blame
  <2>5. Enters(table, x, T)
    BY <1>4, <2>3, InvTypes DEF Enters, Room
  <2> HIDE DEF T
  <2>6. StoresNew(M, events, x, T, out)
    BY <2>1, <2>2, <2>5 DEF StoresNew
  <2>7. Said(table', events') /\ out.ok \in BOOLEAN
    BY <1>1, <2>6, NewStoreContext DEF StepInv
  <2>8. CASE out.ok
    <3>1. agent' = Context(table', mem'.ids, mem'.leaf)
      BY <2>1, <2>8
    <3>2. ToSet(events') \subseteq {EndMark} \/ Excused'
      BY <1>1, <2>4, NothingElseWaits
    <3> QED BY <3>1, <3>2, <1>2, <2>7, GetsContext
  <2>9. CASE ~out.ok
    BY <1>2, <2>4, <2>7, <2>9, TornExcuses
  <2> QED BY <2>7, <2>8, <2>9
<1> QED BY <1>3, <1>4 DEF Navigated

LEMMA ForkStays ==
  ASSUME SInv, SInv', StepInv, Fork
  PROVE  StepInv'
<1>1. PICK f, from, B : ForksTo(f, from, B)
  BY ForkIs
<1>2. table' = B.table /\ Forked(table, mem.ids, from, f, B)
  BY <1>1 DEF ForksTo
<1>3. UNCHANGED <<events, turn, heard, command, job>> /\ (Waiting => "lagging" \in mishaps')
  BY ForkIs
<1>6. SameEntries(table, B.table)
  BY <1>2, InvTypes, ForkedGood
<1>7. agent' = Context(table', mem'.ids, mem'.leaf)
  BY <1>1 DEF ForksTo
<1>8. Said(table', events')
  <2>1. Waits(table, mem, files, events)
    BY InvTypes
  <2> QED BY <2>1, <1>2, <1>3, <1>6, SaidLater DEF StepInv
<1>9. Listens'
  BY <1>3 DEF StepInv, Listens
<1>10. ToSet(events') \subseteq {EndMark} \/ Excused'
  BY <1>3, NothingElseWaits
<1> QED BY <1>7, <1>8, <1>9, <1>10, GetsContext

\* The table grows, and the context stays.
LEMMA StillInStep ==
  ASSUME SInv, StepInv, SameEntries(table, table'), Excused => Excused', events' = events,
         Context(table', mem'.ids, mem'.leaf) = Context(table, mem.ids, mem.leaf),
         \/ agent' = agent
         \/ Listed(table, agent') /\ (Excused' \/ Sent(table, agent') = Sent(table, agent))
  PROVE  Excused' \/ InStep(table, Context(table, mem.ids, mem.leaf), agent, events)'
<1> DEFINE C == Context(table, mem.ids, mem.leaf)
           U == table'
           A == agent'
<1>1. Waits(table, mem, files, events) /\ Listed(table, C) /\ Listed(table, A)
  BY InvTypes, ContextListed
<1>2. SameEntries(table, U) /\ (Excused' \/ Sent(table, A) = Sent(table, agent))
  OBVIOUS
<1>3. ASSUME ~Excused' PROVE InStep(table, C, A, events)
  <2>1. InStep(table, C, agent, events) /\ Sent(table, A) = Sent(table, agent)
    BY <1>2, <1>3 DEF StepInv
  <2> HIDE DEF A, C
  <2> QED BY <2>1 DEF InStep
<1> HIDE DEF C, U, A
<1>4. ASSUME ~Excused' PROVE InStep(U, C, A, events)
  BY <1>1, <1>2, <1>3, <1>4, InStepLater
<1> QED BY <1>4 DEF C, U, A

LEMMA UnshownStays ==
  ASSUME NEW x, NEW T, NEW out, x.kind \in {"label", "setting"}, StoresNew(mem, events, x, T, out)
  PROVE  /\ Said(table, events) => Said(table', events)
         /\ SameEntries(table, table')
         /\ Context(table', mem'.ids, mem'.leaf) = Context(table, mem.ids, mem.leaf)
<1>1. x.kind # "compaction" /\ x.kind \notin Shown
  BY DEF Shown, Messages, Replies
<1>2. x.kind # "compaction" =>
        Context(table', mem'.ids, mem'.leaf) =
          IF x.kind \in Shown THEN Append(Context(table, mem.ids, mem.leaf), Next1)
          ELSE Context(table, mem.ids, mem.leaf)
  BY NewStoreContext
<1> QED BY <1>1, <1>2, NewStoreContext

LEMMA FallsBackStays ==
  ASSUME SInv, SInv', StepInv, FallsBack
  PROVE  StepInv'
<1>1. UNCHANGED <<events, turn, heard, command, origin>>
  BY FallsBackIs
<1>2. ASSUME NEW x, NEW T, NEW out, FallenBack(x, T, out) PROVE StepInv'
  <2>1. x.kind = "setting" /\ StoresNew(mem, events, x, T, out) /\ out.ok \in BOOLEAN
    BY <1>2 DEF FallenBack, Adds
  <2>2. /\ Said(table', events') /\ SameEntries(table, table')
        /\ Context(table', mem'.ids, mem'.leaf) = Context(table, mem.ids, mem.leaf)
    BY <2>1, <1>1, UnshownStays DEF StepInv
  <2>3. Listens'
    BY <1>1, <1>2 DEF StepInv, Listens, FallenBack
  <2>4. CASE out.ok
    <3>1. TakesOff
      BY <1>2, <2>4 DEF FallenBack
    <3>2. Excused => Excused'
      BY <3>1, <1>1, ExcusedLater DEF TakesOff, Blames
    <3>3. Excused' \/ InStep(table, Context(table, mem.ids, mem.leaf), agent, events)'
      BY <3>1, <3>2, <2>2, <1>1, TakesOffKeeps, TakesOffSends, StillInStep
    <3> QED BY <3>3, <2>2, <2>3 DEF StepInv
  <2>5. CASE ~out.ok
    <3>1. "torn" \in mishaps'
      BY <1>2, <2>5 DEF FallenBack, Blames
    <3> QED BY <3>1, <2>2, <2>3, TornExcuses
  <2> QED BY <2>1, <2>4, <2>5
<1> QED BY <1>1, <1>2, FallsBackIs, ChecksStays

LEMMA LabelStays ==
  ASSUME SInv, SInv', StepInv, Label
  PROVE  StepInv'
<1>1. PICK x, T, out : Adds("label", x, T, out)
  BY LabelIs
<1>2. x.kind = "label" /\ StoresNew(mem, events, x, T, out)
  BY <1>1 DEF Adds
<1>3. /\ Said(table', events') /\ SameEntries(table, table')
      /\ Context(table', mem'.ids, mem'.leaf) = Context(table, mem.ids, mem.leaf)
  BY <1>2, LabelIs, UnshownStays DEF StepInv
<1>4. Listens'
  BY LabelIs DEF StepInv, Listens
<1>5. Excused => Excused'
  BY LabelIs, ExcusedLater
<1>6. Excused' \/ InStep(table, Context(table, mem.ids, mem.leaf), agent, events)'
  BY LabelIs, <1>3, <1>5, StillInStep
<1> QED BY <1>3, <1>4, <1>6 DEF StepInv

LEMMA BashStays ==
  ASSUME SInv, SInv', StepInv, Bash
  PROVE  StepInv'
<1> DEFINE C == Context(table, mem.ids, mem.leaf)
<1>1. /\ agent' = Append(agent, Next1)
      /\ mishaps' = mishaps \union {y \in {"overtaken"} : Waiting}
      /\ UNCHANGED <<events, turn, heard, command, job, origin>>
  BY BashIs
<1>2. PICK x, T, out : Adds("bash", x, T, out)
  BY BashIs
<1>5. x.kind = "bash" /\ StoresNew(mem, events, x, T, out)
  BY <1>2 DEF Adds
<1>6. Said(table', events') /\ SameEntries(table, table')
  BY <1>1, <1>5, NewStoreContext DEF StepInv
<1>7. Context(table', mem'.ids, mem'.leaf) = Append(C, Next1)
  <2>1. x.kind # "compaction" /\ x.kind \in Shown
    BY <1>5 DEF Shown, Messages
  <2>2. x.kind # "compaction" =>
          Context(table', mem'.ids, mem'.leaf) = IF x.kind \in Shown THEN Append(C, Next1) ELSE C
    BY <1>5, NewStoreContext
  <2> QED BY <2>1, <2>2
<1>8. Listens'
  BY <1>1 DEF StepInv, Listens
<1>9. CASE Excused
  <2>1. Excused'
    <3>1. mishaps \subseteq mishaps' /\ command' = command
      BY <1>1
    <3> QED BY <3>1, <1>9, ExcusedLater
  <2> QED BY <2>1, <1>6, <1>8 DEF StepInv
<1>10. CASE ~Excused /\ Waiting
  <2>1. "overtaken" \in mishaps'
    BY <1>1, <1>10
  <2>2. Excused'
    BY <2>1 DEF Excused
  <2> QED BY <2>2, <1>6, <1>8 DEF StepInv
<1>11. CASE ~Excused /\ ~Waiting
  <2>1. events \in Seq(Int) /\ Listed(table, C)
    <3>1. Core(table, mem, files, origin) /\ Waits(table, mem, files, events)
      BY InvTypes
    <3> QED BY <3>1, ContextListed DEF Waits
  <2>2. PICK W : Lists(W, events) /\ Sent(table, agent) = Sent(table, C \o W)
    BY <1>11 DEF StepInv, InStep
  <2>3. ToSet(events) \subseteq {EndMark}
    BY <1>11, NothingWaits
  <2>4. W = <<>>
    BY <2>1, <2>2, <2>3, ListsNothing
  <2> HIDE DEF C
  <2> DEFINE A == agent
             U == table'
             k == Next1
  <2>5. Sent(table, A) = Sent(table, C) /\ A \in Seq(Int) /\ C \in Seq(Int) /\ k \in Int
        /\ Listed(table, A) /\ SameEntries(table, U)
    BY <2>1, <2>2, <2>4, <1>6, InvTypes, ConcatNothing DEF Listed, Next1
  <2> HIDE DEF A, U, k
  <2>6. Sent(U, Append(A, k)) = Sent(U, Append(C, k))
    <3>1. Sent(U, A) = Sent(U, C)
      BY <2>1, <2>5, SentSame
    <3> QED BY <3>1, <2>5, SentMore
  <2>8. Sent(table', agent') = Sent(table', Context(table', mem'.ids, mem'.leaf))
    BY <2>6, <1>1, <1>7 DEF A, U, k
  <2>7. ToSet(events') \subseteq {EndMark}
    BY <2>3, <1>1
  <2> QED BY <2>7, <2>8, <1>6, <1>8, GetsContext
<1> QED BY <1>9, <1>10, <1>11

\* A session of nothing but settings has no context.
LEMMA ContextNothing ==
  ASSUME NEW T, NEW M, NEW F, NEW O, Core(T, M, F, O), \A i \in Members(M.ids) : T[i].kind = "setting"
  PROVE  Context(T, M.ids, M.leaf) = <<>>
<1> DEFINE C == Context(T, M.ids, M.leaf)
<1>1. /\ GoodTable(T) /\ GoodIds(T, M.ids) /\ M.leaf \in Members(M.ids) \union {Header}
  BY CoreTypes DEF Core
<1>2. /\ ToSet(C) \subseteq Members(M.ids)
      /\ \A i \in ToSet(C) : T[i].kind \in Shown \union {"compaction"}
  BY <1>1, ContextShown
<1>3. C \in Seq(Int)
  BY ContextListed DEF Listed
<1> HIDE DEF C
<1>4. "setting" \notin Shown \union {"compaction"}
  BY DEF Shown, Messages, Replies
<1>5. ToSet(C) = {}
  BY <1>2, <1>4
<1>6. \A n \in DOMAIN C : FALSE
  BY <1>5 DEF ToSet
<1>7. Len(C) = 0
  <2>1. DOMAIN C = 1..Len(C) /\ Len(C) \in Nat
    BY <1>3
  <2> QED BY <2>1, <1>6
<1>8. C = <<>>
  BY <1>3, <1>7
<1> QED BY <1>8 DEF C

LEMMA NewSessionStays ==
  ASSUME SInv, SInv', StepInv, NewSession
  PROVE  StepInv'
<1> DEFINE f == Min(Unused)
           x == [Setting EXCEPT !.home = f]
           k == Next1
<1>1. /\ Unused # {} /\ Room(1)
      /\ table' = Append(table, x) /\ mem' = Fresh(f, k)
      /\ agent' = <<>> /\ heard' = TRUE /\ events' = events
      /\ mishaps' = mishaps \union {y \in {"lagging"} : Waiting}
  BY DEF NewSession, Blames
<1>2. f \in File
  BY <1>1, UnusedFile
<1> HIDE DEF f
<1>3. x \in Entry /\ x.parent = Header /\ x.kind = "setting"
  BY <1>2, SettingGood
<1> HIDE DEF x
<1> DEFINE T == table'
<1>4. Enters(table, x, T)
  BY <1>1, <1>3, InvTypes DEF Enters, Room
<1> HIDE DEF T
<1>5. T[k] = x /\ SameEntries(table, T)
  BY <1>4, FitsNow, NewStores
<1> HIDE DEF k
<1>6. Said(T, events)
  <2>1. Waits(table, mem, files, events)
    BY InvTypes
  <2> QED BY <2>1, <1>5, SaidLater DEF StepInv
<1>7. \A i \in Members(mem'.ids) : table'[i].kind = "setting"
  <2>1. mem'.ids = <<Header, k>>
    BY <1>1 DEF Fresh
  <2>2. Members(<<Header, k>>) \subseteq {k}
    BY DEF Members, ToSet
  <2>3. table'[k].kind = "setting"
    BY <1>3, <1>5 DEF T
  <2> QED BY <2>1, <2>2, <2>3
<1>8. Context(table', mem'.ids, mem'.leaf) = <<>>
  <2>1. Core(table', mem', files', origin')
    BY DEF SInv
  <2> QED BY <2>1, <1>7, ContextNothing
<1>9. ToSet(events') \subseteq {EndMark} \/ Excused'
  BY <1>1, NothingElseWaits
<1>10. Said(table', events') /\ Listens'
  BY <1>1, <1>6 DEF Listens, T
<1> QED BY <1>1, <1>8, <1>9, <1>10, GetsContext

LEMMA OpensStays ==
  ASSUME SInv, SInv', StepInv, NEW f \in File, Valid(files[f]), NEW started, Opens(f, started),
         NEW E, events' = E, E = events \/ E = <<>>, heard' = TRUE,
         ToSet(E) \subseteq {EndMark} \/ "lagging" \in mishaps'
  PROVE  StepInv'
<1> DEFINE M == OpenedMem(f)
           x == [Setting EXCEPT !.home = f]
           T == Append(table, x)
           restored == Context(table, Loaded(files[f]), Last(Loaded(files[f])))
<1>1. Waits(table, mem, files, E) /\ Said(table, E)
  <2>1. Waits(table, mem, files, events) /\ Said(table, events)
    BY InvTypes DEF StepInv
  <2>2. Waits(table, mem, files, <<>>) /\ Said(table, <<>>)
    BY DEF Waits, Said, ToSet
  <2> QED BY <2>1, <2>2
<1>2. /\ Fits(table, M, E) /\ M.ids = Loaded(files[f]) /\ M.leaf = Last(Loaded(files[f]))
  BY <1>1, OpenedFits
<1>3. /\ \/ mem' = M /\ UNCHANGED <<table, files>>
         \/ /\ Room(1)
            /\ \E out \in Writes(ToWrite(T, M, Next1)) : out.ok /\ Store(T, M, Next1, out)
      /\ agent' = restored
  BY DEF Opens, OpenedMem
<1> HIDE DEF M
<1>4. restored = Context(table, M.ids, M.leaf)
  BY <1>2
<1> HIDE DEF restored
<1>5. Listens' /\ (ToSet(events') \subseteq {EndMark} \/ Excused')
  BY DEF Listens, Excused
<1>6. CASE mem' = M /\ UNCHANGED <<table, files>>
  <2>1. Said(table', events') /\ agent' = Context(table', mem'.ids, mem'.leaf)
    BY <1>1, <1>3, <1>4, <1>6
  <2> QED BY <2>1, <1>5, GetsContext
<1>7. CASE Room(1) /\ \E out \in Writes(ToWrite(T, M, Next1)) : out.ok /\ Store(T, M, Next1, out)
  <2>1. PICK out \in Writes(ToWrite(T, M, Next1)) : out.ok /\ Store(T, M, Next1, out)
    BY <1>7
  <2>2. x \in Entry /\ x.parent = Header /\ x.kind = "setting"
    BY SettingGood
  <2> HIDE DEF x
  <2>3. Enters(table, x, T)
    BY <1>7, <2>2, InvTypes DEF Enters, Room
  <2> HIDE DEF T
  <2>4. StoresNew(M, E, x, T, out)
    BY <2>1, <2>3, <1>2 DEF StoresNew
  <2>5. Said(table', E)
    BY <2>4, <1>1, NewStoreContext
  <2>6. x.kind # "compaction" /\ x.kind \notin Shown
    BY <2>2 DEF Shown, Messages, Replies
  <2>7. Context(table', mem'.ids, mem'.leaf) = Context(table, M.ids, M.leaf)
    <3>1. x.kind # "compaction" =>
            Context(table', mem'.ids, mem'.leaf) =
              IF x.kind \in Shown THEN Append(Context(table, M.ids, M.leaf), Next1)
              ELSE Context(table, M.ids, M.leaf)
      BY <2>4, NewStoreContext
    <3> QED BY <3>1, <2>6
  <2>8. Said(table', events') /\ agent' = Context(table', mem'.ids, mem'.leaf)
    BY <2>5, <2>7, <1>3, <1>4
  <2> QED BY <2>8, <1>5, GetsContext
<1> QED BY <1>3, <1>6, <1>7

LEMMA ResumeStays ==
  ASSUME SInv, SInv', StepInv, Resume
  PROVE  StepInv'
<1>1. /\ command.what = "resume" /\ Opens(command.file, FALSE) /\ heard' = TRUE
      /\ mishaps' = mishaps \union {x \in {"lagging"} : Waiting} /\ events' = events
  BY DEF Resume, Blames
<1>2. command.file \in File /\ Valid(files[command.file])
  BY <1>1, InvTypes DEF Control, CommandOk
<1>3. ToSet(events) \subseteq {EndMark} \/ "lagging" \in mishaps'
  BY <1>1, NothingWaits
<1> QED BY <1>1, <1>2, <1>3, OpensStays

LEMMA RestartStays ==
  ASSUME SInv, SInv', StepInv, Restart
  PROVE  StepInv'
<1>1. events' = <<>> /\ heard' = TRUE
  BY DEF Restart
<1>2. PICK f \in File : Valid(files[f]) /\ Opens(f, TRUE)
  BY DEF Restart
<1>3. ToSet(<<>>) \subseteq {EndMark}
  BY DEF ToSet
<1> QED BY <1>1, <1>2, <1>3, OpensStays

LEMMA StepKeeps ==
  ASSUME SInv, SInv', StepInv, [Next]_vars
  PROVE  StepInv'
<1>1. CASE Next
  BY <1>1, PromptStays, RespondStays, ToolEndsStays, ContinueStays, MessageEndStays,
     AgentEndStays, FallsBackStays, RetryEndsStays, CheckBeforeStays, CompactStays, CompactsStays,
     CompactedStays, SummaryFailsStays, NavigateStays, NavigateWithSummaryStays, NavigatedStays,
     ForkStays, LabelStays, BashStays, LeaveStays, NewSessionStays, ResumeStays, RestartStays DEF
     Next
<1>2. CASE UNCHANGED vars
  <2>1. UNCHANGED <<table, mem, agent, events, heard, command, job, mishaps>>
    BY <1>2 DEF vars
  <2>2. Listens' /\ (Excused => Excused')
    BY <2>1 DEF StepInv, Listens, Excused
  <2> QED BY <2>1, <2>2, StandsStill
<1> QED BY <1>1, <1>2

LEMMA InitInStep == Init => StepInv
<1> SUFFICES ASSUME Init PROVE StepInv
  OBVIOUS
<1>1. SInv
  BY InitHolds
<1>2. /\ table = <<Setting>> /\ mem.ids = <<Header, 1>> /\ agent = <<>> /\ events = <<>> /\ heard
  BY DEF Init
<1>3. Said(table, events) /\ Listens
  BY <1>2 DEF Said, ToSet, Listens
<1>4. Context(table, mem.ids, mem.leaf) = <<>>
  <2>1. Core(table, mem, files, origin)
    BY <1>1 DEF SInv
  <2>2. Members(<<Header, 1>>) \subseteq {1}
    BY DEF Members, ToSet
  <2>3. table[1].kind = "setting"
    BY <1>2 DEF Setting
  <2> QED BY <2>1, <2>2, <2>3, <1>2, ContextNothing
<1>5. InStep(table, <<>>, <<>>, <<>>)
  <2>1. ToSet(<<>>) \subseteq {EndMark}
    BY DEF ToSet
  <2>2. <<>> \in Seq(Int) /\ <<>> = <<>> \o <<>>
    OBVIOUS
  <2>3. Lists(<<>>, <<>>)
    BY <2>1, <2>2, ListsNothing
  <2> QED BY <2>2, <2>3 DEF InStep
<1> QED BY <1>2, <1>3, <1>4, <1>5 DEF StepInv

(***************************************************************************)
(* When no turn runs, no message waits in the queue and no command waits   *)
(* for the agent, what the model is sent of the agent's messages is what   *)
(* it would be sent of the session's context, as after a restart, over     *)
(* retries, whose failed replies only the agent forgets, fallbacks and     *)
(* compactions.  Unless the agent's list was replaced, or added to, while  *)
(* messages waited, the agent was not heard, a write stopped half way, or  *)
(* a handler took a reply off that had not failed.                         *)
(***************************************************************************)
THEOREM AgentsAreInStep == Spec => []AgentInStep
<1>1. SInv /\ StepInv => AgentInStep
  <2> DEFINE C == Context(table, mem.ids, mem.leaf)
  <2> SUFFICES ASSUME SInv, StepInv, ~Waiting, command.what = "none", ~Excused
               PROVE  Sent(table, agent) = Sent(table, C)
    BY DEF AgentInStep, Excused
  <2>1. events \in Seq(Int) /\ Listed(table, C)
    <3>1. Core(table, mem, files, origin) /\ Waits(table, mem, files, events)
      BY InvTypes
    <3> QED BY <3>1, ContextListed DEF Waits
  <2>2. PICK W : Lists(W, events) /\ Sent(table, agent) = Sent(table, C \o W)
    BY DEF StepInv, InStep
  <2>3. W = <<>>
    BY <2>1, <2>2, NothingWaits, ListsNothing
  <2> HIDE DEF C
  <2> QED BY <2>1, <2>2, <2>3, ConcatNothing DEF Listed
<1>2. Init => SInv /\ StepInv
  BY InitHolds, InitInStep
<1>3. SInv /\ StepInv /\ [Next]_vars => (SInv /\ StepInv)'
  <2> SUFFICES ASSUME SInv, StepInv, [Next]_vars PROVE SInv' /\ StepInv'
    OBVIOUS
  <2>1. SInv'
    BY NextKeeps
  <2> QED BY <2>1, StepKeeps
<1> QED BY <1>1, <1>2, <1>3, PTL DEF Spec

-------------------------------------------------------------------------------
(* What the entries of a path need of those before them *)

\* What may not stand between a call and its result.
Heeded == Shown \union {"compaction"}

\* The messages at the places a..b of the path are among those covered.
Covered(T, p, a, b, covers) ==
  \A m \in a..b : KindAt(T, p, m) \in Messages => p[m] \in covers

\* Entry r is one of the first n of the path, and what is said before it is covered.
KeepsFrom(T, p, n, r, covers) ==
  \E f \in 1..n : p[f] = r /\ Covered(T, p, 1, f - 1, covers)

\* From entry r on, the results among the first n have their calls.
CutsFrom(T, p, n, r) ==
  \E f \in 1..n :
    /\ p[f] = r
    /\ \A m \in f..n : KindAt(T, p, m) = "result" => \E k \in f..(m - 1) : p[k] = T[p[m]].ref

\* Of the first n, the call c is the last that counts.
EndsInCall(T, p, n, c) ==
  \E k \in 1..n :
    /\ p[k] = c /\ KindAt(T, p, k) = "call"
    /\ \A m \in (k + 1)..n : KindAt(T, p, m) \notin Heeded

\* The past of the entry at n is on the path; before a compaction everything is kept or covered.
KeptAt(T, p, n) ==
  /\ \A x \in T[p[n]].past : \E m \in 1..n : p[m] = x /\ KindAt(T, p, m) \in Messages
  /\ KindAt(T, p, n) = "compaction" => KeepsFrom(T, p, n - 1, T[p[n]].ref, T[p[n]].covers)

\* The result at n stands by its call; a compaction does not cut between the two.
PairedAt(T, p, n) ==
  /\ KindAt(T, p, n) = "result" => EndsInCall(T, p, n - 1, T[p[n]].ref)
  /\ KindAt(T, p, n) = "compaction" => CutsFrom(T, p, n - 1, T[p[n]].ref)

\* (a: nothing that makes a session forget has happened; b: nothing that parts calls and results.)
WholeAt(T, p, n, a, b) == (a => KeptAt(T, p, n)) /\ (b => PairedAt(T, p, n))
WholePath(T, p, a, b) == \A n \in 1..Len(p) : WholeAt(T, p, n, a, b)
WholeSession(T, ids, a, b) == \A i \in Members(ids) : WholePath(T, PathTo(T, ids, i), a, b)

\* It depends on nothing but the entries up to that place.
SameOn(T, p, U, q, n) ==
  /\ n \in Nat /\ \A m \in 1..n : q[m] = p[m] /\ U[p[m]] = T[p[m]]

LEMMA SaysTheSame ==
  ASSUME NEW T, NEW p, NEW U, NEW q, NEW n, SameOn(T, p, U, q, n)
  PROVE  /\ \A r, covers : KeepsFrom(T, p, n, r, covers) => KeepsFrom(U, q, n, r, covers)
         /\ \A r : CutsFrom(T, p, n, r) => CutsFrom(U, q, n, r)
         /\ \A c : EndsInCall(T, p, n, c) => EndsInCall(U, q, n, c)
<1>1. n \in Nat /\ \A m \in 1..n : q[m] = p[m] /\ U[q[m]] = T[p[m]]
  BY DEF SameOn
<1>2. ASSUME NEW r, NEW covers, KeepsFrom(T, p, n, r, covers) PROVE KeepsFrom(U, q, n, r, covers)
  <2>1. PICK f \in 1..n : p[f] = r /\ Covered(T, p, 1, f - 1, covers)
    BY <1>2 DEF KeepsFrom
  <2>2. \A m \in 1..(f - 1) : m \in 1..n
    BY <1>1
  <2>3. Covered(U, q, 1, f - 1, covers)
    BY <2>1, <2>2, <1>1 DEF Covered, KindAt
  <2> QED BY <2>1, <2>3, <1>1 DEF KeepsFrom
<1>3. ASSUME NEW r, CutsFrom(T, p, n, r) PROVE CutsFrom(U, q, n, r)
  <2>1. PICK f \in 1..n :
          /\ p[f] = r
          /\ \A m \in f..n : KindAt(T, p, m) = "result" => \E k \in f..(m - 1) : p[k] = T[p[m]].ref
    BY <1>3 DEF CutsFrom
  <2>2. ASSUME NEW m \in f..n, KindAt(U, q, m) = "result"
        PROVE  \E k \in f..(m - 1) : q[k] = U[q[m]].ref
    <3>1. m \in 1..n
      BY <1>1
    <3>2. PICK k \in f..(m - 1) : p[k] = T[p[m]].ref
      BY <2>1, <2>2, <3>1, <1>1 DEF KindAt
    <3>3. k \in 1..n
      BY <1>1
    <3> QED BY <3>1, <3>2, <3>3, <1>1
  <2> QED BY <2>1, <2>2, <1>1 DEF CutsFrom
<1>4. ASSUME NEW c, EndsInCall(T, p, n, c) PROVE EndsInCall(U, q, n, c)
  <2>1. PICK k \in 1..n : /\ p[k] = c /\ KindAt(T, p, k) = "call"
                          /\ \A m \in (k + 1)..n : KindAt(T, p, m) \notin Heeded
    BY <1>4 DEF EndsInCall
  <2>2. \A m \in (k + 1)..n : m \in 1..n
    BY <1>1
  <2>3. \A m \in (k + 1)..n : KindAt(U, q, m) \notin Heeded
    BY <2>1, <2>2, <1>1 DEF KindAt
  <2> QED BY <2>1, <2>3, <1>1 DEF EndsInCall, KindAt
<1> QED BY <1>2, <1>3, <1>4

LEMMA WholeTheSame ==
  ASSUME NEW T, NEW p, NEW U, NEW q, NEW n, SameOn(T, p, U, q, n), n # 0, NEW a, NEW b,
         WholeAt(T, p, n, a, b)
  PROVE  WholeAt(U, q, n, a, b)
<1>1. n \in Nat /\ \A m \in 1..n : q[m] = p[m] /\ U[q[m]] = T[p[m]]
  BY DEF SameOn
<1>2. q[n] = p[n] /\ U[q[n]] = T[p[n]]
  BY <1>1
<1> DEFINE l == n - 1
<1>3. SameOn(T, p, U, q, l)
  <2>1. l \in Nat /\ \A m \in 1..l : m \in 1..n
    BY <1>1
  <2> QED BY <2>1 DEF SameOn
<1> HIDE DEF l
<1>4. ASSUME KeptAt(T, p, n) PROVE KeptAt(U, q, n)
  <2>1. \A x \in U[q[n]].past : \E m \in 1..n : q[m] = x /\ KindAt(U, q, m) \in Messages
    BY <1>1, <1>2, <1>4 DEF KeptAt, KindAt
  <2>2. KindAt(U, q, n) = "compaction" => KeepsFrom(T, p, l, T[p[n]].ref, T[p[n]].covers)
    BY <1>2, <1>4 DEF KeptAt, KindAt, l
  <2>3. KindAt(U, q, n) = "compaction" => KeepsFrom(U, q, l, U[q[n]].ref, U[q[n]].covers)
    BY <2>2, <1>2, <1>3, SaysTheSame
  <2> QED BY <2>1, <2>3 DEF KeptAt, l
<1>5. ASSUME PairedAt(T, p, n) PROVE PairedAt(U, q, n)
  <2>1. /\ KindAt(U, q, n) = "result" => EndsInCall(T, p, l, T[p[n]].ref)
        /\ KindAt(U, q, n) = "compaction" => CutsFrom(T, p, l, T[p[n]].ref)
    BY <1>2, <1>5 DEF PairedAt, KindAt, l
  <2>2. /\ KindAt(U, q, n) = "result" => EndsInCall(U, q, l, U[q[n]].ref)
        /\ KindAt(U, q, n) = "compaction" => CutsFrom(U, q, l, U[q[n]].ref)
    BY <2>1, <1>2, <1>3, SaysTheSame
  <2> QED BY <2>2 DEF PairedAt, l
<1> QED BY <1>4, <1>5 DEF WholeAt

\* The path to an entry of a path is the part of it that ends there, and no entry is on it twice.
LEMMA PathToPrefix ==
  ASSUME NEW T, GoodTable(T), NEW ids, GoodIds(T, ids), NEW leaf \in Members(ids) \union {Header},
         NEW n \in 1..Len(PathTo(T, ids, leaf))
  PROVE  PathTo(T, ids, PathTo(T, ids, leaf)[n]) = SubSeq(PathTo(T, ids, leaf), 1, n)
<1> DEFINE K == Members(ids)
           p == PathTo(T, ids, leaf)
           i == p[n]
           q == PathTo(T, ids, i)
<1>1. IsPath(T, K, p, leaf) /\ p \in Seq(K) /\ K \subseteq Nat \ {0} /\ Ranked(T, K)
  BY PathOf
<1>2. i \in K
  BY <1>1
<1>3. IsPath(T, K, q, i)
  BY <1>2, PathOf
<1> HIDE DEF p, q, K
<1>4. IsPath(T, K, SubSeq(p, 1, n), p[n])
  <2>1. n \in 1..Len(p)
    BY DEF p
  <2> QED BY <2>1, <1>1, PathPrefix
<1>5. q = SubSeq(p, 1, n)
  BY <1>1, <1>2, <1>3, <1>4, PathIsUnique
<1> QED BY <1>5 DEF p, q

LEMMA PathDistinct ==
  ASSUME NEW T, GoodTable(T), NEW ids, GoodIds(T, ids), NEW leaf \in Members(ids) \union {Header},
         NEW m \in 1..Len(PathTo(T, ids, leaf)), NEW n \in 1..Len(PathTo(T, ids, leaf)),
         PathTo(T, ids, leaf)[m] = PathTo(T, ids, leaf)[n]
  PROVE  m = n
<1> DEFINE p == PathTo(T, ids, leaf)
<1>1. PathTo(T, ids, p[n]) = SubSeq(p, 1, n)
  BY PathToPrefix
<1>2. PathTo(T, ids, p[m]) = SubSeq(p, 1, m)
  BY PathToPrefix
<1>3. p \in Seq(Int)
  BY PathOf
<1>4. m \in 1..Len(p) /\ n \in 1..Len(p) /\ p[m] = p[n]
  OBVIOUS
<1> HIDE DEF p
<1>5. SubSeq(p, 1, n) = SubSeq(p, 1, m)
  BY <1>1, <1>2, <1>4
<1>6. Len(SubSeq(p, 1, n)) = n /\ Len(SubSeq(p, 1, m)) = m
  BY <1>3, <1>4
<1> QED BY <1>5, <1>6

-------------------------------------------------------------------------------
(* A session whose entries stay, and one that grows *)

\* The tables agree on the entries of the session.
SameIn(T, U, ids) ==
  /\ GoodTable(T) /\ GoodTable(U) /\ GoodIds(T, ids) /\ GoodIds(U, ids)
  /\ \A i \in Members(ids) : U[i] = T[i]

LEMMA PathSame ==
  ASSUME NEW T, NEW U, NEW ids, SameIn(T, U, ids), NEW i \in Members(ids) \union {Header}
  PROVE  /\ PathTo(U, ids, i) = PathTo(T, ids, i)
         /\ PathTo(T, ids, i) \in Seq(Int)
         /\ \A n \in 0..Len(PathTo(T, ids, i)) : SameOn(T, PathTo(T, ids, i), U, PathTo(T, ids, i), n)
<1> DEFINE p == PathTo(T, ids, i)
<1>1. GoodTable(T) /\ GoodTable(U) /\ GoodIds(T, ids) /\ GoodIds(U, ids)
  BY DEF SameIn
<1>2. SamePlaces(T, U, ids)
  BY DEF SameIn, SamePlaces
<1>3. PathTo(U, ids, i) = p
  BY <1>1, <1>2, ContextSame
<1>4. p \in Seq(Members(ids)) /\ p \in Seq(Int)
  BY <1>1, PathOf
<1> HIDE DEF p
<1>5. ASSUME NEW n \in 0..Len(p) PROVE SameOn(T, p, U, p, n)
  <2>1. \A m \in 1..n : p[m] \in Members(ids)
    BY <1>4
  <2> QED BY <2>1 DEF SameOn, SameIn
<1> QED BY <1>3, <1>4, <1>5 DEF p

LEMMA PathWholeSame ==
  ASSUME NEW T, NEW p \in Seq(Int), NEW U, \A n \in 0..Len(p) : SameOn(T, p, U, p, n), NEW a, NEW b,
         WholePath(T, p, a, b)
  PROVE  WholePath(U, p, a, b)
<1> SUFFICES ASSUME NEW n \in 1..Len(p) PROVE WholeAt(U, p, n, a, b)
  BY DEF WholePath
<1>1. SameOn(T, p, U, p, n) /\ n # 0 /\ WholeAt(T, p, n, a, b)
  BY DEF WholePath
<1> QED BY <1>1, WholeTheSame

LEMMA WholeSame ==
  ASSUME NEW T, NEW U, NEW ids, SameIn(T, U, ids), NEW a, NEW b, WholeSession(T, ids, a, b)
  PROVE  WholeSession(U, ids, a, b)
<1> SUFFICES ASSUME NEW i \in Members(ids) PROVE WholePath(U, PathTo(U, ids, i), a, b)
  BY DEF WholeSession
<1> DEFINE p == PathTo(T, ids, i)
<1>1. /\ PathTo(U, ids, i) = p /\ p \in Seq(Int)
      /\ \A n \in 0..Len(p) : SameOn(T, p, U, p, n)
  BY PathSame
<1>2. WholePath(T, p, a, b)
  BY DEF WholeSession
<1> HIDE DEF p
<1> QED BY <1>1, <1>2, PathWholeSame

\* A summary of path p that keeps the entry kept, and what follows it, is one that may be appended.
CutFits(T, p, kept, covers) ==
  \E cut \in (LastCompaction(T, p) + 1)..Len(p) :
    /\ p[cut] = kept
    /\ Covered(T, p, LastCompaction(T, p) + 1, cut - 1, covers)
    /\ \/ cut = LastCompaction(T, p) + 1
       \/ \E j \in cut..Len(p) : /\ KindAt(T, p, j) \in CutKinds
                                 /\ \A m \in cut..(j - 1) : KindAt(T, p, m) \notin Messages

JobFits(T, ids, j) ==
  j.leaf \in Members(ids) /\ CutFits(T, PathTo(T, ids, j.leaf), j.kept, j.covers)

LEMMA CutSame ==
  ASSUME NEW T, NEW p \in Seq(Int), NEW U, SameOn(T, p, U, p, Len(p)), NEW kept, NEW covers,
         CutFits(T, p, kept, covers)
  PROVE  CutFits(U, p, kept, covers)
<1>1. \A m \in 1..Len(p) : U[p[m]] = T[p[m]]
  BY DEF SameOn
<1>2. LastCompaction(U, p) = LastCompaction(T, p)
  <2>1. GoesOn(T, p, U, p)
    <3>1. (Len(p) + 1)..Len(p) = {} /\ Len(p) <= Len(p)
      OBVIOUS
    <3> QED BY <3>1, <1>1 DEF GoesOn
  <2> QED BY <2>1, SeenAlike
<1> DEFINE c == LastCompaction(T, p)
<1>3. c \in 0..Len(p)
  BY LastCompactionOf
<1>4. PICK cut \in (c + 1)..Len(p) :
        /\ p[cut] = kept
        /\ Covered(T, p, c + 1, cut - 1, covers)
        /\ \/ cut = c + 1
           \/ \E j \in cut..Len(p) : /\ KindAt(T, p, j) \in CutKinds
                                     /\ \A m \in cut..(j - 1) : KindAt(T, p, m) \notin Messages
  BY DEF CutFits
<1> HIDE DEF c
<1>5. Covered(U, p, c + 1, cut - 1, covers)
  <2>1. \A m \in (c + 1)..(cut - 1) : m \in 1..Len(p)
    BY <1>3
  <2> QED BY <2>1, <1>1, <1>4 DEF Covered, KindAt
<1>6. \/ cut = c + 1
      \/ \E j \in cut..Len(p) : /\ KindAt(U, p, j) \in CutKinds
                                /\ \A m \in cut..(j - 1) : KindAt(U, p, m) \notin Messages
  <2>1. CASE cut = c + 1
    BY <2>1
  <2>2. CASE \E j \in cut..Len(p) : /\ KindAt(T, p, j) \in CutKinds
                                    /\ \A m \in cut..(j - 1) : KindAt(T, p, m) \notin Messages
    <3>1. PICK j \in cut..Len(p) : /\ KindAt(T, p, j) \in CutKinds
                                   /\ \A m \in cut..(j - 1) : KindAt(T, p, m) \notin Messages
      BY <2>2
    <3>2. j \in 1..Len(p) /\ \A m \in cut..(j - 1) : m \in 1..Len(p)
      BY <1>3
    <3>3. KindAt(U, p, j) \in CutKinds /\ \A m \in cut..(j - 1) : KindAt(U, p, m) \notin Messages
      BY <3>1, <3>2, <1>1 DEF KindAt
    <3> QED BY <3>3
  <2> QED BY <1>4, <2>1, <2>2
<1> QED BY <1>2, <1>4, <1>5, <1>6 DEF CutFits, c

LEMMA JobSame ==
  ASSUME NEW T, NEW U, NEW ids, SameIn(T, U, ids), NEW j, JobFits(T, ids, j)
  PROVE  JobFits(U, ids, j)
<1> DEFINE p == PathTo(T, ids, j.leaf)
<1>1. j.leaf \in Members(ids) /\ CutFits(T, p, j.kept, j.covers)
  BY DEF JobFits
<1>2. PathTo(U, ids, j.leaf) = p /\ p \in Seq(Int)
  BY <1>1, PathSame
<1>3. Len(p) \in 0..Len(p)
  BY <1>2
<1>4. SameOn(T, p, U, p, Len(p))
  BY <1>1, <1>3, PathSame
<1> HIDE DEF p
<1>5. CutFits(U, p, j.kept, j.covers)
  BY <1>1, <1>2, <1>4, CutSame
<1> QED BY <1>1, <1>2, <1>5 DEF JobFits

\* The append of an entry leaves the other paths as they are.
LEMMA PathStays ==
  ASSUME NEW T, NEW ids, NEW leaf, NEW U, NEW k, Appended(T, ids, leaf, U, k),
         NEW i \in Members(ids) \union {Header}
  PROVE  PathTo(U, Append(ids, k), i) = PathTo(T, ids, i)
<1> DEFINE K == Members(ids)
           L == Members(Append(ids, k))
           p == PathTo(T, ids, i)
           q == PathTo(U, Append(ids, k), i)
<1>1. /\ GoodTable(T) /\ GoodTable(U) /\ GoodIds(T, ids) /\ GoodIds(U, Append(ids, k))
      /\ SamePlaces(T, U, ids) /\ L = K \union {k} /\ \A n \in K : U[n].parent # k
  BY DEF Appended
<1>2. IsPath(T, K, p, i) /\ p \in Seq(K)
  BY <1>1, PathOf
<1>3. IsPath(U, L, q, i) /\ Ranked(U, L) /\ L \subseteq Nat \ {0}
  BY <1>1, PathOf
<1>4. \A n \in K : U[n].parent = T[n].parent
  BY <1>1 DEF SamePlaces
<1>5. i \in L \union {Header}
  BY <1>1
<1> HIDE DEF p, q, K, L
<1>6. IsPath(U, L, p, i)
  <2>1. \A n \in 1..Len(p) : p[n] \in K
    BY <1>2
  <2>2. \A n \in 1..Len(p) : Up(U, L, p[n]) = Up(T, K, p[n])
    BY <2>1, <1>1, <1>4 DEF Up
  <2>3. p \in Seq(L)
    BY <1>1, <1>2
  <2> QED BY <2>2, <2>3, <1>2 DEF IsPath
<1>7. q = p
  BY <1>3, <1>5, <1>6, PathIsUnique
<1> QED BY <1>7 DEF p, q

\* The same, with the entries as they were.
Grown(T, ids, leaf, U, k) == Appended(T, ids, leaf, U, k) /\ \A i \in Members(ids) : U[i] = T[i]

LEMMA GrownPath ==
  ASSUME NEW T, NEW ids, NEW leaf, NEW U, NEW k, Grown(T, ids, leaf, U, k),
         NEW i \in Members(ids) \union {Header}
  PROVE  /\ PathTo(T, ids, i) \in Seq(Int)
         /\ \A n \in 0..Len(PathTo(T, ids, i)) : SameOn(T, PathTo(T, ids, i), U, PathTo(T, ids, i), n)
<1> DEFINE p == PathTo(T, ids, i)
<1>1. p \in Seq(Members(ids)) /\ p \in Seq(Int)
  BY PathOf DEF Grown, Appended
<1> HIDE DEF p
<1>2. ASSUME NEW n \in 0..Len(p) PROVE SameOn(T, p, U, p, n)
  <2>1. \A m \in 1..n : p[m] \in Members(ids)
    BY <1>1
  <2> QED BY <2>1 DEF SameOn, Grown
<1> QED BY <1>1, <1>2 DEF p

LEMMA JobGrown ==
  ASSUME NEW T, NEW ids, NEW leaf, NEW U, NEW k, Grown(T, ids, leaf, U, k), NEW j, JobFits(T, ids, j)
  PROVE  JobFits(U, Append(ids, k), j)
<1> DEFINE p == PathTo(T, ids, j.leaf)
<1>1. j.leaf \in Members(ids) /\ CutFits(T, p, j.kept, j.covers)
  BY DEF JobFits
<1>2. PathTo(U, Append(ids, k), j.leaf) = p /\ j.leaf \in Members(Append(ids, k))
  BY <1>1, PathStays DEF Grown, Appended
<1>3. p \in Seq(Int)
  BY <1>1, GrownPath
<1>4. Len(p) \in 0..Len(p)
  BY <1>3
<1>5. SameOn(T, p, U, p, Len(p))
  BY <1>1, <1>4, GrownPath
<1> HIDE DEF p
<1>6. CutFits(U, p, j.kept, j.covers)
  BY <1>1, <1>3, <1>5, CutSame
<1> QED BY <1>2, <1>6 DEF JobFits

LEMMA WholeGrown ==
  ASSUME NEW T, NEW ids, NEW leaf, NEW U, NEW k, Grown(T, ids, leaf, U, k), NEW a, NEW b,
         WholeSession(T, ids, a, b), NEW p, p = PathTo(T, ids, leaf),
         WholeAt(U, Append(p, k), Len(p) + 1, a, b)
  PROVE  WholeSession(U, Append(ids, k), a, b)
<1>1. /\ Appended(T, ids, leaf, U, k) /\ leaf \in Members(ids) \union {Header}
      /\ Members(Append(ids, k)) = Members(ids) \union {k}
  BY DEF Grown, Appended
<1>2. ASSUME NEW i \in Members(ids)
      PROVE  WholePath(U, PathTo(T, ids, i), a, b)
  <2> DEFINE q == PathTo(T, ids, i)
  <2>1. WholePath(T, q, a, b)
    BY DEF WholeSession
  <2>2. q \in Seq(Int) /\ \A n \in 0..Len(q) : SameOn(T, q, U, q, n)
    BY GrownPath
  <2> HIDE DEF q
  <2>3. WholePath(U, q, a, b)
    BY <2>1, <2>2, PathWholeSame
  <2> QED BY <2>3 DEF q
<1>3. ASSUME NEW i \in Members(ids)
      PROVE  WholePath(U, PathTo(U, Append(ids, k), i), a, b)
  <2>1. PathTo(U, Append(ids, k), i) = PathTo(T, ids, i)
    BY <1>1, PathStays
  <2> QED BY <2>1, <1>2
<1>4. PathTo(U, Append(ids, k), k) = Append(p, k)
  BY <1>1, PathAppend
<1>5. p \in Seq(Int)
  BY <1>1, GrownPath
<1>6. WholePath(U, p, a, b)
  <2>1. CASE leaf = Header
    <3>1. p = <<>>
      <4>1. IsPath(T, Members(ids), p, leaf)
        BY <1>1, PathOf DEF Appended
      <4> QED BY <4>1, <2>1 DEF IsPath
    <3> QED BY <3>1 DEF WholePath
  <2>2. CASE leaf # Header
    BY <2>2, <1>1, <1>2
  <2> QED BY <2>1, <2>2
<1>7. WholePath(U, Append(p, k), a, b)
  <2> SUFFICES ASSUME NEW n \in 1..Len(Append(p, k)) PROVE WholeAt(U, Append(p, k), n, a, b)
    BY DEF WholePath
  <2>1. CASE n = Len(p) + 1
    BY <2>1
  <2>2. CASE n # Len(p) + 1
    <3>1. n \in 1..Len(p) /\ n # 0 /\ n \in Nat
      BY <2>2, <1>5
    <3>2. \A m \in 1..n : Append(p, k)[m] = p[m]
      BY <3>1, <1>5
    <3>3. SameOn(U, p, U, Append(p, k), n)
      BY <3>1, <3>2 DEF SameOn
    <3>4. WholeAt(U, p, n, a, b)
      BY <3>1, <1>6 DEF WholePath
    <3> QED BY <3>1, <3>3, <3>4, WholeTheSame
  <2> QED BY <2>1, <2>2
<1> QED BY <1>1, <1>3, <1>4, <1>7 DEF WholeSession

-------------------------------------------------------------------------------
(* All sessions, and the summary under way *)

Told(T, M, F, a, b) ==
  /\ WholeSession(T, M.ids, a, b)
  /\ \A f \in File : F[f] # <<>> => WholeSession(T, F[f], a, b)

\* The summary is one for its session, whether that is open or not.
JobTold(T, M, F, O, j) ==
  j.what \in {"auto", "early", "manual"} =>
    /\ j.file \in File /\ O[j.file] # {}
    /\ M.file = j.file => JobFits(T, M.ids, j)
    /\ F[j.file] # <<>> => JobFits(T, F[j.file], j)

LEMMA ToldLess ==
  ASSUME NEW T, NEW M, NEW F, NEW a, NEW b, Told(T, M, F, a, b), NEW c, NEW d, c => a, d => b
  PROVE  Told(T, M, F, c, d)
<1>1. \A p, n : WholeAt(T, p, n, a, b) => WholeAt(T, p, n, c, d)
  BY DEF WholeAt
<1>2. \A p : WholePath(T, p, a, b) => WholePath(T, p, c, d)
  BY <1>1 DEF WholePath
<1>3. \A ids : WholeSession(T, ids, a, b) => WholeSession(T, ids, c, d)
  BY <1>2 DEF WholeSession
<1> QED BY <1>3 DEF Told

LEMMA CleanIds ==
  ASSUME NEW T, NEW M, NEW F, NEW O, Core(T, M, F, O), NEW f \in File, CleanFile(T, F[f])
  PROVE  GoodIds(T, F[f]) /\ Members(F[f]) \subseteq DOMAIN T
<1> DEFINE lines == F[f]
<1>1. lines \in Seq(Torn..Len(T)) /\ Len(T) \in Nat
  BY CoreTypes
<1>2. lines # <<>> /\ lines[1] = Header /\ \A n \in DOMAIN lines : lines[n] # Torn
  BY DEF CleanFile
<1> HIDE DEF lines
<1>3. \A n \in 1..Len(lines) : lines[n] \in 0..Len(T)
  <2> DEFINE L == Torn..Len(T)
  <2> TAKE n \in 1..Len(lines)
  <2>1. lines \in Seq(L) /\ L \subseteq 0..Len(T) \union {Torn}
    BY <1>1 DEF Torn
  <2> HIDE DEF L
  <2>2. lines[n] \in L /\ lines[n] # Torn
    BY <2>1, <1>2
  <2> QED BY <2>1, <2>2
<1>4. lines \in Seq(0..Len(T))
  BY <1>1, <1>3
<1> QED BY <1>2, <1>4, CleanMembers DEF GoodIds, lines

\* A longer table, with the entries as they were.
Longer(T, U) ==
  GoodTable(T) /\ GoodTable(U) /\ Len(T) <= Len(U) /\ \A i \in DOMAIN T : U[i] = T[i]

LEMMA LongerSame ==
  ASSUME NEW T, NEW U, Longer(T, U), NEW ids, GoodIds(T, ids)
  PROVE  SameIn(T, U, ids)
<1>1. T \in Seq(Entry) /\ U \in Seq(Entry) /\ Len(T) <= Len(U)
  BY DEF Longer, GoodTable
<1>2. GoodIds(U, ids)
  BY <1>1, GoodLater
<1>3. Members(ids) \subseteq DOMAIN T
  BY <1>1, MembersOf DEF GoodIds
<1> QED BY <1>2, <1>3 DEF SameIn, Longer

LEMMA ToldLater ==
  ASSUME NEW T, NEW M, NEW F, NEW O, Core(T, M, F, O), FileOf(T, M, F), NEW U, Longer(T, U)
  PROVE  /\ \A a, b : Told(T, M, F, a, b) => Told(U, M, F, a, b)
         /\ \A j : JobTold(T, M, F, O, j) => JobTold(U, M, F, O, j)
<1>1. SameIn(T, U, M.ids)
  BY CoreTypes, LongerSame
<1>2. ASSUME NEW f \in File, F[f] # <<>> PROVE SameIn(T, U, F[f])
  <2>1. CleanFile(T, F[f])
    BY <1>2 DEF FileOf
  <2>2. GoodIds(T, F[f])
    BY <2>1, CleanIds
  <2> QED BY <2>2, LongerSame
<1>3. ASSUME NEW a, NEW b, Told(T, M, F, a, b) PROVE Told(U, M, F, a, b)
  <2>1. WholeSession(U, M.ids, a, b)
    BY <1>1, <1>3, WholeSame DEF Told
  <2>2. \A f \in File : F[f] # <<>> => WholeSession(U, F[f], a, b)
    BY <1>2, <1>3, WholeSame DEF Told
  <2> QED BY <2>1, <2>2 DEF Told
<1>4. ASSUME NEW j, JobTold(T, M, F, O, j) PROVE JobTold(U, M, F, O, j)
  <2> SUFFICES ASSUME j.what \in {"auto", "early", "manual"}
               PROVE  /\ j.file \in File /\ O[j.file] # {}
                      /\ M.file = j.file => JobFits(U, M.ids, j)
                      /\ F[j.file] # <<>> => JobFits(U, F[j.file], j)
    BY DEF JobTold
  <2>1. /\ j.file \in File /\ O[j.file] # {}
        /\ M.file = j.file => JobFits(T, M.ids, j)
        /\ F[j.file] # <<>> => JobFits(T, F[j.file], j)
    BY <1>4 DEF JobTold
  <2>2. M.file = j.file => JobFits(U, M.ids, j)
    BY <2>1, <1>1, JobSame
  <2>3. F[j.file] # <<>> => JobFits(U, F[j.file], j)
    BY <2>1, <1>2, JobSame
  <2> QED BY <2>1, <2>2, <2>3
<1> QED BY <1>3, <1>4

\* What a result and a compaction need of the path that they are appended to.
NewFits(T, p, i, a, b) ==
  /\ T[i].kind = "result" => (b => EndsInCall(T, p, Len(p), T[i].ref))
  /\ T[i].kind = "compaction" =>
       /\ a => KeepsFrom(T, p, Len(p), T[i].ref, T[i].covers)
       /\ b => CutsFrom(T, p, Len(p), T[i].ref)

\* The entry i at the end of the path p, in the table U.
Ends(T, p, leaf, U, i) ==
  /\ p \in Seq(Int) /\ i \in Int /\ SameOn(T, p, U, p, Len(p))
  /\ IF leaf = Header THEN p = <<>> ELSE p # <<>> /\ p[Len(p)] = leaf
  /\ U[i].kind = T[i].kind /\ U[i].ref = T[i].ref /\ U[i].covers = T[i].covers
  /\ U[i].past = Past(T, leaf) \union {m \in {i} : T[i].kind \in Messages}

LEMMA NewWhole ==
  ASSUME NEW T, NEW p, NEW leaf, NEW U, NEW i, Ends(T, p, leaf, U, i), NEW a, NEW b,
         WholePath(T, p, a, b), NewFits(T, p, i, a, b)
  PROVE  WholeAt(U, Append(p, i), Len(p) + 1, a, b)
<1> DEFINE q == Append(p, i)
           l == Len(p)
           n == Len(p) + 1
<1>1. /\ p \in Seq(Int) /\ i \in Int /\ SameOn(T, p, U, p, l)
      /\ IF leaf = Header THEN p = <<>> ELSE p # <<>> /\ p[l] = leaf
      /\ U[i].kind = T[i].kind /\ U[i].ref = T[i].ref /\ U[i].covers = T[i].covers
      /\ U[i].past = Past(T, leaf) \union {m \in {i} : T[i].kind \in Messages}
  BY DEF Ends
<1>2. l \in Nat /\ n \in Nat /\ n - 1 = l /\ n \in 1..n /\ (\A m \in 1..l : m \in 1..n)
  BY <1>1
<1>3. q[n] = i /\ \A m \in 1..l : q[m] = p[m]
  BY <1>1
<1>4. SameOn(T, p, U, q, l)
  BY <1>1, <1>3 DEF SameOn
<1>5. WholePath(T, p, a, b)
  OBVIOUS
<1>6. NewFits(T, p, i, a, b) /\ l = Len(p)
  OBVIOUS
<1> HIDE DEF q, l, n
<1>7. ASSUME a, NEW x \in U[i].past
      PROVE  \E m \in 1..n : q[m] = x /\ KindAt(U, q, m) \in Messages
  <2>1. CASE x \in Past(T, leaf)
    <3>1. leaf # Header /\ p[l] = leaf /\ p # <<>> /\ x \in T[p[l]].past
      BY <2>1, <1>1 DEF Past
    <3>2. l \in 1..Len(p)
      BY <3>1, <1>1, <1>6
    <3>3. KeptAt(T, p, l)
      BY <3>2, <1>5, <1>7 DEF WholePath, WholeAt
    <3>4. PICK m \in 1..l : p[m] = x /\ KindAt(T, p, m) \in Messages
      BY <3>1, <3>3 DEF KeptAt
    <3>5. q[m] = x /\ KindAt(U, q, m) \in Messages
      BY <3>4, <1>4 DEF SameOn, KindAt
    <3> QED BY <3>4, <3>5, <1>2
  <2>2. CASE x = i /\ T[i].kind \in Messages
    BY <2>2, <1>1, <1>2, <1>3 DEF KindAt
  <2> QED BY <2>1, <2>2, <1>1, <1>7
<1>8. KindAt(U, q, n) = T[i].kind /\ U[q[n]].ref = T[i].ref /\ U[q[n]].covers = T[i].covers
  BY <1>1, <1>3 DEF KindAt
<1>9. ASSUME a, T[i].kind = "compaction" PROVE KeepsFrom(U, q, l, T[i].ref, T[i].covers)
  <2>1. KeepsFrom(T, p, l, T[i].ref, T[i].covers)
    BY <1>6, <1>9 DEF NewFits
  <2> QED BY <2>1, <1>4, SaysTheSame
<1>10. ASSUME b, T[i].kind = "compaction" PROVE CutsFrom(U, q, l, T[i].ref)
  <2>1. CutsFrom(T, p, l, T[i].ref)
    BY <1>6, <1>10 DEF NewFits
  <2> QED BY <2>1, <1>4, SaysTheSame
<1>11. ASSUME b, T[i].kind = "result" PROVE EndsInCall(U, q, l, T[i].ref)
  <2>1. EndsInCall(T, p, l, T[i].ref)
    BY <1>6, <1>11 DEF NewFits
  <2> QED BY <2>1, <1>4, SaysTheSame
<1>12. a => KeptAt(U, q, n)
  BY <1>2, <1>3, <1>7, <1>8, <1>9 DEF KeptAt
<1>13. b => PairedAt(U, q, n)
  BY <1>2, <1>8, <1>10, <1>11 DEF PairedAt
<1> QED BY <1>12, <1>13 DEF WholeAt, q, n

\* The append of an entry: its session and the file of it grow, and the others stay.
LEMMA StoreGrows ==
  ASSUME NEW T, NEW M, NEW i, NEW E, NEW out, Stores(T, M, i, E, out)
  PROVE  /\ Grown(T, M.ids, M.leaf, table', i)
         /\ mem'.ids = Append(M.ids, i) /\ mem'.leaf = i /\ mem'.file = M.file
         /\ \A f \in File \ {M.file} : files'[f] = files[f] /\ i \notin ToSet(files[f])
         /\ \A n \in DOMAIN T \ {i} : table'[n] = T[n]
         /\ Ends(T, PathTo(T, M.ids, M.leaf), M.leaf, table', i)
<1>1. /\ Core(T, M, files, origin) /\ Unplaced(T, M, files, i)
      /\ out \in Writes(ToWrite(T, M, i)) /\ Store(T, M, i, out)
  BY DEF Stores, Fits
<1>2. /\ Appended(T, M.ids, M.leaf, table', i)
      /\ mem'.ids = Append(M.ids, i) /\ mem'.leaf = i
  BY StoreAppends
<1>3. table' = Placed(T, i, M.leaf) /\ SameEntries(T, table')
  BY <1>1, StoreStep
<1>4. /\ GoodTable(T) /\ GoodIds(T, M.ids) /\ M.leaf \in Members(M.ids) \union {Header} /\ M.leaf \in 0..Len(T)
      /\ DOMAIN T \subseteq Nat \ {0} /\ Members(M.ids) \subseteq DOMAIN T /\ M.file \in File
      /\ M \in [file : File, ids : Seq(Nat), leaf : Nat, flushed : BOOLEAN]
  BY <1>1, CoreTypes DEF Core
<1>5. i \in DOMAIN T /\ i \notin Members(M.ids) /\ (\A j \in DOMAIN T : T[j].parent # i)
      /\ (\A f \in File : i \notin ToSet(files[f]))
  BY <1>1 DEF Unplaced
<1>6. M.leaf # i
  BY <1>4, <1>5 DEF Header
<1>7. /\ \A n \in DOMAIN T \ {i} : table'[n] = T[n]
      /\ table'[i].past = Past(T, M.leaf) \union {m \in {i} : T[i].kind \in Messages}
  BY <1>3, <1>4, <1>5, <1>6, PlacedGood
<1>8. Grown(T, M.ids, M.leaf, table', i)
  BY <1>2, <1>4, <1>5, <1>7 DEF Grown
<1>9. mem'.file = M.file
  BY <1>1, <1>4 DEF Store
<1>10. \A f \in File \ {M.file} : files'[f] = files[f]
  <2>1. GoodFiles(T, files)
    BY <1>1 DEF Core
  <2>2. files' = [files EXCEPT ![M.file] = @ \o out.lines]
    BY <1>1 DEF Store
  <2> QED BY <2>1, <2>2 DEF GoodFiles
<1>11. Ends(T, PathTo(T, M.ids, M.leaf), M.leaf, table', i)
  <2> DEFINE p == PathTo(T, M.ids, M.leaf)
  <2>1. p \in Seq(Int) /\ IsPath(T, Members(M.ids), p, M.leaf)
    BY <1>4, PathOf
  <2>2. SameOn(T, p, table', p, Len(p))
    <3>1. Len(p) \in 0..Len(p)
      BY <2>1
    <3> QED BY <3>1, <1>4, <1>8, GrownPath
  <2>3. IF M.leaf = Header THEN p = <<>> ELSE p # <<>> /\ p[Len(p)] = M.leaf
    BY <2>1 DEF IsPath
  <2>4. table'[i].kind = T[i].kind /\ table'[i].ref = T[i].ref /\ table'[i].covers = T[i].covers
    BY <1>3, <1>5 DEF SameEntries
  <2>5. i \in Int
    BY <1>4, <1>5
  <2> HIDE DEF p
  <2>6. Ends(T, p, M.leaf, table', i)
    BY <2>1, <2>2, <2>3, <2>4, <2>5, <1>7 DEF Ends
  <2> QED BY <2>6 DEF p
<1> QED BY <1>2, <1>5, <1>7, <1>8, <1>9, <1>10, <1>11

LEMMA StoreTells ==
  ASSUME NEW T, NEW M, NEW i, NEW E, NEW out, Stores(T, M, i, E, out),
         "torn" \notin mishaps, out.ok, NEW a, NEW b, Told(T, M, files, a, b),
         NewFits(T, PathTo(T, M.ids, M.leaf), i, a, b)
  PROVE  /\ Told(table', mem', files', a, b)
         /\ \A j : JobTold(T, M, files, origin, j) => JobTold(table', mem', files', origin, j)
<1> DEFINE U == table'
           N == mem'
           G == files'
           p == PathTo(T, M.ids, M.leaf)
<1>1. /\ Grown(T, M.ids, M.leaf, U, i)
      /\ N.ids = Append(M.ids, i) /\ N.file = M.file
      /\ \A f \in File \ {M.file} : G[f] = files[f] /\ i \notin ToSet(files[f])
      /\ \A n \in DOMAIN T \ {i} : U[n] = T[n]
      /\ Ends(T, p, M.leaf, U, i)
  BY StoreGrows
<1>2. Core(T, M, files, origin) /\ FileOf(T, M, files)
  BY DEF Stores, Fits
<1>3. Core(U, N, G, origin) /\ FileOf(U, N, G) /\ DOMAIN U = DOMAIN T /\ SameEntries(T, U)
  BY <1>2, StoreFacts
<1>4. Told(T, M, files, a, b) /\ NewFits(T, p, i, a, b)
  OBVIOUS
<1>5. M.leaf \in Members(M.ids) \union {Header} /\ M.file \in File
  BY <1>2, CoreTypes
<1> HIDE DEF U, N, G
<1>6. WholePath(T, p, a, b)
  <2>1. CASE M.leaf = Header
    <3>1. p = <<>>
      BY <2>1, <1>1 DEF Ends
    <3> QED BY <3>1 DEF WholePath
  <2>2. CASE M.leaf # Header
    BY <2>2, <1>4, <1>5 DEF Told, WholeSession
  <2> QED BY <2>1, <2>2
<1>7. WholeAt(U, Append(p, i), Len(p) + 1, a, b)
  BY <1>1, <1>4, <1>6, NewWhole
<1>8. WholeSession(U, N.ids, a, b)
  <2>1. WholeSession(T, M.ids, a, b)
    BY <1>4 DEF Told
  <2>2. WholeSession(U, Append(M.ids, i), a, b)
    BY <2>1, <1>1, <1>7, WholeGrown
  <2> QED BY <2>2, <1>1
<1>9. G[M.file] = <<>> \/ G[M.file] = N.ids
  BY <1>1, <1>3 DEF FileOf
<1>10. ASSUME NEW f \in File \ {M.file}, files[f] # <<>> PROVE SameIn(T, U, files[f])
  <2>1. CleanFile(T, files[f])
    BY <1>2, <1>10 DEF FileOf
  <2>2. GoodIds(T, files[f]) /\ Members(files[f]) \subseteq DOMAIN T
    BY <2>1, <1>2, CleanIds
  <2>3. i \notin Members(files[f])
    BY <1>1 DEF Members
  <2>4. CleanFile(U, G[f]) /\ G[f] = files[f]
    BY <1>1, <1>3, <1>10 DEF FileOf
  <2>5. GoodIds(U, files[f])
    BY <2>4, <1>3, CleanIds
  <2> QED BY <2>2, <2>3, <2>5, <1>1, <1>2, <1>3 DEF SameIn, Core
<1>11. ASSUME NEW f \in File, G[f] # <<>> PROVE WholeSession(U, G[f], a, b)
  <2>1. CASE f = M.file
    BY <2>1, <1>8, <1>9, <1>11
  <2>2. CASE f # M.file
    <3>1. G[f] = files[f]
      BY <2>2, <1>1
    <3>2. WholeSession(T, files[f], a, b)
      BY <3>1, <1>4, <1>11 DEF Told
    <3> QED BY <2>2, <3>1, <3>2, <1>10, <1>11, WholeSame
  <2> QED BY <2>1, <2>2
<1>12. Told(U, N, G, a, b)
  BY <1>8, <1>11 DEF Told
<1>13. ASSUME NEW j, JobTold(T, M, files, origin, j) PROVE JobTold(U, N, G, origin, j)
  <2> SUFFICES ASSUME j.what \in {"auto", "early", "manual"}
               PROVE  /\ j.file \in File /\ origin[j.file] # {}
                      /\ N.file = j.file => JobFits(U, N.ids, j)
                      /\ G[j.file] # <<>> => JobFits(U, G[j.file], j)
    BY DEF JobTold
  <2>1. /\ j.file \in File /\ origin[j.file] # {}
        /\ M.file = j.file => JobFits(T, M.ids, j)
        /\ files[j.file] # <<>> => JobFits(T, files[j.file], j)
    BY <1>13 DEF JobTold
  <2>2. N.file = j.file => JobFits(U, N.ids, j)
    BY <2>1, <1>1, JobGrown
  <2>3. G[j.file] # <<>> => JobFits(U, G[j.file], j)
    <3>1. CASE j.file = M.file
      BY <3>1, <2>2, <1>1, <1>9
    <3>2. CASE j.file # M.file
      BY <3>2, <2>1, <1>1, <1>10, JobSame
    <3> QED BY <3>1, <3>2
  <2> QED BY <2>1, <2>2, <2>3
<1> QED BY <1>12, <1>13 DEF U, N, G

-------------------------------------------------------------------------------
(* The queue: a result waits right behind its call *)

NewestCall(T) == Max({i \in DOMAIN T : T[i].kind = "call"})

\* The call c is what comes before place n + 1 of the list: the end of the path, or an entry of it.
Follows(T, p, W, n, c) ==
  IF n = 0 THEN EndsInCall(T, p, Len(p), c) ELSE W[n] = c /\ T[c].kind = "call"

TurnFits(T, p, W) ==
  \A n \in 1..Len(W) : T[W[n]].kind = "result" => Follows(T, p, W, n - 1, T[W[n]].ref)

\* (t: a tool runs whose result will be heard.)
InTurn(T, p, E, t) ==
  \E W : /\ Lists(W, E) /\ TurnFits(T, p, W)
         /\ t => Follows(T, p, W, Len(W), NewestCall(T))

LEMMA ListsFrom ==
  ASSUME NEW W, NEW E \in Seq(Int), Lists(W, E)
  PROVE  W \in Seq(Int) /\ \A k \in 1..Len(W) : W[k] \in ToSet(E) \ {EndMark}
<1>1. PICK g \in [1..Len(W) -> DOMAIN E] : \A k \in 1..Len(W) : W[k] = E[g[k]] /\ W[k] # EndMark
  BY DEF Lists
<1>2. W \in Seq(Int)
  BY DEF Lists
<1> QED BY <1>1, <1>2 DEF ToSet

LEMMA QuietTurn ==
  ASSUME NEW T, NEW p, NEW E \in Seq(Int), ToSet(E) \subseteq {EndMark}, NEW t, ~t
  PROVE  InTurn(T, p, E, t)
<1> DEFINE W == <<>>
<1>1. Lists(W, E)
  BY ListsNothing
<1>2. TurnFits(T, p, W)
  <2>1. Len(W) = 0
    OBVIOUS
  <2> QED BY <2>1 DEF TurnFits
<1> HIDE DEF W
<1> QED BY <1>1, <1>2 DEF InTurn

\* The entries of the queue, and a call that the path ends in, are the same in the table U.
Carries(T, p, U, q, E) ==
  /\ \A e \in ToSet(E) \ {EndMark} : U[e].kind = T[e].kind /\ U[e].ref = T[e].ref
  /\ \A c : EndsInCall(T, p, Len(p), c) => EndsInCall(U, q, Len(q), c)

LEMMA FollowsOn ==
  ASSUME NEW T, NEW p, NEW U, NEW q, NEW E \in Seq(Int), Carries(T, p, U, q, E), NEW W, Lists(W, E),
         NEW n \in 0..Len(W), NEW c, Follows(T, p, W, n, c)
  PROVE  Follows(U, q, W, n, c)
<1>1. CASE n = 0
  BY <1>1 DEF Follows, Carries
<1>2. CASE n # 0
  <2>1. W[n] = c /\ T[c].kind = "call"
    BY <1>2 DEF Follows
  <2>2. n \in 1..Len(W)
    BY <1>2, ListsFrom
  <2>3. c \in ToSet(E) \ {EndMark}
    BY <2>1, <2>2, ListsFrom
  <2>4. U[c].kind = "call"
    BY <2>1, <2>3 DEF Carries
  <2> QED BY <2>1, <2>4, <1>2 DEF Follows
<1> QED BY <1>1, <1>2

LEMMA TurnCarried ==
  ASSUME NEW T, NEW p, NEW U, NEW q, NEW E \in Seq(Int), Carries(T, p, U, q, E), NEW W, Lists(W, E),
         TurnFits(T, p, W)
  PROVE  TurnFits(U, q, W)
<1> SUFFICES ASSUME NEW n \in 1..Len(W), U[W[n]].kind = "result"
             PROVE  Follows(U, q, W, n - 1, U[W[n]].ref)
  BY DEF TurnFits
<1>1. W[n] \in ToSet(E) \ {EndMark} /\ n - 1 \in 0..Len(W)
  BY ListsFrom
<1>2. T[W[n]].kind = "result" /\ U[W[n]].ref = T[W[n]].ref
  BY <1>1 DEF Carries
<1>3. Follows(T, p, W, n - 1, T[W[n]].ref)
  BY <1>2 DEF TurnFits
<1> DEFINE l == n - 1
<1>4. l \in 0..Len(W) /\ Follows(T, p, W, l, T[W[n]].ref)
  BY <1>1, <1>3
<1> HIDE DEF l
<1>5. Follows(U, q, W, l, T[W[n]].ref)
  BY <1>4, FollowsOn
<1> QED BY <1>2, <1>5 DEF l

LEMMA StillInTurn ==
  ASSUME NEW T, NEW p, NEW U, NEW q, NEW E \in Seq(Int), Carries(T, p, U, q, E),
         NEW s, NEW t, t => s, t => NewestCall(U) = NewestCall(T), InTurn(T, p, E, s)
  PROVE  InTurn(U, q, E, t)
<1>1. PICK W : /\ Lists(W, E) /\ TurnFits(T, p, W)
               /\ s => Follows(T, p, W, Len(W), NewestCall(T))
  BY DEF InTurn
<1>2. TurnFits(U, q, W)
  BY <1>1, TurnCarried
<1>3. Len(W) \in 0..Len(W)
  BY <1>1, ListsFrom
<1>4. t => Follows(U, q, W, Len(W), NewestCall(U))
  BY <1>1, <1>3, FollowsOn
<1> QED BY <1>1, <1>2, <1>4 DEF InTurn

\* The mark of the end of a turn is not waited for.
LEMMA InTurnTail ==
  ASSUME NEW T, NEW p, NEW E \in Seq(Int), E # <<>>, Head(E) = EndMark, NEW t, InTurn(T, p, E, t)
  PROVE  InTurn(T, p, Tail(E), t)
<1>1. PICK W : /\ Lists(W, E) /\ TurnFits(T, p, W)
               /\ t => Follows(T, p, W, Len(W), NewestCall(T))
  BY DEF InTurn
<1>2. Lists(W, Tail(E))
  BY <1>1, ListsTail
<1> QED BY <1>1, <1>2 DEF InTurn

LEMMA InTurnMark ==
  ASSUME NEW T, NEW p, NEW E \in Seq(Int), NEW t, InTurn(T, p, E, t)
  PROVE  InTurn(T, p, Append(E, EndMark), t)
<1>1. PICK W : /\ Lists(W, E) /\ TurnFits(T, p, W)
               /\ t => Follows(T, p, W, Len(W), NewestCall(T))
  BY DEF InTurn
<1> DEFINE D == Append(E, EndMark)
<1>2. Lists(W, D)
  <2>1. EndMark \in Int
    BY DEF EndMark
  <2>2. Lists(IF EndMark = EndMark THEN W ELSE Append(W, EndMark), D)
    BY <1>1, <2>1, ListsAppend
  <2> QED BY <2>2
<1> HIDE DEF D
<1>3. InTurn(T, p, D, t)
  BY <1>1, <1>2 DEF InTurn
<1> QED BY <1>3 DEF D

\* A message joins the queue: a result right behind its call, or a call that a tool then runs for.
LEMMA InTurnMore ==
  ASSUME NEW T, NEW p, NEW E \in Seq(Int), NEW i \in Int, i # EndMark, NEW s, NEW t,
         InTurn(T, p, E, s), T[i].kind = "result" => s /\ T[i].ref = NewestCall(T),
         t => T[i].kind = "call" /\ NewestCall(T) = i
  PROVE  InTurn(T, p, Append(E, i), t)
<1>1. PICK W : /\ Lists(W, E) /\ TurnFits(T, p, W)
               /\ s => Follows(T, p, W, Len(W), NewestCall(T))
  BY DEF InTurn
<1> DEFINE V == Append(W, i)
           D == Append(E, i)
           l == Len(W)
<1>2. Lists(V, D)
  <2>1. Lists(IF i = EndMark THEN W ELSE V, D)
    BY <1>1, ListsAppend
  <2> QED BY <2>1
<1>3. W \in Seq(Int)
  BY <1>1, ListsFrom
<1>4. /\ l \in Nat /\ Len(V) = l + 1 /\ V[l + 1] = i /\ (\A n \in 1..l : V[n] = W[n]) /\ Len(W) = l
      /\ l + 1 # 0 /\ l + 1 - 1 = l
  BY <1>3
<1>5. \A n \in 1..Len(V) : n \in 1..l \/ n = l + 1
  BY <1>4
<1>6. \A n \in 0..l : \A c : Follows(T, p, W, n, c) => Follows(T, p, V, n, c)
  <2> TAKE n \in 0..l
  <2>1. n = 0 \/ n \in 1..l
    BY <1>4
  <2> QED BY <2>1, <1>4 DEF Follows
<1> HIDE DEF V, D, l
<1>7. TurnFits(T, p, V)
  <2> SUFFICES ASSUME NEW n \in 1..Len(V), T[V[n]].kind = "result"
               PROVE  Follows(T, p, V, n - 1, T[V[n]].ref)
    BY DEF TurnFits
  <2>1. CASE n \in 1..l
    <3>1. V[n] = W[n] /\ n - 1 \in 0..l
      BY <2>1, <1>4
    <3>2. Follows(T, p, W, n - 1, T[W[n]].ref)
      BY <3>1, <2>1, <1>1, <1>4 DEF TurnFits
    <3> QED BY <3>1, <3>2, <1>6
  <2>2. CASE n = l + 1
    <3>1. V[n] = i /\ n - 1 = l /\ l \in 0..l
      BY <2>2, <1>4
    <3>2. Follows(T, p, W, l, T[i].ref)
      BY <3>1, <1>1, <1>4
    <3>3. Follows(T, p, V, l, T[i].ref)
      BY <3>1, <3>2, <1>6
    <3> QED BY <3>1, <3>3
  <2> QED BY <2>1, <2>2, <1>5
<1>8. t => Follows(T, p, V, Len(V), NewestCall(T))
  BY <1>4 DEF Follows
<1>9. InTurn(T, p, D, t)
  BY <1>2, <1>7, <1>8 DEF InTurn
<1> QED BY <1>9 DEF D

\* The first message of the queue comes to the end of the path.
LEMMA InTurnStored ==
  ASSUME NEW T, NEW p \in Seq(Int), NEW U, NEW E \in Seq(Int), E # <<>>, NEW i, i = Head(E), i # EndMark,
         NEW t, InTurn(T, p, E, t), i \in Int,
         \A e \in ToSet(E) \ {EndMark} : U[e].kind = T[e].kind /\ U[e].ref = T[e].ref,
         t => NewestCall(U) = NewestCall(T)
  PROVE  /\ InTurn(U, Append(p, i), Tail(E), t)
         /\ T[i].kind = "result" => EndsInCall(T, p, Len(p), T[i].ref)
<1>1. PICK W : /\ Lists(W, E) /\ TurnFits(T, p, W)
               /\ t => Follows(T, p, W, Len(W), NewestCall(T))
  BY DEF InTurn
<1> DEFINE V == Tail(W)
           D == Tail(E)
           q == Append(p, i)
           l == Len(W)
<1>2. W # <<>> /\ Head(W) = i /\ Lists(V, D)
  BY <1>1, ListsTail
<1>3. W \in Seq(Int) /\ \A k \in 1..Len(W) : W[k] \in ToSet(E) \ {EndMark}
  BY <1>1, ListsFrom
<1>4. /\ l \in Nat \ {0} /\ W[1] = i /\ Len(V) = l - 1 /\ (\A n \in 1..(l - 1) : V[n] = W[n + 1])
      /\ Len(W) = l
  BY <1>2, <1>3
<1>5. /\ Len(q) = Len(p) + 1 /\ q[Len(p) + 1] = i /\ (\A m \in 1..Len(p) : q[m] = p[m]) /\ Len(p) \in Nat
  OBVIOUS
<1> HIDE DEF V, D, q, l
\* What comes before place n + 1 of W comes before place n of what is left.
<1>6. ASSUME NEW n \in 1..l, NEW c, Follows(T, p, W, n, c) PROVE Follows(U, q, V, n - 1, c)
  <2>1. W[n] = c /\ T[c].kind = "call" /\ n # 0
    BY <1>6, <1>4 DEF Follows
  <2>2. U[c].kind = "call"
    BY <2>1, <1>3, <1>4
  <2>3. CASE n = 1
    <3>1. c = i /\ KindAt(U, q, Len(q)) = "call" /\ q[Len(q)] = c
      BY <2>1, <2>2, <2>3, <1>4, <1>5 DEF KindAt
    <3>2. (Len(q) + 1)..Len(q) = {} /\ Len(q) \in 1..Len(q)
      BY <1>5
    <3>3. EndsInCall(U, q, Len(q), c)
      BY <3>1, <3>2 DEF EndsInCall
    <3> QED BY <3>3, <2>3 DEF Follows
  <2>4. CASE n # 1
    <3>1. n - 1 \in 1..(l - 1) /\ n - 1 # 0 /\ n - 1 + 1 = n
      BY <2>4, <1>4
    <3>2. V[n - 1] = c
      BY <3>1, <2>1, <1>4
    <3> QED BY <3>1, <3>2, <2>2 DEF Follows
  <2> QED BY <2>3, <2>4
<1>7. TurnFits(U, q, V)
  <2> SUFFICES ASSUME NEW n \in 1..Len(V), U[V[n]].kind = "result"
               PROVE  Follows(U, q, V, n - 1, U[V[n]].ref)
    BY DEF TurnFits
  <2>1. n \in 1..l /\ n + 1 \in 1..Len(W) /\ n + 1 - 1 = n /\ V[n] = W[n + 1]
    BY <1>4
  <2>2. U[V[n]].kind = T[W[n + 1]].kind /\ U[V[n]].ref = T[W[n + 1]].ref
    BY <2>1, <1>3
  <2>3. Follows(T, p, W, n + 1 - 1, T[W[n + 1]].ref)
    BY <2>1, <2>2, <1>1 DEF TurnFits
  <2>4. Follows(T, p, W, n, U[V[n]].ref)
    BY <2>1, <2>2, <2>3
  <2> QED BY <2>1, <2>4, <1>6
<1>8. t => Follows(U, q, V, Len(V), NewestCall(U))
  <2>1. l \in 1..l /\ Len(V) = l - 1
    BY <1>4
  <2> QED BY <2>1, <1>1, <1>4, <1>6
<1>9. InTurn(U, q, D, t)
  BY <1>2, <1>7, <1>8 DEF InTurn
<1>10. T[i].kind = "result" => EndsInCall(T, p, Len(p), T[i].ref)
  <2>1. 1 \in 1..Len(W) /\ 1 - 1 = 0
    BY <1>4
  <2>2. T[W[1]].kind = "result" => Follows(T, p, W, 1 - 1, T[W[1]].ref)
    BY <2>1, <1>1 DEF TurnFits
  <2> QED BY <2>1, <2>2, <1>4 DEF Follows
<1> QED BY <1>9, <1>10 DEF q, D

-------------------------------------------------------------------------------
(* The invariant that nothing is forgotten, and that results follow their calls *)

Remembers == mishaps \intersect {"torn", "unlinked", "recompacted", "astray"} = {}
Pairs ==
  mishaps \intersect {"torn", "lagging", "midturn", "overtaken", "unheard", "unlinked", "astray"} = {}

\* A tool runs, and its result will be heard.
ToolOut ==
  turn = "called" /\ (heard \/ command.what \notin {"new", "resume"} \/ job.what = "manual")

WholeInv ==
  /\ \/ "torn" \in mishaps
     \/ /\ Told(table, mem, files, Remembers, Pairs)
        /\ JobTold(table, mem, files, origin, job)
  /\ ~Pairs \/ InTurn(table, Path, events, ToolOut)

LEMMA MishapsGrow ==
  ASSUME mishaps \subseteq mishaps'
  PROVE  /\ Remembers' => Remembers
         /\ Pairs' => Pairs
         /\ "torn" \in mishaps => "torn" \in mishaps'
BY DEF Remembers, Pairs

LEMMA TornEnds ==
  ASSUME "torn" \in mishaps
  PROVE  ~Remembers /\ ~Pairs
BY DEF Remembers, Pairs

LEMMA NoJobTold ==
  ASSUME NEW T, NEW M, NEW F, NEW O, NEW j, j.what \notin {"auto", "early", "manual"}
  PROVE  JobTold(T, M, F, O, j)
BY DEF JobTold

\* A step that leaves the sessions as they are.
LEMMA SessionsStay ==
  ASSUME WholeInv, UNCHANGED <<table, files, origin>>, mem'.ids = mem.ids, mem'.file = mem.file,
         mishaps \subseteq mishaps',
         \/ "torn" \in mishaps
         \/ job' = job
         \/ job'.what \notin {"auto", "early", "manual"}
         \/ JobTold(table, mem, files, origin, job'),
         ~Pairs' \/ InTurn(table', Path', events', ToolOut')
  PROVE  WholeInv'
<1>1. CASE "torn" \in mishaps
  BY <1>1, MishapsGrow DEF WholeInv
<1>2. CASE "torn" \notin mishaps
  <2> DEFINE a == Remembers'
             b == Pairs'
  <2>1. Told(table, mem, files, Remembers, Pairs) /\ JobTold(table, mem, files, origin, job)
    BY <1>2 DEF WholeInv
  <2>2. (a => Remembers) /\ (b => Pairs)
    BY MishapsGrow
  <2> HIDE DEF a, b
  <2>3. Told(table, mem, files, a, b)
    BY <2>1, <2>2, ToldLess
  <2>4. Told(table', mem', files', a, b)
    BY <2>3 DEF Told
  <2>5. JobTold(table, mem, files, origin, job')
    BY <2>1, <1>2, NoJobTold
  <2>6. JobTold(table', mem', files', origin', job')
    BY <2>5 DEF JobTold
  <2> QED BY <2>4, <2>6 DEF WholeInv, a, b
<1> QED BY <1>1, <1>2

\* A step that leaves the queue and the path as well.
LEMMA AllStays ==
  ASSUME WholeInv, UNCHANGED <<table, files, origin, mem, events>>, mishaps \subseteq mishaps',
         \/ "torn" \in mishaps
         \/ job' = job
         \/ job'.what \notin {"auto", "early", "manual"}
         \/ JobTold(table, mem, files, origin, job'),
         ToolOut' => ToolOut
  PROVE  WholeInv'
<1>1. ASSUME Pairs' PROVE InTurn(table', Path', events', ToolOut')
  <2> DEFINE s == ToolOut
             t == ToolOut'
  <2>1. InTurn(table, Path, events, s) /\ (t => s)
    BY <1>1, MishapsGrow DEF WholeInv
  <2>2. table' = table /\ Path' = Path /\ events' = events
    BY DEF Path
  <2> HIDE DEF s, t
  <2>3. InTurn(table, Path, events, t)
    BY <2>1 DEF InTurn
  <2> QED BY <2>2, <2>3 DEF t
<1>2. mem'.ids = mem.ids /\ mem'.file = mem.file
  OBVIOUS
<1> QED BY <1>1, <1>2, SessionsStay

LEMMA CompactLeavesWhole ==
  ASSUME WholeInv, Compact
  PROVE  WholeInv'
<1>1. /\ UNCHANGED <<table, files, origin, mem, events, mishaps, job, turn>>
      /\ command.what = "none"
  BY DEF Compact
<1>2. ToolOut' => ToolOut
  BY <1>1 DEF ToolOut
<1> QED BY <1>1, <1>2, AllStays

LEMMA SummaryFailsLeavesWhole ==
  ASSUME WholeInv, SummaryFails
  PROVE  WholeInv'
<1>1. /\ UNCHANGED <<table, files, origin, mem, events, mishaps, turn, command>>
      /\ job' = NoJob /\ heard' = (heard \/ job.what = "manual")
  BY DEF SummaryFails
<1>2. job'.what = "none"
  BY <1>1 DEF NoJob
<1>3. ToolOut' => ToolOut
  BY <1>1, <1>2 DEF ToolOut
<1> QED BY <1>1, <1>2, <1>3, AllStays

LEMMA NavigateWithSummaryLeavesWhole ==
  ASSUME WholeInv, NavigateWithSummary
  PROVE  WholeInv'
<1>1. /\ UNCHANGED <<table, files, origin, mem, events, mishaps, turn, command, heard>>
      /\ job'.what = "tree"
  BY DEF NavigateWithSummary
<1>2. ToolOut' => ToolOut
  BY <1>1 DEF ToolOut
<1> QED BY <1>1, <1>2, AllStays

LEMMA LeaveLeavesWhole ==
  ASSUME WholeInv, Leave
  PROVE  WholeInv'
<1>1. /\ UNCHANGED <<table, files, origin, mem, events, mishaps, turn, job>>
      /\ command.what = "none"
  BY DEF Leave
<1>2. ToolOut' => ToolOut
  BY <1>1 DEF ToolOut
<1> QED BY <1>1, <1>2, AllStays

\* What is kept and covered by a summary that is started.
LEMMA PreparedFits ==
  ASSUME NEW T, NEW p \in Seq(Int), CanPrepare(T, p)
  PROVE  CutFits(T, p, Prepared(T, p).kept, Prepared(T, p).covers)
<1> DEFINE prev == LastCompaction(T, p)
           from == prev + 1
           cut == CutPoint(T, p, from)
           starts == {i \in from..cut : KindAt(T, p, i) \in TurnStarts}
           split == KindAt(T, p, cut) # "user" /\ starts # {}
           until == IF split THEN Max(starts) ELSE cut
           Part(x, y) == {p[i] : i \in {j \in x..(y - 1) : KindAt(T, p, j) \in Shown}}
           history == Part(from, until)
           prefix == Part(until, cut)
<1>1. p # <<>> /\ KindAt(T, p, Len(p)) # "compaction"
  BY DEF CanPrepare
<1>2. prev \in 0..Len(p) /\ (prev # 0 => KindAt(T, p, prev) = "compaction")
  BY LastCompactionOf
<1>3. from \in 1..Len(p)
  <2>1. prev # Len(p)
    BY <1>1, <1>2
  <2> HIDE DEF prev
  <2> QED BY <2>1, <1>2
<1>4. /\ cut \in from..Len(p)
      /\ \A n \in from..Len(p) :
           KindAt(T, p, n) \in CutKinds =>
             \E j \in cut..Len(p) : /\ KindAt(T, p, j) \in CutKinds
                                    /\ \A m \in cut..(j - 1) : KindAt(T, p, m) \notin Messages
  BY <1>3, CutPointIn
<1>5. (\A n \in from..Len(p) : KindAt(T, p, n) \notin CutKinds) => cut = from
  BY DEF CutPoint
<1>6. until \in from..cut
  <2>1. CASE starts = {}
    BY <2>1, <1>4
  <2>2. CASE starts # {}
    <3>1. starts \subseteq 0..Len(p) /\ Len(p) \in Nat
      BY <1>3, <1>4
    <3> HIDE DEF starts
    <3>2. Max(starts) \in starts
      BY <3>1, <2>2, GreatestOfSet
    <3>3. Max(starts) \in from..cut
      BY <3>2 DEF starts
    <3> QED BY <3>3, <1>4
  <2> QED BY <2>1, <2>2
<1>7. /\ Prepared(T, p).kept = p[cut]
      /\ history \subseteq Prepared(T, p).covers /\ prefix \subseteq Prepared(T, p).covers
  BY DEF Prepared
<1> HIDE DEF prev, until, cut
<1>8. Covered(T, p, from, cut - 1, Prepared(T, p).covers)
  <2> SUFFICES ASSUME NEW m \in from..(cut - 1), KindAt(T, p, m) \in Messages
               PROVE  p[m] \in history \union prefix
    BY <1>7 DEF Covered
  <2>1. KindAt(T, p, m) \in Shown
    BY DEF Shown
  <2>2. m \in from..(until - 1) \/ m \in until..(cut - 1)
    BY <1>3, <1>4, <1>6
  <2> QED BY <2>1, <2>2
<1> HIDE DEF history, prefix
<1>9. \/ cut = from
      \/ \E j \in cut..Len(p) : /\ KindAt(T, p, j) \in CutKinds
                                /\ \A m \in cut..(j - 1) : KindAt(T, p, m) \notin Messages
  BY <1>4, <1>5
<1> QED BY <1>4, <1>7, <1>8, <1>9 DEF CutFits, prev

LEMMA StartsTold ==
  ASSUME SInv, "torn" \notin mishaps, CanPrepare(table, Path), NEW what, NEW again, Starts(what, again)
  PROVE  JobTold(table, mem, files, origin, job')
<1>1. /\ job'.file = mem.file /\ job'.leaf = mem.leaf /\ job'.kept = Prepared(table, Path).kept
      /\ job'.covers = Prepared(table, Path).covers
  BY DEF Starts
<1>2. Core(table, mem, files, origin) /\ FileOf(table, mem, files)
  BY DEF SInv, FileInv
<1>3. /\ GoodTable(table) /\ GoodIds(table, mem.ids) /\ mem.leaf \in Members(mem.ids) \union {Header}
      /\ mem.file \in File
  BY <1>2, CoreTypes DEF Core
<1>4. IsPath(table, Members(mem.ids), Path, mem.leaf) /\ Path \in Seq(Int)
  BY <1>3, PathOf DEF Path
<1>5. mem.leaf \in Members(mem.ids)
  <2>1. mem.leaf # Header
    BY <1>4 DEF IsPath, CanPrepare
  <2> QED BY <2>1, <1>3
<1>6. CutFits(table, Path, job'.kept, job'.covers)
  BY <1>1, <1>4, PreparedFits
<1>7. JobFits(table, mem.ids, job')
  BY <1>1, <1>5, <1>6 DEF JobFits, Path
<1>8. origin[mem.file] # {}
  BY <1>2 DEF Core, Owned
<1>9. files[mem.file] = <<>> \/ files[mem.file] = mem.ids
  BY <1>2 DEF FileOf
<1> QED BY <1>1, <1>3, <1>7, <1>8, <1>9 DEF JobTold

LEMMA CompactsLeavesWhole ==
  ASSUME SInv, WholeInv, Compacts
  PROVE  WholeInv'
<1>1. UNCHANGED <<table, files, origin, mem, events, mishaps, turn>> /\ turn = "idle"
  BY DEF Compacts
<1>2. job' = job \/ (CanPrepare(table, Path) /\ Starts("manual", FALSE))
  BY DEF Compacts
<1>3. ToolOut' => ToolOut
  BY <1>1 DEF ToolOut
<1>4. "torn" \in mishaps \/ job' = job \/ JobTold(table, mem, files, origin, job')
  BY <1>2, StartsTold
<1> QED BY <1>1, <1>3, <1>4, AllStays

\* A handler, or prompt(), that changes no more than the agent's list, the job and itself.
LEMMA ChecksLeavesWhole ==
  ASSUME SInv, WholeInv, UNCHANGED <<table, files, origin, mem, turn, heard, command>>,
         \/ events' = events
         \/ events # <<>> /\ Head(events) = EndMark /\ events' = Tail(events),
         \/ \E reply : Checks(reply, "auto") \/ Checks(reply, "early")
         \/ job' = job /\ (TakesOff \/ UNCHANGED <<agent, mishaps>>)
  PROVE  WholeInv'
<1>1. mishaps \subseteq mishaps'
  BY ChecksIs DEF TakesOff, Blames
<1>2. \/ job' = job
      \/ /\ job.what = "none" /\ CanPrepare(table, Path)
         /\ \E again : Starts("auto", again) \/ Starts("early", again)
  BY ChecksIs
<1>3. job' = job \/ job'.what \in {"auto", "early"}
  BY <1>2 DEF Starts
<1>4. ToolOut' => ToolOut
  BY <1>3 DEF ToolOut
<1>5. "torn" \in mishaps \/ job' = job \/ JobTold(table, mem, files, origin, job')
  BY <1>2, StartsTold
<1>6. events \in Seq(Int)
  BY InvTypes DEF Waits
<1>7. ASSUME Pairs' PROVE InTurn(table', Path', events', ToolOut')
  <2> DEFINE s == ToolOut
             t == ToolOut'
             E == events'
  <2>1. InTurn(table, Path, events, s) /\ (t => s)
    BY <1>1, <1>4, <1>7, MishapsGrow DEF WholeInv
  <2>2. table' = table /\ Path' = Path
    BY DEF Path
  <2> HIDE DEF s, t
  <2>3. InTurn(table, Path, E, s)
    BY <2>1, <1>6, InTurnTail
  <2> HIDE DEF E
  <2>4. InTurn(table, Path, E, t)
    BY <2>1, <2>3 DEF InTurn
  <2> QED BY <2>2, <2>4 DEF t, E
<1> QED BY <1>1, <1>5, <1>7, SessionsStay

LEMMA AgentEndLeavesWhole ==
  ASSUME SInv, WholeInv, AgentEnd
  PROVE  WholeInv'
<1>1. /\ UNCHANGED <<table, files, origin, mem, turn, heard, command>>
      /\ events # <<>> /\ Head(events) = EndMark /\ events' = Tail(events)
      /\ \/ Checks(last, "auto")
         \/ job' = job /\ (TakesOff \/ UNCHANGED <<agent, mishaps>>)
  BY DEF AgentEnd, Unblocked
<1> QED BY <1>1, ChecksLeavesWhole

LEMMA RetryEndsLeavesWhole ==
  ASSUME SInv, WholeInv, RetryEnds
  PROVE  WholeInv'
<1>1. /\ UNCHANGED <<table, files, origin, mem, turn, heard, command, events>>
      /\ Checks(last, "auto") \/ UNCHANGED <<job, agent, mishaps>>
  BY ChecksSizeChecks DEF RetryEnds
<1> QED BY <1>1, ChecksLeavesWhole

LEMMA CheckBeforeLeavesWhole ==
  ASSUME SInv, WholeInv, CheckBefore
  PROVE  WholeInv'
<1>1. /\ UNCHANGED <<table, files, origin, mem, turn, heard, command, events>>
      /\ \E reply : Checks(reply, "early")
  BY DEF CheckBefore
<1> QED BY <1>1, ChecksLeavesWhole

LEMMA ContinueLeavesWhole ==
  ASSUME WholeInv, Continue
  PROVE  WholeInv'
<1>1. UNCHANGED <<table, files, origin, mem, events, mishaps, heard, command, job>> /\ turn' \in {turn, "asked"}
  BY DEF Continue
<1>2. ToolOut' => ToolOut
  BY <1>1 DEF ToolOut
<1> QED BY <1>1, <1>2, AllStays

LEMMA NewestSame ==
  ASSUME NEW T, NEW U, NEW k, DOMAIN U = DOMAIN T \union {k}, U[k].kind # "call",
         \A i \in DOMAIN T : U[i].kind = T[i].kind
  PROVE  NewestCall(U) = NewestCall(T)
<1>1. {i \in DOMAIN U : U[i].kind = "call"} = {i \in DOMAIN T : T[i].kind = "call"}
  OBVIOUS
<1> QED BY <1>1 DEF NewestCall

LEMMA NewestNew ==
  ASSUME NEW U, NEW k \in Nat \ {0}, DOMAIN U = 1..k, U[k].kind = "call"
  PROVE  NewestCall(U) = k
<1> DEFINE S == {i \in DOMAIN U : U[i].kind = "call"}
<1>1. k \in S /\ S \subseteq 0..k /\ S # {}
  OBVIOUS
<1> HIDE DEF S
<1>2. Max(S) \in S /\ \A i \in S : i <= Max(S)
  BY <1>1, GreatestOfSet
<1>3. Max(S) \in 0..k /\ k <= Max(S)
  BY <1>1, <1>2
<1>4. Max(S) = k
  BY <1>3
<1> QED BY <1>4 DEF NewestCall, S

\* What a new entry, that has no place yet, leaves as it was.
EntersOn(M, E, p, x, T) ==
  /\ Longer(table, T) /\ T[Next1] = x /\ DOMAIN T = DOMAIN table \union {Next1}
  /\ DOMAIN T = 1..Next1 /\ Next1 \in Nat \ {0} /\ Next1 # EndMark
  /\ PathTo(T, M.ids, M.leaf) = p /\ p \in Seq(Int)
  /\ SameOn(table, p, T, p, Len(p)) /\ Carries(table, p, T, p, E)

LEMMA EntersWhole ==
  ASSUME NEW M, NEW E, Fits(table, M, E), NEW x, NEW T, Enters(table, x, T), NEW p,
         p = PathTo(table, M.ids, M.leaf)
  PROVE  EntersOn(M, E, p, x, T)
<1>1. Core(table, M, files, origin) /\ Waits(table, M, files, E)
  BY DEF Fits
<1>2. /\ GoodTable(table) /\ GoodIds(table, M.ids) /\ M.leaf \in Members(M.ids) \union {Header}
      /\ Len(table) \in Nat /\ DOMAIN table = 1..Len(table) /\ Members(M.ids) \subseteq DOMAIN table
  BY <1>1, CoreTypes DEF Core
<1>3. Core(T, M, files, origin)
  BY <1>1, NewEntry
<1>4. Len(T) = Len(table) + 1
  BY <1>1, NewEntry
<1>5. T[Len(table) + 1] = x
  BY <1>1, NewEntry
<1>6. \A i \in DOMAIN table : T[i] = table[i]
  BY <1>1, NewEntry
<1>7. DOMAIN T = DOMAIN table \union {Len(table) + 1}
  BY <1>1, NewEntry
<1>8. Longer(table, T)
  BY <1>2, <1>3, <1>4, <1>6 DEF Longer, Core
<1>9. p \in Seq(Members(M.ids)) /\ p \in Seq(Int)
  BY <1>2, PathOf
<1>10. SameOn(table, p, T, p, Len(p))
  <2>1. \A m \in 1..Len(p) : p[m] \in DOMAIN table
    BY <1>2, <1>9
  <2> QED BY <2>1, <1>6, <1>9 DEF SameOn
<1>11. Carries(table, p, T, p, E)
  <2>1. \A e \in ToSet(E) \ {EndMark} : e \in DOMAIN table
    BY <1>1 DEF Waits, ToSet, Unplaced
  <2>2. \A c : EndsInCall(table, p, Len(p), c) => EndsInCall(T, p, Len(p), c)
    BY <1>10, SaysTheSame
  <2> QED BY <2>1, <2>2, <1>6 DEF Carries
<1>12. PathTo(T, M.ids, M.leaf) = p
  BY EntersContext
<1>13. DOMAIN T = 1..Next1 /\ Next1 \in Nat \ {0} /\ Next1 # EndMark
  BY <1>2, <1>7 DEF Next1, EndMark
<1> QED BY <1>5, <1>7, <1>8, <1>9, <1>10, <1>11, <1>12, <1>13 DEF EntersOn, Next1

LEMMA EmitLeavesWhole ==
  ASSUME SInv, StepInv, WholeInv, Room(1), NEW kind \in Messages, NEW ref \in Nat,
         table' = Append(table, Made(kind, ref, {})),
         NEW marks \in {<<>>, <<EndMark>>}, Emit(Next1, marks),
         kind = "result" => turn = "called" /\ ref = NewestCall(table),
         turn' = "called" => kind = "call" /\ command.what = "none"
  PROVE  WholeInv'
<1> DEFINE x == Made(kind, ref, {})
           U == table'
           p == Path
           k == Next1
           E == events
<1>1. /\ UNCHANGED <<files, mem, heard, command, job, origin>>
      /\ events' = IF heard THEN E \o <<k>> \o marks ELSE E
      /\ Blames({y \in {"unheard"} : ~heard /\ (command.what = "compact" \/ job.what = "manual")})
  BY DEF Emit
<1>2. Core(table, mem, files, origin) /\ Control /\ mem.file \in Nat /\ E \in Seq(Int)
  BY InvTypes DEF Waits
<1>3. x \in Entry /\ x.parent = Header /\ x.kind = kind /\ x.ref = ref
  <2>1. kind \in Kinds /\ {} \in SUBSET Nat
    BY DEF Kinds, Shown
  <2>2. x \in Entry /\ x.parent = Header
    BY <2>1, <1>2, MadeGood
  <2> QED BY <2>2 DEF Made
<1>4. Enters(table, x, U)
  BY <1>3, InvTypes DEF Enters, Room
<1> HIDE DEF x
<1>5. Fits(table, mem, E) /\ ("torn" \in mishaps \/ FileOf(table, mem, files))
  BY FitsNow DEF Fits
<1>6. /\ Longer(table, U) /\ U[k] = x /\ DOMAIN U = DOMAIN table \union {k}
      /\ DOMAIN U = 1..k /\ k \in Nat \ {0} /\ k # EndMark
      /\ PathTo(U, mem.ids, mem.leaf) = p /\ p \in Seq(Int)
      /\ Carries(table, p, U, p, E)
  <2>1. p = PathTo(table, mem.ids, mem.leaf)
    BY DEF Path
  <2> DEFINE M == mem
  <2> HIDE DEF p, U, E, M
  <2>2. Fits(table, M, E) /\ p = PathTo(table, M.ids, M.leaf)
    BY <2>1, <1>5 DEF M
  <2>3. EntersOn(M, E, p, x, U)
    BY <2>2, <1>4, EntersWhole
  <2> QED BY <2>3 DEF M, EntersOn
<1>7. Path' = p
  BY <1>1, <1>6 DEF Path
<1>8. mishaps \subseteq mishaps'
  BY <1>1 DEF Blames
<1>9. kind # "call" => NewestCall(U) = NewestCall(table)
  <2>1. \A i \in DOMAIN table : U[i].kind = table[i].kind
    BY <1>6 DEF Longer
  <2> HIDE DEF U, k
  <2> QED BY <2>1, <1>3, <1>6, NewestSame
<1>10. kind = "call" => NewestCall(U) = k
  <2> HIDE DEF U, k
  <2> QED BY <1>3, <1>6, NewestNew
<1>11. ASSUME Pairs' PROVE InTurn(U, p, events', ToolOut')
  <2> DEFINE s == ToolOut
             r == kind = "result" /\ heard
             t == ToolOut'
  <2>1. InTurn(table, p, E, s)
    BY <1>8, <1>11, MishapsGrow DEF WholeInv
  <2>2. r => s
    BY DEF ToolOut
  <2>3. r => NewestCall(U) = NewestCall(table)
    BY <1>9
  <2>4. t => kind = "call" /\ command.what = "none" /\ (heard \/ job.what = "manual" \/ command.what = "none")
    BY DEF ToolOut
  <2>5. InTurn(U, p, E, r)
    <3> HIDE DEF s, r, U, p, E
    <3> QED BY <2>1, <2>2, <2>3, <1>2, <1>6, StillInTurn DEF E
  <2>6. CASE ~heard
    <3>1. command.what # "compact" /\ job.what # "manual"
      BY <2>6, <1>1, <1>11 DEF Blames, Pairs
    <3>2. command.what # "none"
      BY <2>6, <3>1 DEF StepInv, Listens
    <3>3. ~t
      BY <3>2, <2>4
    <3> HIDE DEF t, r
    <3>4. InTurn(U, p, E, t)
      BY <3>3, <2>5 DEF InTurn
    <3>5. events' = E
      BY <2>6, <1>1
    <3> QED BY <3>4, <3>5 DEF t
  <2>7. CASE heard
    <3>1. U[k].kind = "result" => r /\ U[k].ref = NewestCall(U)
      BY <2>7, <1>3, <1>6, <1>9
    <3>2. t => U[k].kind = "call" /\ NewestCall(U) = k
      BY <2>4, <1>3, <1>6, <1>10
    <3>3. k \in Int
      BY <1>6
    <3> DEFINE D == Append(E, k)
    <3>4. D \in Seq(Int)
      BY <3>3, <1>2
    <3> HIDE DEF t, r, U, p, k, E
    <3>5. InTurn(U, p, D, t)
      BY <3>1, <3>2, <3>3, <2>5, <1>2, <1>6, InTurnMore DEF E
    <3> HIDE DEF D
    <3>6. InTurn(U, p, Append(D, EndMark), t)
      BY <3>4, <3>5, InTurnMark
    <3>7. E \o <<k>> = D /\ D \o <<>> = D /\ D \o <<EndMark>> = Append(D, EndMark)
      BY <3>3, <3>4, <1>2 DEF D, E
    <3>8. events' = D \/ events' = Append(D, EndMark)
      BY <3>7, <2>7, <1>1
    <3>9. InTurn(U, p, events', t)
      BY <3>5, <3>6, <3>8
    <3> QED BY <3>9 DEF t, U, p
  <2> QED BY <2>6, <2>7
<1>12. CASE "torn" \in mishaps
  BY <1>7, <1>8, <1>11, <1>12 DEF WholeInv
<1>13. CASE "torn" \notin mishaps
  <2> DEFINE a == Remembers'
             b == Pairs'
  <2>1. Told(table, mem, files, Remembers, Pairs) /\ JobTold(table, mem, files, origin, job)
    BY <1>13 DEF WholeInv
  <2>2. (a => Remembers) /\ (b => Pairs)
    BY <1>8, MishapsGrow
  <2> HIDE DEF a, b
  <2>3. Told(table, mem, files, a, b)
    BY <2>1, <2>2, ToldLess
  <2>4. Told(U, mem, files, a, b) /\ JobTold(U, mem, files, origin, job)
    <3> HIDE DEF U
    <3> QED BY <2>1, <2>3, <1>2, <1>5, <1>6, <1>13, ToldLater
  <2>5. Told(table', mem', files', a, b) /\ JobTold(table', mem', files', origin', job')
    BY <2>4, <1>1
  <2> QED BY <2>5, <1>7, <1>11 DEF WholeInv, a, b
<1> QED BY <1>12, <1>13

LEMMA PromptLeavesWhole ==
  ASSUME SInv, StepInv, WholeInv, Prompt
  PROVE  WholeInv'
<1>1. /\ Room(1) /\ table' = Append(table, Made("user", 0, {})) /\ Emit(Next1, <<>>) /\ turn' = "asked"
  BY DEF Prompt
<1>2. "user" \in Messages
  BY DEF Messages
<1> QED BY <1>1, <1>2, EmitLeavesWhole

LEMMA RespondLeavesWhole ==
  ASSUME SInv, StepInv, WholeInv, Respond
  PROVE  WholeInv'
<1>1. PICK kind \in Replies :
        /\ command.what # "none" => kind # "call"
        /\ table' = Append(table, Made(kind, 0, {}))
        /\ turn' = IF kind = "call" THEN "called" ELSE "idle"
        /\ Emit(Next1, IF kind = "call" THEN <<>> ELSE <<EndMark>>)
  BY DEF Respond
<1>2. kind \in Messages /\ Room(1) /\ kind # "result"
  BY DEF Respond, Messages, Replies
<1> DEFINE marks == IF kind = "call" THEN <<>> ELSE <<EndMark>>
<1>3. marks \in {<<>>, <<EndMark>>} /\ Emit(Next1, marks)
  BY <1>1
<1>4. turn' = "called" => kind = "call" /\ command.what = "none"
  BY <1>1
<1> HIDE DEF marks
<1> QED BY <1>1, <1>2, <1>3, <1>4, EmitLeavesWhole

LEMMA ToolEndsLeavesWhole ==
  ASSUME SInv, StepInv, WholeInv, ToolEnds
  PROVE  WholeInv'
<1> DEFINE ref == NewestCall(table)
<1>1. /\ Room(1) /\ turn = "called" /\ table' = Append(table, Made("result", ref, {}))
      /\ Emit(Next1, <<>>) /\ turn' = "asked"
  BY DEF ToolEnds, NewestCall
<1>2. "result" \in Messages
  BY DEF Messages
<1>3. ref \in Nat
  BY <1>1, LastCall DEF NewestCall
<1>4. turn' # "called"
  BY <1>1
<1> HIDE DEF ref
<1>5. ref = NewestCall(table)
  BY DEF ref
<1> QED BY <1>1, <1>2, <1>3, <1>4, <1>5, EmitLeavesWhole

\* What a step that stores an entry has to show of it.
LEMMA StoreLeavesWhole ==
  ASSUME NEW T, NEW M, NEW i, NEW E, NEW out, Stores(T, M, i, E, out),
         origin' = origin, mishaps \subseteq mishaps', out.ok \/ "torn" \in mishaps',
         \/ "torn" \in mishaps
         \/ /\ Told(T, M, files, Remembers', Pairs')
            /\ JobTold(T, M, files, origin, job')
            /\ NewFits(T, PathTo(T, M.ids, M.leaf), i, Remembers', Pairs'),
         ~Pairs' \/ InTurn(table', Path', events', ToolOut')
  PROVE  WholeInv'
<1>1. CASE "torn" \in mishaps'
  BY <1>1 DEF WholeInv
<1>2. CASE "torn" \notin mishaps'
  <2> DEFINE a == Remembers'
             b == Pairs'
             j == job'
             p == PathTo(T, M.ids, M.leaf)
  <2>1. "torn" \notin mishaps /\ out.ok
    BY <1>2
  <2>2. Told(T, M, files, a, b) /\ JobTold(T, M, files, origin, j) /\ NewFits(T, p, i, a, b)
    BY <2>1
  <2> HIDE DEF a, b, j
  <2>3. /\ Told(table', mem', files', a, b)
        /\ \A k : JobTold(T, M, files, origin, k) => JobTold(table', mem', files', origin, k)
    BY <2>1, <2>2, StoreTells
  <2>4. JobTold(table', mem', files', origin, j)
    BY <2>2, <2>3
  <2> QED BY <2>3, <2>4 DEF WholeInv, a, b, j
<1> QED BY <1>1, <1>2

LEMMA PathStored ==
  ASSUME NEW T, NEW M, NEW i, NEW E, NEW out, Stores(T, M, i, E, out)
  PROVE  Path' = Append(PathTo(T, M.ids, M.leaf), i)
<1> DEFINE U == table'
           ids == M.ids
           leaf == M.leaf
<1>1. Appended(T, ids, leaf, U, i) /\ mem'.ids = Append(ids, i) /\ mem'.leaf = i
  BY StoreAppends
<1> HIDE DEF U, ids, leaf
<1>2. PathTo(U, Append(ids, i), i) = Append(PathTo(T, ids, leaf), i)
  BY <1>1, PathAppend
<1> QED BY <1>1, <1>2 DEF U, ids, leaf, Path

LEMMA NewStoreIs ==
  ASSUME NEW M, NEW E, NEW x, NEW T, NEW out, StoresNew(M, E, x, T, out)
  PROVE  /\ Stores(T, M, Next1, E, out) /\ out.ok \in BOOLEAN
         /\ EntersOn(M, E, PathTo(table, M.ids, M.leaf), x, T)
         /\ "torn" \in mishaps \/ (Core(table, M, files, origin) /\ FileOf(table, M, files))
<1>1. /\ Fits(table, M, E) /\ Enters(table, x, T)
      /\ out \in Writes(ToWrite(T, M, Next1)) /\ Store(T, M, Next1, out)
  BY DEF StoresNew
<1>2. Fits(T, M, E) /\ Unplaced(T, M, files, Next1) /\ Next1 \notin ToSet(E)
  BY <1>1, NewStores
<1>3. Stores(T, M, Next1, E, out)
  BY <1>1, <1>2 DEF Stores
<1>4. out.ok \in BOOLEAN
  BY <1>3, StoreFacts
<1>5. EntersOn(M, E, PathTo(table, M.ids, M.leaf), x, T)
  BY <1>1, EntersWhole
<1> QED BY <1>1, <1>3, <1>4, <1>5 DEF Fits

LEMMA NewStoreLeavesWhole ==
  ASSUME NEW M, NEW E, NEW x, NEW T, NEW out, StoresNew(M, E, x, T, out),
         NEW p, p = PathTo(table, M.ids, M.leaf),
         origin' = origin, mishaps \subseteq mishaps', out.ok \/ "torn" \in mishaps',
         \/ "torn" \in mishaps
         \/ /\ Told(table, M, files, Remembers', Pairs')
            /\ JobTold(table, M, files, origin, job')
            /\ NewFits(T, p, Next1, Remembers', Pairs'),
         ~Pairs' \/ InTurn(table', Path', events', ToolOut')
  PROVE  WholeInv'
<1>1. /\ Stores(T, M, Next1, E, out)
      /\ EntersOn(M, E, p, x, T)
      /\ "torn" \in mishaps \/ (Core(table, M, files, origin) /\ FileOf(table, M, files))
  BY NewStoreIs
<1>2. Longer(table, T) /\ PathTo(T, M.ids, M.leaf) = p
  BY <1>1 DEF EntersOn
<1> DEFINE a == Remembers'
           b == Pairs'
           j == job'
           i == Next1
<1>3. ASSUME "torn" \notin mishaps
      PROVE  /\ Told(T, M, files, a, b) /\ JobTold(T, M, files, origin, j)
             /\ NewFits(T, PathTo(T, M.ids, M.leaf), i, a, b)
  <2>1. Told(table, M, files, a, b) /\ JobTold(table, M, files, origin, j) /\ NewFits(T, p, i, a, b)
    BY <1>3
  <2>2. Core(table, M, files, origin) /\ FileOf(table, M, files)
    BY <1>1, <1>3
  <2> HIDE DEF a, b, j, i
  <2>3. /\ \A c, d : Told(table, M, files, c, d) => Told(T, M, files, c, d)
        /\ \A k : JobTold(table, M, files, origin, k) => JobTold(T, M, files, origin, k)
    BY <2>2, <1>2, ToldLater
  <2> QED BY <2>1, <2>3, <1>2
<1>4. Stores(T, M, i, E, out)
  BY <1>1
<1> HIDE DEF i
<1> QED BY <1>3, <1>4, StoreLeavesWhole

\* What a step has to show of a session that has the entries of the one that was open.
LEMMA StillTold ==
  ASSUME WholeInv, "torn" \notin mishaps, mishaps \subseteq mishaps',
         NEW M, M.ids = mem.ids, M.file = mem.file,
         \/ job' = job
         \/ job'.what \notin {"auto", "early", "manual"}
  PROVE  /\ Told(table, M, files, Remembers', Pairs')
         /\ JobTold(table, M, files, origin, job')
<1> DEFINE a == Remembers'
           b == Pairs'
           j == job'
<1>1. Told(table, mem, files, Remembers, Pairs) /\ JobTold(table, mem, files, origin, job)
  BY DEF WholeInv
<1>2. (a => Remembers) /\ (b => Pairs)
  BY MishapsGrow
<1>3. j = job \/ j.what \notin {"auto", "early", "manual"}
  OBVIOUS
<1> HIDE DEF a, b, j
<1>4. Told(table, mem, files, a, b)
  BY <1>1, <1>2, ToldLess
<1>5. Told(table, M, files, a, b)
  BY <1>4 DEF Told
<1>6. JobTold(table, mem, files, origin, j)
  BY <1>1, <1>3, NoJobTold
<1>7. JobTold(table, M, files, origin, j)
  BY <1>6 DEF JobTold
<1> QED BY <1>5, <1>7 DEF a, b, j

LEMMA QuietNow ==
  ASSUME SInv', ToSet(events') \subseteq {EndMark}, turn' # "called"
  PROVE  InTurn(table', Path', events', ToolOut')
<1> DEFINE E == events'
           t == ToolOut'
<1>1. E \in Seq(Int)
  BY DEF SInv, Waits
<1>2. ~t
  BY DEF ToolOut
<1> HIDE DEF E, t
<1>3. InTurn(table', Path', E, t)
  BY <1>1, <1>2, QuietTurn DEF E
<1> QED BY <1>3 DEF E, t

LEMMA MessageEndLeavesWhole ==
  ASSUME SInv, StepInv, WholeInv, MessageEnd
  PROVE  WholeInv'
<1> DEFINE i == Head(events)
           E == Tail(events)
           p == Path
           U == table'
<1>1. /\ events # <<>> /\ i # EndMark /\ events' = E
      /\ UNCHANGED <<agent, turn, heard, command, job, origin>>
  BY DEF MessageEnd, Unblocked
<1>2. PICK out \in Writes(ToWrite(table, mem, i)) :
        /\ Store(table, mem, i, out)
        /\ Blames(Torn1(out))
  BY DEF MessageEnd
<1>3. /\ Core(table, mem, files, origin) /\ Waits(table, mem, files, events) /\ events \in Seq(Int)
  BY InvTypes DEF Waits
<1>4. /\ Waits(table, mem, files, E) /\ ToSet(E) \subseteq ToSet(events)
      /\ i \in ToSet(events) /\ Unplaced(table, mem, files, i) /\ i \notin ToSet(E)
  BY <1>1, <1>3, TailWaits
<1>5. i \in Int
  BY <1>1, <1>3
<1>6. Stores(table, mem, i, E, out)
  <2>1. Fits(table, mem, E)
    BY <1>3, <1>4, FitsNow DEF Fits
  <2> HIDE DEF i, E
  <2> QED BY <2>1, <1>2, <1>4 DEF Stores
<1>7. /\ SameEntries(table, U) /\ DOMAIN U = DOMAIN table /\ out.ok \in BOOLEAN
  <2> HIDE DEF i, E
  <2> QED BY <1>6, StoreFacts
<1>8. mishaps \subseteq mishaps' /\ (out.ok \/ "torn" \in mishaps')
  BY <1>2, <1>7 DEF Blames, Torn1
<1>9. Path' = Append(p, i)
  <2> HIDE DEF i, E
  <2>1. Path' = Append(PathTo(table, mem.ids, mem.leaf), i)
    BY <1>6, PathStored
  <2> QED BY <2>1 DEF Path
<1>10. p \in Seq(Int)
  <2>1. GoodTable(table) /\ GoodIds(table, mem.ids) /\ mem.leaf \in Members(mem.ids) \union {Header}
    BY <1>3, CoreTypes DEF Core
  <2> QED BY <2>1, PathOf DEF Path
<1>11. \A e \in ToSet(events) \ {EndMark} : U[e].kind = table[e].kind /\ U[e].ref = table[e].ref
  <2>1. \A e \in ToSet(events) \ {EndMark} : e \in DOMAIN table
    BY <1>3 DEF Waits, ToSet, Unplaced
  <2> QED BY <2>1, <1>7 DEF SameEntries
<1>12. NewestCall(U) = NewestCall(table)
  <2>1. {n \in DOMAIN U : U[n].kind = "call"} = {n \in DOMAIN table : table[n].kind = "call"}
    BY <1>7 DEF SameEntries
  <2> QED BY <2>1 DEF NewestCall
<1>13. ASSUME Pairs'
       PROVE  /\ InTurn(U, Append(p, i), E, ToolOut')
              /\ table[i].kind = "result" => EndsInCall(table, p, Len(p), table[i].ref)
  <2> DEFINE t == ToolOut'
  <2>1. InTurn(table, p, events, t)
    <3>1. ToolOut' = ToolOut
      BY <1>1 DEF ToolOut
    <3>2. InTurn(table, p, events, ToolOut)
      BY <1>8, <1>13, MishapsGrow DEF WholeInv
    <3> QED BY <3>1, <3>2
  <2>2. i = Head(events)
    OBVIOUS
  <2> DEFINE D == events
  <2>3. /\ InTurn(table, p, D, t) /\ D \in Seq(Int) /\ D # <<>> /\ i = Head(D) /\ E = Tail(D)
        /\ \A e \in ToSet(D) \ {EndMark} : U[e].kind = table[e].kind /\ U[e].ref = table[e].ref
    BY <2>1, <1>1, <1>3, <1>11
  <2> HIDE DEF t, p, i, E, U, D
  <2>4. /\ InTurn(U, Append(p, i), Tail(D), t)
        /\ table[i].kind = "result" => EndsInCall(table, p, Len(p), table[i].ref)
    BY <2>3, <1>1, <1>5, <1>10, <1>12, InTurnStored
  <2> QED BY <2>3, <2>4 DEF t
<1>14. NewFits(table, p, i, Remembers', Pairs')
  <2>1. table[i].kind # "compaction"
    <3>1. table[i].kind \in Messages
      BY <1>1, <1>4 DEF StepInv, Said
    <3> QED BY <3>1 DEF Messages, Replies
  <2> DEFINE a == Remembers'
             b == Pairs'
  <2>2. b => (table[i].kind = "result" => EndsInCall(table, p, Len(p), table[i].ref))
    BY <1>13
  <2> HIDE DEF a, b, p, i
  <2>3. NewFits(table, p, i, a, b)
    BY <2>1, <2>2 DEF NewFits
  <2> QED BY <2>3 DEF a, b
<1>15. ~Pairs' \/ InTurn(table', Path', events', ToolOut')
  BY <1>1, <1>9, <1>13
<1>16. "torn" \in mishaps \/ (Told(table, mem, files, Remembers', Pairs') /\ JobTold(table, mem, files, origin, job'))
  BY <1>1, <1>8, StillTold
<1>17. p = PathTo(table, mem.ids, mem.leaf)
  BY DEF Path
<1> HIDE DEF i, E, p, U
<1> QED BY <1>1, <1>6, <1>8, <1>14, <1>15, <1>16, <1>17, StoreLeavesWhole

\* After a step that nothing waits for, or that is to blame for parting calls and results.
LEMMA QuietOrParted ==
  ASSUME SInv', events' = events, turn' = turn, turn # "idle" => "midturn" \in mishaps',
         Waiting => mishaps' \intersect {"torn", "lagging", "overtaken"} # {}
  PROVE  ~Pairs' \/ InTurn(table', Path', events', ToolOut')
<1>1. ASSUME Pairs' PROVE ~Waiting /\ turn' = "idle"
  BY <1>1 DEF Pairs
<1>2. ASSUME Pairs' PROVE ToSet(events') \subseteq {EndMark} /\ turn' # "called"
  BY <1>1, <1>2, NothingWaits
<1>3. ASSUME Pairs' PROVE InTurn(table', Path', events', ToolOut')
  BY <1>2, <1>3, QuietNow
<1> QED BY <1>3

LEMMA PlainFits ==
  ASSUME NEW T, NEW p, NEW i, T[i].kind \notin {"result", "compaction"}, NEW a, NEW b
  PROVE  NewFits(T, p, i, a, b)
BY DEF NewFits

\* An entry that is neither a result nor a compaction is made and stored at once.
LEMMA PlainLeavesWhole ==
  ASSUME NEW M, NEW E, NEW x, NEW T, NEW out, StoresNew(M, E, x, T, out),
         x.kind \notin {"result", "compaction"},
         origin' = origin, mishaps \subseteq mishaps', out.ok \/ "torn" \in mishaps',
         \/ "torn" \in mishaps
         \/ Told(table, M, files, Remembers', Pairs') /\ JobTold(table, M, files, origin, job'),
         ~Pairs' \/ InTurn(table', Path', events', ToolOut')
  PROVE  WholeInv'
<1> DEFINE p == PathTo(table, M.ids, M.leaf)
<1>1. EntersOn(M, E, p, x, T)
  BY NewStoreIs
<1>2. T[Next1].kind \notin {"result", "compaction"}
  BY <1>1 DEF EntersOn
<1>3. \A a, b : NewFits(T, p, Next1, a, b)
  BY <1>2, PlainFits
<1>4. p = PathTo(table, M.ids, M.leaf)
  OBVIOUS
<1> HIDE DEF p
<1> QED BY <1>3, <1>4, NewStoreLeavesWhole

LEMMA NavigateLeavesWhole ==
  ASSUME SInv, SInv', WholeInv, Navigate
  PROVE  WholeInv'
<1>1. /\ mishaps' = mishaps \union Disturbs
      /\ UNCHANGED <<table, files, events, turn, heard, command, job, origin>>
  BY DEF Navigate, Blames
<1>2. mem'.ids = mem.ids /\ mem'.file = mem.file
  <2>1. PICK i : mem' = [mem EXCEPT !.leaf = Target(i)]
    BY DEF Navigate, MoveTo
  <2>2. mem \in [file : File, ids : Seq(Nat), leaf : Nat, flushed : BOOLEAN]
    BY InvTypes DEF GoodMem
  <2> QED BY <2>1, <2>2
<1>3. /\ mishaps \subseteq mishaps'
      /\ turn # "idle" => "midturn" \in mishaps'
      /\ Waiting => mishaps' \intersect {"torn", "lagging", "overtaken"} # {}
  BY <1>1 DEF Disturbs
<1>4. ~Pairs' \/ InTurn(table', Path', events', ToolOut')
  BY <1>1, <1>3, QuietOrParted
<1> QED BY <1>1, <1>2, <1>3, <1>4, SessionsStay

LEMMA NavigatedLeavesWhole ==
  ASSUME SInv, SInv', WholeInv, Navigated
  PROVE  WholeInv'
<1>1. /\ job.what = "tree" /\ job' = NoJob
      /\ UNCHANGED <<events, turn, heard, command, origin>>
  BY DEF Navigated
<1>2. job'.what \notin {"auto", "early", "manual"}
  BY <1>1 DEF NoJob
<1>3. CASE UNCHANGED <<table, files, mem, agent, used, mishaps>>
  <2>1. ToolOut' => ToolOut
    BY <1>1, <1>2 DEF ToolOut
  <2> QED BY <2>1, <1>1, <1>2, <1>3, AllStays
<1>4. CASE Here(job.leaf) /\ Room(1)
           /\ LET T == Append(table, Made("branch_summary", 0, job.covers))
                  M == [mem EXCEPT !.leaf = job.leaf]
              IN \E out \in Writes(ToWrite(T, M, Next1)) :
                   /\ Store(T, M, Next1, out)
                   /\ agent' = IF out.ok THEN Context(table', mem'.ids, mem'.leaf) ELSE agent
                   /\ used' = used + (IF out.ok THEN 0 ELSE 1)
                   /\ Blames(Torn1(out) \union Disturbs
                             \union {x \in {"astray"} : job.file # mem.file})
  <2> DEFINE x == Made("branch_summary", 0, job.covers)
             T == Append(table, x)
             M == [mem EXCEPT !.leaf = job.leaf]
             blame(out) == Torn1(out) \union Disturbs \union {y \in {"astray"} : job.file # mem.file}
  <2>1. PICK out \in Writes(ToWrite(T, M, Next1)) :
          Store(T, M, Next1, out) /\ mishaps' = mishaps \union blame(out)
    BY <1>4 DEF Blames
  <2>2. Fits(table, M, events) /\ M.file = mem.file /\ M.ids = mem.ids
    BY <1>4, MovedFits
  <2>3. x \in Entry /\ x.parent = Header /\ x.kind = "branch_summary"
    <3>1. "branch_summary" \in Kinds /\ job.covers \in SUBSET Nat /\ mem.file \in Nat
      BY InvTypes DEF Control, JobOk, Kinds, Shown
    <3> QED BY <3>1, MadeGood
  <2>4. /\ ~out.ok => "torn" \in mishaps'
        /\ mishaps \subseteq mishaps'
        /\ turn # "idle" => "midturn" \in mishaps'
        /\ Waiting => mishaps' \intersect {"torn", "lagging", "overtaken"} # {}
    BY <2>1 DEF Torn1, Disturbs
  <2> HIDE DEF x, M, blame
  <2>5. Enters(table, x, T)
    BY <1>4, <2>3, InvTypes DEF Enters, Room
  <2> HIDE DEF T
  <2>6. StoresNew(M, events, x, T, out)
    BY <2>1, <2>2, <2>5 DEF StoresNew
  <2>7. out.ok \in BOOLEAN
    BY <2>6, NewStoreContext
  <2>8. out.ok \/ "torn" \in mishaps'
    BY <2>4, <2>7
  <2>9. ~Pairs' \/ InTurn(table', Path', events', ToolOut')
    BY <1>1, <2>4, QuietOrParted
  <2>10. "torn" \in mishaps \/ (Told(table, M, files, Remembers', Pairs') /\ JobTold(table, M, files, origin, job'))
    BY <1>2, <2>2, <2>4, StillTold
  <2>11. x.kind \notin {"result", "compaction"}
    BY <2>3
  <2> QED BY <1>1, <2>4, <2>6, <2>8, <2>9, <2>10, <2>11, PlainLeavesWhole
<1> QED BY <1>3, <1>4 DEF Navigated

LEMMA BashLeavesWhole ==
  ASSUME SInv, SInv', WholeInv, Bash
  PROVE  WholeInv'
<1>1. /\ turn = "idle" /\ mishaps' = mishaps \union {y \in {"overtaken"} : Waiting}
      /\ UNCHANGED <<events, turn, heard, command, job, origin>>
  BY BashIs
<1>2. PICK x, T, out : Adds("bash", x, T, out) /\ out.ok
  BY BashIs
<1>5. x.kind = "bash" /\ StoresNew(mem, events, x, T, out)
  BY <1>2 DEF Adds
<1>6. mishaps \subseteq mishaps' /\ (Waiting => mishaps' \intersect {"torn", "lagging", "overtaken"} # {})
  BY <1>1
<1>7. ~Pairs' \/ InTurn(table', Path', events', ToolOut')
  BY <1>1, <1>6, QuietOrParted
<1>8. "torn" \in mishaps \/ (Told(table, mem, files, Remembers', Pairs') /\ JobTold(table, mem, files, origin, job'))
  BY <1>1, <1>6, StillTold
<1>9. x.kind \notin {"result", "compaction"}
  BY <1>5
<1> QED BY <1>1, <1>2, <1>5, <1>6, <1>7, <1>8, <1>9, PlainLeavesWhole

\* A label at the end of the path does not come between a call and its result.
LEMMA LabelCarries ==
  ASSUME NEW T, NEW p, NEW U, NEW i, NEW E, Ends(T, p, mem.leaf, U, i), Carries(table, p, T, p, E),
         T[i].kind \notin Heeded, \A e \in ToSet(E) \ {EndMark} : U[e].kind = T[e].kind /\ U[e].ref = T[e].ref
  PROVE  Carries(table, p, U, Append(p, i), E)
<1> DEFINE q == Append(p, i)
           l == Len(p)
<1>1. p \in Seq(Int) /\ i \in Int /\ SameOn(T, p, U, p, l) /\ U[i].kind = T[i].kind
  BY DEF Ends
<1>2. Len(q) = l + 1 /\ l \in Nat /\ q[l + 1] = i /\ \A m \in 1..l : q[m] = p[m]
  BY <1>1
<1>3. \A e \in ToSet(E) \ {EndMark} : U[e].kind = table[e].kind /\ U[e].ref = table[e].ref
  BY DEF Carries
<1>4. ASSUME NEW c, EndsInCall(table, p, l, c) PROVE EndsInCall(U, q, l + 1, c)
  <2>1. EndsInCall(T, p, l, c)
    BY <1>4 DEF Carries
  <2> HIDE DEF q, l
  <2>2. EndsInCall(U, p, l, c)
    BY <2>1, <1>1, SaysTheSame
  <2>3. PICK k \in 1..l :
          p[k] = c /\ KindAt(U, p, k) = "call" /\ \A m \in (k + 1)..l : KindAt(U, p, m) \notin Heeded
    BY <2>2 DEF EndsInCall
  <2>4. KindAt(U, q, l + 1) \notin Heeded
    BY <1>1, <1>2 DEF KindAt
  <2>5. q[k] = c /\ KindAt(U, q, k) = "call" /\ k \in 1..(l + 1)
    BY <2>3, <1>2 DEF KindAt
  <2>6. \A m \in (k + 1)..l : KindAt(U, q, m) \notin Heeded
    <3>1. \A m \in (k + 1)..l : m \in 1..l
      BY <2>3
    <3> QED BY <3>1, <2>3, <1>2 DEF KindAt
  <2>7. \A m \in (k + 1)..(l + 1) : m \in (k + 1)..l \/ m = l + 1
    BY <1>2, <2>3
  <2>8. \A m \in (k + 1)..(l + 1) : KindAt(U, q, m) \notin Heeded
    BY <2>4, <2>6, <2>7
  <2> QED BY <2>5, <2>8 DEF EndsInCall
<1> HIDE DEF q
<1> QED BY <1>2, <1>3, <1>4 DEF Carries, q

LEMMA UnheededLeavesWhole ==
  ASSUME SInv, WholeInv, NEW kind \in {"label", "setting"},
         NEW x, NEW T, NEW out, Adds(kind, x, T, out),
         UNCHANGED <<events, turn, heard, command, job, origin>>,
         mishaps \subseteq mishaps', out.ok \/ "torn" \in mishaps'
  PROVE  WholeInv'
<1> DEFINE p == Path
           U == table'
           k == Next1
<1>1. x.kind = kind /\ StoresNew(mem, events, x, T, out)
  BY DEF Adds
<1>7. Stores(T, mem, Next1, events, out) /\ EntersOn(mem, events, p, x, T)
  <2>1. Path = PathTo(table, mem.ids, mem.leaf)
    BY DEF Path
  <2> QED BY <2>1, <1>1, NewStoreIs
<1>8. /\ Longer(table, T) /\ T[k] = x /\ DOMAIN T = DOMAIN table \union {k}
      /\ PathTo(T, mem.ids, mem.leaf) = p /\ Carries(table, p, T, p, events)
  BY <1>7 DEF EntersOn
<1>9. Path' = Append(p, k)
  BY <1>7, <1>8, PathStored
<1>10. Ends(T, p, mem.leaf, U, k)
  BY <1>7, <1>8, StoreGrows
<1>11. SameEntries(T, U) /\ DOMAIN U = DOMAIN T
  BY <1>7, StoreFacts
<1>12. events \in Seq(Int) /\ \A e \in ToSet(events) \ {EndMark} : e \in DOMAIN table
  <2>1. Waits(table, mem, files, events)
    BY InvTypes
  <2> QED BY <2>1 DEF Waits, ToSet, Unplaced
<1> HIDE DEF U, p, k
<1>13. Carries(table, p, U, Append(p, k), events)
  <2>1. \A e \in ToSet(events) \ {EndMark} : U[e].kind = T[e].kind /\ U[e].ref = T[e].ref
    BY <1>8, <1>11, <1>12 DEF SameEntries
  <2>2. T[k].kind \notin Heeded
    BY <1>1, <1>8 DEF Heeded, Shown, Messages, Replies
  <2> QED BY <2>1, <2>2, <1>8, <1>10, LabelCarries
<1>14. NewestCall(U) = NewestCall(table)
  <2>1. DOMAIN U = DOMAIN table \union {k}
    BY <1>8, <1>11
  <2>2. U[k].kind # "call"
    BY <1>1, <1>8, <1>11 DEF SameEntries
  <2>3. \A e \in DOMAIN table : U[e].kind = table[e].kind
    BY <1>8, <1>11 DEF SameEntries, Longer
  <2> QED BY <2>1, <2>2, <2>3, NewestSame
<1>15. ~Pairs' \/ InTurn(table', Path', events', ToolOut')
  <2>1. ToolOut' = ToolOut /\ (Pairs' => Pairs)
    BY MishapsGrow DEF ToolOut
  <2>2. ASSUME Pairs PROVE InTurn(U, Append(p, k), events, ToolOut)
    <3> DEFINE t == ToolOut
    <3>1. InTurn(table, p, events, t)
      BY <2>2 DEF WholeInv, p
    <3> HIDE DEF t
    <3>2. InTurn(U, Append(p, k), events, t)
      BY <3>1, <1>12, <1>13, <1>14, StillInTurn
    <3> QED BY <3>2 DEF t
  <2> QED BY <2>1, <2>2, <1>9 DEF U
<1>16. "torn" \in mishaps \/ (Told(table, mem, files, Remembers', Pairs') /\ JobTold(table, mem, files, origin, job'))
  BY StillTold
<1>17. x.kind \notin {"result", "compaction"}
  BY <1>1
<1> QED BY <1>1, <1>15, <1>16, <1>17, PlainLeavesWhole

LEMMA LabelLeavesWhole ==
  ASSUME SInv, WholeInv, Label
  PROVE  WholeInv'
BY LabelIs, UnheededLeavesWhole

LEMMA FallsBackLeavesWhole ==
  ASSUME SInv, WholeInv, FallsBack
  PROVE  WholeInv'
<1>1. UNCHANGED <<events, turn, heard, command, origin>>
  BY FallsBackIs
<1>2. ASSUME NEW x, NEW T, NEW out, FallenBack(x, T, out) PROVE WholeInv'
  <2>1. Adds("setting", x, T, out) /\ job' = job
    BY <1>2 DEF FallenBack
  <2>2. mishaps \subseteq mishaps' /\ (out.ok \/ "torn" \in mishaps')
    BY <1>2 DEF FallenBack, TakesOff, Blames
  <2> QED BY <1>1, <2>1, <2>2, UnheededLeavesWhole
<1> QED BY <1>1, <1>2, FallsBackIs, ChecksLeavesWhole

\* A session of entries that nothing came before, and that neither answer nor sum up anything.
LEMMA FreshWhole ==
  ASSUME NEW T, GoodTable(T), NEW ids, GoodIds(T, ids),
         \A i \in Members(ids) : T[i].past = {} /\ T[i].kind \notin {"result", "compaction"},
         NEW a, NEW b
  PROVE  WholeSession(T, ids, a, b)
<1> SUFFICES ASSUME NEW i \in Members(ids), NEW n \in 1..Len(PathTo(T, ids, i))
             PROVE  WholeAt(T, PathTo(T, ids, i), n, a, b)
  BY DEF WholeSession, WholePath
<1> DEFINE p == PathTo(T, ids, i)
<1>1. p \in Seq(Members(ids))
  BY PathOf
<1> HIDE DEF p
<1>2. n \in 1..Len(p)
  BY DEF p
<1>3. p[n] \in Members(ids)
  BY <1>1, <1>2
<1>4. T[p[n]].past = {} /\ KindAt(T, p, n) \notin {"result", "compaction"}
  BY <1>3 DEF KindAt
<1>5. KeptAt(T, p, n) /\ PairedAt(T, p, n)
  BY <1>4 DEF KeptAt, PairedAt
<1> QED BY <1>5 DEF WholeAt, p

LEMMA NewSessionLeavesWhole ==
  ASSUME SInv, SInv', WholeInv, NewSession
  PROVE  WholeInv'
<1> DEFINE f == Min(Unused)
           x == [Setting EXCEPT !.home = f]
           k == Next1
           p == Path
<1>1. /\ Unused # {} /\ Room(1) /\ turn = "idle"
      /\ table' = Append(table, x) /\ mem' = Fresh(f, k)
      /\ origin' = [origin EXCEPT ![f] = {f}]
      /\ mishaps' = mishaps \union {y \in {"lagging"} : Waiting}
      /\ UNCHANGED <<files, events, turn, job>>
  BY DEF NewSession, Blames
<1>2. f \in File /\ origin[f] = {} /\ files[f] = <<>>
  BY <1>1, UnusedFile
<1> HIDE DEF f
<1>3. x \in Entry /\ x.parent = Header /\ x.kind = "setting" /\ x.past = {}
  BY <1>2, SettingGood DEF Setting
<1> HIDE DEF x
<1> DEFINE T == table'
<1>4. Enters(table, x, T)
  BY <1>1, <1>3, InvTypes DEF Enters, Room
<1> HIDE DEF T
<1>5. Longer(table, T) /\ T[k] = x
  <2>1. Fits(table, mem, events) /\ p = PathTo(table, mem.ids, mem.leaf)
    BY FitsNow DEF Path
  <2> HIDE DEF p
  <2>2. EntersOn(mem, events, p, x, T)
    BY <2>1, <1>4, EntersWhole
  <2> QED BY <2>2 DEF EntersOn
<1> HIDE DEF k, p
<1>6. mem'.ids = <<Header, k>> /\ mem'.file = f
  BY <1>1 DEF Fresh
<1>7. GoodTable(T) /\ GoodIds(T, mem'.ids)
  BY DEF SInv, Core, GoodMem, T
<1>8. \A i \in Members(mem'.ids) : T[i].past = {} /\ T[i].kind \notin {"result", "compaction"}
  <2>1. Members(<<Header, k>>) \subseteq {k}
    BY DEF Members, ToSet
  <2> QED BY <2>1, <1>3, <1>5, <1>6
<1>9. mishaps \subseteq mishaps' /\ (Waiting => mishaps' \intersect {"torn", "lagging", "overtaken"} # {})
  BY <1>1
<1>10. ~Pairs' \/ InTurn(table', Path', events', ToolOut')
  BY <1>1, <1>9, QuietOrParted
<1>11. ASSUME "torn" \notin mishaps
       PROVE  /\ Told(table', mem', files', Remembers', Pairs')
              /\ JobTold(table', mem', files', origin', job')
  <2> DEFINE a == Remembers'
             b == Pairs'
  <2>1. Told(table, mem, files, Remembers, Pairs) /\ JobTold(table, mem, files, origin, job)
    BY <1>11 DEF WholeInv
  <2>2. (a => Remembers) /\ (b => Pairs)
    BY <1>9, MishapsGrow
  <2>3. Core(table, mem, files, origin) /\ FileOf(table, mem, files)
    BY <1>11 DEF SInv, FileInv
  <2> HIDE DEF a, b
  <2>4. Told(table, mem, files, a, b)
    BY <2>1, <2>2, ToldLess
  <2>5. Told(T, mem, files, a, b) /\ JobTold(T, mem, files, origin, job)
    BY <2>1, <2>3, <2>4, <1>5, ToldLater
  <2>6. Told(T, mem', files, a, b)
    <3>1. WholeSession(T, mem'.ids, a, b)
      BY <1>7, <1>8, FreshWhole
    <3> QED BY <3>1, <2>5 DEF Told
  <2>7. JobTold(T, mem', files, origin', job)
    <3>1. \A g \in File : origin[g] # {} => g # f /\ origin'[g] # {}
      <4>1. origin \in [File -> SUBSET File]
        BY <2>3 DEF Core, Owned
      <4> QED BY <4>1, <1>1, <1>2
    <3> QED BY <3>1, <2>5, <1>6 DEF JobTold
  <2>8. table' = T /\ files' = files /\ job' = job
    BY <1>1 DEF T
  <2> QED BY <2>6, <2>7, <2>8 DEF a, b
<1>12. "torn" \in mishaps => "torn" \in mishaps'
  BY <1>9
<1> QED BY <1>10, <1>11, <1>12 DEF WholeInv

\* The session that a file is opened as has what the file has.
LEMMA OpenedTold ==
  ASSUME SInv, WholeInv, "torn" \notin mishaps, mishaps \subseteq mishaps',
         NEW f \in File, Valid(files[f]), NEW M, M.ids = Loaded(files[f]), M.file = f,
         job' = job \/ job'.what \notin {"auto", "early", "manual"}
  PROVE  /\ Told(table, M, files, Remembers', Pairs')
         /\ JobTold(table, M, files, origin, job')
<1> DEFINE a == Remembers'
           b == Pairs'
           j == job'
           lines == files[f]
<1>1. Core(table, mem, files, origin) /\ FileOf(table, mem, files)
  BY DEF SInv, FileInv
<1>2. lines # <<>> /\ \A n \in DOMAIN lines : lines[n] # Torn
  <2>1. lines # <<>>
    BY DEF Valid
  <2> QED BY <2>1, <1>1 DEF FileOf, CleanFile
<1>3. M.ids = lines
  <2>1. lines \in Seq(Torn..Len(table)) /\ GoodTable(table)
    BY <1>1, CoreTypes DEF Core
  <2> HIDE DEF lines
  <2>2. Valid(lines) /\ M.ids = Loaded(lines)
    BY DEF lines
  <2> QED BY <2>1, <2>2, <1>2, LoadedGood
<1>4. /\ Told(table, mem, files, Remembers', Pairs')
      /\ JobTold(table, mem, files, origin, job')
  <2>1. mem.ids = mem.ids /\ mem.file = mem.file
    OBVIOUS
  <2> QED BY <2>1, StillTold
<1> HIDE DEF a, b, j
<1>5. Told(table, mem, files, a, b) /\ JobTold(table, mem, files, origin, j)
  BY <1>4 DEF a, b, j
<1>6. Told(table, M, files, a, b)
  BY <1>2, <1>3, <1>5 DEF Told
<1>7. JobTold(table, M, files, origin, j)
  BY <1>2, <1>3, <1>5 DEF JobTold
<1> QED BY <1>6, <1>7 DEF a, b, j

LEMMA OpensLeavesWhole ==
  ASSUME SInv, SInv', WholeInv, NEW f \in File, Valid(files[f]), NEW started, Opens(f, started),
         NEW E, events' = E, E = events \/ E = <<>>, origin' = origin, mishaps \subseteq mishaps',
         job' = job \/ job'.what \notin {"auto", "early", "manual"},
         ~Pairs' \/ InTurn(table', Path', events', ToolOut')
  PROVE  WholeInv'
<1> DEFINE M == OpenedMem(f)
           x == [Setting EXCEPT !.home = f]
           T == Append(table, x)
<1>1. Waits(table, mem, files, E)
  <2>1. Waits(table, mem, files, events)
    BY InvTypes
  <2>2. Waits(table, mem, files, <<>>)
    BY DEF Waits, ToSet
  <2> QED BY <2>1, <2>2
<1>2. Fits(table, M, E) /\ M.ids = Loaded(files[f]) /\ M.file = f
  BY <1>1, OpenedFits
<1>3. \/ mem' = M /\ UNCHANGED <<table, files>>
      \/ /\ Room(1)
         /\ \E out \in Writes(ToWrite(T, M, Next1)) : out.ok /\ Store(T, M, Next1, out)
  BY DEF Opens, OpenedMem
<1> HIDE DEF M
<1>4. "torn" \in mishaps \/ (Told(table, M, files, Remembers', Pairs') /\ JobTold(table, M, files, origin, job'))
  BY <1>2, OpenedTold
<1>5. CASE mem' = M /\ UNCHANGED <<table, files>>
  <2>1. "torn" \in mishaps \/ (Told(table', mem', files', Remembers', Pairs') /\ JobTold(table', mem', files', origin', job'))
    BY <1>4, <1>5
  <2> QED BY <2>1 DEF WholeInv
<1>6. CASE Room(1) /\ \E out \in Writes(ToWrite(T, M, Next1)) : out.ok /\ Store(T, M, Next1, out)
  <2>1. PICK out \in Writes(ToWrite(T, M, Next1)) : out.ok /\ Store(T, M, Next1, out)
    BY <1>6
  <2>2. x \in Entry /\ x.parent = Header /\ x.kind = "setting"
    BY SettingGood
  <2> HIDE DEF x
  <2>3. Enters(table, x, T)
    BY <1>6, <2>2, InvTypes DEF Enters, Room
  <2> HIDE DEF T
  <2>4. StoresNew(M, E, x, T, out)
    BY <2>1, <2>3, <1>2 DEF StoresNew
  <2>5. x.kind \notin {"result", "compaction"}
    BY <2>2
  <2> QED BY <1>4, <2>1, <2>4, <2>5, PlainLeavesWhole
<1> QED BY <1>3, <1>5, <1>6

LEMMA ResumeLeavesWhole ==
  ASSUME SInv, SInv', WholeInv, Resume
  PROVE  WholeInv'
<1>1. /\ command.what = "resume" /\ Opens(command.file, FALSE) /\ turn = "idle"
      /\ mishaps' = mishaps \union {x \in {"lagging"} : Waiting}
      /\ UNCHANGED <<events, turn, job, origin>>
  BY DEF Resume, Blames
<1>2. command.file \in File /\ Valid(files[command.file])
  BY <1>1, InvTypes DEF Control, CommandOk
<1>3. mishaps \subseteq mishaps' /\ (Waiting => mishaps' \intersect {"torn", "lagging", "overtaken"} # {})
  BY <1>1
<1>4. ~Pairs' \/ InTurn(table', Path', events', ToolOut')
  BY <1>1, <1>3, QuietOrParted
<1> QED BY <1>1, <1>2, <1>3, <1>4, OpensLeavesWhole

LEMMA RestartLeavesWhole ==
  ASSUME SInv, SInv', WholeInv, Restart
  PROVE  WholeInv'
<1>1. events' = <<>> /\ turn' = "idle" /\ job' = NoJob /\ UNCHANGED <<origin, mishaps>>
  BY DEF Restart
<1>2. PICK f \in File : Valid(files[f]) /\ Opens(f, TRUE)
  BY DEF Restart
<1>3. ToSet(events') \subseteq {EndMark} /\ turn' # "called"
  BY <1>1 DEF ToSet
<1>4. ~Pairs' \/ InTurn(table', Path', events', ToolOut')
  BY <1>3, QuietNow
<1>5. job'.what \notin {"auto", "early", "manual"}
  BY <1>1 DEF NoJob
<1> QED BY <1>1, <1>2, <1>4, <1>5, OpensLeavesWhole

-------------------------------------------------------------------------------
(* The compaction: what it keeps, and where it cuts *)

\* The path that a summary was made from is the beginning of the one it is appended to.
Begins(q, p) == p \in Seq(Int) /\ q \in Seq(Int) /\ Len(q) <= Len(p) /\ \A m \in 1..Len(q) : q[m] = p[m]

LEMMA CompactionKeeps ==
  ASSUME NEW T, NEW q, NEW p, Begins(q, p), \A n \in 1..Len(p) : KeptAt(T, p, n),
         NEW kept, NEW covers, CutFits(T, q, kept, covers), KeptBefore(T, q) \subseteq covers
  PROVE  KeepsFrom(T, p, Len(p), kept, covers)
<1> DEFINE c == LastCompaction(T, q)
           first == FirstKept(T, q, c)
<1>1. /\ p \in Seq(Int) /\ q \in Seq(Int) /\ Len(q) <= Len(p) /\ Len(p) \in Nat /\ Len(q) \in Nat
      /\ \A m \in 1..Len(q) : q[m] = p[m] /\ KindAt(T, q, m) = KindAt(T, p, m)
  BY DEF Begins, KindAt
<1>2. c \in 0..Len(q) /\ (c # 0 => KindAt(T, q, c) = "compaction")
  BY <1>1, LastCompactionOf
<1>3. /\ first \in 0..Len(q)
      /\ \A n \in 1..Len(q) : q[n] = T[q[c]].ref => first # 0 /\ first <= n
  BY <1>1, FirstKeptOf
<1>4. PICK cut \in (c + 1)..Len(q) : q[cut] = kept /\ Covered(T, q, c + 1, cut - 1, covers)
  BY DEF CutFits
<1>5. c # 0 /\ first # 0 =>
        T[q[c]].covers \union {q[i] : i \in {j \in first..(c - 1) : KindAt(T, q, j) \in Messages}} \subseteq covers
  BY DEF KeptBefore
<1> HIDE DEF c, first
<1>6. ASSUME NEW m \in 1..(cut - 1), KindAt(T, p, m) \in Messages PROVE p[m] \in covers
  <2>1. m \in 1..Len(q) /\ p[m] = q[m] /\ KindAt(T, q, m) \in Messages
    BY <1>1, <1>2, <1>4, <1>6
  <2>2. CASE m > c
    <3>1. m \in (c + 1)..(cut - 1)
      BY <1>2, <1>4, <2>2
    <3> QED BY <3>1, <2>1, <1>4 DEF Covered
  <2>3. CASE ~(m > c)
    <3>1. "compaction" \notin Messages
      BY DEF Messages, Replies
    <3>2. c # 0 /\ m # c
      BY <1>2, <2>1, <2>3, <3>1
    <3>3. m < c /\ c \in 1..Len(q) /\ c \in 1..Len(p)
      BY <1>1, <1>2, <2>3, <3>2
    <3>4. q[c] = p[c] /\ KindAt(T, p, c) = "compaction"
      BY <1>1, <1>2, <3>2, <3>3
    <3>5. KeptAt(T, p, c)
      BY <3>3
    <3>6. KeepsFrom(T, p, c - 1, T[p[c]].ref, T[p[c]].covers)
      BY <3>4, <3>5 DEF KeptAt
    <3>7. PICK g \in 1..(c - 1) : p[g] = T[p[c]].ref /\ Covered(T, p, 1, g - 1, T[p[c]].covers)
      BY <3>6 DEF KeepsFrom
    <3>8. g \in 1..Len(q) /\ q[g] = p[g]
      BY <3>3, <3>7, <1>1
    <3>9. q[g] = T[q[c]].ref
      BY <3>4, <3>7, <3>8
    <3>10. first # 0 /\ first <= g
      BY <3>8, <3>9, <1>3
    <3>11. CASE m < first
      <4>1. m \in 1..(g - 1)
        BY <3>7, <3>10, <3>11, <1>3
      <4>2. p[m] \in T[q[c]].covers
        BY <4>1, <3>4, <3>7, <1>6 DEF Covered
      <4> QED BY <4>2, <3>2, <3>10, <1>5
    <3>12. CASE ~(m < first)
      <4>1. m \in first..(c - 1)
        BY <3>3, <3>12, <1>2, <1>3
      <4>2. q[m] \in {q[i] : i \in {j \in first..(c - 1) : KindAt(T, q, j) \in Messages}}
        BY <4>1, <2>1
      <4> QED BY <4>2, <2>1, <3>2, <3>10, <1>5
    <3> QED BY <3>11, <3>12
  <2> QED BY <2>2, <2>3
<1>7. cut \in 1..Len(p) /\ p[cut] = kept
  BY <1>1, <1>2, <1>4
<1>8. Covered(T, p, 1, cut - 1, covers)
  BY <1>6 DEF Covered
<1> QED BY <1>7, <1>8 DEF KeepsFrom

LEMMA CompactionCuts ==
  ASSUME NEW T, NEW q, NEW p, Begins(q, p), \A n \in 1..Len(p) : PairedAt(T, p, n),
         NEW kept, NEW covers, CutFits(T, q, kept, covers)
  PROVE  CutsFrom(T, p, Len(p), kept)
<1> DEFINE c == LastCompaction(T, q)
<1>1. /\ p \in Seq(Int) /\ q \in Seq(Int) /\ Len(q) <= Len(p) /\ Len(p) \in Nat /\ Len(q) \in Nat
      /\ \A m \in 1..Len(q) : q[m] = p[m] /\ KindAt(T, q, m) = KindAt(T, p, m)
  BY DEF Begins, KindAt
<1>2. c \in 0..Len(q) /\ (c # 0 => KindAt(T, q, c) = "compaction")
  BY <1>1, LastCompactionOf
<1>3. PICK cut \in (c + 1)..Len(q) :
        /\ q[cut] = kept
        /\ \/ cut = c + 1
           \/ \E j \in cut..Len(q) : /\ KindAt(T, q, j) \in CutKinds
                                     /\ \A m \in cut..(j - 1) : KindAt(T, q, m) \notin Messages
  BY DEF CutFits
<1> HIDE DEF c
<1>4. "result" \in Messages /\ "result" \notin CutKinds /\ CutKinds \subseteq Heeded
      /\ "compaction" \in Heeded /\ "compaction" # "call"
  BY DEF Messages, CutKinds, Heeded
<1>5. ASSUME NEW m \in cut..Len(p), KindAt(T, p, m) = "result"
      PROVE  \E k \in cut..(m - 1) : p[k] = T[p[m]].ref
  <2>1. m \in 1..Len(p)
    BY <1>2, <1>3
  <2>2. PICK k \in 1..(m - 1) :
          /\ p[k] = T[p[m]].ref /\ KindAt(T, p, k) = "call"
          /\ \A n \in (k + 1)..(m - 1) : KindAt(T, p, n) \notin Heeded
    BY <2>1, <1>5 DEF PairedAt, EndsInCall
  <2>3. ASSUME k < cut PROVE FALSE
    <3>1. CASE cut = c + 1
      <4>1. c \in 1..Len(q)
        BY <3>1, <2>2, <2>3, <1>2
      <4>2. KindAt(T, p, c) = "compaction"
        <5>1. c # 0
          BY <4>1
        <5> QED BY <5>1, <4>1, <1>1, <1>2
      <4>3. k # c
        BY <4>2, <2>2, <1>4
      <4>4. c \in (k + 1)..(m - 1)
        BY <4>1, <4>3, <3>1, <2>2, <2>3
      <4> QED BY <4>2, <4>4, <2>2, <1>4
    <3>2. CASE \E j \in cut..Len(q) : /\ KindAt(T, q, j) \in CutKinds
                                      /\ \A n \in cut..(j - 1) : KindAt(T, q, n) \notin Messages
      <4>1. PICK j \in cut..Len(q) : /\ KindAt(T, q, j) \in CutKinds
                                     /\ \A n \in cut..(j - 1) : KindAt(T, q, n) \notin Messages
        BY <3>2
      <4>2. j \in 1..Len(q) /\ KindAt(T, p, j) = KindAt(T, q, j)
        BY <4>1, <1>1, <1>2, <1>3
      <4>3. m # j
        BY <4>1, <4>2, <1>4, <1>5
      <4>4. ~(m < j)
        <5>1. ASSUME m < j PROVE FALSE
          <6>1. m \in cut..(j - 1) /\ m \in 1..Len(q)
            BY <5>1, <4>2, <2>1
          <6>2. KindAt(T, q, m) = "result"
            BY <6>1, <1>1, <1>5
          <6> QED BY <6>1, <6>2, <4>1, <1>4
        <5> QED BY <5>1
      <4>5. j \in (k + 1)..(m - 1)
        BY <4>1, <4>3, <4>4, <2>2, <2>3
      <4> QED BY <4>1, <4>2, <4>5, <2>2, <1>4
    <3> QED BY <3>1, <3>2, <1>3
  <2>4. k \in cut..(m - 1)
    BY <2>2, <2>3, <1>2, <1>3
  <2> QED BY <2>2, <2>4
<1>6. cut \in 1..Len(p) /\ p[cut] = kept
  BY <1>1, <1>2, <1>3
<1> QED BY <1>5, <1>6 DEF CutsFrom

\* A summary that is not astray was made from the beginning of the path.
LEMMA SummaryBegins ==
  ASSUME SInv, ~Astray
  PROVE  /\ Begins(PathTo(table, mem.ids, job.leaf), Path)
         /\ mem.file = job.file /\ mem.leaf \in Members(mem.ids)
<1> DEFINE p == Path
           q == PathTo(table, mem.ids, job.leaf)
<1>1. /\ GoodTable(table) /\ GoodIds(table, mem.ids) /\ mem.leaf \in Members(mem.ids) \union {Header}
  BY InvTypes, CoreTypes DEF Core
<1>2. /\ IsPath(table, Members(mem.ids), p, mem.leaf) /\ p \in Seq(Int)
      /\ DOMAIN p = 1..Len(p) /\ Len(p) \in Nat
  <2>1. IsPath(table, Members(mem.ids), p, mem.leaf) /\ p \in Seq(Int)
    BY <1>1, PathOf DEF Path
  <2> HIDE DEF p
  <2> QED BY <2>1
<1>3. job.file = mem.file /\ job.leaf \in ToSet(p)
  BY DEF Astray
<1>4. PICK m \in 1..Len(p) : p[m] = job.leaf
  BY <1>2, <1>3 DEF ToSet
<1>5. q = SubSeq(p, 1, m)
  BY <1>1, <1>4, PathToPrefix DEF Path
<1> HIDE DEF p, q
<1>6. Begins(q, p)
  <2>1. q \in Seq(Int) /\ Len(q) = m /\ \A n \in 1..m : q[n] = p[n]
    BY <1>2, <1>5
  <2> QED BY <2>1, <1>2 DEF Begins
<1>7. mem.leaf # Header
  <2>1. p # <<>>
    BY <1>4
  <2> QED BY <2>1, <1>2 DEF IsPath
<1> QED BY <1>1, <1>3, <1>6, <1>7 DEF p, q

LEMMA SummaryFits ==
  ASSUME SInv, "torn" \notin mishaps, ~Astray, job.what \in {"auto", "early", "manual"},
         NEW a, NEW b, Told(table, mem, files, a, b), JobTold(table, mem, files, origin, job)
  PROVE  /\ a /\ ~PassesOver => KeepsFrom(table, Path, Len(Path), job.kept, job.covers)
         /\ b => CutsFrom(table, Path, Len(Path), job.kept)
<1> DEFINE p == Path
           q == PathTo(table, mem.ids, job.leaf)
<1>1. Begins(q, p) /\ mem.file = job.file /\ mem.leaf \in Members(mem.ids)
  BY SummaryBegins
<1>2. WholePath(table, p, a, b)
  BY <1>1 DEF Told, WholeSession, Path
<1>3. CutFits(table, q, job.kept, job.covers)
  BY <1>1 DEF JobTold, JobFits
<1>4. ~PassesOver => KeptBefore(table, q) \subseteq job.covers
  BY DEF PassesOver
<1> HIDE DEF p, q
<1>5. ASSUME a, ~PassesOver PROVE KeepsFrom(table, p, Len(p), job.kept, job.covers)
  <2>1. \A n \in 1..Len(p) : KeptAt(table, p, n)
    BY <1>2, <1>5 DEF WholePath, WholeAt
  <2> QED BY <2>1, <1>1, <1>3, <1>4, <1>5, CompactionKeeps
<1>6. ASSUME b PROVE CutsFrom(table, p, Len(p), job.kept)
  <2>1. \A n \in 1..Len(p) : PairedAt(table, p, n)
    BY <1>2, <1>6 DEF WholePath, WholeAt
  <2> QED BY <2>1, <1>1, <1>3, CompactionCuts
<1> QED BY <1>5, <1>6 DEF p

LEMMA CompactedLeavesWhole ==
  ASSUME SInv, SInv', WholeInv, Compacted
  PROVE  WholeInv'
<1> DEFINE x == [Made("compaction", job.kept, job.covers) EXCEPT !.home = job.file]
           T == Append(table, x)
           p == Path
           blame(out) == Torn1(out)
                    \union {y \in {"lagging"} : out.ok /\ Waiting}
                    \union {y \in {"midturn"} : turn # "idle"}
                    \union {y \in {"astray"} : Astray}
                    \union {y \in {"recompacted"} : PassesOver}
<1>1. /\ job.what \in {"auto", "early", "manual"} /\ Room(1) /\ job' = NoJob
      /\ UNCHANGED <<events, turn, command, origin>>
  BY DEF Compacted
<1>2. PICK out \in Writes(ToWrite(T, mem, Next1)) :
        Store(T, mem, Next1, out) /\ mishaps' = mishaps \union blame(out)
  BY DEF Compacted, Blames
<1>3. /\ x \in Entry /\ x.parent = Header /\ x.kind = "compaction"
      /\ x.ref = job.kept /\ x.covers = job.covers
  <2>1. /\ "compaction" \in Kinds /\ job.kept \in Nat /\ job.covers \in SUBSET Nat /\ job.file \in Nat
        /\ mem.file \in Nat
    BY InvTypes DEF Control, JobOk, Kinds
  <2> DEFINE y == Made("compaction", job.kept, job.covers)
  <2>2. y \in Entry /\ y.parent = Header
    BY <2>1, MadeGood
  <2>3. y.kind = "compaction" /\ y.ref = job.kept /\ y.covers = job.covers
    BY DEF Made
  <2> HIDE DEF y
  <2>4. x = [y EXCEPT !.home = job.file]
    BY DEF y
  <2> QED BY <2>1, <2>2, <2>3, <2>4 DEF Entry
<1>4. /\ mishaps \subseteq mishaps'
      /\ ~out.ok => "torn" \in mishaps'
      /\ Waiting => mishaps' \intersect {"torn", "lagging", "overtaken"} # {}
      /\ turn # "idle" => "midturn" \in mishaps'
      /\ Astray => "astray" \in mishaps'
      /\ PassesOver => "recompacted" \in mishaps'
  <2>1. mishaps \subseteq mishaps' /\ (~out.ok => "torn" \in mishaps')
    BY <1>2 DEF Torn1
  <2>2. out.ok /\ Waiting => "lagging" \in mishaps'
    BY <1>2
  <2>3. turn # "idle" => "midturn" \in mishaps'
    BY <1>2
  <2>4. Astray => "astray" \in mishaps'
    BY <1>2
  <2>5. PassesOver => "recompacted" \in mishaps'
    BY <1>2
  <2> QED BY <2>1, <2>2, <2>3, <2>4, <2>5
<1> HIDE DEF x, blame
<1>5. Enters(table, x, T)
  BY <1>1, <1>3, InvTypes DEF Enters, Room
<1> HIDE DEF T
<1>6. StoresNew(mem, events, x, T, out)
  BY <1>2, <1>5, FitsNow DEF StoresNew
<1>7. p = PathTo(table, mem.ids, mem.leaf)
  BY DEF Path
<1>8. T[Next1] = x /\ SameOn(table, p, T, p, Len(p))
  <2>1. EntersOn(mem, events, p, x, T)
    BY <1>6, <1>7, NewStoreIs
  <2> HIDE DEF p
  <2> QED BY <2>1 DEF EntersOn
<1>9. out.ok \in BOOLEAN
  BY <1>6, NewStoreContext
<1>10. out.ok \/ "torn" \in mishaps'
  BY <1>4, <1>9
<1>11. ~Pairs' \/ InTurn(table', Path', events', ToolOut')
  BY <1>1, <1>4, QuietOrParted
<1>12. job'.what \notin {"auto", "early", "manual"}
  BY <1>1 DEF NoJob
<1>13. ASSUME "torn" \notin mishaps
       PROVE  /\ Told(table, mem, files, Remembers', Pairs')
              /\ JobTold(table, mem, files, origin, job')
  <2>1. mem.ids = mem.ids /\ mem.file = mem.file
    OBVIOUS
  <2> QED BY <2>1, <1>4, <1>12, <1>13, StillTold
<1>14. ASSUME "torn" \notin mishaps
       PROVE  NewFits(T, p, Next1, Remembers', Pairs')
  <2> DEFINE a == Remembers'
             b == Pairs'
  <2>1. Told(table, mem, files, a, b) /\ JobTold(table, mem, files, origin, job)
    BY <1>13, <1>14 DEF WholeInv
  <2>2. (a => ~Astray /\ ~PassesOver) /\ (b => ~Astray)
    BY <1>4 DEF Remembers, Pairs
  <2> HIDE DEF a, b
  <2>3. ASSUME ~Astray
        PROVE  /\ a /\ ~PassesOver => KeepsFrom(table, p, Len(p), job.kept, job.covers)
               /\ b => CutsFrom(table, p, Len(p), job.kept)
    BY <2>1, <2>3, <1>1, <1>14, SummaryFits
  <2>4. /\ a => KeepsFrom(table, p, Len(p), job.kept, job.covers)
        /\ b => CutsFrom(table, p, Len(p), job.kept)
    BY <2>2, <2>3
  <2> HIDE DEF p
  <2>5. /\ a => KeepsFrom(T, p, Len(p), job.kept, job.covers)
        /\ b => CutsFrom(T, p, Len(p), job.kept)
    BY <2>4, <1>8, SaysTheSame
  <2>6. T[Next1].kind = "compaction" /\ T[Next1].ref = job.kept /\ T[Next1].covers = job.covers
    BY <1>3, <1>8
  <2> DEFINE i == Next1
  <2>7. T[i].kind = "compaction" /\ T[i].ref = job.kept /\ T[i].covers = job.covers
    BY <2>6
  <2> HIDE DEF i
  <2>8. NewFits(T, p, i, a, b)
    BY <2>5, <2>7 DEF NewFits
  <2> QED BY <2>8 DEF a, b, i
<1> HIDE DEF p
<1> QED BY <1>1, <1>4, <1>6, <1>7, <1>10, <1>11, <1>13, <1>14, NewStoreLeavesWhole

-------------------------------------------------------------------------------
(* The fork: what its paths are, if no entry hangs on a label *)

Bare(T, p) == {p[n] : n \in {m \in 1..Len(p) : KindAt(T, p, m) # "label"}}

\* The session N of the longer table U: a path without its labels, and new ones below the entry base.
Branches(T, ids, leaf, U, N, base) ==
  /\ GoodTable(T) /\ GoodIds(T, ids) /\ leaf \in Members(ids) \union {Header}
  /\ GoodIds(U, N) /\ Longer(T, U)
  /\ Members(N) = Bare(T, PathTo(T, ids, leaf)) \union (DOMAIN U \ DOMAIN T)
  /\ base \in Bare(T, PathTo(T, ids, leaf)) \union {Header}
  /\ \A i \in DOMAIN U \ DOMAIN T :
       /\ U[i].kind = "label" /\ U[i].past = Past(T, base)
       /\ IF i = Len(T) + 1 THEN U[i].parent = base
          ELSE i - 1 \in DOMAIN U \ DOMAIN T /\ U[i].parent = i - 1

LEMMA BranchedIs ==
  ASSUME NEW T, GoodTable(T), NEW ids, GoodIds(T, ids), NEW leaf \in Members(ids) \union {Header},
         NEW home \in Nat, NEW B, B = Branched(T, ids, leaf, home)
  PROVE  \E base : Branches(T, ids, leaf, B.table, B.ids, base)
<1> DEFINE path == PathTo(T, ids, leaf)
           bare == Picked(path, {n \in DOMAIN path : KindAt(T, path, n) # "label"})
           base == IF bare = <<>> THEN Header ELSE Last(bare)
           wanted == Picked(ids, {n \in Labels(T, ids) : T[ids[n]].ref \in ToSet(bare)})
           w == Len(wanted)
           t == Len(T)
           new(k) == [kind |-> "label", ref |-> T[wanted[k]].ref, home |-> home, covers |-> {},
                      parent |-> IF k = 1 THEN base ELSE t + k - 1, past |-> Past(T, base)]
           made == [k \in DOMAIN wanted |-> new(k)]
           tail == [k \in DOMAIN wanted |-> t + k]
           U == B.table
           N == B.ids
<1>1. U = T \o made /\ N = <<Header>> \o bare \o tail
  BY DEF Branched
<1>2. /\ GoodTable(U) /\ GoodIds(U, N) /\ Len(T) <= Len(U) /\ \A i \in DOMAIN T : U[i] = T[i]
  BY BranchedGood DEF SameEntries
<1> HIDE DEF U, N
<1>3. T \in Seq(Entry) /\ DOMAIN T = 1..t /\ t \in Nat
  <2>1. T \in Seq(Entry)
    BY DEF GoodTable
  <2> QED BY <2>1, NatRange
<1>4. /\ path \in Seq(Int) /\ ToSet(path) \subseteq Members(ids)
      /\ Members(ids) \subseteq DOMAIN T /\ Members(ids) \subseteq Nat \ {0}
  BY PathOf
<1> HIDE DEF path
<1>5. bare \in Seq(Int) /\ ToSet(bare) = Bare(T, path) /\ Bare(T, path) \subseteq Members(ids)
  <2> DEFINE P == {n \in DOMAIN path : KindAt(T, path, n) # "label"}
  <2>1. DOMAIN path = 1..Len(path)
    BY <1>4
  <2>2. P \intersect 1..Len(path) = {m \in 1..Len(path) : KindAt(T, path, m) # "label"}
    BY <2>1
  <2> HIDE DEF P
  <2>3. /\ Picked(path, P) \in Seq(Int)
        /\ ToSet(Picked(path, P)) = {path[n] : n \in P \intersect 1..Len(path)}
    BY <1>4, PickedFrom
  <2>4. ToSet(Picked(path, P)) = Bare(T, path)
    BY <2>2, <2>3 DEF Bare
  <2>5. Bare(T, path) \subseteq ToSet(path)
    BY <2>1 DEF Bare, ToSet
  <2> QED BY <2>3, <2>4, <2>5, <1>4 DEF P
<1> HIDE DEF bare
<1>6. base \in Bare(T, path) \union {Header}
  <2>1. CASE bare = <<>>
    BY <2>1
  <2>2. CASE bare # <<>>
    <3>1. Len(bare) \in DOMAIN bare
      BY <2>2, <1>5
    <3>2. bare[Len(bare)] \in ToSet(bare)
      BY <3>1 DEF ToSet
    <3> QED BY <3>2, <2>2, <1>5 DEF Last
  <2> QED BY <2>1, <2>2
<1> HIDE DEF base
<1>7. w \in Nat /\ DOMAIN wanted = 1..w
  <2>1. ids \in Seq(Int)
    <3>1. ids \in Seq(0..t)
      BY DEF GoodIds
    <3> QED BY <3>1, <1>3
  <2> DEFINE P == {n \in Labels(T, ids) : T[ids[n]].ref \in ToSet(bare)}
  <2> HIDE DEF P
  <2>2. Picked(ids, P) \in Seq(Int)
    BY <2>1, PickedFrom
  <2>3. wanted \in Seq(Int)
    BY <2>2 DEF P
  <2> HIDE DEF wanted
  <2> QED BY <2>3
<1> HIDE DEF wanted, w
<1>8. /\ Len(made) = w /\ made \in Seq({made[k] : k \in 1..w})
      /\ \A k \in 1..w : made[k].kind = "label" /\ made[k].past = Past(T, base)
                         /\ made[k].parent = IF k = 1 THEN base ELSE t + k - 1
  <2>1. \A k \in 1..w : made[k] = new(k)
    BY <1>7
  <2> DEFINE above(k) == IF k = 1 THEN base ELSE t + k - 1
  <2>2. \A k \in 1..w : made[k].kind = "label" /\ made[k].past = Past(T, base) /\ made[k].parent = above(k)
    <3> TAKE k \in 1..w
    <3>1. made[k] = [kind |-> "label", ref |-> T[wanted[k]].ref, home |-> home, covers |-> {},
                     parent |-> above(k), past |-> Past(T, base)]
      BY <2>1
    <3> HIDE DEF made, above
    <3> QED BY <3>1
  <2>3. made = [k \in 1..w |-> new(k)]
    BY <1>7
  <2> HIDE DEF new
  <2> DEFINE S == {made[k] : k \in 1..w}
  <2>4. \A k \in 1..w : made[k] \in S
    OBVIOUS
  <2>5. DOMAIN made = 1..w
    BY <2>3
  <2>6. made = [k \in 1..w |-> made[k]]
    BY <2>5
  <2> HIDE DEF S, made
  <2>7. made \in [1..w -> S]
    BY <2>4, <2>6
  <2>8. made \in Seq(S) /\ Len(made) = w
    BY <2>7, <1>7
  <2> QED BY <2>2, <2>8 DEF S
<1> HIDE DEF made
<1>9. DOMAIN U = 1..(t + w) /\ \A k \in 1..w : U[t + k] = made[k]
  <2> DEFINE S == {made[k] : k \in 1..w} \union Entry
  <2>1. T \in Seq(S) /\ made \in Seq(S)
    <3>1. \A n \in 1..Len(T) : T[n] \in S
      BY <1>3
    <3>2. \A n \in 1..w : made[n] \in S
      OBVIOUS
    <3> HIDE DEF S
    <3> QED BY <3>1, <3>2, <1>3, <1>7, <1>8
  <2> HIDE DEF S
  <2>2. Len(made) = w
    BY <1>8
  <2>3. U = T \o made
    BY <1>1
  <2>4. T \o made \in Seq(S) /\ Len(T \o made) = Len(T) + Len(made)
    BY <2>1
  <2>5. \A k \in 1..w : (T \o made)[t + k] = made[k]
    BY <2>1, <2>2, <1>3, <1>7
  <2>6. U \in Seq(S) /\ Len(U) = t + w
    BY <2>2, <2>3, <2>4
  <2>7. DOMAIN U = 1..(t + w)
    BY <2>6, <1>3, <1>7
  <2> QED BY <2>3, <2>5, <2>7
<1>10. DOMAIN U \ DOMAIN T = (t + 1)..(t + w)
  BY <1>3, <1>7, <1>9
<1>11. tail \in Seq(Int) /\ ToSet(tail) = (t + 1)..(t + w)
  <2>1. DOMAIN tail = 1..w /\ \A k \in 1..w : tail[k] = t + k
    BY <1>7
  <2>2. tail = [k \in 1..w |-> t + k]
    BY <1>7
  <2> HIDE DEF tail, t
  <2>3. tail \in Seq(Int)
    BY <2>2, <1>3, <1>7
  <2>4. \A i \in (t + 1)..(t + w) : i - t \in 1..w /\ t + (i - t) = i
    BY <1>3, <1>7
  <2>5. \A k \in 1..w : t + k \in (t + 1)..(t + w)
    BY <1>3, <1>7
  <2>6. \A i \in (t + 1)..(t + w) : i \in ToSet(tail)
    <3> TAKE i \in (t + 1)..(t + w)
    <3>1. tail[i - t] = i /\ i - t \in DOMAIN tail
      BY <2>1, <2>4
    <3> QED BY <3>1 DEF ToSet
  <2>7. ToSet(tail) \subseteq (t + 1)..(t + w)
    BY <2>1, <2>5 DEF ToSet
  <2> QED BY <2>3, <2>6, <2>7
<1> HIDE DEF tail
<1>12. ToSet(N) = {Header} \union Bare(T, path) \union (DOMAIN U \ DOMAIN T)
  <2>1. <<Header>> \in Seq(Int) /\ ToSet(<<Header>>) = {Header}
    BY DEF Header, ToSet
  <2> DEFINE one == <<Header>>
             front == one \o bare
  <2> HIDE DEF one
  <2>2. front \in Seq(Int) /\ ToSet(front) = {Header} \union ToSet(bare)
    BY <2>1, <1>5, ConcatOf DEF one
  <2>3. N = front \o tail
    BY <1>1 DEF one
  <2> HIDE DEF front
  <2>4. ToSet(N) = ToSet(front) \union ToSet(tail)
    BY <2>2, <2>3, <1>11, ConcatOf
  <2> QED BY <2>2, <2>4, <1>5, <1>10, <1>11
<1>13. Members(N) = Bare(T, path) \union (DOMAIN U \ DOMAIN T)
  <2>1. Header \notin Bare(T, path)
    BY <1>4, <1>5 DEF Header
  <2>2. Header \notin DOMAIN U
    BY <1>9, <1>3, <1>7 DEF Header
  <2> QED BY <2>1, <2>2, <1>12 DEF Members
<1>14. ASSUME NEW i \in DOMAIN U \ DOMAIN T
       PROVE  /\ U[i].kind = "label" /\ U[i].past = Past(T, base)
              /\ IF i = t + 1 THEN U[i].parent = base
                 ELSE i - 1 \in DOMAIN U \ DOMAIN T /\ U[i].parent = i - 1
  <2>1. i \in (t + 1)..(t + w)
    BY <1>10
  <2> HIDE DEF t
  <2>2. i - t \in 1..w /\ t + (i - t) = i /\ t + (i - t) - 1 = i - 1
    BY <2>1, <1>3, <1>7
  <2>3. U[i] = made[i - t]
    BY <2>2, <1>9
  <2>4. U[i].kind = "label" /\ U[i].past = Past(T, base)
        /\ U[i].parent = IF i - t = 1 THEN base ELSE i - 1
    BY <2>2, <2>3, <1>8
  <2>5. i - t = 1 <=> i = t + 1
    BY <2>1, <1>3
  <2>6. i # t + 1 => i - 1 \in (t + 1)..(t + w)
    BY <2>1, <1>3, <1>7
  <2> QED BY <2>4, <2>5, <2>6, <1>10
<1>15. Longer(T, U)
  BY <1>2 DEF Longer
<1>16. Branches(T, ids, leaf, U, N, base)
  BY <1>2, <1>6, <1>13, <1>14, <1>15 DEF Branches, path
<1> QED BY <1>16 DEF U, N

\* An entry of the path, in the fork: those before it are there, and no label is among them.
LEMMA BranchPath ==
  ASSUME NEW T, NEW ids, NEW leaf, NEW U, NEW N, NEW base, Branches(T, ids, leaf, U, N, base),
         NEW p, p = PathTo(T, ids, leaf), Linked(T, p), NEW i \in Bare(T, p)
  PROVE  i \in Members(ids) /\ i \in Members(N) /\ PathTo(U, N, i) = PathTo(T, ids, i)
<1> DEFINE K == Members(ids)
           L == Members(N)
<1>1. /\ GoodTable(T) /\ GoodIds(T, ids) /\ leaf \in K \union {Header}
      /\ GoodTable(U) /\ GoodIds(U, N) /\ \A j \in DOMAIN T : U[j] = T[j]
      /\ L = Bare(T, p) \union (DOMAIN U \ DOMAIN T)
  BY DEF Branches, Longer
<1>2. /\ IsPath(T, K, p, leaf) /\ p \in Seq(K) /\ K \subseteq DOMAIN T /\ K \subseteq Nat \ {0}
      /\ DOMAIN p = 1..Len(p) /\ Len(p) \in Nat
  <2>1. IsPath(T, K, p, leaf) /\ p \in Seq(K) /\ K \subseteq DOMAIN T /\ K \subseteq Nat \ {0}
    BY <1>1, PathOf
  <2> QED BY <2>1
<1>3. PICK n \in 1..Len(p) : i = p[n] /\ KindAt(T, p, n) # "label"
  BY DEF Bare
<1>4. i \in K /\ i \in L
  BY <1>1, <1>2, <1>3
<1>5. IsPath(U, L, PathTo(U, N, i), i) /\ Ranked(U, L) /\ L \subseteq Nat \ {0}
  BY <1>1, <1>4, PathOf
<1>6. PathTo(T, ids, i) = SubSeq(p, 1, n)
  BY <1>1, <1>3, PathToPrefix
<1> HIDE DEF K, L
<1>7. \A m \in 1..Len(p) : Up(T, K, p[m]) = IF m = 1 THEN Header ELSE p[m - 1]
  BY <1>2 DEF IsPath
<1>8. \A m \in 2..Len(p) : T[p[m]].parent = p[m - 1]
  <2> TAKE m \in 2..Len(p)
  <2>1. m \in 1..Len(p) /\ m - 1 \in 1..Len(p) /\ m # 1
    BY <1>2
  <2>2. Up(T, K, p[m]) = p[m - 1] /\ p[m - 1] \in K
    BY <2>1, <1>2, <1>7
  <2>3. p[m - 1] # Header
    BY <2>2, <1>2 DEF Header
  <2> QED BY <2>2, <2>3 DEF Up
<1>9. \A m \in 1..n : KindAt(T, p, m) # "label"
  <2> DEFINE S == {m \in 1..n : KindAt(T, p, m) = "label"}
  <2> SUFFICES ASSUME S # {} PROVE FALSE
    OBVIOUS
  <2> DEFINE g == Max(S)
  <2>1. g \in S /\ \A m \in S : m <= g
    <3>1. S \subseteq 0..n /\ n \in Nat
      BY <1>3
    <3> HIDE DEF S
    <3> QED BY <3>1, GreatestOfSet
  <2> HIDE DEF g
  <2>2. g \in 1..n /\ g # n /\ KindAt(T, p, g) = "label"
    BY <2>1, <1>3
  <2>3. g + 1 \in 1..n /\ g + 1 \in 2..Len(p) /\ g + 1 - 1 = g /\ g \in 1..Len(p) /\ ~(g + 1 <= g)
    BY <2>2, <1>2, <1>3
  <2>4. KindAt(T, p, g + 1) # "label"
    BY <2>1, <2>3
  <2>5. T[p[g + 1]].parent = p[g]
    BY <2>3, <1>8
  <2>6. p[g] \in ToSet(p) /\ p[g + 1] \in ToSet(p)
    <3>1. g \in DOMAIN p /\ g + 1 \in DOMAIN p
      BY <2>3, <1>2
    <3> QED BY <3>1 DEF ToSet
  <2> QED BY <2>2, <2>4, <2>5, <2>6 DEF Linked, KindAt
<1>10. \A m \in 1..n : p[m] \in L /\ p[m] \in K /\ U[p[m]] = T[p[m]] /\ m \in 1..Len(p)
  <2> TAKE m \in 1..n
  <2>1. m \in 1..Len(p) /\ KindAt(T, p, m) # "label"
    BY <1>3, <1>9
  <2>2. p[m] \in Bare(T, p) /\ p[m] \in K
    BY <2>1, <1>2 DEF Bare
  <2> QED BY <2>1, <2>2, <1>1, <1>2
<1> DEFINE s == SubSeq(p, 1, n)
<1>11. s \in Seq(K) /\ Len(s) = n /\ \A m \in 1..n : s[m] = p[m]
  BY <1>2, <1>3
<1> HIDE DEF s
<1>12. s \in Seq(L)
  BY <1>10, <1>11
<1>13. ASSUME NEW m \in 1..n PROVE Up(U, L, s[m]) = IF m = 1 THEN Header ELSE s[m - 1]
  <2>1. s[m] = p[m] /\ U[s[m]].parent = T[p[m]].parent /\ m \in 1..Len(p)
    BY <1>10, <1>11
  <2>2. CASE m = 1
    <3>1. Up(T, K, p[m]) = Header
      BY <2>1, <2>2, <1>7
    <3>2. T[p[m]].parent \notin K
      BY <3>1, <1>2 DEF Up, Header
    <3>3. T[p[m]].parent \in 0..Len(T) /\ DOMAIN T = 1..Len(T)
      <4>1. T \in Seq(Entry)
        BY <1>1 DEF GoodTable
      <4> QED BY <4>1, <1>1, <1>2, <1>10 DEF GoodTable
    <3>4. T[p[m]].parent \notin L
      <4>1. Bare(T, p) \subseteq K
        BY <1>2 DEF Bare
      <4>2. T[p[m]].parent \in DOMAIN T \/ T[p[m]].parent = 0
        BY <3>3
      <4> QED BY <4>1, <4>2, <3>2, <1>1, <1>5
    <3> QED BY <3>4, <2>1, <2>2 DEF Up
  <2>3. CASE m # 1
    <3>1. m \in 2..Len(p) /\ m - 1 \in 1..n
      BY <2>1, <2>3, <1>3
    <3>2. U[s[m]].parent = p[m - 1] /\ p[m - 1] \in L /\ s[m - 1] = p[m - 1]
      BY <3>1, <2>1, <1>8, <1>10, <1>11
    <3> QED BY <3>2, <2>3 DEF Up
  <2> QED BY <2>2, <2>3
<1>14. IsPath(U, L, s, i)
  <2>1. i # Header
    BY <1>2, <1>4 DEF Header
  <2>2. s # <<>> /\ s[Len(s)] = i
    BY <1>3, <1>11
  <2> QED BY <2>1, <2>2, <1>11, <1>12, <1>13 DEF IsPath
<1>15. PathTo(U, N, i) = s
  BY <1>4, <1>5, <1>14, PathIsUnique
<1> QED BY <1>4, <1>6, <1>15 DEF K, L, s

\* A label at the end of a path.
LEMMA LabelWhole ==
  ASSUME NEW U, NEW r \in Seq(Int), NEW i \in Int, U[i].kind = "label", NEW a, NEW b,
         WholePath(U, r, a, b),
         a => \A x \in U[i].past : \E m \in 1..Len(r) : r[m] = x /\ KindAt(U, r, m) \in Messages
  PROVE  WholePath(U, Append(r, i), a, b)
<1> DEFINE q == Append(r, i)
           l == Len(r)
<1>1. Len(q) = l + 1 /\ l \in Nat /\ q[l + 1] = i /\ \A m \in 1..l : q[m] = r[m]
  OBVIOUS
<1> HIDE DEF q
<1>2. ASSUME NEW m \in 1..l PROVE WholeAt(U, q, m, a, b)
  <2>1. WholeAt(U, r, m, a, b)
    BY DEF WholePath
  <2>2. SameOn(U, r, U, q, m) /\ m # 0
    BY <1>1 DEF SameOn
  <2> QED BY <2>1, <2>2, WholeTheSame
<1>3. WholeAt(U, q, l + 1, a, b)
  <2>1. KindAt(U, q, l + 1) \notin {"result", "compaction"}
    BY <1>1 DEF KindAt
  <2>2. PairedAt(U, q, l + 1)
    BY <2>1 DEF PairedAt
  <2>3. ASSUME a PROVE KeptAt(U, q, l + 1)
    <3>1. ASSUME NEW x \in U[q[l + 1]].past
          PROVE  \E m \in 1..(l + 1) : q[m] = x /\ KindAt(U, q, m) \in Messages
      <4>1. PICK m \in 1..l : r[m] = x /\ KindAt(U, r, m) \in Messages
        BY <2>3, <3>1, <1>1
      <4>2. q[m] = x /\ KindAt(U, q, m) \in Messages /\ m \in 1..(l + 1)
        BY <4>1, <1>1 DEF KindAt
      <4> QED BY <4>2
    <3> QED BY <3>1, <2>1 DEF KeptAt
  <2> QED BY <2>2, <2>3 DEF WholeAt
<1>4. \A m \in 1..(l + 1) : m \in 1..l \/ m = l + 1
  BY <1>1
<1>5. \A m \in 1..Len(q) : WholeAt(U, q, m, a, b)
  BY <1>1, <1>2, <1>3, <1>4
<1> QED BY <1>5 DEF WholePath, q

\* What the induction along the new labels carries: the path to i is whole, and so is the past of base.
LeadsTo(T, U, N, base, a, b, i) ==
  /\ WholePath(U, PathTo(U, N, i), a, b)
  /\ a => \A x \in Past(T, base) :
            \E m \in 1..Len(PathTo(U, N, i)) :
              PathTo(U, N, i)[m] = x /\ KindAt(U, PathTo(U, N, i), m) \in Messages

LEMMA BareWhole ==
  ASSUME NEW T, NEW ids, NEW leaf, NEW U, NEW N, NEW base, Branches(T, ids, leaf, U, N, base),
         NEW p, p = PathTo(T, ids, leaf), Linked(T, p), NEW a, NEW b, WholeSession(T, ids, a, b),
         NEW i \in Bare(T, p)
  PROVE  /\ WholePath(U, PathTo(U, N, i), a, b)
         /\ i = base => LeadsTo(T, U, N, base, a, b, i)
<1> DEFINE r == PathTo(T, ids, i)
<1>1. i \in Members(ids) /\ PathTo(U, N, i) = r
  BY BranchPath
<1>2. /\ GoodTable(T) /\ GoodIds(T, ids) /\ \A j \in DOMAIN T : U[j] = T[j]
  BY DEF Branches, Longer
<1>3. /\ IsPath(T, Members(ids), r, i) /\ r \in Seq(Int) /\ r \in Seq(Members(ids))
      /\ Members(ids) \subseteq DOMAIN T /\ i # Header
  BY <1>1, <1>2, PathOf DEF Header
<1>4. WholePath(T, r, a, b)
  BY <1>1 DEF WholeSession
<1> HIDE DEF r
<1>5. \A n \in 0..Len(r) : SameOn(T, r, U, r, n)
  <2> TAKE n \in 0..Len(r)
  <2>1. \A m \in 1..n : m \in 1..Len(r)
    BY <1>3
  <2>2. \A m \in 1..Len(r) : r[m] \in DOMAIN T
    BY <1>3
  <2>3. n \in Nat
    BY <1>3
  <2> QED BY <2>1, <2>2, <2>3, <1>2 DEF SameOn
<1>6. WholePath(U, r, a, b)
  BY <1>3, <1>4, <1>5, PathWholeSame
<1>7. ASSUME i = base, a, NEW x \in Past(T, base)
      PROVE  \E m \in 1..Len(r) : r[m] = x /\ KindAt(U, r, m) \in Messages
  <2> DEFINE l == Len(r)
  <2>1. l \in 1..Len(r) /\ r[l] = i /\ l \in Nat
    <3>1. r # <<>> /\ r[Len(r)] = i
      BY <1>3 DEF IsPath
    <3> QED BY <3>1, <1>3
  <2>2. U[r[l]].past = Past(T, base)
    <3>1. i \in DOMAIN T
      BY <1>1, <1>3
    <3> QED BY <3>1, <2>1, <1>2, <1>3, <1>7 DEF Past
  <2>3. KeptAt(U, r, l)
    BY <2>1, <1>6, <1>7 DEF WholePath, WholeAt
  <2> QED BY <2>2, <2>3, <1>7 DEF KeptAt
<1>8. i = base => LeadsTo(T, U, N, base, a, b, i)
  BY <1>1, <1>6, <1>7 DEF LeadsTo
<1> QED BY <1>1, <1>6, <1>8

LEMMA NextLabelWhole ==
  ASSUME NEW T, NEW ids, NEW leaf, NEW U, NEW N, NEW base, Branches(T, ids, leaf, U, N, base),
         NEW a, NEW b, NEW i \in DOMAIN U \ DOMAIN T,
         U[i].parent \in Members(N) \union {Header}, LeadsTo(T, U, N, base, a, b, U[i].parent)
  PROVE  LeadsTo(T, U, N, base, a, b, i)
<1> DEFINE j == U[i].parent
           r == PathTo(U, N, j)
           L == Members(N)
<1>1. /\ GoodTable(U) /\ GoodIds(U, N) /\ i \in L
      /\ U[i].kind = "label" /\ U[i].past = Past(T, base)
  BY DEF Branches, Longer
<1>2. /\ IsPath(U, L, r, j) /\ r \in Seq(Int) /\ L \subseteq Nat \ {0} /\ Ranked(U, L)
  BY <1>1, PathOf
<1>3. IsPath(U, L, PathTo(U, N, i), i)
  BY <1>1, PathOf
<1>4. Up(U, L, i) = j
  BY DEF Up
<1> HIDE DEF r, L, j
<1>5. IsPath(U, L, Append(r, i), i)
  BY <1>1, <1>2, <1>4, PathExtends
<1>6. PathTo(U, N, i) = Append(r, i)
  BY <1>1, <1>2, <1>3, <1>5, PathIsUnique
<1>7. /\ WholePath(U, r, a, b)
      /\ a => \A x \in Past(T, base) : \E m \in 1..Len(r) : r[m] = x /\ KindAt(U, r, m) \in Messages
  BY DEF LeadsTo, r, j
<1>8. i \in Int
  BY <1>1, <1>2
<1> DEFINE q == Append(r, i)
<1>9. WholePath(U, q, a, b)
  BY <1>1, <1>2, <1>7, <1>8, LabelWhole
<1>10. Len(r) \in Nat /\ Len(q) = Len(r) + 1 /\ \A m \in 1..Len(r) : q[m] = r[m]
  BY <1>2, <1>8
<1> HIDE DEF q
<1>11. ASSUME a, NEW x \in Past(T, base)
       PROVE  \E m \in 1..Len(q) : q[m] = x /\ KindAt(U, q, m) \in Messages
  <2>1. PICK m \in 1..Len(r) : r[m] = x /\ KindAt(U, r, m) \in Messages
    BY <1>7, <1>11
  <2>2. m \in 1..Len(q) /\ q[m] = x /\ KindAt(U, q, m) \in Messages
    BY <2>1, <1>10 DEF KindAt
  <2> QED BY <2>2
<1> QED BY <1>6, <1>9, <1>11 DEF LeadsTo, q

LEMMA BranchWhole ==
  ASSUME NEW T, NEW ids, NEW leaf, NEW U, NEW N, NEW base, Branches(T, ids, leaf, U, N, base),
         Linked(T, PathTo(T, ids, leaf)), NEW a, NEW b, WholeSession(T, ids, a, b)
  PROVE  WholeSession(U, N, a, b)
<1> DEFINE p == PathTo(T, ids, leaf)
           New == DOMAIN U \ DOMAIN T
           G(i) == LeadsTo(T, U, N, base, a, b, i)
           Bad == {i \in New : ~G(i)}
<1>1. /\ GoodTable(U) /\ GoodIds(U, N) /\ Members(N) = Bare(T, p) \union New
      /\ base \in Bare(T, p) \union {Header}
      /\ \A i \in New : IF i = Len(T) + 1 THEN U[i].parent = base
                        ELSE i - 1 \in New /\ U[i].parent = i - 1
  BY DEF Branches, Longer
<1>2. New \subseteq Nat
  <2>1. U \in Seq(Entry)
    BY <1>1 DEF GoodTable
  <2> QED BY <2>1
<1> HIDE DEF p
<1>3. \A i \in Bare(T, p) : WholePath(U, PathTo(U, N, i), a, b) /\ (i = base => G(i))
  BY BareWhole DEF p
<1> HIDE DEF New
<1>4. G(base)
  <2>1. CASE base = Header
    <3>1. IsPath(U, Members(N), PathTo(U, N, Header), Header)
      BY <1>1, PathOf
    <3>2. PathTo(U, N, base) = <<>> /\ Past(T, base) = {}
      BY <2>1, <3>1 DEF IsPath, Past
    <3>3. Len(<<>>) = 0
      OBVIOUS
    <3>4. WholePath(U, <<>>, a, b)
      BY <3>3 DEF WholePath
    <3> QED BY <3>2, <3>4 DEF LeadsTo
  <2>2. CASE base # Header
    BY <2>2, <1>1, <1>3
  <2> QED BY <2>1, <2>2
<1>5. Bad = {}
  <2> SUFFICES ASSUME Bad # {} PROVE FALSE
    OBVIOUS
  <2> DEFINE i == Min(Bad)
  <2>1. i \in Bad /\ \A k \in Bad : i <= k
    <3>1. Bad \subseteq Nat
      BY <1>2
    <3> HIDE DEF Bad
    <3> QED BY <3>1, LeastOfSet
  <2> HIDE DEF i, G
  <2>2. i \in New /\ ~G(i) /\ i \in Nat
    BY <2>1, <1>2
  <2>3. U[i].parent \in Members(N) \union {Header} /\ G(U[i].parent)
    <3>1. CASE i = Len(T) + 1
      BY <3>1, <2>2, <1>1, <1>4
    <3>2. CASE i # Len(T) + 1
      <4>1. i - 1 \in New /\ U[i].parent = i - 1
        BY <3>2, <2>2, <1>1
      <4>2. i - 1 \notin Bad
        BY <2>1, <2>2
      <4>3. G(i - 1)
        BY <4>1, <4>2
      <4> QED BY <4>1, <4>3, <1>1
    <3> QED BY <3>1, <3>2
  <2>4. G(i)
    BY <2>2, <2>3, NextLabelWhole DEF G, New
  <2> QED BY <2>2, <2>4
<1>6. ASSUME NEW i \in Members(N) PROVE WholePath(U, PathTo(U, N, i), a, b)
  <2>1. CASE i \in Bare(T, p)
    BY <2>1, <1>3
  <2>2. CASE i \in New
    <3>1. G(i)
      BY <2>2, <1>5
    <3> QED BY <3>1 DEF LeadsTo
  <2> QED BY <2>1, <2>2, <1>1
<1> QED BY <1>6 DEF WholeSession

\* The fork is whole, if it left no entry behind; and the table is a longer one in any case.
LEMMA ForkedWhole ==
  ASSUME NEW T, GoodTable(T), NEW ids, GoodIds(T, ids), NEW from, NEW home, NEW B,
         Forked(T, ids, from, home, B)
  PROVE  /\ Longer(T, B.table)
         /\ \A a, b : Linked(T, PathTo(T, ids, from)) /\ WholeSession(T, ids, a, b)
                        => WholeSession(B.table, B.ids, a, b)
<1>1. /\ from \in Members(ids) \union {Header} /\ home \in Nat
      /\ B = IF from = Header THEN [table |-> T, ids |-> <<Header>>] ELSE Branched(T, ids, from, home)
  BY DEF Forked
<1>2. CASE from = Header
  <2>1. B.table = T /\ B.ids = <<Header>>
    BY <1>1, <1>2
  <2>2. Members(<<Header>>) = {}
    BY DEF Members, ToSet
  <2>3. Longer(T, T)
    <3>1. Len(T) \in Nat
      BY NatRange DEF GoodTable
    <3> QED BY <3>1 DEF Longer
  <2> QED BY <2>1, <2>2, <2>3 DEF WholeSession
<1>3. CASE from # Header
  <2>1. PICK base : Branches(T, ids, from, B.table, B.ids, base)
    BY <1>1, <1>3, BranchedIs
  <2>2. Longer(T, B.table)
    BY <2>1 DEF Branches
  <2> QED BY <2>1, <2>2, BranchWhole
<1> QED BY <1>2, <1>3

LEMMA ForkLeavesWhole ==
  ASSUME SInv, SInv', WholeInv, Fork
  PROVE  WholeInv'
<1>1. PICK f, from, C : ForksTo(f, from, C)
  BY ForkIs
<1>3. UNCHANGED <<events, turn, heard, command, job>>
  BY ForkIs
<1>4. /\ mishaps \subseteq mishaps'
      /\ turn # "idle" => "midturn" \in mishaps'
      /\ Waiting => mishaps' \intersect {"torn", "lagging", "overtaken"} # {}
  BY ForkIs
<1>5. "unlinked" \notin mishaps' => Linked(table, PathTo(table, mem.ids, from))
  BY <1>1 DEF ForksTo
<1>6. f \in File /\ f \in Nat /\ origin[f] = {}
  BY <1>1 DEF ForksTo
<1>7. /\ Core(table, mem, files, origin) /\ GoodTable(table) /\ GoodIds(table, mem.ids)
      /\ origin \in [File -> SUBSET File] /\ files \in [File -> Seq(Torn..Len(table))]
  BY InvTypes DEF Core, Owned, GoodFiles
<1>8. Forked(table, mem.ids, from, f, C)
  BY <1>1 DEF ForksTo
<1>9. /\ mem'.file = f /\ mem'.ids = C.ids /\ table' = C.table
      /\ files'[f] = C.ids \/ files'[f] = <<>>
      /\ \A g \in File \ {f} : files'[g] = files[g] /\ origin'[g] = origin[g]
  <2> DEFINE lines == IF Answered(C.table, C.ids) THEN C.ids ELSE <<>>
  <2>1. files' = [files EXCEPT ![f] = lines] /\ lines \in {C.ids, <<>>}
    BY <1>1 DEF ForksTo
  <2>2. /\ mem'.file = f /\ mem'.ids = C.ids /\ table' = C.table
        /\ origin' = [origin EXCEPT ![f] = origin[mem.file] \union {f}]
    BY <1>1 DEF ForksTo
  <2> HIDE DEF lines
  <2>3. files'[f] \in {C.ids, <<>>}
    BY <2>1, <1>6, <1>7
  <2> QED BY <2>1, <2>2, <2>3, <1>6, <1>7
<1>10. ~Pairs' \/ InTurn(table', Path', events', ToolOut')
  BY <1>3, <1>4, QuietOrParted
<1>11. ASSUME "torn" \notin mishaps
       PROVE  /\ Told(table', mem', files', Remembers', Pairs')
              /\ JobTold(table', mem', files', origin', job')
  <2> DEFINE a == Remembers'
             b == Pairs'
             U == C.table
  <2>1. /\ Told(table, mem, files, Remembers', Pairs')
        /\ JobTold(table, mem, files, origin, job')
    <3>1. mem.ids = mem.ids /\ mem.file = mem.file
      OBVIOUS
    <3> QED BY <3>1, <1>3, <1>4, <1>11, StillTold
  <2>2. FileOf(table, mem, files)
    BY <1>11 DEF SInv, FileInv
  <2>3. (a \/ b) => Linked(table, PathTo(table, mem.ids, from))
    BY <1>5 DEF Remembers, Pairs
  <2> HIDE DEF a, b
  <2>4. Told(table, mem, files, a, b) /\ JobTold(table, mem, files, origin, job)
    BY <2>1, <1>3 DEF a, b
  <2>5. /\ Longer(table, U)
        /\ \A c, d : Linked(table, PathTo(table, mem.ids, from)) /\ WholeSession(table, mem.ids, c, d)
                       => WholeSession(U, C.ids, c, d)
    BY <1>7, <1>8, ForkedWhole
  <2> HIDE DEF U
  <2>6. Told(U, mem, files, a, b) /\ JobTold(U, mem, files, origin, job)
    BY <2>2, <2>4, <2>5, <1>7, ToldLater
  <2>7. WholeSession(U, C.ids, a, b)
    <3>1. CASE a \/ b
      BY <3>1, <2>3, <2>4, <2>5 DEF Told
    <3>2. CASE ~a /\ ~b
      BY <3>2 DEF WholeSession, WholePath, WholeAt
    <3> QED BY <3>1, <3>2
  <2>8. Told(U, mem', files', a, b)
    <3>1. ASSUME NEW g \in File, files'[g] # <<>> PROVE WholeSession(U, files'[g], a, b)
      <4>1. CASE g = f
        BY <4>1, <3>1, <2>7, <1>9
      <4>2. CASE g # f
        BY <4>2, <3>1, <2>6, <1>9 DEF Told
      <4> QED BY <4>1, <4>2
    <3> QED BY <3>1, <2>7, <1>9 DEF Told
  <2>9. JobTold(U, mem', files', origin', job)
    <3>1. \A g \in File : origin[g] # {} => g # f /\ origin'[g] = origin[g] /\ files'[g] = files[g]
      BY <1>6, <1>9
    <3> QED BY <3>1, <2>6, <1>9 DEF JobTold
  <2>10. table' = U /\ job' = job
    BY <1>3, <1>9 DEF U
  <2> QED BY <2>8, <2>9, <2>10 DEF a, b
<1>12. "torn" \in mishaps => "torn" \in mishaps'
  BY <1>4
<1> QED BY <1>10, <1>11, <1>12 DEF WholeInv

-------------------------------------------------------------------------------
(* All steps *)

LEMMA NextLeavesWhole ==
  ASSUME SInv, SInv', StepInv, WholeInv, [Next]_vars
  PROVE  WholeInv'
<1>1. CASE Next
  BY <1>1, PromptLeavesWhole, RespondLeavesWhole, ToolEndsLeavesWhole, ContinueLeavesWhole,
     MessageEndLeavesWhole, AgentEndLeavesWhole, FallsBackLeavesWhole, RetryEndsLeavesWhole,
     CheckBeforeLeavesWhole, CompactLeavesWhole, CompactsLeavesWhole, CompactedLeavesWhole,
     SummaryFailsLeavesWhole, NavigateLeavesWhole, NavigateWithSummaryLeavesWhole,
     NavigatedLeavesWhole, ForkLeavesWhole, LabelLeavesWhole, BashLeavesWhole, LeaveLeavesWhole,
     NewSessionLeavesWhole, ResumeLeavesWhole, RestartLeavesWhole DEF Next
<1>2. CASE UNCHANGED vars
  <2>1. UNCHANGED <<table, files, origin, mem, events, mishaps, job, turn, heard, command>>
    BY <1>2 DEF vars
  <2>2. ToolOut' => ToolOut
    BY <2>1 DEF ToolOut
  <2> QED BY <2>1, <2>2, AllStays
<1> QED BY <1>1, <1>2

LEMMA InitWhole == Init => WholeInv
<1> SUFFICES ASSUME Init PROVE WholeInv
  OBVIOUS
<1>1. Core(table, mem, files, origin)
  BY InitHolds DEF SInv
<1>2. GoodTable(table) /\ GoodIds(table, mem.ids) /\ mem.leaf \in Members(mem.ids) \union {Header}
  BY <1>1, CoreTypes DEF Core
<1>3. /\ table = <<Setting>> /\ mem.ids = <<Header, 1>> /\ events = <<>> /\ turn = "idle"
      /\ files = [f \in File |-> <<>>] /\ job = NoJob /\ mishaps = {}
  BY DEF Init
<1>4. \A i \in Members(mem.ids) : table[i].past = {} /\ table[i].kind = "setting"
  <2>1. Members(<<Header, 1>>) \subseteq {1}
    BY DEF Members, ToSet
  <2>2. table[1].past = {} /\ table[1].kind = "setting"
    BY <1>3 DEF Setting
  <2> QED BY <2>1, <2>2, <1>3
<1>5. \A a, b : WholeSession(table, mem.ids, a, b)
  BY <1>2, <1>4, FreshWhole
<1>6. \A f \in File : files[f] = <<>>
  BY <1>3
<1>7. Told(table, mem, files, Remembers, Pairs)
  BY <1>5, <1>6 DEF Told
<1>8. JobTold(table, mem, files, origin, job)
  BY <1>3, NoJobTold DEF NoJob
<1>9. InTurn(table, Path, events, ToolOut)
  <2> DEFINE s == ToolOut
  <2>1. ~s
    BY <1>3 DEF ToolOut
  <2>2. events \in Seq(Int) /\ ToSet(events) \subseteq {EndMark}
    BY <1>3 DEF ToSet
  <2> HIDE DEF s
  <2>3. InTurn(table, Path, events, s)
    BY <2>1, <2>2, QuietTurn
  <2> QED BY <2>3 DEF s
<1> QED BY <1>7, <1>8, <1>9 DEF WholeInv

-------------------------------------------------------------------------------
(* What the invariant says of the context *)

LEMMA ContextHolds ==
  ASSUME NEW T, GoodTable(T), NEW ids, GoodIds(T, ids), NEW leaf \in Members(ids) \union {Header},
         NEW p, p = PathTo(T, ids, leaf)
  PROVE  /\ \A n \in 1..Len(p) : n \in Seen(T, p) => p[n] \in ToSet(Context(T, ids, leaf))
         /\ LastCompaction(T, p) # 0 => p[LastCompaction(T, p)] \in ToSet(Context(T, ids, leaf))
<1> DEFINE c == LastCompaction(T, p)
           S == Seen(T, p)
           Q == Picked(p, S)
           H == IF c = 0 THEN <<>> ELSE <<p[c]>>
           C == Context(T, ids, leaf)
<1>1. p \in Seq(Int)
  BY PathOf
<1>2. c \in 0..Len(p)
  BY <1>1, LastCompactionOf
<1>3. C = H \o Q
  BY ContextIs
<1>4. Q \in Seq(Int) /\ ToSet(Q) = {p[n] : n \in S \intersect 1..Len(p)}
  BY <1>1, PickedFrom
<1> HIDE DEF c, S, Q, C
<1>5. H \in Seq(Int)
  BY <1>1, <1>2
<1>6. c # 0 => p[c] \in ToSet(H)
  BY DEF ToSet
<1> HIDE DEF H
<1>7. \A x : x \in ToSet(H) \/ x \in ToSet(Q) => x \in ToSet(C)
  BY <1>3, <1>4, <1>5, ConcatOf
<1>8. \A n \in 1..Len(p) : n \in S => p[n] \in ToSet(C)
  BY <1>4, <1>7
<1>9. c # 0 => p[c] \in ToSet(C)
  BY <1>6, <1>7
<1> QED BY <1>8, <1>9 DEF c, S, C

\* A place that is kept or came later is seen.
LEMMA IsSeen ==
  ASSUME NEW T, NEW p \in Seq(Int), NEW n \in 1..Len(p), KindAt(T, p, n) \in Shown,
         \/ n > LastCompaction(T, p)
         \/ /\ LastCompaction(T, p) # 0 /\ FirstKept(T, p, LastCompaction(T, p)) # 0
            /\ FirstKept(T, p, LastCompaction(T, p)) <= n /\ n < LastCompaction(T, p)
  PROVE  n \in Seen(T, p)
<1> DEFINE c == LastCompaction(T, p)
           first == FirstKept(T, p, c)
<1>1. c \in 0..Len(p) /\ first \in 0..Len(p)
  BY LastCompactionOf, FirstKeptOf
<1>2. \/ n > c
      \/ c # 0 /\ first # 0 /\ first <= n /\ n < c
  OBVIOUS
<1>3. Seen(T, p) = {m \in (IF c = 0 \/ first = 0 THEN {} ELSE first..(c - 1)) \union (c + 1)..Len(p) :
                      KindAt(T, p, m) \in Shown}
  BY DEF Seen
<1> HIDE DEF c, first
<1>4. CASE n > c
  <2>1. n \in (c + 1)..Len(p)
    BY <1>1, <1>4
  <2> QED BY <2>1, <1>3
<1>5. CASE c # 0 /\ first # 0 /\ first <= n /\ n < c
  <2>1. n \in first..(c - 1)
    BY <1>1, <1>5
  <2> QED BY <2>1, <1>3, <1>5
<1> QED BY <1>2, <1>4, <1>5

LEMMA KeptIsWhole ==
  ASSUME NEW T, GoodTable(T), NEW ids, GoodIds(T, ids), NEW leaf \in Members(ids) \union {Header},
         \A n \in 1..Len(PathTo(T, ids, leaf)) : KeptAt(T, PathTo(T, ids, leaf), n)
  PROVE  Whole(T, ids, leaf)
<1> DEFINE p == PathTo(T, ids, leaf)
           c == LastCompaction(T, p)
           first == FirstKept(T, p, c)
           C == ToSet(Context(T, ids, leaf))
<1> SUFFICES ASSUME NEW x \in Past(T, leaf) PROVE x \in C \union UNION {T[i].covers : i \in C}
  BY DEF Whole
<1>1. leaf # Header /\ x \in T[leaf].past
  BY DEF Past
<1>2. p \in Seq(Int) /\ IsPath(T, Members(ids), p, leaf)
  BY PathOf
<1>3. /\ \A n \in 1..Len(p) : n \in Seen(T, p) => p[n] \in C
      /\ c # 0 => p[c] \in C
  BY ContextHolds
<1>4. \A n \in 1..Len(p) : KeptAt(T, p, n)
  OBVIOUS
<1>5. c \in 0..Len(p) /\ (c # 0 => KindAt(T, p, c) = "compaction")
  BY <1>2, LastCompactionOf
<1>6. \A n \in 1..Len(p) : p[n] = T[p[c]].ref => first # 0 /\ first <= n
  BY <1>2, FirstKeptOf
<1>7. first \in 0..Len(p)
  BY <1>2, FirstKeptOf
<1>8. \A n \in 1..Len(p) : KindAt(T, p, n) \in Shown /\ n > c => n \in Seen(T, p)
  BY <1>2, IsSeen
<1>9. \A n \in 1..Len(p) : KindAt(T, p, n) \in Shown /\ c # 0 /\ first # 0 /\ first <= n /\ n < c
                             => n \in Seen(T, p)
  BY <1>2, IsSeen
<1> HIDE DEF p, c, first, C
<1>10. p # <<>> /\ p[Len(p)] = leaf /\ Len(p) \in 1..Len(p)
  BY <1>1, <1>2 DEF IsPath
<1>11. PICK m \in 1..Len(p) : p[m] = x /\ KindAt(T, p, m) \in Messages
  BY <1>1, <1>4, <1>10 DEF KeptAt
<1>12. KindAt(T, p, m) \in Shown /\ KindAt(T, p, m) # "compaction"
  BY <1>11 DEF Shown, Messages, Replies
<1>13. CASE m \in Seen(T, p)
  BY <1>3, <1>11, <1>13
<1>14. CASE m \notin Seen(T, p)
  <2>1. m <= c /\ c # 0
    BY <1>5, <1>8, <1>12, <1>14
  <2>2. m # c
    BY <2>1, <1>5, <1>12
  <2>3. c \in 1..Len(p)
    BY <2>1, <1>5
  <2>4. KeepsFrom(T, p, c - 1, T[p[c]].ref, T[p[c]].covers)
    BY <2>1, <2>3, <1>4, <1>5 DEF KeptAt
  <2>5. PICK f \in 1..(c - 1) : p[f] = T[p[c]].ref /\ Covered(T, p, 1, f - 1, T[p[c]].covers)
    BY <2>4 DEF KeepsFrom
  <2>6. f \in 1..Len(p)
    BY <2>3
  <2>7. first # 0 /\ first <= f
    BY <2>5, <2>6, <1>6
  <2>8. ~(first <= m)
    BY <2>1, <2>2, <2>7, <1>5, <1>9, <1>12, <1>14
  <2>9. m \in 1..(f - 1)
    BY <2>3, <2>7, <2>8, <1>7
  <2>10. x \in T[p[c]].covers
    BY <2>5, <2>9, <1>11 DEF Covered
  <2> QED BY <2>1, <2>10, <1>3
<1> QED BY <1>13, <1>14

\* The call of a result that is seen is seen, and comes before it.
LEMMA CallIsSeen ==
  ASSUME NEW T, GoodTable(T), NEW ids, GoodIds(T, ids), NEW leaf \in Members(ids) \union {Header},
         NEW p, p = PathTo(T, ids, leaf), \A n \in 1..Len(p) : PairedAt(T, p, n),
         NEW m \in 1..Len(p), m \in Seen(T, p), KindAt(T, p, m) = "result"
  PROVE  \E k \in 1..(m - 1) : k \in Seen(T, p) /\ p[k] = T[p[m]].ref
<1> DEFINE c == LastCompaction(T, p)
           first == FirstKept(T, p, c)
<1>1. p \in Seq(Int)
  BY PathOf
<1>2. c \in 0..Len(p) /\ (c # 0 => KindAt(T, p, c) = "compaction")
  BY <1>1, LastCompactionOf
<1>3. /\ first \in 0..Len(p) /\ (first # 0 => p[first] = T[p[c]].ref)
      /\ \A n \in 1..Len(p) : p[n] = T[p[c]].ref => first # 0 /\ first <= n
  BY <1>1, FirstKeptOf
<1>4. \A n \in 1..Len(p) : KindAt(T, p, n) \in Shown /\ n > c => n \in Seen(T, p)
  BY <1>1, IsSeen
<1>5. \A n \in 1..Len(p) : KindAt(T, p, n) \in Shown /\ c # 0 /\ first # 0 /\ first <= n /\ n < c
                             => n \in Seen(T, p)
  BY <1>1, IsSeen
<1>6. \/ m \in (c + 1)..Len(p)
      \/ c # 0 /\ first # 0 /\ m \in first..(c - 1)
  BY DEF Seen
<1>7. \A j, n \in 1..Len(p) : p[j] = p[n] => j = n
  BY PathDistinct
<1> HIDE DEF c, first
<1>8. PICK k \in 1..(m - 1) : /\ p[k] = T[p[m]].ref /\ KindAt(T, p, k) = "call"
                              /\ \A n \in (k + 1)..(m - 1) : KindAt(T, p, n) \notin Heeded
  BY DEF PairedAt, EndsInCall
<1>9. k \in 1..Len(p)
  OBVIOUS
<1>10. KindAt(T, p, k) \in Shown /\ KindAt(T, p, k) # "compaction" /\ "compaction" \in Heeded
  BY <1>8 DEF Shown, Messages, Replies, Heeded
<1>11. CASE m \in (c + 1)..Len(p)
  <2>1. k # c
    BY <1>2, <1>9, <1>10
  <2>2. c \notin (k + 1)..(m - 1)
    <3>1. c \in (k + 1)..(m - 1) => c # 0
      OBVIOUS
    <3> QED BY <3>1, <1>2, <1>8, <1>10
  <2>3. k > c
    BY <2>1, <2>2, <1>2, <1>11
  <2> QED BY <2>3, <1>4, <1>8, <1>9, <1>10
<1>12. CASE c # 0 /\ first # 0 /\ m \in first..(c - 1)
  <2>1. c \in 1..Len(p) /\ m \in 1..(c - 1)
    BY <1>2, <1>3, <1>12
  <2>2. CutsFrom(T, p, c - 1, T[p[c]].ref)
    BY <2>1, <1>2, <1>12 DEF PairedAt
  <2>3. PICK f \in 1..(c - 1) :
          /\ p[f] = T[p[c]].ref
          /\ \A n \in f..(c - 1) : KindAt(T, p, n) = "result" => \E j \in f..(n - 1) : p[j] = T[p[n]].ref
    BY <2>2 DEF CutsFrom
  <2>4. f \in 1..Len(p) /\ first \in 1..Len(p)
    BY <2>1, <1>3, <1>12
  <2>5. f = first
    BY <2>3, <2>4, <1>3, <1>7, <1>12
  <2>6. PICK j \in f..(m - 1) : p[j] = T[p[m]].ref
    BY <2>3, <2>5, <1>12
  <2>7. j \in 1..Len(p)
    BY <2>1, <2>4
  <2>8. k = j
    BY <2>6, <2>7, <1>7, <1>8, <1>9
  <2>9. first <= k /\ k < c
    BY <2>1, <2>5, <2>6, <2>8
  <2> QED BY <2>9, <1>5, <1>8, <1>9, <1>10, <1>12
<1> QED BY <1>6, <1>11, <1>12

LEMMA PairedAreInOrder ==
  ASSUME NEW T, GoodTable(T), NEW ids, GoodIds(T, ids), NEW leaf \in Members(ids) \union {Header},
         \A n \in 1..Len(PathTo(T, ids, leaf)) : PairedAt(T, PathTo(T, ids, leaf), n),
         NEW n \in DOMAIN Context(T, ids, leaf), T[Context(T, ids, leaf)[n]].kind = "result"
  PROVE  \E k \in 1..(n - 1) : Context(T, ids, leaf)[k] = T[Context(T, ids, leaf)[n]].ref
<1> DEFINE p == PathTo(T, ids, leaf)
           c == LastCompaction(T, p)
           S == Seen(T, p)
           Q == Picked(p, S)
           H == IF c = 0 THEN <<>> ELSE <<p[c]>>
           C == Context(T, ids, leaf)
<1>1. p \in Seq(Int) /\ C \in Seq(Int)
  BY PathOf, ContextFrom
<1>2. c \in 0..Len(p) /\ (c # 0 => KindAt(T, p, c) = "compaction")
  BY <1>1, LastCompactionOf
<1>3. C = H \o Q
  BY ContextIs
<1>4. PICK g : Places(g, Q, p, S)
  BY <1>1, PickedPlaces
<1>5. Q \in Seq(Int)
  BY <1>1, PickedFrom
<1>6. \A m \in 1..Len(p) : m \in S /\ KindAt(T, p, m) = "result" =>
        \E k \in 1..(m - 1) : k \in S /\ p[k] = T[p[m]].ref
  BY CallIsSeen
<1>7. n \in DOMAIN C /\ T[C[n]].kind = "result"
  OBVIOUS
<1> HIDE DEF c, S, Q, C, p
<1>8. H \in Seq(Int) /\ (H # <<>> => Len(H) = 1 /\ T[H[1]].kind = "compaction") /\ (H = <<>> => Len(H) = 0)
  BY <1>1, <1>2 DEF KindAt
<1> HIDE DEF H
<1> DEFINE h == Len(H)
<1>9. /\ h \in Nat /\ Len(C) = h + Len(Q)
      /\ \A i \in 1..h : C[i] = H[i]
      /\ \A i \in 1..Len(Q) : C[h + i] = Q[i]
  BY <1>3, <1>5, <1>8, ConcatOf
<1>10. n \in 1..(h + Len(Q)) /\ Len(Q) \in Nat
  BY <1>1, <1>5, <1>7, <1>9
<1>11. n \notin 1..h
  <2> SUFFICES ASSUME n \in 1..h PROVE FALSE
    OBVIOUS
  <2>1. H # <<>>
    BY <1>8
  <2>2. n = 1
    <3>1. h = 1
      BY <2>1, <1>8
    <3>2. n \in 1..h
      OBVIOUS
    <3> HIDE DEF h
    <3> QED BY <3>1, <3>2
  <2>3. C[n] = H[1]
    BY <2>2, <1>9
  <2> QED BY <2>1, <2>3, <1>7, <1>8
<1> HIDE DEF h
<1>12. PICK j \in 1..Len(Q) : n = h + j
  <2>1. n - h \in 1..Len(Q) /\ n = h + (n - h)
    BY <1>9, <1>10, <1>11
  <2> QED BY <2>1
<1>13. C[n] = p[g[j]] /\ g[j] \in S \intersect 1..Len(p)
  BY <1>4, <1>9, <1>12 DEF Places
<1>14. KindAt(T, p, g[j]) = "result"
  BY <1>7, <1>13 DEF KindAt
<1>15. PICK k \in 1..(g[j] - 1) : k \in S /\ p[k] = T[p[g[j]]].ref
  BY <1>6, <1>13, <1>14
<1>16. k \in S \intersect 1..Len(p) /\ k < g[j] /\ g[j] \in Int /\ k \in Int
  BY <1>13, <1>15
<1>17. PICK i \in 1..Len(Q) : g[i] = k
  BY <1>4, <1>16 DEF Places
<1>18. i < j
  <2>1. ~(j < i)
    <3>1. j < i => g[j] < g[i]
      BY <1>4 DEF Places
    <3> QED BY <3>1, <1>16, <1>17
  <2>2. i # j
    BY <1>16, <1>17
  <2> QED BY <2>1, <2>2, <1>10
<1>19. C[h + i] = Q[i] /\ Q[i] = p[g[i]]
  BY <1>4, <1>9 DEF Places
<1>20. h + i \in 1..(n - 1)
  BY <1>9, <1>12, <1>18
<1>21. C[h + i] = T[C[n]].ref
  BY <1>13, <1>15, <1>17, <1>19
<1>22. \E x \in 1..(n - 1) : C[x] = T[C[n]].ref
  BY <1>20, <1>21
<1> QED BY <1>22 DEF C

LEMMA WholeMeans ==
  ASSUME SInv, WholeInv
  PROVE  NothingForgotten /\ ResultsFollowCalls
<1>1. Core(table, mem, files, origin)
  BY DEF SInv
<1>2. GoodTable(table) /\ GoodIds(table, mem.ids) /\ mem.leaf \in Members(mem.ids) \union {Header}
  BY <1>1, CoreTypes DEF Core
<1> DEFINE p == PathTo(table, mem.ids, mem.leaf)
           a == Remembers
           b == Pairs
<1>3. ASSUME a \/ b, NEW n \in 1..Len(p) PROVE WholeAt(table, p, n, a, b)
  <2>1. WholeSession(table, mem.ids, a, b)
    BY <1>3, TornEnds DEF WholeInv, Told
  <2>2. mem.leaf # Header
    <3>1. IsPath(table, Members(mem.ids), p, mem.leaf)
      BY <1>2, PathOf
    <3>2. mem.leaf = Header => p = <<>>
      BY <3>1 DEF IsPath
    <3>3. n \in 1..Len(p)
      OBVIOUS
    <3> HIDE DEF p
    <3> QED BY <3>2, <3>3
  <2> HIDE DEF a, b
  <2>3. WholePath(table, p, a, b)
    BY <1>2, <2>1, <2>2 DEF WholeSession
  <2>4. n \in 1..Len(p)
    OBVIOUS
  <2> HIDE DEF p
  <2> QED BY <2>3, <2>4 DEF WholePath
<1>4. ASSUME ~a PROVE NothingForgotten
  <2>1. mishaps \intersect {"torn", "unlinked", "recompacted", "astray"} # {}
    BY <1>4 DEF Remembers
  <2> QED BY <2>1, Zenon DEF NothingForgotten
<1>5. ASSUME a PROVE NothingForgotten
  <2>1. \A n \in 1..Len(p) : KeptAt(table, p, n)
    BY <1>3, <1>5 DEF WholeAt
  <2>2. Whole(table, mem.ids, mem.leaf)
    BY <1>2, <2>1, KeptIsWhole
  <2> QED BY <2>2, Zenon DEF NothingForgotten
<1>6. ASSUME ~b PROVE ResultsFollowCalls
  <2>1. mishaps \intersect {"torn", "lagging", "midturn", "overtaken", "unheard", "unlinked", "astray"}
          # {}
    BY <1>6 DEF Pairs
  <2> QED BY <2>1, Zenon DEF ResultsFollowCalls
<1>7. ASSUME b PROVE ResultsFollowCalls
  <2>1. \A n \in 1..Len(p) : PairedAt(table, p, n)
    BY <1>3, <1>7 DEF WholeAt
  <2>2. \A n \in DOMAIN Context(table, mem.ids, mem.leaf) :
          table[Context(table, mem.ids, mem.leaf)[n]].kind = "result" =>
            \E k \in 1..(n - 1) : Context(table, mem.ids, mem.leaf)[k]
                                    = table[Context(table, mem.ids, mem.leaf)[n]].ref
    BY <1>2, <2>1, PairedAreInOrder
  <2> QED BY <2>2, Zenon DEF ResultsFollowCalls
<1>8. NothingForgotten
  BY <1>4, <1>5
<1>9. ResultsFollowCalls
  BY <1>6, <1>7
<1> QED BY <1>8, <1>9

LEMMA WholeInvariance == Spec => [](SInv /\ WholeInv)
<1>1. Init => SInv /\ StepInv /\ WholeInv
  BY InitHolds, InitInStep, InitWhole
<1>2. SInv /\ StepInv /\ WholeInv /\ [Next]_vars => (SInv /\ StepInv /\ WholeInv)'
  <2> SUFFICES ASSUME SInv, StepInv, WholeInv, [Next]_vars PROVE SInv' /\ StepInv' /\ WholeInv'
    OBVIOUS
  <2>1. SInv'
    BY NextKeeps
  <2> QED BY <2>1, StepKeeps, NextLeavesWhole
<1> QED BY <1>1, <1>2, PTL DEF Spec

(***************************************************************************)
(* Each message of the conversation that leads to the leaf is in the       *)
(* context that buildSessionContext makes, or the summary of a compaction  *)
(* in that context was made from it: whatever branches, forks, restarts,   *)
(* summaries and switches of session came before.  Unless a line was       *)
(* written in part, a fork dropped a label that entries hung on, a         *)
(* compaction passed over what the one before had kept, or a summary came  *)
(* to another branch than its own.                                         *)
(***************************************************************************)
THEOREM NothingIsForgotten == Spec => []NothingForgotten
<1>1. SInv /\ WholeInv => NothingForgotten
  BY WholeMeans
<1> QED BY <1>1, WholeInvariance, PTL

(***************************************************************************)
(* In the context that the model is sent a tool result comes after its     *)
(* call: findCutPoint never cuts between the two, and buildSessionContext  *)
(* keeps the order.  Unless messages were lost or came late, or the leaf   *)
(* moved under a turn (see Mishap).                                        *)
(***************************************************************************)
THEOREM ResultsComeAfterCalls == Spec => []ResultsFollowCalls
<1>1. SInv /\ WholeInv => ResultsFollowCalls
  BY WholeMeans
<1> QED BY <1>1, WholeInvariance, PTL
=============================================================================
