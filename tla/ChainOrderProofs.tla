-------------------------- MODULE ChainOrderProofs --------------------------
(***************************************************************************)
(* Theorems about ChainOrder: whatever events a client holds, and in       *)
(* whatever order it got them, it replays them in causal order, by date    *)
(* among those that could come next.                                       *)
(***************************************************************************)
EXTENDS ChainOrder, FiniteSetTheorems, SequenceTheorems, WellFoundedInduction, TLAPS

-----------------------------------------------------------------------------
(* Induction, over sets of numbers.                                        *)

(* A set of numbers that is not empty has a least one.                     *)
LEMMA LeastOne ==
  ASSUME NEW S, S \subseteq Nat, S # {}
  PROVE  \E x \in S : \A y \in S : x <= y
<1>1. PICK x \in S : \A y \in S : ~ (<<y, x>> \in OpToRel(<, Nat))
  BY NatLessThanWellFounded, WFMin
<1>2. \A y \in S : y < x => <<y, x>> \in OpToRel(<, Nat)
  BY DEF OpToRel
<1>3. \A y \in S : ~ (y < x)
  BY <1>1, <1>2, Zenon
<1> QED BY <1>3

(* Induction: what holds of 0, and of n + 1 if of n, holds of all numbers. *)
LEMMA Induction ==
  ASSUME NEW S, 0 \in S, \A n \in Nat : n \in S => n + 1 \in S
  PROVE  Nat \subseteq S
<1> SUFFICES ASSUME Nat \ S # {} PROVE FALSE
  OBVIOUS
<1>1. PICK x \in Nat \ S : \A y \in Nat \ S : x <= y
  <2> DEFINE T == Nat \ S
  <2>1. T \subseteq Nat /\ T # {}
    OBVIOUS
  <2> HIDE DEF T
  <2>2. \E x \in T : \A y \in T : x <= y
    BY <2>1, LeastOne
  <2> QED BY <2>2 DEF T
<1>2. x # 0 /\ x - 1 \in Nat
  OBVIOUS
<1>3. x - 1 \in S
  BY <1>1, <1>2
<1> QED BY <1>2, <1>3

(* What holds of the first stage, and of each if of the one before, holds  *)
(* of the last.                                                            *)
LEMMA Stagewise ==
  ASSUME NEW n \in Nat, NEW A, NEW stage, stage[0] \in A[0],
         \A i \in 1 .. n : stage[i - 1] \in A[i - 1] => stage[i] \in A[i]
  PROVE  stage[n] \in A[n]
<1> DEFINE S == {i \in Nat : i <= n => stage[i] \in A[i]}
<1>1. 0 \in S
  OBVIOUS
<1>2. ASSUME NEW i \in Nat, i \in S PROVE i + 1 \in S
  <2> SUFFICES ASSUME i + 1 <= n PROVE stage[i + 1] \in A[i + 1]
    OBVIOUS
  <2>1. stage[i] \in A[i] /\ i + 1 \in 1 .. n
    BY <1>2
  <2>2. (i + 1) - 1 = i
    OBVIOUS
  <2> QED BY <2>1, <2>2
<1> HIDE DEF S
<1>3. n \in S
  BY <1>1, <1>2, Induction
<1> QED BY <1>3 DEF S

(* The largest of some indices.                                            *)
LEMMA MaxOf ==
  ASSUME NEW n \in Nat, NEW s \in SUBSET (1 .. n), s # {}
  PROVE  Max(s) \in s /\ \A y \in s : y <= Max(s)
<1> DEFINE D == {n - y : y \in s}
<1>1. D \subseteq Nat /\ D # {}
  <2>1. \A y \in s : y \in Nat /\ n - y \in Nat
    OBVIOUS
  <2>2. PICK z \in s : TRUE
    OBVIOUS
  <2>3. n - z \in D
    OBVIOUS
  <2> QED BY <2>1, <2>3
<1>2. PICK x \in D : \A y \in D : x <= y
  <2> HIDE DEF D
  <2> QED BY <1>1, LeastOne
<1>3. PICK m \in s : x = n - m
  OBVIOUS
<1>4. \A y \in s : m >= y
  BY <1>2, <1>3
<1>5. \E z \in s : \A y \in s : z >= y
  BY <1>4
<1>6. Max(s) \in s /\ \A y \in s : Max(s) >= y
  BY <1>5, Zenon DEF Max
<1> QED BY <1>6

(* The largest of indices up to k + 1, if that is one of them.             *)
LEMMA TopOf ==
  ASSUME NEW k \in Nat, NEW s \in SUBSET (1 .. k + 1), k + 1 \in s
  PROVE  Max(s) = k + 1
<1>1. k + 1 \in Nat /\ s # {}
  OBVIOUS
<1>2. Max(s) \in s /\ \A y \in s : y <= Max(s)
  BY <1>1, MaxOf
<1>3. Max(s) \in 1 .. k + 1 /\ k + 1 <= Max(s)
  BY <1>2
<1> QED BY <1>3

Folds(n, base, step, f) ==
  f = [s \in SUBSET (1 .. n) |->
         IF s = {} THEN base ELSE step[<<Max(s), f[s \ {Max(s)}]>>]]

(* The recursive function of a fold exists.                                *)
LEMMA FoldExists ==
  ASSUME NEW n \in Nat, NEW X, NEW base \in X, NEW step,
         \A i \in 1 .. n, a \in X : step[<<i, a>>] \in X
  PROVE  \E f \in [SUBSET (1 .. n) -> X] : Folds(n, base, step, f)
<1> DEFINE Fits(k, f) ==
             \A s \in SUBSET (1 .. k) :
               f[s] = IF s = {} THEN base ELSE step[<<Max(s), f[s \ {Max(s)}]>>]
           P(k) == k <= n => \E f \in [SUBSET (1 .. k) -> X] : Fits(k, f)
           S == {k \in Nat : P(k)}
<1>1. P(0)
  <2> DEFINE f == [s \in SUBSET (1 .. 0) |-> base]
  <2>1. \A s \in SUBSET (1 .. 0) : s = {}
    OBVIOUS
  <2>2. f \in [SUBSET (1 .. 0) -> X] /\ Fits(0, f)
    BY <2>1
  <2> QED BY <2>2
<1>2. ASSUME NEW k \in Nat, P(k) PROVE P(k + 1)
  <2> SUFFICES ASSUME k + 1 <= n
               PROVE  \E f \in [SUBSET (1 .. k + 1) -> X] : Fits(k + 1, f)
    OBVIOUS
  <2>1. PICK g \in [SUBSET (1 .. k) -> X] : Fits(k, g)
    <3> HIDE DEF Fits
    <3>1. k <= n
      OBVIOUS
    <3> QED BY <1>2, <3>1
  <2> DEFINE f == [s \in SUBSET (1 .. k + 1) |->
                     IF k + 1 \in s THEN step[<<k + 1, g[s \ {k + 1}]>>] ELSE g[s]]
  <2>2. ASSUME NEW s \in SUBSET (1 .. k + 1)
        PROVE  /\ s \ {k + 1} \in SUBSET (1 .. k)
               /\ k + 1 \notin s => s \in SUBSET (1 .. k)
    <3>1. \A x \in s : x # k + 1 => x \in 1 .. k
      OBVIOUS
    <3> QED BY <3>1
  <2>3. f \in [SUBSET (1 .. k + 1) -> X]
    BY <2>2
  <2>4. ASSUME NEW s \in SUBSET (1 .. k + 1)
        PROVE  f[s] = IF s = {} THEN base ELSE step[<<Max(s), f[s \ {Max(s)}]>>]
    <3>1. CASE s = {}
      BY <2>1, <3>1
    <3>2. CASE k + 1 \in s
      <4>2. Max(s) = k + 1
        BY <3>2, TopOf
      <4>3. s \ {k + 1} \in SUBSET (1 .. k + 1)
        OBVIOUS
      <4>4. f[s \ {k + 1}] = g[s \ {k + 1}]
        BY <4>3
      <4>5. s # {} /\ f[s] = step[<<k + 1, g[s \ {k + 1}]>>]
        BY <3>2
      <4> HIDE DEF f
      <4> QED BY <4>2, <4>4, <4>5
    <3>3. CASE s # {} /\ k + 1 \notin s
      <4>1. s \in SUBSET (1 .. k)
        BY <2>2, <3>3
      <4>2. f[s] = step[<<Max(s), g[s \ {Max(s)}]>>]
        BY <2>1, <3>3, <4>1
      <4>3. s \ {Max(s)} \in SUBSET (1 .. k + 1) /\ k + 1 \notin s \ {Max(s)}
        BY <3>3
      <4>4. f[s \ {Max(s)}] = g[s \ {Max(s)}]
        BY <4>3
      <4> QED BY <3>3, <4>2, <4>4
    <3> QED BY <3>1, <3>2, <3>3
  <2> HIDE DEF f
  <2> QED BY <2>3, <2>4
<1> HIDE DEF P
<1>3. 0 \in S /\ \A k \in Nat : k \in S => k + 1 \in S
  BY <1>1, <1>2
<1> HIDE DEF S
<1>4. n \in S
  BY <1>3, Induction
<1>5. P(n)
  BY <1>4 DEF S
<1>6. PICK f \in [SUBSET (1 .. n) -> X] : Fits(n, f)
  <2> HIDE DEF Fits
  <2>1. n <= n
    OBVIOUS
  <2> QED BY <1>5, <2>1 DEF P
<1> DEFINE h == [s \in SUBSET (1 .. n) |->
                   IF s = {} THEN base ELSE step[<<Max(s), f[s \ {Max(s)}]>>]]
<1>7. f = h
  <2>1. \A s \in SUBSET (1 .. n) : f[s] = h[s]
    BY <1>6
  <2>2. DOMAIN h = SUBSET (1 .. n) /\ h = [s \in SUBSET (1 .. n) |-> h[s]]
    OBVIOUS
  <2> HIDE DEF h
  <2> QED BY <2>1, <2>2
<1> QED BY <1>6, <1>7, Zenon DEF h, Folds

-----------------------------------------------------------------------------
(* The events of a trade, and which comes first.                           *)

\* What Init makes of a cast: known kinds, dates, and links without cycles.
Trade ==
  /\ \E n \in Nat : Ids = 1 .. n
  /\ \A e \in Ids :
       /\ signed[e].kind \in Kinds /\ signed[e].date \in Nat
       /\ signed[e].prev # NoEvent =>
            /\ signed[e].kind # "CREATE" /\ State(e)
            /\ signed[e].prev \in Ids /\ State(signed[e].prev)
       /\ signed[e].proof # NoEvent =>
            /\ signed[e].kind = "COMPLETE"
            /\ signed[e].proof \in Ids /\ signed[signed[e].proof].kind = "SETTLEMENT"
  /\ \E age \in [Ids -> Nat] :
       \A e \in Ids : signed[e].prev # NoEvent => age[signed[e].prev] < age[e]

\* The event that follows, when these are left, stated without choosing it.
Follows(e, left) ==
  /\ e \in Ready(left)
  /\ \A f \in Ready(left) \ {e} :
       \/ signed[e].kind = "CREATE" /\ signed[f].kind # "CREATE"
       \/ (signed[e].kind = "CREATE" <=> signed[f].kind = "CREATE") /\ Earlier(e, f)

\* Consensus, of what is held.
ConsensusIn(held) == {e \in held : State(e)}

(* What the ids, the dates and the priorities of a trade are.              *)
LEMMA Numbers ==
  ASSUME Trade
  PROVE  /\ Ids \subseteq Nat /\ NoEvent \notin Ids /\ IsFiniteSet(Ids)
         /\ \A e \in Ids : /\ signed[e].date \in Nat
                           /\ Priority[signed[e].kind] \in Nat
<1>1. PICK n \in Nat : Ids = 1 .. n
  BY DEF Trade
<1>2. IsFiniteSet(1 .. n)
  BY FS_Interval
<1>3. \A k \in Kinds : Priority[k] \in Nat
  BY DEF Kinds, Priority
<1> QED BY <1>1, <1>2, <1>3 DEF Trade, NoEvent

(* compare never calls two events earlier than one another, nor neither.   *)
LEMMA EarlierOrders ==
  ASSUME Trade, NEW e \in Ids, NEW f \in Ids
  PROVE  /\ ~ (Earlier(e, f) /\ Earlier(f, e))
         /\ e # f => Earlier(e, f) \/ Earlier(f, e)
BY Numbers DEF Earlier

(* The first of some events is the one that is earlier than the others.    *)
LEMMA FirstIs ==
  ASSUME Trade, NEW S \in SUBSET Ids, S # {}
  PROVE  First(S) \in S /\ \A f \in S \ {First(S)} : Earlier(First(S), f)
<1> DEFINE Dated    == {signed[e].date : e \in S}
           Prior1   == {e \in S : \A f \in S : signed[e].date <= signed[f].date}
           Ranks    == {Priority[signed[e].kind] : e \in Prior1}
           Foremost == {e \in Prior1 : \A f \in Prior1 :
                          Priority[signed[e].kind] <= Priority[signed[f].kind]}
<1>1. \A e \in S : e \in Nat /\ signed[e].date \in Nat /\ Priority[signed[e].kind] \in Nat
  BY Numbers
<1>2. Prior1 # {} /\ Prior1 \subseteq S
  <2>1. Dated \subseteq Nat /\ Dated # {}
    BY <1>1
  <2>2. PICK d \in Dated : \A y \in Dated : d <= y
    <3> HIDE DEF Dated
    <3> QED BY <2>1, LeastOne
  <2>3. PICK e \in S : d = signed[e].date
    OBVIOUS
  <2> QED BY <2>2, <2>3
<1>3. Foremost # {} /\ Foremost \subseteq Prior1
  <2>1. Ranks \subseteq Nat /\ Ranks # {}
    <3> HIDE DEF Prior1
    <3> QED BY <1>1, <1>2
  <2>2. PICK d \in Ranks : \A y \in Ranks : d <= y
    <3> HIDE DEF Ranks
    <3> QED BY <2>1, LeastOne
  <2> HIDE DEF Prior1
  <2>3. PICK e \in Prior1 : d = Priority[signed[e].kind]
    OBVIOUS
  <2> QED BY <2>2, <2>3
<1>4. PICK e \in Foremost : \A f \in Foremost : e <= f
  <2>1. Foremost \subseteq Nat
    BY <1>1, <1>2, <1>3
  <2> HIDE DEF Foremost
  <2> QED BY <1>3, <2>1, LeastOne
<1>5. e \in S
  BY <1>2, <1>3
<1>6. \A f \in S \ {e} : Earlier(e, f)
  <2> SUFFICES ASSUME NEW f \in S, f # e PROVE Earlier(e, f)
    OBVIOUS
  <2>1. signed[e].date <= signed[f].date
    OBVIOUS
  <2>2. signed[e].date = signed[f].date =>
          Priority[signed[e].kind] <= Priority[signed[f].kind]
    <3> SUFFICES ASSUME signed[e].date = signed[f].date PROVE f \in Prior1
      OBVIOUS
    <3> QED OBVIOUS
  <2>3. (/\ signed[e].date = signed[f].date
         /\ Priority[signed[e].kind] = Priority[signed[f].kind]) => e <= f
    <3> SUFFICES ASSUME signed[e].date = signed[f].date,
                        Priority[signed[e].kind] = Priority[signed[f].kind]
                 PROVE  f \in Foremost
      BY <1>4
    <3>1. f \in Prior1
      OBVIOUS
    <3> QED BY <3>1
  <2> HIDE DEF Foremost, Prior1
  <2> QED BY <1>1, <1>5, <2>1, <2>2, <2>3 DEF Earlier
<1> HIDE DEF Foremost, Prior1
<1>7. \E x \in S : \A f \in S \ {x} : Earlier(x, f)
  BY <1>5, <1>6
<1> QED BY <1>7, Zenon DEF First

(* Of any events one rests on none of them.                                *)
LEMMA SomeRoot ==
  ASSUME Trade, NEW T \in SUBSET Ids, T # {}
  PROVE  \E r \in T : signed[r].prev \notin T
<1>1. PICK age \in [Ids -> Nat] :
        \A e \in Ids : signed[e].prev # NoEvent => age[signed[e].prev] < age[e]
  BY DEF Trade
<1> DEFINE Ages == {age[e] : e \in T}
<1>2. Ages \subseteq Nat /\ Ages # {}
  OBVIOUS
<1>3. PICK d \in Ages : \A y \in Ages : d <= y
  <2> HIDE DEF Ages
  <2> QED BY <1>2, LeastOne
<1>4. PICK r \in T : d = age[r]
  OBVIOUS
<1>5. \A f \in T : age[r] <= age[f]
  BY <1>3, <1>4
<1>6. signed[r].prev \in T => signed[r].prev # NoEvent
  BY Numbers
<1>7. signed[r].prev \in T => age[signed[r].prev] < age[r]
  BY <1>1, <1>6
<1> HIDE DEF Ages
<1>8. \A f \in T : age[f] \in Nat
  OBVIOUS
<1> QED BY <1>5, <1>7, <1>8

(* The event that sortEventChain takes next follows, of those left.        *)
LEMMA FollowingFollows ==
  ASSUME Trade, NEW left \in SUBSET Ids, left # {}
  PROVE  Following(left) \in left /\ Follows(Following(left), left)
<1> DEFINE creates == {e \in Ready(left) : signed[e].kind = "CREATE"}
           among   == IF creates # {} THEN creates ELSE Ready(left)
<1>1. Ready(left) # {} /\ Ready(left) \in SUBSET left
  BY SomeRoot DEF Ready
<1>2. among # {} /\ among \in SUBSET Ready(left)
  BY <1>1
<1>3. Following(left) = First(among)
  BY DEF Following
<1>4. First(among) \in among /\ \A f \in among \ {First(among)} : Earlier(First(among), f)
  <2> HIDE DEF among
  <2> QED BY <1>1, <1>2, FirstIs
<1> QED BY <1>1, <1>2, <1>3, <1>4 DEF Follows

-----------------------------------------------------------------------------
(* Arrangements of a set, and picking one element after the other.         *)

Arrangements(S) == {t \in Seq(S) : Range(t) = S /\ IsInjective(t)}

Precedes(t, e, f) == Place(t, e) < Place(t, f)

(* A place and what stands there belong to each other.                     *)
LEMMA Placed ==
  ASSUME NEW S, NEW t \in Arrangements(S)
  PROVE  /\ Len(t) \in Nat /\ DOMAIN t = 1 .. Len(t) /\ t \in [1 .. Len(t) -> S]
         /\ \A i, j \in 1 .. Len(t) : t[i] = t[j] => i = j
         /\ \A e \in S : Place(t, e) \in 1 .. Len(t) /\ t[Place(t, e)] = e
         /\ \A i \in 1 .. Len(t) : Place(t, t[i]) = i
<1>1. t \in Seq(S) /\ Range(t) = S /\ IsInjective(t)
  BY DEF Arrangements
<1>2. Len(t) \in Nat /\ DOMAIN t = 1 .. Len(t) /\ t \in [1 .. Len(t) -> S]
  BY <1>1, LenProperties
<1>3. \A i, j \in 1 .. Len(t) : t[i] = t[j] => i = j
  BY <1>1, <1>2 DEF IsInjective
<1>4. ASSUME NEW e \in S PROVE Place(t, e) \in 1 .. Len(t) /\ t[Place(t, e)] = e
  <2>1. \E i \in DOMAIN t : t[i] = e
    BY <1>1 DEF Range
  <2>2. Place(t, e) \in DOMAIN t /\ t[Place(t, e)] = e
    BY <2>1, Zenon DEF Place
  <2> QED BY <1>2, <2>2
<1>5. \A i \in 1 .. Len(t) : t[i] \in S
  BY <1>2
<1> QED BY <1>2, <1>3, <1>4, <1>5

(* As long as fewer than all were picked, some are left.                   *)
LEMMA SomeLeft ==
  ASSUME NEW S, IsFiniteSet(S), NEW n \in Nat, n < Cardinality(S),
         NEW s, \A j \in 1 .. n : s[j] \in S
  PROVE  S \ {s[j] : j \in 1 .. n} # {}
<1> DEFINE T == {s[j] : j \in 1 .. n}
           g == [j \in 1 .. n |-> s[j]]
<1>1. g \in Surjection(1 .. n, T)
  BY DEF Surjection
<1>2. IsFiniteSet(1 .. n) /\ Cardinality(1 .. n) = n
  BY FS_Interval
<1>3. IsFiniteSet(T) /\ Cardinality(T) <= n
  <2> HIDE DEF T, g
  <2> QED BY <1>1, <1>2, FS_Surjection
<1>4. Cardinality(S) \in Nat
  BY FS_CardinalityType
<1>5. T # S
  BY <1>3, <1>4
<1> QED BY <1>5

(* Picking one that is left, time and again, arranges the set.             *)
LEMMA PickedAll ==
  ASSUME NEW S, IsFiniteSet(S), NEW s \in [1 .. Cardinality(S) -> S],
         \A i \in 1 .. Cardinality(S) : s[i] \in S \ {s[j] : j \in 1 .. i - 1}
  PROVE  s \in Arrangements(S) /\ Len(s) = Cardinality(S)
<1>1. Cardinality(S) \in Nat
  BY FS_CardinalityType
<1>2. s \in Seq(S) /\ Len(s) = Cardinality(S) /\ DOMAIN s = 1 .. Cardinality(S)
  BY <1>1
<1>3. \A i, j \in 1 .. Cardinality(S) : j < i => s[i] # s[j]
  <2> SUFFICES ASSUME NEW i \in 1 .. Cardinality(S), NEW j \in 1 .. Cardinality(S), j < i
               PROVE  s[i] # s[j]
    OBVIOUS
  <2>1. j \in 1 .. i - 1
    BY <1>1
  <2> QED BY <2>1
<1>4. IsInjective(s)
  BY <1>1, <1>2, <1>3 DEF IsInjective
<1>5. s \in Injection(1 .. Cardinality(S), S)
  BY <1>2, <1>4 DEF IsInjective, Injection
<1>6. Cardinality(1 .. Cardinality(S)) = Cardinality(S)
  BY <1>1, FS_Interval
<1>7. s \in Surjection(1 .. Cardinality(S), S)
  BY <1>5, <1>6, FS_Injection
<1>8. Range(s) = S
  BY <1>2, <1>7 DEF Surjection, Range
<1> QED BY <1>2, <1>4, <1>8 DEF Arrangements

PickedBy(S, pick, s) == \A i \in DOMAIN s : s[i] = pick[S \ {s[j] : j \in 1 .. i - 1}]

(* There is such an arrangement, whatever function does the picking.       *)
LEMMA PickedExists ==
  ASSUME NEW S, IsFiniteSet(S), NEW pick,
         \A T \in SUBSET S : T # {} => pick[T] \in T
  PROVE  \E s \in [1 .. Cardinality(S) -> S] : PickedBy(S, pick, s)
<1> DEFINE Fits(n, s) == \A i \in 1 .. n : s[i] = pick[S \ {s[j] : j \in 1 .. i - 1}]
           P(n) == n <= Cardinality(S) => \E s \in [1 .. n -> S] : Fits(n, s)
           N == {n \in Nat : P(n)}
<1>1. P(0)
  <2>1. <<>> \in [1 .. 0 -> S] /\ Fits(0, <<>>)
    OBVIOUS
  <2> HIDE DEF Fits
  <2> QED BY <2>1
<1>2. ASSUME NEW n \in Nat, P(n) PROVE P(n + 1)
  <2> SUFFICES ASSUME n + 1 <= Cardinality(S)
               PROVE  \E s \in [1 .. n + 1 -> S] : Fits(n + 1, s)
    OBVIOUS
  <2>1. PICK s \in [1 .. n -> S] : Fits(n, s)
    <3> HIDE DEF Fits
    <3>1. n <= Cardinality(S)
      BY FS_CardinalityType
    <3> QED BY <1>2, <3>1
  <2> DEFINE left == S \ {s[j] : j \in 1 .. n}
             r == [i \in 1 .. n + 1 |-> IF i <= n THEN s[i] ELSE pick[left]]
  <2>2. pick[left] \in S
    <3>1. left # {}
      <4>1. n < Cardinality(S)
        BY FS_CardinalityType
      <4> QED BY <4>1, SomeLeft
    <3>2. left \in SUBSET S
      OBVIOUS
    <3> HIDE DEF left
    <3> QED BY <3>1, <3>2
  <2>3. r \in [1 .. n + 1 -> S]
    <3> HIDE DEF left
    <3> QED BY <2>2
  <2>4. ASSUME NEW i \in 1 .. n + 1
        PROVE  {r[j] : j \in 1 .. i - 1} = {s[j] : j \in 1 .. i - 1}
    <3>1. \A j \in 1 .. i - 1 : r[j] = s[j]
      OBVIOUS
    <3> HIDE DEF r
    <3> QED BY <3>1
  <2>5. ASSUME NEW i \in 1 .. n + 1
        PROVE  r[i] = pick[S \ {r[j] : j \in 1 .. i - 1}]
    <3>1. CASE i <= n
      <4>1. r[i] = s[i] /\ i \in 1 .. n
        BY <3>1
      <4>2. s[i] = pick[S \ {s[j] : j \in 1 .. i - 1}]
        BY <2>1, <4>1
      <4> QED BY <2>4, <4>1, <4>2
    <3>2. CASE i = n + 1
      <4>1. r[i] = pick[left] /\ i - 1 = n
        BY <3>2
      <4> HIDE DEF r
      <4> QED BY <2>4, <4>1
    <3> QED BY <3>1, <3>2
  <2> HIDE DEF r
  <2> QED BY <2>3, <2>5
<1> HIDE DEF P
<1>3. 0 \in N /\ \A n \in Nat : n \in N => n + 1 \in N
  BY <1>1, <1>2
<1> HIDE DEF N
<1>4. Cardinality(S) \in N
  BY <1>3, Induction, FS_CardinalityType
<1>5. PICK s \in [1 .. Cardinality(S) -> S] : Fits(Cardinality(S), s)
  <2>1. P(Cardinality(S)) /\ Cardinality(S) <= Cardinality(S)
    BY <1>4, FS_CardinalityType DEF N
  <2> HIDE DEF Fits
  <2> QED BY <2>1 DEF P
<1>6. DOMAIN s = 1 .. Cardinality(S)
  OBVIOUS
<1> QED BY <1>5, <1>6 DEF PickedBy

(* The loop of sortEventChain: each event is the one that follows when     *)
(* those not yet taken are left.                                           *)
LEMMA SortedFollows ==
  ASSUME Trade, NEW S \in SUBSET Ids
  PROVE  /\ Sorted(S) \in Arrangements(S)
         /\ \A e \in S : Follows(e, {f \in S : ~ Precedes(Sorted(S), f, e)})
<1> DEFINE s == Sorted(S)
           n == Cardinality(S)
           pick == [T \in SUBSET S |-> Following(T)]
           left(i) == S \ {s[j] : j \in 1 .. i - 1}
<1>1. IsFiniteSet(S) /\ n \in Nat
  BY Numbers, FS_Subset, FS_CardinalityType
<1>2. \A T \in SUBSET S : T # {} => pick[T] \in T
  BY FollowingFollows
<1>3. \E r \in [1 .. n -> S] : PickedBy(S, pick, r)
  <2> HIDE DEF pick
  <2> QED BY <1>1, <1>2, PickedExists
<1>4. \E r \in [1 .. n -> S] :
        \A i \in DOMAIN r : r[i] = Following(S \ {r[j] : j \in 1 .. i - 1})
  BY <1>3 DEF PickedBy
<1>5. /\ s \in [1 .. n -> S]
      /\ \A i \in DOMAIN s : s[i] = Following(S \ {s[j] : j \in 1 .. i - 1})
  BY <1>4, Zenon DEF Sorted, Ordered
<1> HIDE DEF s
<1>6. ASSUME NEW i \in 1 .. n
      PROVE  s[i] \in left(i) /\ Follows(s[i], left(i))
  <2>1. left(i) # {}
    <3>1. i - 1 \in Nat /\ i - 1 < n /\ \A j \in 1 .. i - 1 : s[j] \in S
      BY <1>1, <1>5
    <3> QED BY <1>1, <3>1, SomeLeft
  <2>2. s[i] = Following(left(i))
    BY <1>5
  <2>3. left(i) \in SUBSET Ids
    OBVIOUS
  <2> HIDE DEF left
  <2> QED BY <2>1, <2>2, <2>3, FollowingFollows
<1>7. s \in Arrangements(S) /\ Len(s) = n
  BY <1>1, <1>5, <1>6, PickedAll
<1>8. ASSUME NEW e \in S PROVE Follows(e, {f \in S : ~ Precedes(s, f, e)})
  <2> DEFINE p == Place(s, e)
  <2>1. p \in 1 .. n /\ s[p] = e
    BY <1>7, Placed
  <2>2. {f \in S : ~ Precedes(s, f, e)} = left(p)
    <3>1. ASSUME NEW f \in S PROVE Precedes(s, f, e) <=> f \in {s[j] : j \in 1 .. p - 1}
      <4>1. Place(s, f) \in 1 .. n /\ s[Place(s, f)] = f
        BY <1>7, Placed
      <4>2. \A j \in 1 .. n : Place(s, s[j]) = j
        BY <1>7, Placed
      <4>3. \A j \in 1 .. p - 1 : j \in 1 .. n
        BY <1>1, <2>1
      <4>4. Precedes(s, f, e) <=> Place(s, f) \in 1 .. p - 1
        BY <2>1, <4>1 DEF Precedes
      <4> QED BY <4>1, <4>2, <4>3, <4>4
    <3> QED BY <3>1
  <2> QED BY <1>6, <2>1, <2>2
<1> QED BY <1>7, <1>8 DEF s

(* The sort of the prior transport lists all of it.                        *)
LEMMA ListedFirst ==
  ASSUME Trade, NEW S \in SUBSET Ids
  PROVE  Ordered(S, First) \in Arrangements(S)
<1> DEFINE s == Ordered(S, First)
           n == Cardinality(S)
           pick == [T \in SUBSET S |-> First(T)]
           left(i) == S \ {s[j] : j \in 1 .. i - 1}
<1>1. IsFiniteSet(S) /\ n \in Nat
  BY Numbers, FS_Subset, FS_CardinalityType
<1>2. \A T \in SUBSET S : T # {} => pick[T] \in T
  BY FirstIs
<1>3. \E r \in [1 .. n -> S] : PickedBy(S, pick, r)
  <2> HIDE DEF pick
  <2> QED BY <1>1, <1>2, PickedExists
<1>4. \E r \in [1 .. n -> S] :
        \A i \in DOMAIN r : r[i] = First(S \ {r[j] : j \in 1 .. i - 1})
  BY <1>3 DEF PickedBy
<1>5. /\ s \in [1 .. n -> S]
      /\ \A i \in DOMAIN s : s[i] = First(S \ {s[j] : j \in 1 .. i - 1})
  BY <1>4, Zenon DEF Ordered
<1> HIDE DEF s
<1>6. ASSUME NEW i \in 1 .. n PROVE s[i] \in left(i)
  <2>1. left(i) # {}
    <3>1. i - 1 \in Nat /\ i - 1 < n /\ \A j \in 1 .. i - 1 : s[j] \in S
      BY <1>1, <1>5
    <3> QED BY <1>1, <3>1, SomeLeft
  <2>2. s[i] = First(left(i))
    BY <1>5
  <2>3. left(i) \in SUBSET Ids
    OBVIOUS
  <2> HIDE DEF left
  <2> QED BY <2>1, <2>2, <2>3, FirstIs
<1>7. s \in Arrangements(S)
  BY <1>1, <1>5, <1>6, PickedAll
<1> QED BY <1>7 DEF s

-----------------------------------------------------------------------------
(* Putting events in and moving them.                                      *)

(* An event that is inserted stands there, and what follows moves on.      *)
LEMMA Inserted ==
  ASSUME NEW S, NEW t \in Arrangements(S), NEW e, e \notin S, NEW i \in 1 .. Len(t) + 1
  PROVE  /\ InsertAt(t, i, e) \in Arrangements(S \cup {e})
         /\ Place(InsertAt(t, i, e), e) = i
         /\ \A a \in S : Place(InsertAt(t, i, e), a) =
                           IF Place(t, a) < i THEN Place(t, a) ELSE Place(t, a) + 1
<1> DEFINE U == S \cup {e}
           r == InsertAt(t, i, e)
           n == Len(t)
<1>1. n \in Nat /\ t \in Seq(U)
  BY Placed, SeqMonotonic DEF Arrangements
<1>2. /\ r \in Seq(U) /\ Len(r) = n + 1
      /\ \A j \in 1 .. n + 1 : r[j] = IF j < i THEN t[j] ELSE IF j = i THEN e ELSE t[j - 1]
  <2> DEFINE a == SubSeq(t, 1, i - 1)
             b == SubSeq(t, i, n)
  <2>1. a \in Seq(U) /\ Len(a) = i - 1 /\ \A j \in 1 .. i - 1 : a[j] = t[j]
    <3>1. \A j \in 1 .. i - 1 : t[j] \in U
      BY <1>1
    <3> QED BY <1>1, <3>1, SubSeqProperties
  <2>2. b \in Seq(U) /\ Len(b) = n + 1 - i /\ \A j \in 1 .. n + 1 - i : b[j] = t[i + j - 1]
    <3>1. \A j \in i .. n : t[j] \in U
      BY <1>1
    <3> QED BY <1>1, <3>1, SubSeqProperties
  <2>3. <<e>> \in Seq(U) /\ Len(<<e>>) = 1 /\ <<e>>[1] = e
    OBVIOUS
  <2> HIDE DEF a, b, n
  <2> DEFINE c == a \o <<e>>
  <2>4. c \in Seq(U) /\ Len(c) = i /\ \A j \in 1 .. i : c[j] = IF j < i THEN t[j] ELSE e
    <3>1. /\ c \in Seq(U) /\ Len(c) = Len(a) + 1
          /\ \A j \in 1 .. Len(a) + 1 :
               c[j] = IF j <= Len(a) THEN a[j] ELSE <<e>>[j - Len(a)]
      BY <2>1, <2>3, ConcatProperties
    <3> QED BY <2>1, <2>3, <3>1
  <2> HIDE DEF c
  <2>5. /\ c \o b \in Seq(U) /\ Len(c \o b) = Len(c) + Len(b)
        /\ \A j \in 1 .. Len(c) + Len(b) :
             (c \o b)[j] = IF j <= Len(c) THEN c[j] ELSE b[j - Len(c)]
    BY <2>2, <2>4, ConcatProperties
  <2>6. r = c \o b
    BY DEF InsertAt, a, b, c, n
  <2> HIDE DEF r
  <2>7. Len(r) = n + 1
    BY <1>1, <2>2, <2>4, <2>5, <2>6 DEF n
  <2>8. ASSUME NEW j \in 1 .. n + 1
        PROVE  r[j] = IF j < i THEN t[j] ELSE IF j = i THEN e ELSE t[j - 1]
    <3>1. CASE j <= i
      BY <1>1, <2>2, <2>4, <2>5, <2>6, <3>1 DEF n
    <3>2. CASE i < j
      <4>1. j - i \in 1 .. n + 1 - i /\ i + (j - i) - 1 = j - 1
        BY <1>1, <3>2 DEF n
      <4>2. r[j] = b[j - i]
        BY <1>1, <2>2, <2>4, <2>5, <2>6, <3>2 DEF n
      <4> QED BY <2>2, <3>2, <4>1, <4>2
    <3> QED BY <1>1, <3>1, <3>2 DEF n
  <2> QED BY <2>5, <2>6, <2>7, <2>8
<1> HIDE DEF r
<1>3. /\ \A j \in 1 .. n : t[j] \in S
      /\ \A a \in S : Place(t, a) \in 1 .. n /\ t[Place(t, a)] = a
      /\ \A j, k \in 1 .. n : t[j] = t[k] => j = k
  BY Placed
<1>4. IsInjective(r)
  <2> SUFFICES ASSUME NEW j \in 1 .. n + 1, NEW k \in 1 .. n + 1, r[j] = r[k], j < k
               PROVE  FALSE
    BY <1>1, <1>2 DEF IsInjective
  <2>1. j < i /\ k = i => FALSE
    BY <1>1, <1>2, <1>3
  <2>2. j = i => FALSE
    BY <1>1, <1>2, <1>3
  <2>3. j < i /\ k < i => FALSE
    BY <1>1, <1>2, <1>3
  <2>4. j < i /\ k > i => FALSE
    BY <1>1, <1>2, <1>3
  <2>5. j > i => FALSE
    <3> SUFFICES ASSUME j > i PROVE FALSE
      OBVIOUS
    <3>1. r[j] = t[j - 1] /\ r[k] = t[k - 1]
      BY <1>1, <1>2
    <3>2. j - 1 \in 1 .. n /\ k - 1 \in 1 .. n /\ j - 1 # k - 1
      BY <1>1
    <3> QED BY <1>3, <3>1, <3>2
  <2> QED BY <1>1, <2>1, <2>2, <2>3, <2>4, <2>5
<1> DEFINE at(a) == IF Place(t, a) < i THEN Place(t, a) ELSE Place(t, a) + 1
<1>5. \A a \in S : at(a) \in 1 .. n + 1 /\ r[at(a)] = a
  <2> SUFFICES ASSUME NEW a \in S PROVE at(a) \in 1 .. n + 1 /\ r[at(a)] = a
    OBVIOUS
  <2>1. Place(t, a) \in 1 .. n /\ t[Place(t, a)] = a
    BY <1>3
  <2> QED BY <1>1, <1>2, <2>1
<1>6. i \in 1 .. n + 1 /\ r[i] = e
  BY <1>2
<1>7. Range(r) = U
  <2>1. DOMAIN r = 1 .. n + 1
    BY <1>1, <1>2
  <2>2. \A a \in U : \E j \in 1 .. n + 1 : r[j] = a
    BY <1>5, <1>6
  <2>3. \A j \in 1 .. n + 1 : r[j] \in U
    BY <1>2
  <2> QED BY <2>1, <2>2, <2>3 DEF Range
<1>8. r \in Arrangements(U)
  BY <1>2, <1>4, <1>7 DEF Arrangements
<1>9. \A j \in 1 .. n + 1 : Place(r, r[j]) = j
  BY <1>2, <1>8, Placed
<1>10. Place(r, e) = i
  BY <1>6, <1>9
<1>11. \A a \in S : Place(r, a) = at(a)
  <2> HIDE DEF at
  <2> QED BY <1>5, <1>9
<1> QED BY <1>8, <1>10, <1>11 DEF r

(* What follows an event that is removed moves up.                         *)
LEMMA Removed ==
  ASSUME NEW S, NEW t \in Arrangements(S), NEW e \in S
  PROVE  /\ RemoveAt(t, Place(t, e)) \in Arrangements(S \ {e})
         /\ \A a \in S \ {e} : Place(RemoveAt(t, Place(t, e)), a) =
              IF Place(t, a) < Place(t, e) THEN Place(t, a) ELSE Place(t, a) - 1
<1> DEFINE U == S \ {e}
           p == Place(t, e)
           r == RemoveAt(t, p)
           n == Len(t)
<1>1. /\ n \in Nat /\ t \in [1 .. n -> S]
      /\ \A j \in 1 .. n : t[j] \in S
      /\ \A a \in S : Place(t, a) \in 1 .. n /\ t[Place(t, a)] = a
      /\ \A j, k \in 1 .. n : t[j] = t[k] => j = k
  BY Placed
<1>2. p \in 1 .. n /\ t[p] = e /\ n - 1 \in Nat
  BY <1>1
<1> HIDE DEF p
<1>3. \A j \in 1 .. n : j # p => t[j] \in U
  BY <1>1, <1>2
<1>4. t \in Seq(S)
  BY DEF Arrangements
<1>5. /\ r \in Seq(U) /\ Len(r) = n - 1
      /\ \A j \in 1 .. n - 1 : r[j] = IF j < p THEN t[j] ELSE t[j + 1]
  <2> DEFINE a == SubSeq(t, 1, p - 1)
             b == SubSeq(t, p + 1, n)
  <2>1. a \in Seq(U) /\ Len(a) = p - 1 /\ \A j \in 1 .. p - 1 : a[j] = t[j]
    <3>1. \A j \in 1 .. p - 1 : t[j] \in U
      BY <1>1, <1>2, <1>3
    <3> QED BY <1>1, <1>2, <1>4, <3>1, SubSeqProperties
  <2>2. b \in Seq(U) /\ Len(b) = n - p /\ \A j \in 1 .. n - p : b[j] = t[p + j]
    <3>1. \A j \in p + 1 .. n : t[j] \in U
      BY <1>1, <1>2, <1>3
    <3>2. p + 1 \in Int /\ n \in Int
      BY <1>1, <1>2
    <3> HIDE DEF n
    <3>3. /\ b \in Seq(U)
          /\ Len(b) = IF p + 1 <= n THEN n - (p + 1) + 1 ELSE 0
          /\ \A j \in 1 .. n - (p + 1) + 1 : b[j] = t[(p + 1) + j - 1]
      BY <1>1, <1>2, <1>4, <3>1, <3>2, SubSeqProperties
    <3> HIDE DEF b
    <3>4. n - (p + 1) + 1 = n - p /\ \A j \in 1 .. n - p : (p + 1) + j - 1 = p + j
      BY <1>1, <1>2
    <3>5. Len(b) = n - p
      BY <1>1, <1>2, <3>3
    <3> QED BY <3>3, <3>4, <3>5
  <2> HIDE DEF a, b, n
  <2>3. /\ a \o b \in Seq(U) /\ Len(a \o b) = Len(a) + Len(b)
        /\ \A j \in 1 .. Len(a) + Len(b) :
             (a \o b)[j] = IF j <= Len(a) THEN a[j] ELSE b[j - Len(a)]
    BY <2>1, <2>2, ConcatProperties
  <2>4. r = a \o b
    BY DEF RemoveAt, a, b, n
  <2> HIDE DEF r
  <2>5. ASSUME NEW j \in 1 .. n - 1 PROVE r[j] = IF j < p THEN t[j] ELSE t[j + 1]
    <3>1. CASE j < p
      BY <1>1, <1>2, <2>1, <2>2, <2>3, <2>4, <3>1
    <3>2. CASE p <= j
      <4> DEFINE k == j - (p - 1)
      <4>1. k \in 1 .. n - p /\ p + k = j + 1
        BY <1>1, <1>2, <3>2
      <4>2. r[j] = b[k]
        BY <1>1, <1>2, <2>1, <2>2, <2>3, <2>4, <3>2
      <4> HIDE DEF k
      <4>3. b[k] = t[j + 1]
        BY <2>2, <4>1
      <4>4. ~ (j < p)
        BY <1>1, <1>2, <3>2
      <4> QED BY <4>2, <4>3, <4>4
    <3> QED BY <1>1, <1>2, <3>1, <3>2
  <2>6. r \in Seq(U)
    BY <2>3, <2>4
  <2>7. Len(r) = n - 1
    BY <1>1, <1>2, <2>1, <2>2, <2>3, <2>4
  <2> HIDE DEF U
  <2> QED BY <2>5, <2>6, <2>7
<1> HIDE DEF r, n
<1>6. IsInjective(r)
  <2> SUFFICES ASSUME NEW j \in 1 .. n - 1, NEW k \in 1 .. n - 1, r[j] = r[k], j < k
               PROVE  FALSE
    BY <1>1, <1>2, <1>5 DEF IsInjective
  <2>1. k < p => FALSE
    BY <1>1, <1>2, <1>5
  <2>2. j < p /\ k >= p => FALSE
    BY <1>1, <1>2, <1>5
  <2>3. j >= p => FALSE
    <3> SUFFICES ASSUME j >= p PROVE FALSE
      OBVIOUS
    <3>1. r[j] = t[j + 1] /\ r[k] = t[k + 1]
      BY <1>1, <1>2, <1>5
    <3>2. j + 1 \in 1 .. n /\ k + 1 \in 1 .. n /\ j + 1 # k + 1
      BY <1>1, <1>2
    <3> QED BY <1>1, <3>1, <3>2
  <2> QED BY <1>1, <1>2, <2>1, <2>2, <2>3
<1> DEFINE at(a) == IF Place(t, a) < p THEN Place(t, a) ELSE Place(t, a) - 1
<1>7. \A a \in U : at(a) \in 1 .. n - 1 /\ r[at(a)] = a
  <2> SUFFICES ASSUME NEW a \in U PROVE at(a) \in 1 .. n - 1 /\ r[at(a)] = a
    OBVIOUS
  <2> DEFINE k == Place(t, a)
  <2>1. k \in 1 .. n /\ t[k] = a /\ k # p
    BY <1>1, <1>2
  <2> HIDE DEF k
  <2>2. CASE k < p
    BY <1>1, <1>2, <1>5, <2>1, <2>2 DEF k
  <2>3. CASE ~ (k < p)
    <3>1. k - 1 \in 1 .. n - 1 /\ ~ (k - 1 < p) /\ (k - 1) + 1 = k
      BY <1>1, <1>2, <2>1, <2>3
    <3>2. r[k - 1] = t[k]
      BY <1>5, <3>1
    <3> QED BY <2>1, <2>3, <3>1, <3>2 DEF k
  <2> QED BY <2>2, <2>3
<1>8. Range(r) = U
  <2>1. DOMAIN r = 1 .. n - 1
    BY <1>1, <1>5
  <2>2. \A a \in U : \E j \in 1 .. n - 1 : r[j] = a
    BY <1>7
  <2>3. \A j \in 1 .. n - 1 : r[j] \in U
    BY <1>5, <1>2
  <2> QED BY <2>1, <2>2, <2>3 DEF Range
<1>9. r \in Arrangements(U)
  BY <1>5, <1>6, <1>8 DEF Arrangements
<1>10. \A j \in 1 .. n - 1 : Place(r, r[j]) = j
  BY <1>5, <1>9, Placed
<1>11. \A a \in U : Place(r, a) = at(a)
  <2> HIDE DEF at
  <2> QED BY <1>7, <1>10
<1> QED BY <1>9, <1>11 DEF r, p

(* What is put before another event stands before it, and only it moves.   *)
LEMMA PutBeforeKeeps ==
  ASSUME NEW S, NEW t \in Arrangements(S), NEW e \in S, NEW x \in S, e # x
  PROVE  /\ PutBefore(t, e, x) \in Arrangements(S)
         /\ Precedes(PutBefore(t, e, x), e, x)
         /\ \A a, b \in S \ {e} : Precedes(PutBefore(t, e, x), a, b) <=> Precedes(t, a, b)
<1> DEFINE rest == RemoveAt(t, Place(t, e))
           i == Place(rest, x)
           r == InsertAt(rest, i, e)
<1>1. /\ rest \in Arrangements(S \ {e})
      /\ \A a \in S \ {e} : Place(rest, a) =
           IF Place(t, a) < Place(t, e) THEN Place(t, a) ELSE Place(t, a) - 1
  BY Removed
<1>2. PutBefore(t, e, x) = r
  BY DEF PutBefore
<1> HIDE DEF rest
<1>3. i \in 1 .. Len(rest) + 1 /\ e \notin S \ {e} /\ (S \ {e}) \cup {e} = S
  BY <1>1, Placed
<1>4. /\ r \in Arrangements((S \ {e}) \cup {e}) /\ Place(r, e) = i
      /\ \A a \in S \ {e} : Place(r, a) =
           IF Place(rest, a) < i THEN Place(rest, a) ELSE Place(rest, a) + 1
  <2> HIDE DEF i
  <2> QED BY <1>1, <1>3, Inserted
<1> HIDE DEF r
<1>5. \A a \in S : Place(t, a) \in Nat /\ t[Place(t, a)] = a
  BY Placed
<1>6. \A a \in S \ {e} : Place(rest, a) \in Nat
  BY <1>1, Placed
<1>7. Precedes(r, e, x)
  BY <1>4, <1>6 DEF Precedes
<1>8. \A a, b \in S \ {e} : Precedes(r, a, b) <=> Precedes(t, a, b)
  <2> SUFFICES ASSUME NEW a \in S \ {e}, NEW b \in S \ {e}
               PROVE  Precedes(r, a, b) <=> Precedes(t, a, b)
    OBVIOUS
  <2>1. Precedes(rest, a, b) <=> Precedes(t, a, b)
    <3>1. Place(t, a) # Place(t, e) /\ Place(t, b) # Place(t, e)
      BY <1>5
    <3> QED BY <1>1, <1>5, <3>1 DEF Precedes
  <2>2. Precedes(r, a, b) <=> Precedes(rest, a, b)
    BY <1>4, <1>6 DEF Precedes
  <2> QED BY <2>1, <2>2
<1> QED BY <1>2, <1>3, <1>4, <1>7, <1>8

(* An event that is put in by its date follows what is not dated later,    *)
(* and leaves the others as they were.                                     *)
LEMMA InterleavedKeeps ==
  ASSUME Trade, NEW S \in SUBSET Ids, NEW t \in Arrangements(S), NEW e \in Ids \ S
  PROVE  /\ Interleaved(t, e) \in Arrangements(S \cup {e})
         /\ \A a, b \in S : Precedes(Interleaved(t, e), a, b) <=> Precedes(t, a, b)
         /\ \A a \in S : signed[a].date <= signed[e].date => Precedes(Interleaved(t, e), a, e)
<1> DEFINE I == {j \in 1 .. Len(t) : signed[t[j]].date <= signed[e].date}
           i == IF I # {} THEN Max(I) ELSE 0
           k == IF i = 0 THEN Len(t) + 1 ELSE i + 1
           r == InsertAt(t, k, e)
<1>1. /\ Len(t) \in Nat
      /\ \A a \in S : Place(t, a) \in 1 .. Len(t) /\ t[Place(t, a)] = a
  BY Placed
<1>2. I # {} => Max(I) \in I /\ \A y \in I : y <= Max(I)
  <2>1. I \in SUBSET (1 .. Len(t))
    OBVIOUS
  <2> HIDE DEF I
  <2> QED BY <1>1, <2>1, MaxOf
<1>3. Interleaved(t, e) = r
  BY DEF Interleaved, SelectLastInSeq
<1>4. k \in 1 .. Len(t) + 1
  BY <1>1, <1>2
<1>5. \A a \in S : signed[a].date <= signed[e].date => Place(t, a) < k
  <2> SUFFICES ASSUME NEW a \in S, signed[a].date <= signed[e].date
               PROVE  Place(t, a) < k
    OBVIOUS
  <2>1. Place(t, a) \in I
    BY <1>1
  <2>2. Max(I) \in 1 .. Len(t) /\ Place(t, a) <= Max(I) /\ I # {}
    BY <1>2, <2>1
  <2> HIDE DEF I
  <2>3. k = Max(I) + 1
    BY <1>1, <2>2
  <2> QED BY <1>1, <2>2, <2>3
<1> HIDE DEF k
<1>6. /\ r \in Arrangements(S \cup {e}) /\ Place(r, e) = k
      /\ \A a \in S : Place(r, a) =
           IF Place(t, a) < k THEN Place(t, a) ELSE Place(t, a) + 1
  BY <1>4, Inserted
<1> HIDE DEF r
<1> QED BY <1>1, <1>3, <1>4, <1>5, <1>6 DEF Precedes

(* What is put in is an event too.                                         *)
LEMMA InterleavedType ==
  ASSUME NEW t \in Seq(Ids), NEW e \in Ids
  PROVE  Interleaved(t, e) \in Seq(Ids)
<1> DEFINE I == {j \in 1 .. Len(t) : signed[t[j]].date <= signed[e].date}
           i == IF I # {} THEN Max(I) ELSE 0
           k == IF i = 0 THEN Len(t) + 1 ELSE i + 1
<1>1. Len(t) \in Nat
  OBVIOUS
<1>2. I # {} => Max(I) \in I
  <2>1. I \in SUBSET (1 .. Len(t))
    OBVIOUS
  <2> HIDE DEF I
  <2> QED BY <1>1, <2>1, MaxOf
<1>3. Interleaved(t, e) = InsertAt(t, k, e)
  BY DEF Interleaved, SelectLastInSeq
<1>4. k \in 1 .. Len(t) + 1
  BY <1>1, <1>2
<1> HIDE DEF k
<1>5. SubSeq(t, 1, k - 1) \in Seq(Ids)
  <2>1. \A j \in 1 .. k - 1 : t[j] \in Ids
    BY <1>1, <1>4
  <2> QED BY <1>1, <1>4, <2>1, SubSeqProperties
<1>6. SubSeq(t, k, Len(t)) \in Seq(Ids)
  <2>1. \A j \in k .. Len(t) : t[j] \in Ids
    BY <1>1, <1>4
  <2> QED BY <1>1, <1>4, <2>1, SubSeqProperties
<1> QED BY <1>3, <1>5, <1>6, ConcatProperties DEF InsertAt

-----------------------------------------------------------------------------
(* The loops, as what each of their rounds leaves.                         *)

(* The events before a place, and the last of them.                        *)
LEMMA Rounds ==
  ASSUME NEW n \in Nat, NEW i \in 1 .. n
  PROVE  /\ 1 .. i \in SUBSET (1 .. n) /\ 1 .. i # {}
         /\ Max(1 .. i) = i /\ (1 .. i) \ {i} = 1 .. i - 1
<1>1. i - 1 \in Nat /\ (i - 1) + 1 = i /\ i \in 1 .. i
  OBVIOUS
<1>2. Max(1 .. i) = i
  <2> DEFINE k == i - 1
             s == 1 .. i
  <2>1. k \in Nat /\ k + 1 = i /\ s \in SUBSET (1 .. k + 1) /\ k + 1 \in s
    BY <1>1
  <2> HIDE DEF k, s
  <2>2. Max(s) = k + 1
    BY <2>1, TopOf
  <2> QED BY <2>1, <2>2 DEF s
<1> QED BY <1>1, <1>2

\* What the loop that puts the transports in does with an event.
Mixed(all, e) == IF State(e) THEN all ELSE Interleaved(all, e)

MixAll(base, events) ==
  FoldLeft(LAMBDA all, e : IF State(e) THEN all ELSE Interleaved(all, e), base, events)

(* The rounds of the loop that puts the transports in.                     *)
LEMMA MixedRounds ==
  ASSUME NEW events \in Seq(Ids), NEW base \in Seq(Ids)
  PROVE  \E stage :
           /\ stage[0] = base
           /\ \A i \in 1 .. Len(events) : stage[i] = Mixed(stage[i - 1], events[i])
           /\ stage[Len(events)] =
                MixAll(base, events)
<1> DEFINE n == Len(events)
           Is(f) == f = [s \in SUBSET DOMAIN events |->
                           IF s = {} THEN base
                           ELSE Mixed(f[s \ {Max(s)}], events[Max(s)])]
           iter == CHOOSE f : Is(f)
           step == [ia \in (1 .. n) \X Seq(Ids) |-> Mixed(ia[2], events[ia[1]])]
<1>1. n \in Nat /\ DOMAIN events = 1 .. n /\ \A i \in 1 .. n : events[i] \in Ids
  OBVIOUS
<1>2. \E f : Is(f)
  <2>1. \A i \in 1 .. n, a \in Seq(Ids) : step[<<i, a>>] = Mixed(a, events[i])
    OBVIOUS
  <2>2. \A i \in 1 .. n, a \in Seq(Ids) : step[<<i, a>>] \in Seq(Ids)
    BY <1>1, <2>1, InterleavedType DEF Mixed
  <2> HIDE DEF step, n
  <2>3. PICK f \in [SUBSET (1 .. n) -> Seq(Ids)] : Folds(n, base, step, f)
    BY <1>1, <2>2, FoldExists
  <2>4. ASSUME NEW s \in SUBSET (1 .. n), s # {}
        PROVE  step[<<Max(s), f[s \ {Max(s)}]>>] = Mixed(f[s \ {Max(s)}], events[Max(s)])
    <3>1. Max(s) \in 1 .. n
      BY <1>1, <2>4, MaxOf
    <3>2. f[s \ {Max(s)}] \in Seq(Ids)
      OBVIOUS
    <3> QED BY <2>1, <3>1, <3>2
  <2>5. f = [s \in SUBSET (1 .. n) |->
               IF s = {} THEN base ELSE Mixed(f[s \ {Max(s)}], events[Max(s)])]
    BY <2>3, <2>4 DEF Folds
  <2> QED BY <1>1, <2>5
<1>3. Is(iter)
  <2> HIDE DEF Is
  <2> QED BY <1>2, Zenon
<1>4. MixAll(base, events)
        = iter[DOMAIN events]
  BY DEF MixAll, FoldLeft, MapThenFoldSet, Mixed
<1> HIDE DEF iter
<1> DEFINE stage == [i \in 0 .. n |-> iter[1 .. i]]
<1>5. stage[0] = base
  <2>1. 1 .. 0 = {} /\ {} \in SUBSET DOMAIN events /\ 0 \in 0 .. n
    BY <1>1
  <2> QED BY <1>3, <2>1
<1>6. ASSUME NEW i \in 1 .. n PROVE stage[i] = Mixed(stage[i - 1], events[i])
  <2>1. /\ 1 .. i \in SUBSET DOMAIN events /\ 1 .. i # {}
        /\ Max(1 .. i) = i /\ (1 .. i) \ {i} = 1 .. i - 1
    BY <1>1, Rounds
  <2>2. iter[1 .. i] = Mixed(iter[1 .. i - 1], events[i])
    BY <1>3, <2>1
  <2>3. i \in 0 .. n /\ i - 1 \in 0 .. n
    BY <1>1
  <2> QED BY <2>2, <2>3
<1>7. stage[n] = iter[DOMAIN events]
  BY <1>1
<1> HIDE DEF stage
<1> QED BY <1>4, <1>5, <1>6, <1>7

\* The loop that puts events before another, the first of them first.
PutAll(base, moved, x) == FoldLeft(LAMBDA rest, e : PutBefore(rest, e, x), base, moved)

(* The rounds of the loop that puts events before a request.               *)
LEMMA PutBeforeRounds ==
  ASSUME NEW S, NEW base \in Arrangements(S), NEW x \in S,
         NEW moved \in Seq(S \ {x})
  PROVE  \E stage :
           /\ stage[0] = base
           /\ \A i \in 1 .. Len(moved) : stage[i] = PutBefore(stage[i - 1], moved[i], x)
           /\ stage[Len(moved)] = PutAll(base, moved, x)
<1> DEFINE n == Len(moved)
           Is(f) == f = [s \in SUBSET DOMAIN moved |->
                           IF s = {} THEN base
                           ELSE PutBefore(f[s \ {Max(s)}], moved[Max(s)], x)]
           iter == CHOOSE f : Is(f)
           step == [ia \in (1 .. n) \X Arrangements(S) |-> PutBefore(ia[2], moved[ia[1]], x)]
<1>1. n \in Nat /\ DOMAIN moved = 1 .. n /\ \A i \in 1 .. n : moved[i] \in S \ {x}
  OBVIOUS
<1>2. \E f : Is(f)
  <2>1. \A i \in 1 .. n, a \in Arrangements(S) : step[<<i, a>>] = PutBefore(a, moved[i], x)
    OBVIOUS
  <2>2. \A i \in 1 .. n, a \in Arrangements(S) : step[<<i, a>>] \in Arrangements(S)
    BY <1>1, <2>1, PutBeforeKeeps
  <2> HIDE DEF step, n
  <2>3. PICK f \in [SUBSET (1 .. n) -> Arrangements(S)] : Folds(n, base, step, f)
    BY <1>1, <2>2, FoldExists
  <2>4. ASSUME NEW s \in SUBSET (1 .. n), s # {}
        PROVE  step[<<Max(s), f[s \ {Max(s)}]>>] = PutBefore(f[s \ {Max(s)}], moved[Max(s)], x)
    <3>1. Max(s) \in 1 .. n
      BY <1>1, <2>4, MaxOf
    <3>2. f[s \ {Max(s)}] \in Arrangements(S)
      OBVIOUS
    <3> QED BY <2>1, <3>1, <3>2
  <2>5. f = [s \in SUBSET (1 .. n) |->
               IF s = {} THEN base ELSE PutBefore(f[s \ {Max(s)}], moved[Max(s)], x)]
    BY <2>3, <2>4 DEF Folds
  <2> QED BY <1>1, <2>5
<1>3. Is(iter)
  <2> HIDE DEF Is
  <2> QED BY <1>2, Zenon
<1>4. PutAll(base, moved, x)
        = iter[DOMAIN moved]
  BY DEF PutAll, FoldLeft, MapThenFoldSet
<1> HIDE DEF iter
<1> DEFINE stage == [i \in 0 .. n |-> iter[1 .. i]]
<1>5. stage[0] = base
  <2>1. 1 .. 0 = {} /\ {} \in SUBSET DOMAIN moved /\ 0 \in 0 .. n
    BY <1>1
  <2> QED BY <1>3, <2>1
<1>6. ASSUME NEW i \in 1 .. n PROVE stage[i] = PutBefore(stage[i - 1], moved[i], x)
  <2>1. /\ 1 .. i \in SUBSET DOMAIN moved /\ 1 .. i # {}
        /\ Max(1 .. i) = i /\ (1 .. i) \ {i} = 1 .. i - 1
    BY <1>1, Rounds
  <2>2. iter[1 .. i] = PutBefore(iter[1 .. i - 1], moved[i], x)
    BY <1>3, <2>1
  <2>3. i \in 0 .. n /\ i - 1 \in 0 .. n
    BY <1>1
  <2> QED BY <2>2, <2>3
<1>7. stage[n] = iter[DOMAIN moved]
  BY <1>1
<1> HIDE DEF stage
<1> QED BY <1>4, <1>5, <1>6, <1>7


(* All that a request has to be judged by is put before it; the rest stays *)
(* in its order.                                                           *)
LEMMA GatherKeeps ==
  ASSUME Trade, NEW S \in SUBSET Ids, NEW t \in Arrangements(S),
         NEW x \in S, signed[x].kind = "STALLED"
  PROVE  /\ Gather(t, x) \in Arrangements(S)
         /\ \A a, b \in S \ Prior(t, x) : Precedes(Gather(t, x), a, b) <=> Precedes(t, a, b)
         /\ \A e \in Prior(t, x) : Precedes(Gather(t, x), e, x)
<1> DEFINE P == Prior(t, x)
           moved == Ordered(P, First)
           n == Len(moved)
           Kept(u) == \A a, b \in S \ P : Precedes(u, a, b) <=> Precedes(t, a, b)
           A == [i \in 0 .. n |->
                   {u \in Arrangements(S) : /\ Kept(u)
                                            /\ \A j \in 1 .. i : Precedes(u, moved[j], x)}]
<1>1. P \in SUBSET Ids /\ P \subseteq S \ {x}
  BY DEF Prior, Arrangements
<1> HIDE DEF P
<1>2. moved \in Arrangements(P)
  BY <1>1, ListedFirst
<1>3. moved \in Seq(S \ {x}) /\ n \in Nat
  BY <1>1, <1>2, SeqMonotonic, Placed DEF Arrangements
<1>4. \A i \in 1 .. n : moved[i] \in P
  BY <1>2, Placed
<1>5. \A e \in P : \E i \in 1 .. n : moved[i] = e
  BY <1>2, Placed
<1>6. Gather(t, x) = PutAll(t, moved, x)
  BY DEF Gather, PutAll, P
<1> HIDE DEF moved
<1>7. PICK stage : /\ stage[0] = t
                   /\ \A i \in 1 .. n : stage[i] = PutBefore(stage[i - 1], moved[i], x)
                   /\ stage[n] = Gather(t, x)
  BY <1>3, <1>6, PutBeforeRounds
<1>8. stage[0] \in A[0]
  BY <1>3, <1>7
<1>9. ASSUME NEW i \in 1 .. n, stage[i - 1] \in A[i - 1]
      PROVE  stage[i] \in A[i]
  <2> DEFINE u == stage[i - 1]
             e == moved[i]
             r == PutBefore(u, e, x)
  <2>1. i - 1 \in 0 .. n /\ i \in 0 .. n
    BY <1>3
  <2>2. u \in Arrangements(S) /\ Kept(u) /\ \A j \in 1 .. i - 1 : Precedes(u, moved[j], x)
    BY <1>9, <2>1
  <2> HIDE DEF u
  <2>3. e \in P /\ e \in S /\ e # x
    BY <1>1, <1>4
  <2> HIDE DEF e
  <2>4. /\ r \in Arrangements(S) /\ Precedes(r, e, x)
        /\ \A a, b \in S \ {e} : Precedes(r, a, b) <=> Precedes(u, a, b)
    BY <2>2, <2>3, PutBeforeKeeps
  <2>5. stage[i] = r
    BY <1>7 DEF u, e
  <2> HIDE DEF r
  <2>6. Kept(r)
    BY <2>2, <2>3, <2>4
  <2>7. ASSUME NEW j \in 1 .. i PROVE Precedes(r, moved[j], x)
    <3>1. CASE moved[j] = e
      BY <2>4, <3>1
    <3>2. CASE moved[j] # e
      <4>1. j \in 1 .. i - 1 /\ j \in 1 .. n
        BY <1>3, <3>2 DEF e
      <4> QED BY <1>1, <1>4, <2>2, <2>3, <2>4, <3>2, <4>1
    <3> QED BY <3>1, <3>2
  <2> HIDE DEF Kept
  <2> QED BY <2>1, <2>4, <2>5, <2>6, <2>7
<1>10. stage[n] \in A[n]
  <2> HIDE DEF A, n
  <2> QED BY <1>3, <1>8, <1>9, Stagewise
<1>11. /\ Gather(t, x) \in Arrangements(S) /\ Kept(Gather(t, x))
       /\ \A j \in 1 .. n : Precedes(Gather(t, x), moved[j], x)
  <2> HIDE DEF Kept
  <2> QED BY <1>3, <1>7, <1>10
<1> QED BY <1>5, <1>11 DEF P

(* All arrangements of a set are of its size.                              *)
LEMMA SameLength ==
  ASSUME NEW S, IsFiniteSet(S), NEW t \in Arrangements(S)
  PROVE  Len(t) = Cardinality(S)
<1>1. /\ Len(t) \in Nat /\ DOMAIN t = 1 .. Len(t) /\ t \in [1 .. Len(t) -> S]
      /\ \A i, j \in 1 .. Len(t) : t[i] = t[j] => i = j
      /\ Range(t) = S
  BY Placed DEF Arrangements
<1>2. t \in Bijection(1 .. Len(t), S)
  BY <1>1 DEF Bijection, Injection, Surjection, Range, IsInjective
<1>3. IsFiniteSet(1 .. Len(t)) /\ Cardinality(1 .. Len(t)) = Len(t)
  BY <1>1, FS_Interval
<1>4. Cardinality(1 .. Len(t)) = Cardinality(S)
  <2> DEFINE I == 1 .. Len(t)
  <2>1. IsFiniteSet(I) /\ t \in Bijection(I, S)
    BY <1>2, <1>3
  <2>2. ExistsBijection(I, S)
    BY <2>1 DEF ExistsBijection
  <2> HIDE DEF I
  <2>3. Cardinality(S) = Cardinality(I)
    BY <2>1, <2>2, FS_Bijection
  <2> QED BY <2>3 DEF I
<1> QED BY <1>3, <1>4

\* What the loop over the STALLED requests does with an event.
Gathered(all, e) == IF signed[e].kind = "STALLED" THEN Gather(all, e) ELSE all

\* The transports that a COMPLETE names.
Named(S) == {e \in S : \E c \in S : signed[c].kind = "COMPLETE" /\ signed[c].proof = e}

(* A COMPLETE moves the proof that it names, and nothing else.             *)
LEMMA ProveKeeps ==
  ASSUME Trade, NEW S \in SUBSET Ids, NEW t \in Arrangements(S), NEW i \in 1 .. Len(t)
  PROVE  /\ Prove(t, i) \in Arrangements(S)
         /\ \A a, b \in S \ Named(S) : Precedes(Prove(t, i), a, b) <=> Precedes(t, a, b)
<1> DEFINE c == t[i]
           e == signed[c].proof
<1>1. c \in S /\ Range(t) = S
  BY Placed DEF Arrangements
<1> HIDE DEF c
<1>2. Prove(t, i) = IF e \in S THEN PutBefore(t, e, c) ELSE t
  BY <1>1 DEF Prove, c
<1>3. CASE e \in S
  <2>1. e # NoEvent
    BY <1>3, Numbers
  <2>2. signed[c].kind = "COMPLETE" /\ signed[e].kind = "SETTLEMENT"
    BY <1>1, <2>1 DEF Trade
  <2>3. e # c /\ e \in Named(S)
    BY <1>1, <1>3, <2>2 DEF Named
  <2> HIDE DEF e
  <2>4. /\ PutBefore(t, e, c) \in Arrangements(S)
        /\ \A a, b \in S \ {e} : Precedes(PutBefore(t, e, c), a, b) <=> Precedes(t, a, b)
    BY <1>1, <1>3, <2>3, PutBeforeKeeps
  <2>5. \A a \in S \ Named(S) : a \in S \ {e}
    BY <2>3
  <2> QED BY <1>2, <1>3, <2>4, <2>5
<1>4. CASE e \notin S
  BY <1>2, <1>4
<1> QED BY <1>3, <1>4

GatherAll(base) ==
  FoldLeft(LAMBDA all, e : IF signed[e].kind = "STALLED" THEN Gather(all, e) ELSE all,
           base, base)

(* The rounds of the loop over the STALLED requests.                       *)
LEMMA GatheredRounds ==
  ASSUME Trade, NEW S \in SUBSET Ids, NEW base \in Arrangements(S)
  PROVE  \E stage :
           /\ stage[0] = base
           /\ \A i \in 1 .. Len(base) : stage[i] = Gathered(stage[i - 1], base[i])
           /\ stage[Len(base)] = GatherAll(base)
<1> DEFINE n == Len(base)
           Is(f) == f = [s \in SUBSET DOMAIN base |->
                           IF s = {} THEN base
                           ELSE Gathered(f[s \ {Max(s)}], base[Max(s)])]
           iter == CHOOSE f : Is(f)
           step == [ia \in (1 .. n) \X Arrangements(S) |-> Gathered(ia[2], base[ia[1]])]
<1>1. n \in Nat /\ DOMAIN base = 1 .. n /\ \A i \in 1 .. n : base[i] \in S
  BY Placed
<1>2. \E f : Is(f)
  <2>1. \A i \in 1 .. n, a \in Arrangements(S) : step[<<i, a>>] = Gathered(a, base[i])
    OBVIOUS
  <2>2. \A i \in 1 .. n, a \in Arrangements(S) : step[<<i, a>>] \in Arrangements(S)
    BY <1>1, <2>1, GatherKeeps DEF Gathered
  <2> HIDE DEF step, n
  <2>3. PICK f \in [SUBSET (1 .. n) -> Arrangements(S)] : Folds(n, base, step, f)
    BY <1>1, <2>2, FoldExists
  <2>4. ASSUME NEW s \in SUBSET (1 .. n), s # {}
        PROVE  step[<<Max(s), f[s \ {Max(s)}]>>] = Gathered(f[s \ {Max(s)}], base[Max(s)])
    <3>1. Max(s) \in 1 .. n
      BY <1>1, <2>4, MaxOf
    <3>2. f[s \ {Max(s)}] \in Arrangements(S)
      OBVIOUS
    <3> QED BY <2>1, <3>1, <3>2
  <2>5. f = [s \in SUBSET (1 .. n) |->
               IF s = {} THEN base ELSE Gathered(f[s \ {Max(s)}], base[Max(s)])]
    BY <2>3, <2>4 DEF Folds
  <2> QED BY <1>1, <2>5
<1>3. Is(iter)
  <2> HIDE DEF Is
  <2> QED BY <1>2, Zenon
<1>4. GatherAll(base)
        = iter[DOMAIN base]
  BY DEF GatherAll, FoldLeft, MapThenFoldSet, Gathered
<1> HIDE DEF iter
<1> DEFINE stage == [i \in 0 .. n |-> iter[1 .. i]]
<1>5. stage[0] = base
  <2>1. 1 .. 0 = {} /\ {} \in SUBSET DOMAIN base /\ 0 \in 0 .. n
    BY <1>1
  <2> QED BY <1>3, <2>1
<1>6. ASSUME NEW i \in 1 .. n PROVE stage[i] = Gathered(stage[i - 1], base[i])
  <2>1. /\ 1 .. i \in SUBSET DOMAIN base /\ 1 .. i # {}
        /\ Max(1 .. i) = i /\ (1 .. i) \ {i} = 1 .. i - 1
    BY <1>1, Rounds
  <2>2. iter[1 .. i] = Gathered(iter[1 .. i - 1], base[i])
    BY <1>3, <2>1
  <2>3. i \in 0 .. n /\ i - 1 \in 0 .. n
    BY <1>1
  <2> QED BY <2>2, <2>3
<1>7. stage[n] = iter[DOMAIN base]
  BY <1>1
<1> HIDE DEF stage
<1> QED BY <1>4, <1>5, <1>6, <1>7


\* The loop over the COMPLETEs.
ProveAll(base) == FoldLeftDomain(Prove, base, base)

PlacesOf(base) == [i \in DOMAIN base |-> i]

(* The rounds of the loop over the COMPLETEs.                              *)
LEMMA ProveRounds ==
  ASSUME Trade, NEW S \in SUBSET Ids, NEW base \in Arrangements(S),
         NEW places, places = PlacesOf(base)
  PROVE  \E stage :
           /\ stage[0] = base
           /\ \A i \in 1 .. Len(base) : stage[i] = Prove(stage[i - 1], places[i])
           /\ stage[Len(base)] = ProveAll(base)
<1> DEFINE n == Len(base)
           Is(f) == f = [s \in SUBSET DOMAIN places |->
                           IF s = {} THEN base
                           ELSE Prove(f[s \ {Max(s)}], places[Max(s)])]
           iter == CHOOSE f : Is(f)
           step == [ia \in (1 .. n) \X Arrangements(S) |-> Prove(ia[2], places[ia[1]])]
<1>1. n \in Nat /\ DOMAIN places = 1 .. n /\ \A i \in 1 .. n : places[i] \in 1 .. Len(base)
  BY Placed DEF PlacesOf
<1>8. \A a \in Arrangements(S) : Len(a) = Len(base)
  <2>1. IsFiniteSet(S)
    BY Numbers, FS_Subset
  <2> QED BY <2>1, SameLength
<1>2. \E f : Is(f)
  <2>1. \A i \in 1 .. n, a \in Arrangements(S) : step[<<i, a>>] = Prove(a, places[i])
    OBVIOUS
  <2>2. \A i \in 1 .. n, a \in Arrangements(S) : step[<<i, a>>] \in Arrangements(S)
    BY <1>1, <2>1, <1>8, ProveKeeps
  <2> HIDE DEF step, n
  <2>3. PICK f \in [SUBSET (1 .. n) -> Arrangements(S)] : Folds(n, base, step, f)
    BY <1>1, <2>2, FoldExists
  <2>4. ASSUME NEW s \in SUBSET (1 .. n), s # {}
        PROVE  step[<<Max(s), f[s \ {Max(s)}]>>] = Prove(f[s \ {Max(s)}], places[Max(s)])
    <3>1. Max(s) \in 1 .. n
      BY <1>1, <2>4, MaxOf
    <3>2. f[s \ {Max(s)}] \in Arrangements(S)
      OBVIOUS
    <3> QED BY <2>1, <3>1, <3>2
  <2>5. f = [s \in SUBSET (1 .. n) |->
               IF s = {} THEN base ELSE Prove(f[s \ {Max(s)}], places[Max(s)])]
    BY <2>3, <2>4 DEF Folds
  <2> QED BY <1>1, <2>5
<1>3. Is(iter)
  <2> HIDE DEF Is
  <2> QED BY <1>2, Zenon
<1>4. ProveAll(base)
        = iter[DOMAIN places]
  BY DEF ProveAll, PlacesOf, FoldLeftDomain, FoldLeft, MapThenFoldSet
<1> HIDE DEF iter
<1> DEFINE stage == [i \in 0 .. n |-> iter[1 .. i]]
<1>5. stage[0] = base
  <2>1. 1 .. 0 = {} /\ {} \in SUBSET DOMAIN places /\ 0 \in 0 .. n
    BY <1>1
  <2> QED BY <1>3, <2>1
<1>6. ASSUME NEW i \in 1 .. n PROVE stage[i] = Prove(stage[i - 1], places[i])
  <2>1. /\ 1 .. i \in SUBSET DOMAIN places /\ 1 .. i # {}
        /\ Max(1 .. i) = i /\ (1 .. i) \ {i} = 1 .. i - 1
    BY <1>1, Rounds
  <2>2. iter[1 .. i] = Prove(iter[1 .. i - 1], places[i])
    BY <1>3, <2>1
  <2>3. i \in 0 .. n /\ i - 1 \in 0 .. n
    BY <1>1
  <2> QED BY <2>2, <2>3
<1>7. stage[n] = iter[DOMAIN places]
  BY <1>1
<1> HIDE DEF stage
<1> QED BY <1>4, <1>5, <1>6, <1>7


-----------------------------------------------------------------------------
(* What each of the loops leaves in the end.                               *)

(* Each transport follows the consensus events that are not dated later.   *)
LEMMA MixedKeeps ==
  ASSUME Trade, NEW events \in Seq(Ids), IsInjective(events),
         NEW C, C = ConsensusIn(Range(events)), NEW base \in Arrangements(C),
         NEW r, r = MixAll(base, events)
  PROVE  /\ r \in Arrangements(Range(events))
         /\ \A a, b \in C : Precedes(r, a, b) <=> Precedes(base, a, b)
         /\ \A a \in C, e \in Range(events) \ C :
              signed[a].date <= signed[e].date => Precedes(r, a, e)
<1> DEFINE n == Len(events)
           T(i) == C \cup {events[j] : j \in 1 .. i}
           Dated(i, u) == \A j \in 1 .. i, a \in C :
                            events[j] \notin C /\ signed[a].date <= signed[events[j]].date =>
                              Precedes(u, a, events[j])
           Kept(u) == \A a, b \in C : Precedes(u, a, b) <=> Precedes(base, a, b)
           A == [i \in 0 .. n |-> {u \in Arrangements(T(i)) : Kept(u) /\ Dated(i, u)}]
<1>1. /\ n \in Nat /\ DOMAIN events = 1 .. n /\ Range(events) = {events[j] : j \in 1 .. n}
      /\ \A i \in 1 .. n : events[i] \in Ids
      /\ \A i, j \in 1 .. n : events[i] = events[j] => i = j
  <2>1. n \in Nat /\ DOMAIN events = 1 .. n /\ \A i \in 1 .. n : events[i] \in Ids
    OBVIOUS
  <2>2. \A i, j \in 1 .. n : events[i] = events[j] => i = j
    BY <2>1 DEF IsInjective
  <2>3. Range(events) = {events[j] : j \in 1 .. n}
    BY <2>1 DEF Range
  <2> QED BY <2>1, <2>2, <2>3
<1>2. /\ C \subseteq Ids /\ C \subseteq Range(events)
      /\ \A e \in Range(events) : e \in C <=> State(e)
  BY <1>1 DEF ConsensusIn
<1> HIDE DEF n
<1>3. base \in Seq(Ids)
  BY <1>2, SeqMonotonic DEF Arrangements
<1>4. PICK stage : /\ stage[0] = base
                   /\ \A i \in 1 .. n : stage[i] = Mixed(stage[i - 1], events[i])
                   /\ stage[n] = r
  BY <1>3, MixedRounds DEF n
<1>5. stage[0] \in A[0]
  <2>1. T(0) = C
    OBVIOUS
  <2>2. base \in Arrangements(T(0))
    BY <2>1
  <2>3. Kept(base) /\ Dated(0, base)
    OBVIOUS
  <2> HIDE DEF T, Kept, Dated
  <2> QED BY <1>1, <1>4, <2>2, <2>3
<1>6. ASSUME NEW i \in 1 .. n, stage[i - 1] \in A[i - 1]
      PROVE  stage[i] \in A[i]
  <2> DEFINE u == stage[i - 1]
             e == events[i]
             S == T(i - 1)
  <2>1. i - 1 \in 0 .. n /\ i \in 0 .. n
    BY <1>1
  <2>2. u \in Arrangements(S) /\ Kept(u) /\ Dated(i - 1, u)
    <3> HIDE DEF T, Kept, Dated
    <3> QED BY <1>6, <2>1
  <2>3. stage[i] = Mixed(u, e)
    BY <1>4
  <2> HIDE DEF u
  <2>4. T(i) = S \cup {e} /\ S \in SUBSET Ids /\ C \subseteq S /\ e \in Ids
    <3>1. {events[j] : j \in 1 .. i} = {events[j] : j \in 1 .. i - 1} \cup {events[i]}
      BY <1>1
    <3> QED BY <1>1, <1>2, <3>1
  <2>5. \A j \in 1 .. i : j \in 1 .. i - 1 \/ j = i
    BY <1>1
  <2>6. e \in C <=> State(e)
    BY <1>1, <1>2
  <2>7. CASE State(e)
    <3>1. S \cup {e} = S
      BY <2>4, <2>6, <2>7
    <3>2. Dated(i, u)
      BY <2>2, <2>5, <2>6, <2>7
    <3>3. stage[i] = u /\ u \in Arrangements(T(i))
      BY <2>2, <2>3, <2>4, <2>7, <3>1 DEF Mixed
    <3> HIDE DEF T, Kept, Dated
    <3> QED BY <2>1, <2>2, <3>2, <3>3
  <2>8. CASE ~ State(e)
    <3> DEFINE v == Interleaved(u, e)
    <3>1. e \in Ids \ S
      <4>1. \A j \in 1 .. i - 1 : events[j] # events[i]
        BY <1>1
      <4> QED BY <2>4, <2>6, <2>8, <4>1
    <3> HIDE DEF S
    <3>2. /\ v \in Arrangements(S \cup {e})
          /\ \A a, b \in S : Precedes(v, a, b) <=> Precedes(u, a, b)
          /\ \A a \in S : signed[a].date <= signed[e].date => Precedes(v, a, e)
      BY <2>2, <2>4, <3>1, InterleavedKeeps
    <3>3. stage[i] = v
      BY <2>3, <2>8 DEF Mixed
    <3> HIDE DEF v
    <3>4. Kept(v)
      BY <2>2, <2>4, <3>2
    <3>5. Dated(i, v)
      <4> SUFFICES ASSUME NEW j \in 1 .. i, NEW a \in C, events[j] \notin C,
                          signed[a].date <= signed[events[j]].date
                   PROVE  Precedes(v, a, events[j])
        OBVIOUS
      <4>1. CASE j = i
        BY <2>4, <3>2, <4>1 DEF e
      <4>2. CASE j \in 1 .. i - 1
        <5>1. events[j] \in S
          BY <4>2 DEF S
        <5>2. Precedes(u, a, events[j])
          BY <2>2, <4>2
        <5> QED BY <2>4, <3>2, <5>1, <5>2
      <4> QED BY <2>5, <4>1, <4>2
    <3>6. v \in Arrangements(T(i))
      BY <2>4, <3>2
    <3> HIDE DEF T, Kept, Dated
    <3> QED BY <2>1, <3>3, <3>4, <3>5, <3>6
  <2> QED BY <2>7, <2>8
<1>7. stage[n] \in A[n]
  <2> HIDE DEF A, n
  <2> QED BY <1>1, <1>5, <1>6, Stagewise
<1>8. r \in Arrangements(T(n)) /\ Kept(r) /\ Dated(n, r)
  <2>1. n \in 0 .. n
    BY <1>1
  <2> HIDE DEF T, Kept, Dated
  <2> QED BY <1>4, <1>7, <2>1
<1>9. T(n) = Range(events)
  BY <1>1, <1>2
<1>10. \A a \in C, e \in Range(events) \ C :
         signed[a].date <= signed[e].date => Precedes(r, a, e)
  BY <1>1, <1>8
<1> QED BY <1>8, <1>9, <1>10

(* Requests move transports only, and a request that is alone gets before  *)
(* it all the settlements that are not dated later, and nothing else.      *)
LEMMA GatheredKeeps ==
  ASSUME Trade, NEW S \in SUBSET Ids, NEW base \in Arrangements(S),
         NEW r, r = GatherAll(base)
  PROVE  /\ r \in Arrangements(S)
         /\ \A a, b \in S : State(a) /\ State(b) => (Precedes(r, a, b) <=> Precedes(base, a, b))
         /\ \A x \in S : {e \in S : signed[e].kind = "STALLED"} = {x} =>
              \A e \in S :
                IF signed[e].kind = "SETTLEMENT" /\ signed[e].date <= signed[x].date
                THEN Precedes(r, e, x) ELSE Precedes(r, e, x) <=> Precedes(base, e, x)
<1> DEFINE n == Len(base)
           Kept(u) == \A a, b \in S : State(a) /\ State(b) =>
                        (Precedes(u, a, b) <=> Precedes(base, a, b))
           Past(x) == {e \in S : /\ signed[e].kind = "SETTLEMENT"
                                  /\ signed[e].date <= signed[x].date}
           Judged(i, u) ==
             \A x \in S : {e \in S : signed[e].kind = "STALLED"} = {x} =>
               /\ \A e \in S \ Past(x) : Precedes(u, e, x) <=> Precedes(base, e, x)
               /\ (\E j \in 1 .. i : base[j] = x) => \A e \in Past(x) : Precedes(u, e, x)
           A == [i \in 0 .. n |-> {u \in Arrangements(S) : Kept(u) /\ Judged(i, u)}]
<1>1. /\ n \in Nat
      /\ \A i \in 1 .. n : base[i] \in S
      /\ \A i, j \in 1 .. n : base[i] = base[j] => i = j
      /\ \A e \in S : \E j \in 1 .. n : base[j] = e
  BY Placed
<1>2. PICK stage : /\ stage[0] = base
                   /\ \A i \in 1 .. n : stage[i] = Gathered(stage[i - 1], base[i])
                   /\ stage[n] = r
  BY GatheredRounds
<1>3. stage[0] \in A[0]
  <2>1. Kept(base) /\ Judged(0, base)
    OBVIOUS
  <2> HIDE DEF Kept, Judged
  <2> QED BY <1>1, <1>2, <2>1
<1>4. ASSUME NEW i \in 1 .. n, stage[i - 1] \in A[i - 1]
      PROVE  stage[i] \in A[i]
  <2> DEFINE u == stage[i - 1]
             y == base[i]
  <2>1. i - 1 \in 0 .. n /\ i \in 0 .. n /\ y \in S
    BY <1>1
  <2>2. u \in Arrangements(S) /\ Kept(u) /\ Judged(i - 1, u)
    <3> HIDE DEF Kept, Judged
    <3> QED BY <1>4, <2>1
  <2>3. stage[i] = Gathered(u, y)
    BY <1>2
  <2> HIDE DEF u
  <2>4. \A j \in 1 .. i : j \in 1 .. i - 1 \/ j = i
    BY <1>1
  <2>5. CASE signed[y].kind # "STALLED"
    <3>1. Judged(i, u)
      BY <2>2, <2>4, <2>5
    <3> HIDE DEF Kept, Judged
    <3> QED BY <2>1, <2>2, <2>3, <2>5, <3>1 DEF Gathered
  <2>6. CASE signed[y].kind = "STALLED"
    <3> DEFINE v == Gather(u, y)
    <3>1. Prior(u, y) = Past(y)
      <4>1. Range(u) = S
        BY <2>2 DEF Arrangements
      <4> QED BY <4>1 DEF Prior
    <3>2. /\ v \in Arrangements(S)
          /\ \A a, b \in S \ Past(y) : Precedes(v, a, b) <=> Precedes(u, a, b)
          /\ \A e \in Past(y) : Precedes(v, e, y)
      BY <2>1, <2>2, <2>6, <3>1, GatherKeeps
    <3> HIDE DEF v, y
    <3>3. \A a \in Past(y) : ~ State(a)
      BY DEF State, Transports
    <3>4. Kept(v)
      BY <2>2, <3>2, <3>3
    <3>5. Judged(i, v)
      <4> SUFFICES ASSUME NEW x \in S, {e \in S : signed[e].kind = "STALLED"} = {x}
                   PROVE  /\ \A e \in S \ Past(x) : Precedes(v, e, x) <=> Precedes(base, e, x)
                          /\ \A e \in Past(x) : Precedes(v, e, x)
        OBVIOUS
      <4>1. x = y
        BY <2>1, <2>6
      <4>2. \A e \in S \ Past(x) : Precedes(u, e, x) <=> Precedes(base, e, x)
        BY <2>2
      <4>3. x \in S \ Past(x)
        BY <2>6, <4>1
      <4> HIDE DEF Past
      <4> QED BY <3>2, <4>1, <4>2, <4>3
    <3>6. stage[i] = v
      BY <2>3, <2>6 DEF Gathered, v
    <3> HIDE DEF Kept, Judged
    <3> QED BY <2>1, <3>2, <3>4, <3>5, <3>6
  <2> QED BY <2>5, <2>6
<1>5. stage[n] \in A[n]
  <2> HIDE DEF A, n
  <2> QED BY <1>1, <1>3, <1>4, Stagewise
<1>6. r \in Arrangements(S) /\ Kept(r) /\ Judged(n, r)
  <2>1. n \in 0 .. n
    BY <1>1
  <2> HIDE DEF Kept, Judged
  <2> QED BY <1>2, <1>5, <2>1
<1>7. ASSUME NEW x \in S, {e \in S : signed[e].kind = "STALLED"} = {x}, NEW e \in S
      PROVE  IF signed[e].kind = "SETTLEMENT" /\ signed[e].date <= signed[x].date
             THEN Precedes(r, e, x) ELSE Precedes(r, e, x) <=> Precedes(base, e, x)
  <2>1. \E j \in 1 .. n : base[j] = x
    BY <1>1
  <2>2. /\ \A d \in S \ Past(x) : Precedes(r, d, x) <=> Precedes(base, d, x)
        /\ \A d \in Past(x) : Precedes(r, d, x)
    BY <1>6, <1>7, <2>1
  <2> QED BY <2>2
<1> QED BY <1>6, <1>7

(* Proofs are moved, and nothing else.                                     *)
LEMMA ProvedKeeps ==
  ASSUME Trade, NEW S \in SUBSET Ids, NEW base \in Arrangements(S),
         NEW r, r = ProveAll(base)
  PROVE  /\ r \in Arrangements(S)
         /\ \A a, b \in S \ Named(S) : Precedes(r, a, b) <=> Precedes(base, a, b)
<1> DEFINE n == Len(base)
           places == PlacesOf(base)
           Kept(u) == \A a, b \in S \ Named(S) : Precedes(u, a, b) <=> Precedes(base, a, b)
           A == [i \in 0 .. n |-> {u \in Arrangements(S) : Kept(u)}]
<1>1. n \in Nat /\ DOMAIN base = 1 .. n /\ \A i \in 1 .. n : places[i] = i
  BY Placed DEF PlacesOf
<1>2. \A u \in Arrangements(S) : Len(u) = n
  <2>1. IsFiniteSet(S)
    BY Numbers, FS_Subset
  <2> QED BY <2>1, SameLength
<1>3. PICK stage : /\ stage[0] = base
                   /\ \A i \in 1 .. n : stage[i] = Prove(stage[i - 1], places[i])
                   /\ stage[n] = r
  <2> HIDE DEF n
  <2> QED BY ProveRounds DEF n
<1> HIDE DEF places
<1>4. stage[0] \in A[0]
  <2>1. Kept(base)
    OBVIOUS
  <2> HIDE DEF Kept
  <2> QED BY <1>1, <1>3, <2>1
<1>5. ASSUME NEW i \in 1 .. n, stage[i - 1] \in A[i - 1]
      PROVE  stage[i] \in A[i]
  <2> DEFINE u == stage[i - 1]
  <2>1. i - 1 \in 0 .. n /\ i \in 0 .. n
    BY <1>1
  <2>2. u \in Arrangements(S) /\ Kept(u)
    <3> HIDE DEF Kept
    <3> QED BY <1>5, <2>1
  <2>3. stage[i] = Prove(u, i)
    BY <1>1, <1>3
  <2> HIDE DEF u
  <2>4. i \in 1 .. Len(u)
    BY <1>2, <2>2
  <2>5. /\ Prove(u, i) \in Arrangements(S)
        /\ \A a, b \in S \ Named(S) : Precedes(Prove(u, i), a, b) <=> Precedes(u, a, b)
    BY <2>2, <2>4, ProveKeeps
  <2>6. Kept(Prove(u, i))
    BY <2>2, <2>5
  <2> HIDE DEF Kept
  <2> QED BY <2>1, <2>3, <2>5, <2>6
<1>6. stage[n] \in A[n]
  <2> HIDE DEF A, n
  <2> QED BY <1>1, <1>4, <1>5, Stagewise
<1>7. r \in Arrangements(S) /\ Kept(r)
  <2>1. n \in 0 .. n
    BY <1>1
  <2> HIDE DEF Kept
  <2> QED BY <1>3, <1>6, <2>1
<1> QED BY <1>7

-----------------------------------------------------------------------------
(* What sortEventChain returns.                                            *)

\* Each consensus event follows, of those that do not precede it.
Causal(t, C) == \A e \in C : Follows(e, {f \in C : ~ Precedes(t, f, e)})

\* A request that is alone is preceded by what it is judged by.
Judges(t, S) ==
  \A x \in S, e \in S :
    /\ {f \in S : signed[f].kind = "STALLED"} = {x}
    /\ signed[e].kind = "SETTLEMENT" /\ e \notin Named(S)
    => (Precedes(t, e, x) <=> signed[e].date <= signed[x].date)

(* The chain holds what was received, in causal order, and judges by date. *)
LEMMA SortKeeps ==
  ASSUME Trade, NEW events \in Seq(Ids), IsInjective(events)
  PROVE  /\ SortEventChain(events) \in Arrangements(Range(events))
         /\ Causal(SortEventChain(events), ConsensusIn(Range(events)))
         /\ Judges(SortEventChain(events), Range(events))
<1> DEFINE S == Range(events)
           C == ConsensusIn(S)
           sorted == Sorted(C)
           mixed == MixAll(sorted, events)
           gathered == GatherAll(mixed)
           t == ProveAll(gathered)
<1>1. SortEventChain(events) = t
  BY DEF SortEventChain, ConsensusIn, MixAll, GatherAll, ProveAll
<1>2. S \in SUBSET Ids /\ C \in SUBSET Ids /\ C \subseteq S
  BY DEF Range, ConsensusIn
<1>3. /\ sorted \in Arrangements(C)
      /\ \A e \in C : Follows(e, {f \in C : ~ Precedes(sorted, f, e)})
  <2> HIDE DEF C
  <2> QED BY <1>2, SortedFollows
<1> HIDE DEF sorted
<1>4. /\ mixed \in Arrangements(S)
      /\ \A a, b \in C : Precedes(mixed, a, b) <=> Precedes(sorted, a, b)
      /\ \A a \in C, e \in S \ C : signed[a].date <= signed[e].date => Precedes(mixed, a, e)
  <2> DEFINE D == C
             m == mixed
  <2>1. D = ConsensusIn(S) /\ sorted \in Arrangements(D)
    BY <1>3
  <2>2. m = MixAll(sorted, events)
    OBVIOUS
  <2> HIDE DEF m, D
  <2>3. /\ m \in Arrangements(S)
        /\ \A a, b \in D : Precedes(m, a, b) <=> Precedes(sorted, a, b)
        /\ \A a \in D, e \in S \ D : signed[a].date <= signed[e].date => Precedes(m, a, e)
    BY <2>1, <2>2, MixedKeeps
  <2> QED BY <2>3 DEF m, D
<1> HIDE DEF mixed
<1>5. /\ gathered \in Arrangements(S)
      /\ \A a, b \in S : State(a) /\ State(b) =>
           (Precedes(gathered, a, b) <=> Precedes(mixed, a, b))
      /\ \A x \in S : {e \in S : signed[e].kind = "STALLED"} = {x} =>
           \A e \in S :
             IF signed[e].kind = "SETTLEMENT" /\ signed[e].date <= signed[x].date
             THEN Precedes(gathered, e, x)
             ELSE Precedes(gathered, e, x) <=> Precedes(mixed, e, x)
  <2> DEFINE g == gathered
  <2>1. g = GatherAll(mixed)
    OBVIOUS
  <2> HIDE DEF g, S
  <2>2. /\ g \in Arrangements(S)
        /\ \A a, b \in S : State(a) /\ State(b) => (Precedes(g, a, b) <=> Precedes(mixed, a, b))
        /\ \A x \in S : {e \in S : signed[e].kind = "STALLED"} = {x} =>
             \A e \in S :
               IF signed[e].kind = "SETTLEMENT" /\ signed[e].date <= signed[x].date
               THEN Precedes(g, e, x) ELSE Precedes(g, e, x) <=> Precedes(mixed, e, x)
    BY <1>2, <1>4, <2>1, GatheredKeeps
  <2> QED BY <2>2 DEF g
<1> HIDE DEF gathered
<1>6. /\ t \in Arrangements(S)
      /\ \A a, b \in S \ Named(S) : Precedes(t, a, b) <=> Precedes(gathered, a, b)
  <2> DEFINE r == t
  <2>1. r = ProveAll(gathered)
    OBVIOUS
  <2> HIDE DEF r, S
  <2>2. /\ r \in Arrangements(S)
        /\ \A a, b \in S \ Named(S) : Precedes(r, a, b) <=> Precedes(gathered, a, b)
    BY <1>2, <1>5, <2>1, ProvedKeeps
  <2> QED BY <2>2 DEF r
<1> HIDE DEF t
<1> HIDE DEF S
<1>7. ASSUME NEW e \in Named(S) PROVE signed[e].kind = "SETTLEMENT"
  <2>1. PICK c \in S : signed[c].proof = e /\ e \in S
    BY DEF Named
  <2>2. c \in Ids /\ signed[c].proof # NoEvent
    BY <1>2, <2>1, Numbers
  <2> QED BY <2>1, <2>2 DEF Trade
<1>8. /\ \A e \in C : e \in S \ Named(S) /\ State(e)
      /\ \A e \in S : e \in C <=> State(e)
  <2>1. \A e \in C : State(e)
    BY DEF ConsensusIn
  <2>2. \A e \in Named(S) : ~ State(e)
    BY <1>7 DEF State, Transports
  <2> QED BY <1>2, <2>1, <2>2 DEF ConsensusIn
<1>9. Causal(t, C)
  <2>1. \A a, b \in C : Precedes(t, a, b) <=> Precedes(sorted, a, b)
    <3> HIDE DEF C
    <3> QED BY <1>2, <1>4, <1>5, <1>6, <1>8
  <2> HIDE DEF C
  <2> SUFFICES ASSUME NEW e \in C PROVE Follows(e, {f \in C : ~ Precedes(t, f, e)})
    BY DEF Causal
  <2>2. {f \in C : ~ Precedes(t, f, e)} = {f \in C : ~ Precedes(sorted, f, e)}
    BY <2>1
  <2> QED BY <1>3, <2>2
<1>10. Judges(t, S)
  <2> SUFFICES ASSUME NEW x \in S, NEW e \in S,
                      {f \in S : signed[f].kind = "STALLED"} = {x},
                      signed[e].kind = "SETTLEMENT", e \notin Named(S)
               PROVE  Precedes(t, e, x) <=> signed[e].date <= signed[x].date
    BY DEF Judges
  <2>1. signed[x].kind = "STALLED"
    OBVIOUS
  <2>2. x \in C /\ e \notin C
    BY <1>8, <2>1 DEF State, Transports
  <2>3. Precedes(t, e, x) <=> Precedes(gathered, e, x)
    BY <1>6, <1>8, <2>2
  <2>4. signed[e].date \in Nat /\ signed[x].date \in Nat
    BY <1>2, Numbers
  <2>5. CASE signed[e].date <= signed[x].date
    BY <1>5, <2>3, <2>5
  <2>6. CASE ~ (signed[e].date <= signed[x].date)
    <3>1. Precedes(mixed, x, e)
      BY <1>4, <2>2, <2>4, <2>6
    <3>2. Place(mixed, e) \in Nat /\ Place(mixed, x) \in Nat
      BY <1>4, Placed
    <3>3. ~ Precedes(mixed, e, x)
      BY <3>1, <3>2 DEF Precedes
    <3> QED BY <1>5, <2>3, <2>6, <3>3
  <2> QED BY <2>5, <2>6
<1> QED BY <1>1, <1>6, <1>9, <1>10 DEF S

-----------------------------------------------------------------------------
(* The inductive invariant.                                                *)

OInv ==
  /\ Trade
  /\ got \in Seq(Ids) /\ IsInjective(got)
  /\ chain \in Arrangements(Have)
  /\ Causal(chain, Consensus)
  /\ Judges(chain, Have)

(* A trade of which nothing was received yet.                              *)
LEMMA OInvInit == Init => OInv
<1> SUFFICES ASSUME Init PROVE OInv
  OBVIOUS
<1>1. PICK cast \in Casts :
        \E prev \in Links(cast), proof \in Proofs(cast), date \in [DOMAIN cast -> Dates] :
          signed = [e \in DOMAIN cast |-> [kind |-> cast[e], date |-> date[e],
                                           prev |-> prev[e], proof |-> proof[e]]]
  BY DEF Init
<1>2. PICK prev \in Links(cast), proof \in Proofs(cast), date \in [DOMAIN cast -> Dates] :
        signed = [e \in DOMAIN cast |-> [kind |-> cast[e], date |-> date[e],
                                         prev |-> prev[e], proof |-> proof[e]]]
  BY <1>1
<1>3. /\ Len(cast) \in Nat /\ DOMAIN cast = 1 .. Len(cast)
      /\ \A e \in DOMAIN cast : cast[e] \in Kinds /\ date[e] \in Nat
  <2>1. cast \in Seq(Kinds) /\ Dates \subseteq Nat
    BY OrderAssumption
  <2>2. Len(cast) \in Nat /\ DOMAIN cast = 1 .. Len(cast)
    BY <2>1, LenProperties
  <2>3. \A e \in 1 .. Len(cast) : cast[e] \in Kinds
    BY <2>1, ElementOfSeq
  <2>4. \A e \in DOMAIN cast : date[e] \in Nat
    BY <2>1
  <2> QED BY <2>2, <2>3, <2>4
<1>4. /\ Ids = DOMAIN cast
      /\ \A e \in Ids : /\ signed[e].kind = cast[e] /\ signed[e].date = date[e]
                        /\ signed[e].prev = prev[e] /\ signed[e].proof = proof[e]
  BY <1>2 DEF Ids
<1>5. /\ \A e \in Ids : prev[e] \in Indices(cast) /\ proof[e] \in Indices(cast)
      /\ \A e \in Ids : prev[e] # NoEvent =>
           cast[e] \notin Transports \cup {"CREATE"} /\ cast[prev[e]] \notin Transports
      /\ \A e \in Ids : proof[e] # NoEvent =>
           cast[e] = "COMPLETE" /\ cast[proof[e]] = "SETTLEMENT"
  BY <1>4 DEF Links, Proofs
<1>6. PICK age \in [DOMAIN cast -> DOMAIN cast] :
        \A e \in DOMAIN cast : prev[e] # NoEvent => age[prev[e]] < age[e]
  BY <1>2 DEF Links
<1>7. Trade
  <2>1. \E n \in Nat : Ids = 1 .. n
    BY <1>3, <1>4
  <2>2. ASSUME NEW e \in Ids
        PROVE  /\ signed[e].kind \in Kinds /\ signed[e].date \in Nat
               /\ signed[e].prev # NoEvent =>
                    /\ signed[e].kind # "CREATE" /\ State(e)
                    /\ signed[e].prev \in Ids /\ State(signed[e].prev)
               /\ signed[e].proof # NoEvent =>
                    /\ signed[e].kind = "COMPLETE"
                    /\ signed[e].proof \in Ids /\ signed[signed[e].proof].kind = "SETTLEMENT"
    BY <1>3, <1>4, <1>5 DEF Indices, State
  <2>3. age \in [Ids -> Nat] /\ \A e \in Ids : signed[e].prev # NoEvent =>
                                  age[signed[e].prev] < age[e]
    BY <1>3, <1>4, <1>6
  <2> QED BY <2>1, <2>2, <2>3 DEF Trade
<1>8. got = <<>> /\ chain = <<>> /\ Have = {}
  BY DEF Init, Have, Range
<1>9. got \in Seq(Ids) /\ IsInjective(got)
  BY <1>8 DEF IsInjective
<1>10. chain \in Arrangements(Have)
  BY <1>8 DEF Arrangements, IsInjective, Range
<1>11. Causal(chain, Consensus) /\ Judges(chain, Have)
  BY <1>8 DEF Causal, Consensus, Judges
<1> QED BY <1>7, <1>9, <1>10, <1>11 DEF OInv

\* What every step does, delivery or none.
LEMMA Arrival ==
  ASSUME OInv, Next
  PROVE  /\ signed' = signed
         /\ \E e \in Ids : e \notin Have /\ got' = Append(got, e) /\ Have' = Have \cup {e}
         /\ got' \in Seq(Ids) /\ IsInjective(got')
         /\ chain' = SortEventChain(got')
<1>1. PICK e \in Ids : Receive(e)
  BY DEF Next
<1>2. got \in Seq(Ids) /\ IsInjective(got) /\ got' = Append(got, e) /\ e \notin Range(got)
  BY <1>1 DEF OInv, Receive, Have
<1>3. /\ got' \in Seq(Ids) /\ Len(got') = Len(got) + 1 /\ Len(got) \in Nat
      /\ \A i \in 1 .. Len(got) : got'[i] = got[i]
      /\ got'[Len(got) + 1] = e
  BY <1>2
<1>4. \A i \in 1 .. Len(got) : got[i] # e
  BY <1>2 DEF Range
<1>5. Range(got') = Range(got) \cup {e}
  <2>1. DOMAIN got = 1 .. Len(got) /\ DOMAIN got' = 1 .. Len(got) + 1
    BY <1>2, <1>3
  <2>2. ASSUME NEW x PROVE x \in Range(got') <=> x \in Range(got) \cup {e}
    BY <1>3, <2>1 DEF Range
  <2> QED BY <2>2
<1>6. IsInjective(got')
  <2>1. DOMAIN got = 1 .. Len(got) /\ DOMAIN got' = 1 .. Len(got) + 1
    BY <1>2, <1>3
  <2>2. \A i, j \in 1 .. Len(got) : got[i] = got[j] => i = j
    BY <1>2, <2>1 DEF IsInjective
  <2>3. \A i, j \in 1 .. Len(got) + 1 : got'[i] = got'[j] => i = j
    BY <1>3, <1>4, <2>2
  <2> QED BY <2>1, <2>3 DEF IsInjective
<1> QED BY <1>1, <1>2, <1>3, <1>5, <1>6 DEF Receive, Have

(* Every event that arrives leaves a chain that is sorted like this.       *)
LEMMA OInvNext == OInv /\ [Next]_vars => OInv'
<1> SUFFICES ASSUME OInv, [Next]_vars PROVE OInv'
  OBVIOUS
<1>1. CASE Next
  <2>1. /\ signed' = signed /\ got' \in Seq(Ids) /\ IsInjective(got')
        /\ chain' = SortEventChain(got')
    BY <1>1, Arrival
  <2>2. Trade
    BY DEF OInv
  <2>3. /\ chain' \in Arrangements(Range(got'))
        /\ Causal(chain', ConsensusIn(Range(got')))
        /\ Judges(chain', Range(got'))
    BY <2>1, <2>2, SortKeeps
  <2>4. Trade'
    BY <2>1, <2>2 DEF Trade, Ids, State
  <2>5. (got \in Seq(Ids) /\ IsInjective(got))'
    BY <2>1 DEF Ids
  <2>6. (chain \in Arrangements(Have))'
    BY <2>3 DEF Have
  <2>7. Causal(chain, Consensus)'
    BY <2>1, <2>3 DEF Causal, Consensus, ConsensusIn, Have, State, Follows, Ready, Earlier
  <2>8. Judges(chain, Have)'
    BY <2>1, <2>3 DEF Judges, Have, Named
  <2> QED BY <2>4, <2>5, <2>6, <2>7, <2>8 DEF OInv
<1>2. CASE UNCHANGED vars
  <2>1. signed' = signed /\ got' = got /\ chain' = chain /\ Have' = Have
    BY <1>2 DEF vars, Have
  <2>2. Trade'
    BY <2>1 DEF OInv, Trade, Ids, State
  <2>3. (got \in Seq(Ids) /\ IsInjective(got) /\ chain \in Arrangements(Have))'
    BY <2>1 DEF OInv, Ids
  <2>4. Causal(chain, Consensus)'
    BY <2>1 DEF OInv, Causal, Consensus, State, Follows, Ready, Earlier
  <2>5. Judges(chain, Have)'
    BY <2>1 DEF OInv, Judges, Named
  <2> QED BY <2>2, <2>3, <2>4, <2>5 DEF OInv
<1> QED BY <1>1, <1>2 DEF vars

(* Whatever arrives, and in whatever order: the chain holds each event     *)
(* received once, in causal order.                                         *)
THEOREM OInvHolds == Spec => []OInv
BY OInvInit, OInvNext, PTL DEF Spec

-----------------------------------------------------------------------------
(* What an event rests on.                                                 *)

\* Line, of an event of C, among what is held.
LineIn(C, held, e) ==
  LET whole == {S \in SUBSET C :
                  e \in S /\ \A x \in S : signed[x].prev \in held => signed[x].prev \in S}
  IN {f \in C : \A S \in whole : f \in S}

(* A line holds its event and, with each, its predecessor, and no more.    *)
LEMMA LineIs ==
  ASSUME Trade, NEW held \in SUBSET Ids, NEW C, C = ConsensusIn(held), NEW e \in C
  PROVE  /\ LineIn(C, held, e) \in SUBSET C /\ e \in LineIn(C, held, e)
         /\ \A x \in LineIn(C, held, e) :
              signed[x].prev \in held => signed[x].prev \in LineIn(C, held, e)
         /\ \A S \in SUBSET C :
              e \in S /\ (\A x \in S : signed[x].prev \in held => signed[x].prev \in S) =>
                LineIn(C, held, e) \subseteq S
<1>1. \A x \in C : signed[x].prev \in held => signed[x].prev \in C
  BY Numbers DEF Trade, ConsensusIn
<1> QED BY <1>1 DEF LineIn

(* Nothing is replayed before an event that it rests on.                   *)
LEMMA LineBefore ==
  ASSUME Trade, NEW held \in SUBSET Ids, NEW C, C = ConsensusIn(held),
         NEW t \in Arrangements(held), Causal(t, C),
         NEW e \in C, NEW f \in LineIn(C, held, e)
  PROVE  ~ Precedes(t, e, f)
<1> DEFINE S == {g \in C : ~ Precedes(t, e, g)}
<1>1. \A g \in C : Place(t, g) \in Nat
  BY Placed DEF ConsensusIn
<1>2. e \in S
  BY <1>1 DEF Precedes
<1>3. ASSUME NEW x \in S, signed[x].prev \in held PROVE signed[x].prev \in S
  <2> DEFINE p == signed[x].prev
             left == {g \in C : ~ Precedes(t, g, x)}
  <2>1. p \in C
    BY <1>3, Numbers DEF Trade, ConsensusIn
  <2>2. Follows(x, left)
    BY DEF Causal
  <2>3. p \notin left
    <3> HIDE DEF left
    <3> QED BY <2>2 DEF Follows, Ready
  <2>4. Precedes(t, p, x)
    BY <2>1, <2>3
  <2> HIDE DEF p, left
  <2>5. ~ Precedes(t, e, p)
    BY <1>1, <2>1, <2>4 DEF Precedes
  <2> QED BY <2>1, <2>5 DEF p
<1>4. LineIn(C, held, e) \subseteq S
  <2>1. S \in SUBSET C
    OBVIOUS
  <2> HIDE DEF S
  <2> QED BY <1>2, <1>3, <2>1, LineIs
<1> QED BY <1>4

(* Of what an event that is left rests on, itself included, one could      *)
(* follow.                                                                 *)
LEMMA LineReady ==
  ASSUME Trade, NEW held \in SUBSET Ids, NEW C, C = ConsensusIn(held),
         NEW left \in SUBSET C, NEW f \in left
  PROVE  \E r \in LineIn(C, held, f) : r \in Ready(left)
<1> DEFINE L == LineIn(C, held, f)
           T == left \cap L
<1>1. L \in SUBSET C /\ f \in L /\ \A x \in L : signed[x].prev \in held => signed[x].prev \in L
  BY LineIs
<1> HIDE DEF L
<1>2. T \in SUBSET Ids /\ T # {}
  BY <1>1 DEF ConsensusIn
<1>3. PICK r \in T : signed[r].prev \notin T
  <2> HIDE DEF T
  <2> QED BY <1>2, SomeRoot
<1>4. signed[r].prev \notin left
  BY <1>1, <1>3 DEF ConsensusIn
<1> QED BY <1>3, <1>4 DEF Ready, L

-----------------------------------------------------------------------------
(* The properties.                                                         *)

(* What the invariant says of the events at hand.                          *)
LEMMA InHand ==
  ASSUME OInv
  PROVE  /\ Trade /\ Have \in SUBSET Ids /\ Consensus = ConsensusIn(Have)
         /\ chain \in Arrangements(Have) /\ Causal(chain, Consensus)
         /\ \A e \in Consensus : Line(e) = LineIn(Consensus, Have, e)
         /\ \A e, f : Before(e, f) <=> Precedes(chain, e, f)
BY DEF OInv, Have, Range, Consensus, ConsensusIn, Line, LineIn, Before, Precedes

(* No event is replayed before one it rests on, nor before an earlier one, *)
(* unless that one waits for an event that is not earlier.                 *)
LEMMA DatedUnlessCausedNow == OInv => DatedUnlessCaused
<1> SUFFICES ASSUME OInv, NEW e \in Consensus, NEW f \in Consensus, Before(e, f)
             PROVE  /\ f \notin Line(e)
                    /\ \/ signed[e].kind = "CREATE"
                       \/ \E r \in Line(f) : ~ Before(r, e) /\ signed[e].date <= signed[r].date
  BY DEF DatedUnlessCaused
<1> DEFINE left == {g \in Consensus : ~ Precedes(chain, g, e)}
<1>1. /\ Trade /\ Have \in SUBSET Ids /\ Consensus = ConsensusIn(Have)
      /\ chain \in Arrangements(Have) /\ Causal(chain, Consensus)
      /\ \A g \in Consensus : Line(g) = LineIn(Consensus, Have, g)
      /\ \A g, h : Before(g, h) <=> Precedes(chain, g, h)
  BY InHand
<1>2. f \notin Line(e)
  BY <1>1, LineBefore
<1>3. \A g \in Consensus : g \in Ids /\ Place(chain, g) \in Nat
  BY <1>1, Placed DEF ConsensusIn
<1>4. f \in left /\ left \in SUBSET Consensus
  BY <1>1, <1>3 DEF Precedes
<1>5. Follows(e, left)
  BY <1>1 DEF Causal
<1>6. PICK r \in Line(f) : r \in Ready(left)
  <2> HIDE DEF left
  <2> QED BY <1>1, <1>4, LineReady
<1>7. r \in left
  BY <1>6 DEF Ready
<1>8. signed[e].date \in Nat /\ signed[r].date \in Nat
  BY <1>1, <1>3, <1>7, Numbers
<1>9. r = e \/ signed[e].kind = "CREATE" \/ Earlier(e, r)
  BY <1>5, <1>6 DEF Follows
<1>10. signed[e].kind = "CREATE" \/ signed[e].date <= signed[r].date
  BY <1>8, <1>9 DEF Earlier
<1>11. ~ Before(r, e)
  BY <1>1, <1>7
<1> QED BY <1>2, <1>6, <1>10, <1>11

(* "Causal parents first; among available branches use signed time", in    *)
(* whatever order relays deliver.                                          *)
THEOREM CausalOrder == Spec => []DatedUnlessCaused
BY OInvHolds, DatedUnlessCausedNow, PTL

(* The invariant says so of each request.                                  *)
LEMMA RequestSeesItsPastNow == OInv => RequestSeesItsPast
<1> SUFFICES ASSUME OInv, NEW request \in Of("STALLED"), NEW e \in Of("SETTLEMENT"),
                    Of("STALLED") = {request}, \A c \in Of("COMPLETE") : signed[c].proof # e
             PROVE  Before(e, request) <=> signed[e].date <= signed[request].date
  BY DEF RequestSeesItsPast
<1>1. request \in Have /\ e \in Have /\ signed[e].kind = "SETTLEMENT"
  BY DEF Of
<1>2. {f \in Have : signed[f].kind = "STALLED"} = {request}
  BY DEF Of
<1>3. e \notin Named(Have)
  BY DEF Named, Of
<1>4. Judges(chain, Have)
  BY DEF OInv
<1> QED BY <1>1, <1>2, <1>3, <1>4 DEF Judges, Before, Precedes

(* A request that is alone is preceded by the settlements dated up to it,  *)
(* whenever they arrived, and by no other but what a COMPLETE takes along. *)
THEOREM PastInHand == Spec => []RequestSeesItsPast
BY OInvHolds, RequestSeesItsPastNow, PTL

(* A line that a client holds in full is the same when it holds more.      *)
LEMMA LineStays ==
  ASSUME Trade, NEW more \in SUBSET Ids, NEW held \in SUBSET more,
         NEW C, C = ConsensusIn(held), NEW D, D = ConsensusIn(more),
         NEW e \in C
  PROVE  /\ LineIn(C, held, e) \subseteq LineIn(D, more, e)
         /\ LineIn(D, more, e) \subseteq held => LineIn(D, more, e) \subseteq LineIn(C, held, e)
<1> DEFINE L1 == LineIn(C, held, e)
           L2 == LineIn(D, more, e)
<1>0. /\ held \in SUBSET Ids /\ e \in D /\ C \in SUBSET D /\ C \subseteq held
      /\ D \cap held = C
  BY DEF ConsensusIn
<1>1. /\ L1 \in SUBSET C /\ e \in L1
      /\ \A x \in L1 : signed[x].prev \in held => signed[x].prev \in L1
      /\ \A S \in SUBSET C :
           e \in S /\ (\A x \in S : signed[x].prev \in held => signed[x].prev \in S) =>
             L1 \subseteq S
  BY <1>0, LineIs
<1>2. /\ L2 \in SUBSET D /\ e \in L2
      /\ \A x \in L2 : signed[x].prev \in more => signed[x].prev \in L2
      /\ \A S \in SUBSET D :
           e \in S /\ (\A x \in S : signed[x].prev \in more => signed[x].prev \in S) =>
             L2 \subseteq S
  BY <1>0, LineIs
<1> HIDE DEF L1, L2
<1>3. L1 \subseteq L2
  <2> DEFINE S == L2 \cap C
  <2>1. S \in SUBSET C /\ e \in S
    BY <1>2
  <2>2. ASSUME NEW x \in S, signed[x].prev \in held PROVE signed[x].prev \in S
    <3>1. signed[x].prev \in L2
      BY <1>2, <2>2
    <3>2. signed[x].prev \in C
      BY <1>0, <1>2, <2>2, <3>1
    <3> QED BY <3>1, <3>2
  <2> HIDE DEF S
  <2>3. L1 \subseteq S
    BY <1>1, <2>1, <2>2
  <2> QED BY <2>3 DEF S
<1>4. L2 \subseteq held => L2 \subseteq L1
  <2> SUFFICES ASSUME L2 \subseteq held PROVE L2 \subseteq L1
    OBVIOUS
  <2>1. \A x \in L1 : signed[x].prev \in more => signed[x].prev \in L1
    BY <1>1, <1>2, <1>3
  <2>2. L1 \in SUBSET D
    BY <1>0, <1>1
  <2> QED BY <1>1, <1>2, <2>1, <2>2
<1> QED BY <1>3, <1>4 DEF L1, L2

(* Of two causal orders of a trade, the one of more events agrees on all   *)
(* pairs whose first event rests on nothing more there.  In a pair that    *)
(* stands the other way, an event f is taken first while another, r, could *)
(* have been; that one was taken first before, although f could have been, *)
(* unless f had to wait then for an event g which precedes it: r and g are *)
(* such a pair too, and g stands before f.                                 *)
LEMMA MoreAgrees ==
  ASSUME Trade, NEW more \in SUBSET Ids, NEW held \in SUBSET more,
         NEW C, C = ConsensusIn(held), NEW D, D = ConsensusIn(more),
         NEW t \in Arrangements(held), Causal(t, C),
         NEW u \in Arrangements(more), Causal(u, D),
         NEW a \in C, NEW b \in C, Precedes(t, a, b), LineIn(D, more, a) \subseteq held
  PROVE  Precedes(u, a, b)
<1> DEFINE L(x) == LineIn(D, more, x)
           Turned(e, f) == Precedes(t, e, f) /\ ~ Precedes(u, e, f)
           Bad == {f \in C : \E e \in C : L(e) \subseteq held /\ Turned(e, f)}
           Places == {Place(u, f) : f \in Bad}
<1> SUFFICES ASSUME Bad # {} PROVE FALSE
  OBVIOUS
<1>1. held \in SUBSET Ids /\ C \in SUBSET D /\ C \subseteq held /\ D \subseteq more
  BY DEF ConsensusIn
<1>2. /\ \A x \in held : Place(t, x) \in Nat /\ t[Place(t, x)] = x
      /\ \A x \in more : Place(u, x) \in Nat /\ u[Place(u, x)] = x
  BY Placed
<1>3. PICK f \in Bad : \A g \in Bad : Place(u, f) <= Place(u, g)
  <2>1. Places \subseteq Nat /\ Places # {}
    BY <1>1, <1>2
  <2>2. PICK p \in Places : \A q \in Places : p <= q
    <3> HIDE DEF Places
    <3> QED BY <2>1, LeastOne
  <2> HIDE DEF Bad
  <2> QED BY <2>2
<1>4. PICK e \in C : L(e) \subseteq held /\ Turned(e, f)
  BY <1>3
<1>5. f \in C
  OBVIOUS
<1>6. ASSUME NEW g \in C, NEW r \in C, L(r) \subseteq held, Turned(r, g)
      PROVE  Place(u, f) <= Place(u, g)
  <2>1. g \in Bad
    BY <1>6
  <2> QED BY <1>3, <2>1
<1> HIDE DEF Bad
<1> DEFINE left == {g \in D : ~ Precedes(u, g, f)}
<1>7. PICK r \in L(e) : r \in Ready(left)
  <2>1. e \in left /\ left \in SUBSET D
    BY <1>1, <1>4
  <2> HIDE DEF left
  <2> QED BY <2>1, LineReady
<1>8. r \in C /\ r \in LineIn(C, held, e) /\ L(r) \subseteq held
  <2>1. LineIn(D, more, e) \subseteq LineIn(C, held, e)
    BY <1>4, LineStays
  <2>2. r \in LineIn(C, held, e)
    BY <1>7, <2>1
  <2>3. r \in C
    BY <1>1, <2>2, LineIs
  <2>4. /\ L(e) \in SUBSET D
        /\ \A x \in L(e) : signed[x].prev \in more => signed[x].prev \in L(e)
    BY <1>1, LineIs
  <2>5. L(r) \subseteq L(e)
    <3> DEFINE S == L(e)
    <3>1. r \in D /\ r \in S /\ S \in SUBSET D
      BY <1>1, <1>7, <2>3, <2>4
    <3>2. \A x \in S : signed[x].prev \in more => signed[x].prev \in S
      BY <2>4
    <3> HIDE DEF S
    <3>3. LineIn(D, more, r) \subseteq S
      BY <3>1, <3>2, LineIs
    <3> QED BY <3>3 DEF S
  <2> QED BY <1>4, <2>2, <2>3, <2>5
<1>9. Precedes(t, r, f)
  <2>1. ~ Precedes(t, e, r)
    BY <1>1, <1>8, LineBefore
  <2> QED BY <1>1, <1>2, <1>4, <1>5, <1>8, <2>1 DEF Precedes
<1>10. ~ Precedes(u, r, f) /\ r # f
  <2>1. r \in left
    BY <1>7 DEF Ready
  <2> QED BY <1>1, <1>2, <1>5, <1>9, <2>1 DEF Precedes
<1>11. \/ signed[f].kind = "CREATE" /\ signed[r].kind # "CREATE"
       \/ (signed[f].kind = "CREATE" <=> signed[r].kind = "CREATE") /\ Earlier(f, r)
  <2>1. Follows(f, left)
    BY <1>1, <1>5 DEF Causal
  <2> HIDE DEF left
  <2> QED BY <1>7, <1>10, <2>1 DEF Follows
<1> HIDE DEF left
<1> DEFINE before == {g \in C : ~ Precedes(t, g, r)}
<1>12. PICK g \in LineIn(C, held, f) : g \in Ready(before)
  <2>1. f \in before /\ before \in SUBSET C
    BY <1>1, <1>2, <1>5, <1>8, <1>9 DEF Precedes
  <2> HIDE DEF before
  <2> QED BY <1>1, <2>1, LineReady
<1>13. g \in C /\ ~ Precedes(t, g, r)
  BY <1>12 DEF Ready
<1>14. Follows(r, before)
  BY <1>8 DEF Causal
<1> HIDE DEF before
<1>15. g # f
  <2> SUFFICES ASSUME g = f PROVE FALSE
    OBVIOUS
  <2>1. \/ signed[r].kind = "CREATE" /\ signed[f].kind # "CREATE"
        \/ (signed[r].kind = "CREATE" <=> signed[f].kind = "CREATE") /\ Earlier(r, f)
    BY <1>10, <1>12, <1>14 DEF Follows
  <2>2. ~ (Earlier(f, r) /\ Earlier(r, f))
    BY <1>1, <1>5, <1>8, EarlierOrders
  <2> QED BY <1>11, <2>1, <2>2
<1>16. Precedes(u, g, f)
  <2>1. g \in LineIn(D, more, f)
    BY <1>5, <1>12, LineStays
  <2>2. ~ Precedes(u, f, g)
    BY <1>1, <1>5, <2>1, LineBefore
  <2> QED BY <1>1, <1>2, <1>5, <1>13, <1>15, <2>2 DEF Precedes
<1>17. Turned(r, g)
  <2>1. g # r
    BY <1>10, <1>16
  <2>2. Precedes(t, r, g)
    BY <1>1, <1>2, <1>8, <1>13, <2>1 DEF Precedes
  <2>3. ~ Precedes(u, r, g)
    BY <1>1, <1>2, <1>5, <1>8, <1>10, <1>13, <1>16 DEF Precedes
  <2> QED BY <2>2, <2>3
<1>18. Place(u, f) <= Place(u, g)
  BY <1>6, <1>8, <1>13, <1>17
<1> QED BY <1>1, <1>2, <1>5, <1>13, <1>16, <1>18 DEF Precedes

(* The step of the theorem below.                                          *)
LEMMA ArrivalDelays ==
  OInv /\ [Next]_vars =>
    [\A e, f \in Consensus :
       Before(e, f) /\ (Line(e))' \subseteq Have => Before(e, f)']_vars
<1> SUFFICES ASSUME OInv, Next,
                    NEW e \in Consensus, NEW f \in Consensus,
                    Before(e, f), (Line(e))' \subseteq Have
             PROVE  Before(e, f)'
  BY DEF vars
<1>1. /\ signed' = signed /\ got' \in Seq(Ids) /\ IsInjective(got')
      /\ chain' = SortEventChain(got') /\ Have \subseteq Have'
  BY Arrival
<1>2. /\ Trade /\ Have \in SUBSET Ids /\ Consensus = ConsensusIn(Have)
      /\ chain \in Arrangements(Have) /\ Causal(chain, Consensus)
      /\ Precedes(chain, e, f)
  BY InHand
<1> DEFINE more == Range(got')
           D == ConsensusIn(more)
           u == SortEventChain(got')
<1>3. more \in SUBSET Ids /\ Have \in SUBSET more
  BY <1>1 DEF Have, Range
<1>4. u \in Arrangements(more) /\ Causal(u, D)
  BY <1>1, <1>2, SortKeeps
<1>5. LineIn(D, more, e) = (Line(e))'
  BY <1>1 DEF LineIn, Line, Consensus, ConsensusIn, Have, State
<1> HIDE DEF more, u
<1>6. Precedes(u, e, f)
  <2> DEFINE C == Consensus
             held == Have
             t == chain
  <2>1. /\ e \in C /\ f \in C /\ C = ConsensusIn(held) /\ held \in SUBSET more
        /\ t \in Arrangements(held) /\ Causal(t, C) /\ Precedes(t, e, f)
        /\ LineIn(D, more, e) \subseteq held
    BY <1>2, <1>3, <1>5
  <2> HIDE DEF C, held, t
  <2> QED BY <1>2, <1>3, <1>4, <2>1, MoreAgrees
<1> QED BY <1>1, <1>6 DEF Before, Precedes, u

(* An event that arrives late moves nothing but what rests on it, and that *)
(* only to a later place.                                                  *)
THEOREM LateOnlyDelays == Spec => ArrivalOnlyDelays
<1>1. OInv /\ [Next]_vars =>
        [\A e, f \in Consensus :
           Before(e, f) /\ (Line(e))' \subseteq Have => Before(e, f)']_vars
  BY ArrivalDelays
<1> QED BY <1>1, OInvHolds, PTL DEF ArrivalOnlyDelays, Spec

(* Clients that hold the same events of a trade replay its consensus       *)
(* events in the same order, in whatever order relays delivered them.      *)
THEOREM SameEventsSameOrder ==
  ASSUME Trade, NEW one \in Seq(Ids), IsInjective(one), NEW other \in Seq(Ids),
         IsInjective(other), Range(one) = Range(other),
         NEW e \in ConsensusIn(Range(one)), NEW f \in ConsensusIn(Range(one))
  PROVE  Precedes(SortEventChain(one), e, f) <=> Precedes(SortEventChain(other), e, f)
<1> DEFINE held == Range(one)
           C == ConsensusIn(held)
           t == SortEventChain(one)
           u == SortEventChain(other)
<1>1. /\ held \in SUBSET Ids /\ held \in SUBSET held /\ C = ConsensusIn(held)
      /\ e \in C /\ f \in C
  BY DEF Range
<1>2. t \in Arrangements(held) /\ Causal(t, C)
  BY SortKeeps
<1>3. u \in Arrangements(held) /\ Causal(u, C)
  BY SortKeeps
<1> HIDE DEF held, C, t, u
<1>4. \A a \in C : LineIn(C, held, a) \subseteq held
  BY <1>1 DEF LineIn, ConsensusIn
<1>5. Precedes(t, e, f) => Precedes(u, e, f)
  BY <1>1, <1>2, <1>3, <1>4, MoreAgrees
<1>6. Precedes(u, e, f) => Precedes(t, e, f)
  BY <1>1, <1>2, <1>3, <1>4, MoreAgrees
<1> QED BY <1>5, <1>6 DEF t, u

=============================================================================
