------------------------- MODULE VolumeGroupProofs -------------------------
(***************************************************************************)
(* Proofs about GroupScheduler and VolumeGroup, for every set of nodes,    *)
(* every size of their pools and every order the scheduler may try them.   *)
(*                                                                         *)
(* First the scheduler: its loops are functions of the number of rounds,   *)
(* so what they leave is found by induction over the rounds, and that is   *)
(* by a smallest round that fails (Induction).  The result keeps the       *)
(* entries apart, within the maximal count and within one alignment unit   *)
(* of the requested size, and moves no entry that has a place.             *)
(*                                                                         *)
(* Then the pair of group and data control: a data control is handed to    *)
(* the host's agent only when every member knows its host, a ready one has *)
(* its logical volume over all the members, and while the agent has it no  *)
(* member is taken away.  The argument is about who may still write what:  *)
(* a group that is ready is written by nobody but its deletion, its        *)
(* deletion looks the data control up in the cache before each delete, and *)
(* a data control gets its target only when the cache has both.  The one   *)
(* deletion that can miss a data control is one whose cache lagged when it *)
(* looked; the theorems leave out that deletion and nothing else.  What    *)
(* the scheduler returns matters only to the last part, that the members   *)
(* of a group stay apart.                                                  *)
(***************************************************************************)
EXTENDS VolumeGroup, FiniteSetTheorems, TLAPS

IsSeq(v) == v \in Seq({v[i] : i \in DOMAIN v})

(* Entries whose sizes are numbers; and entries that are on nodes of S, no two
   scheduled ones on the same. *)
Sized(v) == IsSeq(v) /\ \A i \in DOMAIN v : v[i].size \in Int
Apart(v, S) ==
  /\ Sized(v)
  /\ \A i \in DOMAIN v : v[i].node \in S \cup {NoNode}
  /\ \A i, j \in ScheduledAt(v) : i # j => v[i].node # v[j].node

LEMMA Induction ==
  ASSUME NEW N \in Nat, NEW T, 0 \in T, \A i \in 1..N : i - 1 \in T => i \in T
  PROVE  \A i \in 0..N : i \in T
<1> DEFINE B == {i \in 0..N : i \notin T}
<1> SUFFICES ASSUME B # {} PROVE FALSE
  OBVIOUS
<1>1. B \subseteq Nat
  BY SMT
<1>2. PICK k \in B : \A j \in B : ~(<<j, k>> \in OpToRel(<, Nat))
  BY ONLY <1>1, B # {}, WFMin, NatLessThanWellFounded, Zenon
<1>3. k \in 1..N /\ k - 1 \in 0..N
  BY ONLY k \in B, N \in Nat, 0 \in T, SMT
<1>4. <<k - 1, k>> \in OpToRel(<, Nat)
  BY <1>3, SMT DEF OpToRel
<1>5. k - 1 \notin B
  BY <1>2, <1>4, Zenon
<1> QED BY <1>3, <1>5

LEMMA LesserOf ==
  ASSUME NEW a \in Int, NEW b \in Int
  PROVE  (a <= b => Lesser(a, b) = a) /\ (b <= a => Lesser(a, b) = b)
BY DEF Lesser

LEMMA SmallestIn ==
  ASSUME NEW S, S \subseteq Nat, S # {}
  PROVE  Min(S) \in S
<1>1. PICK k \in S : \A j \in S : ~(<<j, k>> \in OpToRel(<, Nat))
  BY ONLY S \subseteq Nat, S # {}, WFMin, NatLessThanWellFounded, Zenon
<1>2. ASSUME NEW j \in S PROVE k <= j
  <2>1. CASE j < k
    <3>1. <<j, k>> \in OpToRel(<, Nat)
      BY <2>1, SMT DEF OpToRel
    <3> QED BY <3>1, <1>1, Zenon
  <2> QED BY <2>1, SMT
<1> QED BY <1>2, Zenon DEF Min

LEMMA SeqIsSeq ==
  ASSUME NEW R, NEW s \in Seq(R)
  PROVE  IsSeq(s)
<1> DEFINE Q == {s[i] : i \in DOMAIN s}
<1>1. Len(s) \in Nat /\ DOMAIN s = 1..Len(s)
  OBVIOUS
<1>2. s \in [1..Len(s) -> Q]
  BY <1>1
<1> HIDE DEF Q
<1>3. s \in Seq(Q)
  BY <1>1, <1>2
<1> QED BY <1>3 DEF IsSeq, Q

LEMMA SeqDomain ==
  ASSUME NEW v, IsSeq(v)
  PROVE  Len(v) \in Nat /\ DOMAIN v = 1..Len(v)
BY DEF IsSeq

LEMMA CountType ==
  ASSUME NEW v, IsSeq(v)
  PROVE  /\ IsFiniteSet(ScheduledAt(v)) /\ Count(v) \in Nat /\ Count(v) <= Len(v)
<1>1. Len(v) \in Nat /\ DOMAIN v = 1..Len(v)
  BY SeqDomain
<1>2. IsFiniteSet(1..Len(v)) /\ Cardinality(1..Len(v)) = Len(v)
  <2>1. 1 \in Int /\ Len(v) \in Int
    BY <1>1
  <2>2. /\ IsFiniteSet(1..Len(v))
        /\ Cardinality(1..Len(v)) = IF 1 > Len(v) THEN 0 ELSE Len(v) - 1 + 1
    BY <2>1, FS_Interval, Zenon
  <2> QED BY <1>1, <2>2, SMT
<1>3. ScheduledAt(v) \in SUBSET (1..Len(v))
  BY <1>1 DEF ScheduledAt
<1> QED BY <1>2, <1>3, FS_Subset, FS_CardinalityType DEF Count

-----------------------------------------------------------------------------
(* Left, as the function its loop computes. *)
Lefts(v, f, n) ==
  f = [i \in 0..n |-> IF i = 0 THEN TotalSize
                      ELSE IF Scheduled(v[i]) THEN f[i - 1] - v[i].size
                      ELSE f[i - 1]]

LEMMA LeftIs ==
  ASSUME NEW v, Len(v) \in Nat
  PROVE  \E f : Lefts(v, f, Len(v)) /\ Left(v) = f[Len(v)]
<1> DEFINE N == Len(v)
           T == {n \in 0..N : \E f : Lefts(v, f, n)}
<1>1. 0 \in T
  <2>1. Lefts(v, [i \in 0..0 |-> TotalSize], 0)
    BY DEF Lefts
  <2> QED BY <2>1
<1>2. ASSUME NEW n \in 1..N, n - 1 \in T
      PROVE  n \in T
  <2>1. PICK f : Lefts(v, f, n - 1)
    BY <1>2
  <2> DEFINE g == [i \in 0..n |-> IF i < n THEN f[i]
                                  ELSE IF Scheduled(v[n]) THEN f[n - 1] - v[n].size
                                  ELSE f[n - 1]]
  <2>2. ASSUME NEW i \in 0..n
        PROVE  g[i] = IF i = 0 THEN TotalSize
                      ELSE IF Scheduled(v[i]) THEN g[i - 1] - v[i].size ELSE g[i - 1]
    <3>1. CASE i = n
      BY <3>1
    <3>2. CASE i < n
      <4>1. i \in 0..(n - 1) /\ g[i] = f[i] /\ (i # 0 => g[i - 1] = f[i - 1])
        BY <3>2, SMT
      <4>2. f[i] = IF i = 0 THEN TotalSize
                   ELSE IF Scheduled(v[i]) THEN f[i - 1] - v[i].size ELSE f[i - 1]
        BY <4>1, <2>1, Zenon DEF Lefts
      <4> HIDE DEF g
      <4> QED BY <4>1, <4>2, Zenon
    <3> QED BY <3>1, <3>2
  <2>3. Lefts(v, g, n)
    BY <2>2, Zenon DEF Lefts
  <2> QED BY <2>3
<1> HIDE DEF T
<1>3. N \in T
  <2>1. \A i \in 0..N : i \in T
    BY ONLY N \in Nat, <1>1, <1>2, Induction, Zenon
  <2> QED BY <2>1, SMT
<1>4. \E f : Lefts(v, f, N)
  BY <1>3 DEF T
<1> DEFINE e == CHOOSE f : Lefts(v, f, N)
<1>5. Lefts(v, e, N)
  BY <1>4, Zenon
<1>6. Left(v) = e[N]
  BY Zenon DEF Left, Lefts
<1> QED BY <1>5, <1>6, Zenon

(* Its rounds one by one. *)
LEMMA LeftRound ==
  ASSUME NEW v, NEW N \in Nat, NEW f, Lefts(v, f, N)
  PROVE  /\ f[0] = TotalSize
         /\ \A i \in 1..N :
              f[i] = IF Scheduled(v[i]) THEN f[i - 1] - v[i].size ELSE f[i - 1]
<1>1. 0 \in 0..N /\ \A i \in 1..N : i \in 0..N /\ i # 0
  BY SMT
<1>2. \A i \in 0..N : f[i] = IF i = 0 THEN TotalSize
                      ELSE IF Scheduled(v[i]) THEN f[i - 1] - v[i].size ELSE f[i - 1]
  BY Zenon DEF Lefts
<1> QED BY <1>1, <1>2, Zenon

LEMMA LeftType ==
  ASSUME NEW v, Sized(v)
  PROVE  \E f : /\ Lefts(v, f, Len(v)) /\ Left(v) = f[Len(v)]
               /\ \A i \in 0..Len(v) : f[i] \in Int
<1> DEFINE N == Len(v)
<1>1. N \in Nat /\ DOMAIN v = 1..N
  BY SeqDomain, Zenon DEF Sized
<1>2. PICK f : Lefts(v, f, N) /\ Left(v) = f[N]
  BY <1>1, LeftIs, Zenon
<1>3. /\ f[0] = TotalSize
      /\ \A i \in 1..N : f[i] = IF Scheduled(v[i]) THEN f[i - 1] - v[i].size ELSE f[i - 1]
  BY <1>1, <1>2, LeftRound, Zenon
<1> DEFINE T == {i \in 0..N : f[i] \in Int}
<1>4. 0 \in T
  BY <1>1, <1>3, GroupAssumption, SMT
<1>5. ASSUME NEW i \in 1..N, i - 1 \in T
      PROVE  i \in T
  <2>1. v[i].size \in Int
    BY <1>1, Zenon DEF Sized
  <2>2. f[i] = IF Scheduled(v[i]) THEN f[i - 1] - v[i].size ELSE f[i - 1]
    BY <1>3, Zenon
  <2>3. f[i - 1] \in Int
    BY <1>5, Zenon
  <2>4. f[i] \in Int
    BY <2>1, <2>2, <2>3, SMT
  <2> QED BY <1>1, <2>4, SMT
<1> HIDE DEF T
<1>6. \A i \in 0..N : i \in T
  BY ONLY <1>1, <1>4, <1>5, Induction, Zenon
<1> QED BY <1>2, <1>6, Zenon DEF T

(* What an entry that gets a place takes from what is left. *)
LEMMA LeftEntered ==
  ASSUME NEW v, Sized(v), NEW w, Sized(w), NEW i \in 1..Len(w),
         Scheduled(w[i]), i \notin ScheduledAt(v),
         Len(w) = IF i \in 1..Len(v) THEN Len(v) ELSE Len(v) + 1,
         \A j \in 1..Len(w) : j # i => j \in 1..Len(v) /\ w[j] = v[j]
  PROVE  Left(v) \in Int /\ Left(w) = Left(v) - w[i].size
<1> DEFINE M == Len(v)
           N == Len(w)
           z == w[i].size
<1>1. M \in Nat /\ N \in Nat /\ DOMAIN v = 1..M /\ DOMAIN w = 1..N
  BY SeqDomain, Zenon DEF Sized
<1>2. z \in Int
  BY <1>1, Zenon DEF Sized
<1>3. PICK f : /\ Lefts(v, f, M) /\ Left(v) = f[M]
               /\ \A k \in 0..M : f[k] \in Int
  BY LeftType, Zenon
<1>4. PICK g : /\ Lefts(w, g, N) /\ Left(w) = g[N]
               /\ \A k \in 0..N : g[k] \in Int
  BY LeftType, Zenon
<1>5. /\ f[0] = TotalSize
      /\ \A k \in 1..M : f[k] = IF Scheduled(v[k]) THEN f[k - 1] - v[k].size ELSE f[k - 1]
  BY ONLY <1>1, <1>3, LeftRound, Zenon
<1>6. /\ g[0] = TotalSize
      /\ \A k \in 1..N : g[k] = IF Scheduled(w[k]) THEN g[k - 1] - w[k].size ELSE g[k - 1]
  BY ONLY <1>1, <1>4, LeftRound, Zenon
<1> DEFINE T == {k \in 0..N : g[k] = IF k < i THEN f[k] ELSE f[Lesser(k, M)] - z}
<1> HIDE DEF z
<1>7. N = IF i \in 1..M THEN M ELSE M + 1
  OBVIOUS
<1>8. 0 \in T
  <2>1. 0 \in 0..N /\ 0 < i
    BY <1>1, SMT
  <2> QED BY <2>1, <1>5, <1>6, Zenon
<1>9. ASSUME NEW k \in 1..N, k - 1 \in T
      PROVE  k \in T
  <2>0. k \in 0..N /\ k \in Int /\ k - 1 \in Int
    BY <1>1, SMT
  <2>1. g[k - 1] = IF k - 1 < i THEN f[k - 1] ELSE f[Lesser(k - 1, M)] - z
    BY <1>9, Zenon
  <2>2. g[k] = IF Scheduled(w[k]) THEN g[k - 1] - w[k].size ELSE g[k - 1]
    BY <1>6, Zenon
  <2>3. CASE k < i
    <3>1. k - 1 < i /\ k # i /\ k \in 1..M
      BY ONLY <2>3, <1>1, <1>7, <2>0, k \in 1..N, i \in 1..Len(w), SMT
    <3>2. w[k] = v[k] /\ g[k - 1] = f[k - 1]
      BY <2>1, <3>1, Zenon
    <3>3. g[k] = f[k]
      BY <2>2, <3>1, <3>2, <1>5, Zenon
    <3> QED BY <2>0, <2>3, <3>3, Zenon
  <2>4. CASE k = i
    <3>1. k - 1 < i /\ ~(k < i) /\ k - 1 \in 0..M
      BY ONLY <2>4, <1>1, <1>7, <2>0, k \in 1..N, i \in 1..Len(w), SMT
    <3>2. g[k] = f[k - 1] - z
      BY <2>1, <2>2, <2>4, <3>1, Zenon DEF z
    <3>3. f[Lesser(k, M)] = f[k - 1]
      <4>1. CASE k \in 1..M
        <5>1. Lesser(k, M) = k
          <6>1. k \in Int /\ M \in Int /\ k <= M
            BY ONLY <4>1, <1>1, SMT
          <6> QED BY <6>1, LesserOf, Zenon
        <5>2. ~Scheduled(v[k])
          BY <4>1, <2>4, <1>1, Zenon DEF ScheduledAt
        <5> QED BY <4>1, <5>1, <5>2, <1>5, Zenon
      <4>2. CASE k \notin 1..M
        <5>1. k - 1 = M /\ Lesser(k, M) = M
          <6>1. k \in Int /\ M \in Int /\ k - 1 = M /\ M <= k
            BY ONLY <4>2, <2>4, <1>1, <1>7, <2>0, k \in 1..N, SMT
          <6> QED BY <6>1, LesserOf, Zenon
        <5> QED BY <5>1, Zenon
      <4> QED BY <4>1, <4>2, Zenon
    <3> QED BY <2>0, <3>1, <3>2, <3>3, Zenon
  <2>5. CASE k > i
    <3>1. /\ ~(k - 1 < i) /\ ~(k < i) /\ k # i /\ k \in 1..M /\ k - 1 \in 0..M
          /\ Lesser(k, M) = k /\ Lesser(k - 1, M) = k - 1
      <4>1. ~(k - 1 < i) /\ ~(k < i) /\ k # i /\ k \in 1..M /\ k - 1 \in 0..M
        BY ONLY <2>5, <1>1, <1>7, <2>0, k \in 1..N, i \in 1..Len(w), SMT
      <4>2. Lesser(k, M) = k /\ Lesser(k - 1, M) = k - 1
        <5>1. M \in Int /\ k <= M /\ k - 1 <= M
          BY ONLY <4>1, <1>1, <2>0, SMT
        <5> QED BY <5>1, <2>0, LesserOf, Zenon
      <4> QED BY <4>1, <4>2, Zenon
    <3>2. w[k] = v[k] /\ g[k - 1] = f[k - 1] - z
      BY <2>1, <3>1, Zenon
    <3>3. f[k - 1] \in Int /\ v[k].size \in Int
      BY <3>1, <1>3, <1>1, Zenon DEF Sized
    <3>4. g[k] = IF Scheduled(v[k]) THEN (f[k - 1] - z) - v[k].size ELSE f[k - 1] - z
      BY <2>2, <3>2, Zenon
    <3>5. f[k] = IF Scheduled(v[k]) THEN f[k - 1] - v[k].size ELSE f[k - 1]
      BY <3>1, <1>5, Zenon
    <3>6. g[k] = f[k] - z
      BY ONLY <3>3, <3>4, <3>5, <1>2, SMT
    <3> QED BY <2>0, <3>1, <3>6, Zenon
  <2> QED BY <2>0, <2>3, <2>4, <2>5, SMT
<1> HIDE DEF T
<1>10. \A k \in 0..N : k \in T
  BY ONLY <1>1, <1>8, <1>9, Induction, Zenon
<1>11. N \in 0..N /\ M \in 0..M /\ ~(N < i) /\ Lesser(N, M) = M
  <2>1. /\ N \in 0..N /\ M \in 0..M /\ ~(N < i)
        /\ N \in Int /\ M \in Int /\ M <= N
    BY ONLY <1>1, <1>7, i \in 1..Len(w), SMT
  <2> QED BY <2>1, LesserOf, Zenon
<1>12. g[N] = f[M] - z
  BY <1>10, <1>11, Zenon DEF T
<1>13. f[M] \in Int
  BY <1>3, <1>11, Zenon
<1> QED BY <1>3, <1>4, <1>12, <1>13, Zenon DEF z

(* Taking places away leaves more to place. *)
LEMMA LeftCleared ==
  ASSUME NEW v, Sized(v), NEW w, Sized(w), Len(w) = Len(v),
         \A j \in 1..Len(v) : ~Scheduled(w[j]) \/ w[j] = v[j]
  PROVE  Left(v) \in Int /\ Left(w) \in Int /\ Left(w) >= Left(v)
<1> DEFINE N == Len(v)
<1>1. N \in Nat /\ DOMAIN v = 1..N /\ DOMAIN w = 1..N
  BY SeqDomain, Zenon DEF Sized
<1>3. PICK f : /\ Lefts(v, f, N) /\ Left(v) = f[N]
               /\ \A k \in 0..N : f[k] \in Int
  BY LeftType, Zenon
<1>4. PICK g : /\ Lefts(w, g, N) /\ Left(w) = g[N]
               /\ \A k \in 0..N : g[k] \in Int
  BY LeftType, Zenon
<1>5. /\ f[0] = TotalSize
      /\ \A k \in 1..N : f[k] = IF Scheduled(v[k]) THEN f[k - 1] - v[k].size ELSE f[k - 1]
  BY ONLY <1>1, <1>3, LeftRound, Zenon
<1>6. /\ g[0] = TotalSize
      /\ \A k \in 1..N : g[k] = IF Scheduled(w[k]) THEN g[k - 1] - w[k].size ELSE g[k - 1]
  BY ONLY <1>1, <1>4, LeftRound, Zenon
<1> DEFINE T == {k \in 0..N : g[k] >= f[k]}
<1>7. 0 \in T
  BY <1>1, <1>5, <1>6, GroupAssumption, SMT
<1>8. ASSUME NEW k \in 1..N, k - 1 \in T
      PROVE  k \in T
  <2>1. k \in 0..N /\ k - 1 \in 0..N
    BY <1>1, SMT
  <2>2. f[k - 1] \in Int /\ g[k - 1] \in Int /\ v[k].size \in Int
    BY <2>1, <1>1, <1>3, <1>4, Zenon DEF Sized
  <2>3. g[k - 1] >= f[k - 1]
    BY <1>8, Zenon
  <2>4. f[k] = IF Scheduled(v[k]) THEN f[k - 1] - v[k].size ELSE f[k - 1]
    BY <1>5, Zenon
  <2>5. \/ g[k] = g[k - 1]
        \/ Scheduled(v[k]) /\ g[k] = g[k - 1] - v[k].size
    BY <1>6, Zenon
  <2>6. Scheduled(v[k]) => v[k].size > 0
    BY Zenon DEF Scheduled
  <2>7. g[k] >= f[k]
    BY ONLY <2>2, <2>3, <2>4, <2>5, <2>6, SMT
  <2> QED BY <2>1, <2>7, Zenon
<1> HIDE DEF T
<1>9. \A k \in 0..N : k \in T
  BY ONLY <1>1, <1>7, <1>8, Induction, Zenon
<1>10. N \in 0..N
  BY <1>1, SMT
<1> QED BY <1>3, <1>4, <1>9, <1>10, Zenon DEF T

-----------------------------------------------------------------------------
(* Chosen *)
Kept(v, c, n) ==
  c = [i \in 0..n |-> IF i = 0 THEN <<>>
                      ELSE IF Scheduled(v[i]) THEN Append(c[i - 1], v[i])
                      ELSE c[i - 1]]

LEMMA ChosenIs ==
  ASSUME NEW v, Len(v) \in Nat
  PROVE  \E c : Kept(v, c, Len(v)) /\ Chosen(v) = c[Len(v)]
<1> DEFINE N == Len(v)
           T == {n \in 0..N : \E c : Kept(v, c, n)}
<1>1. 0 \in T
  <2>1. Kept(v, [i \in 0..0 |-> <<>>], 0)
    BY DEF Kept
  <2> QED BY <2>1
<1>2. ASSUME NEW n \in 1..N, n - 1 \in T
      PROVE  n \in T
  <2>1. PICK c : Kept(v, c, n - 1)
    BY <1>2
  <2> DEFINE d == [i \in 0..n |-> IF i < n THEN c[i]
                                  ELSE IF Scheduled(v[n]) THEN Append(c[n - 1], v[n])
                                  ELSE c[n - 1]]
  <2>2. ASSUME NEW i \in 0..n
        PROVE  d[i] = IF i = 0 THEN <<>>
                      ELSE IF Scheduled(v[i]) THEN Append(d[i - 1], v[i]) ELSE d[i - 1]
    <3>1. CASE i = n
      BY <3>1 
    <3>2. CASE i < n
      <4>1. i \in 0..(n - 1) /\ d[i] = c[i] /\ (i # 0 => d[i - 1] = c[i - 1])
        BY <3>2, SMT
      <4>2. c[i] = IF i = 0 THEN <<>>
                   ELSE IF Scheduled(v[i]) THEN Append(c[i - 1], v[i]) ELSE c[i - 1]
        BY <4>1, <2>1, Zenon DEF Kept
      <4> HIDE DEF d
      <4> QED BY <4>1, <4>2, Zenon
    <3> QED BY <3>1, <3>2
  <2>3. Kept(v, d, n)
    BY <2>2, Zenon DEF Kept
  <2> QED BY <2>3
<1> HIDE DEF T
<1>3. N \in T
  <2>1. \A i \in 0..N : i \in T
    BY ONLY N \in Nat, <1>1, <1>2, Induction, Zenon
  <2> QED BY <2>1, SMT
<1>4. \E c : Kept(v, c, N)
  BY <1>3 DEF T
<1> DEFINE e == CHOOSE c : Kept(v, c, N)
<1>5. Kept(v, e, N)
  BY <1>4, Zenon
<1>6. Chosen(v) = e[N]
  BY Zenon DEF Chosen, Kept
<1> QED BY <1>5, <1>6, Zenon

(* What the first i rounds have kept. *)
KeptOK(v, s, i) ==
  /\ s \in Seq({v[j] : j \in DOMAIN v})
  /\ Len(s) = Cardinality(ScheduledAt(v) \cap 1..i)
  /\ \A k \in 1..Len(s) : \E j \in ScheduledAt(v) \cap 1..i : s[k] = v[j]
  /\ \A j \in ScheduledAt(v) \cap 1..i : \E k \in 1..Len(s) : s[k] = v[j]
  /\ \A k, l \in 1..Len(s) : k # l => s[k].node # s[l].node

LEMMA KeptFirst ==
  ASSUME NEW v
  PROVE  KeptOK(v, <<>>, 0)
<1>1. ScheduledAt(v) \cap 1..0 = {}
  BY SMT
<1>2. Len(<<>>) = 0 /\ <<>> \in Seq({v[j] : j \in DOMAIN v})
  OBVIOUS
<1> QED BY <1>1, <1>2, FS_EmptySet DEF KeptOK

LEMMA KeptNext ==
  ASSUME NEW v, NEW S, Apart(v, S), NEW i \in 1..Len(v), NEW s, KeptOK(v, s, i - 1)
  PROVE  KeptOK(v, IF Scheduled(v[i]) THEN Append(s, v[i]) ELSE s, i)
<1> DEFINE A == ScheduledAt(v)
           R == {v[j] : j \in DOMAIN v}
<1>1. Len(v) \in Nat /\ DOMAIN v = 1..Len(v)
  BY SeqDomain DEF Apart, Sized
<1>2. i \in DOMAIN v /\ v[i] \in R /\ i \in Nat
  BY <1>1
<1>3. IsFiniteSet(A \cap 1..(i - 1))
  <2>1. IsFiniteSet(A)
    BY CountType DEF Apart, Sized
  <2>2. A \cap 1..(i - 1) \in SUBSET A
    OBVIOUS
  <2> QED BY <2>1, <2>2, FS_Subset, Zenon
<1>4. CASE Scheduled(v[i])
  <2> DEFINE t == Append(s, v[i])
  <2>1. i \in A
    BY <1>2, <1>4 DEF ScheduledAt
  <2>2. A \cap 1..i = (A \cap 1..(i - 1)) \cup {i}
    BY <1>2, <2>1, SMT
  <2>3. i \notin A \cap 1..(i - 1)
    BY <1>2, SMT
  <2>4. Cardinality(A \cap 1..i) = Cardinality(A \cap 1..(i - 1)) + 1
    BY <1>3, <2>2, <2>3, FS_AddElement, Zenon
  <2>5. /\ s \in Seq(R) /\ Len(s) \in Nat
        /\ t \in Seq(R) /\ Len(t) = Len(s) + 1 /\ t[Len(s) + 1] = v[i]
        /\ \A k \in 1..Len(s) : t[k] = s[k]
    <3>1. s \in Seq(R)
      BY Zenon DEF KeptOK
    <3> HIDE DEF R
    <3> QED BY <3>1, <1>2
  <2> HIDE DEF t
  <2>6. \A k \in 1..Len(t) : k \in 1..Len(s) \/ k = Len(s) + 1
    BY <2>5, SMT
  <2>7. \A k \in 1..Len(s) : \E j \in A \cap 1..(i - 1) : t[k] = v[j]
    <3>1. \A k \in 1..Len(s) : \E j \in A \cap 1..(i - 1) : s[k] = v[j]
      BY Zenon DEF KeptOK
    <3> QED BY <3>1, <2>5, Zenon
  <2>8. ASSUME NEW k \in 1..Len(t)
        PROVE  \E j \in A \cap 1..i : t[k] = v[j]
    <3>1. CASE k = Len(s) + 1
      <4>1. i \in A \cap 1..i
        BY <2>1, <1>2, SMT
      <4> QED BY <3>1, <4>1, <2>5, Zenon
    <3>2. CASE k \in 1..Len(s)
      BY <3>2, <2>2, <2>7, Zenon
    <3> QED BY <2>6, <3>1, <3>2, Zenon
  <2>9. \A k \in 1..Len(s) : t[k].node # v[i].node
    <3> SUFFICES ASSUME NEW k \in 1..Len(s) PROVE t[k].node # v[i].node
      OBVIOUS
    <3>1. PICK j \in A \cap 1..(i - 1) : t[k] = v[j]
      BY <2>7
    <3>2. j \in A /\ j # i
      BY <2>3
    <3> QED BY <3>1, <3>2, <2>1, Zenon DEF Apart
  <2>10. ASSUME NEW k \in 1..Len(t), NEW l \in 1..Len(t), k # l
         PROVE  t[k].node # t[l].node
    <3>1. CASE k \in 1..Len(s) /\ l \in 1..Len(s)
      BY <3>1, <2>5, <2>10, Zenon DEF KeptOK
    <3>2. CASE k = Len(s) + 1
      <4>1. l \in 1..Len(s)
        BY <3>2, <2>6, <2>10, Zenon
      <4> QED BY <4>1, <3>2, <2>5, <2>9, Zenon
    <3>3. CASE l = Len(s) + 1
      <4>1. k \in 1..Len(s)
        BY <3>3, <2>6, <2>10, Zenon
      <4> QED BY <4>1, <3>3, <2>5, <2>9, Zenon
    <3> QED BY <2>6, <3>1, <3>2, <3>3, Zenon
  <2>11. Len(t) = Cardinality(A \cap 1..i)
    BY <2>4, <2>5, Zenon DEF KeptOK
  <2>12. ASSUME NEW j \in A \cap 1..i
         PROVE  \E k \in 1..Len(t) : t[k] = v[j]
    <3>1. 1..Len(s) \subseteq 1..Len(t) /\ Len(s) + 1 \in 1..Len(t)
      BY ONLY <2>5, SMT
    <3>2. CASE j = i
      BY <3>1, <3>2, <2>5, Zenon
    <3>3. CASE j \in A \cap 1..(i - 1)
      <4>1. PICK k \in 1..Len(s) : s[k] = v[j]
        BY <3>3, Zenon DEF KeptOK
      <4> QED BY <4>1, <3>1, <2>5, Zenon
    <3> QED BY <2>2, <3>2, <3>3, Zenon
  <2>13. KeptOK(v, t, i)
    BY <2>5, <2>8, <2>10, <2>11, <2>12, Zenon DEF KeptOK
  <2> QED BY <1>4, <2>13, Zenon DEF t
<1>5. CASE ~Scheduled(v[i])
  <2>1. A \cap 1..i = A \cap 1..(i - 1)
    <3>1. i \notin A
      BY <1>5 DEF ScheduledAt
    <3> HIDE DEF A
    <3> QED BY <3>1, <1>2, SMT
  <2>2. KeptOK(v, s, i)
    BY <2>1, Zenon DEF KeptOK
  <2> QED BY <1>5, <2>2, Zenon
<1> QED BY <1>4, <1>5, Zenon

LEMMA ChosenOK ==
  ASSUME NEW v, NEW S, Apart(v, S)
  PROVE  \E c : /\ Kept(v, c, Len(v)) /\ Chosen(v) = c[Len(v)]
               /\ \A i \in 0..Len(v) : KeptOK(v, c[i], i)
<1>1. Len(v) \in Nat
  BY SeqDomain DEF Apart, Sized
<1>2. PICK c : Kept(v, c, Len(v)) /\ Chosen(v) = c[Len(v)]
  BY <1>1, ChosenIs, Zenon
<1> DEFINE N == Len(v)
           T == {i \in 0..N : KeptOK(v, c[i], i)}
<1>3. c[0] = <<>>
  <2>1. 0 \in 0..N
    BY <1>1, SMT
  <2> QED BY <2>1, <1>2, Zenon DEF Kept
<1>4. 0 \in T
  BY <1>1, <1>3, KeptFirst
<1>5. ASSUME NEW i \in 1..N, i - 1 \in T
      PROVE  i \in T
  <2>1. i \in 0..N /\ i # 0
    BY <1>1, SMT
  <2>2. c[i] = IF Scheduled(v[i]) THEN Append(c[i - 1], v[i]) ELSE c[i - 1]
    BY <2>1, <1>2, Zenon DEF Kept
  <2>3. KeptOK(v, c[i - 1], i - 1)
    BY <1>5
  <2>4. KeptOK(v, c[i], i)
    BY <2>2, <2>3, KeptNext, Zenon
  <2> QED BY <2>1, <2>4, Zenon
<1> HIDE DEF T
<1>6. \A i \in 0..N : i \in T
  BY ONLY <1>1, <1>4, <1>5, Induction, Zenon
<1> QED BY <1>2, <1>6, Zenon DEF T

(* The entries kept take all that the entries take. *)
LEMMA ChosenLeft ==
  ASSUME NEW v, NEW S, Apart(v, S)
  PROVE  Left(Chosen(v)) = Left(v)
<1> DEFINE N == Len(v)
<1>1. N \in Nat /\ DOMAIN v = 1..N
  BY SeqDomain DEF Apart, Sized
<1>2. PICK c : /\ Kept(v, c, N) /\ Chosen(v) = c[N]
               /\ \A i \in 0..N : KeptOK(v, c[i], i)
  BY ChosenOK, Zenon
<1>3. PICK f : /\ Lefts(v, f, N) /\ Left(v) = f[N]
               /\ \A i \in 0..N : f[i] \in Int
  BY LeftType, Zenon DEF Apart
<1>4. /\ f[0] = TotalSize
      /\ \A i \in 1..N : f[i] = IF Scheduled(v[i]) THEN f[i - 1] - v[i].size ELSE f[i - 1]
  BY ONLY <1>1, <1>3, LeftRound, Zenon
<1> DEFINE T == {i \in 0..N : Left(c[i]) = f[i]}
           R == {v[j] : j \in DOMAIN v}
<1>5. 0 \in T
  <2>1. 0 \in 0..N
    BY <1>1, SMT
  <2>2. c[0] = <<>>
    BY <2>1, <1>2, Zenon DEF Kept
  <2>3. Len(<<>>) = 0 /\ 0 \in Nat
    OBVIOUS
  <2>4. PICK g : Lefts(<<>>, g, 0) /\ Left(<<>>) = g[0]
    BY <2>3, LeftIs, Zenon
  <2>5. g[0] = TotalSize
    BY ONLY <2>3, <2>4, LeftRound, Zenon
  <2> QED BY <2>1, <2>2, <2>4, <2>5, <1>4, Zenon
<1>6. ASSUME NEW i \in 1..N, i - 1 \in T
      PROVE  i \in T
  <2> DEFINE s == c[i - 1]
  <2>1. i \in 0..N /\ i # 0 /\ i - 1 \in 0..N
    BY <1>1, SMT
  <2>2. c[i] = IF Scheduled(v[i]) THEN Append(s, v[i]) ELSE s
    BY <2>1, <1>2, Zenon DEF Kept
  <2>3. s \in Seq(R) /\ Left(s) = f[i - 1]
    BY <2>1, <1>2, <1>6, Zenon DEF KeptOK
  <2>4. v[i] \in R /\ \A x \in R : x.size \in Int
    BY <1>1, Zenon DEF Apart, Sized
  <2> HIDE DEF s, R
  <2>5. CASE ~Scheduled(v[i])
    BY <2>1, <2>2, <2>3, <2>5, <1>4, Zenon
  <2>6. CASE Scheduled(v[i])
    <3> DEFINE t == Append(s, v[i])
    <3>1. /\ Len(s) \in Nat /\ DOMAIN s = 1..Len(s) /\ t \in Seq(R)
          /\ Len(t) = Len(s) + 1 /\ DOMAIN t = 1..Len(t) /\ t[Len(s) + 1] = v[i]
          /\ \A k \in 1..Len(s) : t[k] = s[k]
      BY <2>3, <2>4
    <3> HIDE DEF t
    <3>2. Sized(s) /\ Sized(t)
      <4>1. \A k \in DOMAIN s : s[k] \in R
        BY <2>3
      <4>2. \A k \in DOMAIN t : t[k] \in R
        BY <3>1
      <4> QED BY <2>3, <2>4, <3>1, <4>1, <4>2, SeqIsSeq, Zenon DEF Sized
    <3>3. /\ Len(s) + 1 \in 1..Len(t) /\ Len(s) + 1 \notin 1..Len(s)
          /\ \A k \in 1..Len(t) : k # Len(s) + 1 => k \in 1..Len(s)
      BY ONLY <3>1, SMT
    <3>4. Len(s) + 1 \notin ScheduledAt(s)
      BY <3>1, <3>3, Zenon DEF ScheduledAt
    <3>5. Left(t) = Left(s) - v[i].size
      <4> DEFINE m == Len(s) + 1
      <4>1. /\ m \in 1..Len(t) /\ Scheduled(t[m]) /\ m \notin ScheduledAt(s)
            /\ Len(t) = IF m \in 1..Len(s) THEN Len(s) ELSE Len(s) + 1
            /\ \A k \in 1..Len(t) : k # m => k \in 1..Len(s) /\ t[k] = s[k]
        BY <2>6, <3>1, <3>3, <3>4, Zenon
      <4>2. t[m] = v[i]
        BY <3>1, Zenon
      <4> HIDE DEF m
      <4>3. Left(t) = Left(s) - t[m].size
        BY ONLY <3>2, <4>1, LeftEntered, Zenon
      <4> QED BY <4>2, <4>3, Zenon
    <3>6. c[i] = t
      BY <2>2, <2>6, Zenon DEF t
    <3> QED BY <2>1, <2>3, <2>6, <3>5, <3>6, <1>4, Zenon
  <2> QED BY <2>5, <2>6, Zenon
<1> HIDE DEF T
<1>7. \A i \in 0..N : i \in T
  BY ONLY <1>1, <1>5, <1>6, Induction, Zenon
<1>8. N \in 0..N
  BY <1>1, SMT
<1> QED BY <1>2, <1>3, <1>7, <1>8, Zenon DEF T

(* What is left of a layout when the entries without a place are dropped. *)
LEMMA ChosenApart ==
  ASSUME NEW v, NEW S, Apart(v, S)
  PROVE  /\ Apart(Chosen(v), S) /\ Len(Chosen(v)) = Count(v)
         /\ \A j \in ScheduledAt(v) : \E k \in DOMAIN Chosen(v) : Chosen(v)[k] = v[j]
<1> DEFINE s == Chosen(v)
<1>0. Len(v) \in 0..Len(v)
  <2>1. Len(v) \in Nat
    BY SeqDomain DEF Apart, Sized
  <2> QED BY <2>1, SMT
<1>1. KeptOK(v, s, Len(v))
  BY <1>0, ChosenOK, Zenon
<1>2. Len(v) \in Nat /\ DOMAIN v = 1..Len(v)
  BY SeqDomain DEF Apart, Sized
<1>3. ScheduledAt(v) \cap 1..Len(v) = ScheduledAt(v)
  BY <1>2, Zenon DEF ScheduledAt
<1>4. Len(s) = Count(v)
  BY <1>1, <1>3, Zenon DEF KeptOK, Count
<1> HIDE DEF s
<1>5. IsSeq(s) /\ DOMAIN s = 1..Len(s)
  <2>1. s \in Seq({v[j] : j \in DOMAIN v})
    BY <1>1, Zenon DEF KeptOK
  <2>2. IsSeq(s)
    BY <2>1, SeqIsSeq, Zenon
  <2> QED BY <2>2, SeqDomain, Zenon
<1>6. \A i \in DOMAIN s : s[i].node \in S \cup {NoNode} /\ s[i].size \in Int
  <2>1. \A j \in ScheduledAt(v) : v[j].node \in S \cup {NoNode} /\ v[j].size \in Int
    BY Zenon DEF Apart, Sized, ScheduledAt
  <2> QED BY <1>1, <1>5, <2>1, Zenon DEF KeptOK
<1>7. \A i, j \in ScheduledAt(s) : i # j => s[i].node # s[j].node
  BY <1>1, <1>5, Zenon DEF KeptOK, ScheduledAt
<1>8. \A j \in ScheduledAt(v) : \E k \in DOMAIN s : s[k] = v[j]
  BY <1>1, <1>3, <1>5, Zenon DEF KeptOK
<1> QED BY <1>4, <1>5, <1>6, <1>7, <1>8, Zenon DEF Apart, Sized, s

-----------------------------------------------------------------------------
(* The pools a scheduler is given: finitely many, with sizes that are numbers. *)
PoolsOK(pools) ==
  /\ IsFiniteSet(DOMAIN pools) /\ NoNode \notin DOMAIN pools
  /\ \A n \in DOMAIN pools :
       pools[n].free \in Int /\ pools[n].total \in Int /\ pools[n].remote \in Int

LEMMA RoundOff ==
  ASSUME NEW x \in Int
  PROVE  /\ RoundDown(x) \in Int /\ RoundDown(x) <= x
         /\ RoundUp(x) \in Int /\ RoundUp(x) < x + Align
<1>1. Align \in Nat /\ Align > 0
  BY GroupAssumption
<1>2. ASSUME NEW y \in Int
      PROVE  RoundDown(y) \in Int /\ RoundDown(y) <= y
  BY <1>1, SMT DEF RoundDown
<1>3. x + Align - 1 \in Int
  BY <1>1
<1>4. RoundDown(x + Align - 1) \in Int /\ RoundDown(x + Align - 1) <= x + Align - 1
  BY <1>2, <1>3, Zenon
<1> QED BY <1>1, <1>2, <1>4, SMT DEF RoundUp

(* A size that is picked exceeds what is left by less than one unit. *)
LEMMA PickFits ==
  ASSUME NEW p, p.free \in Int, p.total \in Int, p.remote \in Int,
         NEW left \in Int, PickOn(p, left) > 0
  PROVE  PickOn(p, left) \in Int /\ PickOn(p, left) < left + Align
<1> DEFINE z == pickSize(p.free, left)
           most == p.total - (p.total * MinLocalPct) \div 100 - p.remote
           q == PickOn(p, left)
<1>1. Align \in Nat /\ Align > 0 /\ MinLocalPct \in Int /\ MinSize \in Int /\ MaxSize \in Int
  BY GroupAssumption
<1>2. most \in Int
  BY <1>1
<1>3. z \in Int /\ (z # 0 => z < left + Align)
  <2> DEFINE m == Lesser(p.free, left)
             l == Lesser(m, MaxSize)
  <2>1. m \in Int /\ m <= left
    BY DEF Lesser
  <2> HIDE DEF m
  <2>2. l \in Int /\ l <= m
    BY <2>1, <1>1 DEF Lesser
  <2>3. z = IF m < MinSize THEN 0 ELSE RoundUp(l)
    BY Zenon DEF pickSize, m
  <2> HIDE DEF l, z
  <2>4. RoundUp(l) \in Int /\ RoundUp(l) < l + Align
    BY <2>2, RoundOff, Zenon
  <2> QED BY <1>1, <2>1, <2>2, <2>3, <2>4, SMT
<1>4. q = IF z = 0 \/ most < 0 THEN 0 ELSE RoundDown(Lesser(most, z))
  BY Zenon DEF PickOn, getAllocatableRemoteVolumeSize
<1>5. q > 0
  OBVIOUS
<1> HIDE DEF z, most, q
<1>6. q = RoundDown(Lesser(most, z)) /\ z # 0
  BY <1>4, <1>5, SMT
<1>7. Lesser(most, z) \in Int /\ Lesser(most, z) <= z
  BY <1>2, <1>3 DEF Lesser
<1>8. q \in Int /\ q <= Lesser(most, z)
  BY <1>6, <1>7, RoundOff, Zenon
<1>9. q \in Int /\ q < left + Align
  BY <1>1, <1>3, <1>6, <1>7, <1>8, SMT
<1> QED BY <1>9, Zenon DEF q

LEMMA OrderOK ==
  ASSUME NEW pools, NEW ord \in SortedNodes(pools), IsFiniteSet(DOMAIN pools)
  PROVE  ord \in Seq(DOMAIN pools)
<1> DEFINE F == filterNodes(pools)
           n == Cardinality(F)
<1>1. F \in SUBSET DOMAIN pools
  BY Zenon DEF filterNodes
<1>2. n \in Nat
  BY <1>1, FS_Subset, FS_CardinalityType, Zenon
<1>3. ord \in [1..n -> F]
  <2>1. ord \in Bijection(1..n, F)
    BY Zenon DEF SortedNodes
  <2> QED BY <2>1, Zenon DEF Bijection, Injection
<1> HIDE DEF F, n
<1>4. ord \in [1..n -> DOMAIN pools]
  BY <1>1, <1>3
<1> QED BY <1>2, <1>4

LEMMA FirstFitOK ==
  ASSUME NEW pools, NEW ord \in Seq(DOMAIN pools), NEW v,
         FirstFit(pools, ord, v) # 0
  PROVE  /\ ord[FirstFit(pools, ord, v)] \in DOMAIN pools
         /\ ord[FirstFit(pools, ord, v)] \notin Taken(v)
         /\ PickOn(pools[ord[FirstFit(pools, ord, v)]], Left(v)) > 0
<1> DEFINE I == {i \in DOMAIN ord : /\ ord[i] \notin Taken(v)
                                   /\ PickOn(pools[ord[i]], Left(v)) > 0}
<1>1. FirstFit(pools, ord, v) = IF I # {} THEN Min(I) ELSE 0
  BY Zenon DEF FirstFit
<1>2. I \subseteq Nat
  OBVIOUS
<1>3. I # {} /\ FirstFit(pools, ord, v) = Min(I)
  BY <1>1, Zenon
<1>4. Min(I) \in I
  BY <1>2, <1>3, SmallestIn, Zenon
<1> DEFINE m == Min(I)
<1>5. m \in DOMAIN ord /\ ord[m] \notin Taken(v) /\ PickOn(pools[ord[m]], Left(v)) > 0
  BY <1>4, Zenon
<1> HIDE DEF m
<1>6. ord[m] \in DOMAIN pools
  BY <1>5
<1> QED BY <1>3, <1>5, <1>6, Zenon DEF m

(* The places entries have are not changed. *)
Stays(v, w) == \A i \in ScheduledAt(v) : i \in DOMAIN w /\ w[i] = v[i]

LEMMA StaysOn ==
  ASSUME NEW u, NEW v, NEW w, Stays(u, v), Stays(v, w)
  PROVE  Stays(u, w)
BY Zenon DEF Stays, ScheduledAt

(* The result of a round: at most MaxVolCnt entries scheduled, all apart, less
   than one unit more than asked for, and what was scheduled before (v) still is. *)
Results == {"vols", "err"}
Fair(w, S) == Apart(w, S) /\ Count(w) <= MaxVolCnt /\ Left(w) > -Align
RoundOK(r, v, S) == DOMAIN r = Results /\ Fair(r.vols, S) /\ Stays(v, r.vols)

EnteredOK(w, v, i, S) ==
  /\ Fair(w, S) /\ Stays(v, w)
  /\ i \in 1..Len(v) => Len(w) = Len(v)

LEMMA Entered ==
  ASSUME NEW v, NEW S, Apart(v, S), NoNode \notin S, NEW i \in 1..(Len(v) + 1), NEW e,
         i \notin ScheduledAt(v), e.node \in S, e.node \notin Taken(v),
         Count(v) < MaxVolCnt,
         e.size \in Int, e.size > 0, e.size < Left(v) + Align
  PROVE  EnteredOK([j \in 1..i \cup DOMAIN v |-> IF j # i THEN v[j] ELSE e], v, i, S)
<1> DEFINE w == [j \in 1..i \cup DOMAIN v |-> IF j # i THEN v[j] ELSE e]
<1>1. Len(v) \in Nat /\ DOMAIN v = 1..Len(v)
  BY SeqDomain DEF Apart, Sized
<1> DEFINE n == IF i = Len(v) + 1 THEN i ELSE Len(v)
           Q == {w[j] : j \in DOMAIN w}
<1>2. /\ n \in Nat /\ 1..i \cup DOMAIN v = 1..n /\ i \in 1..n
      /\ n = IF i \in 1..Len(v) THEN Len(v) ELSE Len(v) + 1
  <2>1. CASE i = Len(v) + 1
    <3>1. n = i
      BY <2>1, Zenon
    <3>2. i \in Nat /\ i \in 1..i /\ i \notin 1..Len(v)
      BY ONLY <1>1, <2>1, SMT
    <3>3. 1..i \cup 1..Len(v) = 1..i
      BY ONLY <1>1, <2>1, SMT
    <3> QED BY ONLY <1>1, <2>1, <3>1, <3>2, <3>3, Zenon
  <2>2. CASE i # Len(v) + 1
    <3>1. i \in 1..Len(v) /\ 1..i \cup 1..Len(v) = 1..Len(v)
      BY ONLY <1>1, <2>2, i \in 1..(Len(v) + 1), SMT
    <3> QED BY ONLY <1>1, <2>2, <3>1, Zenon
  <2> QED BY ONLY <2>1, <2>2
<1>3. /\ DOMAIN w = 1..n /\ w[i] = e
      /\ \A j \in 1..n : j # i => w[j] = v[j]
  BY <1>2, Zenon
<1>4. \A j \in 1..n : j # i => j \in DOMAIN v
  BY ONLY <1>1, i \in 1..(Len(v) + 1), SMT
<1>5. w \in [1..n -> Q]
  <2>1. w = [j \in DOMAIN w |-> w[j]]
    BY <1>2, <1>3, Zenon
  <2> QED BY <2>1, <1>3, Zenon
<1> HIDE DEF n, Q, w
<1>6. w \in Seq(Q)
  BY ONLY <1>2, <1>5
<1>7. IsSeq(w)
  BY <1>6, SeqIsSeq, Zenon
<1>8. Len(w) = n
  BY ONLY <1>2, <1>3, <1>6
<1>9. \A j \in DOMAIN w : w[j].node \in S \cup {NoNode} /\ w[j].size \in Int
  BY <1>3, <1>4, Zenon DEF Apart, Sized
<1>10. ASSUME NEW j \in ScheduledAt(w), j # i
       PROVE  j \in ScheduledAt(v) /\ w[j] = v[j] /\ v[j].node # e.node
  <2>1. j \in ScheduledAt(v) /\ w[j] = v[j]
    BY <1>10, <1>3, <1>4, Zenon DEF ScheduledAt
  <2> QED BY <2>1, Zenon DEF Taken
<1>11. ASSUME NEW j \in ScheduledAt(w), NEW k \in ScheduledAt(w), j # k
       PROVE  w[j].node # w[k].node
  <2>1. CASE j = i
    BY <2>1, <1>3, <1>10, <1>11, Zenon
  <2>2. CASE k = i
    BY <2>2, <1>3, <1>10, <1>11, Zenon
  <2>3. CASE j # i /\ k # i
    BY <2>3, <1>10, <1>11, Zenon DEF Apart
  <2> QED BY <2>1, <2>2, <2>3, Zenon
<1>12. Count(w) <= MaxVolCnt
  <2> DEFINE A == ScheduledAt(v) \cup {i}
  <2>1. IsFiniteSet(ScheduledAt(v)) /\ Count(v) \in Nat
    BY CountType, Zenon DEF Apart, Sized
  <2>2. /\ IsFiniteSet(A)
        /\ Cardinality(A) = IF i \in ScheduledAt(v) THEN Count(v) ELSE Count(v) + 1
    BY <2>1, FS_AddElement, Zenon DEF Count
  <2>3. ScheduledAt(w) \in SUBSET A
    BY <1>10, Zenon
  <2>4. Count(w) <= Cardinality(A)
    BY <2>2, <2>3, FS_Subset, Zenon DEF Count
  <2>5. Count(w) \in Nat
    BY <1>7, CountType, Zenon
  <2> HIDE DEF A
  <2>6. MaxVolCnt \in Nat
    BY GroupAssumption
  <2> QED BY <2>1, <2>2, <2>4, <2>5, <2>6, SMT
<1>13. Apart(w, S)
  BY <1>7, <1>9, <1>11, Zenon DEF Apart, Sized
<1>14. Left(w) > -Align
  <2>1. Sized(v) /\ Sized(w) /\ i \in 1..Len(w)
    BY <1>13, <1>2, <1>8, Zenon DEF Apart
  <2>2. Scheduled(w[i])
    BY <1>3, Zenon DEF Scheduled
  <2>3. /\ Len(w) = IF i \in 1..Len(v) THEN Len(v) ELSE Len(v) + 1
        /\ \A j \in 1..Len(w) : j # i => j \in 1..Len(v) /\ w[j] = v[j]
    BY <1>1, <1>2, <1>3, <1>4, <1>8, Zenon
  <2>4. Left(v) \in Int /\ Left(w) = Left(v) - w[i].size
    BY ONLY <2>1, <2>2, <2>3, i \notin ScheduledAt(v), LeftEntered, Zenon
  <2>5. Left(w) = Left(v) - e.size
    BY <2>4, <1>3, Zenon
  <2>6. Align \in Int
    BY GroupAssumption
  <2> QED BY ONLY <2>4, <2>5, <2>6, e.size \in Int, e.size < Left(v) + Align, SMT
<1>15. Stays(v, w)
  <2>1. \A j \in DOMAIN v : j \in 1..n
    BY <1>2, Zenon
  <2> QED BY <2>1, <1>3, Zenon DEF Stays, ScheduledAt
<1>16. EnteredOK(w, v, i, S)
  BY <1>2, <1>8, <1>12, <1>13, <1>14, <1>15, Zenon DEF Fair, EnteredOK
<1> QED BY <1>16 DEF w

PlacedOK(p, r, v, i, S) ==
  RoundOK(p, v, S) /\ (i \in 1..Len(r.vols) => Len(p.vols) = Len(r.vols))

LEMMA PlaceOK ==
  ASSUME NEW pools, PoolsOK(pools), NEW ord \in Seq(DOMAIN pools), NEW v, NEW r,
         RoundOK(r, v, DOMAIN pools), needSchedNext(r.vols),
         NEW i \in 1..(Len(r.vols) + 1), i \notin ScheduledAt(r.vols), NEW id
  PROVE  PlacedOK(Place(pools, ord, r, i, id), r, v, i, DOMAIN pools)
<1> DEFINE k == FirstFit(pools, ord, r.vols)
           p == Place(pools, ord, r, i, id)
<1>1. CASE k = 0
  <2> DEFINE q == [r EXCEPT !.err = TRUE]
  <2>1. p = q
    BY <1>1, Zenon DEF Place
  <2>2. DOMAIN q = Results /\ q.vols = r.vols
    BY Zenon DEF RoundOK, Results
  <2> HIDE DEF q
  <2>3. RoundOK(q, v, DOMAIN pools)
    BY <2>2, Zenon DEF RoundOK
  <2> QED BY <2>1, <2>2, <2>3, Zenon DEF PlacedOK
<1>2. CASE k # 0
  <2> DEFINE e == [id |-> id, node |-> ord[k],
                   size |-> PickOn(pools[ord[k]], Left(r.vols))]
             w == [j \in 1..i \cup DOMAIN r.vols |-> IF j # i THEN r.vols[j] ELSE e]
             q == [err |-> FALSE, vols |-> w]
  <2>1. p = q
    BY <1>2, Zenon DEF Place
  <2>2. /\ e.node \in DOMAIN pools /\ e.node \notin Taken(r.vols)
        /\ e.size = PickOn(pools[e.node], Left(r.vols)) /\ e.size > 0
    BY <1>2, FirstFitOK, Zenon
  <2> HIDE DEF e
  <2>3. Apart(r.vols, DOMAIN pools) /\ Stays(v, r.vols)
    BY Zenon DEF RoundOK, Fair
  <2>4. Left(r.vols) \in Int
    <3>1. Sized(r.vols) /\ Len(r.vols) \in Nat
      BY <2>3, SeqDomain, Zenon DEF Apart, Sized
    <3>2. Len(r.vols) \in 0..Len(r.vols)
      BY <3>1, SMT
    <3> QED BY <3>1, <3>2, LeftType, Zenon
  <2>5. e.size \in Int /\ e.size < Left(r.vols) + Align
    <3> DEFINE b == pools[e.node]
    <3>1. b.free \in Int /\ b.total \in Int /\ b.remote \in Int
      BY <2>2, Zenon DEF PoolsOK
    <3> HIDE DEF b
    <3>2. PickOn(b, Left(r.vols)) > 0
      BY <2>2, Zenon DEF b
    <3>3. /\ PickOn(b, Left(r.vols)) \in Int
          /\ PickOn(b, Left(r.vols)) < Left(r.vols) + Align
      BY <2>4, <3>1, <3>2, PickFits, Zenon
    <3> QED BY <2>2, <3>3, Zenon DEF b
  <2>6. Count(r.vols) < MaxVolCnt /\ NoNode \notin DOMAIN pools
    BY Zenon DEF needSchedNext, PoolsOK
  <2>7. EnteredOK(w, r.vols, i, DOMAIN pools)
    BY <2>2, <2>3, <2>5, <2>6, Entered, Zenon
  <2> HIDE DEF w
  <2>8. DOMAIN q = Results /\ q.vols = w
    BY Zenon DEF Results
  <2>9. Stays(v, w)
    BY <2>3, <2>7, StaysOn, Zenon DEF EnteredOK
  <2> HIDE DEF q
  <2> QED BY <2>1, <2>7, <2>8, <2>9, Zenon DEF PlacedOK, RoundOK, EnteredOK
<1> QED BY <1>1, <1>2, Zenon

-----------------------------------------------------------------------------
LEMMA RefillOK ==
  ASSUME NEW pools, PoolsOK(pools), NEW ord \in Seq(DOMAIN pools), NEW v, NEW r,
         RoundOK(r, v, DOMAIN pools), NEW i \in 1..Len(r.vols)
  PROVE  /\ RoundOK(Refill(pools, ord, r, i), v, DOMAIN pools)
         /\ Len(Refill(pools, ord, r, i).vols) = Len(r.vols)
<1>1. CASE r.err \/ Scheduled(r.vols[i]) \/ ~needSchedNext(r.vols)
  BY <1>1, Zenon DEF Refill
<1>2. CASE ~(r.err \/ Scheduled(r.vols[i]) \/ ~needSchedNext(r.vols))
  <2>1. needSchedNext(r.vols) /\ i \notin ScheduledAt(r.vols)
    BY <1>2, Zenon DEF ScheduledAt
  <2>2. i \in 1..(Len(r.vols) + 1)
    <3>1. Len(r.vols) \in Nat
      BY SeqDomain, Zenon DEF RoundOK, Fair, Apart, Sized
    <3> QED BY <3>1, SMT
  <2> DEFINE d == r.vols[i].id
             p == Place(pools, ord, r, i, d)
  <2>3. Refill(pools, ord, r, i) = p
    BY <1>2, Zenon DEF Refill
  <2> HIDE DEF d
  <2>4. PlacedOK(p, r, v, i, DOMAIN pools)
    BY <2>1, <2>2, PlaceOK, Zenon
  <2> HIDE DEF p
  <2> QED BY <2>3, <2>4, Zenon DEF PlacedOK
<1> QED BY <1>1, <1>2, Zenon

LEMMA ExtendOK ==
  ASSUME NEW pools, PoolsOK(pools), NEW ord \in Seq(DOMAIN pools), NEW v, NEW r,
         RoundOK(r, v, DOMAIN pools), NEW i, NEW base, NEW from
  PROVE  RoundOK(Extend(pools, ord, r, i, base, from), v, DOMAIN pools)
<1> DEFINE stop == r.err \/ i > MaxVolCnt - Count(r.vols) \/ ~needSchedNext(r.vols)
<1>1. CASE stop
  BY <1>1, Zenon DEF Extend
<1>2. CASE ~stop
  <2>1. needSchedNext(r.vols)
    BY <1>2, Zenon
  <2>2. Len(r.vols) + 1 \in 1..(Len(r.vols) + 1) /\ Len(r.vols) + 1 \notin ScheduledAt(r.vols)
    <3>1. Len(r.vols) \in Nat /\ DOMAIN r.vols = 1..Len(r.vols)
      BY SeqDomain, Zenon DEF RoundOK, Fair, Apart, Sized
    <3>2. Len(r.vols) + 1 \in 1..(Len(r.vols) + 1) /\ Len(r.vols) + 1 \notin 1..Len(r.vols)
      BY ONLY <3>1, SMT
    <3> QED BY <3>1, <3>2, Zenon DEF ScheduledAt
  <2>3. Extend(pools, ord, r, i, base, from)
          = Place(pools, ord, r, Len(r.vols) + 1, from + Len(r.vols) - base)
    BY <1>2, Zenon DEF Extend
  <2> DEFINE p == Place(pools, ord, r, Len(r.vols) + 1, from + Len(r.vols) - base)
  <2>4. PlacedOK(p, r, v, Len(r.vols) + 1, DOMAIN pools)
    BY <2>1, <2>2, PlaceOK, Zenon
  <2> HIDE DEF p
  <2> QED BY <2>3, <2>4, Zenon DEF PlacedOK, p
<1> QED BY <1>1, <1>2, Zenon

(* The rounds of the first loop. *)
Refills(pools, ord, v, f, n) ==
  f = [i \in 0..n |-> IF i = 0 THEN [vols |-> v, err |-> FALSE]
                      ELSE Refill(pools, ord, f[i - 1], i)]

LEMMA RefilledIs ==
  ASSUME NEW pools, NEW ord, NEW v, Len(v) \in Nat
  PROVE  \E f : Refills(pools, ord, v, f, Len(v)) /\ Refilled(pools, ord, v) = f[Len(v)]
<1> DEFINE N == Len(v)
           T == {n \in 0..N : \E f : Refills(pools, ord, v, f, n)}
<1>1. 0 \in T
  <2>1. Refills(pools, ord, v, [i \in 0..0 |-> [vols |-> v, err |-> FALSE]], 0)
    BY DEF Refills
  <2> QED BY <2>1
<1>2. ASSUME NEW n \in 1..N, n - 1 \in T
      PROVE  n \in T
  <2>1. PICK f : Refills(pools, ord, v, f, n - 1)
    BY <1>2
  <2> DEFINE g == [i \in 0..n |-> IF i < n THEN f[i] ELSE Refill(pools, ord, f[n - 1], n)]
  <2>2. ASSUME NEW i \in 0..n
        PROVE  g[i] = IF i = 0 THEN [vols |-> v, err |-> FALSE]
                      ELSE Refill(pools, ord, g[i - 1], i)
    <3>1. CASE i = n
      BY <3>1
    <3>2. CASE i < n
      <4>1. i \in 0..(n - 1) /\ g[i] = f[i] /\ (i # 0 => g[i - 1] = f[i - 1])
        BY <3>2, SMT
      <4>2. f[i] = IF i = 0 THEN [vols |-> v, err |-> FALSE]
                   ELSE Refill(pools, ord, f[i - 1], i)
        BY <4>1, <2>1, Zenon DEF Refills
      <4> HIDE DEF g
      <4> QED BY <4>1, <4>2, Zenon
    <3> QED BY <3>1, <3>2
  <2>3. Refills(pools, ord, v, g, n)
    BY <2>2, Zenon DEF Refills
  <2> QED BY <2>3
<1> HIDE DEF T
<1>3. N \in T
  <2>1. \A i \in 0..N : i \in T
    BY ONLY N \in Nat, <1>1, <1>2, Induction, Zenon
  <2> QED BY <2>1, SMT
<1>4. \E f : Refills(pools, ord, v, f, N)
  BY <1>3 DEF T
<1> DEFINE e == CHOOSE f : Refills(pools, ord, v, f, N)
<1>5. Refills(pools, ord, v, e, N)
  BY <1>4, Zenon
<1>6. Refilled(pools, ord, v) = e[N]
  BY Zenon DEF Refilled, Refills
<1> QED BY <1>5, <1>6, Zenon

LEMMA RefilledOK ==
  ASSUME NEW pools, PoolsOK(pools), NEW ord \in Seq(DOMAIN pools), NEW v,
         Fair(v, DOMAIN pools)
  PROVE  RoundOK(Refilled(pools, ord, v), v, DOMAIN pools)
<1> DEFINE N == Len(v)
<1>1. N \in Nat
  BY SeqDomain DEF Fair, Apart, Sized
<1>2. PICK f : Refills(pools, ord, v, f, N) /\ Refilled(pools, ord, v) = f[N]
  BY <1>1, RefilledIs, Zenon
<1> DEFINE T == {i \in 0..N : RoundOK(f[i], v, DOMAIN pools) /\ Len(f[i].vols) = N}
           b == [vols |-> v, err |-> FALSE]
<1>3. 0 \in T
  <2>1. 0 \in 0..N
    BY <1>1, SMT
  <2>2. f[0] = b
    BY <2>1, <1>2, Zenon DEF Refills
  <2>3. DOMAIN b = Results /\ b.vols = v
    BY Zenon DEF Results
  <2> HIDE DEF b
  <2>4. RoundOK(f[0], v, DOMAIN pools) /\ Len(f[0].vols) = N
    BY <2>2, <2>3, Zenon DEF RoundOK, Stays, ScheduledAt
  <2> QED BY <2>1, <2>4, Zenon
<1>4. ASSUME NEW i \in 1..N, i - 1 \in T
      PROVE  i \in T
  <2>1. i \in 0..N /\ i # 0
    BY <1>1, SMT
  <2>2. f[i] = Refill(pools, ord, f[i - 1], i)
    BY <2>1, <1>2, Zenon DEF Refills
  <2>3. RoundOK(f[i - 1], v, DOMAIN pools) /\ Len(f[i - 1].vols) = N
    BY <1>4
  <2>4. i \in 1..Len(f[i - 1].vols)
    BY <2>3, Zenon
  <2>5. RoundOK(f[i], v, DOMAIN pools) /\ Len(f[i].vols) = N
    <3> DEFINE q == f[i - 1]
               p == Refill(pools, ord, q, i)
    <3>1. RoundOK(q, v, DOMAIN pools) /\ Len(q.vols) = N /\ i \in 1..Len(q.vols) /\ f[i] = p
      BY <2>2, <2>3, <2>4, Zenon
    <3> HIDE DEF q
    <3>2. RoundOK(p, v, DOMAIN pools) /\ Len(p.vols) = Len(q.vols)
      BY <3>1, RefillOK, Zenon
    <3> HIDE DEF p
    <3> QED BY <3>1, <3>2, Zenon
  <2> QED BY <2>1, <2>5, Zenon
<1> HIDE DEF T
<1>5. \A i \in 0..N : i \in T
  BY ONLY <1>1, <1>3, <1>4, Induction, Zenon
<1>6. N \in 0..N
  BY <1>1, SMT
<1> QED BY <1>2, <1>5, <1>6, Zenon DEF T

(* The rounds of the second. *)
Extensions(pools, ord, r, base, from, f, n) ==
  f = [i \in 0..n |-> IF i = 0 THEN r ELSE Extend(pools, ord, f[i - 1], i, base, from)]

LEMMA ExtendedIs ==
  ASSUME NEW pools, NEW ord, NEW r, NEW base, NEW from
  PROVE  \E f : /\ Extensions(pools, ord, r, base, from, f, MaxVolCnt)
                /\ Extended(pools, ord, r, base, from) = f[MaxVolCnt]
<1> DEFINE N == MaxVolCnt
           T == {n \in 0..N : \E f : Extensions(pools, ord, r, base, from, f, n)}
<1>0. N \in Nat
  BY GroupAssumption
<1>1. 0 \in T
  <2>1. Extensions(pools, ord, r, base, from, [i \in 0..0 |-> r], 0)
    BY DEF Extensions
  <2> QED BY <1>0, <2>1
<1>2. ASSUME NEW n \in 1..N, n - 1 \in T
      PROVE  n \in T
  <2>1. PICK f : Extensions(pools, ord, r, base, from, f, n - 1)
    BY <1>2
  <2> DEFINE g == [i \in 0..n |-> IF i < n THEN f[i]
                                  ELSE Extend(pools, ord, f[n - 1], n, base, from)]
  <2>2. ASSUME NEW i \in 0..n
        PROVE  g[i] = IF i = 0 THEN r ELSE Extend(pools, ord, g[i - 1], i, base, from)
    <3>1. CASE i = n
      BY <3>1, <1>0
    <3>2. CASE i < n
      <4>1. i \in 0..(n - 1) /\ g[i] = f[i] /\ (i # 0 => g[i - 1] = f[i - 1])
        BY <3>2, <1>0, SMT
      <4>2. f[i] = IF i = 0 THEN r ELSE Extend(pools, ord, f[i - 1], i, base, from)
        BY <4>1, <2>1, Zenon DEF Extensions
      <4> HIDE DEF g
      <4> QED BY <4>1, <4>2, Zenon
    <3> QED BY <3>1, <3>2, <1>0
  <2>3. Extensions(pools, ord, r, base, from, g, n)
    BY <2>2, Zenon DEF Extensions
  <2> QED BY <2>3, <1>0
<1> HIDE DEF T
<1>3. N \in T
  <2>1. \A i \in 0..N : i \in T
    BY ONLY <1>0, <1>1, <1>2, Induction, Zenon
  <2> QED BY <2>1, <1>0, SMT
<1>4. \E f : Extensions(pools, ord, r, base, from, f, N)
  BY <1>3 DEF T
<1> DEFINE e == CHOOSE f : Extensions(pools, ord, r, base, from, f, N)
<1>5. Extensions(pools, ord, r, base, from, e, N)
  BY <1>4, Zenon
<1>6. Extended(pools, ord, r, base, from) = e[N]
  BY Zenon DEF Extended, Extensions
<1> QED BY <1>5, <1>6, Zenon

LEMMA ExtendedOK ==
  ASSUME NEW pools, PoolsOK(pools), NEW ord \in Seq(DOMAIN pools), NEW v, NEW r,
         RoundOK(r, v, DOMAIN pools), NEW base, NEW from
  PROVE  RoundOK(Extended(pools, ord, r, base, from), v, DOMAIN pools)
<1> DEFINE N == MaxVolCnt
<1>1. N \in Nat
  BY GroupAssumption
<1>2. PICK f : /\ Extensions(pools, ord, r, base, from, f, N)
               /\ Extended(pools, ord, r, base, from) = f[N]
  BY ExtendedIs, Zenon
<1> DEFINE T == {i \in 0..N : RoundOK(f[i], v, DOMAIN pools)}
<1>3. 0 \in T
  <2>1. 0 \in 0..N
    BY <1>1, SMT
  <2>2. f[0] = r
    BY <2>1, <1>2, Zenon DEF Extensions
  <2> QED BY <2>1, <2>2, Zenon
<1>4. ASSUME NEW i \in 1..N, i - 1 \in T
      PROVE  i \in T
  <2>1. i \in 0..N /\ i # 0
    BY <1>1, SMT
  <2>2. f[i] = Extend(pools, ord, f[i - 1], i, base, from)
    BY <2>1, <1>2, Zenon DEF Extensions
  <2>3. RoundOK(f[i - 1], v, DOMAIN pools)
    BY <1>4
  <2>4. RoundOK(f[i], v, DOMAIN pools)
    BY <2>2, <2>3, ExtendOK, Zenon
  <2> QED BY <2>1, <2>4, Zenon
<1> HIDE DEF T
<1>5. \A i \in 0..N : i \in T
  BY ONLY <1>1, <1>3, <1>4, Induction, Zenon
<1>6. N \in 0..N
  BY <1>1, SMT
<1> QED BY <1>2, <1>5, <1>6, Zenon DEF T

(* A group as it may be: entries apart, not too many, less than one alignment unit
   more than asked for. *)
LaidOut(v, S) == Apart(v, S) /\ Len(v) <= MaxVolCnt /\ Left(v) > -Align

LEMMA LaidOutFair ==
  ASSUME NEW v, NEW S, LaidOut(v, S)
  PROVE  Fair(v, S)
<1>1. Apart(v, S) /\ Len(v) <= MaxVolCnt /\ Left(v) > -Align
  BY Zenon DEF LaidOut
<1>2. Count(v) \in Nat /\ Count(v) <= Len(v) /\ Len(v) \in Nat
  BY <1>1, CountType, SeqDomain, Zenon DEF Apart, Sized
<1>3. MaxVolCnt \in Nat
  BY GroupAssumption
<1>4. Count(v) <= MaxVolCnt
  BY ONLY <1>1, <1>2, <1>3, SMT
<1> QED BY <1>1, <1>4, Zenon DEF Fair

(* What scheduling a group leaves when it succeeds, for every set of pools, every
   order of the nodes and every group that is laid out: no two entries with a
   place are on the same node, there are at most CountRange.Max of them, they
   exceed the requested size by less than one alignment unit, and an entry that
   had a place keeps its volume, its node and its size (schedVolGroup; its second
   loop shrinks its own bound, and sizes are rounded both ways). *)
THEOREM ScheduledApart ==
  ASSUME NEW pools, PoolsOK(pools), NEW v, LaidOut(v, DOMAIN pools), NEW from,
         NEW r \in ScheduleVolumeGroup(pools, v, from), ~r.err
  PROVE  /\ LaidOut(r.vols, DOMAIN pools)
         /\ \A i \in ScheduledAt(v) : \E k \in DOMAIN r.vols : r.vols[k] = v[i]
<1> DEFINE Still == \A i \in ScheduledAt(v) : \E k \in DOMAIN r.vols : r.vols[k] = v[i]
<1>1. CASE r.vols = v
  BY <1>1, Zenon DEF ScheduledAt
<1>2. ASSUME NEW ord \in SortedNodes(pools), r = schedVolGroup(pools, ord, v, from)
      PROVE  LaidOut(r.vols, DOMAIN pools) /\ Still
  <2>1. ord \in Seq(DOMAIN pools)
    BY OrderOK, Zenon DEF PoolsOK
  <2> DEFINE q == Refilled(pools, ord, v)
             e == Extended(pools, ord, q, Len(v), from)
  <2>2. RoundOK(q, v, DOMAIN pools)
    BY <2>1, LaidOutFair, RefilledOK, Zenon
  <2> HIDE DEF q
  <2>3. RoundOK(e, v, DOMAIN pools)
    BY <2>1, <2>2, ExtendedOK, Zenon
  <2>4. r = [e EXCEPT !.vols = Chosen(e.vols)]
    <3>1. r = IF e.err THEN e ELSE [e EXCEPT !.vols = Chosen(e.vols)]
      BY <1>2, Zenon DEF schedVolGroup, q
    <3> HIDE DEF e
    <3> QED BY <3>1, Zenon
  <2> HIDE DEF e
  <2>5. r.vols = Chosen(e.vols)
    BY <2>3, <2>4, Zenon DEF RoundOK, Results
  <2>6. Fair(e.vols, DOMAIN pools) /\ Stays(v, e.vols)
    BY <2>3, Zenon DEF RoundOK
  <2> DEFINE s == Chosen(e.vols)
  <2>7. /\ Apart(s, DOMAIN pools) /\ Len(s) = Count(e.vols)
        /\ \A j \in ScheduledAt(e.vols) : \E k \in DOMAIN s : s[k] = e.vols[j]
    BY <2>6, ChosenApart, Zenon DEF Fair
  <2>8. Left(s) = Left(e.vols)
    BY <2>6, ChosenLeft, Zenon DEF Fair
  <2> HIDE DEF s
  <2>9. LaidOut(s, DOMAIN pools)
    BY <2>6, <2>7, <2>8, Zenon DEF LaidOut, Fair
  <2>10. \A i \in ScheduledAt(v) : i \in ScheduledAt(e.vols) /\ e.vols[i] = v[i]
    BY <2>6, Zenon DEF Stays, ScheduledAt
  <2>11. \A i \in ScheduledAt(v) : \E k \in DOMAIN s : s[k] = v[i]
    BY <2>7, <2>10, Zenon
  <2> QED BY <2>5, <2>9, <2>11, Zenon DEF s
<1>3. \/ r.vols = v
      \/ \E ord \in SortedNodes(pools) : r = schedVolGroup(pools, ord, v, from)
  BY DEF ScheduleVolumeGroup
<1> QED BY <1>1, <1>2, <1>3, Zenon

-----------------------------------------------------------------------------
GroupFields == {"ex", "del", "fin", "vols", "st", "ready"}
VolumeFields == {"ex", "node", "size", "bound", "tgt", "ready", "msg", "del", "host"}
Controls == [ex : BOOLEAN, del : BOOLEAN, fin : BOOLEAN, target : BOOLEAN,
             lvm : SUBSET Ids, ready : BOOLEAN]

(* A group, as the API server has it or had it. *)
GroupOK(g) ==
  /\ DOMAIN g = GroupFields /\ {g.ex, g.del, g.fin, g.ready} \subseteq BOOLEAN
  /\ MemberIds(g) \subseteq Ids
  /\ ~NoEntries(g) => g.fin
  /\ g.del \/ g.ready \/ g.fin => g.ex
  /\ g.ready => /\ ~NoEntries(g) /\ SumSizes(g.vols) >= TotalSize
                /\ DOMAIN g.st = DOMAIN g.vols /\ \A i \in DOMAIN g.st : g.st[i].tgt

(* Member volumes, likewise. *)
VolumesOK(vs) ==
  /\ DOMAIN vs = Ids
  /\ \A v \in Ids : DOMAIN vs[v] = VolumeFields /\ (vs[v].ready => vs[v].tgt)

(* A data control, likewise. *)
ControlOK(d) ==
  /\ d \in Controls
  /\ d.ready => d.fin
  /\ d.del \/ d.lvm # {} => d.fin
  /\ d.fin => d.target
  /\ d.target => d.ex
  /\ ~d.ex => ~d.del /\ ~d.fin

ShapeInv ==
  /\ DOMAIN seen = {"grp", "dc", "vol"} /\ DOMAIN lvm = {"conn", "pv", "vg", "lv"}
  /\ DOMAIN agt = {"pc", "copy", "pvs"} /\ agt.pc \in {"idle", "build", "save", "status"}
  /\ GroupOK(grp) /\ GroupOK(seen.grp)
  /\ VolumesOK(vol) /\ VolumesOK(seen.vol)
  /\ ControlOK(dc) /\ ControlOK(seen.dc)

(* The client creates the pair once, the group first. *)
ClientInv ==
  /\ csi = "create" => ~dc.ex /\ ~seen.dc.ex /\ ~grp.del /\ ~seen.grp.del
  /\ csi = "create" /\ ~grp.ex => ~seen.grp.ex
  /\ csi \in {"create", "created"} => ~grp.del /\ ~seen.grp.del

(* A group that turned ready is not written any more, until it is gone. *)
ReadyInv ==
  seen.grp.ready => ~grp.ex \/ (grp.ready /\ grp.vols = seen.grp.vols)

(* A data control with a target is in the cache, and so is its ready group. *)
TargetInv ==
  dc.target => seen.dc.ex /\ (~grp.ex \/ (grp.ready /\ seen.grp.ready))

HostInv ==
  dc.target /\ grp.ex => \A v \in MemberIds(grp) : vol[v].ex => vol[v].host

(* The host has nothing before the data control has its target, and the agent
   works on the members of the group. *)
AgentInv ==
  /\ (dc.ex \/ csi = "create") /\ ~dc.target => agt = Idle /\ lvm = NoLvm
  /\ agt.pc # "idle" =>
       /\ agt.pvs # {} /\ agt.pvs \subseteq Ids /\ agt.copy.ex
       /\ dc.ex /\ grp.ex => agt.pvs = MemberIds(grp)
       /\ dc.ex => lvm.vg = {} \/ lvm.vg = agt.pvs
       /\ agt.pc \in {"build", "save"} => ~dc.fin
       /\ agt.pc = "status" => agt.copy.fin
       /\ agt.pc = "save" /\ dc.ex => lvm.lv /\ lvm.vg = agt.pvs

(* What the data control says it was built of is what it was built of, and that
   is the members, while there is a group. *)
LvmInv ==
  /\ lvm.vg \subseteq lvm.pv /\ (lvm.lv => lvm.vg # {})
  /\ dc.ex /\ grp.ex => lvm.vg = {} \/ lvm.vg = MemberIds(grp)
  /\ dc.fin /\ grp.ex => dc.lvm = MemberIds(grp)
  /\ dc.fin => lvm.vg = {} \/ lvm.vg = dc.lvm
  /\ dc.fin /\ ~dc.del => lvm.lv /\ lvm.vg = dc.lvm

(* A deletion of the group that looked the data control up runs after the
   client's, and has not missed it unless the cache lagged. *)
LookInv ==
  /\ look \in {"none", "gone", "lagged"}
  /\ look # "none" => csi \notin {"create", "created"}
  /\ look = "gone" => ~dc.ex

IInv == /\ ShapeInv /\ ClientInv /\ ReadyInv /\ TargetInv /\ HostInv /\ AgentInv /\ LvmInv

-----------------------------------------------------------------------------
(* Groups. *)

LEMMA NoGroupOK == GroupOK(NoGroup) /\ ~NoGroup.ex /\ ~NoGroup.ready /\ ~NoGroup.del
<1>1. /\ DOMAIN NoGroup = GroupFields
      /\ NoGroup.ex = FALSE /\ NoGroup.del = FALSE /\ NoGroup.fin = FALSE /\ NoGroup.ready = FALSE
      /\ NoGroup.vols = <<>>
  BY Zenon DEF NoGroup, GroupFields
<1>2. DOMAIN NoGroup.vols = {}
  <2>1. DOMAIN <<>> = {}
    OBVIOUS
  <2> QED BY <2>1, <1>1, Zenon
<1> QED BY <1>1, <1>2, Zenon DEF GroupOK, MemberIds, NoEntries

LEMMA NewGroupOK == GroupOK([NoGroup EXCEPT !.ex = TRUE]) /\ ~[NoGroup EXCEPT !.ex = TRUE].del
<1> DEFINE h == [NoGroup EXCEPT !.ex = TRUE]
<1>1. /\ DOMAIN h = GroupFields /\ h.ex = TRUE
      /\ h.del = FALSE /\ h.fin = FALSE /\ h.ready = FALSE /\ h.vols = NoGroup.vols
  BY Zenon DEF NoGroup, GroupFields
<1>2. MemberIds(h) \subseteq Ids /\ NoEntries(h)
  BY <1>1, NoGroupOK, Zenon DEF GroupOK, MemberIds, NoEntries, NoGroup
<1> HIDE DEF h
<1>3. GroupOK(h) /\ ~h.del
  BY <1>1, <1>2, Zenon DEF GroupOK
<1> QED BY <1>3 DEF h

LEMMA DeleteGroupOK ==
  ASSUME NEW g, GroupOK(g)
  PROVE  /\ GroupOK(DeleteGroup(g)) /\ (DeleteGroup(g).ex => g.ex)
         /\ g.fin => /\ DeleteGroup(g).ex = g.ex /\ DeleteGroup(g).ready = g.ready
                     /\ DeleteGroup(g).vols = g.vols
<1>1. CASE ~g.ex \/ g.fin
  <2> DEFINE h == [g EXCEPT !.del = g.ex]
  <2>1. /\ DOMAIN h = GroupFields /\ h.ex = g.ex /\ h.del = g.ex /\ h.fin = g.fin
        /\ h.ready = g.ready /\ h.vols = g.vols /\ h.st = g.st
    BY Zenon DEF GroupOK, GroupFields
  <2>2. DeleteGroup(g) = h
    BY <1>1, Zenon DEF DeleteGroup
  <2> HIDE DEF h
  <2>3. GroupOK(h)
    BY <2>1, Zenon DEF GroupOK, MemberIds, NoEntries
  <2> QED BY <2>1, <2>2, <2>3, Zenon
<1>2. CASE ~(~g.ex \/ g.fin)
  BY <1>2, NoGroupOK, Zenon DEF DeleteGroup
<1> QED BY <1>1, <1>2, Zenon

(* The writes of a pass: none of them touches ex or del. *)
LEMMA SyncedOK ==
  ASSUME GroupOK(seen.grp), Pass(seen.grp), VolumesOK(seen.vol)
  PROVE  GroupOK(Synced(seen.grp)) /\ ~Synced(seen.grp).del /\ Synced(seen.grp).ex
<1> DEFINE g == seen.grp
           h == [g EXCEPT !.st = StatusOf(g), !.ready = AllReady(g)]
<1>1. CASE NoEntries(g)
  BY <1>1, Zenon DEF Synced, Pass
<1>2. CASE ~NoEntries(g)
  <2>1. /\ DOMAIN h = GroupFields /\ h.ex = g.ex /\ h.del = g.del /\ h.fin = g.fin
        /\ h.ready = AllReady(g) /\ h.vols = g.vols /\ h.st = StatusOf(g)
    BY Zenon DEF GroupOK, GroupFields
  <2>2. Synced(g) = h
    BY <1>2, Zenon DEF Synced
  <2>3. /\ AllReady(g) \in BOOLEAN
        /\ AllReady(g) => /\ SumSizes(g.vols) >= TotalSize
                          /\ \A i \in DOMAIN g.vols : seen.vol[g.vols[i].id].ready
    BY Zenon DEF AllReady
  <2>4. /\ DOMAIN StatusOf(g) = DOMAIN g.vols
        /\ \A i \in DOMAIN g.vols : StatusOf(g)[i].tgt = seen.vol[g.vols[i].id].tgt
    BY Zenon DEF StatusOf
  <2>5. \A i \in DOMAIN g.vols : g.vols[i].id \in Ids
    BY Zenon DEF GroupOK, MemberIds
  <2>6. AllReady(g) => \A i \in DOMAIN StatusOf(g) : StatusOf(g)[i].tgt
    BY <2>3, <2>4, <2>5, Zenon DEF VolumesOK
  <2> HIDE DEF h
  <2>7. GroupOK(h)
    BY <1>2, <2>1, <2>3, <2>4, <2>6, Zenon DEF GroupOK, MemberIds, NoEntries
  <2> QED BY <2>1, <2>2, <2>7, Zenon DEF Pass
<1> QED BY <1>1, <1>2, Zenon

LEMMA RolledBackOK ==
  ASSUME NEW g, GroupOK(g), Pass(g), NEW S
  PROVE  GroupOK(RolledBack(g, S)) /\ ~RolledBack(g, S).del /\ RolledBack(g, S).ex
<1> DEFINE w == [i \in DOMAIN g.vols |->
                   IF i \in S THEN [id |-> g.vols[i].id, node |-> NoNode, size |-> 0]
                   ELSE g.vols[i]]
           h == [g EXCEPT !.vols = w]
<1>1. DOMAIN w = DOMAIN g.vols /\ \A i \in DOMAIN g.vols : w[i].id = g.vols[i].id
  BY Zenon
<1>2. RolledBack(g, S) = h
  BY Zenon DEF RolledBack
<1> HIDE DEF w
<1>3. /\ DOMAIN h = GroupFields /\ h.ex = g.ex /\ h.del = g.del /\ h.fin = g.fin
      /\ h.ready = g.ready /\ h.vols = w
  BY Zenon DEF GroupOK, GroupFields
<1> HIDE DEF h
<1>4. MemberIds(h) \subseteq Ids
  BY <1>1, <1>3, Zenon DEF GroupOK, MemberIds
<1>5. GroupOK(h)
  BY <1>1, <1>3, <1>4, Zenon DEF GroupOK, NoEntries, Pass
<1> QED BY <1>2, <1>3, <1>5, Zenon DEF Pass

LEMMA ScheduledOK ==
  ASSUME NEW g, GroupOK(g), Pass(g), NEW r, MemberIds(r) \subseteq Ids
  PROVE  /\ GroupOK([g EXCEPT !.vols = r.vols, !.fin = TRUE])
         /\ ~[g EXCEPT !.vols = r.vols, !.fin = TRUE].del
         /\ [g EXCEPT !.vols = r.vols, !.fin = TRUE].ex
<1> DEFINE h == [g EXCEPT !.vols = r.vols, !.fin = TRUE]
<1>1. /\ DOMAIN h = GroupFields /\ h.ex = g.ex /\ h.del = g.del /\ h.fin = TRUE
      /\ h.ready = g.ready /\ h.vols = r.vols
  BY Zenon DEF GroupOK, GroupFields
<1> HIDE DEF h
<1>2. GroupOK(h) /\ ~h.del /\ h.ex
  BY <1>1, Zenon DEF GroupOK, MemberIds, Pass
<1> QED BY <1>2 DEF h

-----------------------------------------------------------------------------
(* Volumes. *)

LEMMA NoVolumeOK ==
  /\ DOMAIN NoVolume = VolumeFields
  /\ ~NoVolume.ex /\ ~NoVolume.ready
BY Zenon DEF NoVolume, VolumeFields

LEMMA DeleteVolumeOK ==
  ASSUME NEW v, DOMAIN v = VolumeFields, v.ready => v.tgt
  PROVE  /\ DOMAIN DeleteVolume(v) = VolumeFields
         /\ DeleteVolume(v).ready => DeleteVolume(v).tgt
<1>1. CASE ~v.ex \/ v.bound
  <2>1. /\ DOMAIN [v EXCEPT !.del = v.ex] = VolumeFields
        /\ [v EXCEPT !.del = v.ex].ready = v.ready /\ [v EXCEPT !.del = v.ex].tgt = v.tgt
    BY Zenon DEF VolumeFields
  <2> QED BY <1>1, <2>1, Zenon DEF DeleteVolume
<1>2. CASE ~(~v.ex \/ v.bound)
  BY <1>2, NoVolumeOK, Zenon DEF DeleteVolume
<1> QED BY <1>1, <1>2, Zenon

(* ... and is either gone or keeps its host. *)
LEMMA DeleteVolumeHost ==
  ASSUME NEW v, DOMAIN v = VolumeFields, DeleteVolume(v).ex
  PROVE  v.ex /\ DeleteVolume(v).host = v.host
<1>1. CASE ~v.ex \/ v.bound
  <2>1. [v EXCEPT !.del = v.ex].ex = v.ex /\ [v EXCEPT !.del = v.ex].host = v.host
    BY Zenon DEF VolumeFields
  <2> QED BY <1>1, <2>1, Zenon DEF DeleteVolume
<1>2. CASE ~(~v.ex \/ v.bound)
  BY <1>2, NoVolumeOK, Zenon DEF DeleteVolume
<1> QED BY <1>1, <1>2, Zenon

LEMMA CreatedOK ==
  ASSUME NEW g, VolumesOK(vol)
  PROVE  VolumesOK(Created(g))
<1>1. ASSUME NEW v \in Ids
      PROVE  DOMAIN Created(g)[v] = VolumeFields /\ (Created(g)[v].ready => Created(g)[v].tgt)
  <2> DEFINE i == CHOOSE i \in DOMAIN g.vols : g.vols[i].id = v
             c == [NoVolume EXCEPT !.ex = TRUE, !.node = g.vols[i].node, !.size = g.vols[i].size]
  <2>1. Created(g)[v] = vol[v] \/ Created(g)[v] = c
    BY <1>1, Zenon DEF Created
  <2>2. DOMAIN c = VolumeFields /\ c.ready = FALSE
    BY Zenon DEF NoVolume, VolumeFields
  <2> HIDE DEF c
  <2> QED BY <1>1, <2>1, <2>2, Zenon DEF VolumesOK
<1>2. DOMAIN Created(g) = Ids
  BY Zenon DEF Created
<1> QED BY <1>1, <1>2, Zenon DEF VolumesOK

(* A field of one volume, or one volume, is written. *)
LEMMA VolumeWrittenOK ==
  ASSUME VolumesOK(vol), NEW v, NEW x, DOMAIN x = VolumeFields, x.ready => x.tgt
  PROVE  VolumesOK([vol EXCEPT ![v] = x])
<1> DEFINE w == [vol EXCEPT ![v] = x]
<1>1. DOMAIN w = Ids /\ \A u \in Ids : w[u] = vol[u] \/ w[u] = x
  BY Zenon DEF VolumesOK
<1> HIDE DEF w
<1>2. VolumesOK(w)
  BY <1>1, Zenon DEF VolumesOK
<1> QED BY <1>2 DEF w

-----------------------------------------------------------------------------
(* Data controls. *)

LEMMA NoControlOK == /\ ControlOK(NoControl)
                     /\ ~NoControl.ex /\ ~NoControl.target /\ ~NoControl.fin /\ ~NoControl.ready
<1>1. /\ NoControl \in Controls /\ NoControl.lvm = {}
      /\ ~NoControl.ex /\ ~NoControl.del /\ ~NoControl.fin /\ ~NoControl.target /\ ~NoControl.ready
  BY Zenon DEF NoControl, Controls
<1> QED BY <1>1, Zenon DEF ControlOK

LEMMA NewControlOK == /\ ControlOK([NoControl EXCEPT !.ex = TRUE])
                      /\ [NoControl EXCEPT !.ex = TRUE].ex
                      /\ ~[NoControl EXCEPT !.ex = TRUE].target
<1> DEFINE d == [NoControl EXCEPT !.ex = TRUE]
<1>1. NoControl \in Controls
  BY Zenon DEF NoControl, Controls
<1>2. /\ d \in Controls /\ d.ex = TRUE /\ d.del = FALSE /\ d.fin = FALSE /\ d.target = FALSE
      /\ d.lvm = {} /\ d.ready = FALSE
  BY <1>1, Zenon DEF NoControl, Controls
<1> HIDE DEF d
<1>3. ControlOK(d) /\ d.ex /\ ~d.target
  BY <1>2, Zenon DEF ControlOK
<1> QED BY <1>3 DEF d

LEMMA DeleteControlOK ==
  ASSUME NEW d, ControlOK(d)
  PROVE  /\ ControlOK(DeleteControl(d)) /\ (d.fin => DeleteControl(d).ex = d.ex)
         /\ ~DeleteControl(d).ex \/ (/\ d.fin /\ DeleteControl(d).fin = d.fin
                                     /\ DeleteControl(d).target = d.target
                                     /\ DeleteControl(d).ex = d.ex /\ DeleteControl(d).del
                                     /\ DeleteControl(d).lvm = d.lvm)
<1>1. CASE ~d.ex \/ d.fin
  <2> DEFINE e == [d EXCEPT !.del = d.ex]
  <2>1. d \in Controls
    BY Zenon DEF ControlOK
  <2>2. /\ e \in Controls /\ e.ex = d.ex /\ e.del = d.ex /\ e.fin = d.fin /\ e.target = d.target
        /\ e.lvm = d.lvm /\ e.ready = d.ready
    BY <2>1, Zenon DEF Controls
  <2>3. DeleteControl(d) = e
    BY <1>1, Zenon DEF DeleteControl
  <2> HIDE DEF e
  <2>4. ControlOK(e)
    BY <1>1, <2>2, Zenon DEF ControlOK
  <2> QED BY <1>1, <2>2, <2>3, <2>4, Zenon
<1>2. CASE ~(~d.ex \/ d.fin)
  BY <1>2, NoControlOK, Zenon DEF DeleteControl
<1> QED BY <1>1, <1>2, Zenon

(* The three writes of an existing data control. *)
LEMMA TargetWritten ==
  ASSUME NEW d, ControlOK(d), d.ex, ~d.target, NEW e, e = [d EXCEPT !.target = TRUE]
  PROVE  ControlOK(e) /\ e.target /\ e.ex /\ ~e.fin
<1>1. d \in Controls
  BY Zenon DEF ControlOK
<1>2. /\ e \in Controls /\ e.ex = d.ex /\ e.del = d.del /\ e.fin = d.fin /\ e.target = TRUE
      /\ e.lvm = d.lvm /\ e.ready = d.ready
  BY <1>1, Zenon DEF Controls
<1> QED BY <1>2, Zenon DEF ControlOK

SavedOK(e, pvs) == ControlOK(e) /\ e.target /\ e.ex /\ e.fin /\ e.lvm = pvs

LEMMA BuiltWritten ==
  ASSUME NEW d, ControlOK(d), d.ex, d.target, NEW pvs, pvs \subseteq Ids
  PROVE  SavedOK([d EXCEPT !.fin = TRUE, !.lvm = pvs], pvs)
<1> DEFINE e == [d EXCEPT !.fin = TRUE, !.lvm = pvs]
<1>1. d \in Controls
  BY Zenon DEF ControlOK
<1>2. /\ e \in Controls /\ e.ex = d.ex /\ e.del = d.del /\ e.fin = TRUE /\ e.target = d.target
      /\ e.lvm = pvs /\ e.ready = d.ready
  BY <1>1, Zenon DEF Controls
<1> HIDE DEF e
<1>3. SavedOK(e, pvs)
  BY <1>2, Zenon DEF ControlOK, SavedOK
<1> QED BY <1>3 DEF e

LEMMA ReadyWritten ==
  ASSUME NEW d, ControlOK(d), d.fin, NEW e, e = [d EXCEPT !.ready = TRUE]
  PROVE  ControlOK(e) /\ e.target /\ e.ex = d.ex /\ e.fin /\ e.lvm = d.lvm /\ e.del = d.del
<1>1. d \in Controls
  BY Zenon DEF ControlOK
<1>2. /\ e \in Controls /\ e.ex = d.ex /\ e.del = d.del /\ e.fin = d.fin /\ e.target = d.target
      /\ e.lvm = d.lvm /\ e.ready = TRUE
  BY <1>1, Zenon DEF Controls
<1> QED BY <1>2, Zenon DEF ControlOK

-----------------------------------------------------------------------------
(* The host. *)

LvmFields == {"conn", "pv", "vg", "lv"}

(* What a pass of the agent that builds has done after k steps: the VG is there
   or, if it was missing, is made of all the PVs, and the LV is made last. *)
LEMMA BuiltResult ==
  ASSUME NEW l, DOMAIN l = LvmFields, l.vg \subseteq l.pv, l.lv => l.vg # {},
         NEW pvs, pvs # {}, NEW k \in 0..4
  PROVE  /\ DOMAIN Built(l, pvs, k) = LvmFields
         /\ Built(l, pvs, k).vg \subseteq Built(l, pvs, k).pv
         /\ Built(l, pvs, k).lv => Built(l, pvs, k).vg # {}
         /\ Built(l, pvs, k).vg = l.vg \/ (l.vg = {} /\ Built(l, pvs, k).vg = pvs)
         /\ k = 4 => Built(l, pvs, k).lv /\ Built(l, pvs, k).vg # {}
<1> DEFINE connected == ConnectTargets(l, pvs)
           withPVs == CreatePV(connected, pvs \ ListPV(l))
           withVG == IF ListVG(l) # {} THEN withPVs ELSE CreateVG(withPVs, pvs)
           withLV == CreateLinearLV(withVG)
<1>0. Built(l, pvs, k) = <<l, connected, withPVs, withVG, withLV>>[k + 1]
  BY Zenon DEF Built
<1>1. DOMAIN connected = LvmFields /\ connected.pv = l.pv /\ connected.vg = l.vg /\ connected.lv = l.lv
  BY Zenon DEF ConnectTargets, LvmFields
<1> HIDE DEF connected
<1>2. /\ DOMAIN withPVs = LvmFields /\ withPVs.pv = connected.pv \cup (pvs \ ListPV(l))
      /\ withPVs.vg = connected.vg /\ withPVs.lv = connected.lv
  BY <1>1, Zenon DEF CreatePV, LvmFields
<1> HIDE DEF withPVs
<1>3. /\ DOMAIN CreateVG(withPVs, pvs) = LvmFields /\ CreateVG(withPVs, pvs).pv = withPVs.pv
      /\ CreateVG(withPVs, pvs).vg = pvs /\ CreateVG(withPVs, pvs).lv = withPVs.lv
  BY <1>2, Zenon DEF CreateVG, LvmFields
<1>4. ListVG(l) # {} <=> l.vg # {}
  BY Zenon DEF ListVG
<1>5. pvs \subseteq withPVs.pv /\ l.vg \subseteq withPVs.pv
  BY <1>1, <1>2, Zenon DEF ListPV
<1>6. /\ DOMAIN withVG = LvmFields /\ withVG.vg \subseteq withVG.pv /\ withVG.vg # {}
      /\ withVG.vg = l.vg \/ (l.vg = {} /\ withVG.vg = pvs)
  BY <1>1, <1>2, <1>3, <1>4, <1>5, Zenon
<1> HIDE DEF withVG
<1>7. /\ DOMAIN withLV = LvmFields /\ withLV.pv = withVG.pv /\ withLV.vg = withVG.vg
      /\ withLV.lv = TRUE
  BY <1>6, Zenon DEF CreateLinearLV, LvmFields
<1> HIDE DEF withLV
<1>8. CASE k = 0
  <2>1. Built(l, pvs, k) = l /\ k # 4
    BY <1>0, <1>8
  <2> QED BY <2>1, Zenon
<1>9. CASE k = 1
  <2>1. Built(l, pvs, k) = connected /\ k # 4
    BY <1>0, <1>9
  <2> QED BY <2>1, <1>1, Zenon
<1>10. CASE k = 2
  <2>1. Built(l, pvs, k) = withPVs /\ k # 4
    BY <1>0, <1>10
  <2> QED BY <2>1, <1>1, <1>2, <1>5, Zenon
<1>11. CASE k = 3
  <2>1. Built(l, pvs, k) = withVG /\ k # 4
    BY <1>0, <1>11
  <2> QED BY <2>1, <1>6, Zenon
<1>12. CASE k = 4
  <2>1. Built(l, pvs, k) = withLV
    BY <1>0, <1>12
  <2> QED BY <2>1, <1>6, <1>7, Zenon
<1> QED BY <1>8, <1>9, <1>10, <1>11, <1>12

(* What a pass that tears down has done after k steps: no PV is removed that is
   still in the VG, and a pass that gets to its end with one of the two listings
   leaves no VG. *)
TornOK(t, l, pvs, unlisted, k) ==
  /\ DOMAIN t = LvmFields /\ t.vg \subseteq t.pv /\ (t.lv => t.vg # {})
  /\ t.vg = {} \/ t.vg = l.vg
  /\ k = 4 /\ l.vg \subseteq pvs /\ unlisted # {"VG", "PV"} => t.vg = {} /\ ~t.lv

LEMMA TornResult ==
  ASSUME NEW l, DOMAIN l = LvmFields, l.vg \subseteq l.pv, l.lv => l.vg # {},
         NEW pvs, NEW kept, NEW k \in 0..4, NEW unlisted, unlisted \subseteq {"VG", "PV"},
         k >= 2 => toDelDevs(l, pvs, unlisted) \cap WithoutVG(l, unlisted).vg = {}
  PROVE  TornOK(Torn(l, pvs, unlisted, k, kept), l, pvs, unlisted, k)
<1> DEFINE withoutVG == WithoutVG(l, unlisted)
           devs == toDelDevs(l, pvs, unlisted)
           withoutPVs == RemovePVs(withoutVG, devs)
           cut == DisconnectTargets(withoutPVs, pvs \ kept)
           t == Torn(l, pvs, unlisted, k, kept)
<1>0. t = <<l, withoutVG, withoutPVs, cut, cut>>[k + 1]
  BY Zenon DEF Torn
<1>1. /\ DOMAIN RemoveVG(l) = LvmFields /\ RemoveVG(l).pv = l.pv
      /\ RemoveVG(l).vg = {} /\ RemoveVG(l).lv = FALSE
  BY Zenon DEF RemoveVG, LvmFields
<1>2. ListVG(l) # {} <=> l.vg # {}
  BY Zenon DEF ListVG
<1>3. /\ DOMAIN withoutVG = LvmFields /\ withoutVG.pv = l.pv
      /\ withoutVG.lv => withoutVG.vg # {}
      /\ withoutVG.vg = {} \/ withoutVG.vg = l.vg
      /\ "VG" \notin unlisted => withoutVG.vg = {}
  BY <1>1, <1>2, Zenon DEF WithoutVG
<1>4. "PV" \notin unlisted => devs = pvs \cap l.pv
  BY Zenon DEF toDelDevs, ListPV
<1> HIDE DEF withoutVG, devs
<1>5. /\ DOMAIN withoutPVs = LvmFields /\ withoutPVs.pv = withoutVG.pv \ devs
      /\ withoutPVs.vg = withoutVG.vg /\ withoutPVs.lv = withoutVG.lv
  BY <1>3, Zenon DEF RemovePVs, LvmFields
<1> HIDE DEF withoutPVs
<1>6. /\ DOMAIN cut = LvmFields /\ cut.pv = withoutPVs.pv
      /\ cut.vg = withoutPVs.vg /\ cut.lv = withoutPVs.lv
  BY <1>5, Zenon DEF DisconnectTargets, LvmFields
<1> SUFFICES TornOK(t, l, pvs, unlisted, k)
  OBVIOUS
<1> HIDE DEF cut, t
<1>7. k >= 2 => devs \cap withoutVG.vg = {}
  BY DEF devs, withoutVG
<1>8. k >= 2 => withoutPVs.vg \subseteq withoutPVs.pv
  BY <1>3, <1>5, <1>7, Zenon
<1>9. k >= 2 /\ l.vg \subseteq pvs /\ unlisted # {"VG", "PV"} => withoutVG.vg = {}
  <2>1. unlisted # {"VG", "PV"} => "VG" \notin unlisted \/ "PV" \notin unlisted
    BY Zenon
  <2>2. CASE "VG" \notin unlisted
    BY <2>2, <1>3, Zenon
  <2>3. CASE "PV" \notin unlisted
    BY <2>3, <1>3, <1>4, <1>7, Zenon
  <2> QED BY <2>1, <2>2, <2>3, Zenon
<1>10. CASE k = 0
  <2>1. t = l /\ k # 4
    BY <1>0, <1>10
  <2> QED BY <2>1, Zenon DEF TornOK
<1>11. CASE k = 1
  <2>1. t = withoutVG /\ k # 4
    BY <1>0, <1>11
  <2> QED BY <2>1, <1>3, Zenon DEF TornOK
<1>12. CASE k = 2
  <2>1. t = withoutPVs /\ k # 4 /\ k >= 2
    BY <1>0, <1>12
  <2> QED BY <2>1, <1>3, <1>5, <1>8, Zenon DEF TornOK
<1>13. CASE k = 3 \/ k = 4
  <2>1. t = cut /\ k >= 2
    BY <1>0, <1>13
  <2> QED BY <2>1, <1>3, <1>5, <1>6, <1>8, <1>9, Zenon DEF TornOK
<1> QED BY <1>10, <1>11, <1>12, <1>13

-----------------------------------------------------------------------------
(* What a step may write, by the variables it leaves alone. *)

LEMMA Shapes ==
  ASSUME ShapeInv
  PROVE  /\ DOMAIN seen = {"grp", "dc", "vol"} /\ DOMAIN lvm = LvmFields
         /\ DOMAIN agt = {"pc", "copy", "pvs"}
         /\ GroupOK(grp) /\ GroupOK(seen.grp) /\ VolumesOK(vol) /\ VolumesOK(seen.vol)
         /\ ControlOK(dc) /\ ControlOK(seen.dc)
BY Zenon DEF ShapeInv, LvmFields

LEMMA NothingYet ==
  /\ DOMAIN Idle = {"pc", "copy", "pvs"} /\ Idle.pc = "idle"
  /\ DOMAIN NoLvm = LvmFields /\ NoLvm.vg = {} /\ NoLvm.pv = {} /\ NoLvm.lv = FALSE
BY Zenon DEF Idle, NoLvm, LvmFields

(* Nothing but the member volumes. *)
LEMMA VolumesWritten ==
  ASSUME IInv, UNCHANGED <<csi, grp, dc, seen, agt, lvm>>, VolumesOK(vol'),
         dc.target /\ grp.ex => \A v \in Ids : vol'[v].ex => vol[v].ex /\ vol'[v].host = vol[v].host
  PROVE  IInv'
<1>1. ShapeInv'
  BY Zenon DEF IInv, ShapeInv
<1>2. HostInv'
  <2>1. dc.target /\ grp.ex => MemberIds(grp) \subseteq Ids
    BY Zenon DEF IInv, ShapeInv, GroupOK
  <2>2. MemberIds(grp') = MemberIds(grp)
    BY Zenon
  <2> QED BY <2>1, <2>2, Zenon DEF IInv, HostInv
<1>3. ClientInv' /\ ReadyInv' /\ TargetInv'
  BY Zenon DEF IInv, ClientInv, ReadyInv, TargetInv
<1>4. AgentInv' /\ LvmInv'
  BY Zenon DEF IInv, AgentInv, LvmInv
<1> QED BY <1>1, <1>2, <1>3, <1>4, Zenon DEF IInv

(* The group, and members with it, before the data control has its target. *)
LEMMA GroupWritten ==
  ASSUME IInv, UNCHANGED <<csi, dc, seen, agt, lvm>>, GroupOK(grp'), VolumesOK(vol'),
         ~(dc.target /\ grp'.ex), grp'.ex => grp.ex, seen.grp.ready => ~grp'.ex,
         csi \in {"create", "created"} => ~grp'.del,
         csi = "create" => grp'.ex \/ ~seen.grp.ex
  PROVE  IInv'
<1>1. ShapeInv'
  BY Zenon DEF IInv, ShapeInv
<1>2. HostInv' /\ ReadyInv' /\ TargetInv'
  BY Zenon DEF IInv, HostInv, ReadyInv, TargetInv
<1>3. ClientInv'
  BY Zenon DEF IInv, ClientInv
<1>4. grp'.ex => ~dc.fin /\ (dc.ex => agt.pc = "idle" /\ lvm.vg = {})
  <2>1. dc.ex /\ ~dc.target => agt.pc = "idle" /\ lvm.vg = {}
    BY NothingYet, Zenon DEF IInv, AgentInv
  <2>2. dc.fin => dc.target
    BY Zenon DEF IInv, ShapeInv, ControlOK
  <2> QED BY <2>1, <2>2, Zenon
<1>5. AgentInv'
  BY <1>4, Zenon DEF IInv, AgentInv
<1>6. LvmInv'
  BY <1>4, Zenon DEF IInv, LvmInv
<1> QED BY <1>1, <1>2, <1>3, <1>5, <1>6, Zenon DEF IInv

-----------------------------------------------------------------------------
(* The client. *)

LEMMA CreateVolumeGroupKeeps ==
  ASSUME IInv, CreateVolumeGroup
  PROVE  IInv'
<1>0. /\ csi = "create" /\ ~grp.ex /\ grp' = [NoGroup EXCEPT !.ex = TRUE]
      /\ UNCHANGED <<csi, dc, vol, seen, agt, lvm>>
  BY Zenon DEF CreateVolumeGroup
<1>1. ~dc.ex /\ ~seen.grp.ex /\ ~dc.target /\ ~dc.fin /\ ~seen.grp.ready /\ ~seen.grp.del
  BY <1>0, Zenon DEF IInv, ClientInv, ShapeInv, ControlOK, GroupOK
<1>2. GroupOK(grp') /\ ~grp'.del
  BY <1>0, NewGroupOK, Zenon
<1>3. ShapeInv'
  BY <1>0, <1>2, Zenon DEF IInv, ShapeInv
<1>4. ClientInv' /\ ReadyInv' /\ TargetInv' /\ HostInv'
  BY <1>0, <1>1, <1>2, Zenon DEF IInv, ClientInv, ReadyInv, TargetInv, HostInv
<1>5. AgentInv' /\ LvmInv'
  BY <1>0, <1>1, Zenon DEF IInv, AgentInv, LvmInv
<1> QED BY <1>3, <1>4, <1>5, Zenon DEF IInv

LEMMA CreateDataControlKeeps ==
  ASSUME IInv, CreateDataControl
  PROVE  IInv'
<1>0. /\ csi = "create" /\ csi' = "created" /\ dc' = [NoControl EXCEPT !.ex = TRUE]
      /\ UNCHANGED <<grp, vol, seen, agt, lvm>>
  BY Zenon DEF CreateDataControl
<1>1. ~dc.ex /\ ~dc.target /\ agt = Idle /\ lvm = NoLvm
  <2>1. ~dc.ex /\ ~dc.target
    BY <1>0, Zenon DEF IInv, ClientInv, ShapeInv, ControlOK
  <2> QED BY <1>0, <2>1, Zenon DEF IInv, AgentInv
<1>2. ControlOK(dc') /\ dc'.ex /\ ~dc'.target /\ ~dc'.fin
  BY <1>0, NewControlOK, Zenon DEF ControlOK
<1>3. ShapeInv'
  BY <1>0, <1>2, Zenon DEF IInv, ShapeInv
<1>4. ClientInv' /\ ReadyInv' /\ TargetInv' /\ HostInv'
  BY <1>0, <1>1, <1>2, Zenon DEF IInv, ClientInv, ReadyInv, TargetInv, HostInv
<1>5. AgentInv' /\ LvmInv'
  BY <1>0, <1>1, <1>2, NothingYet, Zenon DEF IInv, AgentInv, LvmInv
<1> QED BY <1>3, <1>4, <1>5, Zenon DEF IInv

(* A group whose data control has its target has the finalizer. *)
LEMMA DeletePVGroupKeeps ==
  ASSUME IInv, DeletePVGroup
  PROVE  IInv'
<1>0. /\ csi = "created" /\ csi' = "delete" /\ grp' = DeleteGroup(grp)
      /\ UNCHANGED <<dc, vol, seen, agt, lvm>>
  BY Zenon DEF DeletePVGroup
<1>1. GroupOK(grp)
  BY Shapes, Zenon DEF IInv
<1>2. /\ GroupOK(grp') /\ (grp'.ex => grp.ex)
      /\ grp.fin => grp'.ex = grp.ex /\ grp'.ready = grp.ready /\ grp'.vols = grp.vols
  BY <1>0, <1>1, DeleteGroupOK, Zenon
<1>3. ShapeInv'
  BY <1>0, <1>2, Zenon DEF IInv, ShapeInv
<1>4. /\ grp.ready => grp.fin
      /\ ~grp.fin => ~grp.ready /\ MemberIds(grp) = {}
  BY <1>1, Zenon DEF GroupOK, NoEntries, MemberIds
<1>5. grp.fin => MemberIds(grp') = MemberIds(grp)
  BY <1>2, Zenon DEF MemberIds
<1>6. ClientInv' /\ ReadyInv' /\ TargetInv'
  <2>1. ClientInv'
    BY <1>0, Zenon DEF IInv, ClientInv
  <2>2. ReadyInv' /\ TargetInv'
    BY <1>0, <1>2, <1>4, Zenon DEF IInv, ReadyInv, TargetInv
  <2> QED BY <2>1, <2>2
<1>7. dc.target /\ grp.ex => grp.fin
  BY <1>4, Zenon DEF IInv, TargetInv
<1>8. HostInv'
  BY <1>0, <1>2, <1>5, <1>7, Zenon DEF IInv, HostInv
<1>9. dc.ex /\ agt.pc # "idle" => dc.target
  BY NothingYet, Zenon DEF IInv, AgentInv
<1>10. AgentInv'
  <2>1. CASE grp.fin
    BY <2>1, <1>0, <1>2, <1>5, Zenon DEF IInv, AgentInv
  <2>2. CASE ~grp.fin
    <3>1. ~(dc.ex /\ grp'.ex /\ agt.pc # "idle")
      BY <2>2, <1>2, <1>7, <1>9, Zenon
    <3>2. csi' # "create"
      BY <1>0
    <3> QED BY <3>1, <3>2, <1>0, Zenon DEF IInv, AgentInv
  <2> QED BY <2>1, <2>2, Zenon
<1>11. LvmInv'
  <2>1. CASE grp.fin
    BY <2>1, <1>0, <1>2, <1>5, Zenon DEF IInv, LvmInv
  <2>2. CASE ~grp.fin
    <3>1. grp'.ex => ~dc.fin
      BY <2>2, <1>2, <1>7, Zenon DEF IInv, ShapeInv, ControlOK
    <3>2. dc.ex /\ grp'.ex => lvm.vg = {}
      BY <2>2, <1>2, <1>4, Zenon DEF IInv, LvmInv
    <3> QED BY <3>1, <3>2, <1>0, Zenon DEF IInv, LvmInv
  <2> QED BY <2>1, <2>2, Zenon
<1> QED BY <1>3, <1>6, <1>8, <1>10, <1>11, Zenon DEF IInv

LEMMA DeletePVControlKeeps ==
  ASSUME IInv, DeletePVControl
  PROVE  IInv'
<1>0. /\ csi = "delete" /\ csi' = "deleted" /\ dc' = DeleteControl(dc)
      /\ UNCHANGED <<grp, vol, seen, agt, lvm>>
  BY Zenon DEF DeletePVControl
<1>1. /\ ControlOK(dc')
      /\ ~dc'.ex \/ (/\ dc.fin /\ dc'.fin = dc.fin /\ dc'.target = dc.target
                     /\ dc'.ex = dc.ex /\ dc'.del /\ dc'.lvm = dc.lvm)
  BY <1>0, Shapes, DeleteControlOK, Zenon DEF IInv
<1>2. dc'.target \/ dc'.fin => dc'.ex
  BY <1>1, Zenon DEF ControlOK
<1>3. ShapeInv'
  BY <1>0, <1>1, Zenon DEF IInv, ShapeInv
<1>4. ClientInv' /\ ReadyInv' /\ TargetInv' /\ HostInv'
  BY <1>0, <1>1, <1>2, Zenon DEF IInv, ClientInv, ReadyInv, TargetInv, HostInv
<1>5. AgentInv'
  BY <1>0, <1>1, <1>2, Zenon DEF IInv, AgentInv
<1>6. LvmInv'
  BY <1>0, <1>1, <1>2, Zenon DEF IInv, LvmInv
<1> QED BY <1>3, <1>4, <1>5, <1>6, Zenon DEF IInv

-----------------------------------------------------------------------------
(* The informers. *)

LEMMA ObserveKeeps ==
  ASSUME IInv, Observe
  PROVE  IInv'
<1>0. /\ UNCHANGED <<csi, grp, dc, vol, agt, lvm>>
      /\ \/ seen' = [seen EXCEPT !.grp = grp] \/ seen' = [seen EXCEPT !.dc = dc]
         \/ seen' = [seen EXCEPT !.vol = vol]
  BY Zenon DEF Observe, api
<1>1. /\ DOMAIN seen' = {"grp", "dc", "vol"}
      /\ \/ seen'.grp = grp /\ seen'.dc = seen.dc /\ seen'.vol = seen.vol
         \/ seen'.grp = seen.grp /\ seen'.dc = dc /\ seen'.vol = seen.vol
         \/ seen'.grp = seen.grp /\ seen'.dc = seen.dc /\ seen'.vol = vol
  BY <1>0, Shapes, Zenon DEF IInv
<1>2. ShapeInv'
  BY <1>0, <1>1, Zenon DEF IInv, ShapeInv
<1>3. ClientInv' /\ ReadyInv' /\ HostInv'
  BY <1>0, <1>1, Zenon DEF IInv, ClientInv, ReadyInv, HostInv
<1>4. TargetInv'
  <2>1. dc.target => dc.ex
    BY Zenon DEF IInv, ShapeInv, ControlOK
  <2> QED BY <2>1, <1>0, <1>1, Zenon DEF IInv, TargetInv
<1>5. AgentInv' /\ LvmInv'
  BY <1>0, Zenon DEF IInv, AgentInv, LvmInv
<1> QED BY <1>2, <1>3, <1>4, <1>5, Zenon DEF IInv

-----------------------------------------------------------------------------
(* The group reconciler. *)

(* A pass over a group that is still there means that the data control has no
   target: the cache that had the ready group has it still. *)
LEMMA PassBeforeTarget ==
  ASSUME IInv, Pass(seen.grp)
  PROVE  ~(dc.target /\ grp.ex) /\ ~seen.grp.ready /\ ~seen.grp.del /\ seen.grp.ex
BY Zenon DEF IInv, TargetInv, Pass

LEMMA PassKeeps ==
  ASSUME IInv, Pass(seen.grp), UNCHANGED groupOnly, VolumesOK(vol'),
         NEW g, GroupOK(g), ~g.del, g.ex, UpdateGroup(g) \/ UNCHANGED grp
  PROVE  IInv'
<1>0. UNCHANGED <<csi, dc, seen, agt, lvm>>
  BY Zenon DEF groupOnly
<1>1. ~(dc.target /\ grp.ex) /\ ~seen.grp.ready /\ ~seen.grp.del /\ seen.grp.ex
  BY PassBeforeTarget, Zenon
<1>2. grp' = grp \/ (grp' = g /\ seen.grp = grp)
  BY Zenon DEF UpdateGroup
<1>3. GroupOK(grp)
  BY Shapes, Zenon DEF IInv
<1>4. GroupOK(grp') /\ grp'.ex = grp.ex /\ (grp'.del => grp.del)
  <2>1. grp' = g /\ seen.grp = grp => g.ex = grp.ex
    BY <1>1, <1>3, Zenon DEF GroupOK
  <2> QED BY <1>2, <1>3, <2>1, Zenon
<1>5. csi \in {"create", "created"} => ~grp'.del
  BY <1>4, Zenon DEF IInv, ClientInv
<1>6. csi = "create" => grp'.ex \/ ~seen.grp.ex
  BY <1>4, Zenon DEF IInv, ClientInv
<1> QED BY <1>0, <1>1, <1>4, <1>5, <1>6, GroupWritten, Zenon

LEMMA SyncVolumesKeeps ==
  ASSUME IInv, SyncVolumes
  PROVE  IInv'
<1>0. /\ Pass(seen.grp) /\ vol' = Created(seen.grp) /\ UpdateGroup(Synced(seen.grp))
      /\ UNCHANGED groupOnly
  BY Zenon DEF SyncVolumes
<1>1. GroupOK(Synced(seen.grp)) /\ ~Synced(seen.grp).del /\ Synced(seen.grp).ex
  BY <1>0, Shapes, SyncedOK, Zenon DEF IInv
<1>2. VolumesOK(vol')
  BY <1>0, Shapes, CreatedOK, Zenon DEF IInv
<1> QED BY <1>0, <1>1, <1>2, PassKeeps, Zenon

LEMMA RollbackUnrecoverableKeeps ==
  ASSUME IInv, RollbackUnrecoverable
  PROVE  IInv'
<1> DEFINE S == Failed(seen.grp)
           gone == {v \in {seen.grp.vols[i].id : i \in S} : seen.vol[v].ex}
           before == Created(seen.grp)
<1>0. /\ Pass(seen.grp)
      /\ vol' = [v \in Ids |-> IF v \in gone THEN DeleteVolume(before[v]) ELSE before[v]]
      /\ UpdateGroup(RolledBack(seen.grp, S)) \/ grp' = grp
      /\ UNCHANGED groupOnly
  BY Zenon DEF RollbackUnrecoverable
<1>1. GroupOK(RolledBack(seen.grp, S)) /\ ~RolledBack(seen.grp, S).del /\ RolledBack(seen.grp, S).ex
  BY <1>0, Shapes, RolledBackOK, Zenon DEF IInv
<1>2. VolumesOK(before)
  BY Shapes, CreatedOK, Zenon DEF IInv
<1> HIDE DEF before, gone
<1>3. DOMAIN vol' = Ids /\ \A v \in Ids : vol'[v] = before[v] \/ vol'[v] = DeleteVolume(before[v])
  BY <1>0, Zenon
<1>4. ASSUME NEW v \in Ids
      PROVE  DOMAIN vol'[v] = VolumeFields /\ (vol'[v].ready => vol'[v].tgt)
  <2>1. DOMAIN before[v] = VolumeFields /\ (before[v].ready => before[v].tgt)
    BY <1>2, Zenon DEF VolumesOK
  <2> QED BY <1>3, <2>1, DeleteVolumeOK, Zenon
<1>5. VolumesOK(vol')
  BY <1>3, <1>4, Zenon DEF VolumesOK
<1> HIDE DEF S
<1> QED BY <1>0, <1>1, <1>5, PassKeeps, Zenon

LEMMA ScheduleVolGroupKeeps ==
  ASSUME IInv, ScheduleVolGroup
  PROVE  IInv'
<1>0. Pass(seen.grp) /\ vol' = Created(seen.grp) /\ UNCHANGED groupOnly
  BY Zenon DEF ScheduleVolGroup
<1>1. PICK r : \/ UNCHANGED grp
               \/ /\ MemberIds(r) \subseteq Ids
                  /\ UpdateGroup([seen.grp EXCEPT !.vols = r.vols, !.fin = TRUE])
  BY Zenon DEF ScheduleVolGroup
<1>2. VolumesOK(vol')
  BY <1>0, Shapes, CreatedOK, Zenon DEF IInv
<1>3. GroupOK(seen.grp) /\ seen.grp.ex /\ ~seen.grp.del
  BY <1>0, Shapes, Zenon DEF IInv, Pass
<1>4. CASE UNCHANGED grp
  BY <1>0, <1>2, <1>3, <1>4, PassKeeps, Zenon
<1>5. CASE /\ MemberIds(r) \subseteq Ids
           /\ UpdateGroup([seen.grp EXCEPT !.vols = r.vols, !.fin = TRUE])
  <2> DEFINE h == [seen.grp EXCEPT !.vols = r.vols, !.fin = TRUE]
  <2>1. GroupOK(h) /\ ~h.del /\ h.ex
    BY <1>0, <1>3, <1>5, ScheduledOK, Zenon
  <2>2. UpdateGroup(h)
    BY <1>5
  <2> HIDE DEF h
  <2> QED BY <1>0, <1>2, <2>1, <2>2, PassKeeps, Zenon
<1> QED BY <1>1, <1>4, <1>5, Zenon

(* The deletion of the group, which a lagging cache lets run beside a data
   control that has its target. *)
LEMMA HandleDeletionKeeps ==
  ASSUME IInv, LookInv, HandleDeletion
  PROVE  IInv'
<1>0. /\ UNCHANGED <<csi, dc, seen, agt, lvm>> /\ csi \notin {"create", "created"}
      /\ \/ grp' = grp /\ \E u : vol' = [vol EXCEPT ![u] = DeleteVolume(vol[u])]
         \/ UpdateGroup(NoGroup) /\ vol' = vol
  BY Zenon DEF HandleDeletion, LookInv
<1>1. VolumesOK(vol)
  BY Shapes, Zenon DEF IInv
<1>2. CASE grp' = grp /\ \E u : vol' = [vol EXCEPT ![u] = DeleteVolume(vol[u])]
  <2>1. PICK u : vol' = [vol EXCEPT ![u] = DeleteVolume(vol[u])]
    BY <1>2, Zenon
  <2>2. DOMAIN vol' = Ids /\ \A v \in Ids : vol'[v] = vol[v] \/ vol'[v] = DeleteVolume(vol[v])
    BY <2>1, <1>1, Zenon DEF VolumesOK
  <2>3. VolumesOK(vol')
    BY <2>2, <1>1, DeleteVolumeOK, Zenon DEF VolumesOK
  <2>4. ASSUME NEW v \in Ids, vol'[v].ex PROVE vol[v].ex /\ vol'[v].host = vol[v].host
    <3>1. DOMAIN vol[v] = VolumeFields
      BY <1>1, Zenon DEF VolumesOK
    <3> QED BY <3>1, <2>2, <2>4, DeleteVolumeHost, Zenon
  <2> QED BY <2>3, <2>4, <1>0, <1>2, VolumesWritten, Zenon
<1>3. CASE UpdateGroup(NoGroup) /\ vol' = vol
  <2>1. CASE grp' = grp
    BY <2>1, <1>0, <1>1, <1>3, VolumesWritten, Zenon
  <2>2. CASE grp' = NoGroup
    BY <2>2, <1>0, <1>1, <1>3, NoGroupOK, GroupWritten, Zenon
  <2> QED BY <1>3, <2>1, <2>2, Zenon DEF UpdateGroup
<1> QED BY <1>0, <1>2, <1>3, Zenon

LEMMA LookUpKeeps ==
  ASSUME IInv, LookUpDataControl
  PROVE  IInv'
<1>1. UNCHANGED <<csi, grp, dc, vol, seen, agt, lvm>>
  BY Zenon DEF LookUpDataControl, api
<1>2. VolumesOK(vol)
  BY Shapes, Zenon DEF IInv
<1> QED BY <1>1, <1>2, VolumesWritten, Zenon

-----------------------------------------------------------------------------
(* The data-control reconciler. *)

LEMMA ReconcileDataControlKeeps ==
  ASSUME IInv, ReconcileDataControl
  PROVE  /\ IInv' /\ (dc.ex => dc'.ex)
         /\ \A v \in Ids : vol'[v].ex = vol[v].ex /\ vol'[v].del = vol[v].del
<1>0. /\ seen.dc.ex /\ ~seen.dc.target /\ seen.grp.ex /\ seen.grp.ready
      /\ UNCHANGED <<csi, grp, seen, agt, lvm>>
  BY Zenon DEF ReconcileDataControl
<1>1. PICK k : LET S == {seen.grp.vols[i].id : i \in 1..k}
               IN  /\ vol' = [v \in Ids |-> IF v \in S THEN [vol[v] EXCEPT !.host = TRUE] ELSE vol[v]]
                   /\ dc' = IF HostsWritten(k) /\ seen.dc = dc THEN [dc EXCEPT !.target = TRUE] ELSE dc
  BY Zenon DEF ReconcileDataControl
<1> DEFINE S == {seen.grp.vols[i].id : i \in 1..k}
<1>2. VolumesOK(vol) /\ GroupOK(grp) /\ ControlOK(dc) /\ GroupOK(seen.grp)
  BY Shapes, Zenon DEF IInv
<1>3. /\ DOMAIN vol' = Ids
      /\ \A v \in Ids : vol'[v] = IF v \in S THEN [vol[v] EXCEPT !.host = TRUE] ELSE vol[v]
  BY <1>1, Zenon
<1>4. ASSUME NEW v \in Ids
      PROVE  /\ DOMAIN vol'[v] = VolumeFields /\ vol'[v].ready = vol[v].ready
             /\ vol'[v].tgt = vol[v].tgt /\ vol'[v].ex = vol[v].ex /\ vol'[v].del = vol[v].del
             /\ vol[v].host \/ v \in S => vol'[v].host
  <2>1. DOMAIN vol[v] = VolumeFields
    BY <1>2, Zenon DEF VolumesOK
  <2>2. LET w == [vol[v] EXCEPT !.host = TRUE]
        IN  /\ DOMAIN w = VolumeFields /\ w.ready = vol[v].ready /\ w.tgt = vol[v].tgt
            /\ w.ex = vol[v].ex /\ w.del = vol[v].del /\ w.host = TRUE
    BY <2>1, Zenon DEF VolumeFields
  <2> QED BY <1>3, <2>1, <2>2, Zenon
<1>5. VolumesOK(vol')
  BY <1>2, <1>3, <1>4, Zenon DEF VolumesOK
<1>6. ~grp.ex \/ (grp.ready /\ grp.vols = seen.grp.vols)
  BY <1>0, Zenon DEF IInv, ReadyInv
<1>7. MemberIds(grp) \subseteq Ids
  BY <1>2, Zenon DEF GroupOK
<1>8. CASE dc' = dc
  <2>1. ShapeInv'
    BY <1>0, <1>5, <1>8, Zenon DEF IInv, ShapeInv
  <2>2. HostInv'
    <3>1. MemberIds(grp') = MemberIds(grp)
      BY <1>0, Zenon
    <3> QED BY <3>1, <1>0, <1>4, <1>7, <1>8, Zenon DEF IInv, HostInv
  <2>3. ClientInv' /\ ReadyInv' /\ TargetInv'
    BY <1>0, <1>8, Zenon DEF IInv, ClientInv, ReadyInv, TargetInv
  <2>4. AgentInv' /\ LvmInv'
    BY <1>0, <1>8, Zenon DEF IInv, AgentInv, LvmInv
  <2> QED BY <1>4, <1>8, <2>1, <2>2, <2>3, <2>4, Zenon DEF IInv
<1>9. CASE HostsWritten(k) /\ seen.dc = dc /\ dc' = [dc EXCEPT !.target = TRUE]
  <2>1. dc.ex /\ ~dc.target
    BY <1>0, <1>9, Zenon
  <2>2. ControlOK(dc') /\ dc'.target /\ dc'.ex /\ ~dc'.fin
    BY <2>1, <1>2, <1>9, TargetWritten, Zenon
  <2>3. agt = Idle /\ lvm = NoLvm /\ csi # "create"
    BY <2>1, Zenon DEF IInv, AgentInv, ClientInv
  <2>4. ShapeInv'
    BY <1>0, <1>5, <2>2, Zenon DEF IInv, ShapeInv
  <2>5. grp.ex => MemberIds(grp) \subseteq S
    BY <1>6, <1>9, Zenon DEF HostsWritten, MemberIds
  <2> HIDE DEF S
  <2>6. HostInv'
    <3>1. MemberIds(grp') = MemberIds(grp) /\ grp' = grp
      BY <1>0, Zenon
    <3> QED BY <3>1, <1>4, <1>7, <2>5, Zenon DEF HostInv
  <2>7. ClientInv' /\ ReadyInv' /\ TargetInv'
    BY <1>0, <1>6, <2>3, Zenon DEF IInv, ClientInv, ReadyInv, TargetInv
  <2>8. AgentInv' /\ LvmInv'
    BY <1>0, <2>2, <2>3, NothingYet, Zenon DEF AgentInv, LvmInv
  <2> QED BY <1>4, <2>2, <2>4, <2>6, <2>7, <2>8, Zenon DEF IInv
<1> QED BY <1>1, <1>8, <1>9, Zenon

-----------------------------------------------------------------------------
(* The agent of the host. *)

(* All members of a ready group have a target, so all of them are PVs. *)
LEMMA AgentGetKeeps ==
  ASSUME IInv, AgentGet
  PROVE  IInv'
<1> DEFINE T == {grp.vols[i].id : i \in {j \in DOMAIN grp.st : grp.st[j].tgt}}
           h == [pc |-> IF dc.fin THEN "status" ELSE "build", copy |-> dc, pvs |-> dc.lvm \cup T]
<1>0. /\ dc.ex /\ dc.target /\ ~dc.del /\ grp.ex /\ grp.ready /\ agt' = h
      /\ UNCHANGED <<csi, grp, dc, vol, seen, lvm>>
  BY Zenon DEF AgentGet, agentOnly
<1>1. DOMAIN h = {"pc", "copy", "pvs"} /\ h.pc = (IF dc.fin THEN "status" ELSE "build")
      /\ h.copy = dc /\ h.pvs = dc.lvm \cup T
  BY Zenon
<1>2. GroupOK(grp) /\ ControlOK(dc)
  BY Shapes, Zenon DEF IInv
<1>3. T = MemberIds(grp) /\ MemberIds(grp) # {}
  BY <1>0, <1>2, Zenon DEF GroupOK, MemberIds, NoEntries
<1>4. dc.lvm = {} \/ dc.lvm = MemberIds(grp)
  BY <1>0, <1>2, Zenon DEF IInv, LvmInv, ControlOK
<1> HIDE DEF T, h
<1>5. /\ agt'.pvs = MemberIds(grp) /\ agt'.pvs # {} /\ agt'.copy = dc
      /\ agt'.pc = (IF dc.fin THEN "status" ELSE "build") /\ DOMAIN agt' = {"pc", "copy", "pvs"}
  BY <1>0, <1>1, <1>3, <1>4, Zenon
<1>6. agt'.pc \in {"build", "status"} /\ (agt'.pc = "status" => dc.fin) /\ (agt'.pc = "build" => ~dc.fin)
  BY <1>5, Zenon
<1>7. ShapeInv'
  BY <1>0, <1>5, <1>6, Zenon DEF IInv, ShapeInv
<1>8. ClientInv' /\ ReadyInv' /\ TargetInv' /\ HostInv'
  BY <1>0, Zenon DEF IInv, ClientInv, ReadyInv, TargetInv, HostInv
<1>9. AgentInv'
  <2>1. MemberIds(grp') = MemberIds(grp) /\ dc' = dc /\ grp' = grp
    BY <1>0, Zenon
  <2>2. MemberIds(grp) \subseteq Ids
    BY <1>2, Zenon DEF GroupOK
  <2>3. lvm' = lvm /\ (lvm.vg = {} \/ lvm.vg = MemberIds(grp))
    BY <1>0, Zenon DEF IInv, LvmInv
  <2> QED BY <2>1, <2>2, <2>3, <1>0, <1>5, <1>6, Zenon DEF AgentInv
<1>10. LvmInv'
  BY <1>0, Zenon DEF IInv, LvmInv
<1> QED BY <1>7, <1>8, <1>9, <1>10, Zenon DEF IInv

(* While the data control exists, an agent at work works on the members of its
   ready group, if that is still there. *)
LEMMA AgentAtWork ==
  ASSUME IInv, agt.pc # "idle", dc.ex
  PROVE  /\ dc.target /\ (grp.ex => agt.pvs = MemberIds(grp))
         /\ agt.pvs \subseteq Ids /\ (lvm.vg = {} \/ lvm.vg = agt.pvs)
<1>1. dc.target
  BY NothingYet, Zenon DEF IInv, AgentInv
<1> QED BY <1>1, Zenon DEF IInv, AgentInv

(* Only the agent and the host: what is left to show. *)
LEMMA HostKept ==
  ASSUME IInv, UNCHANGED <<csi, grp, vol, seen, dc>>,
         DOMAIN agt' = {"pc", "copy", "pvs"}, agt'.pc \in {"idle", "build", "save", "status"},
         DOMAIN lvm' = LvmFields, AgentInv', LvmInv'
  PROVE  IInv'
<1>1. ShapeInv'
  BY Zenon DEF IInv, ShapeInv, LvmFields
<1>2. ClientInv' /\ ReadyInv' /\ TargetInv' /\ HostInv'
  BY Zenon DEF IInv, ClientInv, ReadyInv, TargetInv, HostInv
<1> QED BY <1>1, <1>2, Zenon DEF IInv

LEMMA AgentBuildKeeps ==
  ASSUME IInv, AgentBuild
  PROVE  IInv'
<1>0. agt.pc = "build" /\ UNCHANGED <<csi, grp, vol, seen, dc>>
  BY Zenon DEF AgentBuild, agentOnly
<1>1. PICK k \in 0..4 : /\ lvm' = lvm \/ lvm' = Built(lvm, agt.pvs, k)
                        /\ agt' = Idle \/ (k = 4 /\ lvm' = Built(lvm, agt.pvs, k)
                                           /\ agt' = [agt EXCEPT !.pc = "save"])
  <2>1. 4 \in 0..4 /\ 0..3 \subseteq 0..4
    OBVIOUS
  <2> QED BY <2>1, Zenon DEF AgentBuild
<1>2. /\ DOMAIN lvm = LvmFields /\ lvm.vg \subseteq lvm.pv /\ (lvm.lv => lvm.vg # {})
      /\ agt.pvs # {} /\ agt.pvs \subseteq Ids /\ ~dc.fin /\ agt.copy.ex
      /\ DOMAIN agt = {"pc", "copy", "pvs"}
  BY <1>0, Shapes, Zenon DEF IInv, LvmInv, AgentInv
<1>3. dc.ex => /\ dc.target /\ (grp.ex => agt.pvs = MemberIds(grp))
               /\ lvm.vg = {} \/ lvm.vg = agt.pvs
  BY <1>0, AgentAtWork, Zenon
<1>4. csi # "create"
  <2>1. csi = "create" => ~dc.target
    BY Zenon DEF IInv, ClientInv, ShapeInv, ControlOK
  <2> QED BY <1>0, <2>1, NothingYet, Zenon DEF IInv, AgentInv
<1> DEFINE b == Built(lvm, agt.pvs, k)
<1>b. /\ DOMAIN b = LvmFields /\ b.vg \subseteq b.pv /\ (b.lv => b.vg # {})
      /\ b.vg = lvm.vg \/ (lvm.vg = {} /\ b.vg = agt.pvs)
      /\ k = 4 => b.lv /\ b.vg # {}
  <2>1. k \in 0..4
    OBVIOUS
  <2> QED BY <1>2, <2>1, BuiltResult
<1> HIDE DEF b
<1>5. /\ DOMAIN lvm' = LvmFields /\ lvm'.vg \subseteq lvm'.pv /\ (lvm'.lv => lvm'.vg # {})
      /\ lvm'.vg = lvm.vg \/ lvm'.vg = agt.pvs
  BY <1>1, <1>2, <1>b, Zenon DEF b
<1>6. k = 4 /\ lvm' = Built(lvm, agt.pvs, k) => lvm'.lv /\ lvm'.vg # {}
  BY <1>b, Zenon DEF b
<1>7. dc.ex => lvm'.vg = {} \/ lvm'.vg = agt.pvs
  BY <1>3, <1>5, Zenon
<1>8. MemberIds(grp') = MemberIds(grp) /\ dc' = dc /\ grp' = grp /\ csi' = csi
  BY <1>0, Zenon
<1>9. LvmInv'
  BY <1>2, <1>3, <1>5, <1>7, <1>8, Zenon DEF LvmInv
<1>10. CASE agt' = Idle
  <2>1. AgentInv'
    BY <1>3, <1>4, <1>8, <1>10, NothingYet, Zenon DEF AgentInv
  <2> QED BY <2>1, <1>0, <1>5, <1>9, <1>10, NothingYet, HostKept, Zenon
<1>11. CASE k = 4 /\ lvm' = Built(lvm, agt.pvs, k) /\ agt' = [agt EXCEPT !.pc = "save"]
  <2>1. /\ DOMAIN agt' = {"pc", "copy", "pvs"} /\ agt'.pc = "save" /\ agt'.copy = agt.copy
        /\ agt'.pvs = agt.pvs
    BY <1>2, <1>11, Zenon
  <2>2. dc.ex => lvm'.lv /\ lvm'.vg = agt.pvs
    BY <1>6, <1>7, <1>11, Zenon
  <2>3. AgentInv'
    BY <1>2, <1>3, <1>4, <1>8, <2>1, <2>2, Zenon DEF AgentInv
  <2> QED BY <2>1, <2>3, <1>0, <1>5, <1>9, HostKept, Zenon
<1> QED BY <1>1, <1>10, <1>11, Zenon

(* A write of the data control by the agent that read it. *)
LEMMA AgentWrites ==
  ASSUME IInv, UNCHANGED <<csi, grp, vol, seen, lvm>>, agt' = Idle, agt.pc # "idle",
         ControlOK(dc'), dc'.target = dc.target, dc'.ex = dc.ex,
         dc'.fin /\ grp.ex => dc'.lvm = MemberIds(grp),
         dc'.fin => lvm.vg = {} \/ lvm.vg = dc'.lvm,
         dc'.fin /\ ~dc'.del => lvm.lv /\ lvm.vg = dc'.lvm
  PROVE  IInv'
<1>1. ShapeInv'
  BY NothingYet, Zenon DEF IInv, ShapeInv
<1>2. ClientInv' /\ ReadyInv' /\ TargetInv' /\ HostInv'
  BY Zenon DEF IInv, ClientInv, ReadyInv, TargetInv, HostInv
<1>3. (dc.ex \/ csi = "create") => dc.target
  BY NothingYet, Zenon DEF IInv, AgentInv
<1>4. AgentInv'
  BY <1>3, NothingYet, Zenon DEF AgentInv
<1>5. LvmInv'
  <2>1. MemberIds(grp') = MemberIds(grp) /\ grp' = grp /\ lvm' = lvm
    BY Zenon
  <2> QED BY <2>1, Zenon DEF IInv, LvmInv
<1> QED BY <1>1, <1>2, <1>4, <1>5, Zenon DEF IInv

LEMMA AgentSaveKeeps ==
  ASSUME IInv, AgentSave
  PROVE  IInv'
<1>0. /\ agt.pc = "save" /\ agt' = Idle /\ UNCHANGED <<csi, grp, vol, seen, lvm>>
      /\ dc' = dc \/ (dc = agt.copy /\ dc' = [dc EXCEPT !.fin = TRUE, !.lvm = agt.pvs])
  BY Zenon DEF AgentSave, agentOnly
<1>1. ControlOK(dc) /\ agt.copy.ex
  BY <1>0, Shapes, Zenon DEF IInv, AgentInv
<1>2. CASE dc' = dc
  BY <1>0, <1>1, <1>2, AgentWrites, Zenon DEF IInv, LvmInv
<1>3. CASE dc = agt.copy /\ dc' = [dc EXCEPT !.fin = TRUE, !.lvm = agt.pvs]
  <2>1. dc.ex
    BY <1>1, <1>3, Zenon
  <2>2. dc.target /\ (grp.ex => agt.pvs = MemberIds(grp)) /\ agt.pvs \subseteq Ids
    BY <1>0, <2>1, AgentAtWork, Zenon
  <2>3. ControlOK(dc') /\ dc'.target /\ dc'.ex /\ dc'.fin /\ dc'.lvm = agt.pvs
    <3>1. SavedOK([dc EXCEPT !.fin = TRUE, !.lvm = agt.pvs], agt.pvs)
      BY <1>1, <2>1, <2>2, BuiltWritten, Zenon
    <3> QED BY <1>3, <3>1, Zenon DEF SavedOK
  <2>4. dc'.target = dc.target /\ dc'.ex = dc.ex
    BY <1>1, <2>1, <2>2, <2>3, Zenon DEF ControlOK, Controls
  <2>5. lvm.lv /\ lvm.vg = agt.pvs
    BY <1>0, <2>1, Zenon DEF IInv, AgentInv
  <2> QED BY <1>0, <2>2, <2>3, <2>4, <2>5, AgentWrites, Zenon
<1> QED BY <1>0, <1>2, <1>3, Zenon

LEMMA AgentStatusKeeps ==
  ASSUME IInv, AgentStatus
  PROVE  IInv'
<1>0. /\ agt.pc = "status" /\ agt' = Idle /\ UNCHANGED <<csi, grp, vol, seen, lvm>>
      /\ dc' = dc \/ (dc = agt.copy /\ dc' = [dc EXCEPT !.ready = TRUE])
  BY Zenon DEF AgentStatus, agentOnly
<1>1. ControlOK(dc) /\ agt.copy.fin
  BY <1>0, Shapes, Zenon DEF IInv, AgentInv
<1>2. CASE dc' = dc
  BY <1>0, <1>1, <1>2, AgentWrites, Zenon DEF IInv, LvmInv
<1>3. CASE dc = agt.copy /\ dc' = [dc EXCEPT !.ready = TRUE]
  <2>1. dc.fin /\ dc.target
    BY <1>1, <1>3, Zenon DEF ControlOK
  <2>2. /\ ControlOK(dc') /\ dc'.target /\ dc'.ex = dc.ex /\ dc'.fin /\ dc'.lvm = dc.lvm
        /\ dc'.del = dc.del
    BY <1>1, <1>3, <2>1, ReadyWritten, Zenon
  <2>3. dc'.target = dc.target
    BY <1>1, <2>1, <2>2, Zenon DEF ControlOK, Controls
  <2>4. /\ grp.ex => dc.lvm = MemberIds(grp)
        /\ lvm.vg = {} \/ lvm.vg = dc.lvm
        /\ ~dc.del => lvm.lv /\ lvm.vg = dc.lvm
    BY <2>1, Zenon DEF IInv, LvmInv
  <2> QED BY <1>0, <2>2, <2>3, <2>4, AgentWrites, Zenon
<1> QED BY <1>0, <1>2, <1>3, Zenon

LEMMA AgentTearDownKeeps ==
  ASSUME IInv, AgentTearDown
  PROVE  /\ IInv'
         /\ dc.fin /\ ~dc'.ex /\ ~blind' => ~lvm'.lv /\ lvm'.vg = {}
<1>0. agt.pc = "idle" /\ dc.ex /\ dc.del /\ UNCHANGED <<csi, grp, vol, seen, agt>>
  BY Zenon DEF AgentTearDown, agentOnly
<1>1. PICK k \in 0..4, kept \in SUBSET dc.lvm, unlisted \in SUBSET {"VG", "PV"} :
         /\ k >= 2 => toDelDevs(lvm, dc.lvm, unlisted) \cap WithoutVG(lvm, unlisted).vg = {}
         /\ lvm' = Torn(lvm, dc.lvm, unlisted, k, kept)
         /\ blind' = (blind \/ unlisted = {"VG", "PV"})
         /\ dc' = IF FinalizerRemoved(k) THEN NoControl ELSE dc
  BY Zenon DEF AgentTearDown
<1>2. /\ DOMAIN lvm = LvmFields /\ lvm.vg \subseteq lvm.pv /\ (lvm.lv => lvm.vg # {})
      /\ ControlOK(dc)
  BY Shapes, Zenon DEF IInv, LvmInv
<1>3. /\ DOMAIN lvm' = LvmFields /\ lvm'.vg \subseteq lvm'.pv /\ (lvm'.lv => lvm'.vg # {})
      /\ lvm'.vg = {} \/ lvm'.vg = lvm.vg
      /\ k = 4 /\ lvm.vg \subseteq dc.lvm /\ unlisted # {"VG", "PV"} => lvm'.vg = {} /\ ~lvm'.lv
  <2>1. /\ k >= 2 => toDelDevs(lvm, dc.lvm, unlisted) \cap WithoutVG(lvm, unlisted).vg = {}
        /\ lvm' = Torn(lvm, dc.lvm, unlisted, k, kept) /\ unlisted \subseteq {"VG", "PV"}
    BY <1>1, Zenon
  <2>2. TornOK(Torn(lvm, dc.lvm, unlisted, k, kept), lvm, dc.lvm, unlisted, k)
    BY <1>2, <2>1, TornResult, Zenon
  <2> QED BY <2>1, <2>2, Zenon DEF TornOK
<1>4. dc' = dc \/ (k = 4 /\ dc' = NoControl)
  BY <1>1, Zenon DEF FinalizerRemoved
<1>5. ControlOK(dc') /\ (dc' = dc \/ ~dc'.ex) /\ (dc'.target \/ dc'.fin => dc'.ex)
  BY <1>2, <1>4, NoControlOK, Zenon DEF ControlOK
<1>6. csi # "create" /\ dc.fin /\ dc.target
  BY <1>0, <1>2, Zenon DEF IInv, ClientInv, ControlOK
<1>7. ShapeInv'
  BY <1>0, <1>3, <1>5, Zenon DEF IInv, ShapeInv, LvmFields
<1>8. ClientInv' /\ ReadyInv' /\ TargetInv' /\ HostInv'
  BY <1>0, <1>5, <1>6, Zenon DEF IInv, ClientInv, ReadyInv, TargetInv, HostInv
<1>9. AgentInv'
  BY <1>0, <1>5, <1>6, Zenon DEF AgentInv
<1>10. LvmInv'
  <2>1. MemberIds(grp') = MemberIds(grp) /\ grp' = grp
    BY <1>0, Zenon
  <2>2. CASE dc' = dc
    BY <2>1, <2>2, <1>0, <1>3, Zenon DEF IInv, LvmInv
  <2>3. CASE ~dc'.ex
    BY <2>3, <1>3, <1>5, Zenon DEF LvmInv
  <2> QED BY <1>5, <2>2, <2>3, Zenon
<1>11. lvm.vg \subseteq dc.lvm
  BY <1>0, <1>6, Zenon DEF IInv, LvmInv
<1>12. ~dc'.ex => k = 4
  BY <1>0, <1>4, Zenon
<1>13. ~blind' => unlisted # {"VG", "PV"}
  BY <1>1, Zenon
<1>14. IInv'
  BY <1>7, <1>8, <1>9, <1>10, Zenon DEF IInv
<1> QED BY <1>3, <1>11, <1>12, <1>13, <1>14, Zenon

-----------------------------------------------------------------------------
(* The members, which only a deleted group deletes. *)

LEMMA OneVolumeWritten ==
  ASSUME IInv, UNCHANGED <<csi, grp, dc, seen, agt, lvm>>, NEW v \in Ids, NEW x,
         vol' = [vol EXCEPT ![v] = x], DOMAIN x = VolumeFields, x.ready => x.tgt,
         dc.target /\ grp.ex /\ x.ex => vol[v].ex /\ x.host = vol[v].host
  PROVE  IInv'
<1>1. VolumesOK(vol)
  BY Shapes, Zenon DEF IInv
<1>2. VolumesOK(vol')
  BY <1>1, VolumeWrittenOK, Zenon
<1>3. \A u \in Ids : vol'[u] = vol[u] \/ (u = v /\ vol'[u] = x)
  BY <1>1, Zenon DEF VolumesOK
<1>4. dc.target /\ grp.ex => \A u \in Ids : vol'[u].ex => vol[u].ex /\ vol'[u].host = vol[u].host
  BY <1>3, Zenon
<1> QED BY <1>2, <1>4, VolumesWritten, Zenon

LEMMA MemberKeeps ==
  ASSUME IInv, NEW v \in Ids, Member(v)
  PROVE  IInv' /\ (vol[v].ex /\ ~vol[v].del /\ grp.ex => vol'[v].ex /\ ~vol'[v].del)
               /\ \A u \in Ids \ {v} : vol'[u] = vol[u]
               /\ UNCHANGED <<csi, grp, dc, seen, agt, lvm>>
<1>0. UNCHANGED <<csi, grp, dc, seen, agt, lvm>>
  BY Zenon DEF Member, ScheduleMember, ExposeMember, MemberReady, MemberGone, GarbageCollect, Age,
               volumeOnly, api
<1>1. VolumesOK(vol)
  BY Shapes, Zenon DEF IInv
<1>2. DOMAIN vol[v] = VolumeFields /\ DOMAIN vol = Ids /\ (vol[v].ready => vol[v].tgt)
  BY <1>1, Zenon DEF VolumesOK
<1>3. ASSUME NEW x, vol' = [vol EXCEPT ![v] = x], DOMAIN x = VolumeFields, x.ready => x.tgt,
             dc.target /\ grp.ex /\ x.ex => vol[v].ex /\ x.host = vol[v].host,
             vol[v].ex /\ ~vol[v].del /\ grp.ex => x.ex /\ ~x.del
      PROVE  IInv' /\ (vol[v].ex /\ ~vol[v].del /\ grp.ex => vol'[v].ex /\ ~vol'[v].del)
                   /\ \A u \in Ids \ {v} : vol'[u] = vol[u]
  <2>1. vol'[v] = x /\ \A u \in Ids \ {v} : vol'[u] = vol[u]
    BY <1>2, <1>3, Zenon
  <2>2. IInv'
    BY <1>0, <1>3, OneVolumeWritten, Zenon
  <2> QED BY <1>3, <2>1, <2>2, Zenon
<1>4. CASE ScheduleMember(v)
  <2>1. \/ vol' = [vol EXCEPT ![v] = [vol[v] EXCEPT !.bound = TRUE]]
        \/ vol' = [vol EXCEPT ![v] = [vol[v] EXCEPT !.msg = TRUE]]
    BY <1>4, Zenon DEF ScheduleMember
  <2>2. ASSUME NEW x, x = [vol[v] EXCEPT !.bound = TRUE] \/ x = [vol[v] EXCEPT !.msg = TRUE]
        PROVE  /\ DOMAIN x = VolumeFields /\ x.ex = vol[v].ex /\ x.del = vol[v].del
               /\ x.host = vol[v].host /\ x.ready = vol[v].ready /\ x.tgt = vol[v].tgt
    BY <1>2, <2>2, Zenon DEF VolumeFields
  <2>3. PICK x : /\ vol' = [vol EXCEPT ![v] = x]
                 /\ x = [vol[v] EXCEPT !.bound = TRUE] \/ x = [vol[v] EXCEPT !.msg = TRUE]
    BY <2>1, Zenon
  <2>4. /\ DOMAIN x = VolumeFields /\ x.ex = vol[v].ex /\ x.del = vol[v].del
        /\ x.host = vol[v].host /\ x.ready = vol[v].ready /\ x.tgt = vol[v].tgt
    BY <2>2, <2>3, Zenon
  <2> QED BY <1>0, <1>2, <1>3, <2>3, <2>4, Zenon
<1>5. CASE ExposeMember(v)
  <2>1. PICK x : vol' = [vol EXCEPT ![v] = x] /\ x = [vol[v] EXCEPT !.tgt = TRUE]
    BY <1>5, Zenon DEF ExposeMember
  <2>2. /\ DOMAIN x = VolumeFields /\ x.ex = vol[v].ex /\ x.del = vol[v].del
        /\ x.host = vol[v].host /\ x.tgt = TRUE
    BY <1>2, <2>1, Zenon DEF VolumeFields
  <2> QED BY <1>0, <1>3, <2>1, <2>2, Zenon
<1>6. CASE MemberReady(v)
  <2>1. /\ vol[v].tgt
        /\ \E x : vol' = [vol EXCEPT ![v] = x] /\ x = [vol[v] EXCEPT !.ready = TRUE]
    BY <1>6, Zenon DEF MemberReady
  <2>2. PICK x : vol' = [vol EXCEPT ![v] = x] /\ x = [vol[v] EXCEPT !.ready = TRUE]
    BY <2>1, Zenon
  <2>3. /\ DOMAIN x = VolumeFields /\ x.ex = vol[v].ex /\ x.del = vol[v].del
        /\ x.host = vol[v].host /\ x.tgt = vol[v].tgt
    BY <1>2, <2>2, Zenon DEF VolumeFields
  <2> QED BY <1>0, <1>3, <2>1, <2>2, <2>3, Zenon
<1>7. CASE MemberGone(v)
  <2>1. vol[v].del /\ vol' = [vol EXCEPT ![v] = NoVolume]
    BY <1>7, Zenon DEF MemberGone
  <2> QED BY <1>0, <1>3, <2>1, NoVolumeOK, Zenon
<1>8. CASE GarbageCollect(v)
  <2>1. ~grp.ex /\ vol' = [vol EXCEPT ![v] = DeleteVolume(vol[v])]
    BY <1>8, Zenon DEF GarbageCollect
  <2>2. /\ DOMAIN DeleteVolume(vol[v]) = VolumeFields
        /\ DeleteVolume(vol[v]).ready => DeleteVolume(vol[v]).tgt
    BY <1>2, DeleteVolumeOK, Zenon
  <2> QED BY <1>0, <1>3, <2>1, <2>2, Zenon
<1>9. CASE Age(v)
  <2>1. vol' = vol
    BY <1>9, Zenon DEF Age, api
  <2>2. IInv'
    BY <1>0, <1>1, <2>1, VolumesWritten, Zenon
  <2> QED BY <1>0, <2>1, <2>2, Zenon
<1> QED BY <1>0, <1>4, <1>5, <1>6, <1>7, <1>8, <1>9, Zenon DEF Member

-----------------------------------------------------------------------------
LEMMA InitIInv == Init => IInv
<1> SUFFICES ASSUME Init PROVE IInv
  OBVIOUS
<1>1. /\ csi = "create" /\ grp = NoGroup /\ dc = NoControl /\ vol = [v \in Ids |-> NoVolume]
      /\ seen = [grp |-> grp, dc |-> dc, vol |-> vol] /\ agt = Idle /\ lvm = NoLvm
  BY Zenon DEF Init
<1>2. /\ DOMAIN seen = {"grp", "dc", "vol"}
      /\ seen.grp = NoGroup /\ seen.dc = NoControl /\ seen.vol = vol
  BY <1>1, Zenon
<1>3. VolumesOK(vol)
  BY <1>1, NoVolumeOK, Zenon DEF VolumesOK
<1>4. ShapeInv
  BY <1>1, <1>2, <1>3, NoGroupOK, NoControlOK, NothingYet, Zenon DEF ShapeInv, LvmFields
<1>5. ClientInv /\ ReadyInv /\ TargetInv /\ HostInv
  BY <1>1, <1>2, NoGroupOK, NoControlOK, Zenon DEF ClientInv, ReadyInv, TargetInv, HostInv
<1>6. AgentInv /\ LvmInv
  BY <1>1, NoControlOK, NothingYet, Zenon DEF AgentInv, LvmInv
<1> QED BY <1>4, <1>5, <1>6, Zenon DEF IInv

LEMMA NextIInv ==
  ASSUME IInv, LookInv, [Next]_vars
  PROVE  IInv'
<1>1. CASE UNCHANGED vars \/ OtherVolumes
  <2>1. UNCHANGED <<csi, grp, dc, vol, seen, agt, lvm>>
    BY <1>1, Zenon DEF vars, api, OtherVolumes
  <2>2. VolumesOK(vol)
    BY Shapes, Zenon DEF IInv
  <2> QED BY <2>1, <2>2, VolumesWritten, Zenon
<1>2. CASE Client
  BY <1>2, CreateVolumeGroupKeeps, CreateDataControlKeeps, DeletePVGroupKeeps,
     DeletePVControlKeeps, Zenon DEF Client
<1>3. CASE Controller
  BY <1>3, SyncVolumesKeeps, RollbackUnrecoverableKeeps, ScheduleVolGroupKeeps,
     LookUpKeeps, HandleDeletionKeeps, ReconcileDataControlKeeps, Zenon DEF Controller
<1>4. CASE Agent
  BY <1>4, AgentGetKeeps, AgentBuildKeeps, AgentSaveKeeps, AgentStatusKeeps,
     AgentTearDownKeeps, Zenon DEF Agent
<1> QED BY <1>1, <1>2, <1>3, <1>4, ObserveKeeps, MemberKeeps, Zenon DEF Next

(* Only the client creates the data control. *)
LEMMA ControlNotBack ==
  ASSUME IInv, Next, ~CreateDataControl, ~dc.ex
  PROVE  ~dc'.ex
<1>0. ControlOK(dc) /\ dc \in Controls
  BY Shapes, Zenon DEF IInv, ControlOK
<1>1. CASE AgentTearDown
  BY <1>1, Zenon DEF AgentTearDown
<1>2. CASE DeletePVControl
  <2>1. [dc EXCEPT !.del = dc.ex].ex = dc.ex
    BY <1>0, Zenon DEF Controls
  <2> QED BY <1>2, <2>1, Zenon DEF DeletePVControl, DeleteControl
<1>3. CASE ReconcileDataControl
  <2>1. dc' = dc \/ dc' = [dc EXCEPT !.target = TRUE]
    BY <1>3, Zenon DEF ReconcileDataControl
  <2>2. dc'.ex = dc.ex
    BY <1>0, <2>1, Zenon DEF Controls
  <2> QED BY <2>2, Zenon
<1>4. CASE AgentSave \/ AgentStatus
  <2>1. \/ dc' = dc \/ dc' = [dc EXCEPT !.fin = TRUE, !.lvm = agt.pvs]
        \/ dc' = [dc EXCEPT !.ready = TRUE]
    BY <1>4, Zenon DEF AgentSave, AgentStatus
  <2>2. dc'.ex = dc.ex
    BY <1>0, <2>1, Zenon DEF Controls
  <2> QED BY <2>2, Zenon
<1>5. ASSUME NEW u \in Ids, Member(u) PROVE dc' = dc
  BY <1>5, Zenon DEF Member, ScheduleMember, ExposeMember, MemberReady, MemberGone,
                     GarbageCollect, Age, volumeOnly, api
<1>6. CASE \/ CreateVolumeGroup \/ DeletePVGroup \/ Observe \/ OtherVolumes \/ AgentGet \/ AgentBuild
           \/ SyncVolumes \/ RollbackUnrecoverable \/ ScheduleVolGroup
           \/ LookUpDataControl \/ HandleDeletion
  <2>1. dc' = dc
    BY <1>6, Zenon DEF CreateVolumeGroup, DeletePVGroup, Observe, OtherVolumes, AgentGet, AgentBuild,
       SyncVolumes, RollbackUnrecoverable, ScheduleVolGroup, LookUpDataControl, HandleDeletion,
       groupOnly, agentOnly, api
  <2> QED BY <2>1, Zenon
<1> QED BY <1>1, <1>2, <1>3, <1>4, <1>5, <1>6, Zenon DEF Next, Client, Controller, Agent

LEMMA InitLookInv == Init => LookInv
BY Zenon DEF Init, LookInv

LEMMA NextLookInv ==
  ASSUME IInv, LookInv, [Next]_vars
  PROVE  LookInv'
<1>1. CASE UNCHANGED vars
  BY <1>1, Zenon DEF LookInv, vars, api
<1>2. CASE LookUpDataControl
  <2>1. /\ seen.grp.del /\ ~seen.dc.ex /\ csi' = csi /\ dc' = dc
        /\ look' = IF dc.ex /\ ~seen.dc.ex THEN "lagged" ELSE "gone"
    BY <1>2, Zenon DEF LookUpDataControl, DataControlGone, api
  <2>2. csi \notin {"create", "created"}
    BY <2>1, Zenon DEF IInv, ClientInv
  <2> QED BY <2>1, <2>2, Zenon DEF LookInv
<1>3. CASE HandleDeletion
  BY <1>3, Zenon DEF HandleDeletion, LookInv
<1>4. CASE CreateDataControl \/ CreateVolumeGroup
  <2>1. csi = "create" /\ look' = look
    BY <1>4, Zenon DEF CreateDataControl, CreateVolumeGroup
  <2> QED BY <2>1, Zenon DEF LookInv
<1>5. CASE DeletePVGroup \/ DeletePVControl
  <2>1. csi' \in {"delete", "deleted"} /\ look' = look
    BY <1>5, Zenon DEF DeletePVGroup, DeletePVControl
  <2>2. CASE CreateDataControl
    BY <2>2, <1>4, Zenon
  <2>3. CASE ~CreateDataControl
    <3>1. ~dc.ex => ~dc'.ex
      BY <1>5, <2>3, ControlNotBack, Zenon DEF Next, Client
    <3> QED BY <2>1, <3>1, Zenon DEF LookInv
  <2> QED BY <2>2, <2>3, Zenon
<1>6. ASSUME csi' = csi, look' = look, Next PROVE LookInv'
  <2>1. CASE CreateDataControl
    BY <2>1, <1>4, Zenon
  <2>2. CASE ~CreateDataControl
    <3>1. ~dc.ex => ~dc'.ex
      BY <1>6, <2>2, ControlNotBack, Zenon
    <3> QED BY <1>6, <3>1, Zenon DEF LookInv
  <2> QED BY <2>1, <2>2, Zenon
<1>7. CASE Observe \/ OtherVolumes
  <2>1. csi' = csi /\ look' = look
    BY <1>7, Zenon DEF Observe, OtherVolumes
  <2> QED BY <1>6, <1>7, <2>1, Zenon DEF Next
<1>8. CASE SyncVolumes \/ RollbackUnrecoverable \/ ScheduleVolGroup \/ ReconcileDataControl
  <2>1. csi' = csi /\ look' = look
    BY <1>8, Zenon DEF SyncVolumes, RollbackUnrecoverable, ScheduleVolGroup,
       ReconcileDataControl, groupOnly
  <2> QED BY <1>6, <1>8, <2>1, Zenon DEF Next, Controller
<1>9. CASE Agent
  <2>1. csi' = csi /\ look' = look
    BY <1>9, Zenon DEF Agent, AgentGet, AgentBuild, AgentSave, AgentStatus, AgentTearDown, agentOnly
  <2> QED BY <1>6, <1>9, <2>1, Zenon DEF Next
<1>10. ASSUME NEW u \in Ids, Member(u) PROVE LookInv'
  <2>1. csi' = csi /\ look' = look
    BY <1>10, Zenon DEF Member, ScheduleMember, ExposeMember, MemberReady, MemberGone,
       GarbageCollect, Age, volumeOnly
  <2> QED BY <1>6, <1>10, <2>1, Zenon DEF Next
<1> QED BY <1>1, <1>2, <1>3, <1>4, <1>5, <1>7, <1>8, <1>9, <1>10, Zenon DEF Next, Client, Controller

LEMMA SpecIInv == Spec => [](IInv /\ LookInv)
BY InitIInv, NextIInv, InitLookInv, NextLookInv, PTL DEF Spec

(* The agent is handed a data control only after every member knows its host,
   and a ready data control has its logical volume over all the members of the
   group, while there is one, which add up to the requested size: for every outcome of the
   scheduler, any number of passes cut short and any staleness of the cache
   (HandleReconcile and reconcile of the two sides). *)
THEOREM ControlIsComplete == Spec => []ControlComplete
<1>1. ASSUME IInv PROVE ControlComplete
  <2>1. ASSUME dc.target, grp.ex, NEW i \in DOMAIN grp.vols, vol[grp.vols[i].id].ex
        PROVE  vol[grp.vols[i].id].host
    BY <1>1, <2>1, Zenon DEF IInv, HostInv, MemberIds
  <2>2. ASSUME dc.ready, ~dc.del
        PROVE  /\ lvm.lv
               /\ grp.ex => lvm.vg = MemberIds(grp) /\ SumSizes(grp.vols) >= TotalSize
    <3>1. dc.fin /\ dc.target
      BY <1>1, <2>2, Zenon DEF IInv, ShapeInv, ControlOK
    <3>2. lvm.lv /\ (grp.ex => lvm.vg = MemberIds(grp))
      BY <1>1, <2>2, <3>1, Zenon DEF IInv, LvmInv
    <3>3. grp.ex => grp.ready
      BY <1>1, <3>1, Zenon DEF IInv, TargetInv
    <3> QED BY <1>1, <3>2, <3>3, Zenon DEF IInv, ShapeInv, GroupOK
  <2> QED BY <2>1, <2>2, Zenon DEF ControlComplete
<1> QED BY SpecIInv, <1>1, PTL

-----------------------------------------------------------------------------
(* Nobody deletes a member of the pair the agent has. *)
LEMMA MembersStay ==
  ASSUME IInv, LookInv, Next, ~(look = "lagged" /\ look' = "none"),
         grp.ready, dc.ex, dc.target, NEW v \in Ids, vol[v].ex, ~vol[v].del
  PROVE  vol'[v].ex /\ ~vol'[v].del
<1>0. grp.ex
  BY Zenon DEF IInv, ShapeInv, GroupOK
<1>1. CASE Client \/ Observe \/ Agent \/ OtherVolumes \/ LookUpDataControl
  <2>1. vol' = vol
    BY <1>1, Zenon DEF Client, CreateVolumeGroup, CreateDataControl, DeletePVGroup, DeletePVControl,
       Observe, Agent, AgentGet, AgentBuild, AgentSave, AgentStatus, AgentTearDown, agentOnly,
       OtherVolumes, LookUpDataControl, api
  <2> QED BY <2>1, Zenon
<1>2. CASE SyncVolumes \/ RollbackUnrecoverable \/ ScheduleVolGroup
  <2>1. Pass(seen.grp)
    BY <1>2, Zenon DEF SyncVolumes, RollbackUnrecoverable, ScheduleVolGroup
  <2> QED BY <1>0, <2>1, PassBeforeTarget, Zenon
<1>3. CASE HandleDeletion
  BY <1>3, Zenon DEF HandleDeletion, LookInv
<1>4. CASE ReconcileDataControl
  BY <1>4, ReconcileDataControlKeeps, Zenon
<1>5. ASSUME NEW u \in Ids, Member(u) PROVE vol'[v].ex /\ ~vol'[v].del
  <2>1. CASE u = v
    BY <1>0, <1>5, <2>1, MemberKeeps, Zenon
  <2>2. CASE u # v
    BY <1>5, <2>2, MemberKeeps, Zenon
  <2> QED BY <2>1, <2>2, Zenon
<1> QED BY <1>1, <1>2, <1>3, <1>4, <1>5, Zenon DEF Next, Controller

(* A data control with the finalizer goes only by the agent's tear-down. *)
LEMMA ControlTornDown ==
  ASSUME IInv, Next, dc.fin, ~dc'.ex, ~blind'
  PROVE  ~lvm'.lv /\ lvm'.vg = {}
<1>0. ControlOK(dc) /\ dc.ex /\ dc \in Controls
  BY Shapes, Zenon DEF IInv, ControlOK
<1>1. CASE AgentTearDown
  BY <1>1, AgentTearDownKeeps, Zenon
<1>2. CASE CreateDataControl
  <2>1. dc'.ex
    BY <1>2, NewControlOK, Zenon DEF CreateDataControl
  <2> QED BY <2>1, Zenon
<1>3. CASE DeletePVControl
  <2>1. dc'.ex = dc.ex
    BY <1>0, <1>3, DeleteControlOK, Zenon DEF DeletePVControl
  <2> QED BY <1>0, <2>1, Zenon
<1>4. CASE ReconcileDataControl
  BY <1>0, <1>4, ReconcileDataControlKeeps, Zenon
<1>5. CASE AgentSave \/ AgentStatus
  <2>1. \/ dc' = dc \/ dc' = [dc EXCEPT !.fin = TRUE, !.lvm = agt.pvs]
        \/ dc' = [dc EXCEPT !.ready = TRUE]
    BY <1>5, Zenon DEF AgentSave, AgentStatus
  <2>2. dc'.ex = dc.ex
    BY <1>0, <2>1, Zenon DEF Controls
  <2> QED BY <1>0, <2>2, Zenon
<1>6. ASSUME NEW u \in Ids, Member(u) PROVE FALSE
  <2>1. dc' = dc
    BY <1>6, Zenon DEF Member, ScheduleMember, ExposeMember, MemberReady, MemberGone,
                       GarbageCollect, Age, volumeOnly, api
  <2> QED BY <1>0, <2>1, Zenon
<1>7. CASE \/ CreateVolumeGroup \/ DeletePVGroup \/ Observe \/ OtherVolumes \/ AgentGet \/ AgentBuild
           \/ SyncVolumes \/ RollbackUnrecoverable \/ ScheduleVolGroup
           \/ LookUpDataControl \/ HandleDeletion
  <2>1. dc' = dc
    BY <1>7, Zenon DEF CreateVolumeGroup, DeletePVGroup, Observe, OtherVolumes, AgentGet, AgentBuild,
       SyncVolumes, RollbackUnrecoverable, ScheduleVolGroup, LookUpDataControl, HandleDeletion,
       groupOnly, agentOnly, api
  <2> QED BY <1>0, <2>1, Zenon
<1> QED BY <1>1, <1>2, <1>3, <1>4, <1>5, <1>6, <1>7, Zenon DEF Next, Client, Controller, Agent

(* From the moment the agent is handed the data control of a ready group until
   the data control is gone, no step deletes a member, but for the step of a
   group's deletion that had looked for the data control when the cache lagged
   behind its creation; and a data control with
   the agent's finalizer goes only after the LV and the VG on the host, unless
   both listings of a pass failed (rollbackUnrecoverable and handleDeletion of
   the group, handleDeletion of the agent). *)
THEOREM NoMemberDeleted == Spec => NoMemberTakenAway
<1> DEFINE A == /\ ~(look = "lagged" /\ look' = "none") =>
                     \A v \in Ids : grp.ready /\ dc.ex /\ dc.target /\ vol[v].ex /\ ~vol[v].del
                       => vol'[v].ex /\ ~vol'[v].del
                /\ dc.fin /\ ~dc'.ex /\ ~blind' => ~lvm'.lv /\ lvm'.vg = {}
<1>1. ASSUME IInv, LookInv, Next PROVE A
  BY <1>1, MembersStay, ControlTornDown, Zenon
<1>2. IInv /\ LookInv /\ [Next]_vars => [A]_vars
  BY <1>1, Zenon
<1>3. Spec => [][A]_vars
  <2> HIDE DEF A
  <2> QED BY SpecIInv, <1>2, PTL DEF Spec
<1> QED BY <1>3, Zenon DEF NoMemberTakenAway

-----------------------------------------------------------------------------
(* Where the members are: the entries of the group and of its cached copy are
   laid out over the nodes, the volumes are where an entry put them, and the host
   holds nothing but members. *)
EntryInv == LaidOut(grp.vols, Nodes) /\ LaidOut(seen.grp.vols, Nodes)

PlacedOn(x) == /\ x.node \in Nodes \cup {NoNode} /\ x.size \in Int
               /\ x.bound => x.ex
PlaceInv == \A v \in Ids : PlacedOn(vol[v])

HoldInv ==
  /\ csi \in {"create", "created", "delete", "deleted"} /\ blind \in BOOLEAN
  /\ DOMAIN other = Nodes /\ \A n \in Nodes : other[n] \in Int
  /\ agt.pvs \subseteq Ids /\ lvm.conn \subseteq Ids /\ lvm.pv \subseteq Ids

LayInv == EntryInv /\ PlaceInv /\ HoldInv

(* What is laid out: no entries at all, and what a rollback leaves. *)
LEMMA EmptyLaidOut == ASSUME NEW S PROVE LaidOut(<<>>, S)
<1>1. Len(<<>>) = 0 /\ DOMAIN <<>> = {} /\ 0 \in Nat
  OBVIOUS
<1>2. IsSeq(<<>>)
  <2>1. <<>> \in Seq({})
    OBVIOUS
  <2> QED BY <2>1, SeqIsSeq, Zenon
<1>3. Apart(<<>>, S)
  BY <1>1, <1>2, Zenon DEF Apart, Sized, ScheduledAt
<1>4. PICK f : Lefts(<<>>, f, 0) /\ Left(<<>>) = f[0]
  BY <1>1, LeftIs, Zenon
<1>5. Left(<<>>) = TotalSize
  BY ONLY <1>1, <1>4, LeftRound, Zenon
<1>6. TotalSize > -Align /\ 0 <= MaxVolCnt
  BY GroupAssumption
<1> QED BY <1>1, <1>3, <1>5, <1>6, Zenon DEF LaidOut

LEMMA RolledBackLaidOut ==
  ASSUME NEW g, GroupOK(g), LaidOut(g.vols, Nodes), NEW S
  PROVE  LaidOut(RolledBack(g, S).vols, Nodes)
<1> DEFINE u == g.vols
           c(i) == [id |-> u[i].id, node |-> NoNode, size |-> 0]
           w == [i \in DOMAIN u |-> IF i \in S THEN c(i) ELSE u[i]]
           Q == {w[i] : i \in DOMAIN w}
           N == Len(u)
<1>1. RolledBack(g, S).vols = w
  <2>1. RolledBack(g, S) = [g EXCEPT !.vols = w]
    BY Zenon DEF RolledBack
  <2> HIDE DEF w
  <2> QED BY <2>1, Zenon DEF GroupOK, GroupFields
<1>2. Apart(u, Nodes) /\ Len(u) <= MaxVolCnt /\ Left(u) > -Align
  BY Zenon DEF LaidOut
<1>3. N \in Nat /\ DOMAIN u = 1..N /\ Sized(u)
  BY <1>2, SeqDomain, Zenon DEF Apart, Sized
<1>4. /\ DOMAIN w = DOMAIN u
      /\ \A i \in DOMAIN u : w[i] = IF i \in S THEN c(i) ELSE u[i]
  BY Zenon
<1>5. \A i : c(i).node = NoNode /\ c(i).size = 0
  BY Zenon
<1>6. w \in [1..N -> Q]
  <2>1. w = [i \in DOMAIN w |-> w[i]]
    BY <1>4, Zenon
  <2> QED BY <2>1, <1>3, <1>4, Zenon
<1> HIDE DEF u, c, w, Q, N
<1>7. w \in Seq(Q)
  BY ONLY <1>3, <1>6
<1>8. IsSeq(w) /\ Len(w) = N
  <2>1. Len(w) = N
    BY ONLY <1>3, <1>6, <1>7
  <2> QED BY <2>1, <1>7, SeqIsSeq, Zenon
<1>9. \A i \in DOMAIN u : ~Scheduled(w[i]) \/ w[i] = u[i]
  BY <1>4, <1>5, Zenon DEF Scheduled
<1>10. ASSUME NEW i \in DOMAIN w
       PROVE  w[i].node \in Nodes \cup {NoNode} /\ w[i].size \in Int
  <2>1. 0 \in Int
    OBVIOUS
  <2>2. w[i] = c(i) \/ w[i] = u[i]
    BY <1>4, Zenon
  <2> QED BY <1>2, <1>4, <1>5, <2>1, <2>2, Zenon DEF Apart, Sized
<1>11. Apart(w, Nodes)
  <2>1. \A i \in ScheduledAt(w) : i \in ScheduledAt(u) /\ w[i] = u[i]
    BY <1>4, <1>9, Zenon DEF ScheduledAt
  <2> QED BY <1>2, <1>8, <1>10, <2>1, Zenon DEF Apart, Sized
<1>12. Left(u) \in Int /\ Left(w) \in Int /\ Left(w) >= Left(u)
  <2>1. Sized(w) /\ Len(w) = Len(u) /\ \A i \in 1..Len(u) : ~Scheduled(w[i]) \/ w[i] = u[i]
    BY <1>3, <1>8, <1>9, <1>11, Zenon DEF Apart, N
  <2> QED BY ONLY <1>3, <2>1, LeftCleared, Zenon
<1>13. Left(w) > -Align
  <2>1. Align \in Int
    BY GroupAssumption
  <2> QED BY ONLY <1>2, <1>12, <2>1, SMT
<1> QED BY <1>1, <1>2, <1>8, <1>11, <1>13, Zenon DEF LaidOut, N

LEMMA SyncedVols ==
  ASSUME NEW g, GroupOK(g)
  PROVE  Synced(g).vols = g.vols
<1> DEFINE h == [g EXCEPT !.st = StatusOf(g), !.ready = AllReady(g)]
<1>1. h.vols = g.vols
  BY Zenon DEF GroupOK, GroupFields
<1> QED BY <1>1, Zenon DEF Synced

-----------------------------------------------------------------------------
(* What the scheduler is given of the pools: Bytes is a number. *)
Sums(S, f, n) ==
  f = [i \in 0..n |->
         IF i = 0 THEN 0 ELSE f[i - 1] + (IF i \in S THEN vol[i].size ELSE 0)]

LEMMA BytesIs ==
  ASSUME NEW S
  PROVE  \E f : Sums(S, f, MaxVolumes) /\ Bytes(S) = f[MaxVolumes]
<1> DEFINE N == MaxVolumes
           T == {n \in 0..N : \E f : Sums(S, f, n)}
<1>0. N \in Nat
  BY GroupNodes
<1>1. 0 \in T
  <2>1. Sums(S, [i \in 0..0 |-> 0], 0)
    BY DEF Sums
  <2> QED BY <1>0, <2>1
<1>2. ASSUME NEW n \in 1..N, n - 1 \in T
      PROVE  n \in T
  <2>1. PICK f : Sums(S, f, n - 1)
    BY <1>2
  <2> DEFINE g == [i \in 0..n |-> IF i < n THEN f[i]
                                  ELSE f[n - 1] + (IF n \in S THEN vol[n].size ELSE 0)]
  <2>2. ASSUME NEW i \in 0..n
        PROVE  g[i] = IF i = 0 THEN 0 ELSE g[i - 1] + (IF i \in S THEN vol[i].size ELSE 0)
    <3>1. CASE i = n
      BY <3>1, <1>0
    <3>2. CASE i < n
      <4>1. i \in 0..(n - 1) /\ g[i] = f[i] /\ (i # 0 => g[i - 1] = f[i - 1])
        BY <3>2, <1>0, SMT
      <4>2. f[i] = IF i = 0 THEN 0 ELSE f[i - 1] + (IF i \in S THEN vol[i].size ELSE 0)
        BY <4>1, <2>1, Zenon DEF Sums
      <4> HIDE DEF g
      <4> QED BY <4>1, <4>2, Zenon
    <3> QED BY <3>1, <3>2, <1>0
  <2>3. Sums(S, g, n)
    BY <2>2, Zenon DEF Sums
  <2> QED BY <2>3, <1>0
<1> HIDE DEF T
<1>3. N \in T
  <2>1. \A i \in 0..N : i \in T
    BY ONLY <1>0, <1>1, <1>2, Induction, Zenon
  <2> QED BY <2>1, <1>0, SMT
<1>4. \E f : Sums(S, f, N)
  BY <1>3 DEF T
<1> DEFINE e == CHOOSE f : Sums(S, f, N)
<1>5. Sums(S, e, N)
  BY <1>4, Zenon
<1>6. Bytes(S) = e[N]
  BY Zenon DEF Bytes, Sums
<1> QED BY <1>5, <1>6, Zenon

LEMMA BytesType ==
  ASSUME PlaceInv, NEW S
  PROVE  Bytes(S) \in Int
<1> DEFINE N == MaxVolumes
<1>1. N \in Nat
  BY GroupNodes
<1>2. PICK f : Sums(S, f, N) /\ Bytes(S) = f[N]
  BY BytesIs, Zenon
<1>3. \A i \in 0..N :
        f[i] = IF i = 0 THEN 0 ELSE f[i - 1] + (IF i \in S THEN vol[i].size ELSE 0)
  BY <1>2, Zenon DEF Sums
<1>4. \A i \in 1..N : vol[i].size \in Int
  BY Zenon DEF PlaceInv, PlacedOn, Ids
<1> DEFINE T == {i \in 0..N : f[i] \in Int}
<1>5. 0 \in T
  <2>1. 0 \in 0..N /\ 0 \in Int
    BY <1>1, SMT
  <2> QED BY <2>1, <1>3, Zenon
<1>6. ASSUME NEW i \in 1..N, i - 1 \in T
      PROVE  i \in T
  <2>1. i \in 0..N /\ i # 0
    BY <1>1, SMT
  <2>2. f[i] = f[i - 1] + (IF i \in S THEN vol[i].size ELSE 0)
    BY <2>1, <1>3, Zenon
  <2>3. f[i - 1] \in Int /\ vol[i].size \in Int
    BY <1>4, <1>6, Zenon
  <2>4. f[i] \in Int
    BY ONLY <2>2, <2>3, SMT
  <2> QED BY <2>1, <2>4, Zenon
<1> HIDE DEF T
<1>7. \A i \in 0..N : i \in T
  BY ONLY <1>1, <1>5, <1>6, Induction, Zenon
<1>8. N \in 0..N
  BY <1>1, SMT
<1> QED BY <1>2, <1>7, <1>8, Zenon DEF T

LEMMA PoolsFit ==
  ASSUME PlaceInv, HoldInv
  PROVE  PoolsOK(Pools) /\ DOMAIN Pools = Nodes
<1>1. DOMAIN Pools = Nodes /\ \A n \in Nodes : Pools[n] = PoolOf(n)
  BY Zenon DEF Pools
<1>2. ASSUME NEW n \in Nodes
      PROVE  Pools[n].free \in Int /\ Pools[n].total \in Int /\ Pools[n].remote \in Int
  <2> DEFINE b == Bytes(On(n))
  <2>1. /\ PoolOf(n).free = Capacity[n] - other[n] - b
        /\ PoolOf(n).total = Capacity[n] /\ PoolOf(n).remote = b
    BY Zenon DEF PoolOf
  <2>2. b \in Int
    BY BytesType, Zenon
  <2> HIDE DEF b
  <2>3. Capacity[n] \in Int /\ other[n] \in Int
    <3>1. Capacity[n] \in Nat
      BY GroupNodes, Zenon
    <3>2. other[n] \in Int
      BY Zenon DEF HoldInv
    <3> QED BY <3>1, <3>2, SMT
  <2>4. Capacity[n] - other[n] - b \in Int
    BY ONLY <2>2, <2>3, SMT
  <2> QED BY <1>1, <2>1, <2>2, <2>3, <2>4, Zenon
<1> QED BY <1>1, <1>2, GroupNodes, Zenon DEF PoolsOK

-----------------------------------------------------------------------------
(* Who writes the entries. *)

LEMMA PassEntries ==
  ASSUME EntryInv, UNCHANGED seen, NEW g, LaidOut(g.vols, Nodes), UpdateGroup(g) \/ grp' = grp
  PROVE  EntryInv'
BY Zenon DEF EntryInv, UpdateGroup

(* The scheduler only ever sees a layout and leaves one. *)
LEMMA ScheduleVolGroupLays ==
  ASSUME IInv, LayInv, ScheduleVolGroup
  PROVE  EntryInv'
<1>0. UNCHANGED seen
  BY Zenon DEF ScheduleVolGroup, groupOnly
<1>1. PICK r \in ScheduleVolumeGroup(Pools, seen.grp.vols, next) :
           \/ UNCHANGED grp
           \/ ~r.err /\ UpdateGroup([seen.grp EXCEPT !.vols = r.vols, !.fin = TRUE])
  BY Zenon DEF ScheduleVolGroup
<1>2. PoolsOK(Pools) /\ DOMAIN Pools = Nodes /\ LaidOut(seen.grp.vols, Nodes)
  BY PoolsFit, Zenon DEF LayInv, EntryInv
<1>3. ~r.err => LaidOut(r.vols, Nodes)
  <2> DEFINE P == Pools
             u == seen.grp.vols
  <2>1. PoolsOK(P) /\ LaidOut(u, DOMAIN P) /\ r \in ScheduleVolumeGroup(P, u, next)
    BY <1>2, Zenon
  <2>2. DOMAIN P = Nodes
    BY <1>2, Zenon
  <2> HIDE DEF P, u
  <2>3. ~r.err => LaidOut(r.vols, DOMAIN P)
    BY ONLY <2>1, ScheduledApart, Zenon
  <2> QED BY <2>2, <2>3, Zenon
<1> DEFINE h == [seen.grp EXCEPT !.vols = r.vols, !.fin = TRUE]
<1>4. h.vols = r.vols
  <2>1. DOMAIN seen.grp = GroupFields
    BY Shapes, Zenon DEF IInv, GroupOK
  <2> QED BY <2>1, Zenon DEF GroupFields
<1>5. EntryInv /\ (grp' = grp \/ (~r.err /\ UpdateGroup(h)))
  BY <1>1, Zenon DEF LayInv
<1> HIDE DEF h
<1>6. CASE grp' = grp
  BY <1>0, <1>5, <1>6, Zenon DEF EntryInv
<1>7. CASE ~r.err /\ UpdateGroup(h)
  <2>1. LaidOut(h.vols, Nodes)
    BY <1>3, <1>4, <1>7, Zenon
  <2> QED BY <1>0, <1>5, <1>7, <2>1, PassEntries, Zenon
<1> QED BY <1>5, <1>6, <1>7, Zenon

LEMMA EntriesKept ==
  ASSUME IInv, LayInv, Next
  PROVE  EntryInv'
<1>0. GroupOK(grp) /\ GroupOK(seen.grp) /\ DOMAIN seen = {"grp", "dc", "vol"} /\ EntryInv
  BY Shapes, Zenon DEF IInv, LayInv
<1>1. NoGroup.vols = <<>> /\ [NoGroup EXCEPT !.ex = TRUE].vols = <<>>
  BY Zenon DEF NoGroup
<1>2. CASE CreateVolumeGroup
  <2>1. seen' = seen /\ grp'.vols = <<>>
    BY <1>1, <1>2, Zenon DEF CreateVolumeGroup
  <2> QED BY <1>0, <2>1, EmptyLaidOut, Zenon DEF EntryInv
<1>3. CASE DeletePVGroup
  <2>1. seen' = seen /\ grp' = DeleteGroup(grp)
    BY <1>3, Zenon DEF DeletePVGroup
  <2>2. [grp EXCEPT !.del = grp.ex].vols = grp.vols
    BY <1>0, Zenon DEF GroupOK, GroupFields
  <2>3. grp'.vols = grp.vols \/ grp'.vols = <<>>
    BY <1>1, <2>1, <2>2, Zenon DEF DeleteGroup
  <2> QED BY <1>0, <2>1, <2>3, EmptyLaidOut, Zenon DEF EntryInv
<1>4. CASE Observe
  <2>1. grp' = grp /\ (seen' = [seen EXCEPT !.grp = grp] \/ seen' = [seen EXCEPT !.dc = dc]
                       \/ seen' = [seen EXCEPT !.vol = vol])
    BY <1>4, Zenon DEF Observe, api
  <2>2. seen'.grp = grp \/ seen'.grp = seen.grp
    BY <1>0, <2>1, Zenon
  <2> QED BY <1>0, <2>1, <2>2, Zenon DEF EntryInv
<1>5. CASE SyncVolumes
  <2>1. seen' = seen /\ UpdateGroup(Synced(seen.grp))
    BY <1>5, Zenon DEF SyncVolumes, groupOnly
  <2>2. LaidOut(Synced(seen.grp).vols, Nodes)
    BY <1>0, SyncedVols, Zenon DEF EntryInv
  <2> QED BY <1>0, <2>1, <2>2, PassEntries, Zenon
<1>6. CASE RollbackUnrecoverable
  <2>1. seen' = seen /\ (UpdateGroup(RolledBack(seen.grp, Failed(seen.grp))) \/ grp' = grp)
    BY <1>6, Zenon DEF RollbackUnrecoverable, groupOnly
  <2>2. LaidOut(RolledBack(seen.grp, Failed(seen.grp)).vols, Nodes)
    BY <1>0, RolledBackLaidOut, Zenon DEF EntryInv
  <2> QED BY <1>0, <2>1, <2>2, PassEntries, Zenon
<1>7. CASE HandleDeletion
  <2>1. seen' = seen /\ (UpdateGroup(NoGroup) \/ grp' = grp)
    BY <1>7, Zenon DEF HandleDeletion
  <2>2. LaidOut(NoGroup.vols, Nodes)
    BY <1>1, EmptyLaidOut, Zenon
  <2> QED BY <1>0, <2>1, <2>2, PassEntries, Zenon
<1>8. CASE \/ CreateDataControl \/ DeletePVControl \/ ReconcileDataControl \/ Agent
           \/ OtherVolumes \/ LookUpDataControl
  <2>1. grp' = grp /\ seen' = seen
    BY <1>8, Zenon DEF CreateDataControl, DeletePVControl, ReconcileDataControl, LookUpDataControl,
       Agent, AgentGet, AgentBuild, AgentSave, AgentStatus, AgentTearDown, agentOnly, OtherVolumes, api
  <2> QED BY <1>0, <2>1, Zenon DEF EntryInv
<1>9. ASSUME NEW v \in Ids, Member(v) PROVE EntryInv'
  <2>1. grp' = grp /\ seen' = seen
    BY <1>9, Zenon DEF Member, ScheduleMember, ExposeMember, MemberReady, MemberGone,
                       GarbageCollect, Age, volumeOnly, api
  <2> QED BY <1>0, <2>1, Zenon DEF EntryInv
<1> QED BY <1>2, <1>3, <1>4, <1>5, <1>6, <1>7, <1>8, <1>9, ScheduleVolGroupLays, Zenon
        DEF Next, Client, Controller

-----------------------------------------------------------------------------
(* Who writes the volumes. *)

LEMMA NoVolumePlaced == PlacedOn(NoVolume)
<1>1. NoVolume.node = NoNode /\ NoVolume.size = 0 /\ NoVolume.bound = FALSE
  BY Zenon DEF NoVolume
<1>2. 0 \in Int
  OBVIOUS
<1> QED BY <1>1, <1>2, Zenon DEF PlacedOn

LEMMA DeletedPlaced ==
  ASSUME NEW x, DOMAIN x = VolumeFields, PlacedOn(x)
  PROVE  PlacedOn(DeleteVolume(x))
<1> DEFINE y == [x EXCEPT !.del = x.ex]
<1>1. y.node = x.node /\ y.size = x.size /\ y.bound = x.bound /\ y.ex = x.ex
  BY Zenon DEF VolumeFields
<1> HIDE DEF y
<1>2. PlacedOn(y)
  BY <1>1, Zenon DEF PlacedOn
<1> QED BY <1>2, NoVolumePlaced, Zenon DEF DeleteVolume, y

(* A volume is created where its entry says. *)
LEMMA CreatedPlaced ==
  ASSUME PlaceInv, NEW g, LaidOut(g.vols, Nodes), NEW v \in Ids
  PROVE  PlacedOn(Created(g)[v])
<1> DEFINE P(i) == i \in DOMAIN g.vols /\ g.vols[i].id = v
           j == CHOOSE i \in DOMAIN g.vols : g.vols[i].id = v
           c == [NoVolume EXCEPT !.ex = TRUE, !.node = g.vols[j].node, !.size = g.vols[j].size]
<1>1. \/ Created(g)[v] = vol[v]
      \/ (\E i \in DOMAIN g.vols : g.vols[i].id = v) /\ Created(g)[v] = c
  BY Zenon DEF Created
<1>2. (\E i \in DOMAIN g.vols : g.vols[i].id = v) => j \in DOMAIN g.vols
  BY Zenon
<1>3. c.ex = TRUE /\ c.node = g.vols[j].node /\ c.size = g.vols[j].size /\ c.bound = FALSE
  BY Zenon DEF NoVolume
<1> HIDE DEF c, j
<1>4. j \in DOMAIN g.vols => g.vols[j].node \in Nodes \cup {NoNode} /\ g.vols[j].size \in Int
  BY Zenon DEF LaidOut, Apart, Sized
<1> QED BY <1>1, <1>2, <1>3, <1>4, Zenon DEF PlacedOn, PlaceInv

LEMMA MemberPlaced ==
  ASSUME IInv, PlaceInv, NEW v \in Ids, Member(v)
  PROVE  PlaceInv'
<1>0. /\ DOMAIN vol = Ids /\ DOMAIN vol[v] = VolumeFields /\ PlacedOn(vol[v])
      /\ (vol[v].bound => vol[v].ex)
  BY Shapes, Zenon DEF IInv, VolumesOK, PlaceInv, PlacedOn
<1>1. ASSUME NEW x, vol' = [vol EXCEPT ![v] = x], PlacedOn(x)
      PROVE  PlaceInv'
  <2>1. \A u \in Ids : vol'[u] = vol[u] \/ vol'[u] = x
    BY <1>0, <1>1, Zenon
  <2>2. \A u \in Ids : PlacedOn(vol'[u])
    BY <1>1, <2>1, Zenon DEF PlaceInv
  <2> QED BY <2>2, Zenon DEF PlaceInv, PlacedOn
<1>2. ASSUME NEW x, vol[v].ex, \/ x = [vol[v] EXCEPT !.bound = TRUE] \/ x = [vol[v] EXCEPT !.msg = TRUE]
                               \/ x = [vol[v] EXCEPT !.tgt = TRUE]
      PROVE  PlacedOn(x)
  <2>1. x.node = vol[v].node /\ x.size = vol[v].size /\ x.ex = vol[v].ex
    BY <1>0, <1>2, Zenon DEF VolumeFields
  <2> QED BY <1>0, <1>2, <2>1, Zenon DEF PlacedOn
<1>3. CASE ScheduleMember(v) \/ ExposeMember(v)
  <2>1. PICK x : /\ vol[v].ex /\ vol' = [vol EXCEPT ![v] = x]
                 /\ \/ x = [vol[v] EXCEPT !.bound = TRUE] \/ x = [vol[v] EXCEPT !.msg = TRUE]
                    \/ x = [vol[v] EXCEPT !.tgt = TRUE]
    BY <1>0, <1>3, Zenon DEF ScheduleMember, ExposeMember
  <2> QED BY <1>1, <1>2, <2>1, Zenon
<1>4. CASE MemberReady(v)
  <2>1. PICK x : vol' = [vol EXCEPT ![v] = x] /\ x = [vol[v] EXCEPT !.ready = TRUE]
    BY <1>4, Zenon DEF MemberReady
  <2>2. x.node = vol[v].node /\ x.size = vol[v].size /\ x.ex = vol[v].ex /\ x.bound = vol[v].bound
    BY <1>0, <2>1, Zenon DEF VolumeFields
  <2> QED BY <1>0, <1>1, <2>1, <2>2, Zenon DEF PlacedOn
<1>5. CASE MemberGone(v)
  BY <1>1, <1>5, NoVolumePlaced, Zenon DEF MemberGone
<1>6. CASE GarbageCollect(v)
  <2>1. vol' = [vol EXCEPT ![v] = DeleteVolume(vol[v])]
    BY <1>6, Zenon DEF GarbageCollect
  <2> QED BY <1>0, <1>1, <2>1, DeletedPlaced, Zenon
<1>7. CASE Age(v)
  <2>1. vol' = vol
    BY <1>7, Zenon DEF Age, api
  <2> QED BY <2>1, Zenon DEF PlaceInv, PlacedOn
<1> QED BY <1>3, <1>4, <1>5, <1>6, <1>7, Zenon DEF Member

LEMMA VolumesPlaced ==
  ASSUME IInv, LayInv, Next
  PROVE  PlaceInv'
<1>0. VolumesOK(vol) /\ PlaceInv /\ LaidOut(seen.grp.vols, Nodes)
  BY Shapes, Zenon DEF IInv, LayInv, EntryInv
<1> DEFINE before == Created(seen.grp)
<1>1. VolumesOK(before) /\ \A v \in Ids : PlacedOn(before[v])
  BY <1>0, CreatedOK, CreatedPlaced, Zenon
<1> HIDE DEF before
<1>2. ASSUME \A v \in Ids : PlacedOn(vol'[v]) PROVE PlaceInv'
  BY <1>2, Zenon DEF PlaceInv, PlacedOn
<1>3. CASE SyncVolumes \/ ScheduleVolGroup
  <2>1. vol' = before
    BY <1>3, Zenon DEF SyncVolumes, ScheduleVolGroup, before
  <2> QED BY <1>1, <1>2, <2>1, Zenon
<1>4. CASE RollbackUnrecoverable
  <2>1. \A v \in Ids : vol'[v] = before[v] \/ vol'[v] = DeleteVolume(before[v])
    BY <1>4, Zenon DEF RollbackUnrecoverable, before
  <2>2. \A v \in Ids : DOMAIN before[v] = VolumeFields
    BY <1>1, Zenon DEF VolumesOK
  <2> QED BY <1>1, <1>2, <2>1, <2>2, DeletedPlaced, Zenon
<1>5. CASE HandleDeletion
  <2>1. vol' = vol \/ \E u : vol' = [vol EXCEPT ![u] = DeleteVolume(vol[u])]
    BY <1>5, Zenon DEF HandleDeletion
  <2>2. \A v \in Ids : vol'[v] = vol[v] \/ vol'[v] = DeleteVolume(vol[v])
    BY <1>0, <2>1, Zenon DEF VolumesOK
  <2>3. \A v \in Ids : DOMAIN vol[v] = VolumeFields /\ PlacedOn(vol[v])
    BY <1>0, Zenon DEF VolumesOK, PlaceInv
  <2> QED BY <1>2, <2>2, <2>3, DeletedPlaced, Zenon
<1>6. CASE ReconcileDataControl
  <2>1. \A v \in Ids : vol'[v] = vol[v] \/ vol'[v] = [vol[v] EXCEPT !.host = TRUE]
    BY <1>6, Zenon DEF ReconcileDataControl
  <2>2. ASSUME NEW v \in Ids
        PROVE  PlacedOn([vol[v] EXCEPT !.host = TRUE])
    <3> DEFINE x == [vol[v] EXCEPT !.host = TRUE]
    <3>1. DOMAIN vol[v] = VolumeFields
      BY <1>0, Zenon DEF VolumesOK
    <3>2. x.node = vol[v].node /\ x.size = vol[v].size /\ x.ex = vol[v].ex /\ x.bound = vol[v].bound
      BY <3>1, Zenon DEF VolumeFields
    <3> HIDE DEF x
    <3>3. PlacedOn(x)
      BY <1>0, <3>2, Zenon DEF PlaceInv, PlacedOn
    <3> QED BY <3>3 DEF x
  <2> QED BY <1>0, <1>2, <2>1, <2>2, Zenon DEF PlaceInv
<1>7. CASE Client \/ Observe \/ Agent \/ OtherVolumes \/ LookUpDataControl
  <2>1. vol' = vol
    BY <1>7, Zenon DEF Client, CreateVolumeGroup, CreateDataControl, DeletePVGroup, DeletePVControl,
       Observe, Agent, AgentGet, AgentBuild, AgentSave, AgentStatus, AgentTearDown, agentOnly,
       OtherVolumes, LookUpDataControl, api
  <2> QED BY <1>0, <1>2, <2>1, Zenon DEF PlaceInv
<1> QED BY <1>0, <1>3, <1>4, <1>5, <1>6, <1>7, MemberPlaced, Zenon DEF Next, Controller

-----------------------------------------------------------------------------
(* What the host holds. *)
Held(l) == l.conn \subseteq Ids /\ l.pv \subseteq Ids

LEMMA BuiltHeld ==
  ASSUME NEW l, DOMAIN l = LvmFields, Held(l), NEW pvs, pvs \subseteq Ids, NEW k \in 0..4
  PROVE  Held(Built(l, pvs, k))
<1> DEFINE connected == ConnectTargets(l, pvs)
           withPVs == CreatePV(connected, pvs \ ListPV(l))
           withVG == IF ListVG(l) # {} THEN withPVs ELSE CreateVG(withPVs, pvs)
           withLV == CreateLinearLV(withVG)
<1>0. Built(l, pvs, k) = <<l, connected, withPVs, withVG, withLV>>[k + 1]
  BY Zenon DEF Built
<1>1. DOMAIN connected = LvmFields /\ connected.pv = l.pv /\ connected.conn = l.conn \cup pvs
  BY Zenon DEF ConnectTargets, LvmFields
<1> HIDE DEF connected
<1>2. /\ DOMAIN withPVs = LvmFields /\ withPVs.pv = connected.pv \cup (pvs \ ListPV(l))
      /\ withPVs.conn = connected.conn
  BY <1>1, Zenon DEF CreatePV, LvmFields
<1> HIDE DEF withPVs
<1>3. /\ DOMAIN CreateVG(withPVs, pvs) = LvmFields /\ CreateVG(withPVs, pvs).pv = withPVs.pv
      /\ CreateVG(withPVs, pvs).conn = withPVs.conn
  BY <1>2, Zenon DEF CreateVG, LvmFields
<1>4. DOMAIN withVG = LvmFields /\ withVG.pv = withPVs.pv /\ withVG.conn = withPVs.conn
  BY <1>2, <1>3, Zenon
<1> HIDE DEF withVG
<1>5. withLV.pv = withVG.pv /\ withLV.conn = withVG.conn
  BY <1>4, Zenon DEF CreateLinearLV, LvmFields
<1> HIDE DEF withLV
<1>6. Held(connected) /\ Held(withPVs) /\ Held(withVG) /\ Held(withLV)
  BY <1>1, <1>2, <1>4, <1>5, Zenon DEF Held
<1>7. \/ Built(l, pvs, k) = l \/ Built(l, pvs, k) = connected \/ Built(l, pvs, k) = withPVs
      \/ Built(l, pvs, k) = withVG \/ Built(l, pvs, k) = withLV
  BY <1>0
<1> QED BY <1>6, <1>7, Zenon

LEMMA TornHeld ==
  ASSUME NEW l, DOMAIN l = LvmFields, Held(l), NEW pvs, NEW unlisted, NEW k \in 0..4, NEW kept
  PROVE  Held(Torn(l, pvs, unlisted, k, kept))
<1> DEFINE withoutVG == WithoutVG(l, unlisted)
           devs == toDelDevs(l, pvs, unlisted)
           withoutPVs == RemovePVs(withoutVG, devs)
           cut == DisconnectTargets(withoutPVs, pvs \ kept)
           t == Torn(l, pvs, unlisted, k, kept)
<1>0. t = <<l, withoutVG, withoutPVs, cut, cut>>[k + 1]
  BY Zenon DEF Torn
<1>1. DOMAIN RemoveVG(l) = LvmFields /\ RemoveVG(l).pv = l.pv /\ RemoveVG(l).conn = l.conn
  BY Zenon DEF RemoveVG, LvmFields
<1>2. DOMAIN withoutVG = LvmFields /\ withoutVG.pv = l.pv /\ withoutVG.conn = l.conn
  BY <1>1, Zenon DEF WithoutVG
<1> HIDE DEF withoutVG, devs
<1>3. /\ DOMAIN withoutPVs = LvmFields /\ withoutPVs.pv = withoutVG.pv \ devs
      /\ withoutPVs.conn = withoutVG.conn
  BY <1>2, Zenon DEF RemovePVs, LvmFields
<1> HIDE DEF withoutPVs
<1>4. cut.pv = withoutPVs.pv /\ cut.conn = withoutPVs.conn \ (pvs \ kept)
  BY <1>3, Zenon DEF DisconnectTargets, LvmFields
<1> HIDE DEF cut
<1>5. Held(withoutVG) /\ Held(withoutPVs) /\ Held(cut)
  BY <1>2, <1>3, <1>4, Zenon DEF Held
<1>6. t = l \/ t = withoutVG \/ t = withoutPVs \/ t = cut
  <2> HIDE DEF t
  <2> QED BY <1>0
<1> QED BY <1>5, <1>6, Zenon

Phases == {"create", "created", "delete", "deleted"}

LEMMA HostHolds ==
  ASSUME IInv, LayInv, Next
  PROVE  agt'.pvs \subseteq Ids /\ Held(lvm')
<1>0. /\ agt.pvs \subseteq Ids /\ Held(lvm) /\ DOMAIN lvm = LvmFields
      /\ DOMAIN agt = {"pc", "copy", "pvs"} /\ GroupOK(grp) /\ ControlOK(dc)
  BY Shapes, Zenon DEF IInv, LayInv, HoldInv, Held
<1>1. Idle.pvs = {}
  BY Zenon DEF Idle
<1>2. CASE AgentGet
  <2> DEFINE T == {grp.vols[i].id : i \in {j \in DOMAIN grp.st : grp.st[j].tgt}}
  <2>1. lvm' = lvm /\ grp.ready /\ agt'.pvs = dc.lvm \cup T
    BY <1>2, Zenon DEF AgentGet
  <2>2. T \subseteq Ids
    BY <1>0, <2>1, Zenon DEF GroupOK, MemberIds
  <2>3. dc.lvm \subseteq Ids
    BY <1>0, Zenon DEF ControlOK, Controls
  <2> HIDE DEF T
  <2> QED BY <1>0, <2>1, <2>2, <2>3, Zenon
<1>3. CASE AgentBuild
  <2>1. PICK k \in 0..4 : /\ lvm' = lvm \/ lvm' = Built(lvm, agt.pvs, k)
                          /\ agt' = Idle \/ agt' = [agt EXCEPT !.pc = "save"]
    <3>1. 4 \in 0..4 /\ 0..3 \subseteq 0..4
      OBVIOUS
    <3> QED BY <1>3, <3>1, Zenon DEF AgentBuild
  <2>2. Held(Built(lvm, agt.pvs, k))
    BY <1>0, BuiltHeld, Zenon
  <2>3. agt'.pvs = {} \/ agt'.pvs = agt.pvs
    BY <1>0, <1>1, <2>1, Zenon
  <2> QED BY <1>0, <2>1, <2>2, <2>3, Zenon
<1>4. CASE AgentTearDown
  <2>1. agt' = agt /\ \E k \in 0..4 : \E kept, unlisted : lvm' = Torn(lvm, dc.lvm, unlisted, k, kept)
    BY <1>4, Zenon DEF AgentTearDown
  <2>2. PICK k, kept, unlisted : k \in 0..4 /\ lvm' = Torn(lvm, dc.lvm, unlisted, k, kept)
    BY <2>1, Zenon
  <2> QED BY <1>0, <2>1, <2>2, TornHeld, Zenon
<1>5. CASE AgentSave \/ AgentStatus
  <2>1. agt' = Idle /\ lvm' = lvm
    BY <1>5, Zenon DEF AgentSave, AgentStatus
  <2> QED BY <1>0, <1>1, <2>1, Zenon
<1>6. CASE \/ Client \/ Observe \/ Controller \/ OtherVolumes
           \/ \E v \in Ids : Member(v)
  <2>1. agt' = agt /\ lvm' = lvm
    <3>1. CASE Client \/ Observe \/ OtherVolumes
      BY <3>1, Zenon DEF Client, CreateVolumeGroup, CreateDataControl, DeletePVGroup,
         DeletePVControl, Observe, OtherVolumes
    <3>2. CASE Controller
      BY <3>2, Zenon DEF Controller, SyncVolumes, RollbackUnrecoverable, ScheduleVolGroup,
         LookUpDataControl, HandleDeletion, ReconcileDataControl, groupOnly
    <3>3. CASE \E v \in Ids : Member(v)
      BY <3>3, Zenon DEF Member, ScheduleMember, ExposeMember, MemberReady, MemberGone,
         GarbageCollect, Age, volumeOnly
    <3> QED BY <1>6, <3>1, <3>2, <3>3, Zenon
  <2> QED BY <1>0, <2>1, Zenon
<1> QED BY <1>2, <1>3, <1>4, <1>5, <1>6, Zenon DEF Next, Agent

LEMMA RestKept ==
  ASSUME LayInv, Next
  PROVE  /\ csi' \in Phases /\ blind' \in BOOLEAN
         /\ DOMAIN other' = Nodes /\ \A n \in Nodes : other'[n] \in Int
<1>0. /\ csi \in Phases /\ blind \in BOOLEAN
      /\ DOMAIN other = Nodes /\ \A n \in Nodes : other[n] \in Int
  BY Zenon DEF LayInv, HoldInv, Phases
<1>1. CASE Client
  <2>1. csi' \in Phases
    BY <1>0, <1>1, Zenon DEF Client, CreateVolumeGroup, CreateDataControl, DeletePVGroup,
       DeletePVControl, Phases
  <2>2. blind' = blind /\ other' = other
    BY <1>1, Zenon DEF Client, CreateVolumeGroup, CreateDataControl, DeletePVGroup, DeletePVControl
  <2> QED BY <1>0, <2>1, <2>2, Zenon
<1>2. CASE Observe \/ Controller \/ AgentGet \/ AgentBuild \/ AgentSave \/ AgentStatus
  <2>1. csi' = csi /\ blind' = blind /\ other' = other
    <3>1. CASE Observe
      BY <3>1, Zenon DEF Observe
    <3>2. CASE Controller
      BY <3>2, Zenon DEF Controller, SyncVolumes, RollbackUnrecoverable, ScheduleVolGroup,
         LookUpDataControl, HandleDeletion, ReconcileDataControl, groupOnly
    <3>3. CASE AgentGet \/ AgentBuild \/ AgentSave \/ AgentStatus
      BY <3>3, Zenon DEF AgentGet, AgentBuild, AgentSave, AgentStatus, agentOnly
    <3> QED BY <1>2, <3>1, <3>2, <3>3, Zenon
  <2> QED BY <1>0, <2>1, Zenon
<1>3. CASE AgentTearDown
  <2>1. csi' = csi /\ other' = other /\ \E u : blind' = (blind \/ u = {"VG", "PV"})
    BY <1>3, Zenon DEF AgentTearDown, agentOnly
  <2>2. blind' \in BOOLEAN
    BY <2>1, Zenon
  <2> QED BY <1>0, <2>1, <2>2, Zenon
<1>4. CASE OtherVolumes
  <2>1. csi' = csi /\ blind' = blind
    BY <1>4, Zenon DEF OtherVolumes
  <2>2. PICK n, u : u \in {Align, Capacity[n]} /\ other' = [other EXCEPT ![n] = u]
    BY <1>4, Zenon DEF OtherVolumes
  <2>3. DOMAIN other' = Nodes /\ \A m \in Nodes : other'[m] = other[m] \/ (m = n /\ other'[m] = u)
    BY <1>0, <2>2, Zenon
  <2>4. n \in Nodes => u \in Int
    <3>1. Align \in Int
      BY GroupAssumption
    <3>2. n \in Nodes => Capacity[n] \in Nat
      BY GroupNodes, Zenon
    <3>3. n \in Nodes => Capacity[n] \in Int
      BY <3>2, SMT
    <3> QED BY <3>1, <3>3, <2>2, Zenon
  <2> QED BY <1>0, <2>1, <2>3, <2>4, Zenon
<1>5. CASE \E v \in Ids : Member(v)
  <2>1. csi' = csi /\ blind' = blind /\ other' = other
    BY <1>5, Zenon DEF Member, ScheduleMember, ExposeMember, MemberReady, MemberGone,
       GarbageCollect, Age, volumeOnly
  <2> QED BY <1>0, <2>1, Zenon
<1> QED BY <1>1, <1>2, <1>3, <1>4, <1>5, Zenon DEF Next, Agent

-----------------------------------------------------------------------------
LEMMA InitLayInv == Init => LayInv
<1> SUFFICES ASSUME Init PROVE LayInv
  OBVIOUS
<1>1. /\ csi = "create" /\ grp = NoGroup /\ vol = [v \in Ids |-> NoVolume]
      /\ seen = [grp |-> grp, dc |-> dc, vol |-> vol]
      /\ other = [n \in Nodes |-> Align] /\ agt = Idle /\ lvm = NoLvm /\ blind = FALSE
  BY Zenon DEF Init
<1>2. seen.grp = NoGroup /\ NoGroup.vols = <<>>
  BY <1>1, Zenon DEF NoGroup
<1>3. EntryInv
  BY <1>1, <1>2, EmptyLaidOut, Zenon DEF EntryInv
<1>4. PlaceInv
  BY <1>1, NoVolumePlaced, Zenon DEF PlaceInv
<1>5. Idle.pvs = {} /\ NoLvm.conn = {} /\ NoLvm.pv = {}
  BY Zenon DEF Idle, NoLvm
<1>6. Align \in Int
  BY GroupAssumption
<1>7. HoldInv
  BY <1>1, <1>5, <1>6, Zenon DEF HoldInv
<1> QED BY <1>3, <1>4, <1>7, Zenon DEF LayInv

LEMMA NextLayInv ==
  ASSUME IInv, LayInv, [Next]_vars
  PROVE  LayInv'
<1>1. CASE UNCHANGED vars
  <2>1. UNCHANGED <<csi, grp, vol, seen, other, agt, lvm, blind>>
    BY <1>1, Zenon DEF vars, api
  <2>2. EntryInv' /\ PlaceInv'
    BY <2>1, Zenon DEF LayInv, EntryInv, PlaceInv, PlacedOn
  <2>3. HoldInv'
    BY <2>1, Zenon DEF LayInv, HoldInv
  <2> QED BY <2>2, <2>3, Zenon DEF LayInv
<1>2. CASE Next
  <2>1. HoldInv'
    BY <1>2, HostHolds, RestKept, Zenon DEF HoldInv, Held, Phases
  <2> QED BY <1>2, <2>1, EntriesKept, VolumesPlaced, Zenon DEF LayInv
<1> QED BY <1>1, <1>2, Zenon

LEMMA SpecLayInv == Spec => []LayInv
BY InitLayInv, NextLayInv, SpecIInv, PTL DEF Spec

(* Types; entries and volumes are on nodes, a volume is bound only while it
   exists, and the host holds nothing but members, for every number of nodes and
   volumes (newVolume, and Connect, CreatePV and CreateVG of the agent). *)
THEOREM GroupTypes == Spec => []TypeOK
<1>1. ASSUME IInv, LookInv, LayInv PROVE TypeOK
  <2>1. \A i \in DOMAIN grp.vols : grp.vols[i].id \in Ids
    BY <1>1, Zenon DEF IInv, ShapeInv, GroupOK, MemberIds
  <2>2. \A i \in DOMAIN grp.vols : grp.vols[i].node \in Nodes \cup {NoNode}
    BY <1>1, Zenon DEF LayInv, EntryInv, LaidOut, Apart
  <2>3. \A v \in Ids : vol[v].node \in Nodes \cup {NoNode} /\ (vol[v].bound => vol[v].ex)
    BY <1>1, Zenon DEF LayInv, PlaceInv, PlacedOn
  <2>4. agt.pc \in {"idle", "build", "save", "status"} /\ lvm.vg \subseteq lvm.pv
    BY <1>1, Zenon DEF IInv, ShapeInv, LvmInv
  <2>5. /\ csi \in {"create", "created", "delete", "deleted"} /\ blind \in BOOLEAN
        /\ look \in {"none", "gone", "lagged"}
    BY <1>1, Zenon DEF LayInv, HoldInv, LookInv
  <2>6. lvm.conn \cup lvm.pv \cup lvm.vg \subseteq Ids
    BY <1>1, <2>4, Zenon DEF LayInv, HoldInv
  <2> QED BY <2>1, <2>2, <2>3, <2>4, <2>5, <2>6, Zenon DEF TypeOK
<1> QED BY SpecIInv, SpecLayInv, <1>1, PTL

(* However often entries are rolled back and scheduled again, from whatever the
   pools and the cache say at the time, no two members of a group are given the
   same node, there are never more than the maximal count, and together they
   exceed the requested size by less than one alignment unit (schedVolGroup and
   rollbackUnrecoverable). *)
THEOREM MembersStayApart == Spec => []MembersApart
<1>1. ASSUME LayInv PROVE MembersApart
  <2>1. LaidOut(grp.vols, Nodes)
    BY <1>1, Zenon DEF LayInv, EntryInv
  <2>2. Len(grp.vols) <= MaxVolCnt /\ Left(grp.vols) > -Align
    BY <2>1, Zenon DEF LaidOut
  <2>3. ASSUME NEW i \in DOMAIN grp.vols, NEW j \in DOMAIN grp.vols, i # j,
               Scheduled(grp.vols[i]), Scheduled(grp.vols[j])
        PROVE  grp.vols[i].node # grp.vols[j].node
    BY <2>1, <2>3, Zenon DEF LaidOut, Apart, ScheduledAt
  <2> QED BY <2>2, <2>3, Zenon DEF MembersApart
<1> QED BY SpecLayInv, <1>1, PTL

=============================================================================
