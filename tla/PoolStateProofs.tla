-------------------------- MODULE PoolStateProofs --------------------------
(***************************************************************************)
(* Invariance of the type invariant, of ReservationYieldsToVolume and of   *)
(* FreeCoversVolumes, for any number of nodes, volumes, reservations and   *)
(* goroutines.  FreeCoversVolumes is not inductive: a goroutine carries a  *)
(* FreeResource figure from the action that computes it to the one that    *)
(* stores it.  The strengthening says that the figure is still within what *)
(* the volumes leave of the capacity it was calculated from: the lock that *)
(* the goroutine holds keeps volumes from being bound in between.          *)
(***************************************************************************)
EXTENDS PoolState, FiniteSetTheorems, TLAPS

(* Goroutine p holds a computed figure for a node of the NodeMap. *)
Carries(p) == th[p].op = "setPool" \/ (th[p].op = "unlock" /\ th[p].live)

(* A goroutine inside an operation names the node and the reservation. *)
ThreadsNamed ==
    \A p \in Threads :
        /\ th[p].op # "idle" => th[p].node \in Nodes
        /\ th[p].op = "reserve" => th[p].resv \in Resvs

(* A figure is carried under the lock its operation took, for a live node. *)
LocksHeld ==
    \A p \in Threads :
        /\ th[p].op = "setPool" => sLock = p
        /\ th[p].op = "unlock" /\ th[p].live => volLock[th[p].node] = p
        /\ Carries(p) => th[p].node \in nodeMap
        /\ th[p].op = "reserve" /\ th[p].live => th[p].node \in nodeMap

CarriedCovers ==
    \A p \in Threads :
        Carries(p) /\ th[p].val > 0 =>
            th[p].val <= Room(th[p].from, vols[th[p].node], size[th[p].node])

IInv == /\ TypeOK
        /\ ThreadsNamed
        /\ LocksHeld
        /\ CarriedCovers
        /\ FreeCoversVolumes
        /\ ReservationYieldsToVolume

-----------------------------------------------------------------------------
(* The sets of size units are finite: their cardinalities are the sums of the
   sizes that GetFreeResourceNonLock adds up. *)
LEMMA UnitsFinite ==
    ASSUME NEW S, IsFiniteSet(S)
    PROVE  IsFiniteSet(S \X Sizes)
<1>1. IsFiniteSet(Sizes)
  BY PoolStateAssumption, FS_Interval DEF Sizes
<1> QED
  BY <1>1, FS_Product

(* What the volumes leave of a capacity is an integer. *)
LEMMA RoomType ==
    ASSUME NEW c \in Int, NEW V \in SUBSET Volumes, NEW sz
    PROVE  Room(c, V, sz) \in Int
<1>1. IsFiniteSet(V)
  BY PoolStateAssumption, FS_Subset
<1>2. IsFiniteSet(V \X Sizes)
  BY <1>1, UnitsFinite
<1>3. IsFiniteSet(VolUnits(V, sz))
  BY <1>2, FS_Subset DEF VolUnits
<1>4. Cardinality(VolUnits(V, sz)) \in Nat
  BY <1>3, FS_CardinalityType
<1> QED
  BY <1>4 DEF Room

(* GetFreeResourceNonLock returns an integer which, above zero, is within what
   the volumes leave: reservations only take away from it. *)
LEMMA GetFreeBounded ==
    ASSUME NEW n, NEW c \in Int, NEW V \in SUBSET Volumes, NEW sz,
           NEW R \in SUBSET Resvs, NEW H
    PROVE  /\ GetFree(n, H, c, V, sz, R) \in Int
           /\ GetFree(n, H, c, V, sz, R) > 0 => GetFree(n, H, c, V, sz, R) <= Room(c, V, sz)
<1> DEFINE Q == R \ Owned(V)
<1>1. IsFiniteSet(Q)
  BY PoolStateAssumption, FS_Subset
<1>2. IsFiniteSet(Q \X Sizes)
  BY <1>1, UnitsFinite
<1>3. IsFiniteSet(ResvUnits(Q))
  BY <1>2, FS_Subset DEF ResvUnits
<1>4. Cardinality(ResvUnits(Q)) \in Nat
  BY <1>3, FS_CardinalityType
<1>5. Room(c, V, sz) \in Int
  BY RoomType
<1> HIDE DEF Q
<1>6. GetFree(n, H, c, V, sz, R) = IF n \in H THEN Room(c, V, sz) - Cardinality(ResvUnits(Q)) ELSE 0
  BY DEF GetFree, Q
<1> QED
  BY <1>4, <1>5, <1>6

(* What CleanResv leaves is a part of the reservations and, for a pool with a
   capacity, no reservation of a bound volume. *)
LEMMA CleanResvSpec ==
    ASSUME NEW n, NEW H, NEW V, NEW R
    PROVE  /\ CleanResv(n, H, V, R) \subseteq R
           /\ n \in H => CleanResv(n, H, V, R) \cap Owned(V) = {}
BY DEF CleanResv


-----------------------------------------------------------------------------
(* SetStoragePool and SetPlaceholder both add a node or replace its pool. *)
LEMMA AddNodeStep ==
    ASSUME IInv, NEW n \in Nodes, NEW H \in SUBSET Nodes, NEW c \in Int,
           AddNode(n, H, c), H \ {n} = hasCap \ {n},
           NEW p \in Threads, th' = th \/ th' = [th EXCEPT ![p] = Idle]
    PROVE  IInv'
<1> DEFINE f == GetFree(n, H, c, {}, size[n], {})
<1>1. f \in Int /\ (f > 0 => f <= Room(c, {}, size[n]))
  BY GetFreeBounded
<1> HIDE DEF f
<1>2. free' = [free EXCEPT ![n] = f]
  BY DEF AddNode, f
<1>3. \A q \in Threads : Carries(q)' => Carries(q) /\ th'[q] = th[q] /\ th[q].node # n
  BY DEF IInv, LocksHeld, Carries, AddNode, Idle, TypeOK
<1>4. TypeOK'
  <2>1. Idle \in ThreadState
    BY DEF Idle, ThreadState, Ops
  <2>2. th' \in [Threads -> ThreadState]
    BY <2>1 DEF IInv, TypeOK
  <2>3. hasCap' \subseteq Nodes /\ nodeMap' \subseteq Nodes
    BY DEF IInv, TypeOK, AddNode
  <2> QED
    BY <1>1, <1>2, <2>2, <2>3 DEF IInv, TypeOK, AddNode, lockVars
<1>5. ThreadsNamed'
  BY DEF IInv, ThreadsNamed, TypeOK, Idle
<1>6. LocksHeld'
  <2>1. \A q \in Threads : th'[q] = th[q] \/ th'[q] = Idle
    BY DEF IInv, TypeOK
  <2> QED
    BY <1>3, <2>1 DEF IInv, LocksHeld, Carries, AddNode, lockVars, Idle
<1>7. CarriedCovers'
  BY <1>3 DEF IInv, CarriedCovers, AddNode, TypeOK, ThreadsNamed, Carries
<1>8. FreeCoversVolumes'
  BY <1>1, <1>2 DEF IInv, FreeCoversVolumes, AddNode, TypeOK
<1>9. ReservationYieldsToVolume'
  BY DEF IInv, ReservationYieldsToVolume, AddNode, TypeOK
<1> QED
  BY <1>4, <1>5, <1>6, <1>7, <1>8, <1>9 DEF IInv

(* SetStoragePool of a known node: the figure it carries is within the room. *)
LEMMA ReplacePoolStep ==
    ASSUME IInv, NEW n \in Nodes, NEW H \in SUBSET Nodes, NEW p \in Threads,
           NEW c \in Int, H \ {n} = hasCap \ {n}, ~Carries(p), ReplacePool(p, n, H, c)
    PROVE  IInv'
<1> DEFINE f == GetFree(n, H, c, vols[n], size[n], resvSet[n])
<1>1. f \in Int /\ (f > 0 => f <= Room(c, vols[n], size[n]))
  BY GetFreeBounded DEF IInv, TypeOK
<1> HIDE DEF f
<1>2. th' = [th EXCEPT ![p] = Carrying("setPool", n, f, c)]
  BY DEF ReplacePool, f
<1>3. /\ CleanResv(n, H, vols[n], resvSet[n]) \subseteq resvSet[n]
      /\ n \in H => CleanResv(n, H, vols[n], resvSet[n]) \cap Owned(vols[n]) = {}
  BY CleanResvSpec
<1>4. TypeOK'
  BY <1>1, <1>2, <1>3, PoolStateAssumption
     DEF IInv, TypeOK, ReplacePool, Carrying, ThreadState, Ops
<1>5. ThreadsNamed'
  BY <1>2 DEF IInv, ThreadsNamed, TypeOK, Carrying
<1>6. LocksHeld'
  BY <1>2, PoolStateAssumption DEF IInv, LocksHeld, Carries, ReplacePool, TypeOK, Carrying
<1>7. CarriedCovers'
  BY <1>1, <1>2 DEF IInv, CarriedCovers, ReplacePool, TypeOK, Carries, Carrying
<1>8. FreeCoversVolumes'
  BY DEF IInv, FreeCoversVolumes, ReplacePool
<1>9. ReservationYieldsToVolume'
  BY <1>3 DEF IInv, ReservationYieldsToVolume, ReplacePool, TypeOK
<1> QED
  BY <1>4, <1>5, <1>6, <1>7, <1>8, <1>9 DEF IInv

(* Storing a carried figure keeps FreeResource within the room. *)
LEMMA SetStoragePoolDoneStep ==
    ASSUME IInv, NEW p \in Threads, SetStoragePoolDone(p)
    PROVE  IInv'
<1> DEFINE n == th[p].node
<1>1. /\ n \in nodeMap /\ n \in Nodes /\ th[p].val \in Int /\ th[p].from \in Int
      /\ th[p].val > 0 => th[p].val <= Room(th[p].from, vols[n], size[n])
  BY DEF IInv, TypeOK, LocksHeld, CarriedCovers, Carries, SetStoragePoolDone, ThreadState
<1>2. \A q \in Threads : q # p => th[q].op # "setPool"
  BY DEF IInv, LocksHeld, SetStoragePoolDone
<1>3. Idle \in ThreadState
  BY DEF Idle, ThreadState, Ops
<1>4. TypeOK'
  BY <1>1, <1>3 DEF IInv, TypeOK, SetStoragePoolDone
<1>5. ThreadsNamed'
  BY DEF IInv, ThreadsNamed, TypeOK, Idle, SetStoragePoolDone
<1>6. LocksHeld'
  BY <1>2 DEF IInv, LocksHeld, Carries, SetStoragePoolDone, TypeOK, Idle
<1>7. CarriedCovers'
  BY DEF IInv, CarriedCovers, Carries, SetStoragePoolDone, TypeOK, Idle
<1>8. FreeCoversVolumes'
  BY <1>1 DEF IInv, FreeCoversVolumes, SetStoragePoolDone, TypeOK
<1>9. ReservationYieldsToVolume'
  BY DEF IInv, ReservationYieldsToVolume, SetStoragePoolDone
<1> QED
  BY <1>4, <1>5, <1>6, <1>7, <1>8, <1>9 DEF IInv

(* Reserve and Unreserve store the figure they computed under volLock. *)
LEMMA StoreFreeStep ==
    ASSUME IInv, NEW p \in Threads, StoreFree(p)
    PROVE  IInv'
<1> DEFINE n == th[p].node
<1>1. /\ n \in nodeMap /\ n \in Nodes /\ th[p].val \in Int /\ th[p].from \in Int
      /\ th[p].val > 0 => th[p].val <= Room(th[p].from, vols[n], size[n])
  BY DEF IInv, TypeOK, LocksHeld, CarriedCovers, Carries, StoreFree, ThreadState
<1>2. \A q \in Threads : q # p /\ th[q].op = "unlock" /\ th[q].live => th[q].node # n
  BY DEF IInv, LocksHeld, StoreFree
<1>3. Idle \in ThreadState
  BY DEF Idle, ThreadState, Ops
<1>4. TypeOK'
  BY <1>1, <1>3 DEF IInv, TypeOK, StoreFree
<1>5. ThreadsNamed'
  BY DEF IInv, ThreadsNamed, TypeOK, Idle, StoreFree
<1>6. LocksHeld'
  BY <1>2 DEF IInv, LocksHeld, Carries, StoreFree, TypeOK, Idle, ThreadsNamed
<1>7. CarriedCovers'
  BY DEF IInv, CarriedCovers, Carries, StoreFree, TypeOK, Idle
<1>8. FreeCoversVolumes'
  BY <1>1 DEF IInv, FreeCoversVolumes, StoreFree, TypeOK
<1>9. ReservationYieldsToVolume'
  BY DEF IInv, ReservationYieldsToVolume, StoreFree
<1> QED
  BY <1>4, <1>5, <1>6, <1>7, <1>8, <1>9 DEF IInv

(* The locked part of Reserve and Unreserve, for the reservations R that the
   operation leaves in the set. *)
LEMMA LockedStep ==
    ASSUME IInv, NEW p \in Threads, NEW n \in nodeMap, NEW R \in SUBSET Resvs,
           th[p].op \in {"idle", "reserve"}, volLock[n] = None,
           volLock' = [volLock EXCEPT ![n] = p],
           resvSet' = [resvSet EXCEPT ![n] = CleanResv(n, hasCap, vols[n], R)],
           th' = [th EXCEPT ![p] = Carrying("unlock", n,
                            GetFree(n, hasCap, cap[n], vols[n], size[n], R), cap[n])],
           UNCHANGED <<nodeMap, hasCap, cap, vols, size, free, basis, volIDMap, sLock>>
    PROVE  IInv'
<1> DEFINE f == GetFree(n, hasCap, cap[n], vols[n], size[n], R)
           C == CleanResv(n, hasCap, vols[n], R)
<1>1. n \in Nodes /\ cap[n] \in Int
  BY DEF IInv, TypeOK
<1>2. f \in Int /\ (f > 0 => f <= Room(cap[n], vols[n], size[n]))
  BY <1>1, GetFreeBounded DEF IInv, TypeOK
<1>3. C \subseteq R /\ (n \in hasCap => C \cap Owned(vols[n]) = {})
  BY CleanResvSpec
<1> HIDE DEF f, C
<1>4. /\ th' = [th EXCEPT ![p] = Carrying("unlock", n, f, cap[n])]
      /\ resvSet' = [resvSet EXCEPT ![n] = C]
  BY DEF f, C
<1>5. TypeOK'
  <2>1. Carrying("unlock", n, f, cap[n]) \in ThreadState
    BY <1>1, <1>2 DEF Carrying, ThreadState, Ops
  <2>2. C \subseteq Resvs
    BY <1>3
  <2> QED
    BY <1>1, <1>4, <2>1, <2>2 DEF IInv, TypeOK
<1>6. ThreadsNamed'
  BY <1>1, <1>4 DEF IInv, ThreadsNamed, TypeOK, Carrying
<1>7. LocksHeld'
  BY <1>1, <1>4, PoolStateAssumption DEF IInv, LocksHeld, Carries, TypeOK, Carrying, ThreadsNamed
<1>8. CarriedCovers'
  BY <1>2, <1>4 DEF IInv, CarriedCovers, Carries, TypeOK, Carrying
<1>9. FreeCoversVolumes'
  BY DEF IInv, FreeCoversVolumes
<1>10. ReservationYieldsToVolume'
  BY <1>3, <1>4 DEF IInv, ReservationYieldsToVolume, TypeOK
<1> QED
  BY <1>5, <1>6, <1>7, <1>8, <1>9, <1>10 DEF IInv

(* An action that only moves goroutine p to a state t without a figure. *)
LEMMA ThreadOnlyStep ==
    ASSUME IInv, NEW p \in Threads, NEW t \in ThreadState,
           t.op # "idle" => t.node \in Nodes,
           t.op = "reserve" => t.resv \in Resvs /\ t.node \in nodeMap,
           t.op \notin {"setPool", "unlock"},
           th' = [th EXCEPT ![p] = t],
           UNCHANGED <<nodeMap, nodeVars, volIDMap, lockVars>>
    PROVE  IInv'
<1> USE DEF nodeVars, lockVars
<1>1. TypeOK'
  BY DEF IInv, TypeOK
<1>2. ThreadsNamed'
  BY DEF IInv, ThreadsNamed, TypeOK
<1>3. LocksHeld'
  BY DEF IInv, LocksHeld, Carries, TypeOK
<1>4. CarriedCovers'
  BY DEF IInv, CarriedCovers, Carries, TypeOK
<1>5. FreeCoversVolumes' /\ ReservationYieldsToVolume'
  BY DEF IInv, FreeCoversVolumes, ReservationYieldsToVolume
<1> QED
  BY <1>1, <1>2, <1>3, <1>4, <1>5 DEF IInv

(* RemoveStoragePool: what the goroutines of the removed node carry counts no more. *)
LEMMA RemoveStoragePoolStep ==
    ASSUME IInv, NEW p \in Threads, RemoveStoragePool(p)
    PROVE  IInv'
<1> DEFINE n == th[p].node
<1> USE DEF RemoveStoragePool, nodeVars
<1>1. n \in Nodes
  BY DEF IInv, ThreadsNamed
<1>2. \A q \in Threads : Carries(q)' => Carries(q) /\ th'[q] = th[q] /\ th[q].node # n
  <2> SUFFICES ASSUME NEW q \in Threads, Carries(q)'
               PROVE  Carries(q) /\ th'[q] = th[q] /\ th[q].node # n
    OBVIOUS
  <2>1. q # p
    BY DEF Carries, Idle
  <2>2. th[q] \in ThreadState
    BY DEF IInv, TypeOK
  <2>3. ~(th[q].node = n /\ th[q].op \in {"reserve", "unlock"})
    BY <2>1, <2>2 DEF Carries, ThreadState
  <2>4. th'[q] = th[q]
    BY <2>1, <2>3
  <2>5. th[q].op # "setPool"
    BY PoolStateAssumption DEF IInv, LocksHeld
  <2> QED
    BY <2>3, <2>4, <2>5 DEF Carries
<1>3. TypeOK'
  <2>1. Idle \in ThreadState
    BY DEF Idle, ThreadState, Ops
  <2>2. \A q \in Threads : [th[q] EXCEPT !.live = FALSE] \in ThreadState
    BY Zenon DEF IInv, TypeOK, ThreadState
  <2>3. th' \in [Threads -> ThreadState]
    BY <2>1, <2>2 DEF IInv, TypeOK
  <2> QED
    BY <1>1, <2>3 DEF IInv, TypeOK
<1>4. ThreadsNamed'
  <2> SUFFICES ASSUME NEW q \in Threads
               PROVE  /\ th'[q].op # "idle" => th'[q].node \in Nodes
                      /\ th'[q].op = "reserve" => th'[q].resv \in Resvs
    BY DEF ThreadsNamed
  <2>1. th[q] \in ThreadState
    BY DEF IInv, TypeOK
  <2>2. th'[q] = Idle \/ /\ th'[q].op = th[q].op
                         /\ th'[q].node = th[q].node
                         /\ th'[q].resv = th[q].resv
    BY <2>1 DEF ThreadState
  <2> QED
    BY <2>2 DEF IInv, ThreadsNamed, Idle
<1>5. LocksHeld'
  <2> SUFFICES ASSUME NEW q \in Threads, th'[q].op # "idle", th'[q].live
               PROVE  th'[q] = th[q] /\ (th[q].op = "reserve" => th[q].node # n)
    BY <1>1, <1>2 DEF IInv, LocksHeld, Carries, TypeOK, ThreadsNamed
  <2>1. th[q] \in ThreadState /\ q # p
    BY DEF IInv, TypeOK, Idle
  <2> QED
    BY <2>1 DEF ThreadState
<1>6. CarriedCovers'
  BY <1>2, Zenon DEF IInv, CarriedCovers
<1>7. FreeCoversVolumes' /\ ReservationYieldsToVolume'
  BY DEF IInv, FreeCoversVolumes, ReservationYieldsToVolume
<1> QED
  BY <1>3, <1>4, <1>5, <1>6, <1>7 DEF IInv

(* Bind and Unbind change the volumes of a node, with both locks free, so no
   goroutine carries a figure for it.  V, sz and R are what the operation
   leaves on the node. *)
LEMMA VolumesChangedStep ==
    ASSUME IInv, NEW n \in nodeMap, NEW V \in SUBSET Volumes,
           NEW sz \in [Volumes -> Sizes], NEW R \in SUBSET Resvs,
           sLock = None, volLock[n] = None,
           vols' = [vols EXCEPT ![n] = V],
           size' = [size EXCEPT ![n] = sz],
           resvSet' = [resvSet EXCEPT ![n] = CleanResv(n, hasCap, V, R)],
           free' = [free EXCEPT ![n] = GetFree(n, hasCap, cap[n], V, sz, R)],
           basis' = [basis EXCEPT ![n] = cap[n]],
           volIDMap' \in [Volumes -> Nodes \cup {None}],
           UNCHANGED <<nodeMap, hasCap, cap, lockVars, th>>
    PROVE  IInv'
<1> DEFINE f == GetFree(n, hasCap, cap[n], V, sz, R)
           C == CleanResv(n, hasCap, V, R)
<1>1. n \in Nodes /\ cap[n] \in Int
  BY DEF IInv, TypeOK
<1>2. f \in Int /\ (f > 0 => f <= Room(cap[n], V, sz))
  BY <1>1, GetFreeBounded
<1>3. C \subseteq R /\ (n \in hasCap => C \cap Owned(V) = {})
  BY CleanResvSpec
<1> HIDE DEF f, C
<1>4. free' = [free EXCEPT ![n] = f] /\ resvSet' = [resvSet EXCEPT ![n] = C]
  BY DEF f, C
<1>5. \A q \in Threads : Carries(q) => th[q].node # n
  BY PoolStateAssumption DEF IInv, LocksHeld, Carries
<1>6. TypeOK'
  BY <1>1, <1>2, <1>3, <1>4 DEF IInv, TypeOK, lockVars
<1>7. ThreadsNamed' /\ LocksHeld'
  BY DEF IInv, ThreadsNamed, LocksHeld, Carries, lockVars
<1>8. CarriedCovers'
  BY <1>5 DEF IInv, CarriedCovers, Carries, TypeOK, ThreadsNamed
<1>9. FreeCoversVolumes'
  BY <1>1, <1>2, <1>4 DEF IInv, FreeCoversVolumes, TypeOK
<1>10. ReservationYieldsToVolume'
  BY <1>1, <1>3, <1>4 DEF IInv, ReservationYieldsToVolume, TypeOK
<1> QED
  BY <1>6, <1>7, <1>8, <1>9, <1>10 DEF IInv

(* BindAntstorVolume, an instance of the change of a node's volumes. *)
LEMMA BindStep ==
    ASSUME IInv, NEW n \in Nodes, NEW v \in Volumes, NEW s \in Sizes, Bind(n, v, s)
    PROVE  IInv'
<1> DEFINE V == vols[n] \cup {v}
           sz == [size[n] EXCEPT ![v] = s]
           R == resvSet[n] \ {ResvOf[v]}
<1>1. V \in SUBSET Volumes /\ sz \in [Volumes -> Sizes] /\ R \in SUBSET Resvs
  BY DEF IInv, TypeOK
<1>2. volIDMap' \in [Volumes -> Nodes \cup {None}]
  BY DEF IInv, TypeOK, Bind
<1>3. /\ n \in nodeMap /\ sLock = None /\ volLock[n] = None
      /\ vols' = [vols EXCEPT ![n] = V]
      /\ size' = [size EXCEPT ![n] = sz]
      /\ resvSet' = [resvSet EXCEPT ![n] = CleanResv(n, hasCap, V, R)]
      /\ free' = [free EXCEPT ![n] = GetFree(n, hasCap, cap[n], V, sz, R)]
      /\ basis' = [basis EXCEPT ![n] = cap[n]]
      /\ UNCHANGED <<nodeMap, hasCap, cap, lockVars, th>>
  BY DEF Bind
<1> HIDE DEF V, sz, R
<1> QED
  BY <1>1, <1>2, <1>3, VolumesChangedStep, Zenon

(* A refused bind only takes a reservation away. *)
LEMMA BindDuplicateStep ==
    ASSUME IInv, NEW n \in Nodes, NEW v \in Volumes, NEW s \in Sizes,
           BindDuplicate(n, v, s)
    PROVE  IInv'
<1> USE DEF BindDuplicate, lockVars
<1>1. TypeOK'
  BY DEF IInv, TypeOK
<1>2. ThreadsNamed' /\ LocksHeld' /\ CarriedCovers' /\ FreeCoversVolumes'
  BY DEF IInv, ThreadsNamed, LocksHeld, Carries, CarriedCovers, FreeCoversVolumes
<1>3. ReservationYieldsToVolume'
  BY DEF IInv, ReservationYieldsToVolume, TypeOK
<1> QED
  BY <1>1, <1>2, <1>3 DEF IInv

(* UnbindAntstorVolume, with or without the volume on the node that is named. *)
LEMMA UnbindStep ==
    ASSUME IInv, NEW v \in Volumes, Unbind(v)
    PROVE  IInv'
<1> DEFINE n == volIDMap[v]
           V == vols[n] \ {v}
           R == resvSet[n]
<1>1. n \in Nodes /\ n \in nodeMap /\ sLock = None /\ volLock[n] = None
  BY DEF IInv, TypeOK, Unbind
<1>2. volIDMap' \in [Volumes -> Nodes \cup {None}]
  BY DEF IInv, TypeOK, Unbind
<1>3. CASE v \in vols[n]
  <2>1. V \in SUBSET Volumes /\ size[n] \in [Volumes -> Sizes] /\ R \in SUBSET Resvs
    BY <1>1 DEF IInv, TypeOK
  <2>2. size' = [size EXCEPT ![n] = size[n]]
    BY DEF IInv, TypeOK, Unbind
  <2>3. /\ vols' = [vols EXCEPT ![n] = V]
        /\ resvSet' = [resvSet EXCEPT ![n] = CleanResv(n, hasCap, V, R)]
        /\ free' = [free EXCEPT ![n] = GetFree(n, hasCap, cap[n], V, size[n], R)]
        /\ basis' = [basis EXCEPT ![n] = cap[n]]
        /\ UNCHANGED <<nodeMap, hasCap, cap, lockVars, th>>
    BY <1>3 DEF Unbind
  <2> HIDE DEF n, V, R
  <2> QED
    BY <1>1, <1>2, <2>1, <2>2, <2>3, VolumesChangedStep, Zenon
<1>4. CASE v \notin vols[n]
  <2>1. UNCHANGED <<nodeMap, hasCap, cap, vols, size, resvSet, free, basis, lockVars, th>>
    BY <1>4 DEF Unbind
  <2>2. TypeOK'
    BY <1>2, <2>1 DEF IInv, TypeOK, lockVars
  <2> QED
    BY <2>1, <2>2 DEF IInv, ThreadsNamed, LocksHeld, Carries, CarriedCovers,
                      FreeCoversVolumes, ReservationYieldsToVolume, lockVars
<1> QED
  BY <1>3, <1>4

-----------------------------------------------------------------------------
(* The empty State satisfies the inductive invariant. *)
LEMMA InitIInv == Init => IInv
<1> SUFFICES ASSUME Init PROVE IInv
  OBVIOUS
<1>1. 1 \in Sizes
  BY PoolStateAssumption DEF Sizes
<1>2. TypeOK
  <2>1. Idle \in ThreadState
    BY DEF Idle, ThreadState, Ops
  <2> QED
    BY <1>1, <2>1 DEF Init, TypeOK
<1>3. \A p \in Threads : th[p].op = "idle"
  BY DEF Init, Idle
<1> QED
  BY <1>2, <1>3 DEF Init, IInv, ThreadsNamed, LocksHeld, Carries, CarriedCovers,
                    FreeCoversVolumes, ReservationYieldsToVolume

(* Every step of the State keeps it; one case per action. *)
LEMMA NextIInv == IInv /\ [Next]_vars => IInv'
<1> SUFFICES ASSUME IInv, [Next]_vars PROVE IInv'
  OBVIOUS
<1>0. Idle \in ThreadState
  BY DEF Idle, ThreadState, Ops
<1>1. ASSUME NEW p \in Threads, NEW n \in Nodes, SetStoragePool(p, n) PROVE IInv'
  <2> DEFINE H == hasCap \cup {n}
  <2>1. H \in SUBSET Nodes /\ H \ {n} = hasCap \ {n}
    BY DEF IInv, TypeOK
  <2>2. ~Carries(p)
    BY <1>1 DEF SetStoragePool, Carries
  <2>3. PICK c \in Capacities : \/ AddNode(n, H, c) /\ th' = th
                                \/ ReplacePool(p, n, H, c)
    BY <1>1 DEF SetStoragePool
  <2>4. c \in Int
    BY PoolStateAssumption
  <2> HIDE DEF H
  <2> QED
    BY <2>1, <2>2, <2>3, <2>4, AddNodeStep, ReplacePoolStep
<1>2. ASSUME NEW p \in Threads, SetPlaceholder(p) PROVE IInv'
  <2> DEFINE n == th[p].node
             H == hasCap \ {n}
  <2>1. n \in Nodes /\ H \in SUBSET Nodes /\ H \ {n} = hasCap \ {n}
    BY <1>2 DEF IInv, TypeOK, ThreadsNamed, SetPlaceholder
  <2>2. ~Carries(p)
    BY <1>2 DEF SetPlaceholder, Carries
  <2>3. \/ AddNode(n, H, 0) /\ th' = [th EXCEPT ![p] = Idle]
        \/ ReplacePool(p, n, H, 0)
    BY <1>2 DEF SetPlaceholder
  <2> HIDE DEF n, H
  <2> QED
    BY <2>1, <2>2, <2>3, AddNodeStep, ReplacePoolStep
<1>3. ASSUME NEW p \in Threads, NEW n \in Nodes, MissPool(p, n) \/ SeeNoVolumes(p, n)
      PROVE  IInv'
  <2>1. PICK o \in {"placeholder", "remove"} : th' = [th EXCEPT ![p] = Busy(o, n, None)]
    BY <1>3 DEF MissPool, SeeNoVolumes
  <2> DEFINE t == Busy(o, n, None)
  <2>2. /\ t \in ThreadState /\ t.op = o /\ t.node \in Nodes
    BY DEF Busy, ThreadState, Ops
  <2>3. UNCHANGED <<nodeMap, nodeVars, volIDMap, lockVars>>
    BY <1>3 DEF MissPool, SeeNoVolumes
  <2>4. th' = [th EXCEPT ![p] = t]
    BY <2>1
  <2> HIDE DEF t
  <2> QED
    BY <2>2, <2>3, <2>4, ThreadOnlyStep, Zenon
<1>4. ASSUME NEW p \in Threads, NEW n \in Nodes, NEW r \in Resvs, ReserveCheck(p, n, r)
      PROVE  IInv'
  <2> DEFINE t == Busy("reserve", n, r)
  <2>1. t \in ThreadState /\ t.op = "reserve" /\ t.node \in nodeMap /\ t.resv \in Resvs
    BY <1>4 DEF ReserveCheck, Busy, ThreadState, Ops
  <2>2. /\ th' = [th EXCEPT ![p] = t]
        /\ UNCHANGED <<nodeMap, nodeVars, volIDMap, lockVars>>
    BY <1>4 DEF ReserveCheck
  <2> HIDE DEF t
  <2>3. nodeMap \subseteq Nodes
    BY DEF IInv, TypeOK
  <2> QED
    BY <2>1, <2>2, <2>3, ThreadOnlyStep, Zenon
<1>5. ASSUME NEW p \in Threads, FinishDetached(p) PROVE IInv'
  <2>1. Idle.op = "idle"
    BY DEF Idle
  <2>2. /\ th' = [th EXCEPT ![p] = Idle]
        /\ UNCHANGED <<nodeMap, nodeVars, volIDMap, lockVars>>
    BY <1>5 DEF FinishDetached
  <2> QED
    BY <1>0, <2>1, <2>2, ThreadOnlyStep, Zenon
<1>6. ASSUME NEW p \in Threads, NEW n \in Nodes, NEW r \in Resvs, Unreserve(p, n, r)
      PROVE  IInv'
  <2> DEFINE R == resvSet[n] \ {r}
  <2>1. R \in SUBSET Resvs
    BY DEF IInv, TypeOK
  <2>2. /\ n \in nodeMap /\ th[p].op = "idle" /\ volLock[n] = None
        /\ volLock' = [volLock EXCEPT ![n] = p]
        /\ resvSet' = [resvSet EXCEPT ![n] = CleanResv(n, hasCap, vols[n], R)]
        /\ th' = [th EXCEPT ![p] = Carrying("unlock", n,
                         GetFree(n, hasCap, cap[n], vols[n], size[n], R), cap[n])]
        /\ UNCHANGED <<nodeMap, hasCap, cap, vols, size, free, basis, volIDMap, sLock>>
    BY <1>6 DEF Unreserve
  <2> HIDE DEF R
  <2> QED
    BY <2>1, <2>2, LockedStep, Zenon
<1>7. ASSUME NEW p \in Threads, ReserveLocked(p) PROVE IInv'
  <2> DEFINE n == th[p].node
             R == resvSet[n] \cup {th[p].resv}
  <2>1. n \in Nodes /\ th[p].resv \in Resvs
    BY <1>7 DEF IInv, ThreadsNamed, ReserveLocked
  <2>2. R \in SUBSET Resvs
    BY <2>1 DEF IInv, TypeOK
  <2>3. /\ th[p].op = "reserve" /\ volLock[n] = None
        /\ volLock' = [volLock EXCEPT ![n] = p]
        /\ resvSet' = [resvSet EXCEPT ![n] = CleanResv(n, hasCap, vols[n], R)]
        /\ th' = [th EXCEPT ![p] = Carrying("unlock", n,
                         GetFree(n, hasCap, cap[n], vols[n], size[n], R), cap[n])]
        /\ UNCHANGED <<nodeMap, hasCap, cap, vols, size, free, basis, volIDMap, sLock>>
    BY <1>7, Zenon DEF ReserveLocked
  <2>4. n \in nodeMap
    BY <1>7 DEF IInv, LocksHeld, ReserveLocked
  <2> HIDE DEF n, R
  <2> QED
    BY <2>2, <2>3, <2>4, LockedStep, Zenon
<1>8. CASE UNCHANGED vars
  BY <1>8 DEF vars, nodeVars, lockVars, IInv, TypeOK, ThreadsNamed, LocksHeld, Carries,
              CarriedCovers, FreeCoversVolumes, ReservationYieldsToVolume
<1> QED
  BY <1>1, <1>2, <1>3, <1>4, <1>5, <1>6, <1>7, <1>8, SetStoragePoolDoneStep, StoreFreeStep,
     RemoveStoragePoolStep, BindStep, BindDuplicateStep, UnbindStep DEF Next

(* Hence it holds in every reachable state. *)
LEMMA SpecIInv == Spec => []IInv
BY InitIInv, NextIInv, PTL DEF Spec

(* The State keeps its shape: node copies of volumes, reservations, the index,
   the lock holders and what each goroutine carries stay in their domains. *)
THEOREM TypeCorrect == Spec => []TypeOK
<1>1. IInv => TypeOK
  BY DEF IInv
<1> QED
  BY <1>1, SpecIInv, PTL

(* On a pool with a capacity a reservation is never counted beside the bound
   volume it was made for, however Reserve and AddVolume interleave. *)
THEOREM ReservationsYield == Spec => []ReservationYieldsToVolume
<1>1. IInv => ReservationYieldsToVolume
  BY DEF IInv
<1> QED
  BY <1>1, SpecIInv, PTL

(* FreeResource above zero counts every bound volume: it is within what they
   leave of the capacity it was calculated from, for any number of goroutines
   inside the State and whatever capacities SetStoragePool brings. *)
THEOREM FreeNeverOverstatesVolumes == Spec => []FreeCoversVolumes
<1>1. IInv => FreeCoversVolumes
  BY DEF IInv
<1> QED
  BY <1>1, SpecIInv, PTL

=============================================================================
