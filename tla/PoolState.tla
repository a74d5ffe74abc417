----------------------------- MODULE PoolState -----------------------------
(***************************************************************************)
(* The Disk-Controller's in-memory cache of the cluster: package state of  *)
(* pkg/controller/manager (state.go, node.go, reservation.go).  It maps a  *)
(* node to its StoragePool, the volumes bound to it, the reservations made *)
(* on it and the cached FreeResource, and a volume to its node.            *)
(*                                                                         *)
(* Reconciler workers and informer callbacks call it from several          *)
(* goroutines.  Two locks are involved, state.lock and Node.volLock, and   *)
(* no single one covers every writer of FreeResource: an operation is      *)
(* split into two actions wherever another goroutine can run in between.   *)
(***************************************************************************)
EXTENDS Integers, FiniteSets

CONSTANTS
    Nodes,          \* node ids (the name of a StoragePool is its node's)
    Volumes,        \* AntstorVolumes; name and uuid are one identity here
    Resvs,          \* reservation ids
    Threads,        \* goroutines that call the State
    None,           \* no node, no thread, no reservation
    MaxSize,        \* the largest size of a volume or a reservation
    Capacities,     \* what agents report: Status.Capacity[ResourceDiskPoolByte] of a pool
                    \* less the bytes of its static reserved LVs
    ResvSize,       \* ResvSize[r]: the size of a reservation
    ResvOf          \* ResvOf[v]: getVolumeReservationID, or None

Sizes == 1..MaxSize

ASSUME PoolStateAssumption ==
    /\ IsFiniteSet(Volumes) /\ IsFiniteSet(Resvs)
    /\ None \notin Nodes \cup Threads \cup Resvs
    /\ MaxSize \in Nat \ {0}
    /\ Capacities \subseteq Int
    /\ ResvSize \in [Resvs -> Sizes]
    /\ ResvOf \in [Volumes -> Resvs \cup {None}]

VARIABLES
    nodeMap,    \* the keys of state.NodeMap
    hasCap,     \* nodes whose Pool carries a storage capacity: a placeholder's does not
    cap,        \* the capacity of Node.Pool less its reserved LVs, where it has one
    vols,       \* Node.Volumes
    size,       \* Spec.SizeByte of the copy of a volume that a node holds
    resvSet,    \* Node.resvSet
    free,       \* Node.FreeResource.Storage(): 0 when the key is absent
    basis,      \* history: the capacity that FreeResource was calculated from
    volIDMap,   \* state.volIDMap, None where there is no entry
    sLock,      \* holder of state.lock across two actions
    volLock,    \* holder of Node.volLock across two actions
    th          \* what each goroutine is in the middle of

nodeVars == <<hasCap, cap, vols, size, resvSet, free, basis>>
lockVars == <<sLock, volLock>>
vars == <<nodeMap, nodeVars, volIDMap, lockVars, th>>

Ops == {"idle",         \* not inside the State
        "reserve",      \* in Reserve, past the unlocked checks
        "unlock",       \* in Reserve or Unreserve, FreeResource computed and not yet stored
        "setPool",      \* in SetStoragePool, FreeResource computed and not yet stored
        "placeholder",  \* an event handler that found no node
        "remove"}       \* the pool reconciler, having seen no volume on the node

ThreadState == [op : Ops, node : Nodes \cup {None}, resv : Resvs \cup {None},
                val : Int, from : Int, live : BOOLEAN]
Idle == [op |-> "idle", node |-> None, resv |-> None, val |-> 0, from |-> 0, live |-> TRUE]
Busy(o, n, r) == [op |-> o, node |-> n, resv |-> r, val |-> 0, from |-> 0, live |-> TRUE]
(* A goroutine that carries the figure x, calculated from the capacity c. *)
Carrying(o, n, x, c) ==
    [op |-> o, node |-> n, resv |-> None, val |-> x, from |-> c, live |-> TRUE]

(* Types of the State, of its nodes and of what each thread is doing. *)
TypeOK ==
    /\ nodeMap \subseteq Nodes
    /\ hasCap \subseteq Nodes
    /\ cap \in [Nodes -> Int]
    /\ vols \in [Nodes -> SUBSET Volumes]
    /\ size \in [Nodes -> [Volumes -> Sizes]]
    /\ resvSet \in [Nodes -> SUBSET Resvs]
    /\ free \in [Nodes -> Int] /\ basis \in [Nodes -> Int]
    /\ volIDMap \in [Volumes -> Nodes \cup {None}]
    /\ sLock \in Threads \cup {None}
    /\ volLock \in [Nodes -> Threads \cup {None}]
    /\ th \in [Threads -> ThreadState]

-----------------------------------------------------------------------------
(* Sums of sizes are cardinalities of sets of size units.                  *)

VolUnits(V, sz) == {u \in V \X Sizes : u[2] <= sz[u[1]]}
ResvUnits(R) == {u \in R \X Sizes : u[2] <= ResvSize[u[1]]}

(* What volumes leave of a capacity c. *)
Room(c, V, sz) == c - Cardinality(VolUnits(V, sz))

(* GetFreeResourceNonLock: the result, and its clean-up of the reservations
   whose volume is bound.  Without a capacity it computes and cleans nothing.
   H is the set of nodes whose pool has one, and c that of n. *)
Owned(V) == {ResvOf[v] : v \in V}
CleanResv_NoCleanup(n, H, V, R) == R     \* mutant: bound reservations stay
CleanResv(n, H, V, R) == IF n \in H THEN R \ Owned(V) ELSE R
GetFree(n, H, c, V, sz, R) ==
    IF n \in H THEN Room(c, V, sz) - Cardinality(ResvUnits(R \ Owned(V))) ELSE 0

-----------------------------------------------------------------------------
Init ==
    /\ nodeMap = {}
    /\ hasCap = {}
    /\ cap = [n \in Nodes |-> 0]
    /\ vols = [n \in Nodes |-> {}]
    /\ size = [n \in Nodes |-> [v \in Volumes |-> 1]]
    /\ resvSet = [n \in Nodes |-> {}]
    /\ free = [n \in Nodes |-> 0] /\ basis = [n \in Nodes |-> 0]
    /\ volIDMap = [v \in Volumes |-> None]
    /\ sLock = None
    /\ volLock = [n \in Nodes |-> None]
    /\ th = [p \in Threads |-> Idle]

(* SetStoragePool for a pool that is not in the NodeMap: NewNode.  H are the
   nodes with a capacity from now on, and c is that of n.  Nobody else can see
   the Node before state.lock is released. *)
AddNode(n, H, c) ==
    /\ sLock = None
    /\ n \notin nodeMap
    /\ nodeMap' = nodeMap \cup {n}
    /\ hasCap' = H
    /\ cap' = [cap EXCEPT ![n] = c]
    /\ vols' = [vols EXCEPT ![n] = {}]
    /\ resvSet' = [resvSet EXCEPT ![n] = {}]
    /\ free' = [free EXCEPT ![n] = GetFree(n, H, c, {}, size[n], {})]
    /\ basis' = [basis EXCEPT ![n] = c]
    /\ UNCHANGED <<size, volIDMap, lockVars>>

(* Mutant: SetStoragePool that does not hold state.lock while it computes. *)
ReplacePool_NoLock(p, n, H, c) ==
    /\ n \in nodeMap
    /\ hasCap' = H
    /\ cap' = [cap EXCEPT ![n] = c]
    /\ resvSet' = [resvSet EXCEPT ![n] = CleanResv(n, H, vols[n], @)]
    /\ th' = [th EXCEPT ![p] =
                Carrying("setPool", n, GetFree(n, H, c, vols[n], size[n], resvSet[n]), c)]
    /\ UNCHANGED <<nodeMap, vols, size, free, basis, volIDMap, lockVars>>

(* SetStoragePool for a known node: the Pool is replaced, with whatever capacity
   it has by now, and FreeResource computed under state.lock, but without
   volLock. *)
ReplacePool(p, n, H, c) ==
    /\ sLock = None
    /\ n \in nodeMap
    /\ hasCap' = H
    /\ cap' = [cap EXCEPT ![n] = c]
    /\ resvSet' = [resvSet EXCEPT ![n] = CleanResv(n, H, vols[n], @)]
    /\ sLock' = p
    /\ th' = [th EXCEPT ![p] =
                Carrying("setPool", n, GetFree(n, H, c, vols[n], size[n], resvSet[n]), c)]
    /\ UNCHANGED <<nodeMap, vols, size, free, basis, volIDMap, volLock>>

(* The pool reconciler's saveToState, with the pool of the API server.  The
   reservations of the configuration that it adds afterwards are Reserve's. *)
SetStoragePool(p, n) ==
    /\ th[p].op = "idle"
    /\ \E c \in Capacities :
          \/ AddNode(n, hasCap \cup {n}, c) /\ UNCHANGED th
          \/ ReplacePool(p, n, hasCap \cup {n}, c)

SetStoragePoolDone(p) ==
    /\ th[p].op = "setPool"
    /\ free' = [free EXCEPT ![th[p].node] = th[p].val]
    /\ basis' = [basis EXCEPT ![th[p].node] = th[p].from]
    /\ sLock' = None
    /\ th' = [th EXCEPT ![p] = Idle]
    /\ UNCHANGED <<nodeMap, hasCap, cap, vols, size, resvSet, volIDMap, volLock>>

(* VolumeEventHandler.Create and PVCEventHandler.OnAdd: no pool was found for
   the node of the event (state.lock is released again) ... *)
MissPool(p, n) ==
    /\ th[p].op = "idle" /\ sLock = None
    /\ n \notin nodeMap
    /\ th' = [th EXCEPT ![p] = Busy("placeholder", n, None)]
    /\ UNCHANGED <<nodeMap, nodeVars, volIDMap, lockVars>>

(* ... so they set an empty pool, over whatever is there by now. *)
SetPlaceholder(p) ==
    /\ th[p].op = "placeholder"
    /\ \/ AddNode(th[p].node, hasCap \ {th[p].node}, 0) /\ th' = [th EXCEPT ![p] = Idle]
       \/ ReplacePool(p, th[p].node, hasCap \ {th[p].node}, 0)

(* The pool reconciler's handleDeletion: it looks at the volumes of the node,
   if the State has one ... *)
SeeNoVolumes(p, n) ==
    /\ th[p].op = "idle"
    /\ n \in nodeMap => vols[n] = {}
    /\ th' = [th EXCEPT ![p] = Busy("remove", n, None)]
    /\ UNCHANGED <<nodeMap, nodeVars, volIDMap, lockVars>>

(* ... and calls RemoveStoragePool.  The index keeps its entries.  Goroutines
   inside Reserve or Unreserve go on with a Node that nobody reaches. *)
RemoveStoragePool(p) ==
    LET n == th[p].node IN
    /\ th[p].op = "remove"
    /\ sLock = None
    /\ nodeMap' = nodeMap \ {n}
    /\ volLock' = [volLock EXCEPT ![n] = None]
    /\ th' = [q \in Threads |->
                IF q = p THEN Idle
                ELSE IF th[q].node = n /\ th[q].op \in {"reserve", "unlock"}
                     THEN [th[q] EXCEPT !.live = FALSE]
                     ELSE th[q]]
    /\ UNCHANGED <<nodeVars, volIDMap, sLock>>

-----------------------------------------------------------------------------
(* Reserve reads Volumes and FreeResource without a lock ... *)
ReserveCheck(p, n, r) ==
    /\ th[p].op = "idle"
    /\ n \in nodeMap
    /\ r \notin Owned(vols[n])
    /\ free[n] >= ResvSize[r]
    /\ th' = [th EXCEPT ![p] = Busy("reserve", n, r)]
    /\ UNCHANGED <<nodeMap, nodeVars, volIDMap, lockVars>>

(* ... then takes volLock, adds the reservation and computes FreeResource. *)
ReserveLocked(p) ==
    LET n == th[p].node  R == resvSet[n] \cup {th[p].resv} IN
    /\ th[p].op = "reserve" /\ th[p].live
    /\ volLock[n] = None
    /\ volLock' = [volLock EXCEPT ![n] = p]
    /\ resvSet' = [resvSet EXCEPT ![n] = CleanResv(n, hasCap, vols[n], R)]
    /\ th' = [th EXCEPT ![p] =
                Carrying("unlock", n, GetFree(n, hasCap, cap[n], vols[n], size[n], R), cap[n])]
    /\ UNCHANGED <<nodeMap, hasCap, cap, vols, size, free, basis, volIDMap, sLock>>

Unreserve(p, n, r) ==
    LET R == resvSet[n] \ {r} IN
    /\ th[p].op = "idle"
    /\ n \in nodeMap
    /\ volLock[n] = None
    /\ volLock' = [volLock EXCEPT ![n] = p]
    /\ resvSet' = [resvSet EXCEPT ![n] = CleanResv(n, hasCap, vols[n], R)]
    /\ th' = [th EXCEPT ![p] =
                Carrying("unlock", n, GetFree(n, hasCap, cap[n], vols[n], size[n], R), cap[n])]
    /\ UNCHANGED <<nodeMap, hasCap, cap, vols, size, free, basis, volIDMap, sLock>>

(* Both store FreeResource, over what SetStoragePool may have stored since, and
   release volLock. *)
StoreFree(p) ==
    LET n == th[p].node IN
    /\ th[p].op = "unlock" /\ th[p].live
    /\ free' = [free EXCEPT ![n] = th[p].val]
    /\ basis' = [basis EXCEPT ![n] = th[p].from]
    /\ volLock' = [volLock EXCEPT ![n] = None]
    /\ th' = [th EXCEPT ![p] = Idle]
    /\ UNCHANGED <<nodeMap, hasCap, cap, vols, size, resvSet, volIDMap, sLock>>

(* The same steps on a Node that has left the NodeMap. *)
FinishDetached(p) ==
    /\ ~th[p].live
    /\ th' = [th EXCEPT ![p] = Idle]
    /\ UNCHANGED <<nodeMap, nodeVars, volIDMap, lockVars>>

-----------------------------------------------------------------------------
(* Mutant: a volume that is bound again is counted once more. *)
Bind_CountTwice(n, v, s) ==
    /\ sLock = None /\ volLock[n] = None
    /\ n \in nodeMap
    /\ vols' = [vols EXCEPT ![n] = @ \cup {v}]
    /\ size' = [size EXCEPT ![n][v] = IF v \in vols[n] THEN @ + s ELSE s]
    /\ volIDMap' = [volIDMap EXCEPT ![v] = n]
    /\ UNCHANGED <<nodeMap, hasCap, cap, resvSet, free, basis, lockVars, th>>

(* BindAntstorVolume and Node.AddVolume, under both locks. *)
Bind(n, v, s) ==
    LET V == vols[n] \cup {v}
        sz == [size[n] EXCEPT ![v] = s]
        R == resvSet[n] \ {ResvOf[v]}
    IN
    /\ sLock = None /\ volLock[n] = None
    /\ n \in nodeMap
    /\ v \in vols[n] => size[n][v] = s
    /\ vols' = [vols EXCEPT ![n] = V]
    /\ size' = [size EXCEPT ![n] = sz]
    /\ resvSet' = [resvSet EXCEPT ![n] = CleanResv(n, hasCap, V, R)]
    /\ free' = [free EXCEPT ![n] = GetFree(n, hasCap, cap[n], V, sz, R)]
    /\ basis' = [basis EXCEPT ![n] = cap[n]]
    /\ volIDMap' = [volIDMap EXCEPT ![v] = n]
    /\ UNCHANGED <<nodeMap, hasCap, cap, lockVars, th>>

(* AddVolume of a volume whose size has changed: ErrDuplicateVolume, after
   the reservation was dropped and without computing FreeResource. *)
BindDuplicate(n, v, s) ==
    /\ sLock = None /\ volLock[n] = None
    /\ n \in nodeMap
    /\ v \in vols[n] /\ size[n][v] # s
    /\ resvSet' = [resvSet EXCEPT ![n] = @ \ {ResvOf[v]}]
    /\ UNCHANGED <<nodeMap, hasCap, cap, vols, size, free, basis, volIDMap, lockVars, th>>

(* UnbindAntstorVolume and Node.RemoveVolumeByID.  It fails, and changes
   nothing, without an index entry or without the node it names. *)
Unbind(v) ==
    LET n == volIDMap[v]  V == vols[n] \ {v} IN
    /\ sLock = None
    /\ n \in nodeMap
    /\ volLock[n] = None
    /\ IF v \in vols[n]
       THEN /\ vols' = [vols EXCEPT ![n] = V]
            /\ resvSet' = [resvSet EXCEPT ![n] = CleanResv(n, hasCap, V, @)]
            /\ free' = [free EXCEPT ![n] =
                          GetFree(n, hasCap, cap[n], V, size[n], resvSet[n])]
            /\ basis' = [basis EXCEPT ![n] = cap[n]]
       ELSE UNCHANGED <<vols, resvSet, free, basis>>
    /\ volIDMap' = [volIDMap EXCEPT ![v] = None]
    /\ UNCHANGED <<nodeMap, hasCap, cap, size, lockVars, th>>

Next ==
    \/ \E p \in Threads, n \in Nodes :
          \/ SetStoragePool(p, n)
          \/ MissPool(p, n)
          \/ SeeNoVolumes(p, n)
          \/ \E r \in Resvs : ReserveCheck(p, n, r) \/ Unreserve(p, n, r)
    \/ \E p \in Threads :
          \/ SetStoragePoolDone(p)
          \/ SetPlaceholder(p)
          \/ RemoveStoragePool(p)
          \/ ReserveLocked(p)
          \/ StoreFree(p)
          \/ FinishDetached(p)
    \/ \E n \in Nodes, v \in Volumes, s \in Sizes : Bind(n, v, s) \/ BindDuplicate(n, v, s)
    \/ \E v \in Volumes : Unbind(v)

Spec == Init /\ [][Next]_vars

-----------------------------------------------------------------------------
(* A reservation and the volume it was made for are never both counted: once
   the volume is bound to a pool with a capacity, the reservation is gone,
   even when Reserve's unlocked check ran before the bind and its locked part
   after it (node.go, Reserve against AddVolume). *)
ReservationYieldsToVolume ==
    \A n \in nodeMap \cap hasCap : resvSet[n] \cap Owned(vols[n]) = {}

(* No bound volume is ever missing from FreeResource, whatever SetStoragePool,
   Reserve, Unreserve, Bind and Unbind interleave to: a figure above zero is
   within what the volumes bound now leave of the capacity that it was calculated
   from.  That capacity itself may be outdated: a Reserve that calculated before
   SetStoragePool replaced the Pool may store after it (node.go, Reserve; see
   FreeIsCalculated). *)
FreeCoversVolumes ==
    \A n \in nodeMap : free[n] > 0 => free[n] <= Room(basis[n], vols[n], size[n])

(* "FreeResource is calculated free resource of the Pool" (node.go:19): when
   no goroutine is inside the State, it is what GetFreeResourceNonLock
   returns for the node's pool, volumes and reservations. *)
FreeIsCalculated ==
    (\A p \in Threads : th[p].op = "idle") =>
        \A n \in nodeMap :
            free[n] = GetFree(n, hasCap, cap[n], vols[n], size[n], resvSet[n])

=============================================================================
