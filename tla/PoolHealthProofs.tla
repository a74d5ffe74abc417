-------------------------- MODULE PoolHealthProofs --------------------------
(***************************************************************************)
(* The pool of a silent node stays out of scheduling, for every capacity   *)
(* and any number of failures.                                             *)
(*                                                                         *)
(* The argument is about one pass.  What its first part publishes in State *)
(* is on its way to checkHeartbeat, or is what the API server holds.  What *)
(* its last part leaves there is what the Lease it read asks for, or the   *)
(* answer of the API server.  That a volume event cannot bring an entry    *)
(* back takes an invariant: an entry that was removed has no status left.  *)
(***************************************************************************)
EXTENDS PoolHealth, TLAPS

(* An entry that is not in State has no status. *)
EntryInv == ~st.in => st.status = ""

(* During a pass the entry is there, and no deletion is under way. *)
PassInv == pass.pc # "idle" => st.in /\ ~removing

IInv == TypeOK /\ EntryInv /\ PassInv

(* A pool as the API server may hold it. *)
PoolOK(s) == s \in Pools /\ (~s.ex => s = NoPool) /\ (s.del => s.fin)

-----------------------------------------------------------------------------
(* The writes. *)

LEMMA Literals ==
    /\ None \in Bytes /\ "" \in Statuses /\ "none" \in Conditions
    /\ {"ready", "unknown", "offline", "locked"} \subseteq Statuses
    /\ {"ok", "error"} \subseteq Conditions
BY DEF Bytes, Statuses, Conditions, None

LEMMA NoPoolOK == PoolOK(NoPool) /\ ~NoPool.ex
<1>1. NoPool \in Pools
  BY Literals, Zenon DEF NoPool, Pools
<1>2. ~NoPool.ex /\ ~NoPool.del
  BY Zenon DEF NoPool
<1> QED BY <1>1, <1>2, Zenon DEF PoolOK

(* A status, a mark or a condition is all that most writes change. *)
SameShape(t, s) == t \in Pools /\ t.ex = s.ex /\ t.del = s.del /\ t.fin = s.fin

LEMMA StatusWrite ==
    ASSUME NEW s \in Pools, NEW x \in Statuses
    PROVE  /\ SameShape([s EXCEPT !.status = x], s)
           /\ [s EXCEPT !.status = x].status = x
           /\ [s EXCEPT !.status = x].mark = s.mark
BY Zenon DEF Pools, SameShape

LEMMA CapWrite ==
    ASSUME NEW s \in Pools, NEW x \in Statuses
    PROVE  SameShape([s EXCEPT !.status = x, !.cap = TRUE], s)
BY Zenon DEF Pools, SameShape

LEMMA KubeWrite ==
    ASSUME NEW s \in Pools, NEW k \in Conditions
    PROVE  SameShape([s EXCEPT !.kube = k], s)
BY Zenon DEF Pools, SameShape

LEMMA MarkWrite ==
    ASSUME NEW s \in Pools, NEW b \in Bytes
    PROVE  /\ SameShape([s EXCEPT !.mark = b], s)
           /\ [s EXCEPT !.mark = b].status = s.status
           /\ [s EXCEPT !.mark = b].mark = b
BY Zenon DEF Pools, SameShape

LEMMA SpecWrite ==
    ASSUME NEW s \in Pools, NEW b \in BOOLEAN
    PROVE  SameShape([s EXCEPT !.spec = b], s)
BY Zenon DEF Pools, SameShape

LEMMA ReportWrite ==
    ASSUME NEW s \in Pools, NEW k \in Conditions, NEW c \in Conditions
    PROVE  SameShape([s EXCEPT !.spdk = c, !.kube = k, !.cap = TRUE], s)
BY Zenon DEF Pools, SameShape

LEMMA ShapeOK ==
    ASSUME NEW s, NEW t, PoolOK(s), s.ex, SameShape(t, s)
    PROVE  PoolOK(t) /\ t.ex
BY Zenon DEF PoolOK, SameShape

LEMMA StoredShape ==
    ASSUME NEW s \in Pools
    PROVE  SameShape(Stored(s), s)
BY Literals, StatusWrite, Zenon DEF Stored, SameShape

LEMMA DeletedOK ==
    ASSUME NEW s, PoolOK(s), s.ex
    PROVE  PoolOK(Deleted(s))
<1>1. CASE ~s.fin
  BY <1>1, NoPoolOK, Zenon DEF Deleted
<1>2. CASE s.fin
  <2>1. Deleted(s) = [s EXCEPT !.del = TRUE] /\ s \in Pools
    BY <1>2, Zenon DEF Deleted, PoolOK
  <2>2. Deleted(s) \in Pools /\ Deleted(s).ex = s.ex /\ Deleted(s).fin = s.fin
    BY <2>1, Zenon DEF Pools
  <2> QED BY <1>2, <2>2, Zenon DEF PoolOK
<1> QED BY <1>1, <1>2

LEMMA KubeConditionShape ==
    ASSUME NEW s \in Pools
    PROVE  SameShape(KubeCondition(s), s)
<1>1. ASSUME NEW k \in Conditions
      PROVE  SameShape(Stored([s EXCEPT !.kube = k]), s)
  BY KubeWrite, StoredShape, Zenon DEF SameShape
<1>2. "ok" \in Conditions /\ "error" \in Conditions
  BY Zenon DEF Conditions
<1>3. \/ KubeCondition(s) = Stored([s EXCEPT !.kube = "error"])
      \/ KubeCondition(s) = Stored([s EXCEPT !.kube = "ok"])
      \/ KubeCondition(s) = s
  BY Zenon DEF KubeCondition
<1>4. SameShape(s, s)
  BY Zenon DEF SameShape
<1> QED BY <1>1, <1>2, <1>3, <1>4, Zenon

LEMMA LockPoolShape ==
    ASSUME NEW s \in Pools
    PROVE  SameShape(LockPool(s), s)
<1> DEFINE k == KubeCondition(s)
<1>1. SameShape(k, s)
  BY KubeConditionShape, Zenon
<1>2. \/ LockPool(s) = [k EXCEPT !.status = "locked"]
      \/ LockPool(s) = [k EXCEPT !.status = "ready"]
      \/ LockPool(s) = k
  BY Zenon DEF LockPool, Lock
<1> HIDE DEF k
<1>3. "locked" \in Statuses /\ "ready" \in Statuses /\ k \in Pools
  BY <1>1, Zenon DEF Statuses, SameShape
<1>4. SameShape([k EXCEPT !.status = "locked"], k) /\ SameShape([k EXCEPT !.status = "ready"], k)
  BY <1>3, StatusWrite, Zenon
<1>5. SameShape(LockPool(s), k) \/ LockPool(s) = k
  BY <1>2, <1>4, Zenon
<1> QED BY <1>1, <1>5, Zenon DEF SameShape

LEMMA LocalBytesType == TypeOK => LocalBytes(st) \in Bytes
<1>1. 0 \in Bytes /\ Capacity \in Bytes /\ Capacity - 1 \in Bytes /\ Capacity - 0 = Capacity
  BY PoolHealthAssumption DEF Bytes
<1> QED BY <1>1, Zenon DEF LocalBytes

-----------------------------------------------------------------------------
(* The agent, the informers, the volume, time and failures. *)

Leases == [ex : BOOLEAN, age : {"fresh", "lost", "offline"}, orphan : BOOLEAN]
Entries == [in : BOOLEAN, status : Statuses, mark : Bytes, vols : BOOLEAN]
Agents == [up : BOOLEAN, lease : BOOLEAN, kube : Conditions]
Passes == [pc : {"idle", "lease", "patch"}, out : BOOLEAN, age : {"fresh", "lost", "offline"}]
Caches == [sp : Pools, node : KubeNodes, vol : BOOLEAN]

LEMMA Parts ==
    IInv <=> /\ reportLocal \in BOOLEAN /\ node \in KubeNodes /\ PoolOK(sp)
             /\ lease \in Leases /\ seen \in Caches /\ st \in Entries /\ EntryInv
             /\ pass \in Passes /\ PassInv
             /\ removing \in BOOLEAN /\ relist \in BOOLEAN /\ spdk \in BOOLEAN
             /\ missed \in BOOLEAN
             /\ vol \in {"none", "binding", "bound", "gone"} /\ agt \in Agents
             /\ events \in 0..MaxEvents
BY Zenon DEF IInv, TypeOK, PoolOK, Leases, Caches, Entries, Agents, Passes

(* What a step leaves as it is keeps its type. *)
LEMMA PrimedParts ==
    ASSUME reportLocal' \in BOOLEAN, node' \in KubeNodes, PoolOK(sp)',
           lease' \in Leases, seen' \in Caches, st' \in Entries, EntryInv',
           pass' \in Passes, PassInv', removing' \in BOOLEAN, relist' \in BOOLEAN, spdk' \in BOOLEAN,
           missed' \in BOOLEAN, vol' \in {"none", "binding", "bound", "gone"}, agt' \in Agents,
           events' \in 0..MaxEvents
    PROVE  IInv'
BY Zenon DEF IInv, TypeOK, PoolOK, Leases, Caches, Entries, Agents, Passes

LEMMA EventsType ==
    ASSUME events \in 0..MaxEvents, Happens
    PROVE  events' \in 0..MaxEvents
BY PoolHealthAssumption DEF Happens

LEMMA Constants ==
    /\ NoLease \in Leases /\ [NoLease EXCEPT !.ex = TRUE] \in Leases
    /\ NotInState \in Entries /\ NotInState.in = FALSE /\ NotInState.status = ""
    /\ NoAgent \in Agents /\ [NoAgent EXCEPT !.up = TRUE] \in Agents
    /\ Idle \in Passes /\ Idle.pc = "idle"
<1>1. NoLease \in Leases /\ NoAgent \in Agents
  BY Literals, Zenon DEF NoLease, Leases, NoAgent, Agents
<1>2. NotInState \in Entries /\ NotInState.in = FALSE /\ NotInState.status = ""
  BY Literals, Zenon DEF NotInState, Entries
<1>3. [NoLease EXCEPT !.ex = TRUE] \in Leases
  BY <1>1, Zenon DEF Leases
<1>4. [NoAgent EXCEPT !.up = TRUE] \in Agents
  BY <1>1, Zenon DEF Agents
<1>5. Idle \in Passes /\ Idle.pc = "idle"
  BY Zenon DEF Idle, Passes
<1> QED BY <1>1, <1>2, <1>3, <1>4, <1>5, Zenon

LEMMA OwnedType ==
    ASSUME lease \in Leases, NEW s
    PROVE  Owned(s) \in Leases
BY Zenon DEF Owned, Leases

LEMMA SyncPoolKeeps ==
    ASSUME IInv, SyncPool
    PROVE  IInv'
<1>1. PICK ok \in BOOLEAN :
        LET good == ok /\ GetByNodeID
        IN  /\ ok \/ events < MaxEvents
            /\ events' = IF ok THEN events ELSE events + 1
            /\ IF sp.ex THEN /\ sp' = [sp EXCEPT !.spec = good]
                             /\ agt' = [agt EXCEPT !.kube = sp.kube]
               ELSE /\ sp' = IF good THEN [NoPool EXCEPT !.ex = TRUE, !.spec = TRUE] ELSE sp
                    /\ agt' = agt
  BY Zenon DEF SyncPool
<1> DEFINE good == ok /\ GetByNodeID
<1>2. events' \in 0..MaxEvents
  BY <1>1, PoolHealthAssumption DEF IInv, TypeOK
<1>3. PoolOK(sp) /\ sp \in Pools /\ agt \in Agents /\ sp.kube \in Conditions /\ good \in BOOLEAN
  <2>1. PoolOK(sp) /\ agt \in Agents
    BY Parts, Zenon
  <2>2. node.ex \in BOOLEAN
    BY Parts, Zenon DEF KubeNodes
  <2>3. sp \in Pools /\ sp.kube \in Conditions
    BY <2>1, Zenon DEF PoolOK, Pools
  <2> QED BY <2>1, <2>2, <2>3, Zenon DEF GetByNodeID
<1>4. CASE sp.ex
  <2>1. sp' = [sp EXCEPT !.spec = good] /\ agt' = [agt EXCEPT !.kube = sp.kube]
    BY <1>1, <1>4, Zenon
  <2>2. PoolOK(sp')
    BY <1>3, <1>4, <2>1, SpecWrite, ShapeOK, Zenon
  <2>3. agt' \in Agents
    BY <1>3, <2>1, Zenon DEF Agents
  <2> HIDE DEF good
  <2> QED BY <1>2, <2>2, <2>3, Parts, PrimedParts, Zenon DEF SyncPool, ctl, EntryInv, PassInv, PoolOK
<1>5. CASE ~sp.ex
  <2>1. sp' = [NoPool EXCEPT !.ex = TRUE, !.spec = TRUE] \/ sp' = sp
    BY <1>1, <1>5, Zenon
  <2>2. PoolOK(sp')
    <3>1. CASE sp' = sp
      BY <1>3, <3>1, Zenon
    <3>2. CASE sp' = [NoPool EXCEPT !.ex = TRUE, !.spec = TRUE]
      <4>1. NoPool \in Pools /\ NoPool.del = FALSE
        BY NoPoolOK, Zenon DEF PoolOK, NoPool
      <4>2. sp' \in Pools /\ sp'.ex /\ ~sp'.del
        BY <3>2, <4>1, Zenon DEF Pools
      <4> QED BY <4>2, Zenon DEF PoolOK
    <3> QED BY <2>1, <3>1, <3>2
  <2>3. agt' \in Agents
    BY <1>1, <1>3, <1>5, Zenon
  <2> HIDE DEF good
  <2> QED BY <1>2, <2>2, <2>3, Parts, PrimedParts, Zenon DEF SyncPool, ctl, EntryInv, PassInv, PoolOK
<1> QED BY <1>4, <1>5

LEMMA UpdatePoolStatusKeeps ==
    ASSUME IInv, UpdatePoolStatus
    PROVE  IInv'
<1> DEFINE s == [sp EXCEPT !.spdk = Condition(spdk), !.kube = agt.kube, !.cap = TRUE]
<1>1. /\ PoolOK(sp) /\ sp \in Pools /\ sp.ex
      /\ agt.kube \in Conditions /\ Condition(spdk) \in Conditions
  BY Parts, Zenon DEF UpdatePoolStatus, PoolOK, Agents, Condition, Conditions
<1>2. SameShape(s, sp)
  BY <1>1, ReportWrite, Zenon
<1>3. sp' = sp \/ sp' = Stored(s)
  BY Zenon DEF UpdatePoolStatus, StatusReport
<1> HIDE DEF s
<1>4. SameShape(Stored(s), sp)
  BY <1>2, StoredShape, Zenon DEF SameShape
<1>5. PoolOK(sp')
  BY <1>1, <1>3, <1>4, ShapeOK, Zenon
<1> QED BY <1>5, Parts, PrimedParts, Zenon DEF UpdatePoolStatus, ctl, EntryInv, PassInv, PoolOK

LEMMA LeaseKeeps ==
    ASSUME IInv, Beat \/ CollectLease \/ LeaseAges
    PROVE  IInv'
<1>0. lease \in Leases /\ agt \in Agents
  BY Parts, Zenon
<1>1. lease' \in Leases
  <2>1. CASE Beat
    BY <1>0, <2>1, Constants, Zenon DEF Beat, Leases
  <2>2. CASE CollectLease
    BY <2>2, Constants, Zenon DEF CollectLease
  <2>3. CASE LeaseAges
    BY <1>0, <2>3, Zenon DEF LeaseAges, Leases
  <2> QED BY <2>1, <2>2, <2>3
<1>2. agt' \in Agents
  BY <1>0, Zenon DEF Beat, CollectLease, LeaseAges, Agents
<1>3. UNCHANGED <<reportLocal, node, sp, seen, st, pass, removing, relist, vol, missed, spdk,
                 events>>
  BY Zenon DEF Beat, CollectLease, LeaseAges, ctl
<1> QED BY <1>1, <1>2, <1>3, Parts, PrimedParts, Zenon DEF EntryInv, PassInv, PoolOK

LEMMA ObserveKeeps ==
    ASSUME IInv, ObservePool \/ ObserveNode \/ ObserveVolume
    PROVE  IInv'
<1>1. seen \in Caches /\ sp \in Pools /\ node \in KubeNodes
  BY Parts, Zenon DEF PoolOK
<1>2. seen' \in Caches
  <2>1. CASE ObservePool
    BY <1>1, <2>1, Zenon DEF ObservePool, Sees, Caches
  <2>2. CASE ObserveNode
    BY <1>1, <2>2, Zenon DEF ObserveNode, Sees, Caches
  <2>3. CASE ObserveVolume
    <3>1. (vol = "bound") \in BOOLEAN
      OBVIOUS
    <3> QED BY <1>1, <2>3, <3>1, Zenon DEF ObserveVolume, Sees, Caches
  <2> QED BY <2>1, <2>2, <2>3
<1>3. UNCHANGED <<reportLocal, node, sp, lease, st, pass, removing, relist, vol, spdk, agt, missed,
                 events>>
  BY Zenon DEF ObservePool, ObserveNode, ObserveVolume, Sees
<1> QED BY <1>2, <1>3, Parts, PrimedParts, Zenon DEF EntryInv, PassInv, PoolOK

(* Events of the volume change the entry in State, and never its status. *)
LEMMA VolumeEventKeeps ==
    ASSUME IInv, BindVolume \/ PersistVolume \/ DeleteVolume \/ RestoreVolume
    PROVE  IInv'
<1>1. st \in Entries /\ EntryInv /\ events \in 0..MaxEvents
  BY Parts, Zenon
<1>2. /\ UNCHANGED <<reportLocal, node, sp, lease, seen, pass, removing, spdk, agt, missed>>
      /\ Happens \/ UNCHANGED events
      /\ vol' \in {"none", "binding", "bound", "gone"} /\ relist' \in BOOLEAN
  BY Parts, Zenon DEF BindVolume, PersistVolume, DeleteVolume, RestoreVolume
<1>3. \/ st' = st \/ st' = [st EXCEPT !.in = TRUE, !.vols = TRUE]
      \/ st' = [st EXCEPT !.vols = TRUE] \/ st' = [st EXCEPT !.vols = FALSE]
  BY Zenon DEF BindVolume, PersistVolume, DeleteVolume, RestoreVolume
<1>4. st' \in Entries /\ st'.status = st.status /\ (st.in => st'.in)
  <2>1. CASE st' = st
    BY <1>1, <2>1, Zenon
  <2>2. CASE st' = [st EXCEPT !.in = TRUE, !.vols = TRUE]
    BY <1>1, <2>2, Zenon DEF Entries
  <2>3. CASE st' = [st EXCEPT !.vols = TRUE]
    BY <1>1, <2>3, Zenon DEF Entries
  <2>4. CASE st' = [st EXCEPT !.vols = FALSE]
    BY <1>1, <2>4, Zenon DEF Entries
  <2> QED BY <1>3, <2>1, <2>2, <2>3, <2>4
<1>5. EntryInv' /\ events' \in 0..MaxEvents
  BY <1>1, <1>2, <1>4, EventsType, Zenon DEF EntryInv
<1>6. PassInv'
  BY <1>2, <1>4, Parts, Zenon DEF PassInv
<1> QED BY <1>6, <1>2, <1>4, <1>5, Parts, PrimedParts, Zenon DEF PoolOK

LEMMA ReportLocalType ==
    ASSUME IInv, NEW b \in Bytes, NEW ok \in BOOLEAN, ReportLocalDiskResource(b, ok)
    PROVE  node' \in KubeNodes /\ missed' \in BOOLEAN /\ events' \in 0..MaxEvents
<1>1. node \in KubeNodes /\ missed \in BOOLEAN /\ events \in 0..MaxEvents
  BY Parts, Zenon
<1>2. node' = node \/ node' = [node EXCEPT !.res = b]
  BY Zenon DEF ReportLocalDiskResource
<1>3. node' \in KubeNodes
  BY <1>1, <1>2, Zenon DEF KubeNodes
<1>4. missed' \in BOOLEAN
  BY <1>1, Zenon DEF ReportLocalDiskResource
<1>5. events' \in 0..MaxEvents
  BY <1>1, EventsType, Zenon DEF ReportLocalDiskResource
<1> QED BY <1>3, <1>4, <1>5, Zenon

(* The entry that a pool is saved to. *)
LEMMA InStateType ==
    ASSUME st \in Entries, NEW s \in Pools, InState(s)
    PROVE  st' \in Entries /\ st'.in = TRUE /\ st'.status = s.status
<1>1. s.status \in Statuses /\ s.mark \in Bytes
  BY Zenon DEF Pools
<1> QED BY <1>1, Zenon DEF InState, Entries

LEMMA ReportForVolumeKeeps ==
    ASSUME IInv, ReportForVolume
    PROVE  IInv' /\ st'.status = sp.status
<1> DEFINE marked == SavePoolLocalStorageMark(sp, LocalBytes(st))
<1>1. /\ PoolOK(sp) /\ sp \in Pools /\ st \in Entries /\ LocalBytes(st) \in Bytes
      /\ sp.ex /\ sp' = marked /\ InState(marked)
      /\ \E ok \in BOOLEAN : ReportLocalDiskResource(marked.mark, ok)
      /\ UNCHANGED <<reportLocal, lease, seen, pass, removing, relist, vol, spdk, agt>>
  BY Parts, LocalBytesType, Zenon DEF ReportForVolume, MarkAccepted, PoolOK, IInv
<1>2. SameShape(marked, sp) /\ marked.status = sp.status /\ marked.mark \in Bytes
  BY <1>1, MarkWrite, Zenon DEF SavePoolLocalStorageMark
<1> HIDE DEF marked
<1>3. marked \in Pools /\ PoolOK(marked)
  BY <1>1, <1>2, ShapeOK, Zenon DEF SameShape
<1>4. st' \in Entries /\ st'.in = TRUE /\ st'.status = sp.status
  BY <1>1, <1>2, <1>3, InStateType, Zenon
<1>5. node' \in KubeNodes /\ missed' \in BOOLEAN /\ events' \in 0..MaxEvents
  BY <1>1, <1>2, ReportLocalType, Zenon
<1>6. EntryInv' /\ PassInv'
  BY <1>1, <1>4, Parts, Zenon DEF EntryInv, PassInv
<1> QED BY <1>1, <1>3, <1>4, <1>5, <1>6, Parts, PrimedParts, Zenon DEF PoolOK

LEMMA DeletionKeeps ==
    ASSUME IInv, CheckDeletion \/ FinishDeletion
    PROVE  IInv'
<1>1. CASE CheckDeletion
  BY <1>1, Constants, Parts, PrimedParts, Zenon DEF CheckDeletion, EntryInv, PassInv, PoolOK
<1>2. CASE FinishDeletion
  <2>1. PoolOK(sp')
    BY <1>2, NoPoolOK, Parts, Zenon DEF FinishDeletion
  <2>2. lease' \in Leases
    BY <1>2, OwnedType, Parts, Zenon DEF FinishDeletion
  <2>3. st' \in Entries /\ EntryInv' /\ PassInv'
    BY <1>2, Constants, Parts, Zenon DEF FinishDeletion, EntryInv, PassInv
  <2> QED BY <1>2, <2>1, <2>2, <2>3, Parts, PrimedParts, Zenon DEF FinishDeletion, PoolOK
<1> QED BY <1>1, <1>2

LEMMA FailureKeeps ==
    ASSUME IInv, Failure \/ AgentStart
    PROVE  IInv'
<1>0. node \in KubeNodes /\ agt \in Agents /\ events \in 0..MaxEvents /\ None \in Bytes
  BY Parts, Literals, Zenon
<1>1. events' \in 0..MaxEvents
  BY <1>0, EventsType, Zenon DEF Failure, NodeLeaves, NodeJoins, NodeMarked, AgentCrash, SpdkFlips,
     RestartController, AdminDeletes, AgentStart
<1>2. CASE NodeLeaves \/ NodeJoins \/ NodeMarked \/ AgentCrash \/ AgentStart \/ SpdkFlips
  <2>1. node' \in KubeNodes
    <3>1. node.off \in BOOLEAN
      BY <1>0, Zenon DEF KubeNodes
    <3>2. CASE NodeLeaves
      BY <1>0, <3>2, Zenon DEF NodeLeaves, KubeNodes
    <3>3. CASE NodeJoins
      BY <1>0, <3>3, Zenon DEF NodeJoins, KubeNodes
    <3>4. CASE NodeMarked
      BY <1>0, <3>1, <3>4, Zenon DEF NodeMarked, KubeNodes
    <3>5. CASE AgentCrash \/ AgentStart \/ SpdkFlips
      BY <1>0, <3>5, Zenon DEF AgentCrash, AgentStart, SpdkFlips
    <3> QED BY <1>2, <3>2, <3>3, <3>4, <3>5
  <2>2. agt' \in Agents
    BY <1>0, <1>2, Constants, Zenon DEF NodeLeaves, NodeJoins, NodeMarked, AgentCrash, AgentStart,
       SpdkFlips
  <2>3. /\ spdk' \in BOOLEAN
        /\ UNCHANGED <<reportLocal, sp, lease, seen, st, pass, removing, relist, vol, missed>>
    BY <1>2, Parts, Zenon DEF NodeLeaves, NodeJoins, NodeMarked, AgentCrash, AgentStart,
       SpdkFlips, ctl
  <2> QED BY <1>1, <2>1, <2>2, <2>3, Parts, PrimedParts, Zenon DEF EntryInv, PassInv, PoolOK
<1>3. CASE RestartController
  <2>1. seen' \in Caches
    <3>1. (vol = "bound") \in BOOLEAN /\ sp \in Pools
      BY Parts, Zenon DEF PoolOK
    <3> QED BY <1>0, <1>3, <3>1, Zenon DEF RestartController, Caches
  <2>2. st' \in Entries /\ EntryInv' /\ pass' \in Passes /\ PassInv' /\ removing' \in BOOLEAN
        /\ relist' \in BOOLEAN
    BY <1>3, Constants, Zenon DEF RestartController, EntryInv, PassInv
  <2>3. vol' \in {"none", "binding", "bound", "gone"}
    BY <1>3, Parts, Zenon DEF RestartController
  <2>4. UNCHANGED <<reportLocal, node, sp, lease, spdk, agt, missed>>
    BY <1>3, Zenon DEF RestartController
  <2> QED BY <1>1, <2>1, <2>2, <2>3, <2>4, Parts, PrimedParts, Zenon DEF PoolOK
<1>4. CASE AdminDeletes
  <2>1. PoolOK(sp')
    BY <1>4, DeletedOK, Parts, Zenon DEF AdminDeletes
  <2>2. lease' \in Leases
    BY <1>4, OwnedType, Parts, Zenon DEF AdminDeletes
  <2> QED BY <1>1, <1>4, <2>1, <2>2, Parts, PrimedParts, Zenon DEF AdminDeletes, ctl, EntryInv, PassInv, PoolOK
<1> QED BY <1>2, <1>3, <1>4, Zenon DEF Failure

-----------------------------------------------------------------------------
(* A pass over the pool. *)

LEMMA HeartbeatStatus ==
    ASSUME NEW x \in Statuses, NEW age \in {"fresh", "lost", "offline"}
    PROVE  /\ ByHeartbeat(age, x) \in Statuses
           /\ age # "fresh" => ByHeartbeat(age, x) # "ready"
BY Zenon DEF ByHeartbeat, Statuses

(* What saveToState publishes is on its way to checkHeartbeat, unless the pool has
   no finalizer. *)
Published(s) ==
    /\ s.fin => pass'.pc = "lease"
    /\ ~s.fin => st'.status = s.status

LEMMA SavedKeeps ==
    ASSUME st \in Entries, NEW s \in Pools, NEW now, PoolOK(now), Saved(s, now)
    PROVE  PoolOK(sp') /\ st' \in Entries /\ st'.in = TRUE /\ pass' \in Passes /\ Published(s)
<1>0. now \in Pools
  BY Zenon DEF PoolOK
<1>1. PoolOK(sp')
  <2>1. CASE ~s.fin /\ now.ex /\ ~now.del
    <3>1. sp' = [now EXCEPT !.fin = TRUE]
      BY <2>1, Zenon DEF Saved
    <3>2. sp' \in Pools /\ sp'.ex = now.ex /\ sp'.del = now.del
      BY <1>0, <3>1, Zenon DEF Pools
    <3> QED BY <2>1, <3>2, Zenon DEF PoolOK
  <2>2. CASE ~(~s.fin /\ now.ex /\ ~now.del)
    BY <2>2, Zenon DEF Saved
  <2> QED BY <2>1, <2>2
<1>2. st' \in Entries /\ st'.in = TRUE /\ st'.status = s.status
  BY InStateType, Zenon DEF Saved
<1>3. pass' \in Passes /\ (s.fin => pass'.pc = "lease")
  <2>1. CASE s.fin
    <3>1. (s.status # "ready") \in BOOLEAN /\ Idle \in Passes
      BY Constants, Zenon
    <3>2. pass' = [Idle EXCEPT !.pc = "lease", !.out = s.status # "ready"]
      BY <2>1, Zenon DEF Saved
    <3> QED BY <2>1, <3>1, <3>2, Zenon DEF Passes
  <2>2. CASE ~s.fin
    BY <2>2, Constants, Zenon DEF Saved
  <2> QED BY <2>1, <2>2
<1> QED BY <1>1, <1>2, <1>3, Zenon DEF Published

LEMMA HandledKeeps ==
    ASSUME st \in Entries, EntryInv, pass \in Passes, NEW s \in Pools, NEW now, PoolOK(now),
           NEW stale \in BOOLEAN,
           ~stale => PoolOK(s) /\ s.ex,
           Handled(s, now, stale)
    PROVE  /\ PoolOK(sp') /\ st' \in Entries /\ EntryInv' /\ pass' \in Passes
           /\ (st' = st /\ pass' = pass) \/ (st'.in /\ Published(s))
<1>1. CASE ~s.spec
  BY <1>1, Zenon DEF Handled, EntryInv
<1>2. CASE s.spec /\ (s.status = "" \/ ~s.cap)
  <2>1. /\ st' = st /\ pass' = pass
        /\ sp' = IF stale THEN now ELSE [s EXCEPT !.status = "unknown", !.cap = TRUE]
    BY <1>2, Zenon DEF Handled
  <2>2. "unknown" \in Statuses
    BY Zenon DEF Statuses
  <2>3. CASE stale
    BY <2>1, <2>3, Zenon DEF EntryInv
  <2>4. CASE ~stale
    BY <2>1, <2>2, <2>4, CapWrite, ShapeOK, Zenon DEF EntryInv
  <2> QED BY <2>3, <2>4
<1>3. CASE s.spec /\ ~(s.status = "" \/ ~s.cap)
  <2>1. Saved(s, now)
    BY <1>3, Zenon DEF Handled
  <2> QED BY <2>1, SavedKeeps, Zenon DEF EntryInv
<1> QED BY <1>1, <1>2, <1>3, Zenon

(* The first part of a pass, whatever copy it started from: it keeps the types, and
   what it makes of a pool that is out at the API server goes on to checkHeartbeat. *)
LEMMA ReconcilePoolKeeps ==
    ASSUME IInv, ReconcilePool
    PROVE  /\ IInv'
           /\ \/ st' = st \/ pass'.pc = "lease"
              \/ seen.sp.fin /\ sp.status # "ready" => st'.status # "ready"
<1> DEFINE stale == seen.sp # sp
           locked == LockPool(seen.sp)
           base == IF stale THEN sp ELSE locked
           due == Reports(locked)
           marked == SavePoolLocalStorageMark(base, LocalBytes(st))
           Out == \/ pass'.pc = "lease"
                  \/ seen.sp.fin /\ sp.status # "ready" => st'.status # "ready"
<1>1. /\ seen.sp.ex
      /\ IF stale /\ locked # seen.sp THEN UNCHANGED <<sp, st, pass, node, missed, events>>
         ELSE IF Blocked \/ (due /\ ~MarkAccepted(locked))
         THEN sp' = base /\ UNCHANGED <<st, pass, node, missed, events>>
         ELSE IF ~due THEN Handled(locked, base, stale) /\ UNCHANGED <<node, missed, events>>
         ELSE \E ok \in BOOLEAN :
           /\ ReportLocalDiskResource(marked.mark, ok)
           /\ IF ok THEN Handled(marked, marked, FALSE)
              ELSE sp' = marked /\ UNCHANGED <<st, pass>>
      /\ UNCHANGED <<reportLocal, lease, seen, removing, relist, vol, spdk, agt>>
  BY Zenon DEF ReconcilePool
<1>2. /\ st \in Entries /\ EntryInv /\ PoolOK(sp) /\ sp \in Pools /\ seen.sp \in Pools /\ ~removing
      /\ LocalBytes(st) \in Bytes /\ stale \in BOOLEAN /\ pass \in Passes
  BY Parts, LocalBytesType, Zenon DEF PoolOK, Caches, IInv, ReconcilePool
<1>3. SameShape(locked, seen.sp)
  BY <1>2, LockPoolShape, Zenon
<1>4. PoolOK(base) /\ (stale => base = sp) /\ (~stale => PoolOK(locked) /\ base = locked /\ locked.ex)
  <2>1. CASE stale
    BY <1>2, <2>1, Zenon
  <2>2. CASE ~stale
    BY <1>1, <1>2, <1>3, <2>2, ShapeOK, Zenon
  <2> QED BY <2>1, <2>2
<1>5. /\ SameShape(marked, base) /\ marked.status = base.status /\ marked.mark \in Bytes
  <2>1. marked = [base EXCEPT !.mark = LocalBytes(st)]
    BY Zenon DEF SavePoolLocalStorageMark
  <2>2. base \in Pools
    BY <1>4, Zenon DEF PoolOK
  <2> HIDE DEF base, marked
  <2> QED BY <1>2, <2>1, <2>2, MarkWrite, Zenon
<1>6. ASSUME PoolOK(sp'), st' \in Entries, EntryInv', pass' \in Passes,
             (st' = st /\ pass' = pass) \/ st'.in,
             node' \in KubeNodes, missed' \in BOOLEAN, events' \in 0..MaxEvents
      PROVE  IInv'
  <2>1. UNCHANGED <<reportLocal, lease, seen, removing, relist, vol, spdk, agt>>
    BY <1>1, Zenon
  <2>2. PassInv'
    BY <1>2, <1>6, <2>1, Parts, Zenon DEF PassInv
  <2> QED BY <1>6, <2>1, <2>2, Parts, PrimedParts, Zenon DEF PoolOK
<1>7. locked \in Pools /\ locked.fin = seen.sp.fin
  BY <1>3, Zenon DEF SameShape
<1>8. node \in KubeNodes /\ missed \in BOOLEAN /\ events \in 0..MaxEvents
  BY Parts, Zenon
<1> HIDE DEF stale, locked, base, due, marked
<1>9. CASE st' = st /\ pass' = pass /\ PoolOK(sp') /\ UNCHANGED <<node, missed, events>>
  BY <1>2, <1>6, <1>8, <1>9, Zenon DEF EntryInv
<1>10. ASSUME Handled(locked, base, stale), UNCHANGED <<node, missed, events>>
       PROVE  IInv' /\ (st' = st \/ Out)
  <2>1. /\ PoolOK(sp') /\ st' \in Entries /\ EntryInv' /\ pass' \in Passes
        /\ (st' = st /\ pass' = pass) \/ (st'.in /\ Published(locked))
    BY <1>2, <1>4, <1>7, <1>10, HandledKeeps, Zenon
  <2>2. IInv'
    BY <1>6, <1>8, <1>10, <2>1, Zenon
  <2>3. Published(locked) => Out
    BY <1>7, Zenon DEF Published
  <2> QED BY <2>1, <2>2, <2>3, Zenon
<1>11. ASSUME MarkAccepted(locked), NEW ok \in BOOLEAN,
              ReportLocalDiskResource(marked.mark, ok),
              \/ Handled(marked, marked, FALSE)
              \/ sp' = marked /\ UNCHANGED <<st, pass>>
       PROVE  IInv' /\ (st' = st \/ Out)
  <2>1. PoolOK(marked) /\ marked.ex /\ marked \in Pools
    <3>1. base.ex
      BY <1>4, <1>11, Zenon DEF MarkAccepted
    <3> QED BY <1>4, <1>5, <3>1, ShapeOK, Zenon DEF SameShape
  <2>2. node' \in KubeNodes /\ missed' \in BOOLEAN /\ events' \in 0..MaxEvents
    BY <1>5, <1>11, ReportLocalType, Zenon
  <2>3. CASE sp' = marked /\ UNCHANGED <<st, pass>>
    BY <1>2, <1>6, <2>1, <2>2, <2>3, Zenon DEF EntryInv
  <2>4. CASE Handled(marked, marked, FALSE)
    <3>1. /\ PoolOK(sp') /\ st' \in Entries /\ EntryInv' /\ pass' \in Passes
          /\ (st' = st /\ pass' = pass) \/ (st'.in /\ Published(marked))
      BY <1>2, <2>1, <2>4, HandledKeeps, Zenon
    <3>2. Published(marked) => Out
      <4>1. stale => marked.status = sp.status
        BY <1>4, <1>5, Zenon
      <4>2. ~stale => marked.fin = seen.sp.fin
        BY <1>4, <1>5, <1>7, Zenon DEF SameShape
      <4> QED BY <4>1, <4>2, Zenon DEF Published
    <3> QED BY <1>6, <2>2, <3>1, <3>2, Zenon
  <2> QED BY <1>11, <2>3, <2>4, Zenon
<1> QED BY <1>1, <1>2, <1>4, <1>9, <1>10, <1>11, Zenon

LEMMA GetLeaseKeeps ==
    ASSUME IInv, GetLease
    PROVE  IInv' /\ st' = st
<1>1. /\ pass \in Passes /\ events \in 0..MaxEvents /\ lease.age \in {"fresh", "lost", "offline"}
  BY Parts, Zenon DEF Leases
<1>2. pass' = Idle \/ pass' = [pass EXCEPT !.pc = "patch", !.age = lease.age]
  BY Zenon DEF GetLease
<1>3. pass' \in Passes
  BY <1>1, <1>2, Constants, Zenon DEF Passes
<1>4. events' \in 0..MaxEvents
  BY <1>1, EventsType, Zenon DEF GetLease
<1>5. /\ pass.pc = "lease"
      /\ UNCHANGED <<reportLocal, node, sp, lease, seen, st, removing, relist, vol, spdk, agt, missed>>
  BY Zenon DEF GetLease
<1>6. PassInv'
  <2>1. "lease" # "idle"
    OBVIOUS
  <2> QED BY <1>5, <2>1, Parts, Zenon DEF PassInv
<1> QED BY <1>3, <1>4, <1>5, <1>6, Parts, PrimedParts, Zenon DEF EntryInv, PoolOK

(* The rest of a pass that read a stale Lease leaves the pool out. *)
LEMMA CheckHeartbeatKeeps ==
    ASSUME IInv, CheckHeartbeat
    PROVE  /\ IInv'
           /\ pass.age # "fresh" /\ (IsSchedulable \/ sp.status # "ready") => ~IsSchedulable'
<1> DEFINE status == ByHeartbeat(pass.age, st.status)
           sent == pass.age = "offline" \/ status # st.status
           patched == IF status # st.status THEN [sp EXCEPT !.status = status] ELSE sp
           Good == /\ sent => sp.ex
                   /\ IF sent THEN InState(patched) ELSE UNCHANGED st
                   /\ \E old \in BOOLEAN :
                        sp' = IF Abandoned(old) /\ patched.ex THEN Deleted(patched) ELSE patched
                   /\ UNCHANGED events
           Bad == /\ IF sp.ex THEN Happens ELSE UNCHANGED events
                  /\ st' = [st EXCEPT !.status = status]
                  /\ sp' = sp \/ (sp.ex /\ sp' = [sp EXCEPT !.status = "unknown"])
           Out == pass.age # "fresh" /\ (IsSchedulable \/ sp.status # "ready") => ~IsSchedulable'
<1>1. /\ pass.pc = "patch" /\ pass' = Idle /\ lease' = Owned(sp')
      /\ Good \/ Bad
      /\ UNCHANGED <<reportLocal, node, seen, removing, relist, vol, spdk, agt, missed>>
  BY Zenon DEF CheckHeartbeat
<1>2. /\ PoolOK(sp) /\ sp \in Pools /\ st \in Entries /\ EntryInv /\ st.status \in Statuses
      /\ pass.age \in {"fresh", "lost", "offline"} /\ events \in 0..MaxEvents
  BY Parts, Zenon DEF PoolOK, Entries, Passes
<1>3. status \in Statuses /\ (pass.age # "fresh" => status # "ready")
  BY <1>2, HeartbeatStatus, Zenon
<1>4. status # st.status => patched = [sp EXCEPT !.status = status]
  OBVIOUS
<1>5. status = st.status => patched = sp
  OBVIOUS
<1>6. status # st.status => sent
  OBVIOUS
<1> HIDE DEF status, patched, sent
<1>7. ASSUME PoolOK(sp'), st' \in Entries, EntryInv', events' \in 0..MaxEvents
      PROVE  IInv'
  <2>1. lease' \in Leases /\ pass' \in Passes /\ PassInv'
    BY <1>1, OwnedType, Constants, Parts, Zenon DEF PassInv
  <2> QED BY <1>1, <1>7, <2>1, Parts, PrimedParts, Zenon DEF PoolOK
<1>8. CASE Good
  <2>1. PoolOK(patched) /\ patched \in Pools
    <3>1. CASE status = st.status
      BY <1>2, <1>5, <3>1, Zenon
    <3>2. CASE status # st.status
      <4>1. sp.ex /\ SameShape(patched, sp)
        BY <1>2, <1>3, <1>4, <1>6, <1>8, <3>2, StatusWrite, Zenon
      <4> QED BY <1>2, <4>1, ShapeOK, Zenon DEF SameShape
    <3> QED BY <3>1, <3>2
  <2>2. PoolOK(sp')
    BY <1>8, <2>1, DeletedOK, Zenon
  <2>3. /\ st' \in Entries
        /\ \/ ~sent /\ st' = st
           \/ sent /\ st'.in = TRUE /\ st'.status = patched.status
    <3>1. CASE sent
      BY <1>2, <1>8, <2>1, <3>1, InStateType, Zenon
    <3>2. CASE ~sent
      BY <1>2, <1>8, <3>2, Zenon
    <3> QED BY <3>1, <3>2, Zenon
  <2>4. EntryInv'
    BY <1>2, <2>3, Zenon DEF EntryInv
  <2>5. Out
    <3>1. status # st.status => patched.status = status
      BY <1>2, <1>3, <1>4, StatusWrite, Zenon
    <3>2. CASE status = st.status
      BY <1>3, <1>5, <2>3, <3>2, Zenon DEF IsSchedulable
    <3>3. CASE status # st.status
      BY <1>3, <1>6, <2>3, <3>1, <3>3, Zenon DEF IsSchedulable
    <3> QED BY <3>2, <3>3
  <2>6. events' \in 0..MaxEvents
    BY <1>2, <1>8, Zenon
  <2> QED BY <1>7, <2>2, <2>3, <2>4, <2>5, <2>6, Zenon
<1>9. CASE Bad
  <2>1. "unknown" \in Statuses
    BY Zenon DEF Statuses
  <2>2. PoolOK(sp')
    BY <1>2, <1>9, <2>1, StatusWrite, ShapeOK, Zenon
  <2>3. st' \in Entries /\ st'.status = status /\ st'.in = st.in
    BY <1>2, <1>3, <1>9, Zenon DEF Entries
  <2>4. Out
    BY <1>3, <2>3, Zenon DEF IsSchedulable
  <2>5. events' \in 0..MaxEvents
    BY <1>2, <1>9, EventsType, Zenon
  <2>6. EntryInv'
    <3>1. st.in
      <4>1. "patch" # "idle"
        OBVIOUS
      <4> QED BY <1>1, <4>1, Parts, Zenon DEF PassInv
    <3> QED BY <2>3, <3>1, Zenon DEF EntryInv
  <2> QED BY <1>7, <2>2, <2>3, <2>4, <2>5, <2>6, Zenon
<1> QED BY <1>1, <1>8, <1>9, Zenon

-----------------------------------------------------------------------------
LEMMA InitIInv == ASSUME Init PROVE IInv
<1>1. /\ reportLocal \in BOOLEAN
      /\ node = [ex |-> TRUE, off |-> FALSE, res |-> None]
      /\ sp = NoPool /\ lease = NoLease
      /\ seen = [sp |-> NoPool, node |-> node, vol |-> FALSE]
      /\ st = NotInState /\ pass = Idle /\ removing = FALSE /\ relist = FALSE
      /\ vol = "none" /\ spdk = TRUE /\ agt = [NoAgent EXCEPT !.up = TRUE]
      /\ missed = FALSE /\ events = 0
  BY Zenon DEF Init
<1>2. node \in KubeNodes
  BY <1>1, Literals, Zenon DEF KubeNodes
<1>3. PoolOK(sp) /\ sp \in Pools
  BY <1>1, NoPoolOK, Zenon DEF PoolOK
<1>4. lease \in Leases /\ st \in Entries /\ agt \in Agents /\ pass \in Passes
  BY <1>1, Constants, Zenon
<1>5. seen \in Caches
  BY <1>1, <1>2, <1>3, Zenon DEF Caches
<1>6. events \in 0..MaxEvents
  BY <1>1, PoolHealthAssumption
<1>7. EntryInv /\ PassInv
  BY <1>1, Constants, Zenon DEF EntryInv, PassInv
<1>8. vol \in {"none", "binding", "bound", "gone"}
  BY <1>1, Zenon
<1> QED BY <1>1, <1>2, <1>3, <1>4, <1>5, <1>6, <1>7, <1>8, Parts, Zenon

LEMMA NextIInv == ASSUME IInv, [Next]_vars PROVE IInv'
<1>1. CASE UNCHANGED vars
  BY <1>1, Parts, PrimedParts, Zenon DEF EntryInv, PassInv, PoolOK, vars
<1>2. CASE Next
  <2>1. CASE Agent
    BY <2>1, SyncPoolKeeps, UpdatePoolStatusKeeps, LeaseKeeps, FailureKeeps, Zenon
       DEF Agent, syncPoolIteration
  <2>2. CASE ObservePool \/ ObserveNode \/ ObserveVolume
    BY <2>2, ObserveKeeps
  <2>3. CASE ReconcilePool
    BY <2>3, ReconcilePoolKeeps
  <2>8. CASE GetLease \/ CheckHeartbeat
    BY <2>8, GetLeaseKeeps, CheckHeartbeatKeeps
  <2>4. CASE CheckDeletion \/ FinishDeletion
    BY <2>4, DeletionKeeps
  <2>5. CASE Volume
    BY <2>5, VolumeEventKeeps, ReportForVolumeKeeps, Zenon DEF Volume
  <2>6. CASE Time
    BY <2>6, LeaseKeeps, Zenon DEF Time
  <2>7. CASE Failure
    BY <2>7, FailureKeeps
  <2> QED BY <1>2, <2>1, <2>2, <2>3, <2>4, <2>5, <2>6, <2>7, <2>8, Zenon DEF Next
<1> QED BY <1>1, <1>2

LEMMA Invariance == Spec => []IInv
BY InitIInv, NextIInv, PTL DEF Spec

(* Every object, cache and entry of the model keeps its type; a StoragePool that is
   gone leaves nothing behind, and only a pool with the finalizer is ever seen in
   deletion (Register, SyncPool, ReconcilePool, handleDeletion). *)
THEOREM TypeCorrect == Spec => []TypeOK
<1>1. IInv => TypeOK
  BY DEF IInv
<1> QED BY <1>1, Invariance, PTL

-----------------------------------------------------------------------------
(* A silent pool that is out stays out. *)

(* Only eight actions write the entry in State, and only those of the pass and a
   restart its progress. *)
LEMMA StateKept ==
    ASSUME Agent \/ ObservePool \/ ObserveNode \/ ObserveVolume \/ CheckDeletion \/ PersistVolume
           \/ Time \/ Failure
    PROVE  (st' = st /\ pass' = pass) \/ st' = NotInState
<1>1. CASE Agent
  BY <1>1, Zenon DEF Agent, syncPoolIteration, SyncPool, UpdatePoolStatus, Beat, AgentStart, ctl
<1>2. CASE ObservePool \/ ObserveNode \/ ObserveVolume
  BY <1>2, Zenon DEF ObservePool, ObserveNode, ObserveVolume, Sees
<1>3. CASE CheckDeletion \/ PersistVolume
  BY <1>3, Zenon DEF CheckDeletion, PersistVolume
<1>4. CASE Time
  BY <1>4, Zenon DEF Time, LeaseAges, CollectLease, ctl
<1>5. CASE Failure
  BY <1>5, Zenon DEF Failure, NodeLeaves, NodeJoins, NodeMarked, AgentCrash, SpdkFlips,
     RestartController, AdminDeletes, ctl
<1> QED BY <1>1, <1>2, <1>3, <1>4, <1>5, Zenon

(* The pool was out, with a stale Lease; a step of the pass that read such a Lease. *)
Silent == lease.ex /\ Lost /\ seen.sp.fin /\ ~IsSchedulable /\ sp.status # "ready"
StillOut ==
    /\ Silent /\ IsSchedulable' => pass'.pc = "lease" \/ (pass.pc = "patch" /\ pass.age = "fresh")
    /\ pass.pc = "patch" /\ pass.age # "fresh" /\ pass'.pc = "idle"
       /\ (IsSchedulable \/ sp.status # "ready")
       => ~IsSchedulable'

LEMMA SilentStep ==
    ASSUME IInv, [Next]_vars
    PROVE  StillOut
<1>0. st \in Entries /\ EntryInv /\ "patch" # "idle" /\ "lease" # "patch" /\ "" # "ready"
  BY Parts
<1>1. CASE st' = NotInState
  BY <1>1, Constants, Zenon DEF StillOut, IsSchedulable
<1>2. ASSUME pass' = pass, Silent => ~IsSchedulable'
      PROVE  StillOut
  BY <1>0, <1>2, Zenon DEF StillOut
<1>3. CASE st' = st /\ pass' = pass
  BY <1>2, <1>3, Zenon DEF Silent, IsSchedulable
<1>4. CASE UNCHANGED vars
  BY <1>3, <1>4, Zenon DEF vars
<1>5. CASE ReconcilePool
  <2>1. pass.pc # "patch"
    BY <1>0, <1>5, Constants, Zenon DEF ReconcilePool
  <2>2. Silent /\ IsSchedulable' => pass'.pc = "lease"
    BY <1>5, ReconcilePoolKeeps, Zenon DEF Silent, IsSchedulable
  <2> QED BY <2>1, <2>2, Zenon DEF StillOut
<1>6. CASE GetLease
  <2>1. pass.pc = "lease" /\ st' = st
    BY <1>6, GetLeaseKeeps, Zenon DEF GetLease
  <2> QED BY <1>0, <2>1, Zenon DEF StillOut, Silent, IsSchedulable
<1>7. CASE CheckHeartbeat
  <2>1. pass.pc = "patch"
    BY <1>7, Zenon DEF CheckHeartbeat
  <2>2. pass.age # "fresh" /\ (IsSchedulable \/ sp.status # "ready") => ~IsSchedulable'
    BY <1>7, CheckHeartbeatKeeps, Zenon
  <2> QED BY <2>1, <2>2, Zenon DEF StillOut, Silent
<1>8. CASE FinishDeletion
  BY <1>1, <1>8, Zenon DEF FinishDeletion
<1>9. CASE Volume
  <2>1. pass' = pass
    BY <1>9, Zenon DEF Volume, BindVolume, PersistVolume, DeleteVolume, RestoreVolume, ReportForVolume
  <2>2. CASE BindVolume
    BY <1>2, <2>1, <2>2, Zenon DEF BindVolume, Silent
  <2>3. CASE DeleteVolume
    <3>1. st'.in = st.in /\ st'.status = st.status
      BY <1>0, <2>3, Zenon DEF DeleteVolume, Entries
    <3> QED BY <1>2, <2>1, <3>1, Zenon DEF Silent, IsSchedulable
  <2>4. CASE RestoreVolume
    <3>1. st'.status = st.status
      BY <1>0, <2>4, Zenon DEF RestoreVolume, Entries
    <3>2. Silent => st.status # "ready"
      BY <1>0, Zenon DEF EntryInv, Silent, IsSchedulable
    <3> QED BY <1>2, <2>1, <3>1, <3>2, Zenon DEF IsSchedulable
  <2>5. CASE ReportForVolume
    BY <1>2, <2>1, <2>5, ReportForVolumeKeeps, Zenon DEF Silent, IsSchedulable
  <2>6. CASE PersistVolume
    BY <1>1, <1>3, <2>6, StateKept, Zenon
  <2> QED BY <1>9, <2>2, <2>3, <2>4, <2>5, <2>6, Zenon DEF Volume
<1>10. CASE Agent \/ ObservePool \/ ObserveNode \/ ObserveVolume \/ CheckDeletion \/ Time \/ Failure
  BY <1>1, <1>3, <1>10, StateKept, Zenon
<1> QED BY <1>4, <1>5, <1>6, <1>7, <1>8, <1>9, <1>10, Zenon DEF Next

(* While the Lease of a pool with the finalizer is stale, a pool that is out at the API
   server and in State becomes schedulable only as the copy that saveToState publishes on
   the way to checkHeartbeat, or by a pass that read the Lease while it was fresh:
   neither an administrator's deletion, nor a report from State, nor a restart of the
   controller brings it back.  And a pass that read the stale Lease ends with the pool
   out, whatever ran between saveToState and the patch of the status, and whether that
   patch is answered or not.  EntryInv is what the restart needs: the entry
   GetStoragePoolByNodeID makes for the volumes found first has no status. *)
THEOREM SilentPoolStaysOut == Spec => SilentStaysOut
<1>1. IInv /\ [Next]_vars => [StillOut]_vars
  BY SilentStep
<1>2. StillOut <=> /\ lease.ex /\ Lost /\ seen.sp.fin /\ ~IsSchedulable /\ sp.status # "ready" /\ IsSchedulable'
                      => pass'.pc = "lease" \/ (pass.pc = "patch" /\ pass.age = "fresh")
                   /\ pass.pc = "patch" /\ pass.age # "fresh" /\ pass'.pc = "idle"
                      /\ (IsSchedulable \/ sp.status # "ready")
                      => ~IsSchedulable'
  BY Zenon DEF StillOut, Silent
<1> QED BY <1>1, <1>2, Invariance, PTL DEF Spec, SilentStaysOut
=============================================================================
