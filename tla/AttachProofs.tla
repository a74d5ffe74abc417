---------------------------- MODULE AttachProofs ----------------------------
(***************************************************************************)
(* Proofs about the allocator of ports and about the way of a volume to a  *)
(* Pod, for every set of volumes, every range of ports and every number of *)
(* Pods and failures.                                                      *)
(***************************************************************************)
EXTENDS Attach, WellFoundedInduction, TLAPS

LEMMA AfterType ==
    ASSUME NEW c \in Ids, NEW k \in 1..(Count - 1)
    PROVE  After(c, k) \in Ids
BY RangeAssumption, SMT DEF Ids, Count, After

LEMMA CountType == Count \in Nat /\ Count > 1
BY RangeAssumption, SMT DEF Count

(* NextID returns an id of the range that is not in use, or none. *)
THEOREM NextIDFree ==
    ASSUME NEW a \in Allocator
    PROVE  NextID(a) # NoId => NextID(a) \in Ids \ a.inUse
<1>1. CASE a.inUse = {}
    BY <1>1, RangeAssumption, SMT DEF NextID, Ids
<1>2. CASE a.inUse # {} /\ \E k \in 1..(Count - 1) : Found(a, k)
    <2> DEFINE k == CHOOSE n \in 1..(Count - 1) : Found(a, n)
    <2>1. k \in 1..(Count - 1) /\ Found(a, k)
        BY <1>2
    <2>2. NextID(a) = After(a.cursor, k)
        BY <1>2 DEF NextID
    <2>3. a.cursor \in Ids
        BY DEF Allocator
    <2> QED
        BY <2>1, <2>2, <2>3, AfterType DEF Found
<1>3. CASE a.inUse # {} /\ ~\E k \in 1..(Count - 1) : Found(a, k)
    BY <1>3 DEF NextID
<1> QED
    BY <1>1, <1>2, <1>3

(* NextID fails only when every id is in use, or every one except the id under
   the cursor: the search never looks at that one. *)
THEOREM NextIDExhausted ==
    ASSUME NEW a \in Allocator, NextID(a) = NoId
    PROVE  Ids \ {a.cursor} \subseteq a.inUse
<1> DEFINE K == 1..(Count - 1)
           T == {k \in K : After(a.cursor, k) \notin a.inUse}
<1> a.cursor \in Ids
    BY DEF Allocator
<1>1. ~\E k \in K : Found(a, k)
    <2> SUFFICES ASSUME NEW n \in K, Found(a, n)
                 PROVE  FALSE
        OBVIOUS
    <2>1. CASE a.inUse = {}
        BY <2>1, RangeAssumption, SMT DEF NextID, NoId
    <2>2. CASE a.inUse # {}
        <3> DEFINE k == CHOOSE m \in K : Found(a, m)
        <3>1. k \in K
            OBVIOUS
        <3>2. NextID(a) = After(a.cursor, k)
            BY <2>2 DEF NextID
        <3>3. NextID(a) \in Ids
            BY <3>1, <3>2, AfterType
        <3> QED
            BY <3>3, RangeAssumption, SMT DEF Ids, NoId
    <2> QED
        BY <2>1, <2>2
<1>2. T = {}
    <2> SUFFICES ASSUME T # {}
                 PROVE  FALSE
        OBVIOUS
    <2>1. T \subseteq Nat
        BY CountType, SMT
    <2>2. PICK k \in T : \A j \in T : ~(<<j, k>> \in OpToRel(<, Nat))
        BY ONLY <2>1, T # {}, WFMin, NatLessThanWellFounded, Zenon
    <2>3. \A j \in 1..(k - 1) : j \in K /\ <<j, k>> \in OpToRel(<, Nat)
        BY <2>1, CountType DEF OpToRel
    <2>4. \A j \in 1..(k - 1) : After(a.cursor, j) \in a.inUse
        BY <2>2, <2>3, Zenon
    <2> QED
        BY <1>1, <2>4 DEF Found
<1>3. ASSUME NEW i \in Ids, i # a.cursor
      PROVE  \E k \in K : i = After(a.cursor, k)
    <2>1. CASE i > a.cursor
        <3>1. i - a.cursor \in K /\ After(a.cursor, i - a.cursor) = i
            BY <2>1, <1>3, RangeAssumption, SMT DEF Ids, Count, After
        <3> QED
            BY <3>1
    <2>2. CASE i < a.cursor
        <3>1. /\ i - a.cursor + Count \in K
              /\ After(a.cursor, i - a.cursor + Count) = i
            BY <2>2, <1>3, RangeAssumption, SMT DEF Ids, Count, After
        <3> QED
            BY <3>1
    <2> QED
        BY <2>1, <2>2, <1>3, RangeAssumption, SMT DEF Ids
<1> QED
    BY <1>2, <1>3

-----------------------------------------------------------------------------
(* Types. *)

LEMMA ListeningType ==
    ASSUME NEW s, s \in [Volumes -> Subsystem]
    PROVE  Listening(s) \subseteq Ids
BY DEF Listening, Subsystem

LEMMA VolumeType ==
    ASSUME NEW x \in Volume
    PROVE  /\ \A id \in Ids \cup {NoId} : [x EXCEPT !.finalizer = TRUE, !.svcID = id] \in Volume
           /\ [x EXCEPT !.finalizer = FALSE] \in Volume
           /\ [x EXCEPT !.ready = TRUE] \in Volume
           /\ [x EXCEPT !.deleting = TRUE] \in Volume
           /\ [x EXCEPT !.exists = FALSE, !.ready = FALSE] \in Volume
BY Zenon DEF Volume

LEMMA SubsystemType ==
    /\ NoSubsystem \in Subsystem
    /\ \A x \in Subsystem : [x EXCEPT !.there = TRUE] \in Subsystem
BY Zenon DEF Subsystem, NoSubsystem

LEMMA TakenType ==
    ASSUME NEW a \in Allocator
    PROVE  Taken(a) \in Allocator
BY NextIDFree DEF Taken, Allocator

LEMMA SyncType ==
    ASSUME NEW a \in Allocator, NEW truth \in SUBSET Ids
    PROVE  /\ SyncFromTruth(a, truth) \in Allocator
           /\ SyncFailed(a) \in Allocator
           /\ NewAllocator(truth) \in Allocator
<1>1. MinId \in Ids
    BY RangeAssumption, SMT DEF Ids
<1> QED
    BY <1>1 DEF SyncFromTruth, SyncFailed, NewAllocator, Allocator

(* The types of the part of the state that the target node keeps. *)
LEMMA OpenAccessType ==
    ASSUME TypeOK, NEW v \in Volumes, NEW last \in DOMAIN Steps, CreateOpenAccess(v, last)
    PROVE  TypeOK'
<1> DEFINE asked == IF subsys[v].svcID = NoId /\ Did(last, "id") THEN Taken(alloc) ELSE alloc
<1>1. ResultSvcID(v) \in Ids \cup {NoId}
    BY NextIDFree DEF TypeOK, ResultSvcID, Subsystem
<1>2. subsys' = CreateTarget(v, last)
    BY DEF CreateOpenAccess, ExposeAccess
<1>3. subsys' \in [Volumes -> Subsystem]
    BY <1>1, <1>2 DEF TypeOK, Did, Subsystem, CreateTarget
<1>4. asked \in Allocator
    BY TakenType DEF TypeOK
<1>5. alloc' \in Allocator
    <2>1. Listening(subsys') \in SUBSET Ids
        BY <1>3, ListeningType
    <2>2. alloc' \in {SyncFromTruth(asked, Listening(subsys')), SyncFailed(asked), asked}
        BY <1>2 DEF CreateOpenAccess, ExposeAccess
    <2> QED
        BY <1>4, <2>1, <2>2, SyncType
<1>6. bdev' \subseteq Kernel
    BY DEF CreateOpenAccess, ExposeAccess, AioBdev, TypeOK
<1>7. vol' \in [Volumes -> Volume]
    <2>1. [vol[v] EXCEPT !.finalizer = TRUE, !.svcID = ResultSvcID(v)] \in Volume
        BY <1>1, VolumeType, Zenon DEF TypeOK
    <2> QED
        BY <2>1 DEF CreateOpenAccess, TypeOK
<1>8. faults' \in 0..MaxFaults
    BY AttachAssumption DEF CreateOpenAccess, Goes, TypeOK
<1> QED
    BY <1>3, <1>5, <1>6, <1>7, <1>8 DEF CreateOpenAccess, TypeOK, host

(* What the steps of the host and of the Pods change has its type. *)
LEMMA HostType ==
    ASSUME TypeOK, NEW v \in Volumes,
           \/ ConnectionLost(v) \/ Reconnected(v) \/ ControllerLoss(v)
           \/ PluginStep(v) \/ PodWrites(v)
           \/ PodCreated(v) \/ PodDeleted(v)
    PROVE  TypeOK'
<1> USE AttachAssumption DEF TypeOK, Goes, pluginOnly, target, host
<1>1. CASE ConnectionLost(v)
    BY <1>1 DEF ConnectionLost
<1>2. CASE Reconnected(v)
    BY <1>2 DEF Reconnected
<1>3. CASE ControllerLoss(v)
    BY <1>3 DEF ControllerLoss
<1>4. CASE StageConnect(v)
    BY <1>4 DEF StageConnect, ConnectTarget
<1>5. CASE StageDevice(v)
    BY <1>5 DEF StageDevice, StageMount, SafeFormat, Answer
<1>6. CASE StageError(v)
    BY <1>6 DEF StageError
<1>7. CASE Publish(v)
    BY <1>7 DEF Publish, IsMounted, MountBlock, BindMount, Answer
<1>8. CASE Unpublish(v)
    BY <1>8 DEF Unpublish, Answer
<1>9. CASE Unstage(v)
    <2>1. CASE GetPvByID(v)
        BY <1>9, <2>1 DEF Unstage
    <2>2. CASE ~GetPvByID(v)
        BY <1>9, <2>2 DEF Unstage, Answer
    <2> QED
        BY <2>1, <2>2
<1>10. CASE Disconnect(v)
    BY <1>10 DEF Disconnect, DisconnectTarget, Answer
<1>11. CASE PodWrites(v)
    BY <1>11 DEF PodWrites
<1>12. CASE PodCreated(v)
    BY <1>12 DEF PodCreated
<1>13. CASE PodDeleted(v)
    BY <1>13 DEF PodDeleted
<1> QED
    BY <1>1, <1>2, <1>3, <1>4, <1>5, <1>6, <1>7, <1>8, <1>9, <1>10, <1>11, <1>12, <1>13
    DEF PluginStep

(* The other steps of the target node. *)
LEMMA TargetType ==
    ASSUME TypeOK, NEW v \in Volumes, NEW last \in DOMAIN Steps,
           \/ SetReady(v) \/ ApplyVolume(v) \/ RemoveAccess(v, last) \/ Recycle(v)
           \/ DeleteVolume(v)
    PROVE  TypeOK'
<1> USE AttachAssumption DEF TypeOK, Goes, target, host
<1>1. CASE SetReady(v)
    BY <1>1, VolumeType, Zenon DEF SetReady
<1>2. CASE ApplyVolume(v)
    BY <1>2, ListeningType, SyncType, SubsystemType, Zenon DEF ApplyVolume
<1>3. CASE RemoveAccess(v, last)
    <2>1. subsys' \in [Volumes -> Subsystem]
        BY <1>3, SubsystemType DEF RemoveAccess, DeleteTarget
    <2>2. alloc' \in Allocator
        BY <1>3, <2>1, ListeningType, SyncType, Zenon DEF RemoveAccess
    <2>3. vol' \in [Volumes -> Volume]
        BY <1>3, VolumeType, Zenon DEF RemoveAccess
    <2>4. bdev' \subseteq Kernel /\ faults' \in 0..MaxFaults
        BY <1>3 DEF RemoveAccess, DeleteAioBdev
    <2> QED
        BY <1>3, <2>1, <2>2, <2>3, <2>4 DEF RemoveAccess
<1>4. CASE Recycle(v)
    BY <1>4, VolumeType, Zenon DEF Recycle
<1>5. CASE DeleteVolume(v)
    BY <1>5, VolumeType, Zenon DEF DeleteVolume
<1> QED
    BY <1>1, <1>2, <1>3, <1>4, <1>5

LEMMA RestartType ==
    ASSUME TypeOK, AgentRestart \/ SpdkRestart \/ PluginRestart \/ HostReboot
    PROVE  TypeOK'
<1> USE AttachAssumption DEF TypeOK, Goes, pluginOnly, target, host
<1>1. CASE AgentRestart
    BY <1>1, ListeningType, SyncType DEF AgentRestart
<1>2. CASE SpdkRestart
    BY <1>2, SyncType, SubsystemType DEF SpdkRestart
<1>3. CASE PluginRestart
    BY <1>3 DEF PluginRestart
<1>4. CASE HostReboot
    BY <1>4 DEF HostReboot
<1> QED
    BY <1>1, <1>2, <1>3, <1>4

(* Every reachable state has its type; in particular every port in use or
   recorded is of the configured range. *)
THEOREM TypeCorrect == Spec => []TypeOK
<1>1. Init => TypeOK
    <2> SUFFICES ASSUME Init
                 PROVE  TypeOK
        OBVIOUS
    <2>1. vol \in [Volumes -> Volume]
        BY DEF Init, Volume
    <2>2. subsys \in [Volumes -> Subsystem]
        BY SubsystemType DEF Init
    <2>3. alloc \in Allocator
        <3>1. MinId \in Ids
            BY RangeAssumption, SMT DEF Ids
        <3> QED
            BY <3>1 DEF Init, NewAllocator, Allocator
    <2>4. /\ conn \in [Volumes -> {"none", "live", "lost"}]
          /\ mnt \in [Volumes -> {"none", "mounted", "dead"}]
          /\ pub \in [Volumes -> {"none", "bare", "volume"}]
          /\ disk \in [Volumes -> {"blank", "empty", "data"}]
          /\ call \in [Volumes -> {"none", "stage", "unstage"}]
          /\ kube \in [Volumes -> {"unstaged", "uncertain", "staged", "published"}]
        BY DEF Init
    <2>5. pods \in 0..MaxPods /\ faults \in 0..MaxFaults
        BY AttachAssumption, SMT DEF Init
    <2> QED
        BY <2>1, <2>2, <2>3, <2>4, <2>5, Zenon DEF Init, TypeOK
<1>2. ASSUME TypeOK, [Next]_vars
      PROVE  TypeOK'
    <2>1. CASE UNCHANGED vars
        BY <1>2, <2>1 DEF TypeOK, vars, target, host
    <2>2. CASE \E v \in Volumes : AgentStep(v)
        <3>1. "bdev" \in DOMAIN Steps
            BY DEF Steps
        <3> QED
            BY <1>2, <2>2, <3>1, OpenAccessType, TargetType DEF AgentStep
    <2>3. CASE \E v \in Volumes : ApplyVolume(v) \/ DeleteVolume(v)
        <3>1. "bdev" \in DOMAIN Steps
            BY DEF Steps
        <3> QED
            BY <1>2, <2>3, <3>1, TargetType
    <2>4. CASE \E v \in Volumes :
                \/ ConnectionLost(v) \/ Reconnected(v) \/ ControllerLoss(v)
                \/ PluginStep(v) \/ PodWrites(v)
                \/ PodCreated(v) \/ PodDeleted(v)
        BY <1>2, <2>4, HostType
    <2>5. CASE AgentRestart \/ SpdkRestart \/ PluginRestart \/ HostReboot
        BY <1>2, <2>5, RestartType
    <2> QED
        BY <1>2, <2>1, <2>2, <2>3, <2>4, <2>5 DEF Next
<1> QED
    BY <1>1, <1>2, PTL DEF Spec

-----------------------------------------------------------------------------
(* The host.  A staged file system is mounted, except while an unstaging call
   sleeps between the unmount and the disconnect, and what kubelet holds for
   unstaged is not mounted, also while a staging call sleeps, unless the volume
   is gone. *)
StageInv ==
    \A v \in Volumes :
        /\ pub[v] # "bare"
        /\ pub[v] # "none" /\ v \notin Block => mnt[v] # "none"
        /\ kube[v] = "unstaged" => pub[v] = "none"
        /\ kube[v] = "unstaged" /\ vol[v].exists => mnt[v] = "none"
        /\ call[v] = "unstage" => mnt[v] = "none" /\ pub[v] = "none"
        /\ call[v] = "stage" => kube[v] \in {"unstaged", "uncertain"}
        /\ kube[v] \in {"staged", "published"} /\ call[v] = "none" /\ v \notin Block
                => mnt[v] # "none"

(* A volume that is gone does not come back. *)
LEMMA StaysGone ==
    ASSUME TypeOK, [Next]_vars
    PROVE  \A v \in Volumes : vol'[v].exists => vol[v].exists
<1>1. CASE vol' = vol
    BY <1>1
<1>2. ASSUME NEW w \in Volumes, NEW last \in DOMAIN Steps,
             \/ CreateOpenAccess(w, last) \/ SetReady(w) \/ RemoveAccess(w, last)
             \/ DeleteVolume(w)
      PROVE  \A v \in Volumes : vol'[v].exists => vol[v].exists
    BY <1>2 DEF CreateOpenAccess, SetReady, RemoveAccess, DeleteVolume, TypeOK, Volume
<1>3. ASSUME NEW w \in Volumes, Recycle(w)
      PROVE  \A v \in Volumes : vol'[v].exists => vol[v].exists
    BY <1>3 DEF Recycle, TypeOK, Volume
<1>4. ASSUME NEW v \in Volumes,
             \/ ConnectionLost(v) \/ Reconnected(v) \/ ControllerLoss(v)
             \/ PluginStep(v) \/ PodWrites(v) \/ PodCreated(v) \/ PodDeleted(v)
             \/ ApplyVolume(v)
      PROVE  vol' = vol
    BY <1>4, Zenon DEF ConnectionLost, Reconnected, ControllerLoss, PluginStep, StageConnect,
                StageDevice, StageError, Publish, Unpublish, Unstage, Disconnect, PodWrites,
                PodCreated, PodDeleted, ApplyVolume, pluginOnly
<1>5. AgentRestart \/ SpdkRestart \/ PluginRestart \/ HostReboot \/ UNCHANGED vars => vol' = vol
    BY Zenon DEF AgentRestart, SpdkRestart, PluginRestart, HostReboot, pluginOnly, vars
<1>6. "bdev" \in DOMAIN Steps
    BY DEF Steps
<1> QED
    BY <1>1, <1>2, <1>3, <1>4, <1>5, <1>6, Zenon DEF Next, AgentStep

LEMMA StageInvStep ==
    ASSUME TypeOK, StageInv, [Next]_vars
    PROVE  StageInv'
<1>0. \A v \in Volumes : vol'[v].exists => vol[v].exists
    BY StaysGone
<1> USE DEF TypeOK, StageInv, pluginOnly, target, host
<1>1. CASE UNCHANGED host
    BY <1>0, <1>1
<1>2. ASSUME NEW v \in Volumes, StageConnect(v)
      PROVE  StageInv'
    BY <1>2 DEF StageConnect, Staging
<1>3. ASSUME NEW v \in Volumes, StageDevice(v)
      PROVE  StageInv'
    <2>1. PICK a \in {"staged", "uncertain"} :
            kube' = [kube EXCEPT ![v] = a] /\ call' = [call EXCEPT ![v] = "none"]
        BY <1>3, Zenon DEF StageDevice, Answer
    <2> QED
        BY <1>3, <2>1 DEF StageDevice, Staging, StageMount
<1>4. ASSUME NEW v \in Volumes, StageError(v)
      PROVE  StageInv'
    BY <1>4 DEF StageError
<1>5. ASSUME NEW v \in Volumes, Publish(v)
      PROVE  StageInv'
    <2>1. PICK a \in {"published", "uncertain"} :
            kube' = [kube EXCEPT ![v] = a] /\ call' = [call EXCEPT ![v] = "none"]
        BY <1>5, Zenon DEF Publish, Answer
    <2> QED
        BY <1>5, <2>1 DEF Publish, IsMounted, MountBlock, BindMount
<1>6. ASSUME NEW v \in Volumes, Unpublish(v)
      PROVE  StageInv'
    <2>1. PICK a \in {"staged", "uncertain"} :
            kube' = [kube EXCEPT ![v] = a] /\ call' = [call EXCEPT ![v] = "none"]
        BY <1>6, Zenon DEF Unpublish, Answer
    <2> QED
        BY <1>6, <2>1 DEF Unpublish
<1>7. ASSUME NEW v \in Volumes, Unstage(v)
      PROVE  StageInv'
    <2>1. CASE GetPvByID(v)
        BY <1>7, <2>1 DEF Unstage, NeedUnmount
    <2>2. CASE ~GetPvByID(v)
        <3>1. PICK a \in {"unstaged", "uncertain"} :
                kube' = [kube EXCEPT ![v] = a] /\ call' = [call EXCEPT ![v] = "none"]
            BY <1>7, <2>2, Zenon DEF Unstage, Answer
        <3> QED
            BY <1>7, <2>2, <3>1 DEF Unstage, GetPvByID
    <2> QED
        BY <2>1, <2>2
<1>8. ASSUME NEW v \in Volumes, Disconnect(v)
      PROVE  StageInv'
    <2>1. PICK a \in {"unstaged", "uncertain"} :
            kube' = [kube EXCEPT ![v] = a] /\ call' = [call EXCEPT ![v] = "none"]
        BY <1>8, Zenon DEF Disconnect, Answer
    <2> QED
        BY <1>8, <2>1 DEF Disconnect
<1>9. ASSUME NEW v \in Volumes, ControllerLoss(v)
      PROVE  StageInv'
    BY <1>9 DEF ControllerLoss
<1>10. ASSUME NEW v \in Volumes,
              ConnectionLost(v) \/ Reconnected(v) \/ PodWrites(v)
       PROVE  StageInv'
    BY <1>10 DEF ConnectionLost, Reconnected, PodWrites
<1>11. CASE PluginRestart
    BY <1>11 DEF PluginRestart
<1>12. CASE HostReboot
    BY <1>12 DEF HostReboot
<1>13. ASSUME NEW v \in Volumes,
              AgentStep(v) \/ ApplyVolume(v) \/ PodCreated(v) \/ PodDeleted(v) \/ DeleteVolume(v)
       PROVE  UNCHANGED host
    BY <1>13 DEF AgentStep, CreateOpenAccess, SetReady, RemoveAccess, Recycle, ApplyVolume,
                 PodCreated, PodDeleted, DeleteVolume
<1>14. AgentRestart \/ SpdkRestart => UNCHANGED host
    BY Zenon DEF AgentRestart, SpdkRestart
<1> HIDE DEF StageInv, TypeOK
<1> QED
    BY <1>1, <1>2, <1>3, <1>4, <1>5, <1>6, <1>7, <1>8, <1>9, <1>10, <1>11, <1>12, <1>13, <1>14
    DEF Next, PluginStep, vars

LEMMA StageInvHolds == Spec => []StageInv
<1>1. Init => StageInv
    BY DEF Init, StageInv
<1> QED
    BY <1>1, StageInvStep, TypeCorrect, PTL DEF Spec

(* NodePublish never binds a bare staging directory into a Pod. *)
THEOREM PodsOnVolumes == Spec => []PodOnVolume
<1>1. StageInv => PodOnVolume
    BY DEF StageInv, PodOnVolume
<1> QED
    BY <1>1, StageInvHolds, PTL

(* Nothing of a volume that kubelet holds for unstaged is mounted, as long as the
   volume exists: also when it is deleted while it is staged, and whatever calls,
   answers, targets and connections are lost.  NodeUnstage of a volume that is gone
   unmounts nothing, which is why the inductive invariant knows of exists, and why
   it matters that a volume does not come back. *)
THEOREM MountsReleased == Spec => []MountReleased
<1>1. StageInv => MountReleased
    BY DEF StageInv, MountReleased
<1> QED
    BY <1>1, StageInvHolds, PTL

(* No step, staging included, takes written data off a device. *)
THEOREM DataStays == Spec => DataKept
<1> DEFINE Kept == \A v \in Volumes : disk[v] = "data" => disk'[v] = "data"
<1>1. ASSUME TypeOK, [Next]_vars
      PROVE  [Kept]_vars
    <2> USE <1>1 DEF TypeOK
    <2>1. CASE UNCHANGED disk
        BY <2>1
    <2>2. ASSUME NEW v \in Volumes, StageDevice(v)
          PROVE  Kept
        BY <2>2 DEF StageDevice, StageMount, SafeFormat
    <2>3. ASSUME NEW v \in Volumes, PodWrites(v)
          PROVE  Kept
        BY <2>3 DEF PodWrites
    <2>4. ASSUME NEW v \in Volumes,
                 \/ AgentStep(v) \/ ApplyVolume(v)
                 \/ PodCreated(v) \/ PodDeleted(v) \/ DeleteVolume(v)
          PROVE  UNCHANGED disk
        BY <2>4 DEF AgentStep, CreateOpenAccess, SetReady, RemoveAccess, Recycle, ApplyVolume,
                    PodCreated, PodDeleted, DeleteVolume, host
    <2>5. ASSUME NEW v \in Volumes,
                 \/ ConnectionLost(v) \/ Reconnected(v) \/ ControllerLoss(v)
                 \/ StageConnect(v) \/ StageError(v) \/ Publish(v)
                 \/ Unpublish(v) \/ Unstage(v) \/ Disconnect(v)
          PROVE  UNCHANGED disk
        BY <2>5 DEF ConnectionLost, Reconnected, ControllerLoss, StageConnect, StageError,
                    Publish, Unpublish, Unstage, Disconnect
    <2>6. AgentRestart \/ SpdkRestart \/ PluginRestart \/ HostReboot => UNCHANGED disk
        BY Zenon DEF AgentRestart, SpdkRestart, PluginRestart, HostReboot, host
    <2>7. UNCHANGED vars => UNCHANGED disk
        BY DEF vars, host
    <2> QED
        BY <2>1, <2>2, <2>3, <2>4, <2>5, <2>6, <2>7 DEF Next, PluginStep
<1> QED
    BY <1>1, TypeCorrect, PTL DEF Spec, DataKept

-----------------------------------------------------------------------------
(* The target.  A listener is where its volume says. *)

(* An attempt that got as far as the update of the AntstorVolume has added the
   listener before. *)
LEMMA UpdateListens == Did("update", "listener")
BY SMT DEF Did, Steps

LEMMA ListensStep ==
    ASSUME TypeOK, ListensWhereRecorded, [Next]_vars
    PROVE  ListensWhereRecorded'
<1> USE DEF TypeOK, ListensWhereRecorded
<1>1. CASE UNCHANGED <<vol, subsys>>
    BY <1>1
<1>2. ASSUME NEW v \in Volumes, NEW last \in DOMAIN Steps, CreateOpenAccess(v, last)
      PROVE  ListensWhereRecorded'
    <2> SUFFICES ASSUME NEW w \in Volumes, vol'[w].finalizer, subsys'[w].svcID # NoId
                 PROVE  subsys'[w].svcID = vol'[w].svcID
        OBVIOUS
    <2>1. CASE w # v
        BY <1>2, <2>1 DEF CreateOpenAccess, ExposeAccess, CreateTarget
    <2>2. CASE w = v
        <3>1. last = "update" /\ vol'[v].svcID = ResultSvcID(v)
            BY <1>2, <2>2 DEF CreateOpenAccess, Volume
        <3>2. Did(last, "listener")
            BY <3>1, UpdateListens, Zenon
        <3>3. subsys'[v].svcID = ResultSvcID(v)
            BY <1>2, <3>2 DEF CreateOpenAccess, ExposeAccess, CreateTarget, ResultSvcID
        <3> QED
            BY <2>2, <3>1, <3>3
    <2> QED
        BY <2>1, <2>2
<1>3. ASSUME NEW v \in Volumes, NEW last \in DOMAIN Steps, RemoveAccess(v, last)
      PROVE  ListensWhereRecorded'
    BY <1>3 DEF RemoveAccess, DeleteTarget, NoSubsystem, Volume
<1>4. ASSUME NEW v \in Volumes, SetReady(v) \/ Recycle(v) \/ DeleteVolume(v)
      PROVE  ListensWhereRecorded'
    <2>1. /\ subsys' = subsys
          /\ \A w \in Volumes : vol'[w].finalizer = vol[w].finalizer
                              /\ vol'[w].svcID = vol[w].svcID
        <3>1. CASE SetReady(v)
            BY <3>1 DEF SetReady, target, Volume
        <3>2. CASE Recycle(v)
            BY <3>2 DEF Recycle, target, Volume
        <3>3. CASE DeleteVolume(v)
            BY <3>3 DEF DeleteVolume, target, Volume
        <3> QED
            BY <1>4, <3>1, <3>2, <3>3
    <2> QED
        BY <2>1
<1>5. ASSUME NEW v \in Volumes, ApplyVolume(v)
      PROVE  ListensWhereRecorded'
    BY <1>5 DEF ApplyVolume, Subsystem
<1>6. CASE SpdkRestart
    BY <1>6 DEF SpdkRestart, NoSubsystem
<1>7. ASSUME NEW v \in Volumes,
             \/ ConnectionLost(v) \/ Reconnected(v) \/ ControllerLoss(v)
             \/ PluginStep(v) \/ PodWrites(v) \/ PodCreated(v) \/ PodDeleted(v)
      PROVE  UNCHANGED <<vol, subsys>>
    BY <1>7, Zenon DEF ConnectionLost, Reconnected, ControllerLoss, PluginStep, StageConnect,
                StageDevice, StageError, Publish, Unpublish, Unstage, Disconnect, PodWrites,
                PodCreated, PodDeleted, pluginOnly, target
<1>8. AgentRestart \/ PluginRestart \/ HostReboot => UNCHANGED <<vol, subsys>>
    BY Zenon DEF AgentRestart, PluginRestart, HostReboot, pluginOnly, target
<1>9. UNCHANGED vars => UNCHANGED <<vol, subsys>>
    BY DEF vars, target
<1> HIDE DEF TypeOK, ListensWhereRecorded
<1> QED
    BY <1>1, <1>2, <1>3, <1>4, <1>5, <1>6, <1>7, <1>8, <1>9 DEF Next, AgentStep

(* A volume with a target records the port that its subsystem listens on,
   whatever the attempts to expose it went through. *)
THEOREM ListensRecorded == Spec => []ListensWhereRecorded
<1>1. Init => ListensWhereRecorded
    BY DEF Init, ListensWhereRecorded, NoSubsystem
<1> QED
    BY <1>1, ListensStep, TypeCorrect, PTL DEF Spec

=============================================================================
