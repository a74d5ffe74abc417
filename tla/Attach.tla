------------------------------- MODULE Attach -------------------------------
(***************************************************************************)
(* How a volume on one node reaches a Pod on another.  The Disk-Agent of   *)
(* the target node exposes the logical volume as an NVMe-oF subsystem of   *)
(* the SPDK target, on a port taken from the SvcIdAllocator, and records   *)
(* the port in the volume's Spec.SpdkTarget.  The CSI plugin of the host   *)
(* node connects to it, formats and mounts the device (NodeStage), binds   *)
(* it into the Pod (NodePublish), and undoes this when the Pod is gone.    *)
(*                                                                         *)
(* kubelet makes one call for a volume at a time; an answer may get lost,  *)
(* and kubelet then asks again.  What the plugin does before and after one *)
(* of its sleeps (8 s after nvme connect, 5 s before nvme disconnect) is   *)
(* one action each.                                                        *)
(*                                                                         *)
(* Every SPDK call of the agent may fail, and the agent may die after it:  *)
(* an exposure ends after any of its steps and is tried again.             *)
(***************************************************************************)
EXTENDS SvcIdAllocator

CONSTANTS
    Volumes,        \* remote volumes; their logical volumes exist
    Kernel,         \* those of type KernelLVol, exposed through an aio bdev;
                    \* the others are SpdkLVol
    Block,          \* those whose volumeMode is Block
    Deletable,      \* bound: those that may be deleted
    MaxPods,        \* bound: Pods created
    MaxFaults       \* bound: failures

ASSUME AttachAssumption ==
    /\ Kernel \subseteq Volumes /\ Block \subseteq Volumes
    /\ Deletable \subseteq Volumes
    /\ MaxPods \in Nat /\ MaxFaults \in Nat

VARIABLES
    vol,        \* the AntstorVolumes
    subsys,     \* SPDK: the subsystem of each volume
    bdev,       \* SPDK: volumes with an aio bdev
    alloc,      \* the agent's SvcIdAllocator
    conn,       \* the host's NVMe controller of each volume
    mnt,        \* what is mounted at the staging path
    pub,        \* what the Pod's target path shows
    disk,       \* what is on the device
    call,       \* where the plugin's call for a volume sleeps
    kube,       \* kubelet's view of the volume
    want,       \* volumes that a Pod on the host needs
    pods, faults

target == <<subsys, bdev, alloc>>
host == <<conn, mnt, pub, disk, call, kube>>
vars == <<vol, target, host, want, pods, faults>>

NoSubsystem == [there |-> FALSE, ns |-> FALSE, svcID |-> NoId]

(* finalizer: the SpdkTarget finalizer; svcID: that of Spec.SpdkTarget. *)
Volume == [exists : BOOLEAN, finalizer : BOOLEAN, ready : BOOLEAN, deleting : BOOLEAN,
           svcID : Ids \cup {NoId}]

Subsystem == [there : BOOLEAN, ns : BOOLEAN, svcID : Ids \cup {NoId}]

(* The variables have their types: the ports are of the configured range, and
   only a KernelLVol has an aio bdev. *)
TypeOK ==
    /\ vol \in [Volumes -> Volume]
    /\ subsys \in [Volumes -> Subsystem]
    /\ bdev \subseteq Kernel
    /\ alloc \in Allocator
    /\ conn \in [Volumes -> {"none", "live", "lost"}]
    /\ mnt \in [Volumes -> {"none", "mounted", "dead"}]
    /\ pub \in [Volumes -> {"none", "bare", "volume"}]
    /\ disk \in [Volumes -> {"blank", "empty", "data"}]
    /\ call \in [Volumes -> {"none", "stage", "unstage"}]
    /\ kube \in [Volumes -> {"unstaged", "uncertain", "staged", "published"}]
    /\ want \subseteq Volumes /\ pods \in 0..MaxPods /\ faults \in 0..MaxFaults

Init ==
    /\ vol = [v \in Volumes |-> [exists |-> TRUE, finalizer |-> FALSE, ready |-> FALSE,
                                 svcID |-> NoId, deleting |-> FALSE]]
    /\ subsys = [v \in Volumes |-> NoSubsystem] /\ bdev = {}
    /\ alloc = NewAllocator({})
    /\ conn = [v \in Volumes |-> "none"] /\ mnt = [v \in Volumes |-> "none"]
    /\ pub = [v \in Volumes |-> "none"] /\ disk = [v \in Volumes |-> "blank"]
    /\ call = [v \in Volumes |-> "none"] /\ kube = [v \in Volumes |-> "unstaged"]
    /\ want = {} /\ pods = 0 /\ faults = 0

(* A step goes as it should, or it is one of the failures. *)
Goes(well) ==
    IF well THEN UNCHANGED faults
    ELSE faults < MaxFaults /\ faults' = faults + 1

-----------------------------------------------------------------------------
(* The Disk-Agent and the SPDK target. *)

(* The ports of SPDK's listeners. *)
Listening(s) == {s[v].svcID : v \in Volumes} \ {NoId}

Serves(v) == subsys[v].ns /\ subsys[v].svcID # NoId /\ subsys[v].svcID = vol[v].svcID

Steps == [bdev |-> 1, subsystem |-> 2, namespace |-> 3, id |-> 4, listener |-> 5,
          sync |-> 6, update |-> 7]

Did(last, step) == Steps[last] >= Steps[step]

(* Mutant: the port of a listener that an earlier attempt made is not read. *)
ResultSvcID_New(v) == NextID(alloc)

(* CreateTarget: a listener that is there keeps its port, for another one the
   allocator is asked. *)
ResultSvcID(v) ==
    IF subsys[v].svcID = NoId THEN NextID(alloc) ELSE subsys[v].svcID

(* The allocator has no port left, or offers one that is taken: no listener
   can be created then. *)
NoListener(v) ==
    /\ subsys[v].svcID = NoId
    /\ NextID(alloc) \in {NoId} \cup Listening(subsys)

(* Mutant: an aio bdev over an lvol as well. *)
AioBdev_Always(v) == {v}

(* ExposeAccess makes an aio bdev of an LVM volume's device; an lvol is a bdev
   already. *)
AioBdev(v) == {v} \cap Kernel

(* CreateTarget adds what is missing of the subsystem, its namespace and its
   listener. *)
CreateTarget(v, last) ==
    [subsys EXCEPT ![v] =
        [there |-> @.there \/ Did(last, "subsystem"),
         ns |-> @.ns \/ Did(last, "namespace"),
         svcID |-> IF @.svcID = NoId /\ Did(last, "listener") THEN ResultSvcID(v) ELSE @.svcID]]

(* ExposeAccess up to its last successful step: the aio bdev, then the target,
   then SyncFromTruth. *)
ExposeAccess(v, last) ==
    LET asked == IF subsys[v].svcID = NoId /\ Did(last, "id") THEN Taken(alloc) ELSE alloc IN
    /\ Did(last, "listener") => ~NoListener(v)
    /\ bdev' = bdev \cup AioBdev(v)
    /\ subsys' = CreateTarget(v, last)
    /\ alloc' = CASE Did(last, "sync") -> SyncFromTruth(asked, Listening(CreateTarget(v, last)))
                  [] last = "listener" -> SyncFailed(asked)
                  [] OTHER -> asked

(* createOpenAccess of a volume: it is exposed, and then the Update names the
   target. *)
CreateOpenAccess(v, last) ==
    /\ vol[v].exists /\ ~vol[v].deleting /\ ~vol[v].finalizer
    /\ ExposeAccess(v, last)
    /\ Goes(last = "update" \/ (last = "id" /\ NoListener(v)))
    /\ vol' = IF last = "update"
              THEN [vol EXCEPT ![v] = [@ EXCEPT !.finalizer = TRUE, !.svcID = ResultSvcID(v)]]
              ELSE vol
    /\ UNCHANGED <<host, want, pods>>

(* The end of syncOneVolume. *)
SetReady(v) ==
    /\ vol[v].exists /\ ~vol[v].deleting
    /\ vol[v].finalizer /\ ~vol[v].ready
    /\ vol' = [vol EXCEPT ![v] = [@ EXCEPT !.ready = TRUE]]
    /\ UNCHANGED <<target, host, want, pods, faults>>

(* applyVolume exposes a volume with a target again, in every sync, to set the
   allowed hosts.  It names no bdev: a missing subsystem is created, but its
   namespace cannot be, and the error is dropped. *)
ApplyVolume(v) ==
    /\ vol[v].exists /\ ~vol[v].deleting /\ vol[v].svcID # NoId
    /\ subsys' = [subsys EXCEPT ![v] = [@ EXCEPT !.there = TRUE]]
    /\ alloc' = IF subsys[v].ns THEN SyncFromTruth(alloc, Listening(subsys)) ELSE alloc
    /\ UNCHANGED <<vol, bdev, host, want, pods, faults>>

(* DeleteTarget and DeleteAioBdev are no errors for what is not there. *)
DeleteTarget(v) == [subsys EXCEPT ![v] = NoSubsystem]

DeleteAioBdev(v) == bdev \ {v}

(* handleDeletion, RemoveAccces: the subsystem, the aio bdev, then the Update
   that removes the finalizer. *)
RemoveAccess(v, last) ==
    /\ vol[v].exists /\ vol[v].deleting /\ vol[v].finalizer
    /\ last \in {"subsystem", "bdev", "update"}
    /\ Goes(last = "update")
    /\ subsys' = DeleteTarget(v)
    /\ alloc' = IF ~subsys[v].there THEN alloc
                ELSE IF last = "subsystem" THEN SyncFailed(alloc)
                ELSE SyncFromTruth(alloc, Listening(DeleteTarget(v)))
    /\ bdev' = IF last = "subsystem" THEN bdev ELSE DeleteAioBdev(v)
    /\ vol' = IF last = "update" THEN [vol EXCEPT ![v] = [@ EXCEPT !.finalizer = FALSE]] ELSE vol
    /\ UNCHANGED <<host, want, pods>>

(* The logical volume goes, and the last finalizers with it. *)
Recycle(v) ==
    /\ vol[v].exists /\ vol[v].deleting /\ ~vol[v].finalizer
    /\ vol' = [vol EXCEPT ![v] = [@ EXCEPT !.exists = FALSE, !.ready = FALSE]]
    /\ UNCHANGED <<target, host, want, pods, faults>>

(* The agent starts anew: NewSpdkService reads the ports in use. *)
AgentRestart ==
    /\ Goes(FALSE)
    /\ alloc' = NewAllocator(Listening(subsys))
    /\ UNCHANGED <<vol, subsys, bdev, host, want, pods>>

(* The SPDK target restarts, empty; the agent reconnects to it and does not
   recover the targets. *)
SpdkRestart ==
    /\ Goes(FALSE)
    /\ subsys' = [v \in Volumes |-> NoSubsystem] /\ bdev' = {}
    /\ alloc' = SyncFromTruth(alloc, {})
    /\ UNCHANGED <<vol, host, want, pods>>

AgentStep(v) ==
    \/ \E last \in DOMAIN Steps : CreateOpenAccess(v, last)
    \/ SetReady(v)
    \/ \E last \in DOMAIN Steps : RemoveAccess(v, last)
    \/ Recycle(v)

-----------------------------------------------------------------------------
(* The host's NVMe controllers. *)

(* A controller loses its target: the subsystem went away, or the network. *)
ConnectionLost(v) ==
    /\ conn[v] = "live"
    /\ Goes(~Serves(v))
    /\ conn' = [conn EXCEPT ![v] = "lost"]
    /\ UNCHANGED <<vol, target, mnt, pub, disk, call, kube, want, pods>>

Reconnected(v) ==
    /\ conn[v] = "lost" /\ Serves(v)
    /\ conn' = [conn EXCEPT ![v] = "live"]
    /\ UNCHANGED <<vol, target, mnt, pub, disk, call, kube, want, pods, faults>>

(* Mutant: nvme connect without --ctrl-loss-tmo. *)
ControllerLoss_Never(v) == FALSE /\ UNCHANGED vars

(* --ctrl-loss-tmo: the kernel gives up, and a file system on the device is
   dead from then on. *)
ControllerLoss(v) ==
    /\ conn[v] = "lost"
    /\ conn' = [conn EXCEPT ![v] = "none"]
    /\ mnt' = [mnt EXCEPT ![v] = IF @ = "mounted" THEN "dead" ELSE @]
    /\ UNCHANGED <<vol, target, pub, disk, call, kube, want, pods, faults>>

-----------------------------------------------------------------------------
(* The CSI node plugin. *)

pluginOnly == <<vol, target, want, pods>>

(* ListNvmeDisk fails while any controller of the host has lost its target. *)
ListNvmeDisk == \A v \in Volumes : conn[v] # "lost"

(* nvme connect, and nvme disconnect, which is no error without a connection. *)
ConnectTarget(v) == [conn EXCEPT ![v] = "live"]

DisconnectTarget(v) == [conn EXCEPT ![v] = "none"]

(* GetPvByID finds the volume. *)
GetPvByID(v) == vol[v].exists

(* The call is answered, and kubelet's view is then k, unless the answer gets
   lost. *)
Answer(v, k) ==
    /\ call' = [call EXCEPT ![v] = "none"]
    /\ \/ kube' = [kube EXCEPT ![v] = k] /\ UNCHANGED faults
       \/ kube' = [kube EXCEPT ![v] = "uncertain"] /\ Goes(FALSE)

(* kubelet calls NodeStageVolume, and the volume is found ready. *)
Staging(v) ==
    /\ v \in want /\ kube[v] \in {"unstaged", "uncertain"}
    /\ call[v] = "none"
    /\ GetPvByID(v) /\ vol[v].ready

(* NodeStageVolume, connectSpdkTarget: no device of the volume is there. *)
StageConnect(v) ==
    /\ Staging(v)
    /\ ListNvmeDisk
    /\ conn[v] = "none" /\ Serves(v)
    /\ conn' = ConnectTarget(v)
    /\ call' = [call EXCEPT ![v] = "stage"]
    /\ UNCHANGED <<pluginOnly, mnt, pub, disk, kube, faults>>

(* Mutant: mkfs whatever is on the device. *)
SafeFormat_Always(content) == "empty"

(* SafeFormat leaves a device with a file system alone. *)
SafeFormat(content) == IF content = "blank" THEN "empty" ELSE content

(* Mutant: the mount is left to the next call. *)
StageMount_Late(v) ==
    IF mnt[v] = "none" /\ disk[v] = "blank"
    THEN disk' = [disk EXCEPT ![v] = "empty"] /\ UNCHANGED mnt
    ELSE disk' = disk /\ mnt' = [mnt EXCEPT ![v] = "mounted"]

(* A staging path that is a mount point is left alone; reading a dead one is
   an error. *)
StageMount(v) ==
    IF mnt[v] = "none"
    THEN /\ disk' = [disk EXCEPT ![v] = SafeFormat(@)]
         /\ mnt' = [mnt EXCEPT ![v] = "mounted"]
    ELSE mnt[v] # "dead" /\ UNCHANGED <<disk, mnt>>

(* NodeStageVolume with the device found, at once or after the connect. *)
StageDevice(v) ==
    /\ Staging(v) \/ call[v] = "stage"
    /\ ListNvmeDisk /\ conn[v] = "live"
    /\ IF v \in Block THEN UNCHANGED <<disk, mnt>> ELSE StageMount(v)
    /\ Answer(v, "staged")
    /\ UNCHANGED <<pluginOnly, conn, pub>>

(* The device is not found, or cannot be used: an error, and the connection
   is kept. *)
StageError(v) ==
    /\ call[v] = "stage"
    /\ \/ ~ListNvmeDisk
       \/ conn[v] # "live"
       \/ v \notin Block /\ mnt[v] = "dead"
    /\ call' = [call EXCEPT ![v] = "none"]
    /\ UNCHANGED <<pluginOnly, conn, mnt, pub, disk, kube, faults>>

(* The target path is in /proc/mounts. *)
IsMounted(v) == pub[v] # "none"

(* The block device is looked up by the target's serial number, except for a
   KernelLVol: its DevPath is a path of the target node. *)
DeviceFound(v) == v \notin Kernel /\ ListNvmeDisk /\ conn[v] = "live"

(* A block device is bound to the target path. *)
MountBlock(v) == [pub EXCEPT ![v] = "volume"]

(* A file system is bound from the staging path as it is. *)
BindMount(v) == [pub EXCEPT ![v] = IF mnt[v] # "none" THEN "volume" ELSE "bare"]

(* NodePublishVolume. *)
Publish(v) ==
    /\ v \in want /\ kube[v] = "staged" /\ call[v] = "none"
    /\ GetPvByID(v)
    /\ v \in Block => DeviceFound(v)
    /\ pub' = IF IsMounted(v) THEN pub ELSE IF v \in Block THEN MountBlock(v) ELSE BindMount(v)
    /\ Answer(v, "published")
    /\ UNCHANGED <<pluginOnly, conn, mnt, disk>>

(* The Pod writes. *)
PodWrites(v) ==
    /\ kube[v] = "published" /\ pub[v] = "volume"
    /\ conn[v] = "live" /\ mnt[v] # "dead"
    /\ disk' = [disk EXCEPT ![v] = "data"]
    /\ UNCHANGED <<pluginOnly, conn, mnt, pub, call, kube, faults>>

(* NodeUnpublishVolume. *)
Unpublish(v) ==
    /\ v \notin want /\ pub[v] # "none" /\ call[v] = "none"
    /\ pub' = [pub EXCEPT ![v] = "none"]
    /\ Answer(v, "staged")
    /\ UNCHANGED <<pluginOnly, conn, mnt, disk>>

(* Mutant: an error of the check means that nothing is mounted. *)
NeedUnmount_NotOnError(v) == mnt[v] = "mounted" /\ conn[v] = "live"

(* The staging path is a mount point, or reading it fails. *)
NeedUnmount(v) == mnt[v] # "none"

(* NodeUnstageVolume, until it sleeps; for a volume that is not found it
   succeeds at once, and leaves the mount and the connection. *)
Unstage(v) ==
    /\ v \notin want /\ kube[v] \in {"staged", "uncertain"}
    /\ pub[v] = "none" /\ call[v] = "none"
    /\ IF GetPvByID(v)
       THEN /\ mnt' = [mnt EXCEPT ![v] = IF NeedUnmount(v) THEN "none" ELSE @]
            /\ call' = [call EXCEPT ![v] = "unstage"]
            /\ UNCHANGED <<kube, faults>>
       ELSE Answer(v, "unstaged") /\ UNCHANGED mnt
    /\ UNCHANGED <<pluginOnly, conn, pub, disk>>

(* Mutant: the disconnect of a device that is gone is an error. *)
Disconnect_NotIdempotent(v) ==
    /\ call[v] = "unstage"
    /\ v \notin Kernel => conn[v] # "none"
    /\ conn' = [conn EXCEPT ![v] = IF v \in Kernel THEN @ ELSE "none"]
    /\ Answer(v, "unstaged")
    /\ UNCHANGED <<pluginOnly, mnt, pub, disk>>

(* NodeUnstageVolume after its sleep: a volume of type KernelLVol stays
   connected. *)
Disconnect(v) ==
    /\ call[v] = "unstage"
    /\ conn' = IF v \in Kernel THEN conn ELSE DisconnectTarget(v)
    /\ Answer(v, "unstaged")
    /\ UNCHANGED <<pluginOnly, mnt, pub, disk>>

PluginStep(v) ==
    \/ StageConnect(v) \/ StageDevice(v) \/ StageError(v) \/ Publish(v)
    \/ Unpublish(v) \/ Unstage(v) \/ Disconnect(v)

(* The plugin restarts: the calls under way end without an answer. *)
PluginRestart ==
    /\ Goes(FALSE)
    /\ \E v \in Volumes : call[v] # "none"
    /\ call' = [v \in Volumes |-> "none"]
    /\ kube' = [v \in Volumes |-> IF call[v] = "none" THEN kube[v] ELSE "uncertain"]
    /\ UNCHANGED <<pluginOnly, conn, mnt, pub, disk>>

(* The host reboots. *)
HostReboot ==
    /\ Goes(FALSE)
    /\ conn' = [v \in Volumes |-> "none"] /\ mnt' = [v \in Volumes |-> "none"]
    /\ pub' = [v \in Volumes |-> "none"] /\ call' = [v \in Volumes |-> "none"]
    /\ kube' = [v \in Volumes |-> "unstaged"]
    /\ UNCHANGED <<pluginOnly, disk>>

-----------------------------------------------------------------------------
(* Pods, and the deletion of a volume that no Pod uses. *)

PodCreated(v) ==
    /\ v \notin want /\ pub[v] = "none" /\ ~vol[v].deleting
    /\ pods < MaxPods /\ pods' = pods + 1
    /\ want' = want \cup {v}
    /\ UNCHANGED <<vol, target, host, faults>>

PodDeleted(v) ==
    /\ v \in want
    /\ want' = want \ {v}
    /\ UNCHANGED <<vol, target, host, pods, faults>>

(* DeleteVolume, called once the claim is gone.  Nothing is attached, so nobody
   waits for the host: it may still have the volume staged, or be at it. *)
DeleteVolume(v) ==
    /\ v \in Deletable \ want /\ ~vol[v].deleting
    /\ vol' = [vol EXCEPT ![v] = [@ EXCEPT !.deleting = TRUE]]
    /\ UNCHANGED <<target, host, want, pods, faults>>

Next ==
    \/ \E v \in Volumes :
        \/ AgentStep(v) \/ ApplyVolume(v)
        \/ ConnectionLost(v) \/ Reconnected(v) \/ ControllerLoss(v)
        \/ PluginStep(v) \/ PodWrites(v)
        \/ PodCreated(v) \/ PodDeleted(v) \/ DeleteVolume(v)
    \/ AgentRestart \/ SpdkRestart \/ PluginRestart \/ HostReboot

Spec == Init /\ [][Next]_vars

(* A failed sync is queued again, kubelet repeats its calls, and the kernel
   notices a dead connection and gives it up. *)
FairSpec ==
    /\ Spec
    /\ \A v \in Volumes :
        /\ WF_vars(AgentStep(v)) /\ WF_vars(PluginStep(v))
        /\ WF_vars(~Serves(v) /\ ConnectionLost(v)) /\ WF_vars(ControllerLoss(v))

-----------------------------------------------------------------------------
(* What a Pod finds at its path is the volume, never the bare directory of
   the host's own disk: NodePublish binds the staging path without looking,
   so it rests on what NodeStage answered, across lost answers, restarts of
   the plugin and reboots. *)
PodOnVolume == \A v \in Volumes : pub[v] # "bare"

(* What a Pod has written stays on the device, however often the volume is
   staged again (SafeFormat). *)
DataKept == [][\A v \in Volumes : disk[v] = "data" => disk'[v] = "data"]_vars

(* A listener of a volume's subsystem is at the port that the volume records,
   so that a host which reads the volume can connect: an exposure that was
   cut between the listener and the Update finds its port again. *)
ListensWhereRecorded ==
    \A v \in Volumes :
        vol[v].finalizer /\ subsys[v].svcID # NoId => subsys[v].svcID = vol[v].svcID

(* When kubelet holds a volume for unstaged, nothing of it is mounted, even
   when its target died under the mount or the volume is being deleted: no mount
   is made before a failure that NodeStage reports, and NodeUnstage unmounts what
   it cannot read.  The staging path of a volume that is gone is left out:
   NodeUnstage succeeds without a look at it when it does not find the volume. *)
MountReleased ==
    \A v \in Volumes :
        kube[v] = "unstaged" /\ call[v] = "none" =>
            /\ pub[v] = "none"
            /\ vol[v].exists => mnt[v] = "none"

(* What staging made is whole: the target serves, and the device is still
   there.  kubelet does not stage again what it holds for staged, and
   NodePublish does not connect. *)
Intact(v) ==
    /\ vol[v].finalizer => Serves(v)
    /\ mnt[v] # "dead"
    /\ v \in Block /\ kube[v] = "staged" => conn[v] # "none"

(* A Pod whose volume is intact gets it at last, although a lost connection
   of any other volume makes every NodeStage fail meanwhile. *)
PodStarts ==
    \A v \in Volumes \ (Kernel \cap Block) :
        <>[](v \in want /\ Intact(v)) => <>[](kube[v] = "published")

(* A volume whose Pod is gone is unstaged at last, also when its target, its
   device or the volume itself are gone before. *)
PodLeaves == \A v \in Volumes : <>[](v \notin want) => <>[](kube[v] = "unstaged")

=============================================================================
