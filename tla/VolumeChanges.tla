--------------------------- MODULE VolumeChanges ---------------------------
(***************************************************************************)
(* What happens to one volume after it is placed: its logical volume is    *)
(* created, expanded, and copied into snapshots that are merged back.      *)
(*                                                                         *)
(* An expansion goes from the CSI controller, which raises Spec.SizeByte   *)
(* and leaves the old size in a label, to the Disk-Agent, which extends    *)
(* the logical volume and removes the label, to the CSI plugin of the      *)
(* Pod's node, which grows the file system.  A snapshot goes from CSI or a *)
(* user to the controller's SnapshotReconciler, which admits one per       *)
(* volume, and then to the agent.                                          *)
(*                                                                         *)
(* The agent has one loop for volumes and one for snapshots; a pass reads  *)
(* the object, acts on the engine, and writes the object, which is refused *)
(* when it has changed meanwhile.  Between the act and the write the agent *)
(* may die.  The reconciler runs serially and each of its passes makes at  *)
(* most one write, refused when its copy is stale: one action on the       *)
(* current object.                                                         *)
(***************************************************************************)
EXTENDS PoolBuild, Engines

CONSTANTS
    Snapshots,
    Capacity,       \* size of the pool, in units of 4 MiB
    MaxSize,        \* bound: sizes that are asked for
    Reserved,       \* annotation obnvmf/snapshot-reserved-bytes
    MaxCalls,       \* bound: what users and Kubernetes ask for
    MaxFaults       \* bound: deaths of the agent, SPDK, the node and the pool

ASSUME ChangesAssumption ==
    {Capacity, Reserved, MaxCalls, MaxFaults} \subseteq Nat /\ MaxSize \in Nat \ {0}

VARIABLES
    remote,     \* the host is another node
    pool,       \* the StoragePool is there
    vol,        \* the AntstorVolume
    lv,         \* size of the logical volume, 0 if there is none
    bdev,       \* size of what the target shows of it, 0 if there is none
    reported,   \* free size the agent has reported of the pool
    resizing,   \* an expansion that kubelet has not seen the end of
    fs,         \* size of the file system
    open,       \* the logical volume is in use
    snap,       \* the AntstorSnapshots
    snapLv,     \* size of the logical volume <origin>_snap, 0 if there is none
    held,       \* what the agent's volume loop has read
    heldSnap,   \* and what its snapshot loop has read, of which snapshot
    past,       \* history: what happened of the Rare
    calls, faults

where == <<remote, pool>>
volumeVars == <<vol, lv, bdev, reported, resizing, fs, open, held>>
snapVars == <<snap, snapLv, heldSnap>>
vars == <<poolVars, where, volumeVars, snapVars, past, calls, faults>>

(* original: label ExpansionOriginalSize, 0 if absent.  stage: "new", then
   "created" and "exposed" once the logical volume and the target are in the
   Spec, then "ready". *)
NewVolume == [size |-> 1, original |-> 0, stage |-> "new"]
Nothing == [NewVolume EXCEPT !.size = 0]

(* labels: "origin" with the origin's name, "own" without.  bound:
   OriginVolTargetNodeID is set.  start, finish: the labels of a merge. *)
NoSnapshot == [there |-> FALSE, deleting |-> FALSE, size |-> 0, labels |-> "none",
               bound |-> FALSE, status |-> "", finalizer |-> FALSE,
               start |-> FALSE, finish |-> FALSE]
NotHeld == [of |-> "none", copy |-> NoSnapshot]

Lvm == stack = "lvm"

Init ==
    /\ PoolInit
    /\ remote \in BOOLEAN /\ pool = TRUE
    /\ ~Lvm => remote                   \* an lvol is used through its target anywhere
    /\ vol = NewVolume /\ lv = 0 /\ bdev = 0 /\ fs = 0
    /\ reported = Capacity /\ resizing = FALSE /\ open = FALSE
    /\ snap = [s \in Snapshots |-> NoSnapshot] /\ snapLv = 0
    /\ held = Nothing /\ heldSnap = NotHeld
    /\ past = {} /\ calls = 0 /\ faults = 0

(* Legal, and outside of what some of the properties promise: an expansion
   asked for before the volume is created, a merged snapshot that is deleted,
   a snapshot that is given labels by its user, an SPDK that restarts. *)
Rare == {"earlyResize", "mergedDeleted", "ownLabels", "spdkRestart"}

Happens(event, cond) == past' = IF cond THEN past \cup {event} ELSE past

Fault == faults < MaxFaults /\ faults' = faults + 1

Call == calls < MaxCalls /\ calls' = calls + 1

(* A snapshot of an lvol shares its clusters. *)
Free == IF Lvm THEN Capacity - lv - snapLv ELSE Capacity - lv

-----------------------------------------------------------------------------
(* CSI: expansion. *)

(* The old size goes into a label, in place of one that is there. *)
ResizePV(size) == [vol EXCEPT !.size = size, !.original = vol.size]

(* ControllerExpandVolume.  external-resizer makes one call for a volume at a
   time, but the next one may come while the agent is still busy with the last. *)
ControllerExpandVolume(size) ==
    /\ Call /\ pool /\ size > vol.size /\ reported >= size - vol.size
    /\ vol' = ResizePV(size)
    /\ resizing' = TRUE
    /\ Happens("earlyResize", vol.stage = "new")
    /\ UNCHANGED <<poolVars, where, lv, bdev, reported, fs, open, held, snapVars, faults>>

(* What the host has of the volume: the logical volume itself or the target. *)
DeviceSize == IF Lvm /\ ~remote THEN lv ELSE bdev

(* An lvol is found by the serial number of its target; of an LVM volume the
   path of the logical volume is taken, which only the target node has. *)
DevicePath == DeviceSize > 0 /\ (Lvm => ~remote)

(* NodeExpandVolume: not before the label is gone. *)
NodeExpandVolume ==
    /\ resizing /\ vol.stage = "ready" /\ vol.original = 0
    /\ DevicePath
    /\ fs' = DeviceSize
    /\ resizing' = FALSE
    /\ UNCHANGED <<poolVars, where, vol, lv, bdev, reported, open, held, snapVars, past, calls, faults>>

(* NodeStageVolume formats the device; mounting opens it. *)
OpenOrClose ==
    /\ Call /\ vol.stage = "ready" /\ DeviceSize > 0
    /\ open' = ~open
    /\ fs' = IF fs = 0 THEN DeviceSize ELSE fs
    /\ UNCHANGED <<poolVars, where, vol, lv, bdev, reported, resizing, held, snapVars, past, faults>>

-----------------------------------------------------------------------------
(* The agent's volume loop. *)

notVolume == <<poolVars, where, reported, resizing, fs, open, snapVars, past, calls>>

SyncVolume ==
    /\ agent /\ pool /\ held = Nothing
    /\ held' = vol
    /\ UNCHANGED <<notVolume, vol, lv, bdev, faults>>

(* The Update of the copy that was read; lost, if the agent fails to reach the
   API server. *)
UpdateVolume(new) ==
    /\ held' = Nothing
    /\ \/ vol' = (IF vol = held THEN new ELSE vol) /\ UNCHANGED faults
       \/ UNCHANGED vol /\ Fault

(* ExpandVolume of the engine, by the name in the Spec.  SPDK lists every bdev
   for the empty name of a volume that is not created, and takes that for done. *)
EngineExpand(c) ==
    IF Lvm THEN IF c.stage = "new" THEN {} ELSE LvmExpandVolume(lv, c.size, c.original, Free)
    ELSE IF c.stage = "new" THEN {lv} ELSE ResizeLvol(lv, c.size, c.original, Free, Online)

(* The aio bdev is given the new size; it is an error if it is not there. *)
ResizeAioBdev(size) == Only(size, bdev # 0)

(* expandVolume comes first in every sync, and its error ends the sync.  The
   aio bdev of a remote LVM volume is named in the target of the Spec; it is
   resized after the volume.  The target of an lvol follows it. *)
Expand ==
    /\ held.original > 0
    /\ Lvm /\ remote => held.stage \in {"exposed", "ready"}
    /\ lv' \in EngineExpand(held)
    /\ IF Lvm /\ remote /\ ResizeAioBdev(held.size) = {}
       THEN held' = Nothing /\ UNCHANGED <<vol, bdev, faults>>
       ELSE /\ bdev' \in IF Lvm /\ remote THEN ResizeAioBdev(held.size)
                         ELSE IF bdev # 0 THEN {lv'} ELSE {bdev}
            /\ UpdateVolume([held EXCEPT !.original = 0])
    /\ UNCHANGED notVolume

EngineCreate(size) ==
    IF Lvm THEN LvmCreateVolume(lv, size, Free) ELSE CreateLvol(lv, size, Free, Online)

(* createVolume *)
Create ==
    /\ held # Nothing /\ held.original = 0 /\ held.stage = "new"
    /\ lv' \in EngineCreate(held.size)
    /\ UpdateVolume([held EXCEPT !.stage = "created"])
    /\ UNCHANGED <<notVolume, bdev>>

(* createOpenAccess: the target, on an aio bdev (LVM) or the lvol.  An LVM
   volume of the own node needs none. *)
Expose ==
    /\ held.original = 0 /\ held.stage = "created" /\ remote
    /\ Lvm \/ Online
    /\ bdev' = lv
    /\ UpdateVolume([held EXCEPT !.stage = "exposed"])
    /\ UNCHANGED <<notVolume, lv>>

SetReady ==
    /\ held.original = 0
    /\ held.stage = IF remote THEN "exposed" ELSE "created"
    /\ UpdateVolume([held EXCEPT !.stage = "ready"])
    /\ UNCHANGED <<notVolume, lv, bdev>>

(* A ready volume that is not in expansion, or an error. *)
PassEnds ==
    /\ held # Nothing
    /\ held' = Nothing
    /\ UNCHANGED <<notVolume, vol, lv, bdev, faults>>

ReportFree ==
    /\ agent /\ pool /\ Online /\ reported' = Free
    /\ UNCHANGED <<poolVars, where, vol, lv, bdev, resizing, fs, open, held, snapVars, past, calls, faults>>

-----------------------------------------------------------------------------
(* Snapshots: CSI and users. *)

notSnap == <<poolVars, where, volumeVars>>

NewSnapshot(labels) ==
    [NoSnapshot EXCEPT !.there = TRUE, !.size = vol.size, !.labels = labels]

(* CSI sets the origin's label and takes the size of the volume. *)
CreateSnapshot(s) ==
    /\ Call /\ ~snap[s].there /\ vol.stage = "ready"
    /\ snap' = [snap EXCEPT ![s] = NewSnapshot("origin")]
    /\ UNCHANGED <<notSnap, snapLv, heldSnap, past, faults>>

(* A user creates the object, with labels or without. *)
UserSnapshot(s) ==
    /\ Call /\ ~snap[s].there
    /\ \E l \in {"none", "own"} :
        /\ snap' = [snap EXCEPT ![s] = NewSnapshot(l)]
        /\ Happens("ownLabels", l = "own")
    /\ UNCHANGED <<notSnap, snapLv, heldSnap, faults>>

(* The API server. *)
Settled(o) == IF o.deleting /\ ~o.finalizer THEN NoSnapshot ELSE o

DeleteSnapshot(s) ==
    /\ Call /\ snap[s].there /\ ~snap[s].deleting
    /\ snap' = [snap EXCEPT ![s] = Settled([@ EXCEPT !.deleting = TRUE])]
    /\ Happens("mergedDeleted", snap[s].status = "merged")
    /\ UNCHANGED <<notSnap, snapLv, heldSnap, faults>>

(* A user asks for the merge by a label. *)
AskMerge(s) ==
    /\ Call /\ snap[s].there /\ ~snap[s].start
    /\ snap' = [snap EXCEPT ![s].start = TRUE,
                            ![s].labels = IF @ = "none" THEN "own" ELSE @]
    /\ Happens("ownLabels", snap[s].labels = "none")
    /\ UNCHANGED <<notSnap, snapLv, heldSnap, faults>>

-----------------------------------------------------------------------------
(* SnapshotReconciler. *)

(* Mutant: a snapshot that nobody has begun to create is no obstacle. *)
Alone_BegunOnly(s) ==
    \A t \in Snapshots \ {s} :
        snap[t].there /\ snap[t].labels = "origin" => snap[t].status \in {"", "merged"}

(* "The origin volume should only have one snapshot": by the label, any
   other one that is not merged is an obstacle. *)
Alone(s) ==
    \A t \in Snapshots \ {s} :
        snap[t].there /\ snap[t].labels = "origin" => snap[t].status = "merged"

(* One pass makes the first of these writes that is due. *)
Reconciled(s) ==
    LET o == snap[s] IN
    IF o.deleting /\ (o.status = "merged" \/ ~pool) THEN [o EXCEPT !.finalizer = FALSE]
    ELSE IF o.status = "merged" THEN o
    ELSE IF o.labels = "none" THEN [o EXCEPT !.labels = "origin"]
    ELSE IF ~Alone(s) \/ o.size > Reserved THEN o
    ELSE IF ~o.bound THEN [o EXCEPT !.bound = TRUE]
    ELSE IF o.status = "" THEN [o EXCEPT !.status = "creating"]
    ELSE IF o.start THEN [o EXCEPT !.status = "merging"]
    ELSE o

Reconcile(s) ==
    /\ snap[s].there /\ Reconciled(s) # snap[s]
    /\ snap' = [snap EXCEPT ![s] = Settled(Reconciled(s))]
    /\ UNCHANGED <<notSnap, snapLv, heldSnap, past, calls, faults>>

-----------------------------------------------------------------------------
(* The agent's snapshot loop. *)

SyncSnapshot(s) ==
    /\ agent /\ pool /\ heldSnap = NotHeld
    /\ snap[s].there /\ snap[s].bound
    /\ heldSnap' = [of |-> s, copy |-> snap[s]]
    /\ UNCHANGED <<notSnap, snap, snapLv, past, calls, faults>>

UpdateSnapshot(new) ==
    LET s == heldSnap.of IN
    /\ heldSnap' = NotHeld
    /\ \/ /\ snap' = IF snap[s] = heldSnap.copy THEN [snap EXCEPT ![s] = Settled(new)] ELSE snap
          /\ UNCHANGED faults
       \/ UNCHANGED snap /\ Fault

EngineDelete == IF Lvm THEN LvmDeleteVolume(snapLv) ELSE DeleteLvol(snapLv, Online)

RemoveSnapshot ==
    LET c == heldSnap.copy IN
    /\ c.deleting /\ c.finalizer
    /\ snapLv' \in EngineDelete
    /\ UpdateSnapshot([c EXCEPT !.finalizer = FALSE])
    /\ UNCHANGED <<notSnap, past, calls>>

(* Mutant: an error of the engine is only logged. *)
EngineSnapshot_ErrorLogged(size) ==
    {IF Lvm /\ snapLv = 0 /\ size > Free THEN 0 ELSE size}

(* CreateSnapshot of the engine: all snapshots of the volume have one name. *)
EngineSnapshot(size) ==
    IF Lvm THEN LvmCreateSnapshot(lv, snapLv, size, Free)
    ELSE CreateLvolSnapshot(snapLv, size, Online /\ lv # 0)

Cut ==
    LET c == heldSnap.copy IN
    /\ ~c.deleting /\ c.status = "creating" /\ ~c.finalizer
    /\ snapLv' \in EngineSnapshot(c.size)
    /\ UpdateSnapshot([c EXCEPT !.finalizer = TRUE])
    /\ UNCHANGED <<notSnap, past, calls>>

SnapshotReady ==
    LET c == heldSnap.copy IN
    /\ ~c.deleting /\ c.status = "creating" /\ c.finalizer
    /\ UpdateSnapshot([c EXCEPT !.status = "ready"])
    /\ UNCHANGED <<notSnap, snapLv, past, calls>>

(* RestoreSnapshot, of LVM alone, by the name in the Spec: it must be a
   snapshot, and its origin not in use. *)
Merge ==
    LET c == heldSnap.copy IN
    /\ Lvm /\ ~c.deleting /\ c.status = "merging" /\ ~c.finish /\ c.finalizer
    /\ snapLv' \in LvmMergeSnapshot(snapLv, open)
    /\ UpdateSnapshot([c EXCEPT !.finish = TRUE])
    /\ UNCHANGED <<notSnap, past, calls>>

SnapshotMerged ==
    LET c == heldSnap.copy IN
    /\ Lvm /\ ~c.deleting /\ c.status = "merging" /\ c.finish
    /\ UpdateSnapshot([c EXCEPT !.status = "merged"])
    /\ UNCHANGED <<notSnap, snapLv, past, calls>>

(* Nothing to do, or an error of the engine. *)
SnapshotPassEnds ==
    /\ heldSnap # NotHeld
    /\ heldSnap' = NotHeld
    /\ UNCHANGED <<notSnap, snap, snapLv, past, calls, faults>>

-----------------------------------------------------------------------------
(* The node: a start of the agent may find no store and write a new one. *)
apart == <<remote, vol, reported, resizing, fs, snap, calls>>

BuildPool ==
    /\ pool
    /\ \E fresh \in BOOLEAN :
        /\ StartAgent(fresh)
        /\ lv' = IF fresh THEN 0 ELSE lv
        /\ snapLv' = IF fresh THEN 0 ELSE snapLv
    /\ UNCHANGED <<apart, pool, bdev, open, held, heldSnap, past, faults>>

Die ==
    /\ Fault /\ (AgentDies \/ BuildInterrupted)
    /\ held' = Nothing /\ heldSnap' = NotHeld
    /\ UNCHANGED <<apart, pool, lv, snapLv, bdev, open, past>>

RestartSpdk ==
    /\ Fault /\ SpdkRestarts
    /\ bdev' = 0
    /\ Happens("spdkRestart", TRUE)
    /\ UNCHANGED <<apart, pool, lv, snapLv, open, held, heldSnap>>

Reboot ==
    /\ Fault /\ NodeReboots
    /\ bdev' = 0 /\ open' = FALSE
    /\ held' = Nothing /\ heldSnap' = NotHeld
    /\ Happens("spdkRestart", TRUE)
    /\ UNCHANGED <<apart, pool, lv, snapLv>>

(* The pool is removed from the cluster, and its agent with it. *)
PoolRemoved ==
    /\ pool /\ Fault
    /\ pool' = FALSE
    /\ held' = Nothing /\ heldSnap' = NotHeld
    /\ UNCHANGED <<poolVars, apart, lv, snapLv, bdev, open, past>>

VolumeLoop == Expand \/ Create \/ Expose \/ SetReady

SnapshotLoop == RemoveSnapshot \/ Cut \/ SnapshotReady \/ Merge \/ SnapshotMerged

Next ==
    \/ \E size \in 1..MaxSize : ControllerExpandVolume(size)
    \/ NodeExpandVolume \/ OpenOrClose
    \/ SyncVolume \/ VolumeLoop \/ PassEnds \/ ReportFree
    \/ \E s \in Snapshots :
        \/ CreateSnapshot(s) \/ UserSnapshot(s) \/ DeleteSnapshot(s) \/ AskMerge(s)
        \/ Reconcile(s) \/ SyncSnapshot(s)
    \/ SnapshotLoop \/ SnapshotPassEnds
    \/ BuildPool \/ Die \/ RestartSpdk \/ Reboot \/ PoolRemoved

Spec == Init /\ [][Next]_vars

-----------------------------------------------------------------------------
Volumes == [size : 0..MaxSize, original : 0..MaxSize,
            stage : {"new", "created", "exposed", "ready"}]
AntstorSnapshots ==
    [there : BOOLEAN, deleting : BOOLEAN, size : 0..MaxSize,
     labels : {"none", "own", "origin"}, bound : BOOLEAN,
     status : {"", "creating", "ready", "merging", "merged"},
     finalizer : BOOLEAN, start : BOOLEAN, finish : BOOLEAN]
Media == [file : BOOLEAN, short : BOOLEAN, base : BOOLEAN, store : BOOLEAN, swapped : BOOLEAN]

(* Every variable has its type, and what is allocated of the pool is there: the
   volume never, and with LVM, whose snapshots have their own extents, the volume
   and its snapshot together never, exceed it.  What is asked for may: the size
   of an aio bdev is set to that of the Spec, and an lvol's snapshot is thin. *)
TypeOK ==
    /\ stack \in Stacks /\ {agent, remote, pool, resizing, open} \subseteq BOOLEAN
    /\ {vol, held} \subseteq Volumes
    /\ {lv, reported} \subseteq 0..Capacity
    /\ {bdev, fs, snapLv} \subseteq 0..(Capacity + MaxSize)
    /\ media \in Media
    /\ Lvm => lv + snapLv \in 0..Capacity
    /\ snap \in [Snapshots -> AntstorSnapshots]
    /\ heldSnap \in [of : Snapshots \cup {"none"}, copy : AntstorSnapshots]
    /\ past \subseteq Rare /\ calls \in 0..MaxCalls /\ faults \in 0..MaxFaults

(* At most one snapshot of a volume is in work or in use: all of them have the
   one logical volume <origin>_snap, which the list by the origin's label in
   SnapshotReconciler.Reconcile protects.  A snapshot with labels of its own
   never gets that label. *)
OneSnapshotServed ==
    \A s, t \in {u \in Snapshots : snap[u].there /\ snap[u].bound /\ snap[u].status # "merged"
                                   /\ snap[u].labels = "origin"} : s = t

(* A ready snapshot has its logical volume, which no pass of the agent for
   another snapshot has taken away, except where users label snapshots or
   delete merged ones (sync_snapshot.go deletes <origin>_snap for those too). *)
ReadySnapshotBacked ==
    \A s \in Snapshots :
        snap[s].status = "ready" /\ ~snap[s].deleting =>
            \/ snapLv > 0
            \/ past \cap {"mergedDeleted", "ownLabels"} # {}
            \/ stack \in {"mem", "raid"} /\ "spdkRestart" \in past

(* A volume that is in its Spec is there: no death of the agent, SPDK or node,
   and no start of the agent, loses the store of a file (buildLVM,
   buildLvsAioBdev). *)
VolumeKept ==
    stack \in {"lvm", "aio"} /\ vol.stage # "new" => media.store /\ lv > 0

(* "removing label ExpansionOriginalSize means expansion is finished"
   (sync_volume.go): a created volume without the label has the size of its
   Spec. *)
ExpansionFinished ==
    vol.stage # "new" /\ vol.original = 0 => lv = vol.size

(* Kubelet is told the end of an expansion only when the file system has the
   size asked for: on lvols, whatever passes were lost and however often SPDK
   restarted, if the expansion did not race with the creation. *)
ResizedAsAsked ==
    ~Lvm /\ "earlyResize" \notin past /\ fs > 0 /\ ~resizing => fs = vol.size
=============================================================================
