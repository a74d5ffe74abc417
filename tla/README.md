# LiteIO: TLA+ specifications

LiteIO gives Kubernetes Pods block storage that may live on another node. These
modules specify the parts whose correctness depends on how concurrent actors
interleave, crash and retry. Paths below are relative to `src/pkg`.

## 1. The system

- The **Disk-Controller** (`controller/manager`) reads objects from informer caches
  that lag behind the API server. It keeps an in-memory **State** of pools, volumes
  and reservations, and places volumes, volume groups and data controls.
  The same State runs inside kube-scheduler as a plugin.
- A **Disk-Agent** (`agent`) on each storage node builds its pool, reports its
  health, and makes logical volumes and NVMe-oF targets with LVM or SPDK.
- The **CSI** driver (`csi`) turns claims into AntstorVolumes, and on a Pod's node
  connects, formats and mounts them.
- The **host-nvme** manager (`host-nvme`) switches a host's paths in a migration.

They talk through API objects only. An `Update` carries the version that was read
and is refused when it is stale; a `Patch` is not. Almost every handler reads,
acts on storage and then writes, so a crash, a deletion or another
writer can come between any two of these.

| Part | Modules |
|---|---|
| State, its locks, the callers that check before they act | PoolState |
| Volume reconciler, event handler, agent's volume sync | VolumeLifecycle; its promise: VolumeContract |
| Targets, service ids, CSI node server, kubelet | SvcIdAllocator, Attach |
| Expansion, snapshots, pool engines, building of pools | Engines, PoolBuild, VolumeChanges |
| Volume groups, data controls, their agent | GroupScheduler, VolumeGroup |
| Pool status, lease, lock, local storage report | PoolHealth |
| Migration | Migration |
| kube-scheduler plugin, PVC events, CreateVolume | PodScheduling |

`PROJECT.json` gives the source files of every part, the lines of every
definition (`map`) and, under `hazards`, the lines where something hard to test
can go wrong and the properties that cover it.

## 2. Modules

Each module has its state as VARIABLES, one action per operation or per stretch of
one that nothing can interrupt, and bounds as CONSTANTS. The `MC` modules only
choose constants. Variables marked `history` or counting against a bound are not in
the code.

### PoolState

`state.go`, `node.go`, `reservation.go` and the callers that decide what is
passed to them (saveToState and handleDeletion of the pool reconciler, the volume
and PVC handlers).

- `nodeMap`, `volIDMap`, `vols`, `resvSet`, `free` are the fields of `state` and
  `Node`; `hasCap` tells a real pool from a placeholder; `th` is what each
  goroutine is in the middle of.
- `state.lock` covers Bind, Unbind, SetStoragePool and RemoveStoragePool;
  `volLock` covers AddVolume, RemoveVolumeByID and the second half of Reserve and
  Unreserve. An operation is one action where its locks keep everyone else out,
  and several where they do not.
- `cap` is the capacity of the pool, less its static reserved LVs; every SetStoragePool
  may bring another one of `Capacities`. `basis` records the capacity that a stored
  FreeResource was calculated from.
- A sum of sizes is the cardinality of a set of size units, which both TLC and
  the provers handle. A volume's name and uuid are one identity.

### VolumeLifecycle and VolumeContract

One volume from CSI to its removal: `volume_reconciler.go`,
`handler/volume_handler.go`, `agent/sync/sync_volume.go`.

- `obj` is the AntstorVolume, `cache` the controller's copy, `feed` the versions on
  their way to it; `inNode` and `volIDMap` are the State; `lv` and `access` the
  logical volumes and targets.
- A reconcile is one action over the cached copy and ends with its write, which
  may fail. An agent reads, acts and writes in three steps.
- The patch that adds in-state replaces the finalizers by the cached list.
  `RestartController` rebuilds the State from Create events, which skip volumes in
  deletion. Nodes fail for good, pools flap, and a node outside `Exact` rounds a
  striped volume, so that a repeated creation fails.
- `VolumeContract` is the abstract specification: placed once, counted on that node
  alone until it is given back. `Contract` is its refinement, with `phase`,
  `place`, `counted`, `admitted` computed from the variables above.

### SvcIdAllocator and Attach

`spdk/svcid.go`, `spdk/service_tgt.go`, `agent/pool/access.go`, `csi/rpcserver/node.go`,
`util/mount`.

- `subsys`, `bdev`, `alloc` are SPDK's subsystems, aio bdevs and the ids in use;
  `conn`, `mnt`, `pub`, `disk` the host; `kube` what kubelet believes.
- `CreateOpenAccess` may stop after any of its SPDK calls. `StageConnect` and
  `StageDevice`, `Unstage` and `Disconnect` are the two sides of the plugin's
  sleeps. A lost connection leaves a device that makes the listing of subsystems
  fail for every volume until the kernel gives it up (`ControllerLoss`).
- A volume may be deleted while it is staged. Unstage of a volume whose object is gone
  answers success and neither unmounts nor disconnects.
- Restarts of agent, SPDK and plugin, reboots of the host, lost answers.

### Engines, PoolBuild and VolumeChanges

`agent/pool/engine`, `util/lvm`, `spdk/service_lvol.go`; `agent/pool/builder.go`; the
resize path of CSI and agent, and `snapshot_reconciler.go` with `sync_snapshot.go`.

- `Engines` has each call as the set of its possible results, empty for an error.
- `PoolBuild` builds a volume group on a loop device, or an lvstore on an aio
  bdev, memory or a RAID. A build may be cut short, which may leave a file without
  its size (`short`); the RAID's members may come back in another order
  (`swapped`).
- In `VolumeChanges` `vol.original` is the label that marks a running expansion, `held`
  and `heldSnap` are what the agent's two loops have read, and `past` records the
  rare sequences that some properties leave out by name.

### GroupScheduler and VolumeGroup

`scheduler/sched_vol_group.go` as an algorithm on sequences; `volume_group_reconciler.go`,
`data_control_reconciler.go`, `agent/sync/sync_datacontrol.go` and the CSI client.

- The loops over the entries are functions of the number of rounds (`Refilled`,
  `Extended`, `Left`, `Chosen`). The one that adds entries keeps the bound that shrinks
  while it runs, and sizes are rounded up against the rounding down of what is
  allocatable. Nodes that compare as equal come in any order.
- `agt` is the agent's pass over the data control and `lvm` the host: connected
  targets, PVs, VG, LV. A tear-down may find VGs or PVs not listed: a failed listing
  is only logged and taken for an empty one. `blind` records a pass for which
  both failed.
- The deletion of a group looks its data control up in the cache (`LookUpDataControl`)
  and deletes a member in a later step. `look` is what the look-up came to, "lagged"
  when the data control existed and the cache did not have it yet.

### PoolHealth

`pool_reconciler.go`, `plugin/lockpool.go`, `agent/sync/sync_storagepool.go`,
`agent/manager`, `controller/kubeutil` and `cmd/controller/antplugins/localstorage.go`.

- `lease.age` is the time since the last heartbeat: fresh, lost, offline.
  `st` is the pool's copy in the State.
- A pass over a pool is three actions, between which the agent, timers and volumes go on:
  `ReconcilePool` up to saveToState, which publishes the cached status; `GetLease`, which
  may fail; `CheckHeartbeat`, whose patches may fail, with processNodeOffline. `pass` is
  how far it has come. A failed patch still leaves the new status in the State, since
  UpdateStoragePoolStatus sets it first; a failed read of the lease leaves the cached one.
- `reportLocal` tells the two programs apart that contain the reconcilers: only one
  registers the report of local storage. Each of the report's two patches may fail; a
  patch refreshes the caller's copy of the pool. `missed` records a report
  that failed after its mark was saved.

### Migration

`migration_reconciler.go`, `agent/sync/sync_migration.go`, `host-nvme/sync_migration.go`,
`spdk/service_migrate.go`. The controller's phases, SPDK's copy task, the
host's two paths. Agent and host read, act and write; passes are cut, writes refused.

### PodScheduling

`scheduler/plugin`, `handler/pvc_handler.go`, `csi/rpcserver/controller.go`,
`scheduleVolume`. A Pod's claims are filtered as one virtual volume, reserved one by
one, annotated by PreBind, and become volumes. Node.Reserve is one step here; that
its check and its locked half may be separated is PoolState's subject. Both orders of PreBind and
kube-scheduler's own binding are modelled. `nodes` are the entries of NodeMap,
`pools` those with a known pool. `class` is what the PVC handler knows of the claims'
StorageClass (one for all of them): it is read from the API server until that works once,
and OnAdd and OnDelete do nothing while it does not. `missed` records the deletions that
OnDelete could not act on: those that arrive as DeletedFinalStateUnknown, and those that
come while the StorageClass cannot be read.

## 3. Runs

| Run | Checks | Distinct states | Result |
|---|---|---|---|
| `pool_state` | TypeOK, ReservationYieldsToVolume, FreeCoversVolumes | 1,573,220 | holds |
| `pool_state_free` | FreeIsCalculated | | violated |
| `volume_lifecycle` | TypeOK, LiveVolumeCounted, ReadyIsBacked, Contract, BecomesReady, DeletionCompletes | 50,596 | holds |
| `volume_recycled` | DeletedVolumeRecycled | | violated |
| `volume_node_failure` | NodeFailureDeletionCompletes | | violated |
| `attach` | TypeOK, PodOnVolume, ListensWhereRecorded, MountReleased, DataKept, PodStarts, PodLeaves | 675,928 | holds |
| `volume_changes` | TypeOK, OneSnapshotServed, ReadySnapshotBacked, ResizedAsAsked, VolumeKept | 2,660,856 | holds |
| `volume_expansion` | ExpansionFinished | | violated |
| `volume_group` | TypeOK, MembersApart, ControlComplete, NeverStuck, NoMemberTakenAway | 2,073,341 | holds |
| `pool_health` | TypeOK, SilentStaysOut, PoolComesBack, LockFollowsNode, LossNoticed, NodeGonePoolGone, LocalStorageReported | 326,190 | holds |
| `migration` | TypeOK, NeverStranded, CleanEnd, MigrationFinishes | 6,270 | holds |
| `pod_scheduling` | TypeOK, VolumesLocal, ReservationsOwned | 3,041,136 | holds |

### What the violated ones show

- `pool_state_free`: SetStoragePool computes FreeResource without `volLock`. A Reserve
  that commits before it stores is missing from the figure afterwards.
  Volumes are never missing (FreeCoversVolumes), only reservations. (A Reserve may also
  store a figure of the capacity before: FreeCoversVolumes is relative to `basis`.)
- `volume_recycled`: a deletion comes between the creation of the logical volume and
  the write of its finalizer. The write conflicts, the next sync finds no finalizer
  to act on, and the controller releases the object. The logical volume
  stays. No crash is needed.
- `volume_node_failure`: for a failed node the controller strips the finalizers `lvm`
  and `spdk-tgt`, but the agent's is `logic-volume`.
- `volume_expansion`: an LVM volume is extended by a difference and the label that
  marks the expansion is removed afterwards. One request and one lost write suffice: the
  volume of 1 is to become 2, the write after lvextend is lost, the next sync finds the
  label and extends by the difference again, and the expansion ends with a logical
  volume of 3.

### What the passing ones leave out by name

- ReadySnapshotBacked: users who label snapshots themselves or delete merged ones,
  and SPDK restarts of pools on memory or RAID.
- VolumeKept: pools on memory or RAID, which a restart may lose.
- ResizedAsAsked: LVM (see `volume_expansion`; there a second resize before the sync of
  the first also leaves the volume too small, since the label of the first is replaced),
  and a resize before the volume is created.
- FreeCoversVolumes: a capacity that has changed since the figure was calculated.
- SilentStaysOut: the time between saveToState and the end of a pass, a pass that could
  not read the lease, and a pool without its finalizer.
- MountReleased: the staging path of a volume whose object is gone.
- LocalStorageReported: a report that failed on an existing Node; the saved mark keeps
  it from being repeated.
- NoMemberTakenAway: a tear-down for which both listings failed, and the one step of a
  group's deletion that looked for the data control before the cache had it.
- NeverStuck: a group that turned ready over a member that was being deleted.
- ReservationsOwned: a claim whose deletion arrives as a tombstone, or while its
  StorageClass cannot be read. The reservation then stays until a restart.
- VolumesLocal: a scheduling cycle that worked from an outdated copy of a claim.
- PodStarts: block volumes of type KernelLVol, and volumes whose target is not intact.
- BecomesReady, DeletionCompletes: nodes that fail; a rounded volume after a lost write.

### Bounds

- `PoolState.cfg`: one pool of two or three units, which may change, two volumes, two reservations, three
  goroutines. A Reserve can be overtaken by the Bind of its own volume and
  by a SetStoragePool in one behaviour. No property relates two pools, and the
  proofs cover any number. Goroutines are symmetric.
- `VolumeLifecycle.cfg`: two nodes (a volume could be placed twice; it needs a target
  on one only), a feed of five versions (the cache may miss target, finalizers and
  deletion at once) and four faults.
- `Attach.cfg`: a KernelLVol with a file system and an SpdkLVol as a block device, four
  ids, two Pods and two faults. The two share the ids and the list of
  subsystems. Four ids let the cursor wrap while both volumes listen. Only the KernelLVol
  is deleted (`Deletable`).
- `VolumeChanges.cfg`: the four kinds of pool, two snapshots, sizes up to two of three
  units, three requests, one fault. Two snapshots compete for the one `_snap` while
  an expansion takes the space and one restart or refused write falls in between; the
  proofs cover any number of each. `VolumeExpansion.cfg` has one request, one fault and
  room for an expansion that is done twice.
- `VolumeGroup.cfg`: three nodes of two sizes, one of which other volumes fill and
  leave twice, a group of two members with an unaligned size, one rollback cut
  short, two faults of the agent.
- `PoolHealth.cfg`: one pool, two units (one for the remote volume), two events in any
  combination: restarts, node lost, marked or back, SPDK down, deletion, a failed report, lease read or patch.
- `Migration.cfg`: the three kinds of source volume and three faults.
- `PodScheduling.cfg`: two nodes with room for a Pod's two claims, another volume that
  takes half of a node's room, one fault; one of the two claims may be deleted
  (`Deletable`), so that the other outlives it. An unreadable StorageClass is one fault however
  often it is looked up. Nodes are symmetric.

Deadlock is checked for PoolState. The other systems may stop: one object's life
ends, and users and faults are bounded.

### Fairness

Nobody is forced to create, delete or fail. What is fair is what the code's own
scheduling repeats:

- VolumeLifecycle: informers deliver, work queues retry, agents sync, time passes, and
  the heartbeat check sees a dead or a live node (weak fairness of Deliver,
  Reconcile, AgentStep, Age, MarkNotReady of dead nodes, MarkReady). A call to the API
  server may fail any number of times within the bound, not for ever.
- Attach: a failed sync is queued again, kubelet repeats its calls, the kernel notices
  a dead connection and gives it up after its timeout.
- PoolHealth: the agent's tickers, informers, the requeue of every pool after five
  minutes, the passage of time. A crashed agent need not start again.
- Migration: every waiting pass comes back after its RequeueAfter and the copy makes
  progress. The agent's and the host's acting steps are strongly fair, since a pass
  may find nothing to do again and again before it finds something.

## 4. Proofs

All are for every value of the constants under the module's named assumption.

**PoolStateProofs** (PoolStateAssumption): TypeCorrect, ReservationsYield,
FreeNeverOverstatesVolumes. FreeCoversVolumes is not inductive: a goroutine may
carry a figure computed earlier and store it later. `IInv` adds `ThreadsNamed` (a
goroutine inside an operation names its node), `LocksHeld` (one that carries a
figure holds the lock that keeps volumes from being bound or unbound) and
`CarriedCovers` (the figure covers the volumes as they are, relative to the capacity it
was calculated from, which is carried and stored with it as `basis`). One lemma per action;
arithmetic is confined to `GetFreeBounded`. The argument shows why the two locks
suffice for volumes and not for reservations: Bind and Unbind take both,
Reserve only one.

**VolumeLifecycleProofs**: TypeCorrect, VolumeCounted (`LiveVolumeCounted`) and
KeepsContract (`Spec => Contract`, the refinement of VolumeContract). The invariant
`IInv` is about every version in flight:

- `FeedInv`: the feed leads from the cache to the object, and deletion is not taken
  back along it;
- `VersionInv`: all versions agree on the target and with the State;
- `StateInv`: the State holds the volume from the first version with a target until
  the controller has seen the deletion;
- `ObjInv`: what finalizers and status say about admission;
- `AgentInv`: an agent at work is the target's, and logical volumes are on the target.

Per action one lemma proves `IInv' /\ [C!Next]_(C!vars)`, so that the invariant
and the step simulation share their case split. The core is that `scheduleVolume`
asks the State before it places a volume: a cache that misses the target cannot lead
to a second one, since StateInv says that the State has the first.

**AttachProofs** (RangeAssumption, AttachAssumption): NextIDFree (an id that NextID
returns was free), NextIDExhausted (exactly when it fails: all ids are in
use, or all but the one under the cursor), TypeCorrect, PodsOnVolumes, MountsReleased,
DataStays and ListensRecorded. The mounts rest on `StageInv`, which relates kubelet's
view, the sleeping call and the mount of a volume that exists; that such a volume was
never gone before (`StaysGone`) is what lets it ignore the others. ListensWhereRecorded is
inductive together with the types.

ReadyBacked (`ReadyIsBacked`) is proved in the same module with a second invariant,
`BackInv`, on top of `IInv`: what the object claims (a finalizer, ready) is on
its node unless it is in deletion; a copy in deletion means that
the object is; and an agent that is about to write the outcome of a step has done it.

**PoolHealthProofs**: TypeCorrect and the action property SilentPoolStaysOut
(`SilentStaysOut`). The argument is about one pass: whatever copy of the pool it starts
from, what it leaves in State has been through checkHeartbeat or is the API server's
answer, where the pool is out. `PassInv`: a pass between its steps is over a pool in State
that is not being removed, so that what it writes at its end has an entry to go to. That a
volume event cannot bring an entry back takes the invariant `EntryInv`: an entry that was
removed has no status left.

**MigrationProofs**: TypeCorrect, HostNeverStranded (`NeverStranded`) and EndIsClean
(`CleanEnd`), for any number of faults. Each field of the object has one writer and the
phases only advance; from this, `AgentInv`: the agent's copy, however old, has the pipe
of the object as it is now. `ObjectInv`: which finalizers, connections and flags go with
a phase, of the object and of every copy; `CopyInv`: no copy is in a later phase than
the object; `TaskInv`: SPDK's task runs only between a connected pipe's ends, in syncing
or cleaning; `PathInv`: what the object says of the host's paths is so.

**VolumeChangesProofs** (ChangesAssumption, StacksAssumption): TypeCorrect,
CreatedVolumeKept (`VolumeKept`), AtMostOneServed (`OneSnapshotServed`), ReadyIsCut
(`ReadySnapshotBacked`) and ResizeIsDone (`ResizedAsAsked`), for every capacity, size
and set of snapshots and any number of requests and faults. `SizedInv`: an expansion
enlarges. `HeldInv`: what the volume loop has read is the volume, unless it was expanded
since. `MediumInv`: on a file the store is never lost nor assembled in the wrong order,
elsewhere only after a restart of SPDK. `VolumeInv`: what is seen of an lvol is its
size. ReadyIsCut ends where `past` says that a merged snapshot was deleted or a user set
labels. `SnapInv`: only a bound snapshot is worked on, one that is cut has its logical
volume, and (`Advances`) neither a deletion nor a merge that the snapshot loop has read
is taken back before the loop itself ends it. What the engines return enters through
one lemma per call.

**VolumeGroupProofs** (GroupAssumption, GroupNodes), first the scheduler as an algorithm.
ScheduledApart: for every set of pools, every order of the nodes and every layout of
entries, a pass that succeeds leaves the entries with a place on different nodes, at
most `CountRange.Max` of them, less than one alignment unit above the requested size, and
does not touch an entry that had a place. The loops are recursive functions, so this is
by induction over the rounds; the library's induction theorems cannot be instantiated, so
the lemma `Induction` derives it, for membership in a set, from the well-foundedness
of the naturals, and each loop has a lemma that its function exists (`RefilledIs`,
`ExtendedIs`, `LeftIs`, `ChosenIs`). The invariant of the rounds is `RoundOK`: a round
places an entry only while something is left to place, and then no more than what is left
rounded up (`PickFits`, `RoundOff`), on a node that no other entry has.

Then the group. ControlIsComplete (`ControlComplete`) and the action property
NoMemberDeleted (`NoMemberTakenAway`) hold for every set of nodes and pool sizes, any
number of faults, and whatever ScheduleVolumeGroup returns: their proofs never look into
it. The invariant is about who may still write what. `ReadyInv`: a ready group is not
written any more until it is gone, since a pass that could would hold an outdated copy.
`TargetInv`: a data control with a target is in the cache, and so is its ready group; this
is what stops a rollback (no pass over a ready group) and the group's deletion (the
cache has the data control), although neither looks at the API server. `LookInv`: a
deletion that found no data control, and was not behind the cache, will not see one
come. `HostInv`: members
know their host. `AgentInv`, `LvmInv`: the agent works on all members of that group, a VG
on the host consists of them or is missing, and no LV is without a VG, after any number of
passes that ended half-way. That a data control gets its target only after its
group is gone is not excluded by the invariant and need not be: the agent reads the group
from the API server and would not start.

GroupTypes (`TypeOK`) and MembersStayApart (`MembersApart`) do need what the scheduler
returns. `LayInv`, on top of the invariant above, has three parts: `EntryInv`, the group
and the cached copy of it are laid out as ScheduledApart requires, which a rollback keeps
because it only empties an entry; `PlaceInv`, a member volume is on a known node and
bound only while it exists; `HoldInv`, what the agent and the host hold are members.

**PodSchedulingProofs** (PodSchedulingAssumption): TypeCorrect, NoReservationLeaks
(`ReservationsOwned`) and PodHasItsVolumes (`VolumesLocal`), for every number of nodes,
Pods and claims. `CycleInv`: a Pod is in one cycle at most, and the claims of a Pod in a
cycle are in the cache or gone for good; without it the reservations of a bound Pod
would have no owner left. Which claims end in `missed` is decided by OnDelete alone, so
any number of failed look-ups is covered. `LocalInv`, while no cycle worked from an outdated copy: a
claim's selected-node is the node of its Pod's cycle (`SelectedInv`); when PreBind runs
first, the claims it is done with carry that node (`PatchedInv`); annotation and
selected-node agree (`AgreeInv`); host, hint and target of a volume are the
selected-node (`VolumeInv`). `AgreeInv` is where the two orders differ: with PreBind
first an annotation may precede the selected-node and be rewritten by a later attempt
on another node, with PreBind last it never differs. How much room the pools have plays
no part.

Only model-checked, and why:

- liveness (BecomesReady, DeletionCompletes, PodStarts, PodLeaves, MigrationFinishes,
  PoolComesBack, LockFollowsNode, LossNoticed, NodeGonePoolGone, LocalStorageReported)
  and ENABLED (NeverStuck) are out of the prover's reach.

All other properties of the passing runs are theorems.

## 5. Not modelled

- SPDK clones and their inflating, vfio-user targets, Kata volumes, local LVM volumes
  in the CSI node server (they connect nothing), and the layout of striped volumes over
  several PVs (only its rounding, as an inexact size).
- The score that orders nodes: any node that passes the filters may be chosen.
- The copy of CSINodePubParams into a group's members, which nothing reads back.
- Allowed hosts: any host may connect in the model.
- A claim in deletion that is still in use: claims go away as soon as they are deleted.
- SPDK watcher (`agent/pool/watcher.go`): its events lead to a log line and a report that
  the agent's period repeats.
- Scheduler extender: an older copy of the reconcilers that no command starts.
- Metadata sync: copies objects to database rows that nothing reads back.
- Runnable group: generic, and not specific to the system.
- Metrics, web API, command lines, webhooks, generated clients and deep copies: no state
  the rest depends on.
- Data races on Go slices and maps below the granularity of the locks.
