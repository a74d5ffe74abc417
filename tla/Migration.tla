----------------------------- MODULE Migration -----------------------------
(***************************************************************************)
(* The migration of a volume to another pool while a Pod uses it.  The     *)
(* controller's reconciler drives the VolumeMigration through its phases   *)
(* and creates the destination volume; the Disk-Agent of the source node   *)
(* attaches SPDK to the destination and runs the copy task; the host-nvme  *)
(* manager of the Pod's node connects the host to the destination, sees    *)
(* the I/O switch over, and disconnects the source.  The three know of     *)
(* each other only through the VolumeMigration object.                     *)
(*                                                                         *)
(* The agent and the host-nvme manager read the object, act, and then      *)
(* write it: an Update is refused when the object has changed meanwhile,   *)
(* and a crash can fall between the act and the write.  The reconciler     *)
(* writes nothing that is not refused when its cache is stale, and creates *)
(* the destination volume under a name saved before, so its pass is one    *)
(* action on the current object.                                           *)
(***************************************************************************)
EXTENDS Naturals

CONSTANTS
    Kinds,          \* source volumes: "spdk", "lvm", "mustLocal"
    MaxFaults       \* bound: passes cut, losses, a deletion

ASSUME MigrationAssumption == Kinds \subseteq {"spdk", "lvm", "mustLocal"} /\ MaxFaults \in Nat

VARIABLES
    kind,       \* of the source volume
    mig,        \* the VolumeMigration
    dest,       \* the destination volume
    attached,   \* the source node's SPDK has the destination as a bdev
    task,       \* the copy task of the source node's SPDK
    path,       \* the host's NVMe paths to the volume's subsystem
    held,       \* what the agent and the host-nvme manager have read
    broken,     \* a path or a target was lost
    faults

vars == <<kind, mig, dest, attached, task, path, held, broken, faults>>

Connect == {"no", "connected", "disconnected"}

Phases == {"", "pending", "creatingVolume", "setupPipe", "syncing", "cleaning", "finished"}

(* source, labelled, destName, destInfo: what the reconciler has filled in.
   pipeFinalizers, hostFinalizers: how often each finalizer is listed. *)
Object == [there : BOOLEAN, deleting : BOOLEAN, phase : Phases,
           status : {"", "working", "error", "finished"},
           source : BOOLEAN, labelled : BOOLEAN, destName : BOOLEAN, destInfo : BOOLEAN,
           pipe : Connect, host : Connect, enabled : BOOLEAN, success : BOOLEAN,
           pipeFinalizers : 0..1, hostFinalizers : 0..1]

NoTask == [there |-> FALSE, round |-> FALSE, autoSwitch |-> FALSE, done |-> FALSE]

NewObject == [there |-> TRUE, deleting |-> FALSE, phase |-> "", status |-> "",
              source |-> FALSE, labelled |-> FALSE, destName |-> FALSE, destInfo |-> FALSE,
              pipe |-> "no", host |-> "no", enabled |-> FALSE, success |-> FALSE,
              pipeFinalizers |-> 0, hostFinalizers |-> 0]

NothingRead == [NewObject EXCEPT !.there = FALSE]

Actors == {"agent", "host"}

(* The variables have their types; in particular neither finalizer is ever
   listed twice. *)
TypeOK ==
    /\ kind \in Kinds
    /\ mig \in Object
    /\ dest \in {"none", "created", "ready"}
    /\ attached \in BOOLEAN
    /\ task \in [there : BOOLEAN, round : BOOLEAN, autoSwitch : BOOLEAN, done : BOOLEAN]
    /\ path \in [src : {"none", "working", "degraded"}, dst : {"none", "standby", "working"}]
    /\ held \in [Actors -> Object]
    /\ broken \in BOOLEAN /\ faults \in 0..MaxFaults

Init ==
    /\ kind \in Kinds
    /\ mig = NewObject
    /\ dest = "none" /\ attached = FALSE /\ task = NoTask
    /\ path = [src |-> "working", dst |-> "none"]
    /\ held = [a \in Actors |-> NothingRead]
    /\ broken = FALSE /\ faults = 0

Fault == faults < MaxFaults /\ faults' = faults + 1

-----------------------------------------------------------------------------
(* The reconciler of the controller. *)

controllerOnly == <<kind, attached, task, path, held, broken, faults>>

(* Mutant: SetupPipe ends with the pipe, whether the host is connected or
   not. *)
PhaseDone_NoHost(m) ==
    CASE m.phase = "creatingVolume" -> m.destInfo
      [] m.phase = "setupPipe" -> m.pipe = "connected"
      [] m.phase = "syncing" -> m.success
      [] m.phase = "cleaning" -> m.pipe = "disconnected" /\ m.host = "disconnected"
      [] OTHER -> FALSE

(* What ends a phase. *)
PhaseDone(m) ==
    CASE m.phase = "creatingVolume" -> m.destInfo
      [] m.phase = "setupPipe" -> m.pipe = "connected" /\ m.host = "connected"
      [] m.phase = "syncing" -> m.success
      [] m.phase = "cleaning" -> m.pipe = "disconnected" /\ m.host = "disconnected"
      [] OTHER -> FALSE

Following(m) ==
    CASE m.phase = "creatingVolume" -> [m EXCEPT !.phase = "setupPipe"]
      [] m.phase = "setupPipe" -> [m EXCEPT !.phase = "syncing"]
      [] m.phase = "syncing" -> [m EXCEPT !.phase = "cleaning"]
      [] m.phase = "cleaning" -> [m EXCEPT !.phase = "finished", !.status = "finished"]

(* One pass of Reconcile writes at most one of these. *)
Reconcile ==
    /\ mig.there /\ ~mig.deleting /\ mig.status # "error"
    /\ \/ mig.phase = "" /\ mig' = [mig EXCEPT !.phase = "pending", !.status = "working"]
       \/ mig.phase # "" /\ kind # "spdk" /\ mig' = [mig EXCEPT !.status = "error"]
       \/ mig.phase # "" /\ kind = "spdk" /\ ~mig.source /\ mig' = [mig EXCEPT !.source = TRUE]
       \/ mig.source /\ ~mig.labelled /\ mig' = [mig EXCEPT !.labelled = TRUE]
       \/ mig.labelled /\ mig.phase = "pending" /\ mig' = [mig EXCEPT !.phase = "creatingVolume"]
       \/ mig.phase = "creatingVolume" /\ ~mig.destName /\ mig' = [mig EXCEPT !.destName = TRUE]
       \/ mig.destName /\ ~mig.destInfo /\ dest = "ready" /\ mig' = [mig EXCEPT !.destInfo = TRUE]
       \/ mig.destInfo /\ PhaseDone(mig) /\ mig' = Following(mig)
    /\ UNCHANGED <<controllerOnly, dest>>

CreateDest ==
    /\ mig.there /\ ~mig.deleting /\ mig.destName /\ dest = "none"
    /\ dest' = "created"
    /\ UNCHANGED <<controllerOnly, mig>>

(* The destination volume is scheduled, created and exposed, with the NQN and
   the namespace UUID of the source volume. *)
DestReady ==
    /\ dest = "created"
    /\ dest' = "ready"
    /\ UNCHANGED <<controllerOnly, mig>>

-----------------------------------------------------------------------------
(* A pass of the agent or of the host-nvme manager: Get, act, write. *)

(* Every change of the labelled object queues it. *)
Queued(a) == mig.there /\ mig.labelled /\ held[a] # mig

Read(a) ==
    /\ Queued(a) /\ ~mig.deleting
    /\ held' = [held EXCEPT ![a] = mig]
    /\ UNCHANGED <<kind, mig, dest, attached, task, path, broken, faults>>

(* Neither goes on before the destination volume is ready. *)
AgentReads == mig.destName /\ dest = "ready" /\ Read("agent")
HostReads == mig.destName /\ dest = "ready" /\ Read("host")

Over(a) == held' = [held EXCEPT ![a] = NothingRead]

(* The Update of what was read: refused when the object has changed. *)
Update(a, m) ==
    /\ Over(a)
    /\ \/ mig' = (IF mig = held[a] THEN m ELSE mig) /\ UNCHANGED faults
       \/ UNCHANGED mig /\ Fault

(* The merge patch is not refused. *)
Patch(a, m) ==
    /\ Over(a)
    /\ \/ mig' = (IF mig.there THEN m ELSE mig) /\ UNCHANGED faults
       \/ UNCHANGED mig /\ Fault

(* Mutant: attaching a controller that is there is an error. *)
EnsureMigrationDestBdev_NotIdempotent(was) == IF was THEN {} ELSE {TRUE}

(* What can come of EnsureMigrationDestBdev: it finds the controller attached,
   or attaches it. *)
EnsureMigrationDestBdev(was) == IF was THEN {was} ELSE {TRUE}

(* Mutant: the pipe is set up whenever the phase is SetupPipe. *)
PipeMissing_Phase(m) == m.phase = "setupPipe"

PipeMissing(m) == m.phase = "setupPipe" /\ m.pipe = "no"

AgentSetupPipe ==
    /\ PipeMissing(held["agent"])
    /\ attached' \in EnsureMigrationDestBdev(attached)
    /\ Update("agent", [held["agent"] EXCEPT !.pipe = "connected",
                                            !.pipeFinalizers = @ + 1])
    /\ UNCHANGED <<kind, dest, task, path, broken>>

(* The tasks of the source bdev that SPDK answers. *)
GetMigrationTask == {t \in {task} : t.there}

(* bdev_migrate_start, which needs both bdevs. *)
StartMigrationTask == attached /\ task' = [NoTask EXCEPT !.there = TRUE]

AgentStartTask ==
    /\ held["agent"].phase = "syncing"
    /\ GetMigrationTask = {}
    /\ StartMigrationTask
    /\ Over("agent")
    /\ UNCHANGED <<kind, mig, dest, attached, path, broken, faults>>

SetMigrationConfig(auto) == task' = [task EXCEPT !.autoSwitch = auto]

(* Once a round of copying is over. *)
AgentEnableAutoSwitch ==
    /\ held["agent"].phase = "syncing"
    /\ \E t \in GetMigrationTask : t.round
    /\ ~held["agent"].enabled
    /\ SetMigrationConfig(TRUE)
    /\ Patch("agent", [mig EXCEPT !.enabled = TRUE, !.success = FALSE])
    /\ UNCHANGED <<kind, dest, attached, path, broken>>

(* Both are no errors for what is not there. *)
CleanMigrationTask == task' = NoTask

DetachMigrationDestBdev == attached' = FALSE

(* The task is cleaned and then the bdev detached, or the pass fails between
   the two. *)
AgentClean ==
    /\ held["agent"].phase = "cleaning"
    /\ held["agent"].pipe = "connected"
    /\ CleanMigrationTask
    /\ \/ /\ DetachMigrationDestBdev
          /\ Update("agent", [held["agent"] EXCEPT !.pipe = "disconnected", !.pipeFinalizers = 0])
       \/ UNCHANGED <<attached, mig>> /\ Over("agent") /\ Fault
    /\ UNCHANGED <<kind, dest, path, broken>>

(* nvme list-subsys: the controllers the host has a path to. *)
ListSubsystems(p) == {side \in DOMAIN p : p[side] # "none"}

HostConnects ==
    /\ held["host"].phase = "setupPipe"
    /\ held["host"].host # "connected"
    /\ path' = IF "dst" \in ListSubsystems(path) THEN path ELSE [path EXCEPT !.dst = "standby"]
    /\ Update("host", [held["host"] EXCEPT !.host = "connected",
                                          !.hostFinalizers = @ + 1])
    /\ UNCHANGED <<kind, dest, attached, task, broken>>

HostSeesSwitch ==
    /\ held["host"].phase = "syncing"
    /\ held["host"].enabled /\ ~held["host"].success
    /\ path.dst = "working"
    /\ Update("host", [held["host"] EXCEPT !.success = TRUE])
    /\ UNCHANGED <<kind, dest, attached, task, path, broken>>

(* Mutant: a source path that still works is left to itself. *)
SourcePathWaits_Never(p) == FALSE

(* Both paths are there and the kernel still holds the source for good. *)
SourcePathWaits(p) == ListSubsystems(p) = {"src", "dst"} /\ p.src = "working"

HostDisconnects ==
    /\ held["host"].phase = "cleaning"
    /\ held["host"].host = "connected"
    /\ ~SourcePathWaits(path)
    /\ path' = IF ListSubsystems(path) = {"src", "dst"} /\ path.src = "degraded"
               THEN [path EXCEPT !.src = "none"] ELSE path
    /\ Update("host", [held["host"] EXCEPT !.host = "disconnected", !.hostFinalizers = 0])
    /\ UNCHANGED <<kind, dest, attached, task, broken>>

(* Nothing to do, or to wait for something: the pass ends. *)
PassEnds(a) ==
    /\ held[a].there
    /\ Over(a)
    /\ UNCHANGED <<kind, mig, dest, attached, task, path, broken, faults>>

AgentStep == AgentSetupPipe \/ AgentStartTask \/ AgentEnableAutoSwitch \/ AgentClean

HostStep == HostConnects \/ HostSeesSwitch \/ HostDisconnects

-----------------------------------------------------------------------------
(* SPDK and the host's kernel. *)

TaskRound ==
    /\ task.there /\ ~task.round
    /\ task' = [task EXCEPT !.round = TRUE]
    /\ UNCHANGED <<kind, mig, dest, attached, path, held, broken, faults>>

(* The last round is over: SPDK makes the destination the path to use.  A
   host without that path has none then. *)
TaskSwitches ==
    /\ task.there /\ task.round /\ task.autoSwitch /\ ~task.done
    /\ task' = [task EXCEPT !.done = TRUE]
    /\ path' = IF path.dst = "standby" THEN [path EXCEPT !.dst = "working"]
               ELSE [path EXCEPT !.src = IF @ = "working" THEN "degraded" ELSE @]
    /\ UNCHANGED <<kind, mig, dest, attached, held, broken, faults>>

(* The host's kernel hears that the source is no longer the path to use. *)
SourceDegrades ==
    /\ path.dst = "working" /\ path.src = "working"
    /\ path' = [path EXCEPT !.src = "degraded"]
    /\ UNCHANGED <<kind, mig, dest, attached, task, held, broken, faults>>

(* The connection of the host to the destination is lost and given up. *)
PathLost ==
    /\ path.dst # "none"
    /\ path' = [path EXCEPT !.dst = "none"]
    /\ broken' = TRUE /\ Fault
    /\ UNCHANGED <<kind, mig, dest, attached, task, held>>

(* The SPDK of the source node restarts: task, pipe and target are gone. *)
SourceSpdkRestarts ==
    /\ task' = NoTask /\ attached' = FALSE
    /\ path' = [path EXCEPT !.src = "none"]
    /\ broken' = TRUE /\ Fault
    /\ UNCHANGED <<kind, mig, dest, held>>

(* None of the three handles a deletion. *)
DeleteMigration ==
    /\ mig.there /\ ~mig.deleting
    /\ mig' = IF mig.pipeFinalizers + mig.hostFinalizers = 0
              THEN [mig EXCEPT !.there = FALSE]
              ELSE [mig EXCEPT !.deleting = TRUE]
    /\ Fault
    /\ UNCHANGED <<kind, dest, attached, task, path, held, broken>>

Next ==
    \/ Reconcile \/ CreateDest \/ DestReady
    \/ AgentReads \/ HostReads
    \/ \E a \in Actors : PassEnds(a)
    \/ AgentStep \/ HostStep
    \/ TaskRound \/ TaskSwitches \/ SourceDegrades
    \/ PathLost \/ SourceSpdkRestarts \/ DeleteMigration

Spec == Init /\ [][Next]_vars

(* Every waiting pass comes back after its RequeueAfter, a failed one is
   queued again, and the copy makes progress.  A pass may find nothing to do
   again and again before it finds something: strong fairness. *)
FairSpec ==
    /\ Spec
    /\ WF_vars(Reconcile) /\ WF_vars(CreateDest) /\ WF_vars(DestReady)
    /\ WF_vars(AgentReads \/ PassEnds("agent")) /\ WF_vars(HostReads \/ PassEnds("host"))
    /\ SF_vars(AgentStep) /\ SF_vars(HostStep)
    /\ WF_vars(TaskRound) /\ WF_vars(TaskSwitches) /\ WF_vars(SourceDegrades)

-----------------------------------------------------------------------------
(* The host always has a path to use, unless one was lost by itself: SPDK
   switches over only when the host is connected to the destination, and the
   source is disconnected only when the destination works.  Two components
   that never talk to each other keep this through the object's phases. *)
NeverStranded == ~broken => path.src = "working" \/ path.dst = "working"

(* A finished migration leaves no task, no attached controller and no path to
   the source behind, and no finalizer that would keep the object, whatever
   passes were cut and writes refused. *)
CleanEnd ==
    mig.phase = "finished" =>
        /\ ~task.there /\ ~attached
        /\ broken \/ path = [src |-> "none", dst |-> "working"]
        /\ mig.pipeFinalizers = 0 /\ mig.hostFinalizers = 0

(* A migration that is not deleted, of a volume that can be migrated, comes
   to its end unless a path or a target is lost. *)
MigrationFinishes ==
    <>[](mig.there /\ ~mig.deleting /\ ~broken /\ kind = "spdk") => <>(mig.phase = "finished")

=============================================================================
