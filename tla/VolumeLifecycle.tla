-------------------------- MODULE VolumeLifecycle --------------------------
(***************************************************************************)
(* The life of one AntstorVolume, from the CSI controller's Create to the  *)
(* removal of its last finalizer: the API object, the Disk-Controller's    *)
(* volume reconciler with its State and its informer cache, and the        *)
(* Disk-Agents, which create and remove the logical volume and the SPDK    *)
(* target that back it.                                                    *)
(*                                                                         *)
(* The controller reads the volume from a cache that lags behind the API   *)
(* server.  Update carries the resource version it read and is refused     *)
(* when the object has changed since; Patch carries none and is applied to *)
(* whatever the object is by then.  An agent reads the object afresh, acts *)
(* on the node's storage and then calls Update.                            *)
(*                                                                         *)
(* A reconcile is one action: the worker's copy is as stale as the cache   *)
(* it came from, nobody else reads the State meanwhile, and a crash after  *)
(* the change to the State loses that change.  Any API call may fail.      *)
(***************************************************************************)
EXTENDS Integers, Sequences, FiniteSets

CONSTANTS
    Nodes,          \* nodes with a StoragePool and a Disk-Agent
    None,           \* no node, no object
    HostNode,       \* Spec.HostNode.ID: where the Pod runs
    SpdkMode,       \* nodes whose pool is in SpdkLVStore mode; the others use LVM
    Exact,          \* nodes where the logical volume gets the size asked for: a striped
                    \* one is rounded down to the stripe unit
    NewVolumes,     \* the objects that CSI and the volume group reconciler create
    Flaky,          \* nodes whose pool may be marked not ready while they are alive
    Failing,        \* nodes that may fail for good
    MaxLag,         \* bound: versions of the object the cache has not seen
    MaxFaults       \* bound: crashes of the controller and the agents

Finalizers == {"in-state", "logic-volume", "spdk-tgt"}

(* The fields of the AntstorVolume that decide who does what.  The label
   obnvmf/target-node-id, once set, holds Spec.TargetNodeId. *)
Volume == [uuidLabel : BOOLEAN, status : {"", "creating", "ready"},
           target : Nodes \cup {None}, targetLabel : BOOLEAN, flexible : BOOLEAN,
           spdkTarget : BOOLEAN, finalizers : SUBSET Finalizers, deleting : BOOLEAN]

(* A volume as it is created: the API server drops the status. *)
NewVolume(uuidLabel, flexible) ==
    [uuidLabel |-> uuidLabel, status |-> "", target |-> None, targetLabel |-> FALSE,
     flexible |-> flexible, spdkTarget |-> FALSE, finalizers |-> {}, deleting |-> FALSE]

ASSUME LifecycleAssumption ==
    /\ None \notin Nodes /\ None \notin Volume
    /\ SpdkMode \subseteq Nodes /\ Exact \subseteq Nodes
    /\ Flaky \subseteq Nodes /\ Failing \subseteq Nodes
    /\ \A o \in NewVolumes : \E u, f \in BOOLEAN : o = NewVolume(u, f)
    /\ MaxLag \in Nat \ {0} /\ MaxFaults \in Nat

VARIABLES
    obj,        \* the object in the API server, or None
    created,    \* it has been created
    aged,       \* 20 minutes have passed since its deletion timestamp
    cache,      \* the controller's informer cache
    feed,       \* versions the cache has yet to receive
    inNode,     \* nodes of the State whose Volumes hold it
    volIDMap,   \* the State's index entry
    ready,      \* pools whose status is ready
    down,       \* nodes that failed
    agt,        \* the copy each agent works on, and how far it is
    lv,         \* nodes with a logical volume of its name
    access,     \* nodes with an SPDK target that exposes it
    held,       \* history: it has carried the in-state finalizer
    faults      \* crashes so far

api == <<obj, created, aged, held>>
state == <<inNode, volIDMap>>
storage == <<lv, access>>
pools == <<ready, down>>
vars == <<api, cache, feed, state, pools, agt, storage, faults>>

Resting == [pc |-> "idle", copy |-> None]

(* Types; an agent that is at work holds the copy it read. *)
TypeOK ==
    /\ obj \in Volume \cup {None} /\ cache \in Volume \cup {None}
    /\ created \in BOOLEAN /\ aged \in BOOLEAN /\ held \in BOOLEAN
    /\ feed \in Seq(Volume \cup {None}) /\ Len(feed) <= MaxLag
    /\ inNode \subseteq Nodes /\ volIDMap \in Nodes \cup {None}
    /\ ready \subseteq Nodes /\ down \subseteq Nodes
    /\ agt \in [Nodes -> [pc : {"idle", "act", "write"}, copy : Volume \cup {None}]]
    /\ \A n \in Nodes : agt[n].pc # "idle" => agt[n].copy # None
    /\ lv \subseteq Nodes /\ access \subseteq Nodes
    /\ faults \in 0..MaxFaults

Init ==
    /\ obj = None /\ cache = None /\ feed = <<>>
    /\ created = FALSE /\ aged = FALSE /\ held = FALSE
    /\ inNode = {} /\ volIDMap = None
    /\ ready = Nodes /\ down = {}
    /\ agt = [n \in Nodes |-> Resting]
    /\ lv = {} /\ access = {}
    /\ faults = 0

-----------------------------------------------------------------------------
(* The API server. *)

(* An object without finalizers goes away once it is marked for deletion. *)
Settle(o) == IF o.deleting /\ o.finalizers = {} THEN None ELSE o

(* o is stored and reaches the watchers; writing what is there already
   makes no new version. *)
Publish(o) ==
    LET new == Settle(o) IN
    IF new = obj THEN UNCHANGED <<obj, held, feed>>
    ELSE /\ Len(feed) < MaxLag
         /\ obj' = new
         /\ feed' = Append(feed, new)
         /\ held' = (held \/ "in-state" \in o.finalizers)

Refused == UNCHANGED <<obj, held, feed>>

(* Update of the copy c to o.  A volume never returns to an earlier content
   while a copy of that content is held, so equality of contents stands for
   equality of resource versions. *)
Update(c, o) == \/ obj = c /\ Publish(o)
                \/ Refused

(* Patch, with o what the merge patch makes of the current object.  No
   finalizer can be added to an object that is being deleted. *)
Patch(o) ==
    \/ /\ obj # None
       /\ obj.deleting => o.finalizers \subseteq obj.finalizers
       /\ Publish(o)
    \/ Refused

(* The CSI controller's CreateVolume and DeleteVolume. *)
Create(o) ==
    /\ ~created
    /\ created' = TRUE
    /\ Publish(o)
    /\ UNCHANGED <<aged, cache, state, pools, agt, storage, faults>>

Delete ==
    /\ obj # None /\ ~obj.deleting
    /\ Publish([obj EXCEPT !.deleting = TRUE])
    /\ UNCHANGED <<created, aged, cache, state, pools, agt, storage, faults>>

Age ==
    /\ obj # None /\ obj.deleting
    /\ aged' = TRUE
    /\ UNCHANGED <<obj, created, held, cache, feed, state, pools, agt, storage, faults>>

-----------------------------------------------------------------------------
(* The controller's informer and the State. *)

Bind(n) == inNode' = inNode \cup {n} /\ volIDMap' = n

UnbindAntstorVolume ==
    /\ inNode' = inNode \ {volIDMap}
    /\ volIDMap' = None

(* The watch delivers the next version.  A volume is created without a target,
   so VolumeEventHandler.Create has nothing to bind then. *)
Deliver ==
    /\ feed # <<>>
    /\ cache' = Head(feed)
    /\ feed' = Tail(feed)
    /\ UNCHANGED <<api, state, pools, agt, storage, faults>>

(* Mutant: the Create event of the initial list binds nothing. *)
RestartController_NoBind ==
    /\ faults < MaxFaults
    /\ faults' = faults + 1
    /\ cache' = obj /\ feed' = <<>>
    /\ inNode' = {} /\ volIDMap' = None
    /\ UNCHANGED <<api, pools, agt, storage>>

(* A new controller process: the State is empty, the informer lists the volume
   and VolumeEventHandler.Create binds it unless it is being deleted. *)
RestartController ==
    LET bound == obj # None /\ obj.target # None /\ ~obj.deleting IN
    /\ faults < MaxFaults
    /\ faults' = faults + 1
    /\ cache' = obj /\ feed' = <<>>
    /\ inNode' = IF bound THEN {obj.target} ELSE {}
    /\ volIDMap' = IF bound THEN obj.target ELSE None
    /\ UNCHANGED <<api, pools, agt, storage>>

-----------------------------------------------------------------------------
(* The volume reconciler, for the volume in the cache. *)

untouched == <<created, aged, cache, pools, agt, storage, faults>>

(* validateAndMutate, up to the bind; each write ends the reconcile. *)
AddUuidLabel ==
    /\ ~cache.deleting /\ ~cache.uuidLabel
    /\ Patch([obj EXCEPT !.uuidLabel = TRUE])
    /\ UNCHANGED <<state, untouched>>

InitStatus ==
    /\ ~cache.deleting /\ cache.uuidLabel /\ cache.status = ""
    /\ Update(cache, [cache EXCEPT !.status = "creating"])
    /\ UNCHANGED <<state, untouched>>

Validated == ~cache.deleting /\ cache.uuidLabel /\ cache.status # ""

(* Mutant: the label is left to the patch that schedules the volume. *)
BindTarget_NoLabel ==
    /\ Validated /\ cache.target # None
    /\ Bind(cache.target)
    /\ IF "in-state" \in cache.finalizers THEN Refused
       ELSE Patch([obj EXCEPT !.finalizers = cache.finalizers \cup {"in-state"}])
    /\ UNCHANGED untouched

(* validateAndMutate of a volume with a target: bind it, then add the label
   and the finalizer.  The patch replaces the list of finalizers by the cached
   one and in-state; it names the list only when it was changed. *)
BindTarget ==
    /\ Validated /\ cache.target # None
    /\ Bind(cache.target)
    /\ IF cache.targetLabel /\ "in-state" \in cache.finalizers THEN Refused
       ELSE Patch([obj EXCEPT
                !.targetLabel = TRUE,
                !.finalizers = IF "in-state" \in cache.finalizers THEN @
                               ELSE cache.finalizers \cup {"in-state"}])
    /\ UNCHANGED untouched

(* scheduleVolume of a volume that the State holds already. *)
PersistBinding ==
    /\ Validated /\ cache.target = None
    /\ volIDMap # None
    /\ Update(cache, [cache EXCEPT !.target = volIDMap])
    /\ UNCHANGED <<state, untouched>>

(* Mutant: scheduleVolume does not ask the State first. *)
Schedule_NotInState(n) ==
    /\ Validated /\ cache.target = None
    /\ n \in ready
    /\ Bind(n)
    /\ Patch([obj EXCEPT !.target = n, !.targetLabel = TRUE])
    /\ UNCHANGED untouched

(* scheduleVolume: the scheduler's choice is bound, then patched in. *)
Schedule(n) ==
    /\ Validated /\ cache.target = None
    /\ volIDMap = None
    /\ n \in ready
    /\ Bind(n)
    /\ Patch([obj EXCEPT !.target = n, !.targetLabel = TRUE])
    /\ UNCHANGED untouched

(* Mutant: a volume that the State does not hold is an error. *)
FinishDeletion_ErrorReturned ==
    /\ cache.deleting /\ cache.finalizers = {"in-state"}
    /\ volIDMap # None
    /\ UnbindAntstorVolume
    /\ Update(cache, [cache EXCEPT !.finalizers = {}])
    /\ UNCHANGED untouched

(* handleDeletion, case 1: only the in-state finalizer is left.  That the State
   does not hold the volume is no reason to stop. *)
FinishDeletion ==
    /\ cache.deleting /\ cache.finalizers = {"in-state"}
    /\ UnbindAntstorVolume
    /\ Update(cache, [cache EXCEPT !.finalizers = {}])
    /\ UNCHANGED untouched

(* handleDeletion, case 3: the node does not answer.  The finalizers removed
   are those of LVM ("antstor.alipay.com/lvm") and of the SPDK target; the one
   the agent adds for a logical volume is another. *)
StripFinalizers ==
    /\ cache.deleting /\ Cardinality(cache.finalizers) > 1
    /\ aged /\ cache.target \notin ready
    /\ Update(cache, [cache EXCEPT !.finalizers = @ \ {"lvm", "spdk-tgt"}])
    /\ UNCHANGED <<state, untouched>>

Reconcile ==
    /\ cache # None
    /\ \/ AddUuidLabel \/ InitStatus
       \/ BindTarget \/ PersistBinding \/ \E n \in Nodes : Schedule(n)
       \/ FinishDeletion \/ StripFinalizers

-----------------------------------------------------------------------------
(* The Disk-Agent of node n: syncOneVolume. *)

(* createOpenAccess skips a local LVM volume. *)
NeedsAccess(n) == n \in SpdkMode \/ n # HostNode

(* handleDeletion: the target, then the logical volume. *)
DeletionPlan(c) ==
    IF "spdk-tgt" \in c.finalizers THEN "removeAccess"
    ELSE IF "logic-volume" \in c.finalizers THEN "deleteVolume"
    ELSE IF c.spdkTarget THEN "removeLeftAccess" ELSE "nothing"

(* The pass over a volume that is not ready: each step ends in a write. *)
CreationPlan(n, c) ==
    IF c.status = "ready" THEN "nothing"
    ELSE IF c.flexible THEN "updateVolumeType"
    ELSE IF "logic-volume" \notin c.finalizers THEN "createVolume"
    ELSE IF NeedsAccess(n) /\ "spdk-tgt" \notin c.finalizers THEN "createOpenAccess"
    ELSE "setReady"

(* What syncOneVolume does with the copy c it read, before its write. *)
Plan(n, c) ==
    IF "in-state" \notin c.finalizers THEN "nothing"
    ELSE IF c.deleting THEN DeletionPlan(c) ELSE CreationPlan(n, c)

(* Mutant: the finalizer of old LVM volumes for a new logical volume. *)
Intent_OldFinalizer(n, c) ==
    IF Plan(n, c) = "createVolume" THEN [c EXCEPT !.finalizers = @ \cup {"lvm"}] ELSE c

(* The object that the sync then asks the API server to store. *)
Intent(n, c) ==
    CASE Plan(n, c) = "removeAccess" -> [c EXCEPT !.finalizers = @ \ {"spdk-tgt"}]
      [] Plan(n, c) = "deleteVolume" -> [c EXCEPT !.finalizers = @ \ {"logic-volume"}]
      [] Plan(n, c) = "updateVolumeType" -> [c EXCEPT !.flexible = FALSE]
      [] Plan(n, c) = "createVolume" -> [c EXCEPT !.finalizers = @ \cup {"logic-volume"}]
      [] Plan(n, c) = "createOpenAccess" ->
            [c EXCEPT !.spdkTarget = TRUE, !.finalizers = @ \cup {"spdk-tgt"}]
      [] Plan(n, c) = "setReady" -> [c EXCEPT !.status = "ready"]
      [] OTHER -> c

agentOnly == <<api, cache, feed, state, pools, faults>>

(* The key of a volume labelled with the node is queued; the object is read.
   A sync that finds nothing to do changes nothing. *)
SyncGet(n) ==
    /\ n \notin down /\ agt[n].pc = "idle"
    /\ obj # None /\ obj.targetLabel /\ obj.target = n
    /\ Plan(n, obj) # "nothing"
    /\ agt' = [agt EXCEPT ![n] = [pc |-> "act", copy |-> obj]]
    /\ UNCHANGED <<agentOnly, storage>>

Acts(n, op) ==
    /\ n \notin down
    /\ agt[n].pc = "act" /\ Plan(n, agt[n].copy) = op
    /\ agt' = [agt EXCEPT ![n].pc = "write"]
    /\ UNCHANGED agentOnly

(* Mutant: the finalizer is written without creating the logical volume. *)
CreateVolume_Skipped(n) ==
    /\ Acts(n, "createVolume")
    /\ UNCHANGED storage

(* PoolEngine().CreateVolume: an existing volume of the name and size is kept. *)
CreateVolume(n) ==
    /\ n \in lv => n \in Exact
    /\ Acts(n, "createVolume")
    /\ lv' = lv \cup {n}
    /\ UNCHANGED access

(* An existing one of another size is an error; the sync is tried again. *)
CreateVolumeMismatch(n) ==
    /\ n \in lv \ Exact /\ n \notin down
    /\ agt[n].pc = "act" /\ Plan(n, agt[n].copy) = "createVolume"
    /\ agt' = [agt EXCEPT ![n] = Resting]
    /\ UNCHANGED <<agentOnly, storage>>

CreateOpenAccess(n) ==
    /\ Acts(n, "createOpenAccess")
    /\ access' = access \cup {n}
    /\ UNCHANGED lv

UpdateOnly(n) ==
    /\ Acts(n, "updateVolumeType") \/ Acts(n, "setReady")
    /\ UNCHANGED storage

(* handleDeletion removes the target first, in a sync of its own while the
   finalizer of the target is there, and else before the logical volume. *)
RemoveAccess(n) ==
    /\ Acts(n, "removeAccess") \/ Acts(n, "removeLeftAccess")
    /\ access' = access \ {n}
    /\ UNCHANGED lv

DeleteVolume(n) ==
    /\ Acts(n, "deleteVolume")
    /\ access' = IF agt[n].copy.spdkTarget THEN access \ {n} ELSE access
    /\ lv' = lv \ {n}

(* The Update or UpdateStatus that ends the sync, or its conflict. *)
SyncUpdate(n) ==
    /\ n \notin down /\ agt[n].pc = "write"
    /\ agt' = [agt EXCEPT ![n] = Resting]
    /\ IF obj = agt[n].copy THEN Publish(Intent(n, agt[n].copy)) ELSE Refused
    /\ UNCHANGED <<created, aged, cache, state, pools, storage, faults>>

(* The sync fails or the agent restarts: the key is queued again. *)
AgentCrash(n) ==
    /\ agt[n].pc # "idle" /\ faults < MaxFaults
    /\ faults' = faults + 1
    /\ agt' = [agt EXCEPT ![n] = Resting]
    /\ UNCHANGED <<api, cache, feed, state, pools, storage>>

AgentStep(n) ==
    \/ SyncGet(n) \/ CreateVolume(n) \/ CreateVolumeMismatch(n)
    \/ CreateOpenAccess(n) \/ UpdateOnly(n) \/ RemoveAccess(n) \/ DeleteVolume(n) \/ SyncUpdate(n)

-----------------------------------------------------------------------------
(* Nodes, and the pool status that the heartbeat check keeps. *)

NodeFail(n) ==
    /\ n \in Failing \ down
    /\ down' = down \cup {n}
    /\ agt' = [agt EXCEPT ![n] = Resting]
    /\ UNCHANGED <<api, cache, feed, state, ready, storage, faults>>

MarkNotReady(n) ==
    /\ n \in (Flaky \cup down) \cap ready
    /\ ready' = ready \ {n}
    /\ UNCHANGED <<api, cache, feed, state, down, agt, storage, faults>>

MarkReady(n) ==
    /\ n \notin ready \cup down
    /\ ready' = ready \cup {n}
    /\ UNCHANGED <<api, cache, feed, state, down, agt, storage, faults>>

Environment ==
    \/ \E o \in NewVolumes : Create(o)
    \/ Delete
    \/ Age
    \/ RestartController
    \/ \E n \in Nodes : AgentCrash(n) \/ NodeFail(n) \/ MarkNotReady(n) \/ MarkReady(n)

Next ==
    \/ Environment
    \/ Deliver
    \/ Reconcile
    \/ \E n \in Nodes : AgentStep(n)

Spec == Init /\ [][Next]_vars

(* Queues deliver, a failed reconcile or sync is queued again, and a failure
   to reach the API server does not last; time passes and heartbeats are
   checked.  Nobody has to create or to delete a volume. *)
Fairness ==
    /\ WF_vars(Deliver)
    /\ WF_vars(Reconcile)
    /\ WF_vars(Age)
    /\ \A n \in Nodes : WF_vars(AgentStep(n)) /\ WF_vars(MarkNotReady(n) /\ n \in down)
    /\ \A n \in Nodes : WF_vars(MarkReady(n))

FairSpec == Spec /\ Fairness

-----------------------------------------------------------------------------
(* The volume as the contract sees it. *)
phase ==
    IF ~created THEN "absent" ELSE IF obj = None THEN "gone"
    ELSE IF obj.deleting THEN "deleting"
    ELSE IF obj.status = "ready" THEN "ready" ELSE "requested"
place == IF obj = None THEN None ELSE obj.target

C == INSTANCE VolumeContract WITH counted <- inNode, admitted <- held

(* Whatever the cache, the State and a restarted controller believe, the volume
   keeps to VolumeContract: it is placed once (scheduleVolume asks the State
   before it schedules), counted on that pool alone from its admission to its
   deletion, and an admitted volume leaves the State before it leaves the API
   server (validateAndMutate, scheduleVolume, handleDeletion). *)
Contract == C!Spec

(* The scheduler never takes for free the space of a logical volume that is in
   use: while a volume with a logical volume is not being deleted, the State
   counts it on that node, across controller restarts (in-state is added
   after the bind, and the agent waits for it). *)
LiveVolumeCounted ==
    obj # None /\ ~obj.deleting => lv \subseteq inNode

(* A volume that is reported ready has its logical volume and, where the host
   needs one, its target (CSI connects as soon as the status says so). *)
ReadyIsBacked ==
    obj # None /\ ~obj.deleting /\ obj.status = "ready" =>
        /\ obj.target \in lv
        /\ NeedsAccess(obj.target) => obj.target \in access

(* A created volume is ready at last, unless it is deleted first: lost
   conflicts, stale patches that drop the agent's finalizers and crashes
   delay it and never block it.  Two things do: its node fails, or a logical
   volume of another size than asked for is on the node already. *)
BecomesReady ==
    created ~> \/ obj = None \/ obj.deleting \/ obj.status = "ready"
               \/ obj.target \in down \/ obj.target \in lv \ Exact

(* A deleted volume is gone at last, unless its node failed (handleDeletion of
   the reconciler and of the agent, each waiting for the other). *)
DeletionCompletes ==
    (obj # None /\ obj.deleting) ~> (obj = None \/ obj.target \in down)

(* "The Disk-Agent recycles all the resources of the volume and cleans
   AntstorVolume's finalizers" (doc/en/components.md:53): once the object is
   gone and no sync is under way, neither a logical volume nor a target is
   left. *)
DeletedVolumeRecycled ==
    created /\ obj = None /\ (\A n \in Nodes : agt[n].pc = "idle") =>
        lv = {} /\ access = {}

(* "Reconciler should figure out and delete finalizers" when 20 minutes have
   passed since the deletion and the pool is not ready
   (volume_reconciler.go:144-150): a deleted volume of a failed node goes
   away. *)
NodeFailureDeletionCompletes ==
    (obj # None /\ obj.deleting /\ obj.target \in down) ~> (obj = None)

=============================================================================
