----------------------------- MODULE PoolHealth -----------------------------
(* The life of one node's storage pool: the agent registers it, reports its
   conditions and renews its lease; the controller's pool reconciler with its
   plugins turns heartbeat, node labels and node deletion into the pool status
   the scheduler goes by, and lets the pool go when its node is gone.  One remote
   volume may be placed on the pool.

   The controller reads the pool, the node and the volume from informer caches
   that may lag, and the lease and (in a report) the node from the API server; the
   agent reads the API server.  An Update that carries a stale version is refused,
   a Patch is not.  reportLocal tells the two programs the reconcilers are linked
   into apart: node-disk-controller registers ReportLocalStoragePlugin, the
   scheduler-plugin does not. *)
EXTENDS Integers

CONSTANTS
  Capacity,    (* bytes of the pool, in units of the volume's size *)
  MaxEvents    (* bound: failures of node, agent, SPDK, LVM and controller, admin acts,
                  placements *)

ASSUME PoolHealthAssumption == Capacity \in Nat \ {0} /\ MaxEvents \in Nat

None == -1
NoPool == [ex |-> FALSE, del |-> FALSE, fin |-> FALSE, spec |-> FALSE, cap |-> FALSE,
           status |-> "", spdk |-> "none", kube |-> "none", mark |-> None]
NoLease == [ex |-> FALSE, age |-> "fresh", orphan |-> FALSE]
NotInState == [in |-> FALSE, status |-> "", mark |-> None, vols |-> FALSE]
NoAgent == [up |-> FALSE, lease |-> FALSE, kube |-> "none"]
Idle == [pc |-> "idle", out |-> FALSE, age |-> "fresh"]

VARIABLES
  reportLocal, (* ReportLocalStoragePlugin is registered *)
  node,        (* the Kubernetes Node: exists, matches LockSchedCfg, sds/local-storage *)
  sp,          (* StoragePool at the API server *)
  lease,       (* Lease of the agent; age fresh, lost (3 min), offline (24 h) *)
  seen,        (* the controller's caches: pool, node, volume *)
  st,          (* the node's entry in the controller's State: status and local-storage
                  mark of its pool copy, volume bound *)
  pass,        (* a pass over the pool after saveToState: about to read the lease or to
                  act on the age it read; its copy of the pool was not ready *)
  removing,    (* handleDeletion found no volume and is about to remove the entry *)
  relist,      (* the volume informer has not delivered yet after a restart *)
  vol,         (* the volume: none, binding (in memory), bound (at the API server), gone *)
  spdk,        (* the SPDK target answers *)
  agt,         (* agent: running, cached Lease, own copy of the KubeNode condition *)
  missed,      (* the last report on the Node failed, after its mark was saved *)
  events       (* of these so far *)

vars == <<reportLocal, node, sp, lease, seen, st, pass, removing, relist, vol, spdk, agt,
          missed, events>>
ctl == <<seen, st, pass, removing, relist, vol, missed>>

Init ==
  /\ reportLocal \in BOOLEAN
  /\ node = [ex |-> TRUE, off |-> FALSE, res |-> None]
  /\ sp = NoPool /\ lease = NoLease
  /\ seen = [sp |-> NoPool, node |-> node, vol |-> FALSE]
  /\ st = NotInState /\ pass = Idle /\ removing = FALSE /\ relist = FALSE
  /\ vol = "none" /\ spdk = TRUE /\ agt = [NoAgent EXCEPT !.up = TRUE]
  /\ missed = FALSE /\ events = 0

Condition(b) == IF b THEN "ok" ELSE "error"

(* The default of Status.Status in the StoragePool CRD: a status written without
   the field is stored as ready. *)
Stored(s) == IF s.status = "" THEN [s EXCEPT !.status = "ready"] ELSE s

(* Marking a pool deleted; it goes at once when it has no finalizer. *)
Deleted(s) == IF s.fin THEN [s EXCEPT !.del = TRUE] ELSE NoPool

(* The Lease is owned by the pool; without it, it is an orphan. *)
Owned(s) == IF s.ex THEN lease ELSE [lease EXCEPT !.orphan = lease.ex]

Happens == events < MaxEvents /\ events' = events + 1

-----------------------------------------------------------------------------
(* The agent. *)

(* The Node of the agent, read at the API server. *)
GetByNodeID == node.ex

(* syncPool: register the pool if there is none, otherwise take over what the
   API server says of it and write the spec.  When the pool engine or the node
   cannot be read the spec is still written, empty. *)
SyncPool ==
  /\ agt.up
  /\ \E ok \in BOOLEAN :
       LET good == ok /\ GetByNodeID
       IN  /\ ok \/ events < MaxEvents
           /\ events' = IF ok THEN events ELSE events + 1
           /\ IF sp.ex THEN /\ sp' = [sp EXCEPT !.spec = good]
                            /\ agt' = [agt EXCEPT !.kube = sp.kube]
              ELSE /\ sp' = IF good THEN [NoPool EXCEPT !.ex = TRUE, !.spec = TRUE] ELSE sp
                   /\ agt' = agt
  /\ UNCHANGED <<reportLocal, node, lease, ctl, spdk>>

(* updatePoolStatus, every 2 minutes and when SpdkWatcher announces a change: the
   agent's own copy of the conditions, with the SPDK condition brought up to date
   from the watcher (which polls every few seconds), replaces those at the API
   server, the KubeNode condition of the controller included.  (setLvmCondition
   only changes a condition of type Lvm that is there already, and nobody adds
   one.) *)
StatusReport ==
  LET s == [sp EXCEPT !.spdk = Condition(spdk), !.kube = agt.kube, !.cap = TRUE]
  IN  IF s = sp THEN sp ELSE Stored(s)

(* Mutant: the report does not need a pool. *)
UpdatePoolStatus_Unchecked ==
  /\ agt.up
  /\ sp' = StatusReport
  /\ UNCHANGED <<reportLocal, node, lease, ctl, spdk, agt, events>>

UpdatePoolStatus ==
  /\ agt.up /\ sp.ex
  /\ sp' = StatusReport
  /\ UNCHANGED <<reportLocal, node, lease, ctl, spdk, agt, events>>

(* The select of the agent's loop: the two tickers, or an event of SpdkWatcher. *)
syncPoolIteration == SyncPool \/ UpdatePoolStatus

(* doHeartbeat: renew the Lease the service holds; without one, find or create
   it.  A renewal that fails forgets a Lease that is gone. *)
Beat ==
  /\ agt.up
  /\ IF lease.ex THEN /\ lease' = [lease EXCEPT !.age = "fresh"]
                      /\ agt' = [agt EXCEPT !.lease = TRUE]
     ELSE IF agt.lease THEN lease' = lease /\ agt' = [agt EXCEPT !.lease = FALSE]
     ELSE /\ sp.ex
          /\ lease' = [NoLease EXCEPT !.ex = TRUE]
          /\ agt' = [agt EXCEPT !.lease = TRUE]
  /\ UNCHANGED <<reportLocal, node, sp, ctl, spdk, events>>

(* Kubernetes: a Lease goes with the pool that owns it. *)
CollectLease ==
  /\ lease.ex /\ lease.orphan
  /\ lease' = NoLease
  /\ UNCHANGED <<reportLocal, node, sp, ctl, spdk, agt, events>>

-----------------------------------------------------------------------------
(* The controller's caches. *)
Sees(copy) ==
  /\ seen # copy /\ seen' = copy
  /\ UNCHANGED <<reportLocal, node, sp, lease, st, pass, removing, relist, vol, spdk, agt, missed,
                 events>>

ObservePool == Sees([seen EXCEPT !.sp = sp])
ObserveNode == Sees([seen EXCEPT !.node = node])
ObserveVolume == Sees([seen EXCEPT !.vol = vol = "bound"])

-----------------------------------------------------------------------------
(* LockPoolPlugin: the KubeNode condition follows the node's labels and taints (a
   node that cannot be fetched matches nothing), and the pool is locked and
   unlocked by it. *)
Matched == seen.node.ex /\ seen.node.off

KubeCondition(s) ==
  IF Matched /\ s.kube # "error" THEN Stored([s EXCEPT !.kube = "error"])
  ELSE IF ~Matched /\ s.kube = "error" THEN Stored([s EXCEPT !.kube = "ok"])
  ELSE s

(* Mutant: a failed condition locks nothing. *)
Lock_OnlyUnlocks(s) ==
  IF s.kube # "error" /\ s.status = "locked" THEN [s EXCEPT !.status = "ready"] ELSE s

Lock(s) ==
  IF s.kube = "error" /\ s.status = "ready" THEN [s EXCEPT !.status = "locked"]
  ELSE IF s.kube # "error" /\ s.status = "locked" THEN [s EXCEPT !.status = "ready"]
  ELSE s

LockPool(s) == Lock(KubeCondition(s))

(* An entry of State that a volume event made has no pool but its name. *)
Placeholder(e) == e.status = ""

(* CalculateLocalStorageCapacity: what remote volumes leave of the pool. *)
LocalBytes(e) == IF Placeholder(e) THEN 0 ELSE Capacity - (IF e.vols THEN 1 ELSE 0)

(* The two patches of a report.  A mark that the caller's copy has is replaced,
   which is refused when the pool at the API server has none; otherwise the
   caller's copy becomes the pool at the API server. *)
MarkAccepted(copy) == sp.ex /\ (copy.mark # None => sp.mark # None)
SavePoolLocalStorageMark(s, bytes) == [s EXCEPT !.mark = bytes]
ReportLocalDiskResource(bytes, ok) ==
  /\ ok => node.ex
  /\ node' = IF ok THEN [node EXCEPT !.res = bytes] ELSE node
  /\ missed' = IF node.ex THEN ~ok ELSE missed
  /\ IF node.ex /\ ~ok THEN Happens ELSE UNCHANGED events

(* The lease is not renewed in time. *)
Lost == lease.age # "fresh"

(* Mutant: a heartbeat that is back changes nothing. *)
ByHeartbeat_NoRecovery(age, status) ==
  IF age = "offline" THEN "offline"
  ELSE IF age = "lost" /\ status = "ready" THEN "unknown"
  ELSE status

(* Mutant: a lost heartbeat changes nothing. *)
ByHeartbeat_NoLoss(age, status) ==
  IF age = "fresh" /\ status \in {"unknown", "offline"} THEN "ready" ELSE status

(* Mutant: an unknown pool is made ready whatever the lease says. *)
ByHeartbeat_Unconditional(age, status) ==
  IF age = "offline" THEN "offline"
  ELSE IF status \in {"unknown", "offline"} THEN "ready"
  ELSE IF age = "lost" /\ status = "ready" THEN "unknown"
  ELSE status

(* checkHeartbeat: the status that the age of the lease asks for. *)
ByHeartbeat(age, status) ==
  IF age = "offline" THEN "offline"
  ELSE IF age = "fresh" /\ status \in {"unknown", "offline"} THEN "ready"
  ELSE IF age = "lost" /\ status = "ready" THEN "unknown"
  ELSE status

(* saveToState: the pass publishes its copy of the pool in State.  A pool without
   the finalizer gets it and the pass ends; otherwise the heartbeat is next. *)
InState(s) == st' = [st EXCEPT !.in = TRUE, !.status = s.status, !.mark = s.mark]

Saved(s, now) ==
  /\ InState(s)
  /\ sp' = IF ~s.fin /\ now.ex /\ ~now.del THEN [now EXCEPT !.fin = TRUE] ELSE now
  /\ pass' = IF s.fin THEN [Idle EXCEPT !.pc = "lease", !.out = s.status # "ready"] ELSE Idle

(* validateAndMutate: a pool without NodeInfo.ID is an error; a fresh one gets
   status unknown and its capacity, and the pass ends. *)
Handled(s, now, stale) ==
  IF ~s.spec THEN UNCHANGED <<st, pass>> /\ sp' = now
  ELSE IF s.status = "" \/ ~s.cap
  THEN /\ UNCHANGED <<st, pass>>
       /\ sp' = IF stale THEN now ELSE [s EXCEPT !.status = "unknown", !.cap = TRUE]
  ELSE Saved(s, now)

(* ReportLocalStoragePlugin in a pass over the pool: only for a pool in State; the
   pass ends when the Node cannot be read (blocked) or written. *)
Blocked == reportLocal /\ st.in /\ ~seen.node.ex
Reports(s) == reportLocal /\ st.in /\ seen.node.ex /\ (s.mark = None \/ seen.node.res = None)

(* One pass over a pool that is not being deleted, up to saveToState: LockPool, the
   report of local storage, the handler.  The first write that is refused ends it.
   The queue has one pass over a pool at a time. *)
ReconcilePool ==
  LET stale == seen.sp # sp
      locked == LockPool(seen.sp)
      base == IF stale THEN sp ELSE locked
      due == Reports(locked)
      marked == SavePoolLocalStorageMark(base, LocalBytes(st))
  IN  /\ seen.sp.ex /\ ~seen.sp.del /\ pass = Idle /\ ~removing
      /\ IF stale /\ locked # seen.sp THEN UNCHANGED <<sp, st, pass, node, missed, events>>
         ELSE IF Blocked \/ (due /\ ~MarkAccepted(locked))
         THEN sp' = base /\ UNCHANGED <<st, pass, node, missed, events>>
         ELSE IF ~due THEN Handled(locked, base, stale) /\ UNCHANGED <<node, missed, events>>
         ELSE \E ok \in BOOLEAN :
           /\ ReportLocalDiskResource(marked.mark, ok)
           /\ IF ok THEN Handled(marked, marked, FALSE)
              ELSE sp' = marked /\ UNCHANGED <<st, pass>>
      /\ UNCHANGED <<reportLocal, lease, seen, removing, relist, vol, spdk, agt>>

(* checkHeartbeat reads the Lease at the API server.  Without one, and when the read
   fails, the pass ends; State keeps what saveToState put there. *)
GetLease ==
  /\ pass.pc = "lease"
  /\ \/ /\ lease.ex /\ pass' = [pass EXCEPT !.pc = "patch", !.age = lease.age]
        /\ UNCHANGED events
     \/ ~lease.ex /\ pass' = Idle /\ UNCHANGED events
     \/ lease.ex /\ pass' = Idle /\ Happens
  /\ UNCHANGED <<reportLocal, node, sp, lease, seen, st, removing, relist, vol, spdk, agt,
                 missed>>

(* Mutant: the test of the status is the wrong way round. *)
Abandoned_WhenReady(old) == ~seen.vol /\ ~pass.out /\ old /\ ~seen.node.ex

(* processNodeOffline: the pool of a node that is gone, not ready in the copy of the
   pass, more than 10 minutes old and without volumes (by the caches) is deleted. *)
Abandoned(old) == ~seen.vol /\ pass.out /\ old /\ ~seen.node.ex

(* The rest of the pass.  UpdateStoragePoolStatus sets the status of the copy in State
   and patches the pool; the API server's answer replaces that copy, an error leaves
   it and ends the pass.  For an offline pool the patch is sent in every pass, and may
   be empty; for one that was ready in State it is the second of two.  A pool is older
   than its Lease, so more than 10 minutes old when that is offline. *)
CheckHeartbeat ==
  LET status == ByHeartbeat(pass.age, st.status)
      sent == pass.age = "offline" \/ status # st.status
      patched == IF status # st.status THEN [sp EXCEPT !.status = status] ELSE sp
      twice == sp.ex /\ pass.age = "offline" /\ st.status = "ready"
  IN  /\ pass.pc = "patch" /\ pass' = Idle
      /\ \/ /\ sent => sp.ex
            /\ IF sent THEN InState(patched) ELSE UNCHANGED st
            /\ \E old \in BOOLEAN :
                 /\ pass.age = "offline" /\ lease.ex /\ ~lease.orphan => old
                 /\ sp' = IF Abandoned(old) /\ patched.ex THEN Deleted(patched) ELSE patched
            /\ UNCHANGED events
         \/ /\ sent
            /\ IF sp.ex THEN Happens ELSE UNCHANGED events
            /\ st' = [st EXCEPT !.status = status]
            /\ \/ UNCHANGED sp
               \/ twice /\ sp' = [sp EXCEPT !.status = "unknown"]
      /\ lease' = Owned(sp')
      /\ UNCHANGED <<reportLocal, node, seen, removing, relist, vol, spdk, agt, missed>>

(* handleDeletion: wait while State has volumes on the pool; otherwise remove the
   entry and then the finalizers.  A volume can be bound in between.  (The report of
   local storage runs here too; for a pool that goes it is left out.) *)
CheckDeletion ==
  /\ seen.sp.ex /\ seen.sp.del /\ ~removing /\ pass = Idle
  /\ ~(st.in /\ st.vols)
  /\ removing' = TRUE
  /\ UNCHANGED <<reportLocal, node, sp, lease, seen, st, pass, relist, vol, spdk, agt, missed, events>>

FinishDeletion ==
  /\ removing
  /\ removing' = FALSE
  /\ st' = NotInState
  /\ sp' = IF seen.sp = sp THEN NoPool ELSE sp
  /\ lease' = Owned(sp')
  /\ UNCHANGED <<reportLocal, node, seen, pass, relist, vol, spdk, agt, missed, events>>

-----------------------------------------------------------------------------
(* The volume on the pool, as far as the pool is concerned. *)
IsSchedulable == st.in /\ st.status = "ready"

BindVolume ==
  /\ vol = "none" /\ IsSchedulable /\ Happens
  /\ vol' = "binding" /\ st' = [st EXCEPT !.vols = TRUE]
  /\ UNCHANGED <<reportLocal, node, sp, lease, seen, pass, removing, relist, spdk, agt, missed>>

PersistVolume ==
  /\ vol = "binding" /\ vol' = "bound"
  /\ UNCHANGED <<reportLocal, node, sp, lease, seen, st, pass, removing, relist, spdk, agt, missed,
                 events>>

DeleteVolume ==
  /\ vol = "bound" /\ ~relist
  /\ vol' = "gone" /\ st' = [st EXCEPT !.vols = FALSE]
  /\ UNCHANGED <<reportLocal, node, sp, lease, seen, pass, removing, relist, spdk, agt, missed, events>>

(* VolumeEventHandler after a restart: the volume is bound again, to an entry
   without a pool if the pool was not seen yet. *)
RestoreVolume ==
  /\ relist /\ relist' = FALSE
  /\ st' = IF vol = "bound" THEN [st EXCEPT !.in = TRUE, !.vols = TRUE] ELSE st
  /\ UNCHANGED <<reportLocal, node, sp, lease, seen, pass, removing, vol, spdk, agt, missed, events>>

(* Mutant: a pool is marked once. *)
ReportDue_Once == st.mark = None

(* ReportLocalStoragePlugin in a pass over the volume: mark the pool and set the
   node's resource when the mark of the pool in State is not the current size.  The
   patch that marks the pool brings the copy in State up to date. *)
ReportDue == st.mark # LocalBytes(st)

ReportForVolume ==
  LET marked == SavePoolLocalStorageMark(sp, LocalBytes(st))
  IN  /\ reportLocal /\ vol = "bound" /\ st.in /\ ~Placeholder(st)
      /\ ReportDue /\ MarkAccepted(st)
      /\ sp' = marked /\ InState(marked)
      /\ \E ok \in BOOLEAN : ReportLocalDiskResource(marked.mark, ok)
      /\ UNCHANGED <<reportLocal, lease, seen, pass, removing, relist, vol, spdk, agt>>

-----------------------------------------------------------------------------
(* Time and failures. *)
LeaseAges ==
  /\ lease.ex /\ ~agt.up /\ lease.age # "offline"
  /\ lease' = [lease EXCEPT !.age = IF @ = "fresh" THEN "lost" ELSE "offline"]
  /\ UNCHANGED <<reportLocal, node, sp, ctl, spdk, agt, events>>

NodeLeaves ==
  /\ node.ex /\ Happens
  /\ node' = [ex |-> FALSE, off |-> FALSE, res |-> None]
  /\ agt' = NoAgent
  /\ UNCHANGED <<reportLocal, sp, lease, ctl, spdk>>

NodeJoins ==
  /\ ~node.ex /\ Happens
  /\ node' = [node EXCEPT !.ex = TRUE] /\ agt' = [NoAgent EXCEPT !.up = TRUE]
  /\ UNCHANGED <<reportLocal, sp, lease, ctl, spdk>>

NodeMarked ==
  /\ node.ex /\ Happens /\ node' = [node EXCEPT !.off = ~@]
  /\ UNCHANGED <<reportLocal, sp, lease, ctl, spdk, agt>>

AgentCrash ==
  /\ agt.up /\ Happens /\ agt' = NoAgent
  /\ UNCHANGED <<reportLocal, node, sp, lease, ctl, spdk>>

AgentStart ==
  /\ node.ex /\ ~agt.up /\ agt' = [NoAgent EXCEPT !.up = TRUE]
  /\ UNCHANGED <<reportLocal, node, sp, lease, ctl, spdk, events>>

SpdkFlips ==
  /\ Happens /\ spdk' = ~spdk
  /\ UNCHANGED <<reportLocal, node, sp, lease, ctl, agt>>

RestartController ==
  /\ Happens
  /\ st' = NotInState /\ pass' = Idle /\ removing' = FALSE /\ relist' = TRUE
  /\ vol' = IF vol = "binding" THEN "none" ELSE vol
  /\ seen' = [sp |-> sp, node |-> node, vol |-> vol = "bound"]
  /\ UNCHANGED <<reportLocal, node, sp, lease, spdk, agt, missed>>

AdminDeletes ==
  /\ sp.ex /\ ~sp.del /\ Happens /\ sp' = Deleted(sp)
  /\ lease' = Owned(sp')
  /\ UNCHANGED <<reportLocal, node, ctl, spdk, agt>>

-----------------------------------------------------------------------------
Agent == syncPoolIteration \/ Beat \/ AgentStart
Volume == BindVolume \/ PersistVolume \/ DeleteVolume \/ RestoreVolume \/ ReportForVolume
Time == LeaseAges \/ CollectLease
Failure == \/ NodeLeaves \/ NodeJoins \/ NodeMarked \/ AgentCrash \/ SpdkFlips
           \/ RestartController \/ AdminDeletes

Next == \/ Agent \/ ObservePool \/ ObserveNode \/ ObserveVolume
        \/ ReconcilePool \/ GetLease \/ CheckHeartbeat \/ CheckDeletion \/ FinishDeletion
        \/ Volume \/ Time \/ Failure

Spec == Init /\ [][Next]_vars

(* The tickers of the agent, the informers, the controller's work queue (every
   pass over a pool is requeued after 5 minutes, every object is resynced) and
   the passage of time.  Nothing makes an agent that crashed start again. *)
FairSpec ==
  /\ Spec
  /\ WF_vars(SyncPool) /\ WF_vars(UpdatePoolStatus) /\ WF_vars(Beat)
  /\ WF_vars(ObservePool) /\ WF_vars(ObserveNode) /\ WF_vars(ObserveVolume)
  /\ WF_vars(ReconcilePool) /\ WF_vars(GetLease) /\ WF_vars(CheckHeartbeat)
  /\ WF_vars(CheckDeletion) /\ WF_vars(FinishDeletion)
  /\ WF_vars(PersistVolume) /\ WF_vars(RestoreVolume) /\ WF_vars(ReportForVolume)
  /\ WF_vars(LeaseAges) /\ WF_vars(CollectLease)

-----------------------------------------------------------------------------
Statuses == {"", "ready", "unknown", "offline", "locked"}
Conditions == {"none", "ok", "error"}
Bytes == {None} \cup 0..Capacity
Pools == [ex : BOOLEAN, del : BOOLEAN, fin : BOOLEAN, spec : BOOLEAN, cap : BOOLEAN,
          status : Statuses, spdk : Conditions, kube : Conditions, mark : Bytes]
KubeNodes == [ex : BOOLEAN, off : BOOLEAN, res : Bytes]

(* Types; a pool that is not there has no content, and only a pool with a
   finalizer is ever in deletion (StoragePool, Lease, State entry). *)
TypeOK ==
  /\ reportLocal \in BOOLEAN /\ node \in KubeNodes /\ sp \in Pools
  /\ lease \in [ex : BOOLEAN, age : {"fresh", "lost", "offline"}, orphan : BOOLEAN]
  /\ seen \in [sp : Pools, node : KubeNodes, vol : BOOLEAN]
  /\ st \in [in : BOOLEAN, status : Statuses, mark : Bytes, vols : BOOLEAN]
  /\ pass \in [pc : {"idle", "lease", "patch"}, out : BOOLEAN,
               age : {"fresh", "lost", "offline"}]
  /\ {removing, relist, spdk, missed} \subseteq BOOLEAN
  /\ vol \in {"none", "binding", "bound", "gone"}
  /\ agt \in [up : BOOLEAN, lease : BOOLEAN, kube : Conditions]
  /\ events \in 0..MaxEvents
  /\ ~sp.ex => sp = NoPool
  /\ sp.del => sp.fin

(* While the Lease is stale, a pool that is out at the API server and in State becomes
   schedulable by nothing but saveToState, which publishes the cached copy of the pool
   before checkHeartbeat runs (or by a pass that read the Lease while it was fresh):
   neither by LockPoolPlugin unlocking it, nor by a report that patches it from State,
   nor by a restart.  And a pass that got to read the stale Lease ends with the pool
   out, whatever ran since saveToState and whether the patch of the status succeeds or
   not.  So a silent pool is left schedulable only by a pass that could not read the
   Lease.  (A pool without the finalizer is stored as it is; that pass ends before
   checkHeartbeat.  An empty patch of an offline pool may bring back the status that
   the API server still has.) *)
SilentStaysOut ==
  [][/\ lease.ex /\ Lost /\ seen.sp.fin /\ ~IsSchedulable /\ sp.status # "ready" /\ IsSchedulable'
        => pass'.pc = "lease" \/ (pass.pc = "patch" /\ pass.age = "fresh")
     /\ pass.pc = "patch" /\ pass.age # "fresh" /\ pass'.pc = "idle"
        /\ (IsSchedulable \/ sp.status # "ready")
        => ~IsSchedulable']_vars

Serving == node.ex /\ agt.up /\ ~sp.del

(* A running agent on an unmarked node has, in the end, a registered pool that is
   ready at the API server and in State, whatever was lost or restarted before:
   registration, lease re-creation, unlock and recovery together. *)
PoolComesBack ==
  <>[](Serving /\ ~node.off) => <>[](sp.status = "ready" /\ IsSchedulable)

(* The pool of a node that matches LockSchedCfg is locked for good, although the
   agent overwrites the KubeNode condition with its own copy and a recovered
   heartbeat makes an offline pool ready (LockPoolPlugin, updatePoolStatus). *)
LockFollowsNode == <>[](Serving /\ node.off) => <>[]~IsSchedulable

(* What it takes for checkHeartbeat to be reached at all: a spec with a node ID,
   a pool not in deletion, and, with ReportLocalStoragePlugin, a Node. *)
Reachable == sp.ex /\ sp.spec /\ ~sp.del /\ (reportLocal => node.ex)

(* A pool whose agent stays silent stops being schedulable. *)
LossNoticed == <>[](Reachable /\ lease.ex /\ Lost) => <>[]~IsSchedulable

(* The pool of a node that was removed from the cluster is deleted once no volume
   is on it (processNodeOffline, handleDeletion). *)
NodeGonePoolGone ==
  <>[](~node.ex /\ ~reportLocal /\ (sp.ex => sp.spec /\ lease.ex) /\ vol \in {"none", "gone"})
  => <>[](~sp.ex)

(* With ReportLocalStoragePlugin the node's sds/local-storage resource ends up as
   what the remote volume in State leaves of the pool, whatever marks were refused
   or copied from a re-created pool, unless the last report failed after its mark
   was saved: the mark then says that there is nothing to do. *)
LocalStorageReported ==
  <>[](reportLocal /\ Serving /\ vol = "bound" /\ st.vols /\ ~missed)
  => <>[](node.res = LocalBytes(st))
=============================================================================
