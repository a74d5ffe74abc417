---------------------------- MODULE VolumeGroup ----------------------------
(* A volume group and the data control on top of it: the CSI client that creates
   and deletes the pair, the controller's group and data-control reconcilers,
   the agent of the host, which builds one LVM volume over the members, and the
   member volumes, of which only what the group sees is kept (their own life is
   VolumeLifecycle).

   The controller reads every object from an informer cache that may lag; a
   write carries the version that was read and is refused when it is stale.  The
   agent and the CSI client read the API server.  Every storage node is remote to
   the host. *)
EXTENDS GroupScheduler, TLC

CONSTANTS
  Nodes,         (* storage nodes *)
  Capacity,      (* bytes of a node's pool, a function on Nodes *)
  MaxVolumes,    (* bound: volume ids the scheduler may hand out *)
  Shifting,      (* nodes that other volumes fill up or leave *)
  MaxShifts,     (* bound: how often they do *)
  MaxCuts,       (* bound: rollbacks cut short between delete and update *)
  MaxFaults      (* bound: agent passes that fail or die half-way *)

ASSUME GroupNodes ==
  /\ IsFiniteSet(Nodes) /\ NoNode \notin Nodes
  /\ Capacity \in [Nodes -> Nat] /\ MaxVolumes \in Nat

Ids == 1..MaxVolumes
NoVolume == [ex |-> FALSE, node |-> NoNode, size |-> 0, bound |-> FALSE,
             tgt |-> FALSE, ready |-> FALSE, msg |-> FALSE, del |-> FALSE,
             host |-> FALSE]
NoGroup == [ex |-> FALSE, del |-> FALSE, fin |-> FALSE, vols |-> <<>>,
            st |-> <<>>, ready |-> FALSE]
NoControl == [ex |-> FALSE, del |-> FALSE, fin |-> FALSE, target |-> FALSE,
              lvm |-> {}, ready |-> FALSE]

VARIABLES
  csi,     (* the CSI client: create, created, delete, deleted *)
  grp,     (* AntstorVolumeGroup at the API server *)
  dc,      (* AntstorDataControl at the API server *)
  vol,     (* member AntstorVolumes at the API server *)
  seen,    (* the controller's cache of the three *)
  aged,    (* members whose cached copy is more than a minute old *)
  next,    (* next volume id to hand out *)
  other,   (* bytes of each pool used by other volumes *)
  agt,     (* the host's agent: its step and the data control it read *)
  lvm,     (* on the host: connected targets, PVs, devices of the VG, the LV *)
  look,    (* the group's deletion: what its look-up of the data control came to *)
  blind,   (* a tear-down went on with neither VGs nor PVs listed *)
  cuts, faults, shifts   (* events counted against the bounds *)

api == <<grp, dc, vol>>
vars == <<csi, api, seen, aged, next, other, agt, lvm, look, blind, cuts, faults, shifts>>

NoLvm == [conn |-> {}, pv |-> {}, vg |-> {}, lv |-> FALSE]
Idle == [pc |-> "idle", copy |-> NoControl, pvs |-> {}]

Init ==
  /\ csi = "create"
  /\ grp = NoGroup /\ dc = NoControl /\ vol = [v \in Ids |-> NoVolume]
  /\ seen = [grp |-> grp, dc |-> dc, vol |-> vol]
  /\ aged = {} /\ next = 1
  /\ other = [n \in Nodes |-> Align]
  /\ agt = Idle /\ lvm = NoLvm /\ look = "none" /\ blind = FALSE
  /\ cuts = 0 /\ faults = 0 /\ shifts = 0

(* The entries of a group: their volumes, and whether there are none yet. *)
MemberIds(g) == {g.vols[i].id : i \in DOMAIN g.vols}
NoEntries(g) == DOMAIN g.vols = {}

-----------------------------------------------------------------------------
(* The API server: an object being deleted goes when it has no finalizer. *)
DeleteGroup(g) == IF ~g.ex \/ g.fin THEN [g EXCEPT !.del = g.ex] ELSE NoGroup
DeleteControl(d) == IF ~d.ex \/ d.fin THEN [d EXCEPT !.del = d.ex] ELSE NoControl
DeleteVolume(v) == IF ~v.ex \/ v.bound THEN [v EXCEPT !.del = v.ex] ELSE NoVolume

(* What the State cache knows of a node: the volumes bound to it. *)
On(n) == {v \in Ids : vol[v].bound /\ vol[v].node = n}

Bytes(S) ==
  LET sum[i \in 0..MaxVolumes] ==
        IF i = 0 THEN 0 ELSE sum[i - 1] + (IF i \in S THEN vol[i].size ELSE 0)
  IN  sum[MaxVolumes]

PoolOf(n) ==
  [free |-> Capacity[n] - other[n] - Bytes(On(n)),
   total |-> Capacity[n],
   remote |-> Bytes(On(n)),
   remoteCnt |-> Cardinality(On(n)),
   volumes |-> Cardinality(On(n)) + (IF other[n] > 0 THEN 1 ELSE 0),
   ok |-> TRUE]
Pools == [n \in Nodes |-> PoolOf(n)]

-----------------------------------------------------------------------------
(* CreatePV for a group: the group and then the data control, each only when a
   look-up does not find it, so a call that died between the two is resumed by
   its retry. *)
CreateVolumeGroup ==
  /\ csi = "create" /\ ~grp.ex
  /\ grp' = [NoGroup EXCEPT !.ex = TRUE]
  /\ UNCHANGED <<csi, dc, vol, seen, aged, next, other, agt, lvm, look, blind, cuts, faults, shifts>>

CreateDataControl ==
  /\ csi = "create" /\ grp.ex
  /\ dc' = [NoControl EXCEPT !.ex = TRUE]
  /\ csi' = "created"
  /\ UNCHANGED <<grp, vol, seen, aged, next, other, agt, lvm, look, blind, cuts, faults, shifts>>

(* DeletePV: the group first, then the data control.  A retry after a failure
   between the two finds the group gone or deleting and goes on. *)
DeletePVGroup ==
  /\ csi = "created"
  /\ grp' = DeleteGroup(grp)
  /\ csi' = "delete"
  /\ UNCHANGED <<dc, vol, seen, aged, next, other, agt, lvm, look, blind, cuts, faults, shifts>>

DeletePVControl ==
  /\ csi = "delete"
  /\ dc' = DeleteControl(dc)
  /\ csi' = "deleted"
  /\ UNCHANGED <<grp, vol, seen, aged, next, other, agt, lvm, look, blind, cuts, faults, shifts>>

-----------------------------------------------------------------------------
(* One of the three informers brings its part of the cache up to date. *)
Observe ==
  /\ \/ seen.grp # grp /\ seen' = [seen EXCEPT !.grp = grp] /\ aged' = aged
     \/ seen.dc # dc /\ seen' = [seen EXCEPT !.dc = dc] /\ aged' = aged
     \/ /\ seen.vol # vol /\ seen' = [seen EXCEPT !.vol = vol]
        /\ aged' = {v \in aged : vol[v].ex}
  /\ UNCHANGED <<csi, api, next, other, agt, lvm, look, blind, cuts, faults, shifts>>

(* A write of the group the reconciler read, refused when the copy is stale. *)
UpdateGroup(g) == grp' = IF seen.grp = grp THEN g ELSE grp

(* syncVolumes: create the volume of every scheduled entry whose volume the
   cache does not have (one that exists after all is left alone). *)
Created(g) ==
  [v \in Ids |->
     IF ~vol[v].ex /\ \E i \in DOMAIN g.vols :
                        g.vols[i].id = v /\ Scheduled(g.vols[i]) /\ ~seen.vol[v].ex
     THEN LET i == CHOOSE i \in DOMAIN g.vols : g.vols[i].id = v
          IN  [NoVolume EXCEPT !.ex = TRUE, !.node = g.vols[i].node, !.size = g.vols[i].size]
     ELSE vol[v]]

(* ... and copy what the cache says of the volumes into the status. *)
StatusOf(g) ==
  [i \in DOMAIN g.vols |->
     LET v == seen.vol[g.vols[i].id]
     IN  [ready |-> v.ready, msg |-> v.msg, tgt |-> v.tgt]]

(* Mutant: the sizes are not added up. *)
AllReady_AnySize(g) == \A i \in DOMAIN g.vols : seen.vol[g.vols[i].id].ready

AllReady(g) ==
  /\ SumSizes(g.vols) >= TotalSize
  /\ \A i \in DOMAIN g.vols : seen.vol[g.vols[i].id].ready

Synced(g) == IF NoEntries(g) THEN g
             ELSE [g EXCEPT !.st = StatusOf(g), !.ready = AllReady(g)]

(* A pass works on a group that is neither deleting nor ready. *)
Pass(g) == g.ex /\ ~g.del /\ ~g.ready

groupOnly == <<csi, dc, seen, aged, other, agt, lvm, look, blind, faults, shifts>>

SyncVolumes ==
  /\ Pass(seen.grp) /\ Synced(seen.grp) # seen.grp
  /\ vol' = Created(seen.grp)
  /\ UpdateGroup(Synced(seen.grp))
  /\ UNCHANGED <<groupOnly, next, cuts>>

(* rollbackUnrecoverable: a volume that reported NoStoragePoolAvailable and is
   older than a minute is deleted and its entry cleared, to be scheduled again
   under the same id.  The deletes come before the update of the group, which
   may be refused or, when the pass is cut short, never come. *)
Failed(g) ==
  {i \in DOMAIN g.st : LET v == g.vols[i].id
                       IN  g.st[i].msg /\ (seen.vol[v].ex => v \in aged)}

RolledBack(g, S) ==
  [g EXCEPT !.vols = [i \in DOMAIN g.vols |->
                        IF i \in S THEN [id |-> g.vols[i].id, node |-> NoNode, size |-> 0]
                        ELSE g.vols[i]]]

RollbackUnrecoverable ==
  LET S == Failed(seen.grp)
      gone == {v \in {seen.grp.vols[i].id : i \in S} : seen.vol[v].ex}
      before == Created(seen.grp)
  IN  /\ Pass(seen.grp) /\ Synced(seen.grp) = seen.grp /\ S # {}
      /\ vol' = [v \in Ids |-> IF v \in gone THEN DeleteVolume(before[v]) ELSE before[v]]
      /\ \/ UpdateGroup(RolledBack(seen.grp, S)) /\ cuts' = cuts
         \/ cuts < MaxCuts /\ cuts' = cuts + 1 /\ grp' = grp
      /\ UNCHANGED <<groupOnly, next>>

(* scheduleVolGroup, in a pass that had nothing to copy or to roll back. *)
ScheduleVolGroup ==
  /\ Pass(seen.grp) /\ Synced(seen.grp) = seen.grp /\ Failed(seen.grp) = {}
  /\ vol' = Created(seen.grp)
  /\ \E r \in ScheduleVolumeGroup(Pools, seen.grp.vols, next) :
       IF r.err \/ r.vols = seen.grp.vols THEN UNCHANGED <<grp, next>>
       ELSE /\ MemberIds(r) \subseteq Ids
            /\ UpdateGroup([seen.grp EXCEPT !.vols = r.vols, !.fin = TRUE])
            /\ next' = IF seen.grp = grp THEN Max(MemberIds(r) \cup {next - 1}) + 1 ELSE next
  /\ UNCHANGED <<groupOnly, cuts>>

(* Mutant: the group does not look for its data control. *)
DataControlGone_Unchecked == TRUE

(* handleDeletion: wait until the cache does not have the data control, which it
   may also not have yet (lagged) ... *)
DataControlGone == ~seen.dc.ex

LookUpDataControl ==
  /\ seen.grp.ex /\ seen.grp.del /\ seen.grp.fin /\ DataControlGone
  /\ look = "none"
  /\ look' = IF dc.ex /\ ~seen.dc.ex THEN "lagged" ELSE "gone"
  /\ UNCHANGED <<csi, api, seen, aged, next, other, agt, lvm, blind, cuts, faults, shifts>>

(* ... then delete the first volume that the cache still has, and end the pass,
   or let the group go when there is none. *)
HandleDeletion ==
  /\ look # "none" /\ look' = "none"
  /\ LET S == {i \in DOMAIN seen.grp.vols : seen.vol[seen.grp.vols[i].id].ex}
     IN  IF S # {} THEN /\ vol' = [vol EXCEPT ![seen.grp.vols[Min(S)].id] = DeleteVolume(@)]
                        /\ grp' = grp
         ELSE UpdateGroup(NoGroup) /\ vol' = vol
  /\ UNCHANGED <<csi, dc, seen, aged, next, other, agt, lvm, blind, cuts, faults, shifts>>

(* The garbage collector of Kubernetes, by the owner reference of newVolume. *)
GarbageCollect(v) ==
  /\ ~grp.ex /\ csi # "create" /\ vol[v].ex /\ ~vol[v].del
  /\ vol' = [vol EXCEPT ![v] = DeleteVolume(@)]
  /\ UNCHANGED <<csi, grp, dc, seen, aged, next, other, agt, lvm, look, blind, cuts, faults, shifts>>

-----------------------------------------------------------------------------
(* The data-control reconciler: once the group is ready, write the host into
   every member, in order, up to the first that fails (the cached copy is stale
   or missing, or the pass ends, after k writes), and then the target into the
   data control. *)
HostsWritten(k) == 1..k = DOMAIN seen.grp.vols

ReconcileDataControl ==
  /\ seen.dc.ex /\ ~seen.dc.del /\ ~seen.dc.target
  /\ seen.grp.ex /\ seen.grp.ready
  /\ \E k \in 0..Len(seen.grp.vols) :
       LET S == {seen.grp.vols[i].id : i \in 1..k}
       IN  /\ \A v \in S : vol[v].ex /\ seen.vol[v] = vol[v]
           /\ vol' = [v \in Ids |-> IF v \in S THEN [vol[v] EXCEPT !.host = TRUE] ELSE vol[v]]
           /\ dc' = IF HostsWritten(k) /\ seen.dc = dc THEN [dc EXCEPT !.target = TRUE] ELSE dc
  /\ UNCHANGED <<csi, grp, seen, aged, next, other, agt, lvm, look, blind, cuts, faults, shifts>>

-----------------------------------------------------------------------------
(* The agent of the host, for a data control that carries its label. *)
agentOnly == <<csi, grp, vol, seen, aged, next, other, look, cuts, shifts>>

(* Reconcile reads the data control and the ready group; the members with a
   target are the PVs. *)
AgentGet ==
  /\ agt.pc = "idle" /\ dc.ex /\ dc.target /\ ~dc.del /\ ~dc.ready
  /\ grp.ex /\ grp.ready
  /\ agt' = [pc |-> IF dc.fin THEN "status" ELSE "build", copy |-> dc,
             pvs |-> dc.lvm \cup {grp.vols[i].id : i \in {j \in DOMAIN grp.st : grp.st[j].tgt}}]
  /\ UNCHANGED <<agentOnly, dc, lvm, blind, faults>>

(* Connect, create PVs, VG and LV, each only where a listing does not show it;
   the pass may end after any of them. *)
ConnectTargets(l, pvs) == [l EXCEPT !.conn = @ \cup pvs]
ListPV(l) == l.pv
ListVG(l) == {l.vg} \ {{}}
CreatePV(l, devs) == [l EXCEPT !.pv = @ \cup devs]
CreateVG(l, devs) == [l EXCEPT !.vg = devs]
CreateLinearLV(l) == [l EXCEPT !.lv = TRUE]

Built(l, pvs, k) ==
  LET connected == ConnectTargets(l, pvs)
      withPVs == CreatePV(connected, pvs \ ListPV(l))
      withVG == IF ListVG(l) # {} THEN withPVs ELSE CreateVG(withPVs, pvs)
  IN  <<l, connected, withPVs, withVG, CreateLinearLV(withVG)>>[k + 1]

(* A target that is gone cannot be connected. *)
Connectable(pvs) == \A v \in pvs \ lvm.conn : vol[v].ex /\ vol[v].tgt

AgentBuild ==
  /\ agt.pc = "build"
  /\ \/ /\ Connectable(agt.pvs)
        /\ lvm' = Built(lvm, agt.pvs, 4)
        /\ agt' = [agt EXCEPT !.pc = "save"] /\ faults' = faults
     \/ \E k \in 0..3 :
          /\ k > 0 => Connectable(agt.pvs)
          /\ faults < MaxFaults /\ faults' = faults + 1
          /\ lvm' = Built(lvm, agt.pvs, k)
          /\ agt' = Idle
     \/ /\ ~Connectable(agt.pvs)
        /\ agt' = Idle /\ UNCHANGED <<lvm, faults>>
  /\ UNCHANGED <<agentOnly, dc, blind>>

(* Write what was built and the finalizer.  The status update that follows in
   the same pass carries the version before this write and is always refused, so
   the data control turns ready only in a later pass. *)
AgentSave ==
  /\ agt.pc = "save"
  /\ dc' = IF dc = agt.copy THEN [dc EXCEPT !.fin = TRUE, !.lvm = agt.pvs] ELSE dc
  /\ agt' = Idle
  /\ UNCHANGED <<agentOnly, lvm, blind, faults>>

AgentStatus ==
  /\ agt.pc = "status"
  /\ dc' = IF dc = agt.copy THEN [dc EXCEPT !.ready = TRUE] ELSE dc
  /\ agt' = Idle
  /\ UNCHANGED <<agentOnly, lvm, blind, faults>>

(* handleDeletion of the agent: VG, PVs, connections, then the finalizer, which
   a pass that ends after k steps leaves.  A listing that fails (unlisted) is only
   logged and taken for an empty one; pvremove refuses a PV that is still in a VG.
   A failed disconnect is only logged too, so connections (kept) may outlive the
   data control. *)
RemoveVG(l) == [l EXCEPT !.vg = {}, !.lv = FALSE]
RemovePVs(l, devs) == [l EXCEPT !.pv = @ \ devs]
DisconnectTargets(l, pvs) == [l EXCEPT !.conn = @ \ pvs]

WithoutVG(l, unlisted) == IF "VG" \in unlisted \/ ListVG(l) = {} THEN l ELSE RemoveVG(l)

toDelDevs(l, pvs, unlisted) == IF "PV" \in unlisted THEN {} ELSE pvs \cap ListPV(l)

Torn(l, pvs, unlisted, k, kept) ==
  LET withoutVG == WithoutVG(l, unlisted)
      withoutPVs == RemovePVs(withoutVG, toDelDevs(l, pvs, unlisted))
      cut == DisconnectTargets(withoutPVs, pvs \ kept)
  IN  <<l, withoutVG, withoutPVs, cut, cut>>[k + 1]

(* Mutant: the agent's finalizer is never taken off. *)
FinalizerRemoved_Never(k) == FALSE

FinalizerRemoved(k) == k = 4

AgentTearDown ==
  /\ agt.pc = "idle" /\ dc.ex /\ dc.target /\ dc.del /\ dc.lvm # {}
  /\ \E k \in 0..4, kept \in SUBSET dc.lvm, unlisted \in SUBSET {"VG", "PV"} :
       /\ k >= 2 => toDelDevs(lvm, dc.lvm, unlisted) \cap WithoutVG(lvm, unlisted).vg = {}
       /\ faults' = faults + Cardinality(unlisted)
                    + (IF kept = {} /\ (k = 4 \/ unlisted # {}) THEN 0 ELSE 1)
       /\ faults' <= MaxFaults
       /\ lvm' = Torn(lvm, dc.lvm, unlisted, k, kept)
       /\ blind' = (blind \/ unlisted = {"VG", "PV"})
       /\ dc' = IF FinalizerRemoved(k) THEN NoControl ELSE dc
  /\ UNCHANGED <<agentOnly, agt>>

-----------------------------------------------------------------------------
(* The member volumes: scheduled by the volume reconciler on the node of their
   pool affinity or told that no pool is available (a message nothing clears),
   exposed and made ready by that node's agent, and gone when deleted. *)
volumeOnly == <<csi, grp, dc, seen, aged, next, other, agt, lvm, look, blind, cuts, faults, shifts>>

AffinityFilter(n, v) == n = vol[v].node

(* The nodes that pass every filter of the chain. *)
MatchAll(v) == {n \in Nodes : Fits(PoolOf(n), vol[v].size) /\ AffinityFilter(n, v)}

ScheduleMember(v) ==
  /\ vol[v].ex /\ ~vol[v].del /\ ~vol[v].bound
  /\ vol' = IF MatchAll(v) # {}
            THEN [vol EXCEPT ![v].bound = TRUE]
            ELSE [vol EXCEPT ![v].msg = TRUE]
  /\ UNCHANGED volumeOnly

ExposeMember(v) ==
  /\ vol[v].bound /\ ~vol[v].del /\ ~vol[v].tgt
  /\ vol' = [vol EXCEPT ![v].tgt = TRUE]
  /\ UNCHANGED volumeOnly

MemberReady(v) ==
  /\ vol[v].tgt /\ ~vol[v].del /\ ~vol[v].ready
  /\ vol' = [vol EXCEPT ![v].ready = TRUE]
  /\ UNCHANGED volumeOnly

(* Mutant: the State keeps the volume. *)
MemberGone_StillBound(v) ==
  /\ vol[v].del
  /\ vol' = [vol EXCEPT ![v] = [NoVolume EXCEPT !.bound = TRUE]]
  /\ UNCHANGED volumeOnly

MemberGone(v) ==
  /\ vol[v].del
  /\ vol' = [vol EXCEPT ![v] = NoVolume]
  /\ UNCHANGED volumeOnly

(* A minute passes; it matters for a member that failed to be scheduled. *)
Age(v) ==
  /\ seen.vol[v].msg /\ v \notin aged
  /\ aged' = aged \cup {v}
  /\ UNCHANGED <<csi, api, seen, next, other, agt, lvm, look, blind, cuts, faults, shifts>>

(* Other volumes come to or leave a node. *)
OtherVolumes ==
  /\ shifts < MaxShifts /\ shifts' = shifts + 1
  /\ \E n \in Shifting : \E u \in {Align, Capacity[n]} :
       /\ u # other[n] /\ u + Bytes(On(n)) <= Capacity[n]
       /\ other' = [other EXCEPT ![n] = u]
  /\ UNCHANGED <<csi, api, seen, aged, next, agt, lvm, look, blind, cuts, faults>>

-----------------------------------------------------------------------------
Client == CreateVolumeGroup \/ CreateDataControl \/ DeletePVGroup \/ DeletePVControl
Controller == \/ SyncVolumes \/ RollbackUnrecoverable
              \/ LookUpDataControl \/ HandleDeletion
              \/ ReconcileDataControl \/ ScheduleVolGroup
Agent == AgentGet \/ AgentBuild \/ AgentSave \/ AgentStatus \/ AgentTearDown
Member(v) == \/ ScheduleMember(v) \/ ExposeMember(v) \/ MemberReady(v)
             \/ MemberGone(v) \/ GarbageCollect(v) \/ Age(v)

Next == \/ Client \/ Observe \/ Controller \/ Agent \/ OtherVolumes
        \/ \E v \in Ids : Member(v)

Spec == Init /\ [][Next]_vars

(* What happens by itself: the client's retries, the informers, the reconcilers,
   the members' controllers, the agent. *)
Progress == \/ CreateVolumeGroup \/ CreateDataControl \/ DeletePVControl
            \/ Observe \/ Agent \/ (\E v \in Ids : Member(v)) \/ Controller

-----------------------------------------------------------------------------
(* Types; a volume is bound to a node only while it exists (the in-state
   finalizer keeps it), and the host holds nothing but members. *)
TypeOK ==
  /\ csi \in {"create", "created", "delete", "deleted"}
  /\ \A i \in DOMAIN grp.vols : grp.vols[i].id \in Ids /\ grp.vols[i].node \in Nodes \cup {NoNode}
  /\ \A v \in Ids : vol[v].node \in Nodes \cup {NoNode} /\ (vol[v].bound => vol[v].ex)
  /\ agt.pc \in {"idle", "build", "save", "status"}
  /\ look \in {"none", "gone", "lagged"} /\ blind \in BOOLEAN
  /\ lvm.conn \cup lvm.pv \cup lvm.vg \subseteq Ids

(* However often entries are rolled back and scheduled again, no two members of
   a group are given the same node, there are never more than CountRange.Max, and
   together they exceed the requested size by less than one alignment unit, though
   entries keep their ids, the loop that adds entries changes its own bound and
   every size is rounded up (tgtNodeSet, cnt and leftSize of schedVolGroup). *)
MembersApart ==
  /\ Len(grp.vols) <= MaxVolCnt /\ Left(grp.vols) > -Align
  /\ \A i, j \in DOMAIN grp.vols :
       i # j /\ Scheduled(grp.vols[i]) /\ Scheduled(grp.vols[j]) =>
         grp.vols[i].node # grp.vols[j].node

(* From the moment a ready group's data control is handed to the host's agent
   until it is gone, nobody deletes a member: not a rollback that works on a
   stale copy (its status would change first and the write be refused), not the
   garbage collector, and not the group's own deletion, which waits for the data
   control; but for a pass of it that looked while the cache did not have the data
   control yet: the data control may be handed over before that pass deletes its
   member.  And a data control with the agent's finalizer goes only after the
   LV and the VG on the host are gone, though a failed listing is taken for an
   empty one (unless both listings of a pass failed), so the members that are
   deleted next are not pulled from under them. *)
NoMemberTakenAway ==
  [][/\ ~(look = "lagged" /\ look' = "none") =>
          \A v \in Ids : grp.ready /\ dc.ex /\ dc.target /\ vol[v].ex /\ ~vol[v].del
            => vol'[v].ex /\ ~vol'[v].del
     /\ dc.fin /\ ~dc'.ex /\ ~blind' => ~lvm'.lv /\ lvm'.vg = {}]_vars

(* The agent is handed a data control only after every member knows its host,
   though the members are written one by one and a write may fail; and a ready
   data control has its logical volume over all the members of the group, while
   there is one, none missed, and they add up to the requested size, however many passes of the
   agent died half-way (HandleReconcile and reconcile of the two sides). *)
ControlComplete ==
  /\ dc.target /\ grp.ex => \A i \in DOMAIN grp.vols :
       vol[grp.vols[i].id].ex => vol[grp.vols[i].id].host
  /\ dc.ready /\ ~dc.del =>
       /\ lvm.lv
       /\ grp.ex => lvm.vg = MemberIds(grp) /\ SumSizes(grp.vols) >= TotalSize

(* The members of a ready group exist and are not being deleted.  The comment of
   rollbackUnrecoverable describes clearing the entry and removing the volume as
   one action; they are two calls, so a group may turn ready in between. *)
ReadyGroupBacked ==
  grp.ready /\ ~grp.del =>
    \A i \in DOMAIN grp.vols : LET v == vol[grp.vols[i].id] IN v.ex /\ ~v.del

(* Nobody waits on everybody: while something of a deleted pair is left, some
   reconciler, informer, agent or retry can still change the state, and so it is
   while a pair is not ready although the pools have room, unless its group
   turned ready over a member that was being deleted.  The group waits for the
   data control, the data control for the agent and for the group, the members
   for the group. *)
NeverStuck ==
  \/ csi = "deleted" /\ (grp.ex \/ dc.ex \/ \E v \in Ids : vol[v].ex)
  \/ /\ csi \in {"create", "created"} /\ ~dc.ready /\ ReadyGroupBacked
     /\ \A n \in Nodes : other[n] <= Align
  => ENABLED <<Progress>>_vars

=============================================================================
