--------------------------- MODULE GroupScheduler ---------------------------
(* How the controller splits a volume group over the nodes: the algorithm of
   scheduler.ScheduleVolumeGroup.  An entry of a group (VolumeMeta) names the
   volume, the size it was given and the node it must be placed on; an entry
   that is not scheduled has size 0 and no node.  What the scheduler reads of a
   node is a record [free, total, remote, remoteCnt, volumes, ok]: the free and
   the total bytes of its pool, the bytes and the number of remote volumes on
   it, the number of volumes on it, and whether pool status and SPDK condition
   let volumes in. *)
EXTENDS Integers, Sequences, FiniteSetsExt

CONSTANTS
  NoNode,                (* TargetNodeName "" *)
  Align,                 (* 4 MiB in units of size *)
  TotalSize,             (* Spec.TotalSize, not necessarily aligned *)
  MinSize, MaxSize,      (* DesiredVolumeSpec.SizeRange *)
  MaxVolCnt,             (* DesiredVolumeSpec.CountRange.Max *)
  AllowEmptyNode,        (* Stragety.AllowEmptyNode *)
  MinLocalPct,           (* Scheduler.MinLocalStoragePct *)
  MaxRemoteVolumeCount   (* Scheduler.MaxRemoteVolumeCount *)

ASSUME GroupAssumption ==
  /\ Align \in Nat \ {0} /\ TotalSize \in Nat /\ MaxVolCnt \in Nat
  /\ MinSize \in Nat /\ MaxSize \in Nat
  /\ MinLocalPct \in 0..100 /\ MaxRemoteVolumeCount \in Nat
  /\ AllowEmptyNode \in BOOLEAN

Lesser(a, b) == IF a < b THEN a ELSE b
RoundDown(x) == (x \div Align) * Align
RoundUp(x) == RoundDown(x + Align - 1)

Scheduled(e) == e.size > 0 /\ e.node # NoNode
SumSizes(vols) == SumFunction([i \in DOMAIN vols |-> vols[i].size])
ScheduledAt(vols) == {i \in DOMAIN vols : Scheduled(vols[i])}

(* The loops of the code are functions of the number of rounds done.  Here: the
   scheduled entries of the first i, in order. *)
Chosen(vols) ==
  LET volsCopy[i \in 0..Len(vols)] ==
        IF i = 0 THEN <<>>
        ELSE IF Scheduled(vols[i]) THEN Append(volsCopy[i - 1], vols[i])
        ELSE volsCopy[i - 1]
  IN  volsCopy[Len(vols)]

(* cnt, leftSize and tgtNodeSet. *)
Count(vols) == Cardinality(ScheduledAt(vols))
Left(vols) ==
  LET leftSize[i \in 0..Len(vols)] ==
        IF i = 0 THEN TotalSize
        ELSE IF Scheduled(vols[i]) THEN leftSize[i - 1] - vols[i].size
        ELSE leftSize[i - 1]
  IN  leftSize[Len(vols)]
Taken(vols) == {vols[i].node : i \in ScheduledAt(vols)}

-----------------------------------------------------------------------------
(* pickSizeFn: the free bytes or what is left to place, whichever is less, cut
   at the maximum and aligned upwards; 0 when that is below the minimum. *)
pickSize(free, left) ==
  IF Lesser(free, left) < MinSize THEN 0
  ELSE RoundUp(Lesser(Lesser(free, left), MaxSize))

(* Cut a size at what the local-storage line leaves to remote volumes. *)
getAllocatableRemoteVolumeSize(p, size) ==
  LET most == p.total - (p.total * MinLocalPct) \div 100 - p.remote
  IN  IF size = 0 \/ most < 0 THEN 0 ELSE RoundDown(Lesser(most, size))

PickOn(p, left) == getAllocatableRemoteVolumeSize(p, pickSize(p.free, left))

(* BasicFilterFunc for a volume that is remote to every node: what filterNodes
   asks with a fake volume of the minimum size, and what a member volume is
   asked when it is scheduled. *)
BasicFits(p, size) == p.ok /\ p.free >= size /\ p.remoteCnt < MaxRemoteVolumeCount

(* ... and MinLocalStorageFilterFunc. *)
Fits(p, size) ==
  /\ BasicFits(p, size)
  /\ (p.total - p.remote - size) * 100 >= MinLocalPct * p.total

filterNodes(pools) ==
  {n \in DOMAIN pools : Fits(pools[n], MinSize)
                        /\ (AllowEmptyNode \/ pools[n].volumes > 0)}

(* SortByStorage.Less, and the orders sort.Sort(sort.Reverse(..)) may leave. *)
Less(p, q) ==
  \/ p.volumes = 0 /\ q.volumes > 0
  \/ (p.volumes = 0) = (q.volumes = 0) /\ p.free < q.free

SortedNodes(pools) ==
  {ord \in Bijection(1..Cardinality(filterNodes(pools)), filterNodes(pools)) :
     \A i, j \in DOMAIN ord : i < j => ~Less(pools[ord[i]], pools[ord[j]])}

-----------------------------------------------------------------------------
needSchedNext(vols) == Count(vols) < MaxVolCnt /\ Left(vols) > 0

(* Mutant: the nodes of the other entries are not skipped. *)
FirstFit_Reused(pools, ord, vols) ==
  LET I == {i \in DOMAIN ord : PickOn(pools[ord[i]], Left(vols)) > 0}
  IN  IF I # {} THEN Min(I) ELSE 0

(* The first node of the order that is not used by the group and yields a
   size, as an index of ord; 0 when there is none. *)
FirstFit(pools, ord, vols) ==
  LET I == {i \in DOMAIN ord : ord[i] \notin Taken(vols)
                                /\ PickOn(pools[ord[i]], Left(vols)) > 0}
  IN  IF I # {} THEN Min(I) ELSE 0

(* Give the entry id at index i (Len + 1 for a new one) to the first fit. *)
Place(pools, ord, r, i, id) ==
  LET k == FirstFit(pools, ord, r.vols)
  IN  IF k = 0 THEN [r EXCEPT !.err = TRUE]
      ELSE [err |-> FALSE,
            vols |-> [j \in 1..i \cup DOMAIN r.vols |->
                        IF j # i THEN r.vols[j]
                        ELSE [id |-> id, node |-> ord[k],
                              size |-> PickOn(pools[ord[k]], Left(r.vols))]]]

(* One round of the loop over the entries that were rolled back, and of the one
   that adds entries, whose bound MaxVolCnt - cnt shrinks as it counts up.  New
   volumes are numbered from next on, base entries being there before. *)
Refill(pools, ord, r, i) ==
  IF r.err \/ Scheduled(r.vols[i]) \/ ~needSchedNext(r.vols) THEN r
  ELSE Place(pools, ord, r, i, r.vols[i].id)

Extend(pools, ord, r, i, base, next) ==
  IF r.err \/ i > MaxVolCnt - Count(r.vols) \/ ~needSchedNext(r.vols) THEN r
  ELSE Place(pools, ord, r, Len(r.vols) + 1, next + Len(r.vols) - base)

Refilled(pools, ord, vols) ==
  LET after[i \in 0..Len(vols)] ==
        IF i = 0 THEN [vols |-> vols, err |-> FALSE]
        ELSE Refill(pools, ord, after[i - 1], i)
  IN  after[Len(vols)]

Extended(pools, ord, r, base, next) ==
  LET after[i \in 0..MaxVolCnt] ==
        IF i = 0 THEN r ELSE Extend(pools, ord, after[i - 1], i, base, next)
  IN  after[MaxVolCnt]

(* schedVolGroup: first the entries that were rolled back, then new ones; unless
   one of them failed, entries left without a place are dropped. *)
schedVolGroup(pools, ord, vols, next) ==
  LET r == Extended(pools, ord, Refilled(pools, ord, vols), Len(vols), next)
  IN  IF r.err THEN r ELSE [r EXCEPT !.vols = Chosen(r.vols)]

(* ScheduleVolumeGroup: nothing to do once the scheduled sizes reach the total;
   an error when no node qualifies or one entry finds no place. *)
ScheduleVolumeGroup(pools, vols, next) ==
  IF Left(vols) <= 0 THEN {[vols |-> vols, err |-> FALSE]}
  ELSE IF filterNodes(pools) = {} THEN {[vols |-> vols, err |-> TRUE]}
  ELSE {schedVolGroup(pools, ord, vols, next) : ord \in SortedNodes(pools)}

=============================================================================
