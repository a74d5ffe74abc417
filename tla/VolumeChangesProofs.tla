------------------------ MODULE VolumeChangesProofs ------------------------
(***************************************************************************)
(* Proofs about VolumeChanges: whatever the agent, SPDK and the node go    *)
(* through, a created volume keeps its store and its logical volume, a     *)
(* resized lvol has the size that kubelet is told, at most one snapshot is *)
(* served, and a ready snapshot has its logical volume.                    *)
(***************************************************************************)
EXTENDS VolumeChanges, TLAPS

OnFile == stack \in {"lvm", "aio"}
EarlyResize == "earlyResize" \in past
SpdkRestarted == "spdkRestart" \in past

(* Sizes are not empty, and an expansion is one. *)
SizedInv ==
    /\ vol.size > 0 /\ vol.original < vol.size
    /\ held # Nothing => held.size > 0 /\ held.original < held.size

(* What the volume loop has read is the volume, unless it was expanded since. *)
HeldInv ==
    /\ held # Nothing => /\ agent /\ held.stage = vol.stage
                         /\ EarlyResize \/ held = vol \/ vol.original > 0
    /\ vol.stage = "new" /\ ~EarlyResize => vol.original = 0
    /\ vol.original > 0 => resizing

(* The medium.  On a file the store is never lost and never read in the wrong
   order; in memory and on a RAID it is only after a restart of SPDK. *)
MediumInv ==
    /\ OnFile => /\ ~media.swapped
                 /\ agent \/ lv > 0 \/ snapLv > 0 => media.store
    /\ ~OnFile /\ ~SpdkRestarted =>
          /\ ~media.swapped /\ (media.store => media.base)
          /\ snapLv > 0 => media.store

(* The volume is there, and what is seen of an lvol is its size. *)
VolumeInv ==
    /\ OnFile /\ vol.stage # "new" => lv > 0
    /\ ~Lvm /\ bdev # 0 => Online /\ bdev = lv
    /\ ~Lvm /\ ~EarlyResize /\ lv # 0 /\ vol.original = 0 => lv = vol.size
    /\ ResizedAsAsked

(* Outside of what is promised of snapshots. *)
Exempt == \/ "mergedDeleted" \in past \/ "ownLabels" \in past
          \/ ~OnFile /\ SpdkRestarted

(* In work or in use, with its origin's label. *)
Served(o) == o.there /\ o.bound /\ o.status # "merged" /\ o.labels = "origin"

(* Cut by the agent, and neither merged nor deleted since. *)
Uses(o) == o.finalizer /\ o.status \in {"creating", "ready"} /\ ~o.deleting

(* Only a snapshot that is bound is worked on, and only one in creation is cut. *)
ObjectInv(o, rare) ==
    /\ o.there => o.size > 0
    /\ o.bound => o.there /\ o.labels # "none"
    /\ o.status # "" => o.bound
    /\ o.finalizer => o.status # ""
    /\ o.labels = "own" => "ownLabels" \in rare
    /\ o.status = "merged" /\ o.deleting => "mergedDeleted" \in rare
    /\ o.status = "ready" /\ ~o.deleting => o.finalizer

(* Neither a deletion nor a merge of a snapshot with the finalizer is taken back,
   and only the agent ends them. *)
Advances(c, o) ==
    c.finalizer /\ c.status # "merged" =>
        /\ o.finalizer /\ o.status # "merged"
        /\ c.deleting => o.deleting
        /\ c.status = "merging" => o.status = "merging"

(* A snapshot that is cut has its logical volume. *)
CutInv == \A s \in Snapshots : Uses(snap[s]) => snapLv > 0 \/ Exempt

(* What the snapshot loop has read. *)
HeldSnapInv ==
    heldSnap # NotHeld =>
        /\ heldSnap.of \in Snapshots /\ agent /\ pool
        /\ heldSnap.copy.bound /\ ObjectInv(heldSnap.copy, past)
        /\ Advances(heldSnap.copy, snap[heldSnap.of])

SnapInv ==
    /\ OneSnapshotServed /\ CutInv /\ HeldSnapInv
    /\ \A s \in Snapshots : ObjectInv(snap[s], past)

IInv == TypeOK /\ SizedInv /\ HeldInv /\ MediumInv /\ VolumeInv /\ SnapInv

-----------------------------------------------------------------------------
(* Building the pool. *)

LEMMA StackCases ==
    ASSUME stack \in Stacks
    PROVE  /\ stack \in {"lvm", "aio", "mem", "raid"}
           /\ OnFile <=> stack = "lvm" \/ stack = "aio"
           /\ Lvm <=> stack = "lvm"
BY StacksAssumption, Zenon DEF OnFile, Lvm

LEMMA NoMediaType == NoMedia \in Media
BY Zenon DEF NoMedia, Media

LEMMA CreateLVStoreResult ==
    ASSUME NEW m \in Media
    PROVE  /\ CreateLVStore(m).media \in Media /\ CreateLVStore(m).ok = TRUE
           /\ CreateLVStore(m).fresh = ~(m.store /\ ~m.swapped)
           /\ CreateLVStore(m).media.base = m.base
           /\ CreateLVStore(m).media.store = TRUE
           /\ CreateLVStore(m).media.swapped = FALSE
<1>1. CASE m.store /\ ~m.swapped
  <2>1. CreateLVStore(m) = Outcome(m, TRUE, FALSE)
    BY <1>1, Zenon DEF CreateLVStore
  <2>2. m.store = TRUE /\ m.swapped = FALSE
    BY <1>1, Zenon DEF Media
  <2>3. /\ CreateLVStore(m).media = m /\ CreateLVStore(m).ok = TRUE
        /\ CreateLVStore(m).fresh = FALSE
    BY <2>1 DEF Outcome
  <2> QED BY <1>1, <2>2, <2>3, Zenon
<1>2. CASE ~(m.store /\ ~m.swapped)
  <2> DEFINE w == [m EXCEPT !.store = TRUE, !.swapped = FALSE]
  <2>1. CreateLVStore(m) = Outcome(w, TRUE, TRUE)
    BY <1>2, Zenon DEF CreateLVStore
  <2>2. w \in Media /\ w.base = m.base /\ w.store = TRUE /\ w.swapped = FALSE
    BY Zenon DEF Media
  <2> HIDE DEF w
  <2>3. /\ CreateLVStore(m).media = w /\ CreateLVStore(m).ok = TRUE
        /\ CreateLVStore(m).fresh = TRUE
    BY <2>1 DEF Outcome
  <2> QED BY <1>2, <2>2, <2>3, Zenon
<1> QED BY <1>1, <1>2, Zenon

(* What a start of the agent makes of the medium: on a file the store stays, and
   is written anew only where there was none; a store that is loaded is used. *)
Built(m, b) ==
    /\ b.media \in Media /\ b.ok \in BOOLEAN /\ b.fresh \in BOOLEAN
    /\ OnFile /\ ~m.swapped =>
          /\ ~b.media.swapped
          /\ m.store => b.media.store
          /\ b.ok => b.media.store
          /\ b.fresh => ~m.store
    /\ ~Lvm /\ m.base /\ m.store /\ ~m.swapped =>
          b.media.base /\ b.media.store /\ ~b.media.swapped /\ ~b.fresh
    /\ ~OnFile /\ ~m.swapped /\ (m.store => m.base) =>
          /\ ~b.media.swapped /\ b.media.base
          /\ b.fresh => ~m.store
          /\ m.store => b.media.store

LEMMA BuildLVMResult ==
    ASSUME stack = "lvm", NEW m \in Media
    PROVE  Built(m, BuildLVM(m))
<1>0. OnFile /\ Lvm
  BY Zenon DEF OnFile, Lvm
<1>1. CASE PoolInfo(m)
  <2>1. BuildLVM(m) = Outcome(m, TRUE, FALSE) /\ m.store
    BY <1>1, Zenon DEF BuildLVM, PoolInfo
  <2>2. /\ BuildLVM(m).media = m /\ BuildLVM(m).ok = TRUE
        /\ BuildLVM(m).fresh = FALSE
    BY <2>1 DEF Outcome
  <2> QED BY <1>0, <2>1, <2>2, Zenon DEF Built
<1>2. CASE ~PoolInfo(m)
  <2> DEFINE d == LoopDevices(m)
             w == [d EXCEPT !.store = TRUE]
  <2>1. BuildLVM(m) = CreateVG(d)
    BY <1>2, Zenon DEF BuildLVM
  <2>2. d \in Media /\ d.store = m.store /\ d.swapped = m.swapped
    BY Zenon DEF LoopDevices, Media
  <2> HIDE DEF d
  <2>3. w \in Media /\ w.store = TRUE /\ w.swapped = d.swapped
    BY <2>2, Zenon DEF Media
  <2>4. CreateVG(d) = IF d.store \/ d.short THEN Outcome(d, FALSE, FALSE) ELSE Outcome(w, TRUE, TRUE)
    BY Zenon DEF CreateVG
  <2> HIDE DEF w
  <2>5. CASE d.store \/ d.short
    <3>1. /\ BuildLVM(m).media = d /\ BuildLVM(m).ok = FALSE
          /\ BuildLVM(m).fresh = FALSE
      BY <2>1, <2>4, <2>5 DEF Outcome
    <3> QED BY <1>0, <2>2, <3>1, Zenon DEF Built
  <2>6. CASE ~(d.store \/ d.short)
    <3>1. /\ BuildLVM(m).media = w /\ BuildLVM(m).ok = TRUE
          /\ BuildLVM(m).fresh = TRUE
      BY <2>1, <2>4, <2>6 DEF Outcome
    <3> QED BY <1>0, <2>2, <2>3, <2>6, <3>1, Zenon DEF Built
  <2> QED BY <2>5, <2>6, Zenon
<1> QED BY <1>1, <1>2, Zenon

(* The base bdev is built without touching the store; on a RAID it may come back
   in another order. *)
Based(m, b) ==
    /\ b.media \in Media /\ b.ok \in BOOLEAN /\ b.fresh = FALSE
    /\ b.media.store = m.store
    /\ b.media.swapped = m.swapped \/ (stack = "raid" /\ ~m.base /\ (m.store \/ ~b.media.swapped))
    /\ m.base => b.media = m
    /\ stack # "aio" => b.ok = TRUE /\ b.media.base = TRUE

LEMMA LvsBaseResult ==
    ASSUME stack \in {"aio", "mem", "raid"}, NEW m \in Media, NEW b \in LvsBase(m)
    PROVE  Based(m, b)
<1>0. m.base \in BOOLEAN /\ m.short \in BOOLEAN /\ m.file \in BOOLEAN /\ m.store \in BOOLEAN
  BY Zenon DEF Media
<1>1. CASE stack = "aio"
  <2>1. b = LvsAioBdev(m)
    BY <1>1, Zenon DEF LvsBase
  <2>2. CASE m.base
    <3>1. b = Outcome(m, TRUE, FALSE)
      BY <2>1, <2>2, Zenon DEF LvsAioBdev
    <3>2. b.media = m /\ b.ok = TRUE /\ b.fresh = FALSE
      BY <3>1, Zenon DEF Outcome
    <3> QED BY <1>1, <3>2, Zenon DEF Based
  <2>3. CASE ~m.base
    <3> DEFINE w == [m EXCEPT !.file = TRUE, !.base = ~m.short]
    <3>1. b = Outcome(w, ~m.file, FALSE)
      BY <2>1, <2>3, Zenon DEF LvsAioBdev
    <3>2. w \in Media /\ w.store = m.store /\ w.swapped = m.swapped
      BY <1>0, Zenon DEF Media
    <3> HIDE DEF w
    <3>3. b.media = w /\ b.ok = ~m.file /\ b.fresh = FALSE
      BY <3>1, Zenon DEF Outcome
    <3> QED BY <1>0, <1>1, <2>3, <3>2, <3>3, Zenon DEF Based
  <2> QED BY <2>2, <2>3, Zenon
<1>2. CASE stack = "mem"
  <2> DEFINE w == [m EXCEPT !.base = TRUE]
  <2>1. b = Outcome(w, TRUE, FALSE)
    BY <1>2, Zenon DEF LvsBase, LvsMemBdev
  <2>2. w \in Media /\ w.store = m.store /\ w.swapped = m.swapped /\ w.base = TRUE
    BY Zenon DEF Media
  <2>3. m.base => w = m
    BY <1>0, Zenon DEF Media
  <2> HIDE DEF w
  <2>4. b.media = w /\ b.ok = TRUE /\ b.fresh = FALSE
    BY <2>1, Zenon DEF Outcome
  <2> QED BY <2>2, <2>3, <2>4, Zenon DEF Based
<1>3. CASE stack = "raid"
  <2>1. PICK x \in AttachNVMe(m) : b = Outcome(x, TRUE, FALSE)
    BY <1>3, Zenon DEF LvsBase, LvsRaidBdev, CreateBdevRaid
  <2>2. CASE m.base
    <3>1. x = m /\ m.base = TRUE
      BY <1>0, <2>1, <2>2, Zenon DEF AttachNVMe
    <3>2. b.media = m /\ b.ok = TRUE /\ b.fresh = FALSE
      BY <2>1, <3>1, Zenon DEF Outcome
    <3> QED BY <3>1, <3>2, Zenon DEF Based
  <2>3. CASE ~m.base
    <3>1. PICK y \in BOOLEAN : x = [m EXCEPT !.base = TRUE, !.swapped = m.store /\ y]
      BY <2>1, <2>3, Zenon DEF AttachNVMe
    <3>2. /\ x \in Media /\ x.store = m.store /\ x.base = TRUE
          /\ x.swapped = (m.store /\ y)
      BY <1>0, <3>1, Zenon DEF Media
    <3>3. x.swapped => m.store
      BY <3>2, Zenon
    <3>4. b.media = x /\ b.ok = TRUE /\ b.fresh = FALSE
      BY <2>1, Zenon DEF Outcome
    <3> QED BY <1>3, <2>3, <3>2, <3>3, <3>4, Zenon DEF Based
  <2> QED BY <2>2, <2>3, Zenon
<1> QED BY <1>1, <1>2, <1>3, Zenon

LEMMA BuildResult ==
    ASSUME stack \in Stacks, NEW m \in Media, NEW b \in Build(m)
    PROVE  Built(m, b)
<1>1. CASE stack = "lvm"
  BY <1>1, BuildLVMResult, Zenon DEF Build
<1>2. CASE stack # "lvm"
  <2>0. stack \in {"aio", "mem", "raid"} /\ ~Lvm /\ (OnFile <=> stack = "aio")
    BY <1>2, StackCases, Zenon
  <2>1. PICK a \in LvsBase(m) : b = IF a.ok THEN CreateLVStore(a.media) ELSE a
    BY <1>2, Zenon DEF Build, BuildSpdkLVS
  <2>2. Based(m, a)
    BY <2>0, LvsBaseResult, Zenon
  <2>3. CASE a.ok
    <3>1. b = CreateLVStore(a.media)
      BY <2>1, <2>3, Zenon
    <3>2. /\ b.media \in Media /\ b.ok = TRUE /\ b.fresh = ~(a.media.store /\ ~a.media.swapped)
          /\ b.media.base = a.media.base /\ b.media.store = TRUE /\ b.media.swapped = FALSE
      BY <2>2, <3>1, CreateLVStoreResult, Zenon DEF Based
    <3>3. b.fresh \in BOOLEAN
      BY <3>2, Zenon
    <3>4. OnFile /\ ~m.swapped => (b.fresh => ~m.store)
      BY <2>0, <2>2, <3>2, Zenon DEF Based
    <3>5. m.base /\ m.store /\ ~m.swapped => b.media.base /\ ~b.fresh
      BY <2>2, <3>2, Zenon DEF Based
    <3>6. ~OnFile /\ ~m.swapped /\ (m.store => m.base) => b.media.base /\ (b.fresh => ~m.store)
      BY <2>0, <2>2, <3>2, Zenon DEF Based
    <3> QED BY <3>2, <3>3, <3>4, <3>5, <3>6, Zenon DEF Built
  <2>4. CASE ~a.ok
    <3>1. b = a /\ stack = "aio" /\ OnFile
      BY <2>0, <2>1, <2>2, <2>4, Zenon DEF Based
    <3>2. b.media.store = m.store /\ b.media.swapped = m.swapped /\ b.media \in Media
          /\ b.ok \in BOOLEAN /\ ~b.ok /\ b.fresh = FALSE /\ (m.base => b.media = m)
      BY <2>2, <2>4, <3>1, Zenon DEF Based
    <3> QED BY <3>1, <3>2, Zenon DEF Built
  <2> QED BY <2>3, <2>4, Zenon
<1> QED BY <1>1, <1>2, Zenon

-----------------------------------------------------------------------------
(* Types. *)

Lengths == 0..(Capacity + MaxSize)
HeldSnaps == [of : Snapshots \cup {"none"}, copy : AntstorSnapshots]

Room == Lvm => lv + snapLv \in 0..Capacity

LEMMA TypeParts ==
    TypeOK <=> /\ stack \in Stacks /\ agent \in BOOLEAN /\ remote \in BOOLEAN /\ pool \in BOOLEAN
               /\ resizing \in BOOLEAN /\ open \in BOOLEAN
               /\ vol \in Volumes /\ held \in Volumes
               /\ lv \in 0..Capacity /\ reported \in 0..Capacity
               /\ bdev \in Lengths /\ fs \in Lengths /\ snapLv \in Lengths
               /\ media \in Media /\ Room
               /\ snap \in [Snapshots -> AntstorSnapshots] /\ heldSnap \in HeldSnaps
               /\ past \subseteq Rare /\ calls \in 0..MaxCalls /\ faults \in 0..MaxFaults
BY Zenon DEF TypeOK, Lengths, HeldSnaps, Room

LEMMA PrimedTypeParts ==
    ASSUME stack' \in Stacks, agent' \in BOOLEAN, remote' \in BOOLEAN, pool' \in BOOLEAN,
           resizing' \in BOOLEAN, open' \in BOOLEAN, vol' \in Volumes, held' \in Volumes,
           lv' \in 0..Capacity, reported' \in 0..Capacity,
           bdev' \in Lengths, fs' \in Lengths, snapLv' \in Lengths, media' \in Media, Room',
           snap' \in [Snapshots -> AntstorSnapshots], heldSnap' \in HeldSnaps,
           past' \subseteq Rare, calls' \in 0..MaxCalls, faults' \in 0..MaxFaults
    PROVE  TypeOK'
BY Zenon DEF TypeOK, Lengths, HeldSnaps, Room

LEMMA Sizes ==
    /\ Capacity \in Nat /\ MaxSize \in Nat /\ MaxSize > 0 /\ MaxCalls \in Nat /\ MaxFaults \in Nat
    /\ 0 \in 0..Capacity /\ 0 \in Lengths /\ 0 \in 0..MaxSize /\ 1 \in 0..MaxSize
    /\ 0..Capacity \subseteq Lengths /\ 0..MaxSize \subseteq Lengths
BY ChangesAssumption DEF Lengths

LEMMA FaultType ==
    ASSUME faults \in 0..MaxFaults, Fault
    PROVE  faults' \in 0..MaxFaults
BY Sizes DEF Fault

LEMMA CallType ==
    ASSUME calls \in 0..MaxCalls, Call
    PROVE  calls' \in 0..MaxCalls
BY Sizes DEF Call

LEMMA HappensType ==
    ASSUME past \subseteq Rare, NEW e \in Rare, NEW c, Happens(e, c)
    PROVE  past' \subseteq Rare /\ past \subseteq past' /\ (c => e \in past')
           /\ \A x : x \in past' => x \in past \/ (c /\ x = e)
BY Zenon DEF Happens

LEMMA Literals ==
    /\ NewVolume \in Volumes /\ NewVolume.size = 1 /\ NewVolume.original = 0 /\ NewVolume.stage = "new"
    /\ Nothing \in Volumes /\ Nothing.size = 0
    /\ NoSnapshot \in AntstorSnapshots /\ NotHeld \in HeldSnaps
<1>1. NewVolume \in Volumes
  BY Sizes, Zenon DEF NewVolume, Volumes
<1>2. NewVolume.size = 1 /\ NewVolume.original = 0 /\ NewVolume.stage = "new"
  BY Zenon DEF NewVolume
<1>3. Nothing \in Volumes /\ Nothing.size = 0
  BY <1>1, Sizes, Zenon DEF Nothing, Volumes
<1>4. NoSnapshot \in AntstorSnapshots
  BY Sizes, Zenon DEF NoSnapshot, AntstorSnapshots
<1>5. NotHeld \in HeldSnaps
  BY <1>4, Zenon DEF NotHeld, HeldSnaps
<1> QED BY <1>1, <1>2, <1>3, <1>4, <1>5

LEMMA FreeType ==
    ASSUME TypeOK
    PROVE  /\ Free \in 0..Capacity
           /\ Lvm => Free = Capacity - lv - snapLv
           /\ ~Lvm => Free = Capacity - lv
<1>1. lv \in 0..Capacity /\ snapLv \in Lengths /\ (Lvm => lv + snapLv \in 0..Capacity)
  BY TypeParts, Zenon DEF Room
<1> QED BY <1>1, Sizes DEF Free, Lengths

-----------------------------------------------------------------------------
(* A step that leaves the snapshots alone. *)

LEMMA RareMore ==
    ASSUME NEW o, NEW r, NEW q, r \subseteq q, ObjectInv(o, r)
    PROVE  ObjectInv(o, q)
BY Zenon DEF ObjectInv

LEMMA SnapKept ==
    ASSUME SnapInv, UNCHANGED <<snap, stack>>, past \subseteq past',
           snapLv > 0 => snapLv' > 0 \/ Exempt',
           heldSnap' = NotHeld \/ (heldSnap' = heldSnap /\ (agent => agent') /\ (pool => pool'))
    PROVE  SnapInv'
<1>1. Exempt => Exempt'
  BY Zenon DEF Exempt, OnFile, SpdkRestarted
<1>2. OneSnapshotServed'
  BY Zenon DEF SnapInv, OneSnapshotServed
<1>3. ASSUME NEW s \in Snapshots PROVE ObjectInv(snap[s], past)'
  <2>1. ObjectInv(snap[s], past)
    BY Zenon DEF SnapInv
  <2> QED BY <2>1, RareMore, Zenon
<1>5. CutInv'
  BY <1>1, Zenon DEF SnapInv, CutInv
<1>4. HeldSnapInv'
  <2>1. HeldSnapInv
    BY Zenon DEF SnapInv
  <2>2. CASE heldSnap' = NotHeld
    BY <2>2, Zenon DEF HeldSnapInv
  <2>3. CASE heldSnap' = heldSnap /\ (agent => agent') /\ (pool => pool')
    BY <2>1, <2>3, RareMore, Zenon DEF HeldSnapInv
  <2> QED BY <2>2, <2>3, Zenon
<1> QED BY <1>2, <1>3, <1>4, <1>5, Zenon DEF SnapInv

(* A step that leaves the medium alone. *)
LEMMA MediumKept ==
    ASSUME MediumInv, UNCHANGED <<stack, media>>, past \subseteq past', agent' => agent,
           lv' > 0 => lv > 0 \/ agent,
           snapLv' > 0 => snapLv > 0 \/ (agent /\ Lvm) \/ Online
    PROVE  MediumInv'
<1>1. Lvm => OnFile
  BY Zenon DEF Lvm, OnFile
<1>2. SpdkRestarted => SpdkRestarted'
  BY Zenon DEF SpdkRestarted
<1>3. OnFile' = OnFile
  BY Zenon DEF OnFile
<1> QED BY <1>1, <1>2, <1>3, Zenon DEF MediumInv, Online

-----------------------------------------------------------------------------
(* The agent's volume loop. *)

LEMMA VolumeWrites ==
    ASSUME NEW v \in Volumes, NEW g \in {"new", "created", "exposed", "ready"}
    PROVE  /\ [v EXCEPT !.original = 0] \in Volumes
           /\ [v EXCEPT !.original = 0].size = v.size
           /\ [v EXCEPT !.original = 0].original = 0
           /\ [v EXCEPT !.original = 0].stage = v.stage
           /\ [v EXCEPT !.stage = g] \in Volumes
           /\ [v EXCEPT !.stage = g].size = v.size
           /\ [v EXCEPT !.stage = g].original = v.original
           /\ [v EXCEPT !.stage = g].stage = g
BY Sizes, Zenon DEF Volumes

LEMMA VolumeFields ==
    ASSUME NEW v \in Volumes
    PROVE  v.size \in 0..MaxSize /\ v.original \in 0..MaxSize
BY Zenon DEF Volumes

LEMMA ExpandResult ==
    ASSUME TypeOK, NEW c \in Volumes, c.original < c.size, NEW x \in EngineExpand(c)
    PROVE  /\ x \in 0..Capacity
           /\ Lvm => c.stage # "new" /\ lv > 0 /\ x > 0 /\ x + snapLv \in 0..Capacity
           /\ ~Lvm /\ c.stage # "new" => x = c.size /\ lv # 0
           /\ ~Lvm /\ c.stage = "new" => x = lv
<1>1. lv \in 0..Capacity /\ snapLv \in Lengths
  BY TypeParts, Zenon
<1>2. c.size \in 0..MaxSize /\ c.original \in 0..MaxSize
  BY VolumeFields, Zenon
<1>3. CASE Lvm
  <2>1. c.stage # "new" /\ x \in LvmExpandVolume(lv, c.size, c.original, Free)
    BY <1>3, Zenon DEF EngineExpand
  <2>2. x = lv + (c.size - c.original) /\ lv > 0 /\ c.size - c.original <= Free
    BY <2>1, Zenon DEF LvmExpandVolume, Lvextend, Only
  <2>3. Free = Capacity - lv - snapLv
    BY <1>3, FreeType, Zenon
  <2> QED BY <1>1, <1>2, <1>3, <2>1, <2>2, <2>3, Sizes DEF Lengths
<1>4. CASE ~Lvm /\ c.stage = "new"
  BY <1>1, <1>4, Zenon DEF EngineExpand
<1>5. CASE ~Lvm /\ c.stage # "new"
  <2>1. x \in ResizeLvol(lv, c.size, c.original, Free, Online)
    BY <1>5, Zenon DEF EngineExpand
  <2>2. x = c.size /\ lv # 0 /\ c.size <= lv + Free
    BY <2>1, Zenon DEF ResizeLvol, Only
  <2>3. Free = Capacity - lv
    BY <1>5, FreeType, Zenon
  <2> QED BY <1>1, <1>2, <1>5, <2>2, <2>3, Sizes
<1> QED BY <1>3, <1>4, <1>5, Zenon

LEMMA CreateResult ==
    ASSUME TypeOK, NEW size \in 0..MaxSize, size > 0, NEW x \in EngineCreate(size)
    PROVE  /\ x \in 0..Capacity /\ x > 0
           /\ Lvm => x + snapLv \in 0..Capacity
           /\ ~Lvm => x = IF lv # 0 THEN lv ELSE size
<1>1. lv \in 0..Capacity /\ snapLv \in Lengths /\ (Lvm => lv + snapLv \in 0..Capacity)
  BY TypeParts, Zenon DEF Room
<1>2. CASE Lvm
  <2>1. x \in Allocate(lv, size, Free)
    BY <1>2, Zenon DEF EngineCreate, LvmCreateVolume
  <2>2. Free = Capacity - lv - snapLv
    BY <1>2, FreeType, Zenon
  <2>3. (lv # 0 /\ x = lv) \/ (lv = 0 /\ x = size /\ size <= Free)
    BY <2>1, Zenon DEF Allocate, isVolumeExistent, ListLVInVG, CreateLinearLV, CreateStripeLV, Only
  <2> QED BY <1>1, <1>2, <2>2, <2>3, Sizes DEF Lengths
<1>3. CASE ~Lvm
  <2>1. x \in CreateLvol(lv, size, Free, Online)
    BY <1>3, Zenon DEF EngineCreate
  <2>2. Free = Capacity - lv
    BY <1>3, FreeType, Zenon
  <2>3. (lv # 0 /\ x = lv) \/ (lv = 0 /\ x = size /\ size <= Free)
    BY <2>1, Zenon DEF CreateLvol, Only
  <2> QED BY <1>1, <1>3, <2>2, <2>3, Sizes
<1> QED BY <1>2, <1>3, Zenon

(* The pass ends with the copy it has read given up, and the volume as it was or
   as written. *)
Ended(new) ==
    /\ held' = Nothing
    /\ vol' = vol \/ (vol = held /\ vol' = new)
    /\ UNCHANGED faults \/ Fault

LEMMA UpdateVolumeEnds ==
    ASSUME NEW new, UpdateVolume(new)
    PROVE  Ended(new)
BY Zenon DEF UpdateVolume, Ended

(* The pass acts on the engine and writes what it has read, with the label of the
   expansion gone. *)
LEMMA LoopKeeps ==
    ASSUME IInv, held # Nothing, UNCHANGED notVolume,
           NEW new \in Volumes, new.size = held.size, new.original = 0, Ended(new),
           lv' \in 0..Capacity, Lvm => lv' + snapLv \in 0..Capacity, bdev' \in Lengths,
           OnFile /\ vol'.stage # "new" => lv' > 0,
           ~Lvm /\ bdev' # 0 => Online /\ bdev' = lv',
           ~Lvm /\ ~EarlyResize /\ lv' # 0 /\ vol'.original = 0 => lv' = vol'.size
    PROVE  IInv'
<1>1. /\ UNCHANGED <<stack, agent, media, remote, pool, reported, resizing, fs, open, past, calls>>
      /\ UNCHANGED <<snap, snapLv, heldSnap>>
  BY Zenon DEF notVolume, poolVars, where, snapVars
<1>2. /\ held' = Nothing
      /\ vol' = vol \/ (vol = held /\ vol' = new)
      /\ UNCHANGED faults \/ Fault
  BY Zenon DEF Ended
<1>3. faults' \in 0..MaxFaults
  BY <1>2, TypeParts, FaultType, Zenon DEF IInv
<1>4. /\ vol' \in Volumes /\ held' \in Volumes
      /\ vol'.size = vol.size /\ (vol' = vol \/ vol'.original = 0)
  BY <1>2, TypeParts, Literals, Zenon DEF IInv
<1>5. TypeOK'
  <2>1. Room'
    BY <1>1, Zenon DEF Room, Lvm
  <2> QED BY <1>1, <1>3, <1>4, <2>1, TypeParts, PrimedTypeParts, Zenon DEF IInv
<1>6. SizedInv'
  <2>1. vol'.size > 0 /\ (vol'.original = 0 => vol'.original < vol'.size)
    <3>1. vol'.size \in 0..MaxSize /\ vol.size > 0
      BY <1>4, VolumeFields, Zenon DEF IInv, SizedInv
    <3> QED BY <1>4, <3>1, Sizes
  <2> QED BY <1>2, <1>4, <2>1, Zenon DEF SizedInv, IInv
<1>7. HeldInv'
  <2>1. vol'.original > 0 => vol' = vol
    BY <1>4
  <2>2. vol' # vol => vol'.original = 0
    BY <1>4, Zenon
  <2> QED BY <1>1, <1>2, <2>1, <2>2, Zenon DEF HeldInv, IInv, EarlyResize
<1>8. MediumInv'
  <2>1. agent
    BY Zenon DEF IInv, HeldInv
  <2> QED BY <1>1, <2>1, MediumKept, Zenon DEF IInv
<1>9. VolumeInv'
  <2>1. ResizedAsAsked'
    BY <1>1, <1>4, Zenon DEF ResizedAsAsked, IInv, VolumeInv, Lvm
  <2> QED BY <1>1, <2>1, Zenon DEF VolumeInv, OnFile, Lvm, EarlyResize, Online
<1>10. SnapInv'
  BY <1>1, SnapKept, Zenon DEF IInv
<1> QED BY <1>5, <1>6, <1>7, <1>8, <1>9, <1>10, Zenon DEF IInv

LEMMA HeldFacts ==
    ASSUME IInv, held.original > 0 \/ held.stage # "new" \/ held # Nothing
    PROVE  /\ held # Nothing /\ held \in Volumes /\ held.size \in 0..MaxSize /\ held.size > 0
           /\ held.original < held.size /\ held.stage = vol.stage
           /\ EarlyResize \/ held = vol \/ vol.original > 0
           /\ vol.stage = "new" /\ ~EarlyResize => vol.original = 0
<1>1. Nothing.original = 0 /\ Nothing.stage = "new"
  BY Literals, Zenon DEF Nothing, Volumes
<1>2. ~(0 > 0)
  OBVIOUS
<1>3. held # Nothing
  BY <1>1, <1>2, Zenon
<1>4. held \in Volumes
  BY TypeParts, Zenon DEF IInv
<1> QED BY <1>3, <1>4, VolumeFields, Zenon DEF IInv, SizedInv, HeldInv

LEMMA VolumeFacts ==
    ASSUME IInv
    PROVE  /\ vol \in Volumes /\ vol.original \in 0..MaxSize /\ vol.size \in 0..MaxSize
           /\ lv \in 0..Capacity /\ bdev \in Lengths /\ snapLv \in Lengths
           /\ Lvm => lv + snapLv \in 0..Capacity
           /\ OnFile /\ vol.stage # "new" => lv > 0
           /\ ~Lvm /\ bdev # 0 => Online /\ bdev = lv
           /\ ~Lvm /\ ~EarlyResize /\ lv # 0 /\ vol.original = 0 => lv = vol.size
BY TypeParts, VolumeFields, Zenon DEF IInv, VolumeInv, Room

LEMMA ExpandKeeps == ASSUME IInv, Expand PROVE IInv'
<1> DEFINE new == [held EXCEPT !.original = 0]
<1>1. /\ held.original > 0 /\ lv' \in EngineExpand(held) /\ UNCHANGED notVolume
      /\ \/ Lvm /\ held' = Nothing /\ UNCHANGED <<vol, bdev, faults>>
         \/ Lvm /\ bdev' \in ResizeAioBdev(held.size) /\ UpdateVolume(new)
         \/ bdev' \in (IF bdev # 0 THEN {lv'} ELSE {bdev}) /\ UpdateVolume(new)
  BY Zenon DEF Expand
<1>2. /\ held # Nothing /\ held \in Volumes /\ held.size \in 0..MaxSize /\ held.size > 0
      /\ held.original < held.size /\ held.stage = vol.stage
      /\ EarlyResize \/ held = vol \/ vol.original > 0
      /\ vol.stage = "new" /\ ~EarlyResize => vol.original = 0
  BY <1>1, HeldFacts, Zenon
<1>3. new \in Volumes /\ new.size = held.size /\ new.original = 0 /\ new.stage = held.stage
  BY <1>2, VolumeWrites, Zenon
<1> HIDE DEF new
<1>4. Ended(new)
  BY <1>1, UpdateVolumeEnds, Zenon DEF Ended
<1>5. /\ lv' \in 0..Capacity
      /\ Lvm => lv > 0 /\ lv' > 0 /\ lv' + snapLv \in 0..Capacity
      /\ ~Lvm /\ held.stage # "new" => lv' = held.size /\ lv # 0
      /\ ~Lvm /\ held.stage = "new" => lv' = lv
  BY <1>1, <1>2, ExpandResult, Zenon DEF IInv
<1>6. bdev' \in Lengths /\ (~Lvm => (bdev' # 0 => bdev # 0 /\ bdev' = lv'))
  <2>1. CASE Lvm /\ UNCHANGED bdev
    BY <2>1, VolumeFacts, Zenon
  <2>2. CASE Lvm /\ bdev' \in ResizeAioBdev(held.size)
    BY <1>2, <2>2, Sizes, Zenon DEF ResizeAioBdev, Only
  <2>3. CASE bdev' \in (IF bdev # 0 THEN {lv'} ELSE {bdev})
    <3>1. (bdev # 0 /\ bdev' = lv') \/ (bdev = 0 /\ bdev' = 0)
      BY <2>3, Zenon
    <3> QED BY <1>5, <3>1, Sizes, Zenon
  <2> QED BY <1>1, <2>1, <2>2, <2>3, Zenon
<1>7. vol'.stage = held.stage /\ (vol' = vol \/ vol' = new)
  BY <1>2, <1>3, <1>4, Zenon DEF Ended
<1>8. OnFile /\ vol'.stage # "new" => lv' > 0
  <2>1. CASE Lvm
    BY <1>5, <2>1, Zenon
  <2>2. CASE ~Lvm
    BY <1>2, <1>5, <1>7, <2>2, Zenon
  <2> QED BY <2>1, <2>2, Zenon
<1>9. ~Lvm /\ bdev' # 0 => Online /\ bdev' = lv'
  BY <1>6, VolumeFacts, Zenon
<1>10. ~Lvm /\ ~EarlyResize /\ lv' # 0 /\ vol'.original = 0 => lv' = vol'.size
  <2> SUFFICES ASSUME ~Lvm, ~EarlyResize, vol'.original = 0 PROVE lv' = vol'.size
    BY Zenon
  <2>1. vol.original > 0
    BY <1>1, <1>2, Zenon
  <2>2. vol' = new /\ held.stage # "new"
    <3>1. vol.original # 0
      BY <2>1, VolumeFacts
    <3> QED BY <1>2, <1>7, <3>1, Zenon
  <2> QED BY <1>3, <1>5, <2>2, Zenon
<1> QED BY <1>1, <1>2, <1>3, <1>4, <1>5, <1>6, <1>8, <1>9, <1>10, LoopKeeps, Zenon

LEMMA CreateKeeps == ASSUME IInv, Create PROVE IInv'
<1> DEFINE new == [held EXCEPT !.stage = "created"]
<1>1. /\ held # Nothing /\ held.original = 0 /\ held.stage = "new"
      /\ lv' \in EngineCreate(held.size) /\ UpdateVolume(new)
      /\ UNCHANGED notVolume /\ bdev' = bdev
  BY Zenon DEF Create
<1>2. /\ held \in Volumes /\ held.size \in 0..MaxSize /\ held.size > 0
      /\ held.stage = vol.stage
      /\ EarlyResize \/ held = vol \/ vol.original > 0
      /\ vol.stage = "new" /\ ~EarlyResize => vol.original = 0
  BY <1>1, HeldFacts, Zenon
<1>3. new \in Volumes /\ new.size = held.size /\ new.original = 0
  BY <1>1, <1>2, VolumeWrites, Zenon
<1> HIDE DEF new
<1>4. Ended(new)
  BY <1>1, UpdateVolumeEnds, Zenon
<1>5. /\ lv' \in 0..Capacity /\ lv' > 0
      /\ Lvm => lv' + snapLv \in 0..Capacity
      /\ ~Lvm => lv' = IF lv # 0 THEN lv ELSE held.size
  BY <1>1, <1>2, CreateResult, Zenon DEF IInv
<1>6. ~Lvm /\ bdev' # 0 => Online /\ bdev' = lv'
  BY <1>1, <1>5, VolumeFacts, Zenon
<1>7. ~Lvm /\ ~EarlyResize => lv' = vol'.size
  <2> SUFFICES ASSUME ~Lvm, ~EarlyResize PROVE lv' = vol'.size
    BY Zenon
  <2>1. vol.original = 0 /\ held = vol
    <3>1. vol.original = 0
      BY <1>1, <1>2, Zenon
    <3>2. ~(0 > 0)
      OBVIOUS
    <3> QED BY <1>2, <3>1, <3>2, Zenon
  <2>2. vol'.size = vol.size
    BY <1>3, <1>4, <2>1, Zenon DEF Ended
  <2> QED BY <1>5, <2>1, <2>2, VolumeFacts, Zenon
<1>8. bdev' \in Lengths
  BY <1>1, VolumeFacts, Zenon
<1> QED BY <1>1, <1>2, <1>3, <1>4, <1>5, <1>6, <1>7, <1>8, LoopKeeps, Zenon

LEMMA PublishKeeps == ASSUME IInv, Expose \/ SetReady PROVE IInv'
<1> DEFINE new(g) == [held EXCEPT !.stage = g]
<1>1. PICK g \in {"exposed", "ready"} :
        /\ held.original = 0 /\ held.stage \in {"created", "exposed"} /\ UpdateVolume(new(g))
        /\ UNCHANGED notVolume /\ lv' = lv
        /\ bdev' = bdev \/ (bdev' = lv /\ (Lvm \/ Online))
  <2>1. CASE Expose
    BY <2>1, Zenon DEF Expose
  <2>2. CASE SetReady
    BY <2>2, Zenon DEF SetReady
  <2> QED BY <2>1, <2>2, Zenon
<1>2. held # Nothing /\ held \in Volumes /\ held.stage = vol.stage
  BY <1>1, HeldFacts, Zenon
<1>3. new(g) \in Volumes /\ new(g).size = held.size /\ new(g).original = 0
  <2>1. g \in {"new", "created", "exposed", "ready"}
    BY Zenon
  <2> QED BY <1>1, <1>2, <2>1, VolumeWrites, Zenon
<1>4. Ended(new(g))
  BY <1>1, UpdateVolumeEnds, Zenon
<1> HIDE DEF new
<1>5. lv > 0 \/ ~OnFile
  BY <1>1, <1>2, VolumeFacts, Zenon
<1>6. ~Lvm /\ bdev' # 0 => Online /\ bdev' = lv'
  BY <1>1, VolumeFacts, Zenon
<1>7. ~Lvm /\ ~EarlyResize /\ lv' # 0 /\ vol'.original = 0 => lv' = vol'.size
  <2>1. CASE vol' = vol
    BY <1>1, <2>1, VolumeFacts, Zenon
  <2>2. CASE vol = held /\ vol' = new(g)
    BY <1>1, <1>3, <2>2, VolumeFacts, Zenon
  <2> QED BY <1>4, <2>1, <2>2, Zenon DEF Ended
<1>8. bdev' \in Lengths /\ lv' \in 0..Capacity /\ (Lvm => lv' + snapLv \in 0..Capacity)
  BY <1>1, VolumeFacts, Sizes, Zenon
<1> QED BY <1>1, <1>2, <1>3, <1>4, <1>5, <1>6, <1>7, <1>8, LoopKeeps, Zenon

-----------------------------------------------------------------------------
(* CSI, and what of the volume loop does not act on the engine. *)

(* A step that leaves the agent, the medium and the logical volumes alone. *)
LEMMA OutsideKeeps ==
    ASSUME IInv, UNCHANGED <<poolVars, where, lv, bdev, snapVars>>,
           resizing' \in BOOLEAN, open' \in BOOLEAN, vol' \in Volumes, held' \in Volumes,
           reported' \in 0..Capacity, fs' \in Lengths,
           past' \subseteq Rare, past \subseteq past', calls' \in 0..MaxCalls, faults' = faults,
           SizedInv', HeldInv', ResizedAsAsked',
           vol'.stage = vol.stage,
           ~EarlyResize' /\ vol'.original = 0 => vol'.size = vol.size /\ vol.original = 0
    PROVE  IInv'
<1>1. UNCHANGED <<stack, agent, media, remote, pool, lv, bdev, snap, snapLv, heldSnap>>
  BY Zenon DEF poolVars, where, snapVars
<1>2. TypeOK'
  <2>1. Room'
    BY <1>1, TypeParts, Zenon DEF Room, Lvm, IInv
  <2> QED BY <1>1, <2>1, TypeParts, PrimedTypeParts, Zenon DEF IInv
<1>3. MediumInv'
  BY <1>1, MediumKept, Zenon DEF IInv
<1>4. VolumeInv'
  <2>1. ~EarlyResize' => ~EarlyResize
    BY Zenon DEF EarlyResize
  <2> QED BY <1>1, <2>1, Zenon DEF VolumeInv, OnFile, Lvm, Online, IInv
<1>5. SnapInv'
  BY <1>1, SnapKept, Zenon DEF IInv
<1> QED BY <1>2, <1>3, <1>4, <1>5, Zenon DEF IInv

LEMMA ControllerExpandKeeps ==
    ASSUME IInv, NEW size \in 1..MaxSize, ControllerExpandVolume(size)
    PROVE  IInv'
<1>1. /\ Call /\ size > vol.size /\ vol' = [vol EXCEPT !.size = size, !.original = vol.size]
      /\ resizing' = TRUE /\ Happens("earlyResize", vol.stage = "new")
      /\ UNCHANGED <<poolVars, where, lv, bdev, reported, fs, open, held, snapVars, faults>>
  BY Zenon DEF ControllerExpandVolume, ResizePV
<1>2. vol \in Volumes /\ vol.size \in 0..MaxSize /\ size \in 0..MaxSize /\ vol.size > 0
  <2>1. vol.size > 0
    BY Zenon DEF IInv, SizedInv
  <2>2. size \in 0..MaxSize
    BY Sizes
  <2> QED BY <2>1, <2>2, VolumeFacts, Zenon
<1>3. /\ vol' \in Volumes /\ vol'.size = size /\ vol'.original = vol.size
      /\ vol'.stage = vol.stage
  BY <1>1, <1>2, Zenon DEF Volumes
<1>4. /\ past' \subseteq Rare /\ past \subseteq past' /\ (vol.stage = "new" => EarlyResize')
  <2>1. "earlyResize" \in Rare
    BY Zenon DEF Rare
  <2> QED BY <1>1, <2>1, HappensType, TypeParts, Zenon DEF IInv, EarlyResize
<1>5. vol'.original > 0 /\ vol'.original # 0 /\ vol'.size > 0 /\ vol'.original < vol'.size
  BY <1>1, <1>2, <1>3
<1>6. SizedInv'
  BY <1>1, <1>5, Zenon DEF IInv, SizedInv
<1>7. HeldInv'
  <2>1. held' = held /\ agent' = agent
    BY <1>1, Zenon DEF poolVars
  <2> QED BY <1>1, <1>3, <1>4, <1>5, <2>1, Zenon DEF IInv, HeldInv
<1>8. ResizedAsAsked'
  BY <1>1, Zenon DEF ResizedAsAsked
<1>9. calls' \in 0..MaxCalls
  BY <1>1, CallType, TypeParts, Zenon DEF IInv
<1>10. /\ held' \in Volumes /\ reported' \in 0..Capacity /\ fs' \in Lengths /\ open' \in BOOLEAN
       /\ resizing' \in BOOLEAN /\ faults' = faults
  BY <1>1, TypeParts, Zenon DEF IInv
<1> QED BY <1>1, <1>3, <1>4, <1>5, <1>6, <1>7, <1>8, <1>9, <1>10, OutsideKeeps, Zenon

LEMMA FileSystemKeeps ==
    ASSUME IInv, NodeExpandVolume \/ OpenOrClose
    PROVE  IInv'
<1>1. /\ vol.stage = "ready" /\ DeviceSize > 0
      /\ \/ fs' = DeviceSize /\ vol.original = 0
         \/ fs' = fs /\ fs # 0 /\ resizing' = resizing
         \/ fs' = DeviceSize /\ resizing' = resizing
      /\ resizing' = resizing \/ (resizing' = FALSE /\ vol.original = 0)
      /\ open' = open \/ open' = ~open
      /\ Call \/ UNCHANGED calls
      /\ UNCHANGED <<poolVars, where, vol, lv, bdev, reported, held, snapVars, past, faults>>
  BY Zenon DEF NodeExpandVolume, OpenOrClose, DevicePath
<1>2. /\ vol' \in Volumes /\ held' \in Volumes /\ reported' \in 0..Capacity
      /\ resizing' \in BOOLEAN /\ open' \in BOOLEAN /\ past' \subseteq Rare /\ past \subseteq past'
      /\ faults' = faults
  BY <1>1, TypeParts, Zenon DEF IInv
<1>3. calls' \in 0..MaxCalls
  BY <1>1, CallType, TypeParts, Zenon DEF IInv
<1>4. DeviceSize \in Lengths
  BY VolumeFacts, Sizes, Zenon DEF DeviceSize
<1>5. fs' \in Lengths
  BY <1>1, <1>4, TypeParts, Zenon DEF IInv
<1>6. SizedInv'
  BY <1>1, Zenon DEF IInv, SizedInv
<1>7. HeldInv'
  <2>1. vol.original = 0 => ~(vol.original > 0)
    OBVIOUS
  <2>2. agent' = agent /\ vol' = vol /\ held' = held /\ past' = past
    BY <1>1, Zenon DEF poolVars
  <2>3. vol.original > 0 => resizing'
    <3>1. vol.original > 0 => resizing' = resizing
      BY <1>1, <2>1, Zenon
    <3>2. vol.original > 0 => resizing
      BY Zenon DEF IInv, HeldInv
    <3> QED BY <3>1, <3>2, SMT
  <2> QED BY <2>2, <2>3, Zenon DEF IInv, HeldInv, EarlyResize
<1>8. ~Lvm /\ ~EarlyResize /\ vol.original = 0 => DeviceSize = vol.size
  <2>1. ~Lvm => DeviceSize = bdev
    BY Zenon DEF DeviceSize
  <2>2. DeviceSize > 0 => DeviceSize # 0
    BY <1>4 DEF Lengths
  <2> QED BY <1>1, <2>1, <2>2, VolumeFacts, Zenon
<1>9. ResizedAsAsked'
  <2> SUFFICES ASSUME ~Lvm, ~EarlyResize, ~resizing', fs' > 0 PROVE fs' = vol.size
    BY <1>1, Zenon DEF ResizedAsAsked, Lvm, poolVars, EarlyResize
  <2>1. CASE fs' = fs /\ resizing' = resizing
    BY <2>1, Zenon DEF IInv, VolumeInv, ResizedAsAsked, EarlyResize
  <2>2. vol.original = 0 \/ resizing' # resizing
    <3>1. vol.original > 0 \/ vol.original = 0
      BY VolumeFacts, Sizes
    <3>2. vol.original > 0 => resizing
      BY Zenon DEF IInv, HeldInv
    <3> QED BY <3>1, <3>2, SMT
  <2> QED BY <1>1, <1>8, <2>1, <2>2, Zenon
<1> QED BY <1>1, <1>2, <1>3, <1>5, <1>6, <1>7, <1>9, OutsideKeeps, Zenon

LEMMA PassKeeps ==
    ASSUME IInv, SyncVolume \/ PassEnds \/ ReportFree
    PROVE  IInv'
<1>1. /\ \/ held' = vol /\ agent /\ UNCHANGED reported
         \/ held' = Nothing /\ UNCHANGED reported
         \/ held' = held /\ reported' = Free
      /\ UNCHANGED <<poolVars, where, vol, lv, bdev, resizing, fs, open, snapVars, past, calls, faults>>
  BY Zenon DEF SyncVolume, PassEnds, ReportFree, notVolume
<1>2. /\ vol' \in Volumes /\ held' \in Volumes /\ reported' \in 0..Capacity /\ fs' \in Lengths
      /\ resizing' \in BOOLEAN /\ open' \in BOOLEAN /\ past' \subseteq Rare /\ past \subseteq past'
      /\ faults' = faults /\ calls' \in 0..MaxCalls
  BY <1>1, TypeParts, Literals, FreeType, Zenon DEF IInv
<1>3. SizedInv'
  BY <1>1, Zenon DEF IInv, SizedInv
<1>4. HeldInv'
  BY <1>1, Zenon DEF IInv, HeldInv, poolVars, EarlyResize
<1>5. ResizedAsAsked'
  BY <1>1, Zenon DEF IInv, VolumeInv, ResizedAsAsked, Lvm, poolVars
<1> QED BY <1>1, <1>2, <1>3, <1>4, <1>5, OutsideKeeps, Zenon

-----------------------------------------------------------------------------
(* The node. *)

LEMMA NodeKeeps ==
    ASSUME IInv, UNCHANGED apart, UNCHANGED stack,
           agent' \in BOOLEAN, pool' \in BOOLEAN, open' \in BOOLEAN, media' \in Media,
           lv' = lv \/ lv' = 0, snapLv' = snapLv \/ snapLv' = 0, bdev' = bdev \/ bdev' = 0,
           held' = Nothing \/ (held' = held /\ (agent => agent')),
           heldSnap' = NotHeld \/ (heldSnap' = heldSnap /\ (agent => agent') /\ (pool => pool')),
           past' \subseteq Rare, past \subseteq past', EarlyResize' => EarlyResize,
           faults' \in 0..MaxFaults,
           MediumInv', OnFile => lv' = lv, snapLv > 0 => snapLv' > 0 \/ Exempt',
           ~Lvm /\ bdev' # 0 => Online' /\ lv' = lv
    PROVE  IInv'
<1>1. UNCHANGED <<remote, vol, reported, resizing, fs, snap, calls>>
  BY Zenon DEF apart
<1>2. TypeOK'
  <2>1. lv' \in 0..Capacity /\ snapLv' \in Lengths /\ bdev' \in Lengths
    BY TypeParts, Sizes, Zenon DEF IInv
  <2>2. held' \in Volumes /\ heldSnap' \in HeldSnaps
    BY TypeParts, Literals, Zenon DEF IInv
  <2>3. Room'
    <3>1. Lvm => lv + snapLv \in 0..Capacity
      BY VolumeFacts, Zenon
    <3>2. Lvm => lv' + snapLv' \in 0..Capacity
      <4>1. lv \in 0..Capacity /\ snapLv \in Lengths
        BY VolumeFacts, Zenon
      <4> QED BY <3>1, <4>1, Sizes DEF Lengths
    <3> QED BY <3>2, Zenon DEF Room, Lvm
  <2> QED BY <1>1, <2>1, <2>2, <2>3, TypeParts, PrimedTypeParts, Zenon DEF IInv
<1>3. SizedInv'
  BY <1>1, Zenon DEF IInv, SizedInv
<1>4. HeldInv'
  <2>1. EarlyResize => EarlyResize'
    BY Zenon DEF EarlyResize
  <2> QED BY <1>1, <2>1, Zenon DEF IInv, HeldInv
<1>5. VolumeInv'
  <2>1. ~EarlyResize' => ~EarlyResize
    BY Zenon DEF EarlyResize
  <2>2. ResizedAsAsked'
    BY <1>1, <2>1, Zenon DEF IInv, VolumeInv, ResizedAsAsked, Lvm, EarlyResize
  <2>3. OnFile' = OnFile /\ Lvm' = Lvm
    BY Zenon DEF OnFile, Lvm
  <2>4. OnFile' /\ vol'.stage # "new" => lv' > 0
    BY <1>1, <2>3, VolumeFacts, Zenon
  <2>5. ~Lvm' /\ bdev' # 0 => Online' /\ bdev' = lv'
    BY <2>3, VolumeFacts, Zenon
  <2>6. ~Lvm' /\ ~EarlyResize' /\ lv' # 0 /\ vol'.original = 0 => lv' = vol'.size
    BY <1>1, <2>1, <2>3, VolumeFacts, Zenon
  <2> QED BY <2>2, <2>4, <2>5, <2>6, Zenon DEF VolumeInv
<1>6. SnapInv'
  BY <1>1, SnapKept, Zenon DEF IInv
<1> QED BY <1>2, <1>3, <1>4, <1>5, <1>6, Zenon DEF IInv

LEMMA BuildPoolKeeps == ASSUME IInv, BuildPool PROVE IInv'
<1>1. PICK b \in Build(media) :
        /\ ~agent /\ media' = b.media /\ agent' = b.ok /\ stack' = stack
        /\ lv' = (IF b.fresh THEN 0 ELSE lv) /\ snapLv' = (IF b.fresh THEN 0 ELSE snapLv)
        /\ UNCHANGED <<apart, pool, bdev, open, held, heldSnap, past, faults>>
  BY Zenon DEF BuildPool, StartAgent
<1>2. Built(media, b)
  BY BuildResult, TypeParts, Zenon DEF IInv
<1>3. media' \in Media /\ agent' \in BOOLEAN /\ b.fresh \in BOOLEAN
  BY <1>1, <1>2, Zenon DEF Built
<1>4. lv > 0 \/ lv = 0
  BY VolumeFacts, Sizes
<1>5. OnFile' = OnFile /\ SpdkRestarted' = SpdkRestarted /\ EarlyResize' = EarlyResize
  BY <1>1, Zenon DEF OnFile, SpdkRestarted, EarlyResize
<1>6. ~(0 > 0)
  OBVIOUS
<1>7. OnFile => (b.fresh => ~(lv > 0) /\ ~(snapLv > 0))
  BY <1>2, Zenon DEF Built, IInv, MediumInv
<1>8. ~OnFile /\ ~SpdkRestarted => (b.fresh => ~(snapLv > 0))
  BY <1>2, Zenon DEF Built, IInv, MediumInv
<1>9. OnFile => lv' = lv
  BY <1>1, <1>4, <1>7, Zenon
<1>10. snapLv > 0 => snapLv' > 0 \/ Exempt'
  BY <1>1, <1>5, <1>7, <1>8, Zenon DEF Exempt
<1>11. (lv' > 0 => lv > 0) /\ (snapLv' > 0 => snapLv > 0)
  BY <1>1, <1>6, Zenon
<1>12. MediumInv'
  <2>1. CASE OnFile
    <3>1. ~media'.swapped /\ (media.store \/ agent' => media'.store)
      BY <1>1, <1>2, <2>1, Zenon DEF Built, IInv, MediumInv
    <3> QED BY <1>5, <1>11, <2>1, <3>1, Zenon DEF IInv, MediumInv
  <2>2. CASE ~OnFile
    <3>1. CASE ~SpdkRestarted
      <4>1. ~media'.swapped /\ media'.base /\ (media.store => media'.store)
        BY <1>1, <1>2, <2>2, <3>1, Zenon DEF Built, IInv, MediumInv
      <4> QED BY <1>5, <1>11, <2>2, <3>1, <4>1, Zenon DEF IInv, MediumInv
    <3>2. CASE SpdkRestarted
      BY <1>5, <2>2, <3>2, Zenon DEF MediumInv
    <3> QED BY <3>1, <3>2, Zenon
  <2> QED BY <2>1, <2>2, Zenon
<1>13. ~Lvm /\ bdev' # 0 => Online' /\ lv' = lv
  <2> SUFFICES ASSUME ~Lvm, bdev' # 0 PROVE Online' /\ lv' = lv
    BY Zenon
  <2>1. Online
    BY <1>1, VolumeFacts, Zenon
  <2>2. b.media.base /\ b.media.store /\ ~b.media.swapped /\ ~b.fresh
    BY <1>2, <2>1, Zenon DEF Built, Online
  <2> QED BY <1>1, <2>2, Zenon DEF Online
<1>14. pool' \in BOOLEAN /\ open' \in BOOLEAN /\ past' \subseteq Rare /\ past \subseteq past'
       /\ faults' \in 0..MaxFaults
  BY <1>1, TypeParts, Zenon DEF IInv
<1>15. (lv' = lv \/ lv' = 0) /\ (snapLv' = snapLv \/ snapLv' = 0)
  BY <1>1, Zenon
<1>16. (EarlyResize' => EarlyResize) /\ (agent => agent') /\ (pool => pool')
  BY <1>1, <1>5, Zenon
<1> HIDE DEF IInv
<1> QED BY <1>1, <1>3, <1>9, <1>10, <1>12, <1>13, <1>14, <1>15, <1>16, NodeKeeps, Zenon

LEMMA OfflineResult ==
    ASSUME NEW m \in Media, stack \in Stacks
    PROVE  /\ Offline(m) \in Media /\ Offline(m).base = FALSE /\ Offline(m).swapped = m.swapped
           /\ OnFile => Offline(m).store = m.store
<1>1. m.store \in BOOLEAN
  BY Zenon DEF Media
<1>2. (m.store /\ stack # "mem") \in BOOLEAN
  BY Zenon
<1>3. /\ Offline(m) \in Media /\ Offline(m).base = FALSE /\ Offline(m).swapped = m.swapped
      /\ Offline(m).store = (m.store /\ stack # "mem")
  BY <1>2, Zenon DEF Offline, Media
<1>4. OnFile => stack # "mem"
  BY Zenon DEF OnFile
<1> QED BY <1>1, <1>3, <1>4, Zenon

(* The device or SPDK goes: nothing of an lvol is shown any more, and the store
   on a file stays. *)
LEMMA BaseLostKeeps == ASSUME IInv, RestartSpdk \/ Reboot PROVE IInv'
<1>1. /\ Fault /\ stack' = stack /\ bdev' = 0 /\ Happens("spdkRestart", TRUE)
      /\ media' = media \/ media' = Offline(media)
      /\ agent' = agent \/ (agent' = FALSE /\ held' = Nothing /\ heldSnap' = NotHeld)
      /\ held' = Nothing \/ (held' = held /\ agent' = agent)
      /\ heldSnap' = NotHeld \/ (heldSnap' = heldSnap /\ agent' = agent)
      /\ open' = open \/ open' = FALSE
      /\ UNCHANGED <<apart, pool, lv, snapLv>>
  BY Zenon DEF RestartSpdk, Reboot, SpdkRestarts, NodeReboots
<1>2. stack \in Stacks /\ media \in Media
  BY TypeParts, Zenon DEF IInv
<1>3. media' \in Media /\ media'.swapped = media.swapped
      /\ (OnFile => media'.store = media.store)
  BY <1>1, <1>2, OfflineResult, Zenon
<1>4. past' \subseteq Rare /\ past \subseteq past' /\ SpdkRestarted'
      /\ (EarlyResize' => EarlyResize)
  <2>1. "spdkRestart" \in Rare
    BY Zenon DEF Rare
  <2> QED BY <1>1, <2>1, HappensType, TypeParts, Zenon DEF IInv, SpdkRestarted, EarlyResize
<1>5. MediumInv'
  <2>1. OnFile' = OnFile
    BY <1>1, Zenon DEF OnFile
  <2>2. agent' => agent
    <3>1. agent' = agent \/ agent' = FALSE
      BY <1>1, Zenon
    <3> QED BY <3>1, Zenon
  <2> QED BY <1>1, <1>3, <1>4, <2>1, <2>2, Zenon DEF IInv, MediumInv
<1>6. faults' \in 0..MaxFaults /\ pool' \in BOOLEAN /\ open' \in BOOLEAN /\ agent' \in BOOLEAN
  BY <1>1, TypeParts, FaultType, Zenon DEF IInv
<1>7. /\ held' = Nothing \/ (held' = held /\ (agent => agent'))
      /\ heldSnap' = NotHeld \/ (heldSnap' = heldSnap /\ (agent => agent') /\ (pool => pool'))
  BY <1>1, SMT
<1>8. lv' = lv /\ snapLv' = snapLv
  BY <1>1, Zenon
<1> QED BY <1>1, <1>3, <1>4, <1>5, <1>6, <1>7, <1>8, NodeKeeps, Zenon

(* The agent or the pool goes, and what the loops have read with it. *)
LEMMA AgentLostKeeps == ASSUME IInv, Die \/ PoolRemoved PROVE IInv'
<1>1. /\ Fault /\ stack' = stack /\ held' = Nothing /\ heldSnap' = NotHeld
      /\ agent' = agent \/ agent' = FALSE
      /\ pool' = pool \/ pool' = FALSE
      /\ media' = media \/ \E b \in BOOLEAN : media' = [media EXCEPT !.file = TRUE, !.short = b]
      /\ UNCHANGED <<apart, lv, snapLv, bdev, open, past>>
  BY Zenon DEF Die, PoolRemoved, AgentDies, BuildInterrupted, poolVars
<1>2. /\ media' \in Media /\ media'.swapped = media.swapped /\ media'.store = media.store
      /\ media'.base = media.base
  <2>1. media \in Media
    BY TypeParts, Zenon DEF IInv
  <2>2. CASE media' = media
    BY <2>1, <2>2, Zenon
  <2>3. ASSUME NEW b \in BOOLEAN, media' = [media EXCEPT !.file = TRUE, !.short = b]
        PROVE  /\ media' \in Media /\ media'.swapped = media.swapped /\ media'.store = media.store
               /\ media'.base = media.base
    BY <2>1, <2>3, Zenon DEF Media
  <2> QED BY <1>1, <2>2, <2>3, Zenon
<1>3. /\ OnFile' = OnFile /\ SpdkRestarted' = SpdkRestarted /\ EarlyResize' = EarlyResize
      /\ Online' = Online
  BY <1>1, <1>2, Zenon DEF OnFile, SpdkRestarted, EarlyResize, Online
<1>4. MediumInv'
  <2>1. agent' => agent
    BY <1>1, Zenon
  <2>2. lv' = lv /\ snapLv' = snapLv
    BY <1>1, Zenon
  <2> QED BY <1>2, <1>3, <2>1, <2>2, Zenon DEF IInv, MediumInv
<1>5. /\ faults' \in 0..MaxFaults /\ pool' \in BOOLEAN /\ open' \in BOOLEAN /\ agent' \in BOOLEAN
      /\ past' \subseteq Rare /\ past \subseteq past'
  BY <1>1, TypeParts, FaultType, Zenon DEF IInv
<1>6. ~Lvm /\ bdev' # 0 => Online' /\ lv' = lv
  BY <1>1, <1>3, VolumeFacts, Zenon
<1>7. (EarlyResize' => EarlyResize) /\ lv' = lv /\ snapLv' = snapLv /\ bdev' = bdev
  BY <1>1, <1>3, Zenon
<1> QED BY <1>1, <1>2, <1>4, <1>5, <1>6, <1>7, NodeKeeps, Zenon

-----------------------------------------------------------------------------
(* Snapshots. *)

LEMMA SnapshotFields ==
    ASSUME NEW o \in AntstorSnapshots
    PROVE  /\ o.size \in 0..MaxSize /\ o.finalizer \in BOOLEAN /\ o.deleting \in BOOLEAN
           /\ o.bound \in BOOLEAN /\ o.there \in BOOLEAN
           /\ o.status \in {"", "creating", "ready", "merging", "merged"}
           /\ o.labels \in {"none", "own", "origin"}
BY Zenon DEF AntstorSnapshots

LEMMA NoSnapshotFields ==
    /\ NoSnapshot \in AntstorSnapshots
    /\ NoSnapshot.there = FALSE /\ NoSnapshot.deleting = FALSE /\ NoSnapshot.finalizer = FALSE
    /\ NoSnapshot.bound = FALSE /\ NoSnapshot.status = "" /\ NoSnapshot.labels = "none"
    /\ NoSnapshot.size = 0
<1>1. /\ NoSnapshot.there = FALSE /\ NoSnapshot.deleting = FALSE /\ NoSnapshot.finalizer = FALSE
      /\ NoSnapshot.bound = FALSE /\ NoSnapshot.status = "" /\ NoSnapshot.labels = "none"
      /\ NoSnapshot.size = 0
  BY Zenon DEF NoSnapshot
<1> QED BY <1>1, Literals, Zenon

(* Only an object that is served already, or alone, comes to be served. *)
LEMMA OneServedKept ==
    ASSUME OneSnapshotServed, NEW s \in Snapshots, NEW o,
           snap \in [Snapshots -> AntstorSnapshots], snap' = [snap EXCEPT ![s] = o],
           Served(o) => Served(snap[s]) \/ \A t \in Snapshots \ {s} : ~Served(snap[t])
    PROVE  OneSnapshotServed'
<1>1. \A t \in Snapshots : snap'[t] = IF t = s THEN o ELSE snap[t]
  BY Zenon
<1>2. \A t, u \in Snapshots : Served(snap[t]) /\ Served(snap[u]) => t = u
  BY Zenon DEF OneSnapshotServed, Served
<1>3. ASSUME NEW t \in Snapshots, NEW u \in Snapshots, Served(snap'[t]), Served(snap'[u])
      PROVE  t = u
  BY <1>1, <1>2, <1>3, Zenon
<1> QED BY <1>3, Zenon DEF OneSnapshotServed, Served

(* The volume's part of the invariant, in a step of a snapshot. *)
LEMMA SnapStepKeeps ==
    ASSUME IInv, UNCHANGED notSnap,
           snap' \in [Snapshots -> AntstorSnapshots], heldSnap' \in HeldSnaps,
           snapLv' \in Lengths, Lvm => lv + snapLv' \in 0..Capacity,
           snapLv' > 0 => snapLv > 0 \/ (agent /\ Lvm) \/ Online,
           past' \subseteq Rare, past \subseteq past', EarlyResize' => EarlyResize,
           calls' \in 0..MaxCalls, faults' \in 0..MaxFaults,
           SnapInv'
    PROVE  IInv'
<1>1. UNCHANGED <<stack, agent, media, remote, pool, vol, lv, bdev, reported, resizing, fs, open, held>>
  BY Zenon DEF notSnap, poolVars, where, volumeVars
<1>2. TypeOK'
  <2>1. Room'
    BY <1>1, Zenon DEF Room, Lvm
  <2> QED BY <1>1, <2>1, TypeParts, PrimedTypeParts, Zenon DEF IInv
<1>3. EarlyResize' <=> EarlyResize
  BY Zenon DEF EarlyResize
<1>4. SizedInv'
  BY <1>1, Zenon DEF IInv, SizedInv
<1>5. HeldInv'
  BY <1>1, <1>3, Zenon DEF IInv, HeldInv
<1>6. MediumInv'
  BY <1>1, MediumKept, Zenon DEF IInv
<1>7. VolumeInv'
  <2>1. ResizedAsAsked'
    BY <1>1, <1>3, Zenon DEF IInv, VolumeInv, ResizedAsAsked, Lvm, EarlyResize
  <2> QED BY <1>1, <1>3, <2>1, Zenon DEF IInv, VolumeInv, OnFile, Lvm, Online
<1> QED BY <1>2, <1>4, <1>5, <1>6, <1>7, Zenon DEF IInv

(* A write of a user, of the API server or of the reconciler. *)
Rewritten(s, o, rare) ==
    /\ o \in AntstorSnapshots /\ ObjectInv(o, rare)
    /\ Served(o) => Served(snap[s]) \/ \A t \in Snapshots \ {s} : ~Served(snap[t])
    /\ Uses(o) => Uses(snap[s])
    /\ pool => Advances(snap[s], o)

LEMMA WriteKeeps ==
    ASSUME IInv, UNCHANGED <<notSnap, snapLv, heldSnap>>,
           NEW s \in Snapshots, NEW o, Rewritten(s, o, past'), snap' = [snap EXCEPT ![s] = o],
           past' \subseteq Rare, past \subseteq past', EarlyResize' => EarlyResize,
           calls' \in 0..MaxCalls, faults' \in 0..MaxFaults
    PROVE  IInv'
<1>1. UNCHANGED <<stack, agent, media, pool, lv, snapLv, heldSnap>>
  BY Zenon DEF notSnap, poolVars, where, volumeVars
<1>2. snap \in [Snapshots -> AntstorSnapshots] /\ o \in AntstorSnapshots
  BY TypeParts, Zenon DEF IInv, Rewritten
<1>3. /\ snap' \in [Snapshots -> AntstorSnapshots]
      /\ \A t \in Snapshots : snap'[t] = IF t = s THEN o ELSE snap[t]
  BY <1>2, Zenon
<1>4. OneSnapshotServed'
  BY <1>2, OneServedKept, Zenon DEF IInv, SnapInv, Rewritten
<1>5. CutInv'
  <2>1. Exempt => Exempt'
    BY <1>1, Zenon DEF Exempt, OnFile, SpdkRestarted
  <2>2. ASSUME NEW t \in Snapshots, Uses(snap'[t]) PROVE Uses(snap[t])
    BY <1>3, <2>2, Zenon DEF Rewritten
  <2> QED BY <1>1, <2>1, <2>2, Zenon DEF IInv, SnapInv, CutInv
<1>6. HeldSnapInv'
  <2> SUFFICES ASSUME heldSnap # NotHeld
               PROVE  Advances(heldSnap.copy, snap'[heldSnap.of])
    BY <1>1, RareMore, Zenon DEF IInv, SnapInv, HeldSnapInv
  <2>1. heldSnap.of \in Snapshots /\ pool /\ Advances(heldSnap.copy, snap[heldSnap.of])
    BY Zenon DEF IInv, SnapInv, HeldSnapInv
  <2>2. CASE heldSnap.of = s
    <3>1. Advances(heldSnap.copy, snap[s]) /\ Advances(snap[s], o)
      BY <2>1, <2>2, Zenon DEF Rewritten
    <3>2. Advances(heldSnap.copy, o)
      BY <3>1, Zenon DEF Advances
    <3> QED BY <1>3, <2>2, <3>2, Zenon
  <2>3. CASE heldSnap.of # s
    BY <1>3, <2>1, <2>3, Zenon
  <2> QED BY <2>2, <2>3, Zenon
<1>7. \A t \in Snapshots : ObjectInv(snap'[t], past')
  BY <1>3, RareMore, Zenon DEF IInv, SnapInv, Rewritten
<1>8. SnapInv'
  BY <1>4, <1>5, <1>6, <1>7, Zenon DEF SnapInv
<1>9. snapLv' \in Lengths /\ (Lvm => lv + snapLv' \in 0..Capacity) /\ heldSnap' \in HeldSnaps
  BY <1>1, VolumeFacts, TypeParts, Zenon DEF IInv
<1> QED BY <1>1, <1>3, <1>8, <1>9, SnapStepKeeps, Zenon

LEMMA NoSnapshotInv == \A rare : ObjectInv(NoSnapshot, rare) /\ ~Served(NoSnapshot) /\ ~Uses(NoSnapshot)
BY NoSnapshotFields, Zenon DEF ObjectInv, Served, Uses

LEMMA SettledRewritten ==
    ASSUME NEW s, NEW o, NEW rare, Rewritten(s, o, rare)
    PROVE  Rewritten(s, Settled(o), rare)
<1>1. CASE o.deleting /\ ~o.finalizer
  <2>1. Settled(o) = NoSnapshot
    BY <1>1, Zenon DEF Settled
  <2>2. pool => Advances(snap[s], NoSnapshot)
    BY <1>1, Zenon DEF Rewritten, Advances
  <2> QED BY <2>1, <2>2, NoSnapshotFields, NoSnapshotInv, Zenon DEF Rewritten
<1>2. CASE ~(o.deleting /\ ~o.finalizer)
  BY <1>2, Zenon DEF Settled
<1> QED BY <1>1, <1>2, Zenon

LEMMA ObjectFacts ==
    ASSUME IInv, NEW s \in Snapshots
    PROVE  snap[s] \in AntstorSnapshots /\ ObjectInv(snap[s], past)
BY TypeParts, Zenon DEF IInv, SnapInv

(* A new object, from CSI or from a user. *)
LEMMA NewSnapshotKeeps ==
    ASSUME IInv, NEW s \in Snapshots, CreateSnapshot(s) \/ UserSnapshot(s)
    PROVE  IInv'
<1>1. PICK l \in {"none", "own", "origin"} :
        /\ Call /\ ~snap[s].there /\ snap' = [snap EXCEPT ![s] = NewSnapshot(l)]
        /\ \/ past' = past /\ l = "origin"
           \/ Happens("ownLabels", l = "own")
        /\ UNCHANGED <<notSnap, snapLv, heldSnap, faults>>
  <2>1. CASE CreateSnapshot(s)
    BY <2>1, Zenon DEF CreateSnapshot
  <2>2. CASE UserSnapshot(s)
    BY <2>2, Zenon DEF UserSnapshot
  <2> QED BY <2>1, <2>2, Zenon
<1>2. /\ past' \subseteq Rare /\ past \subseteq past' /\ (l = "own" => "ownLabels" \in past')
      /\ (EarlyResize' => EarlyResize)
  <2>1. "ownLabels" \in Rare /\ past \subseteq Rare
    BY TypeParts, Zenon DEF Rare, IInv
  <2>2. CASE past' = past /\ l = "origin"
    BY <2>1, <2>2, Zenon DEF EarlyResize
  <2>3. CASE Happens("ownLabels", l = "own")
    BY <2>1, <2>3, HappensType, Zenon DEF EarlyResize
  <2> QED BY <1>1, <2>2, <2>3, Zenon
<1>3. calls' \in 0..MaxCalls /\ faults' \in 0..MaxFaults
  BY <1>1, CallType, TypeParts, Zenon DEF IInv
<1> DEFINE o == NewSnapshot(l)
<1>4. vol.size \in 0..MaxSize /\ vol.size > 0
  BY VolumeFacts, Zenon DEF IInv, SizedInv
<1>5. /\ o \in AntstorSnapshots /\ o.there = TRUE /\ o.size = vol.size /\ o.labels = l
      /\ o.deleting = FALSE /\ o.finalizer = FALSE /\ o.bound = FALSE /\ o.status = ""
  <2>1. o \in AntstorSnapshots
    BY <1>4, NoSnapshotFields, Zenon DEF NewSnapshot, AntstorSnapshots
  <2>2. /\ o.there = TRUE /\ o.size = vol.size /\ o.labels = l
        /\ o.deleting = FALSE /\ o.finalizer = FALSE /\ o.bound = FALSE /\ o.status = ""
    BY NoSnapshotFields, Zenon DEF NewSnapshot, AntstorSnapshots
  <2> QED BY <2>1, <2>2, Zenon
<1> HIDE DEF o
<1>6. Rewritten(s, o, past')
  <2>1. ObjectInv(o, past')
    BY <1>2, <1>4, <1>5, Zenon DEF ObjectInv
  <2>2. ~snap[s].finalizer
    BY <1>1, ObjectFacts, Zenon DEF ObjectInv
  <2> QED BY <1>5, <2>1, <2>2, Zenon DEF Rewritten, Served, Uses, Advances
<1> QED BY <1>1, <1>2, <1>3, <1>6, WriteKeeps, Zenon DEF o

LEMMA DeleteSnapshotKeeps ==
    ASSUME IInv, NEW s \in Snapshots, DeleteSnapshot(s)
    PROVE  IInv'
<1> DEFINE o == [snap[s] EXCEPT !.deleting = TRUE]
<1>0. snap \in [Snapshots -> AntstorSnapshots]
  BY TypeParts, Zenon DEF IInv
<1>1. /\ Call /\ snap[s].there /\ ~snap[s].deleting /\ snap' = [snap EXCEPT ![s] = Settled(o)]
      /\ Happens("mergedDeleted", snap[s].status = "merged")
      /\ UNCHANGED <<notSnap, snapLv, heldSnap, faults>>
  BY <1>0, Zenon DEF DeleteSnapshot
<1>2. /\ past' \subseteq Rare /\ past \subseteq past' /\ (EarlyResize' => EarlyResize)
      /\ (snap[s].status = "merged" => "mergedDeleted" \in past')
  <2>1. "mergedDeleted" \in Rare
    BY Zenon DEF Rare
  <2> QED BY <1>1, <2>1, HappensType, TypeParts, Zenon DEF IInv, EarlyResize
<1>3. calls' \in 0..MaxCalls /\ faults' \in 0..MaxFaults
  BY <1>1, CallType, TypeParts, Zenon DEF IInv
<1>4. snap[s] \in AntstorSnapshots /\ ObjectInv(snap[s], past)
  BY ObjectFacts, Zenon
<1>5. /\ o \in AntstorSnapshots /\ o.deleting = TRUE
      /\ o.there = snap[s].there /\ o.size = snap[s].size /\ o.labels = snap[s].labels
      /\ o.finalizer = snap[s].finalizer /\ o.bound = snap[s].bound /\ o.status = snap[s].status
  BY <1>4, Zenon DEF AntstorSnapshots
<1> HIDE DEF o
<1>6. ObjectInv(o, past')
  BY <1>2, <1>4, <1>5, Zenon DEF ObjectInv
<1>7. Rewritten(s, o, past')
  BY <1>5, <1>6, Zenon DEF Rewritten, Served, Uses, Advances
<1>8. Rewritten(s, Settled(o), past')
  BY <1>7, SettledRewritten, Zenon
<1> QED BY <1>1, <1>2, <1>3, <1>8, WriteKeeps, Zenon

LEMMA AskMergeKeeps ==
    ASSUME IInv, NEW s \in Snapshots, AskMerge(s)
    PROVE  IInv'
<1>0. snap \in [Snapshots -> AntstorSnapshots] /\ snap[s] \in AntstorSnapshots
      /\ ObjectInv(snap[s], past)
  BY ObjectFacts, TypeParts, Zenon DEF IInv
<1> DEFINE l == IF snap[s].labels = "none" THEN "own" ELSE snap[s].labels
           o == [snap[s] EXCEPT !.start = TRUE, !.labels = l]
<1>1. /\ Call /\ snap[s].there /\ Happens("ownLabels", snap[s].labels = "none")
      /\ UNCHANGED <<notSnap, snapLv, heldSnap, faults>>
  BY Zenon DEF AskMerge
<1>2. snap' = [snap EXCEPT ![s] = o]
  <2>1. snap' = [snap EXCEPT ![s].start = TRUE, ![s].labels = IF @ = "none" THEN "own" ELSE @]
    BY Zenon DEF AskMerge
  <2> QED BY <1>0, <2>1, Zenon
<1>3. /\ past' \subseteq Rare /\ past \subseteq past' /\ (EarlyResize' => EarlyResize)
      /\ (snap[s].labels = "none" => "ownLabels" \in past')
  <2>1. "ownLabels" \in Rare
    BY Zenon DEF Rare
  <2> QED BY <1>1, <2>1, HappensType, TypeParts, Zenon DEF IInv, EarlyResize
<1>4. calls' \in 0..MaxCalls /\ faults' \in 0..MaxFaults
  BY <1>1, CallType, TypeParts, Zenon DEF IInv
<1>5. l \in {"none", "own", "origin"} /\ (snap[s].labels = "none" => l = "own")
      /\ (snap[s].labels # "none" => l = snap[s].labels)
  BY <1>0, SnapshotFields, Zenon
<1> HIDE DEF l
<1>6. /\ o \in AntstorSnapshots /\ o.labels = l /\ o.deleting = snap[s].deleting
      /\ o.there = snap[s].there /\ o.size = snap[s].size
      /\ o.finalizer = snap[s].finalizer /\ o.bound = snap[s].bound /\ o.status = snap[s].status
  BY <1>0, <1>5, Zenon DEF AntstorSnapshots
<1> HIDE DEF o
<1>7. ObjectInv(o, past')
  BY <1>0, <1>3, <1>5, <1>6, Zenon DEF ObjectInv
<1>8. Rewritten(s, o, past')
  BY <1>0, <1>5, <1>6, <1>7, Zenon DEF Rewritten, Served, Uses, Advances, ObjectInv
<1> QED BY <1>1, <1>2, <1>3, <1>4, <1>8, WriteKeeps, Zenon

LEMMA ReconciledCases ==
    ASSUME NEW s \in Snapshots, NEW o, o = snap[s], NEW r, r = Reconciled(s), r # o
    PROVE  \/ r = [o EXCEPT !.finalizer = FALSE] /\ o.deleting /\ (o.status = "merged" \/ ~pool)
           \/ r = [o EXCEPT !.labels = "origin"] /\ o.labels = "none" /\ o.status # "merged"
           \/ /\ r = [o EXCEPT !.bound = TRUE]
              /\ Alone(s) /\ o.labels # "none" /\ o.status # "merged"
           \/ r = [o EXCEPT !.status = "creating"] /\ o.status = "" /\ o.bound
           \/ r = [o EXCEPT !.status = "merging"] /\ o.status \notin {"", "merged"}
BY Zenon DEF Reconciled

(* Every write of the reconciler: the bound is given only to a snapshot that is
   alone, and the finalizer is taken only from a merged one or without a pool. *)
LEMMA ReconciledRewritten ==
    ASSUME IInv, NEW s \in Snapshots, snap[s].there, Reconciled(s) # snap[s]
    PROVE  Rewritten(s, Reconciled(s), past)
<1> DEFINE o == snap[s]
           r == Reconciled(s)
<1>1. o \in AntstorSnapshots /\ ObjectInv(o, past) /\ o.there
  BY ObjectFacts, Zenon
<1>2. \/ r = [o EXCEPT !.finalizer = FALSE] /\ o.deleting /\ (o.status = "merged" \/ ~pool)
      \/ r = [o EXCEPT !.labels = "origin"] /\ o.labels = "none" /\ o.status # "merged"
      \/ /\ r = [o EXCEPT !.bound = TRUE]
         /\ Alone(s) /\ o.labels # "none" /\ o.status # "merged"
      \/ r = [o EXCEPT !.status = "creating"] /\ o.status = "" /\ o.bound
      \/ r = [o EXCEPT !.status = "merging"] /\ o.status \notin {"", "merged"}
  BY ReconciledCases, Zenon
<1>3. o = snap[s] /\ r = Reconciled(s)
  OBVIOUS
<1> HIDE DEF o, r
<1>4. CASE r = [o EXCEPT !.finalizer = FALSE] /\ o.deleting /\ (o.status = "merged" \/ ~pool)
  <2>1. /\ r \in AntstorSnapshots /\ r.finalizer = FALSE /\ r.labels = o.labels
        /\ r.deleting = o.deleting /\ r.there = o.there /\ r.size = o.size
        /\ r.bound = o.bound /\ r.status = o.status
    BY <1>1, <1>4, Zenon DEF AntstorSnapshots
  <2>2. ObjectInv(r, past)
    BY <1>1, <1>4, <2>1, Zenon DEF ObjectInv
  <2>3. pool => Advances(o, r)
    BY <1>4, Zenon DEF Advances
  <2> QED BY <1>3, <2>1, <2>2, <2>3, Zenon DEF Rewritten, Served, Uses
<1>5. CASE r = [o EXCEPT !.labels = "origin"] /\ o.labels = "none" /\ o.status # "merged"
  <2>1. /\ r \in AntstorSnapshots /\ r.labels = "origin" /\ r.finalizer = o.finalizer
        /\ r.deleting = o.deleting /\ r.there = o.there /\ r.size = o.size
        /\ r.bound = o.bound /\ r.status = o.status
    BY <1>1, <1>5, Zenon DEF AntstorSnapshots
  <2>2. ObjectInv(r, past)
    BY <1>1, <1>5, <2>1, Zenon DEF ObjectInv
  <2>3. Advances(o, r) /\ (Uses(r) => Uses(o))
    BY <2>1, Zenon DEF Advances, Uses
  <2>4. ~Served(r)
    BY <1>1, <1>5, <2>1, Zenon DEF ObjectInv, Served
  <2> QED BY <1>3, <2>1, <2>2, <2>3, <2>4, Zenon DEF Rewritten
<1>6. CASE /\ r = [o EXCEPT !.bound = TRUE]
           /\ Alone(s) /\ o.labels # "none" /\ o.status # "merged"
  <2>1. /\ r \in AntstorSnapshots /\ r.bound = TRUE /\ r.labels = o.labels
        /\ r.finalizer = o.finalizer /\ r.deleting = o.deleting /\ r.there = o.there
        /\ r.size = o.size /\ r.status = o.status
    BY <1>1, <1>6, Zenon DEF AntstorSnapshots
  <2>2. ObjectInv(r, past)
    BY <1>1, <1>6, <2>1, Zenon DEF ObjectInv
  <2>3. Advances(o, r) /\ (Uses(r) => Uses(o))
    BY <2>1, Zenon DEF Advances, Uses
  <2>4. \A t \in Snapshots \ {s} : ~Served(snap[t])
    BY <1>6, Zenon DEF Alone, Served
  <2> QED BY <1>3, <2>1, <2>2, <2>3, <2>4, Zenon DEF Rewritten
<1>7. CASE r = [o EXCEPT !.status = "creating"] /\ o.status = "" /\ o.bound
  <2>1. /\ r \in AntstorSnapshots /\ r.status = "creating" /\ r.labels = o.labels
        /\ r.finalizer = o.finalizer /\ r.deleting = o.deleting /\ r.there = o.there
        /\ r.size = o.size /\ r.bound = o.bound
    BY <1>1, <1>7, Zenon DEF AntstorSnapshots
  <2>2. ObjectInv(r, past)
    BY <1>1, <1>7, <2>1, Zenon DEF ObjectInv
  <2>3. Advances(o, r) /\ (Uses(r) => Uses(o))
    BY <1>1, <1>7, <2>1, Zenon DEF Advances, Uses, ObjectInv
  <2>4. Served(r) => Served(o)
    BY <1>7, <2>1, Zenon DEF Served
  <2> QED BY <1>3, <2>1, <2>2, <2>3, <2>4, Zenon DEF Rewritten
<1>8. CASE r = [o EXCEPT !.status = "merging"] /\ o.status \notin {"", "merged"}
  <2>1. /\ r \in AntstorSnapshots /\ r.status = "merging" /\ r.labels = o.labels
        /\ r.finalizer = o.finalizer /\ r.deleting = o.deleting /\ r.there = o.there
        /\ r.size = o.size /\ r.bound = o.bound
    BY <1>1, <1>8, Zenon DEF AntstorSnapshots
  <2>2. ObjectInv(r, past)
    BY <1>1, <1>8, <2>1, Zenon DEF ObjectInv
  <2>3. Advances(o, r) /\ ~Uses(r)
    BY <1>8, <2>1, Zenon DEF Advances, Uses
  <2>4. Served(r) => Served(o)
    BY <1>8, <2>1, Zenon DEF Served
  <2> QED BY <1>3, <2>1, <2>2, <2>3, <2>4, Zenon DEF Rewritten
<1> QED BY <1>2, <1>3, <1>4, <1>5, <1>6, <1>7, <1>8, Zenon

LEMMA ReconcileKeeps ==
    ASSUME IInv, NEW s \in Snapshots, Reconcile(s)
    PROVE  IInv'
<1>1. /\ snap[s].there /\ Reconciled(s) # snap[s]
      /\ snap' = [snap EXCEPT ![s] = Settled(Reconciled(s))]
      /\ UNCHANGED <<notSnap, snapLv, heldSnap, past, calls, faults>>
  BY Zenon DEF Reconcile
<1>2. Rewritten(s, Settled(Reconciled(s)), past)
  BY <1>1, ReconciledRewritten, SettledRewritten, Zenon
<1>3. /\ past' = past /\ past' \subseteq Rare /\ calls' \in 0..MaxCalls /\ faults' \in 0..MaxFaults
      /\ (EarlyResize' => EarlyResize)
  BY <1>1, TypeParts, Zenon DEF IInv, EarlyResize
<1> QED BY <1>1, <1>2, <1>3, WriteKeeps, Zenon

LEMMA SyncSnapshotKeeps ==
    ASSUME IInv, NEW s \in Snapshots, SyncSnapshot(s)
    PROVE  IInv'
<1>1. /\ agent /\ pool /\ snap[s].bound /\ heldSnap' = [of |-> s, copy |-> snap[s]]
      /\ UNCHANGED <<notSnap, snap, snapLv, past, calls, faults>>
  BY Zenon DEF SyncSnapshot
<1>2. snap[s] \in AntstorSnapshots /\ ObjectInv(snap[s], past)
  BY ObjectFacts, Zenon
<1>3. heldSnap' \in HeldSnaps /\ heldSnap'.of = s /\ heldSnap'.copy = snap[s]
  BY <1>1, <1>2, Zenon DEF HeldSnaps
<1>4. UNCHANGED <<stack, agent, pool>>
  BY <1>1, Zenon DEF notSnap, poolVars, where
<1>5. OneSnapshotServed' /\ CutInv' /\ \A t \in Snapshots : ObjectInv(snap'[t], past')
  BY <1>1, <1>4, Zenon DEF IInv, SnapInv, OneSnapshotServed, CutInv, Exempt, OnFile, SpdkRestarted
<1>6. HeldSnapInv'
  <2>1. Advances(snap[s], snap[s])
    BY Zenon DEF Advances
  <2> QED BY <1>1, <1>2, <1>3, <1>4, <2>1, Zenon DEF HeldSnapInv
<1>7. SnapInv'
  BY <1>5, <1>6, Zenon DEF SnapInv
<1>8. /\ snap' \in [Snapshots -> AntstorSnapshots] /\ snapLv' = snapLv /\ snapLv' \in Lengths
      /\ (Lvm => lv + snapLv' \in 0..Capacity)
      /\ past' \subseteq Rare /\ past \subseteq past' /\ (EarlyResize' => EarlyResize)
      /\ calls' \in 0..MaxCalls /\ faults' \in 0..MaxFaults
  BY <1>1, VolumeFacts, TypeParts, Zenon DEF IInv, EarlyResize
<1> QED BY <1>1, <1>3, <1>7, <1>8, SnapStepKeeps, Zenon

-----------------------------------------------------------------------------
(* The agent's snapshot loop. *)

LEMMA HeldSnapFacts ==
    ASSUME IInv, heldSnap.copy.status # "" \/ heldSnap.copy.deleting
    PROVE  /\ heldSnap # NotHeld /\ heldSnap.of \in Snapshots /\ agent
           /\ heldSnap.copy \in AntstorSnapshots /\ ObjectInv(heldSnap.copy, past)
           /\ Advances(heldSnap.copy, snap[heldSnap.of])
<1>1. NotHeld.copy = NoSnapshot
  BY Zenon DEF NotHeld
<1>2. heldSnap # NotHeld
  BY <1>1, NoSnapshotFields, Zenon
<1>3. heldSnap.copy \in AntstorSnapshots
  BY TypeParts, Zenon DEF IInv, HeldSnaps
<1> QED BY <1>2, <1>3, Zenon DEF IInv, SnapInv, HeldSnapInv

LEMMA UsedIsServed ==
    ASSUME NEW o \in AntstorSnapshots, ObjectInv(o, past), ~Exempt,
           o.finalizer, o.status # "merged"
    PROVE  Served(o)
<1>1. o.bound /\ o.there /\ o.labels # "none" /\ o.labels # "own"
  BY Zenon DEF ObjectInv, Exempt
<1> QED BY <1>1, SnapshotFields, Zenon DEF Served

(* While the agent deletes or merges a snapshot, no other one is in use. *)
LEMMA NoOtherInUse ==
    ASSUME IInv, heldSnap.copy.finalizer,
           heldSnap.copy.deleting \/ heldSnap.copy.status = "merging",
           NEW t \in Snapshots, Uses(snap[t])
    PROVE  Exempt
<1> DEFINE c == heldSnap.copy
           o == snap[heldSnap.of]
<1> SUFFICES ASSUME ~Exempt PROVE FALSE
  OBVIOUS
<1>1. /\ heldSnap.of \in Snapshots /\ ObjectInv(c, past) /\ Advances(c, o)
  BY HeldSnapFacts, Zenon
<1>2. c.status # "merged"
  BY <1>1, Zenon DEF ObjectInv, Exempt
<1>3. o.finalizer /\ o.status # "merged" /\ (c.deleting => o.deleting)
      /\ (c.status = "merging" => o.status = "merging")
  BY <1>1, <1>2, Zenon DEF Advances
<1>4. Served(o)
  BY <1>1, <1>3, ObjectFacts, UsedIsServed, Zenon
<1>5. Served(snap[t])
  <2>1. snap[t].finalizer /\ snap[t].status # "merged"
    BY Zenon DEF Uses
  <2> QED BY <2>1, ObjectFacts, UsedIsServed, Zenon
<1>6. t = heldSnap.of
  BY <1>1, <1>4, <1>5, Zenon DEF IInv, SnapInv, OneSnapshotServed, Served
<1> QED BY <1>3, <1>6, Zenon DEF Uses

(* A pass writes what it has read, if nobody has written meanwhile. *)
LEMMA UpdateCases ==
    ASSUME IInv, heldSnap # NotHeld, NEW new \in AntstorSnapshots, UpdateSnapshot(new)
    PROVE  /\ heldSnap' = NotHeld /\ faults' \in 0..MaxFaults
           /\ snap' \in [Snapshots -> AntstorSnapshots]
           /\ \/ snap' = snap
              \/ /\ snap[heldSnap.of] = heldSnap.copy
                 /\ snap' = [snap EXCEPT ![heldSnap.of] = Settled(new)]
           /\ \A t \in Snapshots : \/ snap'[t] = snap[t]
                                   \/ /\ t = heldSnap.of /\ snap[t] = heldSnap.copy
                                      /\ snap'[t] = new \/ snap'[t] = NoSnapshot
<1>1. /\ heldSnap' = NotHeld
      /\ \/ snap' = snap
         \/ /\ snap[heldSnap.of] = heldSnap.copy
            /\ snap' = [snap EXCEPT ![heldSnap.of] = Settled(new)]
      /\ UNCHANGED faults \/ Fault
  BY Zenon DEF UpdateSnapshot
<1>2. Settled(new) \in AntstorSnapshots /\ (Settled(new) = new \/ Settled(new) = NoSnapshot)
  BY NoSnapshotFields, Zenon DEF Settled
<1>3. faults' \in 0..MaxFaults /\ snap \in [Snapshots -> AntstorSnapshots]
  BY <1>1, FaultType, TypeParts, Zenon DEF IInv
<1>4. snap' \in [Snapshots -> AntstorSnapshots]
  BY <1>1, <1>2, <1>3, Zenon
<1>5. ASSUME NEW t \in Snapshots
      PROVE  \/ snap'[t] = snap[t]
             \/ /\ t = heldSnap.of /\ snap[t] = heldSnap.copy
                /\ snap'[t] = new \/ snap'[t] = NoSnapshot
  BY <1>1, <1>2, <1>3, Zenon
<1> QED BY <1>1, <1>3, <1>4, <1>5, Zenon

LEMMA LoopWriteKeeps ==
    ASSUME IInv, heldSnap # NotHeld, heldSnap.of \in Snapshots,
           UNCHANGED <<notSnap, past, calls>>,
           NEW new \in AntstorSnapshots, ObjectInv(new, past), UpdateSnapshot(new),
           Served(new) => Served(heldSnap.copy),
           snapLv' \in Lengths, Lvm => lv + snapLv' \in 0..Capacity,
           snapLv' > 0 => snapLv > 0 \/ (agent /\ Lvm) \/ Online,
           CutInv'
    PROVE  IInv'
<1>1. /\ heldSnap' = NotHeld /\ faults' \in 0..MaxFaults
      /\ snap' \in [Snapshots -> AntstorSnapshots]
      /\ \/ snap' = snap
         \/ /\ snap[heldSnap.of] = heldSnap.copy
            /\ snap' = [snap EXCEPT ![heldSnap.of] = Settled(new)]
      /\ \A t \in Snapshots : \/ snap'[t] = snap[t]
                              \/ /\ t = heldSnap.of /\ snap[t] = heldSnap.copy
                                 /\ snap'[t] = new \/ snap'[t] = NoSnapshot
  BY UpdateCases, Zenon
<1>2. HeldSnapInv'
  BY <1>1, Zenon DEF HeldSnapInv
<1>3. OneSnapshotServed'
  <2>1. CASE snap' = snap
    BY <2>1, Zenon DEF IInv, SnapInv, OneSnapshotServed
  <2>2. CASE /\ snap[heldSnap.of] = heldSnap.copy
             /\ snap' = [snap EXCEPT ![heldSnap.of] = Settled(new)]
    <3>1. Served(Settled(new)) => Served(new)
      BY NoSnapshotInv, Zenon DEF Settled
    <3>2. snap \in [Snapshots -> AntstorSnapshots]
      BY TypeParts, Zenon DEF IInv
    <3> QED BY <2>2, <3>1, <3>2, OneServedKept, Zenon DEF IInv, SnapInv
  <2> QED BY <1>1, <2>1, <2>2, Zenon
<1>4. \A t \in Snapshots : ObjectInv(snap'[t], past')
  <2>1. past' = past
    BY Zenon
  <2> QED BY <1>1, <2>1, ObjectFacts, NoSnapshotInv, Zenon
<1>5. SnapInv'
  BY <1>2, <1>3, <1>4, Zenon DEF SnapInv
<1>6. /\ past' \subseteq Rare /\ past \subseteq past' /\ (EarlyResize' => EarlyResize)
      /\ calls' \in 0..MaxCalls /\ heldSnap' \in HeldSnaps
  BY <1>1, TypeParts, Literals, Zenon DEF IInv, EarlyResize
<1> QED BY <1>1, <1>5, <1>6, SnapStepKeeps, Zenon

LEMMA SmallerSnapLv ==
    ASSUME IInv, snapLv' = 0 \/ snapLv' = snapLv
    PROVE  /\ snapLv' \in Lengths /\ (Lvm => lv + snapLv' \in 0..Capacity)
           /\ snapLv' > 0 => snapLv > 0
<1>1. snapLv \in Lengths /\ lv \in 0..Capacity /\ (Lvm => lv + snapLv \in 0..Capacity)
  BY VolumeFacts, Zenon
<1> QED BY <1>1, Sizes DEF Lengths

LEMMA RemoveSnapshotKeeps == ASSUME IInv, RemoveSnapshot PROVE IInv'
<1> DEFINE c == heldSnap.copy
           new == [c EXCEPT !.finalizer = FALSE]
<1>1. /\ c.deleting /\ c.finalizer /\ snapLv' \in EngineDelete /\ UpdateSnapshot(new)
      /\ UNCHANGED <<notSnap, past, calls>>
  BY Zenon DEF RemoveSnapshot
<1>2. /\ heldSnap # NotHeld /\ heldSnap.of \in Snapshots
      /\ c \in AntstorSnapshots /\ ObjectInv(c, past)
  BY <1>1, HeldSnapFacts, Zenon
<1>3. /\ new \in AntstorSnapshots /\ new.finalizer = FALSE /\ new.status = c.status
      /\ new.there = c.there /\ new.size = c.size /\ new.bound = c.bound
      /\ new.labels = c.labels /\ new.deleting = c.deleting
  BY <1>2, Zenon DEF AntstorSnapshots
<1> HIDE DEF c, new
<1>4. ObjectInv(new, past) /\ (Served(new) => Served(c)) /\ ~Uses(new)
  BY <1>1, <1>2, <1>3, Zenon DEF ObjectInv, Served, Uses
<1>5. snapLv' = 0 \/ snapLv' = snapLv
  BY <1>1, Zenon DEF EngineDelete, LvmDeleteVolume, RemoveLV, DeleteLvol
<1>6. CutInv'
  <2> SUFFICES ASSUME NEW t \in Snapshots, Uses(snap'[t]) PROVE Exempt'
    BY Zenon DEF CutInv
  <2>1. snap'[t] = snap[t]
    BY <1>1, <1>2, <1>3, <1>4, UpdateCases, NoSnapshotInv, Zenon DEF c
  <2>2. Exempt
    BY <1>1, <2>1, NoOtherInUse, Zenon DEF c
  <2>3. past' = past /\ stack' = stack
    BY <1>1, Zenon DEF notSnap, poolVars
  <2> QED BY <2>2, <2>3, Zenon DEF Exempt, OnFile, SpdkRestarted
<1> QED BY <1>1, <1>2, <1>3, <1>4, <1>5, <1>6, SmallerSnapLv, LoopWriteKeeps, Zenon DEF c

LEMMA MergeKeeps == ASSUME IInv, Merge PROVE IInv'
<1> DEFINE c == heldSnap.copy
           new == [c EXCEPT !.finish = TRUE]
<1>1. /\ ~c.deleting /\ c.status = "merging" /\ c.finalizer
      /\ snapLv' \in LvmMergeSnapshot(snapLv, open) /\ UpdateSnapshot(new)
      /\ UNCHANGED <<notSnap, past, calls>>
  BY Zenon DEF Merge
<1>2. /\ heldSnap # NotHeld /\ heldSnap.of \in Snapshots
      /\ c \in AntstorSnapshots /\ ObjectInv(c, past)
  BY <1>1, HeldSnapFacts, Zenon
<1>3. /\ new \in AntstorSnapshots /\ new.finalizer = c.finalizer /\ new.status = c.status
      /\ new.there = c.there /\ new.size = c.size /\ new.bound = c.bound
      /\ new.labels = c.labels /\ new.deleting = c.deleting
  BY <1>2, Zenon DEF AntstorSnapshots
<1> HIDE DEF c, new
<1>4. ObjectInv(new, past) /\ (Served(new) => Served(c)) /\ ~Uses(new)
  BY <1>1, <1>2, <1>3, Zenon DEF ObjectInv, Served, Uses
<1>5. snapLv' = 0
  BY <1>1, Zenon DEF LvmMergeSnapshot, MergeSnapshot
<1>6. CutInv'
  <2> SUFFICES ASSUME NEW t \in Snapshots, Uses(snap'[t]) PROVE Exempt'
    BY Zenon DEF CutInv
  <2>1. snap'[t] = snap[t]
    BY <1>1, <1>2, <1>3, <1>4, UpdateCases, NoSnapshotInv, Zenon DEF c
  <2>2. Exempt
    BY <1>1, <2>1, NoOtherInUse, Zenon DEF c
  <2>3. past' = past /\ stack' = stack
    BY <1>1, Zenon DEF notSnap, poolVars
  <2> QED BY <2>2, <2>3, Zenon DEF Exempt, OnFile, SpdkRestarted
<1> QED BY <1>1, <1>2, <1>3, <1>4, <1>5, <1>6, SmallerSnapLv, LoopWriteKeeps, Zenon DEF c

LEMMA CutResult ==
    ASSUME IInv, NEW size \in 0..MaxSize, size > 0, NEW x \in EngineSnapshot(size)
    PROVE  x \in Lengths /\ x > 0 /\ (Lvm => lv + x \in 0..Capacity) /\ (Lvm \/ Online)
<1>1. snapLv \in Lengths /\ lv \in 0..Capacity /\ (Lvm => lv + snapLv \in 0..Capacity)
  BY VolumeFacts, Zenon
<1>2. CASE Lvm
  <2>1. (snapLv # 0 /\ x = snapLv) \/ (x = size /\ size <= Free)
    BY <1>2, Zenon DEF EngineSnapshot, LvmCreateSnapshot, isVolumeExistent, ListLVInVG,
       CreateSnapshotLinear, Only
  <2>2. Free = Capacity - lv - snapLv
    BY <1>2, FreeType, Zenon DEF IInv
  <2> QED BY <1>1, <1>2, <2>1, <2>2, Sizes DEF Lengths
<1>3. CASE ~Lvm
  <2>1. Online /\ ((snapLv # 0 /\ x = snapLv) \/ (snapLv = 0 /\ x = size))
    BY <1>3, Zenon DEF EngineSnapshot, CreateLvolSnapshot, Only
  <2> QED BY <1>1, <1>3, <2>1, Sizes DEF Lengths
<1> QED BY <1>2, <1>3, Zenon

LEMMA CutKeeps == ASSUME IInv, Cut PROVE IInv'
<1> DEFINE c == heldSnap.copy
           new == [c EXCEPT !.finalizer = TRUE]
<1>1. /\ ~c.deleting /\ c.status = "creating"
      /\ snapLv' \in EngineSnapshot(c.size) /\ UpdateSnapshot(new)
      /\ UNCHANGED <<notSnap, past, calls>>
  BY Zenon DEF Cut
<1>2. /\ heldSnap # NotHeld /\ heldSnap.of \in Snapshots /\ agent
      /\ c \in AntstorSnapshots /\ ObjectInv(c, past)
  BY <1>1, HeldSnapFacts, Zenon
<1>3. /\ new \in AntstorSnapshots /\ new.finalizer = TRUE /\ new.status = c.status
      /\ new.there = c.there /\ new.size = c.size /\ new.bound = c.bound
      /\ new.labels = c.labels /\ new.deleting = c.deleting
  BY <1>2, Zenon DEF AntstorSnapshots
<1> HIDE DEF c, new
<1>4. ObjectInv(new, past) /\ (Served(new) => Served(c))
  BY <1>1, <1>2, <1>3, Zenon DEF ObjectInv, Served
<1>5. c.size \in 0..MaxSize /\ c.size > 0
  BY <1>1, <1>2, SnapshotFields, Zenon DEF ObjectInv
<1>6. /\ snapLv' \in Lengths /\ snapLv' > 0 /\ (Lvm => lv + snapLv' \in 0..Capacity)
      /\ (Lvm \/ Online)
  BY <1>1, <1>5, CutResult, Zenon
<1>7. CutInv'
  BY <1>6, Zenon DEF CutInv
<1> QED BY <1>1, <1>2, <1>3, <1>4, <1>6, <1>7, LoopWriteKeeps, Zenon DEF c

LEMMA StatusKeeps == ASSUME IInv, SnapshotReady \/ SnapshotMerged PROVE IInv'
<1> DEFINE c == heldSnap.copy
           new(x) == [c EXCEPT !.status = x]
<1>1. PICK x \in {"ready", "merged"} :
        /\ ~c.deleting /\ UpdateSnapshot(new(x)) /\ UNCHANGED <<notSnap, snapLv, past, calls>>
        /\ \/ x = "ready" /\ c.status = "creating" /\ c.finalizer
           \/ x = "merged" /\ c.status = "merging"
  <2>1. CASE SnapshotReady
    BY <2>1, Zenon DEF SnapshotReady
  <2>2. CASE SnapshotMerged
    BY <2>2, Zenon DEF SnapshotMerged
  <2> QED BY <2>1, <2>2, Zenon
<1>2. /\ heldSnap # NotHeld /\ heldSnap.of \in Snapshots
      /\ c \in AntstorSnapshots /\ ObjectInv(c, past)
  BY <1>1, HeldSnapFacts, Zenon
<1> DEFINE r == new(x)
<1>3. /\ r \in AntstorSnapshots /\ r.finalizer = c.finalizer /\ r.status = x
      /\ r.there = c.there /\ r.size = c.size /\ r.bound = c.bound
      /\ r.labels = c.labels /\ r.deleting = c.deleting
  <2>1. x \in {"", "creating", "ready", "merging", "merged"}
    BY Zenon
  <2> QED BY <1>2, <2>1, Zenon DEF AntstorSnapshots
<1>4. UpdateSnapshot(r)
  BY <1>1, Zenon
<1> HIDE DEF c, new, r
<1>5. ObjectInv(r, past) /\ (Served(r) => Served(c)) /\ (Uses(r) => Uses(c))
  BY <1>1, <1>2, <1>3, Zenon DEF ObjectInv, Served, Uses
<1>6. snapLv' = snapLv /\ past' = past /\ stack' = stack
  BY <1>1, Zenon DEF notSnap, poolVars
<1>7. CutInv'
  <2> SUFFICES ASSUME NEW t \in Snapshots, Uses(snap'[t]) PROVE snapLv > 0 \/ Exempt
    BY <1>6, Zenon DEF CutInv, Exempt, OnFile, SpdkRestarted
  <2>1. Uses(snap[t])
    <3>1. \/ snap'[t] = snap[t]
          \/ /\ t = heldSnap.of /\ snap[t] = heldSnap.copy
             /\ snap'[t] = r \/ snap'[t] = NoSnapshot
      BY <1>2, <1>3, <1>4, UpdateCases, Zenon
    <3> QED BY <1>5, <3>1, NoSnapshotInv, Zenon DEF c
  <2> QED BY <2>1, Zenon DEF IInv, SnapInv, CutInv
<1> QED BY <1>1, <1>2, <1>3, <1>4, <1>5, <1>6, <1>7, SmallerSnapLv, LoopWriteKeeps, Zenon DEF c

LEMMA SnapshotPassEndsKeeps == ASSUME IInv, SnapshotPassEnds PROVE IInv'
<1>1. heldSnap' = NotHeld /\ UNCHANGED <<notSnap, snap, snapLv, past, calls, faults>>
  BY Zenon DEF SnapshotPassEnds
<1>2. stack' = stack
  BY <1>1, Zenon DEF notSnap, poolVars
<1>3. SnapInv'
  BY <1>1, <1>2, SnapKept, Zenon DEF IInv
<1>4. /\ snap' \in [Snapshots -> AntstorSnapshots] /\ heldSnap' \in HeldSnaps
      /\ past' \subseteq Rare /\ past \subseteq past' /\ (EarlyResize' => EarlyResize)
      /\ calls' \in 0..MaxCalls /\ faults' \in 0..MaxFaults /\ snapLv' = snapLv
  BY <1>1, TypeParts, Literals, Zenon DEF IInv, EarlyResize
<1> QED BY <1>1, <1>3, <1>4, SmallerSnapLv, SnapStepKeeps, Zenon

-----------------------------------------------------------------------------
LEMMA InitIInv == ASSUME Init PROVE IInv
<1>1. /\ stack \in Stacks /\ agent = FALSE /\ media = NoMedia /\ remote \in BOOLEAN /\ pool = TRUE
      /\ vol = NewVolume /\ lv = 0 /\ bdev = 0 /\ fs = 0 /\ reported = Capacity
      /\ resizing = FALSE /\ open = FALSE /\ snap = [s \in Snapshots |-> NoSnapshot] /\ snapLv = 0
      /\ held = Nothing /\ heldSnap = NotHeld /\ past = {} /\ calls = 0 /\ faults = 0
  BY Zenon DEF Init, PoolInit
<1>2. /\ 0 \in 0..Capacity /\ Capacity \in 0..Capacity /\ 0 \in 0..MaxCalls /\ 0 \in 0..MaxFaults
      /\ 0 + 0 \in 0..Capacity /\ ~(0 > 0) /\ 1 > 0 /\ 0 < 1
  BY Sizes
<1>3. snap \in [Snapshots -> AntstorSnapshots] /\ \A s \in Snapshots : snap[s] = NoSnapshot
  BY <1>1, NoSnapshotFields, Zenon
<1>4. TypeOK
  <2>1. Room
    BY <1>1, <1>2, Zenon DEF Room
  <2>2. past \subseteq Rare
    BY <1>1, Zenon
  <2> QED BY <1>1, <1>2, <1>3, <2>1, <2>2, TypeParts, Literals, NoMediaType, Sizes, Zenon
<1>5. SizedInv
  BY <1>1, <1>2, Literals, Zenon DEF SizedInv
<1>6. HeldInv
  BY <1>1, <1>2, Literals, Zenon DEF HeldInv
<1>7. MediumInv
  <2>1. media.swapped = FALSE /\ media.store = FALSE
    BY <1>1, Zenon DEF NoMedia
  <2> QED BY <1>1, <1>2, <2>1, Zenon DEF MediumInv
<1>8. VolumeInv
  BY <1>1, <1>2, Literals, Zenon DEF VolumeInv, ResizedAsAsked
<1>9. SnapInv
  <2>1. OneSnapshotServed
    BY <1>3, NoSnapshotFields, Zenon DEF OneSnapshotServed
  <2>2. CutInv
    BY <1>3, NoSnapshotInv, Zenon DEF CutInv
  <2>3. HeldSnapInv
    BY <1>1, Zenon DEF HeldSnapInv
  <2>4. \A s \in Snapshots : ObjectInv(snap[s], past)
    BY <1>3, NoSnapshotInv, Zenon
  <2> QED BY <2>1, <2>2, <2>3, <2>4, Zenon DEF SnapInv
<1> QED BY <1>4, <1>5, <1>6, <1>7, <1>8, <1>9, Zenon DEF IInv

LEMMA StutterKeeps == ASSUME IInv, UNCHANGED vars PROVE IInv'
<1>1. UNCHANGED <<poolVars, where, volumeVars, snapVars, past, calls, faults>>
  BY Zenon DEF vars
<1>2. /\ UNCHANGED <<notSnap, snap, snapLv, heldSnap, past, calls, faults>>
      /\ UNCHANGED <<stack, agent, pool>>
  BY <1>1, Zenon DEF notSnap, snapVars, poolVars, where
<1>3. SnapInv'
  BY <1>2, SnapKept, Zenon DEF IInv
<1>4. /\ snap' \in [Snapshots -> AntstorSnapshots] /\ heldSnap' \in HeldSnaps
      /\ past' \subseteq Rare /\ past \subseteq past' /\ (EarlyResize' => EarlyResize)
      /\ calls' \in 0..MaxCalls /\ faults' \in 0..MaxFaults /\ snapLv' = snapLv
  BY <1>2, TypeParts, Zenon DEF IInv, EarlyResize
<1> QED BY <1>2, <1>3, <1>4, SmallerSnapLv, SnapStepKeeps, Zenon

LEMMA NextIInv == ASSUME IInv, [Next]_vars PROVE IInv'
<1>1. CASE \E size \in 1..MaxSize : ControllerExpandVolume(size)
  BY <1>1, ControllerExpandKeeps, Zenon
<1>2. CASE NodeExpandVolume \/ OpenOrClose
  BY <1>2, FileSystemKeeps
<1>3. CASE SyncVolume \/ PassEnds \/ ReportFree
  BY <1>3, PassKeeps
<1>4. CASE VolumeLoop
  BY <1>4, ExpandKeeps, CreateKeeps, PublishKeeps, Zenon DEF VolumeLoop
<1>5. ASSUME NEW s \in Snapshots,
             \/ CreateSnapshot(s) \/ UserSnapshot(s) \/ DeleteSnapshot(s) \/ AskMerge(s)
             \/ Reconcile(s) \/ SyncSnapshot(s)
      PROVE  IInv'
  BY <1>5, NewSnapshotKeeps, DeleteSnapshotKeeps, AskMergeKeeps, ReconcileKeeps,
     SyncSnapshotKeeps, Zenon
<1>6. CASE SnapshotLoop
  BY <1>6, RemoveSnapshotKeeps, CutKeeps, StatusKeeps, MergeKeeps, Zenon DEF SnapshotLoop
<1>7. CASE SnapshotPassEnds
  BY <1>7, SnapshotPassEndsKeeps
<1>8. CASE BuildPool \/ Die \/ RestartSpdk \/ Reboot \/ PoolRemoved
  BY <1>8, BuildPoolKeeps, BaseLostKeeps, AgentLostKeeps, Zenon
<1>9. CASE UNCHANGED vars
  BY <1>9, StutterKeeps
<1> QED BY <1>1, <1>2, <1>3, <1>4, <1>5, <1>6, <1>7, <1>8, <1>9, Zenon DEF Next

LEMMA Invariance == Spec => []IInv
BY InitIInv, NextIInv, PTL DEF Spec

(* Every variable keeps its type, and what the engines allocate, the volume and
   its snapshot with LVM, stays within the pool for every size that is asked for
   (LvmExpandVolume, CreateLvol, CreateSnapshotLinear and their space checks). *)
THEOREM TypeCorrect == Spec => []TypeOK
<1>1. IInv => TypeOK
  BY DEF IInv
<1> QED BY <1>1, Invariance, PTL

(* On a pool made of a file a created volume is never lost: whatever interrupts
   the agent, SPDK or the node, a later buildLVM or buildLvsAioBdev finds the store
   that is there, and no pass of the volume loop removes the logical volume. *)
THEOREM CreatedVolumeKept == Spec => []VolumeKept
<1>1. ASSUME IInv PROVE VolumeKept
  BY <1>1, Zenon DEF IInv, VolumeInv, MediumInv, VolumeKept, OnFile
<1> QED BY <1>1, Invariance, PTL

(* Of any number of snapshots of a volume at most one is in work or in use: the
   reconciler gives OriginVolTargetNodeID only to one that is alone by its label, and
   no write of users, reconciler or agent brings back one that has stepped aside. *)
THEOREM AtMostOneServed == Spec => []OneSnapshotServed
<1>1. ASSUME IInv PROVE OneSnapshotServed
  BY <1>1, Zenon DEF IInv, SnapInv
<1> QED BY <1>1, Invariance, PTL

(* A ready snapshot has its logical volume: the pass that deletes or merges
   <origin>_snap works on a snapshot that holds the finalizer, the write that makes a
   snapshot ready is refused if anything changed since it was cut, and the others
   wait (sync_snapshot.go, SnapshotReconciler).  That is so until the first time a
   merged snapshot is deleted, for which the agent removes <origin>_snap whoever has
   it, or a user labels a snapshot; and on memory and RAID until SPDK restarts. *)
THEOREM ReadyIsCut == Spec => []ReadySnapshotBacked
<1>1. ASSUME IInv PROVE ReadySnapshotBacked
  <2> SUFFICES ASSUME NEW s \in Snapshots, snap[s].status = "ready", ~snap[s].deleting
               PROVE  \/ snapLv > 0
                      \/ past \cap {"mergedDeleted", "ownLabels"} # {}
                      \/ stack \in {"mem", "raid"} /\ "spdkRestart" \in past
    BY Zenon DEF ReadySnapshotBacked
  <2>1. Uses(snap[s])
    BY <1>1, ObjectFacts, Zenon DEF ObjectInv, Uses
  <2>2. snapLv > 0 \/ Exempt
    BY <1>1, <2>1, Zenon DEF IInv, SnapInv, CutInv
  <2>3. ~OnFile => stack \in {"mem", "raid"}
    BY <1>1, TypeParts, StackCases, Zenon DEF IInv
  <2> QED BY <2>2, <2>3, Zenon DEF Exempt, SpdkRestarted
<1> QED BY <1>1, Invariance, PTL

(* On lvols kubelet is told that an expansion is done only when the file system
   has the size of the Spec: NodeExpandVolume waits for the label to go, the label
   goes with the write that follows the resize, and a retry of the resize sets the
   same size again (ExpandVolume, expandVolume, NodeExpandVolume). *)
THEOREM ResizeIsDone == Spec => []ResizedAsAsked
<1>1. ASSUME IInv PROVE ResizedAsAsked
  BY <1>1, Zenon DEF IInv, VolumeInv
<1> QED BY <1>1, Invariance, PTL
=============================================================================
