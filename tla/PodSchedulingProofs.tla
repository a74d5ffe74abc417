------------------------ MODULE PodSchedulingProofs ------------------------
(***************************************************************************)
(* Proofs about PodScheduling, for every set of nodes and pods, every      *)
(* number of claims and all sizes: the types, ReservationsOwned and        *)
(* VolumesLocal.                                                           *)
(*                                                                         *)
(* What FreeResource computes is never looked into: the two properties do  *)
(* not depend on how much room the pools have.                             *)
(***************************************************************************)
EXTENDS PodScheduling, TLAPS

(* p is in a scheduling or a binding cycle on n. *)
InCycle(p, n) == binding[p].node = n \/ (cycle # <<>> /\ cycle[1] = p /\ cycle[2] = n)

(* The cycles: a pod is in one at most, and its claims are in the cache or gone
   for good (PreFilter has seen them, and only their deletion removes them). *)
CycleInv ==
    /\ \A p \in Pods : binding[p].node = None => binding[p].todo = <<>>
    /\ cycle # <<>> => binding[cycle[1]] = NoCycle
    /\ \A p \in Pods, n \in Nodes : InCycle(p, n) =>
          \A c \in Range(ClaimsOf[p]) : seen[c].phase # "gone" \/ api[c].phase = "gone"

(* A claim's selected-node is the node of the cycle its pod is in, if it has one. *)
SelectedInv ==
    \A p \in Pods, n \in Nodes : InCycle(p, n) =>
        \A c \in Range(ClaimsOf[p]) : api[c].sel \in {None, n}

(* When PreBind runs first, it has written the node onto the claims it is done with. *)
PatchedInv ==
    \A p \in Pods : patchFirst /\ binding[p].node # None =>
        \A c \in Range(ClaimsOf[p]) : api[c].tgt = binding[p].node \/ c \in Range(binding[p].todo)

(* The annotation and the selected-node of a claim agree. *)
AgreeInv ==
    \A c \in Claims : \/ patchFirst /\ api[c].sel = None
                      \/ ~patchFirst /\ api[c].tgt = None
                      \/ api[c].tgt = api[c].sel

BoundInv ==
    \A p \in Pods : bound[p] # None => \A c \in Range(ClaimsOf[p]) : api[c].sel = bound[p]

(* A volume's host, its hint and its target are the selected-node of its claim. *)
VolumeInv ==
    \A c \in Claims : vol[c] # NoVolume =>
        /\ api[c].sel # None
        /\ vol[c].host = api[c].sel
        /\ {vol[c].hint, vol[c].target} \subseteq {None, api[c].sel}

(* What makes VolumesLocal inductive. *)
LocalInv == stale \/ (SelectedInv /\ PatchedInv /\ AgreeInv /\ BoundInv /\ VolumeInv)

IInv == TypeOK /\ CycleInv /\ ReservationsOwned /\ LocalInv

-----------------------------------------------------------------------------
(* Sequences of claims, and records. *)

LEMMA ClaimsOfPod ==
    ASSUME NEW p \in Pods
    PROVE  /\ ClaimsOf[p] \in Seq(Claims) /\ ClaimsOf[p] # <<>>
           /\ Range(ClaimsOf[p]) \subseteq Claims
  BY PodSchedulingAssumption DEF Claims

(* A claim belongs to one pod. *)
LEMMA OnePod ==
    ASSUME NEW p \in Pods, NEW q \in Pods, NEW c \in Range(ClaimsOf[p]), c \in Range(ClaimsOf[q])
    PROVE  p = q
  BY PodSchedulingAssumption, Zenon

LEMMA HeadTail ==
    ASSUME NEW q \in Seq(Claims), q # <<>>
    PROVE  /\ Head(q) \in Range(q)
           /\ Tail(q) \in Seq(Claims)
           /\ Range(Tail(q)) \subseteq Range(q)
           /\ \A c \in Range(q) : c = Head(q) \/ c \in Range(Tail(q))
           /\ Len(q) # 1 => Tail(q) # <<>>
  <1>1. Len(q) \in Nat /\ Len(q) > 0 /\ Head(q) = q[1] /\ DOMAIN q = 1..Len(q)
    OBVIOUS
  <1>2. Tail(q) \in Seq(Claims) /\ Len(Tail(q)) = Len(q) - 1
    OBVIOUS
  <1>3. \A i \in 1..(Len(q) - 1) : Tail(q)[i] = q[i + 1]
    OBVIOUS
  <1>4. DOMAIN Tail(q) = 1..(Len(q) - 1)
    BY <1>2, <1>1
  <1>5. Head(q) \in Range(q)
    BY <1>1 DEF Range
  <1>6. Range(Tail(q)) \subseteq Range(q)
    BY <1>1, <1>3, <1>4 DEF Range
  <1>7. ASSUME NEW c \in Range(q) PROVE c = Head(q) \/ c \in Range(Tail(q))
    <2>1. PICK i \in 1..Len(q) : c = q[i]
      BY <1>7, <1>1 DEF Range
    <2>2. CASE i = 1
      BY <2>1, <2>2, <1>1
    <2>3. CASE i # 1
      <3>1. i - 1 \in 1..(Len(q) - 1) /\ (i - 1) + 1 = i
        BY <2>1, <2>3, <1>1
      <3>2. Tail(q)[i - 1] = c
        BY <3>1, <1>3, <2>1
      <3>3. QED
        BY <3>1, <3>2, <1>4, Zenon DEF Range
    <2>4. QED
      BY <2>2, <2>3
  <1>8. Len(q) # 1 => Tail(q) # <<>>
    <2>1. Len(q) # 1 => Len(Tail(q)) # 0
      BY <1>1, <1>2
    <2>2. Len(<<>>) = 0
      OBVIOUS
    <2>3. QED
      BY <2>1, <2>2, Zenon
  <1>9. QED
    BY <1>2, <1>5, <1>6, <1>7, <1>8

LEMMA EmptyRange == Range(<<>>) = {} /\ <<>> \in Seq(Claims)
  BY DEF Range

LEMMA Constants ==
    /\ NewClaim \in Claim /\ Unseen \in Claim /\ NoVolume \in Volume
    /\ NewClaim.sel = None /\ NewClaim.tgt = None /\ NewClaim.phase = "Pending"
    /\ Unseen.phase = "gone"
    /\ NoVolume.target = None
    /\ NoCycle.node = None /\ NoCycle.todo = <<>>
    /\ NoCycle \in [node : Node, todo : Seq(Claims)]
  <1>1. None \in Node
    BY DEF Node
  <1>2. NewClaim \in Claim /\ NoVolume \in Volume
    BY <1>1, Zenon DEF NewClaim, Claim, NoVolume, Volume
  <1>3. Unseen \in Claim /\ Unseen.phase = "gone"
    BY <1>1, Zenon DEF Unseen, NewClaim, Claim
  <1>4. NewClaim.sel = None /\ NewClaim.tgt = None /\ NewClaim.phase = "Pending" /\ NoVolume.target = None
    BY DEF NewClaim, NoVolume
  <1>5. NoCycle.node = None /\ NoCycle.todo = <<>>
    BY DEF NoCycle
  <1>6. NoCycle \in [node : Node, todo : Seq(Claims)]
    BY <1>1, EmptyRange DEF NoCycle
  <1>7. QED
    BY <1>2, <1>3, <1>4, <1>5, <1>6

(* The writes to a claim. *)
LEMMA ClaimWrites ==
    ASSUME api \in [Claims -> Claim], NEW c \in Claims, NEW n \in Node
    PROVE  /\ api' = [api EXCEPT ![c].tgt = n] =>
                /\ api' \in [Claims -> Claim]
                /\ api'[c].tgt = n /\ api'[c].sel = api[c].sel /\ api'[c].phase = api[c].phase
                /\ \A d \in Claims \ {c} : api'[d] = api[d]
           /\ api' = [api EXCEPT ![c].sel = n] =>
                /\ api' \in [Claims -> Claim]
                /\ api'[c].sel = n /\ api'[c].tgt = api[c].tgt /\ api'[c].phase = api[c].phase
                /\ \A d \in Claims \ {c} : api'[d] = api[d]
  <1>1. ASSUME api' = [api EXCEPT ![c].tgt = n]
        PROVE  /\ api' \in [Claims -> Claim]
               /\ api'[c].tgt = n /\ api'[c].sel = api[c].sel /\ api'[c].phase = api[c].phase
               /\ \A d \in Claims \ {c} : api'[d] = api[d]
    BY <1>1, Zenon DEF Claim
  <1>2. ASSUME api' = [api EXCEPT ![c].sel = n]
        PROVE  /\ api' \in [Claims -> Claim]
               /\ api'[c].sel = n /\ api'[c].tgt = api[c].tgt /\ api'[c].phase = api[c].phase
               /\ \A d \in Claims \ {c} : api'[d] = api[d]
    BY <1>2, Zenon DEF Claim
  <1>3. QED
    BY <1>1, <1>2

LEMMA PhaseWrite ==
    ASSUME api \in [Claims -> Claim], NEW c \in Claims, NEW ph \in {"Bound", "gone"},
           api' = [api EXCEPT ![c].phase = ph]
    PROVE  /\ api' \in [Claims -> Claim]
           /\ \A d \in Claims : api'[d].sel = api[d].sel /\ api'[d].tgt = api[d].tgt
           /\ api'[c].phase = ph
           /\ \A d \in Claims \ {c} : api'[d] = api[d]
  BY Zenon DEF Claim

-----------------------------------------------------------------------------
(* The types. *)

(* What is left to show after an action, variable by variable. *)
Binding == [Pods -> [node : Node, todo : Seq(Claims)]]

BindingOK ==
    /\ binding \in Binding
    /\ \A p \in Pods : Range(binding[p].todo) \subseteq Range(ClaimsOf[p])

CycleOK ==
    \/ cycle = <<>>
    \/ /\ cycle \in Pods \X Nodes \X (Seq(Claims) \ {<<>>})
       /\ Range(cycle[3]) \subseteq Range(ClaimsOf[cycle[1]])

PlacedOK ==
    /\ placed \in [Nodes -> SUBSET Claims] /\ resv \in [Nodes -> SUBSET Claims]
    /\ \A n \in Nodes : placed[n] \cap resv[n] = {}

RestOK ==
    /\ patchFirst \in BOOLEAN /\ pods \subseteq Pods /\ bound \in [Pods -> Node]
    /\ pools \subseteq nodes /\ nodes \subseteq Nodes
    /\ other \in [Nodes -> 0..MaxOther]
    /\ stale \in BOOLEAN /\ class \in {"unread", "cached", "failing"} /\ missed \subseteq Claims
    /\ faults \in 0..MaxFaults

LEMMA TypeParts ==
    TypeOK <=> /\ api \in [Claims -> Claim] /\ seen \in [Claims -> Claim] /\ vol \in [Claims -> Volume]
               /\ BindingOK /\ CycleOK /\ PlacedOK /\ RestOK
  BY Zenon DEF TypeOK, Binding, BindingOK, CycleOK, PlacedOK, RestOK

LEMMA TypePartsPrimed ==
    TypeOK' <=> /\ api' \in [Claims -> Claim] /\ seen' \in [Claims -> Claim] /\ vol' \in [Claims -> Volume]
                /\ BindingOK' /\ CycleOK' /\ PlacedOK' /\ RestOK'
  BY Zenon DEF TypeOK, Binding, BindingOK, CycleOK, PlacedOK, RestOK

LEMMA BindingKept == ASSUME BindingOK, UNCHANGED binding PROVE BindingOK'
  BY Zenon DEF BindingOK

LEMMA CycleKept == ASSUME CycleOK, UNCHANGED cycle PROVE CycleOK'
  BY Zenon DEF CycleOK

LEMMA PlacedKept == ASSUME PlacedOK, UNCHANGED <<placed, resv>> PROVE PlacedOK'
  BY Zenon DEF PlacedOK

LEMMA TypeInit == Init => TypeOK
  <1> SUFFICES ASSUME Init PROVE TypeOK
    OBVIOUS
  <1>1. api \in [Claims -> Claim] /\ seen \in [Claims -> Claim] /\ vol \in [Claims -> Volume]
    BY Constants DEF Init
  <1>2. binding \in Binding /\ \A p \in Pods : binding[p] = NoCycle
    BY Constants DEF Init, Binding
  <1>3. BindingOK
    BY <1>2, Constants, EmptyRange DEF BindingOK
  <1>4. CycleOK
    BY DEF Init, CycleOK
  <1>5. PlacedOK
    BY DEF Init, PlacedOK
  <1>6. RestOK
    <2>1. bound \in [Pods -> Node] /\ other \in [Nodes -> 0..MaxOther] /\ faults \in 0..MaxFaults
      BY PodSchedulingAssumption DEF Init, Node
    <2>2. patchFirst \in BOOLEAN /\ stale \in BOOLEAN /\ class \in {"unread", "cached", "failing"}
      BY Zenon DEF Init
    <2>3. pods \subseteq Pods /\ pools \subseteq nodes /\ nodes \subseteq Nodes /\ missed \subseteq Claims
      BY DEF Init
    <2>4. QED
      BY <2>1, <2>2, <2>3 DEF RestOK
  <1>7. QED
    BY <1>1, <1>3, <1>4, <1>5, <1>6, TypeParts

(* The actions that write neither a cycle nor a reservation. *)
LEMMA PoolKnownType == ASSUME TypeOK, NEW n \in Nodes, PoolKnown(n) PROVE TypeOK'
  <1>1. RestOK'
    BY TypeParts DEF RestOK, PoolKnown, podVars
  <1>2. UNCHANGED <<api, seen, vol, binding, cycle, placed, resv>>
    BY DEF PoolKnown, podVars
  <1>3. QED
    BY <1>1, <1>2, TypeParts, TypePartsPrimed, BindingKept, CycleKept, PlacedKept

LEMMA OtherVolumeType == ASSUME TypeOK, NEW n \in Nodes, OtherVolume(n) PROVE TypeOK'
  <1>1. RestOK'
    BY TypeParts, PodSchedulingAssumption DEF RestOK, OtherVolume, podVars
  <1>2. UNCHANGED <<api, seen, vol, binding, cycle, placed, resv>>
    BY DEF OtherVolume, podVars
  <1>3. QED
    BY <1>1, <1>2, TypeParts, TypePartsPrimed, BindingKept, CycleKept, PlacedKept

(* The events of the claims. *)
LEMMA ReservedType ==
    ASSUME PlacedOK, NEW n \in Nodes, NEW c \in Claims
    PROVE  /\ Reserved(n, c) \subseteq resv[n] \cup {c}
           /\ Reserved(n, c) \cap placed[n] = {}
  BY DEF PlacedOK, Reserved

LEMMA LookUpType ==
    ASSUME RestOK, NEW ok \in BOOLEAN, GetByName(ok)
    PROVE  class' \in {"unread", "cached", "failing"} /\ faults' \in 0..MaxFaults
  BY PodSchedulingAssumption DEF RestOK, GetByName

LEMMA ObserveType == ASSUME TypeOK, NEW c \in Claims, Observe(c) PROVE TypeOK'
  <1>0. PlacedOK /\ RestOK /\ api[c] \in Claim /\ Unseen \in Claim
    BY TypeParts, Constants
  <1>1. seen' \in [Claims -> Claim]
    <2>1. (IF api[c].phase = "gone" THEN Unseen ELSE api[c]) \in Claim
      BY <1>0
    <2>2. QED
      BY <2>1, TypeParts DEF Observe
  <1>2. UNCHANGED <<api, vol, binding, cycle, placed>>
    BY DEF Observe, podVars
  <1>3. PlacedOK' /\ RestOK'
    <2>1. CASE OnAdd(c)
      <3>0. PICK ok \in BOOLEAN :
              /\ GetByName(ok)
              /\ nodes' = nodes \cup {n \in Nodes : isAntstorMustLocalPVCBound(c, n, ok)}
              /\ resv' = [n \in Nodes |-> IF isAntstorMustLocalPVCBound(c, n, ok) THEN Reserved(n, c) ELSE resv[n]]
              /\ UNCHANGED missed
        BY <2>1, Zenon DEF OnAdd
      <3>1. resv' \in [Nodes -> SUBSET Claims] /\ \A n \in Nodes : resv'[n] \cap placed[n] = {}
        BY <3>0, <1>0, ReservedType DEF PlacedOK
      <3>2. RestOK'
        <4>1. class' \in {"unread", "cached", "failing"} /\ faults' \in 0..MaxFaults
          BY <3>0, <1>0, LookUpType
        <4>2. nodes \subseteq nodes' /\ nodes' \subseteq Nodes
          BY <3>0, <1>0 DEF RestOK
        <4>3. UNCHANGED <<patchFirst, pods, bound, pools, other, stale, missed>>
          BY <3>0 DEF Observe, podVars
        <4>4. QED
          BY <4>1, <4>2, <4>3, <1>0 DEF RestOK
      <3>3. QED
        BY <3>1, <3>2, <1>0, <1>2 DEF PlacedOK
    <2>2. CASE OnDelete(c)
      <3>1. resv' \in [Nodes -> SUBSET Claims] /\ \A n \in Nodes : resv'[n] \subseteq resv[n]
        BY <2>2, <1>0 DEF OnDelete, PlacedOK
      <3>2. missed' \subseteq Claims
        BY <2>2, <1>0 DEF RestOK, OnDelete
      <3>6. class' \in {"unread", "cached", "failing"} /\ faults' \in 0..MaxFaults
        <4>1. CASE \E ok \in BOOLEAN : GetByName(ok)
          BY <4>1, <1>0, LookUpType
        <4>2. CASE faults < MaxFaults /\ faults' = faults + 1 /\ UNCHANGED class
          BY <4>2, <1>0, PodSchedulingAssumption DEF RestOK
        <4>3. QED
          BY <2>2, <4>1, <4>2, Zenon DEF OnDelete
      <3>3. RestOK'
        BY <2>2, <3>2, <3>6, <1>0 DEF RestOK, OnDelete, Observe, podVars
      <3>4. PlacedOK'
        BY <3>1, <1>0, <1>2 DEF PlacedOK
      <3>5. QED
        BY <3>3, <3>4
    <2>3. CASE OnUpdate
      <3>1. RestOK'
        BY <2>3, <1>0 DEF RestOK, OnUpdate, Observe, podVars
      <3>2. QED
        BY <2>3, <3>1, <1>0, <1>2, PlacedKept DEF OnUpdate
    <2>4. QED
      BY <2>1, <2>2, <2>3 DEF Observe
  <1>4. QED
    BY <1>1, <1>2, <1>3, TypeParts, TypePartsPrimed, BindingKept, CycleKept

(* The scheduling cycle. *)
LEMMA FilterType == ASSUME TypeOK, NEW p \in Pods, NEW n \in Nodes, Filter(p, n) PROVE TypeOK'
  <1>1. CycleOK'
    <2>1. cycle' = <<p, n, ClaimsOf[p]>>
      BY DEF Filter
    <2>2. cycle' \in Pods \X Nodes \X (Seq(Claims) \ {<<>>}) /\ cycle'[1] = p /\ cycle'[3] = ClaimsOf[p]
      BY <2>1, ClaimsOfPod
    <2>3. QED
      BY <2>2 DEF CycleOK
  <1>2. stale' \in BOOLEAN
    BY Zenon DEF Filter
  <1>3. UNCHANGED <<api, seen, patchFirst, pods, bound, vol, binding, nodes, pools, placed, resv, other, class, missed, faults>>
    BY DEF Filter, stateVars
  <1>4. RestOK'
    BY <1>2, <1>3, TypeParts DEF RestOK
  <1>5. QED
    BY <1>1, <1>3, <1>4, TypeParts, TypePartsPrimed, BindingKept, PlacedKept

LEMMA Triple ==
    ASSUME NEW x, NEW y, NEW z
    PROVE  <<x, y, z>> # <<>> /\ <<x, y, z>>[1] = x /\ <<x, y, z>>[2] = y /\ <<x, y, z>>[3] = z
  OBVIOUS

(* What Reserve does, with its cycle's parts named. *)
LEMMA ReserveParts ==
    ASSUME TypeOK, Reserve
    PROVE  \E p \in Pods, n \in Nodes, q \in Seq(Claims) :
              /\ cycle # <<>> /\ cycle[1] = p /\ cycle[2] = n /\ q # <<>>
              /\ Range(q) \subseteq Range(ClaimsOf[p])
              /\ resv' = [resv EXCEPT ![n] = Reserved(n, Head(q))]
              /\ \/ /\ Len(q) # 1 /\ UNCHANGED binding
                    /\ cycle' = <<p, n, Tail(q)>> /\ cycle' # <<>> /\ cycle'[1] = p /\ cycle'[2] = n
                 \/ /\ cycle' = <<>>
                    /\ binding' = [binding EXCEPT ![p] = [node |-> n, todo |-> ClaimsOf[p]]]
              /\ UNCHANGED <<api, seen, patchFirst, pods, bound, vol, nodes, pools, placed, other, stale, class, missed, faults>>
  <1>1. /\ cycle # <<>> /\ cycle \in Pods \X Nodes \X (Seq(Claims) \ {<<>>})
        /\ Range(cycle[3]) \subseteq Range(ClaimsOf[cycle[1]])
    BY TypeParts DEF Reserve, CycleOK
  <1>2. cycle[1] \in Pods /\ cycle[2] \in Nodes /\ cycle[3] \in Seq(Claims) /\ cycle[3] # <<>>
    BY <1>1
  <1>3. PICK p \in Pods, n \in Nodes, q \in Seq(Claims) : cycle[1] = p /\ cycle[2] = n /\ cycle[3] = q
    BY <1>2, Zenon
  <1>4. resv' = [resv EXCEPT ![n] = Reserved(n, Head(q))]
    BY <1>3, Zenon DEF Reserve
  <1>5. \/ Len(q) > 1 /\ cycle' = <<p, n, Tail(q)>> /\ UNCHANGED binding
        \/ cycle' = <<>> /\ binding' = [binding EXCEPT ![p] = [node |-> n, todo |-> ClaimsOf[p]]]
    BY <1>3, Zenon DEF Reserve
  <1>6. UNCHANGED <<api, seen, patchFirst, pods, bound, vol, nodes, pools, placed, other, stale, class, missed, faults>>
    BY DEF Reserve
  <1>7. cycle' = <<p, n, Tail(q)>> => cycle' # <<>> /\ cycle'[1] = p /\ cycle'[2] = n
    <2> DEFINE t == Tail(q)
    <2>1. <<p, n, t>> # <<>> /\ <<p, n, t>>[1] = p /\ <<p, n, t>>[2] = n
      <3> HIDE DEF t
      <3>1. QED
        BY Triple
    <2>2. SUFFICES ASSUME cycle' = <<p, n, t>> PROVE cycle' # <<>> /\ cycle'[1] = p /\ cycle'[2] = n
      OBVIOUS
    <2> HIDE DEF t
    <2>3. QED
      BY <2>1, <2>2
  <1>8. Len(q) > 1 => Len(q) # 1
    <2> DEFINE k == Len(q)
    <2>1. k \in Nat
      OBVIOUS
    <2> HIDE DEF k
    <2>2. k > 1 => k # 1
      BY <2>1
    <2>3. QED
      BY <2>2 DEF k
  <1>9. QED
    BY <1>1, <1>2, <1>3, <1>4, <1>5, <1>6, <1>7, <1>8, Zenon

LEMMA ReserveType == ASSUME TypeOK, Reserve PROVE TypeOK'
  <1>1. PICK p \in Pods, n \in Nodes, q \in Seq(Claims) :
              /\ cycle # <<>> /\ cycle[1] = p /\ cycle[2] = n /\ q # <<>>
              /\ Range(q) \subseteq Range(ClaimsOf[p])
              /\ resv' = [resv EXCEPT ![n] = Reserved(n, Head(q))]
              /\ \/ /\ Len(q) # 1 /\ UNCHANGED binding
                    /\ cycle' = <<p, n, Tail(q)>> /\ cycle' # <<>> /\ cycle'[1] = p /\ cycle'[2] = n
                 \/ /\ cycle' = <<>>
                    /\ binding' = [binding EXCEPT ![p] = [node |-> n, todo |-> ClaimsOf[p]]]
              /\ UNCHANGED <<api, seen, patchFirst, pods, bound, vol, nodes, pools, placed, other, stale, class, missed, faults>>
    BY ReserveParts
  <1>2. BindingOK /\ CycleOK /\ PlacedOK /\ RestOK
    BY TypeParts
  <1>3. /\ Head(q) \in Range(q) /\ Range(Tail(q)) \subseteq Range(q) /\ Tail(q) \in Seq(Claims)
        /\ Len(q) # 1 => Tail(q) # <<>>
    BY <1>1, HeadTail
  <1>4. Range(ClaimsOf[p]) \subseteq Claims /\ ClaimsOf[p] \in Seq(Claims)
    BY ClaimsOfPod
  <1>5. Head(q) \in Claims
    BY <1>1, <1>3, <1>4
  <1>6. PlacedOK'
    <2>1. Reserved(n, Head(q)) \subseteq resv[n] \cup {Head(q)} /\ Reserved(n, Head(q)) \cap placed[n] = {}
      BY <1>2, <1>5, ReservedType
    <2>2. QED
      BY <2>1, <1>1, <1>2, <1>5 DEF PlacedOK
  <1>7. CASE /\ Len(q) # 1 /\ UNCHANGED binding /\ cycle' = <<p, n, Tail(q)>>
             /\ cycle' # <<>> /\ cycle'[1] = p /\ cycle'[2] = n
    <2>1. cycle' \in Pods \X Nodes \X (Seq(Claims) \ {<<>>}) /\ cycle'[3] = Tail(q)
      BY <1>7, <1>3, Triple, Zenon
    <2>2. Range(cycle'[3]) \subseteq Range(ClaimsOf[cycle'[1]])
      BY <2>1, <1>7, <1>3, <1>1
    <2>3. CycleOK' /\ BindingOK'
      BY <2>1, <2>2, <1>7, <1>2, BindingKept DEF CycleOK
    <2>4. RestOK'
      BY <1>1, <1>2, Zenon DEF RestOK
    <2>5. QED
      BY <2>3, <2>4, <1>6, <1>1, TypeParts, TypePartsPrimed
  <1>8. CASE cycle' = <<>> /\ binding' = [binding EXCEPT ![p] = [node |-> n, todo |-> ClaimsOf[p]]]
    <2>1. CycleOK'
      BY <1>8 DEF CycleOK
    <2>2. [node |-> n, todo |-> ClaimsOf[p]] \in [node : Node, todo : Seq(Claims)]
      BY <1>4 DEF Node
    <2>3. binding' \in Binding /\ binding'[p] = [node |-> n, todo |-> ClaimsOf[p]]
          /\ \A o \in Pods \ {p} : binding'[o] = binding[o]
      BY <1>8, <2>2, <1>2, Zenon DEF BindingOK, Binding
    <2>4. binding'[p].todo = ClaimsOf[p]
      BY <2>3
    <2>5. BindingOK'
      BY <2>3, <2>4, <1>2 DEF BindingOK
    <2>6. RestOK'
      BY <1>1, <1>2, Zenon DEF RestOK
    <2>7. QED
      BY <2>1, <2>5, <2>6, <1>6, <1>1, TypeParts, TypePartsPrimed
  <1>9. QED
    BY <1>1, <1>7, <1>8

(* The binding cycle. *)

(* The pod's cycle goes on with a shorter list of claims, or ends. *)
LEMMA BindingWrites ==
    ASSUME BindingOK, NEW p \in Pods
    PROVE  /\ binding' = [binding EXCEPT ![p] = NoCycle] =>
                /\ BindingOK' /\ binding'[p] = NoCycle
                /\ \A o \in Pods \ {p} : binding'[o] = binding[o]
           /\ binding[p].todo # <<>> /\ binding' = [binding EXCEPT ![p].todo = Tail(@)] =>
                /\ BindingOK' /\ binding'[p].node = binding[p].node
                /\ binding'[p].todo = Tail(binding[p].todo)
                /\ \A o \in Pods \ {p} : binding'[o] = binding[o]
  <1>1. ASSUME binding' = [binding EXCEPT ![p] = NoCycle]
        PROVE  BindingOK' /\ binding'[p] = NoCycle /\ \A o \in Pods \ {p} : binding'[o] = binding[o]
    <2>1. binding' \in Binding /\ binding'[p] = NoCycle /\ \A o \in Pods \ {p} : binding'[o] = binding[o]
      BY <1>1, Constants, Zenon DEF BindingOK, Binding
    <2>2. Range(binding'[p].todo) = {}
      BY <2>1, Constants, EmptyRange
    <2>3. QED
      BY <2>1, <2>2 DEF BindingOK
  <1>2. ASSUME binding[p].todo # <<>>, binding' = [binding EXCEPT ![p].todo = Tail(@)]
        PROVE  /\ BindingOK' /\ binding'[p].node = binding[p].node
               /\ binding'[p].todo = Tail(binding[p].todo)
               /\ \A o \in Pods \ {p} : binding'[o] = binding[o]
    <2>1. binding[p].todo \in Seq(Claims)
      BY Zenon DEF BindingOK, Binding
    <2>2. Tail(binding[p].todo) \in Seq(Claims) /\ Range(Tail(binding[p].todo)) \subseteq Range(binding[p].todo)
      BY <2>1, <1>2, HeadTail
    <2>3. /\ binding' \in Binding /\ binding'[p].node = binding[p].node
          /\ binding'[p].todo = Tail(binding[p].todo)
          /\ \A o \in Pods \ {p} : binding'[o] = binding[o]
      BY <1>2, <2>2, Zenon DEF BindingOK, Binding
    <2>4. QED
      BY <2>2, <2>3 DEF BindingOK
  <1>3. QED
    BY <1>1, <1>2, Zenon

LEMMA PreBindParts ==
    ASSUME TypeOK, NEW p \in Pods, PreBind(p)
    PROVE  /\ binding[p].todo # <<>> /\ (patchFirst \/ VolumesBound(p))
           /\ binding[p].node \in Node /\ binding[p].todo \in Seq(Claims)
           /\ Head(binding[p].todo) \in Range(ClaimsOf[p]) /\ Head(binding[p].todo) \in Claims
           /\ api' = [api EXCEPT ![Head(binding[p].todo)].tgt = binding[p].node]
           /\ binding' = [binding EXCEPT ![p].todo = Tail(@)]
           /\ UNCHANGED <<seen, patchFirst, pods, bound, cycle, vol, nodes, pools, placed, resv, other, stale, class, missed, faults>>
  <1>1. BindingOK
    BY TypeParts
  <1>2. binding[p].node \in Node /\ binding[p].todo \in Seq(Claims)
    BY <1>1, Zenon DEF BindingOK, Binding
  <1>3. binding[p].todo # <<>> /\ (patchFirst \/ VolumesBound(p))
    BY DEF PreBind
  <1>4. Head(binding[p].todo) \in Range(binding[p].todo)
    BY <1>2, <1>3, HeadTail
  <1>5. Head(binding[p].todo) \in Range(ClaimsOf[p]) /\ Head(binding[p].todo) \in Claims
    BY <1>1, <1>4, ClaimsOfPod, Zenon DEF BindingOK
  <1>6. /\ api' = [api EXCEPT ![Head(binding[p].todo)].tgt = binding[p].node]
        /\ binding' = [binding EXCEPT ![p].todo = Tail(@)]
    BY Zenon DEF PreBind
  <1>7. UNCHANGED <<seen, patchFirst, pods, bound, cycle, vol, nodes, pools, placed, resv, other, stale, class, missed, faults>>
    BY DEF PreBind, stateVars
  <1>8. QED
    BY <1>2, <1>3, <1>5, <1>6, <1>7

LEMMA PreBindType == ASSUME TypeOK, NEW p \in Pods, PreBind(p) PROVE TypeOK'
  <1>1. api' \in [Claims -> Claim]
    BY PreBindParts, TypeParts, ClaimWrites, Zenon
  <1>2. BindingOK'
    BY PreBindParts, TypeParts, BindingWrites, Zenon
  <1>3. UNCHANGED <<seen, patchFirst, pods, bound, cycle, vol, nodes, pools, placed, resv, other, stale, class, missed, faults>>
    BY PreBindParts, Zenon
  <1>4. RestOK'
    BY <1>3, TypeParts, Zenon DEF RestOK
  <1>5. QED
    BY <1>1, <1>2, <1>3, <1>4, TypeParts, TypePartsPrimed, CycleKept, PlacedKept

LEMMA RestKept ==
    ASSUME RestOK, UNCHANGED <<patchFirst, pods, bound, nodes, pools, other, stale, class, missed, faults>>
    PROVE  RestOK'
  BY Zenon DEF RestOK

LEMMA SelectNodeType == ASSUME TypeOK, NEW p \in Pods, NEW c \in Claims, SelectNode(p, c) PROVE TypeOK'
  <1>1. binding[p].node \in Node
    BY TypeParts, Zenon DEF BindingOK, Binding
  <1>2. api' \in [Claims -> Claim]
    BY <1>1, TypeParts, ClaimWrites, Zenon DEF SelectNode
  <1>3. UNCHANGED <<seen, patchFirst, pods, bound, cycle, binding, vol, nodes, pools, placed, resv, other, stale, class, missed, faults>>
    BY DEF SelectNode, podVars, stateVars
  <1>4. QED
    BY <1>2, <1>3, TypeParts, TypePartsPrimed, BindingKept, CycleKept, PlacedKept, RestKept

LEMMA BindPodType == ASSUME TypeOK, NEW p \in Pods, BindPod(p) PROVE TypeOK'
  <1>1. binding[p].node \in Node
    BY TypeParts, Zenon DEF BindingOK, Binding
  <1>2. UNCHANGED <<api, seen, patchFirst, pods, cycle, vol, nodes, pools, placed, resv, other, stale, class, missed, faults>>
    BY DEF BindPod, stateVars
  <1>3. bound' \in [Pods -> Node]
    BY <1>1, TypeParts DEF BindPod, RestOK
  <1>4. BindingOK'
    BY TypeParts, BindingWrites, Zenon DEF BindPod
  <1>5. RestOK'
    BY <1>2, <1>3, TypeParts, Zenon DEF RestOK
  <1>6. QED
    BY <1>2, <1>4, <1>5, TypeParts, TypePartsPrimed, CycleKept, PlacedKept

LEMMA BindingFailsParts ==
    ASSUME TypeOK, NEW p \in Pods, BindingFails(p)
    PROVE  /\ binding[p].node \in Nodes
           /\ resv' = [resv EXCEPT ![binding[p].node] = @ \ Range(ClaimsOf[p])]
           /\ binding' = [binding EXCEPT ![p] = NoCycle]
           /\ UNCHANGED <<api, seen, patchFirst, pods, bound, cycle, vol, nodes, pools, placed, other, stale, class, missed>>
           /\ faults' \in 0..MaxFaults
  <1>1. binding[p].node \in Node /\ binding[p].node # None
    BY TypeParts, Zenon DEF BindingOK, Binding, BindingFails
  <1>2. faults' \in 0..MaxFaults
    BY TypeParts, PodSchedulingAssumption DEF RestOK, BindingFails
  <1>3. QED
    BY <1>1, <1>2 DEF Node, BindingFails, Unreserve

LEMMA BindingFailsType == ASSUME TypeOK, NEW p \in Pods, BindingFails(p) PROVE TypeOK'
  <1>1. PlacedOK'
    BY BindingFailsParts, TypeParts DEF PlacedOK
  <1>2. BindingOK'
    BY BindingFailsParts, TypeParts, BindingWrites
  <1>3. RestOK'
    BY BindingFailsParts, TypeParts, Zenon DEF RestOK
  <1>4. QED
    BY <1>1, <1>2, <1>3, BindingFailsParts, TypeParts, TypePartsPrimed, CycleKept

(* The volumes. *)
LEMMA CreateVolumeParts ==
    ASSUME TypeOK, NEW c \in Claims, CreateVolume(c)
    PROVE  /\ vol' \in [Claims -> Volume]
           /\ vol'[c].host = api[c].sel /\ vol'[c].hint = api[c].tgt /\ vol'[c].target = None
           /\ \A d \in Claims \ {c} : vol'[d] = vol[d]
           /\ UNCHANGED <<api, seen, patchFirst, pods, bound, cycle, binding, nodes, pools, placed, resv, other, stale, class, missed, faults>>
  <1>1. api[c] \in Claim /\ vol \in [Claims -> Volume] /\ None \in Node
    BY TypeParts DEF Node
  <1>2. api[c].sel \in Node /\ api[c].tgt \in Node
    BY <1>1, Zenon DEF Claim
  <1>3. vol' = [vol EXCEPT ![c] = [host |-> api[c].sel, hint |-> api[c].tgt, target |-> None]]
    BY Zenon DEF CreateVolume, CreatePV
  <1>4. /\ vol' \in [Claims -> Volume]
        /\ vol'[c] = [host |-> api[c].sel, hint |-> api[c].tgt, target |-> None]
        /\ \A d \in Claims \ {c} : vol'[d] = vol[d]
    BY <1>1, <1>2, <1>3, Zenon DEF Volume
  <1>5. vol'[c].host = api[c].sel /\ vol'[c].hint = api[c].tgt /\ vol'[c].target = None
    BY <1>4
  <1>6. QED
    BY <1>4, <1>5 DEF CreateVolume, podVars, stateVars

LEMMA CreateVolumeType == ASSUME TypeOK, NEW c \in Claims, CreateVolume(c) PROVE TypeOK'
  BY CreateVolumeParts, TypeParts, TypePartsPrimed, BindingKept, CycleKept, PlacedKept, RestKept

LEMMA PhaseType ==
    ASSUME TypeOK, NEW c \in Claims, BindClaim(c) \/ DeleteClaim(c)
    PROVE  /\ TypeOK'
           /\ \A d \in Claims : api'[d].sel = api[d].sel /\ api'[d].tgt = api[d].tgt
           /\ \A d \in Claims : api[d].phase = "gone" => api'[d].phase = "gone"
           /\ UNCHANGED <<seen, patchFirst, bound, cycle, binding, vol, resv, stale, class, missed>>
  <1>1. UNCHANGED <<seen, patchFirst, pods, bound, cycle, binding, vol, nodes, pools, placed, resv, other, stale, class, missed, faults>>
    BY DEF BindClaim, DeleteClaim, podVars, stateVars
  <1>2. PICK ph \in {"Bound", "gone"} : api' = [api EXCEPT ![c].phase = ph]
    BY DEF BindClaim, DeleteClaim
  <1>3. api[c].phase # "gone"
    BY DEF BindClaim, DeleteClaim
  <1>4. /\ api' \in [Claims -> Claim]
        /\ \A d \in Claims : api'[d].sel = api[d].sel /\ api'[d].tgt = api[d].tgt
        /\ \A d \in Claims \ {c} : api'[d] = api[d]
    BY <1>2, TypeParts, PhaseWrite, Zenon
  <1>5. \A d \in Claims : api[d].phase = "gone" => api'[d].phase = "gone"
    BY <1>3, <1>4
  <1>6. TypeOK'
    BY <1>1, <1>4, TypeParts, TypePartsPrimed, BindingKept, CycleKept, PlacedKept, RestKept
  <1>7. QED
    BY <1>1, <1>4, <1>5, <1>6

(* A volume is placed where it is or where its hint or its host says. *)
LEMMA PlaceVolumeParts ==
    ASSUME TypeOK, NEW c \in Claims, PlaceVolume(c)
    PROVE  /\ vol[c] # NoVolume
           /\ \E n \in Nodes :
                 /\ n \in {vol[c].target, vol[c].hint, vol[c].host}
                 /\ AddVolume(n, c)
                 /\ vol' = [vol EXCEPT ![c].target = n]
                 /\ nodes' = nodes \cup {n}
           /\ UNCHANGED <<api, seen, patchFirst, pods, bound, cycle, binding, pools, other, stale, class, missed, faults>>
  <1>1. PICK n \in IF vol[c].target # None THEN {vol[c].target} ELSE Targets(c) \cap nodes :
              /\ AddVolume(n, c)
              /\ vol' = [vol EXCEPT ![c].target = n]
              /\ nodes' = nodes \cup {n}
    BY Zenon DEF PlaceVolume
  <1>2. nodes \subseteq Nodes /\ vol[c].target \in Node
    BY TypeParts, Zenon DEF RestOK, Volume
  <1>3. n \in Nodes
    BY <1>1, <1>2 DEF Node
  <1>4. n \in {vol[c].target, vol[c].hint, vol[c].host}
    BY <1>1 DEF Targets, sched
  <1>5. vol[c] # NoVolume
    BY Zenon DEF PlaceVolume
  <1>6. UNCHANGED <<api, seen, patchFirst, pods, bound, cycle, binding, pools, other, stale, class, missed, faults>>
    BY DEF PlaceVolume, podVars
  <1>7. QED
    BY <1>1, <1>3, <1>4, <1>5, <1>6, Zenon

LEMMA TargetWrite ==
    ASSUME vol \in [Claims -> Volume], NEW c \in Claims, NEW n \in Nodes, vol' = [vol EXCEPT ![c].target = n]
    PROVE  /\ vol' \in [Claims -> Volume]
           /\ vol'[c].host = vol[c].host /\ vol'[c].hint = vol[c].hint /\ vol'[c].target = n
           /\ \A d \in Claims \ {c} : vol'[d] = vol[d]
  <1>1. n \in Node
    BY DEF Node
  <1>2. QED
    BY <1>1, Zenon DEF Volume

LEMMA PlaceVolumeType == ASSUME TypeOK, NEW c \in Claims, PlaceVolume(c) PROVE TypeOK'
  <1>1. PICK n \in Nodes : AddVolume(n, c) /\ vol' = [vol EXCEPT ![c].target = n] /\ nodes' = nodes \cup {n}
    BY PlaceVolumeParts, Zenon
  <1>2. UNCHANGED <<api, seen, patchFirst, pods, bound, cycle, binding, pools, other, stale, class, missed, faults>>
    BY PlaceVolumeParts, Zenon
  <1>3. vol' \in [Claims -> Volume]
    BY <1>1, TypeParts, TargetWrite, Zenon
  <1>4. PlacedOK'
    BY <1>1, TypeParts DEF PlacedOK, AddVolume
  <1>5. RestOK'
    BY <1>1, <1>2, TypeParts DEF RestOK
  <1>6. QED
    BY <1>2, <1>3, <1>4, <1>5, TypeParts, TypePartsPrimed, BindingKept, CycleKept

LEMMA DeleteVolumeType == ASSUME TypeOK, NEW c \in Claims, DeleteVolume(c) PROVE TypeOK'
  <1>1. vol' \in [Claims -> Volume]
    BY TypeParts, Constants DEF DeleteVolume
  <1>2. UNCHANGED <<api, seen, patchFirst, pods, bound, cycle, binding, nodes, pools, resv, other, stale, class, missed, faults>>
    BY DEF DeleteVolume, podVars
  <1>3. PlacedOK'
    BY <1>2, TypeParts DEF PlacedOK, DeleteVolume, RemoveVolumeByID
  <1>4. QED
    BY <1>1, <1>2, <1>3, TypeParts, TypePartsPrimed, BindingKept, CycleKept, RestKept

LEMMA PodType == ASSUME TypeOK, NEW p \in Pods, DeletePod(p) \/ RecreatePod(p) PROVE TypeOK'
  <1>1. UNCHANGED <<api, seen, patchFirst, cycle, binding, vol, nodes, pools, placed, resv, other, stale, class, missed, faults>>
    BY DEF DeletePod, RecreatePod, stateVars
  <1>2. pods' \subseteq Pods /\ bound' \in [Pods -> Node]
    BY TypeParts DEF DeletePod, RecreatePod, RestOK, Node
  <1>3. RestOK'
    BY <1>1, <1>2, TypeParts, Zenon DEF RestOK
  <1>4. QED
    BY <1>1, <1>3, TypeParts, TypePartsPrimed, BindingKept, CycleKept, PlacedKept

LEMMA RestartType ==
    ASSUME TypeOK, Restart
    PROVE  /\ TypeOK' /\ cycle' = <<>>
           /\ \A p \in Pods : binding'[p] = NoCycle
           /\ \A n \in Nodes : resv'[n] = {}
           /\ UNCHANGED <<api, patchFirst, bound, vol, stale>>
  <1>1. UNCHANGED <<api, patchFirst, pods, bound, vol, other, stale, missed>> /\ cycle' = <<>>
    BY DEF Restart
  <1>2. seen' \in [Claims -> Claim]
    BY Constants DEF Restart
  <1>3. binding' \in Binding /\ \A p \in Pods : binding'[p] = NoCycle
    BY Constants DEF Restart, Binding
  <1>4. BindingOK'
    BY <1>3, Constants, EmptyRange DEF BindingOK
  <1>5. CycleOK'
    BY <1>1 DEF CycleOK
  <1>6. PlacedOK' /\ \A n \in Nodes : resv'[n] = {}
    BY DEF Restart, PlacedOK
  <1>7. faults' \in 0..MaxFaults /\ nodes' = {} /\ pools' = {} /\ class' \in {"unread", "cached", "failing"}
    BY TypeParts, PodSchedulingAssumption DEF Restart, RestOK
  <1>8. RestOK'
    BY <1>1, <1>7, TypeParts DEF RestOK
  <1>9. QED
    BY <1>1, <1>2, <1>3, <1>4, <1>5, <1>6, <1>8, TypeParts, TypePartsPrimed

LEMMA TypeStep == TypeOK /\ [Next]_vars => TypeOK'
  <1> SUFFICES ASSUME TypeOK, [Next]_vars PROVE TypeOK'
    OBVIOUS
  <1>1. ASSUME NEW n \in Nodes, PoolKnown(n) \/ OtherVolume(n) PROVE TypeOK'
    BY <1>1, PoolKnownType, OtherVolumeType, Zenon
  <1>2. ASSUME NEW c \in Claims, Observe(c) \/ CreateVolume(c) \/ BindClaim(c) PROVE TypeOK'
    BY <1>2, ObserveType, CreateVolumeType, PhaseType, Zenon
  <1>3. ASSUME NEW c \in Claims, PlaceVolume(c) \/ DeleteClaim(c) \/ DeleteVolume(c) PROVE TypeOK'
    BY <1>3, PlaceVolumeType, PhaseType, DeleteVolumeType, Zenon
  <1>4. ASSUME NEW p \in Pods, NEW n \in Nodes, Filter(p, n) PROVE TypeOK'
    BY <1>4, FilterType, Zenon
  <1>5. ASSUME NEW p \in Pods, NEW c \in Claims, SelectNode(p, c) PROVE TypeOK'
    BY <1>5, SelectNodeType, Zenon
  <1>6. ASSUME NEW p \in Pods, PreBind(p) \/ BindPod(p) \/ BindingFails(p) PROVE TypeOK'
    BY <1>6, PreBindType, BindPodType, BindingFailsType, Zenon
  <1>7. ASSUME NEW p \in Pods, DeletePod(p) \/ RecreatePod(p) PROVE TypeOK'
    BY <1>7, PodType, Zenon
  <1>8. CASE UNCHANGED vars
    BY <1>8, Zenon DEF vars, podVars, stateVars, TypeOK
  <1>9. QED
    BY <1>1, <1>2, <1>3, <1>4, <1>5, <1>6, <1>7, <1>8, ReserveType, RestartType, Zenon DEF Next

(* Type correctness, and that a claim's space is never counted twice on a pool:
   a reservation gives way to the volume of its claim (Node.Reserve and
   Node.AddVolume), whatever the cycles, the events and the restarts. *)
THEOREM TypeCorrect == Spec => []TypeOK
  BY TypeInit, TypeStep, PTL DEF Spec

-----------------------------------------------------------------------------
(* The cycles and the reservations. *)

Cached(c) == seen[c].phase # "gone" \/ api[c].phase = "gone"

LEMMA NoneNoCycle == \A n \in Nodes : NoCycle.node # n
  BY Constants, PodSchedulingAssumption

(* Cycles that go on as they are or end. *)
CyclesEnd ==
    /\ \A p \in Pods : binding'[p] = binding[p] \/ binding'[p] = NoCycle
    /\ cycle' = cycle \/ cycle' = <<>>

LEMMA InCycleKept ==
    ASSUME CyclesEnd, NEW p \in Pods, NEW n \in Nodes, InCycle(p, n)'
    PROVE  InCycle(p, n)
  BY NoneNoCycle, Zenon DEF CyclesEnd, InCycle

LEMMA CyclesKept == ASSUME UNCHANGED <<binding, cycle>> PROVE CyclesEnd
  BY Zenon DEF CyclesEnd

LEMMA CycleKeeps ==
    ASSUME TypeOK, CycleInv, CyclesEnd,
           \A c \in Claims : Cached(c) => Cached(c)'
    PROVE  CycleInv'
  <1>1. ASSUME NEW p \in Pods, binding'[p].node = None PROVE binding'[p].todo = <<>>
    BY <1>1, Constants, Zenon DEF CyclesEnd, CycleInv
  <1>2. ASSUME cycle' # <<>> PROVE binding'[cycle'[1]] = NoCycle
    <2>1. cycle' = cycle /\ cycle # <<>>
      BY <1>2, Zenon DEF CyclesEnd
    <2>2. cycle[1] \in Pods
      BY <2>1, TypeParts DEF CycleOK
    <2>3. binding[cycle[1]] = NoCycle
      BY <2>1, Zenon DEF CycleInv
    <2>4. QED
      BY <2>1, <2>2, <2>3, Zenon DEF CyclesEnd
  <1>3. ASSUME NEW p \in Pods, NEW n \in Nodes, InCycle(p, n)', NEW c \in Range(ClaimsOf[p])
        PROVE  Cached(c)'
    <2>1. c \in Claims
      BY ClaimsOfPod
    <2>2. Cached(c)
      BY <1>3, InCycleKept, Zenon DEF CycleInv, Cached
    <2>3. QED
      BY <2>1, <2>2
  <1>4. QED
    BY <1>1, <1>2, <1>3, Zenon DEF CycleInv, Cached

Owned(n, c) ==
    \/ \E p \in Pods : InCycle(p, n) /\ c \in Range(ClaimsOf[p])
    \/ seen[c].phase # "gone" /\ api[c].sel = n

LEMMA OwnedParts ==
    /\ ReservationsOwned <=> \A n \in Nodes : \A c \in resv[n] \ missed : Owned(n, c)
    /\ ReservationsOwned' <=> \A n \in Nodes : \A c \in resv'[n] \ missed' : Owned(n, c)'
  <1>1. ReservationsOwned <=> \A n \in Nodes : \A c \in resv[n] \ missed : Owned(n, c)
    BY Zenon DEF ReservationsOwned, Owned, InCycle
  <1>2. ReservationsOwned' <=> \A n \in Nodes : \A c \in resv'[n] \ missed' : Owned(n, c)'
    BY Zenon DEF ReservationsOwned, Owned, InCycle
  <1>3. QED
    BY <1>1, <1>2

LEMMA OwnedKeeps ==
    ASSUME TypeOK, ReservationsOwned,
           \A n \in Nodes : resv'[n] \ missed' \subseteq resv[n] \ missed,
           \A p \in Pods, n \in Nodes : InCycle(p, n) => InCycle(p, n)',
           \A c \in Claims : /\ seen[c].phase # "gone" => seen'[c].phase # "gone"
                             /\ api[c].sel \in Nodes => api'[c].sel = api[c].sel
    PROVE  ReservationsOwned'
  <1> SUFFICES ASSUME NEW n \in Nodes, NEW c \in resv'[n] \ missed' PROVE Owned(n, c)'
    BY OwnedParts, Zenon
  <1>1. c \in resv[n] \ missed /\ Owned(n, c)
    BY OwnedParts
  <1>2. c \in Claims
    BY <1>1, TypeParts DEF PlacedOK
  <1>3. QED
    BY <1>1, <1>2, Zenon DEF Owned

LEMMA InCycleSame ==
    ASSUME UNCHANGED <<binding, cycle>>, NEW p \in Pods, NEW n \in Nodes
    PROVE  InCycle(p, n) => InCycle(p, n)'
  BY Zenon DEF InCycle

LEMMA ResvQuiet ==
    ASSUME TypeOK, CycleInv, ReservationsOwned, UNCHANGED <<binding, cycle, seen, missed>>,
           \A n \in Nodes : resv'[n] \subseteq resv[n],
           \A c \in Claims : /\ api[c].phase = "gone" => api'[c].phase = "gone"
                             /\ api[c].sel \in Nodes => api'[c].sel = api[c].sel
    PROVE  CycleInv' /\ ReservationsOwned'
  <1>1. \A c \in Claims : Cached(c) => Cached(c)'
    BY Zenon DEF Cached
  <1>2. \A n \in Nodes : resv'[n] \ missed' \subseteq resv[n] \ missed
    BY Zenon
  <1>3. QED
    BY <1>1, <1>2, CyclesKept, CycleKeeps, InCycleSame, OwnedKeeps, Zenon

LEMMA PlaceResv ==
    ASSUME TypeOK, CycleInv, ReservationsOwned, NEW c \in Claims, PlaceVolume(c)
    PROVE  CycleInv' /\ ReservationsOwned'
  <1>1. PICK n \in Nodes : AddVolume(n, c)
    BY PlaceVolumeParts, Zenon
  <1>2. UNCHANGED <<api, binding, cycle, seen, missed>>
    BY PlaceVolumeParts, Zenon
  <1>3. \A m \in Nodes : resv'[m] \subseteq resv[m]
    BY <1>1, TypeParts DEF PlacedOK, AddVolume
  <1>4. QED
    BY <1>2, <1>3, ResvQuiet, Zenon

LEMMA SelectResv ==
    ASSUME TypeOK, CycleInv, ReservationsOwned, NEW p \in Pods, NEW c \in Claims, SelectNode(p, c)
    PROVE  CycleInv' /\ ReservationsOwned'
  <1>1. binding[p].node \in Node /\ api[c].sel = None /\ api' = [api EXCEPT ![c].sel = binding[p].node]
    BY TypeParts, Zenon DEF BindingOK, Binding, SelectNode
  <1>2. api'[c].phase = api[c].phase /\ \A d \in Claims \ {c} : api'[d] = api[d]
    BY <1>1, TypeParts, ClaimWrites, Zenon
  <1>3. UNCHANGED <<binding, cycle, seen, missed, resv>>
    BY DEF SelectNode, podVars, stateVars
  <1>4. \A d \in Claims : /\ api[d].phase = "gone" => api'[d].phase = "gone"
                          /\ api[d].sel \in Nodes => api'[d].sel = api[d].sel
    BY <1>1, <1>2, PodSchedulingAssumption
  <1>5. \A n \in Nodes : resv'[n] \subseteq resv[n]
    BY <1>3
  <1>6. QED
    BY <1>3, <1>4, <1>5, ResvQuiet, Zenon

(* The other actions of the pools, the volumes and the users. *)
LEMMA QuietResv ==
    ASSUME TypeOK, CycleInv, ReservationsOwned,
           \/ \E n \in Nodes : PoolKnown(n) \/ OtherVolume(n)
           \/ \E c \in Claims : CreateVolume(c) \/ BindClaim(c) \/ DeleteClaim(c) \/ DeleteVolume(c)
           \/ \E p \in Pods : DeletePod(p) \/ RecreatePod(p)
    PROVE  CycleInv' /\ ReservationsOwned'
  <1>1. UNCHANGED <<binding, cycle, seen, missed, resv>>
    BY DEF PoolKnown, OtherVolume, CreateVolume, BindClaim, DeleteClaim, DeleteVolume, DeletePod,
           RecreatePod, podVars, stateVars
  <1>2. \A d \in Claims : /\ api[d].phase = "gone" => api'[d].phase = "gone"
                          /\ api[d].sel \in Nodes => api'[d].sel = api[d].sel
    <2>1. CASE \E c \in Claims : BindClaim(c) \/ DeleteClaim(c)
      BY <2>1, PhaseType, Zenon
    <2>2. CASE UNCHANGED api
      BY <2>2, Zenon
    <2>3. QED
      BY <2>1, <2>2 DEF PoolKnown, OtherVolume, CreateVolume, DeleteVolume, DeletePod, RecreatePod
  <1>3. \A n \in Nodes : resv'[n] \subseteq resv[n]
    BY <1>1
  <1>4. QED
    BY <1>1, <1>2, <1>3, ResvQuiet, Zenon

LEMMA FilterResv ==
    ASSUME TypeOK, CycleInv, ReservationsOwned, NEW p \in Pods, NEW n \in Nodes, Filter(p, n)
    PROVE  CycleInv' /\ ReservationsOwned'
  <1>1. UNCHANGED <<api, seen, binding, resv, missed>> /\ cycle = <<>>
    BY DEF Filter, stateVars
  <1>2. cycle' = <<p, n, ClaimsOf[p]>> /\ binding[p] = NoCycle
    BY Zenon DEF Filter
  <1>3. cycle' # <<>> /\ cycle'[1] = p /\ cycle'[2] = n
    BY <1>2, Triple, Zenon
  <1>4. \A c \in Range(ClaimsOf[p]) : Cached(c)
    BY Zenon DEF Filter, PreFilter, Cached
  <1>5. \A q \in Pods, m \in Nodes : InCycle(q, m) => InCycle(q, m)'
    BY <1>1, Zenon DEF InCycle
  <1>6. ReservationsOwned'
    BY <1>1, <1>5, OwnedKeeps, Zenon
  <1>7. ASSUME NEW q \in Pods, NEW m \in Nodes, InCycle(q, m)', NEW c \in Range(ClaimsOf[q])
        PROVE  Cached(c)'
    <2>1. InCycle(q, m) \/ q = p
      BY <1>7, <1>1, <1>3, Zenon DEF InCycle
    <2>2. Cached(c)
      BY <2>1, <1>4, Zenon DEF CycleInv, Cached
    <2>3. QED
      BY <2>2, <1>1, Zenon DEF Cached
  <1>8. CycleInv'
    BY <1>1, <1>2, <1>3, <1>7, Zenon DEF CycleInv, Cached
  <1>9. QED
    BY <1>6, <1>8

LEMMA PreBindResv ==
    ASSUME TypeOK, CycleInv, ReservationsOwned, NEW p \in Pods, PreBind(p)
    PROVE  CycleInv' /\ ReservationsOwned'
  <1> DEFINE h == Head(binding[p].todo)
  <1>1. UNCHANGED <<seen, cycle, resv, missed>> /\ binding[p].todo # <<>>
    BY PreBindParts, Zenon
  <1>2. /\ binding'[p].node = binding[p].node
        /\ \A o \in Pods \ {p} : binding'[o] = binding[o]
    BY PreBindParts, TypeParts, BindingWrites, Zenon
  <1>3. h \in Claims /\ api'[h].sel = api[h].sel /\ api'[h].phase = api[h].phase
        /\ \A d \in Claims \ {h} : api'[d] = api[d]
    <2>1. h \in Claims /\ binding[p].node \in Node /\ api' = [api EXCEPT ![h].tgt = binding[p].node]
      BY PreBindParts, Zenon
    <2> HIDE DEF h
    <2>2. QED
      BY <2>1, TypeParts, ClaimWrites, Zenon
  <1> HIDE DEF h
  <1>4. \A c \in Claims : api'[c].sel = api[c].sel /\ api'[c].phase = api[c].phase
    BY <1>3, Zenon
  <1>5. \A o \in Pods : binding'[o].node = binding[o].node
    BY <1>2, Zenon
  <1>6. \A o \in Pods, m \in Nodes : InCycle(o, m) <=> InCycle(o, m)'
    BY <1>1, <1>5, Zenon DEF InCycle
  <1>7. ReservationsOwned'
    BY <1>1, <1>4, <1>6, OwnedKeeps, Zenon
  <1>8. ASSUME NEW o \in Pods, binding'[o].node = None PROVE binding'[o].todo = <<>>
    <2>1. binding[o].node = None /\ binding[o].todo = <<>>
      BY <1>8, <1>5, Zenon DEF CycleInv
    <2>2. o # p
      BY <2>1, <1>1, Zenon
    <2>3. QED
      BY <2>1, <2>2, <1>2, Zenon
  <1>9. ASSUME cycle' # <<>> PROVE binding'[cycle'[1]] = NoCycle
    <2>1. cycle' = cycle /\ cycle[1] \in Pods /\ binding[cycle[1]] = NoCycle
      BY <1>9, <1>1, TypeParts DEF CycleOK, CycleInv
    <2>2. cycle[1] # p
      BY <2>1, <1>1, Constants
    <2>3. QED
      BY <2>1, <2>2, <1>2
  <1>10. ASSUME NEW o \in Pods, NEW m \in Nodes, InCycle(o, m)', NEW c \in Range(ClaimsOf[o])
         PROVE  Cached(c)'
    <2>1. c \in Claims /\ Cached(c)
      BY <1>10, <1>6, ClaimsOfPod, Zenon DEF CycleInv, Cached
    <2>2. QED
      BY <2>1, <1>1, <1>4, Zenon DEF Cached
  <1>11. QED
    BY <1>7, <1>8, <1>9, <1>10, Zenon DEF CycleInv, Cached

LEMMA ObserveResv ==
    ASSUME TypeOK, CycleInv, ReservationsOwned, NEW c \in Claims, Observe(c)
    PROVE  CycleInv' /\ ReservationsOwned'
  <1>1. UNCHANGED <<api, binding, cycle>>
    BY DEF Observe, podVars
  <1>2. seen'[c].phase = "gone" <=> api[c].phase = "gone"
    <2>1. seen'[c] = IF api[c].phase = "gone" THEN Unseen ELSE api[c]
      BY TypeParts DEF Observe
    <2>2. QED
      BY <2>1, Constants
  <1>3. \A d \in Claims \ {c} : seen'[d] = seen[d]
    BY TypeParts DEF Observe
  <1>4. \A d \in Claims : Cached(d) => Cached(d)'
    BY <1>1, <1>2, <1>3, Zenon DEF Cached
  <1>5. CycleInv'
    BY <1>1, <1>4, CyclesKept, CycleKeeps, Zenon
  <1>6. \A p \in Pods, n \in Nodes : InCycle(p, n) => InCycle(p, n)'
    BY <1>1, InCycleSame, Zenon
  <1>7. ASSUME NEW n \in Nodes, NEW d \in Claims \ {c}, Owned(n, d) PROVE Owned(n, d)'
    BY <1>7, <1>1, <1>3, <1>6, Zenon DEF Owned
  <1>8. CASE seen[c].phase = "gone" /\ api[c].phase # "gone" /\ OnAdd(c)
    <2>1. UNCHANGED missed
      BY <1>8 DEF OnAdd
    <2>2. ASSUME NEW n \in Nodes, NEW d \in resv'[n] \ missed' PROVE Owned(n, d)'
      <3>1. d \in resv[n] \/ (d = c /\ api[c].sel = n)
        BY <1>8, ReservedType, TypeParts DEF OnAdd, isAntstorMustLocalPVCBound
      <3>2. CASE d = c /\ api[c].sel = n
        BY <3>2, <1>1, <1>2, <1>8, Zenon DEF Owned
      <3>3. CASE d \in resv[n]
        <4>1. Owned(n, d) /\ d \in Claims
          BY <3>3, <2>1, OwnedParts, TypeParts DEF PlacedOK
        <4>2. CASE d = c
          BY <4>1, <4>2, <1>1, <1>2, <1>6, <1>8, Zenon DEF Owned
        <4>3. QED
          BY <4>1, <4>2, <1>7, Zenon
      <3>4. QED
        BY <3>1, <3>2, <3>3
    <2>3. QED
      BY <2>2, <1>5, OwnedParts, Zenon
  <1>9. CASE seen[c].phase # "gone" /\ api[c].phase = "gone" /\ OnDelete(c)
    <2>1. ASSUME NEW n \in Nodes, NEW d \in resv'[n] \ missed' PROVE Owned(n, d)'
      <3>1. d \in resv[n] \ missed /\ (d = c => api[c].sel # n)
        BY <1>9, TypeParts DEF OnDelete, PlacedOK, isAntstorMustLocalPVCBound
      <3>2. Owned(n, d) /\ d \in Claims
        BY <3>1, OwnedParts, TypeParts DEF PlacedOK
      <3>3. CASE d = c
        BY <3>1, <3>2, <3>3, <1>6, Zenon DEF Owned
      <3>4. QED
        BY <3>2, <3>3, <1>7, Zenon
    <2>2. QED
      BY <2>1, <1>5, OwnedParts, Zenon
  <1>10. CASE seen[c].phase # "gone" /\ api[c].phase # "gone" /\ OnUpdate
    <2>1. UNCHANGED <<resv, missed>>
      BY <1>10 DEF OnUpdate
    <2>2. \A d \in Claims : seen[d].phase # "gone" => seen'[d].phase # "gone"
      <3>1. ASSUME NEW d \in Claims, seen[d].phase # "gone" PROVE seen'[d].phase # "gone"
        <4>1. CASE d = c
          BY <4>1, <1>10, <1>2
        <4>2. CASE d # c
          <5>1. seen'[d] = seen[d]
            BY <4>2, <1>3, Zenon
          <5>2. QED
            BY <5>1, <3>1, Zenon
        <4>3. QED
          BY <4>1, <4>2
      <3>2. QED
        BY <3>1
    <2>3. QED
      BY <2>1, <2>2, <1>1, <1>5, <1>6, OwnedKeeps, Zenon
  <1>11. QED
    BY <1>8, <1>9, <1>10, Zenon DEF Observe

LEMMA RestartResv ==
    ASSUME TypeOK, Restart
    PROVE  CycleInv' /\ ReservationsOwned'
  <1>1. cycle' = <<>> /\ (\A p \in Pods : binding'[p] = NoCycle) /\ \A n \in Nodes : resv'[n] = {}
    BY RestartType, Zenon
  <1>2. \A p \in Pods, n \in Nodes : ~InCycle(p, n)'
    BY <1>1, NoneNoCycle, Zenon DEF InCycle
  <1>3. \A p \in Pods : binding'[p].todo = <<>>
    BY <1>1, Constants
  <1>4. CycleInv'
    BY <1>1, <1>2, <1>3, Zenon DEF CycleInv
  <1>5. \A n \in Nodes : \A c \in resv'[n] \ missed' : Owned(n, c)'
    BY <1>1
  <1>6. QED
    BY <1>4, <1>5, OwnedParts, Zenon

LEMMA BindPodResv ==
    ASSUME TypeOK, CycleInv, ReservationsOwned, NEW p \in Pods, BindPod(p)
    PROVE  CycleInv' /\ ReservationsOwned'
  <1>1. UNCHANGED <<api, seen, cycle, resv, missed>>
    BY DEF BindPod, stateVars
  <1>2. binding'[p] = NoCycle /\ \A o \in Pods \ {p} : binding'[o] = binding[o]
    BY TypeParts, BindingWrites, Zenon DEF BindPod
  <1>3. CyclesEnd
    BY <1>1, <1>2, Zenon DEF CyclesEnd
  <1>4. CycleInv'
    BY <1>1, <1>3, CycleKeeps, Zenon DEF Cached
  <1>5. cycle # <<>> => cycle[1] # p
    BY Constants DEF BindPod, CycleInv
  <1>6. ASSUME NEW n \in Nodes, NEW c \in Claims, Owned(n, c) PROVE Owned(n, c)'
    <2>1. CASE seen[c].phase # "gone" /\ api[c].sel = n
      BY <2>1, <1>1, Zenon DEF Owned
    <2>2. ASSUME NEW q \in Pods, InCycle(q, n), c \in Range(ClaimsOf[q]) PROVE Owned(n, c)'
      <3>1. CASE q # p
        BY <3>1, <2>2, <1>1, <1>2, Zenon DEF Owned, InCycle
      <3>2. CASE q = p
        <4>1. binding[p].node = n
          BY <3>2, <2>2, <1>5, Zenon DEF InCycle
        <4>2. api[c].phase = "Bound" /\ api[c].sel = n
          BY <4>1, <3>2, <2>2, Zenon DEF BindPod, VolumesBound
        <4>3. seen[c].phase # "gone"
          BY <4>2, <3>2, <2>2 DEF CycleInv
        <4>4. QED
          BY <4>2, <4>3, <1>1, Zenon DEF Owned
      <3>3. QED
        BY <3>1, <3>2
    <2>3. QED
      BY <1>6, <2>1, <2>2, Zenon DEF Owned
  <1>7. \A n \in Nodes : resv[n] \subseteq Claims
    BY TypeParts DEF PlacedOK
  <1>8. QED
    BY <1>1, <1>4, <1>6, <1>7, OwnedParts, Zenon

LEMMA BindingFailsResv ==
    ASSUME TypeOK, CycleInv, ReservationsOwned, NEW p \in Pods, BindingFails(p)
    PROVE  CycleInv' /\ ReservationsOwned'
  <1>1. UNCHANGED <<api, seen, cycle, missed>> /\ binding[p].node \in Nodes
    BY BindingFailsParts, Zenon
  <1>2. binding'[p] = NoCycle /\ \A o \in Pods \ {p} : binding'[o] = binding[o]
    BY BindingFailsParts, TypeParts, BindingWrites, Zenon
  <1>3. CyclesEnd
    BY <1>1, <1>2, Zenon DEF CyclesEnd
  <1>4. CycleInv'
    BY <1>1, <1>3, CycleKeeps, Zenon DEF Cached
  <1>5. cycle # <<>> => cycle[1] # p
    BY <1>1, Constants, PodSchedulingAssumption DEF CycleInv
  <1>6. ASSUME NEW n \in Nodes, NEW c \in resv'[n] \ missed' PROVE Owned(n, c)'
    <2>1. /\ c \in resv[n] \ missed
          /\ n = binding[p].node => c \notin Range(ClaimsOf[p])
      <3>1. resv \in [Nodes -> SUBSET Claims]
        BY TypeParts DEF PlacedOK
      <3>2. resv' = [resv EXCEPT ![binding[p].node] = @ \ Range(ClaimsOf[p])]
        BY BindingFailsParts, Zenon
      <3>3. resv'[n] = IF n = binding[p].node THEN resv[n] \ Range(ClaimsOf[p]) ELSE resv[n]
        BY <3>1, <3>2
      <3>4. QED
        BY <3>3, <1>1, <1>6, Zenon
    <2>2. Owned(n, c)
      BY <2>1, OwnedParts, Zenon
    <2>3. CASE seen[c].phase # "gone" /\ api[c].sel = n
      BY <2>3, <1>1, Zenon DEF Owned
    <2>4. ASSUME NEW q \in Pods, InCycle(q, n), c \in Range(ClaimsOf[q]) PROVE Owned(n, c)'
      <3>1. q # p
        BY <2>4, <2>1, <1>5, Zenon DEF InCycle
      <3>2. QED
        BY <3>1, <2>4, <1>1, <1>2, Zenon DEF Owned, InCycle
    <2>5. QED
      BY <2>2, <2>3, <2>4, Zenon DEF Owned
  <1>7. QED
    BY <1>4, <1>6, OwnedParts, Zenon

LEMMA ReserveResv ==
    ASSUME TypeOK, CycleInv, ReservationsOwned, Reserve
    PROVE  CycleInv' /\ ReservationsOwned'
  <1>1. PICK p \in Pods, n \in Nodes, q \in Seq(Claims) :
              /\ cycle # <<>> /\ cycle[1] = p /\ cycle[2] = n /\ q # <<>>
              /\ Range(q) \subseteq Range(ClaimsOf[p])
              /\ resv' = [resv EXCEPT ![n] = Reserved(n, Head(q))]
              /\ \/ /\ Len(q) # 1 /\ UNCHANGED binding
                    /\ cycle' = <<p, n, Tail(q)>> /\ cycle' # <<>> /\ cycle'[1] = p /\ cycle'[2] = n
                 \/ /\ cycle' = <<>>
                    /\ binding' = [binding EXCEPT ![p] = [node |-> n, todo |-> ClaimsOf[p]]]
              /\ UNCHANGED <<api, seen, patchFirst, pods, bound, vol, nodes, pools, placed, other, stale, class, missed, faults>>
    BY ReserveParts
  <1>2. Head(q) \in Range(ClaimsOf[p]) /\ Head(q) \in Claims
    BY <1>1, HeadTail, ClaimsOfPod, Zenon
  <1>3. UNCHANGED <<api, seen, missed>> /\ cycle # <<>> /\ cycle[1] = p /\ cycle[2] = n /\ binding[p] = NoCycle
    BY <1>1, Zenon DEF CycleInv
  <1>4. /\ \A o \in Pods \ {p} : binding'[o] = binding[o]
        /\ \/ binding'[p] = NoCycle /\ cycle' # <<>> /\ cycle'[1] = p /\ cycle'[2] = n
           \/ binding'[p].node = n /\ cycle' = <<>>
    <2>1. CASE UNCHANGED binding /\ cycle' # <<>> /\ cycle'[1] = p /\ cycle'[2] = n
      BY <2>1, <1>3, Zenon
    <2>2. CASE cycle' = <<>> /\ binding' = [binding EXCEPT ![p] = [node |-> n, todo |-> ClaimsOf[p]]]
      <3>1. binding'[p] = [node |-> n, todo |-> ClaimsOf[p]] /\ \A o \in Pods \ {p} : binding'[o] = binding[o]
        BY <2>2, TypeParts, Zenon DEF BindingOK, Binding
      <3>2. binding'[p].node = n
        BY <3>1
      <3>3. QED
        BY <2>2, <3>1, <3>2, Zenon
    <2>3. QED
      BY <1>1, <2>1, <2>2, Zenon
  <1>5. \A o \in Pods, m \in Nodes : InCycle(o, m)' <=> InCycle(o, m)
    <2>1. ASSUME NEW o \in Pods \ {p}, NEW m \in Nodes PROVE InCycle(o, m)' <=> InCycle(o, m)
      BY <1>3, <1>4, Zenon DEF InCycle
    <2>2. ASSUME NEW m \in Nodes PROVE InCycle(p, m) <=> m = n
      BY <1>3, NoneNoCycle, Zenon DEF InCycle
    <2>3. ASSUME NEW m \in Nodes PROVE InCycle(p, m)' <=> m = n
      BY <1>4, NoneNoCycle, Zenon DEF InCycle
    <2>4. QED
      BY <2>1, <2>2, <2>3, Zenon
  <1>6. ASSUME NEW o \in Pods, binding'[o].node = None PROVE binding'[o].todo = <<>>
    <2>1. None # n
      BY PodSchedulingAssumption
    <2>2. QED
      BY <1>6, <2>1, <1>4, Constants, Zenon DEF CycleInv
  <1>7. cycle' # <<>> => binding'[cycle'[1]] = NoCycle
    BY <1>4, Zenon
  <1>8. ASSUME NEW o \in Pods, NEW m \in Nodes, InCycle(o, m)', NEW c \in Range(ClaimsOf[o])
        PROVE  Cached(c)'
    BY <1>8, <1>5, <1>3, Zenon DEF CycleInv, Cached
  <1>9. CycleInv'
    BY <1>6, <1>7, <1>8, Zenon DEF CycleInv, Cached
  <1>10. ASSUME NEW m \in Nodes, NEW c \in resv'[m] \ missed' PROVE Owned(m, c)'
    <2>1. c \in resv[m] \ missed \/ (m = n /\ c = Head(q))
      BY <1>1, <1>2, ReservedType, TypeParts DEF PlacedOK
    <2>2. CASE m = n /\ c = Head(q)
      <3>1. InCycle(p, n)
        BY <1>3, Zenon DEF InCycle
      <3>2. QED
        BY <2>2, <3>1, <1>2, <1>5, Zenon DEF Owned
    <2>3. CASE c \in resv[m] \ missed
      <3>1. Owned(m, c)
        BY <2>3, OwnedParts, Zenon
      <3>2. QED
        BY <3>1, <1>3, <1>5, Zenon DEF Owned
    <2>4. QED
      BY <2>1, <2>2, <2>3
  <1>11. QED
    BY <1>9, <1>10, OwnedParts, Zenon

LEMMA ResvStep == TypeOK /\ CycleInv /\ ReservationsOwned /\ [Next]_vars => CycleInv' /\ ReservationsOwned'
  <1> SUFFICES ASSUME TypeOK, CycleInv, ReservationsOwned, [Next]_vars PROVE CycleInv' /\ ReservationsOwned'
    OBVIOUS
  <1>1. ASSUME \/ \E n \in Nodes : PoolKnown(n) \/ OtherVolume(n)
               \/ \E c \in Claims : CreateVolume(c) \/ BindClaim(c) \/ DeleteClaim(c) \/ DeleteVolume(c)
               \/ \E p \in Pods : DeletePod(p) \/ RecreatePod(p)
        PROVE  CycleInv' /\ ReservationsOwned'
    BY <1>1, QuietResv, Zenon
  <1>2. ASSUME NEW c \in Claims, Observe(c) \/ PlaceVolume(c) PROVE CycleInv' /\ ReservationsOwned'
    BY <1>2, ObserveResv, PlaceResv, Zenon
  <1>3. ASSUME NEW p \in Pods, NEW n \in Nodes, Filter(p, n) PROVE CycleInv' /\ ReservationsOwned'
    BY <1>3, FilterResv, Zenon
  <1>4. ASSUME NEW p \in Pods, NEW c \in Claims, SelectNode(p, c) PROVE CycleInv' /\ ReservationsOwned'
    BY <1>4, SelectResv, Zenon
  <1>5. ASSUME NEW p \in Pods, PreBind(p) \/ BindPod(p) \/ BindingFails(p) PROVE CycleInv' /\ ReservationsOwned'
    BY <1>5, PreBindResv, BindPodResv, BindingFailsResv, Zenon
  <1>6. CASE UNCHANGED vars
    <2>1. UNCHANGED <<api, seen, binding, cycle, resv, missed>>
      BY <1>6, Zenon DEF vars, podVars, stateVars
    <2>2. QED
      BY <2>1, ResvQuiet
  <1>7. QED
    BY <1>1, <1>2, <1>3, <1>4, <1>5, <1>6, ReserveResv, RestartResv, Zenon DEF Next

LEMMA ResvInit == Init => CycleInv /\ ReservationsOwned
  <1> SUFFICES ASSUME Init PROVE CycleInv /\ ReservationsOwned
    OBVIOUS
  <1>1. cycle = <<>> /\ (\A p \in Pods : binding[p] = NoCycle) /\ \A n \in Nodes : resv[n] = {}
    BY DEF Init
  <1>2. \A p \in Pods, n \in Nodes : ~InCycle(p, n)
    BY <1>1, NoneNoCycle, Zenon DEF InCycle
  <1>3. \A p \in Pods : binding[p].todo = <<>>
    BY <1>1, Constants
  <1>4. CycleInv
    BY <1>1, <1>2, <1>3, Zenon DEF CycleInv
  <1>5. QED
    BY <1>1, <1>4 DEF ReservationsOwned

(* A reservation is held only for a scheduling or binding cycle on its node, or
   for a claim in the cache that has the node as its selected-node: failed
   attempts and restarts leave none behind, and of the deleted claims only those
   whose deletion the handler could not act on, because it learnt of it from a
   list or could not read the StorageClass (Unreserve, PVCEventHandler.OnDelete,
   Node.AddVolume). *)
THEOREM NoReservationLeaks == Spec => []ReservationsOwned
  <1>1. Init => TypeOK /\ CycleInv /\ ReservationsOwned
    BY TypeInit, ResvInit
  <1>2. (TypeOK /\ CycleInv /\ ReservationsOwned) /\ [Next]_vars => (TypeOK /\ CycleInv /\ ReservationsOwned)'
    BY TypeStep, ResvStep
  <1>3. QED
    BY <1>1, <1>2, PTL DEF Spec

-----------------------------------------------------------------------------
(* The two routes to a node. *)

LEMMA LocalParts ==
    /\ LocalInv <=> (~stale => SelectedInv /\ PatchedInv /\ AgreeInv /\ BoundInv /\ VolumeInv)
    /\ LocalInv' <=> (~stale' => SelectedInv' /\ PatchedInv' /\ AgreeInv' /\ BoundInv' /\ VolumeInv')
  <1>1. LocalInv <=> (~stale => SelectedInv /\ PatchedInv /\ AgreeInv /\ BoundInv /\ VolumeInv)
    BY Zenon DEF LocalInv
  <1>2. LocalInv' <=> (~stale' => SelectedInv' /\ PatchedInv' /\ AgreeInv' /\ BoundInv' /\ VolumeInv')
    BY Zenon DEF LocalInv
  <1>3. QED
    BY <1>1, <1>2

(* The claims' nodes stay what they are. *)
SameNodes == \A c \in Claims : api'[c].sel = api[c].sel /\ api'[c].tgt = api[c].tgt

LEMMA SelectedKeeps ==
    ASSUME SelectedInv, SameNodes, \A p \in Pods, n \in Nodes : InCycle(p, n)' => InCycle(p, n)
    PROVE  SelectedInv'
  <1> SUFFICES ASSUME NEW p \in Pods, NEW n \in Nodes, InCycle(p, n)', NEW c \in Range(ClaimsOf[p])
               PROVE  api'[c].sel \in {None, n}
    BY Zenon DEF SelectedInv
  <1>1. c \in Claims
    BY ClaimsOfPod, Zenon
  <1>2. api[c].sel \in {None, n}
    BY Zenon DEF SelectedInv
  <1>3. QED
    BY <1>1, <1>2, Zenon DEF SameNodes

LEMMA PatchedKeeps ==
    ASSUME PatchedInv, SameNodes, UNCHANGED patchFirst,
           \A p \in Pods : binding'[p] = binding[p] \/ binding'[p] = NoCycle
    PROVE  PatchedInv'
  <1> SUFFICES ASSUME NEW p \in Pods, patchFirst', binding'[p].node # None, NEW c \in Range(ClaimsOf[p])
               PROVE  api'[c].tgt = binding'[p].node \/ c \in Range(binding'[p].todo)
    BY Zenon DEF PatchedInv
  <1>1. c \in Claims
    BY ClaimsOfPod, Zenon
  <1>2. binding'[p] = binding[p]
    BY Constants, Zenon
  <1>3. api[c].tgt = binding[p].node \/ c \in Range(binding[p].todo)
    BY <1>2, Zenon DEF PatchedInv
  <1>4. QED
    BY <1>1, <1>2, <1>3, Zenon DEF SameNodes

LEMMA AgreeKeeps == ASSUME AgreeInv, SameNodes, UNCHANGED patchFirst PROVE AgreeInv'
  BY Zenon DEF AgreeInv, SameNodes

LEMMA BoundKeeps ==
    ASSUME BoundInv, \A c \in Claims : api[c].sel # None => api'[c].sel = api[c].sel,
           \A p \in Pods : bound'[p] \in {None, bound[p]}
    PROVE  BoundInv'
  <1> SUFFICES ASSUME NEW p \in Pods, bound'[p] # None, NEW c \in Range(ClaimsOf[p]) PROVE api'[c].sel = bound'[p]
    BY Zenon DEF BoundInv
  <1>1. c \in Claims
    BY ClaimsOfPod, Zenon
  <1>2. bound'[p] = bound[p] /\ api[c].sel = bound[p]
    BY Zenon DEF BoundInv
  <1>3. QED
    BY <1>1, <1>2, Zenon

LEMMA VolumeKeeps ==
    ASSUME VolumeInv, \A c \in Claims : api[c].sel # None => api'[c].sel = api[c].sel,
           \A c \in Claims : vol'[c] = vol[c] \/ vol'[c] = NoVolume
    PROVE  VolumeInv'
  <1> SUFFICES ASSUME NEW c \in Claims, vol'[c] # NoVolume
               PROVE  /\ api'[c].sel # None
                      /\ vol'[c].host = api'[c].sel
                      /\ {vol'[c].hint, vol'[c].target} \subseteq {None, api'[c].sel}
    BY Zenon DEF VolumeInv
  <1>1. vol'[c] = vol[c] /\ vol[c] # NoVolume
    BY Zenon
  <1>2. /\ api[c].sel # None /\ vol[c].host = api[c].sel
        /\ {vol[c].hint, vol[c].target} \subseteq {None, api[c].sel}
    BY <1>1, Zenon DEF VolumeInv
  <1>3. api'[c].sel = api[c].sel
    BY <1>2, Zenon
  <1>4. QED
    BY <1>1, <1>2, <1>3, Zenon

LEMMA LocalQuiet ==
    ASSUME LocalInv, CyclesEnd, SameNodes, UNCHANGED <<patchFirst, stale>>,
           \A p \in Pods : bound'[p] \in {None, bound[p]},
           \A c \in Claims : vol'[c] = vol[c] \/ vol'[c] = NoVolume
    PROVE  LocalInv'
  <1> SUFFICES ASSUME ~stale PROVE SelectedInv' /\ PatchedInv' /\ AgreeInv' /\ BoundInv' /\ VolumeInv'
    BY LocalParts, Zenon
  <1>1. SelectedInv /\ PatchedInv /\ AgreeInv /\ BoundInv /\ VolumeInv
    BY LocalParts, Zenon
  <1>2. \A p \in Pods, n \in Nodes : InCycle(p, n)' => InCycle(p, n)
    BY InCycleKept, Zenon
  <1>3. \A c \in Claims : api[c].sel # None => api'[c].sel = api[c].sel
    BY Zenon DEF SameNodes
  <1>4. SelectedInv' /\ PatchedInv' /\ AgreeInv'
    BY <1>1, <1>2, SelectedKeeps, PatchedKeeps, AgreeKeeps, Zenon DEF CyclesEnd
  <1>5. BoundInv' /\ VolumeInv'
    BY <1>1, <1>3, BoundKeeps, VolumeKeeps, Zenon
  <1>6. QED
    BY <1>4, <1>5

LEMMA QuietLocal ==
    ASSUME TypeOK, LocalInv,
           \/ \E n \in Nodes : PoolKnown(n) \/ OtherVolume(n)
           \/ \E c \in Claims : Observe(c) \/ DeleteVolume(c)
           \/ \E p \in Pods : DeletePod(p) \/ RecreatePod(p)
    PROVE  LocalInv'
  <1>1. UNCHANGED <<api, patchFirst, cycle, binding, stale>>
    BY DEF PoolKnown, OtherVolume, Observe, DeleteVolume, DeletePod, RecreatePod, podVars
  <1>2. \A p \in Pods : bound'[p] \in {None, bound[p]}
    BY TypeParts DEF RestOK, PoolKnown, OtherVolume, Observe, DeleteVolume, DeletePod, RecreatePod, podVars
  <1>3. \A c \in Claims : vol'[c] = vol[c] \/ vol'[c] = NoVolume
    <2>1. UNCHANGED vol \/ \E c \in Claims : vol' = [vol EXCEPT ![c] = NoVolume]
      BY DEF PoolKnown, OtherVolume, Observe, DeleteVolume, DeletePod, RecreatePod
    <2>2. QED
      BY <2>1, TypeParts
  <1>4. SameNodes
    BY <1>1, Zenon DEF SameNodes
  <1>5. QED
    BY <1>1, <1>2, <1>3, <1>4, CyclesKept, LocalQuiet, Zenon

LEMMA PhaseLocal ==
    ASSUME TypeOK, LocalInv, NEW c \in Claims, BindClaim(c) \/ DeleteClaim(c)
    PROVE  LocalInv'
  <1>1. SameNodes /\ UNCHANGED <<patchFirst, bound, cycle, binding, vol, stale>>
    BY PhaseType, Zenon DEF SameNodes
  <1>2. QED
    BY <1>1, CyclesKept, LocalQuiet, Zenon

LEMMA BindingFailsLocal == ASSUME TypeOK, LocalInv, NEW p \in Pods, BindingFails(p) PROVE LocalInv'
  <1>1. UNCHANGED <<api, patchFirst, bound, cycle, vol, stale>>
    BY BindingFailsParts, Zenon
  <1>2. binding'[p] = NoCycle /\ \A o \in Pods \ {p} : binding'[o] = binding[o]
    BY BindingFailsParts, TypeParts, BindingWrites, Zenon
  <1>3. CyclesEnd /\ SameNodes
    BY <1>1, <1>2, Zenon DEF CyclesEnd, SameNodes
  <1>4. QED
    BY <1>1, <1>3, LocalQuiet, Zenon

LEMMA RestartLocal == ASSUME TypeOK, LocalInv, Restart PROVE LocalInv'
  <1>1. UNCHANGED <<api, patchFirst, bound, vol, stale>> /\ cycle' = <<>> /\ \A p \in Pods : binding'[p] = NoCycle
    BY RestartType, Zenon
  <1>2. CyclesEnd /\ SameNodes
    BY <1>1, Zenon DEF CyclesEnd, SameNodes
  <1>3. QED
    BY <1>1, <1>2, LocalQuiet, Zenon

(* A node is chosen on the claims as they are, or stale is set. *)
LEMMA FilterLocal ==
    ASSUME TypeOK, LocalInv, NEW p \in Pods, NEW n \in Nodes, Filter(p, n)
    PROVE  LocalInv'
  <1>1. UNCHANGED <<api, patchFirst, bound, binding, vol>> /\ cycle = <<>>
    BY DEF Filter
  <1>2. cycle' = <<p, n, ClaimsOf[p]>>
    BY Zenon DEF Filter
  <1>3. cycle' # <<>> /\ cycle'[1] = p /\ cycle'[2] = n
    BY <1>2, Triple, Zenon
  <1> SUFFICES ASSUME ~stale' PROVE SelectedInv' /\ PatchedInv' /\ AgreeInv' /\ BoundInv' /\ VolumeInv'
    BY LocalParts, Zenon
  <1>4. ~stale /\ \A c \in Range(ClaimsOf[p]) : seen[c] = api[c]
    BY Zenon DEF Filter
  <1>5. SelectedInv /\ PatchedInv /\ AgreeInv /\ BoundInv /\ VolumeInv
    BY <1>4, LocalParts, Zenon
  <1>6. \A c \in Range(ClaimsOf[p]) : api[c].sel \in {None, n}
    <2>1. \A c \in Range(ClaimsOf[p]) : seen[c].sel \in {None, n}
      BY Zenon DEF Filter
    <2>2. QED
      BY <1>4, <2>1, Zenon
  <1>7. SelectedInv'
    <2> SUFFICES ASSUME NEW q \in Pods, NEW m \in Nodes, InCycle(q, m)', NEW c \in Range(ClaimsOf[q])
                 PROVE  api'[c].sel \in {None, m}
      BY Zenon DEF SelectedInv
    <2>1. InCycle(q, m) \/ (q = p /\ m = n)
      BY <1>1, <1>3, Zenon DEF InCycle
    <2>2. api[c].sel \in {None, m}
      BY <2>1, <1>5, <1>6, Zenon DEF SelectedInv
    <2>3. QED
      BY <2>2, <1>1, Zenon
  <1>8. PatchedInv'
    BY <1>1, <1>5, Zenon DEF PatchedInv
  <1>9. AgreeInv' /\ BoundInv'
    BY <1>1, <1>5, Zenon DEF AgreeInv, BoundInv
  <1>10. VolumeInv'
    BY <1>1, <1>5, Zenon DEF VolumeInv
  <1>11. QED
    BY <1>7, <1>8, <1>9, <1>10

LEMMA ReserveLocal ==
    ASSUME TypeOK, CycleInv, LocalInv, Reserve
    PROVE  LocalInv'
  <1>1. PICK p \in Pods, n \in Nodes, q \in Seq(Claims) :
              /\ cycle # <<>> /\ cycle[1] = p /\ cycle[2] = n /\ q # <<>>
              /\ Range(q) \subseteq Range(ClaimsOf[p])
              /\ resv' = [resv EXCEPT ![n] = Reserved(n, Head(q))]
              /\ \/ /\ Len(q) # 1 /\ UNCHANGED binding
                    /\ cycle' = <<p, n, Tail(q)>> /\ cycle' # <<>> /\ cycle'[1] = p /\ cycle'[2] = n
                 \/ /\ cycle' = <<>>
                    /\ binding' = [binding EXCEPT ![p] = [node |-> n, todo |-> ClaimsOf[p]]]
              /\ UNCHANGED <<api, seen, patchFirst, pods, bound, vol, nodes, pools, placed, other, stale, class, missed, faults>>
    BY ReserveParts
  <1>2. UNCHANGED <<api, patchFirst, bound, vol, stale>> /\ cycle # <<>> /\ cycle[1] = p /\ cycle[2] = n
    BY <1>1, Zenon
  <1>3. /\ \A o \in Pods \ {p} : binding'[o] = binding[o]
        /\ \/ binding'[p] = binding[p] /\ cycle' # <<>> /\ cycle'[1] = p /\ cycle'[2] = n
           \/ binding'[p].node = n /\ binding'[p].todo = ClaimsOf[p] /\ cycle' = <<>>
    <2>1. CASE UNCHANGED binding /\ cycle' # <<>> /\ cycle'[1] = p /\ cycle'[2] = n
      BY <2>1, <1>2, Zenon
    <2>2. CASE cycle' = <<>> /\ binding' = [binding EXCEPT ![p] = [node |-> n, todo |-> ClaimsOf[p]]]
      <3>1. binding'[p] = [node |-> n, todo |-> ClaimsOf[p]] /\ \A o \in Pods \ {p} : binding'[o] = binding[o]
        BY <2>2, TypeParts, Zenon DEF BindingOK, Binding
      <3>2. binding'[p].node = n /\ binding'[p].todo = ClaimsOf[p]
        BY <3>1
      <3>3. QED
        BY <2>2, <3>1, <3>2, Zenon
    <2>3. QED
      BY <1>1, <2>1, <2>2, Zenon
  <1>4. ASSUME NEW o \in Pods, NEW m \in Nodes, InCycle(o, m)' PROVE InCycle(o, m)
    <2>1. CASE o # p
      BY <1>4, <2>1, <1>2, <1>3, Zenon DEF InCycle
    <2>2. CASE o = p
      BY <1>4, <2>2, <1>2, <1>3, Zenon DEF InCycle
    <2>3. QED
      BY <2>1, <2>2
  <1> SUFFICES ASSUME ~stale' PROVE SelectedInv' /\ PatchedInv' /\ AgreeInv' /\ BoundInv' /\ VolumeInv'
    BY LocalParts, Zenon
  <1>5. SelectedInv /\ PatchedInv /\ AgreeInv /\ BoundInv /\ VolumeInv
    BY <1>2, LocalParts, Zenon
  <1>6. SelectedInv'
    BY <1>2, <1>4, <1>5, SelectedKeeps, Zenon DEF SameNodes
  <1>7. PatchedInv'
    <2> SUFFICES ASSUME NEW o \in Pods, patchFirst', binding'[o].node # None, NEW c \in Range(ClaimsOf[o])
                 PROVE  api'[c].tgt = binding'[o].node \/ c \in Range(binding'[o].todo)
      BY Zenon DEF PatchedInv
    <2>1. binding'[o] = binding[o] \/ binding'[o].todo = ClaimsOf[o]
      BY <1>3, Zenon
    <2>2. QED
      BY <2>1, <1>2, <1>5, Zenon DEF PatchedInv
  <1>8. AgreeInv' /\ BoundInv'
    BY <1>2, <1>5, Zenon DEF AgreeInv, BoundInv
  <1>9. VolumeInv'
    BY <1>2, <1>5, Zenon DEF VolumeInv
  <1>10. QED
    BY <1>6, <1>7, <1>8, <1>9

(* PreBind writes the cycle's node, which is the selected-node if there is one. *)
LEMMA PreBindLocal ==
    ASSUME TypeOK, CycleInv, LocalInv, NEW p \in Pods, PreBind(p)
    PROVE  LocalInv'
  <1> DEFINE h == Head(binding[p].todo)
             n == binding[p].node
             q == binding[p].todo
  <1>1. /\ UNCHANGED <<patchFirst, bound, cycle, vol, stale>> /\ binding[p].todo # <<>>
        /\ (patchFirst \/ VolumesBound(p)) /\ binding[p].todo \in Seq(Claims)
    BY PreBindParts, Zenon
  <1>2. /\ binding'[p].node = n /\ binding'[p].todo = Tail(q)
        /\ \A o \in Pods \ {p} : binding'[o] = binding[o]
    BY PreBindParts, TypeParts, BindingWrites, Zenon
  <1>3. /\ h \in Claims /\ h \in Range(ClaimsOf[p]) /\ n \in Node
        /\ api'[h].tgt = n /\ api'[h].sel = api[h].sel
        /\ \A d \in Claims \ {h} : api'[d] = api[d]
    <2>1. h \in Range(ClaimsOf[p]) /\ h \in Claims /\ n \in Node /\ api' = [api EXCEPT ![h].tgt = n]
      BY PreBindParts, Zenon
    <2> HIDE DEF h, n
    <2>2. QED
      BY <2>1, TypeParts, ClaimWrites, Zenon
  <1>4. \A c \in Range(q) : c = h \/ c \in Range(Tail(q))
    BY <1>1, HeadTail, Zenon
  <1>5. n # None
    BY <1>1, Zenon DEF CycleInv
  <1>6. VolumesBound(p) => api[h].sel = n
    BY <1>3, Zenon DEF VolumesBound
  <1>7. InCycle(p, n) /\ binding[p].node = n /\ binding[p].todo = q
    BY Zenon DEF InCycle
  <1> HIDE DEF h, n, q
  <1>8. n \in Nodes
    BY <1>3, <1>5 DEF Node
  <1> SUFFICES ASSUME ~stale' PROVE SelectedInv' /\ PatchedInv' /\ AgreeInv' /\ BoundInv' /\ VolumeInv'
    BY LocalParts, Zenon
  <1>9. SelectedInv /\ PatchedInv /\ AgreeInv /\ BoundInv /\ VolumeInv
    BY <1>1, LocalParts, Zenon
  <1>10. \A c \in Claims : api'[c].sel = api[c].sel
    BY <1>3, Zenon
  <1>11. \A o \in Pods : binding'[o].node = binding[o].node
    BY <1>2, <1>7, Zenon
  <1>12. SelectedInv'
    <2> SUFFICES ASSUME NEW o \in Pods, NEW m \in Nodes, InCycle(o, m)', NEW c \in Range(ClaimsOf[o])
                 PROVE  api'[c].sel \in {None, m}
      BY Zenon DEF SelectedInv
    <2>1. InCycle(o, m) /\ c \in Claims
      BY <1>1, <1>11, ClaimsOfPod, Zenon DEF InCycle
    <2>2. QED
      BY <2>1, <1>9, <1>10, Zenon DEF SelectedInv
  <1>13. PatchedInv'
    <2> SUFFICES ASSUME NEW o \in Pods, patchFirst', binding'[o].node # None, NEW c \in Range(ClaimsOf[o])
                 PROVE  api'[c].tgt = binding'[o].node \/ c \in Range(binding'[o].todo)
      BY Zenon DEF PatchedInv
    <2>1. c \in Claims
      BY ClaimsOfPod, Zenon
    <2>2. api[c].tgt = binding[o].node \/ c \in Range(binding[o].todo)
      BY <1>1, <1>9, <1>11, Zenon DEF PatchedInv
    <2>3. CASE o = p
      <3>1. CASE c = h
        BY <3>1, <2>3, <1>2, <1>3, Zenon
      <3>2. CASE c # h
        <4>1. api'[c].tgt = api[c].tgt
          BY <3>2, <2>1, <1>3, Zenon
        <4>2. api[c].tgt = n \/ c \in Range(q)
          BY <2>2, <2>3, <1>7, Zenon
        <4>3. QED
          BY <4>1, <4>2, <3>2, <2>3, <1>2, <1>4, Zenon
      <3>3. QED
        BY <3>1, <3>2
    <2>4. CASE o # p
      <3>1. c # h
        BY <2>4, <1>3, OnePod, Zenon
      <3>2. api'[c].tgt = api[c].tgt /\ binding'[o] = binding[o]
        BY <3>1, <2>1, <2>4, <1>2, <1>3, Zenon
      <3>3. QED
        BY <3>2, <2>2, Zenon
    <2>5. QED
      BY <2>3, <2>4
  <1>14. api[h].sel \in {None, n} /\ (~patchFirst => api[h].sel = n)
    BY <1>1, <1>3, <1>6, <1>7, <1>8, <1>9, Zenon DEF SelectedInv
  <1>15. AgreeInv'
    <2> SUFFICES ASSUME NEW c \in Claims
                 PROVE  \/ patchFirst' /\ api'[c].sel = None
                        \/ ~patchFirst' /\ api'[c].tgt = None
                        \/ api'[c].tgt = api'[c].sel
      BY Zenon DEF AgreeInv
    <2>1. CASE c = h
      BY <2>1, <1>1, <1>3, <1>14, Zenon
    <2>2. CASE c # h
      BY <2>2, <1>1, <1>3, <1>9, Zenon DEF AgreeInv
    <2>3. QED
      BY <2>1, <2>2
  <1>16. BoundInv' /\ VolumeInv'
    BY <1>1, <1>9, <1>10, BoundKeeps, VolumeKeeps, Zenon
  <1>17. QED
    BY <1>12, <1>13, <1>15, <1>16

(* The selected-node is the node of the cycle; when PreBind runs first, the
   annotation already is. *)
LEMMA SelectNodeLocal ==
    ASSUME TypeOK, CycleInv, LocalInv, NEW p \in Pods, NEW c \in Claims, SelectNode(p, c)
    PROVE  LocalInv'
  <1> DEFINE n == binding[p].node
  <1>1. UNCHANGED <<patchFirst, bound, cycle, binding, vol, stale>>
    BY DEF SelectNode, podVars
  <1>2. /\ n # None /\ c \in Range(ClaimsOf[p]) /\ (patchFirst => binding[p].todo = <<>>)
        /\ api[c].sel = None /\ api' = [api EXCEPT ![c].sel = n]
    BY Zenon DEF SelectNode
  <1>3. n \in Node
    BY TypeParts, Zenon DEF BindingOK, Binding
  <1>4. InCycle(p, n)
    BY Zenon DEF InCycle
  <1>5. patchFirst => Range(binding[p].todo) = {}
    BY <1>2, EmptyRange, Zenon
  <1>6. /\ api'[c].sel = n /\ api'[c].tgt = api[c].tgt
        /\ \A d \in Claims \ {c} : api'[d] = api[d]
    <2> HIDE DEF n
    <2>1. QED
      BY <1>2, <1>3, TypeParts, ClaimWrites, Zenon
  <1> SUFFICES ASSUME ~stale' PROVE SelectedInv' /\ PatchedInv' /\ AgreeInv' /\ BoundInv' /\ VolumeInv'
    BY LocalParts, Zenon
  <1>7. SelectedInv /\ PatchedInv /\ AgreeInv /\ BoundInv /\ VolumeInv
    BY <1>1, LocalParts, Zenon
  <1>8. patchFirst => api[c].tgt = n
    BY <1>2, <1>5, <1>7 DEF PatchedInv
  <1>9. ~patchFirst => api[c].tgt = None
    BY <1>2, <1>7, Zenon DEF AgreeInv
  <1>10. ASSUME NEW m \in Nodes, InCycle(p, m) PROVE m = n
    <2>1. cycle # <<>> => cycle[1] # p
      BY <1>2, Constants, Zenon DEF CycleInv
    <2>2. QED
      BY <1>10, <2>1, Zenon DEF InCycle
  <1> HIDE DEF n
  <1>11. SelectedInv'
    <2> SUFFICES ASSUME NEW o \in Pods, NEW m \in Nodes, InCycle(o, m)', NEW d \in Range(ClaimsOf[o])
                 PROVE  api'[d].sel \in {None, m}
      BY Zenon DEF SelectedInv
    <2>1. InCycle(o, m) /\ d \in Claims
      BY <1>1, ClaimsOfPod, Zenon DEF InCycle
    <2>2. CASE d = c
      <3>1. o = p
        BY <2>2, <1>2, OnePod, Zenon
      <3>2. QED
        BY <2>1, <2>2, <3>1, <1>6, <1>10, Zenon
    <2>3. CASE d # c
      BY <2>1, <2>3, <1>6, <1>7, Zenon DEF SelectedInv
    <2>4. QED
      BY <2>2, <2>3
  <1>12. \A d \in Claims : api'[d].tgt = api[d].tgt
    BY <1>6, Zenon
  <1>13. PatchedInv'
    <2> SUFFICES ASSUME NEW o \in Pods, patchFirst', binding'[o].node # None, NEW d \in Range(ClaimsOf[o])
                 PROVE  api'[d].tgt = binding'[o].node \/ d \in Range(binding'[o].todo)
      BY Zenon DEF PatchedInv
    <2>1. d \in Claims
      BY ClaimsOfPod, Zenon
    <2>2. QED
      BY <2>1, <1>1, <1>7, <1>12, Zenon DEF PatchedInv
  <1>14. AgreeInv'
    <2> SUFFICES ASSUME NEW d \in Claims
                 PROVE  \/ patchFirst' /\ api'[d].sel = None
                        \/ ~patchFirst' /\ api'[d].tgt = None
                        \/ api'[d].tgt = api'[d].sel
      BY Zenon DEF AgreeInv
    <2>1. CASE d = c
      BY <2>1, <1>1, <1>6, <1>8, <1>9, Zenon
    <2>2. CASE d # c
      BY <2>2, <1>1, <1>6, <1>7, Zenon DEF AgreeInv
    <2>3. QED
      BY <2>1, <2>2
  <1>15. \A d \in Claims : api[d].sel # None => api'[d].sel = api[d].sel
    BY <1>2, <1>6, Zenon
  <1>16. BoundInv' /\ VolumeInv'
    BY <1>1, <1>7, <1>15, BoundKeeps, VolumeKeeps, Zenon
  <1>17. QED
    BY <1>11, <1>13, <1>14, <1>16

LEMMA BindPodLocal == ASSUME TypeOK, LocalInv, NEW p \in Pods, BindPod(p) PROVE LocalInv'
  <1>1. UNCHANGED <<api, patchFirst, cycle, vol, stale>>
    BY DEF BindPod
  <1>2. binding'[p] = NoCycle /\ \A o \in Pods \ {p} : binding'[o] = binding[o]
    BY TypeParts, BindingWrites, Zenon DEF BindPod
  <1>3. CyclesEnd /\ SameNodes
    BY <1>1, <1>2, Zenon DEF CyclesEnd, SameNodes
  <1>4. /\ bound'[p] = binding[p].node /\ \A o \in Pods \ {p} : bound'[o] = bound[o]
        /\ \A c \in Range(ClaimsOf[p]) : api[c].sel = binding[p].node
    BY TypeParts, Zenon DEF RestOK, BindPod, VolumesBound
  <1> SUFFICES ASSUME ~stale' PROVE SelectedInv' /\ PatchedInv' /\ AgreeInv' /\ BoundInv' /\ VolumeInv'
    BY LocalParts, Zenon
  <1>5. SelectedInv /\ PatchedInv /\ AgreeInv /\ BoundInv /\ VolumeInv
    BY <1>1, LocalParts, Zenon
  <1>6. SelectedInv' /\ PatchedInv' /\ AgreeInv'
    <2>1. \A o \in Pods, n \in Nodes : InCycle(o, n)' => InCycle(o, n)
      BY <1>3, InCycleKept, Zenon
    <2>2. QED
      BY <2>1, <1>1, <1>3, <1>5, SelectedKeeps, PatchedKeeps, AgreeKeeps, Zenon DEF CyclesEnd
  <1>7. BoundInv'
    <2> SUFFICES ASSUME NEW o \in Pods, bound'[o] # None, NEW c \in Range(ClaimsOf[o]) PROVE api'[c].sel = bound'[o]
      BY Zenon DEF BoundInv
    <2>1. CASE o = p
      BY <2>1, <1>1, <1>4, Zenon
    <2>2. CASE o # p
      BY <2>2, <1>1, <1>4, <1>5, Zenon DEF BoundInv
    <2>3. QED
      BY <2>1, <2>2
  <1>8. VolumeInv'
    BY <1>1, <1>5, Zenon DEF VolumeInv
  <1>9. QED
    BY <1>6, <1>7, <1>8

(* A write to one volume. *)
LEMMA VolumeLocal ==
    ASSUME TypeOK, LocalInv, UNCHANGED <<api, patchFirst, bound, cycle, binding, stale>>, NEW c \in Claims,
           \A d \in Claims \ {c} : vol'[d] = vol[d],
           VolumeInv /\ AgreeInv =>
               /\ api[c].sel # None /\ vol'[c].host = api[c].sel
               /\ vol'[c].hint \in {None, api[c].sel} /\ vol'[c].target \in {None, api[c].sel}
    PROVE  LocalInv'
  <1> SUFFICES ASSUME ~stale' PROVE SelectedInv' /\ PatchedInv' /\ AgreeInv' /\ BoundInv' /\ VolumeInv'
    BY LocalParts, Zenon
  <1>1. SelectedInv /\ PatchedInv /\ AgreeInv /\ BoundInv /\ VolumeInv
    BY LocalParts, Zenon
  <1>2. SelectedInv' /\ PatchedInv' /\ AgreeInv'
    <2>1. \A o \in Pods, n \in Nodes : InCycle(o, n)' => InCycle(o, n)
      BY CyclesKept, InCycleKept, Zenon
    <2>2. SameNodes
      BY Zenon DEF SameNodes
    <2>3. QED
      BY <2>1, <2>2, <1>1, SelectedKeeps, PatchedKeeps, AgreeKeeps, Zenon
  <1>3. BoundInv'
    BY <1>1, Zenon DEF BoundInv
  <1>4. VolumeInv'
    <2> SUFFICES ASSUME NEW d \in Claims, vol'[d] # NoVolume
                 PROVE  /\ api'[d].sel # None /\ vol'[d].host = api'[d].sel
                        /\ {vol'[d].hint, vol'[d].target} \subseteq {None, api'[d].sel}
      BY Zenon DEF VolumeInv
    <2>1. CASE d = c
      <3>1. /\ api[c].sel # None /\ vol'[c].host = api[c].sel
            /\ vol'[c].hint \in {None, api[c].sel} /\ vol'[c].target \in {None, api[c].sel}
        BY <1>1, Zenon
      <3>2. QED
        BY <2>1, <3>1, Zenon
    <2>2. CASE d # c
      <3>1. vol'[d] = vol[d] /\ vol[d] # NoVolume
        BY <2>2, Zenon
      <3>2. QED
        BY <3>1, <1>1, Zenon DEF VolumeInv
    <2>3. QED
      BY <2>1, <2>2
  <1>5. QED
    BY <1>2, <1>3, <1>4

LEMMA CreateVolumeLocal == ASSUME TypeOK, LocalInv, NEW c \in Claims, CreateVolume(c) PROVE LocalInv'
  <1>1. /\ vol'[c].host = api[c].sel /\ vol'[c].hint = api[c].tgt /\ vol'[c].target = None
        /\ \A d \in Claims \ {c} : vol'[d] = vol[d]
        /\ UNCHANGED <<api, patchFirst, bound, cycle, binding, stale>>
    BY CreateVolumeParts, Zenon
  <1>2. api[c].sel # None
    BY Zenon DEF CreateVolume
  <1>3. AgreeInv => api[c].tgt \in {None, api[c].sel}
    BY <1>2, Zenon DEF AgreeInv
  <1>4. VolumeInv /\ AgreeInv =>
               /\ api[c].sel # None /\ vol'[c].host = api[c].sel
               /\ vol'[c].hint \in {None, api[c].sel} /\ vol'[c].target \in {None, api[c].sel}
    BY <1>1, <1>2, <1>3, Zenon
  <1>5. QED
    BY <1>1, <1>4, VolumeLocal, Zenon

LEMMA PlaceVolumeLocal == ASSUME TypeOK, LocalInv, NEW c \in Claims, PlaceVolume(c) PROVE LocalInv'
  <1>1. UNCHANGED <<api, patchFirst, bound, cycle, binding, stale>> /\ vol[c] # NoVolume
    BY PlaceVolumeParts, Zenon
  <1>2. PICK n \in Nodes : n \in {vol[c].target, vol[c].hint, vol[c].host} /\ vol' = [vol EXCEPT ![c].target = n]
    BY PlaceVolumeParts, Zenon
  <1>3. /\ vol'[c].host = vol[c].host /\ vol'[c].hint = vol[c].hint /\ vol'[c].target = n
        /\ \A d \in Claims \ {c} : vol'[d] = vol[d]
    BY <1>2, TypeParts, TargetWrite, Zenon
  <1>4. n # None
    BY PodSchedulingAssumption
  <1>5. ASSUME VolumeInv
        PROVE  /\ api[c].sel # None /\ vol[c].host = api[c].sel
               /\ vol[c].hint \in {None, api[c].sel} /\ vol[c].target \in {None, api[c].sel}
    BY <1>5, <1>1, Zenon DEF VolumeInv
  <1>6. VolumeInv => n = api[c].sel
    BY <1>2, <1>4, <1>5, Zenon
  <1>7. VolumeInv /\ AgreeInv =>
               /\ api[c].sel # None /\ vol'[c].host = api[c].sel
               /\ vol'[c].hint \in {None, api[c].sel} /\ vol'[c].target \in {None, api[c].sel}
    BY <1>3, <1>5, <1>6, Zenon
  <1>8. QED
    BY <1>1, <1>3, <1>7, VolumeLocal, Zenon

LEMMA LocalStep == TypeOK /\ CycleInv /\ LocalInv /\ [Next]_vars => LocalInv'
  <1> SUFFICES ASSUME TypeOK, CycleInv, LocalInv, [Next]_vars PROVE LocalInv'
    OBVIOUS
  <1>1. ASSUME \/ \E n \in Nodes : PoolKnown(n) \/ OtherVolume(n)
               \/ \E c \in Claims : Observe(c) \/ DeleteVolume(c)
               \/ \E p \in Pods : DeletePod(p) \/ RecreatePod(p)
        PROVE  LocalInv'
    BY <1>1, QuietLocal, Zenon
  <1>2. ASSUME NEW c \in Claims, CreateVolume(c) \/ PlaceVolume(c) \/ BindClaim(c) \/ DeleteClaim(c)
        PROVE  LocalInv'
    BY <1>2, CreateVolumeLocal, PlaceVolumeLocal, PhaseLocal, Zenon
  <1>3. ASSUME NEW p \in Pods, NEW n \in Nodes, Filter(p, n) PROVE LocalInv'
    BY <1>3, FilterLocal, Zenon
  <1>4. ASSUME NEW p \in Pods, NEW c \in Claims, SelectNode(p, c) PROVE LocalInv'
    BY <1>4, SelectNodeLocal, Zenon
  <1>5. ASSUME NEW p \in Pods, PreBind(p) \/ BindPod(p) \/ BindingFails(p) PROVE LocalInv'
    BY <1>5, PreBindLocal, BindPodLocal, BindingFailsLocal, Zenon
  <1>6. CASE UNCHANGED vars
    <2>1. UNCHANGED <<api, patchFirst, bound, cycle, binding, vol, stale>>
      BY <1>6, Zenon DEF vars, podVars
    <2>2. QED
      BY <2>1, CyclesKept, LocalQuiet, Zenon DEF SameNodes
  <1>7. QED
    BY <1>1, <1>2, <1>3, <1>4, <1>5, <1>6, ReserveLocal, RestartLocal, Zenon DEF Next

LEMMA LocalInit == Init => LocalInv
  <1> SUFFICES ASSUME Init PROVE SelectedInv /\ PatchedInv /\ AgreeInv /\ BoundInv /\ VolumeInv
    BY LocalParts, Zenon
  <1>1. /\ \A c \in Claims : api[c] = NewClaim /\ vol[c] = NoVolume
        /\ \A p \in Pods : binding[p] = NoCycle /\ bound[p] = None
        /\ cycle = <<>>
    BY DEF Init
  <1>2. \A c \in Claims : api[c].sel = None /\ api[c].tgt = None
    BY <1>1, Constants
  <1>3. SelectedInv
    BY <1>2, ClaimsOfPod DEF SelectedInv
  <1>4. PatchedInv
    BY <1>1, Constants DEF PatchedInv
  <1>5. AgreeInv /\ BoundInv /\ VolumeInv
    BY <1>1, <1>2 DEF AgreeInv, BoundInv, VolumeInv
  <1>6. QED
    BY <1>3, <1>4, <1>5

LEMMA LocalImplies == TypeOK /\ LocalInv => VolumesLocal
  <1> SUFFICES ASSUME TypeOK, LocalInv, NEW p \in pods, bound[p] # None, ~stale, NEW c \in Range(ClaimsOf[p])
               PROVE  vol[c].target \in {None, bound[p]}
    BY Zenon DEF VolumesLocal
  <1>1. p \in Pods
    BY TypeParts DEF RestOK
  <1>2. c \in Claims /\ BoundInv /\ VolumeInv
    BY <1>1, ClaimsOfPod, LocalParts, Zenon
  <1>3. api[c].sel = bound[p]
    BY <1>1, <1>2, Zenon DEF BoundInv
  <1>4. CASE vol[c] = NoVolume
    BY <1>4, Constants
  <1>5. CASE vol[c] # NoVolume
    BY <1>2, <1>3, <1>5, Zenon DEF VolumeInv
  <1>6. QED
    BY <1>4, <1>5

(* A placed volume of a bound pod is on the pod's node unless some scheduling
   cycle worked from an outdated copy of a claim: the annotation of PreBind and
   the selected-node agree, in either order of the two, across failed attempts,
   retries on other nodes and restarts (bind.go PreBind, CreateVolume,
   ScheduleVolume). *)
THEOREM PodHasItsVolumes == Spec => []VolumesLocal
  <1>1. Init => IInv
    BY TypeInit, ResvInit, LocalInit DEF IInv
  <1>2. IInv /\ [Next]_vars => IInv'
    BY TypeStep, ResvStep, LocalStep DEF IInv
  <1>3. IInv => VolumesLocal
    BY LocalImplies DEF IInv
  <1>4. QED
    BY <1>1, <1>2, <1>3, PTL DEF Spec
=============================================================================
