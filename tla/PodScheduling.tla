--------------------------- MODULE PodScheduling ---------------------------
(***************************************************************************)
(* The kube-scheduler plugin (pkg/controller/manager/scheduler/plugin)     *)
(* with what it shares its process and its State with: the PVC event       *)
(* handler and the placing of volumes.  Pods wait for MustLocal claims: a  *)
(* scheduling cycle filters the nodes and reserves the space of the claims *)
(* on the chosen one, its binding cycle writes the node and the            *)
(* reservation onto the claims, and the CSI controller copies both from    *)
(* the claim to the AntstorVolume, which takes the reservation's place.    *)
(*                                                                         *)
(* The rest of Kubernetes is external: it picks the claims' selected-node  *)
(* in the binding cycle, calls the CSI controller, and binds the claim and *)
(* the pod.  Nothing in the repository says whether the plugin's PreBind   *)
(* runs before the scheduler's own: both orders are modelled.  A binding   *)
(* cycle may fail at any time.                                             *)
(***************************************************************************)
EXTENDS Integers, Sequences, Functions

CONSTANTS
    Nodes,      \* nodes, each with a StoragePool
    Pods,       \* pods
    ClaimsOf,   \* ClaimsOf[p]: the sequence of p's MustLocal claims
    Size,       \* Size[c]: the storage request of a claim
    Capacity,   \* the capacity of every pool
    None,       \* no node
    Deletable,  \* bound: the claims that may be deleted
    MaxFaults,  \* bound: restarts, failed binding cycles, interrupted watches, unreadable StorageClasses
    MaxOther    \* bound: volumes on a node that no pod here asks for

Claims == UNION {Range(ClaimsOf[p]) : p \in Pods}

ASSUME PodSchedulingAssumption ==
    /\ None \notin Nodes
    /\ \A p \in Pods : ClaimsOf[p] \in Seq(Claims) \ {<<>>}
    /\ \A p, q \in Pods : p # q => Range(ClaimsOf[p]) \cap Range(ClaimsOf[q]) = {}
    /\ \A c \in Claims : Size[c] \in Nat \ {0}
    /\ Deletable \subseteq Claims
    /\ {Capacity, MaxFaults, MaxOther} \subseteq Nat

VARIABLES
    api,        \* the claims: sel is selected-node, tgt SelectedTgtNodeKey, written with ReservationIDKey
    seen,       \* the claims in the informer's cache, "gone" for one that is not in it
    patchFirst, \* external: the plugin's PreBind is configured to run before the scheduler's own
    pods,       \* the pods that exist
    bound,      \* the node a pod is bound to
    cycle,      \* the pod in the scheduling cycle, the node chosen for it and the claims to reserve
    binding,    \* the binding cycles: the node, and the claims PreBind has yet to patch
    vol,        \* the AntstorVolume of a claim; host = None: there is none
    nodes,      \* State: the keys of NodeMap
    pools,      \* State: those whose pool is known; the others have an empty one
    placed,     \* State: Node.Volumes, as the claims the volumes belong to
    resv,       \* State: Node.resvSet, as claims (a reservation's id is its claim's name)
    other,      \* State: what the other volumes of a node take
    stale,      \* history: a scheduling cycle decided on an outdated copy of a claim
    class,      \* the StorageClass of the claims in the PVC handler's cache; "failing": it may not be read
    missed,     \* history: claims whose deletion the PVC handler could not act on
    faults      \* faults so far

podVars == <<patchFirst, pods, bound, cycle, binding, stale>>
stateVars == <<nodes, pools, placed, resv, other>>
vars == <<api, seen, podVars, vol, stateVars, class, missed, faults>>

Node == Nodes \cup {None}
Claim == [sel : Node, tgt : Node, phase : {"Pending", "Bound", "gone"}]
Volume == [host : Node, hint : Node, target : Node]
NewClaim == [sel |-> None, tgt |-> None, phase |-> "Pending"]
Unseen == [NewClaim EXCEPT !.phase = "gone"]
NoVolume == [host |-> None, hint |-> None, target |-> None]
NoCycle == [node |-> None, todo |-> <<>>]

(* Types; a claim's space is reserved on a pool or taken there by its volume,
   never both (Node.AddVolume releases the reservation of the volume it adds). *)
TypeOK ==
    /\ api \in [Claims -> Claim] /\ seen \in [Claims -> Claim]
    /\ patchFirst \in BOOLEAN /\ pods \subseteq Pods
    /\ bound \in [Pods -> Node]
    /\ \/ cycle = <<>>
       \/ /\ cycle \in Pods \X Nodes \X (Seq(Claims) \ {<<>>})
          /\ Range(cycle[3]) \subseteq Range(ClaimsOf[cycle[1]])
    /\ binding \in [Pods -> [node : Node, todo : Seq(Claims)]]
    /\ \A p \in Pods : Range(binding[p].todo) \subseteq Range(ClaimsOf[p])
    /\ vol \in [Claims -> Volume]
    /\ pools \subseteq nodes /\ nodes \subseteq Nodes
    /\ placed \in [Nodes -> SUBSET Claims] /\ resv \in [Nodes -> SUBSET Claims]
    /\ \A n \in Nodes : placed[n] \cap resv[n] = {}
    /\ other \in [Nodes -> 0..MaxOther]
    /\ stale \in BOOLEAN /\ class \in {"unread", "cached", "failing"} /\ missed \subseteq Claims
    /\ faults \in 0..MaxFaults

Init ==
    /\ api = [c \in Claims |-> NewClaim]
    /\ seen = [c \in Claims |-> Unseen]
    /\ patchFirst \in BOOLEAN /\ pods = Pods
    /\ bound = [p \in Pods |-> None]
    /\ cycle = <<>>
    /\ binding = [p \in Pods |-> NoCycle]
    /\ vol = [c \in Claims |-> NoVolume]
    /\ nodes = {} /\ pools = {}
    /\ placed = [n \in Nodes |-> {}] /\ resv = [n \in Nodes |-> {}]
    /\ other = [n \in Nodes |-> 0]
    /\ stale = FALSE /\ class = "unread" /\ missed = {}
    /\ faults = 0

-----------------------------------------------------------------------------
(* The State. *)

GetNodeByNodeID(n) == {n} \cap nodes
RemoveVolumeByID(n, c) == placed[n] \ {c}

Total(C) == SumFunctionOnSet(Size, C)
(* An empty pool has no capacity, and the quantity that is missing reads 0. *)
FreeResource(n) ==
    IF n \in pools THEN Capacity - other[n] - Total(placed[n]) - Total(resv[n]) ELSE 0

(* Node.Reserve: nothing for a claim whose volume is placed, and nothing, not
   even an error, when the space is short. *)
Reserved(n, c) ==
    IF c \notin placed[n] /\ FreeResource(n) >= Size[c] THEN resv[n] \cup {c} ELSE resv[n]

PoolKnown(n) ==
    /\ n \notin pools
    /\ nodes' = nodes \cup {n} /\ pools' = pools \cup {n}
    /\ UNCHANGED <<api, seen, podVars, vol, placed, resv, other, class, missed, faults>>

(* A volume of another kind of claim is placed. *)
OtherVolume(n) ==
    /\ n \in pools /\ other[n] < MaxOther /\ FreeResource(n) >= 1
    /\ other' = [other EXCEPT ![n] = @ + 1]
    /\ UNCHANGED <<api, seen, podVars, vol, nodes, pools, placed, resv, class, missed, faults>>

-----------------------------------------------------------------------------
(* The informer: PVCEventHandler. *)

(* StorageClassCache.GetByName: a class that is not cached is read from the API
   server, and cached if that works.  Once it has failed it may fail again. *)
GetByName(ok) ==
    \/ ok /\ class' = "cached" /\ UNCHANGED faults
    \/ ~ok /\ class = "failing" /\ UNCHANGED <<class, faults>>
    \/ ~ok /\ class = "unread" /\ class' = "failing" /\ faults < MaxFaults /\ faults' = faults + 1

(* The claim's StorageClass could be read (ok), and n is its selected-node. *)
isAntstorMustLocalPVCBound(c, n, ok) == ok /\ api[c].sel = n

(* OnAdd: a claim that has a selected-node is reserved there; a node that the
   State does not have is added with an empty pool. *)
OnAdd(c) ==
    \E ok \in BOOLEAN :
        /\ GetByName(ok)
        /\ nodes' = nodes \cup {n \in Nodes : isAntstorMustLocalPVCBound(c, n, ok)}
        /\ resv' = [n \in Nodes |-> IF isAntstorMustLocalPVCBound(c, n, ok) THEN Reserved(n, c) ELSE resv[n]]
        /\ UNCHANGED missed

OnDelete_Ignored(c) == UNCHANGED <<nodes, resv, class, missed, faults>>     \* mutant: the reservation stays

(* OnDelete: it stays, too, when the StorageClass cannot be read, and when the
   watch was interrupted and the deletion is learnt from a list, which brings a
   DeletedFinalStateUnknown for the claim. *)
OnDelete(c) ==
    /\ \/ \E ok \in BOOLEAN :
             /\ GetByName(ok)
             /\ resv' = [n \in Nodes |-> IF isAntstorMustLocalPVCBound(c, n, ok) THEN resv[n] \ {c} ELSE resv[n]]
             /\ missed' = IF ok THEN missed ELSE missed \cup {c}
       \/ /\ faults < MaxFaults /\ faults' = faults + 1
          /\ missed' = missed \cup {c} /\ UNCHANGED <<resv, class>>
    /\ UNCHANGED nodes

OnUpdate == UNCHANGED <<nodes, resv, class, missed, faults>>

Observe(c) ==
    /\ seen[c] # api[c]
    /\ seen' = [seen EXCEPT ![c] = IF api[c].phase = "gone" THEN Unseen ELSE api[c]]
    /\ \/ seen[c].phase = "gone" /\ api[c].phase # "gone" /\ OnAdd(c)
       \/ seen[c].phase # "gone" /\ api[c].phase = "gone" /\ OnDelete(c)
       \/ seen[c].phase # "gone" /\ api[c].phase # "gone" /\ OnUpdate
    /\ UNCHANGED <<api, podVars, vol, pools, placed, other>>

-----------------------------------------------------------------------------
(* The scheduling cycle. *)

(* isPVCFullyBound *)
FullyBound(c) == seen[c].sel # None /\ seen[c].phase = "Bound"

(* The reservation with c's id on n, if there is one. *)
GetById(n, c) == {r \in resv[n] : r = c}

(* matchReservationFilter, for a volume of sz with c's reservation id. *)
MatchReservation(n, c, sz) == FreeResource(n) >= 0 /\ \E r \in GetById(n, c) : Size[r] >= sz

(* The filters, for the virtual volume that stands for all of the pod's claims:
   it asks for the sum of their sizes and carries the annotations of them all,
   the last claim's where they differ. *)
Fits(n, p) ==
    LET annotated == SelectSeq(ClaimsOf[p], LAMBDA c : seen[c].tgt # None)
        total == Total(Range(ClaimsOf[p]))
    IN  IF annotated # <<>> THEN MatchReservation(n, annotated[Len(annotated)], total)
                            ELSE FreeResource(n) >= total

(* PreFilter: every claim is in the cache. *)
PreFilter(p) == \A c \in Range(ClaimsOf[p]) : seen[c].phase # "gone"

(* PreFilter and Filter: the pool is known, a bound claim allows only its node,
   and the virtual volume fits.  External: the scheduler's own volume binding,
   which keeps to a selected-node; the choice among the nodes that are left. *)
Filter(p, n) ==
    /\ cycle = <<>> /\ binding[p] = NoCycle /\ p \in pods /\ bound[p] = None
    /\ PreFilter(p)
    /\ \A c \in Range(ClaimsOf[p]) : seen[c].sel \in {None, n}
    /\ GetNodeByNodeID(n) # {}
    /\ \A c \in Range(ClaimsOf[p]) : FullyBound(c) => seen[c].sel = n
    /\ Fits(n, p)
    /\ cycle' = <<p, n, ClaimsOf[p]>>
    /\ stale' = (stale \/ \E c \in Range(ClaimsOf[p]) : seen[c] # api[c])
    /\ UNCHANGED <<api, seen, patchFirst, pods, bound, binding, vol, stateVars, class, missed, faults>>

(* Reserve: one Node.Reserve per claim, between which others may use the State.
   The pod goes on to its binding cycle whatever they did. *)
Reserve ==
    /\ cycle # <<>>
    /\ LET p == cycle[1]
           n == cycle[2]
           todo == cycle[3]
       IN  /\ resv' = [resv EXCEPT ![n] = Reserved(n, Head(todo))]
           /\ \/ /\ Len(todo) > 1
                 /\ cycle' = <<p, n, Tail(todo)>> /\ UNCHANGED binding
              \/ /\ Len(todo) = 1
                 /\ cycle' = <<>>
                 /\ binding' = [binding EXCEPT ![p] = [node |-> n, todo |-> ClaimsOf[p]]]
    /\ UNCHANGED <<api, seen, patchFirst, pods, bound, vol, nodes, pools, placed, other, stale, class, missed, faults>>

(* Unreserve: the reservations of the pod's claims on its node. *)
Unreserve(p) == resv' = [resv EXCEPT ![binding[p].node] = @ \ Range(ClaimsOf[p])]

-----------------------------------------------------------------------------
(* The binding cycle. *)

(* External: the claims are bound, which is what the scheduler's own PreBind
   waits for. *)
VolumesBound(p) ==
    \A c \in Range(ClaimsOf[p]) : api[c].phase = "Bound" /\ api[c].sel = binding[p].node

(* PreBind patches one claim: a merge patch, which fails only for a claim that
   is gone (or by a fault: BindingFails). *)
PreBind(p) ==
    /\ binding[p].todo # <<>>
    /\ patchFirst \/ VolumesBound(p)
    /\ LET c == Head(binding[p].todo)
       IN  /\ api[c].phase # "gone"
           /\ api' = [api EXCEPT ![c].tgt = binding[p].node]
    /\ binding' = [binding EXCEPT ![p].todo = Tail(@)]
    /\ UNCHANGED <<seen, patchFirst, pods, bound, cycle, vol, stateVars, stale, class, missed, faults>>

(* External: the scheduler's own PreBind asks for the claim's volume. *)
SelectNode(p, c) ==
    /\ binding[p].node # None /\ c \in Range(ClaimsOf[p])
    /\ patchFirst => binding[p].todo = <<>>
    /\ api[c].sel = None /\ api[c].phase = "Pending"
    /\ api' = [api EXCEPT ![c].sel = binding[p].node]
    /\ UNCHANGED <<seen, podVars, vol, stateVars, class, missed, faults>>

(* External: the pod is bound once all its claims are. *)
BindPod(p) ==
    /\ binding[p].node # None /\ binding[p].todo = <<>> /\ p \in pods
    /\ VolumesBound(p)
    /\ bound' = [bound EXCEPT ![p] = binding[p].node]
    /\ binding' = [binding EXCEPT ![p] = NoCycle]
    /\ UNCHANGED <<api, seen, patchFirst, pods, cycle, vol, stateVars, stale, class, missed, faults>>

(* A patch fails, a wait times out, or the pod or a claim is gone: Unreserve.
   What was written onto the claims stays. *)
BindingFails(p) ==
    /\ binding[p].node # None
    /\ \/ faults < MaxFaults /\ faults' = faults + 1
       \/ /\ \/ p \notin pods
             \/ \E c \in Range(ClaimsOf[p]) : api[c].phase = "gone"
             \/ \E c \in Range(ClaimsOf[p]) : api[c].sel \notin {None, binding[p].node}
          /\ UNCHANGED faults
    /\ Unreserve(p)
    /\ binding' = [binding EXCEPT ![p] = NoCycle]
    /\ UNCHANGED <<api, seen, patchFirst, pods, bound, cycle, vol, nodes, pools, placed, other, stale, class, missed>>

-----------------------------------------------------------------------------
(* The volumes. *)

(* CreatePV: the volume as it is stored.  Its name is the claim's, so a second
   call finds it. *)
CreatePV(c, h, t) == vol' = [vol EXCEPT ![c] = [host |-> h, hint |-> t, target |-> None]]

(* CreateVolume of the CSI controller: the host is the claim's selected-node and
   the "obnvmf/" annotations are copied, as the claim has them now.  External:
   the provisioner that calls it once there is a selected-node. *)
CreateVolume(c) ==
    /\ api[c].sel # None /\ api[c].phase = "Pending" /\ vol[c] = NoVolume
    /\ CreatePV(c, api[c].sel, api[c].tgt)
    /\ UNCHANGED <<api, seen, podVars, stateVars, class, missed, faults>>

(* External: the provisioner binds the claim, placed or not: CreateVolume does
   not wait for the volume. *)
BindClaim(c) ==
    /\ api[c].phase = "Pending" /\ vol[c] # NoVolume
    /\ api' = [api EXCEPT ![c].phase = "Bound"]
    /\ UNCHANGED <<seen, podVars, vol, stateVars, class, missed, faults>>

(* Mutant: the position advice is not looked at. *)
Targets_AnyPool(c) ==
    IF vol[c].hint # None THEN {vol[c].hint} ELSE {n \in Nodes : FreeResource(n) >= Size[c]}

(* sched: of the filters, the position advice leaves the host, and the volume
   has to fit there. *)
sched(c) == {n \in {vol[c].host} : FreeResource(n) >= Size[c]}

(* Where ScheduleVolume may put the volume of c: the annotated node without any
   check, and otherwise where sched says. *)
Targets(c) == IF vol[c].hint # None THEN {vol[c].hint} ELSE sched(c)

(* Mutant: the reservation is not removed. *)
AddVolume_KeepResv(n, c) ==
    /\ placed' = [placed EXCEPT ![n] = @ \cup {c}]
    /\ UNCHANGED resv

(* Node.AddVolume: the volume takes the place of its reservation. *)
AddVolume(n, c) ==
    /\ placed' = [placed EXCEPT ![n] = @ \cup {c}]
    /\ resv' = [resv EXCEPT ![n] = @ \ {c}]

(* A volume that has its target is placed there by its create event, which adds
   the node if it must; another one is scheduled, and waits for its node. *)
PlaceVolume(c) ==
    /\ vol[c] # NoVolume
    /\ \E n \in IF vol[c].target # None THEN {vol[c].target} ELSE Targets(c) \cap nodes :
          /\ c \notin placed[n]
          /\ AddVolume(n, c)
          /\ vol' = [vol EXCEPT ![c].target = n]
          /\ nodes' = nodes \cup {n}
    /\ UNCHANGED <<api, seen, podVars, pools, other, class, missed, faults>>

-----------------------------------------------------------------------------
(* External: users and the garbage collection of Kubernetes.  A pod that is
   deleted comes back under the same name; its claims are deleted only while it
   is away, and their volumes go with them. *)

DeletePod(p) ==
    /\ p \in pods
    /\ pods' = pods \ {p}
    /\ bound' = [bound EXCEPT ![p] = None]
    /\ UNCHANGED <<api, seen, patchFirst, cycle, binding, vol, stateVars, stale, class, missed, faults>>

RecreatePod(p) ==
    /\ p \notin pods /\ \A c \in Range(ClaimsOf[p]) : api[c].phase # "gone"
    /\ pods' = pods \cup {p}
    /\ UNCHANGED <<api, seen, patchFirst, bound, cycle, binding, vol, stateVars, stale, class, missed, faults>>

DeleteClaim(c) ==
    /\ c \in Deletable /\ api[c].phase # "gone"
    /\ \A p \in pods : c \notin Range(ClaimsOf[p])
    /\ api' = [api EXCEPT ![c].phase = "gone"]
    /\ UNCHANGED <<seen, podVars, vol, stateVars, class, missed, faults>>

DeleteVolume(c) ==
    /\ api[c].phase = "gone" /\ vol[c] # NoVolume
    /\ vol' = [vol EXCEPT ![c] = NoVolume]
    /\ placed' = [n \in Nodes |-> RemoveVolumeByID(n, c)]
    /\ UNCHANGED <<api, seen, podVars, nodes, pools, resv, other, class, missed, faults>>

(* The scheduler's process restarts: the State, the caches and every cycle are
   lost; what the API server has stays. *)
Restart ==
    /\ faults < MaxFaults /\ faults' = faults + 1
    /\ seen' = [c \in Claims |-> Unseen]
    /\ cycle' = <<>>
    /\ binding' = [p \in Pods |-> NoCycle]
    /\ nodes' = {} /\ pools' = {}
    /\ placed' = [n \in Nodes |-> {}] /\ resv' = [n \in Nodes |-> {}]
    /\ class' = IF class = "failing" THEN "failing" ELSE "unread"
    /\ UNCHANGED <<api, patchFirst, pods, bound, vol, other, stale, missed>>

-----------------------------------------------------------------------------
Next ==
    \/ \E n \in Nodes : PoolKnown(n) \/ OtherVolume(n)
    \/ \E c \in Claims : \/ Observe(c) \/ CreateVolume(c) \/ BindClaim(c)
                         \/ PlaceVolume(c) \/ DeleteClaim(c) \/ DeleteVolume(c)
    \/ \E p \in Pods : \/ \E n \in Nodes : Filter(p, n)
                       \/ \E c \in Claims : SelectNode(p, c)
                       \/ PreBind(p) \/ BindPod(p) \/ BindingFails(p)
                       \/ DeletePod(p) \/ RecreatePod(p)
    \/ Reserve
    \/ Restart

Spec == Init /\ [][Next]_vars

-----------------------------------------------------------------------------
(* Every volume of a bound pod that has been placed is on the pod's node: the
   two routes to a node, the annotation PreBind writes and the selected-node,
   agree for MustLocal claims across failed attempts and restarts, in either order
   of the two, as long as no attempt worked from an outdated copy of a claim
   (sched.go ScheduleVolume, bind.go PreBind, CreateVolume). *)
VolumesLocal ==
    \A p \in pods : bound[p] # None /\ ~stale =>
        \A c \in Range(ClaimsOf[p]) : vol[c].target \in {None, bound[p]}

(* A reservation is held only for a scheduling or binding cycle on that node or
   for a claim whose selected-node it is: no failed attempt and no restart leaves
   one behind, which would keep the space from everybody else.  Nor does a claim
   that is deleted, unless the handler cannot act on it (missed): the deletion is
   learnt from a list, or comes while the StorageClass cannot be read (reserve.go
   Unreserve, PVCEventHandler, Node.AddVolume). *)
ReservationsOwned ==
    \A n \in Nodes : \A c \in resv[n] \ missed :
        \/ \E p \in Pods : /\ binding[p].node = n \/ (cycle # <<>> /\ cycle[1] = p /\ cycle[2] = n)
                           /\ c \in Range(ClaimsOf[p])
        \/ seen[c].phase # "gone" /\ api[c].sel = n
=============================================================================
