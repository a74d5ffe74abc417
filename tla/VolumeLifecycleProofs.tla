----------------------- MODULE VolumeLifecycleProofs -----------------------
(***************************************************************************)
(* The lifecycle of a volume keeps its contract, for any set of nodes and  *)
(* any lag of the controller's cache, and the space of a live volume is    *)
(* always counted.                                                         *)
(***************************************************************************)
EXTENDS VolumeLifecycle, TLAPS

(* A version of the object against the object itself: the target is set once,
   deletion is not taken back, and finalizers come after in-state. *)
Agrees(v) ==
    v # None =>
        /\ obj # None => v.target \in {None, obj.target}
        /\ v.deleting => obj = None \/ obj.deleting
        /\ v.finalizers # {} => "in-state" \in v.finalizers
        /\ "in-state" \in v.finalizers => held

(* Two versions have the same target, if any. *)
SameTarget(v, w) ==
    v # None /\ w # None /\ v.target # None /\ w.target # None => v.target = w.target

(* v is gone or on its way. *)
Deleted(v) == v = None \/ v.deleting

(* The State against a version that the controller has or will read. *)
Bound(v) == v # None /\ v.target # None => volIDMap \in {None, v.target}

(* What the cache has yet to receive. *)
FeedInv ==
    /\ feed = <<>> => cache = obj
    /\ feed # <<>> => feed[Len(feed)] = obj
    /\ \A i \in 1..Len(feed) : feed[i] = None => i = Len(feed)
    /\ \A i, j \in 1..Len(feed) : i < j /\ Deleted(feed[i]) => Deleted(feed[j])
    /\ cache # None /\ cache.deleting => \A i \in 1..Len(feed) : Deleted(feed[i])

VersionInv ==
    /\ Agrees(cache) /\ Agrees(obj)
    /\ \A i \in 1..Len(feed) : Agrees(feed[i])
    /\ Bound(cache) /\ Bound(obj)
    /\ \A i \in 1..Len(feed) : Bound(feed[i]) /\ SameTarget(cache, feed[i])
    /\ \A i, j \in 1..Len(feed) : SameTarget(feed[i], feed[j])

(* The State holds the volume from the moment a version with a target exists
   until the controller has seen its deletion. *)
StateInv ==
    /\ inNode = IF volIDMap = None THEN {} ELSE {volIDMap}
    /\ cache = None \/ ~cache.deleting =>
          \A i \in 1..Len(feed) : feed[i] # None /\ feed[i].target # None => volIDMap # None
    /\ obj # None /\ ~obj.deleting /\ obj.target # None => volIDMap = obj.target

ObjInv ==
    /\ ~created => /\ obj = None /\ cache = None /\ feed = <<>> /\ volIDMap = None
                   /\ ~held /\ \A n \in Nodes : agt[n] = Resting
    /\ obj # None => /\ obj.deleting => obj.finalizers # {}
                     /\ held => "in-state" \in obj.finalizers
                     /\ obj.status = "ready" => held /\ obj.target # None
    /\ obj = None /\ held => Deleted(cache)
    /\ cache = None /\ feed # <<>> => ~held

AgentInv ==
    /\ \A n \in Nodes : agt[n].pc # "idle" =>
          /\ agt[n].copy.target = n
          /\ obj # None => obj.target = n
    /\ lv # {} => created
    /\ obj # None => lv \subseteq {obj.target}

IInv == TypeOK /\ FeedInv /\ VersionInv /\ StateInv /\ ObjInv /\ AgentInv

-----------------------------------------------------------------------------
(* Sequences. *)

LEMMA AppendFacts ==
    ASSUME NEW S, NEW s \in Seq(S), NEW e \in S
    PROVE  /\ Append(s, e) \in Seq(S)
           /\ Len(s) \in Nat
           /\ Len(Append(s, e)) = Len(s) + 1
           /\ \A i \in 1..Len(s) : Append(s, e)[i] = s[i]
           /\ Append(s, e)[Len(s) + 1] = e
           /\ Append(s, e) # <<>>
OBVIOUS

LEMMA TailFacts ==
    ASSUME NEW S, NEW s \in Seq(S), s # <<>>
    PROVE  /\ Head(s) = s[1] /\ Head(s) \in S
           /\ Tail(s) \in Seq(S)
           /\ Len(s) \in Nat /\ Len(s) > 0
           /\ Len(Tail(s)) = Len(s) - 1
           /\ \A i \in 1..Len(Tail(s)) : Tail(s)[i] = s[i + 1]
OBVIOUS

LEMMA LenFacts ==
    ASSUME NEW S, NEW s \in Seq(S)
    PROVE  /\ Len(s) \in Nat
           /\ s # <<>> => Len(s) \in 1..Len(s)
           /\ s = <<>> => Len(s) = 0
OBVIOUS

-----------------------------------------------------------------------------
(* A step of the State, a step of the object. *)

(* n may be bound: no version says otherwise. *)
Claimed(n) ==
    /\ volIDMap \in {None, n}
    /\ obj # None => obj.target \in {None, n}
    /\ cache # None => cache.target \in {None, n}
    /\ \A i \in 1..Len(feed) : feed[i] # None => feed[i].target \in {None, n}

StateStep ==
    \/ UNCHANGED <<inNode, volIDMap>>
    \/ cache # None /\ ~cache.deleting /\ \E n \in Nodes : Claimed(n) /\ Bind(n)
    \/ cache # None /\ cache.deleting /\ UnbindAntstorVolume

(* What a controller's or an agent's write may make of the object. *)
NewVersion(o) ==
    /\ obj # None
    /\ o.target = obj.target \/ (obj.target = None /\ o.target = volIDMap')
    /\ ~o.deleting /\ o.target # None => volIDMap' = o.target
    /\ obj.deleting => o.deleting
    /\ o.finalizers # {} => "in-state" \in o.finalizers
    /\ held => \/ "in-state" \in o.finalizers
               \/ o.deleting /\ o.finalizers = {} /\ Deleted(cache)
    /\ o.status = "ready" => (held \/ "in-state" \in o.finalizers) /\ o.target # None
    /\ cache = None /\ "in-state" \in o.finalizers => held
    /\ obj.status = "ready" => o.status = "ready"
    /\ o.status = "ready" /\ obj.status # "ready" =>
          held /\ o.target = obj.target /\ UNCHANGED inNode
    /\ "in-state" \in o.finalizers /\ ~held => o.target = obj.target /\ o.target # None
    /\ o.deleting /\ ~obj.deleting =>
          o.finalizers = obj.finalizers /\ o.target = obj.target /\ UNCHANGED inNode
    /\ o.deleting /\ o.finalizers = {} /\ obj.deleting => inNode' = {}

(* A step keeps the invariant, and is one of the contract or invisible to it. *)
Kept == IInv' /\ [C!Next]_(C!vars)

(* The new State and the versions there are. *)
StateAfter ==
    /\ inNode' = IF volIDMap' = None THEN {} ELSE {volIDMap'}
    /\ volIDMap' \in Nodes \cup {None} /\ inNode' \subseteq Nodes
    /\ cache # None /\ cache.target # None => volIDMap' \in {None, cache.target}
    /\ obj # None /\ obj.target # None => volIDMap' \in {None, obj.target}
    /\ \A i \in 1..Len(feed) :
          feed[i] # None /\ feed[i].target # None => volIDMap' \in {None, feed[i].target}
    /\ cache = None \/ ~cache.deleting =>
          \A i \in 1..Len(feed) : feed[i] # None /\ feed[i].target # None => volIDMap' # None
    /\ obj # None /\ ~obj.deleting /\ obj.target # None => volIDMap' = obj.target

LEMMA StateKept ==
    ASSUME IInv, StateStep
    PROVE  StateAfter
<1> USE LifecycleAssumption
<1>1. CASE UNCHANGED <<inNode, volIDMap>>
    BY <1>1 DEF IInv, TypeOK, VersionInv, StateInv, Bound, StateAfter
<1>2. ASSUME NEW n \in Nodes, Claimed(n), Bind(n)
      PROVE  StateAfter
    BY <1>2 DEF IInv, TypeOK, StateInv, Claimed, Bind, StateAfter
<1>3. CASE cache # None /\ cache.deleting /\ UnbindAntstorVolume
    BY <1>3 DEF IInv, TypeOK, StateInv, VersionInv, Agrees, UnbindAntstorVolume, StateAfter
<1> QED
    BY <1>1, <1>2, <1>3 DEF StateStep

(* What neither kind of step changes. *)
Frame ==
    /\ UNCHANGED <<created, aged, cache, ready, down, lv, access, faults>>
    /\ agt' \in [Nodes -> [pc : {"idle", "act", "write"}, copy : Volume \cup {None}]]
    /\ \A n \in Nodes : agt'[n] = agt[n] \/ agt'[n] = Resting

LEMMA NoWriteKept ==
    ASSUME IInv, StateStep, Frame, UNCHANGED <<obj, held, feed>>,
           created \/ UNCHANGED volIDMap
    PROVE  IInv'
<1> USE LifecycleAssumption
<1>0. StateAfter
    BY StateKept
<1>1. TypeOK'
    BY <1>0 DEF IInv, TypeOK, StateAfter, Frame, Resting
<1>2. FeedInv'
    BY DEF IInv, FeedInv, Frame, Deleted
<1>3. VersionInv'
    BY <1>0 DEF IInv, VersionInv, Agrees, Bound, SameTarget, StateAfter, Frame
<1>4. StateInv'
    BY <1>0 DEF IInv, StateInv, StateAfter, Frame
<1>5. ObjInv'
    BY DEF IInv, ObjInv, Frame, Deleted
<1>6. AgentInv'
    BY DEF IInv, AgentInv, Frame, Resting
<1> QED
    BY <1>1, <1>2, <1>3, <1>4, <1>5, <1>6 DEF IInv

LEMMA SettleType ==
    ASSUME NEW o \in Volume
    PROVE  /\ Settle(o) = o \/ Settle(o) = None
           /\ Settle(o) \in Volume \cup {None}
           /\ Settle(o) = None <=> (o.deleting /\ o.finalizers = {})
BY LifecycleAssumption DEF Settle

(* While the controller has not seen a deletion, the State holds a volume that
   has a target. *)
LEMMA TargetHeld ==
    ASSUME IInv, StateAfter, obj # None, obj.target # None, cache = None \/ ~cache.deleting
    PROVE  volIDMap' # None
<1>1. CASE feed = <<>>
    BY <1>1, LifecycleAssumption, Zenon DEF IInv, TypeOK, FeedInv, StateAfter, Volume
<1>2. CASE feed # <<>>
    BY <1>2, LenFacts DEF IInv, TypeOK, FeedInv, StateAfter
<1> QED
    BY <1>1, <1>2

LEMMA WriteKept ==
    ASSUME IInv, StateStep, Frame, NEW o \in Volume, NewVersion(o), Publish(o)
    PROVE  IInv'
<1> USE LifecycleAssumption
<1> DEFINE new == Settle(o)
<1>0. StateAfter
    BY StateKept
<1>created. created
    BY DEF IInv, ObjInv, NewVersion
<1>1. CASE new = obj
    BY <1>1, <1>created, NoWriteKept DEF Publish
<1>2. CASE new # obj
    <2>1. /\ Len(feed) < MaxLag /\ obj' = new /\ feed' = Append(feed, new)
          /\ held' = (held \/ "in-state" \in o.finalizers)
        BY <1>2 DEF Publish
    <2>2. new \in Volume \cup {None} /\ feed \in Seq(Volume \cup {None})
        BY SettleType DEF IInv, TypeOK
    <2>3. /\ feed' \in Seq(Volume \cup {None})
          /\ Len(feed) \in Nat
          /\ Len(feed') = Len(feed) + 1
          /\ \A i \in 1..Len(feed) : feed'[i] = feed[i]
          /\ feed'[Len(feed')] = new
          /\ feed' # <<>>
        <3> HIDE DEF new
        <3> QED
            BY <2>1, <2>2, AppendFacts
    <2>4. \A i \in 1..Len(feed') : i \in 1..Len(feed) \/ i = Len(feed')
        BY <2>3
    <2>5. TypeOK'
        BY <1>0, <2>1, <2>2, <2>3 DEF IInv, TypeOK, StateAfter, Frame, Resting
    <2>a. new = None <=> (o.deleting /\ o.finalizers = {})
        BY SettleType
    <2>b. new # None => new = o
        BY SettleType
    <2> HIDE DEF new
    <2>6. FeedInv'
        <3>1. \A i \in 1..Len(feed) : feed[i] # None
            BY LenFacts, <2>2 DEF IInv, FeedInv, NewVersion
        <3>2. \A i \in 1..Len(feed) : Deleted(feed[i]) => Deleted(new)
            BY <3>1, <2>b DEF IInv, VersionInv, Agrees, NewVersion, Deleted
        <3>3. cache # None /\ cache.deleting => Deleted(new)
            BY <2>b DEF IInv, VersionInv, Agrees, NewVersion, Deleted
        <3> QED
            BY <2>1, <2>3, <2>4, <3>1, <3>2, <3>3 DEF IInv, FeedInv, Frame, Deleted
    <2>7. VersionInv'
        <3>1. held => held'
            BY <2>1, Zenon
        <3>2. \A v \in Volume \cup {None} : Agrees(v) => Agrees(v)'
            BY <2>1, <2>a, <2>b, <3>1 DEF Agrees, NewVersion
        <3>3. Agrees(new)'
            BY <2>1, <2>a, <2>b, Zenon DEF Agrees, NewVersion
        <3>4. \A v \in Volume \cup {None} : SameTarget(v, obj) /\ v # None
                   /\ (v.target # None => volIDMap' \in {None, v.target}) => SameTarget(v, new)
            BY <2>b DEF SameTarget, NewVersion
        <3>5. Bound(new)'
            BY <1>0, <2>b DEF Bound, NewVersion, StateAfter
        <3>6. Agrees(cache)' /\ Agrees(obj)'
            BY <2>1, <3>2, <3>3 DEF IInv, TypeOK, VersionInv, Frame, Agrees
        <3>7. \A i \in 1..Len(feed') : Agrees(feed[i])'
            <4>1. \A i \in 1..Len(feed) : feed[i] \in Volume \cup {None}
                BY <2>2
            <4> QED
                BY <2>3, <2>4, <3>2, <3>3, <4>1 DEF IInv, VersionInv, Agrees
        <3>8. \A i \in 1..Len(feed) : SameTarget(feed[i], new)
            <4> SUFFICES ASSUME NEW i \in 1..Len(feed), feed[i] # None
                         PROVE  SameTarget(feed[i], new)
                BY DEF SameTarget
            <4>1. feed[i] \in Volume \cup {None}
                BY <2>2
            <4>2. SameTarget(feed[i], obj)
                BY <2>2, LenFacts DEF IInv, FeedInv, VersionInv
            <4> QED
                BY <1>0, <3>4, <4>1, <4>2 DEF StateAfter
        <3>9. SameTarget(cache, new)
            <4>1. SameTarget(cache, obj)
                BY <2>2, LenFacts DEF IInv, FeedInv, VersionInv, SameTarget
            <4> QED
                BY <1>0, <3>4, <4>1 DEF IInv, TypeOK, StateAfter, SameTarget
        <3>10. Bound(cache)' /\ Bound(obj)'
            BY <1>0, <2>1, <3>5 DEF Bound, StateAfter, Frame
        <3>11. \A i \in 1..Len(feed') : Bound(feed[i])' /\ SameTarget(cache, feed[i])'
            BY <1>0, <2>3, <2>4, <3>5, <3>9 DEF IInv, VersionInv, Bound, StateAfter, Frame, SameTarget
        <3>12. \A i, j \in 1..Len(feed') : SameTarget(feed[i], feed[j])'
            BY <2>3, <2>4, <3>8 DEF IInv, VersionInv, SameTarget
        <3> QED
            BY <3>6, <3>7, <3>10, <3>11, <3>12 DEF VersionInv, Agrees
    <2>8. StateInv'
        <3>1. cache = None \/ ~cache.deleting =>
                 (new # None /\ new.target # None => volIDMap' # None)
            BY <1>0, <2>b, TargetHeld DEF NewVersion
        <3> QED
            BY <1>0, <2>1, <2>3, <2>4, <2>b, <3>1 DEF StateInv, StateAfter, Frame, NewVersion
    <2>9. ObjInv'
        <3>1. cache = None => ~held /\ ~held'
            BY <2>1, Zenon DEF IInv, FeedInv, ObjInv, NewVersion
        <3> QED
            BY <1>created, <2>1, <2>a, <2>b, <3>1, Zenon DEF IInv, ObjInv, NewVersion, Frame, Deleted
    <2>10. AgentInv'
        BY <1>created, <2>1, <2>b DEF IInv, TypeOK, AgentInv, NewVersion, Frame, Resting
    <2> QED
        BY <2>5, <2>6, <2>7, <2>8, <2>9, <2>10 DEF IInv
<1> QED
    BY <1>1, <1>2

(* Binding may come too late for a volume that was never admitted; unbinding
   waits for its deletion. *)
LEMMA NoWriteStep ==
    ASSUME IInv, StateStep, Frame, UNCHANGED <<obj, held, feed>>,
           created \/ UNCHANGED volIDMap
    PROVE  Kept
<1> USE LifecycleAssumption
<1>1. IInv'
    BY NoWriteKept
<1>2. UNCHANGED <<phase, place>>
    BY DEF phase, place, Frame
<1>3. CASE UNCHANGED <<inNode, volIDMap>>
    BY <1>1, <1>2, <1>3 DEF Kept, C!vars
<1>4. ASSUME cache # None, ~cache.deleting, NEW n \in Nodes, Claimed(n), Bind(n)
      PROVE  Kept
    <2>1. phase # "absent" /\ (phase = "gone" => ~held)
        BY <1>4 DEF phase, IInv, ObjInv, Deleted
    <2>2. inNode \subseteq {n} /\ place \in {None, n} /\ inNode' = {n}
        BY <1>4 DEF Claimed, Bind, IInv, StateInv, place
    <2>3. C!Take(n)
        BY <1>2, <2>1, <2>2 DEF C!Take
    <2> QED
        BY <1>1, <2>3 DEF Kept, C!Next
<1>5. CASE cache # None /\ cache.deleting /\ UnbindAntstorVolume
    <2>1. ~C!Live
        BY <1>5 DEF C!Live, phase, IInv, ObjInv, VersionInv, Agrees
    <2>2. inNode' = {}
        BY <1>5 DEF UnbindAntstorVolume, IInv, StateInv
    <2>3. C!Forget
        BY <1>2, <2>1, <2>2 DEF C!Forget
    <2> QED
        BY <1>1, <2>3 DEF Kept, C!Next
<1> QED
    BY <1>3, <1>4, <1>5 DEF StateStep

LEMMA WriteStep ==
    ASSUME IInv, StateStep, Frame, NEW o \in Volume, NewVersion(o), Publish(o)
    PROVE  Kept
<1> USE LifecycleAssumption
<1>0. IInv' /\ StateAfter
    BY WriteKept, StateKept
<1>1. created /\ created' /\ obj # None
    BY DEF IInv, ObjInv, NewVersion, Frame
<1>2. CASE Settle(o) = obj
    BY <1>1, <1>2, NoWriteStep DEF Publish
<1>3. CASE Settle(o) # obj
    <2>1. obj' = Settle(o) /\ held' = (held \/ "in-state" \in o.finalizers)
        BY <1>3 DEF Publish
    <2>2. /\ obj' = None <=> (o.deleting /\ o.finalizers = {})
          /\ obj' # None => obj' = o
        BY <2>1, SettleType
    <2>3. /\ obj.deleting => held /\ "in-state" \in obj.finalizers
          /\ obj.finalizers = {} <=> ~held
        BY <1>1 DEF IInv, ObjInv, VersionInv, Agrees
    <2>a. obj \in Volume
        BY <1>1 DEF IInv, TypeOK
    <2>4. CASE ~obj.deleting /\ o.deleting
        <3>1. o.finalizers = obj.finalizers /\ o.target = obj.target /\ UNCHANGED inNode
            BY <2>4 DEF NewVersion
        <3>2. held' = held /\ (held <=> obj' = o) /\ (~held <=> obj' = None)
            BY <1>1, <2>1, <2>2, <2>3, <2>4, <3>1 DEF IInv, TypeOK, VersionInv, Agrees
        <3>3. C!Live
            BY <1>1, <2>4 DEF C!Live, phase
        <3>4. IF held THEN phase' = "deleting" /\ place' = place
                      ELSE phase' = "gone" /\ place' = None
            BY <1>1, <2>2, <2>4, <3>1, <3>2 DEF phase, place
        <3>5. C!Delete
            BY <3>1, <3>2, <3>3, <3>4 DEF C!Delete
        <3> QED
            BY <1>0, <3>5 DEF Kept, C!Next
    <2>5. CASE obj.deleting /\ obj' = None
        <3>1. inNode' = {} /\ held' = held
            BY <2>1, <2>2, <2>3, <2>5, Zenon DEF NewVersion, IInv, TypeOK
        <3>2. phase = "deleting" /\ phase' = "gone" /\ place' = None
            BY <1>1, <2>5 DEF phase, place
        <3>3. C!Vanish
            BY <3>1, <3>2 DEF C!Vanish
        <3> QED
            BY <1>0, <3>3 DEF Kept, C!Next
    <2>6. CASE (obj.deleting <=> o.deleting) /\ obj' # None
        <3>1. obj' = o /\ place = obj.target /\ place' = o.target
            BY <1>1, <2>2, <2>6 DEF place
        <3>2. (obj.status = "ready" <=> o.status = "ready") \/ obj.deleting => phase' = phase
            BY <1>1, <2>6, <3>1 DEF phase
        <3>3. phase \in {"requested", "ready", "deleting"} /\ (phase = "deleting" <=> obj.deleting)
            BY <1>1 DEF phase
        <3>4. CASE ~held /\ held'
            <4>1. o.target = obj.target /\ o.target # None /\ ~obj.deleting
                BY <2>1, <2>3, <3>4, Zenon DEF NewVersion
            <4>2. inNode = {place} /\ inNode' = {place}
                BY <1>0, <1>1, <3>1, <4>1 DEF IInv, StateInv, StateAfter
            <4>3. phase' = phase /\ phase \in {"requested", "ready"}
                BY <3>2, <3>3, <3>4, <4>1 DEF NewVersion
            <4>4. C!Admit
                BY <3>1, <3>4, <4>1, <4>2, <4>3, <1>0 DEF C!Admit, IInv, TypeOK
            <4> QED
                BY <1>0, <4>4 DEF Kept, C!Next
        <3>5. CASE held' = held /\ o.status = "ready" /\ obj.status # "ready" /\ ~obj.deleting
            <4>1. held /\ o.target = obj.target /\ o.target # None /\ UNCHANGED inNode
                BY <3>5 DEF NewVersion
            <4>2. inNode = {place}
                BY <1>1, <3>1, <3>5, <4>1 DEF IInv, StateInv
            <4>3. phase = "requested" /\ phase' = "ready"
                BY <1>1, <2>6, <3>1, <3>5 DEF phase
            <4>4. C!Activate
                BY <3>1, <3>5, <4>1, <4>2, <4>3 DEF C!Activate
            <4> QED
                BY <1>0, <4>4 DEF Kept, C!Next
        <3>6. CASE /\ held' = held
                   /\ (obj.status = "ready" <=> o.status = "ready") \/ obj.deleting
            <4>1. UNCHANGED <<phase, held>>
                BY <3>2, <3>6
            <4>2. CASE UNCHANGED <<inNode, volIDMap>> /\ o.target = obj.target
                BY <1>0, <3>1, <4>1, <4>2 DEF Kept, C!vars
            <4>3. CASE UNCHANGED <<inNode, volIDMap>> /\ o.target # obj.target
                <5>1. obj.target = None /\ o.target = volIDMap /\ volIDMap \in Nodes
                    BY <4>3 DEF NewVersion, IInv, TypeOK
                <5>2. inNode = {volIDMap}
                    BY <5>1 DEF IInv, StateInv
                <5>3. C!Take(volIDMap)
                    BY <3>1, <3>3, <4>1, <4>3, <5>1, <5>2 DEF C!Take
                <5> QED
                    BY <1>0, <5>1, <5>3 DEF Kept, C!Next
            <4>4. ASSUME NEW n \in Nodes, Claimed(n), Bind(n)
                  PROVE  Kept
                <5>1. /\ inNode \subseteq {n} /\ inNode' = {n}
                      /\ place \in {None, n} /\ (place' = place \/ place' = n)
                    BY <1>1, <3>1, <4>4 DEF Claimed, Bind, IInv, StateInv, NewVersion
                <5>2. C!Take(n)
                    BY <3>3, <4>1, <5>1 DEF C!Take
                <5> QED
                    BY <1>0, <5>2 DEF Kept, C!Next
            <4>5. CASE cache # None /\ cache.deleting /\ UnbindAntstorVolume
                <5>1. inNode' = {} /\ volIDMap' = None
                    BY <4>5 DEF UnbindAntstorVolume, IInv, StateInv
                <5>2. obj.deleting
                    BY <1>1, <4>5 DEF IInv, VersionInv, Agrees
                <5>3. C!Forget
                    BY <3>1, <3>3, <4>1, <5>1, <5>2 DEF C!Forget, C!Live, NewVersion
                <5> QED
                    BY <1>0, <5>3 DEF Kept, C!Next
            <4> QED
                BY <4>2, <4>3, <4>4, <4>5 DEF StateStep
        <3>7. held' \in BOOLEAN /\ held \in BOOLEAN /\ (held => held')
            BY <1>0, <2>1 DEF IInv, TypeOK
        <3> QED
            BY <3>4, <3>5, <3>6, <3>7 DEF NewVersion
    <2> QED
        BY <2>2, <2>4, <2>5, <2>6 DEF NewVersion
<1> QED
    BY <1>2, <1>3

-----------------------------------------------------------------------------
(* The versions that the steps write. *)

LEMMA StatusType ==
    ASSUME NEW x \in Volume
    PROVE  /\ [x EXCEPT !.uuidLabel = TRUE] \in Volume
           /\ [x EXCEPT !.status = "creating"] \in Volume
           /\ [x EXCEPT !.status = "ready"] \in Volume
BY Zenon DEF Volume

LEMMA MarkType ==
    ASSUME NEW x \in Volume
    PROVE  /\ [x EXCEPT !.deleting = TRUE] \in Volume
           /\ [x EXCEPT !.flexible = FALSE] \in Volume
BY Zenon DEF Volume

LEMMA TargetType ==
    ASSUME NEW x \in Volume, NEW n \in Nodes \cup {None}
    PROVE  /\ [x EXCEPT !.target = n] \in Volume
           /\ [x EXCEPT !.target = n, !.targetLabel = TRUE] \in Volume
BY Zenon DEF Volume

LEMMA FinalizersType ==
    ASSUME NEW x \in Volume, NEW F \in SUBSET Finalizers
    PROVE  /\ [x EXCEPT !.finalizers = F] \in Volume
           /\ [x EXCEPT !.targetLabel = TRUE, !.finalizers = F] \in Volume
           /\ [x EXCEPT !.spdkTarget = TRUE, !.finalizers = F] \in Volume
BY Zenon DEF Volume

(* A write that leaves the target, the deletion mark and the finalizers. *)
LEMMA SameVersion ==
    ASSUME IInv, obj # None, NEW o \in Volume,
           o.target = obj.target, o.deleting <=> obj.deleting,
           o.finalizers = obj.finalizers,
           o.status = "ready" <=> obj.status = "ready",
           StateAfter
    PROVE  NewVersion(o)
BY DEF IInv, StateAfter, VersionInv, ObjInv, Agrees, NewVersion

LEMMA AddUuidLabelKeeps ==
    ASSUME IInv, cache # None, AddUuidLabel
    PROVE  Kept
<1> USE LifecycleAssumption
<1>1. Frame /\ StateStep /\ (created \/ UNCHANGED volIDMap)
    BY DEF AddUuidLabel, Frame, StateStep, untouched, state, pools, storage, IInv, TypeOK
<1>2. CASE Refused
    BY <1>1, <1>2, NoWriteStep DEF Refused
<1>3. CASE obj # None /\ Publish([obj EXCEPT !.uuidLabel = TRUE])
    <2> DEFINE o == [obj EXCEPT !.uuidLabel = TRUE]
    <2>1. obj \in Volume /\ o \in Volume
        BY <1>3, StatusType, Zenon DEF IInv, TypeOK
    <2>2. /\ o.target = obj.target /\ o.deleting = obj.deleting
          /\ o.finalizers = obj.finalizers /\ o.status = obj.status
        BY <2>1, Zenon DEF Volume
    <2>3. NewVersion(o)
        BY <1>1, <1>3, <2>1, <2>2, StateKept, SameVersion, Zenon
    <2> QED
        BY <1>1, <1>3, <2>1, <2>3, WriteStep
<1> QED
    BY <1>2, <1>3 DEF AddUuidLabel, Patch

LEMMA InitStatusKeeps ==
    ASSUME IInv, cache # None, InitStatus
    PROVE  Kept
<1> USE LifecycleAssumption
<1>1. Frame /\ StateStep /\ (created \/ UNCHANGED volIDMap)
    BY Zenon DEF InitStatus, Frame, StateStep, untouched, state, pools, storage, IInv, TypeOK
<1>2. CASE Refused
    BY <1>1, <1>2, NoWriteStep DEF Refused
<1>3. CASE obj = cache /\ Publish([obj EXCEPT !.status = "creating"])
    <2> DEFINE o == [obj EXCEPT !.status = "creating"]
    <2>1. obj \in Volume /\ o \in Volume
        BY <1>3, StatusType, Zenon DEF IInv, TypeOK
    <2>2. /\ o.target = obj.target /\ o.deleting = obj.deleting
          /\ o.finalizers = obj.finalizers /\ o.status = "creating"
        BY <2>1, Zenon DEF Volume
    <2>3. obj.status # "ready"
        BY <1>3, Zenon DEF InitStatus
    <2>4. NewVersion(o)
        BY <1>1, <1>3, <2>1, <2>2, <2>3, StateKept, SameVersion, Zenon
    <2> QED
        BY <1>1, <1>3, <2>1, <2>4, WriteStep
<1> QED
    BY <1>2, <1>3, Zenon DEF InitStatus, Update

LEMMA BindTargetKeeps ==
    ASSUME IInv, cache # None, BindTarget
    PROVE  Kept
<1> USE LifecycleAssumption
<1> DEFINE n == cache.target
           F == IF "in-state" \in cache.finalizers THEN obj.finalizers
                ELSE cache.finalizers \cup {"in-state"}
           o == [obj EXCEPT !.targetLabel = TRUE, !.finalizers = F]
<1>0. cache \in Volume /\ n \in Nodes /\ n # None
    BY Zenon DEF IInv, TypeOK, Volume, BindTarget
<1>1. Claimed(n)
    BY <1>0 DEF IInv, VersionInv, Agrees, Bound, SameTarget, Claimed
<1>2. Frame /\ StateStep /\ created
    BY <1>0, <1>1, Zenon
       DEF BindTarget, Validated, Frame, StateStep, untouched, pools, storage, IInv, TypeOK, ObjInv
<1>3. CASE Refused
    BY <1>2, <1>3, NoWriteStep DEF Refused
<1>4. CASE obj # None /\ Publish(o)
    <2>1. obj \in Volume /\ F \subseteq Finalizers
        BY <1>0, <1>4, Zenon DEF IInv, TypeOK, Volume, Finalizers
    <2>2. o \in Volume
        BY <2>1, FinalizersType, Zenon
    <2>3. /\ o.target = obj.target /\ o.deleting = obj.deleting
          /\ o.finalizers = F /\ o.status = obj.status
        BY <2>1, Zenon DEF Volume
    <2>4. obj.target = n /\ volIDMap' = n
        BY <1>0, <1>4 DEF IInv, VersionInv, Agrees, BindTarget, Bind
    <2>5. F # {} => "in-state" \in F
        BY <1>4 DEF IInv, VersionInv, Agrees
    <2>6. held => "in-state" \in F
        BY <1>4 DEF IInv, ObjInv
    <2>7. (obj.status = "ready" => held) /\ (obj.deleting => held)
        BY <1>4 DEF IInv, ObjInv, VersionInv, Agrees
    <2> HIDE DEF F, o
    <2>8. NewVersion(o)
        BY <1>0, <1>4, <2>3, <2>4, <2>5, <2>6, <2>7 DEF NewVersion
    <2> QED
        BY <1>2, <1>4, <2>2, <2>8, WriteStep
<1> QED
    BY <1>3, <1>4 DEF BindTarget, Patch

LEMMA PersistBindingKeeps ==
    ASSUME IInv, cache # None, PersistBinding
    PROVE  Kept
<1> USE LifecycleAssumption
<1>1. Frame /\ StateStep /\ (created \/ UNCHANGED volIDMap)
    BY DEF PersistBinding, Frame, StateStep, untouched, state, pools, storage, IInv, TypeOK
<1>2. CASE Refused
    BY <1>1, <1>2, NoWriteStep DEF Refused
<1>3. CASE obj = cache /\ Publish([obj EXCEPT !.target = volIDMap])
    <2> DEFINE o == [obj EXCEPT !.target = volIDMap]
    <2>1. obj \in Volume /\ o \in Volume /\ volIDMap \in Nodes
        BY <1>3, TargetType, Zenon DEF IInv, TypeOK, PersistBinding
    <2>2. /\ o.target = volIDMap /\ o.deleting = obj.deleting
          /\ o.finalizers = obj.finalizers /\ o.status = obj.status
        BY <2>1, Zenon DEF Volume
    <2>3. volIDMap' = volIDMap /\ obj.target = None /\ volIDMap # None
        BY <1>3 DEF PersistBinding, state
    <2>4. NewVersion(o)
        BY <1>3, <2>2, <2>3 DEF NewVersion, IInv, VersionInv, ObjInv, Agrees
    <2> QED
        BY <1>1, <1>3, <2>1, <2>4, WriteStep
<1> QED
    BY <1>2, <1>3 DEF PersistBinding, Update

(* A volume that the controller schedules has no target yet, however old the
   version is that it looks at: else the State would hold it. *)
LEMMA ScheduledOnce ==
    ASSUME IInv, cache # None, NEW n \in Nodes, Schedule(n), obj # None
    PROVE  obj.target = None
<1>0. ~cache.deleting /\ cache.target = None /\ volIDMap = None
    BY Zenon DEF Schedule, Validated
<1>1. CASE feed = <<>>
    BY <1>0, <1>1 DEF IInv, FeedInv
<1>2. CASE feed # <<>>
    BY <1>0, <1>2, LenFacts DEF IInv, TypeOK, FeedInv, StateInv
<1> QED
    BY <1>1, <1>2

LEMMA ScheduleKeeps ==
    ASSUME IInv, cache # None, NEW n \in Nodes, Schedule(n)
    PROVE  Kept
<1> USE LifecycleAssumption
<1>0. ~cache.deleting /\ cache.target = None /\ volIDMap = None
    BY Zenon DEF Schedule, Validated
<1>a. obj # None => obj.target = None
    BY ScheduledOnce
<1>1. Claimed(n)
    BY <1>0, <1>a DEF IInv, StateInv, Claimed
<1>2. Frame /\ StateStep /\ created
    BY <1>0, <1>1 DEF Schedule, Frame, StateStep, untouched, pools, storage, IInv, TypeOK, ObjInv
<1>3. CASE Refused
    BY <1>2, <1>3, NoWriteStep DEF Refused
<1>4. CASE obj # None /\ Publish([obj EXCEPT !.target = n, !.targetLabel = TRUE])
    <2> DEFINE o == [obj EXCEPT !.target = n, !.targetLabel = TRUE]
    <2>1. obj \in Volume /\ o \in Volume
        BY <1>4, TargetType, Zenon DEF IInv, TypeOK
    <2>2. /\ o.target = n /\ o.deleting = obj.deleting
          /\ o.finalizers = obj.finalizers /\ o.status = obj.status
        BY <2>1, Zenon DEF Volume
    <2>3. volIDMap' = n /\ n # None
        BY DEF Schedule, Bind
    <2>4. NewVersion(o)
        BY <1>4, <1>a, <2>2, <2>3 DEF NewVersion, IInv, VersionInv, ObjInv, Agrees
    <2> QED
        BY <1>2, <1>4, <2>1, <2>4, WriteStep
<1> QED
    BY <1>3, <1>4 DEF Schedule, Patch

LEMMA FinishDeletionKeeps ==
    ASSUME IInv, cache # None, FinishDeletion
    PROVE  Kept
<1> USE LifecycleAssumption
<1>1. Frame /\ StateStep /\ created
    BY DEF FinishDeletion, Frame, StateStep, untouched, pools, storage, IInv, TypeOK, ObjInv
<1>2. CASE Refused
    BY <1>1, <1>2, NoWriteStep DEF Refused
<1>3. CASE obj = cache /\ Publish([obj EXCEPT !.finalizers = {}])
    <2> DEFINE o == [obj EXCEPT !.finalizers = {}]
    <2>1. obj \in Volume /\ o \in Volume
        BY <1>3, FinalizersType, Zenon DEF IInv, TypeOK
    <2>2. /\ o.target = obj.target /\ o.deleting = obj.deleting
          /\ o.finalizers = {} /\ o.status = obj.status
        BY <2>1, Zenon DEF Volume
    <2>3. obj.deleting /\ inNode' = {}
        BY <1>3 DEF FinishDeletion, UnbindAntstorVolume, IInv, StateInv
    <2>4. NewVersion(o)
        BY <1>3, <2>2, <2>3 DEF NewVersion, IInv, ObjInv, Deleted
    <2> QED
        BY <1>1, <1>3, <2>1, <2>4, WriteStep
<1> QED
    BY <1>2, <1>3 DEF FinishDeletion, Update

LEMMA StripFinalizersKeeps ==
    ASSUME IInv, cache # None, StripFinalizers
    PROVE  Kept
<1> USE LifecycleAssumption
<1> DEFINE F == obj.finalizers \ {"lvm", "spdk-tgt"}
           o == [obj EXCEPT !.finalizers = F]
<1>1. Frame /\ StateStep /\ (created \/ UNCHANGED volIDMap)
    BY DEF StripFinalizers, Frame, StateStep, untouched, state, pools, storage, IInv, TypeOK
<1>2. CASE Refused
    BY <1>1, <1>2, NoWriteStep DEF Refused
<1>3. CASE obj = cache /\ Publish(o)
    <2>1. obj \in Volume /\ F \subseteq Finalizers
        BY <1>3, Zenon DEF IInv, TypeOK, Volume
    <2>2. o \in Volume
        BY <2>1, FinalizersType, Zenon
    <2>3. /\ o.target = obj.target /\ o.deleting = obj.deleting
          /\ o.finalizers = F /\ o.status = obj.status
        BY <2>1, Zenon DEF Volume
    <2>4. obj.deleting /\ held /\ "in-state" \in F
        BY <1>3 DEF StripFinalizers, IInv, ObjInv, VersionInv, Agrees
    <2> HIDE DEF F, o
    <2>5. NewVersion(o)
        BY <1>3, <2>3, <2>4 DEF NewVersion, IInv, ObjInv
    <2> QED
        BY <1>1, <1>3, <2>2, <2>5, WriteStep
<1> QED
    BY <1>2, <1>3 DEF StripFinalizers, Update

LEMMA DeleteKeeps ==
    ASSUME IInv, Delete
    PROVE  Kept
<1> USE LifecycleAssumption
<1> DEFINE o == [obj EXCEPT !.deleting = TRUE]
<1>1. Frame /\ StateStep
    BY DEF Delete, Frame, StateStep, state, pools, storage, IInv, TypeOK
<1>2. obj \in Volume /\ o \in Volume
    BY MarkType, Zenon DEF IInv, TypeOK, Delete
<1>3. /\ o.target = obj.target /\ o.deleting
      /\ o.finalizers = obj.finalizers /\ o.status = obj.status
    BY <1>2, Zenon DEF Volume
<1>4. NewVersion(o)
    BY <1>3 DEF NewVersion, IInv, ObjInv, VersionInv, Agrees, Delete, state
<1> QED
    BY <1>1, <1>2, <1>4, WriteStep DEF Delete

LEMMA CreateKeeps ==
    ASSUME IInv, NEW o \in NewVolumes, Create(o)
    PROVE  Kept
<1> USE LifecycleAssumption
<1>0. PICK u, f \in BOOLEAN : o = NewVolume(u, f)
    BY LifecycleAssumption
<1>1. o \in Volume /\ o # None
    <2>1. None \in Nodes \cup {None} /\ {} \in SUBSET Finalizers /\ FALSE \in BOOLEAN
        OBVIOUS
    <2>2. [uuidLabel |-> u, status |-> "", target |-> None, targetLabel |-> FALSE,
           flexible |-> f, spdkTarget |-> FALSE, finalizers |-> {}, deleting |-> FALSE] \in Volume
        BY <2>1, Zenon DEF Volume
    <2> QED
        BY <1>0, <2>2, Zenon DEF NewVolume
<1>2. /\ ~o.deleting /\ o.target = None /\ o.finalizers = {} /\ o.status = ""
    BY <1>0, Zenon DEF NewVolume
<1>3. /\ obj = None /\ cache = None /\ feed = <<>> /\ volIDMap = None
      /\ ~held /\ \A n \in Nodes : agt[n] = Resting
      /\ lv = {} /\ inNode = {}
    BY DEF IInv, ObjInv, Create, AgentInv, StateInv
<1>4. Settle(o) = o
    BY <1>2, Zenon DEF Settle
<1>5. /\ obj' = o /\ feed' = Append(feed, o) /\ created' = TRUE
      /\ held' = (held \/ "in-state" \in o.finalizers)
    BY <1>1, <1>3, <1>4 DEF Create, Publish
<1>a. ~held'
    BY <1>2, <1>3, <1>5, Zenon
<1>6. /\ UNCHANGED <<aged, cache, inNode, volIDMap, ready, down, agt, lv, access, faults>>
    BY DEF Create, state, pools, storage
<1>7. Len(feed') = 1 /\ feed'[1] = o /\ feed' \in Seq(Volume \cup {None}) /\ feed' # <<>>
    BY <1>1, <1>3, <1>5, AppendFacts
<1>8. TypeOK'
    BY <1>1, <1>3, <1>5, <1>6, <1>7 DEF IInv, TypeOK
<1>b. \A i \in 1..Len(feed') : i = 1 /\ feed'[i] = o
    BY <1>7
<1>9. FeedInv'
    BY <1>1, <1>2, <1>3, <1>5, <1>6, <1>7, <1>b, Zenon DEF FeedInv, Deleted
<1>10. VersionInv'
    BY <1>1, <1>2, <1>3, <1>5, <1>6, <1>7, <1>b, Zenon DEF VersionInv, Agrees, Bound, SameTarget
<1>11. StateInv' /\ AgentInv'
    <2>1. StateInv'
        BY <1>1, <1>2, <1>3, <1>5, <1>6, <1>b, Zenon DEF StateInv
    <2>2. \A n \in Nodes : agt'[n].pc = "idle"
        BY <1>3, <1>6 DEF Resting
    <2>3. AgentInv'
        BY <1>3, <1>6, <2>2, Zenon DEF AgentInv
    <2> QED
        BY <2>1, <2>3
<1>12. ObjInv'
    BY <1>1, <1>2, <1>3, <1>5, <1>a, <1>6, <1>7, Zenon DEF ObjInv
<1>13. C!Request
    <2>1. phase = "absent" /\ phase' = "requested" /\ place = None /\ place' = None
        BY <1>1, <1>2, <1>3, <1>5, Zenon DEF Create, phase, place
    <2>2. UNCHANGED <<inNode, held>>
        BY <1>3, <1>5, <1>6, <1>a, Zenon DEF IInv, TypeOK
    <2> QED
        BY <2>1, <2>2 DEF C!Request
<1> QED
    BY <1>8, <1>9, <1>10, <1>11, <1>12, <1>13 DEF IInv, Kept, C!Next

LEMMA DeliverKeeps ==
    ASSUME IInv, Deliver
    PROVE  Kept
<1> USE LifecycleAssumption
<1>0. feed \in Seq(Volume \cup {None}) /\ feed # <<>>
    BY DEF IInv, TypeOK, Deliver
<1>1. /\ cache' = feed[1] /\ cache' \in Volume \cup {None}
      /\ feed' \in Seq(Volume \cup {None})
      /\ Len(feed) \in Nat /\ Len(feed) > 0
      /\ Len(feed') = Len(feed) - 1
      /\ \A i \in 1..Len(feed') : feed'[i] = feed[i + 1]
    BY <1>0, TailFacts DEF Deliver
<1>2. /\ 1 \in 1..Len(feed)
      /\ \A i \in 1..Len(feed') : i + 1 \in 1..Len(feed) /\ 1 < i + 1
      /\ feed' = <<>> => Len(feed) = 1
      /\ feed' # <<>> => Len(feed') \in 1..Len(feed') /\ Len(feed') + 1 = Len(feed)
    BY <1>1, LenFacts
<1>3. UNCHANGED <<obj, created, aged, held, inNode, volIDMap, ready, down, agt, lv, access, faults>>
    BY DEF Deliver, api, state, pools, storage
<1>4. TypeOK'
    BY <1>1, <1>3 DEF IInv, TypeOK
<1>5. FeedInv'
    <2> USE DEF IInv, FeedInv
    <2>1. (feed = <<>> => cache = obj)' /\ (feed # <<>> => feed[Len(feed)] = obj)'
        BY <1>0, <1>1, <1>2, <1>3
    <2>2. (\A i \in 1..Len(feed) : feed[i] = None => i = Len(feed))'
        BY <1>0, <1>1, <1>2, <1>3
    <2>3. (\A i, j \in 1..Len(feed) : i < j /\ Deleted(feed[i]) => Deleted(feed[j]))'
        <3> SUFFICES ASSUME NEW i \in 1..Len(feed'), NEW j \in 1..Len(feed'), i < j,
                            Deleted(feed[i + 1])
                     PROVE  Deleted(feed[j + 1])
            BY <1>1 DEF Deleted
        <3>1. i + 1 \in 1..Len(feed) /\ j + 1 \in 1..Len(feed) /\ i + 1 < j + 1
            BY <1>1, <1>2
        <3> QED
            BY <3>1
    <2>4. (cache # None /\ cache.deleting => \A i \in 1..Len(feed) : Deleted(feed[i]))'
        <3> SUFFICES ASSUME feed[1] # None, feed[1].deleting, NEW i \in 1..Len(feed')
                     PROVE  Deleted(feed[i + 1])
            BY <1>1 DEF Deleted
        <3>1. Deleted(feed[1]) /\ 1 \in 1..Len(feed) /\ i + 1 \in 1..Len(feed) /\ 1 < i + 1
            BY <1>1, <1>2 DEF Deleted
        <3> QED
            BY <3>1
    <2> QED
        BY <2>1, <2>2, <2>3, <2>4
<1>6. VersionInv'
    <2> USE DEF IInv, VersionInv
    <2>1. Agrees(cache)' /\ Agrees(obj)' /\ \A i \in 1..Len(feed') : Agrees(feed[i])'
        BY <1>1, <1>2, <1>3 DEF Agrees
    <2>2. Bound(cache)' /\ Bound(obj)' /\ \A i \in 1..Len(feed') : Bound(feed[i])'
        BY <1>1, <1>2, <1>3 DEF Bound
    <2>3. \A i \in 1..Len(feed') : SameTarget(cache, feed[i])'
        BY <1>1, <1>2, SMTT(30) DEF SameTarget
    <2>4. \A i, j \in 1..Len(feed') : SameTarget(feed[i], feed[j])'
        <3> SUFFICES ASSUME NEW i \in 1..Len(feed'), NEW j \in 1..Len(feed')
                     PROVE  SameTarget(feed[i + 1], feed[j + 1])
            BY <1>1 DEF SameTarget
        <3> QED
            BY <1>2
    <2> QED
        BY <2>1, <2>2, <2>3, <2>4
<1>7. StateInv'
    <2>1. (inNode = IF volIDMap = None THEN {} ELSE {volIDMap})'
        BY <1>3, Zenon DEF IInv, StateInv
    <2>2. (obj # None /\ ~obj.deleting /\ obj.target # None => volIDMap = obj.target)'
        BY <1>3, Zenon DEF IInv, StateInv
    <2>3. ASSUME feed[1] = None \/ ~feed[1].deleting,
                 NEW i \in 1..Len(feed'), feed[i + 1] # None, feed[i + 1].target # None
          PROVE  volIDMap # None
        <3>1. i + 1 \in 1..Len(feed) /\ 1 \in 1..Len(feed) /\ 1 # Len(feed)
            BY <1>1, <1>2
        <3>2. feed[1] # None
            BY <3>1, Zenon DEF IInv, FeedInv
        <3>3. cache = None \/ ~cache.deleting
            BY <2>3, <3>1, <3>2, Zenon DEF IInv, FeedInv, Deleted
        <3> QED
            BY <2>3, <3>1, <3>3, Zenon DEF IInv, StateInv
    <2>4. (cache = None \/ ~cache.deleting =>
             \A i \in 1..Len(feed) : feed[i] # None /\ feed[i].target # None => volIDMap # None)'
        BY <1>1, <1>3, <2>3
    <2> QED
        BY <2>1, <2>2, <2>4, Zenon DEF StateInv
<1>8. ObjInv'
    <2>1. created /\ created'
        BY <1>0, <1>3 DEF IInv, ObjInv
    <2>2. obj = None /\ held => Deleted(feed[1])
        <3> SUFFICES ASSUME obj = None, held
                     PROVE  Deleted(feed[1])
            OBVIOUS
        <3>1. CASE cache # None
            BY <1>2, <3>1 DEF IInv, ObjInv, FeedInv, Deleted
        <3>2. CASE cache = None
            BY <1>0, <3>2 DEF IInv, ObjInv
        <3> QED
            BY <3>1, <3>2
    <2>3. feed[1] = None /\ feed' # <<>> => FALSE
        BY <1>0, <1>1, <1>2 DEF IInv, FeedInv
    <2> QED
        BY <1>1, <1>3, <2>1, <2>2, <2>3 DEF IInv, ObjInv, Deleted
<1>9. AgentInv'
    BY <1>3 DEF IInv, AgentInv
<1>a. UNCHANGED C!vars
    BY <1>3 DEF C!vars, phase, place
<1> QED
    BY <1>4, <1>5, <1>6, <1>7, <1>8, <1>9, <1>a DEF IInv, Kept

LEMMA RestartKeeps ==
    ASSUME IInv, RestartController
    PROVE  Kept
<1> USE LifecycleAssumption
<1>1. /\ UNCHANGED <<obj, created, aged, held, ready, down, agt, lv, access>>
      /\ cache' = obj /\ feed' = <<>> /\ faults' \in 0..MaxFaults
    BY DEF RestartController, api, pools, storage, IInv, TypeOK
<1>2. Len(feed') = 0 /\ feed' \in Seq(Volume \cup {None})
    BY <1>1
<1>3. /\ obj # None /\ obj.target # None /\ ~obj.deleting =>
            inNode' = {obj.target} /\ volIDMap' = obj.target
      /\ ~(obj # None /\ obj.target # None /\ ~obj.deleting) => inNode' = {} /\ volIDMap' = None
    BY DEF RestartController
<1>4. obj # None => obj.target \in Nodes \cup {None}
    BY Zenon DEF IInv, TypeOK, Volume
<1>5. TypeOK'
    BY <1>1, <1>2, <1>3, <1>4 DEF IInv, TypeOK
<1>6. FeedInv' /\ VersionInv'
    <2>1. FeedInv'
        BY <1>1, <1>2 DEF FeedInv
    <2>2. Agrees(obj)' /\ Bound(obj)'
        BY <1>1, <1>3, Zenon DEF IInv, VersionInv, Agrees, Bound
    <2>3. VersionInv'
        BY <1>1, <1>2, <2>2 DEF VersionInv, Agrees, Bound
    <2> QED
        BY <2>1, <2>3
<1>7. StateInv' /\ AgentInv'
    <2>1. AgentInv'
        BY <1>1, Zenon DEF IInv, AgentInv
    <2>2. (inNode = IF volIDMap = None THEN {} ELSE {volIDMap})'
        BY <1>3
    <2>3. \A i \in 1..Len(feed') : FALSE
        BY <1>2
    <2>4. (obj # None /\ ~obj.deleting /\ obj.target # None => volIDMap = obj.target)'
        BY <1>1, <1>3, Zenon
    <2>5. StateInv'
        BY <2>2, <2>3, <2>4, Zenon DEF StateInv
    <2> QED
        BY <2>1, <2>5
<1>8. ObjInv'
    BY <1>1, <1>3 DEF IInv, ObjInv, Deleted
<1>9. [C!Next]_(C!vars)
    <2>1. UNCHANGED <<phase, place, held>>
        BY <1>1 DEF phase, place
    <2>2. CASE obj # None /\ obj.target # None /\ ~obj.deleting
        BY <1>3, <2>1, <2>2 DEF C!vars, IInv, StateInv
    <2>3. CASE ~(obj # None /\ obj.target # None /\ ~obj.deleting)
        <3>1. place = None \/ ~C!Live
            BY <2>3 DEF C!Live, phase, place
        <3>2. C!Forget
            BY <1>3, <2>1, <2>3, <3>1 DEF C!Forget
        <3> QED
            BY <3>2 DEF C!Next
    <2> QED
        BY <2>2, <2>3
<1> QED
    BY <1>5, <1>6, <1>7, <1>8, <1>9 DEF IInv, Kept

-----------------------------------------------------------------------------
(* The agents. *)

(* Nothing that the invariant relates to an agent's copy moves. *)
LEMMA AgentKept ==
    ASSUME IInv,
           UNCHANGED <<obj, created, aged, held, cache, feed, inNode, volIDMap>>,
           ready' \subseteq Nodes, down' \subseteq Nodes,
           access' \subseteq Nodes, faults' \in 0..MaxFaults,
           agt' \in [Nodes -> [pc : {"idle", "act", "write"}, copy : Volume \cup {None}]],
           created \/ agt' = agt,
           \A n \in Nodes : agt'[n].pc # "idle" =>
               /\ agt'[n].copy # None /\ agt'[n].copy.target = n
               /\ obj # None => obj.target = n,
           lv' \subseteq Nodes, lv' # {} => created,
           obj # None => lv' \subseteq {obj.target}
    PROVE  Kept
<1>1. TypeOK'
    BY DEF IInv, TypeOK
<1>2. FeedInv' /\ VersionInv'
    BY DEF IInv, FeedInv, VersionInv, Agrees, Bound, SameTarget, Deleted
<1>3. StateInv' /\ ObjInv'
    BY DEF IInv, StateInv, ObjInv, Deleted
<1>4. AgentInv'
    BY DEF AgentInv
<1>a. UNCHANGED C!vars
    BY DEF C!vars, phase, place
<1> QED
    BY <1>1, <1>2, <1>3, <1>4, <1>a DEF IInv, Kept

LEMMA SyncGetKeeps ==
    ASSUME IInv, NEW n \in Nodes, SyncGet(n)
    PROVE  Kept
<1>1. /\ UNCHANGED <<obj, created, aged, held, cache, feed, inNode, volIDMap, ready, down,
                    lv, access, faults>>
      /\ obj # None /\ obj.target = n
      /\ agt' = [agt EXCEPT ![n] = [pc |-> "act", copy |-> obj]]
    BY DEF SyncGet, agentOnly, api, state, pools, storage
<1>2. agt' \in [Nodes -> [pc : {"idle", "act", "write"}, copy : Volume \cup {None}]]
    BY <1>1 DEF IInv, TypeOK
<1>3. \A m \in Nodes : agt'[m].pc # "idle" =>
          /\ agt'[m].copy # None /\ agt'[m].copy.target = m
          /\ obj # None => obj.target = m
    BY <1>1 DEF IInv, TypeOK, AgentInv
<1>4. created /\ lv \subseteq Nodes /\ (obj # None => lv \subseteq {obj.target})
    BY <1>1 DEF IInv, TypeOK, ObjInv, AgentInv
<1>5. /\ ready \subseteq Nodes /\ down \subseteq Nodes
      /\ access \subseteq Nodes /\ faults \in 0..MaxFaults
    BY DEF IInv, TypeOK
<1> QED
    BY <1>1, <1>2, <1>3, <1>4, <1>5, AgentKept

(* An agent's act on the storage of its node. *)
LEMMA ActKeeps ==
    ASSUME IInv, NEW n \in Nodes, NEW op, Acts(n, op),
           lv' \in {lv, lv \cup {n}, lv \ {n}}, access' \subseteq Nodes
    PROVE  Kept
<1>1. /\ UNCHANGED <<obj, created, aged, held, cache, feed, inNode, volIDMap, ready, down, faults>>
      /\ agt[n].pc = "act"
      /\ agt' = [agt EXCEPT ![n].pc = "write"]
    BY DEF Acts, agentOnly, api, state, pools
<1>2. agt' \in [Nodes -> [pc : {"idle", "act", "write"}, copy : Volume \cup {None}]]
    BY <1>1 DEF IInv, TypeOK
<1>3. \A m \in Nodes : agt'[m].pc # "idle" =>
          /\ agt'[m].copy # None /\ agt'[m].copy.target = m
          /\ obj # None => obj.target = m
    BY <1>1 DEF IInv, TypeOK, AgentInv
<1>4. agt[n] # Resting /\ created
    BY <1>1 DEF IInv, ObjInv, Resting
<1>5. lv' \subseteq Nodes /\ (obj # None => lv' \subseteq {obj.target})
    BY <1>1 DEF IInv, TypeOK, AgentInv
<1>6. /\ ready \subseteq Nodes /\ down \subseteq Nodes
      /\ access' \subseteq Nodes /\ faults \in 0..MaxFaults
    BY DEF IInv, TypeOK
<1> QED
    BY <1>1, <1>2, <1>3, <1>4, <1>5, <1>6, AgentKept

(* The agent gives up what it was doing, and nothing else happens to it. *)
LEMMA RestKeeps ==
    ASSUME IInv, NEW n \in Nodes, agt' = [agt EXCEPT ![n] = Resting] \/ agt' = agt,
           UNCHANGED <<obj, created, aged, held, cache, feed, inNode, volIDMap, lv, access>>,
           ready' \subseteq Nodes, down' \subseteq Nodes, faults' \in 0..MaxFaults
    PROVE  Kept
<1>1. agt' \in [Nodes -> [pc : {"idle", "act", "write"}, copy : Volume \cup {None}]]
    BY DEF IInv, TypeOK, Resting
<1>2. \A m \in Nodes : agt'[m].pc # "idle" =>
          /\ agt'[m].copy # None /\ agt'[m].copy.target = m
          /\ obj # None => obj.target = m
    BY DEF IInv, TypeOK, AgentInv, Resting
<1>3. created \/ agt' = agt
    BY DEF IInv, TypeOK, ObjInv, Resting
<1>4. /\ lv \subseteq Nodes /\ access \subseteq Nodes
      /\ lv # {} => created
      /\ obj # None => lv \subseteq {obj.target}
    BY DEF IInv, TypeOK, AgentInv
<1> QED
    BY <1>1, <1>2, <1>3, <1>4, AgentKept

(* What an agent writes: the placement stays and so does in-state, without
   which it writes nothing. *)
LEMMA IntentVersion ==
    ASSUME NEW n \in Nodes, NEW c \in Volume
    PROVE  /\ Intent(n, c) \in Volume
           /\ Intent(n, c).target = c.target
           /\ Intent(n, c).deleting <=> c.deleting
           /\ "in-state" \in c.finalizers => "in-state" \in Intent(n, c).finalizers
           /\ "in-state" \notin c.finalizers => Intent(n, c) = c
           /\ Intent(n, c).status = "ready" => c.status = "ready" \/ "in-state" \in c.finalizers
           /\ c.status = "ready" => Intent(n, c).status = "ready"
<1>1. "in-state" \notin c.finalizers => Plan(n, c) = "nothing"
    BY DEF Plan
<1>2. ASSUME NEW F \in SUBSET Finalizers
      PROVE  /\ [c EXCEPT !.finalizers = F] \in Volume
             /\ [c EXCEPT !.finalizers = F].target = c.target
             /\ [c EXCEPT !.finalizers = F].deleting = c.deleting
             /\ [c EXCEPT !.finalizers = F].status = c.status
             /\ [c EXCEPT !.finalizers = F].finalizers = F
    <2>1. [c EXCEPT !.finalizers = F] \in Volume
        BY FinalizersType, Zenon
    <2> QED
        BY <2>1, Zenon DEF Volume
<1>a. ASSUME NEW F \in SUBSET Finalizers
      PROVE  /\ [c EXCEPT !.spdkTarget = TRUE, !.finalizers = F] \in Volume
             /\ [c EXCEPT !.spdkTarget = TRUE, !.finalizers = F].target = c.target
             /\ [c EXCEPT !.spdkTarget = TRUE, !.finalizers = F].deleting = c.deleting
             /\ [c EXCEPT !.spdkTarget = TRUE, !.finalizers = F].status = c.status
             /\ [c EXCEPT !.spdkTarget = TRUE, !.finalizers = F].finalizers = F
    <2>1. [c EXCEPT !.spdkTarget = TRUE, !.finalizers = F] \in Volume
        BY FinalizersType, Zenon
    <2> QED
        BY <2>1, Zenon DEF Volume
<1>3. c.finalizers \subseteq Finalizers
    BY Zenon DEF Volume
<1>4. CASE Plan(n, c) = "removeAccess"
    <2>1. Intent(n, c) = [c EXCEPT !.finalizers = c.finalizers \ {"spdk-tgt"}]
        BY <1>4 DEF Intent
    <2>2. c.finalizers \ {"spdk-tgt"} \in SUBSET Finalizers
        BY <1>3
    <2> QED
        BY <1>1, <1>2, <1>4, <2>1, <2>2
<1>5. CASE Plan(n, c) = "deleteVolume"
    <2>1. Intent(n, c) = [c EXCEPT !.finalizers = c.finalizers \ {"logic-volume"}]
        BY <1>5 DEF Intent
    <2>2. c.finalizers \ {"logic-volume"} \in SUBSET Finalizers
        BY <1>3
    <2> QED
        BY <1>1, <1>2, <1>5, <2>1, <2>2
<1>6. CASE Plan(n, c) = "updateVolumeType"
    <2>1. Intent(n, c) = [c EXCEPT !.flexible = FALSE]
        BY <1>6 DEF Intent
    <2>2. Intent(n, c) \in Volume
        BY <2>1, MarkType, Zenon
    <2>3. /\ Intent(n, c).target = c.target /\ Intent(n, c).deleting = c.deleting
          /\ Intent(n, c).finalizers = c.finalizers /\ Intent(n, c).status = c.status
        BY <2>1, Zenon DEF Volume
    <2> QED
        BY <1>1, <1>6, <2>2, <2>3
<1>7. CASE Plan(n, c) = "createVolume"
    <2>1. Intent(n, c) = [c EXCEPT !.finalizers = c.finalizers \cup {"logic-volume"}]
        BY <1>7 DEF Intent
    <2>2. c.finalizers \cup {"logic-volume"} \in SUBSET Finalizers
        BY <1>3 DEF Finalizers
    <2> QED
        BY <1>1, <1>2, <1>7, <2>1, <2>2, SMTT(30)
<1>8. CASE Plan(n, c) = "createOpenAccess"
    <2>1. Intent(n, c) =
            [c EXCEPT !.spdkTarget = TRUE, !.finalizers = c.finalizers \cup {"spdk-tgt"}]
        BY <1>8 DEF Intent
    <2>2. c.finalizers \cup {"spdk-tgt"} \in SUBSET Finalizers
        BY <1>3 DEF Finalizers
    <2> QED
        BY <1>1, <1>a, <1>8, <2>1, <2>2, Zenon
<1>9. CASE Plan(n, c) = "setReady"
    <2>1. Intent(n, c) = [c EXCEPT !.status = "ready"]
        BY <1>9 DEF Intent
    <2>2. Intent(n, c) \in Volume
        BY <2>1, StatusType, Zenon
    <2>3. /\ Intent(n, c).target = c.target /\ Intent(n, c).deleting = c.deleting
          /\ Intent(n, c).finalizers = c.finalizers /\ Intent(n, c).status = "ready"
        BY <2>1, Zenon DEF Volume
    <2> QED
        BY <1>1, <1>9, <2>2, <2>3
<1>10. CASE Plan(n, c) \notin {"removeAccess", "deleteVolume", "updateVolumeType",
                               "createVolume", "createOpenAccess", "setReady"}
    <2>1. Intent(n, c) = c
        BY <1>10 DEF Intent
    <2> QED
        BY <2>1
<1> QED
    BY <1>4, <1>5, <1>6, <1>7, <1>8, <1>9, <1>10, Zenon

LEMMA SyncUpdateKeeps ==
    ASSUME IInv, NEW n \in Nodes, SyncUpdate(n)
    PROVE  Kept
<1>1. Frame /\ StateStep /\ (created \/ UNCHANGED volIDMap)
    BY DEF SyncUpdate, Frame, StateStep, state, pools, storage, IInv, TypeOK, Resting
<1>2. CASE Refused
    BY <1>1, <1>2, NoWriteStep DEF Refused
<1>3. CASE obj = agt[n].copy /\ Publish(Intent(n, obj))
    <2>1. obj \in Volume /\ obj # None /\ obj.target = n /\ n # None
        BY <1>3, LifecycleAssumption DEF IInv, TypeOK, AgentInv, SyncUpdate
    <2> DEFINE o == Intent(n, obj)
    <2>2. /\ o \in Volume
          /\ o.target = obj.target /\ (o.deleting <=> obj.deleting)
          /\ "in-state" \in obj.finalizers => "in-state" \in o.finalizers
          /\ "in-state" \notin obj.finalizers => o = obj
          /\ o.status = "ready" => obj.status = "ready" \/ "in-state" \in obj.finalizers
          /\ obj.status = "ready" => o.status = "ready"
        BY <2>1, IntentVersion
    <2> HIDE DEF o
    <2>3. volIDMap' = volIDMap /\ inNode' = inNode
        BY DEF SyncUpdate, state
    <2>4. NewVersion(o)
        BY <2>1, <2>2, <2>3 DEF NewVersion, IInv, VersionInv, StateInv, ObjInv, Agrees
    <2> QED
        BY <1>1, <1>3, <2>2, <2>4, WriteStep DEF o
<1> QED
    BY <1>2, <1>3 DEF SyncUpdate

-----------------------------------------------------------------------------
(* The invariant. *)

LEMMA InitIInv == Init => IInv
<1> SUFFICES ASSUME Init
             PROVE  IInv
    OBVIOUS
<1>1. TypeOK
    <2>1. feed \in Seq(Volume \cup {None}) /\ Len(feed) = 0
        BY DEF Init
    <2>2. agt \in [Nodes -> [pc : {"idle", "act", "write"}, copy : Volume \cup {None}]]
        BY DEF Init, Resting
    <2>3. \A n \in Nodes : agt[n].pc = "idle"
        BY DEF Init, Resting
    <2>4. created \in BOOLEAN /\ aged \in BOOLEAN /\ held \in BOOLEAN
        BY Zenon DEF Init
    <2>5. Len(feed) <= MaxLag /\ faults \in 0..MaxFaults
        BY <2>1, LifecycleAssumption DEF Init
    <2>6. /\ obj \in Volume \cup {None} /\ cache \in Volume \cup {None}
          /\ inNode \subseteq Nodes /\ volIDMap \in Nodes \cup {None}
          /\ ready \subseteq Nodes /\ down \subseteq Nodes
          /\ lv \subseteq Nodes /\ access \subseteq Nodes
        BY DEF Init
    <2> QED
        BY <2>1, <2>2, <2>3, <2>4, <2>5, <2>6 DEF TypeOK
<1>2. FeedInv
    BY DEF Init, FeedInv
<1>3. VersionInv
    BY DEF Init, VersionInv, Agrees, Bound
<1>4. StateInv /\ ObjInv
    BY DEF Init, StateInv, ObjInv, Deleted, Resting
<1>5. AgentInv
    BY DEF Init, AgentInv, Resting
<1> QED
    BY <1>1, <1>2, <1>3, <1>4, <1>5 DEF IInv

LEMMA AgeKeeps ==
    ASSUME IInv, aged' = TRUE,
           UNCHANGED <<obj, created, held, cache, feed, inNode, volIDMap, ready, down, agt, lv,
                       access, faults>>
    PROVE  Kept
<1>1. TypeOK'
    BY DEF IInv, TypeOK
<1>2. FeedInv' /\ VersionInv'
    BY DEF IInv, FeedInv, VersionInv, Agrees, Bound, SameTarget, Deleted
<1>3. StateInv' /\ ObjInv' /\ AgentInv'
    BY DEF IInv, StateInv, ObjInv, AgentInv, Deleted
<1>a. UNCHANGED C!vars
    BY Zenon DEF C!vars, phase, place
<1> QED
    BY <1>1, <1>2, <1>3, <1>a DEF IInv, Kept

LEMMA ReconcileKeeps ==
    ASSUME IInv, Reconcile
    PROVE  Kept
BY AddUuidLabelKeeps, InitStatusKeeps, BindTargetKeeps, PersistBindingKeeps, ScheduleKeeps,
   FinishDeletionKeeps, StripFinalizersKeeps DEF Reconcile

LEMMA AgentStepKeeps ==
    ASSUME IInv, NEW n \in Nodes, AgentStep(n)
    PROVE  Kept
<1>0. /\ lv \subseteq Nodes /\ access \subseteq Nodes
      /\ ready \subseteq Nodes /\ down \subseteq Nodes /\ faults \in 0..MaxFaults
    BY DEF IInv, TypeOK
<1>1. CASE SyncGet(n)
    BY <1>1, SyncGetKeeps
<1>2. CASE CreateVolume(n)
    BY <1>0, <1>2, ActKeeps DEF CreateVolume
<1>3. CASE CreateVolumeMismatch(n)
    BY <1>0, <1>3, RestKeeps, Zenon DEF CreateVolumeMismatch, agentOnly, api, state, pools, storage
<1>4. CASE CreateOpenAccess(n)
    BY <1>0, <1>4, ActKeeps DEF CreateOpenAccess
<1>5. CASE UpdateOnly(n)
    BY <1>0, <1>5, ActKeeps DEF UpdateOnly, storage
<1>6. CASE RemoveAccess(n)
    BY <1>0, <1>6, ActKeeps DEF RemoveAccess
<1>7. CASE DeleteVolume(n)
    BY <1>0, <1>7, ActKeeps DEF DeleteVolume
<1>8. CASE SyncUpdate(n)
    BY <1>8, SyncUpdateKeeps
<1> QED
    BY <1>1, <1>2, <1>3, <1>4, <1>5, <1>6, <1>7, <1>8 DEF AgentStep

LEMMA EnvironmentKeeps ==
    ASSUME IInv, Environment
    PROVE  Kept
<1>0. ready \subseteq Nodes /\ down \subseteq Nodes /\ faults \in 0..MaxFaults
    BY DEF IInv, TypeOK
<1>1. ASSUME NEW o \in NewVolumes, Create(o)
      PROVE  Kept
    BY <1>1, CreateKeeps
<1>2. CASE Delete
    BY <1>2, DeleteKeeps
<1>3. CASE Age
    BY <1>3, AgeKeeps DEF Age, state, pools, storage
<1>4. CASE RestartController
    BY <1>4, RestartKeeps
<1>5. ASSUME NEW n \in Nodes, AgentCrash(n)
      PROVE  Kept
    <2>1. faults' \in 0..MaxFaults
        BY <1>0, <1>5, LifecycleAssumption DEF AgentCrash
    <2> QED
        BY <1>0, <1>5, <2>1, RestKeeps, Zenon DEF AgentCrash, api, state, pools, storage
<1>6. ASSUME NEW n \in Nodes, NodeFail(n)
      PROVE  Kept
    BY <1>0, <1>6, RestKeeps, Zenon DEF NodeFail, api, state, storage
<1>7. ASSUME NEW n \in Nodes, MarkNotReady(n) \/ MarkReady(n)
      PROVE  Kept
    BY <1>0, <1>7, RestKeeps DEF MarkNotReady, MarkReady, api, state, storage
<1> QED
    BY <1>1, <1>2, <1>3, <1>4, <1>5, <1>6, <1>7 DEF Environment

LEMMA NextKeeps == IInv /\ [Next]_vars => Kept
<1> SUFFICES ASSUME IInv, [Next]_vars
             PROVE  Kept
    OBVIOUS
<1>1. CASE Next
    BY <1>1, ReconcileKeeps, AgentStepKeeps, EnvironmentKeeps, DeliverKeeps DEF Next
<1>2. CASE UNCHANGED vars
    <2>1. StateStep /\ Frame /\ UNCHANGED <<obj, held, feed, volIDMap>>
        BY <1>2 DEF vars, api, state, pools, storage, StateStep, Frame, IInv, TypeOK
    <2> QED
        BY <2>1, NoWriteStep
<1> QED
    BY <1>1, <1>2

(* Every reachable state satisfies the invariant. *)
LEMMA Invariance == Spec => []IInv
BY InitIInv, NextKeeps, PTL DEF Spec, Kept

(* The variables keep their types, for every set of nodes and every bound. *)
THEOREM TypeCorrect == Spec => []TypeOK
<1>1. IInv => TypeOK
    BY DEF IInv
<1> QED
    BY <1>1, Invariance, PTL

(* The space of a logical volume that is in use is always counted on its node:
   no interleaving of stale reads, refused writes, crashes and restarts makes the
   scheduler believe it is free. *)
THEOREM VolumeCounted == Spec => []LiveVolumeCounted
<1>1. IInv => LiveVolumeCounted
    <2> SUFFICES ASSUME IInv, obj # None, ~obj.deleting
                 PROVE  lv \subseteq inNode
        BY DEF LiveVolumeCounted
    <2>1. lv \subseteq {obj.target} /\ lv \subseteq Nodes
        BY DEF IInv, TypeOK, AgentInv
    <2> QED
        BY <2>1, LifecycleAssumption DEF IInv, StateInv
<1> QED
    BY <1>1, Invariance, PTL

(* The lifecycle implements the contract, whatever the interleaving of the
   reconciler's stale reads, conflicts, crashes, restarts and the agents' writes:
   a volume is placed once, its space is counted there alone while it is live,
   and an admitted one leaves the State before it leaves the API server. *)
THEOREM KeepsContract == Spec => Contract
<1>1. Init => C!Init
    BY DEF Init, C!Init, phase, place
<1>2. IInv /\ [Next]_vars => [C!Next]_(C!vars)
    BY NextKeeps DEF Kept
<1> QED
    BY <1>1, <1>2, Invariance, PTL DEF Spec, Contract, C!Spec

-----------------------------------------------------------------------------
(* What is behind the object. *)

(* What the object says of the node's storage is so, until it is deleted. *)
Backed(o) ==
    o # None /\ ~o.deleting =>
        /\ "logic-volume" \in o.finalizers => o.target \in lv
        /\ "spdk-tgt" \in o.finalizers => o.target \in access
        /\ o.status = "ready" => /\ o.target \in lv
                                 /\ NeedsAccess(o.target) => o.target \in access

(* An agent removes only what backs a deleted volume, and what it is about to
   report is there. *)
CopyBacked(n) ==
    agt[n].pc # "idle" =>
        /\ agt[n].copy.deleting => Deleted(obj)
        /\ agt[n].pc = "write" /\ Plan(n, agt[n].copy) = "createVolume" => n \in lv
        /\ agt[n].pc = "write" /\ Plan(n, agt[n].copy) = "createOpenAccess" => n \in access

BackInv == Backed(obj) /\ \A n \in Nodes : CopyBacked(n)

(* A version that claims no more than the object does. *)
Milder(o) ==
    /\ obj # None
    /\ obj.deleting => o.deleting
    /\ obj.target # None => o.target = obj.target
    /\ \A f \in {"logic-volume", "spdk-tgt"} : f \in o.finalizers => f \in obj.finalizers
    /\ o.status = "ready" => obj.status = "ready"

LEMMA MilderBacked ==
    ASSUME IInv, BackInv, NEW o \in Volume, Milder(o)
    PROVE  Backed(o)
<1>1. SUFFICES ASSUME ~o.deleting, \/ "logic-volume" \in o.finalizers
                                   \/ "spdk-tgt" \in o.finalizers
                                   \/ o.status = "ready"
               PROVE  Backed(o)
    BY Zenon DEF Backed
<1>2. ~obj.deleting /\ obj # None
    BY <1>1, Zenon DEF Milder
<1>3. obj.target \in lv \/ obj.target \in access
    BY <1>1, <1>2, Zenon DEF Milder, BackInv, Backed
<1>4. obj.target # None
    BY <1>3, LifecycleAssumption, Zenon DEF IInv, TypeOK
<1> QED
    BY <1>2, <1>4, Zenon DEF Milder, BackInv, Backed

(* The object after a write. *)
LEMMA PublishOutcome ==
    ASSUME NEW o, Publish(o) \/ Refused
    PROVE  obj' = obj \/ obj' = None \/ obj' = o
BY Zenon DEF Publish, Refused, Settle

(* A write of what the storage backs, which the agents may drop their copies
   for. *)
LEMMA WriteBacked ==
    ASSUME IInv, BackInv, UNCHANGED <<lv, access>>,
           \A n \in Nodes : agt'[n] = agt[n] \/ agt'[n] = Resting,
           NEW o, Publish(o) \/ Refused, obj # None, obj.deleting => o.deleting, Backed(o)
    PROVE  BackInv'
<1>1. obj' = obj \/ obj' = None \/ obj' = o
    BY PublishOutcome, Zenon
<1>2. Backed(obj)'
    <2>1. CASE obj' = obj
        BY <2>1, Zenon DEF BackInv, Backed
    <2>2. CASE obj' = None
        BY <2>2, Zenon DEF Backed
    <2>3. CASE obj' = o
        BY <2>3, Zenon DEF Backed
    <2> QED
        BY <1>1, <2>1, <2>2, <2>3, Zenon
<1>3. Deleted(obj) => Deleted(obj)'
    BY <1>1, Zenon DEF Deleted
<1>4. ASSUME NEW n \in Nodes
      PROVE  CopyBacked(n)'
    <2>1. CASE agt'[n] = agt[n]
        BY <1>3, <2>1, Zenon DEF BackInv, CopyBacked
    <2>2. CASE agt'[n] = Resting
        <3>1. agt'[n].pc = "idle"
            BY <2>2 DEF Resting
        <3> QED
            BY <3>1, Zenon DEF CopyBacked
    <2> QED
        BY <2>1, <2>2, Zenon
<1> QED
    BY <1>2, <1>4, Zenon DEF BackInv

(* A write that claims no more. *)
LEMMA MildWrite ==
    ASSUME IInv, BackInv, UNCHANGED <<lv, access, agt>>,
           NEW o \in Volume, Milder(o), Publish(o) \/ Refused
    PROVE  BackInv'
<1>1. Backed(o) /\ obj # None /\ (obj.deleting => o.deleting)
    BY MilderBacked, Zenon DEF Milder
<1> QED
    BY <1>1, WriteBacked, Zenon

LEMMA NoWriteBacked ==
    ASSUME BackInv, UNCHANGED <<obj, lv, access>>,
           \A n \in Nodes : agt'[n] = agt[n] \/ agt'[n] = Resting
    PROVE  BackInv'
<1>1. Backed(obj)'
    BY Zenon DEF BackInv, Backed
<1>2. ASSUME NEW n \in Nodes
      PROVE  CopyBacked(n)'
    <2>1. CASE agt'[n] = agt[n]
        BY <2>1, Zenon DEF BackInv, CopyBacked, Deleted
    <2>2. CASE agt'[n] = Resting
        <3>1. agt'[n].pc = "idle"
            BY <2>2 DEF Resting
        <3> QED
            BY <3>1, Zenon DEF CopyBacked
    <2> QED
        BY <2>1, <2>2, Zenon
<1> QED
    BY <1>1, <1>2, Zenon DEF BackInv

-----------------------------------------------------------------------------
(* The steps and what is behind the object. *)

LEMMA ReconcileBacked ==
    ASSUME IInv, BackInv, Reconcile
    PROVE  BackInv'
<1> USE LifecycleAssumption
<1>1. cache # None /\ UNCHANGED <<lv, access, agt>>
    BY Zenon DEF Reconcile, AddUuidLabel, InitStatus, BindTarget, PersistBinding, Schedule,
       FinishDeletion, StripFinalizers, untouched, storage
<1>2. CASE Refused
    BY <1>1, <1>2, NoWriteBacked, Zenon DEF Refused
<1>3. ASSUME NEW o, obj # None, Publish(o), o \in Volume, Milder(o)
      PROVE  BackInv'
    BY <1>1, <1>3, MildWrite, Zenon
<1>4. obj # None => obj \in Volume
    BY Zenon DEF IInv, TypeOK
<1>5. CASE AddUuidLabel
    <2> DEFINE o == [obj EXCEPT !.uuidLabel = TRUE]
    <2>1. SUFFICES ASSUME obj # None, Publish(o) PROVE BackInv'
        BY <1>2, <1>5, Zenon DEF AddUuidLabel, Patch
    <2>2. /\ o \in Volume /\ o.target = obj.target /\ o.deleting = obj.deleting
          /\ o.finalizers = obj.finalizers /\ o.status = obj.status
        BY <1>4, <2>1, Zenon DEF Volume
    <2> HIDE DEF o
    <2> QED
        BY <1>3, <2>1, <2>2, Zenon DEF Milder
<1>6. CASE InitStatus
    <2> DEFINE o == [obj EXCEPT !.status = "creating"]
    <2>1. SUFFICES ASSUME obj # None, Publish(o) PROVE BackInv'
        BY <1>1, <1>2, <1>6, Zenon DEF InitStatus, Update
    <2>2. /\ o \in Volume /\ o.target = obj.target /\ o.deleting = obj.deleting
          /\ o.finalizers = obj.finalizers /\ o.status = "creating"
        BY <1>4, <2>1, Zenon DEF Volume
    <2> HIDE DEF o
    <2> QED
        BY <1>3, <2>1, <2>2, Zenon DEF Milder
<1>7. CASE BindTarget
    <2> DEFINE F == IF "in-state" \in cache.finalizers THEN obj.finalizers
                    ELSE cache.finalizers \cup {"in-state"}
               o == [obj EXCEPT !.targetLabel = TRUE, !.finalizers = F]
    <2>1. SUFFICES ASSUME obj # None, Publish(o) PROVE BackInv'
        BY <1>2, <1>7, Zenon DEF BindTarget, Patch
    <2>2. "in-state" \notin cache.finalizers => cache.finalizers = {}
        BY <1>1, Zenon DEF IInv, VersionInv, Agrees
    <2>3. F = obj.finalizers \/ F = {"in-state"}
        BY <2>2
    <2>4. F \subseteq Finalizers
        BY <1>4, <2>1, <2>3, Zenon DEF Volume, Finalizers
    <2>5. \A f \in {"logic-volume", "spdk-tgt"} : f \in F => f \in obj.finalizers
        BY <2>3, Zenon
    <2> HIDE DEF F
    <2>6. /\ o \in Volume /\ o.target = obj.target /\ o.deleting = obj.deleting
          /\ o.finalizers = F /\ o.status = obj.status
        BY <1>4, <2>1, <2>4, Zenon DEF Volume
    <2> HIDE DEF o
    <2> QED
        BY <1>3, <2>1, <2>5, <2>6, Zenon DEF Milder
<1>8. CASE PersistBinding
    <2> DEFINE o == [obj EXCEPT !.target = volIDMap]
    <2>1. SUFFICES ASSUME obj # None, obj.target = None, Publish(o) PROVE BackInv'
        BY <1>1, <1>2, <1>8, Zenon DEF PersistBinding, Update
    <2>2. volIDMap \in Nodes \cup {None}
        BY Zenon DEF IInv, TypeOK
    <2>3. /\ o \in Volume /\ o.deleting = obj.deleting
          /\ o.finalizers = obj.finalizers /\ o.status = obj.status
        BY <1>4, <2>1, <2>2, Zenon DEF Volume
    <2> HIDE DEF o
    <2> QED
        BY <1>3, <2>1, <2>3, Zenon DEF Milder
<1>9. ASSUME NEW n \in Nodes, Schedule(n)
      PROVE  BackInv'
    <2> DEFINE o == [obj EXCEPT !.target = n, !.targetLabel = TRUE]
    <2>1. SUFFICES ASSUME obj # None, Publish(o) PROVE BackInv'
        BY <1>2, <1>9, Zenon DEF Schedule, Patch
    <2>2. obj.target = None
        BY <1>1, <1>9, <2>1, ScheduledOnce, Zenon
    <2>3. /\ o \in Volume /\ o.deleting = obj.deleting
          /\ o.finalizers = obj.finalizers /\ o.status = obj.status
        BY <1>4, <2>1, Zenon DEF Volume
    <2> HIDE DEF o
    <2> QED
        BY <1>3, <2>1, <2>2, <2>3, Zenon DEF Milder
<1>10. CASE FinishDeletion \/ StripFinalizers
    <2>1. SUFFICES ASSUME obj = cache, obj # None, obj.deleting,
                          NEW F \in SUBSET Finalizers, F \subseteq obj.finalizers,
                          Publish([obj EXCEPT !.finalizers = F])
                   PROVE  BackInv'
        <3>1. obj = cache => /\ {} \in SUBSET Finalizers /\ {} \subseteq obj.finalizers
                             /\ obj.finalizers \ {"lvm", "spdk-tgt"} \in SUBSET Finalizers
                             /\ obj.finalizers \ {"lvm", "spdk-tgt"} \subseteq obj.finalizers
            BY <1>1, <1>4, Zenon DEF Volume
        <3>2. CASE FinishDeletion
            BY <1>1, <1>2, <2>1, <3>1, <3>2, Zenon DEF FinishDeletion, Update
        <3>3. CASE StripFinalizers
            BY <1>1, <1>2, <2>1, <3>1, <3>3, Zenon DEF StripFinalizers, Update
        <3> QED
            BY <1>10, <3>2, <3>3
    <2> DEFINE o == [obj EXCEPT !.finalizers = F]
    <2>2. /\ o \in Volume /\ o.target = obj.target /\ o.deleting = obj.deleting
          /\ o.finalizers = F /\ o.status = obj.status
        BY <1>4, <2>1, Zenon DEF Volume
    <2>3. Publish(o)
        BY <2>1
    <2> HIDE DEF o
    <2> QED
        BY <1>3, <2>1, <2>2, <2>3, Zenon DEF Milder
<1> QED
    BY <1>5, <1>6, <1>7, <1>8, <1>9, <1>10, Zenon DEF Reconcile

LEMMA EnvironmentBacked ==
    ASSUME IInv, BackInv, Environment
    PROVE  BackInv'
<1>1. ASSUME NEW o \in NewVolumes, Create(o)
      PROVE  BackInv'
    <2>1. PICK u, f \in BOOLEAN : o = NewVolume(u, f)
        BY LifecycleAssumption
    <2>2. o.finalizers = {} /\ o.status = ""
        BY <2>1, Zenon DEF NewVolume
    <2>3. obj' = obj \/ obj' = None \/ obj' = o
        BY <1>1, PublishOutcome, Zenon DEF Create
    <2>4. obj = None /\ \A n \in Nodes : agt[n] = Resting
        BY <1>1, Zenon DEF IInv, ObjInv, Create
    <2>5. Backed(obj)'
        BY <2>2, <2>3, <2>4, Zenon DEF Backed
    <2>6. \A n \in Nodes : agt'[n].pc = "idle"
        BY <1>1, <2>4 DEF Create, Resting
    <2> QED
        BY <2>5, <2>6, Zenon DEF BackInv, CopyBacked
<1>2. CASE Delete
    <2> DEFINE o == [obj EXCEPT !.deleting = TRUE]
    <2>1. obj \in Volume /\ obj # None /\ Publish(o) /\ UNCHANGED <<lv, access, agt>>
        BY <1>2, Zenon DEF IInv, TypeOK, Delete, storage
    <2>2. /\ o \in Volume /\ o.target = obj.target /\ o.deleting = TRUE
          /\ o.finalizers = obj.finalizers /\ o.status = obj.status
        BY <2>1, Zenon DEF Volume
    <2> HIDE DEF o
    <2>3. Milder(o)
        BY <2>1, <2>2, Zenon DEF Milder
    <2> QED
        BY <2>1, <2>2, <2>3, MildWrite, Zenon
<1>3. CASE Age \/ RestartController
    BY <1>3, NoWriteBacked, Zenon DEF Age, RestartController, storage, api
<1>4. ASSUME NEW n \in Nodes,
             AgentCrash(n) \/ NodeFail(n) \/ MarkNotReady(n) \/ MarkReady(n)
      PROVE  BackInv'
    <2>1. /\ UNCHANGED <<obj, lv, access>>
          /\ agt' = agt \/ agt' = [agt EXCEPT ![n] = Resting]
        BY <1>4, Zenon DEF AgentCrash, NodeFail, MarkNotReady, MarkReady, storage, api
    <2>2. \A m \in Nodes : agt'[m] = agt[m] \/ agt'[m] = Resting
        BY <2>1, Zenon DEF IInv, TypeOK
    <2> QED
        BY <2>1, <2>2, NoWriteBacked, Zenon
<1> QED
    BY <1>1, <1>2, <1>3, <1>4, Zenon DEF Environment

(* The agent of n has acted on the storage of n and on no other. *)
LEMMA ActBacked ==
    ASSUME IInv, BackInv, NEW n \in Nodes, NEW op, Acts(n, op),
           \A m \in Nodes \ {n} : (m \in lv => m \in lv') /\ (m \in access => m \in access'),
           \/ Deleted(obj)
           \/ (n \in lv => n \in lv') /\ (n \in access => n \in access'),
           op = "createVolume" => n \in lv',
           op = "createOpenAccess" => n \in access'
    PROVE  BackInv'
<1>1. /\ UNCHANGED obj /\ agt[n].pc = "act" /\ Plan(n, agt[n].copy) = op
      /\ agt' = [agt EXCEPT ![n].pc = "write"]
    BY Zenon DEF Acts, agentOnly, api
<1>2. /\ agt'[n].pc = "write" /\ agt'[n].copy = agt[n].copy
      /\ \A m \in Nodes \ {n} : agt'[m] = agt[m]
    BY <1>1, Zenon DEF IInv, TypeOK
<1>3. Backed(obj)'
    <2>1. CASE Deleted(obj)
        BY <1>1, <2>1, Zenon DEF Backed, Deleted
    <2>2. CASE ~Deleted(obj)
        <3>1. lv \subseteq lv' /\ access \subseteq access'
            BY <2>2, Zenon DEF IInv, TypeOK
        <3> QED
            BY <1>1, <3>1, Zenon DEF BackInv, Backed
    <2> QED
        BY <2>1, <2>2
<1>4. CopyBacked(n)'
    BY <1>1, <1>2, Zenon DEF BackInv, CopyBacked, Deleted
<1>5. ASSUME NEW m \in Nodes \ {n}
      PROVE  CopyBacked(m)'
    <2>1. CopyBacked(m)
        BY Zenon DEF BackInv
    <2> QED
        BY <1>1, <1>2, <2>1, Zenon DEF CopyBacked, Deleted
<1> QED
    BY <1>3, <1>4, <1>5, Zenon DEF BackInv

(* What is reported ready has both finalizers it needs in the copy, and the
   object is still that copy. *)
LEMMA SyncUpdateBacked ==
    ASSUME IInv, BackInv, NEW n \in Nodes, SyncUpdate(n)
    PROVE  BackInv'
<1>1. /\ agt[n].pc = "write" /\ agt' = [agt EXCEPT ![n] = Resting]
      /\ UNCHANGED <<lv, access>>
    BY Zenon DEF SyncUpdate, storage
<1>2. \A m \in Nodes : agt'[m] = agt[m] \/ agt'[m] = Resting
    BY <1>1, Zenon DEF IInv, TypeOK
<1>3. CASE Refused
    BY <1>1, <1>2, <1>3, NoWriteBacked, Zenon DEF Refused
<1>4. CASE obj = agt[n].copy /\ Publish(Intent(n, obj))
    <2> DEFINE o == Intent(n, obj)
               p == Plan(n, obj)
    <2>1. obj \in Volume /\ obj # None /\ obj.target = n
        BY <1>1, <1>4, LifecycleAssumption DEF IInv, TypeOK, AgentInv
    <2>2. /\ o \in Volume /\ o.target = n
          /\ o.deleting <=> obj.deleting
        BY <2>1, IntentVersion
    <2>3. /\ p = "createVolume" => n \in lv
          /\ p = "createOpenAccess" => n \in access
        BY <1>1, <1>4, Zenon DEF BackInv, CopyBacked
    <2>4. Backed(obj)
        BY Zenon DEF BackInv
    <2>5. Backed(o)
        <3>1. SUFFICES ASSUME ~obj.deleting PROVE Backed(o)
            BY <2>2, Zenon DEF Backed
        <3>2. CASE p = "createVolume"
            <4>1. o = [obj EXCEPT !.finalizers = obj.finalizers \cup {"logic-volume"}]
                BY <3>2 DEF Intent
            <4>2. o.finalizers = obj.finalizers \cup {"logic-volume"} /\ o.status = obj.status
                BY <2>1, <4>1, Zenon DEF Volume
            <4> QED
                BY <2>1, <2>2, <2>3, <2>4, <3>1, <3>2, <4>2, Zenon DEF Backed
        <3>3. CASE p = "createOpenAccess"
            <4>1. o = [obj EXCEPT !.spdkTarget = TRUE,
                                  !.finalizers = obj.finalizers \cup {"spdk-tgt"}]
                BY <3>3 DEF Intent
            <4>2. o.finalizers = obj.finalizers \cup {"spdk-tgt"} /\ o.status = obj.status
                BY <2>1, <4>1, Zenon DEF Volume
            <4> QED
                BY <2>1, <2>2, <2>3, <2>4, <3>1, <3>3, <4>2, Zenon DEF Backed
        <3>4. CASE p = "setReady"
            <4>1. o = [obj EXCEPT !.status = "ready"]
                BY <3>4 DEF Intent
            <4>2. o.finalizers = obj.finalizers
                BY <2>1, <4>1, Zenon DEF Volume
            <4>3. /\ "logic-volume" \in obj.finalizers
                  /\ NeedsAccess(n) => "spdk-tgt" \in obj.finalizers
                BY <3>1, <3>4 DEF Plan, CreationPlan
            <4>4. n \in lv /\ (NeedsAccess(n) => n \in access)
                BY <2>1, <2>4, <3>1, <4>3, Zenon DEF Backed
            <4> QED
                BY <2>1, <2>2, <2>4, <3>1, <4>2, <4>4, Zenon DEF Backed
        <3>5. CASE p \in {"updateVolumeType", "nothing"}
            <4>1. o = obj \/ o = [obj EXCEPT !.flexible = FALSE]
                BY <3>5 DEF Intent
            <4>2. o.finalizers = obj.finalizers /\ o.status = obj.status
                BY <2>1, <4>1, Zenon DEF Volume
            <4> QED
                BY <2>1, <2>2, <2>4, <3>1, <4>2, Zenon DEF Backed
        <3> QED
            BY <3>1, <3>2, <3>3, <3>4, <3>5 DEF Plan, CreationPlan
    <2> QED
        BY <1>1, <1>2, <1>4, <2>1, <2>2, <2>5, WriteBacked, Zenon
<1> QED
    BY <1>3, <1>4, Zenon DEF SyncUpdate

LEMMA AgentStepBacked ==
    ASSUME IInv, BackInv, NEW n \in Nodes, AgentStep(n)
    PROVE  BackInv'
<1>1. CASE SyncGet(n)
    <2>1. /\ UNCHANGED <<obj, lv, access>>
          /\ agt' = [agt EXCEPT ![n] = [pc |-> "act", copy |-> obj]]
        BY <1>1, Zenon DEF SyncGet, agentOnly, api, storage
    <2>2. /\ agt'[n].pc = "act" /\ agt'[n].copy = obj
          /\ \A m \in Nodes \ {n} : agt'[m] = agt[m]
        BY <2>1, Zenon DEF IInv, TypeOK
    <2>3. Backed(obj)'
        BY <2>1, Zenon DEF BackInv, Backed
    <2>4. CopyBacked(n)'
        BY <2>1, <2>2, Zenon DEF CopyBacked, Deleted
    <2>5. \A m \in Nodes \ {n} : CopyBacked(m)'
        BY <2>1, <2>2, Zenon DEF BackInv, CopyBacked, Deleted
    <2> QED
        BY <2>3, <2>4, <2>5, Zenon DEF BackInv
<1>2. CASE CreateVolume(n) \/ CreateOpenAccess(n) \/ UpdateOnly(n)
    <2>1. CASE CreateVolume(n)
        BY <2>1, ActBacked, Zenon DEF CreateVolume
    <2>2. CASE CreateOpenAccess(n)
        BY <2>2, ActBacked, Zenon DEF CreateOpenAccess
    <2>3. CASE UpdateOnly(n)
        BY <2>3, ActBacked, Zenon DEF UpdateOnly, storage
    <2> QED
        BY <1>2, <2>1, <2>2, <2>3
<1>3. ASSUME NEW op \in {"removeAccess", "removeLeftAccess", "deleteVolume"}, Acts(n, op)
      PROVE  Deleted(obj)
    <2>1. agt[n].pc = "act" /\ Plan(n, agt[n].copy) = op
        BY <1>3, Zenon DEF Acts
    <2>2. agt[n].copy.deleting
        BY <1>3, <2>1 DEF Plan, CreationPlan
    <2> QED
        BY <2>1, <2>2, Zenon DEF BackInv, CopyBacked
<1>4. CASE RemoveAccess(n)
    BY <1>3, <1>4, ActBacked, Zenon DEF RemoveAccess
<1>5. CASE DeleteVolume(n)
    <2>1. \A m \in Nodes \ {n} : (m \in lv => m \in lv') /\ (m \in access => m \in access')
        BY <1>5, Zenon DEF DeleteVolume
    <2> QED
        BY <1>3, <1>5, <2>1, ActBacked, Zenon DEF DeleteVolume
<1>6. CASE CreateVolumeMismatch(n)
    <2>1. UNCHANGED <<obj, lv, access>> /\ agt' = [agt EXCEPT ![n] = Resting]
        BY <1>6, Zenon DEF CreateVolumeMismatch, agentOnly, api, storage
    <2>2. \A m \in Nodes : agt'[m] = agt[m] \/ agt'[m] = Resting
        BY <2>1, Zenon DEF IInv, TypeOK
    <2> QED
        BY <2>1, <2>2, NoWriteBacked, Zenon
<1>7. CASE SyncUpdate(n)
    BY <1>7, SyncUpdateBacked
<1> QED
    BY <1>1, <1>2, <1>4, <1>5, <1>6, <1>7, Zenon DEF AgentStep

(* A volume that is reported ready has its logical volume and, where the host
   needs one, its target: nothing that an agent or the controller does with an
   old copy takes them away before the deletion, nor reports them without. *)
THEOREM ReadyBacked == Spec => []ReadyIsBacked
<1>1. Init => BackInv
    <2> SUFFICES ASSUME Init PROVE BackInv
        OBVIOUS
    <2>1. obj = None /\ \A n \in Nodes : agt[n].pc = "idle"
        BY DEF Init, Resting
    <2> QED
        BY <2>1, Zenon DEF BackInv, Backed, CopyBacked
<1>2. IInv /\ BackInv /\ [Next]_vars => BackInv'
    <2> SUFFICES ASSUME IInv, BackInv, [Next]_vars PROVE BackInv'
        OBVIOUS
    <2>1. CASE Deliver \/ UNCHANGED vars
        BY <2>1, NoWriteBacked, Zenon DEF Deliver, vars, api, storage
    <2> QED
        BY <2>1, ReconcileBacked, AgentStepBacked, EnvironmentBacked, Zenon DEF Next
<1>3. BackInv => ReadyIsBacked
    BY Zenon DEF BackInv, Backed, ReadyIsBacked
<1> QED
    BY <1>1, <1>2, <1>3, Invariance, PTL DEF Spec
=============================================================================
